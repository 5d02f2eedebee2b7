-------------------------- MODULE MCObjects --------------------------
(*****************************************************************************)
(* What the daemon makes, keeps and takes away again: stacks, CI engines, helpers *)
(* and their records, setup assets, and what no stack or run owns any more.  *)
(*                                                                           *)
(* A behaviour exercises one part, chosen at the start, with the bounds      *)
(* given here; the parts never share state, so they share the slots it is    *)
(* kept in, and the states of the parts add up instead of multiplying.       *)
(* Since the part never changes, weak fairness of a disjunction of steps, one *)
(* for each part, is weak fairness of the step of the part that was chosen:  *)
(* each part has the fairness of its own specification.                      *)
(*****************************************************************************)
EXTENDS Integers, Sequences, FiniteSets, TLC

CONSTANTS Null

VARIABLES part,   \* the part this behaviour exercises
          s1, s2, s3, s4, s5, s6, s7, s8, s9, s10, s11, s12, s13, s14, s15, s16, s17, s18   \* its state, one slot for each of its variables

slots ==
  <<part, s1, s2, s3, s4, s5, s6, s7, s8, s9, s10, s11, s12, s13, s14, s15, s16, s17, s18>>

Volume(age, bytes, ws) == [kind |-> "volume", own |-> "ours", pinned |-> FALSE, age |-> age,
                           bytes |-> bytes, ws |-> ws, running |-> FALSE, uses |-> {}]
Box(age, uses) == [Volume(age, 1, 0) EXCEPT !.kind = "container", !.uses = uses]
Objects ==
  {Volume(a, b, w) : a \in {1, 3, 5}, b \in {-1, 2}, w \in {1, 2}}
  \union {[Volume(5, 2, 0) EXCEPT !.own = w] : w \in {"foreign", "incomplete", "unlabelled"}}
  \union {[Volume(5, 2, 1) EXCEPT !.pinned = TRUE], [Volume(5, 1, 0) EXCEPT !.kind = "image"],
          [Volume(5, 1, 0) EXCEPT !.kind = "network"]}
EngineWorlds ==
  {<<b, v, w, Volume(3, 1, 1)>> : b \in {Box(3, {2}), Box(1, {3})}, v \in Objects, w \in Objects}
  \union {<<Box(-1, {}), Volume(5, 2, 0)>>}
PassPolicies ==
  {[container |-> 2, volume |-> 4, image |-> 4, floor |-> 2, budget |-> b[1], max |-> b[2]] :
     b \in {<<-1, -1>>, <<2, -1>>, <<1, 2>>}}
WorkspaceFacts == {<<"gone", "f">>, <<"f", "f">>}

HelperRuns == [h \in {2} |-> 1]

HelperNonces == "d1" :> {1, 2}

Inline(files) == [version |-> 1, app |-> "inline", mounts |-> {}, files |-> files]
SetupDocuments == {Inline(<<<<"a">>>>), Inline(<<<<"b">>, <<"b", "c">>>>), Inline(<<<<".", "a">>>>),
                   [Inline(<<>>) EXCEPT !.mounts = {<<"..">>}],
                   [Inline(<<>>) EXCEPT !.app = "pinned"]}

-----------------------------------------------------------------------------
(* Two generations of a stack share a volume; three requests. *)

A == INSTANCE Apps WITH
  Gen <- {"g1", "g2"}, Data <- "data", Ensurer <- {"e1"}, Tasker <- {"t1"}, MaxAsked <- 3,
  MaxCrashes <- 0, stack <- s1, row <- s2, vrow <- s3, intents <- s4, sess <- s5, box <- s6,
  vol <- s7, busy <- s8, boxOld <- s9, volOld <- s10, ens <- s11, task <- s12, stopper <- s13,
  gc <- s14, keep <- s15, up <- s16, crashes <- s17, asked <- s18

AppsInit ==
  /\ part = "apps" /\ A!AppInit
InApps ==
  /\ part = "apps" /\ UNCHANGED <<part>>
AppsMoves == InApps /\ A!AppNext

(* One engine, one flow that retires it, two helpers; one fault at any step. *)

E == INSTANCE EngineRecords WITH
  Run <- {"r"}, Retirer <- {"k1"}, Nonce <- {1, 2}, MaxFaults <- 1, rec <- s1, box <- s2,
  vol <- s3, ctx <- s4, store <- s5, expired <- s6, settled <- s7, journal <- s8, cont <- s9,
  lapsed <- s10, exit <- s11, daemon <- s12, window <- s13, todo <- s14, maker <- s15,
  agent <- s16, faults <- s17

EngineRecordsInit ==
  /\ part = "records" /\ E!ERInit /\ s18 = 0
InEngineRecords ==
  /\ part = "records" /\ UNCHANGED <<part, s18>>
EngineRecordsMoves == InEngineRecords /\ E!ERNext

(* A container, two volumes of every sort and a third, under three budgets. *)

V == INSTANCE RetentionPlan WITH
  Worlds <- EngineWorlds, Policies <- PassPolicies, Facts <- WorkspaceFacts, OwnedCeiling <- 5,
  PressureTTL <- 1, FamilyKeep <- 1, MaxRemovals <- 2, objects <- s1, policy <- s2, facts <- s3,
  stage <- s4, plan <- s5, quiet <- s6
ASSUME RetentionPlanConstants == V!PlanAssumption

RetentionPlanInit ==
  /\ part = "retention" /\ V!PlanInit /\ s7 = 0 /\ s8 = 0 /\ s9 = 0 /\ s10 = 0 /\ s11 = 0
  /\ s12 = 0 /\ s13 = 0 /\ s14 = 0 /\ s15 = 0 /\ s16 = 0 /\ s17 = 0 /\ s18 = 0
InRetentionPlan ==
  /\ part = "retention"
  /\ UNCHANGED <<part, s7, s8, s9, s10, s11, s12, s13, s14, s15, s16, s17, s18>>
RetentionPlanMoves == InRetentionPlan /\ V!RetentionNext

(* A container, an image, an anonymous and a named volume; one change by others, one failure. *)

U == INSTANCE Unmanaged WITH
  Boxes <- {"box"}, Pics <- {"pic"}, Vols <- {"anon", "named"}, NamedVols <- {"named"},
  MaxMoves <- 1, MaxMishaps <- 1, eng <- s1, gc <- s2, renewed <- s3, swept <- s4, moves <- s5,
  mishaps <- s6
ASSUME UnmanagedConstants == U!UnmanagedAssumption

UnmanagedInit ==
  /\ part = "unmanaged" /\ U!GcInit /\ s7 = 0 /\ s8 = 0 /\ s9 = 0 /\ s10 = 0 /\ s11 = 0
  /\ s12 = 0 /\ s13 = 0 /\ s14 = 0 /\ s15 = 0 /\ s16 = 0 /\ s17 = 0 /\ s18 = 0
InUnmanaged ==
  /\ part = "unmanaged"
  /\ UNCHANGED <<part, s7, s8, s9, s10, s11, s12, s13, s14, s15, s16, s17, s18>>
UnmanagedMoves == InUnmanaged /\ U!GcNext

(* An engine and its helper; pages of two and of one, so that an upgrade and a collection take several. *)

C == INSTANCE CiState WITH
  EngineId <- {1}, HelperId <- {2}, RunOfHelper <- HelperRuns, MaxLegacy <- 3, MigratePage <- 2,
  AuditTail <- 2, CiCapacity <- 2, KeepTime <- 1, CollectLimit <- 1, MaxTime <- 3, MaxEvents <- 4,
  MaxFails <- 1, schema <- s1, migration <- s2, log <- s3, kept <- s4, current <- s5, made <- s6,
  floor <- s7, page <- s8, leased <- s9, serving <- s10, now <- s11, fails <- s12,
  pressure <- s13, collected <- s14
ASSUME CiStateConstants == C!CiStateAssumption

CiStateInit ==
  /\ part = "cistate" /\ C!CiStateInit /\ s15 = 0 /\ s16 = 0 /\ s17 = 0 /\ s18 = 0
InCiState ==
  /\ part = "cistate" /\ UNCHANGED <<part, s15, s16, s17, s18>>
CiStateMoves == InCiState /\ C!CiStateNext

(* Two helpers of one daemon, two policies it may find, two faults. *)

H == INSTANCE CacheCare WITH
  Daemons <- {"d1"}, NoncesOf <- HelperNonces, Policies <- {"p1", "p2"}, NoPolicy <- Null,
  NoHelper <- Null, MaxCacheFaults <- 2, cacheVol <- s1, cachePolicy <- s2, journal <- s3,
  helper <- s4, aged <- s5, active <- s6, task <- s7, mend <- s8, heldPolicy <- s9,
  passLock <- s10, cacheFaults <- s11
ASSUME CacheCareConstants == H!CareAssumption

CacheCareInit ==
  /\ part = "care" /\ H!CareInit /\ s12 = 0 /\ s13 = 0 /\ s14 = 0 /\ s15 = 0 /\ s16 = 0
  /\ s17 = 0 /\ s18 = 0
InCacheCare ==
  /\ part = "care" /\ UNCHANGED <<part, s12, s13, s14, s15, s16, s17, s18>>
CacheCareMoves == InCacheCare /\ H!CareNext

(* Two callers, documents good and bad, one that breaks off and one change from outside. *)

S == INSTANCE SetupAssets WITH
  SetupCallers <- {"k1", "k2"}, Documents <- SetupDocuments, Attempts <- 2, MaxServed <- 1,
  MaxBreaks <- 1, MaxTampers <- 1, MaxCalls <- 1, upstream <- s1, everServed <- s2, serves <- s3,
  cached <- s4, cacheTemps <- s5, roots <- s6, tags <- s7, call <- s8, breaks <- s9,
  tampers <- s10, slipped <- s11
ASSUME SetupAssetsConstants == S!SetupAssumption

SetupAssetsInit ==
  /\ part = "setup" /\ S!SetupInit /\ s12 = 0 /\ s13 = 0 /\ s14 = 0 /\ s15 = 0 /\ s16 = 0
  /\ s17 = 0 /\ s18 = 0
InSetupAssets ==
  /\ part = "setup" /\ UNCHANGED <<part, s12, s13, s14, s15, s16, s17, s18>>
SetupAssetsMoves == InSetupAssets /\ S!SetupNext

-----------------------------------------------------------------------------
PartsInit ==
  \/ AppsInit
  \/ EngineRecordsInit
  \/ RetentionPlanInit
  \/ UnmanagedInit
  \/ CiStateInit
  \/ CacheCareInit
  \/ SetupAssetsInit
PartsNext ==
  \/ AppsMoves
  \/ EngineRecordsMoves
  \/ RetentionPlanMoves
  \/ UnmanagedMoves
  \/ CiStateMoves
  \/ CacheCareMoves
  \/ SetupAssetsMoves
Step1 ==
  \/ InApps /\ A!Keeping
  \/ InEngineRecords /\ E!Restart
  \/ InRetentionPlan /\ (V!Choose \/ V!PlanPass \/ V!RemoveOwned \/ V!PassEnds)
  \/ InUnmanaged /\ U!PassStep
  \/ InCiState /\ C!OpenCiState
  \/ InCacheCare /\ H!Caring("d1")
  \/ InSetupAssets /\ S!SetupStep("k1")
Step2 ==
  \/ InApps /\ A!Returning
  \/ InEngineRecords /\ E!StartupStep
  \/ InUnmanaged /\ U!BeginPass({})
  \/ InCiState /\ C!MigrateStep
  \/ InCacheCare /\ H!Mending("d1")
  \/ InSetupAssets /\ S!SetupStep("k2")
Step3 ==
  \/ InApps /\ A!Ageing
  \/ InEngineRecords /\ E!DisposeSource
  \/ InUnmanaged /\ U!GrowOld
  \/ InCiState /\ C!Maintain
  \/ InCacheCare /\ H!Landing(<<"d1", 1>>)
Step4 ==
  \/ InEngineRecords /\ E!RecoverTools("r")
  \/ InCacheCare /\ H!Landing(<<"d1", 2>>)
Step5 ==
  \/ InEngineRecords /\ E!FinalizeSource("r")
  \/ InCacheCare /\ H!PassEnds
Step6 == InEngineRecords /\ E!Expire("r")
Step7 == InEngineRecords /\ E!Settle("r")
Step8 == InEngineRecords /\ E!MakerStep("r")
Step9 == InEngineRecords /\ E!RetireStep("k1")
Step10 == InEngineRecords /\ E!RetireStart("k1", "r")
Step11 == InEngineRecords /\ E!HelperStep("k1")
Step12 == InEngineRecords /\ E!HelperStep(E!Worker)
Step13 == InEngineRecords /\ E!HelperStep(E!Finalizer)
Step14 == InEngineRecords /\ E!Produce(1)
Step15 == InEngineRecords /\ E!Reconcile(1)
Step16 == InEngineRecords /\ E!LapseHelper(1)
Step17 == InEngineRecords /\ E!Produce(2)
Step18 == InEngineRecords /\ E!Reconcile(2)
Step19 == InEngineRecords /\ E!LapseHelper(2)

PartsFairness ==
  /\ WF_slots(Step1) /\ WF_slots(Step2) /\ WF_slots(Step3) /\ WF_slots(Step4)
  /\ WF_slots(Step5) /\ WF_slots(Step6) /\ WF_slots(Step7) /\ WF_slots(Step8)
  /\ WF_slots(Step9) /\ WF_slots(Step10) /\ WF_slots(Step11) /\ WF_slots(Step12)
  /\ WF_slots(Step13) /\ WF_slots(Step14) /\ WF_slots(Step15) /\ WF_slots(Step16)
  /\ WF_slots(Step17) /\ WF_slots(Step18) /\ WF_slots(Step19)
PartsSpec == PartsInit /\ [][PartsNext]_slots /\ PartsFairness

\* A command that runs has its session on record, and a manifest stack has one
\* active generation at most (Apps, CommandIsRecorded and OneActiveGeneration).
AppsCorrect == part = "apps" => A!AppsSafe

\* The budget takes the oldest volumes and no more than it must (RetentionPlan,
\* OldestGoFirst); what carries a label, and what somebody had to confirm, is
\* not swept (Unmanaged, UnmanagedSafe).
RemovalsCorrect ==
  /\ part = "retention" => V!OldestGoFirst
  /\ part = "unmanaged" => U!UnmanagedSafe

\* A terminal record has nothing left behind (EngineRecords, TerminalIsClean),
\* and no step removes a source volume too early (KeepsSource).
EnginesCorrect ==
  /\ [](part = "records" => E!TerminalIsClean)
  /\ [][part = "records" => E!KeepsSource]_slots

\* No helper of the shared cache is forgotten or disturbed, and a pass obeys the
\* policy of its volume (CacheCare, CacheCareSafe); what a caller plans and builds
\* is the whole document it was served (SetupAssets, SetupSafe).
FilesCorrect ==
  /\ part = "care" => H!CacheCareSafe
  /\ part = "setup" => S!SetupSafe

\* The current state of a record is its newest event (CiState, CurrentIsNewest),
\* and no step brings back a record that was collected (KeepsCollected).
CiStateCorrect ==
  /\ [](part = "cistate" => C!CurrentIsNewest)
  /\ [][part = "cistate" => C!KeepsCollected]_slots

\* What nobody uses is removed in the end, through failures and crashes, and
\* collections, helpers and calls come to their end: the part's Settled predicate
\* holds again and again.
ObjectsSettle ==
  []<>CASE part = "apps" -> A!AppsSettled
      [] part = "records" -> E!EnginesSettled
      [] part = "retention" -> V!RetentionSettled
      [] part = "unmanaged" -> U!LeftoversSettled
      [] part = "cistate" -> C!RecordsSettled
      [] part = "care" -> H!HelpersSettled
      [] part = "setup" -> S!CallsSettled
=============================================================================
