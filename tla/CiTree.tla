-------------------------------- MODULE CiTree --------------------------------
(***************************************************************************)
(* The tree of one CI run and its verdict: the parser that folds act's      *)
(* interleaved records into jobs and steps (ci/model.rs, model/legs.rs,     *)
(* model/identity.rs, model/timing.rs) and the conclusion drawn from the    *)
(* engine's report and that tree (ci/report.rs).                            *)
(*                                                                          *)
(* A leg is one execution act reports: a job, one combination of its        *)
(* matrix, or a job of a called workflow.  Keys are ranks, so that "ordered *)
(* by key" is <=; names are compared only for equality.  Log text, times    *)
(* and exit codes decide nothing here and are left out.                     *)
(***************************************************************************)
EXTENDS Integers, Sequences, FiniteSets, SequencesExt, FiniteSetsExt

CONSTANTS Legs,        \* the executions act reports
          LegInfo,     \* what act's records say of a leg
          Declared,    \* the workflow's jobs, in the order of RunTree::declared
          Steps,       \* the steps a job declares
          DeclaredKeys,  \* Declared::steps: the declaration keys of the workflow's jobs
          RemoteOnly,  \* the declaration keys of the jobs only GitHub can run
          NeedsIdentity, \* Declared::needs_qualified_identity
          MaxLines     \* bound: records act emits

\* id: the job ID; caller: the job ID of the outermost call; ns: what act's key
\* starts with; rank: the order of the key its name and matrix give; matrix:
\* 0 for none; qualified: act names the execution's identity.
TreeConstants ==
  /\ LegInfo \in [Legs -> [id : STRING, caller : STRING, ns : STRING, rank : Nat,
                           matrix : 0 .. 9, qualified : BOOLEAN]]
  /\ \A d \in Range(Declared) : d.stage \in Nat
  /\ MaxLines \in Nat

VARIABLES stages,      \* RunTree::groups: the jobs of each stage, in order
          malformed,   \* RunTree::malformed_lines is not 0
          verdict,     \* the run's conclusion, or "none"
          lines,       \* records fed
          heard        \* what act said of each leg, as a reader of its output has it

ctVars == <<stages, malformed, verdict, lines, heard>>

NoConclusion == "none"
Results == {"success", "failure", "skipped"}
Conclusions == Results \cup {"cancelled", "unsupported", "remote_only"}
Verdicts == {"success", "failure", "incomplete", "timed_out", "cancelled", "error"}
StageNames == {d.stage : d \in Range(Declared)} \cup {0}

\* A section that is not in the job's list.
NoSection == [status |-> "absent", conclusion |-> NoConclusion, owned |-> FALSE]

\* RunTree::declared: every declared job, queued, in its stage.
Placeholder(d) ==
  [key |-> 0, id |-> d.id, ns |-> <<d.name>>, matrix |-> 0, real |-> FALSE, ident |-> FALSE,
   leg |-> NoConclusion, status |-> "queued", conclusion |-> NoConclusion, evidence |-> "none",
   sections |-> [s \in Steps |-> NoSection]]

TreeInit ==
  /\ stages = [g \in StageNames |->
                 LET here == SelectSeq(Declared, LAMBDA d : d.stage = g)
                 IN  [i \in 1 .. Len(here) |-> Placeholder(here[i])]]
  /\ malformed = FALSE
  /\ verdict = NoConclusion
  /\ lines = 0
  /\ heard = [l \in Legs |-> {}]

-----------------------------------------------------------------------------
(* The job a record belongs to. *)

Slots == {<<g, i>> \in StageNames \X (1 .. Cardinality(Legs) * 2 + Len(Declared)) :
            i <= Len(stages[g])}
JobAt(slot) == stages[slot[1]][slot[2]]
AllJobs == {JobAt(slot) : slot \in Slots}

\* The first slot in tree order among some.
FirstSlot(slots) ==
  CHOOSE a \in slots : \A b \in slots : a[1] < b[1] \/ (a[1] = b[1] /\ a[2] <= b[2])

\* RunTree::find.
FindKey(ns, key) == {slot \in Slots : JobAt(slot).real /\ JobAt(slot).ns = ns
                                      /\ JobAt(slot).key = key}

\* The namespace of the key: of the execution key for a qualified record.
Namespace(l, qualified) ==
  IF qualified THEN <<"@job", LegInfo[l].caller>> ELSE <<LegInfo[l].ns>>

\* leg_key: the name and the values it does not show, or with the whole matrix
\* when a job with that key and another matrix is already there.
LegKey(l) ==
  LET plain == LegInfo[l].rank * 10
      taken == FindKey(<<LegInfo[l].ns>>, plain)
  IN  IF LegInfo[l].matrix # 0 /\ \E slot \in taken : JobAt(slot).matrix # LegInfo[l].matrix
      THEN plain + LegInfo[l].matrix
      ELSE plain

KeyOf(l, qualified) ==
  IF qualified THEN LegInfo[l].rank * 10 + LegInfo[l].matrix ELSE LegKey(l)

\* placeholder: the declared job the record replaces.
PlaceholderFor(l, qualified) ==
  {slot \in Slots :
     LET job == JobAt(slot)
     IN  /\ ~job.real
         /\ IF qualified THEN job.id = LegInfo[l].caller
            ELSE job.id = LegInfo[l].id \/ job.ns = <<LegInfo[l].ns>>}

\* family_slot: the place in the family's first stage that keeps it in key order.
FamilySlot(key, family) ==
  LET g == Min({slot[1] : slot \in family})
      members == {slot[2] : slot \in {s \in family : s[1] = g}}
      after == {i \in members : stages[g][i].key > key}
  IN  <<g, IF after = {} THEN Max(members) + 1 ELSE Min(after)>>

NewJob(l, qualified) ==
  [key |-> KeyOf(l, qualified), id |-> LegInfo[l].id, ns |-> Namespace(l, qualified),
   matrix |-> LegInfo[l].matrix, real |-> TRUE, ident |-> qualified, leg |-> l,
   status |-> "queued", conclusion |-> NoConclusion, evidence |-> "none",
   sections |-> [s \in Steps |-> NoSection]]

\* job_for: the job of that key; else a new one that replaces its placeholder,
\* joins the legs of its job, joins the jobs of its call, or ends stage 0.
\* The result is the stages with the job in them, and its slot.
JobFor(l, qualified) ==
  LET key  == KeyOf(l, qualified)
      own  == Namespace(l, qualified)
      here == FindKey(own, key)
      job  == NewJob(l, qualified)
      held == PlaceholderFor(l, qualified)
      call == {slot \in Slots : JobAt(slot).real /\ JobAt(slot).ns = own}
      legs == {slot \in call : JobAt(slot).id = LegInfo[l].id}
      at   == IF legs # {} THEN FamilySlot(key, legs)
              ELSE IF call # {} THEN FamilySlot(key, call)
              ELSE <<0, Len(stages[0]) + 1>>
  IN  IF here # {} THEN [stages |-> stages, slot |-> FirstSlot(here)]
      ELSE IF held # {}
           THEN LET slot == FirstSlot(held)
                IN  [stages |-> [stages EXCEPT ![slot[1]][slot[2]] = job], slot |-> slot]
      ELSE [stages |-> [stages EXCEPT ![at[1]] = InsertAt(@, at[2], job)], slot |-> at]

-----------------------------------------------------------------------------
(* One record. *)

Unsupport(job) == [job EXCEPT !.status = "completed", !.conclusion = "unsupported"]

\* Any record of a queued job begins it.
Begin(job) == IF job.status = "queued" THEN [job EXCEPT !.status = "in_progress"] ELSE job

\* observe_result: an unsupported leg stays unsupported.
ObserveResult(job, result) ==
  IF job.conclusion = "unsupported" THEN job
  ELSE [job EXCEPT !.status = "completed", !.conclusion = result]

\* A step's record lists its section; only one that is the step's own
\* (its start, its output, its result) begins it.
ObserveStep(section, own, result) ==
  LET listed == IF section.status = "absent" THEN [section EXCEPT !.status = "queued"]
                ELSE section
      owned  == own \/ listed.owned \/ result # NoConclusion
      begun  == IF owned /\ listed.status = "queued"
                THEN [listed EXCEPT !.owned = TRUE, !.status = "in_progress"]
                ELSE [listed EXCEPT !.owned = owned]
  IN  IF result = NoConclusion THEN begun
      ELSE [begun EXCEPT !.status = "completed", !.conclusion = result]

\* feed takes one record of leg l.
TakeLine(l, said) ==
  /\ verdict = NoConclusion /\ lines < MaxLines
  /\ lines' = lines + 1
  /\ heard' = [heard EXCEPT ![l] = (IF said \in Results THEN @ \ Results ELSE @) \cup {said}]
  /\ UNCHANGED <<malformed, verdict>>

\* Folds the record into the tree: its job is found or made, then changed.
Fold(l, qualified, said, Change(_)) ==
  /\ TakeLine(l, said)
  /\ \E found \in {JobFor(l, qualified)} :
       LET slot == found.slot
           job  == found.stages[slot[1]][slot[2]]
           same == IF job.ident # qualified THEN Unsupport(job) ELSE job
       IN  stages' = [found.stages EXCEPT ![slot[1]][slot[2]] = Change(Begin(same))]

Qualified(l) == LegInfo[l].qualified

\* A record about the leg as a whole.
JobLine(l) == Fold(l, Qualified(l), "line", LAMBDA job : job)

\* "Skipping unsupported platform", or the mark of bosn's matrix gate.
UnsupportedLine(l) == Fold(l, Qualified(l), "unsupported", Unsupport)

\* The job's result.
JobResultLine(l, result) ==
  Fold(l, Qualified(l), result, LAMBDA job : ObserveResult(job, result))

\* A record of a step: own is the step's start or its output.
StepLine(l, s, own, result) ==
  Fold(l, Qualified(l), "line",
       LAMBDA job : [job EXCEPT !.sections[s] = ObserveStep(@, own, result)])

\* A record whose identity is malformed: the job under its plain key is
\* unsupported, whatever else the record says.
BadIdentityLine(l) == Fold(l, FALSE, "unsupported", Unsupport)

\* observe_outputs: a second event voids the first, and evidence without a
\* qualified identity, or of a wrong shape, is an error.
ObserveOutputs(job, qualified, good) ==
  [job EXCEPT !.evidence = IF @ = "none" /\ qualified /\ good THEN "values" ELSE "error"]

\* act's report of the outputs of a leg.
OutputLine(l, good) ==
  Fold(l, Qualified(l), IF "outputs" \in heard[l] THEN "outputs again" ELSE "outputs",
       LAMBDA job : ObserveOutputs(job, Qualified(l), good))

\* A line that is not a record.
MalformedLine ==
  /\ verdict = NoConclusion /\ lines < MaxLines
  /\ malformed' = TRUE
  /\ lines' = lines + 1
  /\ UNCHANGED <<stages, verdict, heard>>

-----------------------------------------------------------------------------
(* The verdict. *)

MapJobs(F(_)) == [g \in StageNames |-> [i \in 1 .. Len(stages[g]) |-> F(stages[g][i])]]

\* cancel_unfinished.
CancelItem(item) ==
  IF item.status \in {"completed", "absent"} THEN item
  ELSE [item EXCEPT !.status = "completed", !.conclusion = "cancelled"]
CancelUnfinished(job) ==
  CancelItem([job EXCEPT !.sections = [s \in Steps |-> CancelItem(job.sections[s])]])

\* settle_finished: a job without a record was skipped, one without a result
\* failed; the same of its sections.
SettleJob(job) ==
  CASE job.status = "queued"      -> [job EXCEPT !.status = "completed", !.conclusion = "skipped"]
    [] job.status = "in_progress" -> [job EXCEPT !.status = "completed", !.conclusion = "failure"]
    [] OTHER                      -> job
SettleSection(section) ==
  IF section.status \in {"completed", "absent"} THEN section
  ELSE [section EXCEPT !.status = "completed",
                       !.conclusion = IF section.owned THEN "failure" ELSE "skipped"]

\* add_skipped_steps: the declared steps a job that ran never listed.
AddSkipped(job) ==
  IF job.conclusion \notin {"success", "failure", "cancelled"} THEN job
  ELSE [job EXCEPT !.sections =
          [s \in Steps |-> IF @[s].status # "absent" THEN @[s]
                           ELSE [NoSection EXCEPT !.status = "completed",
                                                  !.conclusion = "skipped"]]]

\* declaration_key: the job IDs from the outermost call to the job.
DeclarationKey(job) ==
  IF job.ident /\ job.ns[2] # job.id THEN <<job.ns[2], job.id>> ELSE <<job.id>>

\* mark_remote_only.
MarkRemoteOnly(job) ==
  IF job.conclusion = "success" /\ DeclarationKey(job) \in RemoteOnly
  THEN [job EXCEPT !.conclusion = "remote_only"] ELSE job

SettleFinished(job) ==
  MarkRemoteOnly(AddSkipped(
    [SettleJob(job) EXCEPT !.sections = [s \in Steps |-> SettleSection(job.sections[s])]]))

JobsOf(tree) == UNION {Range(tree[g]) : g \in StageNames}

\* qualified_coverage_missing.
CoverageMissing(tree) ==
  \/ NeedsIdentity /\ malformed
  \/ \E job \in JobsOf(tree) :
       /\ job.conclusion # "skipped"
       /\ (job.ident \/ NeedsIdentity)
       /\ DeclarationKey(job) \notin DeclaredKeys

\* What an exit of act with this code concludes of the settled tree.
ExitVerdict(tree, failed, badDeclarations) ==
  LET concluded == {job.conclusion : job \in JobsOf(tree)}
  IN  CASE failed \/ "failure" \in concluded          -> "failure"
        [] ~failed /\ "failure" \notin concluded
           /\ ("unsupported" \in concluded \/ badDeclarations
               \/ CoverageMissing(tree) \/ "success" \notin concluded) -> "incomplete"
        [] OTHER                                       -> "success"

\* A failed cleanup is never a pass.
AfterCleanup(v, cleaned) ==
  IF ~cleaned /\ v \in {"success", "incomplete"} THEN "error" ELSE v

\* conclude, when act exited.
ConcludeExited(failed, badDeclarations, cleaned) ==
  /\ verdict = NoConclusion
  /\ stages' = MapJobs(SettleFinished)
  /\ verdict' = AfterCleanup(ExitVerdict(stages', failed, badDeclarations), cleaned)
  /\ UNCHANGED <<malformed, lines, heard>>

\* conclude, when the run timed out, was cancelled, or its engine failed.
ConcludeStopped(v) ==
  /\ verdict = NoConclusion
  /\ stages' = MapJobs(CancelUnfinished)
  /\ verdict' = v
  /\ UNCHANGED <<malformed, lines, heard>>

TreeNext ==
  \/ \E l \in Legs :
       \/ JobLine(l) \/ UnsupportedLine(l) \/ BadIdentityLine(l)
       \/ \E result \in Results : JobResultLine(l, result)
       \/ \E good \in BOOLEAN : OutputLine(l, good)
       \/ \E s \in Steps : \/ \E own \in BOOLEAN : StepLine(l, s, own, NoConclusion)
                           \/ \E result \in Results : StepLine(l, s, FALSE, result)
  \/ MalformedLine
  \/ \E failed, badDeclarations, cleaned \in BOOLEAN :
       ConcludeExited(failed, badDeclarations, cleaned)
  \/ \E v \in {"timed_out", "cancelled", "error"} : ConcludeStopped(v)

TreeSpec == TreeInit /\ [][TreeNext]_ctVars

-----------------------------------------------------------------------------
(* Properties. *)

TreeTypeOK ==
  /\ verdict \in Verdicts \cup {NoConclusion}
  /\ malformed \in BOOLEAN /\ lines \in 0 .. MaxLines
  /\ \A job \in AllJobs : /\ job.status \in {"queued", "in_progress", "completed"}
                          /\ job.conclusion \in Conclusions \cup {NoConclusion}

\* The legs whose every record carried the identity act gives the leg.
Whole == {l \in Legs : heard[l] # {} /\ "unsupported" \notin heard[l]}

\* However the records of the legs interleave, a leg act reported has one job,
\* and no job is the job of two legs that were told apart.
EveryLegHasItsJob ==
  \A l \in Whole : Cardinality({slot \in Slots : JobAt(slot).leg = l}) = 1

\* The legs of one job stand together and in key order: the place of a leg
\* does not depend on the order in which act numbered or reported them.
FamiliesInOrder ==
  \A g \in StageNames : \A i, j \in 1 .. Len(stages[g]) :
    /\ i < j
    /\ stages[g][i].real /\ stages[g][j].real
    /\ stages[g][i].id = stages[g][j].id /\ stages[g][i].ns = stages[g][j].ns
    => /\ stages[g][i].key < stages[g][j].key
       /\ \A k \in i .. j : stages[g][k].id = stages[g][i].id

\* A concluded run leaves nothing unfinished in its tree.
ConcludedIsSettled ==
  verdict # NoConclusion =>
    \A job \in AllJobs :
      /\ job.status = "completed" /\ job.conclusion # NoConclusion
      /\ \A s \in Steps : job.sections[s].status \in {"completed", "absent"}

\* "Partial coverage and failed cleanup are never a pass": a run succeeds only
\* if every leg that was heard of ended in a success or a skip of its own,
\* none was unsupported, and one that can run here did succeed.
SuccessIsEarned ==
  verdict = "success" =>
    /\ \A l \in Legs : heard[l] # {} => "unsupported" \notin heard[l]
                                        /\ heard[l] \cap {"success", "skipped"} # {}
    /\ \E l \in Legs : "success" \in heard[l] /\ <<LegInfo[l].caller, LegInfo[l].id>> \notin RemoteOnly

\* The result act gave a leg is the one its job shows in the end, whatever
\* lines of the job or of its siblings came after it, and however the run ended.
ResultIsKept ==
  verdict # NoConclusion =>
    \A l \in Whole, job \in AllJobs :
      job.leg = l => \A result \in heard[l] \cap Results :
                       job.conclusion \in {result, "remote_only"}

\* Outputs are evidence only if act reported them once, for an execution it
\* named: a repeated report leaves no values to trust.
EvidenceIsSingle ==
  \A job \in AllJobs : job.evidence = "values"
                       => job.ident /\ "outputs again" \notin heard[job.leg]

CiTreeSafe == /\ TreeTypeOK /\ EveryLegHasItsJob /\ FamiliesInOrder
              /\ ConcludedIsSettled /\ SuccessIsEarned /\ ResultIsKept
              /\ EvidenceIsSingle
=============================================================================
