---------------------------- MODULE SetupAssets ----------------------------
(***************************************************************************)
(* From a setup document to an image (bosn-setup: lib.rs, plan.rs,         *)
(* materialize.rs, prepare.rs; the document's rules in bosn-core's         *)
(* setup.rs).                                                              *)
(*                                                                         *)
(* Callers (the CLI, the MCP server and the daemon's executors) fetch a    *)
(* document or read it from a private cache, write its assets below a      *)
(* directory named after its content, with a receipt written last, check   *)
(* that directory again and build an image from it.  They share the cache  *)
(* and the directories, and any of them may fail or die between two        *)
(* writes.                                                                 *)
(***************************************************************************)
EXTENDS Integers, Sequences, FiniteSets

CONSTANTS
  SetupCallers,
  Documents,       \* what a locator may serve
  Attempts,        \* temporary names tried for one file
  MaxServed,       \* bound: changes of what the locator serves
  MaxBreaks,       \* bound: callers that fail or die within a step
  MaxTampers,      \* bound: changes to the private files by somebody else
  MaxCalls         \* bound: calls of each caller

SetupAssumption ==
  /\ IsFiniteSet(Documents)
  /\ \A n \in {Attempts, MaxServed, MaxBreaks, MaxTampers, MaxCalls} : n \in Nat

VARIABLES
  upstream,        \* the document the locator serves, or Nowhere
  everServed,      \* every document it has served
  serves,
  cached,          \* the cache's record of the locator
  cacheTemps,      \* temporary names in the cache directory
  roots,           \* [Documents -> the asset directory named after it]
  tags,            \* [Documents -> the image built for it]
  call,            \* [SetupCallers -> the call in progress]
  breaks, tampers,
  slipped          \* documents altered between a check and its build

setupVars == <<upstream, everServed, serves, cached, cacheTemps, roots, tags, call,
               breaks, tampers, slipped>>
outside == <<upstream, everServed, serves, breaks, tampers, slipped>>

Nowhere == [version |-> 0, app |-> "none", mounts |-> {}, files |-> <<>>]
NoRoot == [dir |-> FALSE, lock |-> "free", good |-> {}, altered |-> FALSE,
           temps |-> {}, receipt |-> FALSE]
CachedRecord(d) == [doc |-> d, whole |-> TRUE]
\* validated: the digest, the version and the document's rules once more.
Validated(record) == record.doc # Nowhere /\ record.whole
Uncalled == [at |-> "idle", doc |-> Nowhere, temp |-> 0, created |-> FALSE,
             next |-> 1, calls |-> 0]

SetupInit ==
  /\ upstream \in Documents \cup {Nowhere}
  /\ everServed = {upstream}
  /\ serves = 0
  /\ cached = CachedRecord(Nowhere)
  /\ cacheTemps = {}
  /\ roots = [d \in Documents |-> NoRoot]
  /\ tags = [d \in Documents |-> "none"]
  /\ call = [c \in SetupCallers |-> Uncalled]
  /\ breaks = 0 /\ tampers = 0 /\ slipped = {}

-----------------------------------------------------------------------------
(* The document.  A path is the sequence of its components.                *)

CheckedRelativePath(p) == p # <<>> /\ \A i \in DOMAIN p : p[i] # ".."
ParsePinned(app) == app \in {"pinned", "inline"}
ParseMounts(d) == \A p \in d.mounts : CheckedRelativePath(p)
ParseFiles(d) ==
  /\ \A i \in DOMAIN d.files : CheckedRelativePath(d.files[i]) /\ d.files[i] # <<".">>
  /\ \A i, j \in DOMAIN d.files : d.files[i] = d.files[j] => i = j
ParseSetupDocument(d) ==
  d.version = 1 /\ ParsePinned(d.app) /\ ParseMounts(d) /\ ParseFiles(d)

\* What materialization accepts is less: no "." and none of its own names.
Reserved == {<<"Dockerfile">>, <<"receipt">>, <<"lock">>}
ValidAssetPath(p) == CheckedRelativePath(p) /\ \A i \in DOMAIN p : p[i] # "."
ExpectedAccepted(d) ==
  \A i \in DOMAIN d.files : ValidAssetPath(d.files[i]) /\ d.files[i] \notin Reserved
ExpectedAssets(d) == <<<<"Dockerfile">>>> \o d.files
AssetSet(d) == {ExpectedAssets(d)[i] : i \in DOMAIN ExpectedAssets(d)}

Above(p) == {SubSeq(p, 1, n) : n \in 1 .. Len(p) - 1}
\* A path under a file, or that of a directory, cannot be written.
Clashes(p, good) == Above(p) \cap good # {} \/ \E q \in good : p \in Above(q)
Writable(d) ==
  \A i, j \in DOMAIN ExpectedAssets(d) :
    ExpectedAssets(d)[i] \notin Above(ExpectedAssets(d)[j])

-----------------------------------------------------------------------------
At(c, step) == call[c].at = step
Doc(c) == call[c].doc
Root(c) == roots[Doc(c)]
Go(c, step) == call' = [call EXCEPT ![c].at = step]
Fails(c) == Go(c, "failed")
SetRoot(c, root) == roots' = [roots EXCEPT ![Doc(c)] = root]
Unlocked(root) == [root EXCEPT !.lock = "free"]

StartCall(c, step) ==
  /\ call[c].at \in {"idle", "failed", "prepared"} /\ call[c].calls < MaxCalls
  /\ call' = [call EXCEPT ![c] = [Uncalled EXCEPT !.at = step, !.calls = call[c].calls + 1]]
  /\ UNCHANGED <<outside, cached, cacheTemps, roots, tags>>

\* Offline: the record or an error, never the network.
ReadCache(c) ==
  /\ At(c, "read")
  /\ IF Validated(cached)
     THEN call' = [call EXCEPT ![c].at = "materialize", ![c].doc = cached.doc]
     ELSE Fails(c)
  /\ UNCHANGED <<outside, cached, cacheTemps, roots, tags>>

Fetched == upstream # Nowhere

\* Online: what is served now, checked before it is cached.
Fetch(c) ==
  /\ At(c, "fetch")
  /\ IF Fetched /\ ParseSetupDocument(upstream)
     THEN call' = [call EXCEPT ![c].at = "temp", ![c].doc = upstream]
     ELSE Fails(c)
  /\ UNCHANGED <<outside, cached, cacheTemps, roots, tags>>

FreeNames(taken) == (0 .. Attempts - 1) \ taken
FirstName(taken) == CHOOSE n \in FreeNames(taken) : \A m \in FreeNames(taken) : n <= m

WriteRecordTemp(c) ==
  /\ At(c, "temp")
  /\ IF FreeNames(cacheTemps) = {}
     THEN Fails(c) /\ UNCHANGED cacheTemps
     ELSE /\ call' = [call EXCEPT ![c].at = "replace", ![c].temp = FirstName(cacheTemps)]
          /\ cacheTemps' = cacheTemps \cup {FirstName(cacheTemps)}
  /\ UNCHANGED <<outside, cached, roots, tags>>

ReplaceRecord(c) ==
  /\ At(c, "replace")
  /\ cached' = CachedRecord(Doc(c))
  /\ cacheTemps' = cacheTemps \ {call[c].temp}
  /\ Go(c, "materialize")
  /\ UNCHANGED <<outside, roots, tags>>

-----------------------------------------------------------------------------
(* Materialization.                                                        *)

Materialize(c) ==
  /\ At(c, "materialize")
  /\ IF Doc(c).app = "pinned"
     THEN Go(c, "pull")
     ELSE Go(c, IF ExpectedAccepted(Doc(c)) THEN "look" ELSE "failed")
  /\ UNCHANGED <<outside, cached, cacheTemps, roots, tags>>

\* ensure_private_directory looks first and creates afterwards.
LookAtRoot(c) ==
  /\ At(c, "look")
  /\ call' = [call EXCEPT ![c].at = "make", ![c].created = ~Root(c).dir]
  /\ UNCHANGED <<outside, cached, cacheTemps, roots, tags>>

MakeRoot(c) ==
  /\ At(c, "make")
  /\ SetRoot(c, [Root(c) EXCEPT !.dir = TRUE])
  /\ Go(c, "lock")
  /\ UNCHANGED <<outside, cached, cacheTemps, tags>>

LockRoot(c) ==
  /\ At(c, "lock") /\ Root(c).lock = "free"
  /\ SetRoot(c, [Root(c) EXCEPT !.lock = c])
  /\ Go(c, "receipt")
  /\ UNCHANGED <<outside, cached, cacheTemps, tags>>

\* Every file the receipt names, as it was written, and no other.
Exact(d, root) ==
  root.receipt /\ AssetSet(d) \subseteq root.good /\ ~root.altered /\ root.temps = {}

\* verify_complete_assets, against the document instead of the receipt.
VerifyComplete(c) == Exact(Doc(c), Root(c))

\* A directory without a receipt is written only by a caller that found it
\* absent; it is never repaired.
ReadReceipt(c) ==
  /\ At(c, "receipt")
  /\ IF Root(c).receipt
     THEN /\ Go(c, IF VerifyComplete(c) THEN "verify" ELSE "failed")
          /\ SetRoot(c, Unlocked(Root(c)))
     ELSE IF call[c].created
          THEN Go(c, "write") /\ UNCHANGED roots
          ELSE Fails(c) /\ SetRoot(c, Unlocked(Root(c)))
  /\ UNCHANGED <<outside, cached, cacheTemps, tags>>

\* The assets in order, then the receipt.
Writes(c) == ExpectedAssets(Doc(c)) \o <<<<"receipt">>>>
Path(c) == Writes(c)[call[c].next]
TempsOf(root, p) == {t[2] : t \in {u \in root.temps : u[1] = p}}

\* atomic_write_new: a file that is there as expected is left, one that
\* cannot be written ends the call.
WriteTemp(c) ==
  /\ At(c, "write")
  /\ IF Path(c) \in Root(c).good /\ ~Root(c).altered
     THEN call' = [call EXCEPT ![c].next = @ + 1] /\ UNCHANGED roots
     ELSE IF \/ Clashes(Path(c), Root(c).good)
             \/ Path(c) \in Root(c).good
             \/ FreeNames(TempsOf(Root(c), Path(c))) = {}
          THEN Fails(c) /\ SetRoot(c, Unlocked(Root(c)))
          ELSE \E n \in {FirstName(TempsOf(Root(c), Path(c)))} :
                 /\ call' = [call EXCEPT ![c].at = "place", ![c].temp = n]
                 /\ SetRoot(c, [Root(c) EXCEPT !.temps = @ \cup {<<Path(c), n>>}])
  /\ UNCHANGED <<outside, cached, cacheTemps, tags>>

PlaceAsset(c) ==
  /\ At(c, "place")
  /\ \E last \in {call[c].next = Len(Writes(c))} :
       /\ SetRoot(c, [Root(c) EXCEPT
            !.temps = @ \ {<<Path(c), call[c].temp>>},
            !.good = IF last THEN @ ELSE @ \cup {Path(c)},
            !.receipt = last,
            !.lock = IF last THEN "free" ELSE @])
       /\ call' = [call EXCEPT ![c].at = IF last THEN "verify" ELSE "write",
                               ![c].next = @ + 1]
  /\ UNCHANGED <<outside, cached, cacheTemps, tags>>

-----------------------------------------------------------------------------
(* Preparation: the plan is checked, the image is made, then inspected by  *)
(* its reference.                                                          *)

ValidatePlan(c) ==
  /\ At(c, "verify")
  /\ Go(c, IF Exact(Doc(c), Root(c)) THEN "build" ELSE "failed")
  /\ UNCHANGED <<outside, cached, cacheTemps, roots, tags>>

\* docker build reads the directory as it is by then, without the lock.
Build(c) ==
  /\ At(c, "build")
  /\ tags' = [tags EXCEPT ![Doc(c)] = IF Root(c).altered THEN "altered" ELSE "good"]
  /\ Go(c, "inspect")
  /\ UNCHANGED <<outside, cached, cacheTemps, roots>>

Pull(c) ==
  /\ At(c, "pull")
  /\ tags' = [tags EXCEPT ![Doc(c)] = "good"]
  /\ Go(c, "inspect")
  /\ UNCHANGED <<outside, cached, cacheTemps, roots>>

Inspect(c) ==
  /\ At(c, "inspect")
  /\ Go(c, IF tags[Doc(c)] = "none" THEN "failed" ELSE "prepared")
  /\ UNCHANGED <<outside, cached, cacheTemps, roots, tags>>

\* Cancelled, out of time, out of output, or a command that failed.
StreamCommandFails(c) ==
  /\ call[c].at \in {"build", "pull", "inspect"}
  /\ Fails(c)
  /\ UNCHANGED <<outside, cached, cacheTemps, roots, tags>>

-----------------------------------------------------------------------------
(* A write that fails, or the death of the caller, leaves its temporary    *)
(* file and gives up the lock.                                             *)

BreakCall(c) ==
  /\ breaks < MaxBreaks
  /\ call[c].at \notin {"idle", "failed", "prepared", "verify", "build", "pull", "inspect"}
  /\ breaks' = breaks + 1
  /\ Fails(c)
  /\ roots' = [d \in Documents |-> IF roots[d].lock = c THEN Unlocked(roots[d]) ELSE roots[d]]
  /\ UNCHANGED <<upstream, everServed, serves, cached, cacheTemps, tags, tampers, slipped>>

ServeDocument(d) ==
  /\ serves < MaxServed /\ d # upstream
  /\ upstream' = d
  /\ everServed' = everServed \cup {d}
  /\ serves' = serves + 1
  /\ UNCHANGED <<cached, cacheTemps, roots, tags, call, breaks, tampers, slipped>>

TamperRecord ==
  /\ tampers < MaxTampers
  /\ cached.doc # Nowhere /\ cached.whole
  /\ cached' = [cached EXCEPT !.whole = FALSE]
  /\ tampers' = tampers + 1
  /\ UNCHANGED <<upstream, everServed, serves, cacheTemps, roots, tags, call, breaks, slipped>>

TamperRoot(d) ==
  /\ tampers < MaxTampers
  /\ roots[d].good # {}
  /\ roots' = [roots EXCEPT ![d].altered = TRUE]
  /\ slipped' = IF \E c \in SetupCallers : At(c, "build") /\ Doc(c) = d
                THEN slipped \cup {d} ELSE slipped
  /\ tampers' = tampers + 1
  /\ UNCHANGED <<upstream, everServed, serves, cached, cacheTemps, tags, call, breaks>>

SetupStep(c) ==
  \/ ReadCache(c) \/ Fetch(c) \/ WriteRecordTemp(c) \/ ReplaceRecord(c) \/ Materialize(c)
  \/ LookAtRoot(c) \/ MakeRoot(c) \/ LockRoot(c) \/ ReadReceipt(c) \/ WriteTemp(c)
  \/ PlaceAsset(c) \/ ValidatePlan(c) \/ Build(c) \/ Pull(c) \/ Inspect(c)

SetupNext ==
  \/ \E c \in SetupCallers, step \in {"read", "fetch"} : StartCall(c, step)
  \/ \E c \in SetupCallers : SetupStep(c)
  \/ \E c \in SetupCallers : StreamCommandFails(c) \/ BreakCall(c)
  \/ \E d \in Documents \cup {Nowhere} : ServeDocument(d)
  \/ TamperRecord
  \/ \E d \in Documents : TamperRoot(d)

\* A caller that is running goes on; the lock is granted to whoever waits.
SetupSpec == /\ SetupInit /\ [][SetupNext]_setupVars
             /\ \A c \in SetupCallers : WF_setupVars(SetupStep(c))

-----------------------------------------------------------------------------
Untouched == tampers = 0

\* What a caller goes on to build from has every asset of its document, in
\* spite of callers that died half way through the same directory
\* (materialize.rs, materialize_expected_assets).
PlannedIsWhole ==
  \A c \in SetupCallers :
    At(c, "verify") /\ Untouched => AssetSet(Doc(c)) \subseteq Root(c).good

\* A directory without its receipt is one somebody is writing, or is about to,
\* or one whose writer broke off: the race of two callers to create it strands
\* nobody (materialize.rs, created and the lock).
RootIsFinished ==
  \A d \in Documents :
    roots[d].dir /\ ~roots[d].receipt =>
      \/ breaks > 0 \/ ~Writable(d) \/ ~Untouched
      \/ \E c \in SetupCallers : Doc(c) = d /\ call[c].created /\ ~At(c, "failed")

\* No caller works from a document that the locator never served or that
\* breaks the document's rules (lib.rs, acquire_setup_document).
OnlyServedDocuments ==
  \A c \in SetupCallers :
    Doc(c) # Nowhere => Doc(c) \in everServed /\ ParseSetupDocument(Doc(c))

\* The image a caller reports was made of its document's files, unless they
\* were changed between a check and the build that followed it (prepare.rs,
\* validate_plan; materialize.rs, verify_materialized_assets).
PreparedIsDocument ==
  \A c \in SetupCallers :
    At(c, "prepared") /\ tags[Doc(c)] = "altered" => Doc(c) \in slipped

SetupSafe == PlannedIsWhole /\ RootIsFinished /\ OnlyServedDocuments /\ PreparedIsDocument

\* What holds again and again: every call has ended, nobody waits for the lock
\* of a directory for ever (materialize.rs, lock_exclusive).
CallsSettled == \A c \in SetupCallers : call[c].at \in {"idle", "failed", "prepared"}
=============================================================================
