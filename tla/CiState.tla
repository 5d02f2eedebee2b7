------------------------------- MODULE CiState -------------------------------
(***************************************************************************)
(* The CI authority kept in the registry (bosn-registry ci_state.rs and    *)
(* its migration, retention): the current snapshot of every act engine and *)
(* cache helper beside the event log it was first kept in, the resumable   *)
(* upgrade that builds it from the newest events of an older registry, the *)
(* admission of new records, and the paged collection of settled ones,     *)
(* which leaves only a floor behind.                                       *)
(*                                                                         *)
(* A snapshot is named by the event that carried it.  A request for a new  *)
(* record carries the time it was made, and may be written late or again.  *)
(***************************************************************************)
EXTENDS Naturals, Sequences, FiniteSets

CONSTANTS
    EngineId,       \* numbers that name engine records
    HelperId,       \* numbers that name helper records, above every engine's
    RunOfHelper,    \* [HelperId -> EngineId]
    MaxLegacy,      \* events of the registry that is upgraded
    MigratePage,    \* rows per upgrade step
    AuditTail,      \* events kept per record
    CiCapacity,     \* current records before new ones are refused
    KeepTime,       \* how long a settled record is kept
    CollectLimit,   \* rows per collection
    MaxTime, MaxEvents, MaxFails

Record == EngineId \union HelperId

CiStateAssumption ==
    /\ Record \subseteq Nat \ {0} /\ EngineId \cap HelperId = {}
    /\ RunOfHelper \in [HelperId -> EngineId]
    /\ {MaxLegacy, CiCapacity, KeepTime, MaxTime, MaxEvents, MaxFails} \subseteq Nat
    /\ {MigratePage, AuditTail, CollectLimit} \subseteq Nat \ {0}

VARIABLES
    schema,     \* 5 or 6
    migration,  \* the upgrade's cursor, an event id; 0 when there is none
    log,        \* every event ever written: [of, st, at], of = 0 for other kinds
    kept,       \* the ids of the events still in the table
    current,    \* [Record -> the event id of its current snapshot, 0 if none]
    made,       \* [Record -> when its request was made, 0 if it was not]
    floor,      \* the newest creation time that was collected
    page,       \* the collection's cursor, <<at, record>>; <<0, 0>> when there is none
    leased,     \* engines a lease names
    serving,    \* "down", "upgrading" or "ready"
    now, fails,
    pressure,   \* the registry's files have reached their budget
    collected   \* records that were collected

ciStateVars == <<schema, migration, log, kept, current, made, floor, page, leased,
                 serving, now, fails, pressure, collected>>

Events(x) == {i \in kept : log[i].of = x}
Highest(S) == IF S = {} THEN 0 ELSE CHOOSE i \in S : \A j \in S : j <= i
Largest(S, n) == {i \in S : Cardinality({j \in S : j > i}) < n}

\* A registry that an older release wrote: records begin and then settle.
LegacyLogs ==
    UNION {{l \in [1..n -> [of : {0} \union Record, st : {"pending", "ended"}, at : {1}]] :
               \A i, j \in 1..n :
                   /\ i < j /\ l[i].of = l[j].of /\ l[i].of # 0
                         => l[i].st = "pending"
                   /\ l[i].of = 0 => l[i].st = "ended"} :
           n \in 0..MaxLegacy}

CiStateInit ==
    /\ schema = 5 /\ migration = 0
    /\ log \in LegacyLogs
    /\ kept = 1..Len(log)
    /\ current = [x \in Record |-> 0]
    /\ made = [x \in Record |-> IF \E i \in 1..Len(log) : log[i].of = x THEN 1 ELSE 0]
    /\ floor = 0 /\ page = <<0, 0>> /\ leased = {}
    /\ serving = "down" /\ now = 1 /\ fails = 0 /\ pressure = FALSE
    /\ collected = {}

--------------------------------------------------------------------------------
(* Opening and upgrading *)

\* open_writer: a schema 5 registry is fenced and given a cursor past its
\* newest event; one that was left half way is taken up where it was.
OpenCiState ==
    /\ serving = "down"
    /\ serving' = "upgrading"
    /\ schema' = 6
    /\ migration' = IF schema = 5 THEN Len(log) + 1 ELSE migration
    /\ UNCHANGED <<log, kept, current, made, floor, page, leased, now, fails, collected, pressure>>

\* install: during the upgrade a record that has a snapshot keeps it.
Install(before, x, newest) == IF before # 0 THEN before ELSE newest

\* retain_event: the newest events of each record stay, the others go.
Retained(linked) ==
    UNION {Largest({i \in linked : log'[i].of = x}, AuditTail) : x \in Record}

\* migrate_ci_step: one page of events below the cursor, newest first.
MigrateStep ==
    /\ serving = "upgrading"
    /\ LET rows == Largest({i \in kept : i < migration}, MigratePage)
           done == \* events of earlier pages that are linked to a record
               {i \in kept : i >= migration /\ log[i].of # 0}
           ours == {i \in rows : log[i].of # 0}
       IN  IF migration = 0
           THEN serving' = "ready" /\ UNCHANGED <<log, kept, current, migration>>
           ELSE /\ log' = log
                /\ current' = [x \in Record |->
                       Install(current[x], x, Highest({i \in rows : log[i].of = x}))]
                /\ kept' = (kept \ (ours \union done)) \union Retained(ours \union done)
                /\ migration' = IF Cardinality(rows) < MigratePage THEN 0
                                ELSE CHOOSE i \in rows : \A j \in rows : i <= j
                /\ UNCHANGED serving
    /\ UNCHANGED <<schema, made, floor, page, leased, now, fails, collected, pressure>>

\* The daemon dies between two transactions.
LoseDaemon ==
    /\ serving # "down" /\ fails < MaxFails
    /\ serving' = "down"
    /\ fails' = fails + 1
    /\ UNCHANGED <<schema, migration, log, kept, current, made, floor, page, leased, now,
                   collected, pressure>>

--------------------------------------------------------------------------------
(* Writing *)

Snapshot(x) == log[current[x]]
Pending(x) == current[x] # 0 /\ Snapshot(x).st = "pending"
Settled(x) == current[x] # 0 /\ Snapshot(x).st = "ended"

\* A request for an engine or a helper is made.
MakeRequest(x) ==
    /\ made[x] = 0
    /\ x \in HelperId => current[RunOfHelper[x]] # 0
    /\ made' = [made EXCEPT ![x] = now]
    /\ UNCHANGED <<schema, migration, log, kept, current, floor, page, leased, serving,
                   now, fails, collected, pressure>>

\* StorageCheck::admit: new authority only while the files are within budget.
StorageAdmits == ~pressure

\* A variant of Admit that takes a request as old as the last one collected.
AdmitAtFloor(x) ==
    \/ current[x] # 0
    \/ made[x] >= floor /\ StorageAdmits /\ Cardinality({y \in Record : current[y] # 0}) < CiCapacity

\* retention::admit: a record that is not there is new; one that was made
\* before what was collected has lost its authority.
Admit(x) ==
    \/ current[x] # 0
    \/ made[x] > floor /\ StorageAdmits /\ Cardinality({y \in Record : current[y] # 0}) < CiCapacity

\* append: the event, the snapshot it carries and the trimmed tail, in one
\* transaction.  A settled record changes no more.
WriteRecord(x, st) ==
    /\ serving = "ready" /\ Len(log) < MaxEvents
    /\ made[x] # 0 /\ Admit(x) /\ ~Settled(x)
    /\ current[x] = 0 => st = "pending"
    /\ log' = Append(log, [of |-> x, st |-> st, at |-> now])
    /\ current' = [current EXCEPT ![x] = Len(log) + 1]
    /\ kept' = (kept \ Events(x)) \union Largest(Events(x) \union {Len(log) + 1}, AuditTail)
    /\ UNCHANGED <<schema, migration, made, floor, page, leased, serving, now, fails, collected, pressure>>

\* A lease on an engine is put or deleted.
ToggleLease(x) ==
    /\ serving = "ready"
    /\ leased' = IF x \in leased THEN leased \ {x} ELSE leased \union {x}
    /\ x \notin leased => Pending(x)
    /\ UNCHANGED <<schema, migration, log, kept, current, made, floor, page, serving, now,
                   fails, collected, pressure>>

\* The database, its log or its shared memory grows to the budget.
StorageFills ==
    /\ ~pressure
    /\ pressure' = TRUE
    /\ UNCHANGED <<schema, migration, log, kept, current, made, floor, page, leased, serving,
                   now, fails, collected>>

\* RegistryCheckpointer::run_pass, of the checkpoint worker: the log is copied
\* into the database and cut, unless a reader or a writer holds it.
Checkpoint ==
    /\ serving = "ready" /\ pressure
    /\ pressure' = FALSE
    /\ UNCHANGED <<schema, migration, log, kept, current, made, floor, page, leased, serving,
                   now, fails, collected>>

CiTick ==
    /\ now < MaxTime
    /\ now' = now + 1
    /\ UNCHANGED <<schema, migration, log, kept, current, made, floor, page, leased, serving,
                   fails, collected, pressure>>

--------------------------------------------------------------------------------
(* Collecting *)

\* referenced: an engine by its pending helpers and leases, a helper by an
\* engine that is not done.
Referenced(x) ==
    IF x \in EngineId
    THEN x \in leased \/ \E h \in HelperId : RunOfHelper[h] = x /\ Pending(h)
    ELSE Pending(RunOfHelper[x])

Due(x) == Settled(x) /\ Snapshot(x).at + KeepTime < now

\* The page order, (collect_after, family, id).
After(x, key) ==
    \/ Snapshot(x).at > key[1]
    \/ Snapshot(x).at = key[1] /\ x > key[2]

Key(x) == <<Snapshot(x).at, x>>

\* The next page: the first CollectLimit records that are due after the cursor.
NextPage ==
    LET due == {x \in Record : Due(x) /\ After(x, page)}
    IN  {x \in due : Cardinality({y \in due : After(x, Key(y))}) < CollectLimit}

\* The cursor after a page: the page's last record, none after the last page.
NextCursor(rows) ==
    IF Cardinality(rows) = CollectLimit
    THEN Key(CHOOSE x \in rows : \A y \in rows : y # x => After(x, Key(y)))
    ELSE <<0, 0>>

\* forget: the floor rises to the newest record that goes.
FloorAfter(gone) == Highest({floor} \union {made[x] : x \in gone})

\* reclaim_storage: free pages are given back, which may be enough.
Reclaim == pressure' \in {FALSE, pressure}

\* maintain_ci_state: the records of one page that nothing refers to are
\* forgotten.
Maintain ==
    /\ serving = "ready"
    /\ \E rows \in {NextPage} :
          LET gone == {x \in rows : ~Referenced(x)}
          IN  /\ current' = [x \in Record |-> IF x \in gone THEN 0 ELSE current[x]]
              /\ kept' = {i \in kept : log[i].of \notin gone}
              /\ floor' = FloorAfter(gone)
              /\ page' = NextCursor(rows)
              /\ collected' = collected \union gone
    /\ Reclaim
    /\ UNCHANGED <<schema, migration, log, made, leased, serving, now, fails>>

--------------------------------------------------------------------------------
CiStateNext ==
    \/ OpenCiState \/ MigrateStep \/ LoseDaemon \/ StorageFills \/ Checkpoint \/ CiTick \/ Maintain
    \/ \E x \in Record : MakeRequest(x)
    \/ \E x \in Record, st \in {"pending", "ended"} : WriteRecord(x, st)
    \/ \E x \in EngineId : ToggleLease(x)

\* The daemon comes up, its upgrade loop runs to its end, and its maintenance
\* pass collects again and again.
CiStateFairness ==
    /\ WF_ciStateVars(OpenCiState)
    /\ WF_ciStateVars(MigrateStep)
    /\ WF_ciStateVars(Maintain)

CiStateSpec == CiStateInit /\ [][CiStateNext]_ciStateVars /\ CiStateFairness

--------------------------------------------------------------------------------
(* Properties *)

\* When the daemon serves, a record's snapshot is the newest its log ever
\* held, however often the upgrade was cut short and whatever pages it was
\* read in, and a record has none only if none was written or it was collected.
CurrentIsNewest ==
    serving = "ready" =>
        \A x \in Record :
            x \notin collected =>
                current[x] = Highest({i \in 1..Len(log) : log[i].of = x})

\* A record that was collected is not brought back by a request that was made
\* before, written late or a second time: its authority would be lost.
KeepsCollected == \A x \in collected : current'[x] = 0

\* What holds again and again: no settled record outlives its time once nothing
\* refers to it, although pages end at a limit and a record may be passed by
\* while it is still referred to.
RecordsSettled == \A x \in Record : ~(Due(x) /\ ~Referenced(x))
=============================================================================
