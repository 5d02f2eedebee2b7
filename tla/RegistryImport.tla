--------------------------- MODULE RegistryImport ---------------------------
(***************************************************************************)
(* The offline move of a Python-v4 registry (bosn-registry's import.rs,    *)
(* registry.rs and immediate.rs, bosn-service's python_v4.rs and           *)
(* bin/bosn/registry.rs): `bosn registry import-v4` publishes a gated copy *)
(* at the new state directory, `reconcile-v4` inspects every active row in *)
(* the engine and takes the gate off, and only then may a daemon open it.  *)
(*                                                                         *)
(* Importers, reconcilers and daemons are separate processes; each may be  *)
(* killed between any two of its steps, and the database file may be lost. *)
(***************************************************************************)
EXTENDS Integers, FiniteSets

CONSTANTS
  Importers,    \* `registry import-v4` commands
  Reconcilers,  \* `registry reconcile-v4` commands
  Openers,      \* daemons starting on the new state directory
  Rows,         \* resources the old registry may hold as active
  MaxFiles,     \* bound: databases ever made at the destination
  MaxTurns      \* bound: changes made by the old release and by others

Procs == Importers \cup Reconcilers \cup Openers

\* No process is taken for a free lock, or for the old release.
ImportAssumption == MaxFiles \in Nat /\ MaxTurns \in Nat /\ {"", "python"} \cap Procs = {}

\* Rows of a registry: active resources, those whose uses contradict them,
\* and the leases, sessions or creation intents still there.
NoRows == [active |-> {}, ambiguous |-> {}, blockers |-> FALSE]
NoFile == [id |-> 0, made |-> FALSE, gate |-> FALSE, rows |-> NoRows]

VARIABLES
  old,       \* the legacy directory: rows, owner process, marker, its lock
  disk,      \* the database at the destination path
  writer,    \* who holds the writer lock beside it ("" for nobody)
  proc,      \* [Procs -> a process: its step and what it read]
  docker,    \* [Rows -> "own", "foreign" or "absent"]
  imported,  \* files published by an import
  settled,   \* files whose every row was proved when their gate went
  files, turns

importVars == <<old, disk, writer, proc, docker, imported, settled, files, turns>>

Fresh == [at |-> "idle", apply |-> FALSE, snap |-> NoRows, id |-> 0, todo |-> {}, proofs |-> {}, refused |-> FALSE]

ImportInit ==
  /\ \E marker, closed \in BOOLEAN, amb \in SUBSET Rows :
       old = [closed |-> closed, rows |-> [active |-> Rows, ambiguous |-> amb, blockers |-> FALSE],
              owner |-> "none", marker |-> marker, guard |-> "python"]
  /\ disk = NoFile /\ writer = "" /\ proc = [p \in Procs |-> Fresh]
  /\ docker = [r \in Rows |-> "own"]
  /\ imported = {} /\ settled = {} /\ files = 0 /\ turns = 0

-----------------------------------------------------------------------------
(* The old release, the engine and the user.                               *)

Turn ==
  /\ turns < MaxTurns
  /\ turns' = turns + 1
  /\ UNCHANGED <<disk, writer, proc, imported, settled, files>>

\* The old release works only while it holds its half of the migration lock.
\* A task it leaves behind keeps its process, and its lease row.
OldTaskBegins ==
  /\ old.guard = "python" /\ Turn
  /\ old' = [old EXCEPT !.owner = "live", !.rows.blockers = TRUE]
  /\ UNCHANGED docker

OldTaskDies ==
  /\ old.owner = "live" /\ Turn
  /\ old' = [old EXCEPT !.owner = "dead"]
  /\ UNCHANGED docker

OldForgets(r) ==
  /\ old.guard = "python" /\ r \in old.rows.active /\ Turn
  /\ old' = [old EXCEPT !.rows.active = @ \ {r}, !.rows.blockers = FALSE, !.owner = "none"]
  /\ UNCHANGED docker

OldRelinquishes ==
  /\ old.guard = "python"
  /\ old' = [old EXCEPT !.guard = ""]
  /\ UNCHANGED <<disk, writer, proc, docker, imported, settled, files, turns>>

OldReturns ==
  /\ old.guard = "" /\ Turn
  /\ old' = [old EXCEPT !.guard = "python"]
  /\ UNCHANGED docker

DockerChanges(r, now) ==
  /\ docker[r] # now /\ Turn
  /\ docker' = [docker EXCEPT ![r] = now]
  /\ UNCHANGED old

LoseFile ==
  /\ disk.id # 0 /\ turns < MaxTurns
  /\ turns' = turns + 1
  /\ disk' = NoFile
  /\ UNCHANGED <<old, writer, proc, docker, imported, settled, files>>

-----------------------------------------------------------------------------
(* The importer.                                                           *)

Step(p, s) ==
  /\ proc' = [proc EXCEPT ![p] = s]
  /\ UNCHANGED <<docker, turns>>

Drop(p) ==
  /\ old' = IF old.guard = p THEN [old EXCEPT !.guard = ""] ELSE old
  /\ writer' = IF writer = p THEN "" ELSE writer

\* Every failure and every end: locks go with the process that held them.
Leave(p) ==
  /\ Step(p, [Fresh EXCEPT !.at = IF p \in Openers THEN "idle" ELSE "done"])
  /\ Drop(p)
  /\ UNCHANGED <<disk, imported, settled, files>>

\* A variant of TakeGuard that does not wait for the old release.
TakeGuardAnyway(p) ==
  /\ proc[p].at = "idle"
  /\ Step(p, [Fresh EXCEPT !.at = "snapshot"])
  /\ UNCHANGED <<old, writer, disk, imported, settled, files>>

\* The exclusive half of the migration lock, and a marker that names the source.
TakeGuard(p) ==
  /\ proc[p].at = "idle"
  /\ IF old.guard = "" /\ old.marker
     THEN /\ Step(p, [Fresh EXCEPT !.at = "snapshot"])
          /\ old' = [old EXCEPT !.guard = p]
          /\ UNCHANGED <<writer, disk, imported, settled, files>>
     ELSE Leave(p)

\* Exactly the eight v4 tables, columns and relations, and no duplicates.
ValidV4Schema == old.closed

BackupSource(p) ==
  /\ proc[p].at = "snapshot"
  /\ IF ValidV4Schema
     THEN /\ Step(p, [proc[p] EXCEPT !.at = "owners", !.snap = old.rows])
          /\ UNCHANGED <<old, writer, disk, imported, settled, files>>
     ELSE Leave(p)

\* A process with the recorded pid refuses the import, the owner or a later one.
ValidateOwners(p) ==
  /\ proc[p].at = "owners"
  /\ IF proc[p].snap.blockers /\ old.owner = "live"
     THEN Leave(p)
     ELSE /\ Step(p, [proc[p] EXCEPT !.at = "publish"])
          /\ UNCHANGED <<old, writer, disk, imported, settled, files>>

\* A variant of PublishImport that replaces what it finds.
PublishOver(p) ==
  /\ proc[p].at = "publish" /\ files < MaxFiles
  /\ disk' = [id |-> files + 1, made |-> TRUE, gate |-> TRUE, rows |-> proc[p].snap]
  /\ imported' = imported \cup {files + 1} /\ files' = files + 1
  /\ Step(p, [Fresh EXCEPT !.at = "done"]) /\ Drop(p)
  /\ UNCHANGED settled

\* backup_to publishes the staged database whole, and never over another.
PublishImport(p) ==
  /\ proc[p].at = "publish"
  /\ IF disk.id # 0
     THEN Leave(p)
     ELSE /\ files < MaxFiles
          /\ disk' = [id |-> files + 1, made |-> TRUE, gate |-> TRUE, rows |-> proc[p].snap]
          /\ imported' = imported \cup {files + 1} /\ files' = files + 1
          /\ Step(p, [Fresh EXCEPT !.at = "done"]) /\ Drop(p)
          /\ UNCHANGED settled

Kill(p) == proc[p].at \notin {"idle", "done"} /\ turns < MaxTurns /\ Leave(p)

-----------------------------------------------------------------------------
(* Opening the destination: validate, note the file, take the lock, look   *)
(* again.                                                                  *)

\* Every table, column, index and foreign key of the current schema is there.
HasSchema == disk.made

Valid(reconciling) == HasSchema /\ disk.gate = reconciling

\* `apply --apply --yes`, or `preview`; a daemon has no such choice.
ReconcileVerbs(reconciling) == {reconciling, FALSE}

OpenProbe(p, reconciling) ==
  /\ proc[p].at = "idle" /\ disk.id # 0
  /\ IF Valid(reconciling)
     THEN /\ \E apply \in ReconcileVerbs(reconciling) :
               Step(p, [Fresh EXCEPT !.at = "lock", !.id = disk.id, !.apply = apply])
          /\ UNCHANGED <<old, writer, disk, imported, settled, files>>
     ELSE Leave(p)

AcquireWriterLock(p, reconciling, next) ==
  /\ proc[p].at = "lock"
  /\ IF writer = "" /\ disk.id = proc[p].id /\ Valid(reconciling)
     THEN /\ writer' = p
          /\ Step(p, [proc[p] EXCEPT !.at = next])
          /\ UNCHANGED <<old, disk, imported, settled, files>>
     ELSE Leave(p)

\* create_writer: the file first, then the lock, then the schema.
CreateFile(p) ==
  /\ proc[p].at = "idle" /\ disk.id = 0 /\ files < MaxFiles
  /\ disk' = [NoFile EXCEPT !.id = files + 1] /\ files' = files + 1
  /\ Step(p, [Fresh EXCEPT !.at = "create", !.id = files + 1])
  /\ UNCHANGED <<old, writer, imported, settled>>

CreateWriter(p) ==
  /\ proc[p].at = "create"
  /\ IF writer = "" /\ disk.id = proc[p].id
     THEN /\ writer' = p
          /\ disk' = [disk EXCEPT !.made = TRUE]
          /\ Step(p, [proc[p] EXCEPT !.at = "serving"])
          /\ UNCHANGED <<old, imported, settled, files>>
     ELSE Leave(p)

\* The daemon's own work leaves leases and sessions in its file.
DaemonWrites(p) ==
  /\ proc[p].at = "serving" /\ disk.id = proc[p].id /\ ~disk.rows.blockers
  /\ disk' = [disk EXCEPT !.rows.blockers = TRUE]
  /\ UNCHANGED <<old, writer, proc, docker, imported, settled, files, turns>>

-----------------------------------------------------------------------------
(* The reconciler, which holds the writer lock from here on.               *)

\* Read page by page; more rows than the limit is an error, never a prefix.
ReconciliationRows == disk.rows

CollectReconciliation(p) ==
  /\ proc[p].at = "collect"
  /\ \E rows \in {ReconciliationRows} :
       Step(p, [proc[p] EXCEPT !.at = "inspect", !.todo = rows.active \ rows.ambiguous,
                  !.refused = rows.blockers \/ rows.active \cap rows.ambiguous # {}])
  /\ UNCHANGED <<old, writer, disk, imported, settled, files>>

\* The object of exactly that name, with this registry's complete labels.
Observed(r) == docker[r]

InspectRow(p, r) ==
  /\ proc[p].at = "inspect" /\ r \in proc[p].todo
  /\ Step(p, [proc[p] EXCEPT !.todo = @ \ {r},
                             !.proofs = IF Observed(r) = "own" THEN @ \cup {r} ELSE @,
                             !.refused = @ \/ Observed(r) # "own"])
  /\ UNCHANGED <<old, writer, disk, imported, settled, files>>

\* The transaction's own checks: the gate, the exact set of rows, no blocker.
Completes(p) == disk.gate /\ disk.rows.active = proc[p].proofs /\ ~disk.rows.blockers

ApplyReconciliation(p) ==
  /\ proc[p].at = "inspect" /\ proc[p].todo = {}
  /\ IF ~proc[p].apply \/ proc[p].refused \/ disk.id # proc[p].id \/ ~Completes(p)
     THEN Leave(p)
     ELSE /\ disk' = [disk EXCEPT !.gate = FALSE]
          /\ settled' = IF disk.rows.active \subseteq proc[p].proofs /\ ~disk.rows.blockers
                        THEN settled \cup {disk.id} ELSE settled
          /\ Step(p, [Fresh EXCEPT !.at = "done"]) /\ Drop(p)
          /\ UNCHANGED <<imported, files>>

-----------------------------------------------------------------------------
ImportNext ==
  \/ OldTaskBegins \/ OldTaskDies \/ OldRelinquishes \/ OldReturns \/ LoseFile
  \/ \E r \in Rows : OldForgets(r) \/ \E now \in {"own", "foreign", "absent"} : DockerChanges(r, now)
  \/ \E p \in Importers : TakeGuard(p) \/ BackupSource(p) \/ ValidateOwners(p) \/ PublishImport(p)
  \/ \E p \in Reconcilers :
       \/ OpenProbe(p, TRUE) \/ AcquireWriterLock(p, TRUE, "collect")
       \/ CollectReconciliation(p) \/ (\E r \in Rows : InspectRow(p, r)) \/ ApplyReconciliation(p)
  \/ \E p \in Openers :
       \/ OpenProbe(p, FALSE) \/ AcquireWriterLock(p, FALSE, "serving")
       \/ CreateFile(p) \/ CreateWriter(p) \/ DaemonWrites(p)
  \/ \E p \in Procs : Kill(p)

ImportSpec == ImportInit /\ [][ImportNext]_importVars

-----------------------------------------------------------------------------
(* Properties.                                                             *)

\* A daemon serves an imported registry only after a reconciliation proved
\* every active row of that very file in the engine and found nothing
\* unfinished in it (validate_inner's gate, complete_python_v4_reconciliation).
ServedIsReconciled ==
  \A p \in Openers : proc[p].at = "serving" /\ proc[p].id \in imported => proc[p].id \in settled

\* Whoever may write the database holds the one writer lock beside it, across
\* files that come and go at that path (acquire_writer_lock).
OneRegistryWriter ==
  Cardinality({p \in Procs : proc[p].at \in {"serving", "collect", "inspect"}}) <= 1

\* What an import is about to publish is still what the old registry holds,
\* and no process of the old release owns any of it (the migration guard,
\* validate_owners).
SnapshotIsCurrent ==
  \A p \in Importers : proc[p].at = "publish" =>
    proc[p].snap = old.rows /\ (old.owner = "live" => ~proc[p].snap.blockers)

ImportSafe == ServedIsReconciled /\ OneRegistryWriter /\ SnapshotIsCurrent

\* An import never takes the place of a database that is already there
\* (import.rs publishes with ImportTargetExists).
OverwritesNothing ==
     disk.id # 0 => disk'.id \in {0, disk.id}
=============================================================================
