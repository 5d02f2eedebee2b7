-------------------------------- MODULE Apps --------------------------------
(***************************************************************************)
(* The managed containers and volumes of one stack of one workspace: the   *)
(* registry's rows about them, the jobs that create them and run commands  *)
(* in them, and everything that stops or removes them: the explicit        *)
(* collection commands, the stop of retired generations, and the           *)
(* maintenance pass of the daemon.  Every registry command is one          *)
(* transaction of the registry actor; every Docker command is a step.      *)
(*                                                                         *)
(* A generation g has one container, named by its content; box[g] is what  *)
(* Docker has.  A manifest stack's generation mounts its own volume (named *)
(* g here, spec-scoped) and the stack's Data volume.                       *)
(***************************************************************************)
EXTENDS Naturals, FiniteSets

CONSTANTS Gen,         \* generations of the stack
          Data,        \* the volume the generations share
          Ensurer,     \* concurrent ensure jobs
          Tasker,      \* task jobs
          MaxAsked,    \* bound on requests of clients
          MaxCrashes   \* bound on daemon crashes

Vol == Gen \cup {Data}
Idle == "-"

VARIABLES
  stack,               \* "setup" | "manifest"
  row, vrow,           \* rows of containers and of volumes
  intents, sess,       \* volume creation intents; execution session of a job
  box, vol,            \* Docker's containers and volumes
  busy,                \* the container a job's command runs in
  boxOld, volOld,      \* containers and volumes past their retention gate
  ens, task, stopper, gc, keep,
  up, crashes,
  asked                \* requests so far

registry == <<row, vrow, intents, sess>>
engine == <<box, vol, busy>>
ages == <<boxOld, volOld>>
daemonVars == <<up, crashes>>
appVars == <<stack, registry, engine, ages, ens, task, stopper, gc, keep, daemonVars, asked>>

VolsOf(g) == IF stack = "manifest" THEN {g, Data} ELSE {}
Attached(v) == \E g \in Gen : box[g] # "none" /\ v \in VolsOf(g)
Protected(g) == \E t \in Tasker : sess[t] = g

NoEns == [pc |-> Idle, gen |-> Idle, todo |-> {}, again |-> FALSE]
NoTask == [pc |-> Idle, gen |-> Idle, left |-> {}]
NoFlow == [pc |-> Idle, op |-> Idle, obj |-> Idle]
NoPass == [pc |-> Idle, boxes |-> {}, vols |-> {}, obj |-> Idle, proven |-> FALSE]

AppInit ==
  /\ stack \in {"setup", "manifest"}
  /\ row = [g \in Gen |-> "none"] /\ vrow = [v \in Vol |-> "none"]
  /\ intents = {} /\ sess = [t \in Tasker |-> Idle]
  /\ box = [g \in Gen |-> "none"] /\ vol = [v \in Vol |-> "none"]
  /\ busy = [t \in Tasker |-> Idle]
  /\ boxOld = {} /\ volOld = {}
  /\ ens = [e \in Ensurer |-> NoEns] /\ task = [t \in Tasker |-> NoTask]
  /\ stopper = [a \in Tasker \cup {"gc"} |-> NoFlow]
  /\ gc = NoFlow /\ keep = NoPass
  /\ up = TRUE /\ crashes = 0 /\ asked = 0

-----------------------------------------------------------------------------
(* What the registry's queries and commands do. *)

\* setup_gc_candidate_exists: a retired container no session names.
Collectable(g) == row[g] = "retired" /\ ~Protected(g)

\* manifest_volume_gc_candidate_exists: a retired spec volume, nothing pending.
VolumeCollectable(v) == v \in Gen /\ vrow[v] = "retired" /\ v \notin intents

\* manifest_volume_release_candidate_exists: the durable volume, on request.
Releasable(v) == v = Data /\ vrow[v] = "active" /\ v \notin intents

\* setup_missing_repair_candidate_exists.
Repairable(g) == stack = "setup" /\ row[g] = "active" /\ ~Protected(g)

\* retire_prior_*_container_generations, with the new row.
RetirePrior(g) ==
  [h \in Gen |-> IF h = g THEN "active"
                 ELSE IF row[h] = "active" THEN "retired" ELSE row[h]]

\* retire_prior_manifest_warm_spec_volume_generations, with the new rows.
RetirePriorVolumes(g) ==
  [v \in Vol |-> IF v \in VolsOf(g) THEN "active"
                 ELSE IF v \in Gen /\ vrow[v] = "active" THEN "retired" ELSE vrow[v]]

RecordSetupEnsure(g) ==
  /\ stack = "setup" /\ row' = RetirePrior(g)
  /\ boxOld' = boxOld \ {g}
  /\ UNCHANGED <<vrow, intents, sess, volOld>>

RecordManifestEnsure(g) ==
  /\ stack = "manifest" /\ row' = RetirePrior(g) /\ vrow' = RetirePriorVolumes(g)
  /\ intents' = intents \ VolsOf(g)
  /\ boxOld' = boxOld \ {g} /\ volOld' = volOld \ VolsOf(g)
  /\ UNCHANGED sess

\* complete_setup_workspace: the uses and the rows they leave are done.
CompleteSetup ==
  /\ up /\ stack = "setup"
  /\ \E g \in Gen : row[g] = "active"
  /\ row' = [g \in Gen |-> IF row[g] = "active" THEN "done" ELSE row[g]]
  /\ boxOld' = boxOld \ {g \in Gen : row[g] = "active"}
  /\ UNCHANGED <<stack, vrow, intents, sess, engine, volOld, ens, task, stopper, gc, keep, daemonVars>>

-----------------------------------------------------------------------------
(* Ensuring: the one container of a generation, reused only when its image,*)
(* its configuration and the labels of its volumes are exactly right.      *)

\* verify_configuration: every volume the container mounts carries our labels.
Verified(g) == box[g] # "none" /\ \A v \in VolsOf(g) : vol[v] = "ours"

Ensuring(e, pc) == up /\ ens[e].pc = pc
EnsTo(e, pc) == ens' = [ens EXCEPT ![e].pc = pc]
EnsStop(e) == ens' = [ens EXCEPT ![e] = NoEns]
OnlyEnsure == UNCHANGED <<stack, task, stopper, gc, keep, daemonVars>>

\* The plan, and the intents that precede any volume.
EnsurePlan(e, g) ==
  /\ Ensuring(e, Idle)
  /\ ens' = [ens EXCEPT ![e] = [NoEns EXCEPT !.pc = "inspect", !.gen = g]]
  /\ intents' = intents \cup VolsOf(g)
  /\ UNCHANGED <<row, vrow, sess, engine, ages>> /\ OnlyEnsure

EnsureInspect(e) ==
  LET g == ens[e].gen IN
  /\ Ensuring(e, "inspect")
  /\ IF box[g] = "none" THEN ens' = [ens EXCEPT ![e].pc = "volumes", ![e].todo = VolsOf(g)]
     ELSE IF ~Verified(g) THEN EnsStop(e)
     ELSE EnsTo(e, IF box[g] = "running" THEN "record" ELSE "start")
  /\ UNCHANGED <<registry, engine, ages>> /\ OnlyEnsure

\* Each volume is inspected, and created when missing.
EnsureVolume(e) ==
  /\ Ensuring(e, "volumes")
  /\ \E v \in ens[e].todo :
       \/ /\ vol[v] = "bare" /\ EnsStop(e) /\ UNCHANGED <<vol, volOld>>
       \/ /\ vol[v] # "bare"
          /\ ens' = [ens EXCEPT ![e].todo = @ \ {v}]
          /\ vol' = [vol EXCEPT ![v] = "ours"]
          /\ volOld' = IF vol[v] = "none" THEN volOld \ {v} ELSE volOld
  /\ UNCHANGED <<registry, box, busy, boxOld>> /\ OnlyEnsure

\* docker create makes a missing volume itself, without labels; a name in use
\* is inspected once more (#562).
EnsureCreate(e) ==
  LET g == ens[e].gen IN
  /\ Ensuring(e, "volumes") /\ ens[e].todo = {}
  /\ \/ /\ box[g] = "none" /\ EnsTo(e, "verify")
        /\ box' = [box EXCEPT ![g] = "stopped"] /\ boxOld' = boxOld \ {g}
        /\ vol' = [v \in Vol |-> IF v \in VolsOf(g) /\ vol[v] = "none" THEN "bare" ELSE vol[v]]
        /\ volOld' = volOld \ {v \in VolsOf(g) : vol[v] = "none"}
     \/ /\ box[g] # "none"
        /\ IF ens[e].again THEN EnsStop(e)
           ELSE ens' = [ens EXCEPT ![e].pc = "inspect", ![e].again = TRUE]
        /\ UNCHANGED <<box, vol, ages>>
  /\ UNCHANGED <<registry, busy>> /\ OnlyEnsure

EnsureVerify(e) ==
  /\ Ensuring(e, "verify")
  /\ IF Verified(ens[e].gen) THEN EnsTo(e, "start") ELSE EnsStop(e)
  /\ UNCHANGED <<registry, engine, ages>> /\ OnlyEnsure

EnsureStart(e) ==
  LET g == ens[e].gen IN
  /\ Ensuring(e, "start")
  /\ IF box[g] = "none" THEN EnsStop(e) /\ UNCHANGED box
     ELSE EnsTo(e, "record") /\ box' = [box EXCEPT ![g] = "running"]
  /\ UNCHANGED <<registry, vol, busy, ages>> /\ OnlyEnsure

\* The job actor records the outcome.
EnsureRecord(e) ==
  /\ Ensuring(e, "record") /\ EnsStop(e)
  /\ RecordSetupEnsure(ens[e].gen) \/ RecordManifestEnsure(ens[e].gen)
  /\ UNCHANGED engine /\ OnlyEnsure

\* A deadline, a cancellation or an engine error ends the job where it is.
EnsureFails(e) ==
  /\ up /\ ens[e].pc # Idle /\ EnsStop(e)
  /\ UNCHANGED <<registry, engine, ages>> /\ OnlyEnsure

\* adopt_setup_app: an existing container is only looked at.
AdoptInspect(e, g) ==
  /\ Ensuring(e, Idle) /\ stack = "setup" /\ Verified(g)
  /\ ens' = [ens EXCEPT ![e] = [NoEns EXCEPT !.pc = "adopt", !.gen = g]]
  /\ UNCHANGED <<registry, engine, ages>> /\ OnlyEnsure

\* record_setup_adoption: a row in another state refuses; nothing is retired.
AdoptRecord(e) ==
  LET g == ens[e].gen IN
  /\ Ensuring(e, "adopt") /\ EnsStop(e)
  /\ \/ row[g] \in {"none", "active"} /\ row' = [row EXCEPT ![g] = "active"] /\ boxOld' = boxOld \ {g}
     \/ row[g] \notin {"none", "active"} /\ UNCHANGED <<row, boxOld>>
  /\ UNCHANGED <<vrow, intents, sess, engine, volOld>> /\ OnlyEnsure

-----------------------------------------------------------------------------
(* Stopping a retired container: one registry check, two looks, a stop.    *)

StopTo(a, pc) == stopper' = [stopper EXCEPT ![a].pc = pc]
StopEnd(a) == stopper' = [stopper EXCEPT ![a] = NoFlow]
OnlyStop == UNCHANGED <<stack, registry, vol, busy, ages, ens, task, gc, keep, daemonVars>>

StopLook(a) ==
  LET g == stopper[a].obj IN
  /\ up /\ stopper[a].pc \in {"look", "again"}
  /\ IF box[g] # "running" THEN StopEnd(a)
     ELSE StopTo(a, IF stopper[a].pc = "look" THEN "again" ELSE "stop")
  /\ UNCHANGED box /\ OnlyStop

\* docker stop; then the inspection and the confirmation, which change nothing.
StopBox(a) ==
  LET g == stopper[a].obj IN
  /\ up /\ stopper[a].pc = "stop" /\ StopEnd(a)
  /\ box' = [box EXCEPT ![g] = IF @ = "running" THEN "stopped" ELSE @]
  /\ OnlyStop

\* The client's explicit stop of a retired container.
StopRequest(g) ==
  /\ up /\ stopper["gc"].pc = Idle /\ Collectable(g)
  /\ stopper' = [stopper EXCEPT !["gc"] = [pc |-> "look", op |-> "stop", obj |-> g]]
  /\ UNCHANGED box /\ OnlyStop

-----------------------------------------------------------------------------
(* Running a declared task in the container of a generation.               *)

Tasking(t, pc) == up /\ task[t].pc = pc
TaskTo(t, pc) == task' = [task EXCEPT ![t].pc = pc]
TaskEnd(t) == task' = [task EXCEPT ![t] = NoTask]
OnlyTask == UNCHANGED <<stack, vrow, intents, box, vol, ens, gc, keep, daemonVars>>

\* Plan, image, adoption: the container must verify and run.
TaskAdopt(t, g) ==
  /\ Tasking(t, Idle) /\ sess[t] = Idle /\ Verified(g) /\ box[g] = "running"
  /\ task' = [task EXCEPT ![t] = [pc |-> "list", gen |-> g, left |-> {}]]
  /\ UNCHANGED <<row, sess, busy, ages, stopper>> /\ OnlyTask

\* stop_retired_stack_containers: the preview, before the task and after it.
TaskList(t) ==
  /\ task[t].pc \in {"list", "relist"} /\ up
  /\ task' = [task EXCEPT ![t].pc = IF @ = "list" THEN "sweep" ELSE "resweep",
                          ![t].left = IF stack = "manifest" THEN {g \in Gen : Collectable(g)} ELSE {}]
  /\ UNCHANGED <<row, sess, busy, ages, stopper>> /\ OnlyTask

\* One candidate after the other, each checked again.
TaskSweep(t) ==
  /\ task[t].pc \in {"sweep", "resweep"} /\ up /\ stopper[t].pc = Idle
  /\ \E g \in task[t].left :
       /\ task' = [task EXCEPT ![t].left = @ \ {g}]
       /\ stopper' = IF Collectable(g)
                     THEN [stopper EXCEPT ![t] = [pc |-> "look", op |-> "stop", obj |-> g]]
                     ELSE stopper
  /\ UNCHANGED <<row, sess, busy, ages>> /\ OnlyTask

TaskSwept(t) ==
  /\ task[t].pc \in {"sweep", "resweep"} /\ up /\ stopper[t].pc = Idle /\ task[t].left = {}
  /\ IF task[t].pc = "sweep" THEN TaskTo(t, "begin") ELSE TaskEnd(t)
  /\ UNCHANGED <<row, sess, busy, ages, stopper>> /\ OnlyTask

\* The session is recorded before the command can run.
TaskBegin(t) ==
  /\ Tasking(t, "begin") /\ TaskTo(t, "exec")
  /\ sess' = [sess EXCEPT ![t] = task[t].gen]
  /\ UNCHANGED <<row, busy, ages, stopper>> /\ OnlyTask

\* docker exec starts the command, or cannot.
TaskExec(t) ==
  LET g == task[t].gen IN
  /\ Tasking(t, "exec")
  /\ TaskTo(t, "running")
  /\ busy' = IF box[g] = "running" THEN [busy EXCEPT ![t] = g] ELSE busy
  /\ UNCHANGED <<row, sess, ages, stopper>> /\ OnlyTask

\* What the executor learns: the end of the command, or nothing.
TaskWait(t) ==
  /\ Tasking(t, "running")
  /\ \/ busy[t] = Idle /\ TaskTo(t, "finish")
     \/ TaskTo(t, "uncertain")
  /\ UNCHANGED <<row, sess, busy, ages, stopper>> /\ OnlyTask

\* A variant of TaskFinish that forgets the session whatever was learned.
TaskFinishAnyhow(t) ==
  /\ up /\ task[t].pc \in {"finish", "uncertain"}
  /\ task' = [task EXCEPT ![t].pc = "relist"]
  /\ sess' = [sess EXCEPT ![t] = Idle]
  /\ boxOld' = boxOld \ {g \in Gen : row[g] # "none"}
  /\ volOld' = volOld \ {v \in Vol : vrow[v] # "none"}
  /\ UNCHANGED <<row, busy, stopper>> /\ OnlyTask

\* finish_*_app_task_session: every row of the stack is touched and the
\* session goes; a completion nobody knows keeps it.
TaskFinish(t) ==
  /\ up /\ task[t].pc \in {"finish", "uncertain"}
  /\ task' = [task EXCEPT ![t].pc = "relist"]
  /\ IF task[t].pc = "finish"
     THEN /\ sess' = [sess EXCEPT ![t] = Idle]
          /\ boxOld' = boxOld \ {g \in Gen : row[g] # "none"}
          /\ volOld' = volOld \ {v \in Vol : vrow[v] # "none"}
     ELSE UNCHANGED <<sess, ages>>
  /\ UNCHANGED <<row, busy, stopper>> /\ OnlyTask

\* A deadline or a cancellation before the session begins.
TaskFails(t) ==
  /\ up /\ task[t].pc \in {"list", "sweep", "begin"} /\ stopper[t].pc = Idle /\ TaskEnd(t)
  /\ UNCHANGED <<row, sess, busy, ages, stopper>> /\ OnlyTask

\* The command ends, or its container does.
CommandEnds(t) ==
  /\ busy[t] # Idle
  /\ busy' = [busy EXCEPT ![t] = Idle]
  /\ UNCHANGED <<row, sess, ages, task, stopper>> /\ OnlyTask

-----------------------------------------------------------------------------
(* The explicit collection commands. *)

OnlyGc == UNCHANGED <<stack, intents, sess, busy, ages, ens, task, stopper, keep, daemonVars>>
GcTo(pc) == gc' = [gc EXCEPT !.pc = pc]

GcStart(op, x) ==
  /\ up /\ gc.pc = Idle
  /\ \/ op = "container" /\ x \in Gen /\ Collectable(x)
     \/ op = "volume" /\ VolumeCollectable(x)
     \/ op = "release" /\ Releasable(x)
     \/ op = "repair" /\ x \in Gen /\ Repairable(x)
  /\ gc' = [pc |-> "look", op |-> op, obj |-> x]
  /\ UNCHANGED <<row, vrow, box, vol>> /\ OnlyGc

\* apply_setup_gc_candidate looks twice for a stopped container.
GcLookContainer ==
  LET g == gc.obj IN
  /\ up /\ gc.op = "container" /\ gc.pc \in {"look", "again"}
  /\ IF box[g] = "none" THEN GcTo("final")
     ELSE IF box[g] = "running" THEN gc' = NoFlow
     ELSE GcTo(IF gc.pc = "look" THEN "again" ELSE "remove")
  /\ UNCHANGED <<row, vrow, box, vol>> /\ OnlyGc

\* apply_manifest_volume_*_candidate look twice for our labels and nothing attached.
GcLookVolume ==
  LET v == gc.obj IN
  /\ up /\ gc.op \in {"volume", "release"} /\ gc.pc \in {"look", "again"}
  /\ IF vol[v] = "none" THEN GcTo("final")
     ELSE IF vol[v] = "bare" \/ Attached(v) THEN gc' = NoFlow
     ELSE GcTo(IF gc.pc = "look" THEN "again" ELSE IF gc.op = "release" THEN "recheck" ELSE "remove")
  /\ UNCHANGED <<row, vrow, box, vol>> /\ OnlyGc

\* A release runs the durable predicate once more before the removal.
GcRecheck ==
  /\ up /\ gc.pc = "recheck"
  /\ IF Releasable(gc.obj) THEN GcTo("remove") ELSE gc' = NoFlow
  /\ UNCHANGED <<row, vrow, box, vol>> /\ OnlyGc

\* Docker refuses to remove a running container or an attached volume.
GcRemove ==
  LET x == gc.obj IN
  /\ up /\ gc.pc = "remove"
  /\ \/ /\ gc.op = "container" /\ box[x] = "stopped" /\ GcTo("final")
        /\ box' = [box EXCEPT ![x] = "none"] /\ UNCHANGED vol
     \/ /\ gc.op # "container" /\ vol[x] # "none" /\ ~Attached(x) /\ GcTo("final")
        /\ vol' = [vol EXCEPT ![x] = "none"] /\ UNCHANGED box
     \/ /\ IF gc.op = "container" THEN box[x] # "stopped" ELSE vol[x] = "none" \/ Attached(x)
        /\ gc' = NoFlow /\ UNCHANGED <<box, vol>>
  /\ UNCHANGED <<row, vrow>> /\ OnlyGc

\* finalize_*: the row goes if it is still what was selected.
GcFinal ==
  LET x == gc.obj IN
  /\ up /\ gc.pc = "final" /\ gc' = NoFlow
  /\ row' = IF gc.op = "container" /\ Collectable(x) THEN [row EXCEPT ![x] = "none"] ELSE row
  /\ vrow' = IF \/ gc.op = "volume" /\ VolumeCollectable(x)
                \/ gc.op = "release" /\ Releasable(x)
             THEN [vrow EXCEPT ![x] = "none"] ELSE vrow
  /\ UNCHANGED <<box, vol>> /\ OnlyGc

\* repair_missing_setup_reconcile_candidate: an active row whose container is
\* gone is retired, if it still can be.
GcRepair ==
  /\ up /\ gc.op = "repair" /\ gc.pc \in {"look", "repair"}
  /\ IF gc.pc = "look"
     THEN /\ IF box[gc.obj] = "none" THEN GcTo("repair") ELSE gc' = NoFlow
          /\ UNCHANGED row
     ELSE /\ gc' = NoFlow
          /\ row' = IF Repairable(gc.obj) THEN [row EXCEPT ![gc.obj] = "retired"] ELSE row
  /\ UNCHANGED <<vrow, box, vol>> /\ OnlyGc

-----------------------------------------------------------------------------
(* The maintenance pass: idle keepalives are stopped, then what is past    *)
(* its gate is removed, containers before volumes.                         *)

OnlyKeep == UNCHANGED <<stack, registry, busy, ages, ens, task, stopper, gc, daemonVars>>
KeepTo(pc) == keep' = [keep EXCEPT !.pc = pc]

\* A variant of ProvenBox that takes retired containers only.
ProvenBoxRetired(g) == row[g] = "retired" /\ ~Protected(g) /\ g \in boxOld

\* RegisteredOwnership: a row proves the object ours; a session or an intent
\* marks it in use.
ProvenBox(g) == row[g] # "none" /\ ~Protected(g) /\ g \in boxOld
ProvenVol(v) == vrow[v] # "none" /\ v \notin intents /\ v \in volOld

\* only_keepalive_processes: the process table holds no command of a task.
KeepaliveOnly(g) == \A t \in Tasker : busy[t] # g

\* retire_idle_keepalives: the candidates.
PassStart ==
  /\ up /\ keep.pc = Idle
  /\ keep' = [NoPass EXCEPT !.pc = "idle", !.boxes = {g \in Gen : box[g] = "running" /\ ProvenBox(g)}]
  /\ UNCHANGED <<box, vol>> /\ OnlyKeep

\* stop_if_still_idle: the process table, then the registry, then the stop.
IdleLook(g) ==
  /\ up /\ keep.pc = "idle" /\ g \in keep.boxes
  /\ keep' = [keep EXCEPT !.boxes = @ \ {g}, !.obj = g,
                          !.pc = IF box[g] = "running" /\ KeepaliveOnly(g)
                                 THEN "check" ELSE "idle"]
  /\ UNCHANGED <<box, vol>> /\ OnlyKeep

IdleCheck ==
  /\ up /\ keep.pc = "check"
  /\ KeepTo(IF ProvenBox(keep.obj) THEN "stop" ELSE "idle")
  /\ UNCHANGED <<box, vol>> /\ OnlyKeep

IdleStop ==
  /\ up /\ keep.pc = "stop" /\ KeepTo("idle")
  /\ box' = [box EXCEPT ![keep.obj] = IF @ = "running" THEN "stopped" ELSE @]
  /\ UNCHANGED vol /\ OnlyKeep

\* managed_retention_pass: what plan_managed_with selects.
PassPlan ==
  /\ up /\ keep.pc = "idle" /\ keep.boxes = {}
  /\ keep' = [NoPass EXCEPT !.pc = "plan",
                !.boxes = {g \in Gen : box[g] = "stopped" /\ ProvenBox(g)},
                !.vols = {v \in Vol : vol[v] = "ours" /\ ~Attached(v) /\ ProvenVol(v)}]
  /\ UNCHANGED <<box, vol>> /\ OnlyKeep

\* revalidate: the authority is loaded first ...
Revalidate(x) ==
  /\ up /\ keep.pc = "plan"
  /\ IF keep.boxes # {}
     THEN /\ x \in keep.boxes
          /\ keep' = [keep EXCEPT !.boxes = @ \ {x}, !.obj = x, !.pc = "box", !.proven = ProvenBox(x)]
     ELSE /\ x \in keep.vols
          /\ keep' = [keep EXCEPT !.vols = @ \ {x}, !.obj = x, !.pc = "vol", !.proven = ProvenVol(x)]
  /\ UNCHANGED <<box, vol>> /\ OnlyKeep

\* ... then Docker is read, and the object is judged again.
Reread ==
  /\ up /\ keep.pc \in {"box", "vol"}
  /\ KeepTo(CASE ~keep.proven -> "plan"
              [] keep.proven /\ keep.pc = "box" -> IF box[keep.obj] = "stopped" THEN "rmbox" ELSE "plan"
              [] OTHER -> IF vol[keep.obj] = "ours" /\ ~Attached(keep.obj) THEN "rmvol" ELSE "plan")
  /\ UNCHANGED <<box, vol>> /\ OnlyKeep

\* remove_owned, never by force.
RemoveOwned ==
  LET x == keep.obj IN
  /\ up /\ keep.pc \in {"rmbox", "rmvol"} /\ KeepTo("plan")
  /\ box' = IF keep.pc = "rmbox" /\ box[x] = "stopped" THEN [box EXCEPT ![x] = "none"] ELSE box
  /\ vol' = IF keep.pc = "rmvol" /\ ~Attached(x) THEN [vol EXCEPT ![x] = "none"] ELSE vol
  /\ OnlyKeep

PassEnd ==
  /\ up /\ keep.pc = "plan" /\ keep.boxes = {} /\ keep.vols = {}
  /\ keep' = NoPass
  /\ UNCHANGED <<box, vol>> /\ OnlyKeep

-----------------------------------------------------------------------------
(* Time, the death of the daemon and its start. *)

\* The gates pass for everything that was not touched since.
Age ==
  /\ boxOld' = {g \in Gen : box[g] # "none"} /\ volOld' = {v \in Vol : vol[v] # "none"}
  /\ ages' # ages
  /\ UNCHANGED <<stack, registry, engine, ens, task, stopper, gc, keep, daemonVars>>

AppCrash ==
  /\ up /\ crashes < MaxCrashes
  /\ up' = FALSE /\ crashes' = crashes + 1
  /\ ens' = [e \in Ensurer |-> NoEns] /\ task' = [t \in Tasker |-> NoTask]
  /\ stopper' = [a \in Tasker \cup {"gc"} |-> NoFlow] /\ gc' = NoFlow /\ keep' = NoPass
  /\ UNCHANGED <<stack, registry, engine, ages>>

\* recover_manifest_startup, before requests are served: an active container
\* that was to start with the daemon, with nothing pending in its stack.
RecoverApp(g) ==
  /\ ~up /\ stack = "manifest" /\ row[g] = "active" /\ ~Protected(g) /\ intents = {}
  /\ Verified(g) /\ box[g] = "stopped"
  /\ box' = [box EXCEPT ![g] = "running"]
  /\ UNCHANGED <<stack, registry, vol, busy, ages, ens, task, stopper, gc, keep, daemonVars>>

AppRestart ==
  /\ ~up /\ up' = TRUE
  /\ UNCHANGED <<stack, registry, engine, ages, ens, task, stopper, gc, keep, crashes>>

-----------------------------------------------------------------------------
EnsureStep(e) ==
  \/ EnsureInspect(e) \/ EnsureVolume(e) \/ EnsureCreate(e) \/ EnsureVerify(e)
  \/ EnsureStart(e) \/ EnsureRecord(e) \/ AdoptRecord(e)

TaskStep(t) ==
  \/ TaskList(t) \/ TaskSweep(t) \/ TaskSwept(t) \/ TaskBegin(t) \/ TaskExec(t)
  \/ TaskWait(t) \/ TaskFinish(t)

KeepStep ==
  \/ PassStart \/ IdleCheck \/ IdleStop \/ PassPlan \/ Reread \/ RemoveOwned \/ PassEnd
  \/ \E g \in Gen : IdleLook(g)
  \/ \E x \in Vol : Revalidate(x)

\* What clients ask for.
Request ==
  \/ \E e \in Ensurer, g \in Gen : EnsurePlan(e, g) \/ AdoptInspect(e, g)
  \/ \E t \in Tasker, g \in Gen : TaskAdopt(t, g)
  \/ \E g \in Gen : StopRequest(g)
  \/ \E op \in {"container", "volume", "release", "repair"}, x \in Vol : GcStart(op, x)
  \/ CompleteSetup

\* What the daemon, Docker and the clock do.
Work ==
  \/ \E e \in Ensurer : EnsureStep(e) \/ EnsureFails(e)
  \/ \E t \in Tasker : TaskStep(t) \/ TaskFails(t) \/ CommandEnds(t)
  \/ \E a \in Tasker \cup {"gc"} : StopLook(a) \/ StopBox(a)
  \/ \E g \in Gen : RecoverApp(g)
  \/ GcLookContainer \/ GcLookVolume \/ GcRecheck \/ GcRemove \/ GcFinal \/ GcRepair
  \/ KeepStep \/ Age \/ AppCrash \/ AppRestart

AppNext ==
  \/ asked < MaxAsked /\ asked' = asked + 1 /\ Request
  \/ UNCHANGED asked /\ Work

\* The maintenance loop runs while the daemon does, the clock runs, and
\* somebody starts the daemon again.
Keeping == KeepStep /\ UNCHANGED asked
Returning == AppRestart /\ UNCHANGED asked
Ageing == Age /\ UNCHANGED asked
AppFairness == WF_appVars(Keeping) /\ WF_appVars(Returning) /\ WF_appVars(Ageing)

AppSpec == AppInit /\ [][AppNext]_appVars /\ AppFairness

-----------------------------------------------------------------------------
(* Properties. *)

\* A command running in a container is covered by a recorded session,
\* whatever became of the job that started it: a lost completion and a dead
\* daemon leave the session that keeps the container.
CommandIsRecorded == \A t \in Tasker : busy[t] # Idle => sess[t] = busy[t]

\* A manifest stack has at most one active generation, however many ensures
\* of different generations overlap.
OneActiveGeneration ==
  stack = "manifest" => Cardinality({g \in Gen : row[g] = "active"}) <= 1

AppsSafe == CommandIsRecorded /\ OneActiveGeneration

\* Once nobody uses the stack any more and no session or intent is left, the
\* maintenance passes remove every container and volume the registry knows,
\* retired or not; only a container no row proves keeps its volumes.
AppQuiet ==
  /\ \A e \in Ensurer : ens[e].pc = Idle
  /\ \A t \in Tasker : task[t].pc = Idle /\ sess[t] = Idle
  /\ \A a \in Tasker \cup {"gc"} : stopper[a].pc = Idle
  /\ gc.pc = Idle

AppsSettled ==
  AppQuiet =>
    /\ \A g \in Gen : row[g] # "none" => box[g] = "none"
    /\ \A v \in Vol : vrow[v] # "none" /\ v \notin intents /\ vol[v] = "ours" => Attached(v)
=============================================================================
