---------------------------- MODULE SharedEngine ----------------------------
(***************************************************************************)
(* One CI engine per machine, shared by every daemon (ci/shared_engine.rs, *)
(* ci/shared_engine/machine_ops.rs and preparation.rs, ci/machine.rs,      *)
(* ci/spare.rs, ci/lifecycle.rs, act_runtime/startup.rs).                  *)
(*                                                                         *)
(* The claim is a container whose name Docker gives out once; its labels   *)
(* name an engine and the daemon process that makes it.  Runs of any       *)
(* daemon lease a slot inside the engine; the slot table lives in the      *)
(* engine and every operation on it is atomic (slots.sh, under one lock).  *)
(* Each daemon is a leasing task and a reaper task which share the mutex   *)
(* `held': the lock is taken when task[d] is not idle.  Between two calls  *)
(* to Docker another daemon may step.                                      *)
(***************************************************************************)
EXTENDS Integers, FiniteSets

CONSTANTS
  Daemon,      \* state directories: a daemon and its registry
  Run,         \* CI runs
  Kind,        \* engine identities: pinned images, init command, release
  Slot,        \* slot numbers of an engine, 0 .. 7 in the code
  None,
  MaxEngines,  \* bound: engines ever made
  MaxEvents    \* bound: crashes, faults, cancellations, config changes

VARIABLES
  claim,    \* the claim container: the engine it names and its maker, or None
  engine,   \* the engine containers, with the slot table kept in each
  made,     \* number of engines made so far (an engine's name is unique)
  life,     \* [Daemon -> incarnation of its process], 0 when it is down
  lives,    \* [Daemon -> incarnations used so far]
  closed,   \* daemons that are stopping
  wanted,   \* daemons that leased since they started
  want,     \* [Daemon -> the identity its runs need now]
  record,   \* [Daemon -> engines with a pending record in its registry]
  held,     \* [Daemon -> the engine it holds, or None]
  task,     \* [Daemon -> what the holder of the mutex is about to do]
  reaper,   \* [Daemon -> what the reaper is about to do without the mutex]
  guard,    \* [Daemon -> engines whose PreparationGuard was dropped]
  run,      \* [Run -> its lease]
  legacy,   \* an engine of an earlier release: "busy", "idle" or "gone"
  looked,   \* daemons that saw the legacy engine idle once
  crossed,  \* history: engines that two reapers reclaimed slots of at the same time
  events    \* events so far

vars == <<claim, engine, made, life, lives, closed, wanted, want, record, held,
          task, reaper, guard, run, legacy, looked, crossed, events>>
daemons == <<life, lives, closed, wanted, want>>
old == <<legacy, looked>>

Engines == 1 .. MaxEngines
Idle == [at |-> "idle", run |-> None, engine |-> None]
NoReaper == [at |-> "idle", engine |-> None, dead |-> {}]
\* An engine that was never made, or is removed.
Absent == [up |-> "absent", registry |-> None, kind |-> None, ready |-> FALSE,
           requested |-> FALSE, retiring |-> FALSE, slots |-> [s \in Slot |-> None]]

Process(d) == [daemon |-> d, life |-> life[d]]
Processes == [daemon : Daemon, life : Nat \ {0}]
Claims == [engine : Engines, maker : Processes]
Holdings == [engine : Engines, own : BOOLEAN]
Leases == [run : Run, process : Processes]
Containers == [up : {"absent", "running", "stopped"}, registry : Daemon \cup {None},
               kind : Kind \cup {None}, ready : BOOLEAN, requested : BOOLEAN,
               retiring : BOOLEAN, slots : [Slot -> {None} \cup Leases]]
TaskStates == [at : {"idle", "step", "find", "make", "create", "ready", "slot",
                     "retire", "take", "unclaim", "resume"},
               run : Run \cup {None}, engine : Engines \cup {None}]
ReaperStates == [at : {"idle", "reclaim", "begin", "take"},
                 engine : Engines \cup {None}, dead : SUBSET Slot]
RunStates == [at : {"new", "waiting", "leased", "failing", "done"}, daemon : Daemon \cup {None},
              engine : Engines \cup {None}, slot : Slot \cup {None}]

ASSUME EngineAssumption == MaxEngines \in Nat /\ MaxEvents \in Nat
\* None is nothing that the code keeps.
ASSUME NothingAssumption ==
  None \notin Run \cup Engines \cup Claims \cup Holdings \cup Leases

-----------------------------------------------------------------------------
(* What slots.sh and machine.rs say of an engine and its holders.          *)

Running(e) == engine[e].up = "running"
Exists(e) == engine[e].up # "absent"
\* A boot, pid and start time that still name a running process.
Alive(p) == life[p.daemon] = p.life
Taken(e) == {s \in Slot : engine[e].slots[s] # None}
Dead(e) == {s \in Taken(e) : ~Alive(engine[e].slots[s].process)}
Live(e) == Taken(e) \ Dead(e)

Freed(e, S) == [engine EXCEPT ![e].slots = [s \in Slot |-> IF s \in S THEN None ELSE @[s]]]
Requested(e) == [engine EXCEPT ![e].requested = TRUE]
\* begin_retire: nothing leases a retiring engine, and it is marked only when
\* no slot is held.
Retiring(e) == [engine EXCEPT ![e].retiring = (Taken(e) = {}) \/ @]
BeginsRetire(e) == Running(e) /\ (Taken(e) = {} \/ engine[e].retiring)
Removed(e) == [engine EXCEPT ![e] = Absent]

Ours(d) == claim # None /\ claim.maker = Process(d)
ClaimWithout(e) == IF claim # None /\ claim.engine = e THEN None ELSE claim

Init ==
  /\ claim = None /\ engine = [e \in Engines |-> Absent] /\ made = 0
  /\ life = [d \in Daemon |-> 1] /\ lives = [d \in Daemon |-> 1]
  /\ closed = {} /\ wanted = {}
  /\ \E k \in Kind : want = [d \in Daemon |-> k]
  /\ record = [d \in Daemon |-> {}] /\ held = [d \in Daemon |-> None]
  /\ task = [d \in Daemon |-> Idle] /\ reaper = [d \in Daemon |-> NoReaper]
  /\ guard = [d \in Daemon |-> {}]
  /\ run = [r \in Run |-> [at |-> "new", daemon |-> None, engine |-> None, slot |-> None]]
  /\ legacy = "idle" /\ looked = {} /\ crossed = {}
  /\ events = 0

Up(d) == life[d] # 0
Free(d) == Up(d) /\ task[d].at = "idle"
Go(d, at) == task' = [task EXCEPT ![d].at = at]
Unlock(d) == task' = [task EXCEPT ![d] = Idle]
Event == events < MaxEvents /\ events' = events + 1

-----------------------------------------------------------------------------
(* The lease of a slot.                                                    *)

\* run_on_shared asks for a lease, which marks the shared engine as wanted.
Ask(d, r) ==
  /\ Up(d) /\ run[r].at = "new"
  /\ run' = [run EXCEPT ![r] = [@ EXCEPT !.at = "waiting", !.daemon = d]]
  /\ wanted' = wanted \cup {d}
  /\ UNCHANGED <<claim, engine, made, life, lives, closed, want, record, held, task,
                 reaper, guard, old, crossed, events>>

\* One turn of the loop: the daemon is not stopping, and the mutex is free.
StartStep(d, r) ==
  /\ Free(d) /\ run[r].at = "waiting" /\ run[r].daemon = d /\ d \notin closed
  /\ task' = [task EXCEPT ![d] = [at |-> "step", run |-> r, engine |-> None]]
  /\ UNCHANGED <<claim, engine, made, daemons, record, held, reaper, guard, run, old, crossed, events>>

\* The stopping daemon answers every waiting run with an error.
Refuse(d, r) ==
  /\ d \in closed /\ run[r].at = "waiting" /\ run[r].daemon = d
  /\ task[d].run # r
  /\ run' = [run EXCEPT ![r].at = "done"]
  /\ UNCHANGED <<claim, engine, made, daemons, record, held, task, reaper, guard, old, crossed, events>>

Usable(d) ==
  /\ engine[held[d].engine].kind = want[d] /\ Running(held[d].engine)
  /\ held[d].own => held[d].engine \in record[d]

\* step: the held engine still serves; or it is let go of, an own one only
\* after its slot table says that nobody runs in it.
Step(d) ==
  LET e == held[d].engine IN
  /\ task[d].at = "step" /\ UNCHANGED <<claim, made, daemons, record, reaper, guard, run, old, crossed, events>>
  /\ IF held[d] = None THEN Go(d, "find") /\ UNCHANGED <<engine, held>>
     ELSE IF Usable(d) THEN Go(d, "slot") /\ UNCHANGED <<engine, held>>
     ELSE IF ~held[d].own
     THEN held' = [held EXCEPT ![d] = None] /\ Go(d, "find") /\ UNCHANGED engine
     ELSE IF Running(e) /\ ~BeginsRetire(e)
     THEN engine' = Requested(e) /\ Unlock(d) /\ UNCHANGED held
     ELSE /\ engine' = IF Running(e) THEN Retiring(e) ELSE engine
          /\ held' = [held EXCEPT ![d] = None]
          /\ task' = [task EXCEPT ![d].at = "retire", ![d].engine = e]

\* find_or_make: without a claim one is asked for; one of this very process
\* is what an interrupted preparation left.
Find(d) ==
  /\ task[d].at = "find" /\ (claim = None \/ Ours(d))
  /\ task' = [task EXCEPT ![d].at = IF claim = None THEN "make" ELSE "resume",
                          ![d].engine = IF claim = None THEN None ELSE claim.engine]
  /\ UNCHANGED <<claim, engine, made, daemons, record, held, reaper, guard, run, old, crossed, events>>

\* adopt: another process's engine is used when it is the one wanted, asked to
\* retire when its maker lives or its slots do, and taken over otherwise.
Adopt(d) ==
  LET e == claim.engine
      adoptable == Running(e) /\ engine[e].kind = want[d]
                   /\ engine[e].registry = claim.maker.daemon
      \* 45 minutes without a running engine: its preparation is over.
      stalled == ~Running(e) /\ ~\E c \in Daemon : task[c].engine = e
  IN
  /\ task[d].at = "find" /\ claim # None /\ ~Ours(d)
  /\ UNCHANGED <<claim, made, daemons, record, reaper, guard, run, old, crossed, events>>
  /\ \/ /\ adoptable
        /\ held' = [held EXCEPT ![d] = [engine |-> e, own |-> FALSE]]
        /\ Go(d, "slot") /\ UNCHANGED engine
     \/ /\ ~adoptable /\ (Alive(claim.maker) \/ (Running(e) /\ Live(e) # {}))
        /\ engine' = IF Running(e) THEN Requested(e) ELSE engine
        /\ Unlock(d) /\ UNCHANGED held
     \/ /\ ~adoptable /\ (~Alive(claim.maker) \/ stalled)
        /\ Running(e) => Live(e) = {}
        /\ task' = [task EXCEPT ![d].at = "take", ![d].engine = e]
        /\ UNCHANGED <<engine, held>>

\* make, up to the claim: legacy engines are drained (idle on two looks, or
\* given up on after ten minutes) and the machine must have the memory; then
\* Docker decides who makes the engine.
Make(d) ==
  /\ task[d].at = "make"
  /\ UNCHANGED <<engine, daemons, record, held, reaper, guard, run, crossed, events>>
  /\ \/ Unlock(d) /\ UNCHANGED <<claim, made, old>>   \* no memory for it now
     \/ /\ legacy # "gone"
        /\ looked' = IF legacy = "idle" THEN looked \cup {d} ELSE looked \ {d}
        /\ legacy' = IF legacy = "idle" /\ d \in looked THEN "gone" ELSE legacy
        /\ Unlock(d) /\ UNCHANGED <<claim, made>>
     \/ /\ legacy \in {"gone", "busy"} /\ made < MaxEngines /\ UNCHANGED old
        /\ IF claim # None THEN Unlock(d) /\ UNCHANGED <<claim, made>>
           ELSE /\ claim' = [engine |-> made + 1, maker |-> Process(d)]
                /\ made' = made + 1
                /\ task' = [task EXCEPT ![d].at = "create", ![d].engine = made + 1]

\* prepare_held: the intent is recorded, the container made, its claim
\* committed.  It exists, and no run may enter it yet.
Create(d) ==
  LET e == task[d].engine IN
  /\ task[d].at = "create"
  /\ record' = [record EXCEPT ![d] = @ \cup {e}]
  /\ engine' = [engine EXCEPT ![e] =
                  [Absent EXCEPT !.up = "running", !.registry = d, !.kind = want[d]]]
  /\ Go(d, "ready")
  /\ UNCHANGED <<claim, made, daemons, held, reaper, guard, run, old, crossed, events>>

\* mark_ready opens the engine to every daemon's runs.
MarkReady(d) ==
  LET e == task[d].engine IN
  /\ task[d].at = "ready" /\ Running(e) /\ e \in record[d]
  /\ engine' = [engine EXCEPT ![e].ready = TRUE]
  /\ held' = [held EXCEPT ![d] = [engine |-> e, own |-> TRUE]]
  /\ Go(d, "slot")
  /\ UNCHANGED <<claim, made, daemons, record, reaper, guard, run, old, crossed, events>>

\* enroll_prepared: the engine that enrolled the native tools is retired and
\* its claim removed before the one with the new generation is made.
Enroll(d) ==
  LET e == task[d].engine IN
  /\ task[d].at = "ready" /\ Running(e) /\ legacy = "gone" /\ made < MaxEngines /\ Event
  /\ engine' = Removed(e) /\ record' = [record EXCEPT ![d] = @ \ {e}]
  /\ claim' = ClaimWithout(e)
  /\ task' = [task EXCEPT ![d].at = "make", ![d].engine = None]
  /\ UNCHANGED <<made, daemons, held, reaper, guard, run, old, crossed>>

\* The preparation fails: the engine and its record are cleaned up, or not
\* (the removal fails too); the dropped guard tries once more, detached.
PrepareFails(d) ==
  LET e == task[d].engine IN
  /\ task[d].at \in {"create", "ready"} /\ Event
  /\ \/ engine' = Removed(e) /\ record' = [record EXCEPT ![d] = @ \ {e}]
     \/ UNCHANGED <<engine, record>>
  /\ guard' = [guard EXCEPT ![d] = @ \cup {e}]
  /\ run' = [run EXCEPT ![task[d].run].at = "done"]
  /\ Unlock(d)
  /\ UNCHANGED <<claim, made, daemons, held, reaper, old, crossed>>

\* A variant of TakeSlot that leases in a retiring engine.
TakeSlotRetiring(d) ==
  LET e == held[d].engine
      r == task[d].run
  IN
  /\ task[d].at = "slot" /\ Unlock(d) /\ Running(e) /\ Taken(e) # Slot
  /\ \E s \in Slot \ Taken(e) :
       /\ engine' = [engine EXCEPT ![e].slots[s] = [run |-> r, process |-> Process(d)]]
       /\ run' = [run EXCEPT ![r] = [at |-> "leased", daemon |-> d, engine |-> e, slot |-> s]]
  /\ UNCHANGED <<claim, made, daemons, record, held, reaper, guard, old, crossed, events>>

\* lease_slot, and what the loop makes of its answer.
TakeSlot(d) ==
  LET e == held[d].engine
      r == task[d].run
  IN
  /\ task[d].at = "slot" /\ Unlock(d)
  /\ UNCHANGED <<claim, made, daemons, record, reaper, guard, old, crossed>>
  /\ \/ /\ Running(e) /\ ~engine[e].retiring /\ engine[e].ready
        /\ \E s \in Slot :
             /\ s \notin Taken(e) /\ \A t \in Slot : t < s => t \in Taken(e)
             /\ engine' = [engine EXCEPT ![e].slots[s] = [run |-> r, process |-> Process(d)]]
             /\ \/ /\ run' = [run EXCEPT ![r] =
                        [at |-> "leased", daemon |-> d, engine |-> e, slot |-> s]]
                   /\ UNCHANGED events
                \* The run is cancelled before the answer arrives.
                \/ run' = [run EXCEPT ![r].at = "done"] /\ Event
        /\ UNCHANGED held
     \/ /\ Running(e) /\ engine[e].retiring /\ UNCHANGED events
        /\ held' = IF held[d].own THEN held ELSE [held EXCEPT ![d] = None]
        /\ UNCHANGED <<engine, run>>
     \/ /\ Running(e) /\ ~engine[e].retiring
        /\ ~engine[e].ready \/ Taken(e) = Slot
        /\ UNCHANGED <<engine, held, run, events>>
     \/ /\ ~Running(e) /\ UNCHANGED events
        /\ run' = [run EXCEPT ![r].at = "done"] /\ UNCHANGED <<engine, held>>

\* The run's deadline or its cancellation drops the lease future where it
\* waits: a preparation is left to its guard, and a claim that Docker was just
\* asked for may be made all the same.
CancelLease(d) ==
  LET e == task[d].engine IN
  /\ task[d].run # None /\ Event
  /\ run' = [run EXCEPT ![task[d].run].at = "done"]
  /\ guard' = IF task[d].at \in {"create", "ready"}
              THEN [guard EXCEPT ![d] = @ \cup {e}] ELSE guard
  /\ \/ UNCHANGED <<claim, made>>
     \/ /\ task[d].at = "make" /\ claim = None /\ made < MaxEngines
        /\ claim' = [engine |-> made + 1, maker |-> Process(d)] /\ made' = made + 1
  /\ Unlock(d)
  /\ UNCHANGED <<engine, daemons, record, held, reaper, old, crossed>>

\* The run executes in its scope, which is closed whatever its outcome, and
\* releases its slot by number.
EndRun(r) ==
  /\ run[r].at \in {"leased", "failing"} /\ Up(run[r].daemon)
  /\ engine' = IF Running(run[r].engine) THEN Freed(run[r].engine, {run[r].slot}) ELSE engine
  /\ run' = [run EXCEPT ![r].at = "done"]
  /\ UNCHANGED <<claim, made, daemons, record, held, task, reaper, guard, old, crossed, events>>

-----------------------------------------------------------------------------
(* Retiring and taking over.                                               *)

\* spare::retire of an engine this daemon made, then its claim.  A removal
\* that fails keeps the claim.
Retire(d) ==
  LET e == task[d].engine IN
  /\ task[d].at = "retire"
  /\ \/ /\ engine' = Removed(e) /\ record' = [record EXCEPT ![d] = @ \ {e}]
        /\ Go(d, "unclaim") /\ UNCHANGED events
     \/ /\ Event /\ UNCHANGED <<engine, record>>
        /\ IF task[d].run = None THEN Unlock(d) ELSE Go(d, "find")
  /\ UNCHANGED <<claim, made, daemons, held, reaper, guard, run, old, crossed>>

\* take_over: the engine first, then the claim.
TakeOver(d) ==
  /\ task[d].at = "take"
  /\ engine' = Removed(task[d].engine) /\ Go(d, "unclaim")
  /\ UNCHANGED <<claim, made, daemons, record, held, reaper, guard, run, old, crossed, events>>

Unclaim(d) ==
  /\ task[d].at = "unclaim"
  /\ claim' = ClaimWithout(task[d].engine)
  /\ IF task[d].run = None THEN Unlock(d) ELSE Go(d, "find")
  /\ UNCHANGED <<engine, made, daemons, record, held, reaper, guard, run, old, crossed, events>>

\* retire_preparation: the record is cleaned up and the engine with it; the
\* claim goes only when the engine is seen to be gone.
CleanUp(d, e) ==
  \/ /\ engine' = IF e \in record[d] THEN Removed(e) ELSE engine
     /\ record' = [record EXCEPT ![d] = @ \ {e}]
     /\ claim' = IF Exists(e) /\ e \notin record[d] THEN claim ELSE ClaimWithout(e)
     /\ UNCHANGED events
  \/ Event /\ Exists(e) /\ UNCHANGED <<engine, record, claim>>

DropGuard(d, e) ==
  /\ Up(d) /\ e \in guard[d] /\ CleanUp(d, e)
  /\ guard' = [guard EXCEPT ![d] = @ \ {e}]
  /\ UNCHANGED <<made, daemons, held, task, reaper, run, old, crossed>>

Resume(d) ==
  /\ task[d].at = "resume" /\ CleanUp(d, task[d].engine) /\ Unlock(d)
  /\ UNCHANGED <<made, daemons, held, reaper, guard, run, old, crossed>>

\* The reaper, on the engine this daemon holds: slots of dead processes are
\* reclaimed, and an own engine that is then empty, and idle or asked to, is
\* retired.  How long it was idle is left open.
RetireIdle(d) ==
  LET e == held[d].engine IN
  /\ Free(d) /\ held[d] # None
  /\ UNCHANGED <<claim, made, daemons, record, reaper, guard, run, old, crossed, events>>
  /\ \/ /\ ~Running(e)
        /\ held' = [held EXCEPT ![d] = None] /\ UNCHANGED engine
        /\ task' = IF held[d].own
                   THEN [task EXCEPT ![d] = [at |-> "retire", run |-> None, engine |-> e]]
                   ELSE task
     \/ /\ Running(e) /\ held[d].own /\ Dead(e) # {}
        /\ engine' = Freed(e, Dead(e)) /\ UNCHANGED <<held, task>>
     \/ /\ Running(e) /\ held[d].own /\ Live(e) = {}
        /\ engine' = [Freed(e, Dead(e)) EXCEPT ![e].retiring = TRUE]
        /\ held' = [held EXCEPT ![d] = None]
        /\ task' = [task EXCEPT ![d] = [at |-> "retire", run |-> None, engine |-> e]]

\* tend_machine, for a claim of this process that no engine is held for.
RetryOwned(d) ==
  /\ Free(d) /\ d \in wanted /\ d \notin closed /\ Ours(d) /\ held[d] = None
  /\ task' = [task EXCEPT ![d] = [at |-> "resume", run |-> None, engine |-> claim.engine]]
  /\ UNCHANGED <<claim, engine, made, daemons, record, held, reaper, guard, run, old, crossed, events>>

\* Another daemon's reaper has yet to reclaim the slots it found dead in e.
Surveyed(d, e) == \E c \in Daemon \ {d} : reaper[c].at = "reclaim" /\ reaper[c].engine = e

\* A variant of SurveyAbandoned that passes over a claim without a running engine.
SurveyRunning(d) ==
  LET e == claim.engine IN
  /\ Up(d) /\ d \in wanted /\ d \notin closed /\ reaper[d].at = "idle"
  /\ claim # None /\ ~Alive(claim.maker) /\ Running(e) /\ Live(e) = {}
  /\ reaper' = [reaper EXCEPT ![d] = [at |-> "reclaim", engine |-> e, dead |-> Dead(e)]]
  /\ crossed' = IF Surveyed(d, e) THEN crossed \cup {e} ELSE crossed
  /\ UNCHANGED <<claim, engine, made, daemons, record, held, task, guard, run, old, events>>

\* retire_abandoned, step by step: the survey, the slots it found dead, the
\* mark in the slot table, and the removal under the mutex.
SurveyAbandoned(d) ==
  LET e == claim.engine IN
  /\ Up(d) /\ d \in wanted /\ d \notin closed /\ reaper[d].at = "idle"
  /\ claim # None /\ ~Alive(claim.maker)
  /\ Running(e) => Live(e) = {}
  /\ reaper' = [reaper EXCEPT ![d] =
       [at |-> IF Running(e) THEN "reclaim" ELSE "take", engine |-> e, dead |-> Dead(e)]]
  /\ crossed' = IF Surveyed(d, e) THEN crossed \cup {e} ELSE crossed
  /\ UNCHANGED <<claim, engine, made, daemons, record, held, task, guard, run, old, events>>

ReclaimAbandoned(d) ==
  LET e == reaper[d].engine IN
  /\ Up(d) /\ reaper[d].at = "reclaim"
  /\ engine' = IF Running(e) THEN Freed(e, reaper[d].dead) ELSE engine
  /\ reaper' = [reaper EXCEPT ![d].at = "begin"]
  /\ UNCHANGED <<claim, made, daemons, record, held, task, guard, run, old, crossed, events>>

BeginAbandoned(d) ==
  LET e == reaper[d].engine IN
  /\ Up(d) /\ reaper[d].at = "begin"
  /\ engine' = IF Running(e) THEN Retiring(e) ELSE engine
  /\ reaper' = [reaper EXCEPT ![d] = IF BeginsRetire(e) THEN [@ EXCEPT !.at = "take"] ELSE NoReaper]
  /\ UNCHANGED <<claim, made, daemons, record, held, task, guard, run, old, crossed, events>>

TakeAbandoned(d) ==
  LET e == reaper[d].engine IN
  /\ Free(d) /\ reaper[d].at = "take"
  /\ held' = IF held[d] # None /\ held[d].engine = e THEN [held EXCEPT ![d] = None] ELSE held
  /\ reaper' = [reaper EXCEPT ![d] = NoReaper]
  /\ task' = [task EXCEPT ![d] = [at |-> "take", run |-> None, engine |-> e]]
  /\ UNCHANGED <<claim, engine, made, daemons, record, guard, run, old, crossed, events>>

-----------------------------------------------------------------------------
(* What happens to daemons, engines and configurations.                    *)

Close(d) ==
  /\ Up(d) /\ d \notin closed /\ Event
  /\ closed' = closed \cup {d}
  /\ UNCHANGED <<claim, engine, made, life, lives, wanted, want, record, held, task,
                 reaper, guard, run, old, crossed>>

\* The process ends, by a crash or after its stop: its memory and its runs
\* are gone; its slots, its claim and its records stay.
Die(d) ==
  /\ Up(d) /\ Event
  /\ life' = [life EXCEPT ![d] = 0] /\ wanted' = wanted \ {d} /\ closed' = closed \ {d}
  /\ held' = [held EXCEPT ![d] = None] /\ task' = [task EXCEPT ![d] = Idle]
  /\ reaper' = [reaper EXCEPT ![d] = NoReaper] /\ guard' = [guard EXCEPT ![d] = {}]
  /\ run' = [r \in Run |-> IF run[r].daemon = d THEN [run[r] EXCEPT !.at = "done"] ELSE run[r]]
  /\ UNCHANGED <<claim, engine, made, lives, want, record, old, crossed>>

\* recover_startup_act_engines: every pending record of the registry is
\* interrupted and its engine retired; a retirement that fails is deferred.
Restart(d) ==
  /\ life[d] = 0
  /\ life' = [life EXCEPT ![d] = lives[d] + 1] /\ lives' = [lives EXCEPT ![d] = @ + 1]
  /\ \/ /\ engine' = [e \in Engines |-> IF e \in record[d] THEN Absent ELSE engine[e]]
        /\ record' = [record EXCEPT ![d] = {}] /\ UNCHANGED events
     \/ Event /\ record[d] # {} /\ UNCHANGED <<engine, record>>
  /\ UNCHANGED <<claim, made, closed, wanted, want, held, task, reaper, guard, run, old, crossed>>

\* The engine's container stops without anyone asking, and the act processes
\* of its runs with it.
EngineStops(e) ==
  /\ Running(e) /\ Event
  /\ engine' = [engine EXCEPT ![e].up = "stopped"]
  /\ run' = [r \in Run |-> IF run[r].at = "leased" /\ run[r].engine = e
                           THEN [run[r] EXCEPT !.at = "failing"] ELSE run[r]]
  /\ UNCHANGED <<claim, made, daemons, record, held, task, reaper, guard, old, crossed>>

\* The pins or the configuration change, or another release asks.
Reconfigure(d, k) ==
  /\ Up(d) /\ want[d] # k /\ Event
  /\ want' = [want EXCEPT ![d] = k]
  /\ UNCHANGED <<claim, engine, made, life, lives, closed, wanted, record, held, task,
                 reaper, guard, run, old, crossed>>

\* The daemon of the legacy engine starts or ends a run in it.
LegacyRuns ==
  /\ legacy # "gone" /\ Event
  /\ legacy' = IF legacy = "idle" THEN "busy" ELSE "idle"
  /\ UNCHANGED <<claim, engine, made, daemons, record, held, task, reaper, guard, run, looked, crossed>>

Leasing(d) == Step(d) \/ Find(d) \/ Adopt(d) \/ Make(d) \/ Create(d) \/ MarkReady(d) \/ TakeSlot(d)
              \/ Retire(d) \/ TakeOver(d) \/ Unclaim(d) \/ Resume(d)
Tending(d) == RetryOwned(d) \/ SurveyAbandoned(d) \/ ReclaimAbandoned(d)
              \/ BeginAbandoned(d) \/ TakeAbandoned(d)

Next ==
  \/ \E d \in Daemon, r \in Run : Ask(d, r) \/ StartStep(d, r) \/ Refuse(d, r)
  \/ \E d \in Daemon :
       Leasing(d) \/ Tending(d) \/ RetireIdle(d) \/ Enroll(d) \/ PrepareFails(d)
       \/ CancelLease(d) \/ Close(d) \/ Die(d) \/ Restart(d)
  \/ \E d \in Daemon, e \in Engines : DropGuard(d, e)
  \/ \E d \in Daemon, k \in Kind : Reconfigure(d, k)
  \/ \E r \in Run : EndRun(r)
  \/ \E e \in Engines : EngineStops(e)
  \/ LegacyRuns

Spec == Init /\ [][Next]_vars

\* Docker answers, and each task is scheduled, so a task that holds the mutex
\* goes on and the reaper makes its rounds (every 15 seconds).
FairSpec ==
  /\ Spec
  /\ \A d \in Daemon : WF_vars(Leasing(d)) /\ SF_vars(Tending(d))
  /\ \A r \in Run : WF_vars(EndRun(r))

-----------------------------------------------------------------------------
(* Properties.                                                             *)

EngineTypeOK ==
  /\ claim \in {None} \cup Claims /\ engine \in [Engines -> Containers]
  /\ made \in 0 .. MaxEngines
  /\ life \in [Daemon -> Nat] /\ lives \in [Daemon -> Nat \ {0}]
  /\ closed \subseteq Daemon /\ wanted \subseteq Daemon /\ want \in [Daemon -> Kind]
  /\ record \in [Daemon -> SUBSET Engines] /\ held \in [Daemon -> {None} \cup Holdings]
  /\ task \in [Daemon -> TaskStates] /\ reaper \in [Daemon -> ReaperStates]
  /\ guard \in [Daemon -> SUBSET Engines] /\ run \in [Run -> RunStates]
  /\ legacy \in {"busy", "idle", "gone"} /\ looked \subseteq Daemon /\ crossed \subseteq Engines
  /\ events \in 0 .. MaxEvents

\* At most one shared engine exists on the machine, whichever daemon made it
\* and however many die on the way: every engine container that exists is the
\* one the claim names, so a claim is freed only after its engine is gone.
OneEngine == \A e \in Engines : Exists(e) => claim # None /\ claim.engine = e

\* The slot table tells the truth about its runs: a run that was given a slot
\* still has it as long as its engine runs, so that slot was not reclaimed or
\* released by another run, and an engine being retired has nobody in it.  An
\* engine that two reapers found abandoned at once is excepted: each releases,
\* by number, the slots its own survey found dead, and the later one may
\* release the slot of a run that came in between (reclaim).
SlotsAgree ==
  \A r \in Run : run[r].at = "leased" /\ Running(run[r].engine) /\ run[r].engine \notin crossed =>
    /\ engine[run[r].engine].slots[run[r].slot] =
         [run |-> r, process |-> Process(run[r].daemon)]
    /\ ~engine[run[r].engine].retiring

\* Daemons that share nothing but files agree on the engine and on who uses it.
SharedSafe == OneEngine /\ SlotsAgree

\* A slot made for a lease whose future was dropped: no run will release it.
Leaked == \E e \in Engines : \E s \in Live(e) : run[engine[e].slots[s].run].at # "leased"

\* The claim a dead daemon left is taken over, never waited on forever, by any
\* daemon that goes on using the shared engine (tend_machine), unless a leaked
\* slot of a living daemon keeps its engine from looking idle.
Abandoned == claim # None /\ ~Alive(claim.maker) /\ wanted \ closed # {}
AbandonedClaimGoes == Abandoned ~> (~Abandoned \/ Leaked)

=============================================================================
