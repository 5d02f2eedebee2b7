------------------------------ MODULE CiRuntime -----------------------------
(***************************************************************************)
(* The daemon's CI runtime: the FIFO scheduler, the run slots behind one   *)
(* state lock, the dispatcher loop with its nudges and its recovery, the   *)
(* asynchronous versioned record writer, client ownership, cancellation,   *)
(* runner settings, the cache-clear hold, pruning, and a daemon that dies  *)
(* and restarts over its files.  One action is one critical section (or    *)
(* one blocking file operation): between two of them any other task runs.  *)
(***************************************************************************)
EXTENDS Integers, Sequences, FiniteSets

CONSTANTS
    Run,            \* run UUIDs a client may submit
    Key,            \* coalescing keys of requests (RunRecord::key)
    Ends,           \* conclusions a run reaches by itself
    Client,         \* client processes that name themselves as owners
    None,
    MaxLimit,       \* SetLimit chooses from 1 .. MaxLimit (256 in the code)
    ChannelCap,     \* nudges the dispatcher's channel holds (64 in the code)
    MaxLog,         \* bound: progress publications per run
    MaxEvents       \* bound: cancels, exits, settings changes, cache clears,
                    \* prunes, dispatcher deaths and daemon restarts together

ASSUME CiAssumption ==
    /\ IsFiniteSet(Run) /\ None \notin Run /\ None \notin Key /\ None \notin Client
    /\ (\A S \in SUBSET Client : S # None) /\ None \notin Ends /\ "cancelled" \notin Ends
    /\ MaxLimit \in Nat \ {0} /\ ChannelCap \in Nat \ {0}
    /\ MaxLog \in Nat /\ MaxEvents \in Nat

VARIABLES
    \* Scheduler
    limit, drained,
    queue,          \* FIFO of queued runs
    running,        \* admitted runs
    live,           \* coalescing key -> the queued or running run, or None
    \* CiState
    rec,            \* run -> its slot's record, or None
    version,        \* run -> the slot's version counter
    owners,         \* run -> the clients that keep it alive, or None (unowned)
    clearing,       \* clearing_cache
    \* tasks between two critical sections
    keyOf,          \* run -> the key of its request
    sub,            \* run -> how far its submission got
    exec,           \* run -> how far its execution got
    pend,           \* run -> the save complete() waits for, or None
    closing,        \* dequeued by a cancel that has not finished the record
    orphans,        \* taken from `owners`, about to be cancelled
    clears,         \* clear_cache calls in flight
    kicks,          \* tasks about to call kick()
    \* Dispatcher
    alive, nudges,
    \* RecordWriter and the files
    saves,          \* detached saves in flight
    disk,           \* run -> its run.json, or None without a directory
    written,        \* run -> the newest version this process wrote
    pruning,        \* planned prunes whose files are still there
    \* environment
    gone,           \* clients that exited
    events

sched    == <<limit, drained, queue, running, live>>
slots    == <<rec, version, owners>>
tasks    == <<keyOf, sub, exec, pend, closing, orphans, clears>>
dispatcher == <<kicks, alive, nudges>>
files    == <<saves, disk, written, pruning>>
env      == <<gone, events>>
vars == <<sched, slots, clearing, tasks, dispatcher, files, env>>

\* RunRecord: the fields the properties tell apart.
Record == [st : {"queued", "running", "done"}, end : Ends \cup {None, "error", "cancelled"},
           asked : BOOLEAN, submitters : Nat, log : 0 .. MaxLog]
Save == [run : Run, version : Nat, rec : Record]

\* `None` stands for what is not there; no record or save is it.
ASSUME NoneAssumption == None \notin Record /\ None \notin Save

Queued == {queue[i] : i \in 1 .. Len(queue)}

\* RunRecord::queued.
NewRecord == [st |-> "queued", end |-> None, asked |-> FALSE, submitters |-> 1, log |-> 0]

\* RunRecord::finish: the terminal state and its conclusion.
Finished(record, end) == [record EXCEPT !.st = "done", !.end = end]

\* RunSlot::snapshot of a changed record: the next version, to be written.
Snapshot(r, record) == [run |-> r, version |-> version[r] + 1, rec |-> record]

\* VecDeque::retain of everything but r, which a queue holds at most once.
Without(s, r) ==
    IF \A i \in 1 .. Len(s) : s[i] # r THEN s
    ELSE LET p == CHOOSE i \in 1 .. Len(s) : s[i] = r
         IN  [i \in 1 .. Len(s) - 1 |-> s[IF i < p THEN i ELSE i + 1]]

\* A variant of Finish whose coalescing key outlives its run.
FinishKeepsKey(r) ==
    /\ running' = running \ {r}
    /\ queue' = Without(queue, r)
    /\ UNCHANGED <<limit, drained, live>>

\* Scheduler::finish: the slot and the coalescing key are free again.
Finish(r) ==
    /\ running' = running \ {r}
    /\ queue' = Without(queue, r)
    /\ live' = [k \in Key |-> IF live[k] = r THEN None ELSE live[k]]
    /\ UNCHANGED <<limit, drained>>

\* Owners::forget.
Forget(r) == owners' = [owners EXCEPT ![r] = None]

\* One more event of the environment, within the bound.
Event == events < MaxEvents /\ events' = events + 1

-----------------------------------------------------------------------------
Init ==
    /\ limit = 1 /\ drained = FALSE /\ queue = <<>> /\ running = {}
    /\ live = [k \in Key |-> None]
    /\ rec = [r \in Run |-> None] /\ version = [r \in Run |-> 0]
    /\ owners = [r \in Run |-> None] /\ clearing = FALSE
    /\ keyOf = [r \in Run |-> None]
    /\ sub = [r \in Run |-> "unborn"] /\ exec = [r \in Run |-> "idle"]
    /\ pend = [r \in Run |-> None]
    /\ closing = {} /\ orphans = {} /\ clears = 0 /\ kicks = 0
    /\ alive = TRUE /\ nudges = 0
    /\ saves = {} /\ disk = [r \in Run |-> None] /\ written = [r \in Run |-> 0]
    /\ pruning = {} /\ gone = {}
    /\ events = 0

\* A variant of Write in which the last write wins.
WriteAnyOrder(save) ==
    IF disk[save.run] # None
    THEN /\ disk' = [disk EXCEPT ![save.run] = save.rec]
         /\ written' = [written EXCEPT ![save.run] = save.version]
    ELSE UNCHANGED <<disk, written>>

\* A variant of Write that creates the directory it misses.
WriteRecreates(save) ==
    /\ disk' = [disk EXCEPT ![save.run] = save.rec]
    /\ written' = [written EXCEPT ![save.run] = save.version]

\* RecordWriter::write under the writer's lock: nothing for a run without a
\* directory, nothing that a newer version overtook.
Write(save) ==
    LET r == save.run IN
    IF disk[r] # None /\ save.version > written[r]
    THEN /\ disk' = [disk EXCEPT ![r] = save.rec]
         /\ written' = [written EXCEPT ![r] = save.version]
    ELSE UNCHANGED <<disk, written>>

\* RecordWriter::remove_run: directory and writer entry under one lock.
RemoveRun(r) ==
    /\ disk' = [disk EXCEPT ![r] = None]
    /\ written' = [written EXCEPT ![r] = 0]

-----------------------------------------------------------------------------
(* Submission: submit()/retry(), then admit().                             *)

\* The source is placed and version 1 written before anybody sees the run.
Place(r, k) ==
    /\ sub[r] = "unborn"
    /\ keyOf' = [keyOf EXCEPT ![r] = k]
    /\ sub' = [sub EXCEPT ![r] = "placed"]
    /\ disk' = [disk EXCEPT ![r] = NewRecord]
    /\ written' = [written EXCEPT ![r] = 1]
    /\ UNCHANGED <<sched, slots, clearing, exec, pend, closing, orphans, clears,
                   dispatcher, saves, pruning, env>>

\* submit: the staged snapshot may be refused or may fail to be placed; the
\* staging directory and the half-placed run are removed.
RefuseSubmit(r) ==
    /\ sub[r] = "unborn"
    /\ sub' = [sub EXCEPT ![r] = "refused"]
    /\ UNCHANGED <<sched, slots, clearing, keyOf, exec, pend, closing, orphans, clears,
                   dispatcher, files, env>>

\* retry: only a finished run whose source is still there is copied.
Retry(r, o) ==
    /\ rec[o] # None /\ rec[o].st = "done" /\ disk[o] # None
    /\ Place(r, keyOf[o])

\* admit, a new run: Scheduler::submit, Owners::submitted(created), insert.
Enqueue(r, c) ==
    /\ c \notin gone
    /\ sub[r] = "placed" /\ live[keyOf[r]] = None
    /\ sub' = [sub EXCEPT ![r] = "accepted"]
    /\ live' = [live EXCEPT ![keyOf[r]] = r]
    /\ queue' = Append(queue, r)
    /\ owners' = [owners EXCEPT ![r] = IF c = None THEN None ELSE {c}]
    /\ rec' = [rec EXCEPT ![r] = NewRecord]
    /\ version' = [version EXCEPT ![r] = 1]
    /\ kicks' = kicks + 1
    /\ UNCHANGED <<limit, drained, running, clearing, keyOf, exec, pend, closing, orphans,
                   clears, alive, nudges, files, gone, events>>

\* admit, coalesced: an owner is added only to owned work, a detached joiner
\* pins it; the joined run's record counts one more submitter.
Join(r, c) ==
    LET e == live[keyOf[r]]
        joined == [rec[e] EXCEPT !.submitters = @ + 1] IN
    /\ c \notin gone
    /\ sub[r] = "placed" /\ e # None
    /\ sub' = [sub EXCEPT ![r] = "joined"]
    /\ owners' = [owners EXCEPT ![e] =
                    IF c = None \/ @ = None THEN None ELSE @ \cup {c}]
    /\ rec' = [rec EXCEPT ![e] = joined]
    /\ version' = [version EXCEPT ![e] = @ + 1]
    /\ pend' = [pend EXCEPT ![r] = Snapshot(e, joined)]
    /\ UNCHANGED <<sched, clearing, keyOf, exec, closing, orphans, clears, dispatcher,
                   files, gone, events>>

\* ... then the copy placed for it is dropped and the joined record saved.
DropCopy(r) ==
    /\ sub[r] = "joined"
    /\ sub' = [sub EXCEPT ![r] = "dropped"]
    /\ RemoveRun(r)
    /\ saves' = saves \cup {pend[r]}
    /\ pend' = [pend EXCEPT ![r] = None]
    /\ UNCHANGED <<sched, slots, clearing, keyOf, exec, closing, orphans, clears,
                   dispatcher, pruning, env>>

-----------------------------------------------------------------------------
(* The dispatcher.                                                         *)

\* A variant of Admitted with one run more than the limit.
AdmittedOver ==
    LET room == limit - Cardinality(running) IN
    IF drained \/ clearing \/ room < 0 THEN 0
    ELSE IF room < Len(queue) THEN room + 1 ELSE Len(queue)

\* Scheduler::admit: how many queued runs start now.
Admitted ==
    LET room == limit - Cardinality(running) IN
    IF drained \/ clearing \/ room <= 0 THEN 0
    ELSE IF room < Len(queue) THEN room ELSE Len(queue)

\* dispatch: admitted runs become running, with a cancel token, in one
\* critical section; then their records are saved and their tasks launched.
Dispatch ==
    LET started == {queue[i] : i \in 1 .. Admitted}
        now(r) == [rec[r] EXCEPT !.st = "running"] IN
    /\ queue' = SubSeq(queue, Admitted + 1, Len(queue))
    /\ running' = running \cup started
    /\ rec' = [r \in Run |-> IF r \in started THEN now(r) ELSE rec[r]]
    /\ version' = [r \in Run |-> IF r \in started THEN version[r] + 1 ELSE version[r]]
    /\ saves' = saves \cup {Snapshot(r, now(r)) : r \in started}
    /\ exec' = [r \in Run |-> IF r \in started THEN "work" ELSE exec[r]]
    /\ UNCHANGED <<limit, drained, live, owners, clearing, keyOf, sub, pend, closing, orphans,
                   clears, disk, written, pruning, env>>

\* The loop receives one nudge and dispatches.
DispatcherStep ==
    /\ alive /\ nudges > 0
    /\ nudges' = nudges - 1
    /\ Dispatch
    /\ UNCHANGED <<kicks, alive>>

\* A variant of Nudge without the channel's capacity.
NudgeOverfills ==
    /\ kicks > 0 /\ alive
    /\ kicks' = kicks - 1 /\ nudges' = nudges + 1
    /\ UNCHANGED <<sched, slots, clearing, tasks, alive, files, env>>

\* kick on an open channel: a full channel already holds a nudge.
Nudge ==
    /\ kicks > 0 /\ alive
    /\ kicks' = kicks - 1
    /\ nudges' = IF nudges < ChannelCap THEN nudges + 1 ELSE nudges
    /\ UNCHANGED <<sched, slots, clearing, tasks, alive, files, env>>

\* kick on a closed channel: recover_dispatcher builds a new channel and loop
\* under the gate, and dispatches inline.
Recover ==
    /\ kicks > 0 /\ ~alive
    /\ kicks' = kicks - 1
    /\ alive' = TRUE /\ nudges' = 0
    /\ Dispatch

\* The loop's task panics or is cancelled; its receiver and the nudges in it
\* are gone.
DispatcherDies ==
    /\ alive /\ Event
    /\ alive' = FALSE /\ nudges' = 0
    /\ UNCHANGED <<sched, slots, clearing, tasks, kicks, files, gone>>

-----------------------------------------------------------------------------
(* Execution: execute(), or the watchdog after a panic, then complete().   *)

\* RunObserver::publish: progress becomes visible and is saved.
Publish(r) ==
    /\ exec[r] = "work" /\ rec[r].log < MaxLog
    /\ LET next == [rec[r] EXCEPT !.log = @ + 1] IN
       /\ rec' = [rec EXCEPT ![r] = next]
       /\ saves' = saves \cup {Snapshot(r, next)}
    /\ version' = [version EXCEPT ![r] = @ + 1]
    /\ UNCHANGED <<sched, owners, clearing, tasks, dispatcher, disk, written, pruning, env>>

\* The engine returned, timed out or was cancelled, or the task panicked:
\* complete() takes a snapshot with the conclusion applied to the copy.
Complete(r, end) ==
    /\ exec[r] = "work"
    /\ end = "cancelled" => rec[r].asked
    /\ pend' = [pend EXCEPT ![r] = Snapshot(r, Finished(rec[r], end))]
    /\ version' = [version EXCEPT ![r] = @ + 1]
    /\ exec' = [exec EXCEPT ![r] = "saving"]
    /\ UNCHANGED <<sched, rec, owners, clearing, keyOf, sub, closing, orphans, clears,
                   dispatcher, files, env>>

\* ... waits until it is on disk ...
CompleteSaved(r) ==
    /\ exec[r] = "saving"
    /\ exec' = [exec EXCEPT ![r] = "saved"]
    /\ Write(pend[r])
    /\ UNCHANGED <<sched, slots, clearing, keyOf, sub, pend, closing, orphans, clears,
                   dispatcher, saves, pruning, env>>

\* ... and makes `done` and the freed slot visible together; a record that
\* changed meanwhile is written again.
CompleteVisible(r) ==
    LET done == Finished(rec[r], pend[r].rec.end) IN
    /\ exec[r] = "saved"
    /\ exec' = [exec EXCEPT ![r] = "over"]
    /\ rec' = [rec EXCEPT ![r] = done]
    /\ pend' = [pend EXCEPT ![r] = None]
    /\ IF done = pend[r].rec
       THEN UNCHANGED <<version, saves>>
       ELSE /\ version' = [version EXCEPT ![r] = @ + 1]
            /\ saves' = saves \cup {Snapshot(r, done)}
    /\ Finish(r) /\ Forget(r)
    /\ kicks' = kicks + 1
    /\ UNCHANGED <<clearing, keyOf, sub, closing, orphans, clears, alive, nudges, disk,
                   written, pruning, env>>

\* A detached save reaches the blocking lane, in any order.
WriteSave ==
    /\ \E save \in saves : Write(save) /\ saves' = saves \ {save}
    /\ UNCHANGED <<sched, slots, clearing, tasks, dispatcher, pruning, env>>

-----------------------------------------------------------------------------
(* Cancellation and ownership.                                             *)

\* A variant of Dequeue that leaves the run's record as it was.
DequeueOnly(r) == r \in Queued /\ Finish(r) /\ Forget(r) /\ UNCHANGED closing

\* A variant of Dequeue that leaves the run in the queue.
DequeueLate(r) == r \in Queued /\ Forget(r) /\ closing' = closing \cup {r} /\ UNCHANGED sched

\* cancel_because, a queued run: it leaves the scheduler under the lock ...
Dequeue(r) ==
    /\ r \in Queued
    /\ Finish(r) /\ Forget(r)
    /\ closing' = closing \cup {r}

\* ... a running run: the request is recorded once and its token cancelled ...
RequestCancel(r) ==
    /\ r \notin Queued
    /\ IF rec[r] # None /\ rec[r].st = "running" /\ ~rec[r].asked
       THEN LET asked == [rec[r] EXCEPT !.asked = TRUE] IN
            /\ rec' = [rec EXCEPT ![r] = asked]
            /\ version' = [version EXCEPT ![r] = @ + 1]
            /\ saves' = saves \cup {Snapshot(r, asked)}
       ELSE UNCHANGED <<rec, version, saves>>
    /\ UNCHANGED <<sched, owners, closing>>

CancelBecause(r) ==
    \/ Dequeue(r) /\ UNCHANGED <<rec, version, saves>>
    \/ RequestCancel(r)

Cancel(r) ==
    /\ Event /\ rec[r] # None
    /\ CancelBecause(r)
    /\ UNCHANGED <<clearing, keyOf, sub, exec, pend, orphans, clears, dispatcher, disk,
                   written, pruning, gone>>

\* ... and the dequeued run's record is finished in a second critical section.
FinishCancelled(r) ==
    /\ r \in closing
    /\ closing' = closing \ {r}
    /\ LET done == Finished(rec[r], "cancelled") IN
       /\ rec' = [rec EXCEPT ![r] = done]
       /\ saves' = saves \cup {Snapshot(r, done)}
    /\ version' = [version EXCEPT ![r] = @ + 1]
    /\ UNCHANGED <<sched, owners, clearing, keyOf, sub, exec, pend, orphans, clears,
                   dispatcher, disk, written, pruning, env>>

\* A client exits without a word.
ClientExits(c) ==
    /\ c \notin gone /\ Event
    /\ gone' = gone \cup {c}
    /\ UNCHANGED <<sched, slots, clearing, tasks, dispatcher, files>>

\* release: an exiting client lets go; the last owner's run is cancelled
\* after the lock is dropped.
Release(r, c) ==
    /\ Event /\ c \notin gone /\ owners[r] # None /\ c \in owners[r]
    /\ gone' = gone \cup {c}
    /\ IF owners[r] = {c}
       THEN Forget(r) /\ orphans' = orphans \cup {r}
       ELSE owners' = [owners EXCEPT ![r] = @ \ {c}] /\ UNCHANGED orphans
    /\ UNCHANGED <<sched, rec, version, clearing, keyOf, sub, exec, pend, closing, clears,
                   dispatcher, files>>

\* One owner sweep: runs whose every owner is gone leave the table ...
Orphaned == {r \in Run : owners[r] # None /\ owners[r] \subseteq gone}

\* A variant of Sweep that drops the owners and cancels nothing.
SweepForgets ==
    /\ Orphaned # {}
    /\ owners' = [r \in Run |-> IF r \in Orphaned THEN None ELSE owners[r]]
    /\ UNCHANGED <<sched, rec, version, clearing, tasks, dispatcher, files, env>>

Sweep ==
    /\ Orphaned # {}
    /\ orphans' = orphans \cup Orphaned
    /\ owners' = [r \in Run |-> IF r \in Orphaned THEN None ELSE owners[r]]
    /\ UNCHANGED <<sched, rec, version, clearing, keyOf, sub, exec, pend, closing, clears,
                   dispatcher, files, env>>

\* ... and are cancelled one by one without the lock held in between.
CancelOrphaned(r) ==
    /\ r \in orphans
    /\ orphans' = orphans \ {r}
    /\ CancelBecause(r)
    /\ UNCHANGED <<clearing, keyOf, sub, exec, pend, clears, dispatcher, disk, written,
                   pruning, env>>

-----------------------------------------------------------------------------
(* Runner management.                                                      *)

\* runners(SetLimit | Drain | Resume): changed and saved under the lock.
Settings(l, d) ==
    /\ Event
    /\ <<l, d>> # <<limit, drained>> /\ (l = limit \/ d = drained)
    /\ limit' = l /\ drained' = d
    /\ kicks' = kicks + 1
    /\ UNCHANGED <<queue, running, live, slots, clearing, tasks, alive, nudges, files,
                   gone>>

\* runners(List) and the other read-only actions still end in a kick (bound:
\* one at a time, and only when the kick rebuilds a dead dispatcher).
ListRunners ==
    /\ ~alive /\ kicks = 0
    /\ kicks' = kicks + 1
    /\ UNCHANGED <<sched, slots, clearing, tasks, alive, nudges, files, env>>

\* clear_cache: refused while a run executes; the hold is set ...
ClearCache ==
    /\ Event /\ running = {}
    /\ clearing' = TRUE /\ clears' = clears + 1
    /\ UNCHANGED <<sched, slots, keyOf, sub, exec, pend, closing, orphans, dispatcher, files,
                   gone>>

\* A variant of DropHold without the kick.
DropHoldSilently ==
    /\ clears > 0
    /\ clearing' = FALSE /\ clears' = clears - 1
    /\ UNCHANGED <<sched, slots, keyOf, sub, exec, pend, closing, orphans, dispatcher,
                   files, env>>

\* ... and dropped with its guard when the removal ended, failed or timed out.
DropHold ==
    /\ clears > 0
    /\ clearing' = FALSE /\ clears' = clears - 1
    /\ kicks' = kicks + 1
    /\ UNCHANGED <<sched, slots, keyOf, sub, exec, pend, closing, orphans, alive, nudges,
                   files, env>>

\* prune: some finished runs (by age, size or count) leave the state now ...
PlanPrune(S) ==
    /\ Event /\ S # {} /\ \A r \in S : rec[r] # None /\ rec[r].st = "done"
    /\ rec' = [r \in Run |-> IF r \in S THEN None ELSE rec[r]]
    /\ pruning' = pruning \cup S
    /\ UNCHANGED <<sched, version, owners, clearing, tasks, dispatcher, saves, disk,
                   written, gone>>

\* ... and the disk later.
ApplyPrune(r) ==
    /\ r \in pruning
    /\ pruning' = pruning \ {r}
    /\ RemoveRun(r)
    /\ UNCHANGED <<sched, slots, clearing, tasks, dispatcher, saves, env>>

-----------------------------------------------------------------------------
(* A daemon dies and the next one starts over its files: start_with_release *)

\* An unfinished record a previous daemon left is interrupted.
Interrupted(record) ==
    IF record = None \/ record.st = "done" THEN record ELSE Finished(record, "error")

Restart ==
    /\ Event
    /\ queue' = <<>> /\ running' = {} /\ live' = [k \in Key |-> None]
    /\ disk' = [r \in Run |-> Interrupted(disk[r])]
    /\ rec' = disk'
    /\ written' = [r \in Run |-> IF disk[r] = disk'[r] THEN 0 ELSE 1]
    /\ version' = written'
    /\ owners' = [r \in Run |-> None] /\ clearing' = FALSE
    /\ sub' = [r \in Run |-> CASE sub[r] = "placed" -> "lost"
                               [] sub[r] = "joined" -> "dropped"
                               [] OTHER -> sub[r]]
    /\ exec' = [r \in Run |-> "idle"] /\ pend' = [r \in Run |-> None]
    /\ closing' = {} /\ orphans' = {} /\ clears' = 0 /\ kicks' = 0
    /\ alive' = TRUE /\ nudges' = 0 /\ saves' = {} /\ pruning' = {}
    /\ UNCHANGED <<limit, drained, keyOf, gone>>

\* The daemon has served every submission and is idle or drained.
Quiet ==
    /\ \A r \in Run : sub[r] \in {"refused", "accepted", "dropped", "lost"}
    /\ queue = <<>> \/ drained
    /\ running = {} /\ closing = {} /\ orphans = {}
    /\ UNCHANGED vars

Next ==
    \/ \E r \in Run :
         \/ RefuseSubmit(r) \/ DropCopy(r) \/ Publish(r)
         \/ CompleteSaved(r) \/ CompleteVisible(r)
         \/ Cancel(r) \/ FinishCancelled(r) \/ CancelOrphaned(r) \/ ApplyPrune(r)
         \/ \E k \in Key : Place(r, k)
         \/ \E o \in Run : Retry(r, o)
         \/ \E c \in Client \cup {None} : Enqueue(r, c) \/ Join(r, c)
         \/ \E c \in Client : Release(r, c)
         \/ \E end \in Ends \cup {"cancelled"} : Complete(r, end)
    \/ \E c \in Client : ClientExits(c)
    \/ DispatcherStep \/ Nudge \/ Recover \/ DispatcherDies \/ Sweep
    \/ WriteSave
    \/ \E l \in 1 .. MaxLimit, d \in BOOLEAN : Settings(l, d)
    \/ ListRunners \/ ClearCache \/ DropHold
    \/ \E S \in SUBSET Run : PlanPrune(S)
    \/ Restart \/ Quiet

Spec == Init /\ [][Next]_vars

\* The tasks the async runtime keeps scheduling once they are launched: the
\* dispatcher, the writer, the sweep, every handler past its first await, and
\* runs, which end at their deadline at the latest.
Progress ==
    /\ WF_vars(DispatcherStep) /\ WF_vars(Nudge) /\ WF_vars(Recover) /\ WF_vars(Sweep)
    /\ WF_vars(DropHold)
    /\ \A r \in Run :
         /\ WF_vars(CompleteSaved(r)) /\ WF_vars(CompleteVisible(r))
         /\ WF_vars(\E end \in Ends : Complete(r, end)) /\ WF_vars(FinishCancelled(r))
         /\ WF_vars(CancelOrphaned(r))

FairSpec == Spec /\ Progress

-----------------------------------------------------------------------------
(* Properties.                                                             *)

SchedType ==
    /\ limit \in 1 .. MaxLimit /\ drained \in BOOLEAN
    /\ queue \in Seq(Run) /\ running \subseteq Run /\ live \in [Key -> Run \cup {None}]

SlotType ==
    /\ rec \in [Run -> Record \cup {None}] /\ version \in [Run -> Nat]
    /\ owners \in [Run -> (SUBSET Client) \cup {None}]

TaskType ==
    /\ keyOf \in [Run -> Key \cup {None}]
    /\ sub \in [Run -> {"unborn", "refused", "placed", "accepted", "joined", "dropped", "lost"}]
    /\ exec \in [Run -> {"idle", "work", "saving", "saved", "over"}]
    /\ pend \in [Run -> Save \cup {None}]
    /\ closing \subseteq Run /\ orphans \subseteq Run /\ clears \in Nat

LoopType == kicks \in Nat /\ alive \in BOOLEAN /\ nudges \in 0 .. ChannelCap

FileType ==
    /\ saves \subseteq Save /\ disk \in [Run -> Record \cup {None}]
    /\ written \in [Run -> Nat] /\ pruning \subseteq Run

EnvType == gone \subseteq Client /\ events \in Nat

\* The types of the state, and what bounds it: the limit an operator may set,
\* the nudges the dispatcher's channel holds.
TypeOK ==
    /\ SchedType /\ SlotType /\ TaskType /\ LoopType /\ FileType /\ EnvType
    /\ clearing \in BOOLEAN

\* RunQueue's line is the scheduler's queue, its active runs the admitted ones.
Q == INSTANCE RunQueue WITH
        waiting <- queue, active <- running, cap <- limit, held <- drained,
        accepted <- {r \in Run : sub[r] = "accepted"}

\* The scheduler, the dispatcher and the pipeline behind them do what RunQueue
\* promises: FIFO, within the limit, nothing accepted twice, nothing back.
ImplementsRunQueue == Q!QSpec

\* Coalescing (Scheduler::submit/finish): two queued or running runs never have
\* the same key, and a key without such a run is free for the next submission.
OneLiveRunPerKey ==
    \A k \in Key : \A r \in Run :
        live[k] = r <=> (r \in Queued \cup running /\ keyOf[r] = k)

\* The slot records tell the truth about the scheduler at every unlock, as
\* dispatch's and complete's comments require of one critical section; the only
\* unfinished record outside the scheduler is one whose cancel is under way.
RecordsMatchScheduler ==
    /\ \A r \in Queued : rec[r] # None /\ rec[r].st = "queued"
    /\ \A r \in running : rec[r] # None /\ rec[r].st = "running"
    /\ \A r \in Run : rec[r] # None /\ rec[r].st # "done"
                          => r \in Queued \cup running \cup closing

\* Queued work that admission would start now.
Eligible == ~drained /\ ~clearing /\ queue # <<>> /\ Cardinality(running) < limit

\* kick (#453): eligible queued work always has a nudge on its way to a live
\* dispatcher, a task about to kick, or a dead dispatcher the next kick rebuilds.
NoLostWakeup == Eligible => ~alive \/ nudges > 0 \/ kicks > 0

\* RecordWriter: writes finish in any order, yet once a run's writes have
\* landed its file holds what readers see.
DiskCatchesUp ==
    \A r \in Run :
        /\ rec[r] # None
        /\ \A save \in saves : save.run # r
        /\ \A t \in Run : pend[t] = None \/ pend[t].run # r
        => disk[r] = rec[r]

\* A conclusion readers have seen never changes, whatever cancels, joins,
\* watchdogs and restarts follow it.
DoneIsFinal ==
    [][Restart \/ \A r \in Run :
         rec[r] # None /\ rec[r].st = "done" /\ rec'[r] # None
         => rec'[r].st = "done" /\ rec'[r].end = rec[r].end]_vars

\* remove_run: a run whose directory was pruned or dropped is never recreated
\* by a late write.
PrunedStaysGone ==
    [][\A r \in Run : disk[r] = None /\ sub[r] # "unborn" => disk'[r] = None]_vars

\* An accepted run leaves the queue once admission stays open and the
\* dispatcher stays alive (kick, recover_dispatcher).
QueuedStarts ==
    <>[](~drained /\ ~clearing /\ alive)
        => \A r \in Run : (r \in Queued) ~> (r \notin Queued)

\* A run whose every owner exited ends, unless another submission joined it
\* (owner sweep, cancel, complete).
OwnerlessRunEnds ==
    \A r \in Run : (r \in Orphaned) ~>
        (r \notin Queued \cup running \/ rec[r].submitters > 1)

\* Neither a run nor its cancellation is forgotten.
RunsMoveOn == QueuedStarts /\ OwnerlessRunEnds

-----------------------------------------------------------------------------
=============================================================================
