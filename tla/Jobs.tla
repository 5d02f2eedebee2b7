-------------------------------- MODULE Jobs --------------------------------
(***************************************************************************)
(* The admission policy of the bosn daemon: crates/bosn-service/src/jobs.rs *)
(* (struct Jobs) with the owner table of owner.rs.                          *)
(*                                                                          *)
(* Jobs is a plain data structure that one task, the job actor, calls.  A   *)
(* call can run a loop (pump_at) that can finish jobs, each of which runs   *)
(* the loop again.  Here one iteration of that loop is one step, and the    *)
(* variables lane, deferred, lapsed, work and call hold what the Rust stack *)
(* holds.  While a call is under way (Busy) only its own steps are enabled, *)
(* so a call is atomic for everybody else, as it is in the actor.           *)
(*                                                                          *)
(* Time is an age per follow lease, advanced by Tick between calls and      *)
(* saturating one past the period, which is all the code compares.          *)
(***************************************************************************)
EXTENDS Naturals, Sequences, FiniteSets

CONSTANTS
    NWorkspaces,    \* workspaces are 1..NWorkspaces, in the order of their path strings
    Stacks,         \* the stack half of a job key
    RunnerStacks,   \* stacks whose jobs are runner-class (tasks); the rest are control-class
    LeasedStacks,   \* stacks whose submissions may carry a follow lease
    OwnedStacks,    \* stacks whose submissions name their client process
    Digests,        \* request digests
    Clients,        \* client processes
    NoClient,       \* a detached submission
    RunnerSlots,    \* SchedulerPolicy.runner_slots
    ControlSlots,   \* SchedulerPolicy.control_slots
    LeasePeriod,    \* follow lease period, in ticks
    Retained,       \* RETAINED_FINISHED_JOBS
    Results,        \* bound: the executor results explored, a subset of BOOLEAN
    MaxHandoff,     \* bound: admitted jobs the actor may leave undrained before a call
    MaxJobs         \* bound: job IDs handed out in a behaviour

ASSUME JobsAssumption ==
    /\ NWorkspaces \in Nat \ {0}
    /\ RunnerStacks \subseteq Stacks
    /\ LeasedStacks \subseteq Stacks
    /\ OwnedStacks \subseteq Stacks
    /\ NoClient \notin Clients
    /\ RunnerSlots \in Nat \ {0}
    /\ ControlSlots \in Nat \ {0}
    /\ LeasePeriod \in Nat \ {0}
    /\ Retained \in Nat \ {0}
    /\ Results \subseteq BOOLEAN
    /\ MaxHandoff \in Nat
    /\ MaxJobs \in Nat

Workspaces == 1..NWorkspaces
Keys == Workspaces \X Stacks
Ids == 1..MaxJobs
NoId == 0
Classes == {"Control", "Runner"}

JobSpec == [workspace : Workspaces, stack : Stacks, digest : Digests]
NoSpec == [workspace |-> 0, stack |-> "none", digest |-> "none"]

JobStates == {"Queued", "Running", "Cancelling",
              "Succeeded", "Failed", "Cancelled", "Superseded"}
Terminal == {"Succeeded", "Failed", "Cancelled", "Superseded"}

\* A submission in progress: the local variables of submit_class and of the
\* command handler that called it.
Call == [stage : {"place", "attach"}, workspace : Workspaces, stack : Stacks,
         digest : Digests, active : Ids \cup {NoId}, leased : BOOLEAN,
         owner : Clients \cup {NoClient}]
NoCall == [stage |-> "none"]

VARIABLES
    next,           \* the next job ID
    state,          \* job state, or "Absent": not created yet, or retired
    spec,           \* workspace, stack and digest of each job
    slot,           \* runner slot index of a running runner job, 0 for None
    active,         \* per key, Slot.active
    pending,        \* per key, Slot.pending
    queue,          \* per class, per workspace: admissible queued jobs
    served,         \* per class, the workspace served last, 0 for none yet
    running,        \* per class, running jobs
    runner_slots,   \* owner of each runner slot
    finished,       \* terminal jobs in finishing order
    started,        \* jobs admitted and not yet handed to the actor
    leases,         \* jobs with a follow lease
    age,            \* ticks since the follower of a leased job polled
    owners,         \* client processes that own a job; {} is unowned
    closing,
    lane,           \* class that pump_at is admitting, "none" outside it
    deferred,       \* pump_at's deferred jobs, per workspace
    lapsed,         \* pump_at's lapsed jobs
    work,           \* lapsed jobs still to be finished, innermost call first
    call,           \* the submission in progress
    gone,           \* client processes that have exited
    panicked        \* an unwrap failed: the actor is dead

slotVars == <<slot, running, runner_slots>>
leaseVars == <<leases, age, owners>>
keyVars == <<active, pending>>
pumpVars == <<lane, deferred, lapsed, work>>
vars == <<next, state, spec, slotVars, keyVars, queue, served, finished, started,
          leaseVars, closing, pumpVars, call, gone, panicked>>

TypeOK ==
    /\ next \in 1..(MaxJobs + 1)
    /\ state \in [Ids -> JobStates \cup {"Absent"}]
    /\ spec \in [Ids -> JobSpec \cup {NoSpec}]
    /\ slot \in [Ids -> 0..RunnerSlots]
    /\ active \in [Keys -> Ids \cup {NoId}]
    /\ pending \in [Keys -> Ids \cup {NoId}]
    /\ queue \in [Classes -> [Workspaces -> Seq(Ids)]]
    /\ served \in [Classes -> 0..NWorkspaces]
    /\ running \in [Classes -> Nat]
    /\ runner_slots \in [1..RunnerSlots -> Ids \cup {NoId}]
    /\ finished \in Seq(Ids)
    /\ started \in Seq(Ids)
    /\ leases \subseteq Ids
    /\ age \in [Ids -> 0..(LeasePeriod + 1)]
    /\ owners \in [Ids -> SUBSET Clients]
    /\ closing \in BOOLEAN
    /\ lane \in Classes \cup {"none"}
    /\ deferred \in [Workspaces -> Seq(Ids)]
    /\ lapsed \in Seq(Ids)
    /\ work \in Seq(Ids)
    /\ call \in Call \cup {NoCall}
    /\ gone \subseteq Clients
    /\ panicked \in BOOLEAN

Init ==
    /\ next = 1
    /\ state = [id \in Ids |-> "Absent"]
    /\ spec = [id \in Ids |-> NoSpec]
    /\ slot = [id \in Ids |-> 0]
    /\ active = [k \in Keys |-> NoId]
    /\ pending = [k \in Keys |-> NoId]
    /\ queue = [c \in Classes |-> [w \in Workspaces |-> <<>>]]
    /\ served = [c \in Classes |-> 0]
    /\ running = [c \in Classes |-> 0]
    /\ runner_slots = [i \in 1..RunnerSlots |-> NoId]
    /\ finished = <<>>
    /\ started = <<>>
    /\ leases = {}
    /\ age = [id \in Ids |-> 0]
    /\ owners = [id \in Ids |-> {}]
    /\ closing = FALSE
    /\ lane = "none"
    /\ deferred = [w \in Workspaces |-> <<>>]
    /\ lapsed = <<>>
    /\ work = <<>>
    /\ call = NoCall
    /\ gone = {}
    /\ panicked = FALSE

-----------------------------------------------------------------------------
\* Reading the table.

Key(id) == <<spec[id].workspace, spec[id].stack>>
ClassOf(stack) == IF stack \in RunnerStacks THEN "Runner" ELSE "Control"
Class(id) == ClassOf(spec[id].stack)
Cap(c) == IF c = "Runner" THEN RunnerSlots ELSE ControlSlots

Unfinished(id) == state[id] \in {"Queued", "Running", "Cancelling"}
\* The job holds a place of its lane.
Holding(id) == state[id] \in {"Running", "Cancelling"}

LeaseStale(id) == id \in leases /\ 2 * age[id] > LeasePeriod
LeaseLapsed(id) == id \in leases /\ age[id] > LeasePeriod

\* Queued or running jobs whose follower has not polled within its lease.
ExpiredLeases == {id \in leases : LeaseLapsed(id) /\ state[id] \in {"Queued", "Running"}}

\* A call is under way.  close walks the queued jobs it found.
Busy ==
    \/ lane # "none"
    \/ work # <<>>
    \/ call # NoCall
    \/ closing /\ \E id \in Ids : state[id] = "Queued"
Ready == ~panicked /\ ~Busy

-----------------------------------------------------------------------------
\* finish_at: end a job, promote the one waiting behind it, pump.

StartPump ==
    /\ lane' = IF closing THEN "none" ELSE "Control"
    /\ UNCHANGED <<deferred, lapsed>>

\* The queue once id, which just became active, is enqueued.
Enqueue(id) ==
    [queue EXCEPT ![Class(id)][spec[id].workspace] = Append(@, id)]

\* A variant of SlotsWithout that leaks the slot of a job that was cancelling.
SlotsWithoutLeak(id) ==
    [i \in 1..RunnerSlots |-> IF slot[id] = i /\ state[id] = "Running" THEN NoId
                              ELSE runner_slots[i]]

\* j.slot.take() gives the runner slot back.
SlotsWithout(id) ==
    [i \in 1..RunnerSlots |-> IF slot[id] = i THEN NoId ELSE runner_slots[i]]

\* A variant of RunningWithout that counts a job that never ran.
RunningWithoutAny(id) == [running EXCEPT ![Class(id)] = @ - 1]

\* A variant of RunningWithout that forgets jobs that were cancelling.
RunningWithoutRunning(id) ==
    IF state[id] = "Running" THEN [running EXCEPT ![Class(id)] = @ - 1] ELSE running

\* A job that held a place of its lane is no longer counted.
RunningWithout(id) ==
    IF Holding(id) THEN [running EXCEPT ![Class(id)] = @ - 1] ELSE running

\* retire_finished drops a prefix of what exceeds the bound: the jobs that
\* have been finished for long enough, which time alone decides.
Retire(order, n) ==
    LET dropped == {order[i] : i \in 1..n}
    IN  /\ finished' = SubSeq(order, n + 1, Len(order))
        /\ spec' = [id \in Ids |-> IF id \in dropped THEN NoSpec ELSE spec[id]]

RetireState(order, n, id, end) ==
    LET dropped == {order[i] : i \in 1..n}
    IN  state' = [j \in Ids |-> IF j \in dropped THEN "Absent"
                                ELSE IF j = id THEN end ELSE state[j]]

\* A variant of FinishKey that copies the pending job instead of taking it.
FinishKeyCopies(id) ==
    LET k == Key(id)
    IN  \/ /\ active[k] = id
           /\ active' = [active EXCEPT ![k] = pending[k]]
           /\ queue' = IF pending[k] = NoId THEN queue ELSE Enqueue(pending[k])
           /\ UNCHANGED pending
        \/ /\ active[k] # id
           /\ pending' = [pending EXCEPT ![k] = IF @ = id THEN NoId ELSE @]
           /\ UNCHANGED <<active, queue>>

\* A variant of FinishKey that promotes the pending job without enqueueing it.
FinishKeyNoEnqueue(id) ==
    LET k == Key(id)
    IN  /\ active' = [active EXCEPT ![k] = IF @ = id THEN pending[k] ELSE @]
        /\ pending' = [pending EXCEPT ![k] = IF @ = id \/ active[k] = id THEN NoId ELSE @]
        /\ UNCHANGED queue

FinishKey(id) ==
    LET k == Key(id)
    IN  \/ /\ active[k] = id
           /\ active' = [active EXCEPT ![k] = pending[k]]
           /\ pending' = [pending EXCEPT ![k] = NoId]
           /\ queue' = IF pending[k] = NoId THEN queue ELSE Enqueue(pending[k])
        \/ /\ active[k] # id
           /\ pending' = [pending EXCEPT ![k] = IF @ = id THEN NoId ELSE @]
           /\ UNCHANGED <<active, queue>>

Finish(id, end) ==
    LET order == Append(finished, id)
    IN  /\ slot' = [slot EXCEPT ![id] = 0]
        /\ runner_slots' = SlotsWithout(id)
        /\ leases' = leases \ {id}
        /\ age' = [age EXCEPT ![id] = 0]
        /\ owners' = [owners EXCEPT ![id] = {}]
        /\ running' = RunningWithout(id)
        /\ FinishKey(id)
        /\ \E n \in 0..Len(order) :
              /\ n > 0 => n + Retained <= Len(order)
              /\ Retire(order, n)
              /\ RetireState(order, n, id, end)
        /\ StartPump
        /\ UNCHANGED <<next, served, started, closing, gone, panicked>>

-----------------------------------------------------------------------------
\* pump_at: admit queued jobs while their class has capacity.

\* A variant of Rank that ignores who was served last.
RankFixed(c, w) == w

\* Workspaces in the order of their turns after the one served last.
Rank(c, w) == IF w > served[c] THEN w ELSE w + NWorkspaces

\* The workspace whose turn it is among those with queued entries.
NextTurn(c, w) ==
    /\ queue[c][w] # <<>>
    /\ \A v \in Workspaces : queue[c][v] # <<>> => Rank(c, w) <= Rank(c, v)

LaneOpen ==
    /\ ~panicked
    /\ lane # "none"
    /\ running[lane] < Cap(lane)

Pop(w) ==
    /\ LaneOpen
    /\ NextTurn(lane, w)
    /\ queue' = [queue EXCEPT ![lane][w] = Tail(@)]

\* next_queued drops an entry that stopped being queued.
PumpDrop(w) ==
    LET id == Head(queue[lane][w])
    IN  /\ Pop(w)
        /\ state[id] # "Queued"
        /\ UNCHANGED <<next, state, spec, slotVars, keyVars, served, finished, started,
                       leaseVars, closing, pumpVars, call, gone, panicked>>

\* Its follower is gone: the job is finished once both lanes are pumped.
PumpLapsed(w) ==
    LET id == Head(queue[lane][w])
    IN  /\ Pop(w)
        /\ state[id] = "Queued"
        /\ LeaseLapsed(id)
        /\ served' = [served EXCEPT ![lane] = w]
        /\ lapsed' = Append(lapsed, id)
        /\ UNCHANGED <<next, state, spec, slotVars, keyVars, finished, started,
                       leaseVars, closing, lane, deferred, work, call, gone, panicked>>

\* Its follower is quiet: hold the job and leave the place free.
PumpDefer(w) ==
    LET id == Head(queue[lane][w])
    IN  /\ Pop(w)
        /\ state[id] = "Queued"
        /\ LeaseStale(id)
        /\ ~LeaseLapsed(id)
        /\ served' = [served EXCEPT ![lane] = w]
        /\ deferred' = [deferred EXCEPT ![w] = Append(@, id)]
        /\ UNCHANGED <<next, state, spec, slotVars, keyVars, finished, started,
                       leaseVars, closing, lane, lapsed, work, call, gone, panicked>>

LowestFree(i) == runner_slots[i] = NoId /\ \A j \in 1..(i - 1) : runner_slots[j] # NoId

PumpAdmit(w) ==
    LET id == Head(queue[lane][w])
    IN  /\ Pop(w)
        /\ state[id] = "Queued"
        /\ ~LeaseStale(id)
        /\ served' = [served EXCEPT ![lane] = w]
        /\ \/ /\ lane = "Control"
              /\ UNCHANGED <<slot, runner_slots>>
           \/ /\ lane = "Runner"
              /\ \E i \in 1..RunnerSlots :
                    /\ LowestFree(i)
                    /\ runner_slots' = [runner_slots EXCEPT ![i] = id]
                    /\ slot' = [slot EXCEPT ![id] = i]
        /\ state' = [state EXCEPT ![id] = "Running"]
        /\ running' = [running EXCEPT ![lane] = @ + 1]
        /\ started' = Append(started, id)
        /\ UNCHANGED <<next, spec, keyVars, finished, leaseVars, closing, pumpVars,
                       call, gone, panicked>>

\* The lane is full or empty: the deferred jobs go back to the front of their
\* queues, and the runner lane follows the control lane.
PumpLane ==
    /\ ~panicked
    /\ lane # "none"
    /\ \/ running[lane] >= Cap(lane)
       \/ \A w \in Workspaces : queue[lane][w] = <<>>
    /\ queue' = [queue EXCEPT ![lane] = [w \in Workspaces |-> deferred[w] \o @[w]]]
    /\ deferred' = [w \in Workspaces |-> <<>>]
    /\ \/ /\ lane = "Control"
          /\ lane' = "Runner"
          /\ UNCHANGED <<lapsed, work>>
       \/ /\ lane = "Runner"
          /\ lane' = "none"
          /\ lapsed' = <<>>
          /\ work' = lapsed \o work
    /\ UNCHANGED <<next, state, spec, slotVars, keyVars, served, finished, started,
                   leaseVars, closing, call, gone, panicked>>

\* The tail of pump_at: finish the next lapsed job, which pumps again.
PumpFinish ==
    /\ ~panicked
    /\ lane = "none"
    /\ work # <<>>
    /\ Finish(Head(work), "Cancelled")
    /\ work' = Tail(work)
    /\ UNCHANGED call

Pump ==
    \/ \E w \in Workspaces :
          PumpDrop(w) \/ PumpLapsed(w) \/ PumpDefer(w) \/ PumpAdmit(w)
    \/ PumpLane
    \/ PumpFinish

-----------------------------------------------------------------------------
\* Submissions: submit_class, then the lease and the owner.

\* A variant of Own in which every submission that names a client adds it.
OwnAlways(id, stack, owner, created) ==
    owners' = IF stack \in OwnedStacks /\ owner # NoClient
              THEN [owners EXCEPT ![id] = @ \cup {owner}] ELSE owners

\* Owners::submitted
Own(id, stack, owner, created) ==
    owners' = IF stack \notin OwnedStacks THEN owners
              ELSE [owners EXCEPT ![id] =
                      CASE owner = NoClient -> {}
                        [] owner # NoClient /\ created -> {owner}
                        [] owner # NoClient /\ ~created -> IF @ = {} THEN {} ELSE @ \cup {owner}]

\* The job a submission joins, or NoId.
JoinedJob(k, d) ==
    LET a == active[k]
        p == pending[k]
    IN  IF a # NoId /\ spec[a].digest = d /\ state[a] # "Cancelling" THEN a
        ELSE IF p # NoId /\ spec[p].digest = d THEN p
        ELSE NoId

SubmitJoin(w, s, d, owner) ==
    LET id == JoinedJob(<<w, s>>, d)
    IN  /\ Ready
        /\ ~closing
        /\ id # NoId
        /\ Own(id, s, owner, FALSE)
        /\ UNCHANGED <<next, state, spec, slotVars, keyVars, queue, served, finished,
                       started, leases, age, closing, pumpVars, call, gone, panicked>>

\* A different digest supersedes the waiting job, if there is one.
SubmitNew(w, s, d, leased, owner) ==
    LET k == <<w, s>>
    IN  /\ Ready
        /\ ~closing
        /\ next <= MaxJobs
        /\ JoinedJob(k, d) = NoId
        /\ call' = [stage |-> "place", workspace |-> w, stack |-> s, digest |-> d,
                    active |-> active[k], leased |-> leased, owner |-> owner]
        /\ \/ /\ pending[k] # NoId
              /\ Finish(pending[k], "Superseded")
              /\ UNCHANGED work
           \/ /\ pending[k] = NoId
              /\ UNCHANGED <<next, state, spec, slotVars, keyVars, queue, served, finished,
                             started, leaseVars, closing, pumpVars, gone, panicked>>

\* The rest of submit_class, which uses the active job it read before.
SubmitPlace ==
    LET k == <<call.workspace, call.stack>>
        id == next
    IN  /\ ~panicked
        /\ lane = "none"
        /\ work = <<>>
        /\ call.stage = "place"
        /\ next' = next + 1
        /\ state' = [state EXCEPT ![id] = "Queued"]
        /\ spec' = [spec EXCEPT ![id] = [workspace |-> call.workspace, stack |-> call.stack,
                                         digest |-> call.digest]]
        /\ \/ /\ call.active # NoId
              /\ active[k] # NoId
              /\ pending' = [pending EXCEPT ![k] = id]
              /\ UNCHANGED <<active, queue, pumpVars>>
           \/ /\ call.active = NoId
              /\ active' = [active EXCEPT ![k] = id]
              /\ queue' = [queue EXCEPT ![ClassOf(call.stack)][call.workspace] = Append(@, id)]
              /\ StartPump
              /\ UNCHANGED <<pending, work>>
        /\ call' = [call EXCEPT !.stage = "attach"]
        /\ UNCHANGED <<slotVars, served, finished, started, leaseVars, closing, gone, panicked>>

\* slots.get_mut(&key).unwrap() when finishing the superseded job's pump
\* already ended the active one and removed the slot.
SubmitNoSlot ==
    LET k == <<call.workspace, call.stack>>
    IN  /\ ~panicked
        /\ lane = "none"
        /\ work = <<>>
        /\ call.stage = "place"
        /\ call.active # NoId
        /\ active[k] = NoId
        /\ panicked' = TRUE
        /\ UNCHANGED <<next, state, spec, slotVars, keyVars, queue, served, finished, started,
                       leaseVars, closing, pumpVars, call, gone>>

\* The handler's lease and own calls, on the job it created.
SubmitAttach ==
    LET id == next - 1
    IN  /\ ~panicked
        /\ lane = "none"
        /\ work = <<>>
        /\ call.stage = "attach"
        /\ \/ /\ Unfinished(id)
              /\ leases' = IF call.leased THEN leases \cup {id} ELSE leases
              /\ Own(id, call.stack, call.owner, TRUE)
           \/ ~Unfinished(id) /\ UNCHANGED <<leases, owners>>
        /\ call' = NoCall
        /\ UNCHANGED <<next, state, spec, slotVars, keyVars, queue, served, finished, started,
                       age, closing, pumpVars, gone, panicked>>

Submission == SubmitPlace \/ SubmitNoSlot \/ SubmitAttach

-----------------------------------------------------------------------------
\* The other calls.

\* A variant of Touch that renews the lease and leaves the job held back.
TouchNoPump(id) ==
    /\ Ready
    /\ id \in leases
    /\ age' = [age EXCEPT ![id] = 0]
    /\ UNCHANGED <<next, state, spec, slotVars, keyVars, queue, served, finished, started,
                   leases, owners, closing, pumpVars, call, gone, panicked>>

\* A status or log poll of a leased job.
Touch(id) ==
    /\ Ready
    /\ id \in leases
    /\ age' = [age EXCEPT ![id] = 0]
    /\ IF state[id] = "Queued" THEN StartPump /\ UNCHANGED work ELSE UNCHANGED pumpVars
    /\ UNCHANGED <<next, state, spec, slotVars, keyVars, queue, served, finished, started,
                   leases, owners, closing, call, gone, panicked>>

\* A variant of Cancel that ends a running job at once.
CancelAtOnce(id) ==
    /\ Ready
    /\ Unfinished(id)
    /\ Finish(id, "Cancelled")
    /\ UNCHANGED <<work, call>>

\* A running job is marked; any other unfinished job, one already cancelling
\* included, ends at once.
Cancel(id) ==
    /\ Ready
    /\ \/ /\ state[id] = "Running"
          /\ state' = [state EXCEPT ![id] = "Cancelling"]
          /\ UNCHANGED <<next, spec, slotVars, keyVars, queue, served, finished, started,
                         leaseVars, closing, pumpVars, call, gone, panicked>>
       \/ /\ state[id] \in {"Queued", "Cancelling"}
          /\ Finish(id, "Cancelled")
          /\ UNCHANGED <<work, call>>

\* A variant of SettledState in which the executor's result wins.
SettledByExecutor(id, ok) == IF ok THEN "Succeeded" ELSE "Failed"

SettledState(id, ok) ==
    IF state[id] = "Cancelling" THEN "Cancelled"
    ELSE IF ok THEN "Succeeded" ELSE "Failed"

\* The executor's result.  A queued job is settled only when the audit of its
\* submission failed.
Settle(id, ok) ==
    /\ Ready
    /\ Unfinished(id)
    /\ state[id] = "Queued" => ~ok
    /\ Finish(id, SettledState(id, ok))
    /\ UNCHANGED <<work, call>>

Close ==
    /\ Ready
    /\ ~closing
    /\ closing' = TRUE
    /\ UNCHANGED <<next, state, spec, slotVars, keyVars, queue, served, finished, started,
                   leaseVars, pumpVars, call, gone, panicked>>

\* close ends the queued jobs in ID order.
CloseFinish(id) ==
    /\ ~panicked
    /\ closing
    /\ lane = "none"
    /\ work = <<>>
    /\ call = NoCall
    /\ state[id] = "Queued"
    /\ \A j \in 1..(id - 1) : state[j] # "Queued"
    /\ Finish(id, "Cancelled")
    /\ UNCHANGED <<work, call>>

\* take_started: the actor drains the handoff.
TakeStarted ==
    /\ Ready
    /\ started # <<>>
    /\ started' = <<>>
    /\ UNCHANGED <<next, state, spec, slotVars, keyVars, queue, served, finished,
                   leaseVars, closing, pumpVars, call, gone, panicked>>

\* Owners::orphaned forgets the owners of jobs none of whose owners is left.
\* Only the clients in dead were found gone: the rest answered or the host
\* would not say.
OrphanedJobs(dead) == {id \in Ids : owners[id] # {} /\ owners[id] \subseteq dead}

Orphaned(dead) ==
    /\ Ready
    /\ OrphanedJobs(dead) # {}
    /\ owners' = [id \in Ids |-> IF id \in OrphanedJobs(dead) THEN {} ELSE owners[id]]
    /\ UNCHANGED <<next, state, spec, slotVars, keyVars, queue, served, finished, started,
                   leases, age, closing, pumpVars, call, gone, panicked>>

-----------------------------------------------------------------------------
\* The environment.

ClientExit(c) ==
    /\ ~Busy \/ panicked
    /\ c \notin gone
    /\ gone' = gone \cup {c}
    /\ UNCHANGED <<next, state, spec, slotVars, keyVars, queue, served, finished, started,
                   leaseVars, closing, pumpVars, call, panicked>>

Tick ==
    /\ ~Busy \/ panicked
    /\ age' = [id \in Ids |-> IF id \in leases /\ age[id] <= LeasePeriod
                              THEN age[id] + 1 ELSE age[id]]
    /\ UNCHANGED <<next, state, spec, slotVars, keyVars, queue, served, finished, started,
                   leases, owners, closing, pumpVars, call, gone, panicked>>

-----------------------------------------------------------------------------

\* The submissions the command handlers can make.
CanCarry(s, leased, owner) ==
    /\ leased => s \in LeasedStacks
    /\ owner # NoClient => s \in OwnedStacks /\ owner \notin gone

Submit(w, s, d, leased, owner) ==
    /\ CanCarry(s, leased, owner)
    /\ SubmitJoin(w, s, d, owner) \/ SubmitNew(w, s, d, leased, owner)

\* The steps of a call under way.
Internal == Pump \/ Submission \/ \E id \in Ids : CloseFinish(id)

\* The calls of the job actor.
Calls ==
    \/ \E w \in Workspaces, s \in Stacks, d \in Digests, leased \in BOOLEAN,
          owner \in Clients \cup {NoClient} : Submit(w, s, d, leased, owner)
    \/ \E id \in Ids : Touch(id) \/ Cancel(id)
    \/ \E id \in Ids, ok \in Results : Settle(id, ok)
    \/ Close
    \/ \E dead \in SUBSET gone : Orphaned(dead)

Next ==
    \/ Internal
    \/ Len(started) <= MaxHandoff /\ Calls
    \/ TakeStarted
    \/ \E c \in Clients : ClientExit(c)
    \/ Tick

Spec == Init /\ [][Next]_vars

-----------------------------------------------------------------------------
\* Properties.

\* jobs.rs, module policy: per (workspace, stack) key at most one job runs and
\* one waits.  Every unfinished job is its key's active or pending job, only the
\* active one can hold a place of its lane, and a slot entry never names a job
\* that ended: across supersedes, promotions, cancellations and lapsed leases.
OneRunsOneWaits ==
    ~panicked =>
      /\ \A id \in Ids : Unfinished(id) =>
            \/ active[Key(id)] = id
            \/ pending[Key(id)] = id /\ state[id] = "Queued"
      /\ \A k \in Keys :
            /\ active[k] # NoId => Unfinished(active[k]) /\ Key(active[k]) = k
            /\ pending[k] # NoId => /\ Unfinished(pending[k]) /\ Key(pending[k]) = k
                                    /\ active[k] \notin {NoId, pending[k]}

\* The counters that pump_at compares with the caps agree with the job table,
\* no lane exceeds its cap, and runner slots and running runner jobs name each
\* other: a slot is never leaked, shared or freed twice.
LanesWithinCaps ==
    /\ \A c \in Classes :
          /\ running[c] = Cardinality({id \in Ids : Holding(id) /\ Class(id) = c})
          /\ running[c] <= Cap(c)
    /\ \A id \in Ids : slot[id] # 0 <=> Holding(id) /\ Class(id) = "Runner"
    /\ \A id \in Ids : slot[id] # 0 => runner_slots[slot[id]] = id
    /\ \A i \in 1..RunnerSlots : runner_slots[i] # NoId => slot[runner_slots[i]] = i

\* expect("a runner below its cap has a free slot") in pump_at never fires.
RunnerBelowCapHasSlot ==
    running["Runner"] < RunnerSlots => \E i \in 1..RunnerSlots : runner_slots[i] = NoId

Occurrences(s, id) == Cardinality({i \in DOMAIN s : s[i] = id})

\* A job that may be admitted is in exactly one place the pump will look at (its
\* workspace's queue, or a list of the pump under way), and a job waiting behind
\* the active job of its key is in none: no admission is lost or doubled.
QueuedOnce ==
    ~panicked =>
      \A id \in Ids : state[id] = "Queued" =>
        LET w == spec[id].workspace
            c == Class(id)
            here == Occurrences(queue[c][w], id) + Occurrences(deferred[w], id)
                    + Occurrences(lapsed, id) + Occurrences(work, id)
        IN  here = IF active[Key(id)] = id THEN 1 ELSE 0

\* A queued job waits only for a slot of its own class: between calls, a lane
\* with room holds back only jobs whose follower has gone quiet.
WorkConserving ==
    Ready /\ ~closing =>
      \A id \in Ids :
        state[id] = "Queued" /\ active[Key(id)] = id /\ running[Class(id)] < Cap(Class(id))
          => LeaseStale(id)

\* settle_with_error: a cancellation wins over the executor's result; and a job
\* that ended keeps its outcome until it is retired, whichever of the sweep, the
\* executor, close and a superseding submission comes later.
OutcomeFinal ==
    [][\A id \in Ids :
         /\ state[id] = "Cancelling" => state'[id] \in {"Cancelling", "Cancelled"}
         /\ state[id] \in Terminal => state'[id] \in {state[id], "Absent"}
         /\ state[id] = "Running" => state'[id] \notin {"Queued", "Superseded", "Absent"}]_vars

\* owner.rs and the SubmitManifestAppTask handler: joining another caller's work
\* must not make it depend on this caller staying alive.  A job that no client
\* owns, or that no follow lease guards, stays so once its submission is over.
JoinAddsNoDependence ==
    [][\A id \in Ids :
         Unfinished(id) /\ ~(call # NoCall /\ id = next - 1) =>
           /\ owners[id] = {} => owners'[id] = {}
           /\ id \notin leases => id \notin leases']_vars

=============================================================================
