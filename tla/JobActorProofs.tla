--------------------------- MODULE JobActorProofs ---------------------------
(***************************************************************************)
(* Proofs about the job actor of module JobActor.  Every call the actor     *)
(* makes keeps the invariant IInv of the scheduler (module JobsProofs); the *)
(* invariant AInv below relates the actor's own tables, its executors and   *)
(* the registry to the job table.                                           *)
(***************************************************************************)
EXTENDS JobActor, JobsProofs

Stack(id) == spec[id].stack

\* The handoff, as a set.
Handed == Elems(started)

\* SubmitSetupEnsure has created the job and not yet written its submission event.
Unaudited(id) == phase = "audit" /\ call.stage # "place" /\ id = next - 1

\* An executor is outstanding exactly for the jobs in the cancellation table; a job
\* is handed over once, when it is no longer queued and before it has an executor.
Tasks ==
    /\ \A id \in Ids : id \in cancellations <=> executor[id] \notin {"none", "ended"}
    /\ \A id \in Ids : executor[id] # "none" => id < next
    /\ \A id \in Ids : state[id] = "Queued" => executor[id] = "none"
    /\ \A id \in Handed : state[id] # "Queued" /\ executor[id] = "none" /\ id < next

\* What an executor reports fits the kind of its job.
Reports ==
    \A id \in Ids : state[id] # "Absent" =>
      /\ executor[id] = "member" => Stack(id) \in ConvergeStacks
      /\ executor[id] = "ok" => Stack(id) \notin RecordedStacks

\* Every unfinished job with an executor to come has its request, and every one that
\* holds a place of its lane is handed over or launched.
Requested ==
    /\ \A id \in requests : id < next \/ (call.stage = "place" /\ id = next)
    /\ \A id \in Ids : state[id] = "Queued" /\ Stack(id) \notin GenericStacks =>
          id \in requests \/ Unaudited(id)
    /\ \A id \in Ids : Holding(id) /\ Stack(id) \notin GenericStacks =>
          id \in cancellations \/ (id \in Handed /\ (id \in requests \/ Unaudited(id)))

\* What a submission under way, and the audit that follows it, rely on.
Submitting ==
    /\ call # NoCall => phase \in {"audit", "launch"}
    /\ call.stage = "place" =>
          /\ phase = "audit" <=> call.stack \in AuditedStacks
          /\ call.stack \notin GenericStacks \cup AuditedStacks => next \in requests
          /\ call.stack \in AuditedStacks => next \notin requests
    /\ call.stage = "attach" => state[next - 1] \in {"Queued", "Running"} /\ next - 1 \notin leases
    /\ phase = "audit" /\ call.stage # "place" =>
          /\ next >= 2
          /\ state[next - 1] \in {"Queued", "Running"}
          /\ next - 1 \notin requests \cup setup_kinds
          /\ audit[next - 1] = <<>>
    /\ phase = "audit" => ~closing

\* The pump finishes only jobs whose lease it saw, so never the one being submitted.
Lapsing ==
    /\ \A id \in leases : id < next
    /\ \A id \in Elems(lapsed) \cup Elems(work) : id \in leases

\* The audit trail: an open job of an audited kind has exactly its submission event.
Trails ==
    /\ \A id \in setup_kinds :
          /\ id < next
          /\ audit[id] # <<>>
          /\ Len(audit[id]) = 1 \/ (state[id] = "Absent" /\ executor[id] = "ended")
    /\ \A id \in Ids : Unfinished(id) /\ Stack(id) \in AuditedStacks
                       /\ id \in requests \cup cancellations => id \in setup_kinds
    /\ \A id \in Ids : id >= next => audit[id] = <<>>
    /\ AuditWellFormed

\* The registry's record.
Records ==
    /\ \A id \in recorded : id < next
    /\ RecordedIffSucceeded

\* Where the flags and the phases meet.
Phased ==
    /\ closing => lane = "none" /\ call = NoCall
    /\ phase \in {"close", "halt"} => closing
    /\ phase = "halt" => doomed \subseteq cancellations
    /\ phase = "audit" /\ call = NoCall => lane = "none" /\ work = <<>>

AInv ==
    /\ IInv /\ ActorTypeOK /\ Tasks /\ Reports /\ Requested /\ Submitting /\ Lapsing
    /\ Trails /\ Records /\ Phased

\* The sweep never cancels a job that is already cancelling.
Sweeping ==
    /\ phase # "gone" => doomedNext = {}
    /\ phase \in {"stall", "gone"} =>
          \A id \in doomed \cup doomedNext : state[id] # "Cancelling"
    /\ doomed \cap doomedNext = {}

\* Jobs with an executor, or about to get one.
Occupied == cancellations \cup (Handed \cap requests)

\* As long as nobody cancels a cancelling job, an executor outlives its job's place
\* only after Stop, when nothing is admitted any more.
Exclusive ==
    /\ ~closing => \A id \in cancellations : Holding(id)
    /\ \A id \in Handed \cap requests : Holding(id)
    /\ closing => \A i, j \in Occupied :
          i # j /\ state[i] # "Absent" /\ state[j] # "Absent" => Key(i) # Key(j)
    /\ phase = "audit" /\ call.stage # "place" => next - 1 \notin cancellations

XInv == AInv /\ Sweeping /\ Exclusive

-----------------------------------------------------------------------------
\* What the calls of the scheduler do to the job table.

\* No job is created, admitted or renamed.
Downhill ==
    /\ next' = next
    /\ \A j \in Ids : state'[j] = "Queued" => state[j] = "Queued"
    /\ \A j \in Ids : state'[j] \in {"Running", "Cancelling"} => Holding(j)
    /\ \A j \in Ids : state'[j] # "Absent" => state[j] # "Absent" /\ spec'[j] = spec[j]

\* No job comes to succeed, and a success is kept until it is retired.
NoSuccess ==
    \A j \in Ids : state'[j] # "Absent" => (state'[j] = "Succeeded" <=> state[j] = "Succeeded")

\* finish_at ends one job; others are retired or left alone.
LEMMA FinishMove ==
  ASSUME IInv, NEW id \in Ids, Unfinished(id), NEW end \in Terminal, Finish(id, end)
  PROVE  /\ Downhill
         /\ state'[id] = end
         /\ \A j \in Ids : j # id => state'[j] \in {state[j], "Absent"}
         /\ \A j \in Ids : j # id /\ Unfinished(j) => state'[j] = state[j] /\ spec'[j] = spec[j]
         /\ end # "Succeeded" => NoSuccess
         /\ started' = started /\ closing' = closing /\ leases' = leases \ {id}
         /\ panicked' = panicked /\ gone' = gone
         /\ lapsed' = lapsed
         /\ closing => lane' = "none"
<1>1. PICK n \in 0..Len(Append(finished, id)) :
          Retire(Append(finished, id), n) /\ RetireState(Append(finished, id), n, id, end)
  BY DEF Finish
<1>2. TypeOK /\ Known
  BY DEF IInv
<1>3. /\ \A j \in Ids : j # id /\ Unfinished(j) => state'[j] = state[j] /\ spec'[j] = spec[j]
      /\ \A j \in Ids : state'[j] \in {"Queued", "Running", "Cancelling"} =>
                         j # id /\ state'[j] = state[j] /\ spec'[j] = spec[j]
      /\ \A j \in Ids : state'[j] # "Absent" => state[j] # "Absent" /\ spec'[j] = spec[j]
  BY <1>1, <1>2, RetireStep
<1>4. /\ state'[id] = end
      /\ \A j \in Ids : j # id => state'[j] \in {state[j], "Absent"}
  BY FinishOutcome
<1>5. /\ started' = started /\ closing' = closing /\ leases' = leases \ {id}
      /\ panicked' = panicked /\ gone' = gone /\ next' = next /\ lapsed' = lapsed
      /\ closing => lane' = "none"
  BY DEF Finish, StartPump
<1>6. Downhill
  BY <1>3, <1>5 DEF Downhill, Holding
<1>7. end # "Succeeded" => NoSuccess
  BY <1>4 DEF NoSuccess, Unfinished
<1> QED
  BY <1>3, <1>4, <1>5, <1>6, <1>7

\* A step that leaves the table alone.
LEMMA StillMove ==
  ASSUME UNCHANGED <<next, state, spec>>
  PROVE  Downhill /\ NoSuccess
  BY DEF Downhill, NoSuccess, Holding

\* cancel marks a running job or ends a queued or cancelling one.
LEMMA CancelMove ==
  ASSUME IInv, NEW id \in Ids, Cancel(id)
  PROVE  /\ Ready /\ Unfinished(id)
         /\ Downhill /\ NoSuccess
         /\ \A j \in Ids : j # id => state'[j] \in {state[j], "Absent"}
         /\ \A j \in Ids : j # id /\ Unfinished(j) => state'[j] = state[j] /\ spec'[j] = spec[j]
         /\ state[id] = "Running" => state'[id] = "Cancelling" /\ spec'[id] = spec[id]
         /\ state[id] # "Running" => state'[id] = "Cancelled"
         /\ started' = started /\ closing' = closing /\ panicked' = panicked
         /\ call' = call /\ work' = work /\ lapsed' = lapsed
         /\ closing => lane' = "none"
<1>1. Ready
  BY DEF Cancel
<1>2. lane = "none"
  BY <1>1 DEF Ready, Busy
<1>3. CASE state[id] = "Running"
  <2>1. /\ state' = [state EXCEPT ![id] = "Cancelling"]
        /\ next' = next /\ spec' = spec /\ started' = started /\ closing' = closing
        /\ panicked' = panicked /\ call' = call /\ work' = work /\ lapsed' = lapsed /\ lane' = lane
    BY <1>3 DEF Cancel, pumpVars
  <2>2. state \in [Ids -> JobStates \cup {"Absent"}]
    BY DEF IInv, TypeOK
  <2>3. state'[id] = "Cancelling" /\ \A j \in Ids : j # id => state'[j] = state[j]
    BY <2>1, <2>2
  <2>4. Downhill
    BY <1>3, <2>1, <2>3 DEF Downhill, Holding
  <2>5. NoSuccess
    BY <1>3, <2>3 DEF NoSuccess
  <2> QED
    BY <1>1, <1>2, <1>3, <2>1, <2>3, <2>4, <2>5 DEF Unfinished
<1>4. CASE state[id] # "Running"
  <2>1. /\ state[id] \in {"Queued", "Cancelling"} /\ Finish(id, "Cancelled")
        /\ work' = work /\ call' = call
    BY <1>4 DEF Cancel
  <2>2. Unfinished(id) /\ "Cancelled" \in Terminal
    BY <2>1 DEF Unfinished, Terminal
  <2> QED
    BY <1>1, <1>4, <2>1, <2>2, FinishMove
<1> QED
  BY <1>3, <1>4

\* complete ends a job with the executor's result, or as cancelled.
LEMMA SettleMove ==
  ASSUME IInv, NEW id \in Ids, NEW ok \in BOOLEAN, Settle(id, ok)
  PROVE  /\ Ready /\ Unfinished(id)
         /\ Downhill
         /\ state'[id] \in Terminal /\ state'[id] = SettledState(id, ok)
         /\ \A j \in Ids : j # id => state'[j] \in {state[j], "Absent"}
         /\ \A j \in Ids : j # id /\ Unfinished(j) => state'[j] = state[j] /\ spec'[j] = spec[j]
         /\ started' = started /\ closing' = closing /\ panicked' = panicked
         /\ call' = call /\ work' = work /\ lapsed' = lapsed
         /\ closing => lane' = "none"
<1>1. /\ Ready /\ Unfinished(id) /\ Finish(id, SettledState(id, ok))
      /\ work' = work /\ call' = call
  BY DEF Settle
<1>2. SettledState(id, ok) \in Terminal
  BY DEF SettledState, Terminal
<1> QED
  BY <1>1, <1>2, FinishMove

-----------------------------------------------------------------------------
\* The parts of the invariant that a step without admissions keeps.

\* No executor starts, reports or is forgotten.
LEMMA KeepTasks ==
  ASSUME AInv, Downhill, UNCHANGED <<started, cancellations, executor>>
  PROVE  Tasks'
<1>1. /\ started' = started /\ cancellations' = cancellations /\ executor' = executor
      /\ next' = next /\ \A j \in Ids : state'[j] = "Queued" => state[j] = "Queued"
  BY DEF Downhill
<1>2. Handed' = Handed /\ Handed \subseteq Ids
  BY <1>1, ListType DEF Handed, AInv, IInv, TypeOK
<1>3. Tasks
  BY DEF AInv
<1> HIDE DEF Handed
<1> QED
  BY <1>1, <1>2, <1>3 DEF Tasks

LEMMA KeepReports ==
  ASSUME AInv, Downhill, UNCHANGED executor
  PROVE  Reports'
<1>1. Reports /\ executor' = executor
      /\ \A j \in Ids : state'[j] # "Absent" => state[j] # "Absent" /\ spec'[j] = spec[j]
  BY DEF AInv, Downhill
<1> QED
  BY <1>1 DEF Reports, Stack

\* Requests, launches and the handoff are as before.
LEMMA KeepRequested ==
  ASSUME AInv, Downhill, UNCHANGED <<started, cancellations, requests>>,
         call.stage = "place" => call'.stage = "place",
         \A id \in Ids : Unaudited(id) => Unaudited(id)'
  PROVE  Requested'
<1>1. /\ Requested /\ started' = started /\ cancellations' = cancellations /\ requests' = requests
      /\ next' = next /\ \A j \in Ids : state'[j] = "Queued" => state[j] = "Queued"
      /\ \A j \in Ids : state'[j] \in {"Running", "Cancelling"} => Holding(j)
      /\ \A j \in Ids : state'[j] # "Absent" => state[j] # "Absent" /\ spec'[j] = spec[j]
  BY DEF AInv, Downhill
<1>2. Handed' = Handed
  BY <1>1 DEF Handed
<1>3. \A id \in requests' : id < next' \/ (call'.stage = "place" /\ id = next')
  BY <1>1 DEF Requested
<1>4. ASSUME NEW id \in Ids, state'[id] = "Queued", Stack(id)' \notin GenericStacks
      PROVE  id \in requests' \/ Unaudited(id)'
  <2>1. state[id] = "Queued" /\ Stack(id) \notin GenericStacks
    BY <1>1, <1>4 DEF Stack
  <2> QED
    BY <1>1, <2>1 DEF Requested
<1>5. ASSUME NEW id \in Ids, Holding(id)', Stack(id)' \notin GenericStacks
      PROVE  id \in cancellations' \/ (id \in Handed' /\ (id \in requests' \/ Unaudited(id)'))
  <2>1. Holding(id) /\ Stack(id) \notin GenericStacks
    BY <1>1, <1>5 DEF Stack, Holding
  <2>2. id \in cancellations \/ (id \in Handed /\ (id \in requests \/ Unaudited(id)))
    BY <1>1, <2>1 DEF Requested
  <2> QED
    BY <1>1, <1>2, <2>2
<1> QED
  BY <1>3, <1>4, <1>5 DEF Requested

\* The trail is as before.
LEMMA KeepTrails ==
  ASSUME AInv, Downhill, UNCHANGED <<setup_kinds, audit, executor>>,
         requests' \cup cancellations' \subseteq requests \cup cancellations
  PROVE  Trails'
<1>1. /\ Trails /\ setup_kinds' = setup_kinds /\ audit' = audit /\ executor' = executor
      /\ next' = next
      /\ \A j \in Ids : state'[j] # "Absent" => state[j] # "Absent" /\ spec'[j] = spec[j]
      /\ setup_kinds \subseteq Ids
  BY DEF AInv, Downhill, ActorTypeOK
<1>2. \A j \in Ids : Unfinished(j)' => Unfinished(j) /\ spec'[j] = spec[j]
  BY DEF Downhill, Unfinished, Holding
<1>3. \A id \in setup_kinds' :
          /\ id < next' /\ audit'[id] # <<>>
          /\ Len(audit'[id]) = 1 \/ (state'[id] = "Absent" /\ executor'[id] = "ended")
  BY <1>1 DEF Trails
<1>4. \A id \in Ids : Unfinished(id)' /\ Stack(id)' \in AuditedStacks
                      /\ id \in requests' \cup cancellations' => id \in setup_kinds'
  BY <1>1, <1>2 DEF Trails, Stack
<1>5. (\A id \in Ids : id >= next' => audit'[id] = <<>>) /\ AuditWellFormed'
  BY <1>1 DEF Trails, AuditWellFormed
<1> QED
  BY <1>3, <1>4, <1>5 DEF Trails

\* Nothing is recorded and nothing succeeds.
LEMMA KeepRecords ==
  ASSUME AInv, Downhill, NoSuccess, UNCHANGED recorded
  PROVE  Records'
<1>1. /\ Records /\ recorded' = recorded /\ next' = next
      /\ \A j \in Ids : state'[j] # "Absent" => state[j] # "Absent" /\ spec'[j] = spec[j]
      /\ \A j \in Ids : state'[j] # "Absent" => (state'[j] = "Succeeded" <=> state[j] = "Succeeded")
  BY DEF AInv, Downhill, NoSuccess
<1>2. RecordedIffSucceeded'
  BY <1>1 DEF Records, RecordedIffSucceeded
<1> QED
  BY <1>1, <1>2 DEF Records

\* Between calls the lists of the pump are empty and no submission is under way.
LEMMA ReadyActor ==
  ASSUME AInv, Ready
  PROVE  /\ lane = "none" /\ call = NoCall /\ work = <<>> /\ lapsed = <<>>
         /\ call.stage = "none" /\ Elems(lapsed) = {} /\ Elems(work) = {}
<1>1. lane = "none" /\ call = NoCall /\ work = <<>>
  BY DEF Ready, Busy
<1>2. lapsed = <<>>
  BY <1>1 DEF AInv, IInv, PumpIdle
<1> QED
  BY <1>1, <1>2, EmptyList DEF NoCall

\* After a call that starts no submission, outside the audit.
LEMMA KeepSubmitting ==
  ASSUME AInv, Ready, call' = call, phase' # "audit"
  PROVE  Submitting'
<1>1. call' = NoCall /\ call'.stage = "none"
  BY ReadyActor DEF NoCall
<1> QED
  BY <1>1 DEF Submitting

LEMMA KeepLapsing ==
  ASSUME AInv, Ready, work' = work, lapsed' = lapsed, leases' \subseteq leases, next' = next
  PROVE  Lapsing'
  BY ReadyActor DEF AInv, Lapsing

-----------------------------------------------------------------------------
\* Steps that leave the scheduler alone.

LEMMA StillVars ==
  ASSUME UNCHANGED vars
  PROVE  /\ next' = next /\ state' = state /\ spec' = spec /\ started' = started
         /\ leases' = leases /\ closing' = closing /\ lane' = lane /\ lapsed' = lapsed
         /\ work' = work /\ call' = call /\ panicked' = panicked
         /\ Downhill /\ NoSuccess
<1>1. /\ next' = next /\ state' = state /\ spec' = spec /\ started' = started
      /\ leases' = leases /\ closing' = closing /\ lane' = lane /\ lapsed' = lapsed
      /\ work' = work /\ call' = call /\ panicked' = panicked
  BY DEF vars, leaseVars, pumpVars
<1> QED
  BY <1>1, StillMove

\* The actor moves to another phase and may choose which jobs to cancel.
LEMMA PhaseStep ==
  ASSUME AInv, Ready, UNCHANGED vars, phase # "audit", phase' \in Phases \ {"audit"},
         sweep' \in BOOLEAN, doomed' \subseteq Ids, doomedNext' \subseteq Ids,
         stopping' \in BOOLEAN,
         phase' \in {"close", "halt"} => phase' = phase,
         phase' = "halt" => doomed' = doomed,
         UNCHANGED <<tableVars, executor, durableVars>>
  PROVE  AInv'
<1>1. /\ requests' = requests /\ setup_kinds' = setup_kinds /\ cancellations' = cancellations
      /\ cancelled' = cancelled /\ executor' = executor /\ audit' = audit /\ recorded' = recorded
  BY DEF tableVars, durableVars
<1>2. IInv'
  BY QuietSteps DEF AInv
<1>3. ActorTypeOK'
  BY <1>1 DEF AInv, ActorTypeOK
<1>4. Tasks' /\ Reports' /\ Trails' /\ Records'
  BY <1>1, StillVars, KeepTasks, KeepReports, KeepTrails, KeepRecords
<1>5. Requested'
  <2>1. \A id \in Ids : ~Unaudited(id)
    BY DEF Unaudited
  <2> QED
    BY <1>1, <2>1, StillVars, KeepRequested
<1>6. Submitting' /\ Lapsing'
  BY StillVars, KeepSubmitting, KeepLapsing
<1>7. Phased'
  BY <1>1, StillVars DEF AInv, Phased
<1> QED
  BY <1>2, <1>3, <1>4, <1>5, <1>6, <1>7 DEF AInv

\* An iteration begins.
LEMMA WakeStep ==
  ASSUME AInv, Wake PROVE AInv'
<1>1. /\ Ready /\ phase = "wait" /\ phase' \in {"command", "stall"}
      /\ UNCHANGED vars /\ UNCHANGED <<tableVars, executor, durableVars>>
      /\ doomedNext' = doomedNext /\ stopping' = stopping
  BY DEF Wake, Ready
<1>2. sweep' \in BOOLEAN /\ doomed' \subseteq Ids
  BY DEF Wake
<1>3. /\ doomedNext' \subseteq Ids /\ stopping' \in BOOLEAN
      /\ phase' \in Phases \ {"audit"} /\ phase' \notin {"close", "halt"}
  BY <1>1 DEF AInv, ActorTypeOK, Phases
<1> QED
  BY <1>1, <1>2, <1>3, PhaseStep

LEMMA QuietPhases ==
  ASSUME AInv, Swept \/ NoCommand \/ StopDone \/ Stopping PROVE AInv'
<1>1. /\ Ready /\ phase \in {"gone", "command", "halt", "launch"}
      /\ phase' \in {"command", "launch", "stopped", "wait"}
      /\ UNCHANGED vars /\ UNCHANGED sweepVars /\ UNCHANGED <<tableVars, executor, durableVars>>
      /\ stopping' = stopping \/ stopping' = TRUE
  BY DEF Swept, NoCommand, AtCommand, StopDone, Stopping, Ready
<1>2. sweep' = sweep /\ doomed' = doomed /\ doomedNext' = doomedNext
  BY <1>1 DEF sweepVars
<1>3. /\ phase' \in Phases \ {"audit"} /\ phase' \notin {"close", "halt"} /\ phase # "audit"
      /\ sweep' \in BOOLEAN /\ doomed' \subseteq Ids /\ doomedNext' \subseteq Ids
  BY <1>1, <1>2 DEF AInv, ActorTypeOK, Phases
<1>4. stopping' \in BOOLEAN
  BY <1>1 DEF AInv, ActorTypeOK
<1> QED
  BY <1>1, <1>3, <1>4, PhaseStep

\* An executor sends a message, or the actor answers one: its state changes, and a
\* member of a converge may be recorded.
LEMMA ReportStep ==
  ASSUME AInv, NEW id \in Ids, executor[id] \notin {"none", "ended"},
         NEW message \in ExecutorStates \ {"none", "ended"},
         executor' = [executor EXCEPT ![id] = message],
         state[id] # "Absent" /\ message = "ok" => Stack(id) \notin RecordedStacks,
         state[id] # "Absent" /\ message = "member" => Stack(id) \in ConvergeStacks,
         recorded' = recorded \/ (recorded' = recorded \cup {id} /\ Stack(id) \notin RecordedStacks),
         UNCHANGED vars, UNCHANGED <<sweepVars, tableVars, audit, stopping>>,
         phase' = phase \/ (phase = "command" /\ phase' = "launch")
  PROVE  AInv'
<1>2. /\ stopping' = stopping
      /\ sweep' = sweep /\ doomed' = doomed /\ doomedNext' = doomedNext
      /\ requests' = requests /\ setup_kinds' = setup_kinds /\ cancellations' = cancellations
      /\ cancelled' = cancelled /\ audit' = audit
  BY DEF sweepVars, tableVars
<1>3. /\ next' = next /\ state' = state /\ spec' = spec /\ started' = started
      /\ leases' = leases /\ closing' = closing /\ lane' = lane /\ lapsed' = lapsed
      /\ work' = work /\ call' = call /\ Downhill /\ NoSuccess
  BY StillVars
<1>4. /\ executor \in [Ids -> ExecutorStates] /\ executor'[id] = message
      /\ \A j \in Ids : j # id => executor'[j] = executor[j]
      /\ executor' \in [Ids -> ExecutorStates]
  BY DEF AInv, ActorTypeOK
<1>5. IInv'
  BY QuietSteps DEF AInv
<1>6. ActorTypeOK'
  BY <1>2, <1>4 DEF AInv, ActorTypeOK, Phases
<1>7. Tasks' /\ id < next
  <2>1. Handed' = Handed /\ Handed \subseteq Ids
    BY <1>3, ListType DEF Handed, AInv, IInv, TypeOK
  <2>2. Tasks
    BY DEF AInv
  <2>3. id \notin Handed /\ id \in cancellations /\ id < next /\ state[id] # "Queued"
    BY <2>2 DEF Tasks
  <2> HIDE DEF Handed
  <2> QED
    BY <1>2, <1>3, <1>4, <2>1, <2>2, <2>3 DEF Tasks
<1>8. Reports'
  BY <1>3, <1>4 DEF AInv, Reports, Stack
<1>9. Requested'
  <2>1. \A j \in Ids : Unaudited(j)' = Unaudited(j)
    BY <1>2, <1>3 DEF Unaudited
  <2> QED
    BY <1>2, <1>3, <2>1, KeepRequested
<1>10. Submitting'
  <2>1. CASE phase' = phase
    BY <1>2, <1>3, <2>1 DEF AInv, Submitting
  <2>2. CASE phase = "command" /\ phase' = "launch"
    <3>1. call' = NoCall /\ call'.stage = "none"
      BY <1>3, <2>2 DEF AInv, Submitting, NoCall
    <3> QED
      BY <2>2, <3>1 DEF Submitting
  <2> QED
    BY <2>1, <2>2
<1>11. Lapsing' /\ Phased'
  BY <1>2, <1>3 DEF AInv, Lapsing, Phased
<1>12. Trails'
  <2>1. \A j \in Ids : executor[j] = "ended" => executor'[j] = "ended"
    BY <1>2, <1>4
  <2>2. Trails /\ setup_kinds \subseteq Ids
    BY DEF AInv, ActorTypeOK
  <2>3. \A j \in setup_kinds :
          /\ j < next /\ audit[j] # <<>>
          /\ Len(audit[j]) = 1 \/ (state[j] = "Absent" /\ executor'[j] = "ended")
    BY <2>1, <2>2 DEF Trails
  <2> QED
    BY <1>2, <1>3, <2>2, <2>3 DEF Trails, AuditWellFormed, Unfinished, Stack
<1>13. Records'
  <2>1. CASE recorded' = recorded
    BY <1>2, <1>3, <2>1, KeepRecords
  <2>2. CASE recorded' = recorded \cup {id} /\ Stack(id) \notin RecordedStacks
    BY <1>3, <1>7, <2>2 DEF AInv, Records, RecordedIffSucceeded, Stack
  <2> QED
    BY <2>1, <2>2
<1> QED
  BY <1>5, <1>6, <1>7, <1>8, <1>9, <1>10, <1>11, <1>12, <1>13 DEF AInv

\* Executors send their messages while the actor waits for the registry or for its
\* mailbox.
LEMMA ExecutorStep ==
  ASSUME AInv, NEW id \in Ids, ExecutorSucceeds(id) \/ ExecutorFails(id) \/ ExecutorMember(id)
  PROVE  AInv'
<1>1. PICK message \in {"persist", "ok", "err", "member"} :
          /\ ExecutorSends(id, message)
          /\ message = "ok" => Stack(id) \notin RecordedStacks
          /\ message = "member" => Stack(id) \in ConvergeStacks
  BY DEF ExecutorSucceeds, ExecutorFails, ExecutorMember, Stack
<1>2. /\ executor[id] = "working" /\ executor' = [executor EXCEPT ![id] = message]
      /\ UNCHANGED vars /\ phase' = phase /\ UNCHANGED <<sweepVars, tableVars, audit, stopping>>
      /\ recorded' = recorded
  BY <1>1 DEF ExecutorSends, durableVars
<1>3. message \in ExecutorStates \ {"none", "ended"}
  BY DEF ExecutorStates
<1> QED
  BY <1>1, <1>2, <1>3, ReportStep

\* PersistManifestConvergeStack records a member of a running converge, which is not
\* an ensure; otherwise the executor learns that it failed.
LEMMA PersistMemberStep ==
  ASSUME AInv, NEW id \in Ids, PersistMemberCommand(id) PROVE AInv'
<1>1. /\ executor[id] = "member" /\ phase = "command" /\ phase' = "launch"
      /\ UNCHANGED vars /\ UNCHANGED <<sweepVars, tableVars, audit, stopping>>
  BY DEF PersistMemberCommand, AtCommand
<1>2. {"working", "err"} \subseteq ExecutorStates \ {"none", "ended"}
  BY DEF ExecutorStates
<1>3. CASE /\ state[id] = "Running" /\ recorded' = recorded \cup {id}
           /\ executor' = [executor EXCEPT ![id] = "working"]
  <2>1. Stack(id) \in ConvergeStacks
    BY <1>1, <1>3 DEF AInv, Reports
  <2>2. Stack(id) \notin RecordedStacks
    BY <2>1, ActorAssumption
  <2> QED
    BY <1>1, <1>2, <1>3, <2>2, ReportStep
<1>4. CASE executor' = [executor EXCEPT ![id] = "err"] /\ UNCHANGED recorded
  BY <1>1, <1>2, <1>4, ReportStep
<1> QED
  BY <1>3, <1>4 DEF PersistMemberCommand

-----------------------------------------------------------------------------
\* The steps of a call under way: the actor's own variables do not move.

LEMMA ActorStill ==
  ASSUME UNCHANGED actorVars
  PROVE  /\ phase' = phase /\ sweep' = sweep /\ doomed' = doomed /\ doomedNext' = doomedNext
         /\ requests' = requests /\ setup_kinds' = setup_kinds /\ cancellations' = cancellations
         /\ cancelled' = cancelled /\ executor' = executor /\ audit' = audit
         /\ recorded' = recorded /\ stopping' = stopping
         /\ ActorTypeOK => ActorTypeOK'
<1>1. /\ phase' = phase /\ sweep' = sweep /\ doomed' = doomed /\ doomedNext' = doomedNext
      /\ requests' = requests /\ setup_kinds' = setup_kinds /\ cancellations' = cancellations
      /\ cancelled' = cancelled /\ executor' = executor /\ audit' = audit
      /\ recorded' = recorded /\ stopping' = stopping
  BY DEF actorVars, sweepVars, tableVars, durableVars
<1> QED
  BY <1>1 DEF ActorTypeOK

\* Steps of the pump that admit and finish nothing, the panic, the clock and clients.
LEMMA TableStillStep ==
  ASSUME AInv, IInv', UNCHANGED actorVars, UNCHANGED <<next, state, spec, started, leases, closing>>,
         call' = call, Lapsing',
         closing => lane' = "none",
         phase = "audit" /\ call = NoCall => lane' = "none" /\ work' = <<>>
  PROVE  AInv'
<1>1. /\ next' = next /\ state' = state /\ spec' = spec /\ started' = started
      /\ leases' = leases /\ closing' = closing /\ Downhill /\ NoSuccess
  BY StillMove
<1>2. /\ phase' = phase /\ doomed' = doomed /\ requests' = requests
      /\ setup_kinds' = setup_kinds /\ cancellations' = cancellations /\ executor' = executor
      /\ audit' = audit /\ recorded' = recorded /\ ActorTypeOK'
  BY ActorStill DEF AInv
<1>3. Tasks' /\ Reports' /\ Trails' /\ Records'
  BY <1>1, <1>2, KeepTasks, KeepReports, KeepTrails, KeepRecords
<1>4. Requested'
  <2>1. \A id \in Ids : Unaudited(id)' = Unaudited(id)
    BY <1>1, <1>2 DEF Unaudited
  <2> QED
    BY <1>1, <1>2, <2>1, KeepRequested
<1>5. Submitting' /\ Phased'
  BY <1>1, <1>2 DEF AInv, Submitting, Phased
<1> QED
  BY <1>2, <1>3, <1>4, <1>5 DEF AInv

LEMMA PumpQuiet ==
  ASSUME AInv, UNCHANGED actorVars, NEW w \in Workspaces,
         PumpDrop(w) \/ PumpLapsed(w) \/ PumpDefer(w)
  PROVE  AInv'
<1>1. IInv'
  BY PumpDropStep, PumpLapsedStep, PumpDeferStep DEF AInv
<1>2. /\ UNCHANGED <<next, state, spec, started, leases, closing>> /\ call' = call
      /\ lane' = lane /\ work' = work /\ Pop(w)
  BY DEF PumpDrop, PumpLapsed, PumpDefer, leaseVars, pumpVars
<1>3. ~closing /\ ~(phase = "audit" /\ call = NoCall)
  BY <1>2 DEF AInv, Phased, Pop, LaneOpen
<1>4. Lapsing'
  <2>1. CASE lapsed' = lapsed
    BY <1>2, <2>1 DEF AInv, Lapsing
  <2>2. CASE PumpLapsed(w)
    <3>1. PICK id \in Ids : id = Front(w)
      BY <1>2, PopStep DEF AInv
    <3>2. lapsed' = Append(lapsed, id) /\ id \in leases
      BY <2>2, <3>1 DEF PumpLapsed, LeaseLapsed, Front
    <3>3. lapsed \in Seq(Ids)
      BY DEF AInv, IInv, TypeOK
    <3>4. Elems(lapsed') = Elems(lapsed) \cup {id}
      BY <3>2, <3>3, AppendList
    <3>5. Elems(work') = Elems(work) /\ leases' = leases /\ next' = next
      BY <1>2
    <3> QED
      BY <3>2, <3>4, <3>5 DEF AInv, Lapsing
  <2> QED
    BY <2>1, <2>2 DEF PumpDrop, PumpDefer, pumpVars
<1> QED
  BY <1>1, <1>2, <1>3, <1>4, TableStillStep

LEMMA PumpLaneActor ==
  ASSUME AInv, UNCHANGED actorVars, PumpLane PROVE AInv'
<1>1. IInv'
  BY PumpLaneStep DEF AInv
<1>2. /\ UNCHANGED <<next, state, spec, started, leases, closing>> /\ call' = call /\ lane # "none"
      /\ \/ lapsed' = lapsed /\ work' = work
         \/ lapsed' = <<>> /\ work' = lapsed \o work
  BY DEF PumpLane, leaseVars
<1>3. ~closing /\ ~(phase = "audit" /\ call = NoCall)
  BY <1>2 DEF AInv, Phased
<1>4. Lapsing'
  <2>1. lapsed \in Seq(Ids) /\ work \in Seq(Ids)
    BY DEF AInv, IInv, TypeOK
  <2>2. Elems(lapsed') \cup Elems(work') = Elems(lapsed) \cup Elems(work)
    <3>1. CASE lapsed' = lapsed /\ work' = work
      BY <3>1
    <3>2. CASE lapsed' = <<>> /\ work' = lapsed \o work
      <4>1. Elems(lapsed \o work) = Elems(lapsed) \cup Elems(work)
        BY <2>1, ConcatList
      <4>2. Elems(lapsed') = {} /\ Elems(work') = Elems(lapsed \o work)
        BY <3>2, EmptyList
      <4> QED
        BY <4>1, <4>2
    <3> QED
      BY <1>2, <3>1, <3>2
  <2>3. leases' = leases /\ next' = next
    BY <1>2
  <2> QED
    BY <2>2, <2>3 DEF AInv, Lapsing
<1> QED
  BY <1>1, <1>2, <1>3, <1>4, TableStillStep

LEMMA SubmitNoSlotActor ==
  ASSUME AInv, UNCHANGED actorVars, SubmitNoSlot PROVE AInv'
<1>1. IInv'
  BY SubmitNoSlotStep DEF AInv
<1>2. /\ UNCHANGED <<next, state, spec, started, leases, closing>> /\ call' = call /\ lane = "none"
      /\ lane' = lane /\ lapsed' = lapsed /\ work' = work
  BY DEF SubmitNoSlot, leaseVars, pumpVars
<1>3. Lapsing' /\ call # NoCall
  BY <1>2 DEF AInv, Lapsing, SubmitNoSlot, NoCall
<1> QED
  BY <1>1, <1>2, <1>3, TableStillStep

\* The clock and the clients.
LEMMA WorldActor ==
  ASSUME AInv, UNCHANGED actorVars, Tick \/ \E c \in Clients : ClientExit(c) PROVE AInv'
<1>1. IInv'
  BY QuietSteps DEF AInv
<1>2. /\ UNCHANGED <<next, state, spec, started, leases, closing>> /\ call' = call
      /\ lane' = lane /\ lapsed' = lapsed /\ work' = work
  BY DEF Tick, ClientExit, leaseVars, pumpVars
<1>3. /\ Lapsing' /\ (closing => lane' = "none")
      /\ phase = "audit" /\ call = NoCall => lane' = "none" /\ work' = <<>>
  BY <1>2 DEF AInv, Lapsing, Phased
<1> QED
  BY <1>1, <1>2, <1>3, TableStillStep

\* The pump admits a job: it joins the handoff, and its executor is still to come.
LEMMA PumpAdmitActor ==
  ASSUME AInv, UNCHANGED actorVars, NEW w \in Workspaces, PumpAdmit(w) PROVE AInv'
<1>1. IInv'
  BY PumpAdmitStep DEF AInv
<1>2. PICK id \in Ids : id = Front(w)
  BY PopStep DEF AInv, PumpAdmit
<1>3. /\ state[id] = "Queued" /\ state' = [state EXCEPT ![id] = "Running"]
      /\ started' = Append(started, id) /\ next' = next /\ spec' = spec /\ leases' = leases
      /\ closing' = closing /\ call' = call /\ lane' = lane /\ lapsed' = lapsed /\ work' = work
      /\ lane # "none"
  BY <1>2 DEF PumpAdmit, Front, Pop, LaneOpen, leaseVars, pumpVars
<1>4. /\ phase' = phase /\ doomed' = doomed /\ requests' = requests
      /\ setup_kinds' = setup_kinds /\ cancellations' = cancellations /\ executor' = executor
      /\ audit' = audit /\ recorded' = recorded /\ ActorTypeOK'
  BY ActorStill DEF AInv
<1>5. /\ state'[id] = "Running" /\ \A j \in Ids : j # id => state'[j] = state[j]
  BY <1>3 DEF AInv, IInv, TypeOK
<1>6. Handed' = Handed \cup {id} /\ Handed \subseteq Ids
  <2>1. started \in Seq(Ids)
    BY DEF AInv, IInv, TypeOK
  <2> QED
    BY <1>3, <2>1, AppendList, ListType DEF Handed
<1>7. id < next /\ executor[id] = "none" /\ ~closing
  BY <1>3 DEF AInv, IInv, Known, Tasks, Phased
<1> HIDE DEF Handed
<1>8. Tasks'
  <2>1. Tasks
    BY DEF AInv
  <2> QED
    BY <1>3, <1>4, <1>5, <1>6, <1>7, <2>1 DEF Tasks
<1>9. Reports'
  BY <1>3, <1>4, <1>5, <1>7 DEF AInv, Reports, Stack
<1>10. Requested'
  <2>1. Requested /\ \A j \in Ids : Unaudited(j)' = Unaudited(j) /\ Stack(j)' = Stack(j)
    BY <1>3, <1>4 DEF AInv, Unaudited, Stack
  <2>2. \A j \in requests' : j < next' \/ (call'.stage = "place" /\ j = next')
    BY <1>3, <1>4, <2>1 DEF Requested
  <2>3. ASSUME NEW j \in Ids, state'[j] = "Queued", Stack(j)' \notin GenericStacks
        PROVE  j \in requests' \/ Unaudited(j)'
    BY <1>4, <1>5, <2>1, <2>3 DEF Requested
  <2>4. ASSUME NEW j \in Ids, Holding(j)', Stack(j)' \notin GenericStacks
        PROVE  j \in cancellations' \/ (j \in Handed' /\ (j \in requests' \/ Unaudited(j)'))
    <3>1. CASE j = id
      BY <1>3, <1>4, <1>6, <2>1, <2>4, <3>1 DEF Requested
    <3>2. CASE j # id
      BY <1>4, <1>5, <1>6, <2>1, <2>4, <3>2 DEF Requested, Holding
    <3> QED
      BY <3>1, <3>2
  <2> QED
    BY <2>2, <2>3, <2>4 DEF Requested
<1>11. Submitting'
  <2>1. Submitting /\ \A j : state[j] \in {"Queued", "Running"} /\ j \in Ids
                             => state'[j] \in {"Queued", "Running"}
    BY <1>5 DEF AInv
  <2>2. (call.stage = "attach" => next - 1 \in Ids) /\ (next >= 2 => next - 1 \in Ids)
    <3>1. next \in 1..(MaxJobs + 1) /\ MaxJobs \in Nat
      BY JobsAssumption DEF AInv, IInv, TypeOK
    <3>2. call.stage = "attach" => call # NoCall
      BY DEF NoCall
    <3>3. call.stage = "attach" => next >= 2
      BY <3>2 DEF AInv, IInv, Calling
    <3> QED
      BY <3>1, <3>3 DEF Ids
  <2> QED
    BY <1>3, <1>4, <2>1, <2>2 DEF Submitting
<1>12. Lapsing' /\ Phased'
  BY <1>3, <1>4, <1>7 DEF AInv, Lapsing, Phased
<1>13. Trails'
  <2>1. Trails /\ setup_kinds \subseteq Ids /\ \A j \in Ids : Unfinished(j)' => Unfinished(j)
    BY <1>3, <1>5 DEF AInv, ActorTypeOK, Unfinished
  <2>2. \A j \in setup_kinds : state'[j] = "Absent" <=> state[j] = "Absent"
    BY <1>3, <1>5, <2>1
  <2> QED
    BY <1>3, <1>4, <2>1, <2>2 DEF Trails, AuditWellFormed, Stack
<1>14. Records'
  BY <1>3, <1>4, <1>5 DEF AInv, Records, RecordedIffSucceeded
<1> QED
  BY <1>1, <1>4, <1>8, <1>9, <1>10, <1>11, <1>12, <1>13, <1>14 DEF AInv

\* A queued job ends inside a call: the pump found its lease lapsed, or close ends it.
LEMMA EndQueuedActor ==
  ASSUME AInv, IInv', UNCHANGED actorVars, NEW id \in Ids, state[id] = "Queued",
         Finish(id, "Cancelled"), call' = call,
         Elems(work') = Elems(work) \ {id},
         lane = "none", closing \/ (id \in leases /\ work # <<>>)
  PROVE  AInv'
<1>1. Unfinished(id) /\ "Cancelled" \in Terminal
  BY DEF Unfinished, Terminal
<1>2. /\ Downhill /\ NoSuccess /\ next' = next /\ started' = started /\ closing' = closing
      /\ leases' = leases \ {id} /\ lapsed' = lapsed
      /\ closing => lane' = "none"
      /\ \A j \in Ids : j # id /\ Unfinished(j) => state'[j] = state[j]
  BY <1>1, FinishMove DEF AInv, Downhill
<1>3. /\ phase' = phase /\ doomed' = doomed /\ requests' = requests
      /\ setup_kinds' = setup_kinds /\ cancellations' = cancellations /\ executor' = executor
      /\ audit' = audit /\ recorded' = recorded /\ ActorTypeOK'
  BY ActorStill DEF AInv
<1>4. Tasks' /\ Reports' /\ Trails' /\ Records'
  BY <1>2, <1>3, KeepTasks, KeepReports, KeepTrails, KeepRecords
<1>5. Requested'
  <2>1. \A j \in Ids : Unaudited(j)' = Unaudited(j)
    BY <1>2, <1>3 DEF Unaudited
  <2> QED
    BY <1>2, <1>3, <2>1, KeepRequested
<1>6. Submitting'
  <2>1. CASE closing
    <3>1. call' = NoCall /\ phase' # "audit" /\ call'.stage = "none"
      BY <1>3, <2>1 DEF AInv, Phased, Submitting, NoCall
    <3> QED
      BY <3>1 DEF Submitting
  <2>2. CASE id \in leases /\ ~closing /\ call # NoCall
    <3>1. Submitting /\ (call.stage = "attach" => id # next - 1)
      BY <2>2 DEF AInv, Submitting
    <3>2. call.stage \in {"place", "attach"}
      BY <2>2 DEF AInv, IInv, TypeOK, Call
    <3>3. call.stage = "attach" => next - 1 \in Ids /\ Unfinished(next - 1)
      <4>1. next \in 1..(MaxJobs + 1) /\ MaxJobs \in Nat
        BY JobsAssumption DEF AInv, IInv, TypeOK
      <4>2. call.stage = "attach" => next >= 2
        BY <2>2 DEF AInv, IInv, Calling
      <4> QED
        BY <3>1, <4>1, <4>2 DEF Ids, Submitting, Unfinished
    <3> QED
      BY <1>2, <1>3, <2>2, <3>1, <3>2, <3>3 DEF Submitting
  <2>3. CASE call = NoCall /\ phase # "audit"
    <3>1. call' = NoCall /\ phase' # "audit" /\ call'.stage = "none"
      BY <1>3, <2>3 DEF NoCall
    <3> QED
      BY <3>1 DEF Submitting
  <2> QED
    BY <2>1, <2>2, <2>3 DEF AInv, Phased
<1>7. Lapsing'
  <2>1. lapsed' = <<>>
    BY <1>2 DEF AInv, IInv, PumpIdle
  <2>2. Elems(lapsed') = {}
    BY <2>1, EmptyList
  <2> QED
    BY <1>2, <2>2 DEF AInv, Lapsing
<1>8. Phased'
  <2>1. ~(phase = "audit" /\ call = NoCall)
    BY DEF AInv, Phased, Submitting
  <2> QED
    BY <1>2, <1>3, <2>1 DEF AInv, Phased
<1> QED
  BY <1>3, <1>4, <1>5, <1>6, <1>7, <1>8 DEF AInv

LEMMA PumpFinishActor ==
  ASSUME AInv, UNCHANGED actorVars, PumpFinish PROVE AInv'
<1>1. IInv'
  BY PumpFinishStep DEF AInv
<1>2. /\ lane = "none" /\ work # <<>> /\ Finish(Head(work), "Cancelled") /\ work' = Tail(work)
      /\ call' = call
  BY DEF PumpFinish
<1>3. work \in Seq(Ids) /\ Inj(work)
  BY DEF AInv, IInv, TypeOK, Disjoint
<1>4. PICK id \in Ids : id = Head(work) /\ id \in Elems(work)
  BY <1>2, <1>3, TailList
<1>5. Elems(work') = Elems(work) \ {id}
  BY <1>2, <1>3, <1>4, TailList
<1>6. state[id] = "Queued" /\ id \in leases
  BY <1>4, ListedFacts DEF AInv, Lapsing, Waiting
<1> QED
  BY <1>1, <1>2, <1>4, <1>5, <1>6, EndQueuedActor

LEMMA CloseFinishActor ==
  ASSUME AInv, UNCHANGED actorVars, NEW id \in Ids, CloseFinish(id) PROVE AInv'
<1>1. IInv'
  BY CloseFinishStep DEF AInv
<1>2. /\ closing /\ lane = "none" /\ work = <<>> /\ state[id] = "Queued"
      /\ Finish(id, "Cancelled") /\ work' = work /\ call' = call
  BY DEF CloseFinish
<1>3. Elems(work') = {} /\ Elems(work) = {}
  BY <1>2, EmptyList
<1> QED
  BY <1>1, <1>2, <1>3, EndQueuedActor

\* The new job enters the table.  Its request is there already, unless its
\* submission has to be audited first.
LEMMA SubmitPlaceActor ==
  ASSUME AInv, UNCHANGED actorVars, SubmitPlace PROVE AInv'
<1> DEFINE s == [workspace |-> call.workspace, stack |-> call.stack, digest |-> call.digest]
<1>1. IInv'
  BY SubmitPlaceStep DEF AInv
<1>2. /\ call.stage = "place" /\ lane = "none" /\ work = <<>>
      /\ next' = next + 1 /\ state' = [state EXCEPT ![next] = "Queued"]
      /\ spec' = [spec EXCEPT ![next] = s]
      /\ call' = [call EXCEPT !.stage = "attach"]
      /\ started' = started /\ leases' = leases /\ closing' = closing
      /\ lapsed' = lapsed /\ work' = work
  BY DEF SubmitPlace, StartPump, leaseVars, pumpVars
<1>3. /\ phase' = phase /\ doomed' = doomed /\ requests' = requests
      /\ setup_kinds' = setup_kinds /\ cancellations' = cancellations /\ executor' = executor
      /\ audit' = audit /\ recorded' = recorded /\ ActorTypeOK'
  BY ActorStill DEF AInv
<1>4. call # NoCall /\ call \in Call /\ call'.stage = "attach" /\ call' # NoCall
  <2>1. call # NoCall
    BY <1>2 DEF NoCall
  <2>2. call \in Call
    BY <2>1 DEF AInv, IInv, TypeOK
  <2>3. call'.stage = "attach"
    BY <1>2, <2>2 DEF Call
  <2> QED
    BY <2>1, <2>2, <2>3 DEF NoCall
<1>5. next \in Ids /\ next \in Nat /\ next <= MaxJobs /\ (next + 1) - 1 = next /\ Ids \subseteq Nat
  <2>1. next <= MaxJobs /\ next \in 1..(MaxJobs + 1) /\ MaxJobs \in Nat
    BY <1>2, <1>4, JobsAssumption DEF AInv, IInv, TypeOK, Calling
  <2> QED
    BY <2>1 DEF Ids
<1>6. /\ state'[next] = "Queued" /\ spec'[next] = s /\ spec'[next].stack = call.stack
      /\ \A j \in Ids : j # next => state'[j] = state[j] /\ spec'[j] = spec[j]
  <2>1. state \in [Ids -> JobStates \cup {"Absent"}] /\ spec \in [Ids -> JobSpec \cup {NoSpec}]
    BY DEF AInv, IInv, TypeOK
  <2>2. s.stack = call.stack
    OBVIOUS
  <2> HIDE DEF s
  <2>3. /\ state'[next] = "Queued" /\ spec'[next] = s
        /\ \A j \in Ids : j # next => state'[j] = state[j] /\ spec'[j] = spec[j]
    BY <1>2, <1>5, <2>1
  <2> QED
    BY <2>2, <2>3
<1>7. state[next] = "Absent" /\ ~closing
  BY <1>4, <1>5 DEF AInv, IInv, Known, Phased
<1>8. Handed' = Handed /\ Handed \subseteq Ids
  BY <1>2, ListType DEF Handed, AInv, IInv, TypeOK
<1>9. /\ next \notin cancellations /\ executor[next] = "none" /\ next \notin Handed
      /\ next \notin setup_kinds /\ next \notin recorded /\ audit[next] = <<>>
  BY <1>5 DEF AInv, Tasks, Trails, Records
<1>10. \A n \in Nat : n < next => n < next + 1
  BY <1>5
<1>11. \A j \in Ids : Unaudited(j)' => j = next
  BY <1>2, <1>5 DEF Unaudited
<1> HIDE DEF Handed, s
<1>12. Tasks'
  <2>1. Tasks
    BY DEF AInv
  <2>2. \A j \in Ids : j < next => j < next'
    BY <1>2, <1>5, <1>10
  <2> QED
    BY <1>3, <1>6, <1>8, <1>9, <2>1, <2>2 DEF Tasks
<1>13. Reports'
  BY <1>3, <1>6, <1>9 DEF AInv, Reports, Stack
<1>14. Requested'
  <2>1. Requested /\ Submitting /\ requests \subseteq Ids
    BY DEF AInv, ActorTypeOK
  <2>2. \A j \in requests' : j < next'
    BY <1>2, <1>3, <1>5, <2>1 DEF Requested
  <2>3. \A j \in Ids : ~Unaudited(j)
    BY <1>2 DEF Unaudited
  <2>4. ASSUME NEW j \in Ids, state'[j] = "Queued", Stack(j)' \notin GenericStacks
        PROVE  j \in requests' \/ Unaudited(j)'
    <3>1. CASE j = next
      <4>1. CASE call.stack \in AuditedStacks
        BY <1>2, <1>3, <1>4, <1>5, <2>1, <3>1, <4>1 DEF Submitting, Unaudited
      <4>2. CASE call.stack \notin AuditedStacks
        <5>1. call.stack \notin GenericStacks
          BY <1>6, <2>4, <3>1 DEF Stack
        <5> QED
          BY <1>2, <1>3, <2>1, <3>1, <4>2, <5>1 DEF Submitting
      <4> QED
        BY <4>1, <4>2
    <3>2. CASE j # next
      BY <1>3, <1>6, <2>1, <2>3, <2>4, <3>2 DEF Requested, Stack
    <3> QED
      BY <3>1, <3>2
  <2>5. ASSUME NEW j \in Ids, Holding(j)', Stack(j)' \notin GenericStacks
        PROVE  j \in cancellations' \/ (j \in Handed' /\ (j \in requests' \/ Unaudited(j)'))
    <3>1. j # next
      BY <1>6, <2>5 DEF Holding
    <3> QED
      BY <1>3, <1>6, <1>8, <2>1, <2>3, <2>5, <3>1 DEF Requested, Stack, Holding
  <2> QED
    BY <2>2, <2>4, <2>5 DEF Requested
<1>15. Submitting'
  <2>1. Submitting
    BY DEF AInv
  <2>2. next \notin leases
    BY <1>5 DEF AInv, Lapsing
  <2>3. phase = "audit" => next \notin requests
    BY <1>2, <2>1 DEF Submitting
  <2>4. /\ next' - 1 = next /\ next' >= 2
    <3>1. next >= 1
      BY DEF AInv, IInv, TypeOK
    <3> QED
      BY <1>2, <1>5, <3>1
  <2> QED
    BY <1>2, <1>3, <1>4, <1>6, <1>7, <1>9, <2>1, <2>2, <2>3, <2>4 DEF Submitting
<1>16. Lapsing' /\ Phased'
  <2>1. leases \subseteq Ids /\ \A j \in leases : j < next + 1
    BY <1>5 DEF AInv, Lapsing, IInv, TypeOK
  <2>2. Lapsing'
    BY <1>2, <2>1 DEF AInv, Lapsing
  <2> QED
    BY <1>2, <1>3, <1>4, <1>7, <2>2 DEF AInv, Phased
<1>17. Trails'
  <2>1. Trails /\ setup_kinds \subseteq Ids /\ Submitting
    BY DEF AInv, ActorTypeOK
  <2>2. \A j \in setup_kinds' :
          /\ j < next' /\ audit'[j] # <<>>
          /\ Len(audit'[j]) = 1 \/ (state'[j] = "Absent" /\ executor'[j] = "ended")
    BY <1>2, <1>3, <1>5, <1>6, <1>9, <2>1 DEF Trails
  <2>3. ASSUME NEW j \in Ids, Unfinished(j)', Stack(j)' \in AuditedStacks,
               j \in requests' \cup cancellations'
        PROVE  j \in setup_kinds'
    <3>1. ASSUME j = next PROVE FALSE
      <4>1. call.stack \in AuditedStacks
        BY <1>6, <2>3, <3>1 DEF Stack
      <4>2. next \notin requests
        BY <1>2, <2>1, <4>1 DEF Submitting
      <4> QED
        BY <1>3, <1>9, <2>3, <3>1, <4>2
    <3> QED
      BY <1>3, <1>6, <2>1, <2>3, <3>1 DEF Trails, Unfinished, Stack
  <2>4. \A j \in Ids : j >= next' => audit'[j] = <<>>
    <3>1. \A j \in Ids : j >= next + 1 => j >= next
      BY <1>5
    <3> QED
      BY <1>2, <1>3, <2>1, <3>1 DEF Trails
  <2>5. AuditWellFormed'
    BY <1>3, <2>1 DEF Trails, AuditWellFormed
  <2> QED
    BY <2>2, <2>3, <2>4, <2>5 DEF Trails
<1>18. Records'
  <2>1. Records /\ recorded \subseteq Ids
    BY DEF AInv, ActorTypeOK
  <2>2. \A j \in recorded' : j < next'
    BY <1>2, <1>3, <1>5, <2>1 DEF Records
  <2>3. RecordedIffSucceeded'
    BY <1>3, <1>6, <1>9, <2>1 DEF Records, RecordedIffSucceeded
  <2> QED
    BY <2>2, <2>3 DEF Records
<1> QED
  BY <1>1, <1>3, <1>12, <1>13, <1>14, <1>15, <1>16, <1>17, <1>18 DEF AInv

\* The lease and the owner are recorded; the audit, if there is one, comes next.
LEMMA SubmitAttachActor ==
  ASSUME AInv, UNCHANGED actorVars, SubmitAttach PROVE AInv'
<1>1. IInv'
  BY SubmitAttachStep DEF AInv
<1>2. /\ call.stage = "attach" /\ lane = "none" /\ work = <<>> /\ call' = NoCall
      /\ next' = next /\ state' = state /\ spec' = spec /\ started' = started
      /\ closing' = closing /\ lane' = lane /\ lapsed' = lapsed /\ work' = work
      /\ leases' \subseteq leases \cup {next - 1}
  BY DEF SubmitAttach, pumpVars
<1>3. /\ phase' = phase /\ doomed' = doomed /\ requests' = requests
      /\ setup_kinds' = setup_kinds /\ cancellations' = cancellations /\ executor' = executor
      /\ audit' = audit /\ recorded' = recorded /\ ActorTypeOK'
  BY ActorStill DEF AInv
<1>4. Downhill /\ NoSuccess
  BY <1>2, StillMove
<1>5. Tasks' /\ Reports' /\ Trails' /\ Records'
  BY <1>2, <1>3, <1>4, KeepTasks, KeepReports, KeepTrails, KeepRecords
<1>6. call'.stage = "none" /\ call.stage # "place" /\ call # NoCall
  BY <1>2 DEF NoCall
<1>7. Requested'
  <2>1. \A j \in Ids : Unaudited(j)' = Unaudited(j)
    BY <1>2, <1>3, <1>6 DEF Unaudited
  <2> QED
    BY <1>2, <1>3, <1>4, <1>6, <2>1, KeepRequested
<1>8. Submitting'
  BY <1>2, <1>3, <1>6 DEF AInv, Submitting
<1>9. Lapsing'
  <2>1. lapsed' = <<>>
    BY <1>2 DEF AInv, IInv, PumpIdle
  <2>2. Elems(lapsed') = {} /\ Elems(work') = {}
    BY <1>2, <2>1, EmptyList
  <2>3. next \in Nat
    BY JobsAssumption DEF AInv, IInv, TypeOK
  <2>4. next - 1 < next
    BY <2>3
  <2> QED
    BY <1>2, <2>2, <2>4 DEF AInv, Lapsing
<1>10. Phased'
  BY <1>2, <1>3 DEF AInv, Phased
<1> QED
  BY <1>1, <1>3, <1>5, <1>7, <1>8, <1>9, <1>10 DEF AInv

\* Every step of a call under way keeps the invariant.
LEMMA InternalStep ==
  ASSUME AInv, Internal, UNCHANGED actorVars PROVE AInv'
<1>1. ASSUME NEW w \in Workspaces, PumpDrop(w) \/ PumpLapsed(w) \/ PumpDefer(w) \/ PumpAdmit(w)
      PROVE  AInv'
  BY <1>1, PumpQuiet, PumpAdmitActor
<1>2. ASSUME PumpLane \/ PumpFinish PROVE AInv'
  BY <1>2, PumpLaneActor, PumpFinishActor
<1>3. ASSUME Submission PROVE AInv'
  BY <1>3, SubmitPlaceActor, SubmitNoSlotActor, SubmitAttachActor DEF Submission
<1>4. ASSUME NEW id \in Ids, CloseFinish(id) PROVE AInv'
  BY <1>4, CloseFinishActor
<1> QED
  BY <1>1, <1>2, <1>3, <1>4 DEF Internal, Pump

-----------------------------------------------------------------------------
\* The audit trail.

LEMMA SecondEvent ==
  ASSUME NEW S, NEW s \in Seq(S), NEW e \in S, Len(s) = 1
  PROVE  /\ Append(s, e) # <<>> /\ Len(Append(s, e)) = 2
         /\ Append(s, e)[1] = s[1] /\ Append(s, e)[2] = e
<1>1. /\ Len(Append(s, e)) = Len(s) + 1 /\ Append(s, e)[Len(s) + 1] = e
      /\ \A i \in 1..Len(s) : Append(s, e)[i] = s[i]
  OBVIOUS
<1>2. Len(Append(s, e)) = 2 /\ Append(s, e)[2] = e
  BY <1>1
<1>3. Append(s, e)[1] = s[1]
  BY <1>1
<1>4. Append(s, e) # <<>>
  BY <1>2
<1> QED
  BY <1>2, <1>3, <1>4

\* A terminal event follows the submission event.
LEMMA AppendTrail ==
  ASSUME AInv, NEW id \in Ids, audit[id] # <<>>, Len(audit[id]) = 1,
         NEW event \in Events \ {"submitted"},
         audit' = audit \/ audit' = [audit EXCEPT ![id] = Append(@, event)]
  PROVE  /\ audit' \in [Ids -> Seq(Events)]
         /\ \A j \in Ids : j # id => audit'[j] = audit[j]
         /\ audit'[id] # <<>>
         /\ AuditWellFormed'
<1>1. audit \in [Ids -> Seq(Events)] /\ AuditWellFormed
  BY DEF AInv, ActorTypeOK, Trails
<1>2. CASE audit' = audit
  BY <1>1, <1>2 DEF AuditWellFormed
<1>3. CASE audit' = [audit EXCEPT ![id] = Append(@, event)]
  <2>1. /\ audit' \in [Ids -> Seq(Events)] /\ audit'[id] = Append(audit[id], event)
        /\ \A j \in Ids : j # id => audit'[j] = audit[j]
    BY <1>1, <1>3
  <2>2. /\ audit'[id] # <<>> /\ Len(audit'[id]) = 2
        /\ audit'[id][1] = audit[id][1] /\ audit'[id][2] = event
    <3>1. audit[id] \in Seq(Events) /\ event \in Events
      BY <1>1
    <3> QED
      BY <2>1, <3>1, SecondEvent
  <2>3. audit[id][1] = "submitted"
    BY <1>1 DEF AuditWellFormed
  <2>4. AuditWellFormed'
    BY <1>1, <2>1, <2>2, <2>3 DEF AuditWellFormed
  <2> QED
    BY <2>1, <2>2, <2>4
<1> QED
  BY <1>2, <1>3

\* A job leaves the table of open ensures, with or without its terminal event.
LEMMA CloseTrail ==
  ASSUME AInv, Downhill, NEW id \in Ids,
         \A j \in Ids : j # id => executor'[j] = executor[j],
         \/ audit' = audit
         \/ /\ id \in setup_kinds /\ state[id] # "Absent"
            /\ \E event \in Events \ {"submitted"} :
                  audit' = [audit EXCEPT ![id] = Append(@, event)],
         setup_kinds' = setup_kinds \ {id},
         requests' \cup cancellations' \subseteq requests \cup cancellations,
         ~Unfinished(id)' \/ id \notin setup_kinds
  PROVE  Trails' /\ audit' \in [Ids -> Seq(Events)]
<1>1. Trails /\ setup_kinds \subseteq Ids /\ audit \in [Ids -> Seq(Events)]
  BY DEF AInv, ActorTypeOK
<1>2. /\ audit' \in [Ids -> Seq(Events)] /\ AuditWellFormed'
      /\ \A j \in Ids : j # id => audit'[j] = audit[j]
      /\ id < next \/ audit'[id] = audit[id]
  <2>1. CASE audit' = audit
    BY <1>1, <2>1 DEF Trails, AuditWellFormed
  <2>2. CASE audit' # audit
    <3>1. PICK event \in Events \ {"submitted"} :
              audit' = [audit EXCEPT ![id] = Append(@, event)]
      BY <2>2
    <3>2. id < next /\ audit[id] # <<>> /\ Len(audit[id]) = 1
      BY <1>1, <2>2 DEF Trails
    <3> QED
      BY <3>1, <3>2, AppendTrail
  <2> QED
    BY <2>1, <2>2
<1>3. /\ next' = next /\ next \in Nat /\ Ids \subseteq Nat
      /\ \A j \in Ids : state'[j] # "Absent" => state[j] # "Absent" /\ spec'[j] = spec[j]
      /\ \A j \in Ids : Unfinished(j)' => Unfinished(j) /\ spec'[j] = spec[j]
  <2>1. next \in Nat /\ Ids \subseteq Nat
    BY JobsAssumption, Constants DEF AInv, IInv, TypeOK
  <2> QED
    BY <2>1 DEF Downhill, Unfinished, Holding
<1>4. \A j \in setup_kinds' :
          /\ j < next' /\ audit'[j] # <<>>
          /\ Len(audit'[j]) = 1 \/ (state'[j] = "Absent" /\ executor'[j] = "ended")
  BY <1>1, <1>2, <1>3 DEF Trails
<1>5. ASSUME NEW j \in Ids, Unfinished(j)', Stack(j)' \in AuditedStacks,
             j \in requests' \cup cancellations'
      PROVE  j \in setup_kinds'
  <2>1. Unfinished(j) /\ Stack(j) \in AuditedStacks /\ j \in requests \cup cancellations
    BY <1>3, <1>5 DEF Stack
  <2>2. j \in setup_kinds
    BY <1>1, <2>1 DEF Trails
  <2> QED
    BY <1>5, <2>2
<1>6. \A j \in Ids : j >= next' => audit'[j] = <<>>
  BY <1>1, <1>2, <1>3 DEF Trails
<1> QED
  BY <1>2, <1>4, <1>5, <1>6 DEF Trails

-----------------------------------------------------------------------------
\* Cancelling.

\* cancel_job_in_actor, called by the sweep and by Cancel.
LEMMA CancelActor ==
  ASSUME AInv, NEW id \in Ids, CancelInActor(id),
         phase \in {"stall", "gone", "command"}, phase' \in {"stall", "gone", "launch"},
         sweep' = sweep, doomed' \subseteq doomed, doomedNext' \subseteq doomedNext
  PROVE  AInv'
<1> DEFINE forget == id \notin cancellations /\ state[id] # "Running"
<1>1. /\ Cancel(id) /\ cancellations' = cancellations /\ executor' = executor
      /\ recorded' = recorded /\ stopping' = stopping
      /\ cancelled' = IF id \in cancellations THEN cancelled \cup {id} ELSE cancelled
      /\ requests' = IF forget THEN requests \ {id} ELSE requests
      /\ setup_kinds' = IF forget THEN setup_kinds \ {id} ELSE setup_kinds
  BY DEF CancelInActor
<1>2. \/ audit' = audit
      \/ /\ forget /\ id \in setup_kinds
         /\ audit' = [audit EXCEPT ![id] = Append(@, "Cancelled")]
  BY DEF CancelInActor, AppendEvent
<1>3. /\ Ready /\ Unfinished(id) /\ Downhill /\ NoSuccess /\ next' = next
      /\ state[id] # "Running" => state'[id] = "Cancelled"
      /\ started' = started /\ closing' = closing
      /\ call' = call /\ work' = work /\ lapsed' = lapsed
      /\ closing => lane' = "none"
      /\ leases' \subseteq leases
  <2>1. leases' \subseteq leases
    BY <1>1 DEF Cancel, Finish, leaseVars
  <2> QED
    BY <1>1, <2>1, CancelMove DEF AInv, Downhill
<1>4. IInv'
  BY <1>1, CancelStep DEF AInv
<1>5. Tasks' /\ Reports' /\ Records'
  BY <1>1, <1>3, KeepTasks, KeepReports, KeepRecords
<1>6. Trails' /\ audit' \in [Ids -> Seq(Events)]
  <2>1. CASE forget
    <3>1. setup_kinds' = setup_kinds \ {id} /\ ~Unfinished(id)'
      BY <1>1, <1>3, <2>1 DEF Unfinished
    <3>2. requests' \cup cancellations' \subseteq requests \cup cancellations
      BY <1>1
    <3>3. "Cancelled" \in Events \ {"submitted"} /\ state[id] # "Absent"
      BY <1>3 DEF Events, Unfinished
    <3> QED
      BY <1>1, <1>2, <1>3, <3>1, <3>2, <3>3, CloseTrail
  <2>2. CASE ~forget
    <3>1. audit' = audit /\ setup_kinds' = setup_kinds /\ requests' = requests
      BY <1>1, <1>2, <2>2
    <3> QED
      BY <1>1, <1>3, <3>1, KeepTrails DEF AInv, ActorTypeOK
  <2> QED
    BY <2>1, <2>2
<1>7. Requested'
  <2>1. \A j \in Ids : ~Unaudited(j)
    BY DEF Unaudited
  <2>2. CASE requests' = requests
    <3>1. call.stage # "place"
      BY <1>3, ReadyActor
    <3> QED
      BY <1>1, <1>3, <2>1, <2>2, <3>1, KeepRequested
  <2>3. CASE forget /\ requests' = requests \ {id}
    <3>1. /\ Requested /\ state'[id] = "Cancelled" /\ Handed' = Handed
          /\ \A j \in Ids : state'[j] = "Queued" => state[j] = "Queued"
          /\ \A j \in Ids : state'[j] \in {"Running", "Cancelling"} => Holding(j)
          /\ \A j \in Ids : state'[j] # "Absent" => spec'[j] = spec[j]
      BY <1>3, <2>3 DEF AInv, Downhill, Handed
    <3>2. \A j \in requests' : j < next' \/ (call'.stage = "place" /\ j = next')
      BY <1>3, <2>3, <3>1 DEF Requested
    <3>3. ASSUME NEW j \in Ids, state'[j] = "Queued", Stack(j)' \notin GenericStacks
          PROVE  j \in requests'
      <4>1. j # id /\ state[j] = "Queued" /\ Stack(j) \notin GenericStacks
        BY <3>1, <3>3 DEF Stack
      <4> QED
        BY <2>1, <2>3, <3>1, <4>1 DEF Requested
    <3>4. ASSUME NEW j \in Ids, Holding(j)', Stack(j)' \notin GenericStacks
          PROVE  j \in cancellations' \/ (j \in Handed' /\ j \in requests')
      <4>1. j # id /\ Holding(j) /\ Stack(j) \notin GenericStacks
        BY <3>1, <3>4 DEF Stack, Holding
      <4>2. j \in cancellations \/ (j \in Handed /\ j \in requests)
        BY <2>1, <3>1, <4>1 DEF Requested
      <4> QED
        BY <1>1, <2>3, <3>1, <4>1, <4>2
    <3> QED
      BY <3>2, <3>3, <3>4 DEF Requested
  <2> QED
    BY <1>1, <2>2, <2>3
<1>8. Submitting' /\ Lapsing'
  BY <1>3, KeepSubmitting, KeepLapsing
<1>9. Phased'
  BY <1>3 DEF AInv, Phased
<1>10. ActorTypeOK'
  BY <1>1, <1>6 DEF AInv, ActorTypeOK, Phases
<1> QED
  BY <1>4, <1>5, <1>6, <1>7, <1>8, <1>9, <1>10 DEF AInv

LEMMA CancelCommandStep ==
  ASSUME AInv, NEW id \in Ids, CancelCommand(id) PROVE AInv'
<1>1. /\ CancelInActor(id) /\ phase = "command" /\ phase' = "launch"
      /\ sweep' = sweep /\ doomed' = doomed /\ doomedNext' = doomedNext
  BY DEF CancelCommand, AtCommand, sweepVars
<1> QED
  BY <1>1, CancelActor

LEMMA DoomStep ==
  ASSUME AInv, NEW id \in Ids, Doom(id) PROVE AInv'
<1>1. /\ Ready /\ phase \in {"stall", "gone"} /\ phase' = phase /\ sweep' = sweep
      /\ doomed' \subseteq doomed /\ doomedNext' \subseteq doomedNext
  BY DEF Doom, Ready
<1>2. CASE CancelInActor(id)
  BY <1>1, <1>2, CancelActor
<1>3. CASE UNCHANGED <<vars, tableVars, executor, durableVars, stopping>>
  <2>1. /\ phase # "audit" /\ phase' \in Phases \ {"audit"} /\ phase' \notin {"close", "halt"}
        /\ sweep' \in BOOLEAN /\ doomed' \subseteq Ids /\ doomedNext' \subseteq Ids
        /\ stopping' \in BOOLEAN
    BY <1>1, <1>3 DEF AInv, ActorTypeOK, Phases
  <2> QED
    BY <1>1, <1>3, <2>1, PhaseStep
<1> QED
  BY <1>2, <1>3 DEF Doom

-----------------------------------------------------------------------------
\* The other commands.

\* A call that admits, finishes and launches nothing new.
LEMMA CallStep ==
  ASSUME AInv, Ready, IInv', ActorTypeOK', Phased', Downhill, NoSuccess,
         phase # "audit", phase' # "audit", leases' \subseteq leases,
         UNCHANGED <<started, call, work, lapsed>>,
         UNCHANGED <<requests, setup_kinds, cancellations, executor, audit, recorded>>
  PROVE  AInv'
<1>1. Tasks' /\ Reports' /\ Trails' /\ Records'
  BY KeepTasks, KeepReports, KeepTrails, KeepRecords
<1>2. Requested'
  <2>1. \A id \in Ids : ~Unaudited(id)
    BY DEF Unaudited
  <2> QED
    BY <2>1, KeepRequested
<1>3. Submitting' /\ Lapsing'
  BY KeepSubmitting, KeepLapsing DEF Downhill
<1> QED
  BY <1>1, <1>2, <1>3 DEF AInv

\* Stop cancels a launched job.
LEMMA StopCancelStep ==
  ASSUME AInv, NEW id \in Ids, StopCancel(id) PROVE AInv'
<1>1. /\ Ready /\ phase = "halt" /\ phase' = phase /\ doomed' = doomed \ {id}
      /\ sweep' = sweep /\ doomedNext' = doomedNext /\ cancelled' = cancelled \cup {id}
      /\ requests' = requests /\ setup_kinds' = setup_kinds /\ cancellations' = cancellations
      /\ executor' = executor /\ audit' = audit /\ recorded' = recorded /\ stopping' = stopping
  BY DEF StopCancel, Ready, durableVars
<1>2. /\ IInv' /\ Downhill /\ NoSuccess /\ leases' \subseteq leases /\ started' = started
      /\ call' = call /\ work' = work /\ lapsed' = lapsed /\ closing' = closing
      /\ closing => lane' = "none"
  <2>1. CASE Cancel(id)
    <3>1. leases' \subseteq leases
      BY <2>1 DEF Cancel, Finish, leaseVars
    <3> QED
      BY <2>1, <3>1, CancelMove, CancelStep DEF AInv
  <2>2. CASE UNCHANGED vars
    BY <2>2, StillVars, QuietSteps DEF AInv, Phased
  <2> QED
    BY <2>1, <2>2 DEF StopCancel
<1>3. ActorTypeOK'
  BY <1>1 DEF AInv, ActorTypeOK
<1>4. Phased'
  BY <1>1, <1>2 DEF AInv, Phased
<1> QED
  BY <1>1, <1>2, <1>3, <1>4, CallStep

\* clients_gone chooses the jobs to cancel and forgets the owners of the orphans.
LEMMA ClientsGoneStep ==
  ASSUME AInv, ClientsGone PROVE AInv'
<1>1. /\ Ready /\ phase = "stall" /\ phase' = "gone" /\ sweep' = sweep
      /\ requests' = requests /\ setup_kinds' = setup_kinds /\ cancellations' = cancellations
      /\ cancelled' = cancelled
      /\ executor' = executor /\ audit' = audit /\ recorded' = recorded /\ stopping' = stopping
  BY DEF ClientsGone, Ready, tableVars, durableVars
<1>2. PICK dead \in SUBSET gone : Orphaned(dead) \/ UNCHANGED vars
  BY DEF ClientsGone
<1>3. /\ IInv' /\ next' = next /\ state' = state /\ spec' = spec /\ leases' = leases
      /\ started' = started /\ call' = call /\ work' = work /\ lapsed' = lapsed
      /\ closing' = closing /\ lane' = lane
  <2>1. IInv'
    BY <1>2, QuietSteps DEF AInv
  <2> QED
    BY <1>2, <2>1, StillVars DEF Orphaned, pumpVars
<1>4. Downhill /\ NoSuccess
  BY <1>3, StillMove
<1>5. doomed' \subseteq Ids /\ doomedNext' \subseteq Ids
  <2>1. doomed' \subseteq Ids
    BY DEF ClientsGone, OrphanedJobs
  <2>2. doomedNext' \subseteq leases /\ leases \subseteq Ids
    BY DEF ClientsGone, ExpiredLeases, AInv, IInv, TypeOK
  <2> QED
    BY <2>1, <2>2
<1>6. ActorTypeOK'
  BY <1>1, <1>5 DEF AInv, ActorTypeOK, Phases
<1>7. Phased'
  BY <1>1, <1>3 DEF AInv, Phased
<1> QED
  BY <1>1, <1>3, <1>4, <1>6, <1>7, CallStep

\* A poll renews the lease of a job.
LEMMA PollStep ==
  ASSUME AInv, NEW id \in Ids, PollCommand(id) PROVE AInv'
<1>0. Touch(id) /\ AtCommand
  BY DEF PollCommand
<1>1. /\ Ready /\ Touch(id) /\ phase = "command" /\ phase' = "launch"
      /\ sweep' = sweep /\ doomed' = doomed /\ doomedNext' = doomedNext
      /\ requests' = requests /\ setup_kinds' = setup_kinds /\ cancellations' = cancellations
      /\ cancelled' = cancelled
      /\ executor' = executor /\ audit' = audit /\ recorded' = recorded /\ stopping' = stopping
  BY <1>0 DEF PollCommand, AtCommand, Ready, sweepVars, tableVars, durableVars
<1>2. /\ next' = next /\ state' = state /\ spec' = spec /\ leases' = leases
      /\ started' = started /\ call' = call /\ work' = work /\ lapsed' = lapsed
      /\ closing' = closing
      /\ closing => lane' = "none"
  BY <1>1, ReadyActor DEF Touch, StartPump, pumpVars
<1>3. IInv' /\ Downhill /\ NoSuccess
  BY <1>1, <1>2, TouchStep, StillMove DEF AInv
<1>4. ActorTypeOK'
  BY <1>1 DEF AInv, ActorTypeOK, Phases
<1>5. Phased'
  BY <1>1, <1>2 DEF AInv, Phased
<1> QED
  BY <1>1, <1>2, <1>3, <1>4, <1>5, CallStep

\* Stop closes admission.
LEMMA StopCommandStep ==
  ASSUME AInv, StopCommand PROVE AInv'
<1>1. /\ Ready /\ Close /\ phase = "command" /\ phase' = "close"
      /\ sweep' = sweep /\ doomed' = doomed /\ doomedNext' = doomedNext
      /\ requests' = requests /\ setup_kinds' = setup_kinds /\ cancellations' = cancellations
      /\ cancelled' = cancelled
      /\ executor' = executor /\ audit' = audit /\ recorded' = recorded /\ stopping' = stopping
  BY DEF StopCommand, AtCommand, Close, sweepVars, tableVars, durableVars
<1>2. /\ next' = next /\ state' = state /\ spec' = spec /\ leases' = leases
      /\ started' = started /\ call' = call /\ work' = work /\ lapsed' = lapsed
      /\ closing' = TRUE /\ lane' = lane
  BY <1>1 DEF Close, leaseVars, pumpVars
<1>3. IInv' /\ Downhill /\ NoSuccess
  BY <1>1, <1>2, QuietSteps, StillMove DEF AInv
<1>4. ActorTypeOK'
  BY <1>1 DEF AInv, ActorTypeOK, Phases
<1>5. Phased'
  BY <1>1, <1>2, ReadyActor DEF Phased
<1> QED
  BY <1>1, <1>2, <1>3, <1>4, <1>5, CallStep

\* A submission joins a job, or begins: its request is kept for the job to come.
LEMMA SubmitCommandStep ==
  ASSUME AInv, NEW w \in Workspaces, NEW s \in Stacks, NEW d \in Digests, NEW leased \in BOOLEAN,
         NEW owner \in Clients \cup {NoClient}, SubmitCommand(w, s, d, leased, owner)
  PROVE  AInv'
<1>1. /\ phase = "command" /\ sweep' = sweep /\ doomed' = doomed /\ doomedNext' = doomedNext
      /\ setup_kinds' = setup_kinds /\ cancellations' = cancellations /\ cancelled' = cancelled
      /\ executor' = executor /\ audit' = audit /\ recorded' = recorded /\ stopping' = stopping
  BY DEF SubmitCommand, AtCommand, sweepVars, durableVars
<1>2. CASE SubmitJoin(w, s, d, owner) /\ phase' = "launch" /\ requests' = requests
  <2>1. /\ Ready /\ next' = next /\ state' = state /\ spec' = spec /\ leases' = leases
        /\ started' = started /\ call' = call /\ work' = work /\ lapsed' = lapsed
        /\ closing' = closing /\ lane' = lane
    BY <1>2 DEF SubmitJoin, pumpVars
  <2>2. IInv' /\ Downhill /\ NoSuccess
    BY <1>2, <2>1, SubmitJoinStep, StillMove DEF AInv
  <2>3. ActorTypeOK'
    BY <1>1, <1>2 DEF AInv, ActorTypeOK, Phases
  <2>4. Phased'
    BY <1>1, <1>2, <2>1 DEF AInv, Phased
  <2> QED
    BY <1>1, <1>2, <2>1, <2>2, <2>3, <2>4, CallStep
<1>3. CASE /\ SubmitNew(w, s, d, leased, owner)
           /\ phase' = IF s \in AuditedStacks THEN "audit" ELSE "launch"
           /\ requests' = IF s \in GenericStacks \cup AuditedStacks THEN requests
                          ELSE requests \cup {next}
  <2>1. /\ Ready /\ ~closing /\ next <= MaxJobs
        /\ call' = [stage |-> "place", workspace |-> w, stack |-> s, digest |-> d,
                    active |-> active[<<w, s>>], leased |-> leased, owner |-> owner]
    BY <1>3 DEF SubmitNew
  <2>2. call'.stage = "place" /\ call'.stack = s /\ call' # NoCall
    BY <2>1 DEF NoCall
  <2>3. /\ Downhill /\ NoSuccess /\ leases' \subseteq leases /\ started' = started
        /\ work' = work /\ lapsed' = lapsed /\ closing' = closing /\ next' = next
    <3>1. CASE UNCHANGED <<next, state, spec, slotVars, keyVars, queue, served, finished,
                           started, leaseVars, closing, pumpVars, gone, panicked>>
      <4>1. /\ next' = next /\ state' = state /\ spec' = spec /\ leases' = leases
            /\ started' = started /\ work' = work /\ lapsed' = lapsed /\ closing' = closing
        BY <3>1 DEF leaseVars, pumpVars
      <4> QED
        BY <4>1, StillMove
    <3>2. ASSUME pending[<<w, s>>] # NoId, Finish(pending[<<w, s>>], "Superseded"), UNCHANGED work
          PROVE  /\ Downhill /\ NoSuccess /\ leases' \subseteq leases /\ started' = started
                 /\ work' = work /\ lapsed' = lapsed /\ closing' = closing /\ next' = next
      <4>1. <<w, s>> \in Keys /\ IInv
        BY DEF Keys, AInv
      <4>2. PICK id \in Ids : id = pending[<<w, s>>]
        BY <3>2, <4>1 DEF IInv, TypeOK
      <4>3. Unfinished(id)
        BY <3>2, <4>1, <4>2 DEF IInv, Keyed, Unfinished
      <4>4. "Superseded" \in Terminal
        BY DEF Terminal
      <4> QED
        BY <3>2, <4>1, <4>2, <4>3, <4>4, FinishMove DEF Downhill
    <3> QED
      BY <1>3, <3>1, <3>2 DEF SubmitNew
  <2>4. IInv'
    BY <1>3, SubmitNewStep DEF AInv
  <2>5. Tasks' /\ Reports' /\ Records'
    BY <1>1, <2>3, KeepTasks, KeepReports, KeepRecords
  <2>6. next \in Ids /\ state[next] = "Absent" /\ state'[next] = "Absent"
    <3>1. next \in 1..(MaxJobs + 1) /\ MaxJobs \in Nat /\ Known
      BY JobsAssumption DEF AInv, IInv, TypeOK
    <3>2. next \in Ids
      BY <2>1, <3>1 DEF Ids
    <3> QED
      BY <2>3, <3>1, <3>2 DEF Known, Downhill
  <2>7. call.stage = "none" /\ \A j \in requests : j < next
    <3>1. call.stage = "none"
      BY <2>1, ReadyActor
    <3> QED
      BY <3>1 DEF AInv, Requested
  <2>8. requests \subseteq requests' /\ requests' \subseteq requests \cup {next}
    BY <1>3
  <2>9. ActorTypeOK'
    BY <1>1, <1>3, <2>6, <2>8 DEF AInv, ActorTypeOK, Phases
  <2>10. /\ \A j \in Ids : state'[j] = "Queued" => state[j] = "Queued"
         /\ \A j \in Ids : Holding(j)' => Holding(j)
         /\ \A j \in Ids : Unfinished(j)' => Unfinished(j) /\ j # next
         /\ \A j \in Ids : state'[j] # "Absent" => state[j] # "Absent" /\ spec'[j] = spec[j]
    BY <2>3, <2>6 DEF Downhill, Holding, Unfinished
  <2>11. Requested'
    <3>1. Requested /\ Handed' = Handed /\ \A j \in Ids : ~Unaudited(j)
      BY <1>1, <2>3 DEF AInv, Handed, Unaudited
    <3>2. \A j \in requests' : j < next' \/ (call'.stage = "place" /\ j = next')
      BY <2>2, <2>3, <2>7, <2>8
    <3>3. ASSUME NEW j \in Ids, state'[j] = "Queued", Stack(j)' \notin GenericStacks
          PROVE  j \in requests'
      <4>1. state[j] = "Queued" /\ Stack(j) \notin GenericStacks
        BY <2>10, <3>3 DEF Stack
      <4> QED
        BY <2>8, <3>1, <4>1 DEF Requested
    <3>4. ASSUME NEW j \in Ids, Holding(j)', Stack(j)' \notin GenericStacks
          PROVE  j \in cancellations' \/ (j \in Handed' /\ j \in requests')
      <4>1. Holding(j) /\ Stack(j) \notin GenericStacks
        BY <2>10, <3>4 DEF Stack, Holding
      <4>2. j \in cancellations \/ (j \in Handed /\ j \in requests)
        BY <3>1, <4>1 DEF Requested
      <4> QED
        BY <1>1, <2>8, <3>1, <4>2
    <3> QED
      BY <3>2, <3>3, <3>4 DEF Requested
  <2>12. Submitting'
    <3>1. s \in AuditedStacks => next \notin requests'
      <4>1. next \in Nat
        BY JobsAssumption DEF AInv, IInv, TypeOK
      <4>2. next \notin requests
        BY <2>7, <4>1
      <4> QED
        BY <1>3, <4>2
    <3>2. s \notin GenericStacks \cup AuditedStacks => next \in requests'
      BY <1>3
    <3>3. phase' \in {"audit", "launch"} /\ (phase' = "audit" <=> s \in AuditedStacks)
      BY <1>3
    <3> QED
      BY <2>1, <2>2, <2>3, <3>1, <3>2, <3>3 DEF Submitting
  <2>13. Lapsing'
    BY <2>1, <2>3, KeepLapsing
  <2>14. Phased'
    BY <1>3, <2>1, <2>2, <2>3 DEF Phased
  <2>15. Trails'
    <3>1. Trails /\ setup_kinds \subseteq Ids
      BY DEF AInv, ActorTypeOK
    <3>2. \A j \in setup_kinds' :
            /\ j < next' /\ audit'[j] # <<>>
            /\ Len(audit'[j]) = 1 \/ (state'[j] = "Absent" /\ executor'[j] = "ended")
      BY <1>1, <2>3, <2>10, <3>1 DEF Trails
    <3>3. ASSUME NEW j \in Ids, Unfinished(j)', Stack(j)' \in AuditedStacks,
                 j \in requests' \cup cancellations'
          PROVE  j \in setup_kinds'
      <4>1. /\ Unfinished(j) /\ Stack(j) \in AuditedStacks /\ j \in requests \cup cancellations
        BY <1>1, <2>8, <2>10, <3>3 DEF Stack, Unfinished
      <4> QED
        BY <1>1, <3>1, <4>1 DEF Trails
    <3> QED
      BY <1>1, <2>3, <3>1, <3>2, <3>3 DEF Trails, AuditWellFormed
  <2> QED
    BY <2>4, <2>5, <2>9, <2>11, <2>12, <2>13, <2>14, <2>15 DEF AInv
<1> QED
  BY <1>2, <1>3 DEF SubmitCommand

-----------------------------------------------------------------------------
\* The audit of a submission, the launch and the results.

\* Settling ends a job; nothing else succeeds.
LEMMA SettleActor ==
  ASSUME AInv, NEW id \in Ids, NEW ok \in BOOLEAN, Settle(id, ok)
  PROVE  /\ IInv' /\ Ready /\ Unfinished(id) /\ Downhill
         /\ ~Unfinished(id)' /\ state'[id] = SettledState(id, ok)
         /\ \A j \in Ids : j # id => state'[j] \in {state[j], "Absent"}
         /\ leases' \subseteq leases /\ next' = next /\ started' = started
         /\ call' = call /\ work' = work /\ lapsed' = lapsed /\ closing' = closing
         /\ closing => lane' = "none"
<1>1. IInv' /\ IInv
  BY SettleStep DEF AInv
<1>2. leases' \subseteq leases
  BY DEF Settle, Finish
<1>3. /\ Ready /\ Unfinished(id) /\ Downhill
      /\ state'[id] \in Terminal /\ state'[id] = SettledState(id, ok)
      /\ \A j \in Ids : j # id => state'[j] \in {state[j], "Absent"}
      /\ started' = started /\ closing' = closing
      /\ call' = call /\ work' = work /\ lapsed' = lapsed
      /\ closing => lane' = "none"
  BY <1>1, SettleMove
<1>4. ~Unfinished(id)' /\ next' = next
  BY <1>3 DEF Unfinished, Terminal, Downhill
<1> QED
  BY <1>1, <1>2, <1>3, <1>4

\* The submission event is written and the job may be launched, or the job fails.
LEMMA AuditSubmissionStep ==
  ASSUME AInv, AuditSubmission PROVE AInv'
<1>1. /\ Ready /\ phase = "audit" /\ phase' = "launch"
      /\ sweep' = sweep /\ doomed' = doomed /\ doomedNext' = doomedNext
      /\ cancellations' = cancellations /\ cancelled' = cancelled
      /\ executor' = executor /\ recorded' = recorded /\ stopping' = stopping
  BY DEF AuditSubmission, Ready, sweepVars
<1>2. call.stage = "none" /\ call.stage # "place"
  BY <1>1, ReadyActor
<1>3. PICK id \in Ids : id = next - 1
  <2>1. next \in 1..(MaxJobs + 1) /\ MaxJobs \in Nat /\ next >= 2
    BY <1>1, <1>2, JobsAssumption DEF AInv, IInv, TypeOK, Submitting
  <2> QED
    BY <2>1 DEF Ids
<1>4. /\ state[id] \in {"Queued", "Running"} /\ id \notin requests \cup setup_kinds
      /\ audit[id] = <<>> /\ ~closing
  BY <1>1, <1>2, <1>3 DEF AInv, Submitting
<1>5. id < next /\ next \in Nat
  <2>1. next \in Nat
    BY JobsAssumption DEF AInv, IInv, TypeOK
  <2> QED
    BY <1>3, <2>1
<1>6. \A j \in Ids : (Unaudited(j) => j = id) /\ ~Unaudited(j)'
  BY <1>1, <1>3 DEF Unaudited
<1>7. CASE /\ audit' = [audit EXCEPT ![id] = Append(@, "submitted")]
           /\ setup_kinds' = setup_kinds \cup {id} /\ requests' = requests \cup {id}
           /\ UNCHANGED vars
  <2>1. /\ next' = next /\ state' = state /\ spec' = spec /\ started' = started
        /\ leases' = leases /\ closing' = closing /\ lane' = lane /\ lapsed' = lapsed
        /\ work' = work /\ call' = call /\ Downhill /\ NoSuccess
    BY <1>7, StillVars
  <2>2. /\ audit' \in [Ids -> Seq(Events)] /\ audit'[id] = <<"submitted">>
        /\ \A j \in Ids : j # id => audit'[j] = audit[j]
    <3>1. audit \in [Ids -> Seq(Events)] /\ "submitted" \in Events
      BY DEF AInv, ActorTypeOK, Events
    <3>2. <<"submitted">> \in Seq(Events)
      BY <3>1
    <3> QED
      BY <1>4, <1>7, <3>1, <3>2
  <2>3. audit'[id] # <<>> /\ Len(audit'[id]) = 1 /\ audit'[id][1] = "submitted"
    BY <2>2
  <2>4. IInv'
    BY <1>7, QuietSteps DEF AInv
  <2>5. Tasks' /\ Reports' /\ Records'
    BY <1>1, <2>1, KeepTasks, KeepReports, KeepRecords
  <2>6. ActorTypeOK'
    BY <1>1, <1>7, <2>2 DEF AInv, ActorTypeOK, Phases
  <2>7. Requested'
    <3>1. Requested /\ Handed' = Handed /\ \A j \in Ids : Stack(j)' = Stack(j)
      BY <2>1 DEF AInv, Handed, Stack
    <3>2. \A j \in requests' : j < next'
      BY <1>2, <1>5, <1>7, <2>1, <3>1 DEF Requested
    <3>3. \A j \in Ids : state'[j] = "Queued" /\ Stack(j)' \notin GenericStacks => j \in requests'
      BY <1>6, <1>7, <2>1, <3>1 DEF Requested
    <3>4. \A j \in Ids : Holding(j)' /\ Stack(j)' \notin GenericStacks =>
             j \in cancellations' \/ (j \in Handed' /\ j \in requests')
      BY <1>1, <1>6, <1>7, <2>1, <3>1 DEF Requested, Holding
    <3> QED
      BY <3>2, <3>3, <3>4 DEF Requested
  <2>8. Trails'
    <3>1. Trails /\ setup_kinds \subseteq Ids
      BY DEF AInv, ActorTypeOK
    <3>2. \A j \in setup_kinds' :
            /\ j < next' /\ audit'[j] # <<>>
            /\ Len(audit'[j]) = 1 \/ (state'[j] = "Absent" /\ executor'[j] = "ended")
      BY <1>1, <1>5, <1>7, <2>1, <2>2, <2>3, <3>1 DEF Trails
    <3>3. \A j \in Ids : Unfinished(j)' /\ Stack(j)' \in AuditedStacks
                         /\ j \in requests' \cup cancellations' => j \in setup_kinds'
      BY <1>1, <1>7, <2>1, <3>1 DEF Trails, Unfinished, Stack
    <3>4. \A j \in Ids : j >= next' => audit'[j] = <<>>
      BY <1>5, <2>1, <2>2, <3>1, Constants DEF Trails
    <3>5. AuditWellFormed'
      <4>1. Len(audit'[id]) <= 2 /\ Len(audit'[id]) # 2
        BY <2>3
      <4>2. \A j \in Ids : j # id /\ audit'[j] # <<>> =>
               /\ audit'[j][1] = "submitted" /\ Len(audit'[j]) <= 2
               /\ Len(audit'[j]) = 2 => audit'[j][2] # "submitted"
        BY <2>2, <3>1 DEF Trails, AuditWellFormed
      <4> QED
        BY <2>3, <4>1, <4>2 DEF AuditWellFormed
    <3> QED
      BY <3>2, <3>3, <3>4, <3>5 DEF Trails
  <2>9. Submitting' /\ Lapsing'
    BY <1>1, <2>1, KeepSubmitting, KeepLapsing
  <2>10. Phased'
    BY <1>1, <1>4, <2>1 DEF Phased
  <2> QED
    BY <2>4, <2>5, <2>6, <2>7, <2>8, <2>9, <2>10 DEF AInv
<1>8. CASE audit' = audit /\ Settle(id, FALSE) /\ UNCHANGED <<setup_kinds, requests>>
  <2>1. /\ IInv' /\ Downhill /\ ~Unfinished(id)' /\ state'[id] = SettledState(id, FALSE)
        /\ \A j \in Ids : j # id => state'[j] \in {state[j], "Absent"}
        /\ leases' \subseteq leases /\ next' = next /\ started' = started
        /\ call' = call /\ work' = work /\ lapsed' = lapsed /\ closing' = closing
    BY <1>8, SettleActor
  <2>2. NoSuccess
    BY <1>4, <2>1 DEF NoSuccess, SettledState
  <2>3. Tasks' /\ Reports' /\ Records' /\ Trails'
    BY <1>1, <1>8, <2>1, <2>2, KeepTasks, KeepReports, KeepRecords, KeepTrails
  <2>4. Requested'
    <3>1. /\ Requested /\ Handed' = Handed
          /\ \A j \in Ids : state'[j] = "Queued" => state[j] = "Queued" /\ j # id
          /\ \A j \in Ids : Holding(j)' => Holding(j) /\ j # id
          /\ \A j \in Ids : state'[j] # "Absent" => spec'[j] = spec[j]
      BY <2>1 DEF AInv, Handed, Downhill, Unfinished, Holding
    <3>2. \A j \in requests' : j < next'
      BY <1>2, <1>8, <2>1, <3>1 DEF Requested
    <3>3. ASSUME NEW j \in Ids, state'[j] = "Queued", Stack(j)' \notin GenericStacks
          PROVE  j \in requests'
      <4>1. state[j] = "Queued" /\ j # id /\ Stack(j) \notin GenericStacks
        BY <3>1, <3>3 DEF Stack
      <4> QED
        BY <1>6, <1>8, <3>1, <4>1 DEF Requested
    <3>4. ASSUME NEW j \in Ids, Holding(j)', Stack(j)' \notin GenericStacks
          PROVE  j \in cancellations' \/ (j \in Handed' /\ j \in requests')
      <4>1. Holding(j) /\ j # id /\ Stack(j) \notin GenericStacks
        BY <3>1, <3>4 DEF Stack, Holding
      <4> QED
        BY <1>1, <1>6, <1>8, <3>1, <4>1 DEF Requested
    <3> QED
      BY <3>2, <3>3, <3>4 DEF Requested
  <2>5. Submitting' /\ Lapsing'
    BY <1>1, <2>1, KeepSubmitting, KeepLapsing
  <2>6. Phased'
    BY <1>1, <1>4, <2>1 DEF Phased
  <2>7. ActorTypeOK'
    BY <1>1, <1>8 DEF AInv, ActorTypeOK, Phases
  <2> QED
    BY <2>1, <2>3, <2>4, <2>5, <2>6, <2>7 DEF AInv
<1> QED
  BY <1>3, <1>7, <1>8 DEF AuditSubmission, AppendEvent

\* launch_started_setup_jobs: the admitted jobs with a request get their executors.
LEMMA LaunchStartedStep ==
  ASSUME AInv, LaunchStarted, Ready, phase \in {"launch", "command"}, phase' \in {"wait", "launch"}
  PROVE  AInv'
<1> DEFINE launched == requests \cap Handed
<1>1. /\ requests' = requests \ launched /\ cancellations' = cancellations \cup launched
      /\ executor' = [id \in Ids |-> IF id \in launched THEN "working" ELSE executor[id]]
      /\ sweep' = sweep /\ doomed' = doomed /\ doomedNext' = doomedNext
      /\ setup_kinds' = setup_kinds /\ cancelled' = cancelled
      /\ audit' = audit /\ recorded' = recorded /\ stopping' = stopping
  <2>1. {id \in requests : \E i \in DOMAIN started : started[i] = id} = launched
    BY DEF Handed, Elems
  <2> HIDE DEF launched
  <2> QED
    BY <2>1 DEF LaunchStarted, sweepVars, durableVars
<1>2. /\ next' = next /\ state' = state /\ spec' = spec /\ leases' = leases
      /\ call' = call /\ work' = work /\ lapsed' = lapsed
      /\ closing' = closing /\ lane' = lane /\ started' = <<>>
  BY StillVars DEF LaunchStarted, TakeStarted, leaseVars, pumpVars
<1>3. IInv' /\ Downhill /\ NoSuccess
  BY <1>2, QuietSteps, StillMove DEF LaunchStarted, AInv
<1>4. Handed' = {} /\ Handed \subseteq Ids /\ requests \subseteq Ids
  BY <1>2, EmptyList, ListType DEF Handed, AInv, IInv, TypeOK, ActorTypeOK
<1>5. Tasks /\ Requested
  BY DEF AInv
<1>6. \A id \in Ids : id \in launched =>
          state[id] # "Queued" /\ executor[id] = "none" /\ id < next /\ executor'[id] = "working"
  BY <1>1, <1>5 DEF Tasks
<1>7. \A id \in Ids : id \notin launched => executor'[id] = executor[id]
  BY <1>1
<1>8. launched \subseteq requests /\ launched \subseteq Handed /\ requests \cap Handed \subseteq launched
  OBVIOUS
<1> HIDE DEF Handed, launched
<1>9. Tasks'
  <2>1. \A id \in Ids : id \in cancellations' <=> executor'[id] \notin {"none", "ended"}
    BY <1>1, <1>4, <1>5, <1>6, <1>7 DEF Tasks
  <2>2. /\ \A id \in Ids : executor'[id] # "none" => id < next'
        /\ \A id \in Ids : state'[id] = "Queued" => executor'[id] = "none"
    BY <1>2, <1>5, <1>6, <1>7 DEF Tasks
  <2> QED
    BY <1>4, <2>1, <2>2 DEF Tasks
<1>10. Reports'
  BY <1>2, <1>6, <1>7 DEF AInv, Reports, Stack
<1>11. Requested'
  <2>1. \A j \in Ids : ~Unaudited(j) /\ Stack(j)' = Stack(j)
    BY <1>2 DEF Unaudited, Stack
  <2>2. \A j \in requests' : j < next' \/ (call'.stage = "place" /\ j = next')
    BY <1>1, <1>2, <1>5 DEF Requested
  <2>3. \A j \in Ids : state'[j] = "Queued" /\ Stack(j)' \notin GenericStacks => j \in requests'
    BY <1>1, <1>2, <1>5, <1>6, <2>1 DEF Requested
  <2>4. \A j \in Ids : Holding(j)' /\ Stack(j)' \notin GenericStacks => j \in cancellations'
    BY <1>1, <1>2, <1>5, <1>8, <2>1 DEF Requested, Holding
  <2> QED
    BY <2>2, <2>3, <2>4 DEF Requested
<1>12. Trails'
  <2>1. Trails /\ setup_kinds \subseteq Ids
    BY DEF AInv, ActorTypeOK
  <2>2. \A j \in setup_kinds' :
          /\ j < next' /\ audit'[j] # <<>>
          /\ Len(audit'[j]) = 1 \/ (state'[j] = "Absent" /\ executor'[j] = "ended")
    BY <1>1, <1>2, <1>6, <1>7, <2>1 DEF Trails
  <2>3. requests' \cup cancellations' \subseteq requests \cup cancellations
    BY <1>1, <1>8
  <2>4. \A j \in Ids : Unfinished(j)' /\ Stack(j)' \in AuditedStacks
                       /\ j \in requests' \cup cancellations' => j \in setup_kinds'
    BY <1>1, <1>2, <2>1, <2>3 DEF Trails, Unfinished, Stack
  <2> QED
    BY <1>1, <1>2, <2>1, <2>2, <2>4 DEF Trails, AuditWellFormed
<1>13. Records'
  BY <1>1, <1>3, KeepRecords
<1>14. Submitting' /\ Lapsing'
  BY <1>2, KeepSubmitting, KeepLapsing
<1>15. Phased'
  BY <1>2 DEF AInv, Phased
<1>16. ActorTypeOK'
  <2>1. /\ executor \in [Ids -> ExecutorStates] /\ "working" \in ExecutorStates
        /\ cancellations \subseteq Ids
    BY DEF AInv, ActorTypeOK, ExecutorStates
  <2>2. executor' \in [Ids -> ExecutorStates]
    BY <1>1, <2>1
  <2>3. requests' \subseteq Ids /\ cancellations' \subseteq Ids
    BY <1>1, <1>4, <1>8, <2>1
  <2> QED
    BY <1>1, <2>2, <2>3 DEF AInv, ActorTypeOK, Phases
<1> QED
  BY <1>3, <1>9, <1>10, <1>11, <1>12, <1>13, <1>14, <1>15, <1>16 DEF AInv

\* The end of an executor: it leaves the cancellation table, its job is settled or had
\* already ended, and the audit trail is closed.
LEMMA EndedStep ==
  ASSUME AInv, Ready, NEW id \in Ids, IInv', Downhill, ~Unfinished(id)',
         executor[id] \notin {"none", "ended"}, executor' = [executor EXCEPT ![id] = "ended"],
         cancellations' = cancellations \ {id}, requests' = requests, cancelled' = cancelled,
         leases' \subseteq leases,
         UNCHANGED <<started, call, work, lapsed, closing>>, closing => lane' = "none",
         Records', recorded' \subseteq Ids, Trails', audit' \in [Ids -> Seq(Events)],
         setup_kinds' \subseteq setup_kinds,
         phase = "command", phase' = "launch", UNCHANGED <<sweepVars, stopping>>
  PROVE  AInv'
<1>1. /\ sweep' = sweep /\ doomed' = doomed /\ doomedNext' = doomedNext /\ stopping' = stopping
      /\ next' = next
      /\ \A j \in Ids : state'[j] = "Queued" => state[j] = "Queued" /\ j # id
      /\ \A j \in Ids : Holding(j)' => Holding(j) /\ j # id
      /\ \A j \in Ids : state'[j] # "Absent" => state[j] # "Absent" /\ spec'[j] = spec[j]
  BY DEF sweepVars, Downhill, Unfinished, Holding
<1>2. /\ executor \in [Ids -> ExecutorStates] /\ executor'[id] = "ended"
      /\ \A j \in Ids : j # id => executor'[j] = executor[j]
      /\ executor' \in [Ids -> ExecutorStates]
  BY DEF AInv, ActorTypeOK, ExecutorStates
<1>3. Handed' = Handed /\ Handed \subseteq Ids /\ Tasks /\ Requested
  BY ListType DEF Handed, AInv, IInv, TypeOK
<1>4. id < next /\ id \notin Handed
  BY <1>3 DEF Tasks
<1> HIDE DEF Handed
<1>5. Tasks'
  BY <1>1, <1>2, <1>3, <1>4 DEF Tasks
<1>6. Reports'
  BY <1>1, <1>2 DEF AInv, Reports, Stack
<1>7. Requested'
  <2>1. \A j \in Ids : ~Unaudited(j)
    BY DEF Unaudited
  <2>2. \A j \in requests' : j < next' \/ (call'.stage = "place" /\ j = next')
    BY <1>1, <1>3 DEF Requested
  <2>3. ASSUME NEW j \in Ids, state'[j] = "Queued", Stack(j)' \notin GenericStacks
        PROVE  j \in requests'
    <3>1. state[j] = "Queued" /\ Stack(j) \notin GenericStacks
      BY <1>1, <2>3 DEF Stack
    <3> QED
      BY <1>3, <2>1, <3>1 DEF Requested
  <2>4. ASSUME NEW j \in Ids, Holding(j)', Stack(j)' \notin GenericStacks
        PROVE  j \in cancellations' \/ (j \in Handed' /\ j \in requests')
    <3>1. Holding(j) /\ j # id /\ Stack(j) \notin GenericStacks
      BY <1>1, <2>4 DEF Stack, Holding
    <3> QED
      BY <1>3, <2>1, <3>1 DEF Requested
  <2> QED
    BY <2>2, <2>3, <2>4 DEF Requested
<1>8. Submitting' /\ Lapsing'
  BY <1>1, KeepSubmitting, KeepLapsing
<1>9. Phased'
  BY DEF AInv, Phased
<1>10. ActorTypeOK'
  <2>1. cancellations' \subseteq Ids /\ setup_kinds' \subseteq Ids
    BY DEF AInv, ActorTypeOK
  <2> QED
    BY <1>1, <1>2, <2>1 DEF AInv, ActorTypeOK, Phases
<1> QED
  BY <1>5, <1>6, <1>7, <1>8, <1>9, <1>10 DEF AInv

\* PersistSetupEnsure and PersistManifestEnsure.
LEMMA PersistStep ==
  ASSUME AInv, NEW id \in Ids, PersistCommand(id) PROVE AInv'
<1>1. /\ executor[id] = "persist" /\ phase = "command" /\ phase' = "launch"
      /\ requests' = requests /\ cancelled' = cancelled /\ UNCHANGED <<sweepVars, stopping>>
  BY DEF PersistCommand, AtCommand
<1>2. CASE /\ executor' = [executor EXCEPT ![id] = "err"]
           /\ UNCHANGED <<vars, setup_kinds, cancellations, durableVars>>
  <2>1. "err" \in ExecutorStates \ {"none", "ended"}
    BY DEF ExecutorStates
  <2>2. UNCHANGED vars /\ UNCHANGED <<sweepVars, tableVars, audit, stopping>> /\ recorded' = recorded
    BY <1>1, <1>2 DEF tableVars, durableVars
  <2> QED
    BY <1>1, <1>2, <2>1, <2>2, ReportStep
<1>3. CASE /\ state[id] = "Running" /\ Settle(id, TRUE)
           /\ recorded' = recorded \cup {id} /\ cancellations' = cancellations \ {id}
           /\ setup_kinds' = setup_kinds \ {id}
           /\ audit' = IF spec[id].stack \in AuditedStacks
                       THEN [audit EXCEPT ![id] = Append(@, "Succeeded")] ELSE audit
           /\ executor' = [executor EXCEPT ![id] = "ended"]
  <2>1. /\ IInv' /\ Ready /\ Unfinished(id) /\ Downhill
        /\ ~Unfinished(id)' /\ state'[id] = "Succeeded"
        /\ \A j \in Ids : j # id => state'[j] \in {state[j], "Absent"}
        /\ leases' \subseteq leases /\ next' = next /\ UNCHANGED <<started, call, work, lapsed, closing>>
        /\ closing => lane' = "none"
    BY <1>3, SettleActor DEF SettledState
  <2>2. id < next /\ id \in cancellations
    BY <1>1 DEF AInv, Tasks
  <2>3. Records' /\ recorded' \subseteq Ids
    <3>1. Records /\ recorded \subseteq Ids
      BY DEF AInv, ActorTypeOK
    <3>2. \A j \in Ids : state'[j] # "Absent" => spec'[j] = spec[j] /\ state[j] # "Absent"
      BY <2>1 DEF Downhill
    <3>3. RecordedIffSucceeded'
      BY <1>3, <2>1, <3>1, <3>2 DEF Records, RecordedIffSucceeded
    <3> QED
      BY <1>3, <2>1, <2>2, <3>1, <3>3 DEF Records
  <2>4. Trails' /\ audit' \in [Ids -> Seq(Events)]
    <3>1. Stack(id) \in AuditedStacks => id \in setup_kinds
      BY <2>1, <2>2 DEF AInv, Trails
    <3>2. "Succeeded" \in Events \ {"submitted"}
      BY DEF Events
    <3>3. \/ audit' = audit
          \/ /\ id \in setup_kinds /\ state[id] # "Absent"
             /\ \E event \in Events \ {"submitted"} :
                   audit' = [audit EXCEPT ![id] = Append(@, event)]
      BY <1>3, <3>1, <3>2 DEF Stack
    <3>4. \A j \in Ids : j # id => executor'[j] = executor[j]
      BY <1>3 DEF AInv, ActorTypeOK
    <3>5. requests' \cup cancellations' \subseteq requests \cup cancellations
      BY <1>1, <1>3
    <3> QED
      BY <1>3, <2>1, <3>3, <3>4, <3>5, CloseTrail
  <2>5. setup_kinds' \subseteq setup_kinds
    BY <1>3
  <2> QED
    BY <1>1, <1>3, <2>1, <2>3, <2>4, <2>5, EndedStep
<1> QED
  BY <1>2, <1>3 DEF PersistCommand

\* Completed: the job is settled, unless it already ended or was even retired.
LEMMA CompletedStep ==
  ASSUME AInv, NEW id \in Ids, CompletedCommand(id) PROVE AInv'
<1> DEFINE ok == executor[id] = "ok"
<1>1. /\ Ready /\ executor[id] \in {"ok", "err"} /\ phase = "command" /\ phase' = "launch"
      /\ executor' = [executor EXCEPT ![id] = "ended"] /\ cancellations' = cancellations \ {id}
      /\ requests' = requests /\ cancelled' = cancelled /\ UNCHANGED <<sweepVars, stopping>>
      /\ recorded' = recorded
      /\ setup_kinds' = IF state[id] = "Absent" THEN setup_kinds ELSE setup_kinds \ {id}
  BY DEF CompletedCommand, AtCommand, Ready
<1>2. \/ audit' = audit
      \/ /\ id \in setup_kinds
         /\ \E event \in Events \ {"submitted"} : audit' = [audit EXCEPT ![id] = Append(@, event)]
  BY DEF CompletedCommand, AppendEvent, Events
<1>3. /\ Records /\ Reports /\ recorded \subseteq Ids /\ Trails /\ setup_kinds \subseteq Ids
      /\ audit \in [Ids -> Seq(Events)]
      /\ \A j \in Ids : j # id => executor'[j] = executor[j]
      /\ executor'[id] = "ended"
  BY <1>1 DEF AInv, ActorTypeOK
<1>4. requests' \cup cancellations' \subseteq requests \cup cancellations
  BY <1>1
<1>5. setup_kinds' \subseteq setup_kinds /\ executor[id] \notin {"none", "ended"}
  BY <1>1
<1>6. CASE Settle(id, ok)
  <2>1. ok \in BOOLEAN
    OBVIOUS
  <2>2. /\ IInv' /\ Unfinished(id) /\ Downhill
        /\ ~Unfinished(id)' /\ state'[id] = SettledState(id, ok)
        /\ \A j \in Ids : j # id => state'[j] \in {state[j], "Absent"}
        /\ leases' \subseteq leases /\ next' = next /\ UNCHANGED <<started, call, work, lapsed, closing>>
        /\ closing => lane' = "none"
    BY <1>6, <2>1, SettleActor
  <2>3. state[id] # "Absent" /\ state[id] # "Succeeded"
    BY <2>2 DEF Unfinished
  <2>4. Records'
    <3>1. \A j \in Ids : state'[j] # "Absent" => spec'[j] = spec[j] /\ state[j] # "Absent"
      BY <2>2 DEF Downhill
    <3>2. spec[id].stack \in RecordedStacks => ~ok
      BY <1>3, <2>3 DEF Reports, Stack
    <3>3. spec[id].stack \in RecordedStacks => id \notin recorded /\ state'[id] # "Succeeded"
      BY <1>3, <2>2, <2>3, <3>2 DEF SettledState, Records, RecordedIffSucceeded
    <3>4. RecordedIffSucceeded'
      BY <1>1, <1>3, <2>2, <3>1, <3>3 DEF Records, RecordedIffSucceeded
    <3> QED
      BY <1>1, <1>3, <2>2, <3>4 DEF Records
  <2>5. setup_kinds' = setup_kinds \ {id}
    BY <1>1, <2>3
  <2>6. Trails' /\ audit' \in [Ids -> Seq(Events)]
    BY <1>2, <1>3, <1>4, <2>2, <2>3, <2>5, CloseTrail
  <2> QED
    BY <1>1, <1>3, <1>5, <2>2, <2>4, <2>6, EndedStep
<1>7. CASE ~Unfinished(id) /\ UNCHANGED vars
  <2>1. /\ next' = next /\ state' = state /\ spec' = spec /\ leases' = leases /\ lane' = lane
        /\ UNCHANGED <<started, call, work, lapsed, closing>> /\ Downhill /\ NoSuccess
    BY <1>7, StillVars
  <2>2. IInv' /\ (closing => lane' = "none") /\ ~Unfinished(id)' /\ Records'
    <3>1. IInv' /\ (closing => lane' = "none")
      BY <1>7, <2>1, QuietSteps DEF AInv, Phased
    <3>2. Records'
      BY <1>1, <2>1, KeepRecords
    <3> QED
      BY <1>7, <2>1, <3>1, <3>2 DEF Unfinished
  <2>3. Trails' /\ audit' \in [Ids -> Seq(Events)]
    <3>1. CASE state[id] # "Absent"
      <4>1. setup_kinds' = setup_kinds \ {id}
        BY <1>1, <3>1
      <4> QED
        BY <1>2, <1>3, <1>4, <2>1, <2>2, <3>1, <4>1, CloseTrail
    <3>2. CASE state[id] = "Absent"
      <4>1. setup_kinds' = setup_kinds
        BY <1>1, <3>2
      <4>2. CASE audit' = audit
        <5>1. \A j \in setup_kinds :
                /\ j < next /\ audit[j] # <<>>
                /\ Len(audit[j]) = 1 \/ (state[j] = "Absent" /\ executor'[j] = "ended")
          BY <1>3 DEF Trails
        <5>2. \A j \in Ids : Unfinished(j)' /\ Stack(j)' \in AuditedStacks
                             /\ j \in requests' \cup cancellations' => j \in setup_kinds'
          BY <1>3, <1>4, <2>1, <4>1 DEF Trails, Unfinished, Stack
        <5> QED
          BY <1>3, <2>1, <4>1, <4>2, <5>1, <5>2 DEF Trails, AuditWellFormed
      <4>3. CASE audit' # audit
        <5>1. PICK event \in Events \ {"submitted"} :
                  audit' = [audit EXCEPT ![id] = Append(@, event)]
          BY <1>2, <4>3
        <5>2. id \in setup_kinds /\ id < next /\ audit[id] # <<>> /\ Len(audit[id]) = 1
          BY <1>1, <1>2, <1>3, <4>3 DEF Trails
        <5>3. /\ audit' \in [Ids -> Seq(Events)] /\ audit'[id] # <<>> /\ AuditWellFormed'
              /\ \A j \in Ids : j # id => audit'[j] = audit[j]
          BY <5>1, <5>2, AppendTrail
        <5>4. \A j \in setup_kinds' :
                /\ j < next' /\ audit'[j] # <<>>
                /\ Len(audit'[j]) = 1 \/ (state'[j] = "Absent" /\ executor'[j] = "ended")
          BY <1>3, <2>1, <3>2, <4>1, <5>2, <5>3 DEF Trails
        <5>5. \A j \in Ids : Unfinished(j)' /\ Stack(j)' \in AuditedStacks
                             /\ j \in requests' \cup cancellations' => j \in setup_kinds'
          BY <1>3, <1>4, <2>1, <4>1 DEF Trails, Unfinished, Stack
        <5>6. \A j \in Ids : j >= next' => audit'[j] = <<>>
          <6>1. next \in Nat /\ Ids \subseteq Nat
            BY JobsAssumption, Constants DEF AInv, IInv, TypeOK
          <6>2. \A j \in Ids : j >= next => j # id
            BY <5>2, <6>1
          <6> QED
            BY <1>3, <2>1, <5>3, <6>2 DEF Trails
        <5> QED
          BY <5>3, <5>4, <5>5, <5>6 DEF Trails
      <4> QED
        BY <4>2, <4>3
    <3> QED
      BY <3>1, <3>2
  <2> QED
    BY <1>1, <1>3, <1>5, <2>1, <2>2, <2>3, EndedStep
<1> QED
  BY <1>6, <1>7 DEF CompletedCommand

\* Stop audits the jobs that close cancelled.
LEMMA StopAuditStep ==
  ASSUME AInv, StopAudit PROVE AInv'
<1> DEFINE ended == {id \in setup_kinds : state[id] = "Cancelled"}
<1>1. /\ Ready /\ phase = "close" /\ phase' = "halt" /\ doomed' = cancellations
      /\ setup_kinds' = setup_kinds \ ended /\ sweep' = sweep /\ doomedNext' = doomedNext
      /\ requests' = requests /\ cancellations' = cancellations /\ cancelled' = cancelled
      /\ executor' = executor /\ recorded' = recorded /\ stopping' = stopping /\ UNCHANGED vars
  BY DEF StopAudit, Ready
<1>2. PICK written \in BOOLEAN :
          audit' = [id \in Ids |-> IF written /\ id \in ended
                                   THEN Append(audit[id], "Cancelled") ELSE audit[id]]
  BY DEF StopAudit, Written
<1>3. /\ next' = next /\ state' = state /\ spec' = spec /\ started' = started
      /\ leases' = leases /\ closing' = closing /\ lane' = lane /\ lapsed' = lapsed
      /\ work' = work /\ call' = call /\ Downhill /\ NoSuccess
  BY <1>1, StillVars
<1>4. Trails /\ setup_kinds \subseteq Ids /\ audit \in [Ids -> Seq(Events)] /\ "Cancelled" \in Events
  BY DEF AInv, ActorTypeOK, Events
<1>5. \A id \in Ids : id \notin ended => audit'[id] = audit[id]
  BY <1>2
<1>6. \A id \in ended : id < next /\ audit[id] # <<>> /\ Len(audit[id]) = 1 /\ state[id] = "Cancelled"
  BY <1>4 DEF Trails
<1> HIDE DEF ended
<1>7. ASSUME NEW id \in Ids, id \in ended
      PROVE  /\ audit'[id] \in Seq(Events)
             /\ audit'[id][1] = "submitted" /\ Len(audit'[id]) <= 2
             /\ Len(audit'[id]) = 2 => audit'[id][2] # "submitted"
  <2>1. audit[id] \in Seq(Events) /\ Len(audit[id]) = 1 /\ audit[id][1] = "submitted"
    BY <1>4, <1>6, <1>7 DEF Trails, AuditWellFormed
  <2>2. CASE written
    <3>1. audit'[id] = Append(audit[id], "Cancelled")
      BY <1>2, <1>7, <2>2
    <3>2. Append(audit[id], "Cancelled") \in Seq(Events)
      BY <1>4, <2>1, AppendList
    <3>3. /\ Len(Append(audit[id], "Cancelled")) = 2
          /\ Append(audit[id], "Cancelled")[1] = audit[id][1]
          /\ Append(audit[id], "Cancelled")[2] = "Cancelled"
      BY <1>4, <2>1, SecondEvent
    <3> QED
      BY <2>1, <3>1, <3>2, <3>3
  <2>3. CASE ~written
    <3>1. audit'[id] = audit[id]
      BY <1>2, <1>7, <2>3
    <3>2. Len(audit[id]) <= 2 /\ Len(audit[id]) # 2
      BY <2>1
    <3> QED
      BY <2>1, <3>1, <3>2
  <2> QED
    BY <2>2, <2>3
<1>8. audit' \in [Ids -> Seq(Events)]
  <2>1. \A id \in Ids : audit'[id] \in Seq(Events)
    BY <1>4, <1>5, <1>7
  <2>2. audit' = [id \in Ids |-> audit'[id]]
    BY <1>2
  <2> QED
    BY <2>1, <2>2
<1>9. Trails'
  <2>1. \A j \in setup_kinds' :
          /\ j < next' /\ audit'[j] # <<>>
          /\ Len(audit'[j]) = 1 \/ (state'[j] = "Absent" /\ executor'[j] = "ended")
    BY <1>1, <1>3, <1>4, <1>5 DEF Trails
  <2>2. \A j \in Ids : Unfinished(j)' /\ Stack(j)' \in AuditedStacks
                       /\ j \in requests' \cup cancellations' => j \in setup_kinds'
    BY <1>1, <1>3, <1>4, <1>6 DEF Trails, Unfinished, Stack
  <2>3. \A j \in Ids : j >= next' => audit'[j] = <<>>
    <3>1. next \in Nat /\ Ids \subseteq Nat
      BY JobsAssumption, Constants DEF AInv, IInv, TypeOK
    <3>2. \A j \in Ids : j >= next => j \notin ended
      BY <1>6, <3>1
    <3> QED
      BY <1>3, <1>4, <1>5, <3>2 DEF Trails
  <2>4. AuditWellFormed'
    BY <1>4, <1>5, <1>7 DEF Trails, AuditWellFormed
  <2> QED
    BY <2>1, <2>2, <2>3, <2>4 DEF Trails
<1>10. IInv' /\ Tasks' /\ Reports' /\ Records'
  BY <1>1, <1>3, QuietSteps, KeepTasks, KeepReports, KeepRecords DEF AInv
<1>11. Requested'
  <2>1. \A j \in Ids : ~Unaudited(j)
    BY <1>1 DEF Unaudited
  <2> QED
    BY <1>1, <1>3, <2>1, KeepRequested
<1>12. Submitting' /\ Lapsing'
  BY <1>1, <1>3, KeepSubmitting, KeepLapsing
<1>13. Phased'
  BY <1>1, <1>3 DEF AInv, Phased
<1>14. ActorTypeOK'
  <2>1. setup_kinds' \subseteq Ids
    BY <1>1, <1>4
  <2> QED
    BY <1>1, <1>8, <2>1 DEF AInv, ActorTypeOK, Phases
<1> QED
  BY <1>9, <1>10, <1>11, <1>12, <1>13, <1>14 DEF AInv

-----------------------------------------------------------------------------
\* The invariant of the actor, for every behaviour: one step below per action.

LEMMA InitAInv == ActorInit => AInv
<1> SUFFICES ASSUME ActorInit PROVE AInv
  OBVIOUS
<1>1. /\ Init /\ phase = "wait" /\ sweep = FALSE /\ doomed = {} /\ doomedNext = {}
      /\ requests = {} /\ setup_kinds = {} /\ cancellations = {} /\ cancelled = {}
      /\ executor = [id \in Ids |-> "none"] /\ audit = [id \in Ids |-> <<>>]
      /\ recorded = {} /\ stopping = FALSE
  BY DEF ActorInit
<1>2. /\ \A id \in Ids : state[id] = "Absent" /\ executor[id] = "none" /\ audit[id] = <<>>
      /\ started = <<>> /\ call = NoCall /\ lane = "none" /\ closing = FALSE
      /\ leases = {} /\ lapsed = <<>> /\ work = <<>>
  BY <1>1 DEF Init
<1>3. IInv
  BY <1>1, InitIInv
<1>4. Handed = {} /\ Elems(lapsed) = {} /\ Elems(work) = {} /\ call.stage = "none"
  BY <1>2, EmptyList DEF Handed, NoCall
<1>5. ActorTypeOK
  <2>1. <<>> \in Seq(Events) /\ "none" \in ExecutorStates /\ "wait" \in Phases
    BY DEF ExecutorStates, Phases
  <2> QED
    BY <1>1, <2>1 DEF ActorTypeOK
<1>6. Tasks /\ Reports /\ Requested
  BY <1>1, <1>2, <1>4 DEF Tasks, Reports, Requested, Holding
<1>7. Submitting /\ Lapsing
  BY <1>1, <1>2, <1>4 DEF Submitting, Lapsing
<1>8. Trails /\ Records /\ Phased
  BY <1>1, <1>2 DEF Trails, AuditWellFormed, Unfinished, Records, RecordedIffSucceeded, Phased
<1> QED
  BY <1>3, <1>5, <1>6, <1>7, <1>8 DEF AInv

\* Nothing happens.
LEMMA StutterAInv ==
  ASSUME AInv, UNCHANGED allVars PROVE AInv'
<1>1. /\ UNCHANGED vars /\ phase' = phase /\ sweep' = sweep /\ doomed' = doomed
      /\ doomedNext' = doomedNext
      /\ requests' = requests /\ setup_kinds' = setup_kinds /\ cancellations' = cancellations
      /\ cancelled' = cancelled /\ executor' = executor /\ audit' = audit
      /\ recorded' = recorded /\ stopping' = stopping
  BY DEF allVars, actorVars, sweepVars, tableVars, durableVars
<1>2. /\ next' = next /\ state' = state /\ spec' = spec /\ started' = started
      /\ leases' = leases /\ closing' = closing /\ lane' = lane /\ lapsed' = lapsed
      /\ work' = work /\ call' = call
  BY <1>1, StillVars
<1>3. UNCHANGED actorVars
  BY DEF allVars
<1>4. IInv' /\ Lapsing'
  BY <1>1, <1>2, QuietSteps DEF AInv, Lapsing
<1>5. /\ closing => lane' = "none"
      /\ phase = "audit" /\ call = NoCall => lane' = "none" /\ work' = <<>>
  BY <1>2 DEF AInv, Phased
<1> QED
  BY <1>2, <1>3, <1>4, <1>5, TableStillStep

LEMMA NextAInv ==
  ASSUME AInv, [ActorNext]_allVars PROVE AInv'
<1>1. ASSUME Actor PROVE AInv'
  <2>1. CASE Internal /\ UNCHANGED actorVars
    BY <2>1, InternalStep
  <2>2. CASE Wake
    BY <2>2, WakeStep
  <2>3. CASE ClientsGone
    BY <2>3, ClientsGoneStep
  <2>4. CASE Swept \/ StopDone \/ Stopping
    BY <2>4, QuietPhases
  <2>5. ASSUME NEW id \in Ids, Doom(id) \/ StopCancel(id) PROVE AInv'
    BY <2>5, DoomStep, StopCancelStep
  <2>6. CASE AuditSubmission
    BY <2>6, AuditSubmissionStep
  <2>7. CASE StopAudit
    BY <2>7, StopAuditStep
  <2>8. CASE Launch
    <3>1. LaunchStarted /\ Ready /\ phase = "launch" /\ phase' = "wait"
      BY <2>8 DEF Launch, Ready
    <3> QED
      BY <3>1, LaunchStartedStep
  <2> QED
    BY <1>1, <2>1, <2>2, <2>3, <2>4, <2>5, <2>6, <2>7, <2>8 DEF Actor
<1>2. ASSUME Commands PROVE AInv'
  <2>1. CASE NoCommand
    BY <2>1, QuietPhases
  <2>2. ASSUME NEW w \in Workspaces, NEW s \in Stacks, NEW d \in Digests, NEW leased \in BOOLEAN,
               NEW owner \in Clients \cup {NoClient}, SubmitCommand(w, s, d, leased, owner)
        PROVE  AInv'
    BY <2>2, SubmitCommandStep
  <2>3. ASSUME NEW id \in Ids,
               \/ PollCommand(id) \/ CancelCommand(id)
               \/ PersistCommand(id) \/ PersistMemberCommand(id) \/ CompletedCommand(id)
        PROVE  AInv'
    BY <2>3, PollStep, CancelCommandStep, PersistStep, PersistMemberStep, CompletedStep
  <2>4. CASE SubmitRefused
    <3>1. LaunchStarted /\ Ready /\ phase = "command" /\ phase' = "launch"
      BY <2>4 DEF SubmitRefused, AtCommand, Ready
    <3> QED
      BY <3>1, LaunchStartedStep
  <2>5. CASE StopCommand
    BY <2>5, StopCommandStep
  <2> QED
    BY <1>2, <2>1, <2>2, <2>3, <2>4, <2>5 DEF Commands
<1>3. ASSUME Executors PROVE AInv'
  BY <1>3, ExecutorStep DEF Executors
<1>4. ASSUME (Tick \/ \E c \in Clients : ClientExit(c)) /\ UNCHANGED actorVars PROVE AInv'
  BY <1>4, WorldActor
<1>5. ASSUME UNCHANGED allVars PROVE AInv'
  BY <1>5, StutterAInv
<1> QED
  BY <1>1, <1>2, <1>3, <1>4, <1>5 DEF ActorNext

LEMMA SpecAInv == ActorSpec => []AInv
  BY InitAInv, NextAInv, PTL DEF ActorSpec

-----------------------------------------------------------------------------
\* Who is marked for cancellation.

\* The step marks nobody.
NoMark == \A j \in Ids : state'[j] = "Cancelling" => state[j] = "Cancelling"

\* The step takes no place away from a job.
HoldersStay == \A j \in Ids : Holding(j) => Holding(j)'

\* Ending a queued job marks nobody and takes no place away.
LEMMA EndQueuedMove ==
  ASSUME IInv, NEW id \in Ids, state[id] = "Queued", NEW end \in Terminal, Finish(id, end)
  PROVE  NoMark /\ HoldersStay
<1>1. Unfinished(id)
  BY DEF Unfinished
<1>2. /\ state'[id] = end
      /\ \A j \in Ids : j # id => state'[j] \in {state[j], "Absent"}
      /\ \A j \in Ids : j # id /\ Unfinished(j) => state'[j] = state[j]
  BY <1>1, FinishMove
<1>3. NoMark
  BY <1>2 DEF NoMark, Terminal
<1>4. HoldersStay
  BY <1>2 DEF HoldersStay, Holding, Unfinished
<1> QED
  BY <1>3, <1>4

\* The table is left alone.
LEMMA StillHolders ==
  ASSUME state' = state PROVE NoMark /\ HoldersStay
  BY DEF NoMark, HoldersStay, Holding

LEMMA InternalMove ==
  ASSUME AInv, Internal
  PROVE  NoMark /\ HoldersStay
<1>1. IInv /\ "Cancelled" \in Terminal
  BY DEF AInv, Terminal
<1>2. CASE state' = state
  BY <1>2, StillHolders
<1>3. ASSUME NEW w \in Workspaces, PumpAdmit(w) PROVE NoMark /\ HoldersStay
  <2>1. PICK id : state' = [state EXCEPT ![id] = "Running"]
    BY <1>3 DEF PumpAdmit
  <2>2. state \in [Ids -> JobStates \cup {"Absent"}]
    BY <1>1 DEF IInv, TypeOK
  <2> QED
    BY <2>1, <2>2 DEF NoMark, HoldersStay, Holding
<1>4. ASSUME PumpFinish PROVE NoMark /\ HoldersStay
  <2>1. work # <<>> /\ Finish(Head(work), "Cancelled")
    BY <1>4 DEF PumpFinish
  <2>2. work \in Seq(Ids)
    BY <1>1 DEF IInv, TypeOK
  <2>3. PICK id \in Ids : id = Head(work) /\ id \in Elems(work)
    BY <2>1, <2>2, TailList
  <2>4. state[id] = "Queued"
    BY <1>1, <2>3 DEF IInv, Placed, Waiting
  <2> QED
    BY <1>1, <2>1, <2>3, <2>4, EndQueuedMove
<1>5. ASSUME SubmitPlace PROVE NoMark /\ HoldersStay
  <2>1. state' = [state EXCEPT ![next] = "Queued"] /\ call.stage = "place"
    BY <1>5 DEF SubmitPlace
  <2>2. state \in [Ids -> JobStates \cup {"Absent"}] /\ Known
    BY <1>1 DEF IInv, TypeOK
  <2>3. next \in Nat
    BY <1>1, JobsAssumption DEF IInv, TypeOK
  <2>4. next \in Ids => state[next] = "Absent"
    BY <2>2, <2>3 DEF Known
  <2>5. \A j \in Ids : j # next => state'[j] = state[j]
    BY <2>1, <2>2
  <2>6. next \in Ids => state'[next] = "Queued"
    BY <2>1, <2>2
  <2>7. NoMark
    BY <2>5, <2>6 DEF NoMark
  <2> QED
    BY <2>4, <2>5, <2>6, <2>7 DEF HoldersStay, Holding
<1>6. ASSUME NEW id \in Ids, CloseFinish(id) PROVE NoMark /\ HoldersStay
  BY <1>1, <1>6, EndQueuedMove DEF CloseFinish
<1>7. CASE \E w \in Workspaces : PumpDrop(w) \/ PumpLapsed(w) \/ PumpDefer(w)
  BY <1>2, <1>7 DEF PumpDrop, PumpLapsed, PumpDefer
<1>8. CASE PumpLane \/ SubmitNoSlot \/ SubmitAttach
  BY <1>2, <1>8 DEF PumpLane, SubmitNoSlot, SubmitAttach
<1> QED
  BY <1>3, <1>4, <1>5, <1>6, <1>7, <1>8 DEF Internal, Pump, Submission

\* A submission ends at most a waiting job.
LEMMA SubmitMove ==
  ASSUME AInv, NEW w \in Workspaces, NEW s \in Stacks, NEW d \in Digests, NEW leased \in BOOLEAN,
         NEW owner \in Clients \cup {NoClient}, SubmitCommand(w, s, d, leased, owner)
  PROVE  NoMark /\ HoldersStay
<1>1. CASE state' = state
  BY <1>1, StillHolders
<1>2. CASE pending[<<w, s>>] # NoId /\ Finish(pending[<<w, s>>], "Superseded")
  <2>1. <<w, s>> \in Keys /\ IInv
    BY DEF Keys, AInv
  <2>2. PICK id \in Ids : id = pending[<<w, s>>]
    BY <1>2, <2>1 DEF IInv, TypeOK
  <2>3. state[id] = "Queued"
    BY <1>2, <2>1, <2>2 DEF IInv, Keyed
  <2>4. "Superseded" \in Terminal
    BY DEF Terminal
  <2> QED
    BY <1>2, <2>1, <2>2, <2>3, <2>4, EndQueuedMove
<1> QED
  BY <1>1, <1>2 DEF SubmitCommand, SubmitJoin, SubmitNew

\* Settling marks nobody and takes only the settled job's place away.
LEMMA SettleHolders ==
  ASSUME AInv, NEW id \in Ids, NEW ok \in BOOLEAN, Settle(id, ok)
  PROVE  NoMark /\ \A j \in Ids : j # id /\ Holding(j) => Holding(j)'
<1>1. /\ state'[id] \in Terminal
      /\ \A j \in Ids : j # id => state'[j] \in {state[j], "Absent"}
      /\ \A j \in Ids : j # id /\ Unfinished(j) => state'[j] = state[j]
  BY SettleMove DEF AInv
<1> QED
  BY <1>1 DEF NoMark, Holding, Unfinished, Terminal

\* Cancelling marks only the cancelled job, and takes its place away only if it was
\* cancelling already.
LEMMA CancelHolders ==
  ASSUME AInv, NEW id \in Ids, Cancel(id)
  PROVE  /\ \A j \in Ids : j # id /\ state'[j] = "Cancelling" => state[j] = "Cancelling"
         /\ \A j \in Ids : j # id /\ Holding(j) => Holding(j)'
         /\ state[id] # "Cancelling" /\ Holding(id) => Holding(id)'
<1>1. /\ \A j \in Ids : j # id => state'[j] \in {state[j], "Absent"}
      /\ \A j \in Ids : j # id /\ Unfinished(j) => state'[j] = state[j]
      /\ state[id] = "Running" => state'[id] = "Cancelling"
  BY CancelMove DEF AInv
<1> QED
  BY <1>1 DEF Holding, Unfinished

\* Every step but a cancellation marks nobody.
LEMMA QuietNoMark ==
  ASSUME AInv, [ActorNext]_allVars
  PROVE  \/ NoMark
         \/ \E id \in Ids : /\ CancelInActor(id) \/ (Cancel(id) /\ cancelled' = cancelled \cup {id})
<1> DEFINE Goal ==
        \/ NoMark
        \/ \E id \in Ids : /\ CancelInActor(id) \/ (Cancel(id) /\ cancelled' = cancelled \cup {id})
<1>1. CASE state' = state
  BY <1>1, StillHolders
<1>2. CASE UNCHANGED vars
  BY <1>2, StillVars, StillHolders
<1>3. ASSUME NEW id \in Ids, NEW ok \in BOOLEAN, Settle(id, ok) PROVE NoMark
  BY <1>3, SettleHolders
<1> HIDE DEF Goal
<1>4. ASSUME Actor PROVE Goal
  <2>1. CASE Internal
    BY <2>1, InternalMove DEF Goal
  <2>2. CASE Wake \/ Swept \/ StopDone \/ Stopping \/ StopAudit
    BY <1>2, <2>2 DEF Wake, Swept, StopDone, Stopping, StopAudit, Goal
  <2>3. CASE ClientsGone
    BY <1>1, <1>2, <2>3 DEF ClientsGone, Orphaned, Goal
  <2>4. ASSUME NEW id \in Ids, Doom(id) \/ StopCancel(id) PROVE Goal
    BY <1>2, <2>4 DEF Doom, StopCancel, Goal
  <2>5. CASE AuditSubmission
    <3>1. next - 1 \in Ids
      <4>1. next \in 1..(MaxJobs + 1) /\ MaxJobs \in Nat
        BY JobsAssumption DEF AInv, IInv, TypeOK
      <4>2. next >= 2
        <5>1. Ready /\ phase = "audit"
          BY <2>5 DEF AuditSubmission, Ready
        <5>2. call.stage = "none"
          BY <5>1, ReadyActor
        <5> QED
          BY <5>1, <5>2 DEF AInv, Submitting
      <4> QED
        BY <4>1, <4>2 DEF Ids
    <3>2. UNCHANGED vars \/ Settle(next - 1, FALSE)
      BY <2>5 DEF AuditSubmission
    <3> QED
      BY <1>2, <1>3, <3>1, <3>2 DEF Goal
  <2>6. CASE Launch
    BY <1>1, <1>2, <2>6 DEF Launch, LaunchStarted, TakeStarted, Goal
  <2> QED
    BY <1>4, <2>1, <2>2, <2>3, <2>4, <2>5, <2>6 DEF Actor
<1>5. ASSUME Commands PROVE Goal
  <2>1. CASE NoCommand
    BY <1>2, <2>1 DEF NoCommand, Goal
  <2>2. ASSUME NEW w \in Workspaces, NEW s \in Stacks, NEW d \in Digests, NEW leased \in BOOLEAN,
               NEW owner \in Clients \cup {NoClient}, SubmitCommand(w, s, d, leased, owner)
        PROVE  Goal
    BY <2>2, SubmitMove DEF Goal
  <2>3. ASSUME NEW id \in Ids, PollCommand(id) \/ PersistMemberCommand(id) PROVE Goal
    BY <1>1, <1>2, <2>3 DEF PollCommand, PersistMemberCommand, Touch, Goal
  <2>4. ASSUME NEW id \in Ids, CancelCommand(id) PROVE Goal
    BY <2>4 DEF CancelCommand, Goal
  <2>5. ASSUME NEW id \in Ids, PersistCommand(id) PROVE Goal
    BY <1>2, <1>3, <2>5 DEF PersistCommand, Goal
  <2>6. ASSUME NEW id \in Ids, CompletedCommand(id) PROVE Goal
    <3>1. UNCHANGED vars \/ Settle(id, executor[id] = "ok")
      BY <2>6 DEF CompletedCommand
    <3> QED
      BY <1>2, <1>3, <3>1 DEF Goal
  <2>7. CASE SubmitRefused
    BY <1>1, <1>2, <2>7 DEF SubmitRefused, LaunchStarted, TakeStarted, Goal
  <2>8. CASE StopCommand
    BY <1>1, <2>8 DEF StopCommand, Close, Goal
  <2> QED
    BY <1>5, <2>1, <2>2, <2>3, <2>4, <2>5, <2>6, <2>7, <2>8 DEF Commands
<1>6. ASSUME Executors PROVE Goal
  BY <1>2, <1>6 DEF Executors, ExecutorSucceeds, ExecutorFails, ExecutorMember, ExecutorSends, Goal
<1>7. ASSUME Tick \/ \E c \in Clients : ClientExit(c) PROVE Goal
  BY <1>1, <1>7 DEF Tick, ClientExit, Goal
<1>8. ASSUME UNCHANGED allVars PROVE Goal
  BY <1>2, <1>8 DEF allVars, Goal
<1>9. Goal
  BY <1>4, <1>5, <1>6, <1>7, <1>8 DEF ActorNext
<1> QED
  BY <1>9 DEF Goal

-----------------------------------------------------------------------------
\* One executor per key, as long as clients do not cancel a cancelling job again.

\* Two jobs that hold places have different keys.
LEMMA HoldersDiffer ==
  ASSUME IInv, NEW i \in Ids, NEW j \in Ids, Holding(i), Holding(j), i # j
  PROVE  Key(i) # Key(j)
<1>1. /\ Unfinished(i) /\ state[i] # "Queued" /\ Unfinished(j) /\ state[j] # "Queued"
  BY DEF Holding, Unfinished
<1>2. active[Key(i)] = i /\ active[Key(j)] = j
  BY <1>1 DEF IInv, Keyed
<1> QED
  BY <1>2

\* Outside the sweep nothing of it is left; inside, nobody is marked but the job that
\* leaves it.
LEMMA SweepDone ==
  ASSUME Sweeping, phase' \notin {"stall", "gone"}, doomedNext' = {}
  PROVE  Sweeping'
  BY DEF Sweeping

\* Occupied jobs keep their places and their keys, and new ones hold a place.
LEMMA ExclusiveStep ==
  ASSUME AInv, Exclusive, closing' = closing,
         cancellations' \subseteq Occupied,
         \A j \in Handed' \cap requests' :
            j \in Handed \cap requests \/ (j \in Ids /\ Holding(j)' /\ ~closing),
         \A j \in Ids : Holding(j) /\ (j \in Handed' \cap requests' \/ (~closing /\ j \in cancellations'))
                          => Holding(j)',
         closing => Downhill,
         phase' = "audit" /\ call'.stage # "place" => next' - 1 \notin cancellations'
  PROVE  Exclusive'
<1>1. Handed \subseteq Ids /\ cancellations \subseteq Ids
  BY ListType DEF Handed, AInv, IInv, TypeOK, ActorTypeOK
<1> HIDE DEF Handed
<1>2. ~closing => \A j \in Occupied : Holding(j)
  BY DEF Exclusive, Occupied
<1>3. Occupied \subseteq Ids
  BY <1>1 DEF Occupied
<1>4. ~closing' => \A j \in cancellations' : Holding(j)'
  BY <1>2, <1>3
<1>5. \A j \in Handed' \cap requests' : Holding(j)'
  BY <1>1 DEF Exclusive
<1>6. ASSUME closing', NEW i \in Occupied', NEW j \in Occupied', i # j,
             state'[i] # "Absent", state'[j] # "Absent"
      PROVE  Key(i)' # Key(j)'
  <2>1. i \in Occupied /\ j \in Occupied
    BY <1>6 DEF Occupied
  <2>2. /\ state[i] # "Absent" /\ spec'[i] = spec[i]
        /\ state[j] # "Absent" /\ spec'[j] = spec[j]
    BY <1>3, <1>6, <2>1 DEF Downhill
  <2>3. Key(i) # Key(j)
    BY <1>6, <2>1, <2>2 DEF Exclusive
  <2> QED
    BY <2>2, <2>3 DEF Key
<1> QED
  BY <1>4, <1>5, <1>6 DEF Exclusive

\* A step that launches nobody, admits nobody and takes no place away.
LEMMA ExclusiveStill ==
  ASSUME AInv, Exclusive, closing' = closing, started' = started,
         cancellations' \subseteq cancellations, requests' \subseteq requests,
         \A j \in Ids : Holding(j) /\ (j \in Handed \cap requests' \/ (~closing /\ j \in cancellations'))
                          => Holding(j)',
         closing => Downhill,
         phase' # "audit" \/ call'.stage = "place"
  PROVE  Exclusive'
<1>1. Handed' = Handed
  BY DEF Handed
<1>2. cancellations' \subseteq Occupied
  BY DEF Occupied
<1>3. \A j \in Handed' \cap requests' : j \in Handed \cap requests
  BY <1>1
<1> QED
  BY <1>1, <1>2, <1>3, ExclusiveStep

\* The steps of a call under way.
LEMMA InternalXInv ==
  ASSUME AInv, Sweeping, Exclusive, Internal, UNCHANGED actorVars
  PROVE  Sweeping' /\ Exclusive'
<1>1. /\ phase' = phase /\ doomed' = doomed /\ doomedNext' = doomedNext
      /\ requests' = requests /\ cancellations' = cancellations
  BY ActorStill
<1>2. NoMark /\ HoldersStay
  BY InternalMove
<1>3. Sweeping'
  <2>1. doomed \subseteq Ids /\ doomedNext \subseteq Ids
    BY DEF AInv, ActorTypeOK
  <2> QED
    BY <1>1, <1>2, <2>1 DEF Sweeping, NoMark
<1>4. closing' = closing
  BY DEF Internal, Pump, PumpDrop, PumpLapsed, PumpDefer, PumpAdmit, PumpLane, PumpFinish,
         Submission, SubmitPlace, SubmitNoSlot, SubmitAttach, CloseFinish, Finish
<1>5. \A j \in Handed' : j \in Handed \/ (j \in Ids /\ Holding(j)' /\ ~closing)
  <2>1. CASE started' = started
    BY <2>1 DEF Handed
  <2>2. ASSUME NEW w \in Workspaces, PumpAdmit(w)
        PROVE  \A j \in Handed' : j \in Handed \/ (j \in Ids /\ Holding(j)' /\ ~closing)
    <3>1. PICK id \in Ids : id = Front(w)
      BY <2>2, PopStep DEF AInv, PumpAdmit
    <3>2. state' = [state EXCEPT ![id] = "Running"] /\ started' = Append(started, id) /\ lane # "none"
      BY <2>2, <3>1 DEF PumpAdmit, Front, Pop, LaneOpen
    <3>3. started \in Seq(Ids) /\ state \in [Ids -> JobStates \cup {"Absent"}] /\ ~closing
      BY <3>2 DEF AInv, IInv, TypeOK, Phased
    <3>4. Handed' = Handed \cup {id} /\ Holding(id)'
      BY <3>2, <3>3, AppendList DEF Handed, Holding
    <3> QED
      BY <3>3, <3>4
  <2>3. (\E w \in Workspaces : PumpAdmit(w)) \/ started' = started
    BY DEF Internal, Pump, PumpDrop, PumpLapsed, PumpDefer, PumpLane, PumpFinish,
           Submission, SubmitPlace, SubmitNoSlot, SubmitAttach, CloseFinish, Finish
  <2> QED
    BY <2>1, <2>2, <2>3
<1>6. closing => Downhill
  <2>1. ASSUME closing PROVE Downhill
    <3>1. lane = "none" /\ call = NoCall /\ call.stage = "none"
      BY <2>1 DEF AInv, Phased, NoCall
    <3>2. ~Submission /\ ~PumpLane /\ ~\E w \in Workspaces :
              PumpDrop(w) \/ PumpLapsed(w) \/ PumpDefer(w) \/ PumpAdmit(w)
      BY <3>1 DEF Submission, SubmitPlace, SubmitNoSlot, SubmitAttach, PumpLane, PumpDrop,
                  PumpLapsed, PumpDefer, PumpAdmit, Pop, LaneOpen
    <3>3. CASE PumpFinish
      <4>1. work # <<>> /\ Finish(Head(work), "Cancelled") /\ work \in Seq(Ids) /\ IInv
        BY <3>3 DEF PumpFinish, AInv, IInv, TypeOK
      <4>2. PICK id \in Ids : id = Head(work) /\ id \in Elems(work)
        BY <4>1, TailList
      <4>3. Unfinished(id) /\ "Cancelled" \in Terminal
        BY <4>1, <4>2 DEF IInv, Placed, Waiting, Unfinished, Terminal
      <4> QED
        BY <4>1, <4>2, <4>3, FinishMove
    <3>4. ASSUME NEW id \in Ids, CloseFinish(id) PROVE Downhill
      <4>1. Finish(id, "Cancelled") /\ Unfinished(id) /\ "Cancelled" \in Terminal /\ IInv
        BY <3>4 DEF CloseFinish, Unfinished, Terminal, AInv
      <4> QED
        BY <4>1, FinishMove
    <3> QED
      BY <3>2, <3>3, <3>4 DEF Internal, Pump
  <2> QED
    BY <2>1
<1>7. phase' = "audit" /\ call'.stage # "place" => next' - 1 \notin cancellations'
  <2>1. next \in Nat /\ cancellations \subseteq Ids /\ Ids \subseteq Nat
    BY JobsAssumption, Constants DEF AInv, IInv, TypeOK, ActorTypeOK
  <2>2. CASE SubmitPlace
    <3>1. next' = next + 1
      BY <2>2 DEF SubmitPlace
    <3>2. next' - 1 = next
      BY <2>1, <3>1
    <3>3. next \notin cancellations
      <4>1. ASSUME next \in cancellations PROVE FALSE
        <5>1. next \in Ids /\ executor[next] # "none"
          BY <2>1, <4>1 DEF AInv, Tasks
        <5>2. next < next
          BY <5>1 DEF AInv, Tasks
        <5> QED
          BY <2>1, <5>2
      <4> QED
        BY <4>1
    <3> QED
      BY <1>1, <3>2, <3>3
  <2>3. CASE next' = next /\ (call' = call \/ SubmitAttach)
    <3>1. call'.stage # "place" => call.stage # "place"
      BY <2>3 DEF SubmitAttach
    <3> QED
      BY <1>1, <2>3, <3>1 DEF Exclusive
  <2> QED
    BY <2>2, <2>3 DEF Internal, Pump, PumpDrop, PumpLapsed, PumpDefer, PumpAdmit, PumpLane,
         PumpFinish, Submission, SubmitNoSlot, SubmitAttach, CloseFinish, Finish
<1>8. Exclusive'
  <2>1. cancellations' \subseteq Occupied
    BY <1>1 DEF Occupied
  <2>2. \A j \in Ids : Holding(j) => Holding(j)'
    BY <1>2 DEF HoldersStay
  <2> QED
    BY <1>1, <1>4, <1>5, <1>6, <1>7, <2>1, <2>2, ExclusiveStep
<1> QED
  BY <1>3, <1>8

\* A step that leaves the table of jobs, its launches and its requests alone.
LEMMA StillXInv ==
  ASSUME AInv, Exclusive, UNCHANGED <<next, state, spec, started, closing>>,
         UNCHANGED <<requests, cancellations>>,
         phase' # "audit" \/ (phase' = phase /\ call' = call)
  PROVE  Exclusive'
<1>1. /\ next' = next /\ state' = state /\ spec' = spec /\ closing' = closing
      /\ requests' = requests /\ cancellations' = cancellations /\ Handed' = Handed
  BY DEF Handed
<1>2. Occupied' = Occupied
  BY <1>1 DEF Occupied
<1> QED
  BY <1>1, <1>2 DEF Exclusive, Holding, Key

\* The clock, the clients and the executors, and nothing at all.
LEMMA WorldXInv ==
  ASSUME AInv, Sweeping, Exclusive,
         \/ Executors
         \/ (Tick \/ \E c \in Clients : ClientExit(c)) /\ UNCHANGED actorVars
         \/ UNCHANGED allVars
  PROVE  Sweeping' /\ Exclusive'
<1>1. /\ next' = next /\ state' = state /\ spec' = spec /\ started' = started
      /\ closing' = closing /\ call' = call
      /\ phase' = phase /\ doomed' = doomed /\ doomedNext' = doomedNext
      /\ requests' = requests /\ cancellations' = cancellations
  <2>1. CASE Executors
    <3>1. PICK id \in Ids : \E message : ExecutorSends(id, message)
      BY <2>1 DEF Executors, ExecutorSucceeds, ExecutorFails, ExecutorMember
    <3>2. UNCHANGED vars /\ UNCHANGED <<phase, sweepVars, tableVars>>
      BY <3>1 DEF ExecutorSends
    <3> QED
      BY <3>2, StillVars DEF sweepVars, tableVars
  <2>2. CASE (Tick \/ \E c \in Clients : ClientExit(c)) /\ UNCHANGED actorVars
    BY <2>2, ActorStill DEF Tick, ClientExit
  <2>3. CASE UNCHANGED allVars
    <3>1. UNCHANGED vars /\ UNCHANGED actorVars
      BY <2>3 DEF allVars
    <3> QED
      BY <3>1, StillVars, ActorStill
  <2> QED
    BY <2>1, <2>2, <2>3
<1>2. Sweeping'
  BY <1>1 DEF Sweeping
<1> QED
  BY <1>1, <1>2, StillXInv

\* An iteration begins, or moves on without a command.
LEMMA PhaseXInv ==
  ASSUME AInv, Sweeping, Exclusive, Wake \/ Swept \/ NoCommand \/ StopDone \/ Stopping \/ StopAudit
  PROVE  Sweeping' /\ Exclusive'
<1>1. UNCHANGED vars /\ requests' = requests /\ cancellations' = cancellations /\ phase' # "audit"
  BY DEF Wake, Swept, NoCommand, StopDone, Stopping, StopAudit, tableVars
<1>2. /\ next' = next /\ state' = state /\ spec' = spec /\ started' = started /\ closing' = closing
  BY <1>1, StillVars
<1>3. Exclusive'
  BY <1>1, <1>2, StillXInv
<1>4. Sweeping'
  <2>1. CASE Wake
    <3>1. /\ phase = "wait" /\ doomedNext' = doomedNext /\ phase' \in {"command", "stall"}
          /\ \A id \in doomed' : state[id] = "Running"
      BY <2>1 DEF Wake
    <3> QED
      BY <1>2, <3>1 DEF Sweeping
  <2>2. CASE ~Wake
    <3>1. phase' \notin {"stall", "gone"} /\ doomedNext' = doomedNext /\ (phase = "gone" => doomedNext = {})
      BY <2>2 DEF Swept, NoCommand, AtCommand, StopDone, Stopping, StopAudit, sweepVars
    <3> QED
      BY <3>1, SweepDone DEF Sweeping
  <2> QED
    BY <2>1, <2>2
<1> QED
  BY <1>3, <1>4

LEMMA ClientsGoneXInv ==
  ASSUME AInv, Sweeping, Exclusive, ClientsGone
  PROVE  Sweeping' /\ Exclusive'
<1>1. /\ phase' = "gone" /\ requests' = requests /\ cancellations' = cancellations
  BY DEF ClientsGone, tableVars
<1>2. /\ next' = next /\ state' = state /\ spec' = spec /\ started' = started /\ closing' = closing
  <2>1. UNCHANGED vars \/ \E dead \in SUBSET gone : Orphaned(dead)
    BY DEF ClientsGone
  <2> QED
    BY <2>1, StillVars DEF Orphaned
<1>3. /\ \A id \in doomed' \cup doomedNext' : state[id] \in {"Queued", "Running"}
      /\ doomed' \cap doomedNext' = {}
  BY DEF ClientsGone, ExpiredLeases
<1>4. Sweeping'
  BY <1>1, <1>2, <1>3 DEF Sweeping
<1> QED
  BY <1>1, <1>2, <1>4, StillXInv

\* A job that was not cancelling is cancelled.
LEMMA CancelXInv ==
  ASSUME AInv, Exclusive, NEW id \in Ids, CancelInActor(id), state[id] # "Cancelling",
         phase' # "audit"
  PROVE  Exclusive'
<1>1. /\ Cancel(id) /\ cancellations' = cancellations /\ requests' \subseteq requests
  BY DEF CancelInActor
<1>2. Downhill /\ started' = started /\ closing' = closing
  BY <1>1, CancelMove DEF AInv
<1>3. \A j \in Ids : Holding(j) => Holding(j)'
  BY <1>1, CancelHolders
<1> QED
  BY <1>1, <1>2, <1>3, ExclusiveStill

LEMMA DoomXInv ==
  ASSUME AInv, Sweeping, Exclusive, NEW id \in Ids, Doom(id)
  PROVE  Sweeping' /\ Exclusive'
<1>1. /\ phase \in {"stall", "gone"} /\ phase' = phase
      /\ id \in doomed \cup doomedNext /\ id \notin doomed' \cup doomedNext'
      /\ doomed' \subseteq doomed /\ doomedNext' \subseteq doomedNext
  <2>1. CASE Lowest(doomed, id) /\ doomed' = doomed \ {id} /\ UNCHANGED doomedNext
    BY <2>1 DEF Doom, Lowest, Sweeping
  <2>2. CASE doomed = {} /\ Lowest(doomedNext, id) /\ doomedNext' = doomedNext \ {id} /\ UNCHANGED doomed
    BY <2>2 DEF Doom, Lowest
  <2> QED
    BY <2>1, <2>2 DEF Doom
<1>2. state[id] # "Cancelling"
  BY <1>1 DEF Sweeping
<1>3. CASE CancelInActor(id)
  <2>1. Exclusive'
    BY <1>1, <1>2, <1>3, CancelXInv
  <2>2. \A j \in Ids : j # id /\ state'[j] = "Cancelling" => state[j] = "Cancelling"
    BY <1>3, CancelHolders DEF CancelInActor
  <2>3. doomed \cup doomedNext \subseteq Ids
    BY DEF AInv, ActorTypeOK
  <2>4. Sweeping'
    BY <1>1, <2>2, <2>3 DEF Sweeping
  <2> QED
    BY <2>1, <2>4
<1>4. CASE UNCHANGED <<vars, tableVars, executor, durableVars, stopping>>
  <2>1. /\ next' = next /\ state' = state /\ spec' = spec /\ started' = started /\ closing' = closing
        /\ requests' = requests /\ cancellations' = cancellations
    BY <1>4, StillVars DEF tableVars
  <2>2. Sweeping'
    BY <1>1, <2>1 DEF Sweeping
  <2> QED
    BY <1>1, <2>1, <2>2, StillXInv
<1> QED
  BY <1>3, <1>4 DEF Doom

\* Stop cancels launched jobs, for good if they were cancelling: nothing is admitted
\* any more, and no launched job is in the handoff.
LEMMA StopCancelXInv ==
  ASSUME AInv, Sweeping, Exclusive, NEW id \in Ids, StopCancel(id)
  PROVE  Sweeping' /\ Exclusive'
<1>1. /\ phase = "halt" /\ phase' = phase /\ id \in doomed /\ doomedNext' = doomedNext
      /\ requests' = requests /\ cancellations' = cancellations
  BY DEF StopCancel, Lowest
<1>2. Sweeping'
  BY <1>1, SweepDone DEF Sweeping
<1>3. closing /\ id \in cancellations
  BY <1>1 DEF AInv, Phased
<1>4. id \notin Handed
  BY <1>3 DEF AInv, Tasks
<1>5. /\ Downhill /\ started' = started /\ closing' = closing
      /\ \A j \in Ids : j # id /\ Holding(j) => Holding(j)'
  <2>1. CASE Cancel(id)
    BY <2>1, CancelMove, CancelHolders DEF AInv
  <2>2. CASE UNCHANGED vars
    BY <2>2, StillVars DEF Holding
  <2> QED
    BY <2>1, <2>2 DEF StopCancel
<1>6. \A j \in Ids : Holding(j) /\ (j \in Handed \cap requests' \/ (~closing /\ j \in cancellations'))
                       => Holding(j)'
  BY <1>3, <1>4, <1>5
<1> QED
  BY <1>1, <1>2, <1>5, <1>6, ExclusiveStill

\* An executor gets its answer: its job leaves the cancellation table.
LEMMA EndedXInv ==
  ASSUME AInv, Sweeping, Exclusive, NEW id \in Ids, PersistCommand(id) \/ CompletedCommand(id)
  PROVE  Sweeping' /\ Exclusive'
<1>1. /\ phase = "command" /\ phase' = "launch" /\ doomedNext' = doomedNext
      /\ requests' = requests /\ cancellations' \subseteq cancellations
      /\ executor[id] \notin {"none", "ended"}
  BY DEF PersistCommand, CompletedCommand, AtCommand, sweepVars
<1>2. Sweeping'
  BY <1>1, SweepDone DEF Sweeping
<1>3. id \notin Handed
  BY <1>1 DEF AInv, Tasks
<1>4. CASE UNCHANGED vars
  <2>1. Downhill /\ started' = started /\ closing' = closing /\ state' = state
    BY <1>4, StillVars
  <2>2. \A j \in Ids : Holding(j) => Holding(j)'
    BY <2>1 DEF Holding
  <2>3. Exclusive'
    BY <1>1, <2>1, <2>2, ExclusiveStill
  <2> QED
    BY <1>2, <2>3
<1>5. ASSUME NEW ok \in BOOLEAN, Settle(id, ok), cancellations' = cancellations \ {id}
      PROVE  Sweeping' /\ Exclusive'
  <2>1. Downhill /\ started' = started /\ closing' = closing
    BY <1>5, SettleActor
  <2>2. \A j \in Ids : j # id /\ Holding(j) => Holding(j)'
    BY <1>5, SettleHolders
  <2>3. \A j \in Ids : Holding(j) /\ (j \in Handed \cap requests' \/ (~closing /\ j \in cancellations'))
                         => Holding(j)'
    BY <1>3, <1>5, <2>2
  <2>4. Exclusive'
    BY <1>1, <2>1, <2>3, ExclusiveStill
  <2> QED
    BY <1>2, <2>4
<1>6. \/ UNCHANGED vars
      \/ \E ok \in BOOLEAN : Settle(id, ok) /\ cancellations' = cancellations \ {id}
  <2>1. CASE PersistCommand(id)
    BY <2>1 DEF PersistCommand
  <2>2. CASE CompletedCommand(id)
    <3>1. /\ cancellations' = cancellations \ {id}
          /\ UNCHANGED vars \/ Settle(id, executor[id] = "ok")
      BY <2>2 DEF CompletedCommand
    <3> QED
      BY <3>1
  <2> QED
    BY <2>1, <2>2
<1> QED
  BY <1>4, <1>5, <1>6

\* The audited job may have been admitted already, and then holds a place; a job whose
\* audit failed was not launched.
LEMMA AuditXInv ==
  ASSUME AInv, Sweeping, Exclusive, AuditSubmission
  PROVE  Sweeping' /\ Exclusive'
<1>1. /\ Ready /\ phase = "audit" /\ phase' = "launch" /\ doomedNext' = doomedNext
      /\ cancellations' = cancellations
  BY DEF AuditSubmission, Ready, sweepVars
<1>2. Sweeping'
  BY <1>1, SweepDone DEF Sweeping
<1>3. call.stage = "none" /\ call.stage # "place"
  BY <1>1, ReadyActor
<1>4. PICK id \in Ids : id = next - 1
  <2>1. next \in 1..(MaxJobs + 1) /\ MaxJobs \in Nat /\ next >= 2
    BY <1>1, <1>3, JobsAssumption DEF AInv, IInv, TypeOK, Submitting
  <2> QED
    BY <2>1 DEF Ids
<1>5. /\ state[id] \in {"Queued", "Running"} /\ id \notin requests /\ ~closing
      /\ id \notin cancellations
  BY <1>1, <1>3, <1>4 DEF AInv, Submitting, Exclusive
<1>6. CASE requests' = requests \cup {id} /\ UNCHANGED vars
  <2>1. Downhill /\ started' = started /\ closing' = closing /\ state' = state
    BY <1>6, StillVars
  <2>2. \A j \in Ids : Holding(j) => Holding(j)'
    BY <2>1 DEF Holding
  <2>3. Handed' = Handed
    BY <2>1 DEF Handed
  <2>4. id \in Handed => Holding(id)'
    BY <1>5, <2>1 DEF AInv, Tasks, Holding
  <2>5. \A j \in Handed' \cap requests' :
          j \in Handed \cap requests \/ (j \in Ids /\ Holding(j)' /\ ~closing)
    BY <1>5, <1>6, <2>3, <2>4
  <2>6. cancellations' \subseteq Occupied
    BY <1>1 DEF Occupied
  <2>7. Exclusive'
    BY <1>1, <2>1, <2>2, <2>5, <2>6, ExclusiveStep
  <2> QED
    BY <1>2, <2>7
<1>7. CASE requests' = requests /\ Settle(id, FALSE)
  <2>1. Downhill /\ started' = started /\ closing' = closing
    BY <1>7, SettleActor
  <2>2. \A j \in Ids : j # id /\ Holding(j) => Holding(j)'
    BY <1>7, SettleHolders
  <2>3. \A j \in Ids : Holding(j) /\ (j \in Handed \cap requests' \/ (~closing /\ j \in cancellations'))
                         => Holding(j)'
    BY <1>1, <1>5, <1>7, <2>2
  <2>4. Exclusive'
    BY <1>1, <1>7, <2>1, <2>3, ExclusiveStill
  <2> QED
    BY <1>2, <2>4
<1>8. \/ requests' = requests \cup {id} /\ UNCHANGED vars
      \/ requests' = requests /\ Settle(id, FALSE)
  BY <1>4 DEF AuditSubmission
<1> QED
  BY <1>6, <1>7, <1>8

\* Launched jobs were handed over and hold their places.
LEMMA LaunchXInv ==
  ASSUME AInv, Sweeping, Exclusive, Launch \/ SubmitRefused
  PROVE  Sweeping' /\ Exclusive'
<1>1. /\ LaunchStarted /\ phase \in {"launch", "command"} /\ phase' \in {"wait", "launch"}
  BY DEF Launch, SubmitRefused, AtCommand
<1>2. doomedNext' = doomedNext
  BY <1>1 DEF LaunchStarted, sweepVars
<1>3. Sweeping'
  BY <1>1, <1>2, SweepDone DEF Sweeping
<1>4. cancellations' = Occupied
  <2>1. {id \in requests : \E i \in DOMAIN started : started[i] = id} = Handed \cap requests
    BY DEF Handed, Elems
  <2> HIDE DEF Handed
  <2> QED
    BY <1>1, <2>1 DEF LaunchStarted, Occupied
<1>5. /\ next' = next /\ state' = state /\ spec' = spec /\ closing' = closing /\ started' = <<>>
  BY <1>1, StillVars DEF LaunchStarted, TakeStarted
<1>6. Handed' = {} /\ Downhill /\ \A j \in Ids : Holding(j) => Holding(j)'
  BY <1>5, EmptyList, StillMove DEF Handed, Holding
<1>7. Exclusive'
  BY <1>1, <1>4, <1>5, <1>6, ExclusiveStep
<1> QED
  BY <1>3, <1>7

LEMMA SubmitXInv ==
  ASSUME AInv, Sweeping, Exclusive, NEW w \in Workspaces, NEW s \in Stacks, NEW d \in Digests,
         NEW leased \in BOOLEAN, NEW owner \in Clients \cup {NoClient},
         SubmitCommand(w, s, d, leased, owner)
  PROVE  Sweeping' /\ Exclusive'
<1>1. /\ phase = "command" /\ phase' \in {"launch", "audit"} /\ doomedNext' = doomedNext
      /\ cancellations' = cancellations /\ requests' \subseteq requests \cup {next}
  BY DEF SubmitCommand, AtCommand, sweepVars
<1>2. Sweeping'
  BY <1>1, SweepDone DEF Sweeping
<1>3. NoMark /\ HoldersStay
  BY SubmitMove
<1>4. started' = started /\ closing' = closing /\ ~closing
  BY DEF SubmitCommand, SubmitJoin, SubmitNew, Finish
<1>5. phase' = "audit" => call'.stage = "place"
  <2>1. CASE phase' = "launch"
    BY <2>1
  <2>2. CASE SubmitNew(w, s, d, leased, owner)
    <3>1. call' = [stage |-> "place", workspace |-> w, stack |-> s, digest |-> d,
                   active |-> active[<<w, s>>], leased |-> leased, owner |-> owner]
      BY <2>2 DEF SubmitNew
    <3> QED
      BY <3>1
  <2> QED
    BY <2>1, <2>2 DEF SubmitCommand
<1>6. Handed' = Handed /\ next \notin Handed
  <2>1. next \in Nat
    BY JobsAssumption DEF AInv, IInv, TypeOK
  <2>2. \A j \in Handed : j < next
    BY DEF AInv, Tasks
  <2>3. Handed' = Handed
    BY <1>4 DEF Handed
  <2> HIDE DEF Handed
  <2> QED
    BY <2>1, <2>2, <2>3
<1>7. \A j \in Handed' \cap requests' : j \in Handed \cap requests
  BY <1>1, <1>6
<1>8. \A j \in Ids : Holding(j) => Holding(j)'
  BY <1>3 DEF HoldersStay
<1>9. cancellations' \subseteq Occupied
  BY <1>1 DEF Occupied
<1>10. Exclusive'
  BY <1>4, <1>5, <1>7, <1>8, <1>9, ExclusiveStep
<1> QED
  BY <1>2, <1>10

\* Polls and members change neither the table nor the launches.
LEMMA PollXInv ==
  ASSUME AInv, Sweeping, Exclusive, NEW id \in Ids, PollCommand(id) \/ PersistMemberCommand(id)
  PROVE  Sweeping' /\ Exclusive'
<1>1. /\ phase = "command" /\ phase' = "launch" /\ doomedNext' = doomedNext
      /\ requests' = requests /\ cancellations' = cancellations
  BY DEF PollCommand, PersistMemberCommand, AtCommand, sweepVars, tableVars
<1>2. /\ next' = next /\ state' = state /\ spec' = spec /\ started' = started /\ closing' = closing
  BY StillVars DEF PollCommand, PersistMemberCommand, Touch
<1>3. Sweeping'
  BY <1>1, SweepDone DEF Sweeping
<1> QED
  BY <1>1, <1>2, <1>3, StillXInv

\* When admission closes, everybody with an executor holds a place, and the places of a
\* key are one.
LEMMA StopXInv ==
  ASSUME AInv, Sweeping, Exclusive, StopCommand
  PROVE  Sweeping' /\ Exclusive'
<1>1. /\ phase = "command" /\ phase' = "close" /\ doomedNext' = doomedNext
      /\ requests' = requests /\ cancellations' = cancellations
      /\ next' = next /\ state' = state /\ spec' = spec /\ started' = started
      /\ ~closing /\ closing' = TRUE
  BY DEF StopCommand, AtCommand, Close, sweepVars, tableVars
<1>2. Sweeping'
  BY <1>1, SweepDone DEF Sweeping
<1>3. Handed' = Handed /\ Handed \subseteq Ids /\ cancellations \subseteq Ids
  BY <1>1, ListType DEF Handed, AInv, IInv, TypeOK, ActorTypeOK
<1> HIDE DEF Handed
<1>4. Occupied' = Occupied /\ Occupied \subseteq Ids
  BY <1>1, <1>3 DEF Occupied
<1>5. \A j \in Occupied : Holding(j)
  BY <1>1 DEF Exclusive, Occupied
<1>6. \A i, j \in Occupied : i # j => Key(i) # Key(j)
  BY <1>4, <1>5, HoldersDiffer DEF AInv
<1>7. Exclusive'
  BY <1>1, <1>3, <1>4, <1>5, <1>6 DEF Exclusive, Holding, Key
<1> QED
  BY <1>2, <1>7

LEMMA NextXInv ==
  ASSUME ~CancelAgain, XInv, [ActorNext]_allVars PROVE XInv'
<1>1. AInv /\ Sweeping /\ Exclusive
  BY DEF XInv
<1>2. AInv'
  BY <1>1, NextAInv
<1> DEFINE Goal == Sweeping' /\ Exclusive'
<1>3. ASSUME NEW id \in Ids, CancelCommand(id) PROVE Goal
  <2>1. /\ CancelInActor(id) /\ phase = "command" /\ phase' = "launch" /\ doomedNext' = doomedNext
        /\ state[id] # "Cancelling"
    BY <1>3 DEF CancelCommand, AtCommand, sweepVars
  <2>2. Exclusive'
    BY <1>1, <2>1, CancelXInv
  <2>3. Sweeping'
    BY <1>1, <2>1, SweepDone DEF Sweeping
  <2> QED
    BY <2>2, <2>3
<1> HIDE DEF Goal
<1>4. ASSUME Actor PROVE Goal
  <2>1. CASE Internal /\ UNCHANGED actorVars
    BY <1>1, <2>1, InternalXInv DEF Goal
  <2>2. CASE Wake \/ Swept \/ StopDone \/ Stopping \/ StopAudit
    BY <1>1, <2>2, PhaseXInv DEF Goal
  <2>3. CASE ClientsGone
    BY <1>1, <2>3, ClientsGoneXInv DEF Goal
  <2>4. ASSUME NEW id \in Ids, Doom(id) \/ StopCancel(id) PROVE Goal
    BY <1>1, <2>4, DoomXInv, StopCancelXInv DEF Goal
  <2>5. CASE AuditSubmission
    BY <1>1, <2>5, AuditXInv DEF Goal
  <2>6. CASE Launch
    BY <1>1, <2>6, LaunchXInv DEF Goal
  <2> QED
    BY <1>4, <2>1, <2>2, <2>3, <2>4, <2>5, <2>6 DEF Actor
<1>5. ASSUME Commands PROVE Goal
  <2>1. CASE NoCommand
    BY <1>1, <2>1, PhaseXInv DEF Goal
  <2>2. ASSUME NEW w \in Workspaces, NEW s \in Stacks, NEW d \in Digests, NEW leased \in BOOLEAN,
               NEW owner \in Clients \cup {NoClient}, SubmitCommand(w, s, d, leased, owner)
        PROVE  Goal
    BY <1>1, <2>2, SubmitXInv DEF Goal
  <2>3. ASSUME NEW id \in Ids,
               \/ PollCommand(id) \/ CancelCommand(id)
               \/ PersistCommand(id) \/ PersistMemberCommand(id) \/ CompletedCommand(id)
        PROVE  Goal
    BY <1>1, <1>3, <2>3, PollXInv, EndedXInv DEF Goal
  <2>4. CASE SubmitRefused
    BY <1>1, <2>4, LaunchXInv DEF Goal
  <2>5. CASE StopCommand
    BY <1>1, <2>5, StopXInv DEF Goal
  <2> QED
    BY <1>5, <2>1, <2>2, <2>3, <2>4, <2>5 DEF Commands
<1>6. ASSUME \/ Executors
             \/ (Tick \/ \E c \in Clients : ClientExit(c)) /\ UNCHANGED actorVars
             \/ UNCHANGED allVars
      PROVE  Goal
  BY <1>1, <1>6, WorldXInv DEF Goal
<1>7. Goal
  BY <1>4, <1>5, <1>6 DEF ActorNext
<1> QED
  BY <1>2, <1>7 DEF XInv, Goal

-----------------------------------------------------------------------------
\* The theorems.

\* The tables of job_actor and its registry trail keep their types, whatever commands,
\* executors, clients and sweeps do.
THEOREM ActorTypeCorrect == ActorSpec => []ActorTypeOK
<1>1. AInv => ActorTypeOK
  BY DEF AInv
<1> QED
  BY <1>1, SpecAInv, PTL

\* Driven by the actor the scheduler keeps its policy: the actor only ever calls Jobs
\* when no call is under way, so per key one job runs and one waits, and no lane
\* exceeds its cap.
THEOREM ActorKeepsPolicy == ActorSpec => [](OneRunsOneWaits /\ LanesWithinCaps)
<1>1. AInv => OneRunsOneWaits /\ LanesWithinCaps
  <2>1. AInv => OneRunsOneWaits
    BY DEF AInv, IInv, Keyed, OneRunsOneWaits
  <2>2. AInv => LanesWithinCaps
    BY DEF AInv, IInv, Counted, Slotted, Holders, LanesWithinCaps
  <2> QED
    BY <2>1, <2>2
<1> QED
  BY <1>1, SpecAInv, PTL

\* What the registry remembers is what happened, even when its writes fail, the job is
\* cancelled while its executor reports, or Stop closes admission: an ensure is recorded
\* exactly when its job succeeded, and every audit trail is a submission followed by at
\* most one terminal event.
THEOREM HistoryKept == ActorSpec => []HistoryIsTrue
<1>1. AInv => HistoryIsTrue
  BY DEF AInv, Records, Trails, HistoryIsTrue
<1> QED
  BY <1>1, SpecAInv, PTL

\* Every job that holds a place of its lane has somebody who will settle it, and the
\* step that makes a launched job cancelling fires its token.
THEOREM RunningOwned == ActorSpec => RunningIsOwned
<1>1. AInv => HoldersAreOwned
  <2> SUFFICES ASSUME AInv, phase = "wait", NEW id \in Ids, Holding(id),
                      spec[id].stack \notin GenericStacks
               PROVE  \/ \E i \in DOMAIN started : started[i] = id
                      \/ id \in cancellations /\ executor[id] \notin {"none", "ended"}
    BY DEF HoldersAreOwned
  <2>1. id \in cancellations \/ id \in Handed
    BY DEF AInv, Requested, Stack
  <2>2. CASE id \in cancellations
    BY <2>2 DEF AInv, Tasks
  <2>3. CASE id \in Handed
    BY <2>3 DEF Handed, Elems
  <2> QED
    BY <2>1, <2>2, <2>3
<1>2. ASSUME AInv, [ActorNext]_allVars, NEW id \in cancellations,
             state[id] = "Running", state'[id] = "Cancelling"
      PROVE  id \in cancelled'
  <2>1. id \in Ids /\ ~NoMark
    BY <1>2 DEF AInv, ActorTypeOK, NoMark
  <2>2. PICK j \in Ids : CancelInActor(j) \/ (Cancel(j) /\ cancelled' = cancelled \cup {j})
    BY <1>2, <2>1, QuietNoMark
  <2>3. Cancel(j)
    BY <2>2 DEF CancelInActor
  <2>4. id = j
    BY <1>2, <2>1, <2>3, CancelHolders
  <2> QED
    BY <1>2, <2>2, <2>4 DEF CancelInActor
<1>3. AInv /\ [ActorNext]_allVars =>
        [\A id \in cancellations :
           state[id] = "Running" /\ state'[id] = "Cancelling" => id \in cancelled']_allVars
  BY <1>2
<1>4. ActorSpec => []HoldersAreOwned
  BY <1>1, SpecAInv, PTL
<1>5. ActorSpec => LaunchedIsSignalled
  BY <1>3, SpecAInv, PTL DEF ActorSpec, LaunchedIsSignalled
<1> QED
  BY <1>4, <1>5 DEF RunningIsOwned

\* As long as clients do not cancel a job that is already cancelling, two executors
\* never work on the same (workspace, stack) at once, for any number of jobs, lanes of
\* any size, and through Stop.
THEOREM ExecutorsExclusive ==
  ASSUME ~CancelAgain PROVE ActorSpec => []OneExecutorPerKey
<1>1. ActorInit => XInv
  <2> SUFFICES ASSUME ActorInit PROVE XInv
    OBVIOUS
  <2>1. /\ phase = "wait" /\ doomed = {} /\ doomedNext = {} /\ cancellations = {}
        /\ started = <<>> /\ closing = FALSE
    BY DEF ActorInit, Init
  <2>2. Handed = {}
    BY <2>1, EmptyList DEF Handed
  <2>3. Sweeping /\ Exclusive
    BY <2>1, <2>2 DEF Sweeping, Exclusive
  <2> QED
    BY <2>3, InitAInv DEF XInv
<1>2. XInv /\ [ActorNext]_allVars => XInv'
  BY NextXInv
<1>3. XInv => OneExecutorPerKey
  <2> SUFFICES ASSUME XInv, NEW i \in Ids, NEW j \in Ids, Executing(i), Executing(j), i # j,
                      state[i] # "Absent", state[j] # "Absent"
               PROVE  Key(i) # Key(j)
    BY DEF OneExecutorPerKey
  <2>1. i \in cancellations /\ j \in cancellations
    BY DEF XInv, AInv, Tasks, Executing
  <2>2. CASE closing
    BY <2>1, <2>2 DEF XInv, Exclusive, Occupied
  <2>3. CASE ~closing
    BY <2>1, <2>3, HoldersDiffer DEF XInv, AInv, Exclusive
  <2> QED
    BY <2>2, <2>3
<1> QED
  BY <1>1, <1>2, <1>3, PTL DEF ActorSpec
=============================================================================
