--------------------------- MODULE JobTurnsProofs ---------------------------
(***************************************************************************)
(* Proofs of what pump_at promises to those who wait (jobs.rs): a lane with  *)
(* room never idles beside a job it could admit, and workspaces take turns. *)
(***************************************************************************)
EXTENDS JobTurns, JobsProofs

-----------------------------------------------------------------------------
\* A lane with room holds back only jobs whose follower is quiet.

\* pump_at is done with lane c, or not running.
Rested(c) == lane = "none" \/ (lane = "Runner" /\ c = "Control")

\* What a rested lane with room still queues, and what the pump has set aside, are
\* jobs whose follower is quiet.
HeldBack ==
    /\ ~closing =>
         \A c \in Classes, w \in Workspaces :
           Rested(c) /\ running[c] < Cap(c) =>
             \A id \in Elems(queue[c][w]) : state[id] = "Queued" => LeaseStale(id)
    /\ \A w \in Workspaces : \A id \in Elems(deferred[w]) : LeaseStale(id)

\* A step that neither moves an entry nor makes room nor queues a job it knows nor
\* renews a lease.
LEMMA RestFrame ==
  ASSUME IInv, HeldBack,
         UNCHANGED <<queue, running, deferred, lane>>, closing' = TRUE \/ closing' = closing,
         \A j \in Ids : j < next /\ state'[j] = "Queued" => state[j] = "Queued",
         \A j \in Ids : state[j] = "Queued" /\ LeaseStale(j) => LeaseStale(j)'
  PROVE  HeldBack'
<1>1. /\ queue' = queue /\ running' = running /\ deferred' = deferred /\ lane' = lane
  OBVIOUS
<1>2. \A c \in Classes, w \in Workspaces : \A j \in Elems(queue[c][w]) : j \in Ids /\ j < next
  BY ListedType DEF IInv, Placed
<1>3. \A w \in Workspaces : \A j \in Elems(deferred[w]) : j \in Ids /\ state[j] = "Queued"
  BY ListedFacts DEF Waiting
<1>4. ASSUME ~closing', NEW c \in Classes, NEW w \in Workspaces, Rested(c)', running'[c] < Cap(c),
             NEW id \in Elems(queue'[c][w]), state'[id] = "Queued"
      PROVE  LeaseStale(id)'
  <2>1. ~closing /\ Rested(c) /\ running[c] < Cap(c) /\ id \in Elems(queue[c][w])
    BY <1>1, <1>4 DEF Rested
  <2>2. id \in Ids /\ state[id] = "Queued"
    BY <1>2, <1>4, <2>1
  <2>3. LeaseStale(id)
    BY <2>1, <2>2 DEF HeldBack
  <2> QED
    BY <2>2, <2>3
<1>5. ASSUME NEW w \in Workspaces, NEW id \in Elems(deferred'[w]) PROVE LeaseStale(id)'
  BY <1>1, <1>3, <1>5 DEF HeldBack
<1> QED
  BY <1>4, <1>5 DEF HeldBack, Cap

\* A step that calls the pump, or one after close.
LEMMA RestPumped ==
  ASSUME IInv, lane = "none", deferred' = deferred, closing' \/ lane' = "Control"
  PROVE  HeldBack'
<1>1. \A w \in Workspaces : Elems(deferred'[w]) = {}
  BY EmptyList DEF IInv, PumpIdle
<1>2. closing' \/ \A c \in Classes : ~Rested(c)'
  BY DEF Rested
<1> QED
  BY <1>1, <1>2 DEF HeldBack

\* finish_at pumps.
LEMMA RestFinish ==
  ASSUME IInv, lane = "none", NEW id, NEW end, Finish(id, end)
  PROVE  HeldBack'
<1>1. deferred' = deferred /\ closing' = closing /\ lane' = IF closing THEN "none" ELSE "Control"
  BY DEF Finish, StartPump
<1>2. closing' \/ lane' = "Control"
  BY <1>1 DEF IInv, TypeOK
<1> QED
  BY <1>1, <1>2, RestPumped

\* The steps of the pump within a lane: nothing moves in a rested one.
LEMMA RestWithin ==
  ASSUME IInv, HeldBack, NEW w \in Workspaces,
         PumpDrop(w) \/ PumpLapsed(w) \/ PumpDefer(w) \/ PumpAdmit(w)
  PROVE  HeldBack'
<1>1. /\ Pop(w) /\ lane' = lane /\ closing' = closing /\ leases' = leases /\ age' = age
  BY DEF PumpDrop, PumpLapsed, PumpDefer, PumpAdmit, pumpVars, leaseVars
<1>2. /\ lane \in Classes /\ queue[lane][w] # <<>>
      /\ queue' = [queue EXCEPT ![lane][w] = Tail(@)]
      /\ queue \in [Classes -> [Workspaces -> Seq(Ids)]]
      /\ running \in [Classes -> Nat]
      /\ deferred \in [Workspaces -> Seq(Ids)]
      /\ state \in [Ids -> JobStates \cup {"Absent"}]
  BY <1>1 DEF Pop, LaneOpen, NextTurn, IInv, TypeOK
<1>3. \A j : LeaseStale(j)' = LeaseStale(j)
  BY <1>1 DEF LeaseStale
<1>4. PICK id \in Ids : id = Head(queue[lane][w])
  <2>1. queue[lane][w] \in Seq(Ids)
    BY <1>2
  <2> QED
    BY <1>2, <2>1, TailList
<1>5. state' = state \/ state' = [state EXCEPT ![id] = "Running"]
  BY <1>4 DEF PumpDrop, PumpLapsed, PumpDefer, PumpAdmit
<1>6. running' = running \/ running' = [running EXCEPT ![lane] = @ + 1]
  BY DEF PumpDrop, PumpLapsed, PumpDefer, PumpAdmit, slotVars
<1>7. ASSUME ~closing', NEW c \in Classes, NEW v \in Workspaces, Rested(c)', running'[c] < Cap(c),
             NEW j \in Elems(queue'[c][v]), state'[j] = "Queued"
      PROVE  LeaseStale(j)'
  <2>1. c # lane /\ Rested(c) /\ ~closing
    BY <1>1, <1>2, <1>7 DEF Rested, Classes
  <2>2. queue'[c][v] = queue[c][v] /\ running'[c] = running[c]
    BY <1>2, <1>6, <2>1
  <2>3. j \in Elems(queue[c][v]) /\ j \in Ids
    BY <1>7, <2>2, ListedType
  <2>4. state[j] = "Queued"
    BY <1>2, <1>5, <1>7, <2>3
  <2>5. running[c] < Cap(c)
    BY <1>7, <2>2
  <2> QED
    BY <1>3, <2>1, <2>3, <2>4, <2>5 DEF HeldBack
<1>8. ASSUME NEW v \in Workspaces, NEW j \in Elems(deferred'[v]) PROVE LeaseStale(j)'
  <2>1. CASE deferred' = deferred
    BY <1>3, <1>8, <2>1 DEF HeldBack
  <2>2. CASE PumpDefer(w)
    <3>1. LeaseStale(id) /\ deferred' = [deferred EXCEPT ![w] = Append(@, id)]
      BY <1>4, <2>2 DEF PumpDefer
    <3>2. deferred[w] \in Seq(Ids)
      BY <1>2
    <3>3. Elems(Append(deferred[w], id)) = Elems(deferred[w]) \cup {id}
      BY <1>4, <3>2, AppendList
    <3>4. CASE v = w
      <4>1. deferred'[w] = Append(deferred[w], id)
        BY <1>2, <3>1
      <4>2. j \in Elems(deferred[w]) \/ j = id
        BY <1>8, <3>3, <3>4, <4>1
      <4> QED
        BY <1>3, <3>1, <4>2 DEF HeldBack
    <3>5. CASE v # w
      <4>1. deferred'[v] = deferred[v]
        BY <1>2, <3>1, <3>5
      <4> QED
        BY <1>3, <1>8, <4>1 DEF HeldBack
    <3> QED
      BY <3>4, <3>5
  <2> QED
    BY <2>1, <2>2 DEF PumpDrop, PumpLapsed, PumpAdmit, pumpVars
<1> QED
  BY <1>7, <1>8 DEF HeldBack, Cap

\* The end of a lane: it is full, or its queues are empty and only jobs with a quiet
\* follower go back.
LEMMA RestLane ==
  ASSUME IInv, HeldBack, PumpLane
  PROVE  HeldBack'
<1>1. /\ lane \in Classes /\ closing' = closing /\ running' = running /\ state' = state
      /\ leases' = leases /\ age' = age
      /\ queue' = [queue EXCEPT ![lane] = [w \in Workspaces |-> deferred[w] \o @[w]]]
      /\ deferred' = [w \in Workspaces |-> <<>>]
      /\ (lane = "Control" /\ lane' = "Runner") \/ (lane = "Runner" /\ lane' = "none")
      /\ running[lane] >= Cap(lane) \/ \A w \in Workspaces : queue[lane][w] = <<>>
  BY DEF PumpLane, IInv, TypeOK, slotVars, leaseVars
<1>2. /\ queue \in [Classes -> [Workspaces -> Seq(Ids)]]
      /\ running \in [Classes -> Nat] /\ deferred \in [Workspaces -> Seq(Ids)]
  BY DEF IInv, TypeOK
<1>3. \A j : LeaseStale(j)' = LeaseStale(j)
  BY <1>1 DEF LeaseStale
<1>4. ASSUME ~closing', NEW c \in Classes, NEW v \in Workspaces, Rested(c)', running'[c] < Cap(c),
             NEW j \in Elems(queue'[c][v]), state'[j] = "Queued"
      PROVE  LeaseStale(j)'
  <2>1. CASE c = lane
    <3>1. Cap(c) \in Nat /\ running[c] \in Nat /\ running[c] < Cap(c)
      BY <1>1, <1>2, <1>4, Constants DEF Cap
    <3>2. queue[c][v] = <<>>
      BY <1>1, <2>1, <3>1
    <3>3. queue'[c][v] = deferred[v] \o queue[c][v]
      BY <1>1, <1>2, <2>1
    <3>4. deferred[v] \in Seq(Ids) /\ queue[c][v] \in Seq(Ids)
      BY <1>2
    <3>5. Elems(queue'[c][v]) = Elems(deferred[v]) \cup Elems(queue[c][v])
      BY <3>3, <3>4, ConcatList
    <3>6. j \in Elems(deferred[v])
      BY <1>4, <3>2, <3>5, EmptyList
    <3> QED
      BY <1>3, <3>6 DEF HeldBack
  <2>2. CASE c # lane
    <3>1. Rested(c)
      BY <1>1, <1>4, <2>2 DEF Rested, Classes
    <3>2. queue'[c][v] = queue[c][v]
      BY <1>1, <1>2, <2>2
    <3> QED
      BY <1>1, <1>3, <1>4, <3>1, <3>2 DEF HeldBack
  <2> QED
    BY <2>1, <2>2
<1>5. ASSUME NEW v \in Workspaces PROVE Elems(deferred'[v]) = {}
  BY <1>1, EmptyList
<1> QED
  BY <1>4, <1>5 DEF HeldBack, Cap

\* Every step keeps HeldBack.
LEMMA NextHeldBack == IInv /\ HeldBack /\ [Next]_vars => HeldBack'
<1> SUFFICES ASSUME IInv, HeldBack, [Next]_vars PROVE HeldBack'
  OBVIOUS
<1>0. /\ state \in [Ids -> JobStates \cup {"Absent"}] /\ age \in [Ids -> 0..(LeasePeriod + 1)]
      /\ leases \subseteq Ids /\ next \in Nat /\ LeasePeriod \in Nat /\ closing \in BOOLEAN
  BY JobsAssumption, Constants DEF IInv, TypeOK
<1>1. CASE UNCHANGED vars
  <2>1. UNCHANGED <<queue, running, deferred, lane, closing, state, leases, age>>
    BY <1>1 DEF vars, slotVars, pumpVars, leaseVars
  <2>2. \A j \in Ids : LeaseStale(j) => LeaseStale(j)'
    BY <2>1 DEF LeaseStale
  <2> QED
    BY <2>1, <2>2, RestFrame
<1>2. ASSUME NEW w \in Workspaces, PumpDrop(w) \/ PumpLapsed(w) \/ PumpDefer(w) \/ PumpAdmit(w)
      PROVE  HeldBack'
  BY <1>2, RestWithin
<1>3. CASE PumpLane
  BY <1>3, RestLane
<1>4. CASE PumpFinish
  BY <1>4, RestFinish DEF PumpFinish
<1>5. CASE SubmitPlace
  <2>1. lane = "none" /\ closing' = closing /\ leases' = leases /\ age' = age
        /\ running' = running /\ state' = [state EXCEPT ![next] = "Queued"]
    BY <1>5 DEF SubmitPlace, leaseVars, slotVars
  <2>2. CASE UNCHANGED <<active, queue, pumpVars>>
    <3>1. UNCHANGED <<queue, running, deferred, lane>>
      BY <2>1, <2>2 DEF pumpVars
    <3>2. \A j \in Ids : j < next /\ state'[j] = "Queued" => state[j] = "Queued"
      BY <1>0, <2>1
    <3>3. \A j \in Ids : LeaseStale(j) => LeaseStale(j)'
      BY <2>1 DEF LeaseStale
    <3> QED
      BY <2>1, <3>1, <3>2, <3>3, RestFrame
  <2>3. CASE StartPump
    <3>1. deferred' = deferred /\ (closing' \/ lane' = "Control")
      BY <1>0, <2>1, <2>3 DEF StartPump
    <3> QED
      BY <2>1, <3>1, RestPumped
  <2> QED
    BY <1>5, <2>2, <2>3 DEF SubmitPlace
<1>6. CASE SubmitAttach \/ SubmitNoSlot
  <2>1. /\ UNCHANGED <<queue, running, deferred, lane, closing, state, age>>
        /\ leases \subseteq leases'
    BY <1>6 DEF SubmitAttach, SubmitNoSlot, slotVars, pumpVars, leaseVars
  <2>2. \A j \in Ids : LeaseStale(j) => LeaseStale(j)'
    BY <2>1 DEF LeaseStale
  <2> QED
    BY <2>1, <2>2, RestFrame
<1>7. ASSUME NEW id \in Ids, CloseFinish(id) PROVE HeldBack'
  BY <1>7, RestFinish DEF CloseFinish
<1>8. ASSUME NEW w, NEW s, NEW d, NEW owner, SubmitJoin(w, s, d, owner) PROVE HeldBack'
  <2>1. UNCHANGED <<queue, running, deferred, lane, closing, state, leases, age>>
    BY <1>8 DEF SubmitJoin, slotVars, pumpVars
  <2>2. \A j \in Ids : LeaseStale(j) => LeaseStale(j)'
    BY <2>1 DEF LeaseStale
  <2> QED
    BY <2>1, <2>2, RestFrame
<1>9. ASSUME NEW w, NEW s, NEW d, NEW leased, NEW owner, SubmitNew(w, s, d, leased, owner)
      PROVE  HeldBack'
  <2>1. CASE Finish(pending[<<w, s>>], "Superseded")
    BY <1>9, <2>1, RestFinish, ReadyFacts DEF SubmitNew
  <2>2. CASE ~Finish(pending[<<w, s>>], "Superseded")
    <3>1. UNCHANGED <<queue, running, deferred, lane, closing, state, leases, age>>
      BY <1>9, <2>2 DEF SubmitNew, slotVars, pumpVars, leaseVars
    <3>2. \A j \in Ids : LeaseStale(j) => LeaseStale(j)'
      BY <3>1 DEF LeaseStale
    <3> QED
      BY <3>1, <3>2, RestFrame
  <2> QED
    BY <2>1, <2>2
<1>10. ASSUME NEW id \in Ids, Touch(id) PROVE HeldBack'
  <2>1. /\ lane = "none" /\ age' = [age EXCEPT ![id] = 0]
        /\ UNCHANGED <<state, queue, running, leases, closing>>
    BY <1>10, ReadyFacts DEF Touch, slotVars
  <2>2. CASE state[id] = "Queued"
    <3>1. deferred' = deferred /\ (closing' \/ lane' = "Control")
      BY <1>0, <1>10, <2>1, <2>2 DEF Touch, StartPump
    <3> QED
      BY <2>1, <3>1, RestPumped
  <2>3. CASE state[id] # "Queued"
    <3>1. UNCHANGED <<deferred, lane>>
      BY <1>10, <2>3 DEF Touch, pumpVars
    <3>2. \A j \in Ids : state[j] = "Queued" /\ LeaseStale(j) => LeaseStale(j)'
      BY <1>0, <2>1, <2>3 DEF LeaseStale
    <3> QED
      BY <2>1, <3>1, <3>2, RestFrame
  <2> QED
    BY <2>2, <2>3
<1>11. ASSUME NEW id \in Ids, Cancel(id) PROVE HeldBack'
  <2>1. CASE Finish(id, "Cancelled")
    BY <1>11, <2>1, RestFinish, ReadyFacts DEF Cancel
  <2>2. CASE ~Finish(id, "Cancelled")
    <3>1. /\ UNCHANGED <<queue, running, deferred, lane, closing, leases, age>>
          /\ state' = [state EXCEPT ![id] = "Cancelling"]
      BY <1>11, <2>2 DEF Cancel, slotVars, pumpVars, leaseVars
    <3>2. \A j \in Ids : LeaseStale(j) => LeaseStale(j)'
      BY <3>1 DEF LeaseStale
    <3>3. \A j \in Ids : state'[j] = "Queued" => state[j] = "Queued"
      BY <1>0, <3>1
    <3> QED
      BY <3>1, <3>2, <3>3, RestFrame
  <2> QED
    BY <2>1, <2>2
<1>12. ASSUME NEW id \in Ids, NEW ok \in Results, Settle(id, ok) PROVE HeldBack'
  BY <1>12, RestFinish, ReadyFacts DEF Settle
<1>13. CASE Close
  <2>1. UNCHANGED <<queue, running, deferred, lane, state, leases, age>> /\ closing' = TRUE
    BY <1>13 DEF Close, slotVars, pumpVars, leaseVars
  <2>2. \A j \in Ids : LeaseStale(j) => LeaseStale(j)'
    BY <2>1 DEF LeaseStale
  <2> QED
    BY <2>1, <2>2, RestFrame
<1>14. ASSUME TakeStarted \/ (\E dead \in SUBSET gone : Orphaned(dead))
              \/ (\E c \in Clients : ClientExit(c))
       PROVE  HeldBack'
  <2>1. UNCHANGED <<queue, running, deferred, lane, closing, state, leases, age>>
    BY <1>14 DEF TakeStarted, Orphaned, ClientExit, slotVars, pumpVars, leaseVars
  <2>2. \A j \in Ids : LeaseStale(j) => LeaseStale(j)'
    BY <2>1 DEF LeaseStale
  <2> QED
    BY <2>1, <2>2, RestFrame
<1>15. CASE Tick
  <2>1. /\ UNCHANGED <<queue, running, deferred, lane, closing, state, leases>>
        /\ age' = [j \in Ids |-> IF j \in leases /\ age[j] <= LeasePeriod THEN age[j] + 1 ELSE age[j]]
    BY <1>15 DEF Tick, slotVars, pumpVars
  <2>2. ASSUME NEW j \in Ids, LeaseStale(j) PROVE LeaseStale(j)'
    <3>1. age[j] \in Nat /\ age'[j] \in Nat /\ age'[j] >= age[j]
      BY <1>0, <2>1
    <3> QED
      BY <1>0, <2>1, <2>2, <3>1 DEF LeaseStale
  <2> QED
    BY <2>1, <2>2, RestFrame
<1>16. CASE Internal
  BY <1>2, <1>3, <1>4, <1>5, <1>6, <1>7, <1>16 DEF Internal, Pump, Submission
<1>17. CASE Calls
  BY <1>8, <1>9, <1>10, <1>11, <1>12, <1>13, <1>14, <1>17 DEF Calls, Submit
<1> QED
  BY <1>1, <1>14, <1>15, <1>16, <1>17 DEF Next

\* jobs.rs, pump_at and touch: between calls, a job that may run and does not is one
\* whose lane is full or whose follower is quiet.  No promotion, push-back or renewed
\* lease leaves an admissible job waiting beside a free place, however pumps nest.
THEOREM LanesConserveWork == Spec => []WorkConserving
<1>1. Init => HeldBack
  <2> SUFFICES ASSUME Init PROVE HeldBack
    OBVIOUS
  <2>1. /\ queue = [c \in Classes |-> [w \in Workspaces |-> <<>>]]
        /\ deferred = [w \in Workspaces |-> <<>>]
    BY DEF Init
  <2>2. /\ \A c \in Classes, w \in Workspaces : Elems(queue[c][w]) = {}
        /\ \A w \in Workspaces : Elems(deferred[w]) = {}
    BY <2>1, EmptyList
  <2> QED
    BY <2>2 DEF HeldBack
<1>2. IInv /\ HeldBack => WorkConserving
  <2> SUFFICES ASSUME IInv, HeldBack, Ready, ~closing, NEW id \in Ids,
                      state[id] = "Queued", active[Key(id)] = id,
                      running[Class(id)] < Cap(Class(id))
               PROVE  LeaseStale(id)
    BY DEF WorkConserving
  <2>1. lane = "none" /\ Elems(work) = {}
    BY ReadyFacts
  <2>2. Waiting(id) /\ Class(id) \in Classes /\ spec[id].workspace \in Workspaces
    BY ListedType DEF Waiting
  <2>3. Elems(lapsed) = {} /\ HomeDeferred(id) = {}
    BY <2>1, <2>2, EmptyList DEF IInv, PumpIdle, HomeDeferred
  <2>4. id \in Elems(queue[Class(id)][spec[id].workspace])
    BY <2>1, <2>2, <2>3 DEF IInv, Covered, HomeQueue
  <2> QED
    BY <2>1, <2>2, <2>4 DEF HeldBack, Rested
<1> QED
  BY <1>1, <1>2, NextHeldBack, SpecIInv, PTL DEF Spec

-----------------------------------------------------------------------------
\* Workspaces take turns.

\* The step admits nobody and gives nobody a turn.
Quiet == served' = served /\ \A c \in Classes, v \in Workspaces : ~Admitted(c, v)

\* The step is workspace w's turn in the lane being pumped.
Turn(w) ==
    /\ lane \in Classes
    /\ NextTurn(lane, w)
    /\ served' = [served EXCEPT ![lane] = w]
    /\ HeadReady(lane, w) => Admitted(lane, w)
    /\ \A c \in Classes, v \in Workspaces : Admitted(c, v) => c = lane /\ v = w

\* A step after which no queued job runs admits nobody.
LEMMA NobodyAdmitted ==
  ASSUME served' = served,
         \A j \in Ids : state[j] = "Queued" => state'[j] # "Running"
  PROVE  Quiet
  BY DEF Quiet, Admitted

\* finish_at admits nobody by itself: the pump does.
LEMMA FinishQuiet ==
  ASSUME IInv, NEW id \in Ids, Unfinished(id), NEW end \in Terminal, Finish(id, end)
  PROVE  Quiet
<1>1. state'[id] = end /\ \A j \in Ids : j # id => state'[j] \in {state[j], "Absent"}
  BY FinishOutcome
<1>2. end # "Running" /\ served' = served
  BY DEF Terminal, Finish
<1>3. \A j \in Ids : state[j] = "Queued" => state'[j] # "Running"
  BY <1>1, <1>2
<1> QED
  BY <1>2, <1>3, NobodyAdmitted

\* next_queued serves the workspace whose turn it is; a ready head is admitted.
LEMMA PumpTurn ==
  ASSUME IInv, NEW w \in Workspaces, PumpLapsed(w) \/ PumpDefer(w) \/ PumpAdmit(w)
  PROVE  Turn(w)
<1>1. /\ Pop(w) /\ served' = [served EXCEPT ![lane] = w]
  BY DEF PumpLapsed, PumpDefer, PumpAdmit
<1>2. /\ lane \in Classes /\ NextTurn(lane, w) /\ queue[lane][w] # <<>>
      /\ queue[lane][w] \in Seq(Ids) /\ state \in [Ids -> JobStates \cup {"Absent"}]
  BY <1>1 DEF Pop, LaneOpen, NextTurn, IInv, TypeOK
<1>3. PICK id \in Ids : id = Head(queue[lane][w]) /\ id \in Elems(queue[lane][w])
  BY <1>2, TailList
<1>4. CASE PumpAdmit(w)
  <2>1. state[id] = "Queued" /\ state' = [state EXCEPT ![id] = "Running"]
    BY <1>3, <1>4 DEF PumpAdmit
  <2>2. Class(id) = lane /\ spec[id].workspace = w
    BY <1>2, <1>3, <2>1 DEF IInv, Placed
  <2>3. state'[id] = "Running" /\ \A j \in Ids : j # id => state'[j] = state[j]
    BY <1>2, <2>1
  <2>4. Admitted(lane, w)
    BY <2>1, <2>2, <2>3 DEF Admitted
  <2>5. ASSUME NEW c \in Classes, NEW v \in Workspaces, Admitted(c, v) PROVE c = lane /\ v = w
    <3>1. PICK j \in Ids : /\ state[j] = "Queued" /\ state'[j] = "Running"
                           /\ spec[j].workspace = v /\ Class(j) = c
      BY <2>5 DEF Admitted
    <3>2. j = id
      BY <2>3, <3>1
    <3> QED
      BY <2>2, <3>1, <3>2
  <2> QED
    BY <1>1, <1>2, <2>4, <2>5 DEF Turn
<1>5. CASE PumpLapsed(w) \/ PumpDefer(w)
  <2>1. state' = state /\ (LeaseLapsed(id) \/ LeaseStale(id))
    BY <1>3, <1>5 DEF PumpLapsed, PumpDefer
  <2>2. LeaseStale(id)
    <3>1. age[id] \in Nat /\ LeasePeriod \in Nat
      BY JobsAssumption DEF IInv, TypeOK
    <3> QED
      BY <2>1, <3>1 DEF LeaseLapsed, LeaseStale
  <2>3. ~HeadReady(lane, w)
    BY <1>3, <2>2 DEF HeadReady
  <2>4. \A c \in Classes, v \in Workspaces : ~Admitted(c, v)
    BY <2>1 DEF Admitted
  <2> QED
    BY <1>1, <1>2, <2>3, <2>4 DEF Turn
<1> QED
  BY <1>4, <1>5

\* Every step is quiet or a turn.
LEMMA StepKinds ==
  ASSUME IInv, Next
  PROVE  Quiet \/ \E w \in Workspaces : Turn(w)
<1>0. state \in [Ids -> JobStates \cup {"Absent"}] /\ next \in Nat
  BY Constants DEF IInv, TypeOK
<1>1. CASE served' = served /\ state' = state
  BY <1>1, NobodyAdmitted
<1>2. ASSUME NEW w \in Workspaces, PumpLapsed(w) \/ PumpDefer(w) \/ PumpAdmit(w) PROVE Turn(w)
  BY <1>2, PumpTurn
<1>3. CASE PumpFinish
  <2>1. work \in Seq(Ids) /\ work # <<>> /\ Finish(Head(work), "Cancelled")
    BY <1>3 DEF IInv, TypeOK, PumpFinish
  <2>2. PICK id \in Ids : id = Head(work) /\ id \in Elems(work)
    BY <2>1, TailList
  <2>3. Finish(id, "Cancelled") /\ Unfinished(id) /\ "Cancelled" \in Terminal
    BY <2>1, <2>2, ListedFacts DEF Waiting, Unfinished, Terminal
  <2> QED
    BY <2>3, FinishQuiet
<1>4. CASE SubmitPlace
  <2>1. served' = served /\ state' = [state EXCEPT ![next] = "Queued"]
    BY <1>4 DEF SubmitPlace
  <2>2. \A j \in Ids : state[j] = "Queued" => state'[j] # "Running"
    BY <1>0, <2>1
  <2> QED
    BY <2>1, <2>2, NobodyAdmitted
<1>5. ASSUME NEW id \in Ids, CloseFinish(id) PROVE Quiet
  <2>1. Finish(id, "Cancelled") /\ Unfinished(id) /\ "Cancelled" \in Terminal
    BY <1>5 DEF CloseFinish, Unfinished, Terminal
  <2> QED
    BY <2>1, FinishQuiet
<1>6. ASSUME NEW w \in Workspaces, NEW s \in Stacks, NEW d, NEW leased, NEW owner,
             SubmitNew(w, s, d, leased, owner)
      PROVE  Quiet
  <2>1. CASE pending[<<w, s>>] # NoId /\ Finish(pending[<<w, s>>], "Superseded")
    <3>1. <<w, s>> \in Keys
      BY DEF Keys
    <3>2. PICK id \in Ids : id = pending[<<w, s>>] /\ Unfinished(id)
      BY <2>1, <3>1 DEF IInv, TypeOK, Keyed
    <3>3. Finish(id, "Superseded") /\ "Superseded" \in Terminal
      BY <2>1, <3>2 DEF Terminal
    <3> QED
      BY <3>2, <3>3, FinishQuiet
  <2>2. CASE UNCHANGED <<served, state>>
    BY <2>2, NobodyAdmitted
  <2> QED
    BY <1>6, <2>1, <2>2 DEF SubmitNew
<1>7. ASSUME NEW id \in Ids, Cancel(id) PROVE Quiet
  <2>1. CASE state[id] = "Running" /\ state' = [state EXCEPT ![id] = "Cancelling"] /\ served' = served
    <3>1. \A j \in Ids : state[j] = "Queued" => state'[j] # "Running"
      BY <1>0, <2>1
    <3> QED
      BY <2>1, <3>1, NobodyAdmitted
  <2>2. CASE state[id] \in {"Queued", "Cancelling"} /\ Finish(id, "Cancelled")
    <3>1. Unfinished(id) /\ "Cancelled" \in Terminal
      BY <2>2 DEF Unfinished, Terminal
    <3> QED
      BY <2>2, <3>1, FinishQuiet
  <2> QED
    BY <1>7, <2>1, <2>2 DEF Cancel
<1>8. ASSUME NEW id \in Ids, NEW ok \in Results, Settle(id, ok) PROVE Quiet
  <2>1. Unfinished(id) /\ Finish(id, SettledState(id, ok))
    BY <1>8 DEF Settle
  <2>2. SettledState(id, ok) \in Terminal
    BY DEF SettledState, Terminal
  <2> QED
    BY <2>1, <2>2, FinishQuiet
<1>9. ASSUME NEW w \in Workspaces, PumpDrop(w) PROVE Quiet
  BY <1>1, <1>9, NobodyAdmitted DEF PumpDrop
<1>10. ASSUME PumpLane \/ SubmitNoSlot \/ SubmitAttach PROVE Quiet
  BY <1>10, NobodyAdmitted DEF PumpLane, SubmitNoSlot, SubmitAttach
<1>11. ASSUME NEW id \in Ids, Touch(id) PROVE Quiet
  BY <1>11, NobodyAdmitted DEF Touch
<1>12. ASSUME Close \/ TakeStarted \/ Tick \/ (\E dead \in SUBSET gone : Orphaned(dead))
              \/ (\E c \in Clients : ClientExit(c))
       PROVE  Quiet
  BY <1>12, NobodyAdmitted DEF Close, TakeStarted, Tick, Orphaned, ClientExit
<1>13. ASSUME NEW w, NEW s, NEW d, NEW owner, SubmitJoin(w, s, d, owner) PROVE Quiet
  BY <1>13, NobodyAdmitted DEF SubmitJoin
<1>14. CASE Internal
  BY <1>2, <1>3, <1>4, <1>5, <1>9, <1>10, <1>14 DEF Internal, Pump, Submission
<1>15. CASE Calls
  BY <1>6, <1>7, <1>8, <1>11, <1>12, <1>13, <1>15 DEF Calls, Submit
<1> QED
  BY <1>12, <1>14, <1>15 DEF Next

\* The place of workspace w in the order of turns after workspace s was served.
RankAfter(s, w) == IF w > s THEN w ELSE w + NWorkspaces

\* A turn moves the workspace that took it to the end and keeps the order of those
\* after it.
LEMMA TurnOrder ==
  ASSUME NEW s \in 0..NWorkspaces, NEW u \in Workspaces, NEW a \in Workspaces
  PROVE  /\ a # u => RankAfter(u, a) < RankAfter(u, u)
         /\ \A b \in Workspaces :
               RankAfter(s, u) <= RankAfter(s, a) /\ a # u /\ RankAfter(s, a) < RankAfter(s, b)
                 => RankAfter(u, a) < RankAfter(u, b)
  BY Constants DEF RankAfter, Workspaces

\* Who was passed has a ready head, was passed once, and comes before the workspace
\* that passed it.
Passing ==
    /\ passed \in [Classes -> [Workspaces -> [Workspaces -> Nat]]]
    /\ \A c \in Classes, w, v \in Workspaces :
         /\ passed[c][w][v] # 0 => HeadReady(c, w) /\ Rank(c, w) < Rank(c, v)
         /\ passed[c][w][v] <= 1

\* A step of the scheduler keeps the order of who was passed.
LEMMA TurnsPassing ==
  ASSUME IInv, Passing, TurnsNext
  PROVE  Passing'
<1> DEFINE Count(c, w, v) == IF Admitted(c, w) \/ ~HeadReady(c, w)' THEN 0
                             ELSE IF Admitted(c, v) THEN passed[c][w][v] + 1
                             ELSE passed[c][w][v]
<1>1. passed' = [c \in Classes |-> [w \in Workspaces |-> [v \in Workspaces |-> Count(c, w, v)]]]
  BY DEF TurnsNext
<1>2. /\ passed \in [Classes -> [Workspaces -> [Workspaces -> Nat]]]
      /\ served \in [Classes -> 0..NWorkspaces]
  BY DEF Passing, IInv, TypeOK
<1>3. \A c \in Classes, w, v \in Workspaces : Count(c, w, v) \in Nat
  BY <1>2
<1>4. \A c \in Classes, w, v \in Workspaces : passed'[c][w][v] = Count(c, w, v)
  BY <1>1
<1>5. passed' \in [Classes -> [Workspaces -> [Workspaces -> Nat]]]
  BY <1>1, <1>3
<1> HIDE DEF Count
<1>6. ASSUME NEW c \in Classes, NEW w \in Workspaces, NEW v \in Workspaces, Count(c, w, v) # 0
      PROVE  /\ HeadReady(c, w)' /\ ~Admitted(c, w)
             /\ Count(c, w, v) = IF Admitted(c, v) THEN passed[c][w][v] + 1 ELSE passed[c][w][v]
  BY <1>6 DEF Count
<1>7. ASSUME NEW c \in Classes, NEW w \in Workspaces, NEW v \in Workspaces, Count(c, w, v) # 0
      PROVE  Rank(c, w)' < Rank(c, v)' /\ Count(c, w, v) <= 1
  <2>1. CASE Quiet
    <3>1. Count(c, w, v) = passed[c][w][v] /\ served' = served
      BY <1>6, <1>7, <2>1 DEF Quiet
    <3>2. Rank(c, w)' = Rank(c, w) /\ Rank(c, v)' = Rank(c, v)
      BY <3>1 DEF Rank
    <3> QED
      BY <1>7, <3>1, <3>2 DEF Passing
  <2>2. ASSUME NEW u \in Workspaces, Turn(u), c # lane
        PROVE  Rank(c, w)' < Rank(c, v)' /\ Count(c, w, v) <= 1
    <3>1. ~Admitted(c, v) /\ served'[c] = served[c]
      BY <1>2, <2>2 DEF Turn
    <3>2. Count(c, w, v) = passed[c][w][v]
      BY <1>6, <1>7, <3>1
    <3>3. Rank(c, w)' = Rank(c, w) /\ Rank(c, v)' = Rank(c, v)
      BY <3>1 DEF Rank
    <3> QED
      BY <1>7, <3>2, <3>3 DEF Passing
  <2>3. ASSUME NEW u \in Workspaces, Turn(u), c = lane
        PROVE  Rank(c, w)' < Rank(c, v)' /\ Count(c, w, v) <= 1
    <3>1. /\ served'[c] = u /\ NextTurn(c, u)
          /\ HeadReady(c, u) => Admitted(c, u)
          /\ Admitted(c, v) => v = u
      BY <1>2, <2>3 DEF Turn
    <3>2. ~Admitted(c, w) /\ HeadReady(c, w)'
      BY <1>6, <1>7
    <3>3. PICK s \in 0..NWorkspaces : s = served[c]
      BY <1>2
    <3>4. /\ \A x \in Workspaces : Rank(c, x) = RankAfter(s, x)
          /\ Rank(c, w)' = RankAfter(u, w) /\ Rank(c, v)' = RankAfter(u, v)
      BY <3>1, <3>3 DEF Rank, RankAfter
    <3>5. CASE passed[c][w][v] # 0
      <4>1. HeadReady(c, w) /\ RankAfter(s, w) < RankAfter(s, v) /\ passed[c][w][v] <= 1
        BY <3>4, <3>5 DEF Passing
      <4>2. RankAfter(s, u) <= RankAfter(s, w)
        BY <3>1, <3>4, <4>1 DEF NextTurn, HeadReady
      <4>3. w # u
        BY <3>1, <3>2, <4>1
      <4>4. RankAfter(u, w) < RankAfter(u, v)
        BY <4>1, <4>2, <4>3, TurnOrder
      <4>5. v # u
        BY <4>1, <4>2, Constants DEF RankAfter, Workspaces
      <4>6. Count(c, w, v) = passed[c][w][v]
        BY <1>6, <1>7, <3>1, <4>5
      <4> QED
        BY <3>4, <4>1, <4>4, <4>6
    <3>6. CASE passed[c][w][v] = 0
      <4>1. Admitted(c, v) /\ Count(c, w, v) = 1
        BY <1>6, <1>7, <3>6
      <4>2. v = u /\ w # u
        BY <3>1, <3>2, <4>1
      <4> QED
        BY <3>4, <4>1, <4>2, TurnOrder
    <3> QED
      BY <3>5, <3>6
  <2> QED
    BY <2>1, <2>2, <2>3, StepKinds DEF TurnsNext
<1>8. \A c \in Classes, w, v \in Workspaces :
        /\ passed'[c][w][v] # 0 => HeadReady(c, w)' /\ Rank(c, w)' < Rank(c, v)'
        /\ passed'[c][w][v] <= 1
  BY <1>3, <1>4, <1>6, <1>7
<1> QED
  BY <1>5, <1>8 DEF Passing

\* jobs.rs, module policy, and next_queued: a workspace whose oldest job could be
\* admitted is never passed twice by another workspace, for any number of workspaces,
\* whatever is pushed back, lapses, is renewed or drained in between.
THEOREM TurnsAreFair == TurnsSpec => []NobodyPassedTwice
<1>1. TurnsInit => IInv /\ Passing
  <2> SUFFICES ASSUME TurnsInit PROVE IInv /\ Passing
    OBVIOUS
  <2>1. passed = [c \in Classes |-> [w \in Workspaces |-> [v \in Workspaces |-> 0]]]
    BY DEF TurnsInit
  <2> QED
    BY <2>1, InitIInv DEF TurnsInit, Passing
<1>2. IInv /\ Passing /\ [TurnsNext]_turnVars => (IInv /\ Passing)'
  <2> SUFFICES ASSUME IInv, Passing, [TurnsNext]_turnVars PROVE IInv' /\ Passing'
    OBVIOUS
  <2>1. CASE TurnsNext
    BY <2>1, NextIInv, TurnsPassing DEF TurnsNext
  <2>2. CASE UNCHANGED turnVars
    <3>1. UNCHANGED vars /\ passed' = passed
      BY <2>2 DEF turnVars
    <3>2. UNCHANGED <<queue, state, leases, age, served>>
      BY <3>1 DEF vars, leaseVars
    <3>3. \A c, w : HeadReady(c, w)' = HeadReady(c, w) /\ Rank(c, w)' = Rank(c, w)
      BY <3>2 DEF HeadReady, LeaseStale, Rank
    <3> QED
      BY <3>1, <3>3, NextIInv DEF Passing
  <2> QED
    BY <2>1, <2>2
<1>3. Passing => NobodyPassedTwice
  BY DEF Passing, NobodyPassedTwice
<1> QED
  BY <1>1, <1>2, <1>3, PTL DEF TurnsSpec

=============================================================================
