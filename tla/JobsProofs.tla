----------------------------- MODULE JobsProofs -----------------------------
(***************************************************************************)
(* Proofs about the scheduler of module Jobs, for every number of           *)
(* workspaces, stacks, clients and jobs and every lane size.                *)
(*                                                                          *)
(* The lists of job IDs that the pump moves entries between (the queues,    *)
(* and its deferred, lapsed and work lists) are handled as sets of entries  *)
(* without repetitions: Elems and Inj below.                                *)
(***************************************************************************)
EXTENDS Jobs, SequenceTheorems, FiniteSetTheorems, TLAPS

Elems(s) == {s[i] : i \in DOMAIN s}
Inj(s) == \A i, j \in DOMAIN s : s[i] = s[j] => i = j

\* The empty list.
LEMMA EmptyList == Elems(<<>>) = {} /\ Inj(<<>>)
  BY DEF Elems, Inj

\* Entries of a list are members of its base set, and its length is a number.
LEMMA ListType ==
  ASSUME NEW S, NEW s \in Seq(S)
  PROVE  /\ Elems(s) \subseteq S
         /\ Len(s) \in Nat
         /\ DOMAIN s = 1..Len(s)
         /\ s # <<>> => Len(s) > 0
  BY DEF Elems

\* push_back
LEMMA AppendList ==
  ASSUME NEW S, NEW s \in Seq(S), NEW e \in S
  PROVE  /\ Append(s, e) \in Seq(S)
         /\ Elems(Append(s, e)) = Elems(s) \cup {e}
         /\ Inj(s) /\ e \notin Elems(s) => Inj(Append(s, e))
<1>1. /\ Append(s, e) \in Seq(S) /\ Len(s) \in Nat
      /\ DOMAIN s = 1..Len(s) /\ DOMAIN Append(s, e) = 1..(Len(s) + 1)
      /\ \A i \in 1..Len(s) : Append(s, e)[i] = s[i]
      /\ Append(s, e)[Len(s) + 1] = e
  OBVIOUS
<1>2. Elems(Append(s, e)) = Elems(s) \cup {e}
  <2>1. ASSUME NEW x \in Elems(Append(s, e)) PROVE x \in Elems(s) \cup {e}
    <3>1. PICK i \in 1..(Len(s) + 1) : x = Append(s, e)[i]
      BY <1>1 DEF Elems
    <3> QED
      BY <3>1, <1>1 DEF Elems
  <2>2. ASSUME NEW x \in Elems(s) PROVE x \in Elems(Append(s, e))
    <3>1. PICK i \in 1..Len(s) : x = s[i]
      BY <1>1 DEF Elems
    <3>2. i \in 1..(Len(s) + 1) /\ x = Append(s, e)[i]
      BY <3>1, <1>1
    <3> QED
      BY <3>2, <1>1 DEF Elems
  <2>3. e \in Elems(Append(s, e))
    <3>1. Len(s) + 1 \in 1..(Len(s) + 1)
      BY <1>1
    <3> QED
      BY <3>1, <1>1 DEF Elems
  <2> QED
    BY <2>1, <2>2, <2>3
<1>3. ASSUME Inj(s), e \notin Elems(s),
             NEW i \in 1..(Len(s) + 1), NEW j \in 1..(Len(s) + 1),
             Append(s, e)[i] = Append(s, e)[j]
      PROVE  i = j
  BY <1>1, <1>3 DEF Elems, Inj
<1> QED
  BY <1>1, <1>2, <1>3 DEF Inj

\* pop_front
LEMMA TailList ==
  ASSUME NEW S, NEW s \in Seq(S), s # <<>>
  PROVE  /\ Tail(s) \in Seq(S)
         /\ Head(s) \in S
         /\ Head(s) \in Elems(s)
         /\ Elems(Tail(s)) \subseteq Elems(s)
         /\ Inj(s) => Inj(Tail(s)) /\ Elems(Tail(s)) = Elems(s) \ {Head(s)}
<1>1. /\ Tail(s) \in Seq(S) /\ Len(s) \in Nat \ {0} /\ DOMAIN s = 1..Len(s)
      /\ DOMAIN Tail(s) = 1..(Len(s) - 1)
      /\ \A i \in 1..(Len(s) - 1) : Tail(s)[i] = s[i + 1]
      /\ Head(s) = s[1]
  OBVIOUS
<1>2. Head(s) \in S /\ Head(s) \in Elems(s)
  BY <1>1 DEF Elems
<1>3. Elems(Tail(s)) \subseteq Elems(s)
  <2>1. ASSUME NEW x \in Elems(Tail(s)) PROVE x \in Elems(s)
    <3>1. PICK i \in 1..(Len(s) - 1) : x = s[i + 1]
      BY <1>1 DEF Elems
    <3>2. i + 1 \in 1..Len(s)
      BY <1>1
    <3> QED
      BY <3>1, <3>2, <1>1 DEF Elems
  <2> QED
    BY <2>1
<1>4. ASSUME Inj(s) PROVE Inj(Tail(s)) /\ Elems(Tail(s)) = Elems(s) \ {Head(s)}
  <2>1. Inj(Tail(s))
    <3> SUFFICES ASSUME NEW i \in 1..(Len(s) - 1), NEW j \in 1..(Len(s) - 1),
                        Tail(s)[i] = Tail(s)[j]
                 PROVE  i = j
      BY <1>1 DEF Inj
    <3>1. i + 1 \in 1..Len(s) /\ j + 1 \in 1..Len(s) /\ s[i + 1] = s[j + 1]
      BY <1>1
    <3>2. i + 1 = j + 1
      BY <3>1, <1>1, <1>4 DEF Inj
    <3> QED
      BY <3>2
  <2>2. Head(s) \notin Elems(Tail(s))
    <3> SUFFICES ASSUME Head(s) \in Elems(Tail(s)) PROVE FALSE
      OBVIOUS
    <3>1. PICK i \in 1..(Len(s) - 1) : s[1] = s[i + 1]
      BY <1>1 DEF Elems
    <3>2. i + 1 \in 1..Len(s) /\ 1 \in 1..Len(s)
      BY <1>1
    <3>3. 1 = i + 1
      BY <3>1, <3>2, <1>1, <1>4 DEF Inj
    <3> QED
      BY <3>3
  <2>3. ASSUME NEW x \in Elems(s), x # Head(s) PROVE x \in Elems(Tail(s))
    <3>1. PICK i \in 1..Len(s) : x = s[i]
      BY <1>1 DEF Elems
    <3>2. i - 1 \in 1..(Len(s) - 1) /\ x = Tail(s)[i - 1]
      BY <3>1, <2>3, <1>1
    <3> QED
      BY <3>2, <1>1 DEF Elems
  <2> QED
    BY <2>1, <2>2, <2>3, <1>3
<1> QED
  BY <1>1, <1>2, <1>3, <1>4

\* Two lists one after the other.
LEMMA ConcatList ==
  ASSUME NEW S, NEW s \in Seq(S), NEW t \in Seq(S)
  PROVE  /\ s \o t \in Seq(S)
         /\ Elems(s \o t) = Elems(s) \cup Elems(t)
         /\ Inj(s) /\ Inj(t) /\ Elems(s) \cap Elems(t) = {} => Inj(s \o t)
<1>1. /\ s \o t \in Seq(S) /\ Len(s) \in Nat /\ Len(t) \in Nat
      /\ DOMAIN s = 1..Len(s) /\ DOMAIN t = 1..Len(t)
      /\ DOMAIN (s \o t) = 1..(Len(s) + Len(t))
      /\ \A i \in 1..(Len(s) + Len(t)) :
            (s \o t)[i] = IF i <= Len(s) THEN s[i] ELSE t[i - Len(s)]
  BY ConcatProperties, LenProperties
<1>2. ASSUME NEW x \in Elems(s \o t) PROVE x \in Elems(s) \cup Elems(t)
  <2>1. PICK i \in 1..(Len(s) + Len(t)) : x = (s \o t)[i]
    BY <1>1 DEF Elems
  <2>2. CASE i <= Len(s)
    BY <2>1, <2>2, <1>1 DEF Elems
  <2>3. CASE i > Len(s)
    <3>1. i - Len(s) \in 1..Len(t) /\ x = t[i - Len(s)]
      BY <2>1, <2>3, <1>1
    <3> QED
      BY <3>1, <1>1 DEF Elems
  <2> QED
    BY <2>2, <2>3, <1>1
<1>3. ASSUME NEW x \in Elems(s) PROVE x \in Elems(s \o t)
  <2>1. PICK i \in 1..Len(s) : x = s[i]
    BY <1>1 DEF Elems
  <2>2. i \in 1..(Len(s) + Len(t)) /\ x = (s \o t)[i]
    BY <2>1, <1>1
  <2> QED
    BY <2>2, <1>1 DEF Elems
<1>4. ASSUME NEW x \in Elems(t) PROVE x \in Elems(s \o t)
  <2>1. PICK i \in 1..Len(t) : x = t[i]
    BY <1>1 DEF Elems
  <2>2. /\ i + Len(s) \in 1..(Len(s) + Len(t)) /\ ~(i + Len(s) <= Len(s))
        /\ (i + Len(s)) - Len(s) = i
    BY <1>1
  <2>3. x = (s \o t)[i + Len(s)]
    BY <2>1, <2>2, <1>1
  <2> QED
    BY <2>2, <2>3, <1>1 DEF Elems
<1>5. ASSUME Inj(s), Inj(t), Elems(s) \cap Elems(t) = {},
             NEW i \in 1..(Len(s) + Len(t)), NEW j \in 1..(Len(s) + Len(t)),
             (s \o t)[i] = (s \o t)[j]
      PROVE  i = j
  <2>1. CASE i <= Len(s) /\ j <= Len(s)
    <3>1. i \in 1..Len(s) /\ j \in 1..Len(s) /\ s[i] = s[j]
      BY <2>1, <1>1, <1>5
    <3> QED
      BY <3>1, <1>1, <1>5 DEF Inj
  <2>2. CASE i > Len(s) /\ j > Len(s)
    <3>1. i - Len(s) \in 1..Len(t) /\ j - Len(s) \in 1..Len(t) /\ t[i - Len(s)] = t[j - Len(s)]
      BY <2>2, <1>1, <1>5
    <3>2. i - Len(s) = j - Len(s)
      BY <3>1, <1>1, <1>5 DEF Inj
    <3> QED
      BY <3>2, <1>1
  <2>3. CASE i <= Len(s) /\ j > Len(s)
    <3>1. i \in 1..Len(s) /\ j - Len(s) \in 1..Len(t) /\ s[i] = t[j - Len(s)]
      BY <2>3, <1>1, <1>5
    <3>2. s[i] \in Elems(s) /\ s[i] \in Elems(t)
      BY <3>1, <1>1 DEF Elems
    <3> QED
      BY <3>2, <1>5
  <2>4. CASE i > Len(s) /\ j <= Len(s)
    <3>1. j \in 1..Len(s) /\ i - Len(s) \in 1..Len(t) /\ s[j] = t[i - Len(s)]
      BY <2>4, <1>1, <1>5
    <3>2. s[j] \in Elems(s) /\ s[j] \in Elems(t)
      BY <3>1, <1>1 DEF Elems
    <3> QED
      BY <3>2, <1>5
  <2> QED
    BY <2>1, <2>2, <2>3, <2>4, <1>1
<1> QED
  BY <1>1, <1>2, <1>3, <1>4, <1>5 DEF Inj

-----------------------------------------------------------------------------
\* The inductive invariant.

\* A queued job that the pump may admit.
Waiting(id) == state[id] = "Queued" /\ active[Key(id)] = id

\* The queue a job belongs to.
HomeQueue(id) == Elems(queue[Class(id)][spec[id].workspace])
HomeDeferred(id) == Elems(deferred[spec[id].workspace])

\* A job in the table has a specification and an ID that was handed out; a job in
\* the retention list has ended.
Known ==
    /\ \A id \in Ids : state[id] # "Absent" => spec[id] \in JobSpec /\ id < next
    /\ \A id \in Elems(finished) : ~Unfinished(id) /\ id < next

\* Every unfinished job is its key's active or pending job, and the other way round.
Keyed ==
    /\ \A id \in Ids : Unfinished(id) =>
          \/ active[Key(id)] = id
          \/ pending[Key(id)] = id /\ state[id] = "Queued"
    /\ \A k \in Keys :
          /\ active[k] # NoId => Unfinished(active[k]) /\ Key(active[k]) = k
          /\ pending[k] # NoId => /\ Unfinished(pending[k]) /\ Key(pending[k]) = k
                                  /\ active[k] \notin {NoId, pending[k]}

\* The jobs that hold a place of lane c.
Holders(c) == {id \in Ids : Holding(id) /\ Class(id) = c}

Counted ==
    \A c \in Classes : running[c] = Cardinality(Holders(c)) /\ running[c] <= Cap(c)

Slotted ==
    /\ \A id \in Ids : slot[id] # 0 <=> Holding(id) /\ Class(id) = "Runner"
    /\ \A id \in Ids : slot[id] # 0 => runner_slots[slot[id]] = id
    /\ \A i \in 1..RunnerSlots : runner_slots[i] # NoId => slot[runner_slots[i]] = i

\* Outside the pump its lists are empty.
PumpIdle ==
    lane = "none" => lapsed = <<>> /\ \A w \in Workspaces : deferred[w] = <<>>

\* No list has an entry twice, and no job is in two of them.
Disjoint ==
    /\ \A c \in Classes, w \in Workspaces : Inj(queue[c][w])
    /\ \A w \in Workspaces : Inj(deferred[w])
    /\ Inj(lapsed)
    /\ Inj(work)
    /\ \A w \in Workspaces : \A id \in Elems(deferred[w]) : id \notin HomeQueue(id)
    /\ \A id \in Elems(lapsed) : id \notin HomeQueue(id) /\ id \notin HomeDeferred(id)
    /\ \A id \in Elems(work) : /\ id \notin HomeQueue(id) /\ id \notin HomeDeferred(id)
                                /\ id \notin Elems(lapsed)

\* Entries that are still queued are where they belong; a queue may keep entries of
\* jobs that ended, the pump's own lists may not.
Placed ==
    /\ \A c \in Classes, w \in Workspaces : \A id \in Elems(queue[c][w]) :
          /\ id < next
          /\ state[id] = "Queued" => Class(id) = c /\ spec[id].workspace = w /\ Waiting(id)
    /\ \A w \in Workspaces : \A id \in Elems(deferred[w]) :
          Waiting(id) /\ Class(id) = lane /\ spec[id].workspace = w
    /\ \A id \in Elems(lapsed) : Waiting(id)
    /\ \A id \in Elems(work) : Waiting(id)

\* No admissible job is lost.
Covered ==
    \A id \in Ids : Waiting(id) =>
      id \in HomeQueue(id) \cup HomeDeferred(id) \cup Elems(lapsed) \cup Elems(work)

\* What a submission under way may rely on.
Calling ==
    call # NoCall =>
      LET k == <<call.workspace, call.stack>>
      IN  /\ call.stage = "place" => /\ next <= MaxJobs
                                     /\ pending[k] = NoId
                                     /\ active[k] \in {NoId, call.active}
          /\ call.stage = "attach" => next >= 2

IInv ==
    /\ TypeOK /\ Known /\ Keyed /\ Counted /\ Slotted
    /\ PumpIdle /\ Disjoint /\ Placed /\ Covered /\ Calling

-----------------------------------------------------------------------------
\* Facts about the constants and the types.

\* What the assumptions say of the caps, the ids and the values outside the types.
LEMMA Constants ==
  /\ NWorkspaces \in Nat /\ RunnerSlots \in Nat /\ ControlSlots \in Nat /\ MaxJobs \in Nat
  /\ RunnerSlots > 0 /\ ControlSlots > 0
  /\ NoId \notin Ids /\ Ids \subseteq Nat
  /\ NoSpec \notin JobSpec
  /\ IsFiniteSet(Ids)
<1>1. NoSpec \notin JobSpec
  <2>1. NoSpec.workspace = 0 /\ 0 \notin Workspaces
    BY JobsAssumption DEF NoSpec, Workspaces
  <2>2. \A s \in JobSpec : s.workspace \in Workspaces
    BY DEF JobSpec
  <2> QED
    BY <2>1, <2>2
<1>2. IsFiniteSet(Ids)
  BY FS_Interval, JobsAssumption DEF Ids
<1> QED
  BY <1>1, <1>2, JobsAssumption DEF Ids, NoId

\* A job in the table has a key and a class.
LEMMA KeyType ==
  ASSUME NEW id \in Ids, spec[id] \in JobSpec
  PROVE  /\ Key(id) \in Keys /\ Class(id) \in Classes /\ spec[id].workspace \in Workspaces
         /\ spec[id].stack \in Stacks
  BY DEF JobSpec, Key, Keys, Class, ClassOf, Classes

\* Holders are jobs, so there are finitely many.
LEMMA HoldersFinite ==
  ASSUME NEW c PROVE IsFiniteSet(Holders(c)) /\ Cardinality(Holders(c)) \in Nat
<1>1. Holders(c) \in SUBSET Ids
  BY DEF Holders
<1> QED
  BY <1>1, Constants, FS_Subset, FS_CardinalityType

\* Default::default: the empty table satisfies the invariant.
LEMMA InitIInv == Init => IInv
<1> SUFFICES ASSUME Init PROVE IInv
  OBVIOUS
<1>1. TypeOK
  <2>1. /\ next \in 1..(MaxJobs + 1) /\ slot \in [Ids -> 0..RunnerSlots]
        /\ running \in [Classes -> Nat] /\ served \in [Classes -> 0..NWorkspaces]
        /\ runner_slots \in [1..RunnerSlots -> Ids \cup {NoId}]
        /\ age \in [Ids -> 0..(LeasePeriod + 1)]
    BY JobsAssumption DEF Init
  <2>2. /\ queue \in [Classes -> [Workspaces -> Seq(Ids)]] /\ deferred \in [Workspaces -> Seq(Ids)]
        /\ finished \in Seq(Ids) /\ started \in Seq(Ids) /\ lapsed \in Seq(Ids) /\ work \in Seq(Ids)
    BY DEF Init
  <2>3. /\ state \in [Ids -> JobStates \cup {"Absent"}] /\ spec \in [Ids -> JobSpec \cup {NoSpec}]
        /\ active \in [Keys -> Ids \cup {NoId}] /\ pending \in [Keys -> Ids \cup {NoId}]
        /\ leases \subseteq Ids /\ owners \in [Ids -> SUBSET Clients] /\ closing \in BOOLEAN
        /\ lane \in Classes \cup {"none"} /\ call \in Call \cup {NoCall}
        /\ gone \subseteq Clients /\ panicked \in BOOLEAN
    BY DEF Init
  <2> QED
    BY <2>1, <2>2, <2>3 DEF TypeOK
<1>2. \A id \in Ids : state[id] = "Absent"
  BY DEF Init
<1>3. Known
  BY <1>2, EmptyList DEF Known, Init
<1>4. Keyed
  BY <1>2 DEF Keyed, Init, Unfinished
<1>5. Counted
  <2>1. \A c \in Classes : Holders(c) = {}
    BY <1>2 DEF Holders, Holding
  <2> QED
    <3>1. \A c \in Classes : running[c] = 0 /\ Cap(c) \in Nat
      BY Constants DEF Init, Cap
    <3> QED
      BY <2>1, <3>1, FS_EmptySet DEF Counted
<1>6. Slotted
  BY <1>2, Constants DEF Slotted, Init, Holding
<1>7. PumpIdle /\ Calling
  BY DEF PumpIdle, Calling, Init
<1>8. /\ \A c \in Classes, w \in Workspaces : queue[c][w] = <<>>
      /\ \A w \in Workspaces : deferred[w] = <<>>
      /\ lapsed = <<>> /\ work = <<>>
  BY DEF Init
<1>9. Disjoint /\ Placed
  BY <1>8, EmptyList DEF Disjoint, Placed
<1>10. Covered
  BY <1>2 DEF Covered, Waiting
<1> QED
  BY <1>1, <1>3, <1>4, <1>5, <1>6, <1>7, <1>9, <1>10 DEF IInv

-----------------------------------------------------------------------------
\* Steps that leave the table, the lanes and the lists alone.

rowVars == <<next, state, spec, slot, running, runner_slots, active, pending, finished>>

\* A step that leaves the job table alone keeps the parts of the invariant about it.
LEMMA TableFrame ==
  ASSUME IInv, UNCHANGED rowVars
  PROVE  /\ Known' /\ Keyed' /\ Counted' /\ Slotted'
         /\ \A id : Waiting(id)' = Waiting(id) /\ Class(id)' = Class(id)
         /\ UNCHANGED <<next, state, spec, active, pending>>
<1>1. /\ UNCHANGED next /\ UNCHANGED state /\ UNCHANGED spec /\ UNCHANGED slot
      /\ UNCHANGED running /\ UNCHANGED runner_slots /\ UNCHANGED active /\ UNCHANGED pending
      /\ UNCHANGED finished
  BY DEF rowVars
<1>2. Known'
  BY <1>1 DEF IInv, Known, Unfinished, Elems
<1>3. Keyed'
  BY <1>1 DEF IInv, Keyed, Unfinished, Key
<1>4. Counted'
  <2>1. \A c \in Classes : Holders(c)' = Holders(c)
    BY <1>1 DEF Holders, Holding, Class
  <2> QED
    BY <1>1, <2>1 DEF IInv, Counted
<1>5. Slotted'
  BY <1>1 DEF IInv, Slotted, Holding, Class
<1>6. \A id : Waiting(id)' = Waiting(id) /\ Class(id)' = Class(id)
  BY <1>1 DEF Waiting, Class, Key
<1> QED
  BY <1>1, <1>2, <1>3, <1>4, <1>5, <1>6

\* A step that leaves the table and the pump's lists alone keeps the whole invariant.
LEMMA FrameStep ==
  ASSUME IInv, TypeOK', UNCHANGED rowVars, UNCHANGED <<queue, deferred, lapsed, work>>,
         PumpIdle', Calling', lane' = lane \/ lane = "none"
  PROVE  IInv'
<1>1. /\ UNCHANGED next /\ UNCHANGED state /\ UNCHANGED spec /\ UNCHANGED active
      /\ UNCHANGED queue /\ UNCHANGED deferred /\ UNCHANGED lapsed /\ UNCHANGED work
  BY DEF rowVars
<1>2. Known' /\ Keyed' /\ Counted' /\ Slotted'
  BY TableFrame
<1>6. /\ \A id : Waiting(id)' = Waiting(id) /\ HomeQueue(id)' = HomeQueue(id)
               /\ HomeDeferred(id)' = HomeDeferred(id) /\ Class(id)' = Class(id)
      /\ \A c, w : Elems(queue[c][w])' = Elems(queue[c][w]) /\ Inj(queue[c][w])' = Inj(queue[c][w])
      /\ \A w : Elems(deferred[w])' = Elems(deferred[w]) /\ Inj(deferred[w])' = Inj(deferred[w])
      /\ Elems(lapsed)' = Elems(lapsed) /\ Inj(lapsed)' = Inj(lapsed)
      /\ Elems(work)' = Elems(work) /\ Inj(work)' = Inj(work)
  BY <1>1 DEF Waiting, HomeQueue, HomeDeferred, Class, Key, Elems, Inj
<1>7. Disjoint'
  BY <1>6 DEF IInv, Disjoint
<1>8. Covered'
  BY <1>6 DEF IInv, Covered
<1>9. Placed'
  <2>1. CASE lane' = lane
    BY <1>1, <1>6, <2>1 DEF IInv, Placed
  <2>2. CASE lane = "none"
    <3>1. \A w \in Workspaces : Elems(deferred[w]) = {}
      BY <2>2, EmptyList DEF IInv, PumpIdle
    <3> QED
      BY <1>1, <1>6, <3>1 DEF IInv, Placed
  <2> QED
    BY <2>1, <2>2
<1> QED
  BY <1>2, <1>7, <1>8, <1>9 DEF IInv

-----------------------------------------------------------------------------
\* finish_at: the step behind supersedes, cancellations, settlements, lapses and close.

\* What retiring a prefix of the finished jobs leaves.
LEMMA RetireStep ==
  ASSUME TypeOK, Known, NEW id \in Ids, Unfinished(id), NEW end \in Terminal,
         NEW n \in 0..Len(Append(finished, id)),
         Retire(Append(finished, id), n),
         RetireState(Append(finished, id), n, id, end)
  PROVE  /\ state' \in [Ids -> JobStates \cup {"Absent"}]
         /\ spec' \in [Ids -> JobSpec \cup {NoSpec}]
         /\ finished' \in Seq(Ids)
         /\ Elems(finished') \subseteq Elems(finished) \cup {id}
         /\ \A j \in Ids : j # id /\ Unfinished(j) => state'[j] = state[j] /\ spec'[j] = spec[j]
         /\ \A j \in Ids : state'[j] \in {"Queued", "Running", "Cancelling"} =>
                            j # id /\ state'[j] = state[j] /\ spec'[j] = spec[j]
         /\ \A j \in Ids : state'[j] # "Absent" => state[j] # "Absent" /\ spec'[j] = spec[j]
<1> DEFINE order == Append(finished, id)
           dropped == {order[i] : i \in 1..n}
<1>1. /\ finished \in Seq(Ids) /\ state \in [Ids -> JobStates \cup {"Absent"}]
      /\ spec \in [Ids -> JobSpec \cup {NoSpec}]
  BY DEF TypeOK
<1>2. order \in Seq(Ids) /\ Elems(order) = Elems(finished) \cup {id}
  BY <1>1, AppendList
<1>3. Len(order) \in Nat /\ DOMAIN order = 1..Len(order) /\ n \in Nat /\ n <= Len(order)
  BY <1>2
<1> HIDE DEF order
<1>4. dropped \subseteq Elems(finished) \cup {id}
  <2>1. ASSUME NEW x \in dropped PROVE x \in Elems(order)
    <3>1. PICK i \in 1..n : x = order[i]
      BY <2>1
    <3>2. i \in DOMAIN order
      BY <1>3
    <3> QED
      BY <3>1, <3>2 DEF Elems
  <2> QED
    BY <2>1, <1>2
<1>5. /\ state' = [j \in Ids |-> IF j \in dropped THEN "Absent" ELSE IF j = id THEN end ELSE state[j]]
      /\ spec' = [j \in Ids |-> IF j \in dropped THEN NoSpec ELSE spec[j]]
      /\ finished' = SubSeq(order, n + 1, Len(order))
  BY DEF Retire, RetireState, order
<1> HIDE DEF dropped
<1>6. \A j \in dropped : j = id \/ ~Unfinished(j)
  BY <1>4 DEF Known
<1>7. end \in JobStates /\ end \notin {"Queued", "Running", "Cancelling", "Absent"}
  BY DEF Terminal, JobStates
<1>8. /\ state' \in [Ids -> JobStates \cup {"Absent"}]
      /\ spec' \in [Ids -> JobSpec \cup {NoSpec}]
  BY <1>1, <1>5, <1>7
<1>9. finished' \in Seq(Ids) /\ Elems(finished') \subseteq Elems(finished) \cup {id}
  <2> DEFINE m == Len(order)
  <2>1. \A i \in (n + 1)..m : order[i] \in Ids
    BY <1>2, <1>3
  <2>2. /\ finished' \in Seq(Ids)
        /\ Len(finished') = IF n + 1 <= m THEN m - (n + 1) + 1 ELSE 0
        /\ \A i \in 1..(m - (n + 1) + 1) : finished'[i] = order[(n + 1) + i - 1]
    BY <1>3, <1>5, <2>1, SubSeqProperties
  <2>4. m \in Nat /\ n \in Nat /\ n <= m
    BY <1>3
  <2> HIDE DEF m
  <2>5. Len(finished') = m - n /\ \A i \in 1..(m - n) : finished'[i] = order[n + i]
    BY <2>2, <2>4
  <2>3. ASSUME NEW x \in Elems(finished') PROVE x \in Elems(order)
    <3>1. PICK i \in 1..(m - n) : x = order[n + i]
      BY <2>2, <2>5 DEF Elems
    <3>2. n + i \in 1..m
      BY <2>4
    <3> QED
      BY <3>1, <3>2, <1>3 DEF Elems, m
  <2> QED
    BY <2>2, <2>3, <1>2
<1>10. \A j \in Ids : j # id /\ Unfinished(j) => state'[j] = state[j] /\ spec'[j] = spec[j]
  BY <1>5, <1>6
<1>11. \A j \in Ids : state'[j] \in {"Queued", "Running", "Cancelling"} =>
                      j # id /\ state'[j] = state[j] /\ spec'[j] = spec[j]
  BY <1>5, <1>7
<1>12. \A j \in Ids : state'[j] # "Absent" => state[j] # "Absent" /\ spec'[j] = spec[j]
  BY <1>5 DEF Unfinished
<1> QED
  BY <1>8, <1>9, <1>10, <1>11, <1>12

\* finish_at: the key is freed or passed to the waiting job, the place and the slot are given back.
LEMMA FinishStep ==
  ASSUME IInv, NEW id \in Ids, Unfinished(id), NEW end \in Terminal,
         Finish(id, end), lane = "none",
         work' \in Seq(Ids), Inj(work'), Elems(work') = Elems(work) \ {id},
         call' \in Call \cup {NoCall}, Calling'
  PROVE  IInv'
<1> DEFINE k == Key(id)
           p == pending[k]
           promoted == active[k] = id /\ p # NoId
<1>1. TypeOK /\ Known /\ Keyed /\ Counted /\ Slotted /\ PumpIdle /\ Disjoint /\ Placed /\ Covered
  BY DEF IInv
<1>2. spec[id] \in JobSpec /\ k \in Keys /\ Class(id) \in Classes
  BY <1>1, KeyType DEF Known, Unfinished
<1>3. PICK n \in 0..Len(Append(finished, id)) :
          Retire(Append(finished, id), n) /\ RetireState(Append(finished, id), n, id, end)
  BY DEF Finish
<1>4. /\ state' \in [Ids -> JobStates \cup {"Absent"}]
      /\ spec' \in [Ids -> JobSpec \cup {NoSpec}]
      /\ finished' \in Seq(Ids)
      /\ Elems(finished') \subseteq Elems(finished) \cup {id}
  BY <1>1, <1>3, RetireStep
<1>5. \A j \in Ids : j # id /\ Unfinished(j) => state'[j] = state[j] /\ spec'[j] = spec[j]
  BY <1>1, <1>3, RetireStep
<1>6. \A j \in Ids : state'[j] \in {"Queued", "Running", "Cancelling"} =>
                     j # id /\ state'[j] = state[j] /\ spec'[j] = spec[j]
  BY <1>1, <1>3, RetireStep
<1>7. \A j \in Ids : state'[j] # "Absent" => state[j] # "Absent" /\ spec'[j] = spec[j]
  BY <1>1, <1>3, RetireStep
<1>8. /\ active \in [Keys -> Ids \cup {NoId}] /\ pending \in [Keys -> Ids \cup {NoId}]
      /\ queue \in [Classes -> [Workspaces -> Seq(Ids)]]
      /\ running \in [Classes -> Nat] /\ slot \in [Ids -> 0..RunnerSlots]
      /\ runner_slots \in [1..RunnerSlots -> Ids \cup {NoId}]
      /\ NoId \notin Ids /\ Ids \subseteq Nat
  BY <1>1, Constants DEF TypeOK
<1>9. promoted => /\ p \in Ids /\ p # id /\ Unfinished(p) /\ Key(p) = k
                  /\ state[p] = "Queued" /\ ~Waiting(p)
                  /\ Class(p) \in Classes /\ spec[p].workspace \in Workspaces /\ p < next
  <2> SUFFICES ASSUME promoted
               PROVE  /\ p \in Ids /\ p # id /\ Unfinished(p) /\ Key(p) = k
                      /\ state[p] = "Queued" /\ ~Waiting(p)
                      /\ Class(p) \in Classes /\ spec[p].workspace \in Workspaces /\ p < next
    OBVIOUS
  <2>1. p \in Ids /\ Unfinished(p) /\ Key(p) = k /\ p # id
    BY <1>1, <1>2, <1>8 DEF Keyed
  <2>2. state[p] = "Queued" /\ ~Waiting(p)
    BY <1>1, <2>1 DEF Keyed, Waiting
  <2>3. spec[p] \in JobSpec /\ p < next
    BY <1>1, <2>1 DEF Known, Unfinished
  <2> QED
    BY <2>1, <2>2, <2>3, KeyType
<1>10. /\ active' = [active EXCEPT ![k] = IF @ = id THEN p ELSE @]
       /\ active[k] = id => pending' = [pending EXCEPT ![k] = NoId]
       /\ active[k] # id => pending' = [pending EXCEPT ![k] = IF @ = id THEN NoId ELSE @]
       /\ promoted => queue' = Enqueue(p)
       /\ ~promoted => queue' = queue
  BY <1>2, <1>8 DEF Finish, FinishKey
<1>11. /\ slot' = [slot EXCEPT ![id] = 0]
       /\ runner_slots' = [i \in 1..RunnerSlots |-> IF slot[id] = i THEN NoId ELSE runner_slots[i]]
       /\ running' = RunningWithout(id)
       /\ UNCHANGED <<next, deferred, lapsed, served, started, closing, gone, panicked>>
       /\ leases' = leases \ {id} /\ age' = [age EXCEPT ![id] = 0]
       /\ owners' = [owners EXCEPT ![id] = {}]
       /\ lane' \in {"none", "Control"}
  BY DEF Finish, SlotsWithout, StartPump
<1> HIDE DEF p, k, promoted
<1>12. promoted =>
          queue' = [queue EXCEPT ![Class(p)] = [queue[Class(p)] EXCEPT ![spec[p].workspace] =
                        Append(queue[Class(p)][spec[p].workspace], p)]]
  BY <1>10 DEF Enqueue
<1>13. /\ queue' \in [Classes -> [Workspaces -> Seq(Ids)]]
       /\ \A c \in Classes, w \in Workspaces :
             queue'[c][w] = IF promoted /\ c = Class(p) /\ w = spec[p].workspace
                            THEN Append(queue[c][w], p) ELSE queue[c][w]
  <2>1. CASE promoted
    <3> DEFINE c0 == Class(p)
               w0 == spec[p].workspace
               q0 == Append(queue[c0][w0], p)
    <3>1. c0 \in Classes /\ w0 \in Workspaces
      BY <1>9, <2>1
    <3>2. q0 \in Seq(Ids)
      BY <1>8, <1>9, <2>1, AppendList
    <3>3. queue' = [queue EXCEPT ![c0] = [queue[c0] EXCEPT ![w0] = q0]]
      BY <1>12, <2>1
    <3> HIDE DEF q0, c0, w0
    <3>4. /\ queue' \in [Classes -> [Workspaces -> Seq(Ids)]]
          /\ \A c \in Classes, w \in Workspaces :
                queue'[c][w] = IF c = c0 /\ w = w0 THEN q0 ELSE queue[c][w]
      BY <1>8, <3>1, <3>2, <3>3
    <3> QED
      BY <2>1, <3>4 DEF q0, c0, w0
  <2>2. CASE ~promoted
    BY <1>8, <1>10, <2>2
  <2> QED
    BY <2>1, <2>2
<1>14. Keyed'
  <2> DEFINE open == {"Queued", "Running", "Cancelling"}
             key(j) == <<spec'[j].workspace, spec'[j].stack>>
  <2>1. \A j \in Ids : state'[j] \in open =>
           /\ j # id /\ Unfinished(j) /\ key(j) = Key(j) /\ Key(j) \in Keys /\ state'[j] = state[j]
    <3> SUFFICES ASSUME NEW j \in Ids, state'[j] \in open
                 PROVE  /\ j # id /\ Unfinished(j) /\ key(j) = Key(j) /\ Key(j) \in Keys
                        /\ state'[j] = state[j]
      OBVIOUS
    <3>1. j # id /\ state'[j] = state[j] /\ spec'[j] = spec[j]
      BY <1>6
    <3>2. Unfinished(j)
      BY <3>1 DEF Unfinished
    <3>3. spec[j] \in JobSpec
      BY <3>2, <1>1 DEF Known, Unfinished
    <3> QED
      BY <3>1, <3>2, <3>3, KeyType DEF Key
  <2>2. \A j \in Ids : j # id /\ Unfinished(j) => state'[j] \in open /\ key(j) = Key(j)
    BY <1>5 DEF Unfinished, Key
  <2>3. active'[k] = IF active[k] = id THEN p ELSE active[k]
    BY <1>2, <1>8, <1>10
  <2>4. \A q \in Keys : q # k => active'[q] = active[q] /\ pending'[q] = pending[q]
    BY <1>8, <1>10
  <2>5. pending'[k] = NoId
    <3>1. CASE active[k] = id
      BY <1>2, <1>8, <1>10, <3>1
    <3>2. CASE active[k] # id
      <4>1. pending[k] = id
        BY <1>1, <3>2 DEF Keyed, k
      <4> QED
        BY <1>2, <1>8, <1>10, <3>2, <4>1
    <3> QED
      BY <3>1, <3>2
  <2>6. ASSUME NEW j \in Ids, state'[j] \in open
        PROVE  active'[key(j)] = j \/ (pending'[key(j)] = j /\ state'[j] = "Queued")
    <3>1. j # id /\ Unfinished(j) /\ key(j) = Key(j) /\ Key(j) \in Keys /\ state'[j] = state[j]
      BY <2>1, <2>6
    <3>2. active[Key(j)] = j \/ (pending[Key(j)] = j /\ state[j] = "Queued")
      BY <1>1, <3>1 DEF Keyed
    <3> HIDE DEF key
    <3>3. CASE Key(j) # k
      BY <2>4, <3>1, <3>2, <3>3
    <3>4. CASE Key(j) = k
      <4>1. active[k] = id => pending[k] = j
        BY <3>1, <3>2, <3>4
      <4>2. active[k] # id => pending[k] = id
        BY <1>1 DEF Keyed, k
      <4> QED
        BY <2>3, <3>1, <3>2, <3>4, <4>1, <4>2 DEF p
    <3> QED
      BY <3>3, <3>4
  <2>7. ASSUME NEW q \in Keys, active'[q] # NoId
        PROVE  state'[active'[q]] \in open /\ key(active'[q]) = q
    <3> DEFINE a == active'[q]
    <3>0. a \in Ids /\ a # id /\ Unfinished(a) /\ Key(a) = q
      <4>1. CASE q # k
        <5>1. a = active[q] /\ a # NoId /\ a \in Ids
          BY <1>8, <2>4, <2>7, <4>1
        <5>2. Unfinished(a) /\ Key(a) = q
          BY <1>1, <5>1 DEF Keyed
        <5> QED
          BY <4>1, <5>1, <5>2 DEF k
      <4>2. CASE q = k /\ active[k] = id
        BY <2>3, <2>7, <4>2, <1>9 DEF promoted
      <4>3. CASE q = k /\ active[k] # id
        <5>1. a = active[k] /\ a # NoId /\ a \in Ids
          BY <1>2, <1>8, <2>3, <2>7, <4>3
        <5> QED
          BY <1>1, <1>2, <4>3, <5>1 DEF Keyed
      <4> QED
        BY <4>1, <4>2, <4>3
    <3> QED
      BY <2>2, <3>0
  <2>8. ASSUME NEW q \in Keys, pending'[q] # NoId
        PROVE  /\ state'[pending'[q]] \in open /\ key(pending'[q]) = q
               /\ active'[q] \notin {NoId, pending'[q]}
    <3> DEFINE b == pending'[q]
    <3>1. q # k
      BY <2>5, <2>8
    <3>2. b = pending[q] /\ b \in Ids /\ active'[q] = active[q]
      BY <1>8, <2>4, <2>8, <3>1
    <3>3. Unfinished(b) /\ Key(b) = q /\ active[q] \notin {NoId, b}
      BY <1>1, <2>8, <3>2 DEF Keyed
    <3>4. b # id
      BY <3>1, <3>3 DEF k
    <3>5. state'[b] \in open /\ key(b) = q
      BY <2>2, <3>2, <3>3, <3>4
    <3> QED
      BY <3>2, <3>3, <3>5
  <2> QED
    BY <2>6, <2>7, <2>8 DEF Keyed, Unfinished, Key
<1>15. Known'
  <2>1. \A j \in Ids : state'[j] # "Absent" => spec'[j] \in JobSpec /\ j < next
    BY <1>1, <1>7 DEF Known
  <2>2. ASSUME NEW j \in Elems(finished')
        PROVE  state'[j] \notin {"Queued", "Running", "Cancelling"} /\ j < next
    <3>1. j \in Ids /\ j \in Elems(finished) \cup {id}
      BY <1>4, ListType
    <3>2. CASE j = id
      BY <1>1, <1>6, <3>2 DEF Known, Unfinished
    <3>3. CASE j \in Elems(finished)
      BY <1>1, <1>6, <3>1, <3>3 DEF Known, Unfinished
    <3> QED
      BY <3>1, <3>2, <3>3
  <2>3. next' = next
    BY <1>11
  <2> QED
    BY <2>1, <2>2, <2>3 DEF Known, Unfinished, Elems
<1>16. \A j \in Ids : /\ Holding(j)' = (Holding(j) /\ j # id)
                      /\ Holding(j)' => Class(j)' = Class(j)
  BY <1>5, <1>6 DEF Holding, Unfinished, Class
<1>17. Counted' /\ running' \in [Classes -> Nat]
  <2>1. \A c \in Classes : Holders(c)' = Holders(c) \ {id}
    BY <1>16 DEF Holders
  <2>2. \A c \in Classes : id \in Holders(c) <=> Holding(id) /\ Class(id) = c
    BY DEF Holders
  <2>3. ASSUME NEW c \in Classes
        PROVE  /\ running'[c] = Cardinality(Holders(c)') /\ running'[c] <= running[c]
               /\ running'[c] \in Nat
    <3>1. IsFiniteSet(Holders(c)) /\ IsFiniteSet(Holders(c) \ {id})
          /\ Cardinality(Holders(c)) \in Nat /\ Cardinality(Holders(c) \ {id}) \in Nat
          /\ Cardinality(Holders(c) \ {id}) =
               IF id \in Holders(c) THEN Cardinality(Holders(c)) - 1 ELSE Cardinality(Holders(c))
      BY HoldersFinite, FS_RemoveElement, FS_CardinalityType
    <3>2. running[c] = Cardinality(Holders(c)) /\ running[c] \in Nat
      BY <1>1, <1>8 DEF Counted
    <3>3. running'[c] = IF id \in Holders(c) THEN running[c] - 1 ELSE running[c]
      BY <1>2, <1>8, <1>11, <2>2 DEF RunningWithout
    <3>4. Cardinality(Holders(c)') = Cardinality(Holders(c) \ {id})
      BY <2>1
    <3> HIDE DEF Holders
    <3> QED
      BY <3>1, <3>2, <3>3, <3>4
  <2>4. running' \in [Classes -> Nat]
    <3>1. CASE Holding(id)
      <4>1. running' = [running EXCEPT ![Class(id)] = running[Class(id)] - 1]
        BY <1>11, <3>1 DEF RunningWithout
      <4>2. running[Class(id)] - 1 \in Nat
        <5>1. running'[Class(id)] = running[Class(id)] - 1
          BY <1>2, <1>8, <4>1
        <5> QED
          BY <1>2, <2>3, <5>1
      <4> QED
        BY <1>8, <4>1, <4>2
    <3>2. CASE ~Holding(id)
      BY <1>8, <1>11, <3>2 DEF RunningWithout
    <3> QED
      BY <3>1, <3>2
  <2>5. \A c \in Classes : Cap(c) \in Nat /\ running[c] \in Nat /\ running[c] <= Cap(c)
    BY <1>1, <1>8, Constants DEF Counted, Cap
  <2>6. \A c \in Classes : running'[c] <= Cap(c)
    BY <2>3, <2>5
  <2> QED
    BY <2>3, <2>4, <2>6 DEF Counted, Cap
<1>18. Slotted'
  <2>1. slot'[id] = 0 /\ \A j \in Ids : j # id => slot'[j] = slot[j]
    BY <1>8, <1>11
  <2>2. \A i \in 1..RunnerSlots : runner_slots'[i] = IF slot[id] = i THEN NoId ELSE runner_slots[i]
    BY <1>11
  <2>3. \A j \in Ids : slot'[j] # 0 <=> Holding(j)' /\ Class(j)' = "Runner"
    BY <1>1, <1>16, <2>1 DEF Slotted
  <2>4. ASSUME NEW j \in Ids, slot'[j] # 0 PROVE runner_slots'[slot'[j]] = j
    <3>1. j # id /\ slot'[j] = slot[j] /\ runner_slots[slot[j]] = j /\ slot[j] \in 1..RunnerSlots
      BY <1>1, <1>8, <2>1, <2>4 DEF Slotted
    <3>2. slot[id] # slot[j]
      BY <1>1, <3>1 DEF Slotted
    <3> QED
      BY <2>2, <3>1, <3>2
  <2>5. ASSUME NEW i \in 1..RunnerSlots, runner_slots'[i] # NoId
        PROVE  slot'[runner_slots'[i]] = i
    <3>1. slot[id] # i /\ runner_slots'[i] = runner_slots[i]
      BY <2>2, <2>5
    <3>2. runner_slots[i] \in Ids /\ slot[runner_slots[i]] = i
      BY <1>1, <1>8, <2>5, <3>1 DEF Slotted
    <3> QED
      BY <2>1, <3>1, <3>2
  <2> QED
    BY <2>3, <2>4, <2>5 DEF Slotted
<1>19. PumpIdle' /\ lapsed' = <<>> /\ \A w \in Workspaces : deferred'[w] = <<>>
  BY <1>1, <1>11 DEF PumpIdle
<1>20. TypeOK'
  <2>1. slot' \in [Ids -> 0..RunnerSlots] /\ runner_slots' \in [1..RunnerSlots -> Ids \cup {NoId}]
        /\ age' \in [Ids -> 0..(LeasePeriod + 1)]
    BY <1>1, <1>8, <1>11, JobsAssumption DEF TypeOK
  <2>2. active' \in [Keys -> Ids \cup {NoId}] /\ pending' \in [Keys -> Ids \cup {NoId}]
    <3>1. p \in Ids \cup {NoId}
      BY <1>2, <1>8 DEF p
    <3> QED
      BY <1>8, <1>10, <3>1
  <2>3. /\ next' \in 1..(MaxJobs + 1) /\ served' \in [Classes -> 0..NWorkspaces]
        /\ started' \in Seq(Ids) /\ leases' \subseteq Ids /\ owners' \in [Ids -> SUBSET Clients]
        /\ closing' \in BOOLEAN /\ lane' \in Classes \cup {"none"}
        /\ deferred' \in [Workspaces -> Seq(Ids)] /\ lapsed' \in Seq(Ids)
        /\ gone' \subseteq Clients /\ panicked' \in BOOLEAN
    BY <1>1, <1>11 DEF TypeOK, Classes
  <2> QED
    BY <1>4, <1>13, <1>17, <2>1, <2>2, <2>3 DEF TypeOK
<1>21. \A j \in Ids : Waiting(j)' <=> j # id /\ (Waiting(j) \/ (promoted /\ j = p))
  <2> SUFFICES ASSUME NEW j \in Ids
               PROVE  Waiting(j)' <=> j # id /\ (Waiting(j) \/ (promoted /\ j = p))
    OBVIOUS
  <2>1. ASSUME j # id, state[j] = "Queued"
        PROVE  Waiting(j)' <=> active'[Key(j)] = j
    <3>1. state'[j] = state[j] /\ spec'[j] = spec[j]
      BY <1>5, <2>1 DEF Unfinished
    <3> QED
      BY <2>1, <3>1 DEF Waiting, Key
  <2>2. ASSUME j # id, state[j] = "Queued"
        PROVE  active'[Key(j)] = j <=> Waiting(j) \/ (promoted /\ j = p)
    <3>1. Key(j) \in Keys
      BY <1>1, <2>2, KeyType DEF Known
    <3>2. CASE Key(j) # k
      BY <1>8, <1>9, <1>10, <2>2, <3>1, <3>2 DEF Waiting
    <3>3. CASE Key(j) = k
      <4>1. active'[k] = IF active[k] = id THEN p ELSE active[k]
        BY <1>2, <1>8, <1>10
      <4>2. j # NoId
        BY <1>8
      <4> QED
        BY <2>2, <3>3, <4>1, <4>2 DEF Waiting, promoted
    <3> QED
      BY <3>2, <3>3
  <2>3. Waiting(j)' => j # id /\ state[j] = "Queued"
    BY <1>6 DEF Waiting
  <2>4. Waiting(j) \/ (promoted /\ j = p) => state[j] = "Queued"
    BY <1>9 DEF Waiting
  <2> QED
    BY <2>1, <2>2, <2>3, <2>4
<1>22. \A j \in Ids : Waiting(j)' => /\ Class(j)' = Class(j) /\ spec'[j].workspace = spec[j].workspace
                                    /\ Class(j) \in Classes /\ spec[j].workspace \in Workspaces
  <2> SUFFICES ASSUME NEW j \in Ids, Waiting(j)'
               PROVE  /\ Class(j)' = Class(j) /\ spec'[j].workspace = spec[j].workspace
                      /\ Class(j) \in Classes /\ spec[j].workspace \in Workspaces
    OBVIOUS
  <2>1. state[j] = "Queued" /\ spec'[j] = spec[j]
    BY <1>6 DEF Waiting
  <2> QED
    BY <1>1, <2>1, KeyType DEF Known, Class
<1>23. \A c \in Classes, w \in Workspaces :
          Elems(queue'[c][w]) = IF promoted /\ c = Class(p) /\ w = spec[p].workspace
                                THEN Elems(queue[c][w]) \cup {p} ELSE Elems(queue[c][w])
  <2> SUFFICES ASSUME NEW c \in Classes, NEW w \in Workspaces
               PROVE  Elems(queue'[c][w]) = IF promoted /\ c = Class(p) /\ w = spec[p].workspace
                                            THEN Elems(queue[c][w]) \cup {p} ELSE Elems(queue[c][w])
    OBVIOUS
  <2>1. queue[c][w] \in Seq(Ids)
    BY <1>8
  <2>2. promoted => Elems(Append(queue[c][w], p)) = Elems(queue[c][w]) \cup {p}
    BY <1>9, <2>1, AppendList
  <2>3. queue'[c][w] = IF promoted /\ c = Class(p) /\ w = spec[p].workspace
                       THEN Append(queue[c][w], p) ELSE queue[c][w]
    BY <1>13
  <2> QED
    BY <2>2, <2>3
<1>24. promoted => /\ p \notin Elems(work)
                   /\ \A c \in Classes, w \in Workspaces : p \notin Elems(queue[c][w])
  BY <1>1, <1>9 DEF Placed
<1>25. Elems(lapsed') = {} /\ Inj(lapsed') /\ \A w \in Workspaces : Elems(deferred'[w]) = {} /\ Inj(deferred'[w])
  BY <1>19, EmptyList
<1>26. \A j \in Elems(work') : j \in Ids /\ Waiting(j) /\ Waiting(j)' /\ j \notin HomeQueue(j)
  <2>1. \A j \in Elems(work') : j \in Ids /\ j # id /\ j \in Elems(work)
    BY ListType
  <2> QED
    BY <1>1, <1>21, <2>1 DEF Placed, Disjoint
<1>27. Placed'
  <2>1. ASSUME NEW c \in Classes, NEW w \in Workspaces, NEW j \in Elems(queue'[c][w])
        PROVE  /\ j < next'
               /\ state'[j] = "Queued" => /\ Class(j)' = c /\ spec'[j].workspace = w /\ Waiting(j)'
    <3>1. j \in Ids
      BY <1>13, ListType
    <3>2. CASE j \in Elems(queue[c][w])
      <4>1. j < next /\ (state[j] = "Queued" => Class(j) = c /\ spec[j].workspace = w /\ Waiting(j))
        BY <1>1, <3>2 DEF Placed
      <4>2. state'[j] = "Queued" => j # id /\ state[j] = "Queued"
        BY <1>6, <3>1
      <4> QED
        BY <1>11, <1>21, <1>22, <3>1, <4>1, <4>2
    <3>3. CASE promoted /\ j = p /\ c = Class(p) /\ w = spec[p].workspace
      <4>1. Waiting(j)' /\ j < next
        BY <1>9, <1>21, <3>1, <3>3
      <4> QED
        BY <1>11, <1>22, <3>1, <3>3, <4>1
    <3> QED
      BY <1>23, <3>2, <3>3
  <2> QED
    BY <1>25, <1>26, <2>1 DEF Placed
<1>28. \A j \in Ids : Waiting(j)' => /\ HomeQueue(j)' = Elems(queue'[Class(j)][spec[j].workspace])
                                    /\ HomeDeferred(j)' = {}
  BY <1>22, <1>25 DEF HomeQueue, HomeDeferred
<1>29. Disjoint'
  <2>1. \A c \in Classes, w \in Workspaces : Inj(queue'[c][w])
    <3> SUFFICES ASSUME NEW c \in Classes, NEW w \in Workspaces PROVE Inj(queue'[c][w])
      OBVIOUS
    <3>1. Inj(queue[c][w]) /\ queue[c][w] \in Seq(Ids)
      BY <1>1, <1>8 DEF Disjoint
    <3> QED
      BY <1>9, <1>13, <1>24, <3>1, AppendList
  <2>2. ASSUME NEW j \in Elems(work')
        PROVE  j \notin HomeQueue(j)' /\ j \notin HomeDeferred(j)' /\ j \notin Elems(lapsed')
    <3>1. j \in Ids /\ Waiting(j)' /\ j \notin Elems(queue[Class(j)][spec[j].workspace])
          /\ (promoted => j # p)
      BY <1>9, <1>26 DEF HomeQueue
    <3>2. Class(j) \in Classes /\ spec[j].workspace \in Workspaces
      BY <1>22, <3>1
    <3>3. j \notin Elems(queue'[Class(j)][spec[j].workspace])
      BY <1>23, <3>1, <3>2
    <3>4. HomeQueue(j)' = Elems(queue'[Class(j)][spec[j].workspace]) /\ HomeDeferred(j)' = {}
      BY <1>28, <3>1
    <3> QED
      BY <1>25, <3>3, <3>4
  <2> QED
    BY <1>25, <2>1, <2>2 DEF Disjoint
<1>30. Covered'
  <2> SUFFICES ASSUME NEW j \in Ids, Waiting(j)'
               PROVE  j \in HomeQueue(j)' \cup Elems(work')
    BY DEF Covered
  <2>1. CASE Waiting(j) /\ j # id
    <3>1. j \in HomeQueue(j) \cup HomeDeferred(j) \cup Elems(lapsed) \cup Elems(work)
      BY <1>1, <2>1 DEF Covered
    <3>2. HomeDeferred(j) = {} /\ Elems(lapsed) = {}
      BY <1>11, <1>22, <1>25 DEF HomeDeferred
    <3> QED
      BY <1>22, <1>23, <1>28, <2>1, <3>1, <3>2 DEF HomeQueue
  <2>2. CASE promoted /\ j = p
    <3>1. Class(p) \in Classes /\ spec[p].workspace \in Workspaces
      BY <1>9, <2>2
    <3>2. p \in Elems(queue'[Class(p)][spec[p].workspace])
      BY <1>23, <2>2, <3>1
    <3>3. HomeQueue(j)' = Elems(queue'[Class(j)][spec[j].workspace])
      BY <1>28
    <3> QED
      BY <2>2, <3>2, <3>3
  <2> QED
    BY <1>21, <2>1, <2>2
<1> QED
  BY <1>14, <1>15, <1>17, <1>18, <1>19, <1>20, <1>27, <1>29, <1>30 DEF IInv

-----------------------------------------------------------------------------
\* The steps of the pump.

\* The entry that next_queued looks at.
Front(w) == Head(queue[lane][w])

\* The entries of the lists are jobs; a waiting job has a queue.
LEMMA ListedType ==
  ASSUME IInv
  PROVE  /\ \A c \in Classes, w \in Workspaces : Elems(queue[c][w]) \subseteq Ids
         /\ \A w \in Workspaces : Elems(deferred[w]) \subseteq Ids
         /\ Elems(lapsed) \subseteq Ids /\ Elems(work) \subseteq Ids
         /\ \A j \in Ids : Waiting(j) => Class(j) \in Classes /\ spec[j].workspace \in Workspaces
<1>1. \A j \in Ids : Waiting(j) => Class(j) \in Classes /\ spec[j].workspace \in Workspaces
  BY KeyType DEF IInv, Known, Waiting
<1>2. /\ queue \in [Classes -> [Workspaces -> Seq(Ids)]] /\ deferred \in [Workspaces -> Seq(Ids)]
      /\ lapsed \in Seq(Ids) /\ work \in Seq(Ids)
  BY DEF IInv, TypeOK
<1>3. \A c \in Classes, w \in Workspaces : queue[c][w] \in Seq(Ids) /\ deferred[w] \in Seq(Ids)
  BY <1>2
<1>4. \A c \in Classes, w \in Workspaces : Elems(queue[c][w]) \subseteq Ids
  BY <1>3, ListType
<1>5. \A w \in Workspaces : Elems(deferred[w]) \subseteq Ids
  BY <1>2, ListType
<1> QED
  BY <1>1, <1>2, <1>4, <1>5, ListType

\* What the invariant says of the entries of the pump's lists.
LEMMA ListedFacts ==
  ASSUME IInv
  PROVE  /\ \A w \in Workspaces : \A j \in Elems(deferred[w]) :
               j \in Ids /\ Waiting(j) /\ j \notin HomeQueue(j)
         /\ \A j \in Elems(lapsed) :
               j \in Ids /\ Waiting(j) /\ j \notin HomeQueue(j) /\ j \notin HomeDeferred(j)
         /\ \A j \in Elems(work) :
               /\ j \in Ids /\ Waiting(j) /\ j \notin HomeQueue(j) /\ j \notin HomeDeferred(j)
               /\ j \notin Elems(lapsed)
<1>1. /\ \A w \in Workspaces : \A j \in Elems(deferred[w]) : j \in Ids
      /\ \A j \in Elems(lapsed) : j \in Ids
      /\ \A j \in Elems(work) : j \in Ids
  BY ListedType
<1>2. /\ \A w \in Workspaces : \A j \in Elems(deferred[w]) : Waiting(j)
      /\ \A j \in Elems(lapsed) : Waiting(j)
      /\ \A j \in Elems(work) : Waiting(j)
  BY DEF IInv, Placed
<1>3. /\ \A w \in Workspaces : \A j \in Elems(deferred[w]) : j \notin HomeQueue(j)
      /\ \A j \in Elems(lapsed) : j \notin HomeQueue(j) /\ j \notin HomeDeferred(j)
      /\ \A j \in Elems(work) : /\ j \notin HomeQueue(j) /\ j \notin HomeDeferred(j)
                                 /\ j \notin Elems(lapsed)
  BY DEF IInv, Disjoint
<1> QED
  BY <1>1, <1>2, <1>3

\* What next_queued takes out of a queue.
LEMMA PopStep ==
  ASSUME IInv, NEW w \in Workspaces, Pop(w)
  PROVE  \E id \in Ids :
         /\ id = Front(w)
         /\ lane \in Classes /\ id \in Elems(queue[lane][w])
         /\ queue' \in [Classes -> [Workspaces -> Seq(Ids)]]
         /\ \A c \in Classes, v \in Workspaces :
               /\ Inj(queue'[c][v])
               /\ Elems(queue'[c][v]) = IF c = lane /\ v = w THEN Elems(queue[c][v]) \ {id}
                                        ELSE Elems(queue[c][v])
         /\ state[id] = "Queued" => Waiting(id) /\ Class(id) = lane /\ spec[id].workspace = w
<1>0. PICK id : id = Front(w)
  OBVIOUS
<1> USE DEF Front
<1>1. /\ queue \in [Classes -> [Workspaces -> Seq(Ids)]] /\ lane \in Classes
      /\ \A c \in Classes, v \in Workspaces : Inj(queue[c][v])
  BY DEF IInv, TypeOK, Disjoint, Pop, LaneOpen
<1>2. queue[lane][w] \in Seq(Ids) /\ queue[lane][w] # <<>>
  BY <1>1 DEF Pop, NextTurn
<1> DEFINE t == Tail(queue[lane][w])
<1>3. /\ t \in Seq(Ids) /\ id \in Ids /\ id \in Elems(queue[lane][w])
      /\ Inj(t) /\ Elems(t) = Elems(queue[lane][w]) \ {id}
  BY <1>0, <1>1, <1>2, TailList
<1>4. queue' = [queue EXCEPT ![lane] = [queue[lane] EXCEPT ![w] = t]]
  BY DEF Pop
<1> HIDE DEF t
<1>5. /\ queue' \in [Classes -> [Workspaces -> Seq(Ids)]]
      /\ \A c \in Classes, v \in Workspaces :
            queue'[c][v] = IF c = lane /\ v = w THEN t ELSE queue[c][v]
  BY <1>1, <1>3, <1>4
<1>6. state[id] = "Queued" => Waiting(id) /\ Class(id) = lane /\ spec[id].workspace = w
  BY <1>1, <1>3 DEF IInv, Placed
<1>7. \A c \in Classes, v \in Workspaces :
         /\ Inj(queue'[c][v])
         /\ Elems(queue'[c][v]) = IF c = lane /\ v = w THEN Elems(queue[c][v]) \ {id}
                                  ELSE Elems(queue[c][v])
  <2> SUFFICES ASSUME NEW c \in Classes, NEW v \in Workspaces
               PROVE  /\ Inj(queue'[c][v])
                      /\ Elems(queue'[c][v]) = IF c = lane /\ v = w
                                               THEN Elems(queue[c][v]) \ {id}
                                               ELSE Elems(queue[c][v])
    OBVIOUS
  <2>1. CASE c = lane /\ v = w
    <3>1. queue'[c][v] = t
      BY <1>5, <2>1
    <3> QED
      BY <1>3, <2>1, <3>1
  <2>2. CASE ~(c = lane /\ v = w)
    <3>1. queue'[c][v] = queue[c][v]
      BY <1>5, <2>2
    <3> QED
      BY <1>1, <2>2, <3>1
  <2> QED
    BY <2>1, <2>2
<1> HIDE DEF Front
<1>8. id \in Ids /\ lane \in Classes /\ id \in Elems(queue[lane][w])
  BY <1>1, <1>3
<1>9. queue' \in [Classes -> [Workspaces -> Seq(Ids)]]
  BY <1>5
<1> QED
  BY <1>0, <1>6, <1>7, <1>8, <1>9, Zenon

\* Homes of the jobs when only the lists change.
LEMMA HomeFrame ==
  ASSUME UNCHANGED <<spec>>, NEW j
  PROVE  /\ HomeQueue(j)' = Elems(queue'[Class(j)][spec[j].workspace])
         /\ HomeDeferred(j)' = Elems(deferred'[spec[j].workspace])
  BY DEF HomeQueue, HomeDeferred, Class

\* next_queued drops an entry whose job is no longer queued.
LEMMA PumpDropStep ==
  ASSUME IInv, NEW w \in Workspaces, PumpDrop(w)
  PROVE  IInv'
<1>1. /\ Pop(w) /\ state[Front(w)] # "Queued"
      /\ UNCHANGED rowVars
      /\ UNCHANGED <<served, started, leases, age, owners, closing, lane, deferred, lapsed, work,
                     call, gone, panicked>>
  BY DEF PumpDrop, slotVars, keyVars, leaseVars, pumpVars, rowVars, Front
<1>3. PICK id \in Ids :
      /\ id = Front(w) /\ lane \in Classes
      /\ queue' \in [Classes -> [Workspaces -> Seq(Ids)]]
      /\ \A c \in Classes, v \in Workspaces :
            /\ Inj(queue'[c][v])
            /\ Elems(queue'[c][v]) = IF c = lane /\ v = w THEN Elems(queue[c][v]) \ {id}
                                     ELSE Elems(queue[c][v])
  BY <1>1, PopStep
<1>4. /\ Known' /\ Keyed' /\ Counted' /\ Slotted'
      /\ \A j : Waiting(j)' = Waiting(j) /\ Class(j)' = Class(j)
      /\ UNCHANGED <<next, state, spec, active, pending>>
  BY <1>1, TableFrame
<1>5. TypeOK' /\ PumpIdle' /\ Calling'
  <2>1. TypeOK'
    BY <1>1, <1>3 DEF IInv, TypeOK, rowVars
  <2>2. PumpIdle'
    BY <1>1 DEF IInv, PumpIdle
  <2>3. Calling'
    BY <1>1, <1>4 DEF IInv, Calling
  <2> QED
    BY <2>1, <2>2, <2>3
<1>6. \A c \in Classes, v \in Workspaces :
         /\ Elems(queue'[c][v]) \subseteq Elems(queue[c][v])
         /\ \A j : j # id => (j \in Elems(queue'[c][v]) <=> j \in Elems(queue[c][v]))
  BY <1>3
<1>7. \A j \in Ids : Waiting(j) => /\ Class(j) \in Classes /\ spec[j].workspace \in Workspaces /\ j # id
                                  /\ (j \in HomeQueue(j)' <=> j \in HomeQueue(j))
                                  /\ HomeDeferred(j)' = HomeDeferred(j)
  <2> SUFFICES ASSUME NEW j \in Ids, Waiting(j)
               PROVE  /\ Class(j) \in Classes /\ spec[j].workspace \in Workspaces /\ j # id
                      /\ (j \in HomeQueue(j)' <=> j \in HomeQueue(j))
                      /\ HomeDeferred(j)' = HomeDeferred(j)
    OBVIOUS
  <2>1. Class(j) \in Classes /\ spec[j].workspace \in Workspaces /\ j # id
    BY <1>1, <1>3, ListedType DEF Waiting
  <2>2. /\ HomeQueue(j)' = Elems(queue'[Class(j)][spec[j].workspace])
        /\ HomeDeferred(j)' = Elems(deferred'[spec[j].workspace])
    BY <1>4, HomeFrame
  <2> QED
    BY <1>1, <1>6, <2>1, <2>2 DEF HomeQueue, HomeDeferred
<1>8. Disjoint'
  <2>1. \A v \in Workspaces : \A j \in Elems(deferred[v]) : j \notin HomeQueue(j)'
    BY <1>7, ListedType DEF IInv, Disjoint, Placed
  <2>2. \A j \in Elems(lapsed) : j \notin HomeQueue(j)' /\ j \notin HomeDeferred(j)'
    BY <1>7, ListedType DEF IInv, Disjoint, Placed
  <2>3. \A j \in Elems(work) : j \notin HomeQueue(j)' /\ j \notin HomeDeferred(j)' /\ j \notin Elems(lapsed)
    BY <1>7, ListedType DEF IInv, Disjoint, Placed
  <2>4. /\ \A v \in Workspaces : Inj(deferred[v])
        /\ Inj(lapsed) /\ Inj(work)
    BY DEF IInv, Disjoint
  <2>5. deferred' = deferred /\ lapsed' = lapsed /\ work' = work
    BY <1>1
  <2> QED
    BY <1>3, <2>1, <2>2, <2>3, <2>4, <2>5 DEF Disjoint
<1>9. Placed'
  BY <1>1, <1>4, <1>6 DEF IInv, Placed
<1>10. Covered'
  BY <1>1, <1>4, <1>7 DEF IInv, Covered
<1> QED
  BY <1>4, <1>5, <1>8, <1>9, <1>10 DEF IInv

\* pump sets a queued job whose lease has lapsed aside, to be cancelled.
LEMMA PumpLapsedStep ==
  ASSUME IInv, NEW w \in Workspaces, PumpLapsed(w)
  PROVE  IInv'
<1>1. /\ Pop(w) /\ state[Front(w)] = "Queued" /\ UNCHANGED rowVars
      /\ served' = [served EXCEPT ![lane] = w]
      /\ lapsed' = Append(lapsed, Front(w))
      /\ UNCHANGED <<started, leases, age, owners, closing, lane, deferred, work, call, gone, panicked>>
  BY DEF PumpLapsed, slotVars, keyVars, leaseVars, pumpVars, rowVars, Front
<1>2. PICK id \in Ids :
      /\ id = Front(w) /\ lane \in Classes /\ id \in Elems(queue[lane][w])
      /\ queue' \in [Classes -> [Workspaces -> Seq(Ids)]]
      /\ \A c \in Classes, v \in Workspaces :
            /\ Inj(queue'[c][v])
            /\ Elems(queue'[c][v]) = IF c = lane /\ v = w THEN Elems(queue[c][v]) \ {id}
                                     ELSE Elems(queue[c][v])
      /\ state[id] = "Queued" => Waiting(id) /\ Class(id) = lane /\ spec[id].workspace = w
  BY <1>1, PopStep
<1>3. Waiting(id) /\ Class(id) = lane /\ spec[id].workspace = w /\ id \in HomeQueue(id)
  BY <1>1, <1>2 DEF HomeQueue
<1>4. /\ \A v \in Workspaces : id \notin Elems(deferred[v])
      /\ id \notin Elems(lapsed) /\ id \notin Elems(work)
  BY <1>3, ListedFacts
<1>5. /\ Known' /\ Keyed' /\ Counted' /\ Slotted'
      /\ \A j : Waiting(j)' = Waiting(j) /\ Class(j)' = Class(j)
      /\ UNCHANGED <<next, state, spec, active, pending>>
  BY <1>1, TableFrame
<1>6. lapsed \in Seq(Ids) /\ deferred \in [Workspaces -> Seq(Ids)] /\ deferred[w] \in Seq(Ids)
      /\ Inj(lapsed) /\ Inj(work) /\ \A v \in Workspaces : Inj(deferred[v])
  BY DEF IInv, TypeOK, Disjoint
<1>7. lapsed' \in Seq(Ids) /\ Inj(lapsed') /\ Elems(lapsed') = Elems(lapsed) \cup {id}
  BY <1>1, <1>2, <1>4, <1>6, AppendList
<1>8. TypeOK' /\ PumpIdle' /\ Calling'
  <2>1. served' \in [Classes -> 0..NWorkspaces]
    BY <1>1, <1>2, JobsAssumption DEF IInv, TypeOK, Workspaces
  <2>2. TypeOK'
    BY <1>1, <1>2, <1>7, <2>1 DEF IInv, TypeOK, rowVars
  <2>3. PumpIdle'
    BY <1>1, <1>2 DEF PumpIdle, Classes
  <2>4. Calling'
    BY <1>1, <1>5 DEF IInv, Calling
  <2> QED
    BY <2>2, <2>3, <2>4
<1> DEFINE hq(j) == Elems(queue'[Class(j)][spec[j].workspace])
           hd(j) == Elems(deferred'[spec[j].workspace])
<1>9. \A j : HomeQueue(j)' = hq(j) /\ HomeDeferred(j)' = hd(j)
  BY <1>5, HomeFrame
<1>10. id \notin hq(id) /\ id \notin hd(id)
  BY <1>1, <1>2, <1>3, <1>4
<1>11. \A j \in Ids : Waiting(j) /\ j # id =>
          (j \in hq(j) <=> j \in HomeQueue(j)) /\ (j \in hd(j) <=> j \in HomeDeferred(j))
  <2> SUFFICES ASSUME NEW j \in Ids, Waiting(j), j # id
               PROVE  (j \in hq(j) <=> j \in HomeQueue(j)) /\ (j \in hd(j) <=> j \in HomeDeferred(j))
    OBVIOUS
  <2>1. Class(j) \in Classes /\ spec[j].workspace \in Workspaces
    BY ListedType
  <2>2. j \in hq(j) <=> j \in HomeQueue(j)
    BY <1>2, <2>1 DEF HomeQueue
  <2>3. j \in hd(j) <=> j \in HomeDeferred(j)
    BY <1>1, <2>1 DEF HomeDeferred
  <2> QED
    BY <2>2, <2>3
<1> HIDE DEF hq, hd
<1>12. Disjoint'
  <2>1. \A v \in Workspaces : \A j \in Elems(deferred'[v]) : j \notin hq(j)
    BY <1>1, <1>4, <1>11, ListedFacts
  <2>2. \A j \in Elems(lapsed') : j \notin hq(j) /\ j \notin hd(j)
    BY <1>4, <1>7, <1>10, <1>11, ListedFacts
  <2>3. \A j \in Elems(work') : j \notin hq(j) /\ j \notin hd(j) /\ j \notin Elems(lapsed')
    BY <1>1, <1>4, <1>7, <1>11, ListedFacts
  <2> QED
    BY <1>1, <1>2, <1>6, <1>7, <1>9, <2>1, <2>2, <2>3 DEF Disjoint
<1>13. Placed'
  <2>1. \A c \in Classes, v \in Workspaces : \A j \in Elems(queue'[c][v]) :
          /\ j < next
          /\ state[j] = "Queued" => Class(j) = c /\ spec[j].workspace = v /\ Waiting(j)
    <3>1. \A c \in Classes, v \in Workspaces : Elems(queue'[c][v]) \subseteq Elems(queue[c][v])
      BY <1>2
    <3> QED
      BY <3>1 DEF IInv, Placed
  <2>2. \A v \in Workspaces : \A j \in Elems(deferred'[v]) :
          Waiting(j) /\ Class(j) = lane /\ spec[j].workspace = v
    BY <1>1 DEF IInv, Placed
  <2>3. (\A j \in Elems(lapsed') : Waiting(j)) /\ \A j \in Elems(work') : Waiting(j)
    BY <1>1, <1>3, <1>7, ListedFacts
  <2> QED
    BY <1>1, <1>5, <2>1, <2>2, <2>3 DEF Placed
<1>14. Covered'
  <2>1. ASSUME NEW j \in Ids, Waiting(j)
        PROVE  j \in hq(j) \cup hd(j) \cup Elems(lapsed') \cup Elems(work')
    <3>1. CASE j = id
      BY <1>7, <1>10, <3>1
    <3>2. CASE j # id
      <4>1. j \in HomeQueue(j) \cup HomeDeferred(j) \cup Elems(lapsed) \cup Elems(work)
        BY <2>1 DEF IInv, Covered
      <4> QED
        BY <1>1, <1>7, <1>11, <2>1, <3>2, <4>1
    <3> QED
      BY <3>1, <3>2
  <2> QED
    BY <1>5, <1>9, <2>1 DEF Covered
<1> QED
  BY <1>5, <1>8, <1>12, <1>13, <1>14 DEF IInv

\* pump sets a queued job whose lease is stale aside, to be put back.
LEMMA PumpDeferStep ==
  ASSUME IInv, NEW w \in Workspaces, PumpDefer(w)
  PROVE  IInv'
<1>1. /\ Pop(w) /\ state[Front(w)] = "Queued" /\ UNCHANGED rowVars
      /\ served' = [served EXCEPT ![lane] = w]
      /\ deferred' = [deferred EXCEPT ![w] = Append(@, Front(w))]
      /\ UNCHANGED <<started, leases, age, owners, closing, lane, lapsed, work, call, gone, panicked>>
  BY DEF PumpDefer, slotVars, keyVars, leaseVars, pumpVars, rowVars, Front
<1>2. PICK id \in Ids :
      /\ id = Front(w) /\ lane \in Classes /\ id \in Elems(queue[lane][w])
      /\ queue' \in [Classes -> [Workspaces -> Seq(Ids)]]
      /\ \A c \in Classes, v \in Workspaces :
            /\ Inj(queue'[c][v])
            /\ Elems(queue'[c][v]) = IF c = lane /\ v = w THEN Elems(queue[c][v]) \ {id}
                                     ELSE Elems(queue[c][v])
      /\ state[id] = "Queued" => Waiting(id) /\ Class(id) = lane /\ spec[id].workspace = w
  BY <1>1, PopStep
<1>3. Waiting(id) /\ Class(id) = lane /\ spec[id].workspace = w /\ id \in HomeQueue(id)
  BY <1>1, <1>2 DEF HomeQueue
<1>4. /\ \A v \in Workspaces : id \notin Elems(deferred[v])
      /\ id \notin Elems(lapsed) /\ id \notin Elems(work)
  BY <1>3, ListedFacts
<1>5. /\ Known' /\ Keyed' /\ Counted' /\ Slotted'
      /\ \A j : Waiting(j)' = Waiting(j) /\ Class(j)' = Class(j)
      /\ UNCHANGED <<next, state, spec, active, pending>>
  BY <1>1, TableFrame
<1>6. lapsed \in Seq(Ids) /\ deferred \in [Workspaces -> Seq(Ids)] /\ deferred[w] \in Seq(Ids)
      /\ Inj(lapsed) /\ Inj(work) /\ \A v \in Workspaces : Inj(deferred[v])
  BY DEF IInv, TypeOK, Disjoint
<1>7. /\ deferred' \in [Workspaces -> Seq(Ids)]
      /\ \A v \in Workspaces : Inj(deferred'[v])
      /\ \A v \in Workspaces : Elems(deferred'[v]) = IF v = w THEN Elems(deferred[v]) \cup {id}
                                                   ELSE Elems(deferred[v])
  <2> DEFINE t == Append(deferred[w], id)
  <2>1. t \in Seq(Ids) /\ Inj(t) /\ Elems(t) = Elems(deferred[w]) \cup {id}
    BY <1>4, <1>6, AppendList
  <2>2. deferred' = [deferred EXCEPT ![w] = t]
    BY <1>1, <1>2
  <2> HIDE DEF t
  <2>3. /\ deferred' \in [Workspaces -> Seq(Ids)]
        /\ \A v \in Workspaces : deferred'[v] = IF v = w THEN t ELSE deferred[v]
    BY <1>6, <2>1, <2>2
  <2> QED
    BY <1>6, <2>1, <2>3
<1>8. TypeOK' /\ PumpIdle' /\ Calling'
  <2>1. served' \in [Classes -> 0..NWorkspaces]
    BY <1>1, <1>2, JobsAssumption DEF IInv, TypeOK, Workspaces
  <2>2. TypeOK'
    BY <1>1, <1>2, <1>7, <2>1 DEF IInv, TypeOK, rowVars
  <2>3. PumpIdle'
    BY <1>1, <1>2 DEF PumpIdle, Classes
  <2>4. Calling'
    BY <1>1, <1>5 DEF IInv, Calling
  <2> QED
    BY <2>2, <2>3, <2>4
<1> DEFINE hq(j) == Elems(queue'[Class(j)][spec[j].workspace])
           hd(j) == Elems(deferred'[spec[j].workspace])
<1>9. \A j : HomeQueue(j)' = hq(j) /\ HomeDeferred(j)' = hd(j)
  BY <1>5, HomeFrame
<1>10. id \notin hq(id) /\ id \in hd(id)
  BY <1>1, <1>2, <1>3, <1>7, <1>4
<1>11. \A j \in Ids : Waiting(j) /\ j # id =>
          (j \in hq(j) <=> j \in HomeQueue(j)) /\ (j \in hd(j) <=> j \in HomeDeferred(j))
  <2> SUFFICES ASSUME NEW j \in Ids, Waiting(j), j # id
               PROVE  (j \in hq(j) <=> j \in HomeQueue(j)) /\ (j \in hd(j) <=> j \in HomeDeferred(j))
    OBVIOUS
  <2>1. Class(j) \in Classes /\ spec[j].workspace \in Workspaces
    BY ListedType
  <2>2. j \in hq(j) <=> j \in HomeQueue(j)
    BY <1>2, <2>1 DEF HomeQueue
  <2>3. j \in hd(j) <=> j \in HomeDeferred(j)
    BY <1>1, <1>7, <2>1 DEF HomeDeferred
  <2> QED
    BY <2>2, <2>3
<1> HIDE DEF hq, hd
<1>12. Disjoint'
  <2>1. \A v \in Workspaces : \A j \in Elems(deferred'[v]) : j \notin hq(j)
    BY <1>4, <1>7, <1>10, <1>11, ListedFacts
  <2>2. \A j \in Elems(lapsed') : j \notin hq(j) /\ j \notin hd(j)
    BY <1>1, <1>4, <1>11, ListedFacts
  <2>3. \A j \in Elems(work') : j \notin hq(j) /\ j \notin hd(j) /\ j \notin Elems(lapsed')
    BY <1>1, <1>4, <1>11, ListedFacts
  <2> QED
    BY <1>1, <1>2, <1>6, <1>7, <1>9, <2>1, <2>2, <2>3 DEF Disjoint
<1>13. Placed'
  <2>1. \A c \in Classes, v \in Workspaces : \A j \in Elems(queue'[c][v]) :
          /\ j < next
          /\ state[j] = "Queued" => Class(j) = c /\ spec[j].workspace = v /\ Waiting(j)
    <3>1. \A c \in Classes, v \in Workspaces : Elems(queue'[c][v]) \subseteq Elems(queue[c][v])
      BY <1>2
    <3> QED
      BY <3>1 DEF IInv, Placed
  <2>2. \A v \in Workspaces : \A j \in Elems(deferred'[v]) :
          Waiting(j) /\ Class(j) = lane /\ spec[j].workspace = v
    BY <1>3, <1>7 DEF IInv, Placed
  <2>3. (\A j \in Elems(lapsed') : Waiting(j)) /\ \A j \in Elems(work') : Waiting(j)
    BY <1>1, ListedFacts
  <2> QED
    BY <1>1, <1>5, <2>1, <2>2, <2>3 DEF Placed
<1>14. Covered'
  <2>1. ASSUME NEW j \in Ids, Waiting(j)
        PROVE  j \in hq(j) \cup hd(j) \cup Elems(lapsed') \cup Elems(work')
    <3>1. CASE j = id
      BY <1>7, <1>10, <3>1
    <3>2. CASE j # id
      <4>1. j \in HomeQueue(j) \cup HomeDeferred(j) \cup Elems(lapsed) \cup Elems(work)
        BY <2>1 DEF IInv, Covered
      <4> QED
        BY <1>1, <1>7, <1>11, <2>1, <3>2, <4>1
    <3> QED
      BY <3>1, <3>2
  <2> QED
    BY <1>5, <1>9, <2>1 DEF Covered
<1> QED
  BY <1>5, <1>8, <1>12, <1>13, <1>14 DEF IInv


\* pump admits a job: below the cap, and a runner job takes the lowest free slot.
LEMMA PumpAdmitStep ==
  ASSUME IInv, NEW w \in Workspaces, PumpAdmit(w)
  PROVE  IInv'
<1>1. /\ Pop(w) /\ state[Front(w)] = "Queued"
      /\ served' = [served EXCEPT ![lane] = w]
      /\ state' = [state EXCEPT ![Front(w)] = "Running"]
      /\ running' = [running EXCEPT ![lane] = @ + 1]
      /\ started' = Append(started, Front(w))
      /\ UNCHANGED <<next, spec, active, pending, finished, leases, age, owners, closing,
                     lane, deferred, lapsed, work, call, gone, panicked>>
  BY DEF PumpAdmit, slotVars, keyVars, leaseVars, pumpVars, Front
<1>2. PICK id \in Ids :
      /\ id = Front(w) /\ lane \in Classes /\ id \in Elems(queue[lane][w])
      /\ queue' \in [Classes -> [Workspaces -> Seq(Ids)]]
      /\ \A c \in Classes, v \in Workspaces :
            /\ Inj(queue'[c][v])
            /\ Elems(queue'[c][v]) = IF c = lane /\ v = w THEN Elems(queue[c][v]) \ {id}
                                     ELSE Elems(queue[c][v])
      /\ state[id] = "Queued" => Waiting(id) /\ Class(id) = lane /\ spec[id].workspace = w
  BY <1>1, PopStep
<1>3. Waiting(id) /\ Class(id) = lane /\ spec[id].workspace = w /\ id \in HomeQueue(id)
  BY <1>1, <1>2 DEF HomeQueue
<1>4. /\ \A v \in Workspaces : id \notin Elems(deferred[v])
      /\ id \notin Elems(lapsed) /\ id \notin Elems(work)
  BY <1>3, ListedFacts
<1>5. TypeOK /\ Known /\ Keyed /\ Counted /\ Slotted /\ PumpIdle /\ Calling
  BY DEF IInv
<1>6. /\ state \in [Ids -> JobStates \cup {"Absent"}] /\ slot \in [Ids -> 0..RunnerSlots]
      /\ runner_slots \in [1..RunnerSlots -> Ids \cup {NoId}] /\ running \in [Classes -> Nat]
      /\ NoId \notin Ids /\ state[id] = "Queued" /\ lane \in Classes
  BY <1>1, <1>2, <1>5, Constants DEF TypeOK
<1>7. state' = [state EXCEPT ![id] = "Running"]
  BY <1>1, <1>2
<1>8. state'[id] = "Running" /\ \A j \in Ids : j # id => state'[j] = state[j]
  BY <1>6, <1>7
<1>9. \A j \in Ids : (Unfinished(j)' <=> Unfinished(j)) /\ Key(j)' = Key(j) /\ Class(j)' = Class(j)
  BY <1>1, <1>6, <1>8 DEF Unfinished, Key, Class
<1>10. Known'
  <2>1. \A j \in Elems(finished) : j \in Ids /\ ~Unfinished(j) /\ j < next
    BY <1>5, ListType DEF TypeOK, Known
  <2>2. \A j \in Ids : state[j] # "Absent" => spec[j] \in JobSpec /\ j < next
    BY <1>5 DEF Known
  <2>3. \A j \in Ids : state'[j] # "Absent" => state[j] # "Absent"
    BY <1>6, <1>8
  <2>4. \A j \in Elems(finished)' : ~Unfinished(j)' /\ j < next'
    BY <1>1, <1>9, <2>1
  <2> QED
    BY <1>1, <2>2, <2>3, <2>4 DEF Known
<1>11. Keyed'
  <2>1. active \in [Keys -> Ids \cup {NoId}] /\ pending \in [Keys -> Ids \cup {NoId}]
        /\ active' = active /\ pending' = pending
    BY <1>1, <1>5 DEF TypeOK
  <2>2. ASSUME NEW j \in Ids, Unfinished(j)'
        PROVE  active[Key(j)] = j \/ (pending[Key(j)] = j /\ state'[j] = "Queued")
    <3>1. active[Key(j)] = j \/ (pending[Key(j)] = j /\ state[j] = "Queued")
      BY <1>5, <1>9, <2>2 DEF Keyed
    <3>2. j = id => active[Key(j)] = j
      BY <1>3 DEF Waiting
    <3> QED
      BY <1>8, <3>1, <3>2
  <2>3. ASSUME NEW q \in Keys, active[q] # NoId PROVE Unfinished(active[q])' /\ Key(active[q])' = q
    <3>1. active[q] \in Ids /\ Unfinished(active[q]) /\ Key(active[q]) = q
      BY <1>5, <2>1, <2>3 DEF Keyed
    <3>2. \A j \in Ids : active[q] = j => Unfinished(j)' /\ Key(j)' = q
      BY <1>9, <3>1
    <3>3. PICK a \in Ids : a = active[q] /\ a = active'[q]
      BY <2>1, <3>1
    <3>4. Unfinished(a)' /\ Key(a)' = q
      BY <3>2, <3>3
    <3> QED
      BY <3>3, <3>4 DEF Unfinished, Key
  <2>4. ASSUME NEW q \in Keys, pending[q] # NoId
        PROVE  /\ Unfinished(pending[q])' /\ Key(pending[q])' = q
               /\ active[q] \notin {NoId, pending[q]}
    <3>1. /\ pending[q] \in Ids /\ Unfinished(pending[q]) /\ Key(pending[q]) = q
          /\ active[q] \notin {NoId, pending[q]}
      BY <1>5, <2>1, <2>4 DEF Keyed
    <3>3. PICK a \in Ids : a = pending[q] /\ a = pending'[q]
      BY <2>1, <3>1
    <3>4. Unfinished(a)' /\ Key(a)' = q
      BY <1>9, <3>1, <3>3
    <3> QED
      BY <3>1, <3>3, <3>4 DEF Unfinished, Key
  <2>5. \A j \in Ids : Unfinished(j)' =>
           (active'[Key(j)'] = j \/ (pending'[Key(j)'] = j /\ state'[j] = "Queued"))
    BY <1>9, <2>1, <2>2
  <2>6. \A q \in Keys : /\ active'[q] # NoId => Unfinished(active[q])' /\ Key(active[q])' = q
                        /\ pending'[q] # NoId => /\ Unfinished(pending[q])' /\ Key(pending[q])' = q
                                                 /\ active'[q] \notin {NoId, pending'[q]}
    BY <2>1, <2>3, <2>4
  <2> QED
    BY <2>5, <2>6 DEF Keyed
<1>12. \A j \in Ids : Holding(j)' <=> Holding(j) \/ j = id
  BY <1>6, <1>8 DEF Holding
<1>13. ~Holding(id)
  BY <1>6 DEF Holding
<1>14. Counted' /\ running' \in [Classes -> Nat]
  <2>1. \A c \in Classes : Holders(c)' = IF c = lane THEN Holders(c) \cup {id} ELSE Holders(c)
    <3> SUFFICES ASSUME NEW c \in Classes
                 PROVE  Holders(c)' = IF c = lane THEN Holders(c) \cup {id} ELSE Holders(c)
      OBVIOUS
    <3>1. \A j \in Ids : (Holding(j)' /\ Class(j)' = c) <=>
             ((Holding(j) /\ Class(j) = c) \/ (c = lane /\ j = id))
      BY <1>3, <1>9, <1>12
    <3> QED
      BY <3>1 DEF Holders
  <2>2. id \notin Holders(lane)
    BY <1>13 DEF Holders
  <2>3. \A c \in Classes : running'[c] = IF c = lane THEN running[c] + 1 ELSE running[c]
    BY <1>1, <1>6
  <2>4. running' \in [Classes -> Nat]
    BY <1>1, <1>6
  <2>5. Cardinality(Holders(lane) \cup {id}) = Cardinality(Holders(lane)) + 1
    BY <2>2, HoldersFinite, FS_AddElement
  <2>6. \A c \in Classes : Cap(c) \in Nat /\ running[c] \in Nat /\ running[c] <= Cap(c)
                           /\ running[c] = Cardinality(Holders(c))
    BY <1>5, <1>6, Constants DEF Counted, Cap
  <2>7. running[lane] < Cap(lane)
    BY <1>1 DEF Pop, LaneOpen
  <2>8. \A c \in Classes : running'[c] = Cardinality(Holders(c)')
    BY <2>1, <2>3, <2>5, <2>6
  <2>9. \A c \in Classes : running'[c] <= Cap(c)
    BY <1>6, <2>3, <2>6, <2>7
  <2> QED
    BY <2>4, <2>8, <2>9 DEF Counted, Cap
<1>15. /\ Slotted' /\ slot' \in [Ids -> 0..RunnerSlots]
       /\ runner_slots' \in [1..RunnerSlots -> Ids \cup {NoId}]
  <2>0. slot[id] = 0
    BY <1>5, <1>13 DEF Slotted
  <2>1. CASE lane = "Control"
    <3>1. slot' = slot /\ runner_slots' = runner_slots
      BY <2>1 DEF PumpAdmit
    <3>2. \A j \in Ids : (Holding(j)' /\ Class(j)' = "Runner") <=> (Holding(j) /\ Class(j) = "Runner")
      BY <1>3, <1>9, <1>12, <2>1
    <3>3. \A j \in Ids : slot[j] # 0 <=> Holding(j)' /\ Class(j)' = "Runner"
      BY <1>5, <3>2 DEF Slotted
    <3> QED
      BY <1>5, <1>6, <3>1, <3>3 DEF Slotted
  <2>2. CASE lane = "Runner"
    <3>1. PICK i \in 1..RunnerSlots : /\ LowestFree(i)
                                      /\ runner_slots' = [runner_slots EXCEPT ![i] = id]
                                      /\ slot' = [slot EXCEPT ![id] = i]
      BY <1>2, <2>2 DEF PumpAdmit, Front
    <3>2. /\ slot'[id] = i /\ \A j \in Ids : j # id => slot'[j] = slot[j]
          /\ runner_slots'[i] = id
          /\ \A m \in 1..RunnerSlots : m # i => runner_slots'[m] = runner_slots[m]
          /\ runner_slots[i] = NoId
      BY <1>6, <3>1 DEF LowestFree
    <3>3. \A j \in Ids : slot[j] # i
      BY <1>5, <1>6, <3>2, Constants DEF Slotted
    <3>4. \A j \in Ids : slot'[j] # 0 <=> Holding(j)' /\ Class(j)' = "Runner"
      BY <1>3, <1>5, <1>9, <1>12, <2>2, <3>2, Constants DEF Slotted
    <3>5. ASSUME NEW j \in Ids, slot'[j] # 0 PROVE runner_slots'[slot'[j]] = j
      <4>1. CASE j = id
        BY <3>2, <4>1
      <4>2. CASE j # id
        <5>1. slot'[j] = slot[j] /\ slot[j] # i /\ slot[j] \in 1..RunnerSlots
          BY <1>6, <3>2, <3>3, <3>5, <4>2, Constants
        <5>2. runner_slots[slot[j]] = j
          BY <1>5, <3>5, <5>1 DEF Slotted
        <5> QED
          BY <3>2, <5>1, <5>2
      <4> QED
        BY <4>1, <4>2
    <3>6. ASSUME NEW m \in 1..RunnerSlots, runner_slots'[m] # NoId
          PROVE  slot'[runner_slots'[m]] = m
      <4>1. CASE m = i
        BY <3>2, <4>1
      <4>2. CASE m # i
        <5>1. runner_slots'[m] = runner_slots[m] /\ runner_slots[m] \in Ids
          BY <1>6, <3>2, <3>6, <4>2
        <5>2. slot[runner_slots[m]] = m
          BY <1>5, <3>6, <5>1 DEF Slotted
        <5>3. runner_slots[m] # id
          BY <2>0, <5>2, Constants
        <5> QED
          BY <3>2, <5>1, <5>2, <5>3
      <4> QED
        BY <4>1, <4>2
    <3>7. slot' \in [Ids -> 0..RunnerSlots] /\ runner_slots' \in [1..RunnerSlots -> Ids \cup {NoId}]
      BY <1>6, <3>1, Constants
    <3> QED
      BY <3>4, <3>5, <3>6, <3>7 DEF Slotted
  <2> QED
    BY <1>2, <2>1, <2>2 DEF Classes
<1>16. TypeOK' /\ PumpIdle' /\ Calling'
  <2>1. served' \in [Classes -> 0..NWorkspaces]
    BY <1>1, <1>2, JobsAssumption DEF IInv, TypeOK, Workspaces
  <2>2. started' \in Seq(Ids)
    BY <1>1, <1>2, <1>5, AppendList DEF TypeOK
  <2>3. state' \in [Ids -> JobStates \cup {"Absent"}]
    BY <1>6, <1>7 DEF JobStates
  <2>4. TypeOK'
    BY <1>1, <1>2, <1>5, <1>14, <1>15, <2>1, <2>2, <2>3 DEF TypeOK
  <2>5. PumpIdle'
    BY <1>1, <1>2 DEF PumpIdle, Classes
  <2>6. Calling'
    BY <1>1, <1>5 DEF Calling
  <2> QED
    BY <2>4, <2>5, <2>6
<1>17. \A j \in Ids : Waiting(j)' <=> Waiting(j) /\ j # id
  BY <1>1, <1>6, <1>8 DEF Waiting, Key
<1> DEFINE hq(j) == Elems(queue'[Class(j)][spec[j].workspace])
           hd(j) == Elems(deferred'[spec[j].workspace])
<1>18. \A j : HomeQueue(j)' = hq(j) /\ HomeDeferred(j)' = hd(j)
  BY <1>1, HomeFrame
<1>19. \A j \in Ids : Waiting(j) /\ j # id =>
          (j \in hq(j) <=> j \in HomeQueue(j)) /\ (j \in hd(j) <=> j \in HomeDeferred(j))
  <2> SUFFICES ASSUME NEW j \in Ids, Waiting(j), j # id
               PROVE  (j \in hq(j) <=> j \in HomeQueue(j)) /\ (j \in hd(j) <=> j \in HomeDeferred(j))
    OBVIOUS
  <2>1. Class(j) \in Classes /\ spec[j].workspace \in Workspaces
    BY ListedType
  <2>2. j \in hq(j) <=> j \in HomeQueue(j)
    BY <1>2, <2>1 DEF HomeQueue
  <2>3. j \in hd(j) <=> j \in HomeDeferred(j)
    BY <1>1, <2>1 DEF HomeDeferred
  <2> QED
    BY <2>2, <2>3
<1> HIDE DEF hq, hd
<1>20. Disjoint'
  <2>1. \A v \in Workspaces : \A j \in Elems(deferred'[v]) : j \notin hq(j)
    BY <1>1, <1>4, <1>19, ListedFacts
  <2>2. \A j \in Elems(lapsed') : j \notin hq(j) /\ j \notin hd(j)
    BY <1>1, <1>4, <1>19, ListedFacts
  <2>3. \A j \in Elems(work') : j \notin hq(j) /\ j \notin hd(j) /\ j \notin Elems(lapsed')
    BY <1>1, <1>4, <1>19, ListedFacts
  <2>4. Inj(lapsed) /\ Inj(work) /\ \A v \in Workspaces : Inj(deferred[v])
    BY DEF IInv, Disjoint
  <2> QED
    BY <1>1, <1>2, <1>18, <2>1, <2>2, <2>3, <2>4 DEF Disjoint
<1>21. Placed'
  <2>1. \A c \in Classes, v \in Workspaces : \A j \in Elems(queue'[c][v]) :
          /\ j < next
          /\ state'[j] = "Queued" => Class(j) = c /\ spec[j].workspace = v /\ Waiting(j)'
    <3> SUFFICES ASSUME NEW c \in Classes, NEW v \in Workspaces, NEW j \in Elems(queue'[c][v])
                 PROVE  /\ j < next
                        /\ state'[j] = "Queued" => /\ Class(j) = c /\ spec[j].workspace = v
                                                   /\ Waiting(j)'
      OBVIOUS
    <3>1. j \in Elems(queue[c][v]) /\ j \in Ids
      BY <1>2, ListedType
    <3>2. j < next /\ (state[j] = "Queued" => Class(j) = c /\ spec[j].workspace = v /\ Waiting(j))
      BY <3>1 DEF IInv, Placed
    <3>3. state'[j] = "Queued" => j # id /\ state[j] = "Queued"
      BY <1>8, <3>1
    <3> QED
      BY <1>17, <3>1, <3>2, <3>3
  <2>2. \A v \in Workspaces : \A j \in Elems(deferred'[v]) :
          Waiting(j)' /\ Class(j) = lane /\ spec[j].workspace = v
    <3>1. \A v \in Workspaces : \A j \in Elems(deferred[v]) :
            j \in Ids /\ Waiting(j) /\ Class(j) = lane /\ spec[j].workspace = v
      BY ListedType DEF IInv, Placed
    <3> QED
      BY <1>1, <1>4, <1>17, <3>1
  <2>3. (\A j \in Elems(lapsed') : Waiting(j)') /\ \A j \in Elems(work') : Waiting(j)'
    BY <1>1, <1>4, <1>17, ListedFacts
  <2>4. \A j : Class(j)' = Class(j) /\ spec'[j] = spec[j]
    BY <1>1 DEF Class
  <2> QED
    BY <1>1, <2>1, <2>2, <2>3, <2>4 DEF Placed
<1>22. Covered'
  <2>1. ASSUME NEW j \in Ids, Waiting(j)'
        PROVE  j \in hq(j) \cup hd(j) \cup Elems(lapsed') \cup Elems(work')
    <3>1. Waiting(j) /\ j # id
      BY <1>17, <2>1
    <3>2. j \in HomeQueue(j) \cup HomeDeferred(j) \cup Elems(lapsed) \cup Elems(work)
      BY <3>1 DEF IInv, Covered
    <3> QED
      BY <1>1, <1>19, <3>1, <3>2
  <2> QED
    BY <1>18, <2>1 DEF Covered
<1> QED
  BY <1>10, <1>11, <1>14, <1>15, <1>16, <1>20, <1>21, <1>22 DEF IInv

\* pump puts the deferred jobs back and goes to the next class.
LEMMA PumpLaneStep ==
  ASSUME IInv, PumpLane
  PROVE  IInv'
<1>1. /\ lane \in Classes
      /\ queue' = [queue EXCEPT ![lane] = [w \in Workspaces |-> deferred[w] \o queue[lane][w]]]
      /\ deferred' = [w \in Workspaces |-> <<>>]
      /\ UNCHANGED rowVars
      /\ UNCHANGED <<served, started, leases, age, owners, closing, call, gone, panicked>>
  BY DEF PumpLane, slotVars, keyVars, leaseVars, rowVars, IInv, TypeOK, Classes
<1>2. \/ lane' = "Runner" /\ lapsed' = lapsed /\ work' = work
      \/ lane' = "none" /\ lapsed' = <<>> /\ work' = lapsed \o work
  BY DEF PumpLane
<1>3. /\ queue \in [Classes -> [Workspaces -> Seq(Ids)]] /\ deferred \in [Workspaces -> Seq(Ids)]
      /\ lapsed \in Seq(Ids) /\ work \in Seq(Ids)
      /\ Inj(lapsed) /\ Inj(work) /\ \A w \in Workspaces : Inj(deferred[w])
      /\ \A c \in Classes, w \in Workspaces : Inj(queue[c][w])
  BY DEF IInv, TypeOK, Disjoint
<1>4. /\ Known' /\ Keyed' /\ Counted' /\ Slotted'
      /\ \A j : Waiting(j)' = Waiting(j) /\ Class(j)' = Class(j)
      /\ UNCHANGED <<next, state, spec, active, pending>>
  BY <1>1, TableFrame
<1>5. \A w \in Workspaces : \A j \in Elems(deferred[w]) :
         j \in Ids /\ Waiting(j) /\ Class(j) = lane /\ spec[j].workspace = w
  BY ListedType DEF IInv, Placed
<1>6. \A w \in Workspaces : Elems(deferred[w]) \cap Elems(queue[lane][w]) = {}
  BY <1>5, ListedFacts DEF HomeQueue
<1>7. ASSUME NEW w \in Workspaces
      PROVE  /\ deferred[w] \o queue[lane][w] \in Seq(Ids)
             /\ Inj(deferred[w] \o queue[lane][w])
             /\ Elems(deferred[w] \o queue[lane][w]) = Elems(deferred[w]) \cup Elems(queue[lane][w])
  <2>1. deferred[w] \in Seq(Ids) /\ queue[lane][w] \in Seq(Ids)
    BY <1>1, <1>3
  <2> QED
    BY <1>1, <1>3, <1>6, <2>1, ConcatList
<1>8. /\ queue' \in [Classes -> [Workspaces -> Seq(Ids)]]
      /\ \A c \in Classes, w \in Workspaces :
            /\ Inj(queue'[c][w])
            /\ Elems(queue'[c][w]) = IF c = lane THEN Elems(deferred[w]) \cup Elems(queue[c][w])
                                     ELSE Elems(queue[c][w])
  <2> DEFINE f == [w \in Workspaces |-> deferred[w] \o queue[lane][w]]
  <2>1. f \in [Workspaces -> Seq(Ids)]
    BY <1>7
  <2>2. queue' = [queue EXCEPT ![lane] = f]
    BY <1>1
  <2>3. \A w \in Workspaces : f[w] = deferred[w] \o queue[lane][w]
    OBVIOUS
  <2> HIDE DEF f
  <2>4. /\ queue' \in [Classes -> [Workspaces -> Seq(Ids)]]
        /\ \A c \in Classes : queue'[c] = IF c = lane THEN f ELSE queue[c]
    BY <1>1, <1>3, <2>1, <2>2
  <2> QED
    BY <1>3, <1>7, <2>3, <2>4
<1>9. /\ lapsed' \in Seq(Ids) /\ work' \in Seq(Ids) /\ Inj(lapsed') /\ Inj(work')
      /\ Elems(lapsed') \cup Elems(work') = Elems(lapsed) \cup Elems(work)
      /\ Elems(lapsed') \cap Elems(work') = {}
  <2>1. Elems(lapsed) \cap Elems(work) = {}
    BY ListedFacts
  <2>2. CASE lapsed' = lapsed /\ work' = work
    BY <1>3, <2>1, <2>2
  <2>3. CASE lapsed' = <<>> /\ work' = lapsed \o work
    BY <1>3, <2>1, <2>3, ConcatList, EmptyList
  <2> QED
    BY <1>2, <2>2, <2>3
<1>10. /\ deferred' \in [Workspaces -> Seq(Ids)]
       /\ \A w \in Workspaces : deferred'[w] = <<>> /\ Elems(deferred'[w]) = {} /\ Inj(deferred'[w])
  BY <1>1, EmptyList
<1>11. TypeOK' /\ PumpIdle' /\ Calling'
  <2>1. lane' \in Classes \cup {"none"}
    BY <1>2 DEF Classes
  <2>2. TypeOK'
    BY <1>1, <1>8, <1>9, <1>10, <2>1 DEF IInv, TypeOK, rowVars
  <2>3. PumpIdle'
    BY <1>2, <1>10 DEF PumpIdle
  <2>4. Calling'
    BY <1>1, <1>4 DEF IInv, Calling
  <2> QED
    BY <2>2, <2>3, <2>4
<1> DEFINE hq(j) == Elems(queue'[Class(j)][spec[j].workspace])
           hd(j) == Elems(deferred'[spec[j].workspace])
<1>12. \A j : HomeQueue(j)' = hq(j) /\ HomeDeferred(j)' = hd(j)
  BY <1>4, HomeFrame
<1>13. \A j \in Ids : Waiting(j) =>
          (j \in hq(j) <=> j \in HomeQueue(j) \cup HomeDeferred(j)) /\ j \notin hd(j)
  <2> SUFFICES ASSUME NEW j \in Ids, Waiting(j)
               PROVE  (j \in hq(j) <=> j \in HomeQueue(j) \cup HomeDeferred(j)) /\ j \notin hd(j)
    OBVIOUS
  <2>1. Class(j) \in Classes /\ spec[j].workspace \in Workspaces
    BY ListedType
  <2>2. j \in HomeDeferred(j) => Class(j) = lane
    BY <1>5, <2>1 DEF HomeDeferred
  <2> QED
    BY <1>8, <1>10, <2>1, <2>2 DEF HomeQueue, HomeDeferred
<1> HIDE DEF hq, hd
<1>14. \A j \in Elems(lapsed') \cup Elems(work') :
          j \in Ids /\ Waiting(j) /\ j \notin hq(j) /\ j \notin hd(j)
  BY <1>9, <1>13, ListedFacts
<1>15. Disjoint'
  BY <1>8, <1>9, <1>10, <1>12, <1>14 DEF Disjoint
<1>16. Placed'
  <2>1. \A c \in Classes, w \in Workspaces : \A j \in Elems(queue'[c][w]) :
          /\ j < next
          /\ state[j] = "Queued" => Class(j) = c /\ spec[j].workspace = w /\ Waiting(j)
    <3> SUFFICES ASSUME NEW c \in Classes, NEW w \in Workspaces, NEW j \in Elems(queue'[c][w])
                 PROVE  /\ j < next
                        /\ state[j] = "Queued" => Class(j) = c /\ spec[j].workspace = w /\ Waiting(j)
      OBVIOUS
    <3>1. CASE j \in Elems(queue[c][w])
      BY <3>1 DEF IInv, Placed
    <3>2. CASE c = lane /\ j \in Elems(deferred[w])
      <4>1. j \in Ids /\ Waiting(j) /\ Class(j) = lane /\ spec[j].workspace = w
        BY <1>5, <3>2
      <4>2. j < next
        BY <4>1 DEF IInv, Known, Waiting
      <4> QED
        BY <3>2, <4>1, <4>2
    <3> QED
      BY <1>8, <3>1, <3>2
  <2> QED
    BY <1>4, <1>10, <1>14, <2>1 DEF Placed
<1>17. Covered'
  <2>1. ASSUME NEW j \in Ids, Waiting(j)
        PROVE  j \in hq(j) \cup Elems(lapsed') \cup Elems(work')
    <3>1. j \in HomeQueue(j) \cup HomeDeferred(j) \cup Elems(lapsed) \cup Elems(work)
      BY <2>1 DEF IInv, Covered
    <3> QED
      BY <1>9, <1>13, <2>1, <3>1
  <2> QED
    BY <1>4, <1>12, <2>1 DEF Covered
<1> QED
  BY <1>4, <1>11, <1>15, <1>16, <1>17 DEF IInv

\* A finishing step that a submission under way survives: its key keeps no waiting
\* job, and the job that ran when the submission began still does or nothing does.
LEMMA CallingFinish ==
  ASSUME IInv, NEW id \in Ids, Unfinished(id), NEW end \in Terminal, Finish(id, end),
         UNCHANGED call
  PROVE  Calling'
<1> SUFFICES ASSUME call # NoCall PROVE Calling'
  BY DEF Calling
<1> DEFINE k == <<call.workspace, call.stack>>
           i == Key(id)
<1>1. next' = next /\ call' = call
  BY DEF Finish
<1>2. CASE call.stage = "place"
  <2>1. next <= MaxJobs /\ pending[k] = NoId /\ active[k] \in {NoId, call.active}
    BY <1>2 DEF IInv, Calling
  <2>2. k \in Keys
    <3>1. call \in Call
      BY DEF IInv, TypeOK
    <3> QED
      BY <3>1 DEF Call, Keys
  <2>3. i \in Keys
    BY KeyType DEF IInv, Known, Unfinished
  <2>4. active \in [Keys -> Ids \cup {NoId}] /\ pending \in [Keys -> Ids \cup {NoId}]
    BY DEF IInv, TypeOK
  <2>5. \/ /\ active[i] = id /\ active' = [active EXCEPT ![i] = pending[i]]
           /\ pending' = [pending EXCEPT ![i] = NoId]
        \/ /\ active' = active /\ pending' = [pending EXCEPT ![i] = IF @ = id THEN NoId ELSE @]
    BY DEF Finish, FinishKey
  <2> HIDE DEF k, i
  <2>6. pending'[k] = NoId /\ active'[k] \in {NoId, call.active}
    BY <2>1, <2>2, <2>3, <2>4, <2>5
  <2> QED
    BY <1>1, <1>2, <2>1, <2>6 DEF Calling, k
<1>3. CASE call.stage # "place"
  BY <1>1, <1>3 DEF IInv, Calling
<1> QED
  BY <1>2, <1>3

\* pump cancels the jobs it found lapsed, one after the other.
LEMMA PumpFinishStep ==
  ASSUME IInv, PumpFinish
  PROVE  IInv'
<1>1. /\ lane = "none" /\ work # <<>> /\ Finish(Head(work), "Cancelled") /\ work' = Tail(work)
      /\ call' = call
  BY DEF PumpFinish
<1>2. work \in Seq(Ids) /\ Inj(work) /\ call \in Call \cup {NoCall}
  BY DEF IInv, TypeOK, Disjoint
<1>3. PICK id \in Ids : id = Head(work) /\ id \in Elems(work)
  BY <1>1, <1>2, TailList
<1>4. /\ work' \in Seq(Ids) /\ Inj(work') /\ Elems(work') = Elems(work) \ {id}
  BY <1>1, <1>2, <1>3, TailList
<1>5. Unfinished(id)
  BY <1>3, ListedFacts DEF Waiting, Unfinished
<1>6. Finish(id, "Cancelled") /\ "Cancelled" \in Terminal
  BY <1>1, <1>3 DEF Terminal
<1>7. Calling'
  BY <1>1, <1>5, <1>6, CallingFinish
<1> QED
  BY <1>1, <1>2, <1>4, <1>5, <1>6, <1>7, FinishStep

-----------------------------------------------------------------------------
\* The calls of the actor.

\* Between calls the pump is idle and no submission is under way.
LEMMA ReadyFacts ==
  ASSUME IInv, Ready
  PROVE  /\ lane = "none" /\ work = <<>> /\ call = NoCall /\ ~panicked
         /\ work \in Seq(Ids) /\ Inj(work) /\ Elems(work) = {}
<1>1. lane = "none" /\ work = <<>> /\ call = NoCall /\ ~panicked
  BY DEF Ready, Busy
<1>2. work \in Seq(Ids) /\ Inj(work) /\ Elems(work) = {}
  BY <1>1, EmptyList DEF IInv, TypeOK
<1> QED
  BY <1>1, <1>2

\* Finishing a job between calls.
LEMMA FinishBetweenCalls ==
  ASSUME IInv, NEW id \in Ids, Unfinished(id), NEW end \in Terminal, Finish(id, end),
         lane = "none", work = <<>>, UNCHANGED work,
         call' \in Call \cup {NoCall}, Calling'
  PROVE  IInv'
<1>1. work' = <<>> /\ work' \in Seq(Ids) /\ Inj(work') /\ Elems(work') = Elems(work) \ {id}
  <2>1. work' = <<>> /\ work' = work
    OBVIOUS
  <2>2. Elems(work) = {} /\ Inj(work') /\ Elems(work') = {}
    BY <2>1, EmptyList
  <2> QED
    BY <2>1, <2>2 DEF IInv, TypeOK
<1> QED
  BY <1>1, FinishStep

\* submit_class supersedes the job that waits behind the key, or begins with none.
LEMMA SubmitNewStep ==
  ASSUME IInv, NEW w \in Workspaces, NEW s \in Stacks, NEW d \in Digests, NEW leased \in BOOLEAN,
         NEW owner \in Clients \cup {NoClient}, SubmitNew(w, s, d, leased, owner)
  PROVE  IInv'
<1> DEFINE k == <<w, s>>
<1>1. /\ Ready /\ next <= MaxJobs
      /\ call' = [stage |-> "place", workspace |-> w, stack |-> s, digest |-> d,
                  active |-> active[k], leased |-> leased, owner |-> owner]
  BY DEF SubmitNew
<1>2. k \in Keys /\ active[k] \in Ids \cup {NoId} /\ pending[k] \in Ids \cup {NoId}
  BY DEF Keys, IInv, TypeOK
<1>3. call' \in Call
  BY <1>1, <1>2 DEF Call
<1>4. lane = "none" /\ work = <<>> /\ call = NoCall
  BY <1>1, ReadyFacts
<1>5. call'.stage = "place" /\ call'.workspace = w /\ call'.stack = s /\ call'.active = active[k]
  BY <1>1
<1>6. ASSUME next' = next, pending'[k] = NoId, active'[k] = active[k] PROVE Calling'
  <2>1. /\ next' <= MaxJobs /\ pending'[<<call'.workspace, call'.stack>>] = NoId
        /\ active'[<<call'.workspace, call'.stack>>] = call'.active
    BY <1>1, <1>5, <1>6
  <2> QED
    BY <1>5, <2>1 DEF Calling
<1>7. CASE pending[k] # NoId /\ Finish(pending[k], "Superseded") /\ UNCHANGED work
  <2>1. PICK p \in Ids : p = pending[k] /\ Unfinished(p) /\ Key(p) = k /\ active[k] # p
    BY <1>2, <1>7 DEF IInv, Keyed
  <2>2. Finish(p, "Superseded") /\ "Superseded" \in Terminal
    BY <1>7, <2>1 DEF Terminal
  <2>3. /\ active' = active /\ next' = next
        /\ pending' = [pending EXCEPT ![k] = IF @ = p THEN NoId ELSE @]
    BY <2>1, <2>2 DEF Finish, FinishKey
  <2>4. pending'[k] = NoId
    BY <1>2, <2>1, <2>3 DEF IInv, TypeOK
  <2>5. Calling'
    BY <1>6, <2>3, <2>4
  <2> QED
    BY <1>3, <1>4, <1>7, <2>1, <2>2, <2>5, FinishBetweenCalls
<1>8. CASE /\ pending[k] = NoId
           /\ UNCHANGED <<next, state, spec, slotVars, keyVars, queue, served, finished,
                          started, leaseVars, closing, pumpVars, gone, panicked>>
  <2>1. /\ UNCHANGED rowVars
        /\ UNCHANGED <<queue, deferred, lapsed, work>>
        /\ UNCHANGED <<served, started, leases, age, owners, closing, lane, gone, panicked>>
    BY <1>8 DEF slotVars, keyVars, leaseVars, pumpVars, rowVars
  <2>2. TypeOK'
    BY <1>3, <2>1 DEF IInv, TypeOK, rowVars
  <2>3. next' = next /\ active' = active /\ pending' = pending
    BY <2>1 DEF rowVars
  <2>4. Calling'
    BY <1>6, <1>8, <2>3
  <2>5. PumpIdle'
    BY <2>1 DEF IInv, PumpIdle
  <2> QED
    BY <2>1, <2>2, <2>4, <2>5, FrameStep
<1> QED
  BY <1>7, <1>8 DEF SubmitNew

\* Recording the owner of a job keeps the owner table well typed.
LEMMA OwnType ==
  ASSUME TypeOK, NEW id, NEW s, NEW owner \in Clients \cup {NoClient}, NEW created \in BOOLEAN,
         Own(id, s, owner, created)
  PROVE  owners' \in [Ids -> SUBSET Clients]
<1> DEFINE e == CASE owner = NoClient -> {}
                  [] owner # NoClient /\ created -> {owner}
                  [] owner # NoClient /\ ~created ->
                       IF owners[id] = {} THEN {} ELSE owners[id] \cup {owner}
<1>1. owners \in [Ids -> SUBSET Clients]
  BY DEF TypeOK
<1>2. CASE s \notin OwnedStacks
  BY <1>1, <1>2 DEF Own
<1>3. CASE s \in OwnedStacks
  <2>1. owners' = [owners EXCEPT ![id] = e]
    BY <1>3 DEF Own
  <2>2. id \in Ids => e \in SUBSET Clients
    <3>1. CASE owner = NoClient
      BY <3>1
    <3>2. CASE owner # NoClient /\ created
      BY <3>2
    <3>3. CASE owner # NoClient /\ ~created
      BY <1>1, <3>3
    <3> QED
      BY <3>1, <3>2, <3>3
  <2> HIDE DEF e
  <2> QED
    BY <1>1, <2>1, <2>2
<1> QED
  BY <1>2, <1>3

\* A job settled, cancelled while queued or cancelled again, or ended by close.
LEMMA FinishCalls ==
  ASSUME IInv, NEW id \in Ids, Unfinished(id), NEW end \in Terminal, Finish(id, end),
         lane = "none", work = <<>>, call = NoCall, UNCHANGED <<work, call>>
  PROVE  IInv'
<1>1. call' = NoCall /\ Calling'
  BY DEF Calling
<1> QED
  BY <1>1, FinishBetweenCalls

\* complete_at: an executor's report ends its job.
LEMMA SettleStep ==
  ASSUME IInv, NEW id \in Ids, NEW ok \in BOOLEAN, Settle(id, ok)
  PROVE  IInv'
<1>1. SettledState(id, ok) \in Terminal
  BY DEF SettledState, Terminal
<1>2. Ready /\ Unfinished(id) /\ Finish(id, SettledState(id, ok)) /\ UNCHANGED <<work, call>>
  BY DEF Settle
<1> QED
  BY <1>1, <1>2, ReadyFacts, FinishCalls

\* close cancels the queued jobs, lowest id first.
LEMMA CloseFinishStep ==
  ASSUME IInv, NEW id \in Ids, CloseFinish(id)
  PROVE  IInv'
<1>1. /\ lane = "none" /\ work = <<>> /\ call = NoCall /\ Unfinished(id)
      /\ Finish(id, "Cancelled") /\ UNCHANGED <<work, call>> /\ "Cancelled" \in Terminal
  BY DEF CloseFinish, Unfinished, Terminal
<1> QED
  BY <1>1, FinishCalls

\* cancel: a running job is marked and keeps its key, its place and its slot.
LEMMA CancelStep ==
  ASSUME IInv, NEW id \in Ids, Cancel(id)
  PROVE  IInv'
<1>1. CASE state[id] \in {"Queued", "Cancelling"} /\ Finish(id, "Cancelled") /\ UNCHANGED <<work, call>>
  <2>1. Ready /\ Unfinished(id) /\ "Cancelled" \in Terminal
    BY <1>1 DEF Cancel, Unfinished, Terminal
  <2> QED
    BY <1>1, <2>1, ReadyFacts, FinishCalls
<1>2. CASE /\ state[id] = "Running"
           /\ state' = [state EXCEPT ![id] = "Cancelling"]
           /\ UNCHANGED <<next, spec, slotVars, keyVars, queue, served, finished, started,
                          leaseVars, closing, pumpVars, call, gone, panicked>>
  <2>1. /\ UNCHANGED <<next, spec, slot, running, runner_slots, active, pending, queue, served,
                       finished, started, leases, age, owners, closing, lane, deferred, lapsed,
                       work, call, gone, panicked>>
    BY <1>2 DEF slotVars, keyVars, leaseVars, pumpVars
  <2>2. state \in [Ids -> JobStates \cup {"Absent"}]
    BY DEF IInv, TypeOK
  <2>3. state'[id] = "Cancelling" /\ \A j \in Ids : j # id => state'[j] = state[j]
    BY <1>2, <2>2
  <2>4. TypeOK'
    <3>1. state' \in [Ids -> JobStates \cup {"Absent"}]
      BY <1>2, <2>2 DEF JobStates
    <3> QED
      BY <2>1, <3>1 DEF IInv, TypeOK
  <2>5. \A j \in Ids : /\ Unfinished(j)' <=> Unfinished(j)
                       /\ Holding(j)' <=> Holding(j)
                       /\ Waiting(j)' <=> Waiting(j)
                       /\ state'[j] = "Queued" <=> state[j] = "Queued"
                       /\ state'[j] # "Absent" <=> state[j] # "Absent"
    BY <1>2, <2>1, <2>3 DEF Unfinished, Holding, Waiting, Key
  <2>6. /\ \A j : Key(j)' = Key(j) /\ Class(j)' = Class(j)
        /\ \A j : HomeQueue(j)' = HomeQueue(j) /\ HomeDeferred(j)' = HomeDeferred(j)
    BY <2>1 DEF Key, Class, HomeQueue, HomeDeferred
  <2>7. Known'
    <3>1. \A j \in Elems(finished) : j \in Ids /\ ~Unfinished(j) /\ j < next
      BY ListType DEF IInv, TypeOK, Known
    <3>2. \A j \in Elems(finished)' : ~Unfinished(j)' /\ j < next'
      BY <2>1, <2>5, <3>1
    <3> QED
      BY <2>1, <2>5, <3>2 DEF IInv, Known
  <2>8. Keyed'
    <3>1. active \in [Keys -> Ids \cup {NoId}] /\ pending \in [Keys -> Ids \cup {NoId}]
      BY DEF IInv, TypeOK
    <3>2. \A j \in Ids : Unfinished(j)' <=> Unfinished(j)
      BY <2>5
    <3>3. \A j \in Ids : Unfinished(j)' =>
             (active'[Key(j)'] = j \/ (pending'[Key(j)'] = j /\ state'[j] = "Queued"))
      BY <2>1, <2>5, <2>6 DEF IInv, Keyed
    <3>4. ASSUME NEW q \in Keys, active[q] # NoId
          PROVE  Unfinished(active[q])' /\ Key(active[q])' = q
      <4>1. PICK a \in Ids : a = active[q] /\ a = active'[q] /\ Unfinished(a) /\ Key(a) = q
        BY <2>1, <3>1, <3>4 DEF IInv, Keyed
      <4>2. Unfinished(a)' /\ Key(a)' = q
        BY <2>5, <2>6, <4>1
      <4> QED
        BY <4>1, <4>2 DEF Unfinished, Key
    <3>5. ASSUME NEW q \in Keys, pending[q] # NoId
          PROVE  /\ Unfinished(pending[q])' /\ Key(pending[q])' = q
                 /\ active[q] \notin {NoId, pending[q]}
      <4>1. PICK a \in Ids : /\ a = pending[q] /\ a = pending'[q] /\ Unfinished(a) /\ Key(a) = q
                             /\ active[q] \notin {NoId, a}
        BY <2>1, <3>1, <3>5 DEF IInv, Keyed
      <4>2. Unfinished(a)' /\ Key(a)' = q
        BY <2>5, <2>6, <4>1
      <4> QED
        BY <4>1, <4>2 DEF Unfinished, Key
    <3>6. \A q \in Keys : /\ active'[q] # NoId => Unfinished(active[q])' /\ Key(active[q])' = q
                          /\ pending'[q] # NoId => /\ Unfinished(pending[q])' /\ Key(pending[q])' = q
                                                   /\ active'[q] \notin {NoId, pending'[q]}
      BY <2>1, <3>4, <3>5
    <3> QED
      BY <3>3, <3>6 DEF Keyed
  <2>9. Counted'
    <3>1. \A c \in Classes : Holders(c)' = Holders(c)
      BY <2>5, <2>6 DEF Holders
    <3> QED
      BY <2>1, <3>1 DEF IInv, Counted
  <2>10. Slotted'
    BY <2>1, <2>5, <2>6 DEF IInv, Slotted
  <2>11. PumpIdle' /\ Calling'
    BY <2>1 DEF IInv, PumpIdle, Calling
  <2>12. Disjoint'
    BY <2>1, <2>6 DEF IInv, Disjoint
  <2>13. Placed'
    <3>1. \A c \in Classes, w \in Workspaces : \A j \in Elems(queue[c][w]) :
            /\ j < next
            /\ state'[j] = "Queued" => Class(j) = c /\ spec[j].workspace = w /\ Waiting(j)'
      <4> SUFFICES ASSUME NEW c \in Classes, NEW w \in Workspaces, NEW j \in Elems(queue[c][w])
                   PROVE  /\ j < next
                          /\ state'[j] = "Queued" => /\ Class(j) = c /\ spec[j].workspace = w
                                                     /\ Waiting(j)'
        OBVIOUS
      <4>1. j \in Ids
        BY ListedType
      <4>2. j < next /\ (state[j] = "Queued" => Class(j) = c /\ spec[j].workspace = w /\ Waiting(j))
        BY DEF IInv, Placed
      <4> QED
        BY <2>5, <4>1, <4>2
    <3>2. \A w \in Workspaces : \A j \in Elems(deferred[w]) :
            Waiting(j)' /\ Class(j) = lane /\ spec[j].workspace = w
      <4>1. \A w \in Workspaces : \A j \in Elems(deferred[w]) :
              j \in Ids /\ Waiting(j) /\ Class(j) = lane /\ spec[j].workspace = w
        BY ListedType DEF IInv, Placed
      <4> QED
        BY <2>5, <4>1
    <3>3. (\A j \in Elems(lapsed) : Waiting(j)') /\ \A j \in Elems(work) : Waiting(j)'
      BY <2>5, ListedFacts
    <3> QED
      BY <2>1, <2>6, <3>1, <3>2, <3>3 DEF Placed
  <2>14. Covered'
    BY <2>1, <2>5, <2>6 DEF IInv, Covered
  <2> QED
    BY <2>4, <2>7, <2>8, <2>9, <2>10, <2>11, <2>12, <2>13, <2>14 DEF IInv
<1> QED
  BY <1>1, <1>2 DEF Cancel

\* The rest of submit_class: the new job waits behind the active one or becomes it.
LEMMA SubmitPlaceStep ==
  ASSUME IInv, SubmitPlace
  PROVE  IInv'
<1> DEFINE k == <<call.workspace, call.stack>>
           s == [workspace |-> call.workspace, stack |-> call.stack, digest |-> call.digest]
<1>1. /\ lane = "none" /\ work = <<>> /\ call.stage = "place"
      /\ next' = next + 1
      /\ state' = [state EXCEPT ![next] = "Queued"]
      /\ spec' = [spec EXCEPT ![next] = s]
      /\ call' = [call EXCEPT !.stage = "attach"]
      /\ UNCHANGED <<slot, running, runner_slots, served, finished, started, leases, age, owners,
                     closing, gone, panicked, deferred, lapsed, work>>
      /\ lane' \in {"none", "Control"}
  BY DEF SubmitPlace, slotVars, leaseVars, pumpVars, StartPump
<1>2. TypeOK /\ Known /\ Keyed /\ Counted /\ Slotted /\ PumpIdle /\ Disjoint /\ Placed /\ Covered /\ Calling
  BY DEF IInv
<1>3. call \in Call /\ call # NoCall
  <2>1. CASE call = NoCall
    BY <1>1, <2>1 DEF NoCall
  <2> QED
    BY <1>2, <2>1 DEF TypeOK
<1>4. next <= MaxJobs /\ pending[k] = NoId /\ active[k] \in {NoId, call.active}
  BY <1>1, <1>2, <1>3 DEF Calling
<1>5. PICK id \in Ids : id = next
  BY <1>2, <1>4, Constants DEF TypeOK, Ids
<1>6. /\ k \in Keys /\ s \in JobSpec /\ call.workspace \in Workspaces /\ call.stack \in Stacks
      /\ s.workspace = call.workspace /\ s.stack = call.stack
      /\ ClassOf(call.stack) \in Classes
  BY <1>3 DEF Call, Keys, JobSpec, ClassOf, Classes
<1> DEFINE c0 == ClassOf(call.stack)
           w0 == call.workspace
<1>7. /\ state \in [Ids -> JobStates \cup {"Absent"}] /\ spec \in [Ids -> JobSpec \cup {NoSpec}]
      /\ active \in [Keys -> Ids \cup {NoId}] /\ pending \in [Keys -> Ids \cup {NoId}]
      /\ queue \in [Classes -> [Workspaces -> Seq(Ids)]] /\ NoId \notin Ids
      /\ Ids \subseteq Nat
  BY <1>2, Constants DEF TypeOK
<1>8. state[id] = "Absent" /\ ~Unfinished(id) /\ ~Holding(id) /\ ~Waiting(id)
  <2>1. state[id] = "Absent"
    BY <1>2, <1>5, <1>7 DEF Known
  <2> QED
    BY <2>1 DEF Unfinished, Holding, Waiting
<1>9. /\ state'[id] = "Queued" /\ spec'[id] = s
      /\ \A j \in Ids : j # id => state'[j] = state[j] /\ spec'[j] = spec[j]
  BY <1>1, <1>5, <1>7
<1>10. /\ Key(id)' = k /\ Class(id)' = c0 /\ spec'[id].workspace = w0
       /\ \A j \in Ids : j # id => Key(j)' = Key(j) /\ Class(j)' = Class(j)
  BY <1>6, <1>9 DEF Key, Class
<1>11. \A j \in Ids : /\ Unfinished(j)' <=> Unfinished(j) \/ j = id
                      /\ Holding(j)' <=> Holding(j)
  BY <1>8, <1>9 DEF Unfinished, Holding
<1>12. \/ /\ active[k] # NoId /\ pending' = [pending EXCEPT ![k] = id]
          /\ active' = active /\ queue' = queue
       \/ /\ active[k] = NoId /\ active' = [active EXCEPT ![k] = id] /\ pending' = pending
          /\ queue' = [queue EXCEPT ![c0][w0] = Append(@, id)]
  BY <1>4, <1>5 DEF SubmitPlace
<1>13. \A c \in Classes, w \in Workspaces : queue[c][w] \in Seq(Ids) /\ id \notin Elems(queue[c][w])
                                           /\ Inj(queue[c][w])
  BY <1>2, <1>5, <1>7 DEF Placed, Disjoint
<1> DEFINE fresh == active[k] = NoId
<1>14. /\ queue' \in [Classes -> [Workspaces -> Seq(Ids)]]
       /\ \A c \in Classes, w \in Workspaces :
             /\ Inj(queue'[c][w])
             /\ Elems(queue'[c][w]) = IF fresh /\ c = c0 /\ w = w0 THEN Elems(queue[c][w]) \cup {id}
                                      ELSE Elems(queue[c][w])
  <2>1. CASE ~fresh
    BY <1>7, <1>12, <1>13, <2>1
  <2>2. CASE fresh
    <3> DEFINE t == Append(queue[c0][w0], id)
    <3>1. t \in Seq(Ids) /\ Inj(t) /\ Elems(t) = Elems(queue[c0][w0]) \cup {id}
      BY <1>6, <1>13, AppendList
    <3>2. queue' = [queue EXCEPT ![c0] = [queue[c0] EXCEPT ![w0] = t]]
      BY <1>12, <2>2
    <3> HIDE DEF t, c0, w0
    <3>3. c0 \in Classes /\ w0 \in Workspaces
      BY <1>6 DEF c0, w0
    <3>4. /\ queue' \in [Classes -> [Workspaces -> Seq(Ids)]]
          /\ \A c \in Classes, w \in Workspaces :
                queue'[c][w] = IF c = c0 /\ w = w0 THEN t ELSE queue[c][w]
      BY <1>7, <3>1, <3>2, <3>3
    <3> QED
      BY <1>13, <2>2, <3>1, <3>4
  <2> QED
    BY <2>1, <2>2
<1> HIDE DEF k, s, c0, w0
<1>15. /\ active'[k] = IF fresh THEN id ELSE active[k]
       /\ pending'[k] = IF fresh THEN NoId ELSE id
       /\ \A q \in Keys : q # k => active'[q] = active[q] /\ pending'[q] = pending[q]
       /\ active' \in [Keys -> Ids \cup {NoId}] /\ pending' \in [Keys -> Ids \cup {NoId}]
  BY <1>4, <1>6, <1>7, <1>12
<1>16. \A j \in Ids : Unfinished(j) => /\ j # id /\ Key(j) \in Keys /\ Class(j) \in Classes
                                      /\ spec[j].workspace \in Workspaces
  BY <1>2, <1>8, KeyType DEF Known, Unfinished
<1>17. Keyed'
  <2>1. ASSUME NEW j \in Ids, Unfinished(j)'
        PROVE  active'[Key(j)'] = j \/ (pending'[Key(j)'] = j /\ state'[j] = "Queued")
    <3>1. CASE j = id
      BY <1>9, <1>10, <1>15, <3>1
    <3>2. CASE j # id
      <4>1. Unfinished(j) /\ Key(j)' = Key(j) /\ Key(j) \in Keys /\ state'[j] = state[j]
        BY <1>9, <1>10, <1>11, <1>16, <2>1, <3>2
      <4>2. active[Key(j)] = j \/ (pending[Key(j)] = j /\ state[j] = "Queued")
        BY <1>2, <4>1 DEF Keyed
      <4> QED
        BY <1>4, <1>7, <1>15, <4>1, <4>2
    <3> QED
      BY <3>1, <3>2
  <2>2. ASSUME NEW q \in Keys, active'[q] # NoId
        PROVE  \E a \in Ids : a = active'[q] /\ Unfinished(a)' /\ Key(a)' = q
    <3>1. CASE q = k /\ fresh
      BY <1>10, <1>11, <1>15, <3>1
    <3>2. CASE ~(q = k /\ fresh)
      <4>1. PICK a \in Ids : a = active'[q] /\ a = active[q]
        BY <1>7, <1>15, <2>2, <3>2
      <4>2. Unfinished(a) /\ Key(a) = q
        BY <1>2, <1>7, <4>1 DEF Keyed
      <4> QED
        BY <1>10, <1>11, <1>16, <4>1, <4>2
    <3> QED
      BY <3>1, <3>2
  <2>3. ASSUME NEW q \in Keys, pending'[q] # NoId
        PROVE  \E a \in Ids : /\ a = pending'[q] /\ Unfinished(a)' /\ Key(a)' = q
                              /\ active'[q] \notin {NoId, a}
    <3>1. CASE q = k
      <4>1. ~fresh /\ pending'[k] = id /\ active'[k] = active[k]
        BY <1>15, <2>3, <3>1
      <4>2. active[k] \in Ids /\ Unfinished(active[k])
        BY <1>2, <1>6, <1>7, <4>1 DEF Keyed, k
      <4>3. active[k] # id
        BY <1>8, <4>2
      <4> QED
        BY <1>7, <1>10, <1>11, <3>1, <4>1, <4>2, <4>3
    <3>2. CASE q # k
      <4>1. PICK a \in Ids : a = pending'[q] /\ a = pending[q] /\ active'[q] = active[q]
        BY <1>7, <1>15, <2>3, <3>2
      <4>2. Unfinished(a) /\ Key(a) = q /\ active[q] \notin {NoId, a}
        BY <1>2, <1>7, <4>1 DEF Keyed
      <4> QED
        BY <1>10, <1>11, <1>16, <4>1, <4>2
    <3> QED
      BY <3>1, <3>2
  <2>4. \A q \in Keys : active'[q] # NoId => Unfinished(active[q])' /\ Key(active[q])' = q
    BY <2>2 DEF Unfinished, Key
  <2>5. \A q \in Keys : pending'[q] # NoId => /\ Unfinished(pending[q])' /\ Key(pending[q])' = q
                                             /\ active'[q] \notin {NoId, pending'[q]}
    BY <2>3 DEF Unfinished, Key
  <2> QED
    BY <2>1, <2>4, <2>5 DEF Keyed
<1>18. Known'
  <2>1. \A j \in Ids : state'[j] # "Absent" => spec'[j] \in JobSpec /\ j < next'
    <3> SUFFICES ASSUME NEW j \in Ids, state'[j] # "Absent" PROVE spec'[j] \in JobSpec /\ j < next'
      OBVIOUS
    <3>1. CASE j = id
      BY <1>1, <1>5, <1>6, <1>7, <1>9, <3>1 DEF s
    <3>2. CASE j # id
      <4>1. spec[j] \in JobSpec /\ j < next /\ spec'[j] = spec[j]
        BY <1>2, <1>9, <3>2 DEF Known
      <4> QED
        BY <1>1, <1>5, <1>7, <4>1
    <3> QED
      BY <3>1, <3>2
  <2>2. \A j \in Elems(finished) : j \in Ids /\ ~Unfinished(j) /\ j < next
    BY <1>2, ListType DEF TypeOK, Known
  <2>3. \A j \in Elems(finished) : ~Unfinished(j)' /\ j < next'
    BY <1>1, <1>5, <1>7, <1>11, <2>2
  <2> QED
    BY <1>1, <2>1, <2>3 DEF Known
<1>19. Counted' /\ Slotted'
  <2>1. \A j \in Ids : Holding(j) => j # id /\ Class(j)' = Class(j)
    BY <1>8, <1>10
  <2>2. \A c \in Classes : Holders(c)' = Holders(c)
    BY <1>11, <2>1 DEF Holders
  <2>3. Counted'
    BY <1>1, <1>2, <2>2 DEF Counted
  <2>4. \A j \in Ids : slot[j] # 0 <=> Holding(j)' /\ Class(j)' = "Runner"
    BY <1>2, <1>11, <2>1 DEF Slotted
  <2>5. Slotted'
    BY <1>1, <1>2, <2>4 DEF Slotted
  <2> QED
    BY <2>3, <2>5
<1>20. lapsed = <<>> /\ \A w \in Workspaces : deferred[w] = <<>>
  BY <1>1, <1>2 DEF PumpIdle
<1>21. /\ Elems(lapsed') = {} /\ Inj(lapsed') /\ Elems(work') = {} /\ Inj(work')
       /\ \A w \in Workspaces : Elems(deferred'[w]) = {} /\ Inj(deferred'[w])
  <2>1. lapsed' = <<>> /\ work' = <<>> /\ \A w \in Workspaces : deferred'[w] = <<>>
    BY <1>1, <1>20
  <2> QED
    BY <2>1, EmptyList
<1>22. TypeOK' /\ PumpIdle' /\ Calling'
  <2>1. next' \in 1..(MaxJobs + 1)
    BY <1>1, <1>2, <1>4, Constants DEF TypeOK
  <2>2. state' \in [Ids -> JobStates \cup {"Absent"}] /\ spec' \in [Ids -> JobSpec \cup {NoSpec}]
    BY <1>1, <1>6, <1>7 DEF JobStates, s
  <2>3. call' \in Call /\ call'.stage = "attach"
    BY <1>1, <1>3 DEF Call
  <2>4. lane' \in Classes \cup {"none"}
    BY <1>1 DEF Classes
  <2>5. TypeOK'
    BY <1>1, <1>2, <1>14, <1>15, <2>1, <2>2, <2>3, <2>4 DEF TypeOK
  <2>6. PumpIdle'
    BY <1>1, <1>20 DEF PumpIdle
  <2>7. next' >= 2
    BY <1>1, <1>2, Constants DEF TypeOK
  <2>8. Calling'
    BY <2>3, <2>7 DEF Calling
  <2> QED
    BY <2>5, <2>6, <2>8
<1>23. \A j \in Ids : Waiting(j)' <=> Waiting(j) \/ (fresh /\ j = id)
  <2> SUFFICES ASSUME NEW j \in Ids PROVE Waiting(j)' <=> Waiting(j) \/ (fresh /\ j = id)
    OBVIOUS
  <2>0. Waiting(j)' <=> state'[j] = "Queued" /\ active'[Key(j)'] = j
    BY DEF Waiting
  <2>1. CASE j = id
    <3>1. active'[k] = id <=> fresh
      BY <1>2, <1>6, <1>7, <1>8, <1>15 DEF Keyed, k
    <3> QED
      BY <1>8, <1>9, <1>10, <2>0, <2>1, <3>1
  <2>2. CASE j # id /\ state[j] = "Queued"
    <3>1. Key(j) \in Keys /\ state'[j] = "Queued" /\ Key(j)' = Key(j)
      BY <1>9, <1>10, <1>16, <2>2 DEF Unfinished
    <3>2. active'[Key(j)] = j <=> active[Key(j)] = j
      BY <1>7, <1>15, <2>2, <3>1
    <3> QED
      BY <2>0, <2>2, <3>1, <3>2 DEF Waiting
  <2>3. CASE j # id /\ state[j] # "Queued"
    BY <1>9, <2>0, <2>3 DEF Waiting
  <2> QED
    BY <2>1, <2>2, <2>3
<1>24. Disjoint'
  BY <1>14, <1>21 DEF Disjoint
<1>25. Placed'
  <2>1. ASSUME NEW c \in Classes, NEW w \in Workspaces, NEW j \in Elems(queue'[c][w])
        PROVE  /\ j < next'
               /\ state'[j] = "Queued" => Class(j)' = c /\ spec'[j].workspace = w /\ Waiting(j)'
    <3>1. CASE j \in Elems(queue[c][w])
      <4>1. j \in Ids /\ j # id
        BY <1>13, <3>1, ListedType
      <4>2. j < next /\ (state[j] = "Queued" => Class(j) = c /\ spec[j].workspace = w /\ Waiting(j))
        BY <1>2, <3>1 DEF Placed
      <4>3. j < next'
        BY <1>1, <1>5, <1>7, <4>1, <4>2
      <4> QED
        BY <1>9, <1>10, <1>23, <4>1, <4>2, <4>3
    <3>2. CASE fresh /\ c = c0 /\ w = w0 /\ j = id
      <4>1. j < next'
        BY <1>1, <1>5, <1>7, <3>2
      <4> QED
        BY <1>10, <1>23, <3>2, <4>1
    <3> QED
      BY <1>14, <3>1, <3>2
  <2> QED
    BY <1>21, <2>1 DEF Placed
<1>26. Covered'
  <2> SUFFICES ASSUME NEW j \in Ids, Waiting(j)' PROVE j \in HomeQueue(j)'
    BY DEF Covered
  <2>1. CASE fresh /\ j = id
    <3>1. id \in Elems(queue'[c0][w0])
      BY <1>6, <1>14, <2>1 DEF c0, w0
    <3> QED
      BY <1>10, <2>1, <3>1 DEF HomeQueue
  <2>2. CASE Waiting(j)
    <3>1. j # id /\ Class(j) \in Classes /\ spec[j].workspace \in Workspaces
      BY <1>8, <2>2, ListedType
    <3>2. j \in HomeQueue(j) \cup HomeDeferred(j) \cup Elems(lapsed) \cup Elems(work)
      BY <1>2, <2>2 DEF Covered
    <3>3. Elems(lapsed) = {} /\ Elems(work) = {} /\ HomeDeferred(j) = {}
      BY <1>1, <1>20, <3>1, EmptyList DEF HomeDeferred
    <3>4. j \in Elems(queue'[Class(j)][spec[j].workspace])
      BY <1>14, <3>1, <3>2, <3>3 DEF HomeQueue
    <3> QED
      BY <1>9, <1>10, <3>1, <3>4 DEF HomeQueue
  <2> QED
    BY <1>23, <2>1, <2>2
<1> QED
  BY <1>17, <1>18, <1>19, <1>22, <1>24, <1>25, <1>26 DEF IInv

\* Calls that only touch the handoff, the leases, the owners or the closing flag.
LEMMA SubmitJoinStep ==
  ASSUME IInv, NEW w, NEW s, NEW d, NEW owner \in Clients \cup {NoClient}, SubmitJoin(w, s, d, owner)
  PROVE  IInv'
<1>1. /\ UNCHANGED rowVars /\ UNCHANGED <<queue, deferred, lapsed, work>>
      /\ UNCHANGED <<served, started, leases, age, closing, lane, call, gone, panicked>>
  BY DEF SubmitJoin, slotVars, keyVars, leaseVars, pumpVars, rowVars
<1>2. owners' \in [Ids -> SUBSET Clients]
  BY OwnType DEF SubmitJoin, IInv
<1>3. TypeOK'
  BY <1>1, <1>2 DEF IInv, TypeOK, rowVars
<1>4. PumpIdle' /\ Calling'
  BY <1>1 DEF IInv, PumpIdle, Calling, rowVars
<1> QED
  BY <1>1, <1>3, <1>4, FrameStep

\* The caller's lease and owner are recorded for the job it was given.
LEMMA SubmitAttachStep ==
  ASSUME IInv, SubmitAttach
  PROVE  IInv'
<1>1. /\ UNCHANGED rowVars /\ UNCHANGED <<queue, deferred, lapsed, work>>
      /\ UNCHANGED <<served, started, age, closing, lane, gone, panicked>> /\ call' = NoCall
  BY DEF SubmitAttach, slotVars, keyVars, leaseVars, pumpVars, rowVars
<1>2. call.stage = "attach" /\ call \in Call /\ next - 1 \in Ids
  <2>1. call.stage = "attach" /\ call # NoCall
    BY DEF SubmitAttach, NoCall
  <2>2. call \in Call /\ next >= 2
    BY <2>1 DEF IInv, TypeOK, Calling
  <2>3. next \in 1..(MaxJobs + 1)
    BY DEF IInv, TypeOK
  <2> QED
    BY <2>1, <2>2, <2>3, Constants DEF Ids
<1>3. leases' \subseteq Ids /\ owners' \in [Ids -> SUBSET Clients]
  <2>1. CASE UNCHANGED <<leases, owners>>
    BY <2>1 DEF IInv, TypeOK
  <2>2. CASE /\ leases' = IF call.leased THEN leases \cup {next - 1} ELSE leases
             /\ Own(next - 1, call.stack, call.owner, TRUE)
    <3>1. leases' \subseteq Ids
      BY <1>2, <2>2 DEF IInv, TypeOK
    <3>2. call.owner \in Clients \cup {NoClient}
      BY <1>2 DEF Call
    <3> QED
      BY <2>2, <3>1, <3>2, OwnType DEF IInv
  <2> QED
    BY <2>1, <2>2 DEF SubmitAttach
<1>4. TypeOK'
  BY <1>1, <1>3 DEF IInv, TypeOK, rowVars
<1>5. PumpIdle' /\ Calling'
  BY <1>1 DEF IInv, PumpIdle, Calling, rowVars
<1> QED
  BY <1>1, <1>4, <1>5, FrameStep

\* A panic leaves the table as it was.
LEMMA SubmitNoSlotStep ==
  ASSUME IInv, SubmitNoSlot
  PROVE  IInv'
<1>1. /\ UNCHANGED rowVars /\ UNCHANGED <<queue, deferred, lapsed, work>>
      /\ UNCHANGED <<served, started, leases, age, owners, closing, lane, call, gone>>
      /\ panicked' = TRUE
  BY DEF SubmitNoSlot, slotVars, keyVars, leaseVars, pumpVars, rowVars
<1>2. TypeOK'
  BY <1>1 DEF IInv, TypeOK, rowVars
<1>3. PumpIdle' /\ Calling'
  BY <1>1 DEF IInv, PumpIdle, Calling, rowVars
<1> QED
  BY <1>1, <1>2, <1>3, FrameStep

\* A poll renews the lease and may pump.
LEMMA TouchStep ==
  ASSUME IInv, NEW id \in Ids, Touch(id)
  PROVE  IInv'
<1>1. /\ UNCHANGED rowVars /\ UNCHANGED <<queue, deferred, lapsed, work>>
      /\ UNCHANGED <<served, started, leases, owners, closing, call, gone, panicked>>
      /\ age' = [age EXCEPT ![id] = 0] /\ lane' \in {lane, "none", "Control"}
  BY DEF Touch, StartPump, slotVars, keyVars, leaseVars, pumpVars, rowVars
<1>2. lane = "none"
  BY ReadyFacts DEF Touch
<1>3. age' \in [Ids -> 0..(LeasePeriod + 1)]
  BY <1>1, JobsAssumption DEF IInv, TypeOK
<1>4. lane' \in Classes \cup {"none"}
  BY <1>1, <1>2 DEF Classes
<1>5. TypeOK'
  BY <1>1, <1>3, <1>4 DEF IInv, TypeOK, rowVars
<1>6. PumpIdle' /\ Calling'
  BY <1>1, <1>2 DEF IInv, PumpIdle, Calling, rowVars
<1> QED
  BY <1>1, <1>2, <1>5, <1>6, FrameStep

\* The calls that change neither the table nor the queues.
LEMMA QuietSteps ==
  ASSUME IInv,
         \/ Close
         \/ TakeStarted
         \/ \E dead \in SUBSET gone : Orphaned(dead)
         \/ \E c \in Clients : ClientExit(c)
         \/ Tick
         \/ UNCHANGED vars
  PROVE  IInv'
<1>1. TypeOK
  BY DEF IInv
<1>2. /\ UNCHANGED rowVars /\ UNCHANGED <<queue, deferred, lapsed, work>>
      /\ UNCHANGED <<served, leases, lane, call, panicked>>
  BY DEF Close, TakeStarted, Orphaned, ClientExit, Tick, vars, slotVars, keyVars, leaseVars,
         pumpVars, rowVars
<1>3. started' \in Seq(Ids) /\ closing' \in BOOLEAN /\ gone' \subseteq Clients
  <2>1. started' = started \/ started' = <<>>
    BY DEF Close, TakeStarted, Orphaned, ClientExit, Tick, vars
  <2>2. closing' = closing \/ closing' = TRUE
    BY DEF Close, TakeStarted, Orphaned, ClientExit, Tick, vars
  <2>3. gone' = gone \/ \E c \in Clients : gone' = gone \cup {c}
    BY DEF Close, TakeStarted, Orphaned, ClientExit, Tick, vars
  <2>4. started' \in Seq(Ids) /\ gone' \subseteq Clients
    <3>1. started \in Seq(Ids) /\ <<>> \in Seq(Ids) /\ gone \subseteq Clients
      BY <1>1 DEF TypeOK
    <3>2. started' \in Seq(Ids)
      BY <2>1, <3>1
    <3>3. gone' \subseteq Clients
      BY <2>3, <3>1
    <3> QED
      BY <3>2, <3>3
  <2>5. closing' \in BOOLEAN
    <3>1. closing \in BOOLEAN
      BY <1>1 DEF TypeOK
    <3> QED
      BY <2>2, <3>1
  <2> QED
    BY <2>4, <2>5
<1>4. age' \in [Ids -> 0..(LeasePeriod + 1)]
  <2>1. CASE age' = age
    BY <1>1, <2>1 DEF TypeOK
  <2>2. CASE Tick
    <3>1. age \in [Ids -> 0..(LeasePeriod + 1)] /\ LeasePeriod \in Nat
      BY <1>1, JobsAssumption DEF TypeOK
    <3>2. \A id \in Ids : (IF id \in leases /\ age[id] <= LeasePeriod THEN age[id] + 1 ELSE age[id])
                            \in 0..(LeasePeriod + 1)
      BY <3>1
    <3> QED
      BY <2>2, <3>2 DEF Tick
  <2> QED
    BY <2>1, <2>2 DEF Close, TakeStarted, Orphaned, ClientExit, vars, leaseVars
<1>5. owners' \in [Ids -> SUBSET Clients]
  <2>1. CASE owners' = owners
    BY <1>1, <2>1 DEF TypeOK
  <2>2. CASE \E dead \in SUBSET gone : Orphaned(dead)
    BY <1>1, <2>2 DEF TypeOK, Orphaned
  <2> QED
    BY <2>1, <2>2 DEF Close, TakeStarted, ClientExit, Tick, vars, leaseVars
<1>6. TypeOK'
  BY <1>1, <1>2, <1>3, <1>4, <1>5 DEF TypeOK, rowVars
<1>7. PumpIdle' /\ Calling'
  BY <1>2 DEF IInv, PumpIdle, Calling, rowVars
<1> QED
  BY <1>2, <1>6, <1>7, FrameStep

-----------------------------------------------------------------------------
\* Every step keeps the inductive invariant: one step below per action.
LEMMA NextIInv == IInv /\ [Next]_vars => IInv'
<1> SUFFICES ASSUME IInv, [Next]_vars PROVE IInv'
  OBVIOUS
<1>1. ASSUME NEW w \in Workspaces, PumpDrop(w) \/ PumpLapsed(w) \/ PumpDefer(w) \/ PumpAdmit(w)
      PROVE  IInv'
  BY <1>1, PumpDropStep, PumpLapsedStep, PumpDeferStep, PumpAdmitStep
<1>2. ASSUME PumpLane \/ PumpFinish PROVE IInv'
  BY <1>2, PumpLaneStep, PumpFinishStep
<1>3. ASSUME Submission PROVE IInv'
  BY <1>3, SubmitPlaceStep, SubmitNoSlotStep, SubmitAttachStep DEF Submission
<1>4. ASSUME NEW id \in Ids, CloseFinish(id) PROVE IInv'
  BY <1>4, CloseFinishStep
<1>5. ASSUME NEW w \in Workspaces, NEW s \in Stacks, NEW d \in Digests, NEW leased \in BOOLEAN,
             NEW owner \in Clients \cup {NoClient}, Submit(w, s, d, leased, owner)
      PROVE  IInv'
  BY <1>5, SubmitJoinStep, SubmitNewStep DEF Submit
<1>6. ASSUME NEW id \in Ids, Touch(id) \/ Cancel(id) PROVE IInv'
  BY <1>6, TouchStep, CancelStep
<1>7. ASSUME NEW id \in Ids, NEW ok \in Results, Settle(id, ok) PROVE IInv'
  <2>1. ok \in BOOLEAN
    BY JobsAssumption
  <2> QED
    BY <1>7, <2>1, SettleStep
<1>8. ASSUME \/ Close
             \/ TakeStarted
             \/ \E dead \in SUBSET gone : Orphaned(dead)
             \/ \E c \in Clients : ClientExit(c)
             \/ Tick
             \/ UNCHANGED vars
      PROVE  IInv'
  BY <1>8, QuietSteps
<1>9. CASE Internal
  BY <1>1, <1>2, <1>3, <1>4, <1>9 DEF Internal, Pump
<1>10. CASE Calls
  BY <1>5, <1>6, <1>7, <1>8, <1>10 DEF Calls
<1> QED
  BY <1>8, <1>9, <1>10 DEF Next

\* The invariant holds in every reachable state.
LEMMA SpecIInv == Spec => []IInv
  BY InitIInv, NextIInv, PTL DEF Spec

-----------------------------------------------------------------------------
\* The theorems.

\* Whatever the actor calls, in whatever order, the job table, the lanes and the
\* pump's lists of struct Jobs keep their types; in particular the running counts
\* never go below zero.
THEOREM TypeCorrect == Spec => []TypeOK
<1>1. IInv => TypeOK
  BY DEF IInv
<1> QED
  BY <1>1, SpecIInv, PTL

\* The module policy of jobs.rs, for any number of keys and jobs: per (workspace,
\* stack) key at most one job runs and one waits.
THEOREM KeysExclusive == Spec => []OneRunsOneWaits
<1>1. IInv => OneRunsOneWaits
  BY DEF IInv, Keyed, OneRunsOneWaits
<1> QED
  BY <1>1, SpecIInv, PTL

\* For any lane sizes, pump_at's counters agree with the job table, no lane exceeds
\* its cap, and runner slots and running runner jobs name each other.
THEOREM LanesBounded == Spec => []LanesWithinCaps
<1>1. IInv => LanesWithinCaps
  BY DEF IInv, Counted, Slotted, Holders, LanesWithinCaps
<1> QED
  BY <1>1, SpecIInv, PTL

\* expect("a runner below its cap has a free slot") in pump_at never fires, however
\* many runner slots the daemon is configured with: were every slot taken, the jobs
\* in them would all be different and hold a place, so the lane would be full.
THEOREM FreeSlotExists == Spec => []RunnerBelowCapHasSlot
<1>1. IInv => RunnerBelowCapHasSlot
  <2> SUFFICES ASSUME IInv, running["Runner"] < RunnerSlots,
                      \A i \in 1..RunnerSlots : runner_slots[i] # NoId
               PROVE  FALSE
    BY DEF RunnerBelowCapHasSlot
  <2> DEFINE S == 1..RunnerSlots
             H == Holders("Runner")
  <2>1. /\ runner_slots \in [S -> Ids \cup {NoId}]
        /\ \A i \in S : runner_slots[i] \in Ids /\ slot[runner_slots[i]] = i
    BY DEF IInv, TypeOK, Slotted
  <2>2. \A i \in S : runner_slots[i] \in H
    <3>1. \A i \in S : i # 0
      BY Constants
    <3> QED
      BY <2>1, <3>1 DEF IInv, Slotted, Holders
  <2>3. runner_slots \in [S -> H]
    BY <2>1, <2>2
  <2>4. IsFiniteSet(S) /\ Cardinality(S) = RunnerSlots
    BY Constants, FS_Interval
  <2>5. IsFiniteSet(H) /\ Cardinality(H) = running["Runner"]
    BY HoldersFinite DEF IInv, Counted, Classes
  <2>6. Cardinality(H) < Cardinality(S)
    BY <2>4, <2>5
  <2>7. \E x, y \in S : x # y /\ runner_slots[x] = runner_slots[y]
    <3> HIDE DEF S, H
    <3> QED
      BY <2>3, <2>4, <2>5, <2>6, FS_PigeonHole
  <2> QED
    BY <2>1, <2>7
<1> QED
  BY <1>1, SpecIInv, PTL

\* How often a job is in a list without repetitions.
LEMMA OccursOnce ==
  ASSUME NEW s \in Seq(Ids), Inj(s), NEW id
  PROVE  Occurrences(s, id) = IF id \in Elems(s) THEN 1 ELSE 0
<1> DEFINE at == {i \in DOMAIN s : s[i] = id}
<1>1. CASE id \in Elems(s)
  <2>1. PICK i \in DOMAIN s : s[i] = id
    BY <1>1 DEF Elems
  <2>2. at = {i}
    BY <2>1 DEF Inj
  <2> QED
    BY <1>1, <2>2, FS_Singleton DEF Occurrences
<1>2. CASE id \notin Elems(s)
  <2>1. at = {}
    BY <1>2 DEF Elems
  <2> QED
    BY <1>2, <2>1, FS_EmptySet DEF Occurrences
<1> QED
  BY <1>1, <1>2

\* No admission is lost or doubled, at any step of any pump, for any number of
\* workspaces and queued jobs: a queued job that may be admitted is in exactly one
\* list the pump will look at, and one that waits behind its key is in none.
THEOREM AdmissionsKept == Spec => []QueuedOnce
<1>1. IInv => QueuedOnce
  <2> SUFFICES ASSUME IInv, NEW id \in Ids, state[id] = "Queued"
               PROVE  Occurrences(queue[Class(id)][spec[id].workspace], id)
                        + Occurrences(deferred[spec[id].workspace], id)
                        + Occurrences(lapsed, id) + Occurrences(work, id)
                      = IF active[Key(id)] = id THEN 1 ELSE 0
    BY DEF QueuedOnce
  <2> DEFINE c == Class(id)
             w == spec[id].workspace
  <2>1. c \in Classes /\ w \in Workspaces
    BY KeyType DEF IInv, Known
  <2>2. /\ queue[c][w] \in Seq(Ids) /\ deferred[w] \in Seq(Ids)
        /\ lapsed \in Seq(Ids) /\ work \in Seq(Ids)
    BY <2>1 DEF IInv, TypeOK
  <2>3. Inj(queue[c][w]) /\ Inj(deferred[w]) /\ Inj(lapsed) /\ Inj(work)
    BY <2>1 DEF IInv, Disjoint
  <2>4. /\ Occurrences(queue[c][w], id) = IF id \in Elems(queue[c][w]) THEN 1 ELSE 0
        /\ Occurrences(deferred[w], id) = IF id \in Elems(deferred[w]) THEN 1 ELSE 0
        /\ Occurrences(lapsed, id) = IF id \in Elems(lapsed) THEN 1 ELSE 0
        /\ Occurrences(work, id) = IF id \in Elems(work) THEN 1 ELSE 0
    BY <2>2, <2>3, OccursOnce
  <2>5. HomeQueue(id) = Elems(queue[c][w]) /\ HomeDeferred(id) = Elems(deferred[w])
    BY DEF HomeQueue, HomeDeferred
  <2>6. /\ id \in Elems(deferred[w]) => Waiting(id) /\ id \notin Elems(queue[c][w])
        /\ id \in Elems(lapsed) =>
              Waiting(id) /\ id \notin Elems(queue[c][w]) /\ id \notin Elems(deferred[w])
        /\ id \in Elems(work) => /\ Waiting(id) /\ id \notin Elems(queue[c][w])
                                 /\ id \notin Elems(deferred[w]) /\ id \notin Elems(lapsed)
    BY <2>1, <2>5, ListedFacts
  <2>7. id \in Elems(queue[c][w]) => Waiting(id)
    BY <2>1 DEF IInv, Placed
  <2>8. Waiting(id) => \/ id \in Elems(queue[c][w])
                       \/ id \in Elems(deferred[w])
                       \/ id \in Elems(lapsed)
                       \/ id \in Elems(work)
    BY <2>5 DEF IInv, Covered
  <2>9. Waiting(id) <=> active[Key(id)] = id
    BY DEF Waiting
  <2> QED
    BY <2>4, <2>6, <2>7, <2>8, <2>9
<1> QED
  BY <1>1, SpecIInv, PTL

-----------------------------------------------------------------------------
\* Action properties.

\* What finish_at does to job states: retention never drops the job that ends.
LEMMA FinishOutcome ==
  ASSUME IInv, NEW id \in Ids, Unfinished(id), NEW end \in Terminal, Finish(id, end)
  PROVE  /\ state'[id] = end
         /\ \A j \in Ids : j # id => state'[j] \in {state[j], "Absent"}
         /\ \A j \in Ids : j # id /\ Unfinished(j) => state'[j] = state[j]
<1> DEFINE order == Append(finished, id)
<1>1. PICK n \in 0..Len(order) : /\ n > 0 => n + Retained <= Len(order)
                                 /\ Retire(order, n) /\ RetireState(order, n, id, end)
  BY DEF Finish
<1> DEFINE dropped == {order[i] : i \in 1..n}
<1>2. finished \in Seq(Ids) /\ Len(finished) \in Nat /\ Retained \in Nat /\ Retained > 0
  BY JobsAssumption DEF IInv, TypeOK
<1>3. Len(order) = Len(finished) + 1 /\ \A i \in 1..Len(finished) : order[i] = finished[i]
  BY <1>2
<1>4. n \in Nat /\ n <= Len(finished)
  BY <1>1, <1>2, <1>3
<1>5. \A j \in dropped : j \in Elems(finished)
  <2> SUFFICES ASSUME NEW i \in 1..n PROVE order[i] \in Elems(finished)
    OBVIOUS
  <2>1. i \in 1..Len(finished) /\ order[i] = finished[i] /\ i \in DOMAIN finished
    BY <1>2, <1>3, <1>4
  <2> QED
    BY <2>1 DEF Elems
<1>6. \A j \in dropped : ~Unfinished(j)
  BY <1>5 DEF IInv, Known
<1>7. state' = [j \in Ids |-> IF j \in dropped THEN "Absent" ELSE IF j = id THEN end ELSE state[j]]
  BY <1>1 DEF RetireState
<1> HIDE DEF dropped
<1> QED
  BY <1>6, <1>7

\* What OutcomeFinal asks of one job.
Final(id) ==
    /\ state[id] = "Cancelling" => state'[id] \in {"Cancelling", "Cancelled"}
    /\ state[id] \in Terminal => state'[id] \in {state[id], "Absent"}
    /\ state[id] = "Running" => state'[id] \notin {"Queued", "Superseded", "Absent"}

\* A finishing step with an outcome the job may have.
LEMMA FinishFinal ==
  ASSUME IInv, NEW id \in Ids, Unfinished(id), NEW end \in Terminal, Finish(id, end),
         state[id] = "Cancelling" => end = "Cancelled",
         state[id] = "Running" => end # "Superseded",
         NEW j \in Ids
  PROVE  Final(j)
<1>1. /\ state'[id] = end
      /\ j # id => state'[j] \in {state[j], "Absent"}
      /\ j # id /\ Unfinished(j) => state'[j] = state[j]
  BY FinishOutcome
<1>2. CASE j = id
  BY <1>1, <1>2 DEF Final, Unfinished, Terminal
<1>3. CASE j # id
  BY <1>1, <1>3 DEF Final, Unfinished, Terminal
<1> QED
  BY <1>2, <1>3

\* settle_with_error and finish_at: a cancellation wins over the executor's result,
\* and an outcome, once recorded, is never rewritten, for any number of jobs and any
\* interleaving of settlements, cancellations, lapses, supersedes and close.
THEOREM OutcomesFinal == Spec => OutcomeFinal
<1>1. ASSUME IInv, Next, NEW j \in Ids PROVE Final(j)
  <2>1. CASE UNCHANGED state
    BY <2>1 DEF Final, Terminal
  <2>2. ASSUME NEW w \in Workspaces, PumpAdmit(w) PROVE Final(j)
    <3>1. PICK id : state[id] = "Queued" /\ state' = [state EXCEPT ![id] = "Running"]
      BY <2>2 DEF PumpAdmit
    <3>2. state \in [Ids -> JobStates \cup {"Absent"}]
      BY <1>1 DEF IInv, TypeOK
    <3> QED
      BY <3>1, <3>2 DEF Final, Terminal
  <2>3. ASSUME PumpFinish PROVE Final(j)
    <3>1. work \in Seq(Ids) /\ work # <<>> /\ Finish(Head(work), "Cancelled")
      BY <1>1, <2>3 DEF IInv, TypeOK, PumpFinish
    <3>2. PICK id \in Ids : id = Head(work) /\ id \in Elems(work)
      BY <3>1, TailList
    <3>3. state[id] = "Queued"
      BY <1>1, <3>2, ListedFacts DEF Waiting
    <3>4. Finish(id, "Cancelled") /\ Unfinished(id) /\ "Cancelled" \in Terminal
      BY <3>1, <3>2, <3>3 DEF Unfinished, Terminal
    <3> QED
      BY <1>1, <3>3, <3>4, FinishFinal
  <2>4. ASSUME SubmitPlace PROVE Final(j)
    <3>1. state' = [state EXCEPT ![next] = "Queued"]
      BY <2>4 DEF SubmitPlace
    <3>2. state \in [Ids -> JobStates \cup {"Absent"}] /\ next \in Nat
      BY <1>1, Constants DEF IInv, TypeOK
    <3>3. j = next => state[j] = "Absent"
      BY <1>1, <3>2 DEF IInv, Known
    <3> QED
      BY <3>1, <3>2, <3>3 DEF Final, Terminal
  <2>5. ASSUME NEW id \in Ids, CloseFinish(id) PROVE Final(j)
    <3>1. state[id] = "Queued" /\ Finish(id, "Cancelled") /\ Unfinished(id) /\ "Cancelled" \in Terminal
      BY <2>5 DEF CloseFinish, Unfinished, Terminal
    <3> QED
      BY <1>1, <3>1, FinishFinal
  <2>6. ASSUME NEW w \in Workspaces, NEW s \in Stacks, NEW d, NEW leased, NEW owner,
               SubmitNew(w, s, d, leased, owner), ~UNCHANGED state
        PROVE  Final(j)
    <3>1. <<w, s>> \in Keys /\ pending[<<w, s>>] # NoId /\ Finish(pending[<<w, s>>], "Superseded")
      BY <2>6 DEF SubmitNew, Keys
    <3>2. PICK id \in Ids : id = pending[<<w, s>>] /\ Unfinished(id) /\ state[id] = "Queued"
      BY <1>1, <3>1 DEF IInv, TypeOK, Keyed
    <3>3. Finish(id, "Superseded") /\ "Superseded" \in Terminal
      BY <3>1, <3>2 DEF Terminal
    <3> QED
      BY <1>1, <3>2, <3>3, FinishFinal
  <2>7. ASSUME NEW id \in Ids, Cancel(id) PROVE Final(j)
    <3>1. CASE state[id] = "Running" /\ state' = [state EXCEPT ![id] = "Cancelling"]
      <4>1. state \in [Ids -> JobStates \cup {"Absent"}]
        BY <1>1 DEF IInv, TypeOK
      <4> QED
        BY <3>1, <4>1 DEF Final, Terminal
    <3>2. CASE state[id] \in {"Queued", "Cancelling"} /\ Finish(id, "Cancelled")
      <4>1. Unfinished(id) /\ "Cancelled" \in Terminal
        BY <3>2 DEF Unfinished, Terminal
      <4> QED
        BY <1>1, <3>2, <4>1, FinishFinal
    <3> QED
      BY <2>7, <3>1, <3>2 DEF Cancel
  <2>8. ASSUME NEW id \in Ids, NEW ok \in Results, Settle(id, ok) PROVE Final(j)
    <3>1. Unfinished(id) /\ Finish(id, SettledState(id, ok))
      BY <2>8 DEF Settle
    <3>2. /\ SettledState(id, ok) \in Terminal /\ SettledState(id, ok) # "Superseded"
          /\ state[id] = "Cancelling" => SettledState(id, ok) = "Cancelled"
      BY DEF SettledState, Terminal
    <3> QED
      BY <1>1, <3>1, <3>2, FinishFinal
  <2>9. ASSUME NEW w \in Workspaces, PumpDrop(w) \/ PumpLapsed(w) \/ PumpDefer(w) PROVE UNCHANGED state
    BY <2>9 DEF PumpDrop, PumpLapsed, PumpDefer
  <2>10. ASSUME PumpLane \/ SubmitNoSlot \/ SubmitAttach PROVE UNCHANGED state
    BY <2>10 DEF PumpLane, SubmitNoSlot, SubmitAttach
  <2>11. ASSUME NEW id \in Ids, Touch(id) PROVE UNCHANGED state
    BY <2>11 DEF Touch
  <2>12. ASSUME Close \/ TakeStarted \/ Tick \/ (\E dead \in SUBSET gone : Orphaned(dead))
                \/ (\E c \in Clients : ClientExit(c))
         PROVE  UNCHANGED state
    BY <2>12 DEF Close, TakeStarted, Tick, Orphaned, ClientExit
  <2>13. ASSUME NEW w, NEW s, NEW d, NEW owner, SubmitJoin(w, s, d, owner) PROVE UNCHANGED state
    BY <2>13 DEF SubmitJoin
  <2>14. CASE Internal
    BY <2>1, <2>2, <2>3, <2>4, <2>5, <2>9, <2>10, <2>14 DEF Internal, Pump, Submission
  <2>15. CASE Calls
    BY <2>1, <2>6, <2>7, <2>8, <2>11, <2>12, <2>13, <2>15 DEF Calls, Submit
  <2> QED
    BY <1>1, <2>1, <2>12, <2>14, <2>15 DEF Next
<1>2. IInv /\ [Next]_vars => [\A id \in Ids : Final(id)]_vars
  BY <1>1
<1>3. Spec => [][\A id \in Ids : Final(id)]_vars
  BY <1>2, SpecIInv, PTL DEF Spec
<1> QED
  BY <1>3 DEF OutcomeFinal, Final

\* What JoinAddsNoDependence asks of one job.
Independent(id) ==
    Unfinished(id) /\ ~(call # NoCall /\ id = next - 1) =>
      /\ owners[id] = {} => owners'[id] = {}
      /\ id \notin leases => id \notin leases'

\* Owners::submitted and the submission handlers: a job that lives on its own (no
\* owner, or no follow lease) is never made to depend on a client that joins it, for
\* any number of clients and joins.
THEOREM JoinsIndependent == Spec => JoinAddsNoDependence
<1>1. ASSUME IInv, Next, NEW j \in Ids PROVE Independent(j)
  <2>0. owners \in [Ids -> SUBSET Clients]
    BY <1>1 DEF IInv, TypeOK
  <2>1. ASSUME UNCHANGED leaseVars PROVE Independent(j)
    BY <2>1 DEF Independent, leaseVars
  <2>2. ASSUME NEW id, NEW end, Finish(id, end) PROVE Independent(j)
    <3>1. owners' = [owners EXCEPT ![id] = {}] /\ leases' = leases \ {id}
      BY <2>2 DEF Finish
    <3> QED
      BY <2>0, <3>1 DEF Independent
  <2>3. ASSUME NEW w, NEW s, NEW d, NEW owner, SubmitJoin(w, s, d, owner) PROVE Independent(j)
    <3> DEFINE id == JoinedJob(<<w, s>>, d)
               e == CASE owner = NoClient -> {}
                      [] owner # NoClient /\ FALSE -> {owner}
                      [] owner # NoClient /\ ~FALSE ->
                           IF owners[id] = {} THEN {} ELSE owners[id] \cup {owner}
    <3>1. leases' = leases /\ (owners' = owners \/ owners' = [owners EXCEPT ![id] = e])
      BY <2>3 DEF SubmitJoin, Own
    <3>2. owners[id] = {} => e = {}
      OBVIOUS
    <3> HIDE DEF id, e
    <3> QED
      BY <2>0, <3>1, <3>2 DEF Independent
  <2>4. ASSUME SubmitAttach PROVE Independent(j)
    <3>1. call # NoCall
      BY <2>4 DEF SubmitAttach, NoCall
    <3>2. j # next - 1 => (owners'[j] = owners[j] /\ (j \in leases' <=> j \in leases))
      <4>1. owners' = owners \/ \E e : owners' = [owners EXCEPT ![next - 1] = e]
        BY <2>4 DEF SubmitAttach, Own
      <4>2. leases' = leases \/ leases' = leases \cup {next - 1}
        BY <2>4 DEF SubmitAttach
      <4> QED
        BY <2>0, <4>1, <4>2
    <3> QED
      BY <3>1, <3>2 DEF Independent
  <2>5. ASSUME NEW dead, Orphaned(dead) PROVE Independent(j)
    BY <2>5 DEF Orphaned, Independent
  <2>6. ASSUME NEW id \in Ids, Touch(id) PROVE Independent(j)
    BY <2>6 DEF Touch, Independent
  <2>7. ASSUME Tick PROVE Independent(j)
    BY <2>7 DEF Tick, Independent
  <2>8. ASSUME NEW w \in Workspaces, PumpDrop(w) \/ PumpLapsed(w) \/ PumpDefer(w) \/ PumpAdmit(w)
        PROVE  Independent(j)
    <3>1. UNCHANGED leaseVars
      BY <2>8 DEF PumpDrop, PumpLapsed, PumpDefer, PumpAdmit
    <3> QED
      BY <2>1, <3>1
  <2>9. ASSUME PumpLane \/ SubmitPlace \/ SubmitNoSlot \/ Close \/ TakeStarted
               \/ (\E c \in Clients : ClientExit(c))
        PROVE  Independent(j)
    <3>1. UNCHANGED leaseVars
      BY <2>9 DEF PumpLane, SubmitPlace, SubmitNoSlot, Close, TakeStarted, ClientExit
    <3> QED
      BY <2>1, <3>1
  <2>10. ASSUME NEW w, NEW s, NEW d, NEW leased, NEW owner, SubmitNew(w, s, d, leased, owner)
         PROVE  Independent(j)
    <3>1. UNCHANGED leaseVars \/ Finish(pending[<<w, s>>], "Superseded")
      BY <2>10 DEF SubmitNew
    <3> QED
      BY <2>1, <2>2, <3>1
  <2>11. ASSUME NEW id \in Ids, Cancel(id) PROVE Independent(j)
    <3>1. UNCHANGED leaseVars \/ Finish(id, "Cancelled")
      BY <2>11 DEF Cancel
    <3> QED
      BY <2>1, <2>2, <3>1
  <2>12. ASSUME NEW id \in Ids, NEW ok \in Results, Settle(id, ok) PROVE Independent(j)
    BY <2>2, <2>12 DEF Settle
  <2>13. ASSUME NEW id \in Ids, CloseFinish(id) PROVE Independent(j)
    BY <2>2, <2>13 DEF CloseFinish
  <2>14. ASSUME PumpFinish PROVE Independent(j)
    BY <2>2, <2>14 DEF PumpFinish
  <2>15. CASE Internal
    BY <2>4, <2>8, <2>9, <2>13, <2>14, <2>15 DEF Internal, Pump, Submission
  <2>16. CASE Calls
    BY <2>3, <2>5, <2>6, <2>9, <2>10, <2>11, <2>12, <2>16 DEF Calls, Submit
  <2> QED
    BY <1>1, <2>7, <2>9, <2>15, <2>16 DEF Next
<1>2. IInv /\ [Next]_vars => [\A id \in Ids : Independent(id)]_vars
  BY <1>1
<1>3. Spec => [][\A id \in Ids : Independent(id)]_vars
  BY <1>2, SpecIInv, PTL DEF Spec
<1> QED
  BY <1>3 DEF JoinAddsNoDependence, Independent

=============================================================================
