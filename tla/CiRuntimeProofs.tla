--------------------------- MODULE CiRuntimeProofs --------------------------
(***************************************************************************)
(* Proofs about the CI runtime of module CiRuntime, for every set of runs,  *)
(* keys, conclusions and clients, every limit and every channel size.       *)
(***************************************************************************)
EXTENDS CiRuntime, SequenceTheorems, FiniteSetTheorems, TLAPS

-----------------------------------------------------------------------------
(* The queue as a set of entries without repetitions.                      *)

Elems(s) == {s[i] : i \in 1 .. Len(s)}
Inj(s) == \A i, j \in 1 .. Len(s) : s[i] = s[j] => i = j

\* The empty queue.
LEMMA EmptyList == Elems(<<>>) = {} /\ Inj(<<>>)
  BY DEF Elems, Inj

\* Entries of a queue are runs, and its length is a number.
LEMMA ListType ==
  ASSUME NEW S, NEW s \in Seq(S)
  PROVE  /\ Elems(s) \subseteq S
         /\ Len(s) \in Nat
         /\ s = <<>> <=> Elems(s) = {}
         /\ s = <<>> <=> Len(s) = 0
<1>1. Len(s) \in Nat /\ \A i \in 1 .. Len(s) : s[i] \in S
  OBVIOUS
<1>2. s = <<>> <=> Len(s) = 0
  BY EmptySeq
<1>3. ASSUME Len(s) # 0 PROVE s[1] \in Elems(s)
  BY <1>1, <1>3 DEF Elems
<1> QED
  BY <1>1, <1>2, <1>3 DEF Elems

\* push_back: Scheduler::submit.
LEMMA AppendList ==
  ASSUME NEW S, NEW s \in Seq(S), NEW e \in S
  PROVE  /\ Append(s, e) \in Seq(S)
         /\ Elems(Append(s, e)) = Elems(s) \cup {e}
         /\ Inj(s) /\ e \notin Elems(s) => Inj(Append(s, e))
<1>1. /\ Append(s, e) \in Seq(S) /\ Len(s) \in Nat /\ Len(Append(s, e)) = Len(s) + 1
      /\ \A i \in 1 .. Len(s) : Append(s, e)[i] = s[i]
      /\ Append(s, e)[Len(s) + 1] = e
  OBVIOUS
<1>2. ASSUME NEW x \in Elems(Append(s, e)) PROVE x \in Elems(s) \cup {e}
  <2>1. PICK i \in 1 .. Len(s) + 1 : x = Append(s, e)[i]
    BY <1>1, <1>2 DEF Elems
  <2> QED
    BY <2>1, <1>1 DEF Elems
<1>3. ASSUME NEW x \in Elems(s) PROVE x \in Elems(Append(s, e))
  <2>1. PICK i \in 1 .. Len(s) : x = s[i]
    BY <1>3 DEF Elems
  <2>2. i \in 1 .. Len(s) + 1 /\ x = Append(s, e)[i]
    BY <2>1, <1>1
  <2> QED
    BY <2>2, <1>1 DEF Elems
<1>4. e \in Elems(Append(s, e))
  <2>1. Len(s) + 1 \in 1 .. Len(s) + 1
    BY <1>1
  <2> QED
    BY <2>1, <1>1 DEF Elems
<1>5. ASSUME Inj(s), e \notin Elems(s),
             NEW i \in 1 .. Len(s) + 1, NEW j \in 1 .. Len(s) + 1,
             Append(s, e)[i] = Append(s, e)[j]
      PROVE  i = j
  BY <1>1, <1>5 DEF Elems, Inj
<1> QED
  BY <1>1, <1>2, <1>3, <1>4, <1>5 DEF Inj

\* retain of everything but one run: Scheduler::finish.
LEMMA WithoutList ==
  ASSUME NEW S, NEW s \in Seq(S), NEW e, Inj(s)
  PROVE  /\ Without(s, e) \in Seq(S)
         /\ Elems(Without(s, e)) = Elems(s) \ {e}
         /\ Inj(Without(s, e))
         /\ e \notin Elems(s) => Without(s, e) = s
         /\ e \in Elems(s) => \E p \in 1 .. Len(s) : s[p] = e
              /\ Without(s, e) = [i \in 1 .. Len(s) - 1 |-> s[IF i < p THEN i ELSE i + 1]]
<1>1. Len(s) \in Nat /\ \A i \in 1 .. Len(s) : s[i] \in S
  OBVIOUS
<1>2. CASE e \notin Elems(s)
  BY <1>2, <1>1 DEF Elems, Without
<1>3. CASE e \in Elems(s)
  <2> DEFINE p == CHOOSE i \in 1 .. Len(s) : s[i] = e
             w == [i \in 1 .. Len(s) - 1 |-> s[IF i < p THEN i ELSE i + 1]]
  <2>1. \E i \in 1 .. Len(s) : s[i] = e
    BY <1>3 DEF Elems
  <2>2. p \in 1 .. Len(s) /\ s[p] = e
    BY <2>1
  <2>3. Without(s, e) = w
    BY <2>1 DEF Without
  <2> HIDE DEF p
  <2>4. \A i \in 1 .. Len(s) - 1 : (IF i < p THEN i ELSE i + 1) \in 1 .. Len(s) /\ w[i] \in S
    BY <1>1, <2>2
  <2>5. w \in Seq(S) /\ Len(w) = Len(s) - 1
    <3>1. Len(s) - 1 \in Nat
      BY <1>1, <2>2
    <3>2. w \in [1 .. Len(s) - 1 -> S]
      BY <2>4
    <3> QED
      BY <3>1, <3>2, SeqDef, LenProperties
  <2>6. ASSUME NEW x \in Elems(w) PROVE x \in Elems(s) /\ x # e
    <3>1. PICK i \in 1 .. Len(s) - 1 : x = w[i]
      BY <2>5, <2>6 DEF Elems
    <3>2. (IF i < p THEN i ELSE i + 1) # p
      BY <3>1, <2>2, <1>1
    <3>3. x = s[IF i < p THEN i ELSE i + 1]
      BY <3>1
    <3> QED
      BY <3>2, <3>3, <2>2, <2>4 DEF Elems, Inj
  <2>7. ASSUME NEW x \in Elems(s), x # e PROVE x \in Elems(w)
    <3>1. PICK j \in 1 .. Len(s) : x = s[j]
      BY <2>7 DEF Elems
    <3>2. j # p
      BY <3>1, <2>2, <2>7
    <3>3. CASE j < p
      <4>1. j \in 1 .. Len(s) - 1 /\ w[j] = x
        BY <3>1, <3>3, <2>2, <1>1
      <4> QED
        BY <4>1, <2>5 DEF Elems
    <3>4. CASE j > p
      <4>1. j - 1 \in 1 .. Len(s) - 1 /\ ~(j - 1 < p) /\ j - 1 + 1 = j
        BY <3>1, <3>4, <2>2, <1>1
      <4>2. w[j - 1] = x
        BY <4>1, <3>1
      <4> QED
        BY <4>1, <4>2, <2>5 DEF Elems
    <3> QED
      BY <3>2, <3>3, <3>4, <2>2, <1>1
  <2>8. Inj(w)
    <3> SUFFICES ASSUME NEW i \in 1 .. Len(s) - 1, NEW j \in 1 .. Len(s) - 1, w[i] = w[j]
                 PROVE  i = j
      BY <2>5 DEF Inj
    <3>1. (IF i < p THEN i ELSE i + 1) = (IF j < p THEN j ELSE j + 1)
      BY <2>4 DEF Inj
    <3> QED
      BY <3>1, <2>2, <1>1
  <2>9. \E q \in 1 .. Len(s) : s[q] = e
          /\ Without(s, e) = [i \in 1 .. Len(s) - 1 |-> s[IF i < q THEN i ELSE i + 1]]
    BY <2>2, <2>3
  <2> HIDE DEF w
  <2> QED
    BY <1>3, <2>3, <2>5, <2>6, <2>7, <2>8, <2>9
<1> QED
  BY <1>2, <1>3

\* The n longest-waiting entries leave the queue: Scheduler::admit.
LEMMA DropList ==
  ASSUME NEW S, NEW s \in Seq(S), Inj(s), NEW n \in 0 .. Len(s)
  PROVE  /\ SubSeq(s, n + 1, Len(s)) \in Seq(S)
         /\ Len(SubSeq(s, n + 1, Len(s))) = Len(s) - n
         /\ Inj(SubSeq(s, n + 1, Len(s)))
         /\ {s[i] : i \in 1 .. n} \subseteq Elems(s)
         /\ Elems(SubSeq(s, n + 1, Len(s))) = Elems(s) \ {s[i] : i \in 1 .. n}
         /\ n = 0 => SubSeq(s, n + 1, Len(s)) = s
<1> DEFINE d == SubSeq(s, n + 1, Len(s))
           first == {s[i] : i \in 1 .. n}
<1>1. Len(s) \in Nat /\ \A i \in 1 .. Len(s) : s[i] \in S
  OBVIOUS
<1>2. /\ d \in Seq(S) /\ Len(d) = Len(s) - n
      /\ \A i \in 1 .. Len(s) - n : d[i] = s[n + i] /\ n + i \in 1 .. Len(s)
  BY <1>1, SubSeqProperties
<1> HIDE DEF d
<1>3. Inj(d)
  <2> SUFFICES ASSUME NEW i \in 1 .. Len(s) - n, NEW j \in 1 .. Len(s) - n, d[i] = d[j]
               PROVE  i = j
    BY <1>2 DEF Inj
  <2>1. n + i = n + j
    BY <1>1, <1>2 DEF Inj
  <2> QED
    BY <2>1, <1>1
<1>4. first \subseteq Elems(s)
  BY <1>1 DEF Elems
<1>5. ASSUME NEW x \in Elems(d) PROVE x \in Elems(s) /\ x \notin first
  <2>1. PICK i \in 1 .. Len(s) - n : x = d[i]
    BY <1>2, <1>5 DEF Elems
  <2>2. x = s[n + i] /\ n + i \in 1 .. Len(s)
    BY <2>1, <1>2
  <2>3. ASSUME NEW j \in 1 .. n, s[j] = x PROVE FALSE
    <3>1. j \in 1 .. Len(s)
      BY <1>1
    <3>2. j = n + i
      BY <3>1, <2>2, <2>3 DEF Inj
    <3> QED
      BY <3>2, <1>1
  <2> QED
    BY <2>2, <2>3 DEF Elems
<1>6. ASSUME NEW x \in Elems(s), x \notin first PROVE x \in Elems(d)
  <2>1. PICK j \in 1 .. Len(s) : x = s[j]
    BY <1>6 DEF Elems
  <2>2. j - n \in 1 .. Len(s) - n /\ n + (j - n) = j
    BY <2>1, <1>1, <1>6
  <2>3. d[j - n] = x
    BY <2>1, <2>2, <1>2
  <2> QED
    BY <2>2, <2>3, <1>2 DEF Elems
<1>7. n = 0 => d = s
  <2> SUFFICES ASSUME n = 0 PROVE d = s
    OBVIOUS
  <2>1. Len(d) = Len(s) /\ \A i \in 1 .. Len(s) : d[i] = s[i]
    BY <1>1, <1>2
  <2> QED
    BY <2>1, <1>2, SeqEqual
<1> QED
  BY <1>2, <1>3, <1>4, <1>5, <1>6, <1>7 DEF d

\* The first n entries of a queue without repetitions are n.
LEMMA FirstCardinality ==
  ASSUME NEW S, NEW s \in Seq(S), Inj(s), NEW n \in 0 .. Len(s)
  PROVE  /\ IsFiniteSet({s[i] : i \in 1 .. n})
         /\ Cardinality({s[i] : i \in 1 .. n}) = n
<1> DEFINE first == {s[i] : i \in 1 .. n}
           f == [i \in 1 .. n |-> s[i]]
<1>1. Len(s) \in Nat /\ n \in Nat
  OBVIOUS
<1>2. f \in [1 .. n -> first]
  OBVIOUS
<1>3. \A x \in first : \E i \in 1 .. n : f[i] = x
  OBVIOUS
<1>4. \A i, j \in 1 .. n : f[i] = f[j] => i = j
  BY <1>1 DEF Inj
<1>5. f \in Bijection(1 .. n, first)
  BY <1>2, <1>3, <1>4 DEF Bijection, Injection, Surjection, IsInjective
<1>6. \E g : g \in Bijection(1 .. n, first)
  BY <1>5
<1> QED
  BY <1>1, <1>6, FS_CountingElements, FS_NatBijection DEF ExistsBijection

-----------------------------------------------------------------------------
(* Constants and records.                                                  *)

\* What the assumptions say of the constants, one fact at a time.
LEMMA Constants ==
  /\ None \notin Run /\ None \notin Key /\ None \notin Client
  /\ None \notin Record /\ None \notin Save
  /\ \A S \in SUBSET Client : S # None
  /\ MaxLimit \in Nat /\ MaxLimit > 0 /\ ChannelCap \in Nat /\ ChannelCap > 0 /\ MaxLog \in Nat
  /\ MaxEvents \in Nat
  BY CiAssumption, NoneAssumption

\* The fields of a record.
LEMMA RecordFields ==
  ASSUME NEW x \in Record
  PROVE  /\ x.st \in {"queued", "running", "done"} /\ x.submitters \in Nat
         /\ x.asked \in BOOLEAN /\ x.log \in 0 .. MaxLog
         /\ x.end \in Ends \cup {None, "error", "cancelled"}
  BY DEF Record

\* A join.
LEMMA JoinedOps ==
  ASSUME NEW x \in Record
  PROVE  /\ [x EXCEPT !.submitters = @ + 1] \in Record
         /\ [x EXCEPT !.submitters = @ + 1].st = x.st
         /\ [x EXCEPT !.submitters = @ + 1].end = x.end
         /\ [x EXCEPT !.submitters = @ + 1].asked = x.asked
         /\ [x EXCEPT !.submitters = @ + 1].submitters = x.submitters + 1
  BY DEF Record

\* An admission.
LEMMA StartedOps ==
  ASSUME NEW x \in Record
  PROVE  /\ [x EXCEPT !.st = "running"] \in Record
         /\ [x EXCEPT !.st = "running"].st = "running"
  BY DEF Record

\* A cancel request.
LEMMA AskedOps ==
  ASSUME NEW x \in Record
  PROVE  /\ [x EXCEPT !.asked = TRUE] \in Record
         /\ [x EXCEPT !.asked = TRUE].st = x.st
         /\ [x EXCEPT !.asked = TRUE].end = x.end
         /\ [x EXCEPT !.asked = TRUE].asked
         /\ [x EXCEPT !.asked = TRUE].submitters = x.submitters
<1>1. /\ [x EXCEPT !.asked = TRUE] \in Record
      /\ [x EXCEPT !.asked = TRUE].st = x.st
      /\ [x EXCEPT !.asked = TRUE].end = x.end
      /\ [x EXCEPT !.asked = TRUE].submitters = x.submitters
  BY DEF Record
<1>2. [x EXCEPT !.asked = TRUE].asked
  BY DEF Record
<1> QED
  BY <1>1, <1>2

\* Progress.
LEMMA LoggedOps ==
  ASSUME NEW x \in Record, x.log < MaxLog
  PROVE  /\ [x EXCEPT !.log = @ + 1] \in Record
         /\ [x EXCEPT !.log = @ + 1].st = x.st
         /\ [x EXCEPT !.log = @ + 1].end = x.end
  BY Constants DEF Record

\* RunRecord::finish.
LEMMA FinishedOps ==
  ASSUME NEW x \in Record, NEW end \in Ends \cup {None, "error", "cancelled"}
  PROVE  /\ Finished(x, end) \in Record
         /\ Finished(x, end).st = "done" /\ Finished(x, end).end = end
         /\ Finished(x, end).submitters = x.submitters
         /\ Finished(x, end).asked = x.asked
  BY DEF Record, Finished

\* RunRecord::queued.
LEMMA NewRecordOps ==
  /\ NewRecord \in Record /\ NewRecord.st = "queued"
  BY Constants DEF Record, NewRecord

\* Saves and their fields.
LEMMA SaveOps ==
  /\ \A s \in Save : s.run \in Run /\ s.version \in Nat /\ s.rec \in Record
  /\ \A r \in Run, x \in Record : version[r] \in Nat =>
       /\ Snapshot(r, x) \in Save
       /\ Snapshot(r, x).run = r /\ Snapshot(r, x).rec = x
       /\ Snapshot(r, x).version = version[r] + 1
  BY DEF Save, Snapshot

-----------------------------------------------------------------------------
(* The inductive invariant.                                                *)

\* Every run with a record or a file has a key.
Keyed ==
    \A r \in Run :
        \/ keyOf[r] \in Key /\ sub[r] \notin {"unborn", "refused"}
        \/ sub[r] \in {"unborn", "refused"} /\ rec[r] = None /\ disk[r] = None

\* A run stands in one place of the scheduler, once, and was accepted.
Placed ==
    /\ Inj(queue)
    /\ \A r \in Queued : r \notin running
    /\ \A r \in closing : r \notin Queued /\ r \notin running
    /\ \A r \in closing : rec[r] # None /\ rec[r].st = "queued"
    /\ \A r \in Run : r \in Queued \/ r \in running \/ r \in closing => sub[r] = "accepted"

\* A task executes exactly the running runs.
Executing ==
    \A r \in Run :
        /\ exec[r] \in {"work", "saving", "saved"} <=> r \in running
        /\ exec[r] # "idle" => sub[r] = "accepted"

\* Only runs that were accepted, or that a restart found on disk, have a slot;
\* a run whose admission is next has the file its submission placed.
Admitting ==
    /\ \A r \in Run : sub[r] \in {"unborn", "placed", "joined", "refused"} => rec[r] = None
    /\ \A r \in Run : sub[r] = "placed" => disk[r] = NewRecord /\ written[r] = 1
    /\ \A r \in pruning :
         rec[r] = None /\ sub[r] \notin {"unborn", "placed", "joined", "refused"}

\* complete() holds a save exactly while it ends the run.
Ending(r) == exec[r] \in {"saving", "saved"}

\* The saves that are still to be written.
Outstanding == saves \cup {pend[r] : r \in {t \in Run : pend[t] # None}}

Saving ==
    /\ \A s \in Outstanding : sub[s.run] = "accepted"
    /\ \A r \in Run : pend[r] # None <=> sub[r] = "joined" \/ Ending(r)

\* The record complete() saved is the slot's with the conclusion applied, or a
\* join or a cancel request changed the slot since, visibly to complete().
Concluded(r) ==
    /\ pend[r].run = r
    /\ pend[r].rec.st = "done"
    /\ \/ version[r] = pend[r].version /\ Finished(rec[r], pend[r].rec.end) = pend[r].rec
       \/ /\ version[r] > pend[r].version
          /\ \/ rec[r].submitters > pend[r].rec.submitters
             \/ rec[r].asked /\ ~pend[r].rec.asked
    /\ exec[r] = "saved" => written[r] >= pend[r].version

Concluding == \A r \in Run : Ending(r) => Concluded(r)

\* What the newest version of a slot was taken of.
Newest(r) == IF Ending(r) /\ pend[r].version = version[r] THEN pend[r].rec ELSE rec[r]

\* The newest version of a slot is on disk or on its way, and no other save
\* can pass for it.
Versioned ==
    /\ \A s \in Outstanding : rec[s.run] # None =>
         /\ s.version <= version[s.run]
         /\ s.version = version[s.run] => s.rec = Newest(s.run)
    /\ \A r \in Run : rec[r] # None =>
         /\ disk[r] # None
         /\ written[r] <= version[r]
         /\ written[r] = version[r] => disk[r] = Newest(r)
         /\ written[r] < version[r] =>
              \E s \in Outstanding : s.run = r /\ s.version = version[r]

IInv ==
    /\ TypeOK /\ Keyed /\ Placed /\ Executing /\ Admitting /\ Saving /\ Concluding /\ Versioned
    /\ OneLiveRunPerKey /\ RecordsMatchScheduler /\ NoLostWakeup

-----------------------------------------------------------------------------
(* Frames: what an action that leaves the variables alone preserves.       *)

\* The types of the groups of variables that a step leaves alone.
LEMMA TypeFrame ==
  ASSUME TypeOK
  PROVE  /\ UNCHANGED sched => SchedType'
         /\ UNCHANGED slots => SlotType'
         /\ UNCHANGED tasks => TaskType'
         /\ UNCHANGED dispatcher => LoopType'
         /\ UNCHANGED files => FileType'
         /\ UNCHANGED env => EnvType'
         /\ UNCHANGED clearing => clearing' \in BOOLEAN
<1>1. UNCHANGED sched => SchedType'
  BY DEF TypeOK, SchedType, sched
<1>2. UNCHANGED slots => SlotType'
  BY DEF TypeOK, SlotType, slots
<1>3. UNCHANGED tasks => TaskType'
  BY DEF TypeOK, TaskType, tasks
<1>4. UNCHANGED dispatcher => LoopType'
  BY DEF TypeOK, LoopType, dispatcher
<1>5. UNCHANGED files => FileType'
  BY DEF TypeOK, FileType, files
<1>6. UNCHANGED env => EnvType'
  BY DEF TypeOK, EnvType, env
<1> QED
  BY <1>1, <1>2, <1>3, <1>4, <1>5, <1>6 DEF TypeOK

\* Everything that depends on neither the environment nor the nudges.
LEMMA CoreFrame ==
  ASSUME IInv,
         UNCHANGED <<keyOf, sub, rec, disk, written, queue, running, closing, exec,
                     pruning, saves, pend, version, live>>
  PROVE  /\ Keyed' /\ Placed' /\ Executing' /\ Admitting' /\ Saving' /\ Concluding' /\ Versioned'
         /\ OneLiveRunPerKey' /\ RecordsMatchScheduler'
<1>1. Keyed' /\ OneLiveRunPerKey' /\ RecordsMatchScheduler'
  BY DEF IInv, Keyed, OneLiveRunPerKey, RecordsMatchScheduler, Queued
<1>2. Placed'
  BY DEF IInv, Placed, Queued, Inj
<1>3. Executing'
  BY DEF IInv, Executing
<1>4. Admitting'
  BY DEF IInv, Admitting, NewRecord
<1>5. Saving'
  BY DEF IInv, Saving, Ending, Outstanding
<1>6. Concluding'
  BY DEF IInv, Concluding, Concluded, Ending, Finished
<1>7. Versioned'
  BY DEF IInv, Versioned, Newest, Ending, Outstanding
<1> QED
  BY <1>1, <1>2, <1>3, <1>4, <1>5, <1>6, <1>7

\* The initial state.
LEMMA InitIInv == Init => IInv
<1> SUFFICES ASSUME Init PROVE IInv
  OBVIOUS
<1>1. TypeOK
  <2>1. SchedType
    <3>1. limit \in 1 .. MaxLimit
      BY Constants DEF Init
    <3>2. queue \in Seq(Run)
      BY DEF Init
    <3> QED
      BY <3>1, <3>2 DEF Init, SchedType
  <2>2. SlotType /\ TaskType
    BY DEF Init, SlotType, TaskType
  <2>3. LoopType /\ FileType /\ EnvType
    BY Constants DEF Init, LoopType, FileType, EnvType
  <2> QED
    BY <2>1, <2>2, <2>3 DEF Init, TypeOK
<1>2. Queued = {} /\ Outstanding = {}
  BY DEF Init, Queued, Outstanding
<1>3. Keyed /\ Executing /\ Admitting /\ Saving /\ Concluding
  BY <1>2 DEF Init, Keyed, Executing, Admitting, Saving, Concluding, Ending
<1>4. Placed
  BY <1>2, EmptyList DEF Init, Placed
<1>5. Versioned /\ RecordsMatchScheduler /\ NoLostWakeup
  BY <1>2 DEF Init, Versioned, RecordsMatchScheduler, NoLostWakeup, Eligible
<1>6. OneLiveRunPerKey
  BY <1>2, Constants DEF Init, OneLiveRunPerKey
<1> QED
  BY <1>1, <1>2, <1>3, <1>4, <1>5, <1>6 DEF IInv

\* Nudges, the dispatcher's death, clients, owners, settings and cache holds.
LEMMA QuietSteps ==
  ASSUME IInv,
         \/ Nudge \/ DispatcherDies \/ Sweep \/ ListRunners \/ ClearCache \/ DropHold
         \/ \E c \in Client : ClientExits(c)
         \/ \E r \in Run, c \in Client : Release(r, c)
         \/ \E l \in 1 .. MaxLimit, d \in BOOLEAN : Settings(l, d)
         \/ UNCHANGED vars
  PROVE  IInv'
<1> TypeOK /\ LoopType /\ EnvType /\ TaskType /\ SlotType /\ SchedType
  BY DEF IInv, TypeOK
<1>1. CASE Nudge
  <2>1. LoopType'
    BY <1>1, Constants DEF LoopType, Nudge
  <2>2. TypeOK'
    BY <1>1, <2>1, TypeFrame DEF Nudge, TypeOK
  <2>3. NoLostWakeup'
    BY <1>1, Constants DEF IInv, LoopType, NoLostWakeup, Eligible, Nudge, sched
  <2> QED
    BY <1>1, <2>2, <2>3, CoreFrame DEF IInv, Nudge, sched, slots, tasks, files
<1>2. CASE DispatcherDies
  <2>1. LoopType'
    <3>1. nudges' = 0 /\ kicks' = kicks /\ alive' = FALSE
      BY <1>2 DEF DispatcherDies
    <3>2. nudges' \in 0 .. ChannelCap
      BY <3>1, Constants
    <3> QED
      BY <3>1, <3>2 DEF LoopType
  <2>2. EnvType'
    BY <1>2 DEF EnvType, DispatcherDies, Event
  <2>3. TypeOK'
    BY <1>2, <2>1, <2>2, TypeFrame DEF DispatcherDies, TypeOK
  <2>4. NoLostWakeup'
    BY <1>2 DEF NoLostWakeup, DispatcherDies
  <2> QED
    BY <1>2, <2>3, <2>4, CoreFrame DEF IInv, DispatcherDies, sched, slots, tasks, files
<1>3. CASE Sweep
  <2>1. SlotType'
    BY <1>3 DEF SlotType, Sweep
  <2>2. TaskType'
    BY <1>3 DEF TaskType, Sweep, Orphaned
  <2>3. TypeOK'
    BY <1>3, <2>1, <2>2, TypeFrame DEF Sweep, TypeOK
  <2>4. NoLostWakeup'
    BY <1>3 DEF IInv, NoLostWakeup, Eligible, Sweep, sched, dispatcher
  <2> QED
    BY <1>3, <2>3, <2>4, CoreFrame DEF IInv, Sweep, sched, files
<1>4. CASE ListRunners
  <2>1. LoopType'
    BY <1>4 DEF LoopType, ListRunners
  <2>2. TypeOK'
    BY <1>4, <2>1, TypeFrame DEF ListRunners, TypeOK
  <2>3. NoLostWakeup'
    BY <1>4 DEF LoopType, NoLostWakeup, ListRunners
  <2> QED
    BY <1>4, <2>2, <2>3, CoreFrame DEF IInv, ListRunners, sched, slots, tasks, files
<1>5. CASE ClearCache
  <2>1. TaskType'
    BY <1>5 DEF TaskType, ClearCache
  <2>2. EnvType'
    BY <1>5 DEF EnvType, ClearCache, Event
  <2>3. TypeOK'
    BY <1>5, <2>1, <2>2, TypeFrame DEF ClearCache, TypeOK
  <2>4. NoLostWakeup'
    BY <1>5 DEF NoLostWakeup, Eligible, ClearCache
  <2> QED
    BY <1>5, <2>3, <2>4, CoreFrame DEF IInv, ClearCache, sched, slots, files
<1>6. CASE DropHold
  <2>1. TaskType'
    BY <1>6 DEF TaskType, DropHold
  <2>2. LoopType'
    BY <1>6 DEF LoopType, DropHold
  <2>3. TypeOK'
    BY <1>6, <2>1, <2>2, TypeFrame DEF DropHold, TypeOK
  <2>4. NoLostWakeup'
    BY <1>6 DEF LoopType, NoLostWakeup, DropHold
  <2> QED
    BY <1>6, <2>3, <2>4, CoreFrame DEF IInv, DropHold, sched, slots, files
<1>7. ASSUME NEW c \in Client, ClientExits(c) PROVE IInv'
  <2>1. EnvType'
    BY <1>7 DEF EnvType, ClientExits, Event
  <2>2. TypeOK'
    BY <1>7, <2>1, TypeFrame DEF ClientExits, TypeOK
  <2>3. NoLostWakeup'
    BY <1>7 DEF IInv, NoLostWakeup, Eligible, ClientExits, sched, dispatcher
  <2> QED
    BY <1>7, <2>2, <2>3, CoreFrame DEF IInv, ClientExits, sched, slots, tasks, files
<1>8. ASSUME NEW r \in Run, NEW c \in Client, Release(r, c) PROVE IInv'
  <2>1. EnvType'
    BY <1>8 DEF EnvType, Release, Event
  <2>2. SlotType'
    BY <1>8 DEF SlotType, Release, Forget
  <2>3. TaskType'
    BY <1>8 DEF TaskType, Release
  <2>4. TypeOK'
    BY <1>8, <2>1, <2>2, <2>3, TypeFrame DEF Release, TypeOK
  <2>5. NoLostWakeup'
    BY <1>8 DEF IInv, NoLostWakeup, Eligible, Release, sched, dispatcher
  <2> QED
    BY <1>8, <2>4, <2>5, CoreFrame DEF IInv, Release, sched, files
<1>9. ASSUME NEW l \in 1 .. MaxLimit, NEW d \in BOOLEAN, Settings(l, d) PROVE IInv'
  <2>1. EnvType'
    BY <1>9 DEF EnvType, Settings, Event
  <2>2. SchedType'
    BY <1>9 DEF SchedType, Settings
  <2>3. LoopType'
    BY <1>9 DEF LoopType, Settings
  <2>4. TypeOK'
    BY <1>9, <2>1, <2>2, <2>3, TypeFrame DEF Settings, TypeOK
  <2>5. NoLostWakeup'
    BY <1>9 DEF LoopType, NoLostWakeup, Settings
  <2> QED
    BY <1>9, <2>4, <2>5, CoreFrame DEF IInv, Settings, slots, tasks, files
<1>10. CASE UNCHANGED vars
  <2>1. TypeOK'
    BY <1>10, TypeFrame DEF vars, TypeOK
  <2>2. NoLostWakeup'
    BY <1>10 DEF IInv, NoLostWakeup, Eligible, vars, sched, dispatcher
  <2> QED
    BY <1>10, <2>1, <2>2, CoreFrame DEF IInv, vars, sched, slots, tasks, files
<1> QED
  BY <1>1, <1>2, <1>3, <1>4, <1>5, <1>6, <1>7, <1>8, <1>9, <1>10

-----------------------------------------------------------------------------
(* What the invariant says of one run.                                     *)

\* Records, saves and coalescing keys, where they are.
LEMMA StateFacts ==
  ASSUME IInv
  PROVE  /\ Queued \subseteq Run /\ Queued = Elems(queue) /\ Inj(queue)
         /\ \A r \in Run : rec[r] # None => rec[r] \in Record
         /\ \A r \in Run : version[r] \in Nat /\ written[r] \in Nat
         /\ \A r \in Run : pend[r] # None => pend[r] \in Save
         /\ Outstanding \subseteq Save
         /\ \A r \in Queued : rec[r] \in Record /\ rec[r].st = "queued"
         /\ \A r \in running : rec[r] \in Record /\ rec[r].st = "running"
         /\ \A r \in closing : rec[r] \in Record /\ rec[r].st = "queued"
         /\ \A k \in Key : live[k] # None =>
              live[k] \in Run /\ live[k] \in Queued \cup running /\ keyOf[live[k]] = k
<1>1. Queued \subseteq Run /\ Queued = Elems(queue) /\ Inj(queue)
  BY ListType DEF IInv, TypeOK, SchedType, Placed, Queued, Elems
<1>2. /\ \A r \in Run : rec[r] # None => rec[r] \in Record
      /\ \A r \in Run : version[r] \in Nat /\ written[r] \in Nat
      /\ \A r \in Run : pend[r] # None => pend[r] \in Save
  BY DEF IInv, TypeOK, SlotType, TaskType, FileType
<1>3. Outstanding \subseteq Save
  BY <1>2 DEF IInv, TypeOK, FileType, Outstanding
<1>4. /\ \A r \in Queued : rec[r] \in Record /\ rec[r].st = "queued"
      /\ \A r \in running : rec[r] \in Record /\ rec[r].st = "running"
      /\ \A r \in closing : rec[r] \in Record /\ rec[r].st = "queued"
  BY <1>1, <1>2 DEF IInv, TypeOK, SchedType, TaskType, RecordsMatchScheduler, Placed
<1>5. \A k \in Key : live[k] # None =>
         live[k] \in Run /\ live[k] \in Queued \cup running /\ keyOf[live[k]] = k
  BY DEF IInv, TypeOK, SchedType, OneLiveRunPerKey
<1> QED
  BY <1>1, <1>2, <1>3, <1>4, <1>5

\* A run that was not accepted is nowhere in the scheduler, is not executed, and
\* nothing of it is to be written.
LEMMA OutsideFacts ==
  ASSUME IInv, NEW r \in Run, sub[r] # "accepted"
  PROVE  /\ r \notin Queued /\ r \notin running /\ r \notin closing
         /\ exec[r] = "idle" /\ ~Ending(r)
         /\ \A s \in Outstanding : s.run # r
         /\ sub[r] # "joined" => pend[r] = None
         /\ sub[r] = "joined" => pend[r] \in Save /\ pend[r] \in Outstanding
<1>1. r \notin Queued /\ r \notin running /\ r \notin closing
  BY DEF IInv, Placed
<1>2. exec[r] = "idle" /\ ~Ending(r)
  BY DEF IInv, Executing, Ending
<1>3. \A s \in Outstanding : s.run # r
  BY DEF IInv, Saving
<1>4. sub[r] # "joined" => pend[r] = None
  BY <1>2 DEF IInv, Saving
<1>5. sub[r] = "joined" => pend[r] \in Save /\ pend[r] \in Outstanding
  BY StateFacts DEF IInv, Saving, Outstanding
<1> QED
  BY <1>1, <1>2, <1>3, <1>4, <1>5

\* A run that ends, whose slot and save a step leaves alone.
LEMMA ConcludedFrame ==
  ASSUME IInv, NEW r \in Run, Ending(r),
         rec'[r] = rec[r], version'[r] = version[r], exec'[r] = exec[r], pend'[r] = pend[r],
         written'[r] \in Nat, written'[r] >= written[r]
  PROVE  Concluded(r)'
<1>1. Concluded(r) /\ pend[r] \in Save /\ pend[r].version \in Nat /\ written[r] \in Nat
  BY StateFacts, SaveOps DEF IInv, Concluding, Saving
<1>2. exec'[r] = "saved" => written'[r] >= pend'[r].version
  BY <1>1 DEF Concluded
<1> QED
  BY <1>1, <1>2 DEF Concluded, Finished

\* A step that gives each slot of S its next version, and a save of it.
LEMMA NextVersions ==
  ASSUME IInv, NEW S \in SUBSET Run,
         UNCHANGED <<disk, written>>,
         \A s \in Outstanding' : s \in Save,
         \A r \in Run \ S : version'[r] = version[r] /\ rec'[r] = rec[r]
                            /\ (rec[r] # None => Newest(r)' = Newest(r)),
         \A r \in S : version'[r] = version[r] + 1 /\ rec[r] # None
                      /\ \E s \in Outstanding' : s.run = r /\ s.version = version[r] + 1,
         \A s \in Outstanding' : \/ s \in Outstanding
                                 \/ /\ s.run \in S /\ s.version = version[s.run] + 1
                                    /\ s.rec = Newest(s.run)',
         \A s \in Outstanding : s \in Outstanding' \/ s.run \in S
  PROVE  Versioned'
<1>1. ASSUME NEW s \in Outstanding', rec'[s.run] # None
      PROVE  s.version <= version'[s.run] /\ (s.version = version'[s.run] => s.rec = Newest(s.run)')
  <2>1. s.run \in Run /\ s.version \in Nat /\ version[s.run] \in Nat
    BY StateFacts, SaveOps, <1>1
  <2>2. CASE s.run \in S
    <3>1. CASE s \in Outstanding
      <4>1. s.version <= version[s.run]
        BY <2>2, <3>1 DEF IInv, Versioned
      <4> QED
        BY <4>1, <2>1, <2>2
    <3>2. CASE s \notin Outstanding
      BY <1>1, <3>2, <2>1, <2>2
    <3> QED
      BY <3>1, <3>2
  <2>3. CASE s.run \notin S
    <3>1. s \in Outstanding /\ rec[s.run] # None /\ version'[s.run] = version[s.run]
      BY <1>1, <2>1, <2>3
    <3>2. Newest(s.run)' = Newest(s.run)
      BY <2>1, <2>3, <3>1
    <3>3. s.version <= version[s.run] /\ (s.version = version[s.run] => s.rec = Newest(s.run))
      BY <3>1 DEF IInv, Versioned
    <3> QED
      BY <3>1, <3>2, <3>3
  <2> QED
    BY <2>2, <2>3
<1>2. ASSUME NEW r \in Run, rec'[r] # None
      PROVE  /\ disk'[r] # None
             /\ written'[r] <= version'[r]
             /\ written'[r] = version'[r] => disk'[r] = Newest(r)'
             /\ written'[r] < version'[r] =>
                  \E s \in Outstanding' : s.run = r /\ s.version = version'[r]
  <2>1. version[r] \in Nat /\ written[r] \in Nat /\ written'[r] = written[r] /\ disk'[r] = disk[r]
    BY StateFacts
  <2>2. rec[r] # None
    BY <1>2
  <2>3. /\ disk[r] # None /\ written[r] <= version[r]
        /\ written[r] = version[r] => disk[r] = Newest(r)
        /\ written[r] < version[r] => \E s \in Outstanding : s.run = r /\ s.version = version[r]
    BY <2>2 DEF IInv, Versioned
  <2>4. CASE r \in S
    <3>1. version'[r] = version[r] + 1
      BY <2>4
    <3> QED
      BY <2>1, <2>3, <2>4, <3>1
  <2>5. CASE r \notin S
    <3>1. version'[r] = version[r] /\ Newest(r)' = Newest(r)
      BY <2>5, <2>2
    <3>2. written[r] < version[r] => \E s \in Outstanding' : s.run = r /\ s.version = version[r]
      BY <2>3, <2>5
    <3> QED
      BY <2>1, <2>3, <3>1, <3>2
  <2> QED
    BY <2>4, <2>5
<1> QED
  BY <1>1, <1>2 DEF Versioned

\* The same for one slot and one save of it.
LEMMA NextVersion ==
  ASSUME IInv, NEW e \in Run, NEW save \in Save, rec[e] # None,
         UNCHANGED <<disk, written>>,
         version'[e] = version[e] + 1,
         \A r \in Run \ {e} : version'[r] = version[r] /\ rec'[r] = rec[r]
                              /\ (rec[r] # None => Newest(r)' = Newest(r)),
         save.run = e, save.version = version[e] + 1, save.rec = Newest(e)',
         save \in Outstanding',
         \A s \in Outstanding' : s \in Outstanding \/ s = save,
         \A s \in Outstanding : s \in Outstanding' \/ s.run = e
  PROVE  Versioned'
<1>1. {e} \in SUBSET Run /\ \A s \in Outstanding' : s \in Save
  BY StateFacts
<1>2. \A r \in {e} : version'[r] = version[r] + 1 /\ rec[r] # None
                    /\ \E s \in Outstanding' : s.run = r /\ s.version = version[r] + 1
  OBVIOUS
<1>3. \A s \in Outstanding' : \/ s \in Outstanding
                               \/ /\ s.run \in {e} /\ s.version = version[s.run] + 1
                                  /\ s.rec = Newest(s.run)'
  OBVIOUS
<1>4. \A s \in Outstanding : s \in Outstanding' \/ s.run \in {e}
  OBVIOUS
<1> QED
  BY <1>1, <1>2, <1>3, <1>4, NextVersions

\* RecordWriter::write of a save that was due: the file of its run gets the
\* newer of the two contents, and no other file is touched.
LEMMA WriteFacts ==
  ASSUME IInv, NEW save \in Outstanding, Write(save), UNCHANGED pruning, saves' \subseteq Save
  PROVE  /\ FileType'
         /\ \A r \in Run : disk'[r] = None <=> disk[r] = None
         /\ \A r \in Run : sub[r] # "accepted" => disk'[r] = disk[r] /\ written'[r] = written[r]
         /\ \A r \in Run : written'[r] >= written[r]
         /\ disk[save.run] # None => written'[save.run] >= save.version
<1>1. /\ save \in Save /\ save.run \in Run /\ save.version \in Nat /\ save.rec \in Record
      /\ sub[save.run] = "accepted"
  BY StateFacts, SaveOps DEF IInv, Saving
<1>2. FileType
  BY DEF IInv, TypeOK
<1>3. CASE disk[save.run] # None /\ save.version > written[save.run]
  <2>1. /\ disk' = [disk EXCEPT ![save.run] = save.rec]
        /\ written' = [written EXCEPT ![save.run] = save.version]
    BY <1>3 DEF Write
  <2> QED
    BY <1>1, <1>2, <1>3, <2>1, Constants DEF FileType
<1>4. CASE ~(disk[save.run] # None /\ save.version > written[save.run])
  <2>1. disk' = disk /\ written' = written
    BY <1>4 DEF Write
  <2> QED
    BY <1>1, <1>2, <1>4, <2>1 DEF FileType
<1> QED
  BY <1>3, <1>4

\* ... and the newest version is still on disk or due.
LEMMA WriteVersions ==
  ASSUME IInv, NEW save \in Outstanding, Write(save), UNCHANGED <<rec, version>>,
         \A r \in Run : rec[r] # None => Newest(r)' = Newest(r),
         Outstanding' \subseteq Outstanding,
         \A s \in Outstanding : s \in Outstanding' \/ s = save
  PROVE  Versioned'
<1>1. /\ save \in Save /\ save.run \in Run /\ save.version \in Nat /\ save.rec \in Record
  BY StateFacts, SaveOps
<1>2. ASSUME NEW s \in Outstanding', rec'[s.run] # None
      PROVE  s.version <= version'[s.run] /\ (s.version = version'[s.run] => s.rec = Newest(s.run)')
  <2>1. s \in Outstanding /\ s.run \in Run /\ rec[s.run] # None
    BY <1>2, StateFacts, SaveOps
  <2> QED
    BY <2>1 DEF IInv, Versioned
<1>3. ASSUME NEW r \in Run, rec'[r] # None
      PROVE  /\ disk'[r] # None
             /\ written'[r] <= version'[r]
             /\ written'[r] = version'[r] => disk'[r] = Newest(r)'
             /\ written'[r] < version'[r] =>
                  \E s \in Outstanding' : s.run = r /\ s.version = version'[r]
  <2>1. /\ rec[r] # None /\ version'[r] = version[r] /\ Newest(r)' = Newest(r)
        /\ version[r] \in Nat /\ written[r] \in Nat
    BY <1>3, StateFacts
  <2>2. /\ disk[r] # None /\ written[r] <= version[r]
        /\ written[r] = version[r] => disk[r] = Newest(r)
        /\ written[r] < version[r] => \E s \in Outstanding : s.run = r /\ s.version = version[r]
    BY <2>1 DEF IInv, Versioned
  <2>3. save.run = r => save.version <= version[r] /\ (save.version = version[r] => save.rec = Newest(r))
    BY <2>1 DEF IInv, Versioned
  <2>4. CASE save.run = r /\ save.version > written[r]
    <3>1. disk'[r] = save.rec /\ written'[r] = save.version
      BY <2>2, <2>4 DEF Write, IInv, TypeOK, FileType
    <3>2. save.rec # None
      BY <1>1, Constants
    <3>3. ASSUME save.version < version[r]
          PROVE  \E s \in Outstanding' : s.run = r /\ s.version = version[r]
      <4>1. PICK s \in Outstanding : s.run = r /\ s.version = version[r]
        BY <3>3, <2>1, <2>2, <2>4, <1>1
      <4>2. s # save
        BY <4>1, <3>3, <1>1, <2>1
      <4> QED
        BY <4>1, <4>2
    <3> QED
      BY <3>1, <3>2, <3>3, <2>1, <2>3, <2>4, <1>1
  <2>5. CASE ~(save.run = r /\ save.version > written[r])
    <3>1. disk'[r] = disk[r] /\ written'[r] = written[r]
      BY <2>5, <1>1 DEF Write, IInv, TypeOK, FileType
    <3>2. ASSUME written[r] < version[r]
          PROVE  \E s \in Outstanding' : s.run = r /\ s.version = version[r]
      <4>1. PICK s \in Outstanding : s.run = r /\ s.version = version[r]
        BY <3>2, <2>2
      <4>2. s # save
        BY <4>1, <3>2, <2>5, <1>1, <2>1
      <4> QED
        BY <4>1, <4>2
    <3> QED
      BY <3>1, <3>2, <2>1, <2>2
  <2> QED
    BY <2>4, <2>5
<1> QED
  BY <1>2, <1>3 DEF Versioned

-----------------------------------------------------------------------------
(* Submission.                                                             *)

\* The newest content of a slot whose own variables do not change.
LEMMA NewestFrame ==
  ASSUME NEW r \in Run, rec'[r] = rec[r], version'[r] = version[r], exec'[r] = exec[r],
         Ending(r) => pend'[r] = pend[r]
  PROVE  Newest(r)' = Newest(r) /\ (Ending(r)' <=> Ending(r))
  BY DEF Newest, Ending

\* A slot with a new version has its newest content in the slot itself.
LEMMA NewestOvertakes ==
  ASSUME IInv, NEW r \in Run, rec[r] # None, version'[r] = version[r] + 1,
         exec'[r] = exec[r], Ending(r) => pend'[r] = pend[r]
  PROVE  Newest(r)' = rec'[r]
<1>1. ASSUME Ending(r) PROVE pend'[r].version # version'[r]
  <2>1. pend[r] \in Outstanding /\ pend[r].run = r
    BY <1>1 DEF IInv, Concluding, Concluded, Saving, Outstanding
  <2>2. pend[r].version <= version[r] /\ pend[r].version \in Nat /\ version[r] \in Nat
    BY <2>1, StateFacts, SaveOps DEF IInv, Versioned
  <2> QED
    BY <1>1, <2>2
<1>2. Ending(r)' <=> Ending(r)
  BY DEF Ending
<1> QED
  BY <1>1, <1>2 DEF Newest

\* Before admit: nobody sees the run, and its file is there.
LEMMA PlaceStep ==
  ASSUME IInv, NEW r \in Run, NEW k \in Key, Place(r, k)
  PROVE  IInv'
<1>1. /\ sub[r] = "unborn"
      /\ keyOf' = [keyOf EXCEPT ![r] = k]
      /\ sub' = [sub EXCEPT ![r] = "placed"]
      /\ disk' = [disk EXCEPT ![r] = NewRecord]
      /\ written' = [written EXCEPT ![r] = 1]
      /\ UNCHANGED <<queue, running, live, rec, version, exec, pend, closing, saves, pruning>>
      /\ UNCHANGED <<orphans, clears>>
      /\ UNCHANGED <<sched, slots, clearing, dispatcher, env>>
  BY DEF Place, sched, slots, dispatcher
<1>2. TaskType /\ FileType /\ SlotType
  BY DEF IInv, TypeOK
<1>3. TaskType' /\ FileType'
  BY <1>1, <1>2, NewRecordOps DEF TaskType, FileType
<1>4. TypeOK'
  BY <1>1, <1>3, TypeFrame DEF IInv, TypeOK
<1>5. /\ r \notin Queued /\ r \notin running /\ r \notin closing /\ r \notin pruning
      /\ exec[r] = "idle" /\ ~Ending(r) /\ pend[r] = None /\ rec[r] = None
      /\ \A s \in Outstanding : s.run # r
  BY <1>1, OutsideFacts DEF IInv, Admitting
<1>6. Queued' = Queued /\ Outstanding' = Outstanding
  BY <1>1 DEF Queued, Outstanding
<1>7. Keyed'
  BY <1>1, <1>2 DEF IInv, Keyed, TaskType, FileType
<1>8. Placed'
  BY <1>1, <1>2, <1>5, <1>6 DEF IInv, Placed, Inj, TaskType
<1>9. Executing' /\ Admitting'
  BY <1>1, <1>2, <1>5 DEF IInv, Executing, Admitting, TaskType, FileType, NewRecord
<1>10. Saving'
  BY <1>1, <1>2, <1>5, <1>6, StateFacts, SaveOps DEF IInv, Saving, Ending, TaskType
<1>11. Concluding'
  BY <1>1, <1>2, <1>5, ConcludedFrame DEF Concluding, Ending, FileType
<1>12. Versioned'
  BY <1>1, <1>2, <1>5, <1>6 DEF IInv, Versioned, Newest, Ending, FileType
<1>13. OneLiveRunPerKey' /\ RecordsMatchScheduler'
  BY <1>1, <1>2, <1>5, <1>6 DEF IInv, OneLiveRunPerKey, RecordsMatchScheduler, TaskType
<1>14. NoLostWakeup'
  BY <1>1 DEF IInv, NoLostWakeup, Eligible, sched, dispatcher
<1> QED
  BY <1>4, <1>7, <1>8, <1>9, <1>10, <1>11, <1>12, <1>13, <1>14 DEF IInv

\* submit that fails before anything is placed.
LEMMA RefuseStep ==
  ASSUME IInv, NEW r \in Run, RefuseSubmit(r)
  PROVE  IInv'
<1>1. /\ sub[r] = "unborn"
      /\ sub' = [sub EXCEPT ![r] = "refused"]
      /\ UNCHANGED <<queue, running, live, rec, version, keyOf, exec, pend, closing, saves,
                     disk, written, pruning>>
      /\ UNCHANGED <<orphans, clears>>
      /\ UNCHANGED <<sched, slots, clearing, dispatcher, files, env>>
  BY DEF RefuseSubmit, sched, slots, files
<1>2. TaskType
  BY DEF IInv, TypeOK
<1>3. TaskType'
  BY <1>1, <1>2 DEF TaskType
<1>4. TypeOK'
  BY <1>1, <1>3, TypeFrame DEF IInv, TypeOK
<1>5. /\ r \notin Queued /\ r \notin running /\ r \notin closing /\ r \notin pruning
      /\ exec[r] = "idle" /\ ~Ending(r) /\ pend[r] = None /\ rec[r] = None
      /\ \A s \in Outstanding : s.run # r
  BY <1>1, OutsideFacts DEF IInv, Admitting
<1>6. Queued' = Queued /\ Outstanding' = Outstanding
  BY <1>1 DEF Queued, Outstanding
<1>7. Keyed'
  BY <1>1, <1>2 DEF IInv, Keyed, TaskType
<1>8. Placed'
  BY <1>1, <1>2, <1>5, <1>6 DEF IInv, Placed, Inj, TaskType
<1>9. Executing' /\ Admitting'
  <2>1. Executing'
    BY <1>1, <1>2, <1>5 DEF IInv, Executing, TaskType
  <2>2. Admitting'
    BY <1>1, <1>2, <1>5 DEF IInv, Admitting, TaskType
  <2> QED
    BY <2>1, <2>2
<1>10. Saving'
  BY <1>1, <1>2, <1>5, <1>6, StateFacts, SaveOps DEF IInv, Saving, Ending, TaskType
<1>11. Concluding'
  BY <1>1, ConcludedFrame, StateFacts DEF Concluding, Ending
<1>12. Versioned'
  BY <1>1, <1>6 DEF IInv, Versioned, Newest, Ending
<1>13. OneLiveRunPerKey' /\ RecordsMatchScheduler'
  BY <1>1, <1>6 DEF IInv, OneLiveRunPerKey, RecordsMatchScheduler
<1>14. NoLostWakeup'
  BY <1>1 DEF IInv, NoLostWakeup, Eligible, sched, dispatcher
<1> QED
  BY <1>4, <1>7, <1>8, <1>9, <1>10, <1>11, <1>12, <1>13, <1>14 DEF IInv

\* admit, a new run.
LEMMA EnqueueStep ==
  ASSUME IInv, NEW r \in Run, NEW c \in Client \cup {None}, Enqueue(r, c)
  PROVE  IInv'
<1>1. /\ sub[r] = "placed" /\ live[keyOf[r]] = None
      /\ sub' = [sub EXCEPT ![r] = "accepted"]
      /\ live' = [live EXCEPT ![keyOf[r]] = r]
      /\ queue' = Append(queue, r)
      /\ owners' = [owners EXCEPT ![r] = IF c = None THEN None ELSE {c}]
      /\ rec' = [rec EXCEPT ![r] = NewRecord]
      /\ version' = [version EXCEPT ![r] = 1]
      /\ kicks' = kicks + 1
      /\ UNCHANGED <<limit, drained, running, clearing, keyOf, exec, pend, closing, orphans,
                     clears, alive, nudges, saves, disk, written, pruning>>
      /\ UNCHANGED <<files, env>>
  BY DEF Enqueue, files, env
<1>2. SchedType /\ TaskType /\ SlotType /\ LoopType /\ FileType
  BY DEF IInv, TypeOK
<1>3. keyOf[r] \in Key /\ rec[r] = None /\ disk[r] = NewRecord /\ written[r] = 1
  BY <1>1 DEF IInv, Keyed, Admitting
<1>4. /\ r \notin Queued /\ r \notin running /\ r \notin closing /\ r \notin pruning
      /\ exec[r] = "idle" /\ ~Ending(r) /\ pend[r] = None
      /\ \A s \in Outstanding : s.run # r
  BY <1>1, OutsideFacts DEF IInv, Admitting
<1>5. /\ queue' \in Seq(Run) /\ Queued' = Queued \cup {r} /\ Inj(queue)'
      /\ Outstanding' = Outstanding
  <2>1. queue \in Seq(Run) /\ r \notin Elems(queue) /\ Inj(queue) /\ Queued = Elems(queue)
    BY <1>2, <1>4, StateFacts DEF SchedType
  <2>2. queue' \in Seq(Run) /\ Elems(queue') = Elems(queue) \cup {r} /\ Inj(queue')
    BY <1>1, <2>1, AppendList
  <2> QED
    BY <1>1, <2>1, <2>2 DEF Queued, Elems, Inj, Outstanding
<1>6. TypeOK'
  <2>1. SchedType'
    BY <1>1, <1>2, <1>5 DEF SchedType
  <2>2. TaskType'
    BY <1>1, <1>2 DEF TaskType
  <2>3. SlotType'
    BY <1>1, <1>2, NewRecordOps DEF SlotType
  <2>4. LoopType'
    BY <1>1, <1>2 DEF LoopType
  <2> QED
    BY <1>1, <2>1, <2>2, <2>3, <2>4, TypeFrame DEF IInv, TypeOK
<1>7. Keyed'
  BY <1>1, <1>2, <1>3 DEF IInv, Keyed, TaskType, SlotType
<1>8. Placed'
  <2>1. \A t \in closing : rec'[t] = rec[t]
    BY <1>1, <1>2, <1>4 DEF SlotType, TaskType
  <2> QED
    BY <1>1, <1>2, <1>4, <1>5, <2>1 DEF IInv, Placed, TaskType
<1>9. Executing' /\ Admitting'
  <2>1. Executing'
    BY <1>1, <1>2, <1>4 DEF IInv, Executing, TaskType
  <2>2. Admitting'
    BY <1>1, <1>2, <1>4 DEF IInv, Admitting, TaskType, SlotType
  <2> QED
    BY <2>1, <2>2
<1>10. Saving'
  BY <1>1, <1>2, <1>4, <1>5, StateFacts, SaveOps DEF IInv, Saving, Ending, TaskType
<1>11. Concluding'
  <2> SUFFICES ASSUME NEW t \in Run, Ending(t)' PROVE Concluded(t)'
    BY DEF Concluding
  <2>1. t # r /\ Ending(t)
    BY <1>1, <1>4 DEF Ending
  <2> QED
    BY <1>1, <1>2, <2>1, ConcludedFrame DEF SlotType, FileType
<1>12. Versioned'
  <2>1. ASSUME NEW t \in Run, t # r
        PROVE  rec'[t] = rec[t] /\ version'[t] = version[t] /\ Newest(t)' = Newest(t)
    BY <1>1, <1>2, <2>1, NewestFrame DEF SlotType
  <2>2. rec'[r] = NewRecord /\ version'[r] = 1 /\ Newest(r)' = NewRecord
    BY <1>1, <1>2, <1>4 DEF SlotType, Newest, Ending
  <2>3. NewRecord # None
    BY NewRecordOps, Constants
  <2>4. \A s \in Outstanding : s.run \in Run /\ s.run # r
    BY <1>4, StateFacts, SaveOps
  <2> QED
    BY <1>1, <1>3, <1>5, <2>1, <2>2, <2>3, <2>4 DEF IInv, Versioned
<1>13. OneLiveRunPerKey'
  BY <1>1, <1>2, <1>3, <1>4, <1>5, Constants DEF IInv, OneLiveRunPerKey, SchedType
<1>14. RecordsMatchScheduler'
  BY <1>1, <1>2, <1>4, <1>5, NewRecordOps, Constants, StateFacts DEF IInv, RecordsMatchScheduler, SlotType, SchedType
<1>15. NoLostWakeup'
  BY <1>1, <1>2 DEF NoLostWakeup, LoopType
<1> QED
  BY <1>6, <1>7, <1>8, <1>9, <1>10, <1>11, <1>12, <1>13, <1>14, <1>15 DEF IInv

\* A save that complete() or admit() waits for becomes due.
LEMMA PendAdds ==
  ASSUME IInv, NEW r \in Run, NEW save \in Save, pend[r] = None,
         pend' = [pend EXCEPT ![r] = save], saves' = saves
  PROVE  Outstanding' = Outstanding \cup {save}
<1>1. pend \in [Run -> Save \cup {None}] /\ None \notin Save
  BY Constants DEF IInv, TypeOK, TaskType
<1>2. pend'[r] = save /\ save # None /\ \A t \in Run \ {r} : pend'[t] = pend[t]
  BY <1>1
<1>3. ASSUME NEW s \in Outstanding' PROVE s \in Outstanding \cup {save}
  <2>1. s \in saves \/ \E t \in Run : pend'[t] # None /\ s = pend'[t]
    BY <1>3 DEF Outstanding
  <2> QED
    BY <2>1, <1>2 DEF Outstanding
<1>4. ASSUME NEW s \in Outstanding PROVE s \in Outstanding'
  <2>1. s \in saves \/ \E t \in Run : pend[t] # None /\ s = pend[t]
    BY <1>4 DEF Outstanding
  <2>2. s \in saves' \/ \E t \in Run : pend'[t] # None /\ s = pend'[t]
    BY <2>1, <1>2
  <2> QED
    BY <2>2 DEF Outstanding
<1>5. save \in Outstanding'
  BY <1>2 DEF Outstanding
<1> QED
  BY <1>3, <1>4, <1>5

\* Detached saves become due.
LEMMA SavesAdd ==
  ASSUME NEW T, pend' = pend, saves' = saves \cup T
  PROVE  Outstanding' = Outstanding \cup T
  BY DEF Outstanding

\* admit, coalesced.
LEMMA JoinStep ==
  ASSUME IInv, NEW r \in Run, NEW c \in Client \cup {None}, Join(r, c)
  PROVE  IInv'
<1>0. live[keyOf[r]] \in Run
  <2>1. keyOf[r] \in Key
    BY DEF Join, IInv, Keyed
  <2> QED
    BY <2>1, StateFacts DEF Join
<1> PICK e \in Run : e = live[keyOf[r]]
  BY <1>0
<1> DEFINE joined == [rec[e] EXCEPT !.submitters = @ + 1]
           save == Snapshot(e, joined)
<1>1. /\ sub[r] = "placed" /\ e = live[keyOf[r]] /\ e # None
      /\ sub' = [sub EXCEPT ![r] = "joined"]
      /\ owners' = [owners EXCEPT ![e] =
                      IF c = None \/ owners[e] = None THEN None ELSE owners[e] \cup {c}]
      /\ rec' = [rec EXCEPT ![e] = joined]
      /\ version' = [version EXCEPT ![e] = version[e] + 1]
      /\ pend' = [pend EXCEPT ![r] = save]
      /\ UNCHANGED <<queue, running, live, limit, drained, keyOf, exec, closing, orphans, clears>>
      /\ UNCHANGED <<saves, disk, written, pruning, kicks, alive, nudges>>
      /\ UNCHANGED <<sched, clearing, dispatcher, files, env>>
  BY DEF Join, sched, dispatcher, files, env
<1>2. SchedType /\ TaskType /\ SlotType /\ LoopType /\ FileType
  BY DEF IInv, TypeOK
<1>3. keyOf[r] \in Key /\ rec[r] = None
  BY <1>1 DEF IInv, Keyed, Admitting
<1>4. /\ r \notin Queued /\ r \notin running /\ r \notin closing /\ r \notin pruning
      /\ exec[r] = "idle" /\ ~Ending(r) /\ pend[r] = None
      /\ \A s \in Outstanding : s.run # r
  BY <1>1, OutsideFacts DEF IInv, Admitting
<1>5. e \in Run /\ e \in Queued \cup running /\ rec[e] \in Record /\ version[e] \in Nat
  BY <1>1, <1>3, StateFacts
<1>6. sub[e] = "accepted" /\ e # r /\ e \notin closing /\ e \notin pruning
  BY <1>1, <1>3, <1>4, <1>5, Constants DEF IInv, Placed, Admitting
<1>7. joined \in Record /\ joined.st = rec[e].st /\ joined.asked = rec[e].asked
      /\ joined.submitters = rec[e].submitters + 1 /\ joined # None
  BY <1>5, JoinedOps, Constants
<1>8. save \in Save /\ save.run = e /\ save.version = version[e] + 1 /\ save.rec = joined
  BY <1>5, <1>7, SaveOps
<1> HIDE DEF joined, save
<1>9. /\ \A t \in Run \ {e} : rec'[t] = rec[t] /\ version'[t] = version[t]
      /\ rec'[e] = joined /\ version'[e] = version[e] + 1
      /\ \A t \in Run \ {r} : pend'[t] = pend[t] /\ sub'[t] = sub[t]
      /\ pend'[r] = save /\ sub'[r] = "joined"
  BY <1>1, <1>2, <1>5 DEF SlotType, TaskType
<1>10. Queued' = Queued /\ Outstanding' = Outstanding \cup {save}
  BY <1>1, <1>4, <1>8, PendAdds DEF Queued
<1>11. TypeOK'
  <2>1. TaskType'
    BY <1>1, <1>2, <1>8 DEF TaskType
  <2>2. SlotType'
    <3>1. owners' \in [Run -> (SUBSET Client) \cup {None}]
      BY <1>1, <1>2, <1>5 DEF SlotType
    <3> QED
      BY <1>1, <1>2, <1>5, <1>7, <3>1 DEF SlotType
  <2> QED
    BY <1>1, <2>1, <2>2, TypeFrame DEF IInv, TypeOK
<1>12. Keyed'
  BY <1>1, <1>3, <1>5, <1>6, <1>9 DEF IInv, Keyed
<1>13. Placed'
  BY <1>1, <1>2, <1>4, <1>6, <1>9, <1>10 DEF IInv, Placed, Inj, TaskType
<1>14. Executing'
  BY <1>1, <1>4, <1>9 DEF IInv, Executing
<1>15. Admitting'
  BY <1>1, <1>2, <1>3, <1>4, <1>6, <1>9 DEF IInv, Admitting, FileType
<1>16. Saving'
  <2>1. \A s \in Outstanding' : sub'[s.run] = "accepted"
    BY <1>4, <1>6, <1>8, <1>9, <1>10, <1>5, StateFacts, SaveOps DEF IInv, Saving
  <2>2. \A t \in Run : pend'[t] # None <=> sub'[t] = "joined" \/ Ending(t)'
    BY <1>1, <1>8, <1>9, Constants DEF IInv, Saving, Ending
  <2> QED
    BY <2>1, <2>2 DEF Saving
<1>17. Concluding'
  <2> SUFFICES ASSUME NEW t \in Run, Ending(t)' PROVE Concluded(t)'
    BY DEF Concluding
  <2>1. Ending(t) /\ t # r /\ pend'[t] = pend[t] /\ exec'[t] = exec[t] /\ written'[t] = written[t]
    BY <1>1, <1>4, <1>9 DEF Ending
  <2>2. CASE t # e
    BY <1>9, <2>1, <2>2, ConcludedFrame, StateFacts
  <2>3. CASE t = e
    <3>1. /\ Concluded(e) /\ pend[e] \in Save /\ pend[e].version \in Nat /\ pend[e].rec \in Record
          /\ pend[e].rec.submitters \in Nat /\ rec[e].submitters \in Nat
          /\ pend[e].rec.end \in Ends \cup {None, "error", "cancelled"}
      <4>1. Concluded(e) /\ pend[e] \in Save
        BY <1>5, <2>1, <2>3, StateFacts DEF IInv, Concluding, Saving
      <4>2. pend[e].version \in Nat /\ pend[e].rec \in Record
        BY <4>1, SaveOps
      <4> QED
        BY <1>5, <4>1, <4>2, RecordFields
    <3>2. CASE version[e] = pend[e].version /\ Finished(rec[e], pend[e].rec.end) = pend[e].rec
      <4>1. pend[e].rec.submitters = rec[e].submitters
        BY <1>5, <3>1, <3>2, FinishedOps
      <4> QED
        BY <1>5, <1>7, <1>9, <2>1, <2>3, <3>1, <3>2, <4>1 DEF Concluded
    <3>3. CASE /\ version[e] > pend[e].version
               /\ \/ rec[e].submitters > pend[e].rec.submitters
                  \/ rec[e].asked /\ ~pend[e].rec.asked
      BY <1>5, <1>7, <1>9, <2>1, <2>3, <3>1, <3>3 DEF Concluded
    <3> QED
      BY <3>1, <3>2, <3>3 DEF Concluded
  <2> QED
    BY <2>2, <2>3
<1>18. Versioned'
  <2>1. ASSUME NEW t \in Run, t # e PROVE Newest(t)' = Newest(t)
    <3>1. Ending(t) => pend'[t] = pend[t]
      BY <1>4, <1>9
    <3> QED
      BY <1>1, <1>9, <2>1, <3>1, NewestFrame
  <2>2. rec[e] # None /\ Newest(e)' = joined
    BY <1>1, <1>5, <1>6, <1>9, NewestOvertakes, Constants
  <2>3. \A t \in Run \ {e} : version'[t] = version[t] /\ rec'[t] = rec[t]
                            /\ (rec[t] # None => Newest(t)' = Newest(t))
    BY <1>9, <2>1
  <2> QED
    BY <1>1, <1>8, <1>9, <1>10, <2>2, <2>3, NextVersion
<1>19. OneLiveRunPerKey' /\ RecordsMatchScheduler'
  <2>1. OneLiveRunPerKey'
    BY <1>1, <1>10 DEF IInv, OneLiveRunPerKey
  <2>2. RecordsMatchScheduler'
    BY <1>1, <1>2, <1>5, <1>7, <1>9, <1>10, StateFacts DEF IInv, RecordsMatchScheduler, SchedType
  <2> QED
    BY <2>1, <2>2
<1>20. NoLostWakeup'
  BY <1>1 DEF IInv, NoLostWakeup, Eligible
<1> QED
  BY <1>11, <1>12, <1>13, <1>14, <1>15, <1>16, <1>17, <1>18, <1>19, <1>20 DEF IInv

\* The copy a coalesced submission placed is dropped, the joined record saved.
LEMMA DropCopyStep ==
  ASSUME IInv, NEW r \in Run, DropCopy(r)
  PROVE  IInv'
<1>1. /\ sub[r] = "joined"
      /\ sub' = [sub EXCEPT ![r] = "dropped"]
      /\ disk' = [disk EXCEPT ![r] = None]
      /\ written' = [written EXCEPT ![r] = 0]
      /\ saves' = saves \cup {pend[r]}
      /\ pend' = [pend EXCEPT ![r] = None]
      /\ UNCHANGED <<queue, running, live, limit, drained, keyOf, exec, closing, orphans, clears>>
      /\ UNCHANGED <<rec, version, pruning, kicks, alive, nudges>>
      /\ UNCHANGED <<sched, slots, clearing, dispatcher, env>>
  BY DEF DropCopy, RemoveRun, sched, slots, dispatcher
<1>2. TaskType /\ FileType /\ SlotType
  BY DEF IInv, TypeOK
<1>3. /\ r \notin Queued /\ r \notin running /\ r \notin closing /\ r \notin pruning
      /\ exec[r] = "idle" /\ ~Ending(r) /\ rec[r] = None
      /\ pend[r] \in Save /\ pend[r] # None
      /\ \A s \in Outstanding : s.run # r
  BY <1>1, OutsideFacts, Constants DEF IInv, Admitting
<1>4. /\ \A t \in Run \ {r} : pend'[t] = pend[t] /\ sub'[t] = sub[t] /\ disk'[t] = disk[t]
                              /\ written'[t] = written[t]
      /\ pend'[r] = None /\ sub'[r] = "dropped" /\ disk'[r] = None /\ written'[r] = 0
  BY <1>1, <1>2 DEF TaskType, FileType
<1>5. Queued' = Queued
  BY <1>1 DEF Queued
<1>6. Outstanding' = Outstanding
  <2>1. ASSUME NEW s \in Outstanding' PROVE s \in Outstanding
    <3>1. s \in saves \/ s = pend[r] \/ \E t \in Run : pend'[t] # None /\ s = pend'[t]
      BY <1>1, <2>1 DEF Outstanding
    <3> QED
      BY <3>1, <1>3, <1>4 DEF Outstanding
  <2>2. ASSUME NEW s \in Outstanding PROVE s \in Outstanding'
    <3>1. s \in saves \/ \E t \in Run : pend[t] # None /\ s = pend[t]
      BY <2>2 DEF Outstanding
    <3>2. s \in saves' \/ \E t \in Run : pend'[t] # None /\ s = pend'[t]
      BY <3>1, <1>1, <1>4
    <3> QED
      BY <3>2 DEF Outstanding
  <2> QED
    BY <2>1, <2>2
<1>7. TypeOK'
  <2>1. TaskType'
    BY <1>1, <1>2 DEF TaskType
  <2>2. FileType'
    BY <1>1, <1>2, <1>3 DEF FileType
  <2> QED
    BY <1>1, <2>1, <2>2, TypeFrame DEF IInv, TypeOK
<1>8. Keyed'
  BY <1>1, <1>4 DEF IInv, Keyed
<1>9. Placed'
  BY <1>1, <1>2, <1>3, <1>4, <1>5 DEF IInv, Placed, Inj, TaskType
<1>10. Executing'
  BY <1>1, <1>3, <1>4 DEF IInv, Executing
<1>11. Admitting'
  BY <1>1, <1>2, <1>3, <1>4 DEF IInv, Admitting, FileType
<1>12. Saving'
  <2>1. \A s \in Outstanding' : sub'[s.run] = "accepted"
    BY <1>3, <1>4, <1>6, StateFacts, SaveOps DEF IInv, Saving
  <2>2. \A t \in Run : pend'[t] # None <=> sub'[t] = "joined" \/ Ending(t)'
    BY <1>1, <1>3, <1>4 DEF IInv, Saving, Ending
  <2> QED
    BY <2>1, <2>2 DEF Saving
<1>13. Concluding'
  <2> SUFFICES ASSUME NEW t \in Run, Ending(t)' PROVE Concluded(t)'
    BY DEF Concluding
  <2>1. t # r /\ Ending(t)
    BY <1>1, <1>3 DEF Ending
  <2> QED
    BY <1>1, <1>4, <2>1, ConcludedFrame, StateFacts
<1>14. Versioned'
  <2>1. ASSUME NEW t \in Run, rec[t] # None PROVE Newest(t)' = Newest(t) /\ t # r
    BY <1>1, <1>3, <1>4, <2>1, NewestFrame
  <2>2. \A s \in Outstanding : s.run \in Run
    BY StateFacts, SaveOps
  <2> QED
    BY <1>1, <1>4, <1>6, <2>1, <2>2 DEF IInv, Versioned
<1>15. OneLiveRunPerKey' /\ RecordsMatchScheduler'
  BY <1>1, <1>5 DEF IInv, OneLiveRunPerKey, RecordsMatchScheduler
<1>16. NoLostWakeup'
  BY <1>1 DEF IInv, NoLostWakeup, Eligible
<1> QED
  BY <1>7, <1>8, <1>9, <1>10, <1>11, <1>12, <1>13, <1>14, <1>15, <1>16 DEF IInv

-----------------------------------------------------------------------------
(* The dispatcher.                                                         *)

\* The running runs can be counted.
LEMMA RunningFinite ==
  ASSUME TypeOK
  PROVE  IsFiniteSet(running) /\ Cardinality(running) \in Nat
  BY CiAssumption, FS_Subset, FS_CardinalityType DEF TypeOK, SchedType

\* Scheduler::admit fills the limit, or empties the queue.
LEMMA AdmittedFacts ==
  ASSUME IInv
  PROVE  /\ Admitted \in 0 .. Len(queue)
         /\ drained \/ clearing => Admitted = 0
         /\ Admitted > 0 => Cardinality(running) + Admitted <= limit
         /\ ~drained /\ ~clearing =>
              Admitted = Len(queue) \/ Cardinality(running) + Admitted >= limit
<1>1. Cardinality(running) \in Nat /\ Len(queue) \in Nat /\ limit \in Nat
  BY RunningFinite, Constants DEF IInv, TypeOK, SchedType
<1> QED
  BY <1>1 DEF Admitted

\* dispatch, whoever calls it.
LEMMA DispatchCore ==
  ASSUME IInv, Dispatch
  PROVE  /\ SchedType' /\ SlotType' /\ TaskType' /\ FileType' /\ EnvType' /\ clearing' \in BOOLEAN
         /\ Keyed' /\ Placed' /\ Executing' /\ Admitting' /\ Saving' /\ Concluding' /\ Versioned'
         /\ OneLiveRunPerKey' /\ RecordsMatchScheduler' /\ ~Eligible'
<1> DEFINE now(r) == [rec[r] EXCEPT !.st = "running"]
<1>1. PICK n \in 0 .. Len(queue) : n = Admitted
  BY AdmittedFacts
<1>2. queue \in Seq(Run) /\ Inj(queue) /\ Queued = Elems(queue) /\ Queued \subseteq Run
  BY StateFacts DEF IInv, TypeOK, SchedType
<1>3. {queue[i] : i \in 1 .. n} \in SUBSET Run /\ {queue[i] : i \in 1 .. n} \subseteq Queued
  BY <1>2, DropList
<1>4. PICK S \in SUBSET Run : S = {queue[i] : i \in 1 .. n}
  BY <1>3
<1>5. /\ queue' = SubSeq(queue, n + 1, Len(queue))
      /\ running' = running \cup S
      /\ rec' = [r \in Run |-> IF r \in S THEN now(r) ELSE rec[r]]
      /\ version' = [r \in Run |-> IF r \in S THEN version[r] + 1 ELSE version[r]]
      /\ saves' = saves \cup {Snapshot(r, now(r)) : r \in S}
      /\ exec' = [r \in Run |-> IF r \in S THEN "work" ELSE exec[r]]
      /\ UNCHANGED <<limit, drained, live, owners, clearing, keyOf, sub, pend, closing, orphans>>
      /\ UNCHANGED <<clears, disk, written, pruning, env>>
  BY <1>1, <1>4 DEF Dispatch
<1>6. /\ queue' \in Seq(Run) /\ Len(queue') = Len(queue) - n /\ Inj(queue)'
      /\ Queued' = Queued \ S /\ S \subseteq Queued
  <2>1. /\ queue' \in Seq(Run) /\ Len(queue') = Len(queue) - n /\ Inj(queue')
        /\ Elems(queue') = Elems(queue) \ S /\ S \subseteq Elems(queue)
    BY <1>2, <1>4, <1>5, DropList
  <2> QED
    BY <1>2, <2>1 DEF Queued, Elems, Inj
<1>7. SchedType /\ TaskType /\ SlotType /\ FileType /\ EnvType
  BY DEF IInv, TypeOK
<1>8. \A r \in S : /\ rec[r] \in Record /\ rec[r] # None /\ version[r] \in Nat
                   /\ now(r) \in Record /\ now(r).st = "running" /\ now(r) # None
                   /\ Snapshot(r, now(r)) \in Save /\ Snapshot(r, now(r)).run = r
                   /\ Snapshot(r, now(r)).version = version[r] + 1
                   /\ Snapshot(r, now(r)).rec = now(r)
  <2> SUFFICES ASSUME NEW r \in S
               PROVE  /\ rec[r] \in Record /\ rec[r] # None /\ version[r] \in Nat
                      /\ now(r) \in Record /\ now(r).st = "running" /\ now(r) # None
                      /\ Snapshot(r, now(r)) \in Save /\ Snapshot(r, now(r)).run = r
                      /\ Snapshot(r, now(r)).version = version[r] + 1
                      /\ Snapshot(r, now(r)).rec = now(r)
    OBVIOUS
  <2>1. rec[r] \in Record /\ rec[r] # None /\ version[r] \in Nat
    BY <1>6, StateFacts, Constants
  <2>2. now(r) \in Record /\ now(r).st = "running" /\ now(r) # None
    BY <2>1, StartedOps, Constants
  <2> HIDE DEF now
  <2> QED
    BY <2>1, <2>2, SaveOps
<1>9. \A r \in S : /\ r \notin running /\ r \notin closing /\ r \notin pruning
                   /\ sub[r] = "accepted" /\ ~Ending(r) /\ pend[r] = None
  <2> SUFFICES ASSUME NEW r \in S
               PROVE  /\ r \notin running /\ r \notin closing /\ r \notin pruning
                      /\ sub[r] = "accepted" /\ ~Ending(r) /\ pend[r] = None
    OBVIOUS
  <2>1. r \notin running /\ r \notin closing /\ sub[r] = "accepted"
    BY <1>6 DEF IInv, Placed
  <2>2. r \notin pruning
    BY <1>8 DEF IInv, Admitting
  <2>3. ~Ending(r)
    BY <2>1 DEF IInv, Executing, Ending
  <2> QED
    BY <2>1, <2>2, <2>3 DEF IInv, Saving
<1> HIDE DEF now
<1>10. /\ \A t \in Run \ S : rec'[t] = rec[t] /\ version'[t] = version[t] /\ exec'[t] = exec[t]
       /\ \A t \in S : rec'[t] = now(t) /\ version'[t] = version[t] + 1 /\ exec'[t] = "work"
  BY <1>5
<1>11. Outstanding' = Outstanding \cup {Snapshot(r, now(r)) : r \in S}
  BY <1>5, SavesAdd
<1>12. SchedType' /\ TaskType' /\ SlotType' /\ FileType' /\ EnvType' /\ clearing' \in BOOLEAN
  <2>1. SchedType'
    BY <1>5, <1>6, <1>7 DEF SchedType
  <2>2. TaskType'
    BY <1>5, <1>7 DEF TaskType
  <2>3. SlotType'
    BY <1>5, <1>7, <1>8 DEF SlotType
  <2>4. FileType'
    BY <1>5, <1>7, <1>8 DEF FileType
  <2> QED
    BY <1>5, <1>7, <2>1, <2>2, <2>3, <2>4, TypeFrame DEF IInv, TypeOK
<1>13. Keyed'
  BY <1>5, <1>9, <1>10 DEF IInv, Keyed
<1>14. Placed'
  BY <1>5, <1>6, <1>7, <1>9, <1>10 DEF IInv, Placed, TaskType
<1>15. Executing'
  BY <1>5, <1>9, <1>10 DEF IInv, Executing
<1>16. Admitting'
  BY <1>5, <1>7, <1>9, <1>10 DEF IInv, Admitting, FileType
<1>17. Saving'
  <2>1. \A s \in Outstanding' : sub'[s.run] = "accepted"
    BY <1>5, <1>8, <1>9, <1>11 DEF IInv, Saving
  <2>2. \A t \in Run : pend'[t] # None <=> sub'[t] = "joined" \/ Ending(t)'
    BY <1>5, <1>9, <1>10 DEF IInv, Saving, Ending
  <2> QED
    BY <2>1, <2>2 DEF Saving
<1>18. Concluding'
  <2> SUFFICES ASSUME NEW t \in Run, Ending(t)' PROVE Concluded(t)'
    BY DEF Concluding
  <2>1. t \notin S /\ Ending(t)
    BY <1>10 DEF Ending
  <2> QED
    BY <1>5, <1>10, <2>1, ConcludedFrame, StateFacts
<1>19. Versioned'
  <2>1. ASSUME NEW t \in Run \ S
        PROVE  version'[t] = version[t] /\ rec'[t] = rec[t] /\ Newest(t)' = Newest(t)
    BY <1>5, <1>10, NewestFrame
  <2>2. ASSUME NEW t \in S PROVE Newest(t)' = now(t)
    BY <1>10 DEF Newest, Ending
  <2>3. \A s \in Outstanding' : s \in Save
    BY <1>8, <1>11, StateFacts
  <2>4. \A t \in S : version'[t] = version[t] + 1 /\ rec[t] # None
                     /\ \E s \in Outstanding' : s.run = t /\ s.version = version[t] + 1
    BY <1>8, <1>10, <1>11
  <2>5. \A s \in Outstanding' : \/ s \in Outstanding
                                \/ /\ s.run \in S /\ s.version = version[s.run] + 1
                                   /\ s.rec = Newest(s.run)'
    BY <1>8, <1>11, <2>2
  <2> QED
    BY <1>5, <1>11, <2>1, <2>3, <2>4, <2>5, NextVersions
<1>20. OneLiveRunPerKey'
  BY <1>5, <1>6 DEF IInv, OneLiveRunPerKey
<1>21. RecordsMatchScheduler'
  <2>1. ASSUME NEW t \in Queued' PROVE rec'[t] # None /\ rec'[t].st = "queued"
    BY <1>2, <1>6, <1>10, <2>1, Constants, StateFacts
  <2>2. ASSUME NEW t \in running' PROVE rec'[t] # None /\ rec'[t].st = "running"
    BY <1>5, <1>7, <1>8, <1>10, <2>2, Constants, StateFacts DEF SchedType
  <2>3. ASSUME NEW t \in Run, rec'[t] # None, rec'[t].st # "done"
        PROVE  t \in Queued' \cup running' \cup closing'
    BY <1>5, <1>6, <1>10, <2>3 DEF IInv, RecordsMatchScheduler
  <2> QED
    BY <2>1, <2>2, <2>3 DEF RecordsMatchScheduler
<1>22. ~Eligible'
  <2>1. ASSUME ~drained, ~clearing, n # Len(queue)
        PROVE  Cardinality(running') >= limit
    <3>1. Cardinality(running) + n >= limit
      BY <1>1, <2>1, AdmittedFacts
    <3>2. IsFiniteSet(S) /\ Cardinality(S) = n
      BY <1>2, <1>4, FirstCardinality
    <3>3. IsFiniteSet(running) /\ Cardinality(running) \in Nat
      BY RunningFinite DEF IInv, TypeOK
    <3>4. running \cap S = {}
      BY <1>9
    <3>5. Cardinality(running \cup S) = Cardinality(running) + n - Cardinality(running \cap S)
      BY <3>2, <3>3, FS_Union
    <3>6. Cardinality(running \cap S) = 0
      BY <3>4, FS_EmptySet
    <3> QED
      BY <1>5, <3>1, <3>3, <3>5, <3>6
  <2>2. n = Len(queue) => queue' = <<>>
    BY <1>2, <1>6, ListType
  <2>3. Cardinality(running') \in Nat /\ limit \in Nat
    <3>1. running' \subseteq Run
      BY <1>12 DEF SchedType
    <3> QED
      BY <3>1, <1>7, CiAssumption, Constants, FS_Subset, FS_CardinalityType DEF SchedType
  <2> QED
    BY <1>5, <2>1, <2>2, <2>3 DEF Eligible
<1> QED
  BY <1>12, <1>13, <1>14, <1>15, <1>16, <1>17, <1>18, <1>19, <1>20, <1>21, <1>22

\* The loop's own dispatch, and the one of a kick that finds the loop dead.
LEMMA DispatchStep ==
  ASSUME IInv, DispatcherStep \/ Recover
  PROVE  IInv'
<1>1. Dispatch /\ LoopType
  BY DEF DispatcherStep, Recover, IInv, TypeOK
<1>2. LoopType'
  <2>1. CASE DispatcherStep
    BY <1>1, <2>1, Constants DEF DispatcherStep, LoopType
  <2>2. CASE Recover
    <3>1. kicks' = kicks - 1 /\ kicks > 0 /\ alive' = TRUE /\ nudges' = 0
      BY <2>2 DEF Recover
    <3>2. kicks' \in Nat /\ nudges' \in 0 .. ChannelCap
      BY <1>1, <3>1, Constants DEF LoopType
    <3> QED
      BY <3>1, <3>2 DEF LoopType
  <2> QED
    BY <2>1, <2>2
<1> QED
  BY <1>1, <1>2, DispatchCore DEF IInv, TypeOK, NoLostWakeup

-----------------------------------------------------------------------------
(* Changes to one slot, each with a save of its own.                       *)

\* publish, cancel_because and its finish: the slot's record changes and a save
\* of the next version is spawned.  A change to a run that ends is a cancel
\* request, which complete() can tell from the record it saved.
LEMMA SlotUpdate ==
  ASSUME IInv, NEW r \in Run, NEW x \in Record,
         rec[r] \in Record, sub[r] = "accepted",
         rec' = [rec EXCEPT ![r] = x],
         version' = [version EXCEPT ![r] = version[r] + 1],
         saves' = saves \cup {Snapshot(r, x)},
         UNCHANGED <<queue, running, live, owners, keyOf, sub, exec, pend>>,
         UNCHANGED <<disk, written, pruning>>,
         Ending(r) => x.asked /\ ~rec[r].asked /\ x.submitters = rec[r].submitters
  PROVE  /\ SlotType' /\ FileType'
         /\ Keyed' /\ Executing' /\ Admitting' /\ Saving' /\ Concluding' /\ Versioned'
         /\ OneLiveRunPerKey'
         /\ Queued' = Queued /\ rec'[r] = x /\ x # None /\ rec[r] # None
         /\ \A t \in Run \ {r} : rec'[t] = rec[t]
<1>1. SlotType /\ FileType /\ TaskType
  BY DEF IInv, TypeOK
<1>2. version[r] \in Nat /\ x # None /\ rec[r] # None
  BY StateFacts, Constants
<1>3. PICK save \in Save : /\ save = Snapshot(r, x) /\ save.run = r
                           /\ save.version = version[r] + 1 /\ save.rec = x
  BY <1>2, SaveOps
<1>4. /\ \A t \in Run \ {r} : rec'[t] = rec[t] /\ version'[t] = version[t]
      /\ rec'[r] = x /\ version'[r] = version[r] + 1
  BY <1>1 DEF SlotType
<1>5. Queued' = Queued /\ Outstanding' = Outstanding \cup {save}
  BY <1>3, SavesAdd DEF Queued
<1>6. SlotType'
  BY <1>1, <1>2 DEF SlotType
<1>7. FileType'
  BY <1>1, <1>3 DEF FileType
<1>8. Keyed'
  BY <1>2, <1>4 DEF IInv, Keyed
<1>9. Executing'
  BY DEF IInv, Executing
<1>10. Admitting'
  <2>1. r \notin pruning
    BY <1>2 DEF IInv, Admitting
  <2> QED
    BY <1>1, <1>4, <2>1 DEF IInv, Admitting, FileType
<1>11. Saving'
  <2>1. \A s \in Outstanding' : sub'[s.run] = "accepted"
    BY <1>3, <1>5 DEF IInv, Saving
  <2>2. \A t \in Run : pend'[t] # None <=> sub'[t] = "joined" \/ Ending(t)'
    BY DEF IInv, Saving, Ending
  <2> QED
    BY <2>1, <2>2 DEF Saving
<1>12. Concluding'
  <2> SUFFICES ASSUME NEW t \in Run, Ending(t)' PROVE Concluded(t)'
    BY DEF Concluding
  <2>1. Ending(t)
    BY DEF Ending
  <2>2. CASE t # r
    BY <1>4, <2>1, <2>2, ConcludedFrame, StateFacts
  <2>3. CASE t = r
    <3>1. /\ Concluded(r) /\ pend[r] \in Save
          /\ x.asked /\ ~rec[r].asked /\ x.submitters = rec[r].submitters
      BY <2>1, <2>3, StateFacts DEF IInv, Concluding, Saving
    <3>2. pend[r].version \in Nat /\ pend[r].rec \in Record
      BY <3>1, SaveOps
    <3>3. pend[r].rec.end \in Ends \cup {None, "error", "cancelled"}
      BY <3>2, RecordFields
    <3>4. /\ version[r] >= pend[r].version
          /\ rec'[r].submitters > pend[r].rec.submitters \/ (rec'[r].asked /\ ~pend[r].rec.asked)
      <4>1. CASE version[r] = pend[r].version /\ Finished(rec[r], pend[r].rec.end) = pend[r].rec
        <5>1. pend[r].rec.asked = rec[r].asked
          BY <3>3, <4>1, FinishedOps
        <5> QED
          BY <1>2, <1>4, <3>1, <4>1, <5>1
      <4>2. CASE /\ version[r] > pend[r].version
                 /\ \/ rec[r].submitters > pend[r].rec.submitters
                    \/ rec[r].asked /\ ~pend[r].rec.asked
        BY <1>2, <1>4, <3>1, <3>2, <4>2
      <4> QED
        BY <3>1, <4>1, <4>2 DEF Concluded
    <3>5. version'[r] > pend'[r].version
      BY <1>2, <1>4, <3>2, <3>4
    <3> QED
      BY <2>3, <3>1, <3>4, <3>5 DEF Concluded
  <2> QED
    BY <2>2, <2>3
<1>13. Versioned'
  <2>1. ASSUME NEW t \in Run, t # r PROVE Newest(t)' = Newest(t)
    BY <1>4, <2>1, NewestFrame
  <2>2. Newest(r)' = x
    BY <1>2, <1>4, NewestOvertakes
  <2>3. \A t \in Run \ {r} : version'[t] = version[t] /\ rec'[t] = rec[t]
                            /\ (rec[t] # None => Newest(t)' = Newest(t))
    BY <1>4, <2>1
  <2> QED
    BY <1>2, <1>3, <1>4, <1>5, <2>2, <2>3, NextVersion
<1>14. OneLiveRunPerKey'
  BY <1>5 DEF IInv, OneLiveRunPerKey
<1> QED
  BY <1>2, <1>4, <1>5, <1>6, <1>7, <1>8, <1>9, <1>10, <1>11, <1>12, <1>13, <1>14

\* RunObserver::publish.
LEMMA PublishStep ==
  ASSUME IInv, NEW r \in Run, Publish(r)
  PROVE  IInv'
<1> DEFINE next == [rec[r] EXCEPT !.log = @ + 1]
<1>1. /\ exec[r] = "work" /\ rec[r].log < MaxLog
      /\ rec' = [rec EXCEPT ![r] = next]
      /\ saves' = saves \cup {Snapshot(r, next)}
      /\ version' = [version EXCEPT ![r] = version[r] + 1]
      /\ UNCHANGED <<queue, running, live, owners, keyOf, sub, exec, pend>>
      /\ UNCHANGED <<disk, written, pruning>>
      /\ UNCHANGED <<closing, limit, drained, alive, nudges, kicks>>
      /\ UNCHANGED <<sched, clearing, tasks, dispatcher, env>>
  BY DEF Publish, sched, tasks, dispatcher
<1>2. r \in running /\ r \notin Queued /\ r \notin closing /\ sub[r] = "accepted" /\ ~Ending(r)
  BY <1>1 DEF IInv, Executing, Placed, Ending
<1>3. rec[r] \in Record /\ rec[r].st = "running"
  BY <1>2, StateFacts
<1>4. next \in Record /\ next.st = "running"
  BY <1>1, <1>3, LoggedOps
<1> HIDE DEF next
<1>5. /\ SlotType' /\ FileType'
      /\ Keyed' /\ Executing' /\ Admitting' /\ Saving' /\ Concluding' /\ Versioned'
      /\ OneLiveRunPerKey'
      /\ Queued' = Queued /\ rec'[r] = next /\ next # None
      /\ \A t \in Run \ {r} : rec'[t] = rec[t]
  BY <1>1, <1>2, <1>3, <1>4, SlotUpdate
<1>6. TypeOK'
  BY <1>1, <1>5, TypeFrame DEF IInv, TypeOK
<1>7. Placed'
  <2>1. \A t \in closing : rec'[t] = rec[t]
    BY <1>2, <1>5 DEF IInv, TypeOK, TaskType
  <2> QED
    BY <1>1, <1>5, <2>1 DEF IInv, Placed, Inj
<1>8. RecordsMatchScheduler'
  BY <1>1, <1>2, <1>4, <1>5, StateFacts DEF IInv, RecordsMatchScheduler, TypeOK, SchedType
<1>9. NoLostWakeup'
  BY <1>1 DEF IInv, NoLostWakeup, Eligible
<1> QED
  BY <1>5, <1>6, <1>7, <1>8, <1>9 DEF IInv

\* The record of a dequeued run is finished.
LEMMA FinishCancelledStep ==
  ASSUME IInv, NEW r \in Run, FinishCancelled(r)
  PROVE  IInv'
<1> DEFINE done == Finished(rec[r], "cancelled")
<1>1. /\ r \in closing /\ closing' = closing \ {r}
      /\ rec' = [rec EXCEPT ![r] = done]
      /\ saves' = saves \cup {Snapshot(r, done)}
      /\ version' = [version EXCEPT ![r] = version[r] + 1]
      /\ UNCHANGED <<queue, running, live, owners, keyOf, sub, exec, pend>>
      /\ UNCHANGED <<disk, written, pruning>>
      /\ UNCHANGED <<orphans, clears, limit, drained, alive, nudges, kicks>>
      /\ UNCHANGED <<sched, clearing, dispatcher, env>>
  BY DEF FinishCancelled, sched, dispatcher
<1>2. r \notin running /\ r \notin Queued /\ sub[r] = "accepted" /\ ~Ending(r)
  BY <1>1 DEF IInv, Executing, Placed, Ending
<1>3. rec[r] \in Record
  BY <1>1, StateFacts
<1>4. done \in Record /\ done.st = "done"
  BY <1>3, FinishedOps
<1> HIDE DEF done
<1>5. /\ SlotType' /\ FileType'
      /\ Keyed' /\ Executing' /\ Admitting' /\ Saving' /\ Concluding' /\ Versioned'
      /\ OneLiveRunPerKey'
      /\ Queued' = Queued /\ rec'[r] = done /\ done # None
      /\ \A t \in Run \ {r} : rec'[t] = rec[t]
  BY <1>1, <1>2, <1>3, <1>4, SlotUpdate
<1>6. TypeOK'
  <2>1. TaskType'
    BY <1>1 DEF IInv, TypeOK, TaskType
  <2> QED
    BY <1>1, <1>5, <2>1, TypeFrame DEF IInv, TypeOK
<1>7. Placed'
  <2>1. \A t \in closing' : t \in closing /\ rec'[t] = rec[t]
    BY <1>1, <1>5 DEF IInv, TypeOK, TaskType
  <2> QED
    BY <1>1, <1>5, <2>1 DEF IInv, Placed, Inj
<1>8. RecordsMatchScheduler'
  BY <1>1, <1>2, <1>4, <1>5, StateFacts DEF IInv, RecordsMatchScheduler, TypeOK, SchedType
<1>9. NoLostWakeup'
  BY <1>1 DEF IInv, NoLostWakeup, Eligible
<1> QED
  BY <1>5, <1>6, <1>7, <1>8, <1>9 DEF IInv

\* cancel_because of a run that is not queued.
LEMMA RequestCancelFacts ==
  ASSUME IInv, NEW r \in Run, RequestCancel(r),
         UNCHANGED <<keyOf, sub, exec, pend, disk, written, pruning>>
  PROVE  /\ SlotType' /\ FileType'
         /\ Keyed' /\ Executing' /\ Admitting' /\ Saving' /\ Concluding' /\ Versioned'
         /\ OneLiveRunPerKey' /\ RecordsMatchScheduler' /\ Placed'
<1>1. /\ r \notin Queued
      /\ UNCHANGED <<queue, running, live, owners, closing>>
      /\ UNCHANGED <<keyOf, sub, exec, pend, disk, written, pruning>>
  BY DEF RequestCancel, sched
<1>2. CASE rec[r] # None /\ rec[r].st = "running" /\ ~rec[r].asked
  <2> DEFINE asked == [rec[r] EXCEPT !.asked = TRUE]
  <2>1. /\ rec' = [rec EXCEPT ![r] = asked]
        /\ version' = [version EXCEPT ![r] = version[r] + 1]
        /\ saves' = saves \cup {Snapshot(r, asked)}
    BY <1>2 DEF RequestCancel
  <2>2. rec[r] \in Record
    BY <1>2, StateFacts
  <2>3. r \in running /\ r \notin closing /\ sub[r] = "accepted"
    <3>1. r \notin closing
      BY <1>2, StateFacts
    <3>2. r \in running
      BY <1>1, <1>2, <3>1 DEF IInv, RecordsMatchScheduler
    <3> QED
      BY <3>1, <3>2 DEF IInv, Placed
  <2>4. asked \in Record /\ asked.st = "running" /\ asked.asked
        /\ asked.submitters = rec[r].submitters
    BY <1>2, <2>2, AskedOps
  <2> HIDE DEF asked
  <2>5. /\ SlotType' /\ FileType'
        /\ Keyed' /\ Executing' /\ Admitting' /\ Saving' /\ Concluding' /\ Versioned'
        /\ OneLiveRunPerKey'
        /\ Queued' = Queued /\ rec'[r] = asked /\ asked # None
        /\ \A t \in Run \ {r} : rec'[t] = rec[t]
    BY <1>1, <1>2, <2>1, <2>2, <2>3, <2>4, SlotUpdate
  <2>6. Placed'
    <3>1. \A t \in closing : rec'[t] = rec[t]
      BY <2>3, <2>5 DEF IInv, TypeOK, TaskType
    <3> QED
      BY <1>1, <2>5, <3>1 DEF IInv, Placed, Inj
  <2>7. RecordsMatchScheduler'
    BY <1>1, <2>3, <2>4, <2>5, StateFacts DEF IInv, RecordsMatchScheduler, TypeOK, SchedType
  <2> QED
    BY <2>5, <2>6, <2>7
<1>3. CASE ~(rec[r] # None /\ rec[r].st = "running" /\ ~rec[r].asked)
  <2>1. UNCHANGED <<rec, version, saves>>
    BY <1>3 DEF RequestCancel
  <2>2. UNCHANGED slots /\ UNCHANGED files
    BY <1>1, <2>1 DEF slots, files
  <2>3. SlotType' /\ FileType'
    BY <2>2, TypeFrame DEF IInv
  <2> QED
    BY <1>1, <2>1, <2>3, CoreFrame
<1> QED
  BY <1>2, <1>3

-----------------------------------------------------------------------------
(* Scheduler::finish.                                                      *)

\* A run leaves the scheduler and frees its key; every other run stays where it is.
LEMMA FinishFacts ==
  ASSUME IInv, NEW r \in Run, Finish(r), UNCHANGED keyOf
  PROVE  /\ SchedType' /\ OneLiveRunPerKey' /\ Inj(queue)'
         /\ Queued' = Queued \ {r} /\ running' = running \ {r}
         /\ r \notin Queued => queue' = queue
<1>1. /\ running' = running \ {r} /\ queue' = Without(queue, r)
      /\ live' = [k \in Key |-> IF live[k] = r THEN None ELSE live[k]]
      /\ UNCHANGED <<limit, drained>>
  BY DEF Finish
<1>2. SchedType /\ queue \in Seq(Run) /\ Inj(queue) /\ Queued = Elems(queue)
  BY StateFacts DEF IInv, TypeOK, SchedType
<1>3. /\ queue' \in Seq(Run) /\ Elems(queue') = Elems(queue) \ {r} /\ Inj(queue')
      /\ r \notin Elems(queue) => queue' = queue
  BY <1>1, <1>2, WithoutList
<1>4. Queued' = Queued \ {r} /\ Inj(queue)'
  BY <1>2, <1>3 DEF Queued, Elems, Inj
<1>5. SchedType'
  BY <1>1, <1>2, <1>3 DEF SchedType
<1>6. OneLiveRunPerKey'
  <2> SUFFICES ASSUME NEW k \in Key, NEW t \in Run
               PROVE  live'[k] = t <=> (t \in Queued' \cup running' /\ keyOf'[t] = k)
    BY DEF OneLiveRunPerKey
  <2>1. live[k] = t <=> (t \in Queued \cup running /\ keyOf[t] = k)
    BY DEF IInv, OneLiveRunPerKey
  <2>2. live'[k] = IF live[k] = r THEN None ELSE live[k]
    BY <1>1
  <2>3. t # None
    BY Constants
  <2>4. live'[k] = t <=> live[k] = t /\ t # r
    BY <2>2, <2>3
  <2> QED
    BY <1>1, <1>4, <2>1, <2>4
<1> QED
  BY <1>1, <1>2, <1>3, <1>4, <1>5, <1>6

\* cancel_because of a queued run.
LEMMA DequeueFacts ==
  ASSUME IInv, NEW r \in Run, Dequeue(r),
         UNCHANGED <<rec, version, saves, keyOf, sub, exec, pend, disk, written, pruning>>
  PROVE  /\ SchedType' /\ SlotType' /\ FileType' /\ closing' \subseteq Run
         /\ Keyed' /\ Executing' /\ Admitting' /\ Saving' /\ Concluding' /\ Versioned'
         /\ OneLiveRunPerKey' /\ RecordsMatchScheduler' /\ Placed'
         /\ running' = running /\ UNCHANGED <<limit, drained>>
         /\ queue # <<>>
<1>1. /\ r \in Queued /\ Finish(r) /\ closing' = closing \cup {r}
      /\ owners' = [owners EXCEPT ![r] = None]
      /\ UNCHANGED <<limit, drained>>
  BY DEF Dequeue, Finish, Forget
<1>2. r \notin running /\ r \notin closing /\ sub[r] = "accepted" /\ rec[r] # None
      /\ rec[r].st = "queued"
  BY <1>1 DEF IInv, Placed, RecordsMatchScheduler
<1>3. /\ SchedType' /\ OneLiveRunPerKey' /\ Inj(queue)'
      /\ Queued' = Queued \ {r} /\ running' = running
  BY <1>1, <1>2, FinishFacts
<1>4. SlotType' /\ FileType' /\ closing' \subseteq Run
  <2>1. SlotType'
    BY <1>1 DEF IInv, TypeOK, SlotType
  <2>2. FileType'
    BY DEF IInv, TypeOK, FileType
  <2>3. closing' \subseteq Run
    BY <1>1 DEF IInv, TypeOK, TaskType
  <2> QED
    BY <2>1, <2>2, <2>3
<1>5. Outstanding' = Outstanding
  BY DEF Outstanding
<1>6. Keyed' /\ Saving' /\ Executing'
  BY <1>3, <1>5 DEF IInv, Keyed, Saving, Ending, Executing
<1>7. Admitting'
  BY DEF IInv, Admitting, NewRecord
<1>8. Concluding'
  BY DEF IInv, Concluding, Concluded, Ending, Finished
<1>9. Versioned'
  BY <1>5 DEF IInv, Versioned, Newest, Ending
<1>10. RecordsMatchScheduler'
  BY <1>1, <1>3 DEF IInv, RecordsMatchScheduler
<1>11. Placed'
  BY <1>1, <1>2, <1>3 DEF IInv, Placed
<1>12. queue # <<>>
  <2>1. Elems(queue) # {}
    BY <1>1, StateFacts
  <2> QED
    BY <2>1, EmptyList
<1> QED
  BY <1>1, <1>3, <1>4, <1>6, <1>7, <1>8, <1>9, <1>10, <1>11, <1>12

\* A cancel, whoever asks for it, takes nothing from what the dispatcher owes.
LEMMA CancelWakeup ==
  ASSUME IInv, NEW r \in Run, CancelBecause(r), UNCHANGED clearing, UNCHANGED dispatcher,
         UNCHANGED keyOf
  PROVE  NoLostWakeup'
<1>1. CASE Dequeue(r)
  <2>1. r \in Queued /\ Finish(r) /\ UNCHANGED <<limit, drained, clearing, kicks, alive, nudges>>
    BY <1>1 DEF Dequeue, Finish, dispatcher
  <2>2. running' = running
    BY <2>1, FinishFacts DEF IInv, Placed
  <2>3. queue # <<>>
    <3>1. Elems(queue) # {}
      BY <2>1, StateFacts
    <3> QED
      BY <3>1, EmptyList
  <2> QED
    BY <2>1, <2>2, <2>3 DEF IInv, NoLostWakeup, Eligible
<1>2. CASE RequestCancel(r)
  BY <1>2 DEF IInv, NoLostWakeup, Eligible, RequestCancel, sched, dispatcher
<1> QED
  BY <1>1, <1>2 DEF CancelBecause

\* cancel_because, in either of its two forms.
LEMMA CancelBecauseFacts ==
  ASSUME IInv, NEW r \in Run, CancelBecause(r),
         UNCHANGED <<keyOf, sub, exec, pend, disk, written, pruning>>
  PROVE  /\ SchedType' /\ SlotType' /\ FileType' /\ closing' \subseteq Run
         /\ Keyed' /\ Executing' /\ Admitting' /\ Saving' /\ Concluding' /\ Versioned'
         /\ OneLiveRunPerKey' /\ RecordsMatchScheduler' /\ Placed'
<1>1. CASE Dequeue(r) /\ UNCHANGED <<rec, version, saves>>
  BY <1>1, DequeueFacts
<1>2. CASE RequestCancel(r)
  <2>1. SchedType'
    BY <1>2, TypeFrame DEF RequestCancel, IInv
  <2>2. closing' \subseteq Run
    BY <1>2 DEF RequestCancel, IInv, TypeOK, TaskType
  <2> QED
    BY <1>2, <2>1, <2>2, RequestCancelFacts
<1> QED
  BY <1>1, <1>2 DEF CancelBecause

\* cancel: a client's request.
LEMMA CancelStep ==
  ASSUME IInv, NEW r \in Run, Cancel(r)
  PROVE  IInv'
<1>1. /\ CancelBecause(r) /\ Event
      /\ UNCHANGED <<keyOf, sub, exec, pend, disk, written, pruning>>
      /\ UNCHANGED <<clearing, orphans, clears, dispatcher, gone>>
  BY DEF Cancel
<1>2. /\ SchedType' /\ SlotType' /\ FileType' /\ closing' \subseteq Run
      /\ Keyed' /\ Executing' /\ Admitting' /\ Saving' /\ Concluding' /\ Versioned'
      /\ OneLiveRunPerKey' /\ RecordsMatchScheduler' /\ Placed'
  BY <1>1, CancelBecauseFacts
<1>3. NoLostWakeup'
  BY <1>1, CancelWakeup
<1>4. TypeOK'
  <2>1. TaskType'
    BY <1>1, <1>2 DEF IInv, TypeOK, TaskType
  <2>2. EnvType'
    BY <1>1 DEF IInv, TypeOK, EnvType, Event
  <2> QED
    BY <1>1, <1>2, <2>1, <2>2, TypeFrame DEF IInv, TypeOK
<1> QED
  BY <1>2, <1>3, <1>4 DEF IInv

\* The cancel of a run whose owners are gone.
LEMMA CancelOrphanedStep ==
  ASSUME IInv, NEW r \in Run, CancelOrphaned(r)
  PROVE  IInv'
<1>1. /\ CancelBecause(r) /\ orphans' = orphans \ {r}
      /\ UNCHANGED <<keyOf, sub, exec, pend, disk, written, pruning>>
      /\ UNCHANGED <<clearing, clears, dispatcher, env>>
  BY DEF CancelOrphaned
<1>2. /\ SchedType' /\ SlotType' /\ FileType' /\ closing' \subseteq Run
      /\ Keyed' /\ Executing' /\ Admitting' /\ Saving' /\ Concluding' /\ Versioned'
      /\ OneLiveRunPerKey' /\ RecordsMatchScheduler' /\ Placed'
  BY <1>1, CancelBecauseFacts
<1>3. NoLostWakeup'
  BY <1>1, CancelWakeup
<1>4. TypeOK'
  <2>1. TaskType'
    BY <1>1, <1>2 DEF IInv, TypeOK, TaskType
  <2> QED
    BY <1>1, <1>2, <2>1, TypeFrame DEF IInv, TypeOK
<1> QED
  BY <1>2, <1>3, <1>4 DEF IInv

-----------------------------------------------------------------------------
(* complete() and the writer.                                              *)

\* complete() takes its snapshot: the conclusion is the newest version.
LEMMA CompleteStep ==
  ASSUME IInv, NEW r \in Run, NEW end \in Ends \cup {"cancelled"}, Complete(r, end)
  PROVE  IInv'
<1> DEFINE done == Finished(rec[r], end)
<1>1. /\ exec[r] = "work"
      /\ pend' = [pend EXCEPT ![r] = Snapshot(r, done)]
      /\ version' = [version EXCEPT ![r] = version[r] + 1]
      /\ exec' = [exec EXCEPT ![r] = "saving"]
      /\ UNCHANGED <<queue, running, live, limit, drained, keyOf, sub, rec, owners, closing>>
      /\ UNCHANGED <<orphans, clears, saves, disk, written, pruning, kicks, alive, nudges>>
      /\ UNCHANGED <<sched, clearing, dispatcher, files, env>>
  BY DEF Complete, sched, dispatcher, files
<1>2. TaskType /\ SlotType /\ FileType
  BY DEF IInv, TypeOK
<1>3. r \in running /\ sub[r] = "accepted" /\ ~Ending(r) /\ pend[r] = None
  <2>1. r \in running /\ sub[r] = "accepted" /\ ~Ending(r)
    BY <1>1 DEF IInv, Executing, Ending
  <2> QED
    BY <2>1 DEF IInv, Saving
<1>4. rec[r] \in Record /\ rec[r] # None /\ version[r] \in Nat
  BY <1>3, StateFacts, Constants
<1>5. done \in Record /\ done.st = "done" /\ done.end = end
  BY <1>4, FinishedOps
<1>6. PICK save \in Save : /\ save = Snapshot(r, done) /\ save.run = r
                           /\ save.version = version[r] + 1 /\ save.rec = done
  BY <1>4, <1>5, SaveOps
<1>7. Finished(rec[r], save.rec.end) = save.rec
  BY <1>5, <1>6
<1> HIDE DEF done
<1>8. /\ \A t \in Run \ {r} : pend'[t] = pend[t] /\ version'[t] = version[t] /\ exec'[t] = exec[t]
      /\ pend'[r] = save /\ version'[r] = version[r] + 1 /\ exec'[r] = "saving"
  BY <1>1, <1>2, <1>6 DEF TaskType, SlotType
<1>9. Queued' = Queued /\ Outstanding' = Outstanding \cup {save}
  BY <1>1, <1>3, <1>6, PendAdds DEF Queued
<1>10. TypeOK'
  <2>1. TaskType'
    BY <1>1, <1>2, <1>6 DEF TaskType
  <2>2. SlotType'
    BY <1>1, <1>2, <1>4 DEF SlotType
  <2> QED
    BY <1>1, <2>1, <2>2, TypeFrame DEF IInv, TypeOK
<1>11. Keyed' /\ OneLiveRunPerKey' /\ RecordsMatchScheduler'
  BY <1>1, <1>9 DEF IInv, Keyed, OneLiveRunPerKey, RecordsMatchScheduler
<1>12. Placed'
  BY <1>1, <1>9 DEF IInv, Placed, Inj
<1>13. Executing'
  BY <1>1, <1>3, <1>8 DEF IInv, Executing
<1>14. Admitting'
  BY <1>1 DEF IInv, Admitting, NewRecord
<1>15. Saving'
  <2>1. \A s \in Outstanding' : sub'[s.run] = "accepted"
    BY <1>1, <1>3, <1>6, <1>9 DEF IInv, Saving
  <2>2. \A t \in Run : pend'[t] # None <=> sub'[t] = "joined" \/ Ending(t)'
    BY <1>1, <1>8, Constants DEF IInv, Saving, Ending
  <2> QED
    BY <2>1, <2>2 DEF Saving
<1>16. Concluding'
  <2> SUFFICES ASSUME NEW t \in Run, Ending(t)' PROVE Concluded(t)'
    BY DEF Concluding
  <2>1. CASE t # r
    <3>1. Ending(t)
      BY <1>8, <2>1 DEF Ending
    <3> QED
      BY <1>1, <1>8, <2>1, <3>1, ConcludedFrame, StateFacts
  <2>2. CASE t = r
    <3>1. pend'[r].run = r /\ pend'[r].rec.st = "done" /\ version'[r] = pend'[r].version
      BY <1>5, <1>6, <1>8
    <3>2. Finished(rec[r], pend[r].rec.end)' = pend'[r].rec
      BY <1>1, <1>7, <1>8 DEF Finished
    <3>3. exec'[r] # "saved"
      BY <1>8
    <3> QED
      BY <2>2, <3>1, <3>2, <3>3 DEF Concluded
  <2> QED
    BY <2>1, <2>2
<1>17. Versioned'
  <2>1. ASSUME NEW t \in Run, t # r PROVE Newest(t)' = Newest(t)
    BY <1>1, <1>8, <2>1, NewestFrame
  <2>2. Newest(r)' = done
    BY <1>6, <1>8 DEF Newest, Ending
  <2>3. \A t \in Run \ {r} : version'[t] = version[t] /\ rec'[t] = rec[t]
                            /\ (rec[t] # None => Newest(t)' = Newest(t))
    BY <1>1, <1>8, <2>1
  <2> QED
    BY <1>1, <1>4, <1>6, <1>8, <1>9, <2>2, <2>3, NextVersion
<1>18. NoLostWakeup'
  BY <1>1 DEF IInv, NoLostWakeup, Eligible
<1> QED
  BY <1>10, <1>11, <1>12, <1>13, <1>14, <1>15, <1>16, <1>17, <1>18 DEF IInv

\* complete()'s save ran.
LEMMA CompleteSavedStep ==
  ASSUME IInv, NEW r \in Run, CompleteSaved(r)
  PROVE  IInv'
<1>1. /\ exec[r] = "saving" /\ exec' = [exec EXCEPT ![r] = "saved"] /\ Write(pend[r])
      /\ UNCHANGED <<queue, running, live, limit, drained, keyOf, sub, rec, version, pend, closing>>
      /\ UNCHANGED <<orphans, clears, saves, pruning, kicks, alive, nudges>>
      /\ UNCHANGED <<sched, slots, clearing, dispatcher, env>>
  BY DEF CompleteSaved, sched, slots, dispatcher
<1>2. TaskType /\ FileType
  BY DEF IInv, TypeOK
<1>3. /\ r \in running /\ sub[r] = "accepted" /\ Ending(r) /\ pend[r] # None /\ pend[r] \in Outstanding
      /\ pend[r].run = r /\ Concluded(r)
  <2>1. r \in running /\ sub[r] = "accepted" /\ Ending(r)
    BY <1>1 DEF IInv, Executing, Ending
  <2> QED
    BY <2>1 DEF IInv, Saving, Outstanding, Concluding, Concluded
<1>4. disk[r] # None
  BY <1>3 DEF IInv, RecordsMatchScheduler, Versioned
<1>5. saves' \subseteq Save /\ UNCHANGED pruning
  BY <1>1, <1>2 DEF FileType
<1>6. /\ FileType'
      /\ \A t \in Run : disk'[t] = None <=> disk[t] = None
      /\ \A t \in Run : sub[t] # "accepted" => disk'[t] = disk[t] /\ written'[t] = written[t]
      /\ \A t \in Run : written'[t] >= written[t]
      /\ written'[r] >= pend[r].version
  BY <1>1, <1>3, <1>4, <1>5, WriteFacts
<1>7. /\ \A t \in Run \ {r} : exec'[t] = exec[t]
      /\ exec'[r] = "saved"
  BY <1>1, <1>2 DEF TaskType
<1>8. Queued' = Queued /\ Outstanding' = Outstanding /\ \A t \in Run : Ending(t)' <=> Ending(t)
  BY <1>1, <1>7 DEF Queued, Outstanding, Ending
<1>9. TypeOK'
  <2>1. TaskType'
    BY <1>1, <1>2 DEF TaskType
  <2> QED
    BY <1>1, <1>6, <2>1, TypeFrame DEF IInv, TypeOK
<1>10. Keyed' /\ OneLiveRunPerKey' /\ RecordsMatchScheduler'
  BY <1>1, <1>6, <1>8 DEF IInv, Keyed, OneLiveRunPerKey, RecordsMatchScheduler
<1>11. Placed'
  BY <1>1, <1>8 DEF IInv, Placed, Inj
<1>12. Executing'
  BY <1>1, <1>3, <1>7 DEF IInv, Executing
<1>13. Admitting'
  BY <1>1, <1>6 DEF IInv, Admitting, NewRecord
<1>14. Saving'
  BY <1>1, <1>8 DEF IInv, Saving
<1>15. Concluding'
  <2> SUFFICES ASSUME NEW t \in Run, Ending(t)' PROVE Concluded(t)'
    BY DEF Concluding
  <2>1. CASE t # r
    <3>1. Ending(t) /\ written'[t] \in Nat
      BY <1>6, <1>8, <2>1 DEF FileType
    <3> QED
      BY <1>1, <1>6, <1>7, <2>1, <3>1, ConcludedFrame
  <2>2. CASE t = r
    BY <1>1, <1>3, <1>6, <2>2 DEF Concluded, Finished
  <2> QED
    BY <2>1, <2>2
<1>16. Versioned'
  <2>1. ASSUME NEW t \in Run PROVE Newest(t)' = Newest(t)
    BY <1>1, <1>8 DEF Newest
  <2>2. \A s \in Outstanding : s \in Outstanding' \/ s = pend[r]
    BY <1>8
  <2> QED
    BY <1>1, <1>3, <1>8, <2>1, <2>2, WriteVersions
<1>17. NoLostWakeup'
  BY <1>1 DEF IInv, NoLostWakeup, Eligible
<1> QED
  BY <1>9, <1>10, <1>11, <1>12, <1>13, <1>14, <1>15, <1>16, <1>17 DEF IInv

\* A detached save ran.
LEMMA WriteSaveStep ==
  ASSUME IInv, WriteSave
  PROVE  IInv'
<1>1. PICK save \in saves : Write(save) /\ saves' = saves \ {save}
  BY DEF WriteSave
<1>2. /\ UNCHANGED <<queue, running, live, limit, drained, keyOf, sub, rec, version, pend, closing>>
      /\ UNCHANGED <<exec, orphans, clears, pruning, kicks, alive, nudges>>
      /\ UNCHANGED <<sched, slots, clearing, tasks, dispatcher, env>>
  BY DEF WriteSave, sched, slots, tasks, dispatcher
<1>3. save \in Outstanding /\ saves' \subseteq Save
  BY <1>1 DEF Outstanding, IInv, TypeOK, FileType
<1>4. /\ FileType'
      /\ \A t \in Run : disk'[t] = None <=> disk[t] = None
      /\ \A t \in Run : sub[t] # "accepted" => disk'[t] = disk[t] /\ written'[t] = written[t]
      /\ \A t \in Run : written'[t] >= written[t]
  BY <1>1, <1>2, <1>3, WriteFacts
<1>5. Queued' = Queued /\ \A t \in Run : Ending(t)' <=> Ending(t)
  BY <1>2 DEF Queued, Ending
<1>6. Outstanding' \subseteq Outstanding /\ \A s \in Outstanding : s \in Outstanding' \/ s = save
  BY <1>1, <1>2 DEF Outstanding
<1>7. TypeOK'
  BY <1>2, <1>4, TypeFrame DEF IInv, TypeOK
<1>8. Keyed' /\ OneLiveRunPerKey' /\ RecordsMatchScheduler'
  BY <1>2, <1>4, <1>5 DEF IInv, Keyed, OneLiveRunPerKey, RecordsMatchScheduler
<1>9. Placed'
  BY <1>2, <1>5 DEF IInv, Placed, Inj
<1>10. Executing'
  BY <1>2 DEF IInv, Executing
<1>11. Admitting'
  BY <1>2, <1>4 DEF IInv, Admitting, NewRecord
<1>12. Saving'
  BY <1>2, <1>5, <1>6 DEF IInv, Saving
<1>13. Concluding'
  <2> SUFFICES ASSUME NEW t \in Run, Ending(t)' PROVE Concluded(t)'
    BY DEF Concluding
  <2>1. Ending(t) /\ written'[t] \in Nat
    BY <1>4, <1>5 DEF FileType
  <2> QED
    BY <1>2, <1>4, <2>1, ConcludedFrame
<1>14. Versioned'
  <2>1. ASSUME NEW t \in Run PROVE Newest(t)' = Newest(t)
    BY <1>2, <1>5 DEF Newest
  <2> QED
    BY <1>1, <1>2, <1>3, <1>6, <2>1, WriteVersions
<1>15. NoLostWakeup'
  BY <1>2 DEF IInv, NoLostWakeup, Eligible
<1> QED
  BY <1>7, <1>8, <1>9, <1>10, <1>11, <1>12, <1>13, <1>14, <1>15 DEF IInv

\* complete() drops the save it waited for.
LEMMA PendDrops ==
  ASSUME IInv, NEW r \in Run, pend[r].run = r, NEW T \in SUBSET Save,
         pend' = [pend EXCEPT ![r] = None], saves' = saves \cup T
  PROVE  /\ Outstanding' \subseteq Outstanding \cup T /\ T \subseteq Outstanding'
         /\ \A s \in Outstanding : s \in Outstanding' \/ s.run = r
<1>1. pend'[r] = None /\ \A t \in Run \ {r} : pend'[t] = pend[t]
  BY DEF IInv, TypeOK, TaskType
<1>2. ASSUME NEW s \in Outstanding' PROVE s \in Outstanding \cup T
  <2>1. s \in saves \cup T \/ \E t \in Run : pend'[t] # None /\ s = pend'[t]
    BY <1>2 DEF Outstanding
  <2> QED
    BY <2>1, <1>1 DEF Outstanding
<1>3. ASSUME NEW s \in Outstanding, s.run # r PROVE s \in Outstanding'
  <2>1. s \in saves \/ \E t \in Run : pend[t] # None /\ s = pend[t]
    BY <1>3 DEF Outstanding
  <2>2. s \in saves' \/ \E t \in Run : pend'[t] # None /\ s = pend'[t]
    BY <2>1, <1>1, <1>3
  <2> QED
    BY <2>2 DEF Outstanding
<1>4. T \subseteq Outstanding'
  BY DEF Outstanding
<1> QED
  BY <1>2, <1>3, <1>4

\* complete() makes the conclusion visible; it skips the second save only when
\* the file already holds what becomes visible.
LEMMA CompleteVisibleStep ==
  ASSUME IInv, NEW r \in Run, CompleteVisible(r)
  PROVE  IInv'
<1> DEFINE done == Finished(rec[r], pend[r].rec.end)
<1>1. /\ exec[r] = "saved" /\ exec' = [exec EXCEPT ![r] = "over"]
      /\ rec' = [rec EXCEPT ![r] = done]
      /\ pend' = [pend EXCEPT ![r] = None]
      /\ IF done = pend[r].rec
         THEN UNCHANGED <<version, saves>>
         ELSE /\ version' = [version EXCEPT ![r] = version[r] + 1]
              /\ saves' = saves \cup {Snapshot(r, done)}
      /\ Finish(r) /\ owners' = [owners EXCEPT ![r] = None]
      /\ kicks' = kicks + 1
      /\ UNCHANGED <<clearing, keyOf, sub, closing, orphans, clears, alive, nudges>>
      /\ UNCHANGED <<disk, written, pruning, env>>
  BY DEF CompleteVisible, Forget
<1>2. TaskType /\ FileType /\ SlotType /\ LoopType
  BY DEF IInv, TypeOK
<1>3. /\ r \in running /\ r \notin Queued /\ r \notin closing /\ r \notin pruning
      /\ sub[r] = "accepted" /\ Ending(r)
      /\ rec[r] \in Record /\ rec[r] # None /\ version[r] \in Nat /\ written[r] \in Nat
  <2>1. r \in running /\ sub[r] = "accepted" /\ Ending(r)
    BY <1>1 DEF IInv, Executing, Ending
  <2>2. rec[r] \in Record /\ rec[r] # None /\ version[r] \in Nat /\ written[r] \in Nat
    BY <2>1, StateFacts, Constants
  <2> QED
    BY <2>1, <2>2 DEF IInv, Placed, Admitting
<1>4. /\ pend[r] \in Save /\ pend[r] \in Outstanding /\ pend[r].run = r /\ Concluded(r)
      /\ pend[r].version \in Nat /\ pend[r].rec \in Record
      /\ pend[r].rec.end \in Ends \cup {None, "error", "cancelled"}
  <2>1. pend[r] # None /\ Concluded(r) /\ pend[r].run = r
    BY <1>3 DEF IInv, Saving, Concluding, Concluded
  <2>2. pend[r] \in Save /\ pend[r] \in Outstanding
    BY <2>1, StateFacts DEF Outstanding
  <2>3. pend[r].version \in Nat /\ pend[r].rec \in Record
    BY <2>2, SaveOps
  <2> QED
    BY <2>1, <2>2, <2>3, RecordFields
<1>5. done \in Record /\ done # None /\ done.st = "done"
      /\ done.submitters = rec[r].submitters /\ done.asked = rec[r].asked
      /\ rec[r].submitters \in Nat
  BY <1>3, <1>4, FinishedOps, RecordFields, Constants
<1>6. PICK save \in Save : /\ save = Snapshot(r, done) /\ save.run = r
                           /\ save.version = version[r] + 1 /\ save.rec = done
  BY <1>3, <1>5, SaveOps
<1>7. ASSUME done = pend[r].rec
      PROVE  version[r] = pend[r].version /\ written[r] = version[r] /\ disk[r] = done
             /\ Newest(r) = done
  <2>1. version[r] = pend[r].version
    <3>1. ~(rec[r].submitters > pend[r].rec.submitters)
      BY <1>5, <1>7
    <3>2. ~(rec[r].asked /\ ~pend[r].rec.asked)
      BY <1>5, <1>7
    <3> QED
      BY <1>4, <3>1, <3>2 DEF Concluded
  <2>2. written[r] >= version[r]
    BY <1>1, <1>4, <2>1 DEF Concluded
  <2>3. written[r] <= version[r] /\ (written[r] = version[r] => disk[r] = Newest(r))
    BY <1>3 DEF IInv, Versioned
  <2>4. Newest(r) = done
    BY <1>3, <1>7, <2>1 DEF Newest
  <2> QED
    BY <1>3, <2>1, <2>2, <2>3, <2>4
<1>8. PICK x \in Record : x = done
  BY <1>5
<1> HIDE DEF done
<1>9. /\ \A t \in Run \ {r} : rec'[t] = rec[t] /\ pend'[t] = pend[t] /\ exec'[t] = exec[t]
                              /\ version'[t] = version[t]
      /\ rec'[r] = x /\ pend'[r] = None /\ exec'[r] = "over"
  <2>1. /\ \A t \in Run \ {r} : rec'[t] = rec[t] /\ pend'[t] = pend[t] /\ exec'[t] = exec[t]
        /\ rec'[r] = x /\ pend'[r] = None /\ exec'[r] = "over"
    BY <1>1, <1>2, <1>8 DEF TaskType, SlotType
  <2>2. \A t \in Run \ {r} : version'[t] = version[t]
    BY <1>1, <1>2 DEF SlotType
  <2> QED
    BY <2>1, <2>2
<1>10. /\ SchedType' /\ OneLiveRunPerKey' /\ Inj(queue)'
       /\ Queued' = Queued /\ running' = running \ {r}
  BY <1>1, <1>3, FinishFacts
<1>11. /\ Outstanding' \subseteq Outstanding \cup {save}
       /\ \A s \in Outstanding : s \in Outstanding' \/ s.run = r
       /\ done = pend[r].rec => Outstanding' \subseteq Outstanding
       /\ done # pend[r].rec => save \in Outstanding'
  <2>1. CASE done = pend[r].rec
    <3>1. saves' = saves \cup {} /\ {} \in SUBSET Save
      BY <1>1, <2>1
    <3>2. Outstanding' \subseteq Outstanding \cup {} /\ \A s \in Outstanding : s \in Outstanding' \/ s.run = r
      BY <1>1, <1>4, <3>1, PendDrops
    <3> QED
      BY <2>1, <3>2
  <2>2. CASE done # pend[r].rec
    <3>1. saves' = saves \cup {save} /\ {save} \in SUBSET Save
      BY <1>1, <1>6, <2>2
    <3>2. /\ Outstanding' \subseteq Outstanding \cup {save} /\ {save} \subseteq Outstanding'
          /\ \A s \in Outstanding : s \in Outstanding' \/ s.run = r
      BY <1>1, <1>4, <3>1, PendDrops
    <3> QED
      BY <2>2, <3>2
  <2> QED
    BY <2>1, <2>2
<1>12. TypeOK'
  <2>1. TaskType'
    BY <1>1, <1>2 DEF TaskType
  <2>2. SlotType'
    <3>1. version' \in [Run -> Nat]
      BY <1>1, <1>2, <1>3 DEF SlotType
    <3> QED
      BY <1>1, <1>2, <1>5, <3>1 DEF SlotType
  <2>3. FileType'
    BY <1>1, <1>2, <1>6 DEF FileType
  <2>4. LoopType'
    BY <1>1, <1>2 DEF LoopType
  <2> QED
    BY <1>1, <1>10, <2>1, <2>2, <2>3, <2>4, TypeFrame DEF IInv, TypeOK
<1>13. Keyed'
  BY <1>1, <1>3, <1>9 DEF IInv, Keyed
<1>14. Placed'
  <2>1. \A t \in closing : rec'[t] = rec[t]
    BY <1>2, <1>3, <1>9 DEF TaskType
  <2> QED
    BY <1>1, <1>10, <2>1 DEF IInv, Placed
<1>15. Executing'
  BY <1>1, <1>3, <1>9, <1>10 DEF IInv, Executing
<1>16. Admitting'
  BY <1>1, <1>2, <1>3, <1>9 DEF IInv, Admitting, FileType
<1>17. Saving'
  <2>1. \A s \in Outstanding' : sub'[s.run] = "accepted"
    BY <1>1, <1>3, <1>6, <1>11 DEF IInv, Saving
  <2>2. \A t \in Run : pend'[t] # None <=> sub'[t] = "joined" \/ Ending(t)'
    BY <1>1, <1>3, <1>9 DEF IInv, Saving, Ending
  <2> QED
    BY <2>1, <2>2 DEF Saving
<1>18. Concluding'
  <2> SUFFICES ASSUME NEW t \in Run, Ending(t)' PROVE Concluded(t)'
    BY DEF Concluding
  <2>1. t # r /\ Ending(t)
    BY <1>9 DEF Ending
  <2> QED
    BY <1>1, <1>9, <2>1, ConcludedFrame, StateFacts
<1>19. Versioned'
  <2>1. ASSUME NEW t \in Run, t # r PROVE Newest(t)' = Newest(t)
    BY <1>9, <2>1, NewestFrame
  <2>2. Newest(r)' = x
    BY <1>9 DEF Newest, Ending
  <2>3. CASE done = pend[r].rec
    <3>1. version' = version /\ disk' = disk /\ written' = written
      BY <1>1, <2>3
    <3>2. \A s \in Outstanding' : s \in Outstanding /\ s.run \in Run
      BY <1>11, <2>3, StateFacts, SaveOps
    <3>3. \A s \in Outstanding' : rec'[s.run] # None =>
             s.version <= version'[s.run] /\ (s.version = version'[s.run] => s.rec = Newest(s.run)')
      BY <1>3, <1>7, <1>8, <1>9, <2>1, <2>2, <2>3, <3>1, <3>2 DEF IInv, Versioned
    <3>4. ASSUME NEW t \in Run, t # r, rec'[t] # None
          PROVE  /\ disk'[t] # None /\ written'[t] <= version'[t]
                 /\ written'[t] = version'[t] => disk'[t] = Newest(t)'
                 /\ written'[t] < version'[t] =>
                      \E s \in Outstanding' : s.run = t /\ s.version = version'[t]
      BY <1>9, <1>11, <2>1, <3>1, <3>4 DEF IInv, Versioned
    <3>5. /\ disk'[r] # None /\ written'[r] = version'[r] /\ disk'[r] = Newest(r)'
          /\ written'[r] \in Nat /\ version'[r] \in Nat
      BY <1>3, <1>5, <1>7, <1>8, <2>2, <2>3, <3>1
    <3> QED
      BY <3>3, <3>4, <3>5 DEF Versioned
  <2>4. CASE done # pend[r].rec
    <3>1. version'[r] = version[r] + 1
      BY <1>1, <1>2, <2>4 DEF SlotType
    <3>2. save.rec = Newest(r)'
      BY <1>6, <1>8, <2>2
    <3>3. \A t \in Run \ {r} : version'[t] = version[t] /\ rec'[t] = rec[t]
                              /\ (rec[t] # None => Newest(t)' = Newest(t))
      BY <1>9, <2>1
    <3>4. save \in Outstanding' /\ \A s \in Outstanding' : s \in Outstanding \/ s = save
      BY <1>11, <2>4
    <3> QED
      BY <1>1, <1>3, <1>6, <1>11, <3>1, <3>2, <3>3, <3>4, NextVersion
  <2> QED
    BY <2>3, <2>4
<1>20. RecordsMatchScheduler'
  BY <1>1, <1>3, <1>5, <1>8, <1>9, <1>10, StateFacts DEF IInv, RecordsMatchScheduler, TypeOK, SchedType
<1>21. NoLostWakeup'
  BY <1>1, <1>2 DEF NoLostWakeup, LoopType
<1> QED
  BY <1>10, <1>12, <1>13, <1>14, <1>15, <1>16, <1>17, <1>18, <1>19, <1>20, <1>21 DEF IInv

-----------------------------------------------------------------------------
(* Pruning and restarts.                                                   *)

\* prune's plan: finished runs leave the state.
LEMMA PlanPruneStep ==
  ASSUME IInv, NEW S \in SUBSET Run, PlanPrune(S)
  PROVE  IInv'
<1>1. /\ \A r \in S : rec[r] # None /\ rec[r].st = "done"
      /\ rec' = [r \in Run |-> IF r \in S THEN None ELSE rec[r]]
      /\ pruning' = pruning \cup S
      /\ UNCHANGED <<queue, running, live, limit, drained, keyOf, sub, exec, version, owners, pend>>
      /\ UNCHANGED <<closing, saves, disk, written, kicks, alive, nudges, gone>>
      /\ UNCHANGED <<sched, clearing, tasks, dispatcher>> /\ Event
  BY DEF PlanPrune, sched, tasks, dispatcher
<1>2. /\ \A t \in Run \ S : rec'[t] = rec[t]
      /\ \A t \in S : rec'[t] = None
  BY <1>1
<1>3. \A t \in S : t \notin Queued /\ t \notin running /\ t \notin closing /\ ~Ending(t)
                   /\ sub[t] \notin {"unborn", "placed", "joined", "refused"}
  <2> SUFFICES ASSUME NEW t \in S
               PROVE  t \notin Queued /\ t \notin running /\ t \notin closing /\ ~Ending(t)
                      /\ sub[t] \notin {"unborn", "placed", "joined", "refused"}
    OBVIOUS
  <2>1. t \notin Queued /\ t \notin running /\ t \notin closing
    BY <1>1, StateFacts
  <2> QED
    BY <1>1, <2>1 DEF IInv, Executing, Ending, Admitting
<1>4. Queued' = Queued /\ Outstanding' = Outstanding /\ Queued \subseteq Run
  BY <1>1, StateFacts DEF Queued, Outstanding
<1>5. TypeOK'
  <2>1. SlotType'
    BY <1>1 DEF IInv, TypeOK, SlotType
  <2>2. FileType'
    BY <1>1 DEF IInv, TypeOK, FileType
  <2>3. EnvType'
    BY <1>1 DEF IInv, TypeOK, EnvType, Event
  <2> QED
    BY <1>1, <2>1, <2>2, <2>3, TypeFrame DEF IInv, TypeOK
<1>6. Keyed'
  BY <1>1, <1>2, <1>3 DEF IInv, Keyed
<1>7. Placed'
  <2>1. \A t \in closing : rec'[t] = rec[t]
    BY <1>2, <1>3 DEF IInv, TypeOK, TaskType
  <2> QED
    BY <1>1, <1>4, <2>1 DEF IInv, Placed, Inj
<1>8. Executing'
  BY <1>1 DEF IInv, Executing
<1>9. Admitting'
  <2>1. \A t \in Run : rec[t] = None => rec'[t] = None
    BY <1>1
  <2>2. pruning \subseteq Run
    BY DEF IInv, TypeOK, FileType
  <2> QED
    BY <1>1, <1>2, <1>3, <2>1, <2>2 DEF IInv, Admitting, NewRecord
<1>10. Saving'
  BY <1>1, <1>4 DEF IInv, Saving, Ending
<1>11. Concluding'
  <2> SUFFICES ASSUME NEW t \in Run, Ending(t)' PROVE Concluded(t)'
    BY DEF Concluding
  <2>1. t \notin S /\ Ending(t)
    BY <1>1, <1>3 DEF Ending
  <2> QED
    BY <1>1, <1>2, <2>1, ConcludedFrame, StateFacts
<1>12. Versioned'
  <2>1. ASSUME NEW t \in Run, rec'[t] # None
        PROVE  t \notin S /\ rec'[t] = rec[t] /\ Newest(t)' = Newest(t)
    <3>1. t \notin S /\ rec'[t] = rec[t]
      BY <1>2, <2>1
    <3> QED
      BY <1>1, <3>1, NewestFrame
  <2>2. \A s \in Outstanding : s.run \in Run
    BY StateFacts, SaveOps
  <2> QED
    BY <1>1, <1>4, <2>1, <2>2 DEF IInv, Versioned
<1>13. OneLiveRunPerKey'
  BY <1>1, <1>4 DEF IInv, OneLiveRunPerKey
<1>14. RecordsMatchScheduler'
  BY <1>1, <1>2, <1>3, <1>4 DEF IInv, RecordsMatchScheduler, TypeOK, SchedType
<1>15. NoLostWakeup'
  BY <1>1 DEF IInv, NoLostWakeup, Eligible
<1> QED
  BY <1>5, <1>6, <1>7, <1>8, <1>9, <1>10, <1>11, <1>12, <1>13, <1>14, <1>15 DEF IInv

\* ... and their files follow.
LEMMA ApplyPruneStep ==
  ASSUME IInv, NEW r \in Run, ApplyPrune(r)
  PROVE  IInv'
<1>1. /\ r \in pruning /\ pruning' = pruning \ {r}
      /\ disk' = [disk EXCEPT ![r] = None]
      /\ written' = [written EXCEPT ![r] = 0]
      /\ UNCHANGED <<queue, running, live, limit, drained, keyOf, sub, exec, rec, version, pend>>
      /\ UNCHANGED <<closing, saves, kicks, alive, nudges>>
      /\ UNCHANGED <<sched, slots, clearing, tasks, dispatcher, env>>
  BY DEF ApplyPrune, RemoveRun, sched, slots, tasks, dispatcher
<1>2. FileType
  BY DEF IInv, TypeOK
<1>3. rec[r] = None /\ sub[r] \notin {"unborn", "placed", "joined", "refused"}
  BY <1>1 DEF IInv, Admitting
<1>4. r \notin running /\ ~Ending(r)
  BY <1>3 DEF IInv, RecordsMatchScheduler, Executing, Ending
<1>5. /\ \A t \in Run \ {r} : disk'[t] = disk[t] /\ written'[t] = written[t]
      /\ disk'[r] = None
  BY <1>1, <1>2 DEF FileType
<1>6. Queued' = Queued /\ Outstanding' = Outstanding
  BY <1>1 DEF Queued, Outstanding
<1>7. TypeOK'
  <2>1. FileType'
    BY <1>1, <1>2 DEF FileType
  <2> QED
    BY <1>1, <2>1, TypeFrame DEF IInv, TypeOK
<1>8. Keyed'
  BY <1>1, <1>5 DEF IInv, Keyed
<1>9. Placed'
  BY <1>1, <1>6 DEF IInv, Placed, Inj
<1>10. Executing'
  BY <1>1 DEF IInv, Executing
<1>11. Admitting'
  BY <1>1, <1>3, <1>5 DEF IInv, Admitting, NewRecord
<1>12. Saving'
  BY <1>1, <1>6 DEF IInv, Saving, Ending
<1>13. Concluding'
  <2> SUFFICES ASSUME NEW t \in Run, Ending(t)' PROVE Concluded(t)'
    BY DEF Concluding
  <2>1. t # r /\ Ending(t)
    BY <1>1, <1>4 DEF Ending
  <2> QED
    BY <1>1, <1>5, <2>1, ConcludedFrame, StateFacts
<1>14. Versioned'
  <2>1. ASSUME NEW t \in Run, rec[t] # None PROVE Newest(t)' = Newest(t) /\ t # r
    BY <1>1, <1>3, <2>1, NewestFrame
  <2>2. \A s \in Outstanding : s.run \in Run
    BY StateFacts, SaveOps
  <2> QED
    BY <1>1, <1>5, <1>6, <2>1, <2>2 DEF IInv, Versioned
<1>15. OneLiveRunPerKey' /\ RecordsMatchScheduler'
  BY <1>1, <1>6 DEF IInv, OneLiveRunPerKey, RecordsMatchScheduler
<1>16. NoLostWakeup'
  BY <1>1 DEF IInv, NoLostWakeup, Eligible
<1> QED
  BY <1>7, <1>8, <1>9, <1>10, <1>11, <1>12, <1>13, <1>14, <1>15, <1>16 DEF IInv

\* What a restart makes of the record it finds: a conclusion stays.
LEMMA InterruptedOps ==
  ASSUME NEW x \in Record \cup {None}
  PROVE  /\ Interrupted(x) \in Record \cup {None}
         /\ Interrupted(x) = None <=> x = None
         /\ Interrupted(x) # None => Interrupted(x).st = "done"
<1>1. CASE x = None \/ x.st = "done"
  BY <1>1 DEF Interrupted
<1>2. CASE ~(x = None \/ x.st = "done")
  <2>1. x \in Record /\ Interrupted(x) = Finished(x, "error")
    BY <1>2 DEF Interrupted
  <2>2. Interrupted(x) \in Record /\ Interrupted(x).st = "done"
    BY <2>1, FinishedOps
  <2> QED
    BY <1>2, <2>2, Constants
<1> QED
  BY <1>1, <1>2

\* The next daemon starts over the files: nothing is queued, running or due, and
\* every slot is what its file says.
LEMMA RestartStep ==
  ASSUME IInv, Restart
  PROVE  IInv'
<1>1. /\ queue' = <<>> /\ running' = {} /\ live' = [k \in Key |-> None]
      /\ disk' = [r \in Run |-> Interrupted(disk[r])]
      /\ rec' = disk'
      /\ written' = [r \in Run |-> IF disk[r] = disk'[r] THEN 0 ELSE 1]
      /\ version' = written'
      /\ owners' = [r \in Run |-> None] /\ clearing' = FALSE
      /\ exec' = [r \in Run |-> "idle"] /\ pend' = [r \in Run |-> None]
      /\ closing' = {} /\ orphans' = {} /\ clears' = 0 /\ kicks' = 0
      /\ alive' = TRUE /\ nudges' = 0 /\ saves' = {} /\ pruning' = {}
      /\ UNCHANGED <<limit, drained, keyOf, gone>> /\ Event
  BY DEF Restart
<1>2. /\ DOMAIN sub' = Run /\ sub' = [r \in Run |-> sub'[r]]
      /\ \A r \in Run : \/ sub[r] = "placed" /\ sub'[r] = "lost"
                        \/ sub[r] = "joined" /\ sub'[r] = "dropped"
                        \/ sub[r] \notin {"placed", "joined"} /\ sub'[r] = sub[r]
  BY DEF Restart
<1>3. SchedType /\ TaskType /\ FileType
  BY DEF IInv, TypeOK
<1>4. Queued' = {} /\ Outstanding' = {}
  BY <1>1 DEF Queued, Outstanding
<1>5. \A r \in Run : /\ disk'[r] = Interrupted(disk[r]) /\ rec'[r] = disk'[r]
                     /\ rec'[r] \in Record \cup {None}
                     /\ rec'[r] = None <=> disk[r] = None
                     /\ rec'[r] # None => rec'[r].st = "done"
                     /\ version'[r] = written'[r] /\ version'[r] \in Nat
                     /\ ~Ending(r)' /\ pend'[r] = None /\ exec'[r] = "idle"
  <2> SUFFICES ASSUME NEW r \in Run
               PROVE  /\ disk'[r] = Interrupted(disk[r]) /\ rec'[r] = disk'[r]
                      /\ rec'[r] \in Record \cup {None}
                      /\ rec'[r] = None <=> disk[r] = None
                      /\ rec'[r] # None => rec'[r].st = "done"
                      /\ version'[r] = written'[r] /\ version'[r] \in Nat
                      /\ ~Ending(r)' /\ pend'[r] = None /\ exec'[r] = "idle"
    OBVIOUS
  <2>1. disk[r] \in Record \cup {None}
    BY <1>3 DEF FileType
  <2>2. disk'[r] = Interrupted(disk[r]) /\ rec'[r] = disk'[r]
    BY <1>1
  <2>3. /\ rec'[r] \in Record \cup {None} /\ (rec'[r] = None <=> disk[r] = None)
        /\ rec'[r] # None => rec'[r].st = "done"
    BY <2>1, <2>2, InterruptedOps
  <2>4. version'[r] = written'[r] /\ version'[r] \in Nat
    BY <1>1
  <2>5. ~Ending(r)' /\ pend'[r] = None /\ exec'[r] = "idle"
    BY <1>1 DEF Ending
  <2> QED
    BY <2>2, <2>3, <2>4, <2>5
<1>6. TypeOK'
  <2>1. SchedType'
    <3>1. queue' \in Seq(Run)
      BY <1>1
    <3> QED
      BY <1>1, <1>3, <3>1 DEF SchedType
  <2>2. SlotType'
    BY <1>1, <1>5 DEF SlotType
  <2>3. TaskType'
    <3>1. sub' \in [Run -> {"unborn", "refused", "placed", "accepted", "joined", "dropped", "lost"}]
      BY <1>2, <1>3 DEF TaskType
    <3> QED
      BY <1>1, <1>3, <3>1 DEF TaskType
  <2>4. LoopType'
    BY <1>1, Constants DEF LoopType
  <2>5. FileType'
    BY <1>1, <1>5 DEF FileType
  <2>6. EnvType'
    BY <1>1 DEF IInv, TypeOK, EnvType, Event
  <2> QED
    BY <1>1, <2>1, <2>2, <2>3, <2>4, <2>5, <2>6 DEF TypeOK
<1>7. Keyed'
  BY <1>1, <1>2, <1>5 DEF IInv, Keyed
<1>8. Placed'
  BY <1>1, <1>4, EmptyList DEF Placed
<1>9. Executing'
  BY <1>1, <1>5 DEF Executing
<1>10. Admitting'
  <2>1. \A r \in Run : sub'[r] \notin {"placed", "joined"}
    BY <1>2
  <2>2. \A r \in Run : sub'[r] \in {"unborn", "refused"} => rec'[r] = None
    BY <1>2, <1>5 DEF IInv, Keyed
  <2> QED
    BY <1>1, <2>1, <2>2 DEF Admitting
<1>11. Saving'
  BY <1>2, <1>4, <1>5 DEF Saving
<1>12. Concluding'
  BY <1>5 DEF Concluding
<1>13. Versioned'
  <2>1. \A r \in Run : Newest(r)' = rec'[r]
    BY <1>5 DEF Newest
  <2>2. \A r \in Run : rec'[r] # None => /\ disk'[r] # None /\ written'[r] = version'[r]
                                         /\ disk'[r] = Newest(r)' /\ ~(written'[r] < version'[r])
    BY <1>5, <2>1
  <2> QED
    BY <1>4, <1>5, <2>2 DEF Versioned
<1>14. OneLiveRunPerKey'
  BY <1>1, <1>4, Constants DEF OneLiveRunPerKey
<1>15. RecordsMatchScheduler'
  BY <1>1, <1>4, <1>5 DEF RecordsMatchScheduler
<1>16. NoLostWakeup'
  BY <1>1 DEF NoLostWakeup, Eligible
<1> QED
  BY <1>6, <1>7, <1>8, <1>9, <1>10, <1>11, <1>12, <1>13, <1>14, <1>15, <1>16 DEF IInv

-----------------------------------------------------------------------------
(* The invariant holds throughout.                                         *)

\* Every step preserves the invariant.
LEMMA NextIInv == IInv /\ [Next]_vars => IInv'
<1> SUFFICES ASSUME IInv, [Next]_vars PROVE IInv'
  OBVIOUS
<1>1. ASSUME NEW r \in Run,
             \/ RefuseSubmit(r) \/ DropCopy(r) \/ Publish(r)
             \/ CompleteSaved(r) \/ CompleteVisible(r)
             \/ Cancel(r) \/ FinishCancelled(r) \/ CancelOrphaned(r) \/ ApplyPrune(r)
      PROVE  IInv'
  BY <1>1, RefuseStep, DropCopyStep, PublishStep, CompleteSavedStep, CompleteVisibleStep,
     CancelStep, FinishCancelledStep, CancelOrphanedStep, ApplyPruneStep
<1>2. ASSUME NEW r \in Run, NEW k \in Key, Place(r, k) PROVE IInv'
  BY <1>2, PlaceStep
<1>3. ASSUME NEW r \in Run, NEW o \in Run, Retry(r, o) PROVE IInv'
  <2>1. keyOf[o] \in Key
    BY <1>3 DEF Retry, IInv, Keyed
  <2> QED
    BY <1>3, <2>1, PlaceStep DEF Retry
<1>4. ASSUME NEW r \in Run, NEW c \in Client \cup {None}, Enqueue(r, c) \/ Join(r, c) PROVE IInv'
  BY <1>4, EnqueueStep, JoinStep
<1>5. ASSUME NEW r \in Run, NEW end \in Ends \cup {"cancelled"}, Complete(r, end) PROVE IInv'
  BY <1>5, CompleteStep
<1>6. CASE DispatcherStep \/ Recover
  BY <1>6, DispatchStep
<1>7. CASE WriteSave
  BY <1>7, WriteSaveStep
<1>8. ASSUME NEW S \in SUBSET Run, PlanPrune(S) PROVE IInv'
  BY <1>8, PlanPruneStep
<1>9. CASE Restart
  BY <1>9, RestartStep
<1>10. CASE \/ Nudge \/ DispatcherDies \/ Sweep \/ ListRunners \/ ClearCache \/ DropHold
            \/ \E c \in Client : ClientExits(c)
            \/ \E r \in Run, c \in Client : Release(r, c)
            \/ \E l \in 1 .. MaxLimit, d \in BOOLEAN : Settings(l, d)
            \/ UNCHANGED vars
  BY <1>10, QuietSteps
<1>11. CASE Quiet
  BY <1>11, QuietSteps DEF Quiet
<1> QED
  BY <1>1, <1>2, <1>3, <1>4, <1>5, <1>6, <1>7, <1>8, <1>9, <1>10, <1>11 DEF Next

\* ... and so it is an invariant of the runtime.
LEMMA SpecIInv == Spec => []IInv
  BY InitIInv, NextIInv, PTL DEF Spec

-----------------------------------------------------------------------------
(* The properties.                                                         *)

\* Every variable of the runtime keeps its type.
THEOREM TypeCorrect == Spec => []TypeOK
<1>1. IInv => TypeOK
  BY DEF IInv
<1> QED
  BY <1>1, SpecIInv, PTL

\* Coalescing (Scheduler::submit and finish): a key has at most one queued or
\* running run, and is free as soon as it has none.
THEOREM KeysCoalesce == Spec => []OneLiveRunPerKey
<1>1. IInv => OneLiveRunPerKey
  BY DEF IInv
<1> QED
  BY <1>1, SpecIInv, PTL

\* At every unlock a run's record says where the scheduler has it.
THEOREM RecordsTruthful == Spec => []RecordsMatchScheduler
<1>1. IInv => RecordsMatchScheduler
  BY DEF IInv
<1> QED
  BY <1>1, SpecIInv, PTL

\* kick and recover_dispatcher: work that may start is never left without a
\* nudge, a kick under way, or a dead dispatcher that the next kick rebuilds.
THEOREM WakeupsKept == Spec => []NoLostWakeup
<1>1. IInv => NoLostWakeup
  BY DEF IInv
<1> QED
  BY <1>1, SpecIInv, PTL

\* RecordWriter: in whatever order the saves of a run are written, once none is
\* left its file holds the record that readers see.
THEOREM FilesCatchUp == Spec => []DiskCatchesUp
<1>1. ASSUME IInv PROVE DiskCatchesUp
  <2> SUFFICES ASSUME NEW r \in Run, rec[r] # None,
                      \A save \in saves : save.run # r,
                      \A t \in Run : pend[t] = None \/ pend[t].run # r
               PROVE  disk[r] = rec[r]
    BY DEF DiskCatchesUp
  <2>1. \A s \in Outstanding : s.run # r
    BY DEF Outstanding
  <2>2. ~Ending(r)
    BY <1>1 DEF IInv, Saving, Concluding, Concluded
  <2>3. Newest(r) = rec[r]
    BY <2>2 DEF Newest
  <2>4. /\ written[r] <= version[r]
        /\ written[r] = version[r] => disk[r] = Newest(r)
        /\ written[r] < version[r] => \E s \in Outstanding : s.run = r /\ s.version = version[r]
    BY <1>1 DEF IInv, Versioned
  <2>5. written[r] \in Nat /\ version[r] \in Nat
    BY <1>1, StateFacts
  <2> QED
    BY <2>1, <2>3, <2>4, <2>5
<1> QED
  BY <1>1, SpecIInv, PTL

\* Only a restart touches a record that says `done`; otherwise it stays as it is
\* until prune takes it out of the state.
LEMMA DoneStep ==
  ASSUME IInv, Next, ~Restart, NEW r \in Run, rec[r] # None, rec[r].st = "done",
         rec'[r] # None
  PROVE  rec'[r] = rec[r]
<1>1. r \notin Queued /\ r \notin running /\ r \notin closing
  BY StateFacts
<1>2. rec \in [Run -> Record \cup {None}]
  BY DEF IInv, TypeOK, SlotType
<1>3. CASE UNCHANGED rec
  BY <1>3
<1>4. ASSUME NEW t \in Run, NEW c \in Client \cup {None}, Enqueue(t, c) PROVE rec'[r] = rec[r]
  <2>1. sub[t] = "placed" /\ rec' = [rec EXCEPT ![t] = NewRecord]
    BY <1>4 DEF Enqueue
  <2>2. rec[t] = None
    BY <2>1 DEF IInv, Admitting
  <2> QED
    BY <1>2, <2>1, <2>2
<1>5. ASSUME NEW t \in Run, NEW c \in Client \cup {None}, Join(t, c) PROVE rec'[r] = rec[r]
  <2>1. keyOf[t] \in Key /\ live[keyOf[t]] # None
    BY <1>5 DEF Join, IInv, Keyed
  <2>2. live[keyOf[t]] \in Queued \cup running
    BY <2>1, StateFacts
  <2>3. PICK x : rec' = [rec EXCEPT ![live[keyOf[t]]] = x]
    BY <1>5 DEF Join
  <2> QED
    BY <1>1, <1>2, <2>2, <2>3
<1>6. CASE Dispatch
  <2>1. PICK n \in 0 .. Len(queue) : n = Admitted
    BY AdmittedFacts
  <2>2. {queue[i] : i \in 1 .. n} \subseteq Queued
    <3>1. queue \in Seq(Run) /\ Inj(queue) /\ Queued = Elems(queue)
      BY StateFacts DEF IInv, TypeOK, SchedType
    <3> QED
      BY <3>1, DropList
  <2>3. r \notin {queue[i] : i \in 1 .. Admitted}
    BY <1>1, <2>1, <2>2
  <2> QED
    BY <1>6, <2>3 DEF Dispatch
<1>7. ASSUME NEW t \in Run, Publish(t) \/ CompleteVisible(t) PROVE rec'[r] = rec[r]
  <2>1. t \in running
    BY <1>7 DEF Publish, CompleteVisible, IInv, Executing
  <2>2. PICK x : rec' = [rec EXCEPT ![t] = x]
    BY <1>7 DEF Publish, CompleteVisible
  <2> QED
    BY <1>1, <1>2, <2>1, <2>2
<1>8. ASSUME NEW t \in Run, FinishCancelled(t) PROVE rec'[r] = rec[r]
  <2>1. t \in closing
    BY <1>8 DEF FinishCancelled
  <2>2. PICK x : rec' = [rec EXCEPT ![t] = x]
    BY <1>8 DEF FinishCancelled
  <2> QED
    BY <1>1, <1>2, <2>1, <2>2
<1>9. ASSUME NEW t \in Run, CancelBecause(t) PROVE rec'[r] = rec[r]
  <2>1. CASE UNCHANGED rec
    BY <2>1
  <2>2. CASE ~UNCHANGED rec
    <3>1. rec[t].st = "running" /\ \E x : rec' = [rec EXCEPT ![t] = x]
      BY <1>9, <2>2 DEF CancelBecause, RequestCancel
    <3> QED
      BY <1>2, <3>1
  <2> QED
    BY <2>1, <2>2
<1>10. ASSUME NEW S \in SUBSET Run, PlanPrune(S) PROVE rec'[r] = rec[r]
  BY <1>10 DEF PlanPrune
<1>11. \/ UNCHANGED rec
       \/ \E t \in Run, c \in Client \cup {None} : Enqueue(t, c) \/ Join(t, c)
       \/ Dispatch
       \/ \E t \in Run : Publish(t) \/ CompleteVisible(t) \/ FinishCancelled(t) \/ CancelBecause(t)
       \/ \E S \in SUBSET Run : PlanPrune(S)
  <2>1. ASSUME NEW t \in Run,
               \/ RefuseSubmit(t) \/ DropCopy(t) \/ CompleteSaved(t) \/ ApplyPrune(t)
               \/ \E k \in Key : Place(t, k)
               \/ \E o \in Run : Retry(t, o)
               \/ \E c \in Client : Release(t, c)
               \/ \E end \in Ends \cup {"cancelled"} : Complete(t, end)
        PROVE  UNCHANGED rec
    BY <2>1 DEF RefuseSubmit, DropCopy, CompleteSaved, ApplyPrune, Place, Retry, Release, Complete,
                slots
  <2>2. ASSUME \/ \E c \in Client : ClientExits(c)
               \/ Nudge \/ DispatcherDies \/ Sweep \/ WriteSave
               \/ \E l \in 1 .. MaxLimit, d \in BOOLEAN : Settings(l, d)
               \/ ListRunners \/ ClearCache \/ DropHold \/ Quiet
        PROVE  UNCHANGED rec
    BY <2>2 DEF ClientExits, Nudge, DispatcherDies, Sweep, WriteSave, Settings, ListRunners,
                ClearCache, DropHold, Quiet, vars, slots
  <2>3. DispatcherStep \/ Recover => Dispatch
    BY DEF DispatcherStep, Recover
  <2>4. \A t \in Run : Cancel(t) \/ CancelOrphaned(t) => CancelBecause(t)
    BY DEF Cancel, CancelOrphaned
  <2> QED
    BY <2>1, <2>2, <2>3, <2>4 DEF Next
<1> QED
  BY <1>3, <1>4, <1>5, <1>6, <1>7, <1>8, <1>9, <1>10, <1>11

\* A conclusion that readers have seen never changes.
THEOREM ConclusionsFinal == Spec => DoneIsFinal
<1>1. IInv /\ [Next]_vars =>
        [Restart \/ \A r \in Run : rec[r] # None /\ rec[r].st = "done" /\ rec'[r] # None
                                   => rec'[r].st = "done" /\ rec'[r].end = rec[r].end]_vars
  BY DoneStep
<1> QED
  BY <1>1, SpecIInv, PTL DEF Spec, DoneIsFinal

\* A write leaves what is not there alone.
LEMMA WriteLeavesGone ==
  ASSUME FileType, NEW save, Write(save), NEW r \in Run, disk[r] = None
  PROVE  disk'[r] = None
<1>1. disk' = disk \/ (disk[save.run] # None /\ disk' = [disk EXCEPT ![save.run] = save.rec])
  BY DEF Write
<1> QED
  BY <1>1 DEF FileType

\* Only a submission creates a run's directory.
LEMMA GoneStep ==
  ASSUME IInv, Next, NEW r \in Run, disk[r] = None, sub[r] # "unborn"
  PROVE  disk'[r] = None
<1>1. FileType /\ disk \in [Run -> Record \cup {None}]
  BY DEF IInv, TypeOK, FileType
<1>2. CASE UNCHANGED disk
  BY <1>2
<1>3. ASSUME NEW t \in Run, NEW k, Place(t, k) PROVE disk'[r] = None
  BY <1>1, <1>3 DEF Place
<1>4. ASSUME NEW t \in Run, DropCopy(t) \/ ApplyPrune(t) PROVE disk'[r] = None
  BY <1>1, <1>4 DEF DropCopy, ApplyPrune, RemoveRun
<1>5. ASSUME NEW save, Write(save) PROVE disk'[r] = None
  BY <1>1, <1>5, WriteLeavesGone
<1>6. CASE Restart
  BY <1>6 DEF Restart, Interrupted
<1>7. \/ UNCHANGED disk
      \/ \E t \in Run : \E k : Place(t, k)
      \/ \E t \in Run : DropCopy(t) \/ ApplyPrune(t)
      \/ \E save : Write(save)
      \/ Restart
  <2>1. ASSUME NEW t \in Run,
               \/ RefuseSubmit(t) \/ Publish(t) \/ CompleteVisible(t)
               \/ Cancel(t) \/ FinishCancelled(t) \/ CancelOrphaned(t)
               \/ \E c \in Client \cup {None} : Enqueue(t, c) \/ Join(t, c)
               \/ \E c \in Client : Release(t, c)
               \/ \E end \in Ends \cup {"cancelled"} : Complete(t, end)
        PROVE  UNCHANGED disk
    BY <2>1 DEF RefuseSubmit, Publish, CompleteVisible, Cancel, FinishCancelled, CancelOrphaned,
                Enqueue, Join, Release, Complete, files
  <2>2. ASSUME \/ \E c \in Client : ClientExits(c)
               \/ Nudge \/ DispatcherDies \/ Sweep \/ DispatcherStep \/ Recover
               \/ \E l \in 1 .. MaxLimit, d \in BOOLEAN : Settings(l, d)
               \/ ListRunners \/ ClearCache \/ DropHold \/ Quiet
               \/ \E S \in SUBSET Run : PlanPrune(S)
        PROVE  UNCHANGED disk
    BY <2>2 DEF ClientExits, Nudge, DispatcherDies, Sweep, DispatcherStep, Recover, Dispatch, Settings,
                ListRunners, ClearCache, DropHold, Quiet, PlanPrune, vars, files
  <2>3. \A t \in Run : CompleteSaved(t) => \E save : Write(save)
    BY DEF CompleteSaved
  <2>4. WriteSave => \E save : Write(save)
    BY DEF WriteSave
  <2>5. \A t \in Run, o \in Run : Retry(t, o) => \E k : Place(t, k)
    BY DEF Retry
  <2> QED
    BY <2>1, <2>2, <2>3, <2>4, <2>5 DEF Next
<1> QED
  BY <1>2, <1>3, <1>4, <1>5, <1>6, <1>7

\* remove_run: no late write brings a pruned or dropped run back.
THEOREM PrunedForGood == Spec => PrunedStaysGone
<1>1. IInv /\ [Next]_vars =>
        [\A r \in Run : disk[r] = None /\ sub[r] # "unborn" => disk'[r] = None]_vars
  BY GoneStep
<1> QED
  BY <1>1, SpecIInv, PTL DEF Spec, PrunedStaysGone

-----------------------------------------------------------------------------
(* The runtime implements RunQueue.                                        *)

\* The runs RunQueue calls accepted.
AcceptedRuns == {r \in Run : sub[r] = "accepted"}

\* A step that moves nothing RunQueue speaks of.
LEMMA QueueStutters ==
  ASSUME UNCHANGED <<queue, running, limit, drained>>, AcceptedRuns' = AcceptedRuns
  PROVE  UNCHANGED Q!qvars
  BY DEF AcceptedRuns, Q!qvars

\* A submission that is not admitted as a run of its own.
LEMMA SubmissionStutters ==
  ASSUME TypeOK, NEW r \in Run, NEW x, x # "accepted", sub[r] # "accepted",
         sub' = [sub EXCEPT ![r] = x]
  PROVE  AcceptedRuns' = AcceptedRuns
  BY DEF AcceptedRuns, TypeOK, TaskType

\* admit puts a new run at the end of the line.
LEMMA EnqueueAccepts ==
  ASSUME IInv, NEW r \in Run, NEW c \in Client \cup {None}, Enqueue(r, c)
  PROVE  Q!Accept(r)
<1>1. /\ sub[r] = "placed" /\ sub' = [sub EXCEPT ![r] = "accepted"]
      /\ queue' = Append(queue, r) /\ UNCHANGED <<running, limit, drained>>
  BY DEF Enqueue
<1>2. sub \in [Run -> {"unborn", "refused", "placed", "accepted", "joined", "dropped", "lost"}]
  BY DEF IInv, TypeOK, TaskType
<1>3. r \notin AcceptedRuns /\ AcceptedRuns' = AcceptedRuns \cup {r}
  BY <1>1, <1>2 DEF AcceptedRuns
<1> QED
  BY <1>1, <1>3 DEF AcceptedRuns, Q!Accept

\* RunQueue counts as the runtime does.
LEMMA SameCount == \A S : Q!Cardinality(S) = Cardinality(S)
  BY DEF Q!Cardinality, Cardinality

\* dispatch starts the longest-waiting runs within the limit, or does nothing.
LEMMA DispatchStarts ==
  ASSUME IInv, Dispatch
  PROVE  (\E n \in 1 .. Len(queue) : Q!Start(n)) \/ UNCHANGED Q!qvars
<1>1. PICK n \in 0 .. Len(queue) : n = Admitted
  BY AdmittedFacts
<1>2. /\ queue' = SubSeq(queue, n + 1, Len(queue))
      /\ running' = running \cup {queue[i] : i \in 1 .. n}
      /\ UNCHANGED <<limit, drained, sub>>
  BY <1>1 DEF Dispatch
<1>3. AcceptedRuns' = AcceptedRuns
  BY <1>2 DEF AcceptedRuns
<1>4. Len(queue) \in Nat /\ queue \in Seq(Run) /\ Inj(queue)
  BY StateFacts DEF IInv, TypeOK, SchedType
<1>5. CASE n = 0
  <2>1. queue' = queue
    BY <1>2, <1>4, <1>5, DropList
  <2>2. running' = running
    BY <1>2, <1>5
  <2> QED
    BY <1>2, <1>3, <2>1, <2>2, QueueStutters
<1>6. CASE n # 0
  <2>1. n \in 1 .. Len(queue) /\ n > 0
    BY <1>4, <1>6
  <2>2. ~drained /\ Cardinality(running) + n <= limit
    BY <1>1, <2>1, AdmittedFacts
  <2>3. Q!Start(n)
    <3>1. UNCHANGED <<AcceptedRuns, limit, drained>>
      BY <1>2, <1>3
    <3> QED
      BY <1>2, <2>2, <3>1, SameCount, Zenon DEF AcceptedRuns, Q!Start
  <2> QED
    BY <2>1, <2>3
<1> QED
  BY <1>5, <1>6

\* complete() ends a started run.
LEMMA CompleteEnds ==
  ASSUME IInv, NEW r \in Run, CompleteVisible(r)
  PROVE  Q!End(r)
<1>1. exec[r] = "saved" /\ Finish(r) /\ UNCHANGED <<keyOf, sub>>
  BY DEF CompleteVisible
<1>2. r \in running /\ r \notin Queued
  BY <1>1 DEF IInv, Executing, Placed
<1>3. queue' = queue /\ running' = running \ {r} /\ UNCHANGED <<limit, drained>>
  BY <1>1, <1>2, FinishFacts DEF Finish
<1> QED
  BY <1>1, <1>2, <1>3 DEF Q!End

\* A cancel withdraws a queued run; a started one it only asks to end.
LEMMA CancelWithdraws ==
  ASSUME IInv, NEW r \in Run, CancelBecause(r), UNCHANGED sub
  PROVE  Q!Withdraw(r) \/ UNCHANGED Q!qvars
<1>1. CASE Dequeue(r)
  <2>1. r \in Queued /\ Finish(r)
    BY <1>1 DEF Dequeue
  <2>2. queue \in Seq(Run) /\ Inj(queue) /\ r \in Elems(queue) /\ r \notin running
    BY <2>1, StateFacts DEF IInv, TypeOK, SchedType, Placed
  <2>3. queue' = Without(queue, r) /\ running' = running /\ UNCHANGED <<limit, drained>>
    BY <2>1, <2>2 DEF Finish
  <2>4. \E p \in 1 .. Len(queue) : queue[p] = r
          /\ queue' = [i \in 1 .. Len(queue) - 1 |-> queue[IF i < p THEN i ELSE i + 1]]
    BY <2>2, <2>3, WithoutList
  <2> QED
    BY <2>3, <2>4 DEF Q!Withdraw
<1>2. CASE RequestCancel(r)
  BY <1>2, QueueStutters DEF RequestCancel, sched, AcceptedRuns
<1> QED
  BY <1>1, <1>2 DEF CancelBecause

\* A restart interrupts everything that waited or ran.
LEMMA RestartInterrupts ==
  ASSUME Restart
  PROVE  Q!Interrupt
<1>1. queue' = <<>> /\ running' = {} /\ UNCHANGED <<limit, drained>>
  BY DEF Restart
<1>2. \A r \in Run : sub'[r] = "accepted" <=> sub[r] = "accepted"
  BY DEF Restart
<1> QED
  BY <1>1, <1>2 DEF Q!Interrupt

\* Every step of the runtime is a step of RunQueue, or none.
LEMMA QueueStep == IInv /\ [Next]_vars => [Q!QNext]_Q!qvars
<1> SUFFICES ASSUME IInv, [Next]_vars PROVE Q!QNext \/ UNCHANGED Q!qvars
  BY DEF Q!QNext, Q!qvars
<1>1. ASSUME NEW r \in Run,
             \/ RefuseSubmit(r) \/ DropCopy(r)
             \/ \E k : Place(r, k)
             \/ \E c : Join(r, c)
      PROVE  UNCHANGED Q!qvars
  <2>1. PICK x : /\ x # "accepted" /\ sub[r] # "accepted" /\ sub' = [sub EXCEPT ![r] = x]
                 /\ UNCHANGED <<queue, running, limit, drained>>
    <3>1. CASE RefuseSubmit(r)
      BY <3>1 DEF RefuseSubmit, sched
    <3>2. CASE DropCopy(r)
      BY <3>2 DEF DropCopy, sched
    <3>3. CASE \E k : Place(r, k)
      BY <3>3 DEF Place, sched
    <3>4. CASE \E c : Join(r, c)
      BY <3>4 DEF Join, sched
    <3> QED
      BY <1>1, <3>1, <3>2, <3>3, <3>4
  <2>2. AcceptedRuns' = AcceptedRuns
    BY <2>1, SubmissionStutters DEF IInv
  <2> QED
    BY <2>1, <2>2, QueueStutters
<1>2. ASSUME NEW r \in Run, NEW o \in Run, Retry(r, o) PROVE UNCHANGED Q!qvars
  BY <1>1, <1>2 DEF Retry
<1>3. ASSUME NEW r \in Run,
             \/ Publish(r) \/ CompleteSaved(r) \/ FinishCancelled(r) \/ ApplyPrune(r)
             \/ \E c \in Client : Release(r, c)
             \/ \E end \in Ends \cup {"cancelled"} : Complete(r, end)
      PROVE  UNCHANGED Q!qvars
  <2>1. UNCHANGED <<queue, running, limit, drained, sub>>
    BY <1>3 DEF Publish, CompleteSaved, FinishCancelled, ApplyPrune, Release, Complete, sched, tasks
  <2> QED
    BY <2>1, QueueStutters DEF AcceptedRuns
<1>4. ASSUME \/ \E c \in Client : ClientExits(c)
             \/ Nudge \/ DispatcherDies \/ Sweep \/ WriteSave \/ ListRunners \/ ClearCache
             \/ DropHold \/ Quiet \/ UNCHANGED vars
             \/ \E S \in SUBSET Run : PlanPrune(S)
      PROVE  UNCHANGED Q!qvars
  <2>1. UNCHANGED <<queue, running, limit, drained, sub>>
    BY <1>4 DEF ClientExits, Nudge, DispatcherDies, Sweep, WriteSave, ListRunners, ClearCache, DropHold,
                Quiet, PlanPrune, vars, sched, tasks
  <2> QED
    BY <2>1, QueueStutters DEF AcceptedRuns
<1>5. ASSUME NEW r \in Run, NEW c \in Client \cup {None}, Enqueue(r, c) PROVE Q!QNext
  BY <1>5, EnqueueAccepts DEF Q!QNext
<1>6. ASSUME NEW r \in Run, CompleteVisible(r) PROVE Q!QNext
  BY <1>6, CompleteEnds DEF Q!QNext
<1>7. ASSUME NEW r \in Run, Cancel(r) \/ CancelOrphaned(r) PROVE Q!QNext \/ UNCHANGED Q!qvars
  <2>1. CancelBecause(r) /\ UNCHANGED sub
    BY <1>7 DEF Cancel, CancelOrphaned
  <2> QED
    BY <2>1, CancelWithdraws DEF Q!QNext
<1>8. CASE DispatcherStep \/ Recover
  <2>1. Dispatch
    BY <1>8 DEF DispatcherStep, Recover
  <2> QED
    BY <2>1, DispatchStarts DEF Q!QNext
<1>9. ASSUME NEW l \in 1 .. MaxLimit, NEW d \in BOOLEAN, Settings(l, d) PROVE Q!QNext
  <2>1. limit' = l /\ drained' = d /\ UNCHANGED <<queue, running, sub>>
    BY <1>9 DEF Settings, tasks
  <2>2. l \in Nat \ {0}
    BY Constants
  <2>3. Q!Policy
    BY <2>1, <2>2 DEF Q!Policy
  <2> QED
    BY <2>3 DEF Q!QNext
<1>10. CASE Restart
  BY <1>10, RestartInterrupts DEF Q!QNext
<1> QED
  BY <1>1, <1>2, <1>3, <1>4, <1>5, <1>6, <1>7, <1>8, <1>9, <1>10 DEF Next

\* The scheduler, the dispatcher, cancellation and restarts together keep what
\* RunQueue promises: first come first started, never beyond the limit, nothing
\* accepted twice and nothing back once it left.
THEOREM QueueImplemented == Spec => ImplementsRunQueue
<1>1. Init => Q!QInit
  <2> SUFFICES ASSUME Init PROVE Q!QInit
    OBVIOUS
  <2>1. {r \in Run : sub[r] = "accepted"} = {}
    BY DEF Init
  <2>2. limit \in Nat \ {0} /\ queue = <<>> /\ running = {}
    BY DEF Init
  <2>3. drained \in BOOLEAN
    BY DEF Init
  <2> QED
    BY <2>1, <2>2, <2>3 DEF Q!QInit
<1> QED
  BY <1>1, SpecIInv, QueueStep, PTL DEF Spec, ImplementsRunQueue, Q!QSpec
=============================================================================
