------------------------------ MODULE RunQueue ------------------------------
(***************************************************************************)
(* What the CI scheduler promises its clients, without how the daemon does *)
(* it: submissions that were accepted wait in the order in which they were *)
(* accepted, only the longest-waiting ones start, never more than the      *)
(* limit admits, none starts while admission is held, and a run that ended *)
(* or was withdrawn never comes back.  CiRuntime implements it.            *)
(***************************************************************************)
EXTENDS Integers, Sequences, FiniteSets

CONSTANT Run            \* run identifiers (UUIDs: each is used once)

VARIABLES waiting,      \* accepted runs that have not started, oldest first
          active,       \* the runs that were started and have not ended
          accepted,     \* every run ever accepted
          cap,          \* how many runs admission may bring `active` to
          held          \* admission is held back (drained)

qvars == <<waiting, active, accepted, cap, held>>

QInit ==
    /\ waiting = <<>> /\ active = {} /\ accepted = {}
    /\ cap \in Nat \ {0} /\ held \in BOOLEAN

\* A new run joins the end of the line.
Accept(r) ==
    /\ r \notin accepted
    /\ waiting' = Append(waiting, r)
    /\ accepted' = accepted \cup {r}
    /\ UNCHANGED <<active, cap, held>>

\* The n longest-waiting runs start together.
Start(n) ==
    /\ ~held
    /\ Cardinality(active) + n <= cap
    /\ active' = active \cup {waiting[i] : i \in 1 .. n}
    /\ waiting' = SubSeq(waiting, n + 1, Len(waiting))
    /\ UNCHANGED <<accepted, cap, held>>

\* A started run ends.
End(r) ==
    /\ r \in active
    /\ active' = active \ {r}
    /\ UNCHANGED <<waiting, accepted, cap, held>>

\* A waiting run is taken out of the line; the others keep their order.
Withdraw(r) ==
    /\ \E p \in 1 .. Len(waiting) :
         /\ waiting[p] = r
         /\ waiting' = [i \in 1 .. Len(waiting) - 1 |-> waiting[IF i < p THEN i ELSE i + 1]]
    /\ UNCHANGED <<active, accepted, cap, held>>

\* The daemon restarts: whatever waited or ran is over.
Interrupt ==
    /\ waiting' = <<>> /\ active' = {}
    /\ UNCHANGED <<accepted, cap, held>>

\* An operator changes the limit, drains or resumes.
Policy ==
    /\ cap' \in Nat \ {0} /\ held' \in BOOLEAN
    /\ UNCHANGED <<waiting, active, accepted>>

QNext ==
    \/ \E r \in Run : Accept(r) \/ End(r) \/ Withdraw(r)
    \/ \E n \in 1 .. Len(waiting) : Start(n)
    \/ Interrupt
    \/ Policy

QSpec == QInit /\ [][QNext]_qvars
=============================================================================
