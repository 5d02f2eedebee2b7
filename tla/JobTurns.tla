------------------------------ MODULE JobTurns ------------------------------
(***************************************************************************)
(* Fairness of admission between workspaces (jobs.rs, pump_at and           *)
(* next_queued), stated with a history variable over Jobs: passed[c][w][v]  *)
(* counts the admissions of workspace v in lane c since workspace w last    *)
(* had its turn, while the head of w's queue could have been admitted.      *)
(***************************************************************************)
EXTENDS Jobs

VARIABLE passed

turnVars == <<vars, passed>>

\* The head of the queue is a queued job whose follower is not quiet.
HeadReady(c, w) ==
    /\ queue[c][w] # <<>>
    /\ LET id == Head(queue[c][w]) IN state[id] = "Queued" /\ ~LeaseStale(id)

\* The step admitted a job of workspace w in class c.
Admitted(c, w) ==
    \E id \in Ids : /\ state[id] = "Queued" /\ state'[id] = "Running"
                    /\ spec[id].workspace = w /\ Class(id) = c

TurnsInit ==
    /\ Init
    /\ passed = [c \in Classes |-> [w \in Workspaces |-> [v \in Workspaces |-> 0]]]

TurnsNext ==
    /\ Next
    /\ passed' = [c \in Classes |-> [w \in Workspaces |-> [v \in Workspaces |->
                    IF Admitted(c, w) \/ ~HeadReady(c, w)' THEN 0
                    ELSE IF Admitted(c, v) THEN passed[c][w][v] + 1
                    ELSE passed[c][w][v]]]]

TurnsSpec == TurnsInit /\ [][TurnsNext]_turnVars

\* jobs.rs, module policy: admission is round-robin across workspaces, so one
\* checkout that queues many jobs cannot starve another's.  While a workspace
\* has an admissible job at the head of its queue, no other workspace is admitted
\* twice.
NobodyPassedTwice ==
    \A c \in Classes, w, v \in Workspaces : passed[c][w][v] <= 1

=============================================================================
