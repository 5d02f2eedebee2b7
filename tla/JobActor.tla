------------------------------ MODULE JobActor ------------------------------
(***************************************************************************)
(* The job actor: crates/bosn-service/src/job_loop.rs (job_actor,           *)
(* cancel_job_in_actor, launch_started_setup_jobs), job_support.rs          *)
(* (clients_gone) and the commands of job_api.rs, driving the scheduler of  *)
(* module Jobs, with the executor tasks it launches.                        *)
(*                                                                          *)
(* The actor is one task: an iteration sweeps (stalled jobs, jobs whose     *)
(* clients are gone), handles one command and launches what was admitted.   *)
(* It awaits the registry inside a command, so the clock, the clients and   *)
(* the executors move between the phases of an iteration but no other       *)
(* command does.  A command is chosen when it is handled: its sender is     *)
(* free to have sent it at any earlier time.                                *)
(***************************************************************************)
EXTENDS Jobs

CONSTANTS
    GenericStacks,    \* JobCommand::Submit: jobs without a daemon executor
    AuditedStacks,    \* setup ensure: durable submitted and terminal events
    RecordedStacks,   \* setup and manifest ensure: the actor records the result
    ConvergeStacks,   \* manifest converge: each member recorded as it succeeds
    RegistryFails,    \* whether registry writes may fail
    CancelAgain       \* whether clients cancel a job that is already cancelling

ASSUME ActorAssumption ==
    /\ GenericStacks \subseteq Stacks
    /\ AuditedStacks \subseteq RecordedStacks
    /\ RecordedStacks \subseteq Stacks
    /\ ConvergeStacks \subseteq Stacks
    /\ ConvergeStacks \cap RecordedStacks = {}
    /\ {RegistryFails, CancelAgain} \subseteq BOOLEAN

VARIABLES
    phase,          \* where the actor is in its iteration
    sweep,          \* this iteration sweeps owners and stalls
    doomed,         \* jobs the sweep still has to cancel, in ID order
    doomedNext,     \* and the ones after those
    requests,       \* jobs with a request that is not launched yet
    setup_kinds,    \* unsettled setup-ensure jobs with a submission event
    cancellations,  \* launched jobs that have not reported completion
    cancelled,      \* launched jobs whose cancellation token has fired
    executor,       \* the executor task of each job
    audit,          \* durable setup-ensure events of each job
    recorded,       \* jobs whose successful ensure is in the registry
    stopping        \* a Stop command was received

sweepVars == <<sweep, doomed, doomedNext>>
tableVars == <<requests, setup_kinds, cancellations, cancelled>>
durableVars == <<audit, recorded>>
actorVars == <<phase, sweepVars, tableVars, executor, durableVars, stopping>>
allVars == <<vars, actorVars>>

Phases == {"wait", "stall", "gone", "command", "audit", "close", "halt", "launch", "stopped"}

\* "persist", "member", "ok" and "err": the executor has sent PersistSetupEnsure or
\* PersistManifestEnsure, PersistManifestConvergeStack, or Completed.
ExecutorStates == {"none", "working", "persist", "member", "ok", "err", "ended"}

Events == {"submitted", "Succeeded", "Failed", "Cancelled", "Superseded"}

ActorTypeOK ==
    /\ phase \in Phases
    /\ sweep \in BOOLEAN
    /\ doomed \subseteq Ids
    /\ doomedNext \subseteq Ids
    /\ requests \subseteq Ids
    /\ setup_kinds \subseteq Ids
    /\ cancellations \subseteq Ids
    /\ cancelled \subseteq Ids
    /\ executor \in [Ids -> ExecutorStates]
    /\ audit \in [Ids -> Seq(Events)]
    /\ recorded \subseteq Ids
    /\ stopping \in BOOLEAN

ActorInit ==
    /\ Init
    /\ phase = "wait"
    /\ sweep = FALSE
    /\ doomed = {}
    /\ doomedNext = {}
    /\ requests = {}
    /\ setup_kinds = {}
    /\ cancellations = {}
    /\ cancelled = {}
    /\ executor = [id \in Ids |-> "none"]
    /\ audit = [id \in Ids |-> <<>>]
    /\ recorded = {}
    /\ stopping = FALSE

Lowest(S, id) == id \in S /\ \A j \in S : id <= j

\* A write to the registry: TRUE when it succeeds.
Written == IF RegistryFails THEN BOOLEAN ELSE {TRUE}

\* append_setup_ensure_events of one event.
AppendEvent(id, event, written) ==
    audit' = IF written THEN [audit EXCEPT ![id] = Append(@, event)] ELSE audit

-----------------------------------------------------------------------------
\* The sweep at the start of an iteration.

\* Woken by a command or by the sweep timer.  Any running runner job may have
\* been silent for stall_after.
Wake ==
    /\ ~Busy /\ ~panicked
    /\ phase = "wait"
    /\ \E sw \in BOOLEAN, stalled \in SUBSET {id \in Ids : state[id] = "Running"
                                                           /\ Class(id) = "Runner"} :
          /\ (stopping \/ ~sw) => stalled = {}
          /\ sweep' = sw
          /\ doomed' = stalled
    /\ phase' = IF stopping THEN "command" ELSE "stall"
    /\ UNCHANGED <<vars, doomedNext, tableVars, executor, durableVars, stopping>>

\* A variant of CancelInActor that never fires a token.
CancelUnsignalled(id) ==
    /\ Cancel(id)
    /\ requests' = IF state[id] # "Running" THEN requests \ {id} ELSE requests
    /\ UNCHANGED <<setup_kinds, cancellations, cancelled, executor, audit, recorded, stopping>>

\* cancel_job_in_actor
CancelInActor(id) ==
    /\ Cancel(id)
    /\ LET ends == state[id] # "Running"
           forget == id \notin cancellations /\ ends
       IN  /\ cancelled' = IF id \in cancellations THEN cancelled \cup {id} ELSE cancelled
           /\ requests' = IF forget THEN requests \ {id} ELSE requests
           /\ setup_kinds' = IF forget THEN setup_kinds \ {id} ELSE setup_kinds
           /\ IF forget /\ id \in setup_kinds
              THEN \E written \in Written : AppendEvent(id, "Cancelled", written)
              ELSE UNCHANGED audit
           /\ UNCHANGED <<cancellations, executor, recorded, stopping>>

\* Cancel the next job of the sweep; one that ended meanwhile is left alone.
Doom(id) ==
    /\ ~Busy /\ ~panicked
    /\ phase \in {"stall", "gone"}
    /\ \/ Lowest(doomed, id) /\ doomed' = doomed \ {id} /\ UNCHANGED doomedNext
       \/ doomed = {} /\ Lowest(doomedNext, id) /\ doomedNext' = doomedNext \ {id}
                      /\ UNCHANGED doomed
    /\ \/ CancelInActor(id)
       \/ ~Unfinished(id) /\ UNCHANGED <<vars, tableVars, executor, durableVars, stopping>>
    /\ UNCHANGED <<phase, sweep>>

\* A variant of ClientsGone that only looks at owners.
ClientsGoneOwners ==
    /\ ~Busy /\ ~panicked
    /\ phase = "stall"
    /\ doomed = {}
    /\ phase' = "gone"
    /\ UNCHANGED <<vars, sweepVars, tableVars, executor, durableVars, stopping>>

\* clients_gone: owners are looked up on a sweep, leases on every iteration.
ClientsGone ==
    /\ ~Busy /\ ~panicked
    /\ phase = "stall"
    /\ doomed = {}
    /\ phase' = "gone"
    /\ \E dead \in SUBSET gone :
          /\ ~sweep => dead = {}
          /\ LET orphans == {id \in OrphanedJobs(dead) : state[id] \in {"Queued", "Running"}}
             IN  /\ doomed' = orphans
                 /\ doomedNext' = ExpiredLeases \ orphans
          /\ \/ Orphaned(dead)
             \/ OrphanedJobs(dead) = {} /\ UNCHANGED vars
    /\ UNCHANGED <<sweep, tableVars, executor, durableVars, stopping>>

Swept ==
    /\ ~Busy /\ ~panicked
    /\ phase = "gone"
    /\ doomed = {}
    /\ doomedNext = {}
    /\ phase' = "command"
    /\ UNCHANGED <<vars, sweepVars, tableVars, executor, durableVars, stopping>>

-----------------------------------------------------------------------------
\* Launching what was admitted.

\* launch_started_setup_jobs: every admitted job with a request gets an executor
\* and a fresh cancellation token.
LaunchStarted ==
    LET launched == {id \in requests : \E i \in DOMAIN started : started[i] = id}
    IN  /\ \/ TakeStarted
           \/ started = <<>> /\ UNCHANGED vars
        /\ requests' = requests \ launched
        /\ cancellations' = cancellations \cup launched
        /\ executor' = [id \in Ids |-> IF id \in launched THEN "working" ELSE executor[id]]
        /\ UNCHANGED <<sweepVars, setup_kinds, cancelled, durableVars, stopping>>

-----------------------------------------------------------------------------
\* The commands.

AtCommand == ~Busy /\ ~panicked /\ phase = "command"

\* The timer woke the actor, or the command changes no state (a poll of an
\* unleased job, a log line, a listing, a refused request).
NoCommand ==
    /\ AtCommand
    /\ phase' = "launch"
    /\ UNCHANGED <<vars, sweepVars, tableVars, executor, durableVars, stopping>>

\* JobCommand::Submit and the SubmitSetup... and SubmitManifest... commands.
SubmitCommand(w, s, d, leased, owner) ==
    /\ AtCommand
    /\ CanCarry(s, leased, owner)
    /\ \/ /\ SubmitJoin(w, s, d, owner)
          /\ phase' = "launch"
          /\ UNCHANGED requests
       \/ /\ SubmitNew(w, s, d, leased, owner)
          /\ phase' = IF s \in AuditedStacks THEN "audit" ELSE "launch"
          /\ requests' = IF s \in GenericStacks \cup AuditedStacks THEN requests
                         ELSE requests \cup {next}
    /\ UNCHANGED <<sweepVars, setup_kinds, cancellations, cancelled, executor, durableVars,
                   stopping>>

\* A typed submission refused by a closed scheduler.  Its handler still launches
\* what was admitted, although the actor is stopping.
SubmitRefused ==
    /\ AtCommand
    /\ closing
    /\ LaunchStarted
    /\ phase' = "launch"

\* SubmitSetupEnsure, once the job exists: no operation is launched whose
\* submission event could not be written.
AuditSubmission ==
    LET id == next - 1
    IN  /\ ~Busy /\ ~panicked
        /\ phase = "audit"
        /\ phase' = "launch"
        /\ \E written \in Written :
              /\ AppendEvent(id, "submitted", written)
              /\ IF written
                 THEN /\ setup_kinds' = setup_kinds \cup {id}
                      /\ requests' = requests \cup {id}
                      /\ UNCHANGED vars
                 ELSE Settle(id, FALSE) /\ UNCHANGED <<setup_kinds, requests>>
        /\ UNCHANGED <<sweepVars, cancellations, cancelled, executor, recorded, stopping>>

\* Status and Logs
PollCommand(id) ==
    /\ AtCommand
    /\ Clients # gone
    /\ Touch(id)
    /\ phase' = "launch"
    /\ UNCHANGED <<sweepVars, tableVars, executor, durableVars, stopping>>

CancelCommand(id) ==
    /\ AtCommand
    /\ state[id] = "Cancelling" => CancelAgain
    /\ CancelInActor(id)
    /\ phase' = "launch"
    /\ UNCHANGED sweepVars

\* A variant of PersistCommand that does not look for a cancellation.
PersistRegardless(id) ==
    /\ AtCommand
    /\ executor[id] = "persist"
    /\ Settle(id, TRUE)
    /\ recorded' = recorded \cup {id}
    /\ cancellations' = cancellations \ {id}
    /\ setup_kinds' = setup_kinds \ {id}
    /\ executor' = [executor EXCEPT ![id] = "ended"]
    /\ phase' = "launch"
    /\ UNCHANGED <<sweepVars, requests, cancelled, audit, stopping>>

\* PersistSetupEnsure and PersistManifestEnsure: record and settle, unless a
\* cancellation came first or the registry refuses.
PersistCommand(id) ==
    /\ AtCommand
    /\ executor[id] = "persist"
    /\ \/ /\ state[id] = "Running"
          /\ Settle(id, TRUE)
          /\ recorded' = recorded \cup {id}
          /\ cancellations' = cancellations \ {id}
          /\ setup_kinds' = setup_kinds \ {id}
          /\ audit' = IF spec[id].stack \in AuditedStacks
                      THEN [audit EXCEPT ![id] = Append(@, "Succeeded")] ELSE audit
          /\ executor' = [executor EXCEPT ![id] = "ended"]
       \/ /\ state[id] # "Running" \/ RegistryFails
          /\ executor' = [executor EXCEPT ![id] = "err"]
          /\ UNCHANGED <<vars, setup_kinds, cancellations, durableVars>>
    /\ phase' = "launch"
    /\ UNCHANGED <<sweepVars, requests, cancelled, stopping>>

\* PersistManifestConvergeStack: the parent job keeps running.
PersistMemberCommand(id) ==
    /\ AtCommand
    /\ executor[id] = "member"
    /\ \/ /\ state[id] = "Running"
          /\ recorded' = recorded \cup {id}
          /\ executor' = [executor EXCEPT ![id] = "working"]
       \/ /\ state[id] # "Running" \/ RegistryFails
          /\ executor' = [executor EXCEPT ![id] = "err"]
          /\ UNCHANGED recorded
    /\ phase' = "launch"
    /\ UNCHANGED <<vars, sweepVars, tableVars, audit, stopping>>

\* A variant of CompletedCommand that returns early for a job that already ended.
CompletedUnfinished(id) ==
    /\ AtCommand
    /\ executor[id] \in {"ok", "err"}
    /\ executor' = [executor EXCEPT ![id] = "ended"]
    /\ \/ /\ Settle(id, executor[id] = "ok")
          /\ cancellations' = cancellations \ {id}
       \/ ~Unfinished(id) /\ UNCHANGED <<vars, cancellations>>
    /\ phase' = "launch"
    /\ UNCHANGED <<sweepVars, requests, setup_kinds, cancelled, audit, recorded, stopping>>

\* Completed: the terminal event of a failed or cancelled setup ensure, then
\* settle, which a job that already ended refuses.
CompletedCommand(id) ==
    LET ok == executor[id] = "ok"
        event == IF state[id] = "Cancelling" THEN "Cancelled" ELSE "Failed"
    IN  /\ AtCommand
        /\ executor[id] \in {"ok", "err"}
        /\ executor' = [executor EXCEPT ![id] = "ended"]
        /\ cancellations' = cancellations \ {id}
        /\ IF id \in setup_kinds
           THEN \E written \in Written : AppendEvent(id, event, written)
           ELSE UNCHANGED audit
        /\ \/ Settle(id, ok)
           \/ ~Unfinished(id) /\ UNCHANGED vars
        /\ setup_kinds' = IF state[id] = "Absent" THEN setup_kinds ELSE setup_kinds \ {id}
        /\ phase' = "launch"
        /\ UNCHANGED <<sweepVars, requests, cancelled, recorded, stopping>>

\* Stop closes admission, which ends the queued jobs,
StopCommand ==
    /\ AtCommand
    /\ Close
    /\ phase' = "close"
    /\ UNCHANGED <<sweepVars, tableVars, executor, durableVars, stopping>>

\* audits the cancelled ones in one write,
StopAudit ==
    LET ended == {id \in setup_kinds : state[id] = "Cancelled"}
    IN  /\ ~Busy /\ ~panicked
        /\ phase = "close"
        /\ \E written \in Written :
              audit' = [id \in Ids |-> IF written /\ id \in ended
                                      THEN Append(audit[id], "Cancelled") ELSE audit[id]]
        /\ setup_kinds' = setup_kinds \ ended
        /\ doomed' = cancellations
        /\ phase' = "halt"
        /\ UNCHANGED <<vars, sweep, doomedNext, requests, cancellations, cancelled, executor,
                       recorded, stopping>>

\* and cancels what is launched.
StopCancel(id) ==
    /\ ~Busy /\ ~panicked
    /\ phase = "halt"
    /\ Lowest(doomed, id)
    /\ doomed' = doomed \ {id}
    /\ \/ Cancel(id)
       \/ ~Unfinished(id) /\ UNCHANGED vars
    /\ cancelled' = cancelled \cup {id}
    /\ UNCHANGED <<phase, sweep, doomedNext, requests, setup_kinds, cancellations, executor,
                   durableVars, stopping>>

StopDone ==
    /\ ~Busy /\ ~panicked
    /\ phase = "halt"
    /\ doomed = {}
    /\ stopping' = TRUE
    /\ phase' = "launch"
    /\ UNCHANGED <<vars, sweepVars, tableVars, executor, durableVars>>

-----------------------------------------------------------------------------
\* The end of an iteration.

Launch ==
    /\ ~Busy /\ ~panicked
    /\ phase = "launch"
    /\ ~stopping
    /\ LaunchStarted
    /\ phase' = "wait"

\* Once stopping, the actor leaves when no launched job is outstanding, and
\* joins the executor tasks.
Stopping ==
    /\ ~Busy /\ ~panicked
    /\ phase = "launch"
    /\ stopping
    /\ phase' = IF cancellations = {} THEN "stopped" ELSE "wait"
    /\ UNCHANGED <<vars, sweepVars, tableVars, executor, durableVars, stopping>>

-----------------------------------------------------------------------------
\* Executors (external work: containers and setup tasks).  An executor ends in
\* success or failure whether or not its token has fired.

ExecutorSends(id, message) ==
    /\ ~Busy
    /\ executor[id] = "working"
    /\ executor' = [executor EXCEPT ![id] = message]
    /\ UNCHANGED <<vars, phase, sweepVars, tableVars, durableVars, stopping>>

ExecutorSucceeds(id) ==
    /\ TRUE \in Results
    /\ ExecutorSends(id, IF spec[id].stack \in RecordedStacks THEN "persist" ELSE "ok")
ExecutorFails(id) == FALSE \in Results /\ ExecutorSends(id, "err")
ExecutorMember(id) == /\ spec[id].stack \in ConvergeStacks
                      /\ ExecutorSends(id, "member")

Executors ==
    \E id \in Ids : ExecutorSucceeds(id) \/ ExecutorFails(id) \/ ExecutorMember(id)

-----------------------------------------------------------------------------

Commands ==
    \/ NoCommand
    \/ \E w \in Workspaces, s \in Stacks, d \in Digests, leased \in BOOLEAN,
          owner \in Clients \cup {NoClient} : SubmitCommand(w, s, d, leased, owner)
    \/ \E id \in Ids : \/ PollCommand(id) \/ CancelCommand(id)
                        \/ PersistCommand(id) \/ PersistMemberCommand(id)
                        \/ CompletedCommand(id)
    \/ SubmitRefused
    \/ StopCommand

\* The actor's own steps.
Actor ==
    \/ Internal /\ UNCHANGED actorVars
    \/ Wake \/ ClientsGone \/ Swept
    \/ \E id \in Ids : Doom(id) \/ StopCancel(id)
    \/ AuditSubmission \/ StopAudit \/ StopDone
    \/ Launch \/ Stopping

ActorNext ==
    \/ Actor
    \/ Commands
    \/ Executors
    \/ (Tick \/ \E c \in Clients : ClientExit(c)) /\ UNCHANGED actorVars

ActorSpec == ActorInit /\ [][ActorNext]_allVars

\* The actor never blocks on anything but its mailbox, whose wait ends at the next
\* sweep; the sweep timer keeps firing; the mailbox is first-in first-out, so what
\* an executor sends is handled; and the clock moves.
ActorFairness ==
    /\ WF_allVars(Actor \/ Commands)
    /\ SF_allVars(Wake /\ sweep')
    /\ WF_allVars(Tick /\ UNCHANGED actorVars)
    /\ \A id \in Ids :
          SF_allVars(PersistCommand(id) \/ PersistMemberCommand(id) \/ CompletedCommand(id))

\* Every executor has a deadline.
ExecutorsEnd == \A id \in Ids : SF_allVars(ExecutorSucceeds(id) \/ ExecutorFails(id))

FairActorSpec == ActorSpec /\ ActorFairness

-----------------------------------------------------------------------------
\* Properties.

\* The executor of the job is at work on its containers.
Executing(id) == executor[id] \in {"working", "member"}

\* jobs.rs:6 says that per key at most one job runs.  Two executors never work on
\* the same (workspace, stack) at once, whatever the scheduler believes.  (The key of
\* a job that ended and was retired is forgotten.)
OneExecutorPerKey ==
    \A i, j \in Ids :
      Executing(i) /\ Executing(j) /\ i # j /\ state[i] # "Absent" /\ state[j] # "Absent"
        => Key(i) # Key(j)

\* job_loop.rs:635, cancel_job_in_actor: a running job that is cancelled is signalled.
\* Between iterations, a launched job that is cancelling has its token fired.
CancelSignalled ==
    phase = "wait" /\ ~Busy =>
      \A id \in cancellations : state[id] = "Cancelling" => id \in cancelled

\* What cancel_job_in_actor and Stop do guarantee: the step that makes a launched job
\* cancelling fires its token.
LaunchedIsSignalled ==
    [][\A id \in cancellations :
         state[id] = "Running" /\ state'[id] = "Cancelling" => id \in cancelled']_allVars

\* Every job that holds a place of its lane is owned by somebody who will settle
\* it: it is waiting in the handoff to be launched, or its executor is outstanding.
HoldersAreOwned ==
    phase = "wait" /\ ~Busy =>
      \A id \in Ids : Holding(id) /\ spec[id].stack \notin GenericStacks =>
        \/ \E i \in DOMAIN started : started[i] = id
        \/ id \in cancellations /\ executor[id] \notin {"none", "ended"}

\* PersistSetupEnsure and PersistManifestEnsure: while its job is in the table, an
\* ensure is in the registry exactly when the job succeeded: an accepted cancellation,
\* a failed executor or a refused write never leaves a recorded success, and no
\* success goes unrecorded.
RecordedIffSucceeded ==
    \A id \in Ids :
      state[id] # "Absent" /\ spec[id].stack \in RecordedStacks
        => (id \in recorded <=> state[id] = "Succeeded")

\* The submission event comes first and at most one terminal event follows.
AuditWellFormed ==
    \A id \in Ids :
      audit[id] # <<>> => /\ audit[id][1] = "submitted"
                          /\ Len(audit[id]) <= 2
                          /\ Len(audit[id]) = 2 => audit[id][2] # "submitted"

\* Every running job is owned, and its owner is told when it is cancelled.
RunningIsOwned == []HoldersAreOwned /\ LaunchedIsSignalled

\* What the registry remembers of a job is what happened to it.
HistoryIsTrue == RecordedIffSucceeded /\ AuditWellFormed

\* jobs.rs:268 unwraps the slot of the active job it read before finishing the
\* superseded one: the slot is still there.
NoPanic == ~panicked

\* job_loop.rs:28: a job whose follower vanished is cancelled even when no other
\* command arrives: it does not wait for its executor to end.
FollowerGoneEndsJob ==
    \A id \in Ids :
      id \in leases /\ gone = Clients
        ~> state[id] \notin {"Queued", "Running"} \/ panicked \/ phase = "stopped"

\* Every admitted or waiting job ends, if executors do: no place is leaked, no
\* promotion forgotten, no completion lost.  (A job of JobCommand::Submit has no
\* executor.)
JobsSettle ==
    ExecutorsEnd =>
      \A id \in Ids :
        Unfinished(id) /\ spec[id].stack \notin GenericStacks
          ~> ~Unfinished(id) \/ panicked \/ phase = "stopped"

\* The daemon's stop waits for the actor, which leaves once every launched executor
\* has reported.
StopCompletes == ExecutorsEnd => (stopping ~> phase = "stopped")

\* Nothing the actor started is left hanging, not even by its stop.
WorkEnds == JobsSettle /\ StopCompletes

=============================================================================
