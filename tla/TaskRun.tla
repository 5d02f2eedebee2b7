------------------------------- MODULE TaskRun -------------------------------
(***************************************************************************)
(* One job at work (task_executors.rs, setup_executors.rs,                 *)
(* manifest_executors.rs, bosn-setup task.rs and task_stop.rs,             *)
(* bosn-engine): a row of bounded engine commands, each a local client     *)
(* process whose output is read under a deadline, a byte budget and a      *)
(* cancellation token, handed through a bounded channel to the forwarder   *)
(* that writes the job's log.  The last command of an application task     *)
(* runs a process in a container, and killing the local client does not    *)
(* end it: a stop script is sent after it.                                 *)
(*                                                                         *)
(* Output is counted in chunks.  The engine and the container are external.*)
(***************************************************************************)
EXTENDS Naturals, Sequences

CONSTANTS
    OutputLimits,   \* output budgets a request may ask for
    QueueLength,    \* of the channel of events
    MaxOutput       \* chunks all commands of a job write, at most

TaskRunAssumption == OutputLimits \subseteq Nat /\ QueueLength \in Nat \ {0} /\ MaxOutput \in Nat

VARIABLES
    kind,       \* which executor: "prepare", "task", "app_task" or "guest_task"
    limit,      \* the request's budget
    step,       \* the position in its row of commands; 0 before the first
    state,      \* "new", "between", "streaming", "blocked", "failing", "stopping", "closing", "done"
    cause,      \* why the last command ended: "none", "ok", "failed", "lost", "spawn", "early", "stopped"
    cancelled, expired,
    cli,        \* the local client: "none", "running", "exited"
    code,       \* "ok", "failed" or "lost", when it exited by itself
    remote,     \* the command's process in the container: "none", "asked", "running", "gone"
    late,       \* it began after its client had been killed
    pipe,       \* chunks the reader has not read
    read,       \* chunks of this command the reader has read
    queue,      \* chunks in the channel
    produced, logged,
    forwarder,  \* "up", or "failed" with the channel closed
    session,    \* "none", "open" or the outcome it was finished with
    outcome     \* what the executor returned: "none", "ok" or "error"

taskVars == <<kind, limit, step, state, cause, cancelled, expired, cli, code, remote, late, pipe,
              read, queue, produced, logged, forwarder, session, outcome>>
clientVars == <<cli, code, remote, late, pipe>>

--------------------------------------------------------------------------------
(* The executors: their commands and the share of the budget each may use *)

\* DockerSetupPrepareExecutor
PrepareShares(n) == <<n>>
\* DockerSetupTaskExecutor, DockerSetupEnsureExecutor: half for the image
TaskShares(n) == <<n \div 2, n - n \div 2>>
\* DockerSetupAppTaskExecutor: image, inspection, exec
AppTaskShares(n) == <<n \div 4, n \div 4, n - 3 * (n \div 4)>>
\* execute_manifest_guest_ssh_task: readiness, payload, command
GuestShares(n) == <<n \div 4, n \div 4, n - 2 * (n \div 4)>>

SharesOf(k, n) ==
    CASE k = "prepare" -> PrepareShares(n) [] k = "task" -> TaskShares(n)
      [] k = "app_task" -> AppTaskShares(n) [] k = "guest_task" -> GuestShares(n)

Shares == SharesOf(kind, limit)
Funded == \A i \in DOMAIN Shares : Shares[i] > 0

\* The commands whose process outlives its client, and what comes after it.
Remote == kind \in {"app_task", "guest_task"} /\ step = Len(Shares)
Stoppable == kind = "app_task" /\ Remote

TaskRunInit ==
    /\ kind \in {"prepare", "task", "app_task", "guest_task"} /\ limit \in OutputLimits
    /\ step = 0 /\ state = "new" /\ cause = "none"
    /\ cancelled = FALSE /\ expired = FALSE
    /\ cli = "none" /\ code = "ok" /\ remote = "none" /\ late = FALSE
    /\ pipe = 0 /\ read = 0 /\ queue = 0 /\ produced = 0 /\ logged = 0
    /\ forwarder = "up" /\ session = "none" /\ outcome = "none"

--------------------------------------------------------------------------------
(* The row of commands *)

Return(o) == state' = "done" /\ outcome' = o

\* The request is not derived from its plan (derive_command), cannot be funded,
\* or planning fails, is cancelled or is late.
Reject ==
    /\ state = "new"
    /\ Return("error")
    /\ UNCHANGED <<kind, limit, step, cause, cancelled, expired, clientVars, read, queue, produced,
                   logged, forwarder, session>>

Planned ==
    /\ state = "new" /\ Funded /\ ~cancelled /\ ~expired
    /\ state' = "between" /\ cause' = "ok"
    /\ UNCHANGED <<kind, limit, step, cancelled, expired, clientVars, read, queue, produced, logged,
                   forwarder, session, outcome>>

\* Between two commands: what was asked for is looked at again, the log is
\* told, and before the remote command its session is recorded.
GiveUp ==
    /\ state = "between" /\ step < Len(Shares)
    /\ cancelled \/ expired \/ forwarder = "failed" \/ step > 0
    /\ state' = "closing" /\ cause' = "early"
    /\ UNCHANGED <<kind, limit, step, cancelled, expired, clientVars, read, queue, produced, logged,
                   forwarder, session, outcome>>

LastIsRemote == kind \in {"app_task", "guest_task"} /\ step + 1 = Len(Shares)

\* DockerEngine::stream: the client is spawned.
Spawn ==
    /\ state = "between" /\ step < Len(Shares) /\ ~cancelled /\ ~expired
    /\ step' = step + 1
    /\ read' = 0
    /\ session' = IF LastIsRemote THEN "open" ELSE session
    /\ \/ /\ cli' = "running" /\ state' = "streaming" /\ cause' = "none"
          /\ remote' = IF LastIsRemote THEN "asked" ELSE remote
       \/ /\ state' = "closing" /\ cause' = "spawn" /\ UNCHANGED <<cli, remote>>
    /\ UNCHANGED <<kind, limit, cancelled, expired, code, late, pipe, queue, produced, logged,
                   forwarder, outcome>>

\* The client's output and its end.  Of a remote command they are those of its
\* process; ssh also ends when it loses its connection.
Writes ==
    /\ cli = "running" /\ state \in {"streaming", "blocked"} /\ produced < MaxOutput
    /\ Remote => remote = "running"
    /\ pipe' = pipe + 1 /\ produced' = produced + 1
    /\ UNCHANGED <<kind, limit, step, state, cause, cancelled, expired, cli, code, remote, late,
                   read, queue, logged, forwarder, session, outcome>>
Exits(c) ==
    /\ cli = "running" /\ state \in {"streaming", "blocked"}
    /\ c = "lost" => kind = "guest_task" /\ Remote
    /\ Remote /\ c # "lost" => remote = "gone"
    /\ cli' = "exited" /\ code' = c
    /\ UNCHANGED <<kind, limit, step, state, cause, cancelled, expired, remote, late, pipe, read,
                   queue, produced, logged, forwarder, session, outcome>>
RemoteBegins ==
    /\ remote = "asked"
    /\ remote' = "running" /\ late' = (cli # "running")
    /\ UNCHANGED <<kind, limit, step, state, cause, cancelled, expired, cli, code, pipe, read, queue,
                   produced, logged, forwarder, session, outcome>>
RemoteEnds ==
    /\ remote = "running"
    /\ remote' = "gone"
    /\ UNCHANGED <<kind, limit, step, state, cause, cancelled, expired, cli, code, late, pipe, read,
                   queue, produced, logged, forwarder, session, outcome>>

--------------------------------------------------------------------------------
(* Reading: DockerEngine::stream's loop *)

\* reap: the client is killed and waited for; what it wrote is lost.
Reap ==
    /\ cli' = "none" /\ pipe' = 0
    /\ state' = "failing" /\ cause' = "early"
    /\ UNCHANGED <<kind, limit, step, cancelled, expired, code, remote, late, read, queue, produced,
                   logged, forwarder, session, outcome>>

\* A variant of Interrupt that looks at the token only.
InterruptCancelled == state = "streaming" /\ cancelled /\ Reap

Interrupt == state = "streaming" /\ (cancelled \/ expired) /\ Reap
OverLimit == state = "streaming" /\ pipe > 0 /\ read + 1 > Shares[step] /\ Reap
\* A stream ends in another way than at its end: the output was abandoned.
Abandoned == state = "streaming" /\ cli = "exited" /\ Reap

TakeChunk ==
    /\ pipe' = pipe - 1 /\ read' = read + 1
    /\ UNCHANGED <<kind, limit, step, cause, cancelled, expired, cli, code, remote, late, produced,
                   logged, forwarder, session, outcome>>

\* A chunk goes into the channel; when that is full the reader waits for it.
ReadChunk ==
    /\ state = "streaming" /\ ~cancelled /\ ~expired /\ pipe > 0 /\ read + 1 <= Shares[step]
    /\ forwarder = "up"
    /\ TakeChunk
    /\ \/ queue < QueueLength /\ queue' = queue + 1 /\ UNCHANGED state
       \/ queue = QueueLength /\ state' = "blocked" /\ UNCHANGED queue
Unblock ==
    /\ state = "blocked" /\ forwarder = "up" /\ queue < QueueLength
    /\ queue' = queue + 1 /\ state' = "streaming"
    /\ UNCHANGED <<kind, limit, step, cause, cancelled, expired, clientVars, read, produced, logged,
                   forwarder, session, outcome>>
\* The consumer is too slow, or closed.
Stalled ==
    \/ state = "blocked" /\ (forwarder = "failed" \/ expired \/ queue = QueueLength) /\ Reap
    \/ state = "streaming" /\ pipe > 0 /\ forwarder = "failed" /\ Reap

\* Both streams ended and the client is gone: its exit status is the result.
Completed ==
    /\ state = "streaming" /\ cli = "exited" /\ pipe = 0
    /\ cli' = "none" /\ cause' = code
    /\ state' = IF code = "ok" /\ step < Len(Shares) THEN "between" ELSE "closing"
    /\ UNCHANGED <<kind, limit, step, cancelled, expired, code, remote, late, pipe, read, queue,
                   produced, logged, forwarder, session, outcome>>

--------------------------------------------------------------------------------
(* Stopping what a killed client left in the container *)

\* execute_setup_app_task: any error but a failed spawn is followed by a stop.
AfterError ==
    /\ state = "failing"
    /\ state' = IF Stoppable THEN "stopping" ELSE "closing"
    /\ cli' = IF Stoppable THEN "running" ELSE "none"
    /\ UNCHANGED <<kind, limit, step, cause, cancelled, expired, code, remote, late, pipe, read, queue,
                   produced, logged, forwarder, session, outcome>>

\* STOP_SCRIPT: INT, TERM, KILL until no process carries the token; one that has not
\* begun yet is not seen.  Its own output goes through the same channel.
StopScript(gone) ==
    /\ state = "stopping"
    /\ remote' = IF gone /\ remote = "running" THEN "gone" ELSE remote
    /\ state' = "closing" /\ cli' = "none" /\ pipe' = 0
    /\ cause' = IF gone /\ forwarder = "up" THEN "stopped" ELSE cause
    /\ UNCHANGED <<kind, limit, step, cancelled, expired, code, late, read, queue, produced, logged,
                   forwarder, session, outcome>>

--------------------------------------------------------------------------------
(* The log, and the end *)

\* forward_engine_event
Forward ==
    /\ forwarder = "up" /\ queue > 0
    /\ queue' = queue - 1 /\ logged' = logged + 1
    /\ UNCHANGED <<kind, limit, step, state, cause, cancelled, expired, clientVars, read, produced,
                   forwarder, session, outcome>>
SinkFails ==
    /\ forwarder = "up" /\ queue > 0 /\ outcome = "none"
    /\ forwarder' = "failed" /\ queue' = 0
    /\ UNCHANGED <<kind, limit, step, state, cause, cancelled, expired, clientVars, read, produced,
                   logged, session, outcome>>

SessionOutcome ==
    CASE cause = "ok" -> "succeeded" [] cause = "failed" -> "failed"
      [] cause = "stopped" -> "stopped" [] OTHER -> "uncertain"

\* A variant of Close that does not wait for the forwarder.
CloseAtOnce(recorded) ==
    /\ state = "closing"
    /\ session' = IF session = "open" /\ recorded THEN SessionOutcome ELSE session
    /\ Return(IF cause = "ok" /\ forwarder = "up" /\ (session = "open" => recorded)
              THEN "ok" ELSE "error")
    /\ UNCHANGED <<kind, limit, step, cause, cancelled, expired, clientVars, read, queue, produced,
                   logged, forwarder>>

\* drop(events), session.finish, the forwarder is awaited, and the result.
Close(recorded) ==
    /\ state = "closing" /\ (forwarder = "up" => queue = 0)
    /\ session' = IF session = "open" /\ recorded THEN SessionOutcome ELSE session
    /\ Return(IF cause = "ok" /\ forwarder = "up" /\ (session = "open" => recorded)
              THEN "ok" ELSE "error")
    /\ UNCHANGED <<kind, limit, step, cause, cancelled, expired, clientVars, read, queue, produced,
                   logged, forwarder>>

\* The job is cancelled; its time is up.
CancelTask ==
    /\ ~cancelled /\ cancelled' = TRUE
    /\ UNCHANGED <<kind, limit, step, state, cause, expired, clientVars, read, queue, produced, logged,
                   forwarder, session, outcome>>
Expire ==
    /\ ~expired /\ expired' = TRUE
    /\ UNCHANGED <<kind, limit, step, state, cause, cancelled, clientVars, read, queue, produced, logged,
                   forwarder, session, outcome>>

--------------------------------------------------------------------------------
Reader == Interrupt \/ OverLimit \/ Abandoned \/ ReadChunk \/ Unblock \/ Stalled \/ Completed
Executor ==
    \/ Reject \/ Planned \/ GiveUp \/ Spawn \/ AfterError
    \/ \E b \in BOOLEAN : StopScript(b) \/ Close(b)

TaskRunNext ==
    \/ Executor \/ Reader \/ Writes \/ RemoteBegins \/ RemoteEnds \/ Forward \/ SinkFails
    \/ \E c \in {"ok", "failed", "lost"} : Exits(c)
    \/ CancelTask \/ Expire

\* The executor, the reader and the forwarder are tasks that go on, and time
\* passes; neither the client nor its process need ever end by themselves.
TaskRunFairness ==
    /\ WF_taskVars(Executor) /\ WF_taskVars(Reader) /\ WF_taskVars(Forward) /\ WF_taskVars(Expire)

TaskRunSpec == TaskRunInit /\ [][TaskRunNext]_taskVars /\ TaskRunFairness

--------------------------------------------------------------------------------
(* Properties *)

\* A job that succeeded has all it wrote in its log, in spite of the queue, the
\* forwarder and the commands before the last, and never more than it asked for.
OkLoggedAll ==
    /\ outcome = "ok" => logged = produced
    /\ logged <= limit

\* A session is not closed over a process that still runs: an outcome other
\* than "uncertain" is recorded only when the command ended or was stopped.
\* (A command whose client was killed before it began may begin after the stop.)
SessionClosedIsGone ==
    session \in {"succeeded", "failed", "stopped"} => remote # "running" \/ late

\* The safety of a task's run.
TaskRunSafe == OkLoggedAll /\ SessionClosedIsGone

\* What holds again and again: every job ends, although a command hangs, the
\* log is slow or a process does not die.
TaskSettled == outcome # "none"
=============================================================================
