------------------------------- MODULE Daemon -------------------------------
(***************************************************************************)
(* The daemon of one state directory: how commands of several releases     *)
(* install the executable, find, hand over or start the daemon             *)
(* (bin/bosn/run.rs ensure_daemon, bin/bosn/daemon_exe.rs), how a daemon   *)
(* takes the writer lock and the endpoint, serves, goes idle and shuts     *)
(* down (service.rs serve, handoff.rs, transport.rs), and how the operator *)
(* disables and enables it (bin/bosn/daemon_switch.rs) or has it           *)
(* supervised (autostart.rs).                                              *)
(*                                                                         *)
(* A command sends one request for work.  The wire, the work and the       *)
(* platform's service manager are abstracted to their outcomes.            *)
(***************************************************************************)
EXTENDS Naturals, FiniteSets

CONSTANTS
    Client,       \* commands, each run once
    Process,      \* daemon processes that can exist at one time
    Release,      \* [Client -> the release of each command]
    Legacy,       \* releases whose daemon reports no protocol window
    CiClient,     \* the commands that ask for a CI run; the others, for a job
    MaxCrashes,   \* daemon crashes in one behaviour
    MaxEnables    \* times the operator enables the daemon or its unit

DaemonAssumption ==
    /\ Release \in [Client -> Nat \ {0}] /\ Legacy \subseteq Nat
    /\ CiClient \subseteq Client
    /\ MaxCrashes \in Nat /\ MaxEnables \in Nat
    /\ {"stale", "none"} \cap Process = {}

VARIABLES
    marker,    \* daemon.disabled exists
    unit,      \* the user unit of this state directory is enabled
    exe,       \* the release of <state>/daemon/bosn-daemon; 0 when there is none
    stamp,     \* the release its stamp file names; 0 when there is none
    daemon,    \* [Process -> [st, rel, by]]: by the unit or as a child
    socket,    \* the process whose listener is at the endpoint, "stale" or "none"
    command,   \* [Client -> where the command is]
    seen,      \* [Client -> the release of the daemon it last identified]
    work,      \* the commands whose work was accepted and has not ended
    asked,     \* [Process -> the command whose hand-off it decides, and how far]
    operator,  \* where `bosn daemon disable` is
    crashes, enables

daemonVars == <<marker, unit, exe, stamp, daemon, socket, command, seen, work, asked,
                operator, crashes, enables>>

NoDaemon == [st |-> "none", rel |-> 0, by |-> "child"]
Serving == {p \in Process : daemon[p].st = "serving"}

\* The writer lock is held from open_writer until the registry actor ends.
HoldsWriter == {p \in Process : daemon[p].st \in {"writer", "bound", "serving", "stopping"}}

\* A daemon listens from bind until serve returns: before it answers, after it
\* has stopped answering, and after it has released the writer lock.
Listens == {p \in Process : daemon[p].st \in {"bound", "serving", "stopping", "closing"}}

DaemonInit ==
    /\ marker = FALSE /\ unit = FALSE /\ exe = 0 /\ stamp = 0
    /\ daemon = [p \in Process |-> NoDaemon]
    /\ socket = "none"
    /\ command = [c \in Client |-> "new"]
    /\ seen = [c \in Client |-> 0]
    /\ work = {}
    /\ asked = [p \in Process |-> <<>>]
    /\ operator = "idle"
    /\ crashes = 0 /\ enables = 0

--------------------------------------------------------------------------------
(* The executable *)

\* should_replace: nothing installed, or an older release is.
ShouldReplace(release, installed) == installed < release

\* ensure_daemon, up to the read of the stamp in install_daemon_executable.
BeginCommand(c) ==
    /\ command[c] = "new"
    /\ command' = [command EXCEPT ![c] =
           IF marker THEN "refused"
           ELSE IF ShouldReplace(Release[c], IF exe = 0 THEN 0 ELSE stamp)
                THEN "replace" ELSE "look"]
    /\ UNCHANGED <<marker, unit, exe, stamp, daemon, socket, seen, work, asked, operator,
                   crashes, enables>>

\* replace_atomically, or its failure: then an executable already there is kept.
ReplaceExecutable(c) ==
    /\ command[c] = "replace"
    /\ \/ exe' = Release[c] /\ command' = [command EXCEPT ![c] = "stamp"]
       \/ /\ UNCHANGED exe
          /\ command' = [command EXCEPT ![c] = IF exe = 0 THEN "failed" ELSE "look"]
    /\ UNCHANGED <<marker, unit, stamp, daemon, socket, seen, work, asked, operator,
                   crashes, enables>>

\* The stamp is renamed into place after the executable was.
WriteStamp(c) ==
    /\ command[c] = "stamp"
    /\ stamp' = Release[c]
    /\ command' = [command EXCEPT ![c] = "look"]
    /\ UNCHANGED <<marker, unit, exe, daemon, socket, seen, work, asked, operator,
                   crashes, enables>>

--------------------------------------------------------------------------------
(* The command *)

\* daemon_version_mismatch: a daemon without a window serves its own release.
Compatible(mine, theirs) == theirs \in Legacy => theirs = mine

\* matching_daemon, from the identity the command has read.
Matched(c, release) == IF Compatible(Release[c], release) THEN "ready" ELSE "failed"

\* ensure_daemon: what to do about the daemon that answers, if one does.
LookForDaemon(c) ==
    /\ command[c] = "look"
    /\ \/ /\ Serving = {}
          /\ command' = [command EXCEPT ![c] = "start"]
          /\ UNCHANGED seen
       \/ \E p \in Serving :
             /\ seen' = [seen EXCEPT ![c] = daemon[p].rel]
             /\ command' = [command EXCEPT ![c] =
                    IF daemon[p].rel \in Legacy \/ daemon[p].rel >= Release[c]
                    THEN Matched(c, daemon[p].rel) ELSE "handoff"]
    /\ UNCHANGED <<marker, unit, exe, stamp, daemon, socket, work, asked, operator,
                   crashes, enables>>

\* hand_off_idle_daemon: ask the daemon; one that no longer answers is an
\* error, and the command goes on with the identity it read before.
AskToStop(c) ==
    /\ command[c] = "handoff"
    /\ \/ /\ \A p \in Serving : asked[p] # <<>>
          /\ command' = [command EXCEPT ![c] = Matched(c, seen[c])]
          /\ UNCHANGED asked
       \/ \E p \in Serving :
             /\ asked[p] = <<>>
             /\ asked' = [asked EXCEPT ![p] = <<c, "jobs">>]
             /\ command' = [command EXCEPT ![c] = "answer"]
    /\ UNCHANGED <<marker, unit, exe, stamp, daemon, socket, seen, work, operator,
                   crashes, enables>>

\* The wait for the old daemon: until a ping goes unanswered or time is up.
AwaitGone(c) ==
    /\ command[c] = "waitgone"
    /\ command' = [command EXCEPT ![c] =
           IF Serving = {} THEN "start" ELSE Matched(c, seen[c])]
    /\ UNCHANGED <<marker, unit, exe, stamp, daemon, socket, seen, work, asked, operator,
                   crashes, enables>>

\* A process of the installed executable begins in a free slot.
Begun(by) == [st |-> "begun", rel |-> exe, by |-> by]
Launch(by) ==
    \E p \in Process : daemon[p] = NoDaemon /\ daemon' = [daemon EXCEPT ![p] = Begun(by)]

\* start_if_enabled, and the service manager's start: a no-op when the unit is up.
StartUnit ==
    IF \E p \in Process : daemon[p].by = "unit" THEN UNCHANGED daemon ELSE Launch("unit")

\* start_daemon: through the unit or by a detached child; either may fail.
StartDaemon(c) ==
    /\ command[c] = "start"
    /\ \/ /\ marker
          /\ command' = [command EXCEPT ![c] = "refused"]
          /\ UNCHANGED daemon
       \/ /\ ~marker
          /\ IF unit THEN StartUnit ELSE Launch("child")
          /\ command' = [command EXCEPT ![c] = "waitup"]
       \/ /\ ~marker
          /\ command' = [command EXCEPT ![c] = "failed"]
          /\ UNCHANGED daemon
    /\ UNCHANGED <<marker, unit, exe, stamp, socket, seen, work, asked, operator,
                   crashes, enables>>

\* wait_for_started_daemon: the identity, or the end of the wait without one.
AwaitStarted(c) ==
    /\ command[c] = "waitup"
    /\ \/ /\ Serving = {}
          /\ command' = [command EXCEPT ![c] = "failed"]
          /\ UNCHANGED seen
       \/ \E p \in Serving :
             /\ seen' = [seen EXCEPT ![c] = daemon[p].rel]
             /\ command' = [command EXCEPT ![c] = Matched(c, daemon[p].rel)]
    /\ UNCHANGED <<marker, unit, exe, stamp, daemon, socket, work, asked, operator,
                   crashes, enables>>

\* submit_ensure, submit_task or a CI run: accepted by the daemon that serves.
\* A protocol the daemon does not serve is refused (protocol_window_refusal).
SubmitWork(c) ==
    /\ command[c] = "ready"
    /\ \/ /\ Serving = {}
          /\ command' = [command EXCEPT ![c] = "failed"]
          /\ UNCHANGED work
       \/ \E p \in Serving :
             IF Compatible(Release[c], daemon[p].rel)
             THEN work' = work \union {c} /\ command' = [command EXCEPT ![c] = "follow"]
             ELSE UNCHANGED work /\ command' = [command EXCEPT ![c] = "failed"]
    /\ UNCHANGED <<marker, unit, exe, stamp, daemon, socket, seen, asked, operator,
                   crashes, enables>>

\* The work ends and follow_job reads its end.
WorkEnds(c) ==
    /\ c \in work
    /\ work' = work \ {c}
    /\ command' = [command EXCEPT ![c] = "done"]
    /\ UNCHANGED <<marker, unit, exe, stamp, daemon, socket, seen, asked, operator,
                   crashes, enables>>

--------------------------------------------------------------------------------
(* The daemon *)

\* A command that waits for the answer of a process that is gone.
Unanswered(c, p) == asked[p] # <<>> /\ asked[p][1] = c

\* run_daemon serve and open_writer: refused while disabled, and a daemon that
\* finds the writer lock held leaves the other in charge.
TakeWriter(p) ==
    /\ daemon[p].st = "begun"
    /\ daemon' = [daemon EXCEPT ![p] =
           IF marker \/ HoldsWriter # {} THEN NoDaemon ELSE [@ EXCEPT !.st = "writer"]]
    /\ UNCHANGED <<marker, unit, exe, stamp, socket, command, seen, work, asked, operator,
                   crashes, enables>>

\* retire_stale_socket and bind_owner_only: an endpoint with a live listener
\* is occupied, and the start fails.
Bind(p) ==
    /\ daemon[p].st = "writer"
    /\ IF socket \in Listens
       THEN daemon' = [daemon EXCEPT ![p] = NoDaemon] /\ UNCHANGED socket
       ELSE daemon' = [daemon EXCEPT ![p].st = "bound"] /\ socket' = p
    /\ UNCHANGED <<marker, unit, exe, stamp, command, seen, work, asked, operator,
                   crashes, enables>>

\* The rest of the start-up: the runner ledger, the actors, the recoveries and
\* the CI runtime, then the accept loop; a failed recovery ends the daemon.
StartUp(p) ==
    /\ daemon[p].st = "bound"
    /\ \/ daemon' = [daemon EXCEPT ![p].st = "serving"] /\ UNCHANGED socket
       \/ daemon' = [daemon EXCEPT ![p] = NoDaemon] /\ socket' = "none"
    /\ UNCHANGED <<marker, unit, exe, stamp, command, seen, work, asked, operator,
                   crashes, enables>>

\* busy_reason, first read: the unfinished jobs.
BusyJobs(p) ==
    /\ asked[p] # <<>> /\ asked[p][2] = "jobs" /\ daemon[p].st \in {"serving", "stopping"}
    /\ IF work \ CiClient # {}
       THEN /\ asked' = [asked EXCEPT ![p] = <<>>]
            /\ command' = [command EXCEPT ![asked[p][1]] = Matched(asked[p][1], seen[asked[p][1]])]
       ELSE asked' = [asked EXCEPT ![p][2] = "runs"] /\ UNCHANGED command
    /\ UNCHANGED <<marker, unit, exe, stamp, daemon, socket, seen, work, operator,
                   crashes, enables>>

\* busy_reason, the CI runs and the leases, then stop_if_idle's stop.
BusyRuns(p) ==
    /\ asked[p] # <<>> /\ asked[p][2] = "runs" /\ daemon[p].st \in {"serving", "stopping"}
    /\ LET c == asked[p][1]
           busy == work \cap CiClient # {}
       IN  /\ command' = [command EXCEPT ![c] = IF busy THEN Matched(c, seen[c]) ELSE "waitgone"]
           /\ daemon' = IF busy THEN daemon ELSE [daemon EXCEPT ![p].st = "stopping"]
    /\ asked' = [asked EXCEPT ![p] = <<>>]
    /\ UNCHANGED <<marker, unit, exe, stamp, socket, seen, work, operator, crashes, enables>>

\* The accept loop's idle exit: no client is connected, so nothing can be
\* accepted between its reads and its stop.
IdleExit(p) ==
    /\ daemon[p].st = "serving" /\ asked[p] = <<>>
    /\ work = {}
    /\ daemon' = [daemon EXCEPT ![p].st = "stopping"]
    /\ UNCHANGED <<marker, unit, exe, stamp, socket, command, seen, work, asked, operator,
                   crashes, enables>>

\* The end of serve: the connections are served, jobs are cancelled and
\* drained, then the registry actor ends and with it the writer lock.
Drain(p) ==
    /\ daemon[p].st = "stopping" /\ asked[p] = <<>>
    /\ daemon' = [daemon EXCEPT ![p].st = "closing"]
    /\ work' = {}
    /\ command' = [c \in Client |-> IF c \in work THEN "cancelled" ELSE command[c]]
    /\ UNCHANGED <<marker, unit, exe, stamp, socket, seen, asked, operator, crashes, enables>>

\* serve returns, and its listener with it.
CloseListener(p) ==
    /\ daemon[p].st = "closing"
    /\ daemon' = [daemon EXCEPT ![p] = NoDaemon]
    /\ socket' = IF socket = p THEN "none" ELSE socket
    /\ UNCHANGED <<marker, unit, exe, stamp, command, seen, work, asked, operator,
                   crashes, enables>>

\* A daemon dies: its socket file stays, its work is lost, and a unit
\* (Restart=on-failure) starts the executable again.
CrashDaemon(p) ==
    /\ crashes < MaxCrashes
    /\ daemon[p].st \in {"writer", "bound", "serving", "stopping"}
    /\ crashes' = crashes + 1
    /\ daemon' = [daemon EXCEPT ![p] =
           IF @.by = "unit" THEN Begun("unit") ELSE NoDaemon]
    /\ socket' = IF socket = p THEN "stale" ELSE socket
    /\ work' = IF daemon[p].st \in {"serving", "stopping"} THEN {} ELSE work
    /\ command' = [c \in Client |->
           IF c \in work /\ daemon[p].st \in {"serving", "stopping"} THEN "failed"
           ELSE IF Unanswered(c, p) THEN Matched(c, seen[c]) ELSE command[c]]
    /\ asked' = [asked EXCEPT ![p] = <<>>]
    /\ UNCHANGED <<marker, unit, exe, stamp, seen, operator, enables>>

--------------------------------------------------------------------------------
(* The operator *)

\* daemon_switch::disable: the marker first.
Disable ==
    /\ operator = "idle" /\ ~marker
    /\ marker' = TRUE
    /\ operator' = "stopunit"
    /\ UNCHANGED <<unit, exe, stamp, daemon, socket, command, seen, work, asked, crashes, enables>>

\* The service manager ends the daemon of the unit, which dies of its signal.
KillUnit ==
    LET killed == {p \in Process : daemon[p].by = "unit"}
        ended == IF killed \cap (Serving \union {p \in Process : daemon[p].st = "stopping"}) = {}
                 THEN {} ELSE work
    IN  /\ daemon' = [p \in Process |-> IF p \in killed THEN NoDaemon ELSE daemon[p]]
        /\ socket' = IF socket \in killed THEN "stale" ELSE socket
        /\ work' = work \ ended
        /\ asked' = [p \in Process |-> IF p \in killed THEN <<>> ELSE asked[p]]
        /\ command' = [c \in Client |->
               IF c \in ended THEN "failed"
               ELSE IF \E p \in killed : Unanswered(c, p) THEN Matched(c, seen[c])
               ELSE command[c]]

\* stop_if_installed, when there is a unit.
StopUnit ==
    /\ operator = "stopunit"
    /\ operator' = "shutdown"
    /\ IF unit THEN KillUnit ELSE UNCHANGED <<daemon, socket, command, work, asked>>
    /\ UNCHANGED <<marker, unit, exe, stamp, seen, crashes, enables>>

\* The daemon that answers its identity is shut down (operation 3).
ShutDown ==
    /\ operator = "shutdown"
    /\ operator' = "idle"
    /\ daemon' = [p \in Process |->
           IF p \in Serving THEN [daemon[p] EXCEPT !.st = "stopping"] ELSE daemon[p]]
    /\ UNCHANGED <<marker, unit, exe, stamp, socket, command, seen, work, asked, crashes, enables>>

Enable ==
    /\ operator = "idle" /\ marker /\ enables < MaxEnables
    /\ marker' = FALSE
    /\ enables' = enables + 1
    /\ UNCHANGED <<unit, exe, stamp, daemon, socket, command, seen, work, asked, operator, crashes>>

\* `daemon autostart enable`, with an executable installed: the unit is
\* written, enabled and started.
AutostartEnable ==
    /\ operator = "idle" /\ ~unit /\ exe # 0 /\ enables < MaxEnables
    /\ unit' = TRUE
    /\ StartUnit
    /\ enables' = enables + 1
    /\ UNCHANGED <<marker, exe, stamp, socket, command, seen, work, asked, operator, crashes>>

\* `daemon autostart disable`: the unit is stopped, disabled and removed.
AutostartDisable ==
    /\ operator = "idle" /\ unit
    /\ unit' = FALSE
    /\ KillUnit
    /\ UNCHANGED <<marker, exe, stamp, seen, operator, crashes, enables>>

--------------------------------------------------------------------------------
CommandStep(c) ==
    \/ BeginCommand(c) \/ ReplaceExecutable(c) \/ WriteStamp(c) \/ LookForDaemon(c)
    \/ AskToStop(c) \/ AwaitGone(c) \/ StartDaemon(c) \/ AwaitStarted(c)
    \/ SubmitWork(c) \/ WorkEnds(c)

DaemonStep(p) ==
    \/ TakeWriter(p) \/ Bind(p) \/ StartUp(p) \/ BusyJobs(p) \/ BusyRuns(p) \/ IdleExit(p)
    \/ Drain(p) \/ CloseListener(p)

DaemonNext ==
    \/ \E c \in Client : CommandStep(c)
    \/ \E p \in Process : DaemonStep(p) \/ CrashDaemon(p)
    \/ Disable \/ StopUnit \/ ShutDown \/ Enable \/ AutostartEnable \/ AutostartDisable

CommandGoesOn(c) == command[c] # "new" /\ CommandStep(c)

\* Processes run and waits have deadlines.  A command that has begun goes on;
\* the operator may stop half way.
DaemonFairness ==
    /\ \A c \in Client :
          WF_daemonVars(CommandGoesOn(c))
    /\ \A p \in Process : WF_daemonVars(DaemonStep(p))

DaemonSpec == DaemonInit /\ [][DaemonNext]_daemonVars /\ DaemonFairness

--------------------------------------------------------------------------------
(* Properties *)

\* Accepted work has its daemon: whatever commands race to start one, hand one
\* over, kill or disable it, work that was accepted and has not ended is run
\* by the one daemon that holds the registry's writer lock, and the endpoint
\* leads to that daemon.
WorkHasItsDaemon ==
    work # {} =>
        \E p \in Process :
            /\ HoldsWriter = {p} /\ socket = p
            /\ daemon[p].st \in {"serving", "stopping"}

\* What holds again and again: disabling takes effect.  A daemon that passed
\* its check before the marker was written, and so still comes up, goes away.
DaemonSettled == marker => Serving = {}
=============================================================================
