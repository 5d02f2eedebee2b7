-------------------------------- MODULE Widget --------------------------------
(***************************************************************************)
(* The desktop widget and the daemon: the daemon's record of the widget     *)
(* (ci/widget.rs) and the requests on it (ci/runtime/widget.rs), the widget  *)
(* process's control loop (bosn-widget), the user's starts and quits, the    *)
(* session's automatic starts, and the repair that replaces a widget of an   *)
(* older release while it runs.                                              *)
(*                                                                           *)
(* Time is kept as two facts that may change at any moment: whether the last *)
(* heartbeat is younger than HEARTBEAT_TIMEOUT and whether the last launch   *)
(* is younger than LAUNCH_DEBOUNCE.  Of the commands only Quit is told from  *)
(* the others, which stand for Toggle, Show, Open and OpenExternal.          *)
(***************************************************************************)
EXTENDS Integers, Sequences, FiniteSets, SequencesExt

CONSTANTS WidgetPids,    \* bound: the widget processes ever started, numbered as they start
          Sessions,      \* graphical sessions
          MaxCommands,   \* MAX_QUEUED
          MaxDaemonRuns, \* bound: daemons started one after the other
          MaxLostPolls,  \* bound: replies lost on the way to the widget
          NoSession

WidgetBounds == /\ MaxCommands \in Nat \ {0} /\ MaxDaemonRuns \in Nat \ {0}
                       /\ MaxLostPolls \in Nat
                       /\ WidgetPids \subseteq Nat \ {0} /\ NoSession \notin Sessions

VARIABLES wd,        \* the daemon's WidgetState, and whether the daemon is up
          wproc,     \* the widget processes
          repair,    \* the detached repair task (widget_repairing)
          unitNew,   \* the unit starts a widget of the daemon's release
          asked,     \* a quit command between its two critical sections
          quitBy,    \* sessions in which the user has quit a widget
          wcount     \* daemons started, replies lost, and the excused dismissals

wVars == <<wd, wproc, repair, unitNew, asked, quitBy, wcount>>

NoPid == 0
Upgrade == -1   \* the sender of a replacement's quit
Live == {"hello", "poll", "rehello", "leaving"}

FreshWidgetState ==
  [up |-> TRUE, seen |-> NoPid, session |-> NoSession, fresh |-> FALSE, dismissed |-> NoSession,
   queue |-> <<>>, recent |-> FALSE, replacing |-> NoPid, ready |-> FALSE, quitSent |-> FALSE]

NoRepair == [for |-> NoPid, at |-> "none"]

NoProcess(at) == [at |-> at, session |-> NoSession, explicit |-> FALSE, old |-> FALSE,
                  unit |-> FALSE, why |-> "none"]

\* A widget of the older release is installed when the newer daemon starts.
WidgetInit ==
  /\ wd = FreshWidgetState
  /\ wproc = [p \in WidgetPids |-> NoProcess("unborn")]
  /\ repair = NoRepair
  /\ unitNew = FALSE
  /\ asked = FALSE
  /\ quitBy = {}
  /\ wcount = [daemons |-> 1, lost |-> 0, excused |-> FALSE]

-----------------------------------------------------------------------------
(* WidgetState. *)

Presence ==
  IF wd.seen # NoPid /\ wd.fresh THEN "connected"
  ELSE IF wd.dismissed # NoSession THEN "dismissed" ELSE "absent"

NoReplacement(w) == [w EXCEPT !.replacing = NoPid, !.ready = FALSE, !.quitSent = FALSE]

\* hello refuses an automatic start in the session the user quit in.
HelloAllowed(s, explicit) == explicit \/ wd.dismissed # s

\* hello: the process is the widget now; a quit meant for the one before goes.
Registered(p, s) ==
  [wd EXCEPT !.dismissed = NoSession, !.seen = p, !.session = s, !.fresh = TRUE,
             !.queue = SelectSeq(@, LAMBDA c : ~c.quit)]

\* hello_release: an older widget is to be replaced, a newer one no longer.
HelloRelease(p, s, old) ==
  LET w == Registered(p, s)
  IN  IF old /\ wd.replacing # p
      THEN [w EXCEPT !.replacing = p, !.ready = FALSE, !.quitSent = FALSE]
      ELSE IF ~old /\ wd.replacing = p THEN NoReplacement(w) ELSE w

\* repair_widget: one repair at a time, whatever widget it is for.
StartRepair(p, old) ==
  repair' = IF old /\ repair = NoRepair THEN [for |-> p, at |-> "install"] ELSE repair

\* poll: the commands for the process, a replacement's quit last.
QuitsNow(p) == wd.replacing = p /\ wd.ready
PollCommands(p) ==
  (IF wd.seen = p THEN wd.queue ELSE <<>>)
  \o (IF QuitsNow(p) THEN <<[quit |-> TRUE, to |-> Upgrade]>> ELSE <<>>)
Polled(p) ==
  LET w == IF QuitsNow(p) THEN [wd EXCEPT !.ready = FALSE, !.quitSent = TRUE] ELSE wd
  IN  IF wd.seen = p THEN [w EXCEPT !.fresh = TRUE, !.queue = <<>>] ELSE w

\* A variant of Dismissed that takes every quit for the user's.
DismissedAlways(p, s) ==
  [NoReplacement(wd) EXCEPT !.dismissed = s, !.seen = NoPid, !.session = NoSession,
                            !.fresh = FALSE, !.queue = <<>>]

\* dismiss: the exit of a replaced widget is not the user's choice, and a
\* process that is not the registered widget changes nothing.
Dismissed(p, s) ==
  IF wd.seen # NoPid /\ wd.session # s THEN wd
  ELSE IF wd.quitSent /\ wd.replacing = p
       THEN LET w == NoReplacement(wd)
            IN  IF wd.seen # p THEN w
                ELSE [w EXCEPT !.seen = NoPid, !.session = NoSession, !.fresh = FALSE,
                               !.queue = <<>>]
  ELSE IF wd.replacing = p /\ wd.seen \notin {NoPid, p}
       THEN [NoReplacement(wd) EXCEPT !.dismissed = s]
  ELSE IF wd.seen \notin {NoPid, p} THEN wd
  ELSE [NoReplacement(wd) EXCEPT !.dismissed = s, !.seen = NoPid, !.session = NoSession,
                                 !.fresh = FALSE, !.queue = <<>>]

-----------------------------------------------------------------------------
(* Starts. *)

LockHeld == \E p \in WidgetPids : wproc[p].at \in Live

\* The next process to start.
NextPid(p) == wproc[p].at = "unborn" /\ \A q \in WidgetPids : q < p => wproc[q].at # "unborn"

Born(p, s, explicit, old, unit) ==
  wproc' = [wproc EXCEPT ![p] = [at |-> "hello", session |-> s, explicit |-> explicit,
                                 old |-> old, unit |-> unit, why |-> "none"]]

\* enqueue: the oldest command goes when the queue is full.
Enqueued(quit) ==
  LET q == IF Len(wd.queue) = MaxCommands THEN Tail(wd.queue) ELSE wd.queue
  IN  [wd EXCEPT !.queue = Append(q, [quit |-> quit, to |-> wd.seen])]

\* `bosn widget` typed by the user, of any release.
StartByUser(p, s, old) ==
  /\ NextPid(p) /\ ~LockHeld
  /\ Born(p, s, TRUE, old, FALSE)
  /\ UNCHANGED <<wd, repair, unitNew, asked, quitBy, wcount>>

\* A second one asks the running widget to show itself; so does the dashboard.
Command ==
  /\ wd.up /\ wd' = Enqueued(FALSE)
  /\ UNCHANGED <<wproc, repair, unitNew, asked, quitBy, wcount>>

\* The session, a restart after a crash, or the CLI's fallback starts it.
StartBySession(p, s, unit) ==
  /\ NextPid(p) /\ ~LockHeld
  /\ Born(p, s, FALSE, ~unitNew, unit)
  /\ UNCHANGED <<wd, repair, unitNew, asked, quitBy, wcount>>

\* maybe_launch_widget: the daemon starts the unit when no widget is there.
Launch(p, s) ==
  /\ wd.up /\ Presence = "absent" /\ ~wd.recent
  /\ wd' = [wd EXCEPT !.recent = TRUE]
  /\ NextPid(p)
  /\ IF LockHeld THEN UNCHANGED wproc ELSE Born(p, s, FALSE, ~unitNew, TRUE)
  /\ UNCHANGED <<repair, unitNew, asked, quitBy, wcount>>

DebouncePasses ==
  /\ wd.recent /\ wd' = [wd EXCEPT !.recent = FALSE]
  /\ UNCHANGED <<wproc, repair, unitNew, asked, quitBy, wcount>>

HeartbeatExpires ==
  /\ wd.fresh /\ wd' = [wd EXCEPT !.fresh = FALSE]
  /\ UNCHANGED <<wproc, repair, unitNew, asked, quitBy, wcount>>

-----------------------------------------------------------------------------
(* The control loop. *)

\* connect_daemon: registers, waiting for the daemon if it is down.
Hello(p) ==
  LET me == wproc[p]
  IN  /\ me.at = "hello" /\ wd.up
      /\ IF HelloAllowed(me.session, me.explicit)
         THEN /\ wd' = HelloRelease(p, me.session, me.old)
              /\ StartRepair(p, me.old)
              /\ wproc' = [wproc EXCEPT ![p].at = "poll"]
         ELSE /\ wproc' = [wproc EXCEPT ![p] = NoProcess("gone")]
              /\ UNCHANGED <<wd, repair>>
      /\ UNCHANGED <<unitNew, asked, quitBy, wcount>>

FirstQuit(cs) == LET quits == {i \in 1 .. Len(cs) : cs[i].quit}
                 IN  CHOOSE i \in quits : \A j \in quits : i <= j

\* A poll is answered; a quit ends the loop.
Poll(p) ==
  /\ wproc[p].at = "poll" /\ wd.up
  /\ wd' = Polled(p)
  /\ \E cs \in {PollCommands(p)} :
       IF \E i \in 1 .. Len(cs) : cs[i].quit
       THEN LET by == cs[FirstQuit(cs)].to
            IN  /\ wproc' = [wproc EXCEPT ![p].at = "leaving",
                                          ![p].why = IF by = Upgrade THEN "upgrade"
                                                     ELSE IF by = p THEN "command"
                                                     ELSE "stray command"]
                /\ quitBy' = IF by = Upgrade THEN quitBy ELSE quitBy \cup {wproc[p].session}
       ELSE UNCHANGED <<wproc, quitBy>>
  /\ UNCHANGED <<repair, unitNew, asked, wcount>>

\* The poll finds no daemon, or its reply is lost after the daemon took it.
PollFails(p) ==
  /\ wproc[p].at = "poll"
  /\ \/ ~wd.up /\ UNCHANGED <<wd, wcount>>
     \/ /\ wd.up /\ wcount.lost < MaxLostPolls
        /\ wd' = Polled(p)
        /\ wcount' = [wcount EXCEPT !.lost = @ + 1]
  /\ wproc' = [wproc EXCEPT ![p].at = "rehello"]
  /\ UNCHANGED <<repair, unitNew, asked, quitBy>>

\* The loop registers again at once, explicitly, and whatever comes of that
\* goes on to its next poll.
Rehello(p) ==
  /\ wproc[p].at = "rehello"
  /\ wproc' = [wproc EXCEPT ![p].at = "poll"]
  /\ IF wd.up THEN /\ wd' = HelloRelease(p, wproc[p].session, wproc[p].old)
                   /\ StartRepair(p, wproc[p].old)
     ELSE UNCHANGED <<wd, repair>>
  /\ UNCHANGED <<unitNew, asked, quitBy, wcount>>

\* The user closes the bubble or quits from the tray.
UserQuits(p) ==
  /\ wproc[p].at = "poll"
  /\ wproc' = [wproc EXCEPT ![p].at = "leaving", ![p].why = "user"]
  /\ quitBy' = quitBy \cup {wproc[p].session}
  /\ UNCHANGED <<wd, repair, unitNew, asked, wcount>>

\* quit: the dismissal is sent once, then the process exits.
Leave(p) ==
  /\ wproc[p].at = "leaving"
  /\ wproc' = [wproc EXCEPT ![p] = NoProcess("gone")]
  /\ IF wd.up THEN /\ wd' = Dismissed(p, wproc[p].session)
                   /\ wcount' = [wcount EXCEPT !.excused =
                        @ \/ (wproc[p].why = "upgrade" /\ wd.replacing # p)]
     ELSE UNCHANGED <<wd, wcount>>
  /\ UNCHANGED <<repair, unitNew, asked, quitBy>>

WidgetCrashes(p) ==
  /\ wproc[p].at \in Live
  /\ wproc' = [wproc EXCEPT ![p] = NoProcess("gone")]
  /\ UNCHANGED <<wd, repair, unitNew, asked, quitBy, wcount>>

-----------------------------------------------------------------------------
(* The dashboard's quit: refused without a widget, queued in a second step. *)

AskQuit ==
  /\ wd.up /\ ~asked /\ Presence = "connected"
  /\ asked' = TRUE
  /\ UNCHANGED <<wd, wproc, repair, unitNew, quitBy, wcount>>

QueueQuit ==
  /\ wd.up /\ asked
  /\ wd' = Enqueued(TRUE)
  /\ asked' = FALSE
  /\ UNCHANGED <<wproc, repair, unitNew, quitBy, wcount>>

-----------------------------------------------------------------------------
(* The repair task and the daemon's life. *)

Cancelled(p) == IF wd.replacing = p THEN NoReplacement(wd) ELSE wd

\* The installer ends: it failed, nobody is to be replaced any more, or the
\* unit is restarted.
RepairInstalls(ok) ==
  /\ repair.at = "install"
  /\ unitNew' = (unitNew \/ ok)
  /\ IF ok /\ wd.replacing = repair.for
     THEN repair' = [repair EXCEPT !.at = "restart"] /\ UNCHANGED wd
     ELSE /\ repair' = NoRepair
          /\ wd' = IF ok THEN wd ELSE Cancelled(repair.for)
  /\ UNCHANGED <<wproc, asked, quitBy, wcount>>

\* The service manager stops the widget of the unit and starts the new one,
\* which finds the lock taken if the old widget runs outside the unit.
RestartUnit(p, s) ==
  /\ repair.at = "restart"
  /\ NextPid(p)
  /\ LET stopped == [q \in WidgetPids |-> IF wproc[q].unit /\ wproc[q].at \in Live
                                          THEN NoProcess("gone") ELSE wproc[q]]
         held == \E q \in WidgetPids : stopped[q].at \in Live
     IN  wproc' = [stopped EXCEPT ![p] =
            IF held THEN NoProcess("gone")
            ELSE [NoProcess("hello") EXCEPT !.session = s, !.unit = TRUE]]
  /\ repair' = [repair EXCEPT !.at = "ready"]
  /\ UNCHANGED <<wd, unitNew, asked, quitBy, wcount>>

RestartFails ==
  /\ repair.at = "restart"
  /\ wd' = Cancelled(repair.for)
  /\ repair' = NoRepair
  /\ UNCHANGED <<wproc, unitNew, asked, quitBy, wcount>>

\* ready_to_replace: the old widget's next poll tells it to quit.
RepairReady ==
  /\ repair.at = "ready"
  /\ wd' = IF wd.replacing = repair.for THEN [wd EXCEPT !.ready = TRUE] ELSE wd
  /\ repair' = NoRepair
  /\ UNCHANGED <<wproc, unitNew, asked, quitBy, wcount>>

\* The daemon ends with its memory of the widget, and another one starts.
DaemonEnds ==
  /\ wd.up /\ wcount.daemons < MaxDaemonRuns
  /\ wd' = [FreshWidgetState EXCEPT !.up = FALSE]
  /\ repair' = NoRepair
  /\ asked' = FALSE
  /\ UNCHANGED <<wproc, unitNew, quitBy, wcount>>

DaemonBegins ==
  /\ ~wd.up
  /\ wd' = FreshWidgetState
  /\ wcount' = [wcount EXCEPT !.daemons = @ + 1]
  /\ UNCHANGED <<wproc, repair, unitNew, asked, quitBy>>

WidgetLoop(p) == Hello(p) \/ Poll(p) \/ PollFails(p) \/ Rehello(p) \/ Leave(p)
Repairing == \/ \E ok \in BOOLEAN : RepairInstalls(ok)
             \/ \E p \in WidgetPids, s \in Sessions : RestartUnit(p, s)
             \/ RestartFails \/ RepairReady

WidgetNext ==
  \/ \E p \in WidgetPids : \/ WidgetLoop(p) \/ UserQuits(p) \/ WidgetCrashes(p)
                           \/ \E s \in Sessions :
                                \/ \E old \in BOOLEAN : StartByUser(p, s, old)
                                \/ \E unit \in BOOLEAN : StartBySession(p, s, unit)
                                \/ Launch(p, s)
  \/ Command \/ AskQuit \/ QueueQuit
  \/ DebouncePasses \/ HeartbeatExpires
  \/ Repairing
  \/ DaemonEnds \/ DaemonBegins

WidgetSpec ==
  /\ WidgetInit /\ [][WidgetNext]_wVars
  /\ \A p \in WidgetPids : WF_wVars(WidgetLoop(p))
  /\ WF_wVars(Repairing)
  /\ WF_wVars(DaemonBegins)

-----------------------------------------------------------------------------
(* Properties. *)

WidgetTypeOK ==
  /\ wd.seen \in WidgetPids \cup {NoPid} /\ wd.replacing \in WidgetPids \cup {NoPid}
  /\ wd.session \in Sessions \cup {NoSession} /\ wd.dismissed \in Sessions \cup {NoSession}
  /\ Len(wd.queue) <= MaxCommands
  /\ repair.for \in WidgetPids \cup {NoPid}
  /\ repair.at \in {"none", "install", "restart", "ready"}

\* "A replacement quit must not count as a user dismissal": automatic starts
\* are suppressed only in a session where the user did quit a widget (unless
\* the daemon that told the replaced widget to quit is gone when it exits).
DismissedIsChoice ==
  wd.dismissed # NoSession => wd.dismissed \in quitBy \/ wcount.excused

\* A quit queued from the dashboard ends the widget it was queued for, never
\* one that registered later.
QuitHitsItsTarget == \A p \in WidgetPids : wproc[p].why # "stray command"

\* Two widgets never take commands from one daemon: only one process is in
\* the control loop, whatever starts and restarts race.
OneWidget == Cardinality({p \in WidgetPids : wproc[p].at \in Live}) <= 1

WidgetSafe == WidgetTypeOK /\ DismissedIsChoice /\ QuitHitsItsTarget /\ OneWidget

\* What holds again and again: an older widget whose repair is under way leaves,
\* unless the repair is given up or the daemon ends, through lost replies,
\* restarts of the unit and registrations in between.
RepairsSettled ==
  \A p \in WidgetPids :
    repair.for = p /\ wd.replacing = p => wproc[p].at = "gone"
=============================================================================
