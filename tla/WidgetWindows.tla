---------------------------- MODULE WidgetWindows ----------------------------
(***************************************************************************)
(* The widget process's three windows: the layout it remembers (layout.rs), *)
(* the window handles it holds, and the control loop that turns commands,    *)
(* tray events and the state of the desktop into window steps                *)
(* (controller.rs, tray.rs, placement.rs).                                   *)
(*                                                                           *)
(* Every step awaits, so between any two of them the user closes a window,   *)
(* the tray host comes or goes, the compositor's placement script stops or   *)
(* starts, and the daemon refuses pages or grants them again.  A window      *)
(* operation fails exactly when its window is gone; opening may fail.        *)
(***************************************************************************)
EXTENDS Integers, Sequences

CONSTANT MaxEvents   \* bound: tray events and polled commands in one pass of the loop

EventBound == MaxEvents \in Nat

VARIABLES layout,    \* Layout: what the process believes of each window
          view,      \* the window behind each handle; "none" without a handle
          loopAt,    \* where the control loop is
          plan,      \* the steps still to be carried out
          online,    \* whether the tray was online when this pass began
          desktop,   \* the tray host, the placement script and the daemon's pages
          gate,      \* a placement refusal young enough to be reused
          events     \* tray events and commands handled in this pass

windowVars == <<layout, view, loopAt, plan, online, desktop, gate, events>>

Window == {"bubble", "panel", "full"}
Compact == {"bubble", "panel"}
WidgetCommand == {"toggle", "show", "open", "external", "quit"}
TrayCommand == {"toggle", "open", "quit"}

Step(do, w) == [do |-> do, w |-> w]
NoWindow == "nowindow"

WindowsInit ==
  /\ layout = [w \in Window |-> "absent"]
  /\ view = [w \in Window |-> "none"]
  /\ loopAt = "status" /\ plan = <<>>
  /\ online = FALSE /\ gate = FALSE /\ events = 0
  /\ desktop \in [hosted : BOOLEAN, placed : BOOLEAN, granting : BOOLEAN]

-----------------------------------------------------------------------------
(* Layout: the plans. *)

HasCompactWindow == \E w \in Compact : layout[w] # "absent"

\* status_steps: hide compact windows that have no place.
StatusSteps(hosted, positioned) ==
  (IF layout["bubble"] = "shown" /\ (hosted \/ ~positioned)
   THEN <<Step("hide", "bubble")>> ELSE <<>>)
  \o (IF layout["panel"] = "shown" /\ ~positioned THEN <<Step("hide", "panel")>> ELSE <<>>)

OpenOr(l, w, steps) == IF l[w] = "absent" THEN <<Step("open", w)>> ELSE steps
ShowSteps(w) == <<Step("show", w), Step("focus", w)>>

ShowPanelSteps(l) == OpenOr(l, "panel", ShowSteps("panel"))

PlanOf(l, command) ==
  CASE command = "toggle" -> IF l["panel"] = "shown" THEN <<Step("hide", "panel")>>
                             ELSE ShowPanelSteps(l)
    [] command = "show" -> OpenOr(l, "bubble", ShowSteps("bubble"))
    [] command = "open" -> OpenOr(l, "full", <<Step("navigate", "full")>> \o ShowSteps("full"))
    [] command = "external" -> <<Step("external", NoWindow)>>
    [] command = "quit" -> <<Step("quit", NoWindow)>>

-----------------------------------------------------------------------------
(* placement::configured: a refusal is reused until it expires, readiness   *)
(* is proved anew each time.                                                 *)

GateAfterAsking == gate \/ ~desktop.placed
Configured == ~GateAfterAsking

\* A step asks for placement when it opens or shows a compact window.
AsksPlacement(s) == s.do \in {"open", "show"} /\ s.w \in Compact

Alive(w) == view[w] \in {"shown", "hidden"}

\* execute: whether the step can take effect.
CanTake(s) ==
  /\ AsksPlacement(s) => Configured
  /\ s.do \in {"open", "navigate"} => desktop.granting
  /\ s.do \in {"show", "hide", "focus", "navigate"} => Alive(s.w)

\* What a step that took effect does to the window, and Layout::record.
ViewAfter(s) ==
  CASE s.do \in {"open", "show"} -> [view EXCEPT ![s.w] = "shown"]
    [] s.do = "hide" -> [view EXCEPT ![s.w] = "hidden"]
    [] OTHER -> view
Record(s) ==
  CASE s.do \in {"open", "show"} -> [layout EXCEPT ![s.w] = "shown"]
    [] s.do = "hide" -> [layout EXCEPT ![s.w] = "hidden"]
    [] OTHER -> layout

\* forget: the handle is dropped and the next command opens a new window.
Forget(w) ==
  /\ view' = [view EXCEPT ![w] = "none"]
  /\ layout' = [layout EXCEPT ![w] = "absent"]

\* forget_closed, before a command is planned; a closed bubble is not looked at.
ClosedOnes == {w \in Window \ {"bubble"} : view[w] = "closed"}
LayoutLessClosed == [w \in Window |-> IF w \in ClosedOnes THEN "absent" ELSE layout[w]]
ForgetClosed ==
  /\ view' = [w \in Window |-> IF w \in ClosedOnes THEN "none" ELSE view[w]]
  /\ layout' = LayoutLessClosed

-----------------------------------------------------------------------------
(* The control loop. *)

\* synchronize_status: placement is only asked for when a compact window exists.
BeginPass ==
  /\ loopAt = "status"
  /\ online' = desktop.hosted
  /\ gate' = IF HasCompactWindow THEN GateAfterAsking ELSE gate
  /\ plan' = StatusSteps(desktop.hosted, HasCompactWindow /\ Configured)
  /\ loopAt' = "hiding"
  /\ events' = 0
  /\ UNCHANGED <<layout, view, desktop>>

\* A failed hiding forgets its window, and the next step is carried out.
HideStep ==
  /\ loopAt = "hiding" /\ plan # <<>>
  /\ LET s == Head(plan)
     IN  IF CanTake(s) THEN view' = ViewAfter(s) /\ layout' = Record(s) ELSE Forget(s.w)
  /\ plan' = Tail(plan)
  /\ UNCHANGED <<loopAt, online, desktop, gate, events>>

HiddenAll ==
  /\ loopAt = "hiding" /\ plan = <<>>
  /\ loopAt' = "tray"
  /\ UNCHANGED <<layout, view, plan, online, desktop, gate, events>>

\* apply: forget what the user closed, then plan from what is left.
Apply(command, at) ==
  /\ ForgetClosed
  /\ plan' = PlanOf(LayoutLessClosed, command)
  /\ loopAt' = at
  /\ UNCHANGED <<online, desktop, gate>>

TrayEvent ==
  /\ loopAt = "tray" /\ events < MaxEvents
  /\ \E c \in TrayCommand : Apply(c, "trayStep")
  /\ events' = events + 1

TrayDone ==
  /\ loopAt = "tray"
  /\ loopAt' = "bubble"
  /\ UNCHANGED <<layout, view, plan, online, desktop, gate, events>>

\* Closing the bubble quits, unless the tray was online when the pass began.
CheckBubble ==
  /\ loopAt = "bubble"
  /\ IF ~online /\ view["bubble"] = "closed"
     THEN loopAt' = "gone" /\ view' = [w \in Window |-> "none"]
     ELSE loopAt' = "poll" /\ UNCHANGED view
  /\ UNCHANGED <<layout, plan, online, desktop, gate, events>>

\* The commands of a poll's reply are over (there may be none).
PollDone ==
  /\ loopAt = "poll"
  /\ loopAt' = "status"
  /\ UNCHANGED <<layout, view, plan, online, desktop, gate, events>>

\* A command of the reply; Show is the panel's while the tray is there.
Poll ==
  /\ loopAt = "poll" /\ events < MaxEvents
  /\ events' = events + 1
  /\ \/ /\ online
        /\ ForgetClosed
        /\ plan' = ShowPanelSteps(LayoutLessClosed)
        /\ loopAt' = "pollStep"
        /\ UNCHANGED <<online, desktop, gate>>
     \/ \E c \in WidgetCommand :
          /\ ~(online /\ c = "show")
          /\ Apply(c, "pollStep")

\* perform: one step of a command's plan; the first failure gives up the rest.
PlanStep ==
  /\ loopAt \in {"trayStep", "pollStep"} /\ plan # <<>> /\ Head(plan).do # "quit"
  /\ LET s == Head(plan)
     IN  /\ gate' = IF AsksPlacement(s) THEN GateAfterAsking ELSE gate
         /\ \/ /\ CanTake(s)
               /\ view' = ViewAfter(s) /\ layout' = Record(s) /\ plan' = Tail(plan)
            \/ /\ ~CanTake(s) \/ s.do = "open"
               /\ Forget(s.w)
               /\ plan' = <<>>
  /\ UNCHANGED <<loopAt, online, desktop, events>>

PlanDone ==
  /\ loopAt \in {"trayStep", "pollStep"} /\ plan = <<>>
  /\ loopAt' = IF loopAt = "trayStep" THEN "tray" ELSE "poll"
  /\ UNCHANGED <<layout, view, plan, online, desktop, gate, events>>

\* quit: dismissed, and the process's exit closes every window.
QuitStep ==
  /\ plan # <<>> /\ Head(plan).do = "quit"
  /\ loopAt' = "gone" /\ plan' = <<>>
  /\ view' = [w \in Window |-> "none"]
  /\ UNCHANGED <<layout, online, desktop, gate, events>>

-----------------------------------------------------------------------------
(* The user and the desktop. *)

UserCloses(w) ==
  /\ view[w] = "shown"
  /\ view' = [view EXCEPT ![w] = "closed"]
  /\ UNCHANGED <<layout, loopAt, plan, online, desktop, gate, events>>

DesktopChanges ==
  /\ loopAt # "gone"
  /\ \E part \in {"hosted", "placed", "granting"} : desktop' = [desktop EXCEPT ![part] = ~@]
  /\ UNCHANGED <<layout, view, loopAt, plan, online, gate, events>>

\* REFUSAL_TTL passes.
RefusalExpires ==
  /\ gate
  /\ gate' = FALSE
  /\ UNCHANGED <<layout, view, loopAt, plan, online, desktop, events>>

LoopStep ==
  \/ BeginPass \/ HideStep \/ HiddenAll \/ TrayEvent \/ TrayDone \/ CheckBubble
  \/ Poll \/ PollDone \/ PlanStep \/ PlanDone \/ QuitStep

WindowsNext ==
  \/ LoopStep
  \/ \E w \in Window : UserCloses(w)
  \/ DesktopChanges \/ RefusalExpires

\* The loop never waits for the user: its awaits are bounded.
WindowsSpec == WindowsInit /\ [][WindowsNext]_windowVars /\ WF_windowVars(LoopStep)

-----------------------------------------------------------------------------
WindowsTypeOK ==
  /\ layout \in [Window -> {"absent", "shown", "hidden"}]
  /\ view \in [Window -> {"none", "shown", "hidden", "closed"}]
  /\ loopAt \in {"status", "hiding", "tray", "trayStep", "bubble", "poll", "pollStep", "gone"}
  /\ online \in BOOLEAN /\ gate \in BOOLEAN /\ events \in 0..MaxEvents

\* Whatever fails on the way, the process remembers a window as shown or hidden
\* only while it holds a window that is so, or one the user has closed since: a
\* wrong record would make Toggle hide a hidden panel or open a second one.
LayoutIsTrue ==
  loopAt # "gone" =>
    \A w \in Window : \/ layout[w] = "absent" /\ view[w] = "none"
                      \/ layout[w] # "absent" /\ view[w] \in {layout[w], "closed"}

\* The windows' safety: the types and the truth of the layout.
WindowsSafe == WindowsTypeOK /\ LayoutIsTrue

\* What holds again and again: with placement gone no compact window stays in
\* view, and with the tray host there neither does the bubble.
WindowsSettled ==
  /\ ~desktop.placed => \A w \in Compact : view[w] # "shown"
  /\ desktop.hosted => view["bubble"] # "shown"
=============================================================================
