-------------------------- MODULE MCServing --------------------------
(*****************************************************************************)
(* What a client meets: whether a daemon serves it, the request and its      *)
(* answer, the task it starts, the logs it reads, and the widget.            *)
(*                                                                           *)
(* A behaviour exercises one part, chosen at the start, with the bounds      *)
(* given here; the parts never share state, so they share the slots it is    *)
(* kept in, and the states of the parts add up instead of multiplying.       *)
(* Since the part never changes, weak fairness of a disjunction of steps, one *)
(* for each part, is weak fairness of the step of the part that was chosen:  *)
(* each part has the fairness of its own specification.                      *)
(*****************************************************************************)
EXTENDS Integers, Sequences, FiniteSets, TLC

CONSTANTS Null

VARIABLES part,   \* the part this behaviour exercises
          s1, s2, s3, s4, s5, s6, s7, s8, s9, s10, s11, s12, s13, s14, s15, s16, s17, s18, s19   \* its state, one slot for each of its variables

slots ==
  <<part, s1, s2, s3, s4, s5, s6, s7, s8, s9, s10, s11, s12, s13, s14, s15, s16, s17, s18, s19>>

Releases == [c \in {"old", "new"} |-> IF c = "old" THEN 1 ELSE 2]

-----------------------------------------------------------------------------
(* Two commands of different releases race to start, hand over and stop daemons. *)

D == INSTANCE Daemon WITH
  Client <- {"old", "new"}, Process <- {"p1", "p2"}, Release <- Releases, Legacy <- {},
  CiClient <- {"new"}, MaxCrashes <- 1, MaxEnables <- 0, marker <- s1, unit <- s2, exe <- s3,
  stamp <- s4, daemon <- s5, socket <- s6, command <- s7, seen <- s8, work <- s9, asked <- s10,
  operator <- s11, crashes <- s12, enables <- s13
ASSUME DaemonConstants == D!DaemonAssumption

DaemonInit ==
  /\ part = "daemon" /\ D!DaemonInit /\ s14 = 0 /\ s15 = 0 /\ s16 = 0 /\ s17 = 0 /\ s18 = 0
  /\ s19 = 0
InDaemon ==
  /\ part = "daemon" /\ UNCHANGED <<part, s14, s15, s16, s17, s18, s19>>
DaemonMoves == InDaemon /\ D!DaemonNext

(* One client may ask anything, another shuts the daemon down. *)

Q == INSTANCE Requests WITH
  Conn <- {"c1", "c2"}, Stoppers <- {"c2"}, MaxClients <- 2, InboxCapacity <- 1, wire <- s1,
  hand <- s2, client <- s3, inbox <- s4, actor <- s5, answer <- s6, committed <- s7, job <- s8,
  stopping <- s9, serving <- s10
ASSUME RequestsConstants == Q!RequestsAssumption

RequestsInit ==
  /\ part = "requests" /\ Q!RequestsInit /\ s11 = 0 /\ s12 = 0 /\ s13 = 0 /\ s14 = 0 /\ s15 = 0
  /\ s16 = 0 /\ s17 = 0 /\ s18 = 0 /\ s19 = 0
InRequests ==
  /\ part = "requests" /\ UNCHANGED <<part, s11, s12, s13, s14, s15, s16, s17, s18, s19>>
RequestsMoves == InRequests /\ Q!RequestsNext

(* Every kind of job, budgets around the five chunks it may write, a queue of one. *)

T == INSTANCE TaskRun WITH
  OutputLimits <- {0, 1, 3, 4, 5, 6}, QueueLength <- 1, MaxOutput <- 5, kind <- s1, limit <- s2,
  step <- s3, state <- s4, cause <- s5, cancelled <- s6, expired <- s7, cli <- s8, code <- s9,
  remote <- s10, late <- s11, pipe <- s12, read <- s13, queue <- s14, produced <- s15,
  logged <- s16, forwarder <- s17, session <- s18, outcome <- s19
ASSUME TaskRunConstants == T!TaskRunAssumption

TaskRunInit ==
  /\ part = "task" /\ T!TaskRunInit
InTaskRun ==
  /\ part = "task" /\ UNCHANGED <<part>>
TaskRunMoves == InTaskRun /\ T!TaskRunNext

(* Three chunks in pages of two, so that a reader needs a second page; two faults. *)

L == INSTANCE RunLog WITH
  Clients <- {"c1"}, MaxChunks <- 3, PageLimit <- 2, MaxFaults <- 2, produced <- s1, bytes <- s2,
  index <- s3, torn <- s4, endFile <- s5, run <- s6, job <- s7, readers <- s8, faults <- s9
ASSUME RunLogConstants == L!RunLogAssumption

RunLogInit ==
  /\ part = "runlog" /\ L!RunLogInit /\ s10 = 0 /\ s11 = 0 /\ s12 = 0 /\ s13 = 0 /\ s14 = 0
  /\ s15 = 0 /\ s16 = 0 /\ s17 = 0 /\ s18 = 0 /\ s19 = 0
InRunLog ==
  /\ part = "runlog" /\ UNCHANGED <<part, s10, s11, s12, s13, s14, s15, s16, s17, s18, s19>>
RunLogMoves == InRunLog /\ L!RunLogNext

(* Four records, pages of two, an index entry for every second record, one lost append. *)

G == INSTANCE CiLog WITH
  LogReaders <- {"r1"}, MaxRecords <- 4, MaxLost <- 1, LogLimit <- 2, LogBytes <- 2, Stride <- 2,
  seqno <- s1, logfile <- s2, logindex <- s3, visible <- s4, logdone <- s5, lostlines <- s6,
  pager <- s7
ASSUME CiLogConstants == G!LogBounds

CiLogInit ==
  /\ part = "cilog" /\ G!LogInit /\ s8 = 0 /\ s9 = 0 /\ s10 = 0 /\ s11 = 0 /\ s12 = 0 /\ s13 = 0
  /\ s14 = 0 /\ s15 = 0 /\ s16 = 0 /\ s17 = 0 /\ s18 = 0 /\ s19 = 0
InCiLog ==
  /\ part = "cilog"
  /\ UNCHANGED <<part, s8, s9, s10, s11, s12, s13, s14, s15, s16, s17, s18, s19>>
CiLogMoves == InCiLog /\ G!LogNext

(* Two widget processes, two sessions, two daemons one after the other, one lost reply. *)

W == INSTANCE Widget WITH
  WidgetPids <- {1, 2}, Sessions <- {"s1", "s2"}, MaxCommands <- 1, MaxDaemonRuns <- 2,
  MaxLostPolls <- 1, NoSession <- Null, wd <- s1, wproc <- s2, repair <- s3, unitNew <- s4,
  asked <- s5, quitBy <- s6, wcount <- s7
ASSUME WidgetConstants == W!WidgetBounds

WidgetInit ==
  /\ part = "widget" /\ W!WidgetInit /\ s8 = 0 /\ s9 = 0 /\ s10 = 0 /\ s11 = 0 /\ s12 = 0
  /\ s13 = 0 /\ s14 = 0 /\ s15 = 0 /\ s16 = 0 /\ s17 = 0 /\ s18 = 0 /\ s19 = 0
InWidget ==
  /\ part = "widget"
  /\ UNCHANGED <<part, s8, s9, s10, s11, s12, s13, s14, s15, s16, s17, s18, s19>>
WidgetMoves == InWidget /\ W!WidgetNext

(* Two events in a pass of the loop, so that the second meets what the first left. *)

X == INSTANCE WidgetWindows WITH
  MaxEvents <- 2, layout <- s1, view <- s2, loopAt <- s3, plan <- s4, online <- s5, desktop <- s6,
  gate <- s7, events <- s8
ASSUME WidgetWindowsConstants == X!EventBound

WidgetWindowsInit ==
  /\ part = "windows" /\ X!WindowsInit /\ s9 = 0 /\ s10 = 0 /\ s11 = 0 /\ s12 = 0 /\ s13 = 0
  /\ s14 = 0 /\ s15 = 0 /\ s16 = 0 /\ s17 = 0 /\ s18 = 0 /\ s19 = 0
InWidgetWindows ==
  /\ part = "windows"
  /\ UNCHANGED <<part, s9, s10, s11, s12, s13, s14, s15, s16, s17, s18, s19>>
WidgetWindowsMoves == InWidgetWindows /\ X!WindowsNext

-----------------------------------------------------------------------------
PartsInit ==
  \/ DaemonInit
  \/ RequestsInit
  \/ TaskRunInit
  \/ RunLogInit
  \/ CiLogInit
  \/ WidgetInit
  \/ WidgetWindowsInit
PartsNext ==
  \/ DaemonMoves
  \/ RequestsMoves
  \/ TaskRunMoves
  \/ RunLogMoves
  \/ CiLogMoves
  \/ WidgetMoves
  \/ WidgetWindowsMoves
Step1 ==
  \/ InDaemon /\ D!CommandGoesOn("old")
  \/ InRequests /\ Q!HandlerStep("c1")
  \/ InTaskRun /\ T!Executor
  \/ InRunLog /\ L!WriterStep
  \/ InCiLog /\ G!LogEnds
  \/ InWidget /\ W!WidgetLoop(1)
  \/ InWidgetWindows /\ X!LoopStep
Step2 ==
  \/ InDaemon /\ D!CommandGoesOn("new")
  \/ InRequests /\ Q!HandlerStep("c2")
  \/ InTaskRun /\ T!Reader
  \/ InRunLog /\ L!ReaderStep("c1")
  \/ InCiLog /\ G!LogTail({"r1"})
  \/ InWidget /\ W!WidgetLoop(2)
Step3 ==
  \/ InDaemon /\ D!DaemonStep("p1")
  \/ InRequests /\ (Q!WorkBegins \/ Q!WorkEnds \/ Q!WorkGoesOn)
  \/ InTaskRun /\ T!Forward
  \/ InWidget /\ W!Repairing
Step4 ==
  \/ InDaemon /\ D!DaemonStep("p2")
  \/ InRequests /\ Q!ActorStep
  \/ InTaskRun /\ T!Expire
  \/ InWidget /\ W!DaemonBegins
Step5 == InRequests /\ Q!ServeStep

PartsFairness ==
  /\ WF_slots(Step1) /\ WF_slots(Step2) /\ WF_slots(Step3) /\ WF_slots(Step4)
  /\ WF_slots(Step5)
PartsSpec == PartsInit /\ [][PartsNext]_slots /\ PartsFairness

\* Accepted work has its one daemon, which the endpoint leads to (Daemon,
\* WorkHasItsDaemon); nobody hears that a healthy registry is gone, and what a
\* client is told succeeded is committed (Requests, RequestsSafe).
CommandsCorrect ==
  /\ part = "daemon" => D!WorkHasItsDaemon
  /\ part = "requests" => Q!RequestsSafe

\* A job that succeeded has logged all it wrote, and a session that is closed
\* has no process left (TaskRun, OkLoggedAll and SessionClosedIsGone).
TasksCorrect == part = "task" => T!TaskRunSafe

\* A reader of a run's log has every chunk once and in order up to its cursor,
\* whatever was interrupted (RunLog, RunLogSafe); the pages of a CI log skip and
\* repeat nothing, whatever the caps and the index cut (CiLog, CiLogSafe).
LogsCorrect ==
  /\ part = "runlog" => L!RunLogSafe
  /\ part = "cilog" => G!CiLogSafe

\* One widget, ended only by what was meant for it and dismissed only by the user
\* (Widget, WidgetSafe); its layout is true of its windows (WidgetWindows,
\* WindowsSafe).
WidgetCorrect ==
  /\ part = "widget" => W!WidgetSafe
  /\ part = "windows" => X!WindowsSafe

\* Disabling and stopping a daemon take effect, every job ends, and so do every
\* reader of a log and every repair of the widget: the part's Settled predicate
\* holds again and again.
ServingSettles ==
  []<>CASE part = "daemon" -> D!DaemonSettled
      [] part = "requests" -> Q!RequestsSettled
      [] part = "task" -> T!TaskSettled
      [] part = "runlog" -> L!StreamsSettled
      [] part = "cilog" -> G!LogsSettled
      [] part = "widget" -> W!RepairsSettled
      [] part = "windows" -> X!WindowsSettled
=============================================================================
