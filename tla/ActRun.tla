------------------------------- MODULE ActRun -------------------------------
(***************************************************************************)
(* A CI run inside the machine's shared engine (ci/lifecycle/shared.rs,    *)
(* ci/engine.rs, ci/engine/run_scope.rs, admission.rs and                  *)
(* archive_enrollment.rs, ci/shared_engine/archive.rs).                    *)
(*                                                                         *)
(* A run leases a slot, enrols the machine's archive cache, has `act serve'*)
(* admit it to the slot, copies its frozen source in, executes, closes its *)
(* scope and releases the slot.  `act serve' keeps its own table of        *)
(* admissions: an admission left by a dead daemon or landing after the run *)
(* that asked for it was cut short is an orphan that the next run of the   *)
(* slot closes.  Runs of several daemons share the engine; in this model   *)
(* every run has a daemon of its own, so any of them may die alone.        *)
(***************************************************************************)
EXTENDS Integers, FiniteSets

CONSTANTS
  ActRuns,     \* runs that lease a slot
  ActSlots,    \* slots of the engine, at most MAX_SLOTS in the code
  NoRun,
  MaxCuts      \* bound: cancellations, deadlines, failures and crashes

VARIABLES
  at,          \* [ActRuns -> the step the run is at]
  end,         \* [ActRuns -> how its execution ended]
  cleanup,     \* [ActRuns -> how closing its scope ended]
  enroll,      \* [ActRuns -> the phase of its archive enrolment]
  seen,        \* [ActRuns -> admissions it read or is about to close]
  late,        \* [ActRuns -> slots of its admission requests still under way]
  outlived,    \* runs with an admission request that outlived its caller
  lease,       \* [ActSlots -> the run that holds it], slots.sh
  admitted,    \* [ActSlots -> the run `act serve' admitted to it]
  cohort,      \* the archive cache: "plain", "fenced" or "ready"
  legacy,      \* an engine of an older release uses the plain cache
  cuts

actVars == <<at, end, cleanup, enroll, seen, late, outlived, lease, admitted,
             cohort, legacy, cuts>>
table == <<lease, admitted>>
archive == <<cohort, legacy>>
requests == <<late, outlived>>

ActInit ==
  /\ at = [r \in ActRuns |-> "idle"]
  /\ end = [r \in ActRuns |-> "none"]
  /\ cleanup = [r \in ActRuns |-> "none"]
  /\ enroll = [r \in ActRuns |-> "require"]
  /\ seen = [r \in ActRuns |-> {}]
  /\ late = [r \in ActRuns |-> {}]
  /\ outlived = {}
  /\ lease = [s \in ActSlots |-> NoRun]
  /\ admitted = [s \in ActSlots |-> NoRun]
  /\ cohort = "plain"
  /\ legacy = FALSE
  /\ cuts = 0

SlotOf(r) == CHOOSE s \in ActSlots : lease[s] = r
Goes(r, step) == at' = [at EXCEPT ![r] = step]
Ends(r, how) == end' = [end EXCEPT ![r] = how]
Cut == cuts < MaxCuts /\ cuts' = cuts + 1

-----------------------------------------------------------------------------
(* Before anything exists in the engine: the workflows are rewritten for   *)
(* local use and the run is planned.                                       *)

\* A workflow that cannot be rewritten is left as written.
LocalizeCheckouts(r) ==
  /\ at[r] = "idle"
  /\ Goes(r, "plan")
  /\ UNCHANGED <<end, cleanup, enroll, seen, requests, table, archive, cuts>>

PlanRun(r) ==
  /\ at[r] = "plan"
  /\ Goes(r, "queue")
  /\ UNCHANGED <<end, cleanup, enroll, seen, requests, table, archive, cuts>>

(* Leasing a slot.  A slot whose holder died is taken over (slots.sh).     *)

LeaseSlot(r, s) ==
  /\ at[r] = "queue"
  /\ lease[s] \in {NoRun} \cup {o \in ActRuns : at[o] = "dead"}
  /\ lease' = [lease EXCEPT ![s] = r]
  /\ Goes(r, "verify")
  /\ UNCHANGED <<end, cleanup, enroll, seen, requests, admitted, archive, cuts>>

\* Planning fails or times out, or the run is cancelled, times out or is
\* refused while it waits for a slot: there is nothing to clean.
LeaseEnds(r, how) ==
  /\ \/ at[r] = "queue"
     \/ at[r] = "plan" /\ how # "cancelled"
  /\ Cut
  /\ Goes(r, "done")
  /\ Ends(r, how)
  /\ cleanup' = [cleanup EXCEPT ![r] = "removed"]
  /\ UNCHANGED <<enroll, seen, requests, table, archive>>

VerifyLease(r) ==
  /\ at[r] \in {"verify", "again"}
  /\ Goes(r, IF at[r] = "verify" THEN "enrol" ELSE "guard")
  /\ UNCHANGED <<end, cleanup, enroll, seen, requests, table, archive, cuts>>

-----------------------------------------------------------------------------
(* prepare_archives: require, else fence, wait for the older engines, and  *)
(* complete.  A contended cohort is retried, which changes nothing.        *)

Enrolled(r) ==
  /\ at[r] = "enrol"
  /\ cohort = "ready"
  /\ Goes(r, "serve")
  /\ UNCHANGED <<end, cleanup, enroll, seen, requests, table, archive, cuts>>

NotEnrolled(r) ==
  /\ at[r] = "enrol" /\ enroll[r] = "require"
  /\ cohort # "ready"
  /\ enroll' = [enroll EXCEPT ![r] = "fence"]
  /\ UNCHANGED <<at, end, cleanup, seen, requests, table, archive, cuts>>

Fence(r) ==
  /\ at[r] = "enrol" /\ enroll[r] = "fence"
  /\ cohort # "ready"
  /\ cohort' = "fenced"
  /\ Goes(r, "drain")
  /\ UNCHANGED <<end, cleanup, enroll, seen, requests, table, legacy, cuts>>

\* A variant of WaitArchiveSources that does not wait for the older engines.
DoNotWait(r) ==
  /\ at[r] = "drain"
  /\ enroll' = [enroll EXCEPT ![r] = "complete"]
  /\ Goes(r, "enrol")
  /\ UNCHANGED <<end, cleanup, seen, requests, table, archive, cuts>>

WaitArchiveSources(r) ==
  /\ at[r] = "drain"
  /\ ~legacy
  /\ enroll' = [enroll EXCEPT ![r] = "complete"]
  /\ Goes(r, "enrol")
  /\ UNCHANGED <<end, cleanup, seen, requests, table, archive, cuts>>

Complete(r) ==
  /\ at[r] = "enrol" /\ enroll[r] = "complete"
  /\ cohort = "fenced"
  /\ cohort' = "ready"
  /\ Goes(r, "serve")
  /\ UNCHANGED <<end, cleanup, enroll, seen, requests, table, legacy, cuts>>

\* An engine of an older release takes the shared lease of the plain cache,
\* which a fence refuses to newcomers.
LegacyBegins ==
  /\ cohort = "plain" /\ ~legacy
  /\ legacy' = TRUE
  /\ UNCHANGED <<at, end, cleanup, enroll, seen, requests, table, cohort, cuts>>

LegacyEnds ==
  /\ legacy
  /\ legacy' = FALSE
  /\ UNCHANGED <<at, end, cleanup, enroll, seen, requests, table, cohort, cuts>>

-----------------------------------------------------------------------------
(* prepare_run: `act serve' is started when it does not answer, the run is *)
(* admitted to its slot, and its source, overlay and event are copied in.  *)

PrepareServe(r) ==
  /\ at[r] = "serve"
  /\ Goes(r, "admit")
  /\ UNCHANGED <<end, cleanup, enroll, seen, requests, table, archive, cuts>>

AdmitOnce(r) ==
  /\ at[r] \in {"admit", "readmit"}
  /\ admitted[SlotOf(r)] = NoRun
  /\ admitted' = [admitted EXCEPT ![SlotOf(r)] = r]
  /\ Goes(r, "copy")
  /\ UNCHANGED <<end, cleanup, enroll, seen, requests, lease, archive, cuts>>

\* The first refusal looks for orphans, the second one fails the run.
SlotTaken(r) ==
  /\ at[r] \in {"admit", "readmit"}
  /\ admitted[SlotOf(r)] # NoRun
  /\ IF at[r] = "admit" THEN Goes(r, "status") /\ end' = end
                        ELSE Goes(r, "close") /\ Ends(r, "failed")
  /\ UNCHANGED <<cleanup, enroll, seen, requests, table, archive, cuts>>

Admissions == {admitted[s] : s \in ActSlots} \ {NoRun}
Holders == {lease[s] : s \in ActSlots} \ {NoRun}

\* close_orphans: the admissions first ...
Status(r) ==
  /\ at[r] = "status"
  /\ seen' = [seen EXCEPT ![r] = Admissions]
  /\ Goes(r, "survey")
  /\ UNCHANGED <<end, cleanup, enroll, requests, table, archive, cuts>>

\* ... and then the slots: an admission whose run holds none is an orphan.
Survey(r) ==
  /\ at[r] = "survey"
  /\ \E orphans \in {seen[r] \ Holders} :
       /\ seen' = [seen EXCEPT ![r] = orphans]
       /\ IF orphans = {} THEN Goes(r, "close") /\ Ends(r, "failed")
                          ELSE Goes(r, "orphans") /\ end' = end
  /\ UNCHANGED <<cleanup, enroll, requests, table, archive, cuts>>

Closed(o) == [s \in ActSlots |-> IF admitted[s] = o THEN NoRun ELSE admitted[s]]

CloseOrphan(r, o) ==
  /\ at[r] = "orphans"
  /\ o \in seen[r]
  /\ admitted' = Closed(o)
  /\ seen' = [seen EXCEPT ![r] = @ \ {o}]
  /\ Goes(r, IF seen[r] = {o} THEN "readmit" ELSE "orphans")
  /\ UNCHANGED <<end, cleanup, enroll, requests, lease, archive, cuts>>

CopyInputs(r) ==
  /\ at[r] = "copy"
  /\ Goes(r, "list")
  /\ UNCHANGED <<end, cleanup, enroll, seen, requests, table, archive, cuts>>

ListJobs(r) ==
  /\ at[r] = "list"
  /\ Goes(r, "again")
  /\ UNCHANGED <<end, cleanup, enroll, seen, requests, table, archive, cuts>>

\* guard_archive_execution waits for the cache policy once more.
GuardArchives(r) ==
  /\ at[r] = "guard"
  /\ cohort = "ready"
  /\ Goes(r, "act")
  /\ UNCHANGED <<end, cleanup, enroll, seen, requests, table, archive, cuts>>

ActExits(r) ==
  /\ at[r] = "act"
  /\ Ends(r, "exited")
  /\ Goes(r, "drained")
  /\ UNCHANGED <<cleanup, enroll, seen, requests, table, archive, cuts>>

\* The output is read to its end before the run goes on.
DrainOutput(r) ==
  /\ at[r] = "drained"
  /\ Goes(r, "close")
  /\ UNCHANGED <<end, cleanup, enroll, seen, requests, table, archive, cuts>>

-----------------------------------------------------------------------------
(* What may cut a run short.  A request to `act serve' runs in the engine  *)
(* and goes on when the command that waits for it is dropped.              *)

Preparing == {"enrol", "drain", "serve", "admit", "status", "survey", "orphans",
              "readmit", "copy"}
\* What may end a run at each step, besides what the step itself decides.
EndsOf(step) == CASE step \in Preparing \cup {"guard", "act"} ->
                         {"cancelled", "timed out", "failed"}
                  [] step = "list" -> {"timed out", "failed"}
                  [] step \in {"verify", "again"} -> {"failed"}
                  [] OTHER -> {}
Outlives(r) ==
  IF at[r] \in {"admit", "readmit"}
  THEN late' = [late EXCEPT ![r] = {SlotOf(r)}] /\ outlived' = outlived \cup {r}
  ELSE UNCHANGED requests

EndEarly(r, how) ==
  /\ how \in EndsOf(at[r])
  /\ Cut
  /\ Ends(r, how)
  /\ Outlives(r)
  /\ Goes(r, "close")
  /\ UNCHANGED <<cleanup, enroll, seen, table, archive>>

\* The request lands when it may, and is refused when the slot is taken.
LateAdmission(r, s) ==
  /\ s \in late[r]
  /\ late' = [late EXCEPT ![r] = {}]
  /\ admitted' = IF admitted[s] = NoRun THEN [admitted EXCEPT ![s] = r] ELSE admitted
  /\ UNCHANGED <<at, end, cleanup, enroll, seen, outlived, lease, archive, cuts>>

CrashRun(r) ==
  /\ at[r] \notin {"idle", "plan", "queue", "done", "dead"}
  /\ Cut
  /\ Outlives(r)
  /\ Goes(r, "dead")
  /\ UNCHANGED <<end, cleanup, enroll, seen, table, archive>>

-----------------------------------------------------------------------------
CloseScope(r) ==
  /\ at[r] = "close"
  /\ admitted' = Closed(r)
  /\ cleanup' = [cleanup EXCEPT ![r] = "removed"]
  /\ Goes(r, "release")
  /\ UNCHANGED <<end, enroll, seen, requests, lease, archive, cuts>>

\* The engine refuses, or the cleanup budget runs out.
CloseFails(r) ==
  /\ at[r] = "close"
  /\ Cut
  /\ cleanup' = [cleanup EXCEPT ![r] = "failed"]
  /\ Goes(r, "release")
  /\ UNCHANGED <<end, enroll, seen, requests, table, archive>>

ReleaseSlot(r) ==
  /\ at[r] = "release"
  /\ lease' = [s \in ActSlots |-> IF lease[s] = r THEN NoRun ELSE lease[s]]
  /\ Goes(r, "done")
  /\ UNCHANGED <<end, cleanup, enroll, seen, requests, admitted, archive, cuts>>

\* The engine does not answer: the slot stays taken while the daemon lives.
ReleaseFails(r) ==
  /\ at[r] = "release"
  /\ Cut
  /\ Goes(r, "done")
  /\ UNCHANGED <<end, cleanup, enroll, seen, requests, table, archive>>

RunGoesOn(r) ==
  \/ LocalizeCheckouts(r) \/ PlanRun(r) \/ VerifyLease(r)
  \/ Enrolled(r) \/ NotEnrolled(r) \/ Fence(r)
  \/ WaitArchiveSources(r) \/ Complete(r) \/ PrepareServe(r) \/ AdmitOnce(r)
  \/ SlotTaken(r) \/ Status(r) \/ Survey(r) \/ CopyInputs(r) \/ ListJobs(r)
  \/ GuardArchives(r) \/ ActExits(r) \/ DrainOutput(r) \/ CloseScope(r) \/ ReleaseSlot(r)
  \/ \E o \in ActRuns : CloseOrphan(r, o)

ActNext ==
  \/ \E r \in ActRuns : \/ RunGoesOn(r) \/ CrashRun(r) \/ CloseFails(r) \/ ReleaseFails(r)
                        \/ \E s \in ActSlots : LeaseSlot(r, s) \/ LateAdmission(r, s)
                        \/ \E how \in {"cancelled", "timed out", "failed"} :
                             EndEarly(r, how) \/ LeaseEnds(r, how)
  \/ LegacyBegins \/ LegacyEnds

ActSpec == ActInit /\ [][ActNext]_actVars

-----------------------------------------------------------------------------
\* A run that lists its jobs or executes keeps the admission of its slot: a
\* run that clears orphans out of its way never closes a live run's scope
\* (admission.rs, close_orphans).
LiveScopeKept ==
  \A r \in ActRuns : at[r] \in {"copy", "list", "again", "guard", "act"} =>
    admitted[SlotOf(r)] = r

\* No older engine uses the plain cache when the archives are enrolled from it
\* (archive.rs, prepare_archives).
EnrolledQuiescent == cohort = "ready" => ~legacy

\* A run that reports its scope cleaned up left no admission behind, unless an
\* admission request outlived it (lifecycle.rs, close_scope).
RemovedIsClosed ==
  \A r \in ActRuns : cleanup[r] = "removed" /\ r \notin outlived => r \notin Admissions

\* A run's scope in the shared engine is its own while it lives, is enrolled
\* only from a quiescent cache and is gone when it is reported gone.
ActRunSafe == LiveScopeKept /\ EnrolledQuiescent /\ RemovedIsClosed
=============================================================================
