----------------------------- MODULE CacheCare ------------------------------
(***************************************************************************)
(* Maintenance of the machine's CI cache volume by the helper containers   *)
(* of every daemon that shares it (ci/engine/maintenance_loop.rs,          *)
(* maintenance_helper.rs, machine_policy.rs, cache_usage.rs with its       *)
(* helper, journal and retry, maintenance_lease.rs; the helper journal of  *)
(* bosn-registry/cache_helper.rs).                                         *)
(*                                                                         *)
(* A daemon first reads the agreed policy through a read-only helper, then *)
(* runs passes through a writing one.  Every helper is journalled before   *)
(* Docker is asked to create it.  Docker may answer late, the attempt may  *)
(* run into its deadline and the daemon may crash: a second loop of the    *)
(* same daemon finishes what is left.  Meanwhile a client may clear the    *)
(* cache and a run may enrol it again under another policy.                *)
(***************************************************************************)
EXTENDS Integers, FiniteSets

CONSTANTS
  Daemons,
  NoncesOf,      \* [Daemons -> numbers]: helpers the daemon's journal can hold
  Policies,
  NoPolicy,
  NoHelper,
  MaxCacheFaults \* bound: deadlines, lost answers, crashes and clears

CareAssumption ==
  /\ IsFiniteSet(Daemons) /\ DOMAIN NoncesOf = Daemons
  /\ \A d \in Daemons : NoncesOf[d] \subseteq Nat \ {0}
  /\ NoPolicy \notin Policies

Helpers == {h \in Daemons \X UNION {NoncesOf[d] : d \in Daemons} : h[2] \in NoncesOf[h[1]]}

VARIABLES
  cacheVol,      \* "none", "ours" or "bare": the volume without our labels
  cachePolicy,   \* the policy recorded in the volume, or NoPolicy
  journal,       \* [Helpers -> "none" (never begun or removed), "pending", "created"]
  helper,        \* [Helpers -> "none", "asked", "made", "running"], in Docker
  aged,          \* helpers whose late-create window is over
  active,        \* helpers that an attempt of the daemon holds (in memory)
  task,          \* [Daemons -> the attempt under way: at, its nonce, what it read]
  mend,          \* [Daemons -> the cleanup under way: at, its nonce, the cursor]
  heldPolicy,    \* [Daemons -> the policy discovered, or NoPolicy]
  passLock,      \* the helper whose act process holds the maintenance lock
  cacheFaults

careVars == <<cacheVol, cachePolicy, journal, helper, aged, active, task, mend,
              heldPolicy, passLock, cacheFaults>>
cacheState == <<cacheVol, cachePolicy, heldPolicy, cacheFaults>>

Foreign == <<"foreign", 0>>
Resting == [at |-> "idle", nonce |-> 0, read |-> NoPolicy]
Mended(cursor) == [at |-> "idle", nonce |-> 0, cursor |-> cursor]

CareInit ==
  /\ cacheVol = "none" /\ cachePolicy = NoPolicy
  /\ journal = [h \in Helpers |-> "none"]
  /\ helper = [h \in Helpers |-> "none"]
  /\ aged = {} /\ active = {}
  /\ task = [d \in Daemons |-> Resting]
  /\ mend = [d \in Daemons |-> Mended(0)]
  /\ heldPolicy = [d \in Daemons |-> NoPolicy]
  /\ passLock = NoHelper
  /\ cacheFaults = 0

CacheFault == cacheFaults < MaxCacheFaults /\ cacheFaults' = cacheFaults + 1
Now(d) == <<d, task[d].nonce>>
Exists(h) == helper[h] \in {"made", "running"}
LockWithout(h) == IF passLock = h THEN NoHelper ELSE passLock

-----------------------------------------------------------------------------
(* Clients and CI runs.                                                    *)

\* ensure_cache and the agreement script of a run's archive enrolment: the
\* first policy stays ("existing policy preserved").
EnsureCache ==
  /\ cacheVol = "none"
  /\ cacheVol' = "ours"
  /\ UNCHANGED <<cachePolicy, journal, helper, aged, active, task, mend,
                 heldPolicy, passLock, cacheFaults>>

AgreePolicy(p) ==
  /\ cacheVol = "ours" /\ cachePolicy = NoPolicy
  /\ cachePolicy' = p
  /\ UNCHANGED <<cacheVol, journal, helper, aged, active, task, mend,
                 heldPolicy, passLock, cacheFaults>>

\* remove_cache: Docker refuses while a container mounts the volume.
RemoveCache ==
  /\ CacheFault
  /\ cacheVol # "none"
  /\ \A h \in Helpers : ~Exists(h)
  /\ cacheVol' = "none" /\ cachePolicy' = NoPolicy
  /\ UNCHANGED <<journal, helper, aged, active, task, mend, heldPolicy, passLock>>

-----------------------------------------------------------------------------
(* An attempt: begin, create, register, verify, start, work, clean up.     *)

\* verify_measured_volume, then the nonce is claimed and journalled.
BeginCare(d, n) ==
  LET h == <<d, n>> IN
  /\ task[d].at = "idle"
  /\ cacheVol = "ours"
  /\ journal[h] = "none" /\ helper[h] = "none"
  /\ n = CHOOSE m \in NoncesOf[d] : journal[<<d, m>>] = "none" /\ helper[<<d, m>>] = "none"
  /\ journal' = [journal EXCEPT ![h] = "pending"]
  /\ helper' = [helper EXCEPT ![h] = "asked"]
  /\ active' = active \cup {h}
  /\ aged' = aged \ {h}
  /\ task' = [task EXCEPT ![d] = [Resting EXCEPT !.at = "create", !.nonce = n]]
  /\ UNCHANGED <<cacheState, mend, passLock>>

\* Docker makes the container, and the volume anew when it is gone.
CreateLands(h) ==
  /\ helper[h] = "asked"
  /\ helper' = [helper EXCEPT ![h] = "made"]
  /\ cacheVol' = IF cacheVol = "none" THEN "bare" ELSE cacheVol
  /\ UNCHANGED <<cachePolicy, journal, aged, active, task, mend, heldPolicy,
                 passLock, cacheFaults>>

CreateSeen(d) ==
  /\ task[d].at = "create" /\ helper[Now(d)] = "made"
  /\ task' = [task EXCEPT ![d].at = "register"]
  /\ UNCHANGED <<cacheState, journal, helper, aged, active, mend, passLock>>

\* The answer is lost or late: what there is, is looked for by name.
CreateLost(d) ==
  /\ CacheFault
  /\ task[d].at = "create"
  /\ task' = [task EXCEPT ![d].at = "recover"]
  /\ UNCHANGED <<cacheVol, cachePolicy, heldPolicy, journal, helper, aged,
                 active, mend, passLock>>

Rest(d) ==
  /\ task' = [task EXCEPT ![d] = Resting]
  /\ active' = active \ {Now(d)}

\* recover_measurement: nothing by that name (yet) leaves it to the journal.
RecoverHelper(d) ==
  /\ task[d].at = "recover"
  /\ IF Exists(Now(d))
     THEN /\ journal' = [journal EXCEPT ![Now(d)] = "created"]
          /\ task' = [task EXCEPT ![d].at = "remove"]
          /\ UNCHANGED active
     ELSE Rest(d) /\ UNCHANGED journal
  /\ UNCHANGED <<cacheState, helper, aged, mend, passLock>>

RegisterCare(d) ==
  /\ task[d].at = "register"
  /\ journal' = [journal EXCEPT ![Now(d)] = "created"]
  /\ task' = [task EXCEPT ![d].at = "start"]
  /\ UNCHANGED <<cacheState, helper, aged, active, mend, passLock>>

\* "Mounting a named volume can recreate it if a concurrent clear won the
\* race": the volume is verified once more.
StartCare(d) ==
  /\ task[d].at = "start"
  /\ IF cacheVol = "ours" /\ helper[Now(d)] = "made"
     THEN /\ helper' = [helper EXCEPT ![Now(d)] = "running"]
          /\ task' = [task EXCEPT ![d].at = IF heldPolicy[d] = NoPolicy THEN "read" ELSE "agree"]
     ELSE /\ task' = [task EXCEPT ![d].at = "clean"]
          /\ UNCHANGED helper
  /\ UNCHANGED <<cacheState, journal, aged, active, mend, passLock>>

\* discover_cache_policy.
ReadPolicy(d) ==
  /\ task[d].at = "read"
  /\ task' = [task EXCEPT ![d].at = "clean",
                          ![d].read = IF Exists(Now(d)) THEN cachePolicy ELSE NoPolicy]
  /\ UNCHANGED <<cacheState, journal, helper, aged, active, mend, passLock>>

\* A variant of RequirePolicy that trusts what discovery read.
RequireNothing(d) ==
  /\ task[d].at = "agree"
  /\ task' = [task EXCEPT ![d].at = IF Exists(Now(d)) THEN "lock" ELSE "clean"]
  /\ UNCHANGED <<cacheState, journal, helper, aged, active, mend, passLock>>

\* require_cache_policy: what discovery read may be long out of date.
RequirePolicy(d) ==
  /\ task[d].at = "agree"
  /\ task' = [task EXCEPT ![d].at =
                IF Exists(Now(d)) /\ cachePolicy = heldPolicy[d] THEN "lock" ELSE "clean"]
  /\ UNCHANGED <<cacheState, journal, helper, aged, active, mend, passLock>>

\* The pass's act process, under the machine's maintenance lock (flock -n).
BeginPass(d) ==
  /\ task[d].at = "lock"
  /\ IF Exists(Now(d)) /\ passLock = NoHelper
     THEN /\ passLock' = Now(d)
          /\ task' = [task EXCEPT ![d].at = "pass"]
     ELSE /\ task' = [task EXCEPT ![d].at = "clean"]
          /\ UNCHANGED passLock
  /\ UNCHANGED <<cacheState, journal, helper, aged, active, mend>>

PassSeen(d) ==
  /\ task[d].at = "pass" /\ passLock # Now(d)
  /\ task' = [task EXCEPT ![d].at = "clean"]
  /\ UNCHANGED <<cacheState, journal, helper, aged, active, mend, passLock>>

\* confirm_measurement_absent, else the helper is removed.
CleanCare(d) ==
  /\ task[d].at = "clean"
  /\ task' = [task EXCEPT ![d].at = IF Exists(Now(d)) THEN "remove" ELSE "finish"]
  /\ UNCHANGED <<cacheState, journal, helper, aged, active, mend, passLock>>

RemoveHelper(d) ==
  /\ task[d].at = "remove"
  /\ helper' = [helper EXCEPT ![Now(d)] = "none"]
  /\ passLock' = LockWithout(Now(d))
  /\ task' = [task EXCEPT ![d].at = "finish"]
  /\ UNCHANGED <<cacheState, journal, aged, active, mend>>

\* finish_cache_helper; the discovered policy is kept from now on.
FinishCare(d) ==
  /\ task[d].at = "finish"
  /\ journal' = [journal EXCEPT ![Now(d)] = "none"]
  /\ heldPolicy' = [heldPolicy EXCEPT ![d] = IF @ = NoPolicy THEN task[d].read ELSE @]
  /\ Rest(d)
  /\ UNCHANGED <<cacheVol, cachePolicy, cacheFaults, helper, aged, mend, passLock>>

\* The pass's deadline drops the attempt where it stands.
DropAttempt(d) ==
  /\ CacheFault
  /\ task[d].at # "idle"
  /\ Rest(d)
  /\ UNCHANGED <<cacheVol, cachePolicy, heldPolicy, journal, helper, aged, mend, passLock>>

-----------------------------------------------------------------------------
(* The cleanup loop: one journalled helper at a time, after the cursor.    *)

Open(d) == {n \in NoncesOf[d] : journal[<<d, n>>] # "none" /\ <<d, n>> \notin active}
After(d) == {n \in Open(d) : n > mend[d].cursor}

\* retry_measurements: the next helper that no attempt holds, else from the top.
RetryMeasurements(d) ==
  /\ mend[d].at = "idle"
  /\ \/ /\ After(d) # {}
        /\ \E n \in After(d) :
             /\ \A m \in After(d) : n <= m
             /\ mend' = [mend EXCEPT ![d] = [at |-> "look", nonce |-> n, cursor |-> n]]
     \/ /\ After(d) = {} /\ mend[d].cursor # 0
        /\ mend' = [mend EXCEPT ![d] = Mended(0)]
  /\ UNCHANGED <<cacheState, journal, helper, aged, active, task, passLock>>

Kept(d) == mend' = [mend EXCEPT ![d] = Mended(@.cursor)]

\* reconcile_measurement: a helper never seen is done with only once its
\* late-create window is over; one that was seen, when it is gone.
Reconcile(d) ==
  LET h == <<d, mend[d].nonce>> IN
  /\ mend[d].at = "look"
  /\ \/ /\ journal[h] # "none" /\ Exists(h)
        /\ journal' = [journal EXCEPT ![h] = "created"]
        /\ mend' = [mend EXCEPT ![d].at = "remove"]
     \/ /\ ~Exists(h)
        /\ journal' = [journal EXCEPT ![h] =
              IF @ = "created" \/ (@ = "pending" /\ h \in aged) THEN "none" ELSE @]
        /\ Kept(d)
     \/ /\ journal[h] = "none"
        /\ Kept(d)
        /\ UNCHANGED journal
  /\ UNCHANGED <<cacheState, helper, aged, active, task, passLock>>

MendRemove(d) ==
  LET h == <<d, mend[d].nonce>> IN
  /\ mend[d].at = "remove"
  /\ helper' = [helper EXCEPT ![h] = "none"]
  /\ passLock' = LockWithout(h)
  /\ mend' = [mend EXCEPT ![d].at = "finish"]
  /\ UNCHANGED <<cacheState, journal, aged, active, task>>

MendFinish(d) ==
  LET h == <<d, mend[d].nonce>> IN
  /\ mend[d].at = "finish"
  /\ journal' = [journal EXCEPT ![h] = IF @ = "created" THEN "none" ELSE @]
  /\ Kept(d)
  /\ UNCHANGED <<cacheState, helper, aged, active, task, passLock>>

-----------------------------------------------------------------------------
(* Time, Docker and crashes.                                               *)

\* LATE_CREATE_WINDOW_SECS: by then a create has landed or never will.
WindowEnds(h) ==
  /\ journal[h] = "pending" /\ helper[h] # "asked"
  /\ aged' = aged \cup {h}
  /\ UNCHANGED <<cacheState, journal, helper, active, task, mend, passLock>>

\* A create that failed in Docker.
NeverMade(h) ==
  /\ CacheFault
  /\ helper[h] = "asked"
  /\ helper' = [helper EXCEPT ![h] = "none"]
  /\ UNCHANGED <<cacheVol, cachePolicy, heldPolicy, journal, aged, active, task, mend, passLock>>

\* The helper's own end (sleep 300, --rm) takes its act process with it.
HelperEnds(h) ==
  /\ helper[h] = "running"
  /\ helper' = [helper EXCEPT ![h] = "none"]
  /\ passLock' = LockWithout(h)
  /\ UNCHANGED <<cacheState, journal, aged, active, task, mend>>

\* The lock is the machine's: another daemon, an import or the engine's own
\* budget may hold it.
ForeignPass ==
  /\ passLock = NoHelper
  /\ passLock' = Foreign
  /\ UNCHANGED <<cacheState, journal, helper, aged, active, task, mend>>

PassEnds ==
  /\ passLock # NoHelper
  /\ passLock' = NoHelper
  /\ UNCHANGED <<cacheState, journal, helper, aged, active, task, mend>>

CareCrash(d) ==
  /\ CacheFault
  /\ task' = [task EXCEPT ![d] = Resting]
  /\ mend' = [mend EXCEPT ![d] = Mended(0)]
  /\ active' = {h \in active : h[1] # d}
  /\ heldPolicy' = [heldPolicy EXCEPT ![d] = NoPolicy]
  /\ UNCHANGED <<cacheVol, cachePolicy, journal, helper, aged, passLock>>

Caring(d) ==
  \/ \E n \in NoncesOf[d] : BeginCare(d, n)
  \/ CreateSeen(d) \/ RecoverHelper(d) \/ RegisterCare(d) \/ StartCare(d)
  \/ ReadPolicy(d) \/ RequirePolicy(d) \/ BeginPass(d) \/ PassSeen(d)
  \/ CleanCare(d) \/ RemoveHelper(d) \/ FinishCare(d)

Mending(d) == RetryMeasurements(d) \/ Reconcile(d) \/ MendRemove(d) \/ MendFinish(d)

Landing(h) == CreateLands(h) \/ WindowEnds(h) \/ HelperEnds(h)

CareNext ==
  \/ EnsureCache \/ RemoveCache \/ ForeignPass \/ PassEnds
  \/ \E p \in Policies : AgreePolicy(p)
  \/ \E d \in Daemons : \/ Caring(d) \/ Mending(d)
                        \/ CreateLost(d) \/ DropAttempt(d) \/ CareCrash(d)
  \/ \E h \in Helpers : Landing(h) \/ NeverMade(h)

\* Both loops of a daemon go on; Docker answers, containers end, time passes.
CareFairness ==
  /\ \A d \in Daemons : WF_careVars(Caring(d)) /\ WF_careVars(Mending(d))
  /\ \A h \in Helpers : WF_careVars(Landing(h))
  /\ WF_careVars(PassEnds)

CareSpec == CareInit /\ [][CareNext]_careVars /\ CareFairness

-----------------------------------------------------------------------------
\* What Docker still has, or may still make, the journal still knows
\* (cache_helper.rs, finish_absent_cache_helper; retry.rs, reconcile_measurement).
NoHelperForgotten == \A h \in Helpers : helper[h] # "none" => journal[h] # "none"

\* The cleanup never takes a helper from an attempt that works with it
\* (journal.rs, ActiveHelper; retry.rs, retry_measurements).
HelperIsLeftAlone == \A d \in Daemons :
  mend[d].at # "idle" => ~(<<d, mend[d].nonce>> \in active)

\* A pass runs only under the policy agreed in the volume it works on, and
\* only one of all daemons' passes at a time (maintenance_helper.rs,
\* require_cache_policy; maintenance_lease.rs).
PassObeysPolicy == \A d \in Daemons :
  task[d].at = "pass" /\ passLock = Now(d) => /\ cachePolicy = heldPolicy[d]
                                              /\ cacheVol = "ours"

CacheCareSafe == NoHelperForgotten /\ HelperIsLeftAlone /\ PassObeysPolicy

\* What holds again and again: every helper is done with, whatever became of
\* its attempt.
HelpersSettled == \A h \in Helpers : journal[h] = "none" \/ h \in active
=============================================================================
