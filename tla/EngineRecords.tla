--------------------------- MODULE EngineRecords ---------------------------
(***************************************************************************)
(* The durable records of the CI engines and of the helper containers      *)
(* (bosn-registry act.rs, act/recovery*.rs, cache_helper.rs, served by the *)
(* registry actor one command at a time), with the flows that drive them:  *)
(* an engine is made, claimed and given a recovery reservation             *)
(* (act_engine/create.rs, ci/spare.rs, tool_recovery.rs); it is retired    *)
(* (startup.rs, storage_volume.rs, source_stop.rs); the recovery worker    *)
(* publishes the tools of its stopped source volume and then releases the  *)
(* reference (tool_recovery_worker.rs, tool_recovery_helper.rs); the       *)
(* retained-source worker finalizes what is left                           *)
(* (source_finalization_worker.rs).                                        *)
(*                                                                         *)
(* A flow can end at any step (an error, a timeout of its pass) and the    *)
(* daemon can die at any step: the Docker objects and the records stay, a  *)
(* docker create already sent may still land, and the program of a running *)
(* helper goes on.  Time is what the code tests of it: the end of the      *)
(* recovery's lifetime and the end of the window for late creates.         *)
(***************************************************************************)
EXTENDS Naturals, FiniteSets

CONSTANTS
  Run,           \* engine records (run ids)
  Retirer,       \* flows that may retire an engine at the same time
  Nonce,         \* helper records kept per registry (PER_ENGINE)
  MaxFaults      \* bound on crashes, failed steps and lost replies

VARIABLES
  rec,        \* run -> its ActEngineRecord
  box,        \* run -> the engine's container
  vol,        \* runs whose private storage volume exists
  ctx,        \* runs whose source context container exists
  store,      \* run -> the producer's state for the run's reference
  expired,    \* runs whose recovery lifetime is over
  settled,    \* runs whose engine create can no longer land
  journal,    \* nonce -> its CacheHelperRecord
  cont,       \* nonce -> the helper's container
  lapsed,     \* nonces whose create can no longer land
  exit,       \* nonce -> how the helper's program ended
  daemon,     \* "up", "starting", "down" or "refused"
  window,     \* startup_open
  todo,       \* runs the startup recovery has still to mark
  maker,      \* run -> step of the flow that makes the engine
  agent,      \* flow -> its step, run, record read and helper
  faults      \* faults so far

erVars == <<rec, box, vol, ctx, store, expired, settled, journal, cont, lapsed, exit,
            daemon, window, todo, maker, agent, faults>>

docker == <<box, vol, ctx>>
helpers == <<journal, cont, lapsed, exit>>
time == <<expired, settled>>
control == <<daemon, window, todo>>

Worker == "worker"
Finalizer == "finalizer"
Agent == Retirer \cup {Worker, Finalizer}
Op == {"publish", "release", "dispose", "finalize"}

-----------------------------------------------------------------------------
(* Records. *)

\* begin_act_engine: no identity, no claim, no recovery.
NoRecord == [state |-> "none", id |-> FALSE, asked |-> FALSE, claim |-> FALSE,
             recovery |-> "none", stopped |-> FALSE, done |-> "none", disposal |-> FALSE]

\* The recovery intent still protects the source: it is alive, and its
\* reference has not been released.
Retains(r, q) == q.recovery # "none" /\ r \notin expired /\ q.done # "released"

\* What the tools queue lists: sources stopped but unpublished, and
\* publications whose reference is still held.
ToolsPending(q) ==
  \/ /\ q.state = "CleanupRequired" /\ q.recovery = "reserved"
     /\ q.stopped /\ q.done = "none"
  \/ q.done = "published"

Unsettled(h) == journal[h].st \in {"pending", "created"}

\* The index on pending helpers by source: publications and finalizations.
OnSource(r) == \E h \in Nonce : /\ Unsettled(h) /\ journal[h].run = r
                                /\ journal[h].op \in {"publish", "finalize"}

Releasing(r) == \E h \in Nonce : /\ Unsettled(h) /\ journal[h].run = r
                                 /\ journal[h].op = "release"

\* A nonce for a new helper: an unused one, or, at the limit per engine, the
\* place of one that is proven removed.
FreeNonce(h) == \/ journal[h].st = "none"
                \/ /\ \A g \in Nonce : journal[g].st # "none"
                   /\ journal[h].st = "removed"

\* Which helper may begin, by its phase.
Admits(op, r) ==
  LET q == rec[r] IN
  CASE op = "publish" -> /\ q.recovery = "reserved" /\ q.stopped /\ q.state = "CleanupRequired"
                         /\ q.done = "none" /\ ~q.disposal /\ r \notin expired /\ ~OnSource(r)
    [] op = "release" -> /\ q.recovery = "reserved" /\ q.stopped
                         /\ q.state \in {"CleanupRequired", "Terminal"}
                         /\ q.done = "published" /\ ~Releasing(r)
    [] op = "dispose" -> q.state = "CleanupRequired" /\ q.disposal
    [] OTHER -> ~OnSource(r)

Idle == [pc |-> "idle", run |-> CHOOSE r \in Run : TRUE, seen |-> NoRecord,
         nonce |-> CHOOSE h \in Nonce : TRUE]

At(a, pc) == agent' = [agent EXCEPT ![a].pc = pc]
GoIdle(a) == agent' = [agent EXCEPT ![a] = Idle]

ERInit ==
  /\ rec = [r \in Run |-> NoRecord]
  /\ box = [r \in Run |-> "none"]
  /\ vol = {} /\ ctx = {} /\ expired = {} /\ settled = {}
  /\ store = [r \in Run |-> [pin |-> "none", published |-> FALSE, fenced |-> FALSE]]
  /\ journal = [h \in Nonce |-> [st |-> "none", op |-> "publish", run |-> CHOOSE r \in Run : TRUE]]
  /\ cont = [h \in Nonce |-> "none"]
  /\ lapsed = {}
  /\ exit = [h \in Nonce |-> "none"]
  /\ daemon = "up" /\ window = FALSE /\ todo = {}
  /\ maker = [r \in Run |-> "idle"]
  /\ agent = [a \in Agent |-> Idle]
  /\ faults = 0

-----------------------------------------------------------------------------
(* Making an engine: create_owned_engine, then the claim and the reservation. *)

Make(r, from, to) == daemon = "up" /\ maker[r] = from /\ maker' = [maker EXCEPT ![r] = to]

\* The durable intent comes first; then the storage volume.
BeginEngine(r) ==
  /\ Make(r, "idle", "begun") /\ rec[r].state = "none"
  /\ rec' = [rec EXCEPT ![r] = [NoRecord EXCEPT !.state = "Pending"]]
  /\ UNCHANGED <<docker, store, time, helpers, control, agent, faults>>

EnsureVolume(r) ==
  /\ Make(r, "begun", "volumed")
  /\ vol' = vol \cup {r}
  /\ UNCHANGED <<rec, box, ctx, store, time, helpers, control, agent, faults>>

\* The request is recorded before docker create is called.
RequestCreate(r) ==
  /\ Make(r, "volumed", "requested") /\ rec[r].state = "Pending"
  /\ rec' = [rec EXCEPT ![r].asked = TRUE]
  /\ UNCHANGED <<docker, store, time, helpers, control, agent, faults>>

CreateEngine(r) ==
  /\ Make(r, "requested", "made")
  /\ box' = [box EXCEPT ![r] = "made"]
  /\ UNCHANGED <<rec, vol, ctx, store, time, helpers, control, agent, faults>>

Register(r) ==
  /\ Make(r, "made", "registered") /\ rec[r].state = "Pending" /\ ~rec[r].id
  /\ rec' = [rec EXCEPT ![r].state = "Registered", ![r].id = TRUE]
  /\ UNCHANGED <<docker, store, time, helpers, control, agent, faults>>

StartEngine(r) ==
  /\ Make(r, "registered", "started")
  /\ box' = [box EXCEPT ![r] = "up"]
  /\ UNCHANGED <<rec, vol, ctx, store, time, helpers, control, agent, faults>>

\* A failed start asks for cleanup at once.
StartFails(r) ==
  /\ Make(r, "registered", "failed") /\ faults < MaxFaults
  /\ rec' = [rec EXCEPT ![r].state = "CleanupRequired"]
  /\ faults' = faults + 1
  /\ UNCHANGED <<docker, store, time, helpers, control, agent>>

ClaimExecution(r) ==
  /\ Make(r, "started", "claimed")
  /\ rec[r].state = "Registered" /\ ~rec[r].claim
  /\ rec' = [rec EXCEPT ![r].claim = TRUE]
  /\ UNCHANGED <<docker, store, time, helpers, control, agent, faults>>

\* An engine without a tool generation has nothing to recover.
ReadyWithoutTools(r) ==
  /\ Make(r, "claimed", "ready")
  /\ UNCHANGED <<rec, docker, store, time, helpers, control, agent, faults>>

\* The recovery intent, the producer's reservation, the source context and
\* the acknowledgement, in this order.
BeginRecovery(r) ==
  /\ Make(r, "claimed", "intended")
  /\ rec[r].state = "Registered" /\ rec[r].claim /\ rec[r].recovery = "none"
  /\ rec' = [rec EXCEPT ![r].recovery = "begun"]
  /\ UNCHANGED <<docker, store, time, helpers, control, agent, faults>>

ReservePin(r) ==
  /\ Make(r, "intended", "pinned")
  /\ store' = [store EXCEPT ![r].pin = "held"]
  /\ UNCHANGED <<rec, docker, time, helpers, control, agent, faults>>

CreateContext(r) ==
  /\ Make(r, "pinned", "contexted")
  /\ ctx' = ctx \cup {r}
  /\ UNCHANGED <<rec, box, vol, store, time, helpers, control, agent, faults>>

Acknowledge(r) ==
  /\ Make(r, "contexted", "ready")
  /\ rec[r].state = "Registered" /\ rec[r].recovery = "begun" /\ r \notin expired
  /\ rec' = [rec EXCEPT ![r].recovery = "reserved"]
  /\ UNCHANGED <<docker, store, time, helpers, control, agent, faults>>

\* Any step may fail; a docker create may also have been sent.
MakeFails(r) ==
  /\ daemon = "up" /\ faults < MaxFaults
  /\ maker[r] \notin {"idle", "ready", "failed", "done"}
  /\ maker' = [maker EXCEPT ![r] = "failed"]
  /\ \/ box' = box
     \/ maker[r] = "requested" /\ box' = [box EXCEPT ![r] = "asked"]
  /\ faults' = faults + 1
  /\ UNCHANGED <<rec, vol, ctx, store, time, helpers, control, agent>>

ExpiredUnacknowledged(r) ==
  /\ Make(r, "contexted", "failed") /\ r \in expired
  /\ UNCHANGED <<rec, docker, store, time, helpers, control, agent, faults>>

\* lifecycle::cleanup, after a failure or when the shared engine retires it.
RequestCleanup(r) ==
  /\ daemon = "up" /\ maker[r] \in {"ready", "failed"}
  /\ maker' = [maker EXCEPT ![r] = "done"]
  /\ rec' = [rec EXCEPT ![r].state = IF @ \in {"Pending", "Registered"}
                                      THEN "CleanupRequired" ELSE @]
  /\ UNCHANGED <<docker, store, time, helpers, control, agent, faults>>

-----------------------------------------------------------------------------
(* Helper containers: journalled before they are created, after they are
   removed.  The producer (the act command inside) serializes its own steps. *)

Active(a, pc) == daemon \in {"up", "starting"} /\ agent[a].pc = pc

\* verify_helper_storage.
StorageFits(op, r) ==
  /\ op # "release" => box[r] \notin {"made", "up"}
  /\ op = "publish" => r \in vol
  /\ op = "finalize" => r \in ctx

BeginHelper(a, op, r, h) ==
  /\ StorageFits(op, r) /\ Admits(op, r) /\ FreeNonce(h)
  /\ journal' = [journal EXCEPT ![h] = [st |-> "pending", op |-> op, run |-> r]]
  /\ lapsed' = lapsed \ {h} /\ exit' = [exit EXCEPT ![h] = "none"]
  /\ window' = FALSE
  /\ agent' = [agent EXCEPT ![a].pc = "create", ![a].run = r, ![a].nonce = h]
  /\ UNCHANGED <<rec, docker, store, time, cont, daemon, todo, maker, faults>>

\* HelperBegin closes the startup window even when it is refused.
RefuseHelper(a, op, r) ==
  /\ StorageFits(op, r) /\ ~(Admits(op, r) /\ \E h \in Nonce : FreeNonce(h))
  /\ window' = FALSE /\ GoIdle(a)
  /\ UNCHANGED <<rec, docker, store, time, helpers, daemon, todo, maker, faults>>

CreateHelper(a) ==
  LET h == agent[a].nonce IN
  /\ Active(a, "create")
  /\ \/ cont' = [cont EXCEPT ![h] = "made"] /\ At(a, "register") /\ faults' = faults
     \/ /\ faults < MaxFaults /\ faults' = faults + 1
        /\ cont' = [cont EXCEPT ![h] = "asked"] /\ GoIdle(a)
  /\ UNCHANGED <<rec, docker, store, time, journal, lapsed, exit, control, maker>>

RegisterHelper(a) ==
  LET h == agent[a].nonce IN
  /\ Active(a, "register")
  /\ journal' = [journal EXCEPT ![h].st = "created"]
  /\ At(a, "start")
  /\ UNCHANGED <<rec, docker, store, time, cont, lapsed, exit, control, maker, faults>>

\* The storage is checked again before the program runs.
StartHelper(a) ==
  LET h == agent[a].nonce IN
  /\ Active(a, "start")
  /\ IF StorageFits(journal[h].op, journal[h].run)
     THEN /\ cont' = [cont EXCEPT ![h] = "running"] /\ At(a, "wait")
          /\ journal' = journal
     ELSE /\ cont' = [cont EXCEPT ![h] = "none"] /\ GoIdle(a)
          /\ journal' = [journal EXCEPT ![h].st = "removed"]
  /\ UNCHANGED <<rec, docker, store, time, lapsed, exit, control, maker, faults>>

\* The producer's program: what it does to the store, and its end.
Produce(h) ==
  LET r == journal[h].run
      live == r \notin expired
      ok == CASE journal[h].op = "publish" -> /\ store[r].pin = "held" /\ live /\ r \in vol
                                              /\ ~store[r].fenced
              [] OTHER -> TRUE IN
  /\ cont[h] = "running"
  /\ cont' = [cont EXCEPT ![h] = "none"]
  /\ \/ /\ ok /\ exit' = [exit EXCEPT ![h] = "ok"] /\ faults' = faults
        /\ store' = [store EXCEPT ![r] =
             CASE journal[h].op = "publish" -> [@ EXCEPT !.published = TRUE]
               [] journal[h].op = "release" -> [@ EXCEPT !.pin = "gone"]
               [] journal[h].op = "dispose" -> [@ EXCEPT !.fenced = TRUE]
               [] OTHER -> [pin |-> "gone", published |-> @.published \/ (live /\ r \in vol),
                            fenced |-> TRUE]]
     \/ /\ ~ok \/ faults < MaxFaults
        /\ faults' = IF ok THEN faults + 1 ELSE faults
        /\ exit' = [exit EXCEPT ![h] = "failed"] /\ store' = store
  /\ UNCHANGED <<rec, docker, time, journal, lapsed, control, maker, agent>>

WaitHelper(a) ==
  LET h == agent[a].nonce IN
  /\ Active(a, "wait") /\ cont[h] = "none"
  /\ IF exit[h] = "ok"
     THEN At(a, "commit") /\ journal' = journal
     ELSE GoIdle(a) /\ journal' = [journal EXCEPT ![h].st = "removed"]
  /\ UNCHANGED <<rec, docker, store, time, cont, lapsed, exit, control, maker, faults>>

\* The receipt is committed before the helper is marked removed.
CommitReceipt(a) ==
  LET h == agent[a].nonce
      r == journal[h].run
      op == journal[h].op IN
  /\ Active(a, "commit")
  /\ \/ /\ op = "publish" /\ rec[r].state = "CleanupRequired" /\ rec[r].stopped
        /\ rec' = [rec EXCEPT ![r].done = IF @ = "none" THEN "published" ELSE @]
        /\ At(a, "finish")
     \/ /\ op = "release" /\ rec[r].state \in {"CleanupRequired", "Terminal"}
        /\ rec[r].done # "none"
        /\ rec' = [rec EXCEPT ![r].done = "released"] /\ At(a, "finish")
     \/ /\ op \in {"dispose", "finalize"} /\ StorageFits(op, r)
        /\ rec' = rec /\ At(a, "finish")
     \/ /\ \/ op = "publish" /\ ~(rec[r].state = "CleanupRequired" /\ rec[r].stopped)
           \/ op \in {"dispose", "finalize"} /\ ~StorageFits(op, r)
        /\ rec' = rec /\ GoIdle(a)
  /\ UNCHANGED <<docker, store, time, helpers, control, maker, faults>>

\* What the flow does after its helper.
AfterHelper(a) == CASE a \in Retirer -> "rmvol" [] a = Finalizer -> "rmsrc" [] OTHER -> "idle"

FinishHelper(a) ==
  LET h == agent[a].nonce IN
  /\ Active(a, "finish")
  /\ journal' = [journal EXCEPT ![h].st = "removed"]
  /\ IF AfterHelper(a) = "idle" THEN GoIdle(a) ELSE At(a, AfterHelper(a))
  /\ UNCHANGED <<rec, docker, store, time, cont, lapsed, exit, control, maker, faults>>

\* The flow that works with helper h (ActiveHelper).
InUse(h) == \E a \in Agent : /\ agent[a].nonce = h
                            /\ agent[a].pc \in {"create", "register", "start", "wait", "commit", "finish"}

\* The periodic sweep of helpers nobody is working with.
Reconcile(h) ==
  /\ daemon = "up" /\ Unsettled(h) /\ ~InUse(h)
  /\ \/ cont[h] \in {"made", "running"}
     \/ cont[h] = "none" /\ (journal[h].st = "created" \/ h \in lapsed)
  /\ cont' = [cont EXCEPT ![h] = "none"]
  /\ journal' = [journal EXCEPT ![h].st = "removed"]
  /\ UNCHANGED <<rec, docker, store, time, lapsed, exit, control, maker, agent, faults>>

LandHelper(h) ==
  /\ cont[h] = "asked"
  /\ cont' = [cont EXCEPT ![h] = "made"]
  /\ UNCHANGED <<rec, docker, store, time, journal, lapsed, exit, control, maker, agent, faults>>

LapseHelper(h) ==
  /\ journal[h].st = "pending" /\ ~InUse(h) /\ h \notin lapsed
  /\ lapsed' = lapsed \cup {h}
  /\ cont' = [cont EXCEPT ![h] = IF @ = "asked" THEN "none" ELSE @]
  /\ UNCHANGED <<rec, docker, store, time, journal, exit, control, maker, agent, faults>>

-----------------------------------------------------------------------------
(* Retiring an engine.  The flow works from the record it read (seen). *)

Seen(a) == agent[a].seen
Of(a) == agent[a].run

RetireStart(a, r) ==
  /\ daemon = "up" /\ agent[a].pc = "idle" /\ rec[r].state = "CleanupRequired"
  /\ agent' = [agent EXCEPT ![a].pc = "list", ![a].run = r, ![a].seen = rec[r]]
  /\ UNCHANGED <<rec, docker, store, time, helpers, control, maker, faults>>

\* confirm_absence: a create that may still land keeps the record.
AbsenceProven(a) == Seen(a).id \/ ~Seen(a).asked \/ Of(a) \in settled

RetireAbsent(a) ==
  /\ Active(a, "list") /\ box[Of(a)] \notin {"made", "up"}
  /\ IF AbsenceProven(a) THEN At(a, "stop") ELSE GoIdle(a)
  /\ UNCHANGED <<rec, docker, store, time, helpers, control, maker, faults>>

\* An engine found under its name gets its identity recorded first.
RetireRecover(a) ==
  LET r == Of(a) IN
  /\ Active(a, "list") /\ box[r] \in {"made", "up"} /\ ~Seen(a).id
  /\ IF rec[r].state = "CleanupRequired" /\ ~rec[r].id
     THEN /\ rec' = [rec EXCEPT ![r].id = TRUE] /\ At(a, "authorize")
     ELSE rec' = rec /\ GoIdle(a)
  /\ UNCHANGED <<docker, store, time, helpers, control, maker, faults>>

RetireAuthorize(a) ==
  LET r == Of(a) IN
  /\ \/ Active(a, "authorize")
     \/ Active(a, "list") /\ box[r] \in {"made", "up"} /\ Seen(a).id
  /\ IF rec[r].state = "CleanupRequired" /\ rec[r].id
     THEN agent' = [agent EXCEPT ![a].pc = "remove", ![a].seen = rec[r]]
     ELSE GoIdle(a)
  /\ UNCHANGED <<rec, docker, store, time, helpers, control, maker, faults>>

RetireRemove(a) ==
  /\ Active(a, "remove")
  /\ box' = [box EXCEPT ![Of(a)] = "none"]
  /\ At(a, "stop")
  /\ UNCHANGED <<rec, vol, ctx, store, time, helpers, control, maker, faults>>

\* stop_source_writers: a retained source must be reserved and present; that
\* its writers are gone is recorded, while the reservation lives.
RetireStop(a) ==
  LET r == Of(a)  q == Seen(a) IN
  /\ Active(a, "stop")
  /\ \/ /\ ~Retains(r, q) \/ (q.recovery = "reserved" /\ r \in vol /\ q.stopped)
        /\ rec' = rec /\ At(a, "dispose")
     \/ /\ Retains(r, q) /\ q.recovery = "reserved" /\ r \in vol /\ ~q.stopped
        /\ rec[r].state = "CleanupRequired"
        /\ rec' = [rec EXCEPT ![r].stopped = TRUE] /\ At(a, "dispose")
     \/ /\ Retains(r, q)
        /\ q.recovery # "reserved" \/ r \notin vol \/ rec[r].state # "CleanupRequired"
        /\ rec' = rec /\ GoIdle(a)
  /\ UNCHANGED <<docker, store, time, helpers, control, maker, faults>>

\* A variant of MayDispose that trusts the record read before.
MayDisposeSeen(r) == rec[r].state = "CleanupRequired"

\* claim_act_tool_source_disposal.
MayDispose(r) ==
  /\ rec[r].state = "CleanupRequired" /\ ~Retains(r, rec[r])
  /\ rec[r].disposal \/ ~OnSource(r)

\* remove_storage_volume: a retained source stays; one with a recovery is
\* claimed for disposal and fenced by a helper before it goes.
RetireDispose(a) ==
  LET r == Of(a)  q == Seen(a) IN
  /\ Active(a, "dispose")
  /\ \/ q.recovery = "none" /\ rec' = rec /\ At(a, "rmvol")
     \/ /\ q.recovery # "none" /\ ~Retains(r, q) /\ MayDispose(r)
        /\ rec' = [rec EXCEPT ![r].disposal = TRUE] /\ At(a, "fence")
     \/ /\ q.recovery # "none" /\ (Retains(r, q) \/ ~MayDispose(r))
        /\ rec' = rec /\ GoIdle(a)
  /\ UNCHANGED <<docker, store, time, helpers, control, maker, faults>>

RetireFence(a) ==
  /\ Active(a, "fence")
  /\ \/ \E h \in Nonce : BeginHelper(a, "dispose", Of(a), h)
     \/ RefuseHelper(a, "dispose", Of(a))

RemoveVolume(a) ==
  /\ Active(a, "rmvol")
  /\ vol' = vol \ {Of(a)}
  /\ At(a, "final")
  /\ UNCHANGED <<rec, box, ctx, store, time, helpers, control, maker, faults>>

\* finalize_act_cleanup, in the registry.
Finalize(a) ==
  LET r == Of(a) IN
  /\ Active(a, "final") /\ GoIdle(a)
  /\ rec' = IF rec[r].state = "CleanupRequired" /\ ~Retains(r, rec[r]) /\ ~OnSource(r)
            THEN [rec EXCEPT ![r].state = "Terminal"] ELSE rec
  /\ UNCHANGED <<docker, store, time, helpers, control, maker, faults>>

-----------------------------------------------------------------------------
(* The recovery worker and the retained-source worker. *)

RecoverTools(r) ==
  /\ daemon = "up" /\ agent[Worker].pc = "idle" /\ ToolsPending(rec[r])
  /\ \/ rec[r].done = "published" /\ \E h \in Nonce : BeginHelper(Worker, "release", r, h)
     \/ rec[r].done = "none" /\ \E h \in Nonce : BeginHelper(Worker, "publish", r, h)

FinalizeSource(r) ==
  /\ daemon = "up" /\ agent[Finalizer].pc = "idle"
  /\ rec[r].state = "Terminal" /\ r \in ctx
  /\ \E h \in Nonce : BeginHelper(Finalizer, "finalize", r, h)

\* The source, if it is still there, and then its context go.
DisposeSource ==
  /\ Active(Finalizer, "rmsrc")
  /\ IF Of(Finalizer) \in vol
     THEN vol' = vol \ {Of(Finalizer)} /\ UNCHANGED <<ctx, agent>>
     ELSE ctx' = ctx \ {Of(Finalizer)} /\ GoIdle(Finalizer) /\ UNCHANGED vol
  /\ UNCHANGED <<rec, box, store, time, helpers, control, maker, faults>>

-----------------------------------------------------------------------------
(* Time, faults, restart. *)

Expire(r) ==
  /\ rec[r].recovery # "none" /\ r \notin expired
  /\ expired' = expired \cup {r}
  /\ UNCHANGED <<rec, docker, store, settled, helpers, control, maker, agent, faults>>

LandEngine(r) ==
  /\ box[r] = "asked"
  /\ box' = [box EXCEPT ![r] = "made"]
  /\ UNCHANGED <<rec, vol, ctx, store, time, helpers, control, maker, agent, faults>>

\* The window for a late create ends, counted from the record's last change.
Settle(r) ==
  /\ rec[r].asked /\ r \notin settled /\ maker[r] \in {"idle", "failed", "done"}
  /\ settled' = settled \cup {r}
  /\ box' = [box EXCEPT ![r] = IF @ = "asked" THEN "none" ELSE @]
  /\ UNCHANGED <<rec, vol, ctx, store, expired, helpers, control, maker, agent, faults>>

\* A step fails, or the pass the flow belongs to runs out of time.
Abort(a) ==
  /\ daemon = "up" /\ agent[a].pc # "idle" /\ faults < MaxFaults
  /\ faults' = faults + 1 /\ GoIdle(a)
  /\ UNCHANGED <<rec, docker, store, time, helpers, control, maker>>

Crash ==
  /\ daemon \in {"up", "starting"} /\ faults < MaxFaults
  /\ faults' = faults + 1
  /\ daemon' = "down" /\ window' = FALSE /\ todo' = {}
  /\ agent' = [a \in Agent |-> Idle]
  /\ box' = [r \in Run |-> IF maker[r] = "requested" THEN "asked" ELSE box[r]]
  /\ maker' = [r \in Run |-> IF rec[r].state = "none" THEN "idle" ELSE "done"]
  /\ cont' = [h \in Nonce |-> IF \E a \in Agent : agent[a].pc = "create" /\ agent[a].nonce = h
                               THEN "asked" ELSE cont[h]]
  /\ UNCHANGED <<rec, vol, ctx, store, time, journal, lapsed, exit>>

Starter == CHOOSE a \in Retirer : TRUE

Restart ==
  /\ daemon \in {"down", "refused"}
  /\ daemon' = "starting" /\ window' = TRUE
  /\ todo' = {r \in Run : rec[r].state \notin {"none", "Terminal"}}
  /\ UNCHANGED <<rec, docker, store, time, helpers, maker, agent, faults>>

\* recover_startup_act_engines: mark one record interrupted and retire its
\* engine; StartupInterrupt is refused once the window is closed.
StartupMark(r) ==
  /\ daemon = "starting" /\ r \in todo /\ agent[Starter].pc = "idle" /\ window
  /\ todo' = todo \ {r}
  /\ LET q == [rec[r] EXCEPT !.state = "CleanupRequired"] IN
     /\ rec' = [rec EXCEPT ![r] = q]
     /\ agent' = [agent EXCEPT ![Starter].pc = "list", ![Starter].run = r, ![Starter].seen = q]
  /\ UNCHANGED <<docker, store, time, helpers, daemon, window, maker, faults>>

StartupRefused ==
  /\ daemon = "starting" /\ todo # {} /\ agent[Starter].pc = "idle" /\ ~window
  /\ daemon' = "refused" /\ todo' = {}
  /\ UNCHANGED <<rec, docker, store, time, helpers, window, maker, agent, faults>>

Seal ==
  /\ daemon = "starting" /\ todo = {} /\ agent[Starter].pc = "idle"
  /\ daemon' = "up" /\ window' = FALSE
  /\ UNCHANGED <<rec, docker, store, time, helpers, todo, maker, agent, faults>>

-----------------------------------------------------------------------------
MakerStep(r) ==
  \/ BeginEngine(r) \/ EnsureVolume(r) \/ RequestCreate(r) \/ CreateEngine(r)
  \/ Register(r) \/ StartEngine(r) \/ ClaimExecution(r) \/ ReadyWithoutTools(r)
  \/ BeginRecovery(r) \/ ReservePin(r) \/ CreateContext(r) \/ Acknowledge(r)
  \/ ExpiredUnacknowledged(r) \/ RequestCleanup(r)

HelperStep(a) ==
  \/ CreateHelper(a) \/ RegisterHelper(a) \/ StartHelper(a)
  \/ WaitHelper(a) \/ CommitReceipt(a) \/ FinishHelper(a)

RetireStep(a) ==
  \/ RetireAbsent(a) \/ RetireRecover(a) \/ RetireAuthorize(a) \/ RetireRemove(a)
  \/ RetireStop(a) \/ RetireDispose(a) \/ RetireFence(a) \/ RemoveVolume(a) \/ Finalize(a)

StartupStep == StartupRefused \/ Seal \/ \E r \in Run : StartupMark(r)

ERNext ==
  \/ \E r \in Run : \/ MakerStep(r) \/ StartFails(r) \/ MakeFails(r)
                    \/ RecoverTools(r) \/ FinalizeSource(r)
                    \/ Expire(r) \/ LandEngine(r) \/ Settle(r)
  \/ \E a \in Retirer : RetireStep(a) \/ \E r \in Run : RetireStart(a, r)
  \/ \E a \in Agent : HelperStep(a) \/ Abort(a)
  \/ \E h \in Nonce : Produce(h) \/ Reconcile(h) \/ LandHelper(h) \/ LapseHelper(h)
  \/ DisposeSource \/ Crash \/ Restart \/ StartupStep

\* The daemon's loops: the cleanup pass every minute, the recovery and the
\* retained-source passes every ten seconds, each step of a flow with a
\* deadline; the clock passes; somebody starts the daemon again.
ERFairness ==
  /\ WF_erVars(Restart) /\ WF_erVars(StartupStep) /\ WF_erVars(DisposeSource)
  /\ \A r \in Run : /\ WF_erVars(RecoverTools(r)) /\ WF_erVars(FinalizeSource(r))
                     /\ WF_erVars(Expire(r)) /\ WF_erVars(Settle(r)) /\ WF_erVars(MakerStep(r))
  /\ \A a \in Retirer : WF_erVars(RetireStep(a)) /\ \A r \in Run : WF_erVars(RetireStart(a, r))
  /\ \A a \in Agent : WF_erVars(HelperStep(a))
  /\ \A h \in Nonce : WF_erVars(Produce(h)) /\ WF_erVars(Reconcile(h)) /\ WF_erVars(LapseHelper(h))

ERSpec == ERInit /\ [][ERNext]_erVars /\ ERFairness

-----------------------------------------------------------------------------
(* Properties. *)

ERTypeOK ==
  /\ rec \in [Run -> [state : {"none", "Pending", "Registered", "CleanupRequired", "Terminal"},
                       id : BOOLEAN, asked : BOOLEAN, claim : BOOLEAN,
                       recovery : {"none", "begun", "reserved"}, stopped : BOOLEAN,
                       done : {"none", "published", "released"}, disposal : BOOLEAN]]
  /\ box \in [Run -> {"none", "asked", "made", "up"}]
  /\ vol \subseteq Run /\ ctx \subseteq Run /\ expired \subseteq Run /\ settled \subseteq Run
  /\ journal \in [Nonce -> [st : {"none", "pending", "created", "removed"}, op : Op, run : Run]]
  /\ cont \in [Nonce -> {"none", "asked", "made", "running"}]
  /\ daemon \in {"up", "starting", "down", "refused"}
  /\ faults \in 0..MaxFaults

\* A terminal record means what its removal proof says: the container and the
\* storage volume are gone and stay gone, whatever was still in flight when
\* the daemon that made the engine died or lost a reply.
TerminalIsClean ==
  \A r \in Run : rec[r].state = "Terminal" => box[r] = "none" /\ r \notin vol

\* The private source of an engine with a live recovery is never removed
\* before its tools are published and the reference is released, and never
\* while a helper that reads it can still run: not by a retirement working
\* from a record read earlier, not by a second retirement, not after a crash.
KeepsSource ==
     \A r \in Run : r \in vol /\ r \notin vol' =>
        /\ rec[r].recovery = "none" \/ r \in expired
             \/ (store[r].published /\ store[r].pin = "gone")
        /\ \A h \in Nonce : journal[h].run = r /\ journal[h].op = "publish"
                                => cont[h] \in {"none"}

\* What holds again and again: every engine marked for cleanup is removed in
\* the end, through failed steps, crashes and helpers whose fate is unknown, and
\* every helper record is closed.
EnginesSettled ==
  /\ \A r \in Run : rec[r].state # "CleanupRequired"
  /\ \A h \in Nonce : journal[h].st # "pending"
=============================================================================
