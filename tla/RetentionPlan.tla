---------------------------- MODULE RetentionPlan ----------------------------
(***************************************************************************)
(* The managed retention pass of the daemon: what the engine's objects     *)
(* look like to the pass (managed_retention.rs), how the pass plans their  *)
(* removal (bosn-core retention.rs, eager.rs, footprint.rs), and the       *)
(* re-check of every candidate before its removal.                         *)
(*                                                                         *)
(* Ages and sizes are small numbers whose order against the gates of the   *)
(* policy is all that matters.  An object's labels are reduced to what the *)
(* classification reads: whose registry they name, the pin, and the        *)
(* workspace (of stack and spec scoped volumes), a number in the order of  *)
(* the workspaces' names, or NoWs.  One stack name is modelled, so a       *)
(* family groups workspaces only.                                          *)
(***************************************************************************)
EXTENDS Integers, FiniteSets, Sequences, SequencesExt, FiniteSetsExt, Functions

CONSTANTS
    Worlds,      \* the engines a pass may find: functions from ids to objects
    Policies,    \* the retention policies a pass may run under
    Facts,       \* what became of each workspace: "gone", a family, or "unread"
    OwnedCeiling,   \* DEFAULT_OWNED_CEILING
    PressureTTL,    \* PRESSURE_CONTAINER_TTL
    FamilyKeep,     \* FAMILY_KEEP
    MaxRemovals     \* MAX_MANAGED_REMOVALS

PlanAssumption ==
    /\ OwnedCeiling \in Nat /\ PressureTTL \in Nat
    /\ FamilyKeep \in Nat /\ MaxRemovals \in Nat \ {0}

Unknown == -1          \* a size the engine did not report
Unlimited == -1        \* Option::None of max_bytes and idle_volume_budget
NoWs == 0

VARIABLES
    objects,   \* the engine: [id -> object], only the objects that exist
    policy,    \* the policy of the maintenance tick
    facts,     \* what the workspaces' directories look like
    stage,     \* "choose", "observe", "apply"
    plan,      \* the RetentionPlan of this pass, with the engine it was made for
    quiet      \* no container starts any more

planVars == <<objects, policy, facts, stage, plan, quiet>>

-----------------------------------------------------------------------------
\* What the pass observes.

\* A volume or image is in use while any container, running or not, refers to
\* it; a container is while it runs.
InUse(id, o) ==
    IF o[id].kind = "container" THEN o[id].running
    ELSE \E c \in DOMAIN o : o[c].kind = "container" /\ id \in o[c].uses

\* The pass sees every labelled object; a container or volume without a
\* usable creation time makes the read incomplete and refuses the pass.
ObserveRefused(o) ==
    \E id \in DOMAIN o : o[id].kind \in {"container", "volume"} /\ o[id].age = Unknown

SizeOf(o, id) == IF o[id].bytes = Unknown THEN 0 ELSE o[id].bytes

\* OwnedFootprint::of(..).total(): unmeasured objects count nothing.
Footprint(o) ==
    FoldSet(LAMBDA id, sum : sum + SizeOf(o, id), 0, DOMAIN o)

UnderDiskPressure(p) == [p EXCEPT !.container = Min({@, PressureTTL}), !.budget = 0]

ForFootprint(p, o) == IF Footprint(o) > OwnedCeiling THEN UnderDiskPressure(p) ELSE p

-----------------------------------------------------------------------------
\* Classification.

TtlFor(p, kind) == CASE kind = "container" -> p.container
                     [] kind = "volume" -> p.volume
                     [] kind = "image" -> p.image
                     [] OTHER -> Unlimited

\* classify_managed: the first reason that applies, in the code's order.
HoldReasons(id, o, p) ==
    LET a == o[id] IN
    << <<a.own = "unlabelled", "not-bosn-owned">>,
       <<a.own = "incomplete", "incomplete-labels">>,
       <<a.own = "foreign", "foreign-registry">>,
       <<TtlFor(p, a.kind) = Unlimited, "unsupported-kind">>,
       <<InUse(id, o), "in-use">>,
       <<a.pinned, "pinned">>,
       <<a.age < TtlFor(p, a.kind), "within-ttl">>,
       <<TRUE, "none">> >>

Classify(id, o, p) ==
    LET reasons == HoldReasons(id, o, p)
    IN  reasons[SelectInSeq(reasons, LAMBDA r : r[1])][2]

\* The volumes that only their age holds, under the holds h of every object.
IdleVolumes(o, h) == {id \in DOMAIN o : o[id].kind = "volume" /\ h[id] = "within-ttl"}

-----------------------------------------------------------------------------
\* Eager promotion (eager.rs).

Older(o, a, b) == o[a].age > o[b].age \/ (o[a].age = o[b].age /\ a < b)

\* The workspaces of a family beyond the FamilyKeep most recently used ones;
\* a workspace is as recent as its youngest idle volume, ties by name.
OverCap(o, idle, f) ==
    LET inFamily == {id \in idle : o[id].ws # NoWs /\ f[o[id].ws] \notin {"gone", "unread"}}
        spaces == {o[id].ws : id \in inFamily}
        newest(w) == Min({o[id].age : id \in {v \in inFamily : o[v].ws = w}})
        Ahead(x, w) == f[x] = f[w] /\ (newest(x) < newest(w) \/ (newest(x) = newest(w) /\ x < w))
    IN  {w \in spaces : Cardinality({x \in spaces : Ahead(x, w)}) >= FamilyKeep}

\* Idle volumes past the floor whose workspace is gone or over its family's cap.
Eager(o, p, f, idle, overCap) ==
    {id \in idle : /\ o[id].age >= p.floor
                   /\ o[id].ws # NoWs
                   /\ f[o[id].ws] = "gone" \/ o[id].ws \in overCap}

-----------------------------------------------------------------------------
\* The idle volume budget: oldest first until what stays held fits.

Bytes(o, ids) == FoldSet(LAMBDA id, sum : sum + SizeOf(o, id), 0, ids)

Promotable(o, p, idle) == {id \in idle : o[id].bytes # Unknown /\ o[id].age >= p.floor}

\* A variant of OverBudget that starts with the youngest volume.
OverBudgetYoungest(o, p, idle) ==
    {v \in Promotable(o, p, idle) :
        /\ p.budget # Unlimited
        /\ Bytes(o, idle) - Bytes(o, {u \in Promotable(o, p, idle) : Older(o, v, u)}) > p.budget}

\* A volume is promoted while what the older ones left is still over the budget.
OverBudget(o, p, idle) ==
    {v \in Promotable(o, p, idle) :
        /\ p.budget # Unlimited
        /\ Bytes(o, idle) - Bytes(o, {u \in Promotable(o, p, idle) : Older(o, u, v)}) > p.budget}

-----------------------------------------------------------------------------
\* The plan.

KindRank(kind) == CASE kind = "container" -> 0 [] kind = "volume" -> 1
                    [] kind = "image" -> 2 [] OTHER -> 3

Before(o, a, b) ==
    \/ KindRank(o[a].kind) < KindRank(o[b].kind)
    \/ KindRank(o[a].kind) = KindRank(o[b].kind) /\ Older(o, a, b)

RemovalOrder(o, ids) ==
    [k \in 1..Cardinality(ids) |->
        CHOOSE id \in ids : Cardinality({x \in ids : Before(o, x, id)}) = k - 1]

\* apply_budget: at most MaxRemovals, and under a byte ceiling only measured
\* objects that still fit; the rest is deferred to a later pass.
Fits(acc, o, id, p) ==
    /\ Len(acc.kept) < MaxRemovals
    /\ p.max # Unlimited => o[id].bytes # Unknown /\ acc.bytes + o[id].bytes <= p.max

ApplyBudget(o, p, order) ==
    FoldLeft(LAMBDA acc, id :
                 IF Fits(acc, o, id, p)
                 THEN [acc EXCEPT !.kept = Append(@, id), !.bytes = @ + SizeOf(o, id)]
                 ELSE [acc EXCEPT !.deferred = @ + 1],
             [kept |-> <<>>, bytes |-> 0, deferred |-> 0], order)

\* plan_managed_with, one value at a time: the holds, the eager volumes, the
\* ones over the budget, and the cut of the sorted candidates.
PlanManaged(o, p, f) ==
    \E h \in {[id \in DOMAIN o |-> Classify(id, o, p)]} :
    \E overCap \in {OverCap(o, IdleVolumes(o, h), f)} :
    \E eager \in {Eager(o, p, f, IdleVolumes(o, h), overCap)} :
    \E idle \in {IdleVolumes(o, h) \ eager} :
    \E over \in {OverBudget(o, p, idle)} :
    \E chosen \in {{id \in DOMAIN o : h[id] = "none"} \union eager \union over} :
    \E cut \in {ApplyBudget(o, p, RemovalOrder(o, chosen))} :
        plan' = [candidates |-> cut.kept, planned |-> Len(cut.kept),
                 deferred |-> cut.deferred, idle |-> idle, over |-> over, policy |-> p, seen |-> o]

NoPlan == [candidates |-> <<>>, planned |-> 0, deferred |-> 0, idle |-> {}, over |-> {},
           policy |-> [budget |-> Unlimited], seen |-> <<>>]

\* The gates of the re-check: promotion ignored a volume's TTL but not the floor.

RecheckGates(p) == [p EXCEPT !.volume = Min({@, p.floor})]

-----------------------------------------------------------------------------
\* One pass after another over one engine.

PlanInit ==
    /\ objects = <<>> /\ policy = [container |-> 0] /\ facts = <<>>
    /\ stage = "choose" /\ plan = NoPlan /\ quiet = FALSE

Choose ==
    /\ stage = "choose"
    /\ \E o \in Worlds, p \in Policies, f \in Facts :
           objects' = o /\ policy' = p /\ facts' = f
    /\ stage' = "observe"
    /\ UNCHANGED <<plan, quiet>>

\* managed_retention_pass up to the plan; an incomplete read refuses the pass.
PlanPass ==
    /\ stage = "observe" /\ ~ObserveRefused(objects)
    /\ PlanManaged(objects, ForFootprint(policy, objects), facts)
    /\ stage' = "apply"
    /\ UNCHANGED <<objects, policy, facts, quiet>>

RefusePass ==
    /\ stage = "observe" /\ ObserveRefused(objects)
    /\ plan' = NoPlan
    /\ UNCHANGED <<objects, policy, facts, stage, quiet>>

\* Between the plan and a removal a container may start.
Started(c) ==
    /\ stage = "apply" /\ ~quiet
    /\ objects[c].kind = "container" /\ ~objects[c].running
    /\ objects' = [objects EXCEPT ![c].running = TRUE]
    /\ quiet' = TRUE
    /\ UNCHANGED <<policy, facts, stage, plan>>

Without(o, id) == [i \in DOMAIN o \ {id} |-> o[i]]

\* revalidate: the object is re-read and classified under the re-check's gates.
Reclaimable(id, o, p) == id \in DOMAIN o /\ Classify(id, o, RecheckGates(p)) = "none"

\* The candidates in order, each re-checked and removed before the next.
RemoveOwned ==
    /\ stage = "apply" /\ plan.candidates # <<>>
    /\ LET id == Head(plan.candidates) IN
           objects' = IF Reclaimable(id, objects, plan.policy) THEN Without(objects, id) ELSE objects
    /\ plan' = [plan EXCEPT !.candidates = Tail(@)]
    /\ UNCHANGED <<policy, facts, stage, quiet>>

PassEnds ==
    /\ stage = "apply" /\ plan.candidates = <<>>
    /\ stage' = "observe" /\ quiet' = TRUE
    /\ UNCHANGED <<objects, policy, facts, plan>>

RetentionNext ==
    \/ Choose
    \/ PlanPass
    \/ RefusePass
    \/ \E c \in DOMAIN objects : Started(c)
    \/ RemoveOwned
    \/ PassEnds

RetentionSpec ==
    /\ PlanInit /\ [][RetentionNext]_planVars
    /\ WF_planVars(Choose \/ PlanPass \/ RemoveOwned \/ PassEnds)

-----------------------------------------------------------------------------
\* Properties.

\* What the budget leaves is the least it could leave: the volumes it promotes
\* are the oldest promotable ones, they bring the idle bytes within the budget
\* or nothing promotable is left, and one fewer would not have been enough
\* (retention.rs promote_over_idle_volume_budget).
OldestGoFirst ==
    stage = "apply" /\ plan.policy.budget # Unlimited =>
        LET o == plan.seen
            stays == plan.idle \ plan.over
            budget == plan.policy.budget
        IN  /\ \A u \in plan.over, v \in Promotable(o, plan.policy, stays) : Older(o, u, v)
            /\ Bytes(o, stays) <= budget \/ Promotable(o, plan.policy, stays) = {}
            /\ \A u \in plan.over :
                   (\A w \in plan.over : w = u \/ Older(o, w, u)) => Bytes(o, stays \union {u}) > budget

\* What holds again and again: a pass plans no removal, or is refused.  A
\* candidate the re-check always refuses, or two passes that undo each other's
\* gates, would plan for ever (managed_retention.rs managed_retention_pass, revalidate).
RetentionSettled == ObserveRefused(objects) \/ (stage = "apply" /\ plan.planned = 0)
=============================================================================
