----------------------------- MODULE Unmanaged -----------------------------
(***************************************************************************)
(* `bosn gc --unmanaged` (bosn-core's unmanaged.rs and unmanaged/docker.rs, *)
(* bosn-service's unmanaged.rs, operation 35 of dispatch.rs, bin/bosn/gc.rs *)
(* and scan.rs): the removal of Docker objects that Bosn does not own.     *)
(*                                                                         *)
(* A pass reads the engine several times (sizes, labelled images, dangling *)
(* images, volumes), classifies what it saw and removes the candidates one *)
(* by one, while users and Bosn itself go on using the engine.             *)
(***************************************************************************)
EXTENDS Integers, FiniteSets

CONSTANTS
  Boxes,        \* containers
  Pics,         \* images
  Vols,         \* volumes
  NamedVols,    \* those of them with a name somebody chose
  MaxMoves,     \* bound: changes made by others
  MaxMishaps    \* bound: reads and removals that fail

UnmanagedAssumption ==
  /\ NamedVols \subseteq Vols
  /\ Boxes \cap Pics = {} /\ Boxes \cap Vols = {} /\ Pics \cap Vols = {}
  /\ MaxMoves \in Nat /\ MaxMishaps \in Nat

Things == Boxes \cup Pics \cup Vols

VARIABLES
  eng,          \* [Things -> the object in the engine]
  gc,           \* the pass: its step and what it read
  renewed,      \* changed since the pass read it: tagged, or made anew
  swept,        \* what the pass has removed, as it was then
  moves, mishaps

gcVars == <<eng, gc, renewed, swept, moves, mishaps>>

\* labels: "none", "some" of Bosn's or "full", the set that proves ownership.
NoThing == [there |-> FALSE, labels |-> "none", tagged |-> FALSE, running |-> FALSE,
            uses |-> {}, sized |-> TRUE, old |-> FALSE]
NoPass == [at |-> "idle", include |-> {}, df |-> [o \in Things |-> NoThing],
           busy |-> {}, marked |-> {}, dangling |-> {}, details |-> {}, unreadable |-> FALSE, todo |-> {}]

GcInit ==
  /\ \E bosns, partly \in SUBSET Things, unsized, tagged \in SUBSET Pics :
       /\ Cardinality(bosns \cup partly) <= 1
       /\ eng = [o \in Things |->
                  [NoThing EXCEPT !.there = (o \notin NamedVols \/ o \in bosns), !.old = TRUE,
                     !.labels = IF o \in bosns THEN "full" ELSE IF o \in partly THEN "some" ELSE "none",
                     !.tagged = o \in tagged,
                     !.sized = o \notin unsized,
                     !.uses = IF o \in Boxes THEN {CHOOSE p \in Pics : TRUE} ELSE {}]]
  /\ gc = NoPass
  /\ renewed = {} /\ swept = {} /\ moves = 0 /\ mishaps = 0

UsedBy(o) == {b \in Boxes : eng[b].there /\ o \in eng[b].uses}

-----------------------------------------------------------------------------
(* Others: people at their shells, and Bosn's own work.                    *)

Move(e) ==
  /\ moves < MaxMoves
  /\ moves' = moves + 1
  /\ eng' = e
  /\ UNCHANGED <<gc, swept, mishaps>>

StartBox(b) ==
  /\ eng[b].there
  /\ Move([eng EXCEPT ![b].running = ~@])
  /\ UNCHANGED renewed

UseThing(b, o) ==
  /\ ~eng[b].there /\ eng[o].there
  /\ Move([eng EXCEPT ![b] = [NoThing EXCEPT !.there = TRUE, !.uses = {o}]])
  /\ UNCHANGED renewed

TagImage(p) ==
  /\ eng[p].there
  /\ Move([eng EXCEPT ![p].tagged = ~@])
  /\ renewed' = renewed \cup {p}

\* A volume with a chosen name goes and comes back, as Bosn's or not.
RenewVolume(v, labels) ==
  /\ UsedBy(v) = {}
  /\ Move([eng EXCEPT ![v] = IF @.there THEN NoThing
                             ELSE [NoThing EXCEPT !.there = TRUE, !.labels = labels]])
  /\ renewed' = renewed \cup {v}

\* Time passes: whatever is there is past the age gate.
GrowOld ==
  /\ \E o \in Things : eng[o].there /\ ~eng[o].old
  /\ eng' = [o \in Things |-> [eng[o] EXCEPT !.old = eng[o].there]]
  /\ UNCHANGED <<gc, renewed, swept, moves, mishaps>>

-----------------------------------------------------------------------------
(* The pass.  A read that fails is noted and the pass goes on.             *)

\* `--apply --yes` sends what to include, never a plan.
BeginPass(include) ==
  /\ gc.at = "idle"
  /\ gc' = [NoPass EXCEPT !.at = "df", !.include = include]
  /\ renewed' = {} /\ swept' = {}
  /\ UNCHANGED <<eng, moves, mishaps>>

ReadEngine(step, next, read) ==
  /\ gc.at = step
  /\ gc' = [read EXCEPT !.at = next]
  /\ UNCHANGED <<eng, renewed, swept, moves, mishaps>>

ReadFails(step, next) ==
  /\ gc.at = step /\ mishaps < MaxMishaps
  /\ gc' = [gc EXCEPT !.at = next, !.unreadable = TRUE]
  /\ mishaps' = mishaps + 1
  /\ UNCHANGED <<eng, renewed, swept, moves>>

SystemDf ==
  \/ ReadEngine("df", "labels", [gc EXCEPT !.df = eng, !.busy = {o \in Things : UsedBy(o) # {}}])
  \/ ReadFails("df", "plan")

\* One query for each label the set needs: which images have it, not its value.
LabelledImages ==
  \/ ReadEngine("labels", "dangling",
       [gc EXCEPT !.marked = {p \in Pics : eng[p].there /\ eng[p].labels # "none"}])
  \/ ReadFails("labels", "dangling")

DanglingImages ==
  \/ ReadEngine("dangling", "volumes",
       [gc EXCEPT !.dangling = {p \in Pics : eng[p].there /\ ~eng[p].tagged}])
  \/ ReadFails("dangling", "volumes")

\* Only of volumes the first read named, and those still there.
InspectVolumes ==
  \/ ReadEngine("volumes", "plan",
       [gc EXCEPT !.details = {v \in Vols : gc.df[v].there /\ eng[v].there},
                  !.df = [o \in Things |->
                           IF o \in Vols /\ gc.df[o].there /\ eng[o].there
                           THEN [@[o] EXCEPT !.labels = eng[o].labels, !.old = eng[o].old]
                           ELSE @[o]]])
  \/ ReadFails("volumes", "plan")

-----------------------------------------------------------------------------
(* Classification.                                                         *)

\* observe: a labelled image is given one label, with no value.
Labels(o) == IF o \in Pics THEN IF o \in gc.marked THEN "some" ELSE "none" ELSE gc.df[o].labels

InUse(o) == IF o \in Boxes THEN gc.df[o].running ELSE o \in gc.busy
AgeKnown(o) == o \in Vols => o \in gc.details

ClassifyOwnership(o) ==
  CASE Labels(o) = "none" -> "unlabeled"
    [] Labels(o) = "some" -> "incomplete"
    [] OTHER -> "ours"

\* What an owned image would need to be swept as a dangling one.
OwnedDangling(o) == o \in Pics /\ o \in gc.dangling /\ ~InUse(o)

Unprotected(o) ==
  /\ \/ ClassifyOwnership(o) = "unlabeled" /\ ~InUse(o)
     \/ ClassifyOwnership(o) = "ours" /\ OwnedDangling(o)
  /\ AgeKnown(o)

Tier(o) ==
  IF o \in Boxes \/ o \in gc.dangling \/ o \in Vols \ NamedVols THEN "reclaimable" ELSE "review"

Plannable(o) ==
  /\ gc.df[o].there /\ gc.df[o].sized /\ Unprotected(o) /\ gc.df[o].old
  /\ Tier(o) = "reclaimable" \/ o \in gc.include

CensusPartial == gc.unreadable \/ \E o \in Things : gc.df[o].there /\ ~gc.df[o].sized

\* Nothing is removed on the word of an incomplete census.
UnmanagedGcApply ==
  /\ gc.at = "plan"
  /\ gc' = IF CensusPartial
           THEN NoPass
           ELSE [gc EXCEPT !.at = "remove", !.todo = {o \in Things : Plannable(o)}]
  /\ UNCHANGED <<eng, renewed, swept, moves, mishaps>>

RemovalRank(o) == IF o \in Boxes THEN 0 ELSE IF o \in Pics THEN 1 ELSE 2
NextCandidates == {o \in gc.todo : \A q \in gc.todo : RemovalRank(o) <= RemovalRank(q)}

\* Docker's rm, rmi and volume rm, without force.
EngineRefuses(o) == ~eng[o].there \/ eng[o].running \/ UsedBy(o) # {}

RemoveOne(o) ==
  /\ gc.at = "remove" /\ o \in NextCandidates
  /\ gc' = [gc EXCEPT !.todo = @ \ {o}]
  /\ IF EngineRefuses(o)
     THEN UNCHANGED <<eng, swept>>
     ELSE /\ eng' = [eng EXCEPT ![o] = NoThing]
          /\ swept' = swept \cup {[thing |-> o, labels |-> eng[o].labels, tagged |-> eng[o].tagged,
                                   asked |-> o \in gc.include, renewed |-> o \in renewed]}
  /\ UNCHANGED <<renewed, moves, mishaps>>

RemoveFails(o) ==
  /\ gc.at = "remove" /\ o \in NextCandidates /\ mishaps < MaxMishaps
  /\ gc' = [gc EXCEPT !.todo = @ \ {o}]
  /\ mishaps' = mishaps + 1
  /\ UNCHANGED <<eng, renewed, swept, moves>>

EndPass ==
  /\ gc.at = "remove" /\ gc.todo = {}
  /\ gc' = NoPass
  /\ UNCHANGED <<eng, renewed, swept, moves, mishaps>>

PassStep ==
  \/ SystemDf \/ LabelledImages \/ DanglingImages \/ InspectVolumes \/ UnmanagedGcApply
  \/ \E o \in Things : RemoveOne(o)
  \/ EndPass

GcNext ==
  \/ \E b \in Boxes : StartBox(b)
  \/ \E b \in Boxes, o \in Pics \cup Vols : UseThing(b, o)
  \/ \E p \in Pics : TagImage(p)
  \/ \E v \in NamedVols, labels \in {"none", "full"} : RenewVolume(v, labels)
  \/ GrowOld
  \/ \E include \in SUBSET (Pics \cup NamedVols) : BeginPass(include)
  \/ PassStep
  \/ \E o \in Things : RemoveFails(o)

\* A pass that has begun goes on, and somebody asks for another one.
GcSpec == /\ GcInit /\ [][GcNext]_gcVars
          /\ WF_gcVars(PassStep) /\ WF_gcVars(BeginPass({})) /\ WF_gcVars(GrowOld)

-----------------------------------------------------------------------------
\* No object with any of Bosn's labels is removed, whatever was asked for,
\* except a named volume that the user asked for and that was made anew after
\* it was read (unmanaged.rs, classify; the volume's name is its identity).
LabelledKept ==
  \A s \in swept : s.labels # "none" => s.thing \in NamedVols /\ s.asked /\ s.renewed

\* A tagged image or a named volume is removed only when it was asked for, or
\* when the tag came after the pass read the dangling images.
ReviewedKept ==
  \A s \in swept : s.tagged \/ s.thing \in NamedVols => s.asked \/ s.renewed

UnmanagedSafe == LabelledKept /\ ReviewedKept

Leftover(o) ==
  /\ eng[o].there /\ eng[o].labels = "none" /\ ~eng[o].running /\ UsedBy(o) = {}
  /\ o \in Boxes \/ (o \in Pics /\ ~eng[o].tagged) \/ o \in Vols \ NamedVols

\* What holds again and again: repeated passes leave nothing that may be swept,
\* a container first, then in a later pass the image it held.  One object of
\* unknown size is enough to stop them all (unmanaged.rs, unmanaged_gc_apply).
LeftoversSettled ==
  (\E o \in Things : eng[o].there /\ ~eng[o].sized) \/ \A o \in Things : ~Leftover(o)
=============================================================================
