------------------------ MODULE SharedEngineProofs ------------------------
(***************************************************************************)
(* Proofs about the shared CI engine of module SharedEngine: for any number *)
(* of daemons, runs, slots and engines, whichever of them die and whenever. *)
(***************************************************************************)
EXTENDS SharedEngine, TLAPS

\* A process that ended is never alive again: its incarnation is one of the
\* past, and a daemon that is down has none.
Past(p) == p.life <= lives[p.daemon]

Incarnations ==
  /\ \A d \in Daemon : life[d] \in {0, lives[d]}
  /\ claim # None => Past(claim.maker)
  /\ \A e \in Engines, s \in Slot :
       engine[e].slots[s] # None => Past(engine[e].slots[s].process)

\* What a daemon does, it does while it is up, and the fields of its tasks are
\* those that their next step reads.
Tasks ==
  \A d \in Daemon :
    /\ task[d].at = "idle" => task[d] = Idle
    /\ task[d].at # "idle" => Up(d)
    /\ reaper[d].at # "idle" => Up(d) /\ reaper[d].engine \in Engines
    /\ held[d] # None => Up(d)
    /\ task[d].at \in {"step", "find", "make", "create", "ready", "slot"} => task[d].run \in Run
    /\ task[d].at \in {"create", "ready", "retire", "take", "unclaim", "resume"} =>
         task[d].engine \in Engines
    /\ task[d].at = "slot" => held[d] # None
    /\ task[d].at = "unclaim" => ~Exists(task[d].engine)

\* Nobody knows an engine that was not made yet.
Known == 1 .. made
Fresh ==
  /\ claim # None => claim.engine \in Known
  /\ \A d \in Daemon :
       /\ task[d].engine \in Known \cup {None}
       /\ reaper[d].engine \in Known \cup {None}
       /\ held[d] # None => held[d].engine \in Known
       /\ guard[d] \subseteq Known
  /\ \A r \in Run : run[r].engine \in Known \cup {None}

\* The daemon that makes an engine has the claim, and nobody else touches it.
Makers ==
  \A d \in Daemon : task[d].at \in {"create", "ready"} =>
    /\ claim = [engine |-> task[d].engine, maker |-> Process(d)]
    /\ \A c \in Daemon : task[d].engine \notin guard[c]
    /\ \A c \in Daemon \ {d} : task[c].engine # task[d].engine
    /\ task[d].at = "create" =>
         ~Exists(task[d].engine) /\ \A r \in Run : run[r].engine # task[d].engine

\* A daemon that owns the claimed engine is its maker; a reaper takes only one
\* whose maker is dead.
Owners ==
  /\ \A d \in Daemon : held[d] # None /\ claim # None =>
       (held[d].own /\ held[d].engine = claim.engine => claim.maker = Process(d))
  /\ \A d \in Daemon : reaper[d].at # "idle" /\ claim # None =>
       (reaper[d].engine = claim.engine => ~Alive(claim.maker))

\* A leased run belongs to a daemon that is up; the engine of a failing one stopped.
Leased ==
  \A r \in Run : run[r].at \in {"leased", "failing"} =>
    /\ run[r].daemon \in Daemon /\ Up(run[r].daemon)
    /\ run[r].engine \in Engines /\ run[r].slot \in Slot
    /\ run[r].at = "failing" => ~Running(run[r].engine)

\* What a reaper is about to reclaim is still what it surveyed.
Surveys ==
  \A d \in Daemon : reaper[d].at = "reclaim" /\ reaper[d].engine \notin crossed =>
    /\ Running(reaper[d].engine) => reaper[d].dead \subseteq Dead(reaper[d].engine)
    /\ \A c \in Daemon \ {d} : reaper[c].at = "reclaim" => reaper[c].engine # reaper[d].engine

SInv ==
  /\ EngineTypeOK /\ Incarnations /\ Tasks /\ Fresh /\ Makers /\ Owners /\ Leased
  /\ Surveys /\ OneEngine /\ SlotsAgree

-----------------------------------------------------------------------------
\* What the operations on an engine return.

LEMMA RemovedFacts ==
  ASSUME EngineTypeOK, NEW e \in Engines
  PROVE  /\ Absent \in Containers
         /\ Removed(e) \in [Engines -> Containers]
         /\ Removed(e)[e] = Absent
         /\ \A f \in Engines \ {e} : Removed(e)[f] = engine[f]
  BY DEF EngineTypeOK, Removed, Absent, Containers

LEMMA RequestedFacts ==
  ASSUME EngineTypeOK, NEW e \in Engines
  PROVE  /\ Requested(e) \in [Engines -> Containers]
         /\ \A f \in Engines : /\ Requested(e)[f].up = engine[f].up
                               /\ Requested(e)[f].slots = engine[f].slots
                               /\ Requested(e)[f].retiring = engine[f].retiring
<1>1. engine \in [Engines -> Containers] /\ engine[e] \in Containers
  BY DEF EngineTypeOK
<1>2. PICK c : c = [engine[e] EXCEPT !.requested = TRUE]
  OBVIOUS
<1>3. /\ c \in Containers
      /\ c.up = engine[e].up /\ c.slots = engine[e].slots /\ c.retiring = engine[e].retiring
  BY <1>1, <1>2 DEF Containers
<1>4. Requested(e) = [engine EXCEPT ![e] = c]
  BY <1>2 DEF Requested
<1> QED
  BY <1>1, <1>3, <1>4

LEMMA RetiringFacts ==
  ASSUME EngineTypeOK, NEW e \in Engines
  PROVE  /\ Retiring(e) \in [Engines -> Containers]
         /\ \A f \in Engines : /\ Retiring(e)[f].up = engine[f].up
                               /\ Retiring(e)[f].slots = engine[f].slots
                               /\ Retiring(e)[f].retiring => engine[f].retiring \/ Taken(f) = {}
<1>1. engine \in [Engines -> Containers] /\ engine[e] \in Containers
  BY DEF EngineTypeOK
<1>2. PICK b : b = ((Taken(e) = {}) \/ engine[e].retiring)
  OBVIOUS
<1>3. PICK c : c = [engine[e] EXCEPT !.retiring = b]
  OBVIOUS
<1>4. b \in BOOLEAN /\ (b => engine[e].retiring \/ Taken(e) = {})
  BY <1>2, Zenon
<1>5. /\ c \in Containers
      /\ c.up = engine[e].up /\ c.slots = engine[e].slots /\ c.retiring = b
  BY <1>1, <1>3, <1>4 DEF Containers
<1>6. Retiring(e) = [engine EXCEPT ![e] = c]
  BY <1>2, <1>3 DEF Retiring
<1> QED
  BY <1>1, <1>4, <1>5, <1>6

LEMMA FreedFacts ==
  ASSUME EngineTypeOK, NEW e \in Engines, NEW S
  PROVE  /\ Freed(e, S) \in [Engines -> Containers]
         /\ \A f \in Engines : /\ Freed(e, S)[f].up = engine[f].up
                               /\ Freed(e, S)[f].retiring = engine[f].retiring
         /\ \A f \in Engines, s \in Slot :
              Freed(e, S)[f].slots[s] = IF f = e /\ s \in S THEN None ELSE engine[f].slots[s]
<1>1. engine \in [Engines -> Containers] /\ engine[e] \in Containers
  BY DEF EngineTypeOK
<1>2. PICK t : t = [s \in Slot |-> IF s \in S THEN None ELSE engine[e].slots[s]]
  OBVIOUS
<1>3. engine[e].slots \in [Slot -> {None} \cup Leases]
  BY <1>1 DEF Containers
<1>4. t \in [Slot -> {None} \cup Leases]
  BY <1>2, <1>3
<1>5. PICK c : c = [engine[e] EXCEPT !.slots = t]
  OBVIOUS
<1>6. /\ c \in Containers
      /\ c.up = engine[e].up /\ c.slots = t /\ c.retiring = engine[e].retiring
  BY <1>1, <1>4, <1>5 DEF Containers
<1>7. Freed(e, S) = [engine EXCEPT ![e] = c]
  BY <1>2, <1>5 DEF Freed
<1> QED
  BY <1>1, <1>2, <1>6, <1>7

-----------------------------------------------------------------------------
\* Most steps are steady: they neither make an engine nor let a run or a reaper
\* into one.  Most are quiet too: nobody leaves one either.

\* No engine comes into being or runs again.
Upkept ==
  \A e \in Engines : /\ engine'[e].up # "absent" => Exists(e)
                     /\ engine'[e].up = "running" => Running(e)

\* Slots stay, and an engine starts to retire only when nobody is in it.
Quiet ==
  /\ Upkept
  /\ \A e \in Engines :
       /\ engine'[e].up = "running" =>
            /\ engine'[e].slots = engine[e].slots
            /\ engine'[e].retiring => engine[e].retiring \/ Taken(e) = {}
       /\ \A s \in Slot : engine'[e].slots[s] \in {None, engine[e].slots[s]}

Preparing == {"create", "ready"}

\* A daemon may hold the claimed engine, as its own if it made it.
Entitled(d, h) ==
  claim # None /\ h.engine = claim.engine /\ (h.own => claim.maker = Process(d))

Steady ==
  /\ Upkept
  /\ life' = life /\ lives' = lives /\ made' = made /\ crossed' = crossed
  /\ claim' = claim \/ (claim' = None /\ \A d \in Daemon : task'[d].at \notin Preparing)
  /\ \A d \in Daemon :
       /\ task'[d].at \in Preparing => task'[d] = task[d]
       /\ task'[d].engine \in Known \cup {None}
       /\ \A c \in Daemon \ {d} : task[c].at \in Preparing /\ task'[d] # task[d] =>
            task'[d].engine # task[c].engine
       /\ held'[d] \in {held[d], None} \/ Entitled(d, held'[d])
       /\ reaper'[d].at # "idle" => reaper[d].at # "idle" /\ reaper'[d].engine = reaper[d].engine
       /\ reaper'[d].at = "reclaim" => reaper'[d] = reaper[d]
       /\ reaper'[d].engine \in {reaper[d].engine, None}
       /\ \A x \in guard'[d] \ guard[d] :
            x \in Known /\ \A c \in Daemon : task'[c].at \in Preparing => task'[c].engine # x
  /\ \A r \in Run :
       /\ run'[r].engine = run[r].engine
       /\ run'[r].at \in {"leased", "failing"} => run'[r] = run[r]

LEMMA QuietOps ==
  ASSUME EngineTypeOK, NEW e \in Engines,
         engine' \in {engine, Removed(e), Requested(e), Retiring(e)}
  PROVE  engine' \in [Engines -> Containers] /\ Quiet
<1>1. engine \in [Engines -> Containers] /\ \A f \in Engines : engine[f] \in Containers
  BY DEF EngineTypeOK
<1>2. CASE engine' = engine
  BY <1>1, <1>2 DEF Quiet, Upkept, Exists, Running
<1>3. CASE engine' = Removed(e)
  <2>1. /\ engine' \in [Engines -> Containers] /\ engine'[e] = Absent
        /\ \A f \in Engines \ {e} : engine'[f] = engine[f]
    BY <1>3, RemovedFacts
  <2>2. Absent.up = "absent" /\ \A s \in Slot : Absent.slots[s] = None
    BY DEF Absent
  <2> QED
    BY <2>1, <2>2 DEF Quiet, Upkept, Exists, Running
<1>4. CASE engine' = Requested(e)
  BY <1>1, <1>4, RequestedFacts DEF Quiet, Upkept, Exists, Running
<1>5. CASE engine' = Retiring(e)
  BY <1>1, <1>5, RetiringFacts DEF Quiet, Upkept, Exists, Running
<1> QED
  BY <1>2, <1>3, <1>4, <1>5

LEMMA SteadyIncarnations ==
  ASSUME SInv, Steady,
         \A e \in Engines, s \in Slot : engine'[e].slots[s] \in {None, engine[e].slots[s]}
  PROVE  Incarnations'
<1>1. life' = life /\ lives' = lives /\ claim' \in {claim, None}
  BY DEF Steady
<1> QED
  BY <1>1 DEF SInv, Incarnations, Past

LEMMA SteadyFresh ==
  ASSUME SInv, Steady
  PROVE  Fresh'
<1>1. /\ made' = made /\ claim' \in {claim, None}
      /\ \A r \in Run : run'[r].engine = run[r].engine
  BY DEF Steady
<1>2. ASSUME NEW d \in Daemon
      PROVE  /\ task'[d].engine \in Known \cup {None}
             /\ reaper'[d].engine \in Known \cup {None}
             /\ held'[d] # None => held'[d].engine \in Known
             /\ guard'[d] \subseteq Known
  BY DEF Steady, SInv, Fresh, Entitled
<1> QED
  BY <1>1, <1>2 DEF SInv, Fresh, Known

LEMMA SteadyMakers ==
  ASSUME SInv, Steady
  PROVE  Makers'
<1> SUFFICES ASSUME NEW d \in Daemon, task'[d].at \in Preparing
             PROVE  /\ claim' = [engine |-> task'[d].engine, maker |-> Process(d)']
                    /\ \A c \in Daemon : task'[d].engine \notin guard'[c]
                    /\ \A c \in Daemon \ {d} : task'[c].engine # task'[d].engine
                    /\ task'[d].at = "create" =>
                         /\ engine'[task'[d].engine].up = "absent"
                         /\ \A r \in Run : run'[r].engine # task'[d].engine
  BY DEF Makers, Preparing, Exists
<1>1. task'[d] = task[d] /\ claim' = claim /\ life' = life /\ task[d].at \in Preparing
  BY DEF Steady
<1>2. /\ claim = [engine |-> task[d].engine, maker |-> Process(d)]
      /\ \A c \in Daemon : task[d].engine \notin guard[c]
      /\ \A c \in Daemon \ {d} : task[c].engine # task[d].engine
      /\ task[d].at = "create" =>
           ~Exists(task[d].engine) /\ \A r \in Run : run[r].engine # task[d].engine
      /\ task[d].engine \in Engines
  BY <1>1 DEF SInv, Makers, Preparing, Tasks
<1>3. \A c \in Daemon : task'[d].engine \notin guard'[c]
  BY <1>1, <1>2 DEF Steady
<1>4. \A c \in Daemon \ {d} : task'[c].engine # task'[d].engine
  BY <1>1, <1>2 DEF Steady
<1>5. task'[d].at = "create" =>
         /\ engine'[task'[d].engine].up = "absent"
         /\ \A r \in Run : run'[r].engine # task'[d].engine
  BY <1>1, <1>2 DEF Steady, Quiet, Upkept, Exists
<1> QED
  BY <1>1, <1>2, <1>3, <1>4, <1>5 DEF Process

LEMMA SteadyOwners ==
  ASSUME SInv, Steady
  PROVE  Owners'
<1>1. life' = life /\ claim' \in {claim, None}
  BY DEF Steady
<1>2. ASSUME NEW d \in Daemon, held'[d] # None, claim' # None, held'[d].own,
             held'[d].engine = claim'.engine
      PROVE  claim'.maker = Process(d)'
  <2>1. held'[d] = held[d] \/ Entitled(d, held'[d])
    BY <1>2 DEF Steady
  <2> QED
    BY <1>1, <1>2, <2>1 DEF SInv, Owners, Process, Entitled
<1>3. ASSUME NEW d \in Daemon, reaper'[d].at # "idle", claim' # None,
             reaper'[d].engine = claim'.engine
      PROVE  ~Alive(claim.maker) /\ claim' = claim
  BY <1>1, <1>3 DEF Steady, SInv, Owners
<1> QED
  BY <1>1, <1>2, <1>3 DEF Owners, Alive

LEMMA SteadyLeased ==
  ASSUME SInv, Steady
  PROVE  Leased'
<1> SUFFICES ASSUME NEW r \in Run, run'[r].at \in {"leased", "failing"}
             PROVE  /\ run'[r].daemon \in Daemon /\ life'[run'[r].daemon] # 0
                    /\ run'[r].engine \in Engines /\ run'[r].slot \in Slot
                    /\ run'[r].at = "failing" => engine'[run'[r].engine].up # "running"
  BY DEF Leased, Up, Running
<1>1. run'[r] = run[r] /\ life' = life
  BY DEF Steady
<1>2. /\ run[r].daemon \in Daemon /\ life[run[r].daemon] # 0
      /\ run[r].engine \in Engines /\ run[r].slot \in Slot
      /\ run[r].at = "failing" => ~Running(run[r].engine)
  BY <1>1 DEF SInv, Leased, Up
<1> QED
  BY <1>1, <1>2 DEF Steady, Quiet, Upkept, Running

LEMMA QuietSurveys ==
  ASSUME SInv, Steady, Quiet
  PROVE  Surveys'
<1> SUFFICES ASSUME NEW d \in Daemon, reaper'[d].at = "reclaim", reaper'[d].engine \notin crossed'
             PROVE  /\ (Running(reaper[d].engine) => reaper[d].dead \subseteq Dead(reaper[d].engine))'
                    /\ \A c \in Daemon \ {d} : reaper'[c].at = "reclaim" =>
                         reaper'[c].engine # reaper'[d].engine
  BY DEF Surveys
<1>1. reaper'[d] = reaper[d] /\ crossed' = crossed /\ life' = life
  BY DEF Steady
<1>2. /\ Running(reaper[d].engine) => reaper[d].dead \subseteq Dead(reaper[d].engine)
      /\ \A c \in Daemon \ {d} : reaper[c].at = "reclaim" => reaper[c].engine # reaper[d].engine
      /\ reaper[d].engine \in Engines
  BY <1>1 DEF SInv, Surveys, Tasks
<1>3. \A c \in Daemon \ {d} : reaper'[c].at = "reclaim" => reaper'[c].engine # reaper'[d].engine
  BY <1>1, <1>2 DEF Steady
<1>4. (Running(reaper[d].engine) => reaper[d].dead \subseteq Dead(reaper[d].engine))'
  BY <1>1, <1>2 DEF Steady, Quiet, Upkept, Running, Dead, Taken, Alive
<1> QED
  BY <1>3, <1>4

LEMMA QuietSlots ==
  ASSUME SInv, Steady, Quiet
  PROVE  SlotsAgree'
<1> SUFFICES ASSUME NEW r \in Run, run'[r].at = "leased", engine'[run'[r].engine].up = "running",
                    run'[r].engine \notin crossed'
             PROVE  /\ engine'[run'[r].engine].slots[run'[r].slot] =
                         [run |-> r, process |-> Process(run[r].daemon)']
                    /\ ~engine'[run'[r].engine].retiring
  BY DEF SlotsAgree, Running
<1>1. run'[r] = run[r] /\ life' = life /\ crossed' = crossed
  BY DEF Steady
<1>2. run[r].engine \in Engines /\ run[r].slot \in Slot
  BY <1>1 DEF SInv, Leased
<1>3. /\ Running(run[r].engine) /\ engine'[run[r].engine].slots = engine[run[r].engine].slots
      /\ engine'[run[r].engine].retiring =>
           engine[run[r].engine].retiring \/ Taken(run[r].engine) = {}
  BY <1>1, <1>2 DEF Steady, Quiet, Upkept
<1>4. /\ engine[run[r].engine].slots[run[r].slot] =
           [run |-> r, process |-> Process(run[r].daemon)]
      /\ ~engine[run[r].engine].retiring
  BY <1>1, <1>3 DEF SInv, SlotsAgree
<1>5. [run |-> r, process |-> Process(run[r].daemon)] \in Leases
  BY <1>1 DEF SInv, Leased, Leases, Processes, Process, Up, EngineTypeOK
<1>6. Taken(run[r].engine) # {}
  BY <1>2, <1>4, <1>5, NothingAssumption DEF Taken
<1> QED
  BY <1>1, <1>3, <1>4, <1>6 DEF Process

LEMMA QuietStep ==
  ASSUME SInv, Steady, Quiet
  PROVE  /\ Incarnations' /\ Fresh' /\ Makers' /\ Owners' /\ Leased' /\ Surveys'
         /\ SlotsAgree'
  BY SteadyIncarnations, SteadyFresh, SteadyMakers, SteadyOwners, SteadyLeased, QuietSurveys,
     QuietSlots DEF Quiet

LEMMA QuietInv ==
  ASSUME SInv, Steady, Quiet, EngineTypeOK', Tasks', OneEngine'
  PROVE  SInv'
  BY QuietStep DEF SInv

-----------------------------------------------------------------------------
\* A task that holds the mutex and goes on to something other than a
\* preparation.

Proper(t) ==
  /\ t \in TaskStates /\ t.at \notin Preparing /\ t.engine \in Known \cup {None}
  /\ t.at = "idle" => t = Idle
  /\ t.at \in {"step", "find", "make", "slot"} => t.run \in Run
  /\ t.at \in {"retire", "take", "unclaim", "resume"} => t.engine \in Engines

\* The engine x is not one that a daemon other than d prepares.
Apart(d, x) == \A c \in Daemon \ {d} : task[c].at \in Preparing => task[c].engine # x

LEMMA ApartFacts ==
  ASSUME SInv, NEW d \in Daemon
  PROVE  /\ Apart(d, None)
         /\ Apart(d, task[d].engine)
         /\ claim # None /\ (Ours(d) \/ ~Alive(claim.maker)) => Apart(d, claim.engine)
         /\ held[d] # None /\ held[d].own => Apart(d, held[d].engine)
         /\ reaper[d].at # "idle" => Apart(d, reaper[d].engine)
<1>1. ASSUME NEW c \in Daemon \ {d}, task[c].at \in Preparing
      PROVE  /\ task[c].engine # None
             /\ task[c].engine # task[d].engine
             /\ claim # None /\ claim.engine = task[c].engine
             /\ claim.maker = Process(c) /\ Alive(claim.maker) /\ claim.maker # Process(d)
  <2>1. claim = [engine |-> task[c].engine, maker |-> Process(c)] /\ task[d].engine # task[c].engine
    BY <1>1 DEF SInv, Makers, Preparing
  <2>2. task[c].engine \in Engines /\ Up(c)
    BY <1>1 DEF SInv, Tasks, Preparing
  <2>3. claim \in Claims
    BY <2>1, <2>2 DEF SInv, EngineTypeOK, Claims, Processes, Process, Up
  <2>4. Process(c) # Process(d)
    BY DEF Process
  <2> QED
    BY <2>1, <2>2, <2>3, <2>4, NothingAssumption DEF Alive, Process
<1>2. held[d] # None /\ held[d].own => Apart(d, held[d].engine)
  BY <1>1 DEF SInv, Owners, Apart
<1>3. reaper[d].at # "idle" => Apart(d, reaper[d].engine)
  BY <1>1 DEF SInv, Owners, Apart
<1> QED
  BY <1>1, <1>2, <1>3 DEF Apart, Ours

\* The next state of the mutex's holder, as a whole.
Stages == {"idle", "step", "find", "make", "create", "ready", "slot", "retire", "take",
           "unclaim", "resume"}

LEMMA TaskGoes ==
  ASSUME EngineTypeOK, NEW d \in Daemon, NEW a \in Stages, task' = [task EXCEPT ![d].at = a]
  PROVE  \E t \in TaskStates :
           /\ task' = [task EXCEPT ![d] = t]
           /\ t.at = a /\ t.run = task[d].run /\ t.engine = task[d].engine
<1>1. task \in [Daemon -> TaskStates] /\ task[d] \in TaskStates
  BY DEF EngineTypeOK
<1>2. PICK t : t = [task[d] EXCEPT !.at = a]
  OBVIOUS
<1>3. /\ t \in TaskStates
      /\ t.at = a /\ t.run = task[d].run /\ t.engine = task[d].engine
  BY <1>1, <1>2 DEF TaskStates, Stages
<1>4. task' = [task EXCEPT ![d] = t]
  BY <1>1, <1>2
<1> QED
  BY <1>3, <1>4

LEMMA TaskGoesOn ==
  ASSUME EngineTypeOK, NEW d \in Daemon, NEW a \in Stages, NEW x \in Engines \cup {None},
         task' = [task EXCEPT ![d].at = a, ![d].engine = x]
  PROVE  \E t \in TaskStates :
           /\ task' = [task EXCEPT ![d] = t]
           /\ t.at = a /\ t.run = task[d].run /\ t.engine = x
<1>1. task \in [Daemon -> TaskStates] /\ task[d] \in TaskStates
  BY DEF EngineTypeOK
<1>2. PICK t : t = [task[d] EXCEPT !.at = a, !.engine = x]
  OBVIOUS
<1>3. t \in TaskStates /\ t.at = a /\ t.run = task[d].run /\ t.engine = x
  BY <1>1, <1>2 DEF TaskStates, Stages
<1>4. task' = [task EXCEPT ![d] = t]
  BY <1>1, <1>2
<1> QED
  BY <1>3, <1>4

LEMMA SteadyMove ==
  ASSUME SInv, NEW d \in Daemon, NEW t, Up(d),
         task' = [task EXCEPT ![d] = t],
         Proper(t), Apart(d, t.engine),
         t.at = "unclaim" => engine'[t.engine].up = "absent",
         t.at = "slot" => held'[d] # None,
         Upkept,
         life' = life, lives' = lives, made' = made, crossed' = crossed,
         claim' = claim \/ (claim' = None /\ \A c \in Daemon \ {d} : task[c].at \notin Preparing),
         \A c \in Daemon \ {d} : held'[c] = held[c],
         held'[d] \in {held[d], None} \/ Entitled(d, held'[d]),
         reaper' = reaper \/ reaper' = [reaper EXCEPT ![d] = NoReaper],
         \A c \in Daemon : \A x \in guard'[c] \ guard[c] : x \in Known /\ Apart(d, x),
         \A r \in Run : /\ run'[r].engine = run[r].engine
                        /\ run'[r].at \in {"leased", "failing"} => run'[r] = run[r]
  PROVE  Tasks' /\ Steady
<1>1. /\ task'[d] = t /\ \A c \in Daemon \ {d} : task'[c] = task[c]
      /\ \A c \in Daemon : reaper'[c] = reaper[c] \/ reaper'[c] = NoReaper
  BY DEF SInv, EngineTypeOK
<1>2. \A c \in Daemon : reaper'[c].at # "idle" => reaper'[c] = reaper[c]
  BY <1>1 DEF NoReaper
<1>3. Steady
  <2>1. claim' = claim \/ (claim' = None /\ \A c \in Daemon : task'[c].at \notin Preparing)
    BY <1>1 DEF Proper
  <2>2. ASSUME NEW c \in Daemon
        PROVE  /\ task'[c].at \in Preparing => task'[c] = task[c]
               /\ task'[c].engine \in Known \cup {None}
               /\ \A b \in Daemon \ {c} : task[b].at \in Preparing /\ task'[c] # task[c] =>
                    task'[c].engine # task[b].engine
    BY <1>1 DEF Proper, Apart, SInv, Fresh
  <2>3. ASSUME NEW c \in Daemon
        PROVE  /\ reaper'[c].at # "idle" => reaper[c].at # "idle" /\ reaper'[c].engine = reaper[c].engine
               /\ reaper'[c].at = "reclaim" => reaper'[c] = reaper[c]
               /\ reaper'[c].engine \in {reaper[c].engine, None}
    BY <1>1, <1>2 DEF NoReaper
  <2>4. ASSUME NEW c \in Daemon, NEW x \in guard'[c] \ guard[c]
        PROVE  x \in Known /\ \A b \in Daemon : task'[b].at \in Preparing => task'[b].engine # x
    BY <1>1 DEF Proper, Apart
  <2> QED
    BY <2>1, <2>2, <2>3, <2>4 DEF Steady
<1>4. ASSUME NEW c \in Daemon
      PROVE  /\ task'[c].at = "idle" => task'[c] = Idle
             /\ task'[c].at # "idle" => Up(c)
             /\ reaper'[c].at # "idle" => Up(c) /\ reaper'[c].engine \in Engines
             /\ held'[c] # None => Up(c)
             /\ task'[c].at \in {"step", "find", "make", "create", "ready", "slot"} =>
                  task'[c].run \in Run
             /\ task'[c].at \in {"create", "ready", "retire", "take", "unclaim", "resume"} =>
                  task'[c].engine \in Engines
             /\ task'[c].at = "slot" => held'[c] # None
             /\ task'[c].at = "unclaim" => engine'[task'[c].engine].up = "absent"
  <2>1. reaper'[c].at # "idle" => Up(c) /\ reaper'[c].engine \in Engines
    BY <1>2 DEF SInv, Tasks
  <2>2. held'[c] # None => Up(c)
    BY DEF SInv, Tasks
  <2>3. CASE c = d
    BY <1>1, <2>1, <2>2, <2>3 DEF Proper, Preparing
  <2>4. CASE c # d
    BY <1>1, <2>1, <2>2, <2>4 DEF SInv, Tasks, Quiet, Upkept, Exists
  <2> QED
    BY <2>3, <2>4
<1> QED
  BY <1>3, <1>4 DEF Tasks, Up, Exists

LEMMA SteadyStill ==
  ASSUME SInv, task' = task, held' = held, Upkept,
         claim' = claim \/ (claim' = None /\ \A c \in Daemon : task[c].at \notin Preparing),
         \A c \in Daemon :
           /\ reaper'[c].at # "idle" => reaper[c].at # "idle" /\ reaper'[c].engine = reaper[c].engine
           /\ reaper'[c].at = "reclaim" => reaper'[c] = reaper[c]
           /\ reaper'[c].engine \in {reaper[c].engine, None},
         life' = life, lives' = lives, made' = made, crossed' = crossed,
         \A c \in Daemon : guard'[c] \subseteq guard[c],
         \A r \in Run : /\ run'[r].engine = run[r].engine
                        /\ run'[r].at \in {"leased", "failing"} => run'[r] = run[r]
  PROVE  Tasks' /\ Steady
<1>1. Steady
  BY DEF SInv, Fresh, Makers, Preparing, Steady
<1>2. \A c \in Daemon : task[c].at = "unclaim" => engine'[task[c].engine].up = "absent"
  BY DEF SInv, Tasks, Quiet, Upkept, Exists
<1> QED
  BY <1>1, <1>2 DEF SInv, Tasks, Up, Exists

LEMMA StillEngine ==
  ASSUME SInv, engine' = engine
  PROVE  Quiet /\ (claim' = claim => OneEngine')
  BY DEF SInv, EngineTypeOK, Quiet, Upkept, Exists, Running, OneEngine

LEMMA QuietOne ==
  ASSUME SInv, Quiet, claim' = claim
  PROVE  OneEngine'
  BY DEF SInv, Quiet, Upkept, Exists, OneEngine

LEMMA RunDone ==
  ASSUME EngineTypeOK, NEW r \in Run, run' = [run EXCEPT ![r].at = "done"]
  PROVE  /\ run' \in [Run -> RunStates]
         /\ run'[r].at = "done" /\ \A q \in Run \ {r} : run'[q] = run[q]
         /\ \A q \in Run : /\ run'[q].engine = run[q].engine
                           /\ run'[q].at \in {"leased", "failing"} => run'[q] = run[q]
<1>1. run \in [Run -> RunStates] /\ run[r] \in RunStates
  BY DEF EngineTypeOK
<1>2. PICK t : t = [run[r] EXCEPT !.at = "done"]
  OBVIOUS
<1>3. t \in RunStates /\ t.at = "done" /\ t.engine = run[r].engine
  BY <1>1, <1>2 DEF RunStates
<1>4. run' = [run EXCEPT ![r] = t]
  BY <1>2
<1> QED
  BY <1>1, <1>3, <1>4

LEMMA AskInv ==
  ASSUME SInv, NEW d \in Daemon, NEW r \in Run, Ask(d, r)
  PROVE  SInv'
<1>1. /\ claim' = claim /\ engine' = engine /\ made' = made /\ life' = life /\ lives' = lives
      /\ closed' = closed /\ wanted' = wanted \cup {d} /\ want' = want /\ record' = record
      /\ held' = held /\ task' = task /\ reaper' = reaper /\ guard' = guard
      /\ legacy' = legacy /\ looked' = looked /\ crossed' = crossed /\ events' = events
  BY DEF Ask, old
<1>2. run \in [Run -> RunStates] /\ run[r] \in RunStates
  BY DEF SInv, EngineTypeOK
<1>3. PICK t : t = [run[r] EXCEPT !.at = "waiting", !.daemon = d]
  OBVIOUS
<1>4. t \in RunStates /\ t.at = "waiting" /\ t.engine = run[r].engine
  BY <1>2, <1>3 DEF RunStates
<1>5. run' = [run EXCEPT ![r] = t]
  BY <1>3 DEF Ask
<1>6. EngineTypeOK'
  BY <1>1, <1>2, <1>4, <1>5 DEF SInv, EngineTypeOK
<1>7. \A q \in Run : /\ run'[q].engine = run[q].engine
                     /\ run'[q].at \in {"leased", "failing"} => run'[q] = run[q]
  BY <1>2, <1>4, <1>5
<1>8. Quiet /\ OneEngine'
  BY <1>1, StillEngine
<1>9. Tasks' /\ Steady
  BY <1>1, <1>7, <1>8, SteadyStill DEF Quiet
<1> QED
  BY <1>6, <1>8, <1>9, QuietInv

LEMMA RefuseInv ==
  ASSUME SInv, NEW d \in Daemon, NEW r \in Run, Refuse(d, r)
  PROVE  SInv'
<1>1. /\ claim' = claim /\ engine' = engine /\ made' = made /\ life' = life /\ lives' = lives
      /\ closed' = closed /\ wanted' = wanted /\ want' = want /\ record' = record
      /\ held' = held /\ task' = task /\ reaper' = reaper /\ guard' = guard
      /\ legacy' = legacy /\ looked' = looked /\ crossed' = crossed /\ events' = events
      /\ run' = [run EXCEPT ![r].at = "done"]
  BY DEF Refuse, daemons, old
<1>2. /\ run' \in [Run -> RunStates]
      /\ \A q \in Run : /\ run'[q].engine = run[q].engine
                        /\ run'[q].at \in {"leased", "failing"} => run'[q] = run[q]
  BY <1>1, RunDone DEF SInv
<1>3. EngineTypeOK'
  BY <1>1, <1>2 DEF SInv, EngineTypeOK
<1>4. Quiet /\ OneEngine'
  BY <1>1, StillEngine
<1>5. Tasks' /\ Steady
  BY <1>1, <1>2, <1>4, SteadyStill DEF Quiet
<1> QED
  BY <1>3, <1>4, <1>5, QuietInv

\* A daemon that closes or is reconfigured, and the legacy engine, touch nothing
\* that the invariant is about.
LEMMA AsideInv ==
  ASSUME SInv,
         \/ \E d \in Daemon : Close(d) \/ \E k \in Kind : Reconfigure(d, k)
         \/ LegacyRuns
  PROVE  SInv'
<1>1. /\ claim' = claim /\ engine' = engine /\ made' = made /\ life' = life /\ lives' = lives
      /\ record' = record /\ wanted' = wanted /\ run' = run
      /\ held' = held /\ task' = task /\ reaper' = reaper /\ guard' = guard
      /\ looked' = looked /\ crossed' = crossed
  BY DEF Close, Reconfigure, LegacyRuns, daemons, old
<1>2. /\ closed' \subseteq Daemon /\ want' \in [Daemon -> Kind]
      /\ legacy' \in {"busy", "idle", "gone"} /\ events' \in 0 .. MaxEvents
  <2>1. /\ closed \subseteq Daemon /\ want \in [Daemon -> Kind]
        /\ legacy \in {"busy", "idle", "gone"} /\ events \in 0 .. MaxEvents /\ MaxEvents \in Nat
    BY EngineAssumption DEF SInv, EngineTypeOK
  <2>2. CASE \E d \in Daemon : Close(d)
    BY <2>1, <2>2 DEF Close, Event, old
  <2>3. CASE \E d \in Daemon, k \in Kind : Reconfigure(d, k)
    BY <2>1, <2>3 DEF Reconfigure, Event, old
  <2>4. CASE LegacyRuns
    BY <2>1, <2>4 DEF LegacyRuns, Event, daemons
  <2> QED
    BY <2>2, <2>3, <2>4
<1>3. EngineTypeOK'
  BY <1>1, <1>2 DEF SInv, EngineTypeOK
<1>4. Quiet /\ OneEngine'
  BY <1>1, StillEngine
<1>5. Tasks' /\ Steady
  BY <1>1, <1>4, SteadyStill DEF Quiet
<1> QED
  BY <1>3, <1>4, <1>5, QuietInv

LEMMA IdleProper ==
  ASSUME SInv
  PROVE  Idle \in TaskStates /\ Proper(Idle) /\ Idle.engine = None /\ Idle.at = "idle"
  BY DEF Idle, Proper, TaskStates, Preparing

LEMMA StartStepInv ==
  ASSUME SInv, NEW d \in Daemon, NEW r \in Run, StartStep(d, r)
  PROVE  SInv'
<1>1. /\ claim' = claim /\ engine' = engine /\ made' = made /\ life' = life /\ lives' = lives
      /\ closed' = closed /\ wanted' = wanted /\ want' = want /\ record' = record
      /\ held' = held /\ reaper' = reaper /\ guard' = guard /\ run' = run
      /\ legacy' = legacy /\ looked' = looked /\ crossed' = crossed /\ events' = events
      /\ task' = [task EXCEPT ![d] = [at |-> "step", run |-> r, engine |-> None]] /\ Up(d)
  BY DEF StartStep, Free, daemons, old
<1>2. Proper([at |-> "step", run |-> r, engine |-> None])
  BY DEF Proper, TaskStates, Preparing
<1>3. EngineTypeOK'
  BY <1>1, <1>2 DEF Proper, SInv, EngineTypeOK
<1>4. Quiet /\ OneEngine'
  BY <1>1, StillEngine
<1>5. Tasks' /\ Steady
  <2>1. Apart(d, None)
    BY ApartFacts
  <2> QED
    BY <1>1, <1>2, <1>4, <2>1, SteadyMove DEF Quiet
<1> QED
  BY <1>3, <1>4, <1>5, QuietInv

LEMMA StepInv ==
  ASSUME SInv, NEW d \in Daemon, Step(d)
  PROVE  SInv'
<1>1. /\ claim' = claim /\ made' = made /\ life' = life /\ lives' = lives
      /\ closed' = closed /\ wanted' = wanted /\ want' = want /\ record' = record
      /\ reaper' = reaper /\ guard' = guard /\ run' = run
      /\ legacy' = legacy /\ looked' = looked /\ crossed' = crossed /\ events' = events
      /\ task[d].at = "step"
  BY DEF Step, daemons, old
<1>2. /\ Up(d) /\ task[d].run \in Run /\ task \in [Daemon -> TaskStates]
      /\ task[d].engine \in Known \cup {None} /\ task[d].engine \in Engines \cup {None}
      /\ held \in [Daemon -> {None} \cup Holdings]
      /\ held[d] # None => held[d].engine \in Engines /\ held[d].engine \in Known
  BY <1>1 DEF SInv, Tasks, Fresh, EngineTypeOK, TaskStates, Holdings
<1>3. PICK t : /\ task' = [task EXCEPT ![d] = t] /\ Proper(t) /\ Apart(d, t.engine)
               /\ t.at \notin {"unclaim"} /\ (t.at = "slot" => held'[d] # None)
               /\ held' = held \/ held' = [held EXCEPT ![d] = None]
               /\ engine' = engine
                  \/ (held[d] # None /\ engine' \in {Requested(held[d].engine), Retiring(held[d].engine)})
  <2>1. CASE held[d] = None \/ (held[d] # None /\ Usable(d))
    <3>1. PICK a \in {"find", "slot"} :
             /\ task' = [task EXCEPT ![d].at = a] /\ engine' = engine /\ held' = held
             /\ a = "slot" => held[d] # None
      BY <2>1 DEF Step, Go
    <3>0. a \in Stages
      BY DEF Stages
    <3>2. PICK t \in TaskStates : /\ task' = [task EXCEPT ![d] = t]
                                  /\ t.at = a /\ t.run = task[d].run /\ t.engine = task[d].engine
      BY <3>1, <3>0, TaskGoes DEF SInv
    <3>3. Proper(t) /\ Apart(d, t.engine)
      BY <1>2, <3>1, <3>2, ApartFacts DEF Proper, Preparing
    <3> QED
      BY <3>1, <3>2, <3>3
  <2>2. CASE held[d] # None /\ ~Usable(d) /\ ~held[d].own
    <3>1. /\ task' = [task EXCEPT ![d].at = "find"] /\ engine' = engine
          /\ held' = [held EXCEPT ![d] = None]
      BY <2>2 DEF Step, Go
    <3>2. PICK t \in TaskStates : /\ task' = [task EXCEPT ![d] = t]
                                  /\ t.at = "find" /\ t.run = task[d].run /\ t.engine = task[d].engine
      BY <3>1, TaskGoes DEF SInv, Stages
    <3>3. Proper(t) /\ Apart(d, t.engine)
      BY <1>2, <3>2, ApartFacts DEF Proper, Preparing
    <3> QED
      BY <3>1, <3>2, <3>3
  <2>3. CASE held[d] # None /\ ~Usable(d) /\ held[d].own /\ Running(held[d].engine)
             /\ ~BeginsRetire(held[d].engine)
    <3>1. /\ task' = [task EXCEPT ![d] = Idle] /\ engine' = Requested(held[d].engine)
          /\ held' = held
      BY <2>3 DEF Step, Unlock
    <3> QED
      BY <2>3, <3>1, IdleProper, ApartFacts
  <2>4. CASE held[d] # None /\ ~Usable(d) /\ held[d].own
             /\ ~(Running(held[d].engine) /\ ~BeginsRetire(held[d].engine))
    <3>1. /\ task' = [task EXCEPT ![d].at = "retire", ![d].engine = held[d].engine]
          /\ engine' \in {engine, Retiring(held[d].engine)}
          /\ held' = [held EXCEPT ![d] = None]
      BY <2>4 DEF Step
    <3>2. PICK t \in TaskStates :
            /\ task' = [task EXCEPT ![d] = t]
            /\ t.at = "retire" /\ t.run = task[d].run /\ t.engine = held[d].engine
      BY <1>2, <2>4, <3>1, TaskGoesOn DEF SInv, Stages
    <3>3. Proper(t) /\ Apart(d, t.engine)
      BY <1>2, <2>4, <3>2, ApartFacts DEF Proper, Preparing
    <3> QED
      BY <2>4, <3>1, <3>2, <3>3
  <2> QED
    BY <2>1, <2>2, <2>3, <2>4
<1>4. engine' \in [Engines -> Containers] /\ Quiet
  <2>1. CASE engine' = engine
    BY <2>1, StillEngine DEF SInv, EngineTypeOK
  <2>2. CASE held[d] # None /\ engine' \in {Requested(held[d].engine), Retiring(held[d].engine)}
    BY <1>2, <2>2, QuietOps DEF SInv
  <2> QED
    BY <1>3, <2>1, <2>2
<1>5. EngineTypeOK'
  BY <1>1, <1>2, <1>3, <1>4 DEF Proper, SInv, EngineTypeOK
<1>6. OneEngine'
  BY <1>1, <1>4, QuietOne
<1>7. Tasks' /\ Steady
  <2>1. held'[d] \in {held[d], None} /\ \A c \in Daemon \ {d} : held'[c] = held[c]
    BY <1>2, <1>3
  <2> QED
    BY <1>1, <1>2, <1>3, <1>4, <2>1, SteadyMove DEF Quiet
<1> QED
  BY <1>4, <1>5, <1>6, <1>7, QuietInv

LEMMA FindInv ==
  ASSUME SInv, NEW d \in Daemon, Find(d)
  PROVE  SInv'
<1>1. /\ claim' = claim /\ engine' = engine /\ made' = made /\ life' = life /\ lives' = lives
      /\ closed' = closed /\ wanted' = wanted /\ want' = want /\ record' = record
      /\ held' = held /\ reaper' = reaper /\ guard' = guard /\ run' = run
      /\ legacy' = legacy /\ looked' = looked /\ crossed' = crossed /\ events' = events
      /\ task[d].at = "find" /\ (claim = None \/ Ours(d))
  BY DEF Find, daemons, old
<1>2. Up(d) /\ task[d].run \in Run
  BY <1>1 DEF SInv, Tasks
<1>3. PICK t \in TaskStates : /\ task' = [task EXCEPT ![d] = t]
                              /\ Proper(t) /\ Apart(d, t.engine) /\ t.at \in {"make", "resume"}
  <2>1. CASE claim = None
    <3>1. task' = [task EXCEPT ![d].at = "make", ![d].engine = None]
      BY <2>1 DEF Find
    <3>0. PICK t : t = [task[d] EXCEPT !.at = "make", !.engine = None]
      OBVIOUS
    <3>2. /\ t \in TaskStates /\ task' = [task EXCEPT ![d] = t]
          /\ t.at = "make" /\ t.run = task[d].run /\ t.engine = None
      BY <3>0, <3>1 DEF SInv, EngineTypeOK, TaskStates
    <3> QED
      BY <1>2, <3>2, ApartFacts DEF Proper, Preparing
  <2>2. CASE claim # None
    <3>1. task' = [task EXCEPT ![d].at = "resume", ![d].engine = claim.engine]
      BY <2>2 DEF Find
    <3>2. claim.engine \in Engines /\ claim.engine \in Known
      BY <2>2 DEF SInv, EngineTypeOK, Claims, Fresh
    <3>0. PICK t : t = [task[d] EXCEPT !.at = "resume", !.engine = claim.engine]
      OBVIOUS
    <3>3. /\ t \in TaskStates /\ task' = [task EXCEPT ![d] = t]
          /\ t.at = "resume" /\ t.run = task[d].run /\ t.engine = claim.engine
      BY <3>0, <3>1, <3>2 DEF SInv, EngineTypeOK, TaskStates
    <3> QED
      BY <1>1, <1>2, <2>2, <3>2, <3>3, ApartFacts DEF Proper, Preparing
  <2> QED
    BY <2>1, <2>2
<1>4. EngineTypeOK'
  BY <1>1, <1>3 DEF SInv, EngineTypeOK
<1>5. Quiet /\ OneEngine'
  BY <1>1, StillEngine
<1>6. Tasks' /\ Steady
  BY <1>1, <1>2, <1>3, <1>5, SteadyMove DEF Quiet
<1> QED
  BY <1>4, <1>5, <1>6, QuietInv

LEMMA AdoptInv ==
  ASSUME SInv, NEW d \in Daemon, Adopt(d)
  PROVE  SInv'
<1> DEFINE e == claim.engine
<1>1. /\ claim' = claim /\ made' = made /\ life' = life /\ lives' = lives
      /\ closed' = closed /\ wanted' = wanted /\ want' = want /\ record' = record
      /\ reaper' = reaper /\ guard' = guard /\ run' = run
      /\ legacy' = legacy /\ looked' = looked /\ crossed' = crossed /\ events' = events
      /\ task[d].at = "find" /\ claim # None
  BY DEF Adopt, daemons, old
<1>2. /\ Up(d) /\ task[d].run \in Run /\ task[d].engine \in Known \cup {None}
      /\ e \in Engines /\ e \in Known /\ [engine |-> e, own |-> FALSE] \in Holdings
  BY <1>1 DEF SInv, Tasks, Fresh, EngineTypeOK, Claims, Holdings
<1>3. PICK t \in TaskStates :
         /\ task' = [task EXCEPT ![d] = t]
         /\ Proper(t) /\ Apart(d, t.engine) /\ t.at \in {"slot", "idle", "take"}
         /\ \/ held' = held /\ t.at # "slot"
            \/ held' = [held EXCEPT ![d] = [engine |-> e, own |-> FALSE]]
         /\ engine' \in {engine, Requested(e)}
  <2>1. CASE task' = [task EXCEPT ![d].at = "slot"] /\ engine' = engine
             /\ held' = [held EXCEPT ![d] = [engine |-> e, own |-> FALSE]]
    <3>1. PICK t \in TaskStates : /\ task' = [task EXCEPT ![d] = t]
                                  /\ t.at = "slot" /\ t.run = task[d].run /\ t.engine = task[d].engine
      BY <2>1, TaskGoes DEF SInv, Stages
    <3>2. Proper(t) /\ Apart(d, t.engine)
      BY <1>2, <3>1, ApartFacts DEF Proper, Preparing
    <3> QED
      BY <2>1, <3>1, <3>2
  <2>2. CASE task' = [task EXCEPT ![d] = Idle] /\ engine' \in {engine, Requested(e)} /\ held' = held
    BY <2>2, IdleProper, ApartFacts
  <2>3. CASE /\ ~Alive(claim.maker) \/ ~\E c \in Daemon : task[c].engine = e
             /\ task' = [task EXCEPT ![d].at = "take", ![d].engine = e]
             /\ engine' = engine /\ held' = held
    <3>0. PICK t : t = [task[d] EXCEPT !.at = "take", !.engine = e]
      OBVIOUS
    <3>1. /\ t \in TaskStates /\ task' = [task EXCEPT ![d] = t]
          /\ t.at = "take" /\ t.run = task[d].run /\ t.engine = e
      BY <1>2, <2>3, <3>0 DEF SInv, EngineTypeOK, TaskStates
    <3>2. Proper(t)
      BY <1>2, <3>1 DEF Proper, Preparing
    <3>3. Apart(d, e)
      BY <1>1, <2>3, ApartFacts DEF Apart
    <3> QED
      BY <2>3, <3>1, <3>2, <3>3
  <2> QED
    BY <2>1, <2>2, <2>3 DEF Adopt, Go, Unlock
<1>4. engine' \in [Engines -> Containers] /\ Quiet
  BY <1>2, <1>3, QuietOps DEF SInv
<1>5. EngineTypeOK'
  BY <1>1, <1>2, <1>3, <1>4 DEF SInv, EngineTypeOK
<1>6. OneEngine'
  BY <1>1, <1>4, QuietOne
<1>7. Tasks' /\ Steady
  <2>1. /\ held'[d] = held[d] \/ held'[d] = [engine |-> e, own |-> FALSE]
        /\ \A c \in Daemon \ {d} : held'[c] = held[c]
        /\ t.at = "slot" => held'[d] # None
    BY <1>2, <1>3, NothingAssumption DEF SInv, EngineTypeOK
  <2> HIDE DEF e
  <2>2. held'[d] \in {held[d], None} \/ Entitled(d, held'[d])
    BY <1>1, <2>1 DEF e, Entitled
  <2> QED
    BY <1>1, <1>2, <1>3, <1>4, <2>1, <2>2, SteadyMove DEF Quiet
<1> QED
  BY <1>4, <1>5, <1>6, <1>7, QuietInv

LEMMA RetryOwnedInv ==
  ASSUME SInv, NEW d \in Daemon, RetryOwned(d)
  PROVE  SInv'
<1> DEFINE t == [at |-> "resume", run |-> None, engine |-> claim.engine]
<1>1. /\ claim' = claim /\ engine' = engine /\ made' = made /\ life' = life /\ lives' = lives
      /\ closed' = closed /\ wanted' = wanted /\ want' = want /\ record' = record
      /\ held' = held /\ reaper' = reaper /\ guard' = guard /\ run' = run
      /\ legacy' = legacy /\ looked' = looked /\ crossed' = crossed /\ events' = events
      /\ task' = [task EXCEPT ![d] = t] /\ Up(d) /\ Ours(d) /\ claim # None
  BY DEF RetryOwned, Free, Ours, daemons, old
<1>2. claim.engine \in Engines /\ claim.engine \in Known
  BY <1>1 DEF SInv, EngineTypeOK, Claims, Fresh
<1>3. t \in TaskStates /\ Proper(t) /\ t.at = "resume" /\ t.engine = claim.engine
  BY <1>2 DEF Proper, TaskStates, Preparing
<1>4. Apart(d, t.engine)
  BY <1>1, <1>3, ApartFacts
<1> HIDE DEF t
<1>5. EngineTypeOK'
  BY <1>1, <1>3 DEF SInv, EngineTypeOK
<1>6. Quiet /\ OneEngine'
  BY <1>1, StillEngine
<1>7. Tasks' /\ Steady
  BY <1>1, <1>3, <1>4, <1>6, SteadyMove DEF Quiet
<1> QED
  BY <1>5, <1>6, <1>7, QuietInv

LEMMA RetireInv ==
  ASSUME SInv, NEW d \in Daemon, Retire(d)
  PROVE  SInv'
<1> DEFINE e == task[d].engine
<1>1. /\ claim' = claim /\ made' = made /\ life' = life /\ lives' = lives
      /\ closed' = closed /\ wanted' = wanted /\ want' = want /\ held' = held
      /\ reaper' = reaper /\ guard' = guard /\ run' = run
      /\ legacy' = legacy /\ looked' = looked /\ crossed' = crossed
      /\ task[d].at = "retire"
  BY DEF Retire, daemons, old
<1>2. Up(d) /\ task[d].run \in Run \cup {None} /\ e \in Engines /\ e \in Known
  BY <1>1, NothingAssumption DEF SInv, Tasks, Fresh, EngineTypeOK, TaskStates
<1>3. PICK t \in TaskStates :
         /\ task' = [task EXCEPT ![d] = t] /\ Proper(t) /\ Apart(d, t.engine) /\ t.at # "slot"
         /\ t.at = "unclaim" => t.engine = e /\ engine' = Removed(e)
         /\ engine' \in {engine, Removed(e)}
  <2>1. CASE task' = [task EXCEPT ![d].at = "unclaim"] /\ engine' = Removed(e)
    <3>1. PICK t \in TaskStates : /\ task' = [task EXCEPT ![d] = t]
                                  /\ t.at = "unclaim" /\ t.run = task[d].run /\ t.engine = e
      BY <2>1, TaskGoes DEF SInv, Stages
    <3> QED
      BY <1>2, <2>1, <3>1, ApartFacts DEF Proper, Preparing
  <2>2. CASE task' = [task EXCEPT ![d] = Idle] /\ engine' = engine
    BY <2>2, IdleProper, ApartFacts
  <2>3. CASE task[d].run # None /\ task' = [task EXCEPT ![d].at = "find"] /\ engine' = engine
    <3>1. PICK t \in TaskStates : /\ task' = [task EXCEPT ![d] = t]
                                  /\ t.at = "find" /\ t.run = task[d].run /\ t.engine = e
      BY <2>3, TaskGoes DEF SInv, Stages
    <3> QED
      BY <1>2, <2>3, <3>1, ApartFacts DEF Proper, Preparing
  <2> QED
    BY <2>1, <2>2, <2>3 DEF Retire, Go, Unlock
<1>4. /\ engine' \in [Engines -> Containers] /\ Quiet
      /\ engine' = Removed(e) => engine'[e].up = "absent"
  <2>1. Absent.up = "absent"
    BY DEF Absent
  <2> QED
    BY <1>2, <1>3, <2>1, QuietOps, RemovedFacts DEF SInv
<1>5. record' \in [Daemon -> SUBSET Engines] /\ events' \in 0 .. MaxEvents
  BY EngineAssumption DEF Retire, Event, SInv, EngineTypeOK
<1> HIDE DEF e
<1>6. EngineTypeOK'
  BY <1>1, <1>3, <1>4, <1>5 DEF SInv, EngineTypeOK
<1>7. OneEngine'
  BY <1>1, <1>4, QuietOne
<1>8. Tasks' /\ Steady
  BY <1>1, <1>2, <1>3, <1>4, SteadyMove DEF Quiet
<1> QED
  BY <1>4, <1>6, <1>7, <1>8, QuietInv

LEMMA TakeOverInv ==
  ASSUME SInv, NEW d \in Daemon, TakeOver(d)
  PROVE  SInv'
<1> DEFINE e == task[d].engine
<1>1. /\ claim' = claim /\ made' = made /\ life' = life /\ lives' = lives
      /\ closed' = closed /\ wanted' = wanted /\ want' = want /\ record' = record
      /\ held' = held /\ reaper' = reaper /\ guard' = guard /\ run' = run
      /\ legacy' = legacy /\ looked' = looked /\ crossed' = crossed /\ events' = events
      /\ task[d].at = "take" /\ engine' = Removed(e) /\ task' = [task EXCEPT ![d].at = "unclaim"]
  BY DEF TakeOver, Go, daemons, old
<1>2. Up(d) /\ e \in Engines /\ e \in Known
  BY <1>1, NothingAssumption DEF SInv, Tasks, Fresh
<1>3. PICK t \in TaskStates : /\ task' = [task EXCEPT ![d] = t]
                              /\ t.at = "unclaim" /\ t.run = task[d].run /\ t.engine = e
  BY <1>1, TaskGoes DEF SInv, Stages
<1>4. Proper(t) /\ Apart(d, t.engine)
  BY <1>2, <1>3, ApartFacts DEF Proper, Preparing
<1>5. engine' \in [Engines -> Containers] /\ Quiet /\ engine'[e].up = "absent"
  <2>1. Absent.up = "absent"
    BY DEF Absent
  <2> QED
    BY <1>1, <1>2, <2>1, QuietOps, RemovedFacts DEF SInv
<1> HIDE DEF e
<1>6. EngineTypeOK'
  BY <1>1, <1>3, <1>5 DEF SInv, EngineTypeOK
<1>7. OneEngine'
  BY <1>1, <1>5, QuietOne
<1>8. Tasks' /\ Steady
  BY <1>1, <1>2, <1>3, <1>4, <1>5, SteadyMove DEF Quiet
<1> QED
  BY <1>5, <1>6, <1>7, <1>8, QuietInv

\* A claim is dropped only for an engine that is gone.
LEMMA ClaimDropped ==
  ASSUME SInv, NEW e \in Engines, Quiet, engine'[e].up = "absent", claim' = ClaimWithout(e)
  PROVE  /\ OneEngine'
         /\ \/ claim' = claim
            \/ claim' = None /\ \A c \in Daemon : task[c].at \in Preparing => task[c].engine = e
<1>1. OneEngine'
  BY DEF SInv, OneEngine, Quiet, Upkept, Exists, ClaimWithout
<1>2. ASSUME claim' # claim, NEW c \in Daemon, task[c].at \in Preparing
      PROVE  task[c].engine = e
  <2>1. claim.engine = e
    BY <1>2 DEF ClaimWithout
  <2>2. claim = [engine |-> task[c].engine, maker |-> Process(c)]
    BY <1>2 DEF SInv, Makers, Preparing
  <2> QED
    BY <2>1, <2>2
<1> QED
  BY <1>1, <1>2 DEF ClaimWithout

LEMMA UnclaimInv ==
  ASSUME SInv, NEW d \in Daemon, Unclaim(d)
  PROVE  SInv'
<1> DEFINE e == task[d].engine
<1>1. /\ engine' = engine /\ made' = made /\ life' = life /\ lives' = lives
      /\ closed' = closed /\ wanted' = wanted /\ want' = want /\ record' = record
      /\ held' = held /\ reaper' = reaper /\ guard' = guard /\ run' = run
      /\ legacy' = legacy /\ looked' = looked /\ crossed' = crossed /\ events' = events
      /\ task[d].at = "unclaim" /\ claim' = ClaimWithout(e)
  BY DEF Unclaim, daemons, old
<1>2. /\ Up(d) /\ e \in Engines /\ e \in Known /\ engine'[e].up = "absent"
      /\ task[d].run \in Run \cup {None}
  BY <1>1, NothingAssumption DEF SInv, Tasks, Fresh, Exists, EngineTypeOK, TaskStates
<1>3. PICK t \in TaskStates :
         task' = [task EXCEPT ![d] = t] /\ Proper(t) /\ Apart(d, t.engine) /\ t.at \in {"idle", "find"}
  <2>1. CASE task' = [task EXCEPT ![d] = Idle]
    BY <2>1, IdleProper, ApartFacts
  <2>2. CASE task[d].run # None /\ task' = [task EXCEPT ![d].at = "find"]
    <3>1. PICK t \in TaskStates : /\ task' = [task EXCEPT ![d] = t]
                                  /\ t.at = "find" /\ t.run = task[d].run /\ t.engine = e
      BY <2>2, TaskGoes DEF SInv, Stages
    <3> QED
      BY <1>2, <2>2, <3>1, ApartFacts DEF Proper, Preparing
  <2> QED
    BY <2>1, <2>2 DEF Unclaim, Go, Unlock
<1>4. Quiet /\ Apart(d, e)
  BY <1>1, StillEngine, ApartFacts
<1> HIDE DEF e
<1>5. /\ OneEngine'
      /\ claim' = claim \/ (claim' = None /\ \A c \in Daemon \ {d} : task[c].at \notin Preparing)
  BY <1>1, <1>2, <1>4, ClaimDropped DEF Apart
<1>6. EngineTypeOK'
  BY <1>1, <1>3, <1>5 DEF SInv, EngineTypeOK
<1>7. Tasks' /\ Steady
  BY <1>1, <1>2, <1>3, <1>4, <1>5, SteadyMove DEF Quiet
<1> QED
  BY <1>4, <1>5, <1>6, <1>7, QuietInv

LEMMA CleanUpFacts ==
  ASSUME SInv, NEW d \in Daemon, NEW e \in Engines, CleanUp(d, e)
  PROVE  /\ engine' \in [Engines -> Containers] /\ Quiet /\ OneEngine'
         /\ record' \in [Daemon -> SUBSET Engines] /\ events' \in 0 .. MaxEvents
         /\ \/ claim' = claim
            \/ claim' = None /\ \A c \in Daemon : task[c].at \in Preparing => task[c].engine = e
<1>1. record' \in [Daemon -> SUBSET Engines] /\ events' \in 0 .. MaxEvents
  BY EngineAssumption DEF CleanUp, Event, SInv, EngineTypeOK
<1>2. engine' \in {engine, Removed(e)} /\ (e \in record[d] /\ engine' # engine => engine' = Removed(e))
  BY DEF CleanUp
<1>3. engine' \in [Engines -> Containers] /\ Quiet
  BY <1>2, QuietOps DEF SInv
<1>4. CASE claim' = claim
  BY <1>1, <1>3, <1>4, QuietOne
<1>5. CASE claim' # claim
  <2>1. claim' = ClaimWithout(e) /\ (engine' = Removed(e) \/ (engine' = engine /\ ~Exists(e)))
    BY <1>5 DEF CleanUp
  <2>2. Absent.up = "absent"
    BY DEF Absent
  <2>3. engine'[e].up = "absent"
    BY <2>1, <2>2, RemovedFacts DEF SInv, Exists
  <2> QED
    BY <1>1, <1>3, <2>1, <2>3, ClaimDropped
<1> QED
  BY <1>4, <1>5

LEMMA DropGuardInv ==
  ASSUME SInv, NEW d \in Daemon, NEW e \in Engines, DropGuard(d, e)
  PROVE  SInv'
<1>1. /\ made' = made /\ life' = life /\ lives' = lives
      /\ closed' = closed /\ wanted' = wanted /\ want' = want
      /\ held' = held /\ task' = task /\ reaper' = reaper /\ run' = run
      /\ legacy' = legacy /\ looked' = looked /\ crossed' = crossed
      /\ guard' = [guard EXCEPT ![d] = @ \ {e}] /\ e \in guard[d] /\ CleanUp(d, e)
  BY DEF DropGuard, daemons, old
<1>2. /\ guard' \in [Daemon -> SUBSET Engines]
      /\ \A c \in Daemon : guard'[c] \subseteq guard[c]
  BY <1>1 DEF SInv, EngineTypeOK
<1>3. /\ engine' \in [Engines -> Containers] /\ Quiet /\ OneEngine'
      /\ record' \in [Daemon -> SUBSET Engines] /\ events' \in 0 .. MaxEvents
      /\ \/ claim' = claim
         \/ claim' = None /\ \A c \in Daemon : task[c].at \in Preparing => task[c].engine = e
  BY <1>1, CleanUpFacts
<1>4. \A c \in Daemon : task[c].at \in Preparing => task[c].engine # e
  BY <1>1 DEF SInv, Makers, Preparing
<1>5. claim' = claim \/ (claim' = None /\ \A c \in Daemon : task[c].at \notin Preparing)
  BY <1>3, <1>4
<1>6. EngineTypeOK'
  BY <1>1, <1>2, <1>3 DEF SInv, EngineTypeOK
<1>7. Tasks' /\ Steady
  BY <1>1, <1>2, <1>3, <1>5, SteadyStill DEF Quiet
<1> QED
  BY <1>3, <1>6, <1>7, QuietInv

LEMMA ResumeInv ==
  ASSUME SInv, NEW d \in Daemon, Resume(d)
  PROVE  SInv'
<1>1. /\ made' = made /\ life' = life /\ lives' = lives
      /\ closed' = closed /\ wanted' = wanted /\ want' = want
      /\ held' = held /\ reaper' = reaper /\ guard' = guard /\ run' = run
      /\ legacy' = legacy /\ looked' = looked /\ crossed' = crossed
      /\ task[d].at = "resume" /\ task' = [task EXCEPT ![d] = Idle]
      /\ CleanUp(d, task[d].engine)
  BY DEF Resume, Unlock, daemons, old
<1>2. PICK e \in Engines : e = task[d].engine /\ Up(d)
  BY <1>1 DEF SInv, Tasks
<1>3. /\ engine' \in [Engines -> Containers] /\ Quiet /\ OneEngine'
      /\ record' \in [Daemon -> SUBSET Engines] /\ events' \in 0 .. MaxEvents
      /\ \/ claim' = claim
         \/ claim' = None /\ \A c \in Daemon : task[c].at \in Preparing => task[c].engine = e
  BY <1>1, <1>2, CleanUpFacts
<1>4. Apart(d, e) /\ Apart(d, None)
  BY <1>2, ApartFacts
<1>5. claim' = claim \/ (claim' = None /\ \A c \in Daemon \ {d} : task[c].at \notin Preparing)
  BY <1>3, <1>4 DEF Apart
<1>6. EngineTypeOK'
  BY <1>1, <1>3, IdleProper DEF SInv, EngineTypeOK
<1>7. Tasks' /\ Steady
  BY <1>1, <1>2, <1>3, <1>4, <1>5, IdleProper, SteadyMove DEF Quiet
<1> QED
  BY <1>3, <1>6, <1>7, QuietInv

LEMMA NoReaperFacts ==
  NoReaper \in ReaperStates /\ NoReaper.at = "idle" /\ NoReaper.engine = None
  BY DEF NoReaper, ReaperStates

LEMMA TakeAbandonedInv ==
  ASSUME SInv, NEW d \in Daemon, TakeAbandoned(d)
  PROVE  SInv'
<1>1. /\ claim' = claim /\ engine' = engine /\ made' = made /\ life' = life /\ lives' = lives
      /\ closed' = closed /\ wanted' = wanted /\ want' = want /\ record' = record
      /\ guard' = guard /\ run' = run
      /\ legacy' = legacy /\ looked' = looked /\ crossed' = crossed /\ events' = events
      /\ held' = held \/ held' = [held EXCEPT ![d] = None]
      /\ reaper' = [reaper EXCEPT ![d] = NoReaper]
      /\ Up(d) /\ reaper[d].at = "take"
  BY DEF TakeAbandoned, Free, daemons, old
<1>2. PICK t : /\ t = [at |-> "take", run |-> None, engine |-> reaper[d].engine]
               /\ task' = [task EXCEPT ![d] = t]
  BY DEF TakeAbandoned
<1>3. reaper[d].engine \in Engines /\ reaper[d].engine \in Known
  BY <1>1, NothingAssumption DEF SInv, Tasks, Fresh
<1>4. t \in TaskStates /\ Proper(t) /\ t.at = "take" /\ t.engine = reaper[d].engine
  BY <1>2, <1>3 DEF Proper, TaskStates, Preparing
<1>5. Apart(d, t.engine)
  BY <1>1, <1>4, ApartFacts
<1>6. EngineTypeOK'
  BY <1>1, <1>2, <1>4, NoReaperFacts DEF SInv, EngineTypeOK
<1>7. Quiet /\ OneEngine'
  BY <1>1, StillEngine
<1>8. held'[d] \in {held[d], None} /\ \A c \in Daemon \ {d} : held'[c] = held[c]
  BY <1>1 DEF SInv, EngineTypeOK
<1>9. Tasks' /\ Steady
  BY <1>1, <1>2, <1>4, <1>5, <1>7, <1>8, SteadyMove DEF Quiet
<1> QED
  BY <1>6, <1>7, <1>9, QuietInv

LEMMA BeginAbandonedInv ==
  ASSUME SInv, NEW d \in Daemon, BeginAbandoned(d)
  PROVE  SInv'
<1> DEFINE e == reaper[d].engine
<1>1. /\ claim' = claim /\ made' = made /\ life' = life /\ lives' = lives
      /\ closed' = closed /\ wanted' = wanted /\ want' = want /\ record' = record
      /\ held' = held /\ task' = task /\ guard' = guard /\ run' = run
      /\ legacy' = legacy /\ looked' = looked /\ crossed' = crossed /\ events' = events
      /\ reaper[d].at = "begin" /\ engine' \in {engine, Retiring(e)}
  BY DEF BeginAbandoned, daemons, old
<1>2. e \in Engines /\ reaper \in [Daemon -> ReaperStates] /\ reaper[d] \in ReaperStates
  BY <1>1 DEF SInv, Tasks, EngineTypeOK
<1>3. engine' \in [Engines -> Containers] /\ Quiet
  BY <1>1, <1>2, QuietOps DEF SInv
<1>4. PICK t : /\ t = [reaper[d] EXCEPT !.at = "take"]
               /\ reaper' = [reaper EXCEPT ![d] = t] \/ reaper' = [reaper EXCEPT ![d] = NoReaper]
  BY DEF BeginAbandoned
<1>5. t \in ReaperStates /\ t.at = "take" /\ t.engine = e
  BY <1>2, <1>4 DEF ReaperStates
<1> HIDE DEF e
<1>6. EngineTypeOK'
  BY <1>1, <1>2, <1>3, <1>4, <1>5, NoReaperFacts DEF SInv, EngineTypeOK
<1>7. OneEngine'
  BY <1>1, <1>3, QuietOne
<1>8. \A c \in Daemon :
        /\ reaper'[c].at # "idle" => reaper[c].at # "idle" /\ reaper'[c].engine = reaper[c].engine
        /\ reaper'[c].at = "reclaim" => reaper'[c] = reaper[c]
        /\ reaper'[c].engine \in {reaper[c].engine, None}
  BY <1>1, <1>2, <1>4, <1>5, NoReaperFacts DEF e
<1>9. Tasks' /\ Steady
  BY <1>1, <1>3, <1>8, SteadyStill DEF Quiet
<1> QED
  BY <1>3, <1>6, <1>7, <1>9, QuietInv

-----------------------------------------------------------------------------
\* The making of an engine.

LEMMA EnrollInv ==
  ASSUME SInv, NEW d \in Daemon, Enroll(d)
  PROVE  SInv'
<1>1. /\ made' = made /\ life' = life /\ lives' = lives
      /\ closed' = closed /\ wanted' = wanted /\ want' = want
      /\ held' = held /\ reaper' = reaper /\ guard' = guard /\ run' = run
      /\ legacy' = legacy /\ looked' = looked /\ crossed' = crossed
      /\ task[d].at = "ready" /\ engine' = Removed(task[d].engine)
      /\ claim' = ClaimWithout(task[d].engine)
      /\ record' = [record EXCEPT ![d] = @ \ {task[d].engine}]
      /\ task' = [task EXCEPT ![d].at = "make", ![d].engine = None]
      /\ events' \in 0 .. MaxEvents
  BY EngineAssumption DEF Enroll, Event, daemons, old, SInv, EngineTypeOK
<1>2. PICK e \in Engines : e = task[d].engine /\ Up(d) /\ task[d].run \in Run
  BY <1>1 DEF SInv, Tasks
<1>3. PICK t : t = [task[d] EXCEPT !.at = "make", !.engine = None]
  OBVIOUS
<1>4. /\ t \in TaskStates /\ task' = [task EXCEPT ![d] = t]
      /\ t.at = "make" /\ t.run = task[d].run /\ t.engine = None
  BY <1>1, <1>3 DEF SInv, EngineTypeOK, TaskStates
<1>5. Proper(t) /\ Apart(d, t.engine) /\ Apart(d, e)
  BY <1>2, <1>4, ApartFacts DEF Proper, Preparing
<1>6. engine' \in [Engines -> Containers] /\ Quiet /\ engine'[e].up = "absent"
  <2>1. Absent.up = "absent"
    BY DEF Absent
  <2> QED
    BY <1>1, <1>2, <2>1, QuietOps, RemovedFacts DEF SInv
<1>7. /\ OneEngine'
      /\ claim' = claim \/ (claim' = None /\ \A c \in Daemon \ {d} : task[c].at \notin Preparing)
  BY <1>1, <1>2, <1>5, <1>6, ClaimDropped DEF Apart
<1>8. EngineTypeOK'
  BY <1>1, <1>4, <1>6, <1>7 DEF SInv, EngineTypeOK
<1>9. Tasks' /\ Steady
  BY <1>1, <1>2, <1>4, <1>5, <1>6, <1>7, SteadyMove DEF Quiet
<1> QED
  BY <1>6, <1>7, <1>8, <1>9, QuietInv

LEMMA PrepareFailsInv ==
  ASSUME SInv, NEW d \in Daemon, PrepareFails(d)
  PROVE  SInv'
<1>1. /\ claim' = claim /\ made' = made /\ life' = life /\ lives' = lives
      /\ closed' = closed /\ wanted' = wanted /\ want' = want
      /\ held' = held /\ reaper' = reaper
      /\ legacy' = legacy /\ looked' = looked /\ crossed' = crossed
      /\ task[d].at \in Preparing /\ task' = [task EXCEPT ![d] = Idle]
      /\ engine' \in {engine, Removed(task[d].engine)}
      /\ guard' = [guard EXCEPT ![d] = @ \cup {task[d].engine}]
      /\ run' = [run EXCEPT ![task[d].run].at = "done"]
  BY DEF PrepareFails, Unlock, Preparing, daemons, old
<1>2. record' \in [Daemon -> SUBSET Engines] /\ events' \in 0 .. MaxEvents
  BY EngineAssumption DEF PrepareFails, Event, SInv, EngineTypeOK
<1>3. PICK e \in Engines : e = task[d].engine /\ Up(d) /\ task[d].run \in Run /\ e \in Known
  BY <1>1, NothingAssumption DEF SInv, Tasks, Preparing, Fresh
<1>4. engine' \in [Engines -> Containers] /\ Quiet
  BY <1>1, <1>3, QuietOps DEF SInv
<1>5. /\ run' \in [Run -> RunStates]
      /\ \A q \in Run : /\ run'[q].engine = run[q].engine
                        /\ run'[q].at \in {"leased", "failing"} => run'[q] = run[q]
  BY <1>1, <1>3, RunDone DEF SInv
<1>6. Apart(d, e) /\ Apart(d, None)
  BY <1>3, ApartFacts
<1>7. /\ guard' \in [Daemon -> SUBSET Engines]
      /\ \A c \in Daemon : \A x \in guard'[c] \ guard[c] : x = e
  BY <1>1, <1>3 DEF SInv, EngineTypeOK
<1>8. EngineTypeOK'
  BY <1>1, <1>2, <1>4, <1>5, <1>7, IdleProper DEF SInv, EngineTypeOK
<1>9. OneEngine'
  BY <1>1, <1>4, QuietOne
<1>10. Tasks' /\ Steady
  <2>1. \A c \in Daemon : \A x \in guard'[c] \ guard[c] : x \in Known /\ Apart(d, x)
    BY <1>3, <1>6, <1>7
  <2> QED
    BY <1>1, <1>3, <1>4, <1>5, <1>6, <2>1, IdleProper, SteadyMove DEF Quiet
<1> QED
  BY <1>4, <1>8, <1>9, <1>10, QuietInv

\* Docker gives out the claim for an engine that nobody has heard of.
LEMMA NewClaim ==
  ASSUME SInv, NEW d \in Daemon, NEW t, Up(d), claim = None, made < MaxEngines,
         claim' = [engine |-> made + 1, maker |-> Process(d)], made' = made + 1,
         engine' = engine, life' = life, lives' = lives, crossed' = crossed,
         held' = held, reaper' = reaper, guard' = guard,
         task' = [task EXCEPT ![d] = t],
         t = Idle \/ (t.at = "create" /\ t.run \in Run /\ t.engine = made + 1),
         \A r \in Run : /\ run'[r].engine = run[r].engine
                        /\ run'[r].at \in {"leased", "failing"} => run'[r] = run[r]
  PROVE  /\ claim' \in Claims /\ Incarnations' /\ Tasks' /\ Fresh' /\ Makers' /\ Owners'
         /\ Leased' /\ Surveys' /\ OneEngine' /\ SlotsAgree'
<1>1. /\ made \in Nat /\ made + 1 \in Engines /\ made + 1 \notin Known /\ Known \subseteq Known'
      /\ made + 1 \in Known' /\ made + 1 # None /\ Known \subseteq Engines /\ None \notin Known
  BY EngineAssumption, NothingAssumption DEF SInv, EngineTypeOK, Engines, Known
<1>2. claim' \in Claims /\ claim' # None
  BY <1>1, NothingAssumption DEF Claims, Processes, Process, Up, SInv, EngineTypeOK
<1>3. \A e \in Engines : ~Exists(e)
  BY DEF SInv, OneEngine
<1>4. \A c \in Daemon : task[c].at \notin Preparing
  <2> SUFFICES ASSUME NEW c \in Daemon, task[c].at \in Preparing PROVE FALSE
    OBVIOUS
  <2>1. /\ claim = [engine |-> task[c].engine, maker |-> Process(c)]
        /\ task[c].engine \in Engines /\ Up(c)
    BY DEF SInv, Makers, Tasks, Preparing
  <2>2. claim \in Claims
    BY <2>1 DEF Claims, Processes, Process, Up, SInv, EngineTypeOK
  <2> QED
    BY <2>2, NothingAssumption
<1>5. task'[d] = t /\ \A c \in Daemon \ {d} : task'[c] = task[c]
  BY DEF SInv, EngineTypeOK
<1>6. Idle.at = "idle" /\ Idle.engine = None
  BY DEF Idle
<1>7. Incarnations'
  <2>1. Past(Process(d))
    BY DEF SInv, Incarnations, Past, Process, EngineTypeOK
  <2> QED
    BY <2>1 DEF SInv, Incarnations, Past, Process
<1>8. Tasks'
  BY <1>1, <1>3, <1>5, <1>6 DEF SInv, Tasks, Up, Exists
<1>9. Fresh'
  <2>1. \A c \in Daemon : task'[c].engine \in Known' \cup {None}
    BY <1>1, <1>5, <1>6 DEF SInv, Fresh
  <2>2. claim'.engine \in Known'
    BY <1>1
  <2>3. \A r \in Run : run'[r].engine \in Known' \cup {None}
    BY <1>1 DEF SInv, Fresh
  <2>4. \A c \in Daemon : /\ reaper'[c].engine \in Known' \cup {None}
                          /\ held'[c] # None => held'[c].engine \in Known'
                          /\ guard'[c] \subseteq Known'
    BY <1>1 DEF SInv, Fresh
  <2> QED
    BY <2>1, <2>2, <2>3, <2>4 DEF Fresh
<1>10. Makers'
  <2> SUFFICES ASSUME NEW c \in Daemon, task'[c].at \in Preparing
               PROVE  /\ claim' = [engine |-> task'[c].engine, maker |-> Process(c)']
                      /\ \A b \in Daemon : task'[c].engine \notin guard'[b]
                      /\ \A b \in Daemon \ {c} : task'[b].engine # task'[c].engine
                      /\ task'[c].at = "create" =>
                           /\ engine'[task'[c].engine].up = "absent"
                           /\ \A r \in Run : run'[r].engine # task'[c].engine
    BY DEF Makers, Preparing, Exists
  <2>1. c = d /\ t # Idle
    BY <1>4, <1>5, <1>6 DEF Preparing
  <2>2. task'[c].engine = made + 1
    BY <1>5, <2>1
  <2>3. Process(c)' = Process(d)
    BY <2>1 DEF Process
  <2>4. \A b \in Daemon : made + 1 \notin guard'[b] /\ (b # d => task'[b].engine # made + 1)
    BY <1>1, <1>5 DEF SInv, Fresh
  <2>5. engine'[made + 1].up = "absent" /\ \A r \in Run : run'[r].engine # made + 1
    BY <1>1, <1>3 DEF SInv, Fresh, Exists
  <2> QED
    BY <2>1, <2>2, <2>3, <2>4, <2>5
<1>11. Owners'
  <2>1. \A c \in Daemon : held'[c] # None => held'[c].engine # claim'.engine
    BY <1>1 DEF SInv, Fresh
  <2>2. \A c \in Daemon : reaper'[c].engine # claim'.engine
    BY <1>1 DEF SInv, Fresh
  <2> QED
    BY <2>1, <2>2 DEF Owners
<1>12. Leased'
  BY DEF SInv, Leased, Up, Running
<1>13. Surveys'
  BY DEF SInv, Surveys, Running, Dead, Taken, Alive
<1>14. OneEngine'
  BY <1>3 DEF OneEngine, Exists
<1>15. SlotsAgree'
  BY DEF SInv, SlotsAgree, Running, Process
<1> QED
  BY <1>2, <1>7, <1>8, <1>9, <1>10, <1>11, <1>12, <1>13, <1>14, <1>15

LEMMA MakeInv ==
  ASSUME SInv, NEW d \in Daemon, Make(d)
  PROVE  SInv'
<1>1. /\ engine' = engine /\ life' = life /\ lives' = lives
      /\ closed' = closed /\ wanted' = wanted /\ want' = want /\ record' = record
      /\ held' = held /\ reaper' = reaper /\ guard' = guard /\ run' = run
      /\ crossed' = crossed /\ events' = events /\ task[d].at = "make"
  BY DEF Make, daemons
<1>2. Up(d) /\ task[d].run \in Run
  BY <1>1 DEF SInv, Tasks
<1>3. legacy' \in {"busy", "idle", "gone"} /\ looked' \subseteq Daemon
  BY DEF Make, old, SInv, EngineTypeOK
<1>4. CASE claim' = claim /\ made' = made /\ task' = [task EXCEPT ![d] = Idle]
  <2>1. EngineTypeOK'
    BY <1>1, <1>3, <1>4, IdleProper DEF SInv, EngineTypeOK
  <2>2. Quiet /\ OneEngine'
    BY <1>1, <1>4, StillEngine
  <2>3. Apart(d, None)
    BY ApartFacts
  <2>4. Tasks' /\ Steady
    BY <1>1, <1>2, <1>4, <2>2, <2>3, IdleProper, SteadyMove DEF Quiet
  <2> QED
    BY <2>1, <2>2, <2>4, QuietInv
<1>5. CASE /\ claim = None /\ made < MaxEngines
           /\ claim' = [engine |-> made + 1, maker |-> Process(d)] /\ made' = made + 1
           /\ task' = [task EXCEPT ![d].at = "create", ![d].engine = made + 1]
  <2>1. PICK t : t = [task[d] EXCEPT !.at = "create", !.engine = made + 1]
    OBVIOUS
  <2>2. made + 1 \in Engines /\ made + 1 \in 0 .. MaxEngines
    BY <1>5, EngineAssumption DEF SInv, EngineTypeOK, Engines
  <2>3. /\ t \in TaskStates /\ task' = [task EXCEPT ![d] = t]
        /\ t.at = "create" /\ t.run = task[d].run /\ t.engine = made + 1
    BY <1>5, <2>1, <2>2 DEF SInv, EngineTypeOK, TaskStates
  <2>4. /\ claim' \in Claims /\ Incarnations' /\ Tasks' /\ Fresh' /\ Makers' /\ Owners'
        /\ Leased' /\ Surveys' /\ OneEngine' /\ SlotsAgree'
    BY <1>1, <1>2, <1>5, <2>3, NewClaim
  <2>5. EngineTypeOK'
    BY <1>1, <1>3, <1>5, <2>2, <2>3, <2>4 DEF SInv, EngineTypeOK
  <2> QED
    BY <2>4, <2>5 DEF SInv
<1> QED
  BY <1>4, <1>5 DEF Make, Unlock

LEMMA CancelLeaseInv ==
  ASSUME SInv, NEW d \in Daemon, CancelLease(d)
  PROVE  SInv'
<1>1. /\ engine' = engine /\ life' = life /\ lives' = lives
      /\ closed' = closed /\ wanted' = wanted /\ want' = want /\ record' = record
      /\ held' = held /\ reaper' = reaper
      /\ legacy' = legacy /\ looked' = looked /\ crossed' = crossed
      /\ task[d].run # None /\ task' = [task EXCEPT ![d] = Idle]
      /\ run' = [run EXCEPT ![task[d].run].at = "done"]
      /\ guard' = IF task[d].at \in Preparing
                  THEN [guard EXCEPT ![d] = @ \cup {task[d].engine}] ELSE guard
  BY DEF CancelLease, Unlock, Preparing, daemons, old
<1>2. events' \in 0 .. MaxEvents
  BY EngineAssumption DEF CancelLease, Event, SInv, EngineTypeOK
<1>3. Up(d) /\ task[d].run \in Run
  BY <1>1 DEF SInv, Tasks, EngineTypeOK, TaskStates, Idle
<1>4. /\ run' \in [Run -> RunStates]
      /\ \A q \in Run : /\ run'[q].engine = run[q].engine
                        /\ run'[q].at \in {"leased", "failing"} => run'[q] = run[q]
  BY <1>1, <1>3, RunDone DEF SInv
<1>5. CASE claim' = claim /\ made' = made
  <2>1. task[d].at \in Preparing => task[d].engine \in Engines /\ task[d].engine \in Known
    BY NothingAssumption DEF SInv, Tasks, Preparing, Fresh
  <2>2. /\ guard' \in [Daemon -> SUBSET Engines]
        /\ \A c \in Daemon : \A x \in guard'[c] \ guard[c] : x = task[d].engine /\ x \in Known
    BY <1>1, <2>1 DEF SInv, EngineTypeOK
  <2>3. EngineTypeOK'
    BY <1>1, <1>2, <1>4, <1>5, <2>2, IdleProper DEF SInv, EngineTypeOK
  <2>4. Quiet /\ OneEngine'
    BY <1>1, <1>5, StillEngine
  <2>5. Apart(d, None) /\ Apart(d, task[d].engine)
    BY ApartFacts
  <2>6. Tasks' /\ Steady
    BY <1>1, <1>3, <1>4, <1>5, <2>2, <2>4, <2>5, IdleProper, SteadyMove DEF Quiet
  <2> QED
    BY <2>3, <2>4, <2>6, QuietInv
<1>6. CASE /\ task[d].at = "make" /\ claim = None /\ made < MaxEngines
           /\ claim' = [engine |-> made + 1, maker |-> Process(d)] /\ made' = made + 1
  <2>1. guard' = guard
    BY <1>1, <1>6 DEF Preparing
  <2>2. made + 1 \in 0 .. MaxEngines
    BY <1>6, EngineAssumption DEF SInv, EngineTypeOK
  <2>3. /\ claim' \in Claims /\ Incarnations' /\ Tasks' /\ Fresh' /\ Makers' /\ Owners'
        /\ Leased' /\ Surveys' /\ OneEngine' /\ SlotsAgree'
    BY <1>1, <1>3, <1>4, <1>6, <2>1, NewClaim
  <2>4. EngineTypeOK'
    BY <1>1, <1>2, <1>4, <1>6, <2>1, <2>2, <2>3, IdleProper DEF SInv, EngineTypeOK
  <2> QED
    BY <2>3, <2>4 DEF SInv
<1> QED
  BY <1>5, <1>6 DEF CancelLease

LEMMA MarkReadyInv ==
  ASSUME SInv, NEW d \in Daemon, MarkReady(d)
  PROVE  SInv'
<1>1. /\ claim' = claim /\ made' = made /\ life' = life /\ lives' = lives
      /\ closed' = closed /\ wanted' = wanted /\ want' = want /\ record' = record
      /\ reaper' = reaper /\ guard' = guard /\ run' = run
      /\ legacy' = legacy /\ looked' = looked /\ crossed' = crossed /\ events' = events
      /\ task[d].at = "ready"
  BY DEF MarkReady, daemons, old
<1>0. /\ engine' = [engine EXCEPT ![task[d].engine].ready = TRUE]
      /\ held' = [held EXCEPT ![d] = [engine |-> task[d].engine, own |-> TRUE]]
      /\ task' = [task EXCEPT ![d].at = "slot"]
  BY DEF MarkReady, Go
<1>2. PICK e \in Engines : /\ e = task[d].engine /\ Up(d) /\ task[d].run \in Run /\ e \in Known
                           /\ claim = [engine |-> e, maker |-> Process(d)]
  BY <1>1, NothingAssumption DEF SInv, Tasks, Fresh, Makers
<1>3. PICK t \in TaskStates : /\ task' = [task EXCEPT ![d] = t] /\ t.at = "slot"
                              /\ t.run = task[d].run /\ t.engine = task[d].engine
  <2>1. PICK t : t = [task[d] EXCEPT !.at = "slot"]
    OBVIOUS
  <2>2. /\ t \in TaskStates /\ task' = [task EXCEPT ![d] = t]
        /\ t.at = "slot" /\ t.run = task[d].run /\ t.engine = task[d].engine
    BY <1>0, <2>1 DEF SInv, EngineTypeOK, TaskStates
  <2> QED
    BY <2>2
<1>4. Proper(t) /\ Apart(d, t.engine)
  BY <1>2, <1>3, ApartFacts DEF Proper, Preparing
<1>5. engine' \in [Engines -> Containers] /\ Quiet
  <2>1. engine \in [Engines -> Containers] /\ engine[e] \in Containers
    BY DEF SInv, EngineTypeOK
  <2>2. PICK c : c = [engine[e] EXCEPT !.ready = TRUE]
    OBVIOUS
  <2>3. /\ c \in Containers
        /\ c.up = engine[e].up /\ c.slots = engine[e].slots /\ c.retiring = engine[e].retiring
    BY <2>1, <2>2 DEF Containers
  <2>4. engine' = [engine EXCEPT ![e] = c]
    BY <1>0, <1>2, <2>2
  <2> QED
    BY <2>1, <2>3, <2>4 DEF Quiet, Upkept, Exists, Running
<1>6. PICK h \in Holdings : h = [engine |-> e, own |-> TRUE] /\ held' = [held EXCEPT ![d] = h]
  BY <1>0, <1>2 DEF Holdings
<1>7. h # None /\ Entitled(d, h)
  <2>1. claim # None
    BY <1>2, NothingAssumption DEF Claims, Processes, Process, Up, SInv, EngineTypeOK
  <2> QED
    BY <1>2, <1>6, <2>1, NothingAssumption DEF Entitled
<1>8. held'[d] = h /\ \A c \in Daemon \ {d} : held'[c] = held[c]
  BY <1>6 DEF SInv, EngineTypeOK
<1>9. EngineTypeOK'
  BY <1>1, <1>3, <1>5, <1>6 DEF SInv, EngineTypeOK
<1>10. OneEngine'
  BY <1>1, <1>5, QuietOne
<1>11. Tasks' /\ Steady
  BY <1>1, <1>2, <1>3, <1>4, <1>5, <1>7, <1>8, SteadyMove DEF Quiet
<1> QED
  BY <1>5, <1>9, <1>10, <1>11, QuietInv

LEMMA CreateInv ==
  ASSUME SInv, NEW d \in Daemon, Create(d)
  PROVE  SInv'
<1>1. /\ claim' = claim /\ made' = made /\ life' = life /\ lives' = lives
      /\ closed' = closed /\ wanted' = wanted /\ want' = want /\ held' = held
      /\ reaper' = reaper /\ guard' = guard /\ run' = run
      /\ legacy' = legacy /\ looked' = looked /\ crossed' = crossed /\ events' = events
      /\ task[d].at = "create" /\ task' = [task EXCEPT ![d].at = "ready"]
  BY DEF Create, Go, daemons, old
<1>2. PICK e \in Engines : /\ e = task[d].engine /\ Up(d) /\ task[d].run \in Run
                           /\ claim = [engine |-> e, maker |-> Process(d)]
                           /\ \A c \in Daemon : e \notin guard[c]
                           /\ \A c \in Daemon \ {d} : task[c].engine # e
                           /\ ~Exists(e) /\ \A r \in Run : run[r].engine # e
  BY <1>1 DEF SInv, Tasks, Makers
<1>3. PICK t \in TaskStates : /\ task' = [task EXCEPT ![d] = t] /\ t.at = "ready"
                              /\ t.run = task[d].run /\ t.engine = task[d].engine
  <2>1. PICK t : t = [task[d] EXCEPT !.at = "ready"]
    OBVIOUS
  <2>2. /\ t \in TaskStates /\ task' = [task EXCEPT ![d] = t]
        /\ t.at = "ready" /\ t.run = task[d].run /\ t.engine = task[d].engine
    BY <1>1, <2>1 DEF SInv, EngineTypeOK, TaskStates
  <2> QED
    BY <2>2
<1>4. task'[d] = t /\ \A c \in Daemon \ {d} : task'[c] = task[c]
  BY <1>3 DEF SInv, EngineTypeOK
<1>5. PICK n \in Containers : /\ engine' = [engine EXCEPT ![e] = n]
                              /\ n.up = "running" /\ \A s \in Slot : n.slots[s] = None
  <2>1. PICK n : n = [Absent EXCEPT !.up = "running", !.registry = d, !.kind = want[d]]
    OBVIOUS
  <2>2. /\ n \in Containers /\ n.up = "running" /\ n.slots = Absent.slots
        /\ \A s \in Slot : Absent.slots[s] = None
    BY <2>1 DEF Absent, Containers, SInv, EngineTypeOK
  <2> QED
    BY <1>2, <2>1, <2>2 DEF Create
<1>6. engine'[e] = n /\ \A f \in Engines \ {e} : engine'[f] = engine[f]
  BY <1>5 DEF SInv, EngineTypeOK
<1>7. EngineTypeOK'
  <2>1. record' \in [Daemon -> SUBSET Engines]
    BY <1>2 DEF Create, SInv, EngineTypeOK
  <2> QED
    BY <1>1, <1>3, <1>5, <2>1 DEF SInv, EngineTypeOK
<1>8. Incarnations'
  BY <1>1, <1>5, <1>6 DEF SInv, Incarnations, Past
<1>9. \A c \in Daemon \ {d} : task[c].at \notin Preparing
  BY <1>2 DEF SInv, Makers, Preparing
<1>10. Tasks'
  BY <1>1, <1>2, <1>3, <1>4, <1>6 DEF SInv, Tasks, Up, Exists
<1>11. Fresh'
  <2>1. e \in Known
    BY <1>2, NothingAssumption DEF SInv, Fresh
  <2> QED
    BY <1>1, <1>3, <1>4, <2>1 DEF SInv, Fresh, Known
<1>12. Makers'
  <2>1. \A c \in Daemon : task'[c].at \in Preparing => c = d
    BY <1>4, <1>9
  <2> QED
    BY <1>1, <1>2, <1>3, <1>4, <2>1 DEF Makers, Preparing, Process
<1>13. Owners'
  BY <1>1 DEF SInv, Owners, Process, Alive
<1>14. Leased'
  BY <1>1, <1>2, <1>6 DEF SInv, Leased, Up, Running
<1>15. Surveys'
  <2>1. \A c \in Daemon : reaper[c].at = "reclaim" => reaper[c].engine # e /\ reaper[c].engine \in Engines
    <3>1. Alive(claim.maker) /\ claim # None /\ claim.engine = e
      BY <1>2, NothingAssumption DEF Alive, Claims, Processes, Process, Up, SInv, EngineTypeOK
    <3> QED
      BY <3>1 DEF SInv, Owners, Tasks
  <2> QED
    BY <1>1, <1>6, <2>1 DEF SInv, Surveys, Running, Dead, Taken, Alive
<1>16. OneEngine'
  BY <1>1, <1>2, <1>6, NothingAssumption DEF SInv, OneEngine, Exists, Claims, Processes, Process, Up, EngineTypeOK
<1>17. SlotsAgree'
  BY <1>1, <1>2, <1>6 DEF SInv, SlotsAgree, Leased, Running, Process
<1> QED
  BY <1>7, <1>8, <1>10, <1>11, <1>12, <1>13, <1>14, <1>15, <1>16, <1>17 DEF SInv

-----------------------------------------------------------------------------
\* The slots of an engine: who leaves them and who reclaims them.

\* A leased run is in its slot, and alive.
LEMMA LeasedLive ==
  ASSUME SInv, NEW r \in Run, run[r].at = "leased", Running(run[r].engine),
         run[r].engine \notin crossed
  PROVE  /\ run[r].engine \in Engines /\ run[r].slot \in Slot
         /\ engine[run[r].engine].slots[run[r].slot].run = r
         /\ run[r].slot \in Live(run[r].engine) /\ run[r].slot \notin Dead(run[r].engine)
         /\ ~engine[run[r].engine].retiring
<1>1. /\ run[r].engine \in Engines /\ run[r].slot \in Slot /\ Up(run[r].daemon)
      /\ run[r].daemon \in Daemon
  BY DEF SInv, Leased
<1>2. /\ engine[run[r].engine].slots[run[r].slot] =
           [run |-> r, process |-> Process(run[r].daemon)]
      /\ ~engine[run[r].engine].retiring
  BY DEF SInv, SlotsAgree
<1>3. [run |-> r, process |-> Process(run[r].daemon)] \in Leases
  BY <1>1 DEF Leases, Processes, Process, Up, SInv, EngineTypeOK
<1>4. run[r].slot \in Taken(run[r].engine)
  BY <1>1, <1>2, <1>3, NothingAssumption DEF Taken
<1>5. Alive(engine[run[r].engine].slots[run[r].slot].process)
  BY <1>2 DEF Alive, Process
<1> QED
  BY <1>1, <1>2, <1>4, <1>5 DEF Live, Dead

\* Slots may be emptied, but no leased run's and none that a reaper still means
\* to reclaim.
LEMMA SlotsKept ==
  ASSUME SInv, Steady, EngineTypeOK', Tasks', OneEngine',
         \A e \in Engines, s \in Slot : engine'[e].slots[s] \in {None, engine[e].slots[s]},
         \A r \in Run :
           run'[r].at = "leased" /\ Running(run[r].engine) /\ run[r].engine \notin crossed =>
           /\ engine'[run[r].engine].slots[run[r].slot] = engine[run[r].engine].slots[run[r].slot]
           /\ ~engine'[run[r].engine].retiring,
         \A c \in Daemon :
           reaper'[c].at = "reclaim" /\ Running(reaper[c].engine) /\ reaper[c].engine \notin crossed =>
           \A s \in reaper[c].dead :
             engine'[reaper[c].engine].slots[s] = engine[reaper[c].engine].slots[s]
  PROVE  SInv'
<1>1. Incarnations' /\ Fresh' /\ Makers' /\ Owners' /\ Leased'
  BY SteadyIncarnations, SteadyFresh, SteadyMakers, SteadyOwners, SteadyLeased
<1>2. SlotsAgree'
  <2> SUFFICES ASSUME NEW r \in Run, run'[r].at = "leased",
                      engine'[run'[r].engine].up = "running", run'[r].engine \notin crossed'
               PROVE  /\ engine'[run'[r].engine].slots[run'[r].slot] =
                           [run |-> r, process |-> Process(run[r].daemon)']
                      /\ ~engine'[run'[r].engine].retiring
    BY DEF SlotsAgree, Running
  <2>1. run'[r] = run[r] /\ life' = life /\ crossed' = crossed
    BY DEF Steady
  <2>2. run[r].engine \in Engines
    BY <2>1 DEF SInv, Leased
  <2>3. Running(run[r].engine)
    BY <2>1, <2>2 DEF Steady, Upkept
  <2>4. engine[run[r].engine].slots[run[r].slot] =
          [run |-> r, process |-> Process(run[r].daemon)]
    BY <2>1, <2>3 DEF SInv, SlotsAgree
  <2> QED
    BY <2>1, <2>3, <2>4 DEF Process
<1>3. Surveys'
  <2> SUFFICES ASSUME NEW d \in Daemon, reaper'[d].at = "reclaim", reaper'[d].engine \notin crossed'
               PROVE  /\ (Running(reaper[d].engine) => reaper[d].dead \subseteq Dead(reaper[d].engine))'
                      /\ \A c \in Daemon \ {d} : reaper'[c].at = "reclaim" =>
                           reaper'[c].engine # reaper'[d].engine
    BY DEF Surveys
  <2>1. reaper'[d] = reaper[d] /\ crossed' = crossed /\ life' = life
    BY DEF Steady
  <2>2. /\ Running(reaper[d].engine) => reaper[d].dead \subseteq Dead(reaper[d].engine)
        /\ \A c \in Daemon \ {d} : reaper[c].at = "reclaim" => reaper[c].engine # reaper[d].engine
        /\ reaper[d].engine \in Engines
    BY <2>1 DEF SInv, Surveys, Tasks
  <2>3. \A c \in Daemon \ {d} : reaper'[c].at = "reclaim" => reaper'[c].engine # reaper'[d].engine
    BY <2>1, <2>2 DEF Steady
  <2>4. ASSUME engine'[reaper[d].engine].up = "running", NEW s \in reaper[d].dead
        PROVE  s \in Dead(reaper[d].engine)
               /\ engine'[reaper[d].engine].slots[s] = engine[reaper[d].engine].slots[s]
    <3>1. Running(reaper[d].engine)
      BY <2>2, <2>4 DEF Steady, Upkept
    <3> QED
      BY <2>1, <2>2, <3>1
  <2>5. (Running(reaper[d].engine) => reaper[d].dead \subseteq Dead(reaper[d].engine))'
    BY <2>1, <2>4 DEF Running, Dead, Taken, Alive
  <2> QED
    BY <2>3, <2>5
<1> QED
  BY <1>1, <1>2, <1>3 DEF SInv

LEMMA EndRunInv ==
  ASSUME SInv, NEW r \in Run, EndRun(r)
  PROVE  SInv'
<1>1. /\ claim' = claim /\ made' = made /\ life' = life /\ lives' = lives
      /\ closed' = closed /\ wanted' = wanted /\ want' = want /\ record' = record
      /\ held' = held /\ task' = task /\ reaper' = reaper /\ guard' = guard
      /\ legacy' = legacy /\ looked' = looked /\ crossed' = crossed /\ events' = events
      /\ run' = [run EXCEPT ![r].at = "done"] /\ run[r].at \in {"leased", "failing"}
  BY DEF EndRun, daemons, old
<1>2. PICK e \in Engines : e = run[r].engine /\ run[r].slot \in Slot
  BY <1>1 DEF SInv, Leased
<1>3. /\ run' \in [Run -> RunStates] /\ run'[r].at = "done"
      /\ \A q \in Run : /\ run'[q].engine = run[q].engine
                        /\ run'[q].at \in {"leased", "failing"} => run'[q] = run[q]
  BY <1>1, RunDone DEF SInv
<1>4. CASE ~Running(e)
  <2>1. engine' = engine
    BY <1>2, <1>4 DEF EndRun
  <2>2. Quiet /\ OneEngine'
    BY <1>1, <2>1, StillEngine
  <2>3. EngineTypeOK'
    BY <1>1, <1>3, <2>1 DEF SInv, EngineTypeOK
  <2>4. Tasks' /\ Steady
    BY <1>1, <1>3, <2>2, SteadyStill DEF Quiet
  <2> QED
    BY <2>2, <2>3, <2>4, QuietInv
<1>5. CASE Running(e)
  <2>1. engine' = Freed(e, {run[r].slot}) /\ run[r].at = "leased"
    BY <1>1, <1>2, <1>5 DEF EndRun, SInv, Leased
  <2>2. /\ engine' \in [Engines -> Containers]
        /\ \A f \in Engines : engine'[f].up = engine[f].up /\ engine'[f].retiring = engine[f].retiring
        /\ \A f \in Engines, s \in Slot : engine'[f].slots[s] =
             IF f = e /\ s = run[r].slot THEN None ELSE engine[f].slots[s]
    BY <2>1, FreedFacts DEF SInv
  <2>3. Upkept /\ OneEngine'
    BY <1>1, <2>2 DEF Upkept, OneEngine, Exists, Running, SInv
  <2>4. EngineTypeOK'
    BY <1>1, <1>3, <2>2 DEF SInv, EngineTypeOK
  <2>5. Tasks' /\ Steady
    BY <1>1, <1>3, <2>3, SteadyStill
  <2>6. ASSUME NEW q \in Run, run'[q].at = "leased", Running(run[q].engine), run[q].engine \notin crossed
        PROVE  /\ engine'[run[q].engine].slots[run[q].slot] = engine[run[q].engine].slots[run[q].slot]
               /\ ~engine'[run[q].engine].retiring
    <3>1. q # r /\ run[q].at = "leased"
      BY <1>3, <2>6
    <3>2. /\ run[q].engine \in Engines /\ run[q].slot \in Slot
          /\ engine[run[q].engine].slots[run[q].slot].run = q /\ ~engine[run[q].engine].retiring
      BY <2>6, <3>1, LeasedLive
    <3>3. run[q].engine = e => engine[e].slots[run[r].slot].run = r
      BY <1>2, <1>5, <2>1, <2>6, LeasedLive
    <3> QED
      BY <2>2, <3>1, <3>2, <3>3
  <2>7. ASSUME NEW c \in Daemon, reaper'[c].at = "reclaim", Running(reaper[c].engine),
               reaper[c].engine \notin crossed, NEW s \in reaper[c].dead
        PROVE  engine'[reaper[c].engine].slots[s] = engine[reaper[c].engine].slots[s]
    <3>1. s \in Dead(reaper[c].engine) /\ reaper[c].engine \in Engines
      BY <1>1, <2>7 DEF SInv, Surveys, Tasks
    <3>2. reaper[c].engine = e => run[r].slot \notin Dead(e)
      BY <1>2, <1>5, <2>1, <2>7, LeasedLive
    <3> QED
      BY <2>2, <3>1, <3>2 DEF Dead, Taken
  <2> QED
    BY <2>2, <2>3, <2>4, <2>5, <2>6, <2>7, SlotsKept
<1> QED
  BY <1>4, <1>5

LEMMA ReclaimAbandonedInv ==
  ASSUME SInv, NEW d \in Daemon, ReclaimAbandoned(d)
  PROVE  SInv'
<1>1. /\ claim' = claim /\ made' = made /\ life' = life /\ lives' = lives
      /\ closed' = closed /\ wanted' = wanted /\ want' = want /\ record' = record
      /\ held' = held /\ task' = task /\ guard' = guard /\ run' = run
      /\ legacy' = legacy /\ looked' = looked /\ crossed' = crossed /\ events' = events
      /\ reaper[d].at = "reclaim"
  BY DEF ReclaimAbandoned, daemons, old
<1>2. PICK e \in Engines : e = reaper[d].engine
  BY <1>1 DEF SInv, Tasks
<1>3. reaper \in [Daemon -> ReaperStates] /\ reaper[d] \in ReaperStates
  BY DEF SInv, EngineTypeOK
<1>4. PICK t : t = [reaper[d] EXCEPT !.at = "begin"] /\ reaper' = [reaper EXCEPT ![d] = t]
  BY DEF ReclaimAbandoned
<1>5. t \in ReaperStates /\ t.at = "begin" /\ t.engine = e
  BY <1>2, <1>3, <1>4 DEF ReaperStates
<1>6. \A c \in Daemon :
        /\ reaper'[c].at # "idle" => reaper[c].at # "idle" /\ reaper'[c].engine = reaper[c].engine
        /\ reaper'[c].at = "reclaim" => reaper'[c] = reaper[c] /\ c # d
        /\ reaper'[c].engine \in {reaper[c].engine, None}
  BY <1>1, <1>2, <1>3, <1>4, <1>5
<1>7. CASE ~Running(e)
  <2>1. engine' = engine
    BY <1>2, <1>7 DEF ReclaimAbandoned
  <2>2. Quiet /\ OneEngine'
    BY <1>1, <2>1, StillEngine
  <2>3. EngineTypeOK'
    BY <1>1, <1>3, <1>4, <1>5, <2>1 DEF SInv, EngineTypeOK
  <2>4. Tasks' /\ Steady
    BY <1>1, <1>6, <2>2, SteadyStill DEF Quiet
  <2> QED
    BY <2>2, <2>3, <2>4, QuietInv
<1>8. CASE Running(e)
  <2>1. engine' = Freed(e, reaper[d].dead)
    BY <1>2, <1>8 DEF ReclaimAbandoned
  <2>2. /\ engine' \in [Engines -> Containers]
        /\ \A f \in Engines : engine'[f].up = engine[f].up /\ engine'[f].retiring = engine[f].retiring
        /\ \A f \in Engines, s \in Slot : engine'[f].slots[s] =
             IF f = e /\ s \in reaper[d].dead THEN None ELSE engine[f].slots[s]
    BY <2>1, FreedFacts DEF SInv
  <2>3. Upkept /\ OneEngine'
    BY <1>1, <2>2 DEF Upkept, OneEngine, Exists, Running, SInv
  <2>4. EngineTypeOK'
    BY <1>1, <1>3, <1>4, <1>5, <2>2 DEF SInv, EngineTypeOK
  <2>5. Tasks' /\ Steady
    BY <1>1, <1>6, <2>3, SteadyStill
  <2>6. e \notin crossed => /\ reaper[d].dead \subseteq Dead(e)
                            /\ \A c \in Daemon \ {d} : reaper[c].at = "reclaim" => reaper[c].engine # e
    BY <1>1, <1>2, <1>8 DEF SInv, Surveys
  <2>7. ASSUME NEW q \in Run, run'[q].at = "leased", Running(run[q].engine), run[q].engine \notin crossed
        PROVE  /\ engine'[run[q].engine].slots[run[q].slot] = engine[run[q].engine].slots[run[q].slot]
               /\ ~engine'[run[q].engine].retiring
    <3>1. /\ run[q].engine \in Engines /\ run[q].slot \in Slot /\ ~engine[run[q].engine].retiring
          /\ run[q].slot \notin Dead(run[q].engine)
      BY <1>1, <2>7, LeasedLive
    <3> QED
      BY <2>2, <2>6, <2>7, <3>1
  <2>8. ASSUME NEW c \in Daemon, reaper'[c].at = "reclaim", Running(reaper[c].engine),
               reaper[c].engine \notin crossed, NEW s \in reaper[c].dead
        PROVE  engine'[reaper[c].engine].slots[s] = engine[reaper[c].engine].slots[s]
    <3>1. c # d /\ reaper[c].at = "reclaim" /\ reaper[c].engine \in Engines /\ s \in Slot
      BY <1>3, <1>6, <2>8 DEF SInv, Tasks, ReaperStates
    <3>2. reaper[c].engine # e
      BY <2>6, <2>8, <3>1
    <3> QED
      BY <2>2, <3>1, <3>2
  <2> QED
    BY <2>2, <2>3, <2>4, <2>5, <2>7, <2>8, SlotsKept
<1> QED
  BY <1>7, <1>8

LEMMA RetireIdleInv ==
  ASSUME SInv, NEW d \in Daemon, RetireIdle(d)
  PROVE  SInv'
<1>1. /\ claim' = claim /\ made' = made /\ life' = life /\ lives' = lives
      /\ closed' = closed /\ wanted' = wanted /\ want' = want /\ record' = record
      /\ reaper' = reaper /\ guard' = guard /\ run' = run
      /\ legacy' = legacy /\ looked' = looked /\ crossed' = crossed /\ events' = events
      /\ Up(d) /\ held[d] # None /\ task[d].at = "idle"
  BY DEF RetireIdle, Free, daemons, old
<1>2. PICK e \in Engines : e = held[d].engine /\ e \in Known
  BY <1>1 DEF SInv, EngineTypeOK, Holdings, Fresh
<1>3. PICK t : t = [at |-> "retire", run |-> None, engine |-> e]
  OBVIOUS
<1>4. /\ t \in TaskStates /\ Proper(t) /\ t.at = "retire" /\ t.engine = e
      /\ held[d].own => Apart(d, e)
  BY <1>1, <1>2, <1>3, ApartFacts DEF Proper, TaskStates, Preparing
<1>5. held \in [Daemon -> {None} \cup Holdings] /\ task \in [Daemon -> TaskStates]
  BY DEF SInv, EngineTypeOK
<1>6. CASE /\ ~Running(e) /\ held' = [held EXCEPT ![d] = None] /\ engine' = engine
           /\ task' = IF held[d].own THEN [task EXCEPT ![d] = t] ELSE task
  <2>1. Quiet /\ OneEngine'
    BY <1>1, <1>6, StillEngine
  <2>2. EngineTypeOK'
    BY <1>1, <1>4, <1>6 DEF SInv, EngineTypeOK
  <2>3. held'[d] = None /\ \A c \in Daemon \ {d} : held'[c] = held[c]
    BY <1>5, <1>6
  <2>4. PICK u : /\ task' = [task EXCEPT ![d] = u] /\ Proper(u) /\ Apart(d, u.engine)
                 /\ u.at \in {"idle", "retire"}
    <3>1. task[d] = Idle
      BY <1>1 DEF SInv, Tasks
    <3>2. ~held[d].own => task' = [task EXCEPT ![d] = Idle]
      BY <1>5, <1>6, <3>1
    <3> QED
      BY <1>4, <1>6, <3>2, IdleProper, ApartFacts
  <2>5. Tasks' /\ Steady
    BY <1>1, <2>1, <2>3, <2>4, SteadyMove DEF Quiet
  <2> QED
    BY <2>1, <2>2, <2>5, QuietInv
<1>7. ASSUME Running(e), held[d].own, NEW c \in Daemon, reaper[c].at # "idle"
      PROVE  reaper[c].engine # e
  <2>1. claim # None /\ claim.engine = e
    BY <1>7 DEF SInv, OneEngine, Exists, Running
  <2>2. claim.maker = Process(d)
    BY <1>1, <1>2, <1>7, <2>1 DEF SInv, Owners
  <2> QED
    BY <1>7, <2>1, <2>2 DEF SInv, Owners, Alive, Process
<1>8. CASE /\ Running(e) /\ held[d].own /\ engine' = Freed(e, Dead(e))
           /\ held' = held /\ task' = task
  <2>1. /\ engine' \in [Engines -> Containers]
        /\ \A f \in Engines : engine'[f].up = engine[f].up /\ engine'[f].retiring = engine[f].retiring
        /\ \A f \in Engines, s \in Slot : engine'[f].slots[s] =
             IF f = e /\ s \in Dead(e) THEN None ELSE engine[f].slots[s]
    BY <1>8, FreedFacts DEF SInv
  <2>2. Upkept /\ OneEngine'
    BY <1>1, <2>1 DEF Upkept, OneEngine, Exists, Running, SInv
  <2>3. EngineTypeOK'
    BY <1>1, <1>8, <2>1 DEF SInv, EngineTypeOK
  <2>4. Tasks' /\ Steady
    BY <1>1, <1>8, <2>2, SteadyStill
  <2>5. ASSUME NEW q \in Run, run'[q].at = "leased", Running(run[q].engine), run[q].engine \notin crossed
        PROVE  /\ engine'[run[q].engine].slots[run[q].slot] = engine[run[q].engine].slots[run[q].slot]
               /\ ~engine'[run[q].engine].retiring
    <3>1. /\ run[q].engine \in Engines /\ run[q].slot \in Slot /\ ~engine[run[q].engine].retiring
          /\ run[q].slot \notin Dead(run[q].engine)
      BY <1>1, <2>5, LeasedLive
    <3> QED
      BY <2>1, <3>1
  <2>6. ASSUME NEW c \in Daemon, reaper'[c].at = "reclaim", Running(reaper[c].engine),
               reaper[c].engine \notin crossed, NEW s \in reaper[c].dead
        PROVE  engine'[reaper[c].engine].slots[s] = engine[reaper[c].engine].slots[s]
    <3>1. reaper[c].engine \in Engines /\ reaper[c].engine # e /\ s \in Slot
      BY <1>1, <1>7, <1>8, <2>6 DEF SInv, Tasks, EngineTypeOK, ReaperStates
    <3> QED
      BY <2>1, <3>1
  <2> QED
    BY <2>1, <2>2, <2>3, <2>4, <2>5, <2>6, SlotsKept
<1>9. CASE /\ Running(e) /\ held[d].own /\ Live(e) = {}
           /\ engine' = [Freed(e, Dead(e)) EXCEPT ![e].retiring = TRUE]
           /\ held' = [held EXCEPT ![d] = None] /\ task' = [task EXCEPT ![d] = t]
  <2>1. PICK F : F = Freed(e, Dead(e)) /\ engine' = [F EXCEPT ![e].retiring = TRUE]
    BY <1>9
  <2>2. /\ F \in [Engines -> Containers]
        /\ \A f \in Engines : F[f].up = engine[f].up /\ F[f].retiring = engine[f].retiring
        /\ \A f \in Engines, s \in Slot : F[f].slots[s] =
             IF f = e /\ s \in Dead(e) THEN None ELSE engine[f].slots[s]
    BY <2>1, FreedFacts DEF SInv
  <2>3. PICK c : c = [F[e] EXCEPT !.retiring = TRUE] /\ engine' = [F EXCEPT ![e] = c]
    BY <2>1
  <2>4. c \in Containers /\ c.up = F[e].up /\ c.slots = F[e].slots
    BY <2>2, <2>3 DEF Containers
  <2>5. /\ engine' \in [Engines -> Containers]
        /\ \A f \in Engines : engine'[f].up = engine[f].up /\ engine'[f].slots = F[f].slots
        /\ \A f \in Engines \ {e} : engine'[f] = F[f]
    BY <2>2, <2>3, <2>4
  <2>6. Upkept /\ OneEngine'
    BY <1>1, <2>5 DEF Upkept, OneEngine, Exists, Running, SInv
  <2>7. EngineTypeOK'
    BY <1>1, <1>4, <1>9, <2>5 DEF SInv, EngineTypeOK
  <2>8. held'[d] = None /\ \A b \in Daemon \ {d} : held'[b] = held[b]
    BY <1>5, <1>9
  <2>9. Tasks' /\ Steady
    BY <1>1, <1>4, <1>9, <2>6, <2>8, SteadyMove
  <2>10. ASSUME NEW q \in Run, run'[q].at = "leased", Running(run[q].engine), run[q].engine \notin crossed
         PROVE  /\ engine'[run[q].engine].slots[run[q].slot] = engine[run[q].engine].slots[run[q].slot]
                /\ ~engine'[run[q].engine].retiring
    <3>1. /\ run[q].engine \in Engines /\ run[q].slot \in Slot /\ ~engine[run[q].engine].retiring
          /\ run[q].slot \in Live(run[q].engine)
      BY <1>1, <2>10, LeasedLive
    <3>2. run[q].engine # e
      BY <1>9, <3>1
    <3> QED
      BY <2>2, <2>5, <3>1, <3>2
  <2>11. ASSUME NEW b \in Daemon, reaper'[b].at = "reclaim", Running(reaper[b].engine),
                reaper[b].engine \notin crossed, NEW s \in reaper[b].dead
         PROVE  engine'[reaper[b].engine].slots[s] = engine[reaper[b].engine].slots[s]
    <3>1. reaper[b].engine \in Engines /\ reaper[b].engine # e /\ s \in Slot
      BY <1>1, <1>7, <1>9, <2>11 DEF SInv, Tasks, EngineTypeOK, ReaperStates
    <3> QED
      BY <2>2, <2>5, <3>1
  <2>12. \A f \in Engines, s \in Slot : engine'[f].slots[s] \in {None, engine[f].slots[s]}
    BY <2>2, <2>5
  <2> QED
    BY <2>6, <2>7, <2>9, <2>10, <2>11, <2>12, SlotsKept
<1> QED
  BY <1>2, <1>3, <1>6, <1>8, <1>9 DEF RetireIdle

LEMMA TakeSlotInv ==
  ASSUME SInv, NEW d \in Daemon, TakeSlot(d)
  PROVE  SInv'
<1>1. /\ claim' = claim /\ made' = made /\ life' = life /\ lives' = lives
      /\ closed' = closed /\ wanted' = wanted /\ want' = want /\ record' = record
      /\ reaper' = reaper /\ guard' = guard
      /\ legacy' = legacy /\ looked' = looked /\ crossed' = crossed
      /\ task[d].at = "slot" /\ task' = [task EXCEPT ![d] = Idle]
  BY DEF TakeSlot, Unlock, daemons, old
<1>2. PICK e \in Engines, r \in Run :
        e = held[d].engine /\ r = task[d].run /\ e \in Known /\ Up(d) /\ held[d] # None
  BY <1>1 DEF SInv, Tasks, EngineTypeOK, Holdings, Fresh
<1>3. events' \in 0 .. MaxEvents
  <2>1. events' = events \/ (events < MaxEvents /\ events' = events + 1)
    BY DEF TakeSlot, Event
  <2> QED
    BY <2>1, EngineAssumption DEF SInv, EngineTypeOK
<1>4. Apart(d, None)
  BY ApartFacts
<1>5. CASE /\ engine' = engine /\ (held' = held \/ held' = [held EXCEPT ![d] = None])
           /\ run' = run \/ run' = [run EXCEPT ![r].at = "done"]
  <2>1. Quiet /\ OneEngine'
    BY <1>1, <1>5, StillEngine
  <2>2. /\ run' \in [Run -> RunStates]
        /\ \A q \in Run : /\ run'[q].engine = run[q].engine
                          /\ run'[q].at \in {"leased", "failing"} => run'[q] = run[q]
    <3>1. CASE run' = run
      BY <3>1 DEF SInv, EngineTypeOK
    <3>2. CASE run' = [run EXCEPT ![r].at = "done"]
      BY <3>2, RunDone DEF SInv
    <3> QED
      BY <1>5, <3>1, <3>2
  <2>3. held'[d] \in {held[d], None} /\ \A c \in Daemon \ {d} : held'[c] = held[c]
    BY <1>5 DEF SInv, EngineTypeOK
  <2>4. EngineTypeOK'
    BY <1>1, <1>3, <1>5, <2>2, IdleProper DEF SInv, EngineTypeOK
  <2>5. Tasks' /\ Steady
    BY <1>1, <1>2, <1>4, <2>1, <2>2, <2>3, IdleProper, SteadyMove DEF Quiet
  <2> QED
    BY <2>1, <2>4, <2>5, QuietInv
<1>6. ASSUME NEW s \in Slot, Running(e), ~engine[e].retiring, s \notin Taken(e), held' = held,
             engine' = [engine EXCEPT ![e].slots[s] = [run |-> r, process |-> Process(d)]],
             \/ run' = [run EXCEPT ![r] = [at |-> "leased", daemon |-> d, engine |-> e, slot |-> s]]
             \/ run' = [run EXCEPT ![r].at = "done"]
      PROVE  SInv'
  <2>1. PICK l \in Leases : l = [run |-> r, process |-> Process(d)]
    BY <1>2 DEF Leases, Processes, Process, Up, SInv, EngineTypeOK
  <2>2. engine \in [Engines -> Containers] /\ engine[e] \in Containers
    BY DEF SInv, EngineTypeOK
  <2>3. PICK c : c = [engine[e] EXCEPT !.slots[s] = l] /\ engine' = [engine EXCEPT ![e] = c]
    BY <1>6, <2>1, <2>2
  <2>4. /\ c \in Containers /\ c.up = engine[e].up /\ c.retiring = engine[e].retiring
        /\ c.slots[s] = l /\ \A u \in Slot \ {s} : c.slots[u] = engine[e].slots[u]
    BY <2>2, <2>3 DEF Containers
  <2>5. /\ engine' \in [Engines -> Containers] /\ engine'[e].slots[s] = l
        /\ \A f \in Engines : engine'[f].up = engine[f].up /\ engine'[f].retiring = engine[f].retiring
        /\ \A f \in Engines, u \in Slot : f # e \/ u # s => engine'[f].slots[u] = engine[f].slots[u]
    BY <2>2, <2>3, <2>4
  <2>6. /\ run' \in [Run -> RunStates]
        /\ \A q \in Run \ {r} : run'[q] = run[q]
        /\ \/ run'[r] = [at |-> "leased", daemon |-> d, engine |-> e, slot |-> s]
           \/ run'[r].at = "done" /\ run'[r].engine = run[r].engine
    <3>1. CASE run' = [run EXCEPT ![r].at = "done"]
      BY <3>1, RunDone DEF SInv
    <3>2. CASE run' = [run EXCEPT ![r] = [at |-> "leased", daemon |-> d, engine |-> e, slot |-> s]]
      BY <3>2 DEF SInv, EngineTypeOK, RunStates
    <3> QED
      BY <1>6, <3>1, <3>2
  <2>7. task'[d] = Idle /\ \A b \in Daemon \ {d} : task'[b] = task[b]
    BY <1>1 DEF SInv, EngineTypeOK
  <2>8. EngineTypeOK'
    BY <1>1, <1>3, <1>6, <2>5, <2>6, IdleProper DEF SInv, EngineTypeOK
  <2>9. Incarnations'
    <3>1. Past(l.process)
      BY <2>1 DEF SInv, Incarnations, Past, Process, EngineTypeOK
    <3> QED
      BY <1>1, <2>5, <3>1 DEF SInv, Incarnations, Past
  <2>10. Tasks'
    BY <1>1, <1>2, <1>6, <2>5, <2>7, IdleProper DEF SInv, Tasks, Up, Exists
  <2>11. Fresh'
    BY <1>1, <1>2, <1>6, <2>6, <2>7, IdleProper DEF SInv, Fresh, Known
  <2>12. Makers'
    <3>1. \A b \in Daemon : task'[b].at \in Preparing => b # d /\ task'[b] = task[b]
      BY <2>7, IdleProper DEF Preparing
    <3>2. ASSUME NEW b \in Daemon, task[b].at = "create"
          PROVE  \A q \in Run : run'[q].engine # task[b].engine
      <4>1. ~Exists(task[b].engine) /\ \A q \in Run : run[q].engine # task[b].engine
        BY <3>2 DEF SInv, Makers
      <4>2. e # task[b].engine
        BY <1>6, <4>1 DEF Exists, Running
      <4> QED
        BY <2>6, <4>1, <4>2
    <3>3. ASSUME NEW b \in Daemon, task[b].at \in Preparing, b # d
          PROVE  /\ \A a \in Daemon \ {b} : task'[a].engine # task[b].engine
                 /\ engine'[task[b].engine].up = engine[task[b].engine].up
      <4>1. task[b].engine \in Engines /\ \A a \in Daemon \ {b} : task[a].engine # task[b].engine
        BY <3>3 DEF SInv, Makers, Tasks, Preparing
      <4> QED
        BY <2>5, <2>7, <4>1, IdleProper, NothingAssumption
    <3> QED
      BY <1>1, <3>1, <3>2, <3>3 DEF SInv, Makers, Preparing, Process, Exists
  <2>13. Owners'
    BY <1>1, <1>6 DEF SInv, Owners, Process, Alive
  <2>14. Leased'
    <3>1. ASSUME NEW q \in Run, run'[q].at \in {"leased", "failing"}
          PROVE  /\ run'[q].daemon \in Daemon /\ life'[run'[q].daemon] # 0
                 /\ run'[q].engine \in Engines /\ run'[q].slot \in Slot
                 /\ run'[q].at = "failing" => engine'[run'[q].engine].up # "running"
      <4>1. CASE q = r
        BY <1>1, <1>2, <2>6, <3>1, <4>1 DEF Up
      <4>2. CASE q # r
        BY <1>1, <2>5, <2>6, <3>1, <4>2 DEF SInv, Leased, Up, Running
      <4> QED
        BY <4>1, <4>2
    <3> QED
      BY <3>1 DEF Leased, Up, Running
  <2>15. Surveys'
    <3>1. ASSUME NEW b \in Daemon, reaper[b].at = "reclaim", reaper[b].engine \notin crossed,
                 Running(reaper[b].engine), NEW u \in reaper[b].dead
          PROVE  /\ u \in Dead(reaper[b].engine)
                 /\ engine'[reaper[b].engine].slots[u] = engine[reaper[b].engine].slots[u]
      <4>1. u \in Dead(reaper[b].engine) /\ reaper[b].engine \in Engines
        BY <3>1 DEF SInv, Surveys, Tasks
      <4>2. u \in Taken(reaper[b].engine) /\ u \in Slot
        BY <4>1 DEF Dead, Taken
      <4> QED
        BY <1>6, <2>5, <4>1, <4>2
    <3>2. \A b \in Daemon : reaper[b].at = "reclaim" => reaper[b].engine \in Engines
      BY DEF SInv, Tasks
    <3> QED
      BY <1>1, <2>5, <3>1, <3>2 DEF SInv, Surveys, Running, Dead, Taken, Alive
  <2>16. OneEngine'
    BY <1>1, <2>5 DEF SInv, OneEngine, Exists
  <2>17. SlotsAgree'
    <3> SUFFICES ASSUME NEW q \in Run, run'[q].at = "leased", engine'[run'[q].engine].up = "running",
                        run'[q].engine \notin crossed
                 PROVE  /\ engine'[run'[q].engine].slots[run'[q].slot] =
                             [run |-> q, process |-> Process(run[q].daemon)']
                        /\ ~engine'[run'[q].engine].retiring
      BY <1>1 DEF SlotsAgree, Running
    <3>1. CASE q = r
      <4>1. run'[q] = [at |-> "leased", daemon |-> d, engine |-> e, slot |-> s]
        BY <2>6, <3>1
      <4>2. Process(run[q].daemon)' = Process(d)
        BY <1>1, <4>1 DEF Process
      <4> QED
        BY <1>6, <2>1, <2>5, <3>1, <4>1, <4>2
    <3>2. CASE q # r
      <4>1. run'[q] = run[q] /\ run[q].engine \in Engines /\ run[q].slot \in Slot
        BY <2>6, <3>2 DEF SInv, Leased
      <4>2. Running(run[q].engine)
        BY <2>5, <4>1 DEF Running
      <4>3. /\ engine[run[q].engine].slots[run[q].slot] =
                 [run |-> q, process |-> Process(run[q].daemon)]
            /\ ~engine[run[q].engine].retiring
        BY <4>1, <4>2 DEF SInv, SlotsAgree
      <4>4. run[q].slot \in Live(run[q].engine)
        BY <4>1, <4>2, LeasedLive
      <4>5. run[q].engine # e \/ run[q].slot # s
        BY <1>6, <4>4 DEF Live
      <4>6. Process(run[q].daemon)' = Process(run[q].daemon)
        BY <1>1, <4>1 DEF Process
      <4> QED
        BY <2>5, <4>1, <4>3, <4>5, <4>6
    <3> QED
      BY <3>1, <3>2
  <2> QED
    BY <2>8, <2>9, <2>10, <2>11, <2>12, <2>13, <2>14, <2>15, <2>16, <2>17 DEF SInv
<1>7. \/ /\ engine' = engine /\ (held' = held \/ held' = [held EXCEPT ![d] = None])
         /\ run' = run \/ run' = [run EXCEPT ![r].at = "done"]
      \/ \E s \in Slot :
           /\ Running(e) /\ ~engine[e].retiring /\ s \notin Taken(e) /\ held' = held
           /\ engine' = [engine EXCEPT ![e].slots[s] = [run |-> r, process |-> Process(d)]]
           /\ \/ run' = [run EXCEPT ![r] = [at |-> "leased", daemon |-> d, engine |-> e, slot |-> s]]
              \/ run' = [run EXCEPT ![r].at = "done"]
  BY <1>2 DEF TakeSlot
<1> QED
  BY <1>5, <1>6, <1>7

-----------------------------------------------------------------------------
\* Surveys, deaths and restarts.

LEMMA SurveyAbandonedInv ==
  ASSUME SInv, NEW d \in Daemon, SurveyAbandoned(d)
  PROVE  SInv'
<1>1. /\ claim' = claim /\ engine' = engine /\ made' = made /\ life' = life /\ lives' = lives
      /\ closed' = closed /\ wanted' = wanted /\ want' = want /\ record' = record
      /\ held' = held /\ task' = task /\ guard' = guard /\ run' = run
      /\ legacy' = legacy /\ looked' = looked /\ events' = events
      /\ Up(d) /\ claim # None /\ ~Alive(claim.maker)
  BY DEF SurveyAbandoned, daemons, old
<1>2. PICK e \in Engines : e = claim.engine /\ e \in Known
  BY <1>1 DEF SInv, EngineTypeOK, Claims, Fresh
<1>3. PICK t \in ReaperStates : /\ reaper' = [reaper EXCEPT ![d] = t]
                                /\ t.at \in {"reclaim", "take"} /\ t.engine = e /\ t.dead = Dead(e)
  <2>1. PICK a \in {"reclaim", "take"} :
          reaper' = [reaper EXCEPT ![d] = [at |-> a, engine |-> e, dead |-> Dead(e)]]
    <3>1. CASE Running(e)
      BY <1>2, <3>1 DEF SurveyAbandoned
    <3>2. CASE ~Running(e)
      BY <1>2, <3>2 DEF SurveyAbandoned
    <3> QED
      BY <3>1, <3>2
  <2>2. PICK t : t = [at |-> a, engine |-> e, dead |-> Dead(e)]
    OBVIOUS
  <2>3. Dead(e) \in SUBSET Slot
    BY DEF Dead, Taken
  <2>4. t \in ReaperStates /\ t.at = a /\ t.engine = e /\ t.dead = Dead(e)
    BY <2>2, <2>3 DEF ReaperStates
  <2> QED
    BY <2>1, <2>2, <2>4
<1>4. /\ crossed \subseteq crossed' /\ crossed' \subseteq Engines
      /\ Surveyed(d, e) => e \in crossed'
  BY <1>2 DEF SurveyAbandoned, SInv, EngineTypeOK
<1>5. reaper'[d] = t /\ \A c \in Daemon \ {d} : reaper'[c] = reaper[c]
  BY <1>3 DEF SInv, EngineTypeOK
<1>6. EngineTypeOK'
  BY <1>1, <1>3, <1>4 DEF SInv, EngineTypeOK
<1>7. Incarnations'
  BY <1>1 DEF SInv, Incarnations, Past
<1>8. Tasks'
  BY <1>1, <1>3, <1>5 DEF SInv, Tasks, Up, Exists
<1>9. Fresh'
  BY <1>1, <1>2, <1>3, <1>5 DEF SInv, Fresh, Known
<1>10. Makers'
  BY <1>1 DEF SInv, Makers, Process, Exists
<1>11. Owners'
  BY <1>1, <1>3, <1>5 DEF SInv, Owners, Process, Alive
<1>12. Leased'
  BY <1>1 DEF SInv, Leased, Up, Running
<1>13. Surveys'
  <2>1. ASSUME NEW c \in Daemon, reaper'[c].at = "reclaim", reaper'[c].engine \notin crossed'
        PROVE  /\ Running(reaper'[c].engine) => reaper'[c].dead \subseteq Dead(reaper'[c].engine)
               /\ \A b \in Daemon \ {c} : reaper'[b].at = "reclaim" =>
                    reaper'[b].engine # reaper'[c].engine
    <3>1. CASE c = d
      <4>1. \A b \in Daemon \ {d} : reaper[b].at = "reclaim" => reaper[b].engine # e
        BY <1>3, <1>4, <1>5, <2>1, <3>1 DEF Surveyed
      <4> QED
        BY <1>3, <1>5, <3>1, <4>1
    <3>2. CASE c # d
      <4>1. /\ reaper'[c] = reaper[c] /\ reaper[c].engine \notin crossed
            /\ reaper[c].engine = e => e \in crossed'
        BY <1>4, <1>5, <2>1, <3>2 DEF Surveyed
      <4> QED
        BY <1>3, <1>5, <2>1, <3>2, <4>1 DEF SInv, Surveys
    <3> QED
      BY <3>1, <3>2
  <2> QED
    BY <1>1, <2>1 DEF Surveys, Running, Dead, Taken, Alive
<1>14. OneEngine' /\ SlotsAgree'
  BY <1>1, <1>4 DEF SInv, OneEngine, Exists, SlotsAgree, Running, Process
<1> QED
  BY <1>6, <1>7, <1>8, <1>9, <1>10, <1>11, <1>12, <1>13, <1>14 DEF SInv

\* A dead process stays dead, through the deaths and the new lives of others
\* and of its own daemon.
LEMMA DeadStays ==
  ASSUME SInv, NEW d \in Daemon, NEW p \in Processes, Past(p), ~Alive(p),
         \A c \in Daemon \ {d} : life'[c] = life[c],
         life'[d] = 0 \/ life'[d] = lives[d] + 1
  PROVE  life'[p.daemon] # p.life
  BY DEF SInv, EngineTypeOK, Past, Alive, Processes

LEMMA SurveysSurvive ==
  ASSUME SInv, NEW d \in Daemon, Quiet, crossed' = crossed,
         \A c \in Daemon : reaper'[c].at = "reclaim" => reaper'[c] = reaper[c],
         \A c \in Daemon \ {d} : life'[c] = life[c],
         life'[d] = 0 \/ life'[d] = lives[d] + 1
  PROVE  Surveys'
<1> SUFFICES ASSUME NEW c \in Daemon, reaper'[c].at = "reclaim", reaper'[c].engine \notin crossed'
             PROVE  /\ (Running(reaper[c].engine) => reaper[c].dead \subseteq Dead(reaper[c].engine))'
                    /\ \A b \in Daemon \ {c} : reaper'[b].at = "reclaim" =>
                         reaper'[b].engine # reaper'[c].engine
  BY DEF Surveys
<1>1. /\ reaper'[c] = reaper[c] /\ reaper[c].engine \in Engines
      /\ Running(reaper[c].engine) => reaper[c].dead \subseteq Dead(reaper[c].engine)
      /\ \A b \in Daemon \ {c} : reaper[b].at = "reclaim" => reaper[b].engine # reaper[c].engine
  BY DEF SInv, Surveys, Tasks
<1>2. ASSUME engine'[reaper[c].engine].up = "running", NEW s \in reaper[c].dead
      PROVE  /\ s \in Slot /\ engine'[reaper[c].engine].slots[s] # None
             /\ life'[engine'[reaper[c].engine].slots[s].process.daemon] #
                  engine'[reaper[c].engine].slots[s].process.life
  <2>1. Running(reaper[c].engine) /\ engine'[reaper[c].engine].slots = engine[reaper[c].engine].slots
    BY <1>1, <1>2 DEF Quiet, Upkept
  <2>2. s \in Slot /\ engine[reaper[c].engine].slots[s] # None
        /\ ~Alive(engine[reaper[c].engine].slots[s].process)
    BY <1>1, <2>1 DEF Dead, Taken
  <2>3. engine[reaper[c].engine].slots[s] \in Leases
    BY <1>1, <2>2 DEF SInv, EngineTypeOK, Containers
  <2>4. PICK p \in Processes : p = engine[reaper[c].engine].slots[s].process
    BY <2>3 DEF Leases
  <2>5. Past(p) /\ ~Alive(p)
    BY <1>1, <2>2, <2>4 DEF SInv, Incarnations
  <2>6. life'[p.daemon] # p.life
    BY <2>5, DeadStays
  <2> QED
    BY <2>1, <2>2, <2>4, <2>6
<1>3. (Running(reaper[c].engine) => reaper[c].dead \subseteq Dead(reaper[c].engine))'
  BY <1>1, <1>2 DEF Running, Dead, Taken, Alive
<1>4. \A b \in Daemon \ {c} : reaper'[b].at = "reclaim" => reaper'[b].engine # reaper'[c].engine
  BY <1>1
<1> QED
  BY <1>3, <1>4

LEMMA DieInv ==
  ASSUME SInv, NEW d \in Daemon, Die(d)
  PROVE  SInv'
<1>1. /\ claim' = claim /\ engine' = engine /\ made' = made /\ lives' = lives
      /\ want' = want /\ record' = record
      /\ legacy' = legacy /\ looked' = looked /\ crossed' = crossed
      /\ life' = [life EXCEPT ![d] = 0] /\ wanted' = wanted \ {d} /\ closed' = closed \ {d}
      /\ held' = [held EXCEPT ![d] = None] /\ task' = [task EXCEPT ![d] = Idle]
      /\ reaper' = [reaper EXCEPT ![d] = NoReaper] /\ guard' = [guard EXCEPT ![d] = {}]
      /\ run' = [r \in Run |-> IF run[r].daemon = d THEN [run[r] EXCEPT !.at = "done"] ELSE run[r]]
  BY DEF Die, old
<1>2. events' \in 0 .. MaxEvents
  BY EngineAssumption DEF Die, Event, SInv, EngineTypeOK
<1>3. /\ life'[d] = 0 /\ held'[d] = None /\ task'[d] = Idle /\ reaper'[d] = NoReaper /\ guard'[d] = {}
      /\ \A c \in Daemon \ {d} : /\ life'[c] = life[c] /\ held'[c] = held[c] /\ task'[c] = task[c]
                                 /\ reaper'[c] = reaper[c] /\ guard'[c] = guard[c]
  BY <1>1 DEF SInv, EngineTypeOK
<1>4. /\ run' \in [Run -> RunStates]
      /\ \A r \in Run : /\ run'[r].engine = run[r].engine
                        /\ run'[r].at \in {"leased", "failing"} => run'[r] = run[r] /\ run[r].daemon # d
  <2>1. ASSUME NEW r \in Run
        PROVE  /\ run'[r] \in RunStates /\ run'[r].engine = run[r].engine
               /\ run'[r].at \in {"leased", "failing"} => run'[r] = run[r] /\ run[r].daemon # d
    <3>1. run[r] \in RunStates
      BY DEF SInv, EngineTypeOK
    <3>2. PICK t : t = [run[r] EXCEPT !.at = "done"]
      OBVIOUS
    <3>3. t \in RunStates /\ t.at = "done" /\ t.engine = run[r].engine
      BY <3>1, <3>2 DEF RunStates
    <3>4. run'[r] = IF run[r].daemon = d THEN t ELSE run[r]
      BY <1>1, <3>2
    <3> QED
      BY <3>1, <3>3, <3>4
  <2>2. run' = [r \in Run |-> run'[r]]
    BY <1>1
  <2> QED
    BY <2>1, <2>2
<1>5. EngineTypeOK'
  BY <1>1, <1>2, <1>4, IdleProper, NoReaperFacts DEF SInv, EngineTypeOK
<1>6. Incarnations'
  BY <1>1, <1>3 DEF SInv, Incarnations, Past
<1>7. Tasks'
  BY <1>1, <1>3, IdleProper, NoReaperFacts DEF SInv, Tasks, Up, Exists
<1>8. Fresh'
  BY <1>1, <1>3, <1>4, IdleProper, NoReaperFacts DEF SInv, Fresh, Known
<1>9. Makers'
  <2>1. \A c \in Daemon : task'[c].at \in Preparing => c # d /\ task'[c] = task[c] /\ life'[c] = life[c]
    BY <1>3, IdleProper DEF Preparing
  <2>2. ASSUME NEW c \in Daemon, task[c].at \in Preparing, c # d
        PROVE  /\ \A b \in Daemon \ {c} : task'[b].engine # task[c].engine
               /\ \A b \in Daemon : task[c].engine \notin guard'[b]
    <3>1. /\ task[c].engine \in Engines /\ \A b \in Daemon \ {c} : task[b].engine # task[c].engine
          /\ \A b \in Daemon : task[c].engine \notin guard[b]
      BY <2>2 DEF SInv, Makers, Tasks, Preparing
    <3> QED
      BY <1>3, <3>1, IdleProper, NothingAssumption
  <2> QED
    BY <1>1, <1>4, <2>1, <2>2 DEF SInv, Makers, Preparing, Process, Exists
<1>10. Owners'
  <2>1. ASSUME claim # None, ~Alive(claim.maker)
        PROVE  life'[claim.maker.daemon] # claim.maker.life
    <3>1. claim.maker \in Processes /\ Past(claim.maker)
      BY <2>1 DEF SInv, EngineTypeOK, Claims, Incarnations
    <3> QED
      BY <1>3, <2>1, <3>1, DeadStays
  <2> QED
    BY <1>1, <1>3, <2>1, NoReaperFacts DEF SInv, Owners, Process, Alive
<1>11. Leased'
  BY <1>1, <1>3, <1>4 DEF SInv, Leased, Up, Running
<1>12. Quiet /\ OneEngine'
  BY <1>1, StillEngine
<1>13. Surveys'
  <2>1. \A c \in Daemon : reaper'[c].at = "reclaim" => reaper'[c] = reaper[c]
    BY <1>3, NoReaperFacts
  <2> QED
    BY <1>1, <1>3, <1>12, <2>1, SurveysSurvive
<1>14. SlotsAgree'
  <2>1. ASSUME NEW r \in Run, run'[r].at = "leased"
        PROVE  run'[r] = run[r] /\ Process(run[r].daemon)' = Process(run[r].daemon)
    <3>1. run'[r] = run[r] /\ run[r].daemon # d /\ run[r].daemon \in Daemon
      BY <1>4, <2>1 DEF SInv, Leased
    <3> QED
      BY <1>3, <3>1 DEF Process
  <2> SUFFICES ASSUME NEW r \in Run, run'[r].at = "leased", engine[run'[r].engine].up = "running",
                      run'[r].engine \notin crossed
               PROVE  /\ engine[run'[r].engine].slots[run'[r].slot] =
                           [run |-> r, process |-> [daemon |-> run'[r].daemon, life |-> life'[run'[r].daemon]]]
                      /\ ~engine[run'[r].engine].retiring
    BY <1>1 DEF SlotsAgree, Running, Process
  <2>2. /\ run'[r] = run[r]
        /\ [daemon |-> run[r].daemon, life |-> life'[run[r].daemon]] = Process(run[r].daemon)
    BY <2>1 DEF Process
  <2>3. /\ engine[run[r].engine].slots[run[r].slot] =
             [run |-> r, process |-> Process(run[r].daemon)]
        /\ ~engine[run[r].engine].retiring
    BY <2>2 DEF SInv, SlotsAgree, Running
  <2> QED
    BY <2>2, <2>3
<1> QED
  BY <1>5, <1>6, <1>7, <1>8, <1>9, <1>10, <1>11, <1>12, <1>13, <1>14 DEF SInv

LEMMA RestartInv ==
  ASSUME SInv, NEW d \in Daemon, Restart(d)
  PROVE  SInv'
<1>1. /\ claim' = claim /\ made' = made /\ closed' = closed /\ wanted' = wanted /\ want' = want
      /\ held' = held /\ task' = task /\ reaper' = reaper /\ guard' = guard /\ run' = run
      /\ legacy' = legacy /\ looked' = looked /\ crossed' = crossed
      /\ life[d] = 0 /\ life' = [life EXCEPT ![d] = lives[d] + 1]
      /\ lives' = [lives EXCEPT ![d] = @ + 1]
  BY DEF Restart, old
<1>2. /\ events' \in 0 .. MaxEvents /\ record' \in [Daemon -> SUBSET Engines]
      /\ \/ engine' = engine
         \/ engine' = [e \in Engines |-> IF e \in record[d] THEN Absent ELSE engine[e]]
  BY EngineAssumption DEF Restart, Event, SInv, EngineTypeOK
<1>3. /\ life'[d] = lives[d] + 1 /\ lives'[d] = lives[d] + 1
      /\ \A c \in Daemon \ {d} : life'[c] = life[c] /\ lives'[c] = lives[c]
      /\ lives[d] \in Nat
  BY <1>1 DEF SInv, EngineTypeOK
<1>4. engine' \in [Engines -> Containers] /\ Quiet
  <2>1. engine \in [Engines -> Containers] /\ \A f \in Engines : engine[f] \in Containers
    BY DEF SInv, EngineTypeOK
  <2>2. /\ Absent \in Containers /\ Absent.up = "absent" /\ \A s \in Slot : Absent.slots[s] = None
    BY DEF Absent, Containers
  <2>3. \A f \in Engines : engine'[f] = engine[f] \/ engine'[f] = Absent
    BY <1>2
  <2>4. engine' \in [Engines -> Containers]
    BY <1>2, <2>1, <2>2
  <2> QED
    BY <2>1, <2>2, <2>3, <2>4 DEF Quiet, Upkept, Exists, Running
<1>5. EngineTypeOK'
  <2>1. life' \in [Daemon -> Nat] /\ lives' \in [Daemon -> Nat \ {0}]
    BY <1>1, <1>3 DEF SInv, EngineTypeOK
  <2>2. engine' \in [Engines -> Containers] /\ record' \in [Daemon -> SUBSET Engines]
    BY <1>2, <1>4
  <2>3. /\ claim' = claim /\ made' = made /\ closed' = closed /\ wanted' = wanted /\ want' = want
        /\ held' = held /\ task' = task /\ reaper' = reaper /\ guard' = guard /\ run' = run
        /\ legacy' = legacy /\ looked' = looked /\ crossed' = crossed
    BY <1>1
  <2>4. events' \in 0 .. MaxEvents
    BY <1>2
  <2> QED
    BY <2>1, <2>2, <2>3, <2>4 DEF SInv, EngineTypeOK
<1>6. Incarnations'
  <2>1. \A p \in Processes : Past(p) => p.life <= lives'[p.daemon]
    BY <1>1 DEF Past, Processes, SInv, EngineTypeOK
  <2>2. claim # None => claim.maker \in Processes
    BY DEF SInv, EngineTypeOK, Claims
  <2>3. ASSUME NEW e \in Engines, NEW s \in Slot, engine'[e].slots[s] # None
        PROVE  /\ engine'[e].slots[s].process \in Processes
               /\ Past(engine'[e].slots[s].process)
    <3>1. engine'[e].slots[s] = engine[e].slots[s]
      BY <1>4, <2>3 DEF Quiet
    <3>2. engine[e].slots[s] \in Leases
      BY <2>3, <3>1 DEF SInv, EngineTypeOK, Containers
    <3> QED
      BY <2>3, <3>1, <3>2 DEF SInv, Incarnations, Leases
  <2>4. \A c \in Daemon : life'[c] \in {0, lives'[c]}
    BY <1>3 DEF SInv, Incarnations
  <2> QED
    BY <1>1, <2>1, <2>2, <2>3, <2>4 DEF SInv, Incarnations, Past
<1>7. /\ task[d] = Idle /\ reaper[d].at = "idle" /\ held[d] = None
      /\ \A r \in Run : run[r].at \in {"leased", "failing"} => run[r].daemon # d
  BY <1>1 DEF SInv, Tasks, Leased, Up
<1>8. Tasks'
  <2>1. \A c \in Daemon : task[c].at = "unclaim" => engine'[task[c].engine].up = "absent"
    BY <1>4 DEF SInv, Tasks, Quiet, Upkept, Exists
  <2>2. \A c \in Daemon : Up(c) => life'[c] # 0
    BY <1>3 DEF Up
  <2> QED
    BY <1>1, <2>1, <2>2 DEF SInv, Tasks, Up, Exists
<1>9. Fresh'
  BY <1>1 DEF SInv, Fresh, Known
<1>10. Makers'
  <2>1. ASSUME NEW c \in Daemon, task[c].at \in Preparing
        PROVE  /\ Process(c)' = Process(c)
               /\ task[c].at = "create" => engine'[task[c].engine].up = "absent"
    <3>1. c # d
      BY <1>7, <2>1, IdleProper DEF Preparing
    <3>2. task[c].at = "create" => ~Exists(task[c].engine) /\ task[c].engine \in Engines
      BY DEF SInv, Makers, Tasks
    <3> QED
      BY <1>3, <1>4, <3>1, <3>2 DEF Process, Quiet, Upkept, Exists
  <2> QED
    BY <1>1, <2>1 DEF SInv, Makers, Preparing, Exists
<1>11. Owners'
  <2>1. ASSUME claim # None, ~Alive(claim.maker)
        PROVE  life'[claim.maker.daemon] # claim.maker.life
    <3>1. claim.maker \in Processes /\ Past(claim.maker)
      BY <2>1 DEF SInv, EngineTypeOK, Claims, Incarnations
    <3> QED
      BY <1>3, <2>1, <3>1, DeadStays
  <2>2. \A c \in Daemon : held[c] # None => Process(c)' = Process(c)
    BY <1>3, <1>7 DEF Process
  <2> QED
    BY <1>1, <2>1, <2>2 DEF SInv, Owners, Alive
<1>12. Leased'
  <2>1. \A r \in Run : run[r].at = "failing" => engine'[run[r].engine].up # "running"
    BY <1>4 DEF SInv, Leased, Quiet, Upkept
  <2>2. \A c \in Daemon : Up(c) => life'[c] # 0
    BY <1>3 DEF Up
  <2> QED
    BY <1>1, <2>1, <2>2 DEF SInv, Leased, Up, Running
<1>13. Surveys'
  BY <1>1, <1>3, <1>4, SurveysSurvive
<1>14. OneEngine'
  BY <1>1, <1>4, QuietOne
<1>15. SlotsAgree'
  <2> SUFFICES ASSUME NEW r \in Run, run[r].at = "leased", engine'[run[r].engine].up = "running",
                      run[r].engine \notin crossed
               PROVE  /\ engine'[run[r].engine].slots[run[r].slot] =
                           [run |-> r, process |-> Process(run[r].daemon)']
                      /\ ~engine'[run[r].engine].retiring
    BY <1>1 DEF SlotsAgree, Running
  <2>1. /\ run[r].engine \in Engines /\ run[r].daemon \in Daemon /\ run[r].daemon # d
    BY <1>7 DEF SInv, Leased
  <2>2. /\ Running(run[r].engine) /\ engine'[run[r].engine].slots = engine[run[r].engine].slots
        /\ engine'[run[r].engine].retiring =>
             engine[run[r].engine].retiring \/ Taken(run[r].engine) = {}
    BY <1>4, <2>1 DEF Quiet, Upkept
  <2>3. /\ engine[run[r].engine].slots[run[r].slot] =
             [run |-> r, process |-> Process(run[r].daemon)]
        /\ ~engine[run[r].engine].retiring
    BY <2>2 DEF SInv, SlotsAgree
  <2>4. Taken(run[r].engine) # {}
    BY <2>2, LeasedLive DEF Live
  <2>5. Process(run[r].daemon)' = Process(run[r].daemon)
    BY <1>1, <1>3, <2>1 DEF Process
  <2> QED
    BY <2>2, <2>3, <2>4, <2>5
<1> QED
  BY <1>5, <1>6, <1>8, <1>9, <1>10, <1>11, <1>12, <1>13, <1>14, <1>15 DEF SInv

LEMMA EngineStopsInv ==
  ASSUME SInv, NEW e \in Engines, EngineStops(e)
  PROVE  SInv'
<1>1. /\ claim' = claim /\ made' = made /\ life' = life /\ lives' = lives
      /\ closed' = closed /\ wanted' = wanted /\ want' = want /\ record' = record
      /\ held' = held /\ task' = task /\ reaper' = reaper /\ guard' = guard
      /\ legacy' = legacy /\ looked' = looked /\ crossed' = crossed
      /\ Running(e) /\ engine' = [engine EXCEPT ![e].up = "stopped"]
      /\ run' = [r \in Run |-> IF run[r].at = "leased" /\ run[r].engine = e
                               THEN [run[r] EXCEPT !.at = "failing"] ELSE run[r]]
  BY DEF EngineStops, daemons, old
<1>2. events' \in 0 .. MaxEvents
  BY EngineAssumption DEF EngineStops, Event, SInv, EngineTypeOK
<1>3. /\ engine' \in [Engines -> Containers] /\ Quiet /\ engine'[e].up = "stopped"
  <2>1. engine \in [Engines -> Containers] /\ engine[e] \in Containers
    BY DEF SInv, EngineTypeOK
  <2>2. PICK c : c = [engine[e] EXCEPT !.up = "stopped"] /\ engine' = [engine EXCEPT ![e] = c]
    BY <1>1
  <2>3. c \in Containers /\ c.up = "stopped" /\ c.slots = engine[e].slots
    BY <2>1, <2>2 DEF Containers
  <2>4. engine'[e] = c /\ \A f \in Engines \ {e} : engine'[f] = engine[f]
    BY <2>1, <2>2
  <2>5. engine' \in [Engines -> Containers]
    BY <2>1, <2>2, <2>3
  <2> QED
    BY <1>1, <2>3, <2>4, <2>5 DEF Quiet, Upkept, Exists, Running
<1>4. /\ run' \in [Run -> RunStates]
      /\ \A r \in Run :
           /\ run'[r].engine = run[r].engine /\ run'[r].daemon = run[r].daemon
           /\ run'[r].slot = run[r].slot
           /\ run'[r].at = "leased" => run'[r] = run[r] /\ run[r].engine # e
           /\ run'[r].at = "failing" => run'[r] = run[r] \/ (run[r].at = "leased" /\ run[r].engine = e)
  <2>1. ASSUME NEW r \in Run
        PROVE  /\ run'[r] \in RunStates
               /\ run'[r].engine = run[r].engine /\ run'[r].daemon = run[r].daemon
               /\ run'[r].slot = run[r].slot
               /\ run'[r].at = "leased" => run'[r] = run[r] /\ run[r].engine # e
               /\ run'[r].at = "failing" => run'[r] = run[r] \/ (run[r].at = "leased" /\ run[r].engine = e)
    <3>1. run[r] \in RunStates
      BY DEF SInv, EngineTypeOK
    <3>2. PICK t : t = [run[r] EXCEPT !.at = "failing"]
      OBVIOUS
    <3>3. /\ t \in RunStates /\ t.at = "failing" /\ t.engine = run[r].engine
          /\ t.daemon = run[r].daemon /\ t.slot = run[r].slot
      BY <3>1, <3>2 DEF RunStates
    <3>4. run'[r] = IF run[r].at = "leased" /\ run[r].engine = e THEN t ELSE run[r]
      BY <1>1, <3>2
    <3> QED
      BY <3>1, <3>3, <3>4
  <2>2. run' = [r \in Run |-> run'[r]]
    BY <1>1
  <2> QED
    BY <2>1, <2>2
<1>5. EngineTypeOK'
  <2>1. engine' \in [Engines -> Containers] /\ run' \in [Run -> RunStates]
    BY <1>3, <1>4
  <2>2. /\ claim' = claim /\ made' = made /\ life' = life /\ lives' = lives
        /\ closed' = closed /\ wanted' = wanted /\ want' = want /\ record' = record
        /\ held' = held /\ task' = task /\ reaper' = reaper /\ guard' = guard
        /\ legacy' = legacy /\ looked' = looked /\ crossed' = crossed
    BY <1>1
  <2> QED
    BY <1>2, <2>1, <2>2 DEF SInv, EngineTypeOK
<1>6. Incarnations'
  BY <1>1, <1>3 DEF SInv, Incarnations, Past, Quiet
<1>7. Tasks'
  <2>1. \A c \in Daemon : task[c].at = "unclaim" => engine'[task[c].engine].up = "absent"
    BY <1>3 DEF SInv, Tasks, Quiet, Upkept, Exists
  <2> QED
    BY <1>1, <2>1 DEF SInv, Tasks, Up, Exists
<1>8. Fresh'
  BY <1>1, <1>4 DEF SInv, Fresh, Known
<1>9. Makers'
  <2>1. \A c \in Daemon : task[c].at = "create" => engine'[task[c].engine].up = "absent"
    BY <1>3 DEF SInv, Makers, Tasks, Quiet, Upkept, Exists
  <2> QED
    BY <1>1, <1>4, <2>1 DEF SInv, Makers, Process, Exists
<1>10. Owners'
  BY <1>1 DEF SInv, Owners, Process, Alive
<1>11. Leased'
  BY <1>1, <1>3, <1>4 DEF SInv, Leased, Up, Running, Quiet, Upkept
<1>12. Surveys'
  <2>1. \A c \in Daemon : reaper[c].at = "reclaim" => reaper[c].engine \in Engines
    BY DEF SInv, Tasks
  <2> QED
    BY <1>1, <1>3, <2>1 DEF SInv, Surveys, Running, Dead, Taken, Alive, Quiet, Upkept
<1>13. OneEngine'
  BY <1>1, <1>3, QuietOne
<1>14. SlotsAgree'
  <2>1. ASSUME NEW r \in Run, run'[r].at = "leased"
        PROVE  run'[r] = run[r] /\ engine'[run[r].engine] = engine[run[r].engine]
    <3>1. run'[r] = run[r] /\ run[r].engine # e /\ run[r].engine \in Engines
      BY <1>4, <2>1 DEF SInv, Leased
    <3> QED
      BY <1>1, <3>1 DEF SInv, EngineTypeOK
  <2> QED
    BY <1>1, <2>1 DEF SInv, SlotsAgree, Running, Process
<1> QED
  BY <1>5, <1>6, <1>7, <1>8, <1>9, <1>10, <1>11, <1>12, <1>13, <1>14 DEF SInv

-----------------------------------------------------------------------------
\* The invariant holds at first and is kept by every step.

LEMMA InitSInv == Init => SInv
<1> SUFFICES ASSUME Init PROVE SInv
  OBVIOUS
<1>1. /\ claim = None /\ engine = [e \in Engines |-> Absent] /\ made = 0
      /\ life = [d \in Daemon |-> 1] /\ lives = [d \in Daemon |-> 1]
      /\ closed = {} /\ wanted = {} /\ want \in [Daemon -> Kind]
      /\ record = [d \in Daemon |-> {}] /\ held = [d \in Daemon |-> None]
      /\ task = [d \in Daemon |-> Idle] /\ reaper = [d \in Daemon |-> NoReaper]
      /\ guard = [d \in Daemon |-> {}]
      /\ legacy = "idle" /\ looked = {} /\ crossed = {} /\ events = 0
  BY DEF Init
<1>2. PICK t : /\ t = [at |-> "new", daemon |-> None, engine |-> None, slot |-> None]
               /\ run = [r \in Run |-> t]
  BY DEF Init
<1>3. t \in RunStates /\ t.at = "new" /\ t.engine = None
  BY <1>2 DEF RunStates
<1>4. /\ Absent \in Containers /\ Absent.up = "absent" /\ \A s \in Slot : Absent.slots[s] = None
  BY DEF Absent, Containers
<1>5. Idle \in TaskStates /\ Idle.at = "idle" /\ Idle.engine = None
  BY DEF Idle, TaskStates
<1>6. NoReaper \in ReaperStates /\ NoReaper.at = "idle" /\ NoReaper.engine = None
  BY DEF NoReaper, ReaperStates
<1>7. EngineTypeOK
  <2>1. engine \in [Engines -> Containers] /\ run \in [Run -> RunStates]
    BY <1>1, <1>2, <1>3, <1>4
  <2>2. task \in [Daemon -> TaskStates] /\ reaper \in [Daemon -> ReaperStates]
    BY <1>1, <1>5, <1>6
  <2>3. /\ life \in [Daemon -> Nat] /\ lives \in [Daemon -> Nat \ {0}]
        /\ record \in [Daemon -> SUBSET Engines] /\ guard \in [Daemon -> SUBSET Engines]
        /\ held \in [Daemon -> {None} \cup Holdings]
    BY <1>1
  <2>4. made \in 0 .. MaxEngines /\ events \in 0 .. MaxEvents
    BY <1>1, EngineAssumption
  <2> QED
    BY <1>1, <2>1, <2>2, <2>3, <2>4 DEF EngineTypeOK
<1>8. Incarnations
  BY <1>1, <1>4 DEF Incarnations
<1>9. Tasks
  BY <1>1, <1>5, <1>6 DEF Tasks
<1>10. Fresh
  BY <1>1, <1>2, <1>3, <1>5, <1>6 DEF Fresh
<1>11. Makers
  BY <1>1, <1>5 DEF Makers
<1>12. Owners
  BY <1>1 DEF Owners
<1>13. Leased /\ SlotsAgree
  BY <1>2, <1>3 DEF Leased, SlotsAgree
<1>14. Surveys
  BY <1>1, <1>6 DEF Surveys
<1>15. OneEngine
  BY <1>1, <1>4 DEF OneEngine, Exists
<1> QED
  BY <1>7, <1>8, <1>9, <1>10, <1>11, <1>12, <1>13, <1>14, <1>15 DEF SInv

LEMMA NextSInv == SInv /\ [Next]_vars => SInv'
<1> SUFFICES ASSUME SInv, [Next]_vars PROVE SInv'
  OBVIOUS
<1>1. CASE UNCHANGED vars
  <2>1. /\ claim' = claim /\ engine' = engine /\ made' = made /\ life' = life /\ lives' = lives
        /\ record' = record /\ wanted' = wanted /\ run' = run
        /\ held' = held /\ task' = task /\ reaper' = reaper /\ guard' = guard
        /\ looked' = looked /\ crossed' = crossed
        /\ closed' = closed /\ want' = want /\ legacy' = legacy /\ events' = events
    BY <1>1 DEF vars
  <2>2. EngineTypeOK'
    BY <2>1 DEF SInv, EngineTypeOK
  <2>3. Quiet /\ OneEngine'
    BY <2>1, StillEngine
  <2>4. Tasks' /\ Steady
    BY <2>1, <2>3, SteadyStill DEF Quiet
  <2> QED
    BY <2>2, <2>3, <2>4, QuietInv
<1>2. CASE \E d \in Daemon, r \in Run : Ask(d, r) \/ StartStep(d, r) \/ Refuse(d, r)
  BY <1>2, AskInv, StartStepInv, RefuseInv
<1>3. ASSUME NEW d \in Daemon, Leasing(d)
      PROVE  SInv'
  BY <1>3, StepInv, FindInv, AdoptInv, MakeInv, CreateInv, MarkReadyInv, TakeSlotInv,
     RetireInv, TakeOverInv, UnclaimInv, ResumeInv DEF Leasing
<1>4. ASSUME NEW d \in Daemon, Tending(d)
      PROVE  SInv'
  BY <1>4, RetryOwnedInv, SurveyAbandonedInv, ReclaimAbandonedInv, BeginAbandonedInv,
     TakeAbandonedInv DEF Tending
<1>5. CASE \E d \in Daemon : RetireIdle(d) \/ Enroll(d) \/ PrepareFails(d) \/ CancelLease(d)
                              \/ Die(d) \/ Restart(d)
  BY <1>5, RetireIdleInv, EnrollInv, PrepareFailsInv, CancelLeaseInv, DieInv, RestartInv
<1>6. CASE \E d \in Daemon, e \in Engines : DropGuard(d, e)
  BY <1>6, DropGuardInv
<1>7. CASE \/ \E d \in Daemon : Close(d) \/ \E k \in Kind : Reconfigure(d, k)
           \/ LegacyRuns
  BY <1>7, AsideInv
<1>8. CASE \E r \in Run : EndRun(r)
  BY <1>8, EndRunInv
<1>9. CASE \E e \in Engines : EngineStops(e)
  BY <1>9, EngineStopsInv
<1> QED
  BY <1>1, <1>2, <1>3, <1>4, <1>5, <1>6, <1>7, <1>8, <1>9 DEF Next

\* The claim, the engines with their slot tables, and what every daemon, reaper
\* and run keeps in memory stay in their types (shared_engine.rs), for any number
\* of daemons, runs, slots and engines, through crashes, restarts and failures.
THEOREM EngineTypeCorrect == Spec => []EngineTypeOK
<1>1. SInv => EngineTypeOK
  BY DEF SInv
<1> QED
  BY <1>1, InitSInv, NextSInv, PTL DEF Spec

\* shared_engine.rs and machine.rs: there is never more than the one engine that
\* the claim names, and a run that leased a slot has it, in an engine nobody is
\* retiring, as long as its engine runs; whichever daemons die, restart, cancel,
\* fail to clean up or take the claim over, and between whichever Docker calls.
THEOREM SharedEngineSafe == Spec => []SharedSafe
<1>1. SInv => SharedSafe
  BY DEF SInv, SharedSafe
<1> QED
  BY <1>1, InitSInv, NextSInv, PTL DEF Spec

=============================================================================
