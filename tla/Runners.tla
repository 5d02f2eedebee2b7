------------------------------ MODULE Runners ------------------------------
(***************************************************************************)
(* Runner accounting: what each running manifest task holds.  A task's run *)
(* is entered in its daemon's table and in the ledger on disk; the task    *)
(* talks to Docker through a proxy that labels what it creates, maps its   *)
(* cache volume to a leased replica and refuses what belongs to another    *)
(* run; at the end the proxy stops and everything labelled is removed.  A  *)
(* daemon that dies leaves its runs to be reaped by its successor.  Two    *)
(* daemons of one user share the engine and the lock files of the caches.  *)
(***************************************************************************)
EXTENDS Naturals, FiniteSets

CONSTANTS RDaemon,      \* state directories, each with one daemon at a time
          RJob,         \* task jobs, each run once
          Replicas,     \* replicas of the exclusive cache
          MaxCrash,     \* bound on crashes
          MaxFail       \* bound on Docker requests that fail

Replica == 1..Replicas
Private == 0            \* a cold volume of the run's own
NoRep == Replicas + 1
NoJob == "-"

VARIABLES
  phase,                \* a daemon: "down" | "reap" | "sweep" | "up"
  home, at,             \* a job's daemon, and where the job is
  table,                \* Inner.runs: what the record says, or "none"
  ledger,               \* runners/active.json of a daemon
  saving,               \* a thread inside persist: its copy of the records
  todo,                 \* what the starting daemon still has to reap
  flock,                \* holder of a replica's lock file
  req,                  \* the request a job's proxy connection handles
  labelled,             \* Docker objects with a run label: <<job, kind>>
  mount,                \* the replica a job's containers use
  proc,                 \* jobs with processes in their setup container
  late,                 \* runs Docker finished a request of after their end
  crashes, fails

rnDocker == <<labelled, mount, proc, late>>
rnVars == <<phase, home, at, table, ledger, saving, todo, flock, req, rnDocker, crashes, fails>>

Kinds == {"box", "vol"}
NoReq == [pc |-> "none", rep |-> NoRep]
NoRecords == [j \in RJob |-> "none"]
Thread == RDaemon \cup RJob   \* the job actor of a daemon, the task of a job
NotSaving == [on |-> FALSE, copy |-> NoRecords]

RnInit ==
  /\ phase = [d \in RDaemon |-> "up"]
  /\ home = [j \in RJob |-> NoJob] /\ at = [j \in RJob |-> "new"]
  /\ table = NoRecords /\ ledger = [d \in RDaemon |-> NoRecords]
  /\ saving = [t \in Thread |-> NotSaving] /\ todo = [d \in RDaemon |-> {}]
  /\ flock = [r \in Replica |-> NoJob] /\ req = [j \in RJob |-> NoReq]
  /\ labelled = {} /\ mount = [j \in RJob |-> NoRep] /\ proc = {} /\ late = {}
  /\ crashes = 0 /\ fails = 0

-----------------------------------------------------------------------------
(* The table and its ledger. *)

Of(d) == {j \in RJob : home[j] = d}
Up(j) == home[j] # NoJob /\ phase[home[j]] = "up"
InTable(j) == table[j] # "none"

\* The records of daemon d in a table.
RecordsOf(d, tab) == [j \in RJob |-> IF home[j] = d THEN tab[j] ELSE "none"]

\* persist copies the records under the lock ...
Copying(t, d, tab) == saving' = [saving EXCEPT ![t] = [on |-> TRUE, copy |-> RecordsOf(d, tab)]]
DaemonOf(t) == IF t \in RDaemon THEN t ELSE home[t]
Free(t) == ~saving[t].on

\* ... and writes them afterwards, to a file of one name that is renamed; a
\* second writer may find it renamed away, which is logged.
WriteLedger(t) ==
  /\ saving[t].on
  /\ saving' = [saving EXCEPT ![t] = NotSaving]
  /\ \/ ledger' = [ledger EXCEPT ![DaemonOf(t)] = saving[t].copy]
     \/ /\ \E u \in Thread \ {t} : saving[u].on /\ DaemonOf(u) = DaemonOf(t)
        /\ UNCHANGED ledger
  /\ at' = [j \in RJob |-> IF home[j] = t /\ at[j] = "entered" THEN "begun" ELSE at[j]]
  /\ UNCHANGED <<phase, home, table, todo, flock, req, rnDocker, crashes, fails>>

\* begin, by the job actor, which starts the executor once it is written.
BeginRun(d, j) ==
  /\ phase[d] = "up" /\ Free(d) /\ at[j] = "new"
  /\ home' = [home EXCEPT ![j] = d] /\ at' = [at EXCEPT ![j] = "entered"]
  /\ table' = [table EXCEPT ![j] = "begun"]
  /\ saving' = [saving EXCEPT ![d] =
                  [on |-> TRUE, copy |-> [RecordsOf(d, table) EXCEPT ![j] = "begun"]]]
  /\ UNCHANGED <<phase, ledger, todo, flock, req, rnDocker, crashes, fails>>

\* attach records the container, and starts the proxy if the task may use one.
AttachRun(j) ==
  /\ Up(j) /\ at[j] = "begun"
  /\ table' = [table EXCEPT ![j] = "attached"]
  /\ Copying(j, home[j], table')
  /\ \E pc \in {"proxied", "bare"} : at' = [at EXCEPT ![j] = pc]
  /\ UNCHANGED <<phase, home, ledger, todo, flock, req, rnDocker, crashes, fails>>

\* The task's command starts in its setup container.
StartCommand(j) ==
  /\ Up(j) /\ Free(j) /\ at[j] \in {"proxied", "bare"} /\ j \notin proc
  /\ at' = [at EXCEPT ![j] = IF @ = "proxied" THEN "running" ELSE "alone"]
  /\ proc' = proc \cup {j}
  /\ UNCHANGED <<phase, home, table, ledger, saving, todo, flock, req, labelled, mount, late, crashes, fails>>

-----------------------------------------------------------------------------
(* The proxy. *)

\* accept_loop and read_head: a connection's thread has the head of a
\* container create.
Accept(j) ==
  /\ Up(j) /\ at[j] = "running" /\ req[j].pc = "none"
  /\ req' = [req EXCEPT ![j].pc = "head"]
  /\ UNCHANGED <<phase, home, at, table, ledger, saving, todo, flock, rnDocker, crashes, fails>>

\* The replica a job has, else the first whose lock file is free, else none.
LeaseChoices(j) ==
  LET mine == {r \in Replica : flock[r] = j}
      free == {r \in Replica : flock[r] = NoJob}
  IN IF mine # {} THEN mine
     ELSE IF free # {} THEN {r \in free : \A s \in free : r <= s} ELSE {Private}

\* rewrite_create: what a run creates carries its label.
Labels(j, kind) == <<j, kind>>

\* rewrite_container: the cache volume it names becomes the leased one.
CacheMount(j) == req[j].rep

\* scope_listing: what a run's listings and prunes are narrowed to.
Scoped(j) == {o \in labelled : o[1] = j}

\* lease_cache and map_volume, for a create that mounts the cache: the lock is
\* taken even if the run is over, since the thread outlives the proxy.
LeaseCache(j) ==
  /\ Up(j) /\ req[j].pc = "head" /\ Free(j)
  /\ \E r \in LeaseChoices(j) :
       /\ flock' = IF r = Private THEN flock ELSE [flock EXCEPT ![r] = j]
       /\ req' = [req EXCEPT ![j] = [pc |-> "leased", rep |-> r]]
       /\ labelled' = IF r = Private THEN labelled \cup {Labels(j, "vol")} ELSE labelled
  /\ IF InTable(j) THEN Copying(j, home[j], table) ELSE UNCHANGED saving
  /\ UNCHANGED <<phase, home, at, table, ledger, todo, mount, proc, late, crashes, fails>>

\* The owner of what a request names: inspect, by the run label.
OwnerOf(k) == IF \E o \in labelled : o[1] = k THEN k ELSE NoJob

\* verdict: missing, or this run's own.
Verdict(j, k) == OwnerOf(k) \in {NoJob, j}

\* forward_requests: a create that names containers of run k is checked, then
\* written upstream, unless the proxy has shut the connection down.
ForwardCreate(j, k) ==
  /\ Up(j) /\ req[j].pc = "leased" /\ Free(j)
  /\ req' = [req EXCEPT ![j] = IF at[j] = "running" /\ Verdict(j, k) THEN [@ EXCEPT !.pc = "sent"]
                               ELSE NoReq]
  /\ UNCHANGED <<phase, home, at, table, ledger, saving, todo, flock, rnDocker, crashes, fails>>

\* Docker makes the container, whoever is still there to see it.
DockerMakes(j) ==
  /\ req[j].pc = "sent"
  /\ labelled' = labelled \cup {Labels(j, "box")}
  /\ mount' = [mount EXCEPT ![j] = CacheMount(j)]
  /\ late' = IF at[j] = "running" THEN late ELSE late \cup {j}
  /\ req' = [req EXCEPT ![j] = NoReq]
  /\ UNCHANGED <<phase, home, at, table, ledger, saving, todo, flock, proc, crashes, fails>>

\* A removal of an object the request names.
RemoveAddressed(j, k) ==
  /\ Up(j) /\ at[j] = "running" /\ req[j].pc = "none"
  /\ Verdict(j, k) /\ <<k, "box">> \in labelled
  /\ labelled' = labelled \ {<<k, "box">>}
  /\ mount' = [mount EXCEPT ![k] = NoRep]
  /\ UNCHANGED <<phase, home, at, table, ledger, saving, todo, flock, req, proc, late, crashes, fails>>

\* A prune of the whole host takes the run's own objects.
Prune(j) ==
  /\ Up(j) /\ at[j] = "running" /\ req[j].pc = "none" /\ Scoped(j) # {}
  /\ labelled' = labelled \ Scoped(j)
  /\ mount' = [mount EXCEPT ![j] = NoRep]
  /\ UNCHANGED <<phase, home, at, table, ledger, saving, todo, flock, req, proc, late, crashes, fails>>

-----------------------------------------------------------------------------
(* The end of a run. *)

\* The command ends by itself, or is cancelled and stopped by its marker; a
\* stop that fails leaves its processes.
CommandOver(j) ==
  /\ Up(j) /\ at[j] \in {"running", "alone"}
  /\ at' = [at EXCEPT ![j] = IF @ = "running" THEN "boxes" ELSE "ended"]
  /\ \/ proc' = proc \ {j} /\ UNCHANGED fails
     \/ fails < MaxFail /\ fails' = fails + 1 /\ UNCHANGED proc
  /\ UNCHANGED <<phase, home, table, ledger, saving, todo, flock, req, labelled, mount, late, crashes>>

\* A run is without objects of one kind once they were listed and removed; a
\* request that fails leaves them.
Removing(j, kind) ==
  \/ /\ labelled' = labelled \ {<<j, kind>>}
     /\ mount' = IF kind = "box" THEN [mount EXCEPT ![j] = NoRep] ELSE mount
     /\ UNCHANGED fails
  \/ /\ fails < MaxFail /\ fails' = fails + 1
     /\ UNCHANGED <<labelled, mount>>

\* RunnerAttachment::finish: the proxy stopped; teardown_run, containers first.
Teardown(j) ==
  /\ Up(j) /\ at[j] \in {"boxes", "vols"}
  /\ IF at[j] = "boxes" THEN Removing(j, "box")
     ELSE IF <<j, "box">> \notin labelled THEN Removing(j, "vol")
     ELSE UNCHANGED <<labelled, mount, fails>>
  /\ at' = [at EXCEPT ![j] = IF @ = "boxes" THEN "vols" ELSE "ended"]
  /\ UNCHANGED <<phase, home, table, ledger, saving, todo, flock, req, proc, late, crashes>>

\* finish, by the job actor that handles the completion: the record, the
\* holders and the locks go.
FinishRun(j) ==
  /\ Up(j) /\ at[j] = "ended" /\ Free(home[j])
  /\ at' = [at EXCEPT ![j] = "over"]
  /\ table' = [table EXCEPT ![j] = "none"]
  /\ flock' = [r \in Replica |-> IF flock[r] = j THEN NoJob ELSE flock[r]]
  /\ Copying(home[j], home[j], table')
  /\ UNCHANGED <<phase, home, ledger, todo, req, rnDocker, crashes, fails>>

-----------------------------------------------------------------------------
(* A daemon dies, and its successor reaps. *)

\* The kernel drops the locks; processes, containers and what Docker already
\* has been sent stay.
CrashDaemon(d) ==
  /\ phase[d] # "down" /\ crashes < MaxCrash
  /\ crashes' = crashes + 1 /\ phase' = [phase EXCEPT ![d] = "down"]
  /\ at' = [j \in RJob |-> IF j \in Of(d) THEN "lost" ELSE at[j]]
  /\ table' = [j \in RJob |-> IF j \in Of(d) THEN "none" ELSE table[j]]
  /\ saving' = [t \in Thread |-> IF DaemonOf(t) = d THEN NotSaving ELSE saving[t]]
  /\ flock' = [r \in Replica |-> IF flock[r] \in Of(d) THEN NoJob ELSE flock[r]]
  /\ req' = [j \in RJob |-> IF j \in Of(d) /\ req[j].pc # "sent" THEN NoReq ELSE req[j]]
  /\ todo' = [todo EXCEPT ![d] = {}]
  /\ UNCHANGED <<home, ledger, rnDocker, fails>>

\* orphaned_runs: what the ledger says.
StartDaemon(d) ==
  /\ phase[d] = "down" /\ phase' = [phase EXCEPT ![d] = "reap"]
  /\ todo' = [todo EXCEPT ![d] = {j \in RJob : ledger[d][j] # "none"}]
  /\ UNCHANGED <<home, at, table, ledger, saving, flock, req, rnDocker, crashes, fails>>

\* reap_orphaned_runs: the processes in the recorded container, then teardown.
ReapRun(d, j) ==
  /\ phase[d] = "reap" /\ j \in todo[d]
  /\ todo' = [todo EXCEPT ![d] = @ \ {j}]
  /\ proc' = IF ledger[d][j] = "attached" THEN proc \ {j} ELSE proc
  /\ \/ labelled' = {o \in labelled : o[1] # j} /\ mount' = [mount EXCEPT ![j] = NoRep]
        /\ UNCHANGED fails
     \/ fails < MaxFail /\ fails' = fails + 1 /\ UNCHANGED <<labelled, mount>>
  /\ UNCHANGED <<phase, home, at, table, ledger, saving, flock, req, late, crashes>>

\* stray_runs: labelled by this daemon, and not live.
StrayRuns(d) == {j \in Of(d) : ~InTable(j) /\ \E o \in labelled : o[1] = j}

\* The sweep's listing; what Docker makes after it is late.
ListStray(d) ==
  /\ phase[d] = "reap" /\ todo[d] = {}
  /\ phase' = [phase EXCEPT ![d] = "sweep"]
  /\ todo' = [todo EXCEPT ![d] = StrayRuns(d)]
  /\ UNCHANGED <<home, at, table, ledger, saving, flock, req, rnDocker, crashes, fails>>

SweepRun(d, j) ==
  /\ phase[d] = "sweep" /\ j \in todo[d]
  /\ todo' = [todo EXCEPT ![d] = @ \ {j}]
  /\ \/ labelled' = {o \in labelled : o[1] # j} /\ mount' = [mount EXCEPT ![j] = NoRep]
        /\ UNCHANGED fails
     \/ fails < MaxFail /\ fails' = fails + 1 /\ UNCHANGED <<labelled, mount>>
  /\ UNCHANGED <<phase, home, at, table, ledger, saving, flock, req, proc, late, crashes>>

\* clear_ledger, before any job starts.
OpenDaemon(d) ==
  /\ phase[d] = "sweep" /\ todo[d] = {}
  /\ phase' = [phase EXCEPT ![d] = "up"]
  /\ ledger' = [ledger EXCEPT ![d] = RecordsOf(d, table)]
  /\ UNCHANGED <<home, at, table, saving, todo, flock, req, rnDocker, crashes, fails>>

RnNext ==
  \/ \E t \in Thread : WriteLedger(t)
  \/ \E d \in RDaemon, j \in RJob : BeginRun(d, j) \/ ReapRun(d, j) \/ SweepRun(d, j)
  \/ \E j \in RJob : \/ AttachRun(j) \/ StartCommand(j) \/ Accept(j) \/ Prune(j) \/ LeaseCache(j) \/ DockerMakes(j)
                     \/ CommandOver(j) \/ Teardown(j) \/ FinishRun(j)
  \/ \E j, k \in RJob : ForwardCreate(j, k) \/ RemoveAddressed(j, k)
  \/ \E d \in RDaemon : CrashDaemon(d) \/ StartDaemon(d) \/ ListStray(d) \/ OpenDaemon(d)

RnSpec == RnInit /\ [][RnNext]_rnVars

-----------------------------------------------------------------------------
(* Properties. *)

\* Runs that are both still running, of one daemon or of two, never have one
\* replica of an exclusive cache mounted: not when a daemon died and its lock
\* files were freed, not when a request is handled while its run ends.
OneRunPerReplica ==
  \A j, k \in RJob : j # k /\ InTable(j) /\ InTable(k) /\ mount[j] \in Replica => mount[j] # mount[k]

\* A daemon that takes jobs has removed every container its predecessor's
\* runs left, in the ledger or not, except what Docker finished after the
\* run's end or refused to remove.
SweptIsGone ==
  \A d \in RDaemon, j \in RJob :
    phase[d] = "up" /\ home[j] = d /\ at[j] = "lost" /\ fails = 0 /\ j \notin late
      => \A kind \in Kinds : <<j, kind>> \notin labelled

\* What goes from Docker went by its own run's request or teardown, or in the
\* reaping of its own daemon: a live run's objects are never swept.
RemovesOwn ==
     \A o \in labelled \ labelled' :
        LET j == o[1] IN
        \/ phase[home[j]] = "up" /\ at[j] \in {"running", "boxes", "vols"}
        \/ phase[home[j]] \in {"reap", "sweep"} /\ ~InTable(j)
=============================================================================
