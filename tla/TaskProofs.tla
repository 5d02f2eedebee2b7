------------------------------ MODULE TaskProofs ------------------------------
(***************************************************************************)
(* Proofs about a job at work (module TaskRun), for every budget, length   *)
(* of the channel and amount of output, and about the GitHub proxies that  *)
(* tasks speak through (module GithubProxy), for any number of proxies,    *)
(* handlers, credentials, paths and answers and any limits of the cache.   *)
(***************************************************************************)
EXTENDS TaskRun, GithubProxy, SequenceTheorems, WellFoundedInduction, TLAPS

TaskRunTypeOK ==
    /\ kind \in {"prepare", "task", "app_task", "guest_task"} /\ limit \in Nat
    /\ step \in 0 .. Len(Shares)
    /\ state \in {"new", "between", "streaming", "blocked", "failing", "stopping", "closing", "done"}
    /\ cause \in {"none", "ok", "failed", "lost", "spawn", "early", "stopped"}
    /\ cli \in {"none", "running", "exited"} /\ code \in {"ok", "failed", "lost"}
    /\ remote \in {"none", "asked", "running", "gone"}
    /\ pipe \in Nat /\ read \in Nat /\ queue \in Nat /\ produced \in Nat /\ logged \in Nat
    /\ forwarder \in {"up", "failed"}

\* The chunk a blocked reader has in its hand.
InHand == IF state = "blocked" THEN 1 ELSE 0

\* As long as no command was given up and the forwarder lives, every chunk that was
\* written is in the log, in the channel, in the reader's hand or in the pipe.
Flow ==
    /\ state \in {"new", "between"} \/ (state = "closing" /\ cause = "ok") => pipe = 0
    /\ forwarder = "up" /\ (state \in {"new", "between", "streaming", "blocked"}
                            \/ (state = "closing" /\ cause = "ok"))
           => produced = logged + queue + InHand + pipe
    /\ outcome = "ok" => /\ state = "done" /\ logged = produced
                         /\ queue = 0 /\ forwarder = "up"

\* What the commands before the present one may have written to the log.
Spent == IF step <= 1 THEN 0 ELSE IF step = 2 THEN Shares[1] ELSE Shares[1] + Shares[2]

\* Every command keeps to its share.
Budget ==
    /\ logged + queue + InHand <= Spent + read
    /\ step = 0 => read = 0
    /\ step > 0 => read <= Shares[step]

\* The client and the process in the container, against the job's state.
Clients ==
    /\ state \in {"new", "between", "failing", "closing", "done"} => cli = "none"
    /\ state \in {"streaming", "blocked"} /\ cli = "exited" /\ Remote /\ code # "lost"
           => remote = "gone"
    /\ state \in {"streaming", "blocked"} => step > 0
    /\ state \in {"failing", "stopping"} => cause = "early"
    /\ cause = "stopped" => state \in {"closing", "done"}

\* What the session says, or is about to.
SessionTrue ==
    /\ session = "open" => Remote
    /\ session \in {"succeeded", "failed", "stopped"} => state = "done"
    /\ state = "closing" /\ cause \in {"ok", "failed"} /\ session = "open" => remote = "gone"
    /\ state = "closing" /\ cause = "stopped" => remote # "running" \/ late
    /\ SessionClosedIsGone

TInv == TaskRunTypeOK /\ Flow /\ Budget /\ Clients /\ SessionTrue

-----------------------------------------------------------------------------

\* The executors split a budget into shares that add up to no more than it.
LEMMA SharesFacts ==
    ASSUME kind \in {"prepare", "task", "app_task", "guest_task"}, limit \in Nat
    PROVE  /\ Len(Shares) \in {1, 2, 3} /\ DOMAIN Shares = 1 .. Len(Shares)
           /\ \A i \in 1 .. Len(Shares) : Shares[i] \in Nat
           /\ Shares[1] <= limit
           /\ Len(Shares) >= 2 => Shares[1] + Shares[2] <= limit
           /\ Len(Shares) = 3 => Shares[1] + Shares[2] + Shares[3] <= limit
<1>1. PICK q, h : q = limit \div 4 /\ h = limit \div 2
  OBVIOUS
<1>2. /\ q \in Nat /\ h \in Nat /\ 4 * q <= limit /\ 2 * h <= limit
  BY <1>1
<1>3. CASE kind = "prepare"
  <2>1. Shares = <<limit>>
    BY <1>3 DEF Shares, SharesOf, PrepareShares
  <2> QED
    BY <2>1
<1>4. CASE kind = "task"
  <2>1. Shares = <<h, limit - h>>
    BY <1>1, <1>4 DEF Shares, SharesOf, TaskShares
  <2> QED
    BY <1>2, <2>1
<1>5. CASE kind = "app_task"
  <2>1. Shares = <<q, q, limit - 3 * q>>
    BY <1>1, <1>5 DEF Shares, SharesOf, AppTaskShares
  <2> QED
    BY <1>2, <2>1
<1>6. CASE kind = "guest_task"
  <2>1. Shares = <<q, q, limit - 2 * q>>
    BY <1>1, <1>6 DEF Shares, SharesOf, GuestShares
  <2> QED
    BY <1>2, <2>1
<1> QED
  BY <1>3, <1>4, <1>5, <1>6

LEMMA SpentFacts ==
    ASSUME TaskRunTypeOK
    PROVE  /\ Spent \in Nat /\ Spent <= limit
           /\ step > 0 => Shares[step] \in Nat /\ Spent + Shares[step] <= limit
<1>1. step \in 0 .. Len(Shares) /\ limit \in Nat
  BY DEF TaskRunTypeOK
<1>2. step \in {0, 1, 2, 3}
  BY <1>1, SharesFacts DEF TaskRunTypeOK
<1>3. CASE step = 0
  BY <1>1, <1>3 DEF Spent
<1>4. CASE step = 1
  BY <1>1, <1>4, SharesFacts DEF Spent, TaskRunTypeOK
<1>5. CASE step = 2
  BY <1>1, <1>5, SharesFacts DEF Spent, TaskRunTypeOK
<1>6. CASE step = 3
  BY <1>1, <1>6, SharesFacts DEF Spent, TaskRunTypeOK
<1> QED
  BY <1>2, <1>3, <1>4, <1>5, <1>6

LEMMA SharesStay ==
    ASSUME kind' = kind, limit' = limit, step' = step
    PROVE  Shares' = Shares /\ Spent' = Spent /\ Remote' = Remote
<1>1. Shares' = Shares
  BY DEF Shares
<1> QED
  BY <1>1 DEF Spent, Remote

LEMMA RejectInv ==
    ASSUME TInv, Reject
    PROVE  TInv'
<1>1. kind' = kind /\ limit' = limit /\ step' = step
  BY DEF Reject, Return
<1>2. Shares' = Shares /\ Spent' = Spent /\ Remote' = Remote
  BY <1>1, SharesStay
<1>3. TaskRunTypeOK'
  BY <1>1, <1>2 DEF TInv, TaskRunTypeOK, clientVars, Reject, Return
<1>4. Flow'
  BY DEF TInv, TaskRunTypeOK, Flow, InHand, Clients, clientVars, Reject, Return
<1>5. Budget'
  BY <1>1, <1>2, SpentFacts DEF TInv, TaskRunTypeOK, Budget, InHand, clientVars, Reject, Return
<1>6. Clients'
  BY <1>1, <1>2 DEF TInv, TaskRunTypeOK, Clients, clientVars, Reject, Return
<1>7. SessionTrue'
  BY <1>1, <1>2 DEF TInv, TaskRunTypeOK, SessionTrue, SessionClosedIsGone, Clients, clientVars, Reject, Return
<1> QED
  BY <1>3, <1>4, <1>5, <1>6, <1>7 DEF TInv

LEMMA PlannedInv ==
    ASSUME TInv, Planned
    PROVE  TInv'
<1>1. kind' = kind /\ limit' = limit /\ step' = step
  BY DEF Planned
<1>2. Shares' = Shares /\ Spent' = Spent /\ Remote' = Remote
  BY <1>1, SharesStay
<1>3. TaskRunTypeOK'
  BY <1>1, <1>2 DEF TInv, TaskRunTypeOK, clientVars, Planned
<1>4. Flow'
  BY DEF TInv, TaskRunTypeOK, Flow, InHand, Clients, clientVars, Planned
<1>5. Budget'
  BY <1>1, <1>2, SpentFacts DEF TInv, TaskRunTypeOK, Budget, InHand, clientVars, Planned
<1>6. Clients'
  BY <1>1, <1>2 DEF TInv, TaskRunTypeOK, Clients, clientVars, Planned
<1>7. SessionTrue'
  BY <1>1, <1>2 DEF TInv, TaskRunTypeOK, SessionTrue, SessionClosedIsGone, Clients, clientVars, Planned
<1> QED
  BY <1>3, <1>4, <1>5, <1>6, <1>7 DEF TInv

LEMMA GiveUpInv ==
    ASSUME TInv, GiveUp
    PROVE  TInv'
<1>1. kind' = kind /\ limit' = limit /\ step' = step
  BY DEF GiveUp
<1>2. Shares' = Shares /\ Spent' = Spent /\ Remote' = Remote
  BY <1>1, SharesStay
<1>3. TaskRunTypeOK'
  BY <1>1, <1>2 DEF TInv, TaskRunTypeOK, clientVars, GiveUp
<1>4. Flow'
  BY DEF TInv, TaskRunTypeOK, Flow, InHand, Clients, clientVars, GiveUp
<1>5. Budget'
  BY <1>1, <1>2, SpentFacts DEF TInv, TaskRunTypeOK, Budget, InHand, clientVars, GiveUp
<1>6. Clients'
  BY <1>1, <1>2 DEF TInv, TaskRunTypeOK, Clients, clientVars, GiveUp
<1>7. SessionTrue'
  BY <1>1, <1>2 DEF TInv, TaskRunTypeOK, SessionTrue, SessionClosedIsGone, Clients, clientVars, GiveUp
<1> QED
  BY <1>3, <1>4, <1>5, <1>6, <1>7 DEF TInv

LEMMA ReapInv ==
    ASSUME TInv, state \in {"streaming", "blocked"}, Reap
    PROVE  TInv'
<1>1. kind' = kind /\ limit' = limit /\ step' = step
  BY DEF Reap
<1>2. Shares' = Shares /\ Spent' = Spent /\ Remote' = Remote
  BY <1>1, SharesStay
<1>3. TaskRunTypeOK'
  BY <1>1, <1>2 DEF TInv, TaskRunTypeOK, clientVars, Reap
<1>4. Flow'
  BY DEF TInv, TaskRunTypeOK, Flow, InHand, Clients, clientVars, Reap
<1>5. Budget'
  BY <1>1, <1>2, SpentFacts DEF TInv, TaskRunTypeOK, Budget, InHand, clientVars, Reap
<1>6. Clients'
  BY <1>1, <1>2 DEF TInv, TaskRunTypeOK, Clients, clientVars, Reap
<1>7. SessionTrue'
  BY <1>1, <1>2 DEF TInv, TaskRunTypeOK, SessionTrue, SessionClosedIsGone, Clients, clientVars, Reap
<1> QED
  BY <1>3, <1>4, <1>5, <1>6, <1>7 DEF TInv

LEMMA ReadChunkInv ==
    ASSUME TInv, ReadChunk
    PROVE  TInv'
<1>1. kind' = kind /\ limit' = limit /\ step' = step
  BY DEF ReadChunk, TakeChunk
<1>2. Shares' = Shares /\ Spent' = Spent /\ Remote' = Remote
  BY <1>1, SharesStay
<1>3. TaskRunTypeOK'
  BY <1>1, <1>2 DEF TInv, TaskRunTypeOK, clientVars, ReadChunk, TakeChunk
<1>4. Flow'
  BY DEF TInv, TaskRunTypeOK, Flow, InHand, Clients, clientVars, ReadChunk, TakeChunk
<1>5. Budget'
  BY <1>1, <1>2, SpentFacts DEF TInv, TaskRunTypeOK, Budget, Clients, InHand, clientVars, ReadChunk, TakeChunk
<1>6. Clients'
  BY <1>1, <1>2 DEF TInv, TaskRunTypeOK, Clients, clientVars, ReadChunk, TakeChunk
<1>7. SessionTrue'
  BY <1>1, <1>2 DEF TInv, TaskRunTypeOK, SessionTrue, SessionClosedIsGone, Clients, clientVars, ReadChunk, TakeChunk
<1> QED
  BY <1>3, <1>4, <1>5, <1>6, <1>7 DEF TInv

LEMMA UnblockInv ==
    ASSUME TInv, Unblock
    PROVE  TInv'
<1>1. kind' = kind /\ limit' = limit /\ step' = step
  BY DEF Unblock
<1>2. Shares' = Shares /\ Spent' = Spent /\ Remote' = Remote
  BY <1>1, SharesStay
<1>3. TaskRunTypeOK'
  BY <1>1, <1>2 DEF TInv, TaskRunTypeOK, clientVars, Unblock
<1>4. Flow'
  BY DEF TInv, TaskRunTypeOK, Flow, InHand, Clients, clientVars, Unblock
<1>5. Budget'
  BY <1>1, <1>2, SpentFacts DEF TInv, TaskRunTypeOK, Budget, InHand, clientVars, Unblock
<1>6. Clients'
  BY <1>1, <1>2 DEF TInv, TaskRunTypeOK, Clients, clientVars, Unblock
<1>7. SessionTrue'
  BY <1>1, <1>2 DEF TInv, TaskRunTypeOK, SessionTrue, SessionClosedIsGone, Clients, clientVars, Unblock
<1> QED
  BY <1>3, <1>4, <1>5, <1>6, <1>7 DEF TInv

LEMMA CompletedInv ==
    ASSUME TInv, Completed
    PROVE  TInv'
<1>1. kind' = kind /\ limit' = limit /\ step' = step
  BY DEF Completed
<1>2. Shares' = Shares /\ Spent' = Spent /\ Remote' = Remote
  BY <1>1, SharesStay
<1>3. TaskRunTypeOK'
  BY <1>1, <1>2 DEF TInv, TaskRunTypeOK, clientVars, Completed
<1>4. Flow'
  BY DEF TInv, TaskRunTypeOK, Flow, InHand, Clients, clientVars, Completed
<1>5. Budget'
  BY <1>1, <1>2, SpentFacts DEF TInv, TaskRunTypeOK, Budget, InHand, clientVars, Completed
<1>6. Clients'
  BY <1>1, <1>2 DEF TInv, TaskRunTypeOK, Clients, clientVars, Completed
<1>7. SessionTrue'
  BY <1>1, <1>2 DEF TInv, TaskRunTypeOK, SessionTrue, SessionClosedIsGone, Clients, clientVars, Completed
<1> QED
  BY <1>3, <1>4, <1>5, <1>6, <1>7 DEF TInv

LEMMA AfterErrorInv ==
    ASSUME TInv, AfterError
    PROVE  TInv'
<1>1. kind' = kind /\ limit' = limit /\ step' = step
  BY DEF AfterError
<1>2. Shares' = Shares /\ Spent' = Spent /\ Remote' = Remote
  BY <1>1, SharesStay
<1>3. TaskRunTypeOK'
  BY <1>1, <1>2 DEF TInv, TaskRunTypeOK, clientVars, AfterError
<1>4. Flow'
  BY DEF TInv, TaskRunTypeOK, Flow, InHand, Clients, clientVars, AfterError
<1>5. Budget'
  BY <1>1, <1>2, SpentFacts DEF TInv, TaskRunTypeOK, Budget, InHand, clientVars, AfterError
<1>6. Clients'
  BY <1>1, <1>2 DEF TInv, TaskRunTypeOK, Clients, clientVars, AfterError
<1>7. SessionTrue'
  BY <1>1, <1>2 DEF TInv, TaskRunTypeOK, SessionTrue, SessionClosedIsGone, Clients, clientVars, AfterError
<1> QED
  BY <1>3, <1>4, <1>5, <1>6, <1>7 DEF TInv

LEMMA StopScriptInv ==
    ASSUME TInv, NEW gone \in BOOLEAN, StopScript(gone)
    PROVE  TInv'
<1>1. kind' = kind /\ limit' = limit /\ step' = step
  BY DEF StopScript
<1>2. Shares' = Shares /\ Spent' = Spent /\ Remote' = Remote
  BY <1>1, SharesStay
<1>3. TaskRunTypeOK'
  BY <1>1, <1>2 DEF TInv, TaskRunTypeOK, clientVars, StopScript
<1>4. Flow'
  BY DEF TInv, TaskRunTypeOK, Flow, InHand, Clients, clientVars, StopScript
<1>5. Budget'
  BY <1>1, <1>2, SpentFacts DEF TInv, TaskRunTypeOK, Budget, InHand, clientVars, StopScript
<1>6. Clients'
  BY <1>1, <1>2 DEF TInv, TaskRunTypeOK, Clients, clientVars, StopScript
<1>7. SessionTrue'
  BY <1>1, <1>2 DEF TInv, TaskRunTypeOK, SessionTrue, SessionClosedIsGone, Clients, clientVars, StopScript
<1> QED
  BY <1>3, <1>4, <1>5, <1>6, <1>7 DEF TInv

LEMMA OutcomeFacts ==
    ASSUME cause \in {"none", "ok", "failed", "lost", "spawn", "early", "stopped"}
    PROVE  /\ SessionOutcome # "open"
           /\ SessionOutcome \in {"succeeded", "failed", "stopped"} => cause \in {"ok", "failed", "stopped"}
<1>1. CASE cause = "ok"
  <2>1. SessionOutcome = "succeeded"
    BY <1>1 DEF SessionOutcome
  <2> QED
    BY <1>1, <2>1
<1>2. CASE cause = "failed"
  <2>1. SessionOutcome = "failed"
    BY <1>2 DEF SessionOutcome
  <2> QED
    BY <1>2, <2>1
<1>3. CASE cause = "stopped"
  <2>1. SessionOutcome = "stopped"
    BY <1>3 DEF SessionOutcome
  <2> QED
    BY <1>3, <2>1
<1>4. CASE cause \notin {"ok", "failed", "stopped"}
  <2>1. SessionOutcome = "uncertain"
    BY <1>4 DEF SessionOutcome
  <2> QED
    BY <2>1
<1> QED
  BY <1>1, <1>2, <1>3, <1>4

LEMMA CloseInv ==
    ASSUME TInv, NEW recorded \in BOOLEAN, Close(recorded)
    PROVE  TInv'
<1>1. kind' = kind /\ limit' = limit /\ step' = step
  BY DEF Close, Return
<1>2. Shares' = Shares /\ Spent' = Spent /\ Remote' = Remote
  BY <1>1, SharesStay
<1>3. TaskRunTypeOK'
  BY <1>1, <1>2 DEF TInv, TaskRunTypeOK, clientVars, Close, Return
<1>4. Flow'
  BY DEF TInv, TaskRunTypeOK, Flow, InHand, Clients, clientVars, Close, Return
<1>5. Budget'
  BY <1>1, <1>2, SpentFacts DEF TInv, TaskRunTypeOK, Budget, InHand, clientVars, Close, Return
<1>6. Clients'
  BY <1>1, <1>2 DEF TInv, TaskRunTypeOK, Clients, clientVars, Close, Return
<1>7. SessionTrue'
  <2>1. /\ SessionOutcome # "open"
        /\ SessionOutcome \in {"succeeded", "failed", "stopped"} => cause \in {"ok", "failed", "stopped"}
    BY OutcomeFacts DEF TInv, TaskRunTypeOK
  <2>2. /\ state = "closing" /\ state' = "done" /\ remote' = remote /\ late' = late
        /\ session' = IF session = "open" /\ recorded THEN SessionOutcome ELSE session
    BY DEF Close, Return, clientVars
  <2>3. session' \in {"succeeded", "failed", "stopped"} =>
          session = "open" /\ cause \in {"ok", "failed", "stopped"}
    BY <2>1, <2>2 DEF TInv, SessionTrue
  <2>4. session' = "open" => Remote'
    BY <1>2, <2>1, <2>2 DEF TInv, SessionTrue
  <2>5. session' \in {"succeeded", "failed", "stopped"} => remote' # "running" \/ late'
    BY <2>2, <2>3 DEF TInv, SessionTrue
  <2> QED
    BY <2>2, <2>4, <2>5 DEF SessionTrue, SessionClosedIsGone
<1> QED
  BY <1>3, <1>4, <1>5, <1>6, <1>7 DEF TInv

LEMMA ForwardInv ==
    ASSUME TInv, Forward
    PROVE  TInv'
<1>1. kind' = kind /\ limit' = limit /\ step' = step
  BY DEF Forward
<1>2. Shares' = Shares /\ Spent' = Spent /\ Remote' = Remote
  BY <1>1, SharesStay
<1>3. TaskRunTypeOK'
  BY <1>1, <1>2 DEF TInv, TaskRunTypeOK, clientVars, Forward
<1>4. Flow'
  BY DEF TInv, TaskRunTypeOK, Flow, InHand, Clients, clientVars, Forward
<1>5. Budget'
  BY <1>1, <1>2, SpentFacts DEF TInv, TaskRunTypeOK, Budget, InHand, clientVars, Forward
<1>6. Clients'
  BY <1>1, <1>2 DEF TInv, TaskRunTypeOK, Clients, clientVars, Forward
<1>7. SessionTrue'
  BY <1>1, <1>2 DEF TInv, TaskRunTypeOK, SessionTrue, SessionClosedIsGone, Clients, clientVars, Forward
<1> QED
  BY <1>3, <1>4, <1>5, <1>6, <1>7 DEF TInv

LEMMA SinkFailsInv ==
    ASSUME TInv, SinkFails
    PROVE  TInv'
<1>1. kind' = kind /\ limit' = limit /\ step' = step
  BY DEF SinkFails
<1>2. Shares' = Shares /\ Spent' = Spent /\ Remote' = Remote
  BY <1>1, SharesStay
<1>3. TaskRunTypeOK'
  BY <1>1, <1>2 DEF TInv, TaskRunTypeOK, clientVars, SinkFails
<1>4. Flow'
  BY DEF TInv, TaskRunTypeOK, Flow, InHand, Clients, clientVars, SinkFails
<1>5. Budget'
  BY <1>1, <1>2, SpentFacts DEF TInv, TaskRunTypeOK, Budget, InHand, clientVars, SinkFails
<1>6. Clients'
  BY <1>1, <1>2 DEF TInv, TaskRunTypeOK, Clients, clientVars, SinkFails
<1>7. SessionTrue'
  BY <1>1, <1>2 DEF TInv, TaskRunTypeOK, SessionTrue, SessionClosedIsGone, Clients, clientVars, SinkFails
<1> QED
  BY <1>3, <1>4, <1>5, <1>6, <1>7 DEF TInv

LEMMA WritesInv ==
    ASSUME TInv, Writes
    PROVE  TInv'
<1>1. kind' = kind /\ limit' = limit /\ step' = step
  BY DEF Writes
<1>2. Shares' = Shares /\ Spent' = Spent /\ Remote' = Remote
  BY <1>1, SharesStay
<1>3. TaskRunTypeOK'
  BY <1>1, <1>2 DEF TInv, TaskRunTypeOK, clientVars, Writes
<1>4. Flow'
  BY DEF TInv, TaskRunTypeOK, Flow, InHand, Clients, clientVars, Writes
<1>5. Budget'
  BY <1>1, <1>2, SpentFacts DEF TInv, TaskRunTypeOK, Budget, InHand, clientVars, Writes
<1>6. Clients'
  BY <1>1, <1>2 DEF TInv, TaskRunTypeOK, Clients, clientVars, Writes
<1>7. SessionTrue'
  BY <1>1, <1>2 DEF TInv, TaskRunTypeOK, SessionTrue, SessionClosedIsGone, Clients, clientVars, Writes
<1> QED
  BY <1>3, <1>4, <1>5, <1>6, <1>7 DEF TInv

LEMMA ExitsInv ==
    ASSUME TInv, NEW c \in {"ok", "failed", "lost"}, Exits(c)
    PROVE  TInv'
<1>1. kind' = kind /\ limit' = limit /\ step' = step
  BY DEF Exits
<1>2. Shares' = Shares /\ Spent' = Spent /\ Remote' = Remote
  BY <1>1, SharesStay
<1>3. TaskRunTypeOK'
  BY <1>1, <1>2 DEF TInv, TaskRunTypeOK, clientVars, Exits
<1>4. Flow'
  BY DEF TInv, TaskRunTypeOK, Flow, InHand, Clients, clientVars, Exits
<1>5. Budget'
  BY <1>1, <1>2, SpentFacts DEF TInv, TaskRunTypeOK, Budget, InHand, clientVars, Exits
<1>6. Clients'
  BY <1>1, <1>2 DEF TInv, TaskRunTypeOK, Clients, clientVars, Exits
<1>7. SessionTrue'
  BY <1>1, <1>2 DEF TInv, TaskRunTypeOK, SessionTrue, SessionClosedIsGone, Clients, clientVars, Exits
<1> QED
  BY <1>3, <1>4, <1>5, <1>6, <1>7 DEF TInv

LEMMA RemoteBeginsInv ==
    ASSUME TInv, RemoteBegins
    PROVE  TInv'
<1>1. kind' = kind /\ limit' = limit /\ step' = step
  BY DEF RemoteBegins
<1>2. Shares' = Shares /\ Spent' = Spent /\ Remote' = Remote
  BY <1>1, SharesStay
<1>3. TaskRunTypeOK'
  BY <1>1, <1>2 DEF TInv, TaskRunTypeOK, clientVars, RemoteBegins
<1>4. Flow'
  BY DEF TInv, TaskRunTypeOK, Flow, InHand, Clients, clientVars, RemoteBegins
<1>5. Budget'
  BY <1>1, <1>2, SpentFacts DEF TInv, TaskRunTypeOK, Budget, InHand, clientVars, RemoteBegins
<1>6. Clients'
  BY <1>1, <1>2 DEF TInv, TaskRunTypeOK, Clients, clientVars, RemoteBegins
<1>7. SessionTrue'
  BY <1>1, <1>2 DEF TInv, TaskRunTypeOK, SessionTrue, SessionClosedIsGone, Clients, clientVars, RemoteBegins
<1> QED
  BY <1>3, <1>4, <1>5, <1>6, <1>7 DEF TInv

LEMMA RemoteEndsInv ==
    ASSUME TInv, RemoteEnds
    PROVE  TInv'
<1>1. kind' = kind /\ limit' = limit /\ step' = step
  BY DEF RemoteEnds
<1>2. Shares' = Shares /\ Spent' = Spent /\ Remote' = Remote
  BY <1>1, SharesStay
<1>3. TaskRunTypeOK'
  BY <1>1, <1>2 DEF TInv, TaskRunTypeOK, clientVars, RemoteEnds
<1>4. Flow'
  BY DEF TInv, TaskRunTypeOK, Flow, InHand, Clients, clientVars, RemoteEnds
<1>5. Budget'
  BY <1>1, <1>2, SpentFacts DEF TInv, TaskRunTypeOK, Budget, InHand, clientVars, RemoteEnds
<1>6. Clients'
  BY <1>1, <1>2 DEF TInv, TaskRunTypeOK, Clients, clientVars, RemoteEnds
<1>7. SessionTrue'
  BY <1>1, <1>2 DEF TInv, TaskRunTypeOK, SessionTrue, SessionClosedIsGone, Clients, clientVars, RemoteEnds
<1> QED
  BY <1>3, <1>4, <1>5, <1>6, <1>7 DEF TInv

LEMMA AskedInv ==
    ASSUME TInv, CancelTask \/ Expire \/ UNCHANGED taskVars
    PROVE  TInv'
<1>1. kind' = kind /\ limit' = limit /\ step' = step
  BY DEF CancelTask, Expire, taskVars
<1>2. Shares' = Shares /\ Spent' = Spent /\ Remote' = Remote
  BY <1>1, SharesStay
<1>3. TaskRunTypeOK'
  BY <1>1, <1>2 DEF TInv, TaskRunTypeOK, clientVars, CancelTask, Expire, taskVars
<1>4. Flow'
  BY DEF TInv, TaskRunTypeOK, Flow, InHand, Clients, clientVars, CancelTask, Expire, taskVars
<1>5. Budget'
  BY <1>1, <1>2, SpentFacts DEF TInv, TaskRunTypeOK, Budget, InHand, clientVars, CancelTask, Expire, taskVars
<1>6. Clients'
  BY <1>1, <1>2 DEF TInv, TaskRunTypeOK, Clients, clientVars, CancelTask, Expire, taskVars
<1>7. SessionTrue'
  BY <1>1, <1>2 DEF TInv, TaskRunTypeOK, SessionTrue, SessionClosedIsGone, Clients, clientVars, CancelTask, Expire, taskVars
<1> QED
  BY <1>3, <1>4, <1>5, <1>6, <1>7 DEF TInv

\* The next command begins: what the one before it wrote is spent.
LEMMA SpawnInv ==
    ASSUME TInv, Spawn
    PROVE  TInv'
<1>1. /\ kind' = kind /\ limit' = limit /\ step' = step + 1 /\ read' = 0
      /\ state = "between" /\ step < Len(Shares) /\ state' \in {"streaming", "closing"}
      /\ session' = IF LastIsRemote THEN "open" ELSE session
      /\ queue' = queue /\ produced' = produced /\ logged' = logged /\ forwarder' = forwarder
      /\ pipe' = pipe /\ code' = code /\ late' = late /\ outcome' = outcome
  BY DEF Spawn
<1>2. \/ /\ cli' = "running" /\ state' = "streaming" /\ cause' = "none"
         /\ remote' = IF LastIsRemote THEN "asked" ELSE remote
      \/ /\ state' = "closing" /\ cause' = "spawn" /\ cli' = cli /\ remote' = remote
  BY DEF Spawn
<1>3. Shares' = Shares
  BY <1>1 DEF Shares
<1>4. step \in Nat /\ Len(Shares) \in {1, 2, 3}
  BY SharesFacts DEF TInv, TaskRunTypeOK
<1>5. TaskRunTypeOK'
  BY <1>1, <1>2, <1>3, <1>4 DEF TInv, TaskRunTypeOK
<1>6. Flow'
  BY <1>1, <1>2 DEF TInv, Flow, InHand
<1>7. Budget'
  <2>1. Spent' \in Nat /\ Spent + read <= Spent' /\ Shares[step + 1] \in Nat
    <3>1. \A i \in 1 .. Len(Shares) : Shares[i] \in Nat
      BY SharesFacts DEF TInv, TaskRunTypeOK
    <3>2. read \in Nat /\ (step = 0 => read = 0) /\ (step > 0 => read <= Shares[step])
      BY DEF TInv, TaskRunTypeOK, Budget
    <3>3. CASE step = 0
      BY <1>1, <1>3, <1>4, <3>1, <3>2, <3>3 DEF Spent
    <3>4. CASE step = 1
      BY <1>1, <1>3, <1>4, <3>1, <3>2, <3>4 DEF Spent
    <3>5. CASE step = 2
      BY <1>1, <1>3, <1>4, <3>1, <3>2, <3>5 DEF Spent
    <3>6. step \in {0, 1, 2}
      <4>1. PICK n \in {1, 2, 3} : n = Len(Shares)
        BY <1>4
      <4>2. step < n
        BY <1>1, <4>1
      <4> QED
        BY <1>4, <4>2
    <3> QED
      BY <3>3, <3>4, <3>5, <3>6
  <2>2. InHand' = 0 /\ InHand = 0 /\ logged + queue + InHand <= Spent + read
    BY <1>1 DEF TInv, Budget, InHand
  <2>3. Spent \in Nat /\ read \in Nat /\ logged \in Nat /\ queue \in Nat
    BY SpentFacts DEF TInv, TaskRunTypeOK
  <2>4. PICK s \in Nat : s = Spent' /\ Spent + read <= s
    BY <2>1
  <2>5. logged' = logged /\ queue' = queue /\ read' = 0
    BY <1>1
  <2>6. logged + queue + 0 <= s + 0
    <3>1. logged + queue + 0 <= Spent + read /\ Spent + read <= s
      BY <2>2, <2>4, Zenon
    <3> QED
      BY <2>3, <3>1
  <2>7. logged' + queue' + InHand' <= Spent' + read'
    BY <2>2, <2>4, <2>5, <2>6, Zenon
  <2> QED
    BY <1>1, <1>3, <1>4, <2>1, <2>7 DEF Budget
<1>8. Clients'
  BY <1>1, <1>2, <1>4 DEF TInv, Clients
<1>9. SessionTrue'
  <2>1. LastIsRemote => Remote'
    BY <1>1, <1>3 DEF LastIsRemote, Remote
  <2>2. ~Remote
    BY <1>1, <1>4 DEF Remote
  <2> QED
    BY <1>1, <1>2, <2>1, <2>2 DEF TInv, SessionTrue, SessionClosedIsGone
<1> QED
  BY <1>5, <1>6, <1>7, <1>8, <1>9 DEF TInv

LEMMA InitTInv ==
    ASSUME TaskRunAssumption, TaskRunInit
    PROVE  TInv
<1>1. TaskRunTypeOK
  BY SharesFacts DEF TaskRunAssumption, TaskRunInit, TaskRunTypeOK
<1>2. Flow /\ Budget
  BY DEF TaskRunInit, Flow, Budget, Spent, InHand
<1>3. Clients /\ SessionTrue
  BY DEF TaskRunInit, Clients, SessionTrue, SessionClosedIsGone
<1> QED
  BY <1>1, <1>2, <1>3 DEF TInv

LEMMA NextTInv ==
    ASSUME TInv, [TaskRunNext]_taskVars
    PROVE  TInv'
<1>1. CASE Executor
  BY <1>1, RejectInv, PlannedInv, GiveUpInv, SpawnInv, AfterErrorInv, StopScriptInv, CloseInv
     DEF Executor
<1>2. CASE Reader
  <2>1. CASE Interrupt \/ OverLimit \/ Abandoned \/ Stalled
    BY <2>1, ReapInv DEF Interrupt, OverLimit, Abandoned, Stalled
  <2> QED
    BY <1>2, <2>1, ReadChunkInv, UnblockInv, CompletedInv DEF Reader
<1>3. CASE \E c \in {"ok", "failed", "lost"} : Exits(c)
  BY <1>3, ExitsInv
<1> QED
  BY <1>1, <1>2, <1>3, WritesInv, RemoteBeginsInv, RemoteEndsInv, ForwardInv, SinkFailsInv, AskedInv
     DEF TaskRunNext

LEMMA SpecTInv ==
    ASSUME TaskRunAssumption
    PROVE  TaskRunSpec => []TInv
<1>1. TaskRunInit => TInv
  BY InitTInv
<1>2. TInv /\ [TaskRunNext]_taskVars => TInv'
  BY NextTInv
<1> QED
  BY <1>1, <1>2, PTL DEF TaskRunSpec

\* task_executors.rs, bosn-engine stream: a job that succeeded has logged all its output,
\* and none logs more than it asked for; and a session is not recorded as ended over a
\* process that still runs (task.rs, task_stop.rs), for every budget, length of the
\* channel and amount of output, whatever is cancelled, killed, stalled or too late.
THEOREM TasksSafe ==
    ASSUME TaskRunAssumption
    PROVE  TaskRunSpec => []TaskRunSafe
<1>1. TInv => TaskRunSafe
  <2> SUFFICES ASSUME TInv PROVE TaskRunSafe
    OBVIOUS
  <2>1. logged <= limit
    <3>1. /\ logged \in Nat /\ queue \in Nat /\ InHand \in {0, 1} /\ read \in Nat /\ limit \in Nat
          /\ step \in Nat
      BY SharesFacts DEF TInv, TaskRunTypeOK, InHand
    <3>2. logged + queue + InHand <= Spent + read
      BY DEF TInv, Budget
    <3>3. CASE step = 0
      BY <3>1, <3>2, <3>3, SpentFacts DEF TInv, Budget
    <3>4. CASE step > 0
      <4>1. read <= Shares[step] /\ Spent \in Nat /\ Shares[step] \in Nat /\ Spent + Shares[step] <= limit
        BY <3>4, SpentFacts DEF TInv, Budget
      <4> QED
        BY <3>1, <3>2, <4>1
    <3> QED
      BY <3>1, <3>3, <3>4
  <2>2. outcome = "ok" => logged = produced
    BY DEF TInv, Flow
  <2> QED
    BY <2>1, <2>2 DEF TInv, SessionTrue, TaskRunSafe, OkLoggedAll
<1> QED
  BY <1>1, SpecTInv, PTL

-----------------------------------------------------------------------------
(* The cache of the GitHub proxies. *)

\* A set of natural numbers has a least one.
LEMMA LeastNatural ==
  ASSUME NEW T, T \subseteq Nat, T # {}
  PROVE  \E x \in T : \A y \in T : x <= y
<1>1. PICK x \in T : \A y \in T : ~(<<y, x>> \in OpToRel(<, Nat))
  BY NatLessThanWellFounded, WFMin
<1>2. \A y \in T : ~(y < x)
  BY <1>1 DEF OpToRel
<1> QED
  BY <1>2

\* The answer kept under a key is the one GitHub gave for it: of its path, in its form, to
\* its credential, and of the version its ETag names.
Kept(e, k) ==
  /\ e.etag \in Version /\ e.link = "github"
  /\ e.body = [path |-> k.path, form |-> k.form, cred |-> k.cred, ver |-> e.etag]

EntriesKept == DOMAIN entries \subseteq Key /\ \A k \in DOMAIN entries : Kept(entries[k], k)

\* A proxy that listens has resolved its credential.
ProxiesResolved ==
  /\ upstream \in [Paths -> Version]
  /\ runs \in [Proxies -> BOOLEAN] /\ cred \in [Proxies -> Credential \union {Unresolved}]
  /\ \A x \in Proxies : runs[x] => cred[x] \in Credential

Expected(h) ==
  [path |-> req[h].path, form |-> req[h].form, cred |-> cred[req[h].by], ver |-> head[h].ver]

\* A handler forwards an allowed request of a proxy that listens.
Forwards(h) == req[h] \in Requests /\ runs[req[h].by] /\ Allowed(req[h])
\* What it found in the cache was kept under its own key.
Found(h) == cached[h] = None \/ Kept(cached[h], KeyOf(req[h]))
\* The head it has is of a version, which its ETag names, and waits for a body only if
\* there is one.
Headed(h) ==
  /\ head[h].ver \in Version /\ head[h].etag \in {head[h].ver, NoVersion}
  /\ head[h].status \in {200, 304, 404}
Replied(h) ==
  /\ reply[h].body # None => reply[h].body = Expected(h) /\ reply[h].link = req[h].by
  /\ reply[h].status = 304 => req[h].holds = head[h].ver

HandlerKept(h) ==
  /\ at[h] \in {"idle", "sent", "body", "done"}
  /\ at[h] # "idle" => Forwards(h)
  /\ at[h] = "sent" => Found(h)
  /\ at[h] = "body" => Headed(h) /\ head[h].status # 304
  /\ at[h] = "done" => Headed(h) /\ Replied(h)

HandlerFunctions ==
  /\ at = [h \in Handlers |-> at[h]] /\ req = [h \in Handlers |-> req[h]]
  /\ cached = [h \in Handlers |-> cached[h]] /\ head = [h \in Handlers |-> head[h]]
  /\ reply = [h \in Handlers |-> reply[h]]

HandlersInv == HandlerFunctions /\ \A h \in Handlers : HandlerKept(h)
CacheInv == order \in Seq(Key) /\ CacheRow
ProxyInv == ProxiesResolved /\ EntriesKept /\ CacheInv /\ HandlersInv

-----------------------------------------------------------------------------
\* A sequence without one of its places.
LEMMA DropPlace ==
  ASSUME NEW S, NEW s \in Seq(S), NEW i \in 1 .. Len(s)
  PROVE  \E w \in Seq(S) :
           /\ w = SubSeq(s, 1, i - 1) \o SubSeq(s, i + 1, Len(s))
           /\ Len(w) = Len(s) - 1
           /\ \A j \in 1 .. Len(w) : w[j] = IF j < i THEN s[j] ELSE s[j + 1]
<1> DEFINE a == SubSeq(s, 1, i - 1)
           b == SubSeq(s, i + 1, Len(s))
           w == a \o b
<1>1. \A j \in 1 .. Len(s) : s[j] \in S
  OBVIOUS
<1>2. a \in Seq(S) /\ Len(a) = i - 1 /\ \A j \in 1 .. (i - 1) : a[j] = s[j]
  BY <1>1, SubSeqProperties, Len(s) \in Nat
<1>3. b \in Seq(S) /\ Len(b) = Len(s) - i /\ \A j \in 1 .. (Len(s) - i) : b[j] = s[i + j]
  BY <1>1, SubSeqProperties, Len(s) \in Nat
<1>5. w = SubSeq(s, 1, i - 1) \o SubSeq(s, i + 1, Len(s))
  OBVIOUS
<1> HIDE DEF a, b
<1>4. /\ w \in Seq(S) /\ Len(w) = Len(a) + Len(b)
      /\ \A j \in 1 .. Len(a) + Len(b) : w[j] = IF j <= Len(a) THEN a[j] ELSE b[j - Len(a)]
  BY <1>2, <1>3, ConcatProperties
<1> HIDE DEF w
<1>6. Len(w) = Len(s) - 1
  BY <1>2, <1>3, <1>4
<1>7. ASSUME NEW j \in 1 .. Len(w)
      PROVE  w[j] = IF j < i THEN s[j] ELSE s[j + 1]
  <2>1. w[j] = IF j <= i - 1 THEN a[j] ELSE b[j - (i - 1)]
    BY <1>2, <1>3, <1>4
  <2>2. CASE j < i
    BY <2>1, <2>2, <1>2
  <2>3. CASE ~(j < i)
    <3>1. w[j] = b[j - (i - 1)] /\ j - (i - 1) \in 1 .. (Len(s) - i)
      BY <2>1, <2>3, <1>6
    <3>2. b[j - (i - 1)] = s[i + (j - (i - 1))]
      BY <3>1, <1>3
    <3> QED
      BY <3>1, <3>2, <2>3
  <2> QED
    BY <2>2, <2>3
<1> QED
  BY <1>4, <1>5, <1>6, <1>7, Zenon

\* If no member stood twice, none does now, and the one that is gone is not there any more.
LEMMA DropMember ==
  ASSUME NEW S, NEW s \in Seq(S), IsInjective(s), NEW i \in 1 .. Len(s), NEW w \in Seq(S),
         Len(w) = Len(s) - 1, \A j \in 1 .. Len(w) : w[j] = IF j < i THEN s[j] ELSE s[j + 1]
  PROVE  IsInjective(w) /\ Range(w) = Range(s) \ {s[i]} /\ Len(w) <= Len(s)
<1>1. /\ w \in Seq(S) /\ Len(w) = Len(s) - 1
      /\ \A j \in 1 .. Len(w) : w[j] = IF j < i THEN s[j] ELSE s[j + 1]
  OBVIOUS
<1>2. \A c, d \in 1 .. Len(s) : s[c] = s[d] => c = d
  BY DEF IsInjective
<1>3. \A c, d \in 1 .. Len(w) : w[c] = w[d] => c = d
  BY <1>1, <1>2
<1>4. IsInjective(w)
  BY <1>1, <1>3 DEF IsInjective
<1>5. \A j \in 1 .. Len(w) : w[j] \in Range(s) \ {s[i]}
  <2> TAKE j \in 1 .. Len(w)
  <2>1. PICK k \in 1 .. Len(s) : w[j] = s[k] /\ k # i
    <3>1. CASE j < i
      BY <3>1, <1>1
    <3>2. CASE ~(j < i)
      BY <3>2, <1>1
    <3> QED
      BY <3>1, <3>2
  <2> QED
    BY <2>1, <1>2 DEF Range
<1>6. ASSUME NEW x \in Range(s) \ {s[i]}
      PROVE  x \in Range(w)
  <2>1. PICK j \in 1 .. Len(s) : s[j] = x
    BY DEF Range
  <2>2. j # i
    BY <2>1
  <2>3. CASE j < i
    <3>1. j \in 1 .. Len(w) /\ w[j] = x
      BY <2>1, <2>3, <1>1
    <3> QED
      BY <3>1, <1>1 DEF Range
  <2>4. CASE j > i
    <3>1. j - 1 \in 1 .. Len(w) /\ w[j - 1] = s[(j - 1) + 1]
      BY <2>1, <2>4, <1>1
    <3>2. w[j - 1] = x
      BY <3>1, <2>1
    <3> QED
      BY <3>1, <3>2, <1>1 DEF Range
  <2> QED
    BY <2>2, <2>3, <2>4
<1>7. Range(w) \subseteq Range(s) \ {s[i]}
  BY <1>1, <1>5 DEF Range
<1> QED
  BY <1>1, <1>4, <1>6, <1>7

\* The row without a key.
LEMMA WithoutFacts ==
  ASSUME order \in Seq(Key), IsInjective(order), NEW key \in Key
  PROVE  /\ Without(key) \in Seq(Key) /\ IsInjective(Without(key))
         /\ Range(Without(key)) = Range(order) \ {key}
         /\ Len(Without(key)) <= Len(order)
<1>1. CASE key \notin Range(order)
  BY <1>1 DEF Without
<1>2. CASE key \in Range(order)
  <2>1. PICK i \in 1 .. Len(order) :
            order[i] = key /\ i = CHOOSE j \in DOMAIN order : order[j] = key
    BY <1>2 DEF Range
  <2>2. Without(key) = SubSeq(order, 1, i - 1) \o SubSeq(order, i + 1, Len(order))
    BY <1>2, <2>1 DEF Without
  <2>3. PICK w \in Seq(Key) :
            /\ w = SubSeq(order, 1, i - 1) \o SubSeq(order, i + 1, Len(order))
            /\ Len(w) = Len(order) - 1
            /\ \A j \in 1 .. Len(w) : w[j] = IF j < i THEN order[j] ELSE order[j + 1]
    BY DropPlace
  <2>4. Without(key) = w
    BY <2>2, <2>3
  <2>5. IsInjective(w) /\ Range(w) = Range(order) \ {order[i]} /\ Len(w) <= Len(order)
    <3>1. Len(w) = Len(order) - 1 /\ \A j \in 1 .. Len(w) : w[j] = IF j < i THEN order[j] ELSE order[j + 1]
      BY <2>3
    <3> QED
      BY <3>1, DropMember
  <2> QED
    BY <2>1, <2>4, <2>5
<1> QED
  BY <1>1, <1>2

\* The loop of put stops.
LEMMA EvictedFacts ==
  ASSUME order \in Seq(Key), IsInjective(order), NEW key \in Key, NEW size
  PROVE  /\ Evicted(key, size) \in 0 .. Len(Without(key))
         /\ Fits(key, size, Evicted(key, size))
<1> DEFINE T == {n \in 0 .. Len(Without(key)) : Fits(key, size, n)}
<1>1. Len(Without(key)) \in Nat
  BY WithoutFacts
<1>2. Len(Without(key)) \in T
  BY <1>1 DEF Fits
<1>3. PICK n \in T : \A m \in T : n <= m
  <2>1. T \subseteq Nat /\ T # {}
    BY <1>2
  <2> HIDE DEF T
  <2> QED
    BY <2>1, LeastNatural
<1>4. n \in 0 .. Len(Without(key)) /\ Fits(key, size, n)
  OBVIOUS
<1>5. \A m \in 0 .. (n - 1) : ~Fits(key, size, m)
  <2> TAKE m \in 0 .. (n - 1)
  <2>1. m \in 0 .. Len(Without(key)) /\ ~(n <= m)
    BY <1>1, <1>4
  <2> QED
    BY <2>1, <1>3
<1> QED
  BY <1>4, <1>5 DEF Evicted

LEMMA PutInv ==
  ASSUME ProxyAssumption, EntriesKept, CacheInv, NEW key \in Key, NEW entry, Kept(entry, key),
         Put(key, entry)
  PROVE  EntriesKept' /\ CacheInv'
<1>1. CASE SizeOf(entry.body) > MaxBody
  <2>1. entries' = entries /\ order' = order
    BY <1>1 DEF Put, cacheVars
  <2> QED
    BY <2>1 DEF EntriesKept, CacheInv, CacheRow, SizeOf, Kept
<1>2. CASE ~(SizeOf(entry.body) > MaxBody)
  <2> DEFINE w == Without(key)
             size == SizeOf(entry.body)
             n == Evicted(key, size)
             gone == Range(SubSeq(w, 1, n))
  <2>1. /\ order' = Append(SubSeq(w, n + 1, Len(w)), key)
        /\ entries' = [k \in (DOMAIN entries \ gone) \union {key} |->
                         IF k = key THEN entry ELSE entries[k]]
    BY <1>2 DEF Put
  <2>2. order \in Seq(Key) /\ IsInjective(order) /\ Range(order) = DOMAIN entries
        /\ Len(order) <= MaxEntries /\ \A k \in DOMAIN entries : SizeOf(entries[k].body) <= MaxBody
    BY DEF CacheInv, CacheRow
  <2>3. w \in Seq(Key) /\ IsInjective(w) /\ Range(w) = Range(order) \ {key}
    BY <2>2, WithoutFacts
  <2>4. n \in 0 .. Len(w) /\ Fits(key, size, n)
    BY <2>2, EvictedFacts
  <2>5. EntriesKept'
    BY <2>1 DEF EntriesKept, Kept
  <2>6. Len(w) - n < MaxEntries
    BY <2>3, <2>4 DEF Fits, ProxyAssumption
  <2> HIDE DEF w, n, size
  <2>7. /\ order' \in Seq(Key) /\ Len(order') = Len(w) - n + 1
        /\ \A i \in 1 .. Len(order') : order'[i] = IF i <= Len(w) - n THEN w[n + i] ELSE key
    BY <2>1, <2>3, <2>4
  <2>8. Len(order') <= MaxEntries
    BY <2>6, <2>7, <2>3, <2>4 DEF ProxyAssumption
  <2>9. /\ \A a, b \in 1 .. Len(w) : w[a] = w[b] => a = b
        /\ \A a \in 1 .. Len(w) : w[a] # key
    BY <2>3 DEF IsInjective, Range
  <2>10. IsInjective(order')
    <3>1. \A a, b \in 1 .. Len(order') : order'[a] = order'[b] => a = b
      BY <2>3, <2>4, <2>7, <2>9
    <3> QED
      BY <3>1, <2>7 DEF IsInjective
  <2>11. gone = {w[i] : i \in 1 .. n}
    <3>1. \A i \in 1 .. n : w[i] \in Key
      BY <2>3, <2>4
    <3>2. Len(SubSeq(w, 1, n)) = n /\ \A i \in 1 .. n : SubSeq(w, 1, n)[i] = w[i]
      BY <3>1, <2>4, SubSeqProperties
    <3>3. DOMAIN SubSeq(w, 1, n) = 1 .. n
      BY <3>1, <3>2, <2>4, SubSeqProperties
    <3> QED
      BY <3>2, <3>3 DEF Range
  <2>12. DOMAIN entries' = (DOMAIN entries \ gone) \union {key}
    BY <2>1
  <2> HIDE DEF gone
  <2>13. Range(order') \subseteq DOMAIN entries'
    <3> SUFFICES ASSUME NEW i \in 1 .. Len(order')
                 PROVE  order'[i] \in DOMAIN entries'
      BY <2>7 DEF Range
    <3>1. CASE i > Len(w) - n
      BY <3>1, <2>7, <2>12, <2>3, <2>4
    <3>2. CASE i <= Len(w) - n
      <4>1. n + i \in 1 .. Len(w) /\ order'[i] = w[n + i] /\ n + i \notin 1 .. n
        BY <3>2, <2>7, <2>3, <2>4
      <4>2. w[n + i] \in DOMAIN entries
        <5>1. w[n + i] \in Range(w)
          <6>1. DOMAIN w = 1 .. Len(w)
            BY <2>3
          <6> QED
            BY <6>1, <4>1 DEF Range
        <5> QED
          BY <5>1, <2>2, <2>3
      <4>3. w[n + i] \notin gone
        <5>1. \A j \in 1 .. n : j \in 1 .. Len(w) /\ j # n + i
          BY <4>1, <2>3, <2>4
        <5>2. \A j \in 1 .. n : w[j] # w[n + i]
          BY <5>1, <4>1, <2>9, Zenon
        <5> QED
          BY <5>2, <2>11, Zenon
      <4> QED
        BY <4>1, <4>2, <4>3, <2>12
    <3> QED
      BY <3>1, <3>2, <2>3, <2>4, <2>7
  <2>14. DOMAIN entries' \subseteq Range(order')
    <3> SUFFICES ASSUME NEW k \in DOMAIN entries'
                 PROVE  \E i \in 1 .. Len(order') : order'[i] = k
      BY <2>7 DEF Range
    <3>1. CASE k = key
      <4>1. Len(order') \in 1 .. Len(order') /\ order'[Len(order')] = key
        BY <2>7, <2>3, <2>4
      <4> QED
        BY <4>1, <3>1
    <3>2. CASE k # key
      <4>1. k \in Range(w) /\ k \notin gone
        BY <3>2, <2>12, <2>2, <2>3
      <4>2. PICK j \in 1 .. Len(w) : w[j] = k
        BY <4>1, <2>3 DEF Range
      <4>3. j > n
        BY <4>1, <4>2, <2>11, <2>3, <2>4
      <4>4. j - n \in 1 .. Len(order') /\ order'[j - n] = k
        BY <4>2, <4>3, <2>7, <2>3, <2>4
      <4> QED
        BY <4>4
    <3> QED
      BY <3>1, <3>2
  <2>15. \A k \in DOMAIN entries' : BodySize(entries'[k].body.path, entries'[k].body.ver) <= MaxBody
    <3> SUFFICES ASSUME NEW k \in DOMAIN entries'
                 PROVE  BodySize(entries'[k].body.path, entries'[k].body.ver) <= MaxBody
      OBVIOUS
    <3>1. CASE k = key
      <4>1. entries'[k] = entry
        BY <2>1, <3>1
      <4>2. SizeOf(entry.body) \in Nat
        BY DEF SizeOf, Kept, ProxyAssumption, Key
      <4> QED
        BY <4>1, <4>2, <1>2 DEF SizeOf, ProxyAssumption
    <3>2. CASE k # key
      <4>1. entries'[k] = entries[k] /\ k \in DOMAIN entries
        BY <2>1, <3>2
      <4> QED
        BY <4>1, <2>2 DEF SizeOf
    <3> QED
      BY <3>1, <3>2
  <2> QED
    BY <2>5, <2>7, <2>8, <2>10, <2>13, <2>14, <2>15 DEF CacheInv, CacheRow, SizeOf
<1> QED
  BY <1>1, <1>2
-----------------------------------------------------------------------------
(* The handlers.  Each step either leaves a handler as it is or keeps what is *)
(* said about one in its state. *)

\* Nothing a handler's facts speak of has changed.
LEMMA HandlerStays ==
  ASSUME NEW h, HandlerKept(h), at'[h] = at[h], req'[h] = req[h], cached'[h] = cached[h],
         head'[h] = head[h], reply'[h] = reply[h],
         at[h] # "idle" => runs'[req[h].by] = runs[req[h].by] /\ cred'[req[h].by] = cred[req[h].by]
  PROVE  HandlerKept(h)'
<1>1. CASE at[h] = "idle"
  BY <1>1 DEF HandlerKept
<1>2. CASE at[h] # "idle"
  <2>1. Forwards(h)'
    BY <1>2 DEF HandlerKept, Forwards, Allowed
  <2>2. at[h] = "sent" => Found(h)'
    BY <1>2 DEF HandlerKept, Found, Kept, KeyOf
  <2>3. at[h] = "body" => (Headed(h) /\ head[h].status # 304)'
    BY <1>2 DEF HandlerKept, Headed
  <2>4. at[h] = "done" => (Headed(h) /\ Replied(h))'
    BY <1>2 DEF HandlerKept, Headed, Replied, Expected
  <2> QED
    BY <2>1, <2>2, <2>3, <2>4 DEF HandlerKept
<1> QED
  BY <1>1, <1>2

\* The handlers that are over have nothing left to say.
LEMMA OverKept ==
  ASSUME NEW H, HandlersInv, Over(H),
         \A h \in Handlers \ H :
           at[h] # "idle" => runs'[req[h].by] = runs[req[h].by] /\ cred'[req[h].by] = cred[req[h].by]
  PROVE  HandlersInv'
<1>1. HandlerFunctions'
  BY DEF Over, HandlerFunctions
<1>2. ASSUME NEW h \in Handlers
      PROVE  HandlerKept(h)'
  <2>1. CASE h \in H
    BY <2>1 DEF Over, HandlerKept
  <2>2. CASE h \notin H
    <3>1. /\ at'[h] = at[h] /\ req'[h] = req[h] /\ cached'[h] = cached[h]
          /\ head'[h] = head[h] /\ reply'[h] = reply[h]
      BY <2>2 DEF Over
    <3>2. HandlerKept(h)
      BY DEF HandlersInv
    <3> QED
      BY <3>1, <3>2, <2>2, HandlerStays
  <2> QED
    BY <2>1, <2>2
<1> QED
  BY <1>1, <1>2 DEF HandlersInv

LEMMA StartInv ==
  ASSUME ProxyAssumption, ProxyInv, NEW x \in Proxies, StartProxy(x)
  PROVE  ProxyInv'
<1>1. /\ upstream' = upstream /\ entries' = entries /\ order' = order
      /\ at' = at /\ req' = req /\ cached' = cached /\ head' = head /\ reply' = reply
  BY DEF StartProxy, cacheVars, handlerVars
<1>2. PICK c \in Credential : cred' = [cred EXCEPT ![x] = c]
  <2>1. PICK gh \in GhPrints, secret \in StoredSecret :
            Resolved(gh, secret) # "error" /\ cred' = [cred EXCEPT ![x] = Resolved(gh, secret)]
    BY DEF StartProxy
  <2>2. Resolved(gh, secret) \in Credential
    BY <2>1 DEF Resolved, Credential
  <2> QED
    BY <2>1, <2>2
<1>3. runs' = [runs EXCEPT ![x] = TRUE] /\ cred[x] = Unresolved
  BY DEF StartProxy
<1>4. ProxiesResolved'
  BY <1>1, <1>2, <1>3 DEF ProxyInv, ProxiesResolved
<1>5. EntriesKept' /\ CacheInv'
  BY <1>1 DEF ProxyInv, EntriesKept, Kept, CacheInv, CacheRow, SizeOf
<1>6. HandlerFunctions'
  BY <1>1 DEF ProxyInv, HandlersInv, HandlerFunctions
<1>7. ASSUME NEW h \in Handlers
      PROVE  HandlerKept(h)'
  <2>1. HandlerKept(h)
    BY DEF ProxyInv, HandlersInv
  <2>2. ASSUME at[h] # "idle"
        PROVE  runs'[req[h].by] = runs[req[h].by] /\ cred'[req[h].by] = cred[req[h].by]
    <3>1. req[h] \in Requests /\ runs[req[h].by]
      BY <2>1, <2>2 DEF HandlerKept, Forwards
    <3>2. PICK y \in Proxies : y = req[h].by
      BY <3>1 DEF ProxyAssumption
    <3>3. cred[y] \in Credential
      BY <3>1, <3>2 DEF ProxyInv, ProxiesResolved
    <3>4. y # x
      BY <3>3, <1>3 DEF ProxyAssumption
    <3> QED
      BY <3>2, <3>4, <1>2, <1>3 DEF ProxyInv, ProxiesResolved
  <2> QED
    BY <1>1, <2>1, <2>2, HandlerStays
<1> QED
  BY <1>4, <1>5, <1>6, <1>7 DEF ProxyInv, HandlersInv

LEMMA DropInv ==
  ASSUME ProxyAssumption, ProxyInv, NEW x \in Proxies, DropProxy(x)
  PROVE  ProxyInv'
<1> DEFINE H == {h \in Handlers : at[h] # "idle" /\ req[h].by = x}
<1>1. upstream' = upstream /\ cred' = cred /\ entries' = entries /\ order' = order
  BY DEF DropProxy, cacheVars
<1>2. runs' = [runs EXCEPT ![x] = FALSE]
  BY DEF DropProxy
<1>3. ProxiesResolved'
  BY <1>1, <1>2 DEF ProxyInv, ProxiesResolved
<1>4. EntriesKept' /\ CacheInv'
  BY <1>1 DEF ProxyInv, EntriesKept, Kept, CacheInv, CacheRow, SizeOf
<1>5. ASSUME NEW h \in Handlers \ H, at[h] # "idle"
      PROVE  runs'[req[h].by] = runs[req[h].by] /\ cred'[req[h].by] = cred[req[h].by]
  <2>1. req[h] \in Requests
    BY <1>5 DEF ProxyInv, HandlersInv, HandlerKept, Forwards
  <2>2. PICK y \in Proxies : y = req[h].by
    BY <2>1 DEF ProxyAssumption
  <2> QED
    BY <2>2, <1>5, <1>1, <1>2 DEF ProxyInv, ProxiesResolved
<1>6. Over(H)
  BY DEF DropProxy
<1>7. HandlersInv
  BY DEF ProxyInv
<1> HIDE DEF H
<1>8. HandlersInv'
  BY <1>5, <1>6, <1>7, OverKept
<1> QED
  BY <1>3, <1>4, <1>8 DEF ProxyInv

LEMMA EndInv ==
  ASSUME ProxyInv, NEW h \in Handlers, EndHandler(h)
  PROVE  ProxyInv'
<1>1. upstream' = upstream /\ cred' = cred /\ runs' = runs /\ entries' = entries /\ order' = order
  BY DEF EndHandler, cacheVars
<1>2. ProxiesResolved' /\ EntriesKept' /\ CacheInv'
  BY <1>1 DEF ProxyInv, ProxiesResolved, EntriesKept, Kept, CacheInv, CacheRow, SizeOf
<1>3. Over({h}) /\ HandlersInv
  BY DEF EndHandler, ProxyInv
<1>4. HandlersInv'
  BY <1>1, <1>3, OverKept
<1> QED
  BY <1>2, <1>4 DEF ProxyInv

\* A step of handler h alone.
LEMMA OneHandler ==
  ASSUME HandlersInv, NEW h \in Handlers, runs' = runs, cred' = cred, HandlerFunctions', HandlerKept(h)',
         \A k \in Handlers \ {h} :
           /\ at'[k] = at[k] /\ req'[k] = req[k] /\ cached'[k] = cached[k]
           /\ head'[k] = head[k] /\ reply'[k] = reply[k]
  PROVE  HandlersInv'
<1>1. ASSUME NEW k \in Handlers, k # h
      PROVE  HandlerKept(k)'
  <2>1. HandlerKept(k)
    BY DEF HandlersInv
  <2> QED
    BY <2>1, <1>1, HandlerStays
<1> QED
  BY <1>1 DEF HandlersInv

LEMMA AskInv ==
  ASSUME ProxyAssumption, ProxyInv, NEW h \in Handlers, NEW r \in Requests, Ask(h, r)
  PROVE  ProxyInv'
<1>1. /\ upstream' = upstream /\ cred' = cred /\ runs' = runs /\ entries' = entries /\ order' = order
      /\ head' = head /\ reply' = reply
  BY DEF Ask, cacheVars
<1>2. /\ at' = [at EXCEPT ![h] = "sent"] /\ req' = [req EXCEPT ![h] = r]
      /\ cached' = [cached EXCEPT ![h] = Looked(r)]
      /\ runs[r.by] /\ Allowed(r)
  BY DEF Ask
<1>3. ProxiesResolved' /\ EntriesKept' /\ CacheInv'
  BY <1>1 DEF ProxyInv, ProxiesResolved, EntriesKept, Kept, CacheInv, CacheRow, SizeOf
<1>4. HandlerFunctions'
  BY <1>1, <1>2 DEF ProxyInv, HandlersInv, HandlerFunctions
<1>5. at'[h] = "sent" /\ req'[h] = r /\ cached'[h] = Looked(r)
  BY <1>2 DEF ProxyInv, HandlersInv, HandlerFunctions
<1>6. Looked(r) = None \/ Kept(Looked(r), KeyOf(r))
  BY DEF Looked, ProxyInv, EntriesKept
<1>7. KeyOf(r)' = KeyOf(r) /\ Forwards(h)'
  BY <1>1, <1>2, <1>5 DEF KeyOf, Forwards, Allowed
<1>8. Found(h)'
  BY <1>1, <1>5, <1>6 DEF Found, Kept, KeyOf
<1>9. HandlerKept(h)'
  BY <1>5, <1>7, <1>8 DEF HandlerKept
<1>10. \A k \in Handlers \ {h} :
         /\ at'[k] = at[k] /\ req'[k] = req[k] /\ cached'[k] = cached[k]
         /\ head'[k] = head[k] /\ reply'[k] = reply[k]
  BY <1>1, <1>2 DEF ProxyInv, HandlersInv, HandlerFunctions
<1>11. HandlersInv'
  BY <1>1, <1>4, <1>9, <1>10, OneHandler DEF ProxyInv
<1> QED
  BY <1>3, <1>11 DEF ProxyInv

\* A kept answer that GitHub calls unchanged is the answer it would give now.
LEMMA HeadInv ==
  ASSUME ProxyAssumption, ProxyInv, NEW h \in Handlers, HeadComes(h)
  PROVE  ProxyInv'
<1>1. /\ upstream' = upstream /\ cred' = cred /\ runs' = runs /\ entries' = entries /\ order' = order
      /\ req' = req
  BY DEF HeadComes, cacheVars
<1>2. ProxiesResolved' /\ EntriesKept' /\ CacheInv'
  BY <1>1 DEF ProxyInv, ProxiesResolved, EntriesKept, Kept, CacheInv, CacheRow, SizeOf
<1>3. PICK s \in Heads(h) :
        /\ head' = [head EXCEPT ![h] = s]
        /\ \/ /\ s.status = 304 /\ cached[h] # None
              /\ Answer(h, 200, cached[h].body, Relinked(cached[h].link, req[h].by), "hit")
           \/ /\ IF s.status = 304 THEN cached[h] = None ELSE req[h].method = "HEAD"
              /\ Answer(h, s.status, None, Relinked("github", req[h].by), "bypass")
           \/ /\ s.status # 304 /\ req[h].method # "HEAD"
              /\ at' = [at EXCEPT ![h] = "body"]
              /\ UNCHANGED reply
  BY DEF HeadComes
<1>4. cached' = [cached EXCEPT ![h] = None] /\ at[h] = "sent"
  BY DEF HeadComes
<1>5. HandlerFunctions
  BY DEF ProxyInv, HandlersInv
<1>6. Forwards(h) /\ Found(h)
  BY <1>4 DEF ProxyInv, HandlersInv, HandlerKept
<1>7. upstream[req[h].path] \in Version
  BY <1>6 DEF Forwards, ProxyAssumption, ProxyInv, ProxiesResolved
<1>8. /\ s.ver = upstream[req[h].path] /\ s.etag \in {s.ver, NoVersion} /\ s.status \in {200, 304, 404}
      /\ s.status = 304 => Conditional(h) = s.ver
  BY DEF Heads
<1>9. head'[h] = s
  BY <1>3, <1>5 DEF HandlerFunctions
<1>10. Headed(h)' /\ Forwards(h)'
  BY <1>1, <1>6, <1>7, <1>8, <1>9 DEF Headed, Forwards, Allowed, Version
<1>11. ASSUME NEW status, NEW body, NEW link, NEW note, Answer(h, status, body, link, note)
       PROVE  /\ HandlerFunctions' /\ at'[h] = "done"
              /\ reply'[h].status = status /\ reply'[h].body = body /\ reply'[h].link = link
              /\ \A k \in Handlers \ {h} : at'[k] = at[k] /\ reply'[k] = reply[k]
  <2>1. /\ at' = [at EXCEPT ![h] = "done"]
        /\ reply' = [reply EXCEPT ![h] = [status |-> status, body |-> body, link |-> link, note |-> note]]
    BY <1>11 DEF Answer
  <2>2. head' = [head EXCEPT ![h] = s]
    BY <1>3
  <2>3. HandlerFunctions'
    BY <2>1, <2>2, <1>1, <1>4, <1>5 DEF HandlerFunctions
  <2>4. at'[h] = "done" /\ \A k \in Handlers \ {h} : at'[k] = at[k] /\ reply'[k] = reply[k]
    BY <2>1, <1>5 DEF HandlerFunctions
  <2>5. reply'[h] = [status |-> status, body |-> body, link |-> link, note |-> note]
    BY <2>1, <1>5 DEF HandlerFunctions
  <2> QED
    BY <2>3, <2>4, <2>5
<1>12. \A k \in Handlers \ {h} :
         req'[k] = req[k] /\ cached'[k] = cached[k] /\ head'[k] = head[k]
  BY <1>1, <1>3, <1>4, <1>5 DEF HandlerFunctions
<1>13. HandlerFunctions' /\ HandlerKept(h)' /\ \A k \in Handlers \ {h} : at'[k] = at[k] /\ reply'[k] = reply[k]
  <2>1. CASE s.status = 304 /\ cached[h] # None
             /\ Answer(h, 200, cached[h].body, Relinked(cached[h].link, req[h].by), "hit")
    <3>1. /\ HandlerFunctions' /\ at'[h] = "done" /\ reply'[h].status = 200
          /\ reply'[h].body = cached[h].body /\ reply'[h].link = Relinked(cached[h].link, req[h].by)
          /\ \A k \in Handlers \ {h} : at'[k] = at[k] /\ reply'[k] = reply[k]
      BY <2>1, <1>11
    <3>2. Kept(cached[h], KeyOf(req[h])) /\ cached[h].etag = s.ver
      BY <2>1, <1>6, <1>8 DEF Found, Conditional
    <3>3. cached[h].body = [path |-> req[h].path, form |-> req[h].form, cred |-> cred[req[h].by], ver |-> s.ver]
      BY <3>2 DEF Kept, KeyOf
    <3>4. Relinked(cached[h].link, req[h].by) = req[h].by
      BY <3>2 DEF Kept, Relinked
    <3>5. Expected(h)' = [path |-> req[h].path, form |-> req[h].form, cred |-> cred[req[h].by], ver |-> s.ver]
      BY <1>1, <1>9 DEF Expected
    <3>6. Replied(h)'
      BY <3>1, <3>3, <3>4, <3>5, <1>1 DEF Replied
    <3> QED
      BY <3>1, <3>6, <1>10 DEF HandlerKept
  <2>2. CASE (IF s.status = 304 THEN cached[h] = None ELSE req[h].method = "HEAD")
             /\ Answer(h, s.status, None, Relinked("github", req[h].by), "bypass")
    <3>1. /\ HandlerFunctions' /\ at'[h] = "done" /\ reply'[h].status = s.status /\ reply'[h].body = None
          /\ \A k \in Handlers \ {h} : at'[k] = at[k] /\ reply'[k] = reply[k]
      BY <2>2, <1>11
    <3>2. s.status = 304 => req[h].holds = s.ver
      BY <2>2, <1>8 DEF Conditional
    <3>3. Replied(h)'
      BY <3>1, <3>2, <1>1, <1>9 DEF Replied
    <3> QED
      BY <3>1, <3>3, <1>10 DEF HandlerKept
  <2>3. CASE s.status # 304 /\ at' = [at EXCEPT ![h] = "body"] /\ reply' = reply
    <3>1. /\ HandlerFunctions' /\ at'[h] = "body"
          /\ \A k \in Handlers \ {h} : at'[k] = at[k] /\ reply'[k] = reply[k]
      BY <2>3, <1>1, <1>3, <1>4, <1>5 DEF HandlerFunctions
    <3> QED
      BY <3>1, <2>3, <1>9, <1>10 DEF HandlerKept
  <2> QED
    BY <1>3, <2>1, <2>2, <2>3
<1>14. HandlersInv'
  BY <1>1, <1>12, <1>13, OneHandler DEF ProxyInv
<1> QED
  BY <1>2, <1>14 DEF ProxyInv

\* The body that came is of the version its head announced, and what is put into the cache
\* is kept under the key of the request that was sent.
LEMMA BodyInv ==
  ASSUME ProxyAssumption, ProxyInv, NEW h \in Handlers, BodyComes(h)
  PROVE  ProxyInv'
<1> DEFINE keep == head[h].status = 200 /\ head[h].etag # NoVersion /\ Cacheable(req[h])
<1>1. /\ upstream' = upstream /\ cred' = cred /\ runs' = runs /\ req' = req /\ cached' = cached /\ head' = head
  BY DEF BodyComes
<1>2. /\ at[h] = "body"
      /\ Answer(h, head[h].status, Expected(h), Relinked("github", req[h].by),
                IF keep THEN "miss" ELSE "bypass")
      /\ IF keep
         THEN Put(KeyOf(req[h]), [etag |-> head[h].etag, body |-> Expected(h), link |-> "github"])
         ELSE UNCHANGED cacheVars
  BY DEF BodyComes, Expected
<1>3. Forwards(h) /\ Headed(h) /\ head[h].status # 304
  BY <1>2 DEF ProxyInv, HandlersInv, HandlerKept
<1>4. EntriesKept' /\ CacheInv'
  <2>1. CASE keep
    <3> DEFINE entry == [etag |-> head[h].etag, body |-> Expected(h), link |-> "github"]
    <3>1. PICK y \in Proxies : y = req[h].by
      BY <1>3 DEF Forwards, ProxyAssumption
    <3>2. cred[y] \in Credential /\ req[h].path \in Paths /\ req[h].form \in Forms
      BY <1>3, <3>1 DEF Forwards, ProxyAssumption, ProxyInv, ProxiesResolved
    <3>3. KeyOf(req[h]) \in Key
      BY <3>1, <3>2 DEF KeyOf, Key
    <3>4. Kept(entry, KeyOf(req[h]))
      BY <2>1, <1>3 DEF Headed, Kept, KeyOf, Expected
    <3>5. Put(KeyOf(req[h]), entry)
      BY <2>1, <1>2
    <3> HIDE DEF entry
    <3> QED
      BY <3>3, <3>4, <3>5, PutInv DEF ProxyInv
  <2>2. CASE ~keep
    <3>1. entries' = entries /\ order' = order
      BY <2>2, <1>2 DEF cacheVars
    <3> QED
      BY <3>1 DEF ProxyInv, EntriesKept, Kept, CacheInv, CacheRow, SizeOf
  <2> QED
    BY <2>1, <2>2
<1>5. HandlerFunctions
  BY DEF ProxyInv, HandlersInv
<1>6. HandlerFunctions'
  BY <1>1, <1>2, <1>5 DEF HandlerFunctions, Answer
<1>7. /\ at'[h] = "done" /\ reply'[h].status = head[h].status /\ reply'[h].body = Expected(h)
      /\ reply'[h].link = req[h].by
  BY <1>2, <1>5 DEF HandlerFunctions, Answer, Relinked
<1>8. HandlerKept(h)'
  <2>1. Expected(h)' = Expected(h)
    BY <1>1 DEF Expected
  <2>2. Replied(h)'
    BY <2>1, <1>1, <1>3, <1>7 DEF Replied
  <2>3. Headed(h)' /\ Forwards(h)'
    BY <1>1, <1>3 DEF Headed, Forwards, Allowed
  <2> QED
    BY <2>2, <2>3, <1>7 DEF HandlerKept
<1>9. \A k \in Handlers \ {h} :
         /\ at'[k] = at[k] /\ req'[k] = req[k] /\ cached'[k] = cached[k]
         /\ head'[k] = head[k] /\ reply'[k] = reply[k]
  BY <1>1, <1>2, <1>5 DEF HandlerFunctions, Answer
<1>10. HandlersInv'
  BY <1>1, <1>6, <1>8, <1>9, OneHandler DEF ProxyInv
<1>11. ProxiesResolved'
  BY <1>1 DEF ProxyInv, ProxiesResolved
<1> QED
  BY <1>4, <1>10, <1>11 DEF ProxyInv

\* What leaves the handlers, the proxies and the cache alone.
LEMMA RestInv ==
  ASSUME ProxyInv, upstream' \in [Paths -> Version], cred' = cred, runs' = runs,
         entries' = entries, order' = order, at' = at, req' = req, cached' = cached, head' = head,
         reply' = reply
  PROVE  ProxyInv'
<1>1. ProxiesResolved' /\ EntriesKept' /\ CacheInv' /\ HandlerFunctions'
  BY DEF ProxyInv, ProxiesResolved, EntriesKept, Kept, CacheInv, CacheRow, SizeOf, HandlersInv, HandlerFunctions
<1>2. ASSUME NEW h \in Handlers
      PROVE  HandlerKept(h)'
  <2>1. HandlerKept(h)
    BY DEF ProxyInv, HandlersInv
  <2> QED
    BY <2>1, HandlerStays
<1> QED
  BY <1>1, <1>2 DEF ProxyInv, HandlersInv

LEMMA ProxyInvariant ==
  ASSUME ProxyAssumption
  PROVE  ProxySpec => []ProxyInv
<1>1. ProxyInit => ProxyInv
  <2> SUFFICES ASSUME ProxyInit PROVE ProxyInv
    OBVIOUS
  <2>1. ProxiesResolved
    BY DEF ProxyInit, ProxiesResolved, ProxyAssumption, Version
  <2>2. EntriesKept /\ CacheInv
    <3>1. entries = [k \in {} |-> None] /\ order = << >>
      BY DEF ProxyInit
    <3>2. DOMAIN entries = {} /\ order \in Seq(Key) /\ Len(order) = 0 /\ DOMAIN order = {}
      BY <3>1
    <3>3. IsInjective(order) /\ Range(order) = DOMAIN entries
      BY <3>2 DEF IsInjective, Range
    <3> QED
      BY <3>2, <3>3 DEF EntriesKept, CacheInv, CacheRow, ProxyAssumption
  <2>3. HandlersInv
    BY DEF ProxyInit, HandlersInv, HandlerFunctions, HandlerKept
  <2> QED
    BY <2>1, <2>2, <2>3 DEF ProxyInv
<1>2. ProxyInv /\ [ProxyNext]_proxyVars => ProxyInv'
  <2> SUFFICES ASSUME ProxyInv, [ProxyNext]_proxyVars
               PROVE  ProxyInv'
    OBVIOUS
  <2>1. upstream \in [Paths -> Version]
    BY DEF ProxyInv, ProxiesResolved
  <2>2. CASE UNCHANGED proxyVars
    BY <2>1, <2>2, RestInv DEF proxyVars, cacheVars, handlerVars
  <2>3. ASSUME NEW x \in Proxies, StartProxy(x) \/ DropProxy(x)
        PROVE  ProxyInv'
    BY <2>3, StartInv, DropInv
  <2>4. ASSUME NEW h \in Handlers, HeadComes(h) \/ BodyComes(h) \/ EndHandler(h)
        PROVE  ProxyInv'
    BY <2>4, HeadInv, BodyInv, EndInv
  <2>5. ASSUME NEW h \in Handlers, NEW r \in Requests, Ask(h, r)
        PROVE  ProxyInv'
    BY <2>5, AskInv
  <2>6. ASSUME NEW h \in Handlers, NEW r \in Requests, Refuse(h, r)
        PROVE  ProxyInv'
    BY <2>1, <2>6, RestInv DEF Refuse, cacheVars, handlerVars
  <2>7. ASSUME NEW p \in Paths, Publish(p)
        PROVE  ProxyInv'
    <3>1. upstream' \in [Paths -> Version]
      BY <2>1, <2>7 DEF Publish, Version, ProxyAssumption
    <3> QED
      BY <3>1, <2>7, RestInv DEF Publish, cacheVars, handlerVars
  <2> QED
    BY <2>2, <2>3, <2>4, <2>5, <2>6, <2>7 DEF ProxyNext
<1> QED
  BY <1>1, <1>2, PTL DEF ProxySpec

\* Every answer with a body is GitHub's answer to this request, for this credential, of
\* the version GitHub held when it was asked, however many tasks share the cache, whatever
\* was put into it or pushed out between the request and its head (handle, build_response).
THEOREM AnswersCurrent ==
  ASSUME ProxyAssumption
  PROVE  ProxySpec => []AnswersAreCurrent
<1>1. ProxyInv => AnswersAreCurrent
  BY DEF ProxyInv, HandlersInv, HandlerKept, Replied, Expected, AnswersAreCurrent
<1> QED
  BY <1>1, ProxyInvariant, PTL

\* Only an allowed read reaches GitHub, and "not modified" only the client that said what
\* it holds (check_request, handle).
THEOREM OnlyReadsReachGithub ==
  ASSUME ProxyAssumption
  PROVE  ProxySpec => []OnlyReadsLeave
<1>1. ProxyInv => OnlyReadsLeave
  BY DEF ProxyInv, HandlersInv, HandlerKept, Forwards, Replied, OnlyReadsLeave
<1> QED
  BY <1>1, ProxyInvariant, PTL

\* The cache's row of keys and its answers agree, and keep to the limits on their number and
\* their length, after any sequence of put (ResponseCache).
THEOREM CacheRowKept ==
  ASSUME ProxyAssumption
  PROVE  ProxySpec => []CacheRow
<1>1. ProxyInv => CacheRow
  BY DEF ProxyInv, CacheInv
<1> QED
  BY <1>1, ProxyInvariant, PTL

=============================================================================
