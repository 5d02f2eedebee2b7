------------------------------ MODULE Requests ------------------------------
(***************************************************************************)
(* The request path of the daemon: the client API (client.rs), one framed  *)
(* request per connection (transport.rs, wire.rs), the handler that runs   *)
(* each operation (dispatch.rs), the registry actor, which owns the one    *)
(* writer and runs one command at a time in a blocking worker              *)
(* (registry_actor.rs, registry_api.rs), and the order in which serve      *)
(* takes all of it down (service.rs).                                      *)
(*                                                                         *)
(* What a place an operation goes to does is the business of other modules;  *)
(* here it answers or it fails.                                            *)
(***************************************************************************)
EXTENDS Operations, Naturals, Sequences, FiniteSets

CONSTANTS
    Conn,           \* connections
    Stoppers,       \* connections whose clients only ask the daemon to stop
    MaxClients,     \* handlers at a time; service.rs has 32
    InboxCapacity   \* commands waiting for the registry; service.rs has 16

RequestsAssumption ==
    /\ MaxClients \in Nat \ {0} /\ InboxCapacity \in Nat \ {0}
    /\ "worker" \notin Conn
    /\ Stoppers \subseteq Conn

VARIABLES
    wire,       \* [Conn -> "free", "connected", "asked", "refused", "replied", "closed"]
    hand,       \* [Conn -> handler: [op, does, at, code]; op = "none" if it has none]
    client,     \* [Conn -> "away", "waiting", or what the call returned]
    inbox,      \* commands waiting for the registry, by who sent them
    actor,      \* "up", "dead" after a worker panicked, "stopped"
    answer,     \* [Conn or the job worker -> what the registry answered]
    committed,  \* whose write of this call was committed
    job,        \* the job actor's work: "none", "submitted", "beginning", "running", "recording"
    stopping,   \* the stop source is cancelled
    serving     \* "accepting", "joining", "jobs", "actor", "ended"

requestVars == <<wire, hand, client, inbox, actor, answer, committed, job, stopping, serving>>

--------------------------------------------------------------------------------
NoHand == [op |-> "none", does |-> Op(<<>>, 0), at |-> 0, code |-> 0]
Caller == Conn \union {"worker"}

\* What the client of a connection may ask.
Asked(c) == IF c \in Stoppers THEN {"shutdown"} ELSE DOMAIN Ops

RequestsInit ==
    /\ wire = [c \in Conn |-> "free"]
    /\ hand = [c \in Conn |-> NoHand]
    /\ client = [c \in Conn |-> "away"]
    /\ inbox = <<>> /\ actor = "up"
    /\ answer = [k \in Caller |-> "none"]
    /\ committed = {}
    /\ job = "none" /\ stopping = FALSE /\ serving = "accepting"

Handlers == {c \in Conn : hand[c].op # "none"}
Places(h) == {h.does.steps[i] : i \in DOMAIN h.does.steps}
Place(h) == h.does.steps[h.at]
Finished(h) == h.code # 0
AtStep(c, kinds) ==
    /\ c \in Handlers /\ ~Finished(hand[c])
    /\ hand[c].at \in 1..Len(hand[c].does.steps) /\ Place(hand[c]) \in kinds

\* The handler goes on to its next place, or has its reply.
Onward(h) ==
    IF h.at = Len(h.does.steps) THEN [h EXCEPT !.code = h.does.code]
    ELSE [h EXCEPT !.at = @ + 1]

--------------------------------------------------------------------------------
(* The client *)

\* call_within: connect; while nobody accepts, the connection waits.
Connect(c) ==
    /\ wire[c] = "free" /\ hand[c] = NoHand /\ client[c] = "away" /\ serving # "ended"
    /\ wire' = [wire EXCEPT ![c] = "connected"]
    /\ client' = [client EXCEPT ![c] = "waiting"]
    /\ UNCHANGED <<committed, hand, inbox, actor, answer, job, stopping, serving>>

\* read_frame_within: the reply, the end of the stream or the deadline.
Hear(c, got) ==
    /\ client[c] = "waiting"
    /\ \/ /\ got = "reply" /\ wire[c] = "replied"
          /\ client' = [client EXCEPT ![c] =
                 IF hand[c].code \in Expected[hand[c].op] THEN "returned"
                 ELSE IF hand[c].code \in Decoded THEN "unexpected" ELSE "failed"]
       \/ /\ got = "eof" /\ wire[c] \in {"refused", "closed"}
          /\ client' = [client EXCEPT ![c] = "failed"]
       \/ /\ got = "deadline" /\ client' = [client EXCEPT ![c] = "failed"]
    /\ UNCHANGED <<committed, wire, hand, inbox, actor, answer, job, stopping, serving>>

\* The stream is dropped, and the caller may call again.
Hangup(c) ==
    /\ client[c] \notin {"away", "waiting"}
    /\ hand[c] = NoHand \/ Finished(hand[c])
    /\ wire[c] # "connected" \/ serving = "ended"
    /\ client' = [client EXCEPT ![c] = "away"]
    /\ wire' = [wire EXCEPT ![c] = "free"]
    /\ hand' = [hand EXCEPT ![c] = NoHand]
    /\ committed' = committed \ {c}
    /\ UNCHANGED <<inbox, actor, answer, job, stopping, serving>>

--------------------------------------------------------------------------------
(* Accepting, and the handler *)

\* serve's accept: a stream past the limit is dropped.
Accept(c) ==
    /\ serving = "accepting" /\ ~stopping /\ wire[c] = "connected"
    /\ wire' = [wire EXCEPT ![c] =
           IF Cardinality({d \in Conn : wire[d] = "asked"}) >= MaxClients THEN "refused" ELSE "asked"]
    /\ UNCHANGED <<committed, hand, client, inbox, actor, answer, job, stopping, serving>>

\* handle: the peer, the frame within its deadline, the request.
ReadRequest(c) ==
    /\ wire[c] = "asked" /\ hand[c] = NoHand /\ serving # "ended"
    /\ \E op \in Asked(c) : \E does \in {Ops[op]} :
           hand' = [hand EXCEPT ![c] = [op |-> op, does |-> does, at |-> 1,
                        code |-> IF does.steps = <<>> THEN does.code ELSE 0]]
    /\ UNCHANGED <<committed, wire, client, inbox, actor, answer, job, stopping, serving>>

Refuse(c, code) ==
    /\ wire[c] = "asked" /\ hand[c] = NoHand /\ serving # "ended"
    /\ hand' = [hand EXCEPT ![c] = [NoHand EXCEPT !.op = "refused", !.at = 1, !.code = code]]
    /\ UNCHANGED <<committed, wire, client, inbox, actor, answer, job, stopping, serving>>

\* The versions do not meet; everyone may ask who the daemon is.
RefuseVersion(c, code) ==
    /\ Refuse(c, code)
    /\ code = OutsideWindow => Asked(c) \ {"identity"} # {}

\* validate_*_wire: the fields are not those of the operation, or not bounded.
RefuseInvalid(c) == Refuse(c, Failed)

\* The peer is another user, or its frame is not read in time.
DropRequest(c) ==
    /\ wire[c] = "asked" /\ hand[c] = NoHand /\ serving # "ended"
    /\ wire' = [wire EXCEPT ![c] = "closed"]
    /\ UNCHANGED <<committed, hand, client, inbox, actor, answer, job, stopping, serving>>

\* The reply to a call that failed: the doctor reports what it could not
\* find out, the CI runtime says why.
FailureCode(op) == CASE op = "ci" -> CiFailed [] op = "doctor" -> 100 [] OTHER -> Failed

\* The job actor, the CI runtime or the engine answers, or fails.
GoTo(c, good) ==
    /\ AtStep(c, {"jobs", "submit", "ci", "docker"})
    /\ hand' = [hand EXCEPT ![c] =
           IF good THEN Onward(hand[c]) ELSE [hand[c] EXCEPT !.code = FailureCode(hand[c].op)]]
    /\ job' = IF good /\ Place(hand[c]) = "submit" /\ job = "none" THEN "submitted" ELSE job
    /\ UNCHANGED <<committed, wire, client, inbox, actor, answer, stopping, serving>>

\* shutdown, and the end of stop_if_idle, which found someone busy or nobody.
CancelStop(c, busy) ==
    /\ AtStep(c, {"stop"})
    /\ busy => hand[c].op = "stop_if_idle"
    /\ stopping' = (stopping \/ ~busy)
    /\ hand' = [hand EXCEPT ![c] = IF busy THEN [hand[c] EXCEPT !.code = Busy] ELSE Onward(hand[c])]
    /\ UNCHANGED <<committed, wire, client, inbox, actor, answer, job, serving>>

\* The reply is encoded and written; the handler of status has none to send
\* when the registry fails.
WriteReply(c) ==
    /\ c \in Handlers /\ Finished(hand[c]) /\ wire[c] = "asked"
    /\ wire' = [wire EXCEPT ![c] =
           IF hand[c].op = "status" /\ hand[c].code = Failed THEN "closed" ELSE "replied"]
    /\ UNCHANGED <<committed, hand, client, inbox, actor, answer, job, stopping, serving>>

--------------------------------------------------------------------------------
(* The registry actor *)

Waits(k) == \E i \in DOMAIN inbox : inbox[i] = k

\* A method of RegistryActor: the command is queued, or the actor is gone.
Send(k) ==
    IF actor = "up"
    THEN /\ Len(inbox) < InboxCapacity
         /\ inbox' = Append(inbox, k)
         /\ UNCHANGED answer
    ELSE answer' = [answer EXCEPT ![k] = "closed"] /\ UNCHANGED inbox

AskRead(c) ==
    /\ AtStep(c, {"read"}) /\ ~Waits(c) /\ answer[c] = "none"
    /\ Send(c)
    /\ UNCHANGED <<committed, wire, hand, client, actor, job, stopping, serving>>
AskWrite(c) ==
    /\ AtStep(c, {"write"}) /\ ~Waits(c) /\ answer[c] = "none"
    /\ Send(c)
    /\ UNCHANGED <<committed, wire, hand, client, actor, job, stopping, serving>>

\* A variant of TakeAnswer that goes on when the row is gone.
TakeAnyAnswer(c) ==
    /\ AtStep(c, {"read", "write"}) /\ answer[c] # "none"
    /\ hand' = [hand EXCEPT ![c] =
           IF answer[c] # "closed" \/ hand[c].op = "doctor" THEN Onward(hand[c])
           ELSE [hand[c] EXCEPT !.code = Failed]]
    /\ answer' = [answer EXCEPT ![c] = "none"]
    /\ UNCHANGED <<committed, wire, client, inbox, actor, job, stopping, serving>>

\* The answer comes back, or the sender of it is gone.
TakeAnswer(c) ==
    /\ AtStep(c, {"read", "write"}) /\ answer[c] # "none"
    /\ hand' = [hand EXCEPT ![c] =
           IF answer[c] \in {"ok", "already"} \/ hand[c].op = "doctor" THEN Onward(hand[c])
           ELSE [hand[c] EXCEPT !.code = Failed]]
    /\ answer' = [answer EXCEPT ![c] = "none"]
    /\ UNCHANGED <<committed, wire, client, inbox, actor, job, stopping, serving>>

\* The job actor's work begins with a session, ends, and is recorded.
WorkBegins ==
    /\ job = "submitted" /\ answer["worker"] = "none" /\ ~Waits("worker")
    /\ Send("worker")
    /\ job' = "beginning"
    /\ UNCHANGED <<committed, wire, hand, client, actor, stopping, serving>>
WorkEnds ==
    /\ job = "running" /\ answer["worker"] = "none" /\ ~Waits("worker")
    /\ Send("worker")
    /\ job' = "recording"
    /\ UNCHANGED <<committed, wire, hand, client, actor, stopping, serving>>
WorkGoesOn ==
    /\ job \in {"beginning", "recording"} /\ answer["worker"] # "none"
    /\ job' = IF job = "beginning" /\ answer["worker"] = "ok" THEN "running" ELSE "none"
    /\ answer' = [answer EXCEPT !["worker"] = "none"]
    /\ committed' = committed \ {"worker"}
    /\ UNCHANGED <<wire, hand, client, inbox, actor, stopping, serving>>

\* The commands.  Each takes the registry into a blocking worker and comes
\* back with a result; what a write changes it commits, or the transaction
\* is dropped with the row as it was.
Answer(k, said, commits) ==
    /\ answer' = [answer EXCEPT ![k] = said]
    /\ committed' = IF commits THEN committed \union {k} ELSE committed

\* status, integrity, the pages of resources and events
Diagnosed(k, said) == said \in {"ok", "error"} /\ Answer(k, said, FALSE)
\* the previews: a page of rows with what protects the others
Previewed(k, said) == said \in {"ok", "error"} /\ Answer(k, said, FALSE)
\* the candidate a token names, if the row is still the one it was made for
Looked(k, said) == said \in {"ok", "gone", "error"} /\ Answer(k, said, FALSE)
\* finalize: the row is removed only if it is still that candidate
Finalized(k, said) == said \in {"ok", "gone", "error"} /\ Answer(k, said, said = "ok")
\* repair of a row whose container is missing; it may have been repaired
Repaired(k, said) == said \in {"ok", "already", "gone", "error"} /\ Answer(k, said, said = "ok")
\* complete: every use of the workspace ends; there may be none
Completed(k, said) == said \in {"ok", "already", "error"} /\ Answer(k, said, said = "ok")
Adopted(k, said) == said \in {"ok", "error"} /\ Answer(k, said, said = "ok")
\* the job actor's: a session before the work, the result after it
SessionKept(said) == said \in {"ok", "error"} /\ Answer("worker", said, said = "ok")
WorkKept(said) == said \in {"ok", "error"} /\ Answer("worker", said, said = "ok")

Previews == {"gc_preview", "volume_preview", "reconcile"}

Command(k, said) ==
    IF k = "worker" THEN IF job = "beginning" THEN SessionKept(said) ELSE WorkKept(said)
    ELSE LET h == hand[k] IN
         CASE Place(h) = "read" /\ h.op \in Previews -> Previewed(k, said)
           [] Place(h) = "read" /\ "write" \in Places(h) -> Looked(k, said)
           [] Place(h) = "read" -> Diagnosed(k, said)
           [] h.op = "adopt" -> Adopted(k, said)
           [] h.op = "done" -> Completed(k, said)
           [] h.op = "repair" -> Repaired(k, said)
           [] OTHER -> Finalized(k, said)

\* registry_actor: the next command.
Serve(said) ==
    /\ actor = "up" /\ inbox # <<>> /\ Head(inbox) # "stop"
    /\ Command(Head(inbox), said)
    /\ inbox' = Tail(inbox)
    /\ UNCHANGED <<wire, hand, client, actor, job, stopping, serving>>

\* A worker panics with the registry in it: its caller and all that wait are
\* told that the actor is closed, and so is everyone after.
WorkerPanics ==
    /\ actor = "up" /\ inbox # <<>> /\ Head(inbox) # "stop"
    /\ actor' = "dead"
    /\ answer' = [k \in Caller |-> IF Waits(k) THEN "closed" ELSE answer[k]]
    /\ inbox' = <<>>
    /\ UNCHANGED <<committed, wire, hand, client, job, stopping, serving>>

ActorStops ==
    /\ actor = "up" /\ inbox # <<>> /\ Head(inbox) = "stop"
    /\ actor' = "stopped"
    /\ answer' = [k \in Caller |-> IF Waits(k) THEN "closed" ELSE answer[k]]
    /\ inbox' = <<>>
    /\ UNCHANGED <<committed, wire, hand, client, job, stopping, serving>>

--------------------------------------------------------------------------------
(* serve goes down: no more accepting, the handlers, the jobs, the registry *)

StopAccepting ==
    /\ serving = "accepting" /\ stopping
    /\ serving' = "joining"
    /\ UNCHANGED <<committed, wire, hand, client, inbox, actor, answer, job, stopping>>

JoinClients ==
    /\ serving = "joining" /\ \A c \in Conn : wire[c] # "asked"
    /\ serving' = "jobs"
    /\ UNCHANGED <<committed, wire, hand, client, inbox, actor, answer, job, stopping>>

\* JobActor::stop and its worker: what runs is cancelled and recorded.
JobsStop ==
    /\ serving = "jobs" /\ job = "none"
    /\ serving' = "actor"
    /\ UNCHANGED <<committed, wire, hand, client, inbox, actor, answer, job, stopping>>

StopActor ==
    /\ serving = "actor"
    /\ \/ actor = "up" /\ ~Waits("stop") /\ inbox' = Append(inbox, "stop") /\ UNCHANGED serving
       \/ actor # "up" /\ serving' = "ended" /\ UNCHANGED inbox
    /\ UNCHANGED <<committed, wire, hand, client, actor, answer, job, stopping>>

--------------------------------------------------------------------------------
HandlerStep(c) ==
    \/ ReadRequest(c)
    \/ RefuseInvalid(c) \/ \E code \in {Unsupported, OutsideWindow} : RefuseVersion(c, code)
    \/ DropRequest(c) \/ WriteReply(c) \/ AskRead(c) \/ AskWrite(c) \/ TakeAnswer(c)
    \/ \E good \in BOOLEAN : GoTo(c, good) \/ CancelStop(c, ~good)

ActorStep == (\E said \in {"ok", "already", "gone", "error"} : Serve(said)) \/ WorkerPanics \/ ActorStops

ServeStep == StopAccepting \/ JoinClients \/ JobsStop \/ StopActor

RequestsNext ==
    \/ \E c \in Conn : \/ Connect(c) \/ Hangup(c) \/ Accept(c) \/ HandlerStep(c)
                       \/ \E got \in {"reply", "eof", "deadline"} : Hear(c, got)
    \/ WorkBegins \/ WorkEnds \/ WorkGoesOn \/ ActorStep \/ ServeStep

\* Every task of the executor goes on: the frame of a request is read within
\* its deadline, a worker returns or panics, work that is cancelled ends.
RequestsFairness ==
    /\ \A c \in Conn : WF_requestVars(HandlerStep(c))
    /\ WF_requestVars(WorkBegins \/ WorkEnds \/ WorkGoesOn)
    /\ WF_requestVars(ActorStep)
    /\ WF_requestVars(ServeStep)

RequestsSpec == RequestsInit /\ [][RequestsNext]_requestVars /\ RequestsFairness

--------------------------------------------------------------------------------
(* Properties *)

\* Nobody is told that the registry is gone while it is well: until the last
\* handler is answered and the last job recorded the actor is not stopped, in
\* whatever order clients leave and the daemon is asked to stop.  And no
\* client is answered in a way its call does not know.
ClosedMeansDead ==
    /\ \A k \in Caller : answer[k] = "closed" => actor = "dead"
    /\ \A c \in Conn : client[c] # "unexpected"

\* A client that is told its removal or adoption succeeded can rely on the
\* registry: what its handler did to the engine is on disk.
SuccessIsCommitted ==
    \A c \in Conn :
        /\ wire[c] = "replied" /\ hand[c].op # "refused" /\ "write" \in Places(hand[c])
        /\ hand[c].code = hand[c].does.code
        => c \in committed \/ hand[c].op \in {"done", "repair"}

\* The safety of the request path.
RequestsSafe == ClosedMeansDead /\ SuccessIsCommitted

\* What holds again and again: a daemon that is asked to stop ends, whatever
\* its clients do, although a worker may have taken the registry with it and
\* nobody answers any more.
RequestsSettled == stopping => serving = "ended"
=============================================================================
