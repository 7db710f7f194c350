---------------------------- MODULE RpcTransport ----------------------------
(***************************************************************************)
(* A long-running command of the desktop: the registry of cancellable      *)
(* operations (apps/desktop/src/main/operation-registry.ts), the request   *)
(* broker (rpc-broker.ts) with its deadlines, the pipe to a sidecar and    *)
(* back (sidecars.ts), and the sidecar's own queue of requests: the data   *)
(* core serves one request at a time out of a bounded channel, the AI      *)
(* runtime serves all it has received at once.                             *)
(***************************************************************************)
EXTENDS Naturals, Sequences, SequencesExt

CONSTANTS
    Calls,       \* invocations of operations.run
    Ops,         \* operation ids
    Steps,       \* the requests the work of each invocation makes, one after the other
    JobLimit,    \* requests the data core's channel holds
    NoCall

ASSUME RpcAssumption ==
    /\ Steps \in [Calls -> Nat \ {0}]
    /\ JobLimit \in Nat \ {0}
    /\ NoCall \notin Calls

Reqs    == UNION {{c} \X (1..Steps[c]) : c \in Calls}
Settled == {"resolved", "failed", "timedOut", "aborted", "closed"}

VARIABLES
    concurrent, \* the sidecar serves every request at once (the AI runtime)
    opOf,       \* the operation id each invocation was given
    call,       \* what became of each invocation
    active,     \* the registry: the invocation that holds each operation id
    aborted,    \* invocations whose signal is aborted
    outcome,    \* the promise of each request
    sent,       \* the requests in the order they were written to the pipe
    closed,     \* the broker has been closed
    alive,      \* the sidecar process runs
    up,         \* messages on the way to the sidecar
    channel,    \* requests in the channel of the data core
    running,    \* requests being served
    stopped,    \* requests whose context was cancelled while registered
    committed,  \* requests whose work succeeded, in the order it did
    down        \* answers on the way back

rpcVars    == <<call, active, aborted, outcome, sent, closed, alive, up, channel, running, stopped, committed, down>>
rpcState == <<concurrent, opOf, rpcVars>>
desktop == <<call, active, aborted, outcome, sent, closed>>
sidecar == <<alive, channel, running, stopped, committed>>

Pending      == {r \in Reqs : outcome[r] = "pending"}
Registered   == ToSet(channel) \cup running
Message(k, r) == [kind |-> k, req |-> r]

Outcomes == {"unsent", "pending"} \cup Settled
Messages == [kind : {"request", "cancel"}, req : Reqs]
Responses == [req : Reqs, ok : BOOLEAN]

RpcTypeOK ==
    /\ concurrent \in BOOLEAN /\ opOf \in [Calls -> Ops]
    /\ call \in [Calls -> {"idle", "running", "done", "failed", "refused"}]
    /\ active \in [Ops -> Calls \cup {NoCall}]
    /\ aborted \subseteq Calls
    /\ outcome \in [Reqs -> Outcomes]
    /\ sent \in Seq(Reqs)
    /\ closed \in BOOLEAN /\ alive \in BOOLEAN
    /\ up \in Seq(Messages)
    /\ channel \in Seq(Reqs) /\ Len(channel) <= JobLimit
    /\ running \subseteq Reqs /\ (concurrent \/ \A r, q \in running : r = q) /\ stopped \subseteq Reqs
    /\ committed \in Seq(Reqs)
    /\ down \in Seq(Responses)

RpcInit ==
    /\ concurrent \in BOOLEAN /\ opOf \in [Calls -> Ops]
    /\ call = [c \in Calls |-> "idle"] /\ active = [o \in Ops |-> NoCall]
    /\ aborted = {} /\ outcome = [r \in Reqs |-> "unsent"] /\ sent = <<>>
    /\ closed = FALSE /\ alive = TRUE
    /\ up = <<>> /\ channel = <<>> /\ running = {} /\ stopped = {}
    /\ committed = <<>> /\ down = <<>>

-----------------------------------------------------------------------------
(* The desktop *)

\* The id of the operation leads to the invocation c, which begins its work.
Taken(c) == active' = [active EXCEPT ![opOf[c]] = c] /\ call' = [call EXCEPT ![c] = "running"]
\* Mutant: a refused invocation still runs the clean-up of the one it collided with.
RegisterLeaky(c) ==
    IF active[opOf[c]] = NoCall
    THEN Taken(c)
    ELSE active' = [active EXCEPT ![opOf[c]] = NoCall] /\ call' = [call EXCEPT ![c] = "refused"]
\* An operation id that is in use refuses the second invocation and stays with the first.
Register(c) ==
    IF active[opOf[c]] = NoCall
    THEN Taken(c)
    ELSE active' = active /\ call' = [call EXCEPT ![c] = "refused"]

Run(c) ==
    /\ call[c] = "idle"
    /\ Register(c)
    /\ UNCHANGED <<aborted, outcome, sent, closed, up, down, sidecar>>

\* What the invocation whose request r settled does next: a failed request ends its work.
Continue(rs, won) ==
    LET over == {q[1] : q \in {r \in rs : ~won \/ r[2] = Steps[r[1]]}} IN
    /\ call'   = [c \in Calls |-> IF c \in over THEN IF won THEN "done" ELSE "failed" ELSE call[c]]
    /\ active' = [o \in Ops |-> IF active[o] \in over THEN NoCall ELSE active[o]]

\* A message is written to the pipe; the pipe of a dead process swallows it.
Sent(ms) == up' = IF alive THEN up \o ms ELSE up

\* What RpcRequestBroker.request makes of a request before it is sent.
Requested(r) ==
    IF closed THEN "closed" ELSE IF r[1] \in aborted THEN "aborted" ELSE "pending"

Request(r) ==
    LET now == Requested(r) IN
    /\ call[r[1]] = "running" /\ outcome[r] = "unsent"
    /\ r[2] > 1 => outcome[<<r[1], r[2] - 1>>] = "resolved"
    /\ outcome' = [outcome EXCEPT ![r] = now]
    /\ IF now = "pending"
       THEN sent' = Append(sent, r) /\ Sent(<<Message("request", r)>>) /\ UNCHANGED <<call, active>>
       ELSE Continue({r}, FALSE) /\ UNCHANGED <<sent, up>>
    /\ UNCHANGED <<aborted, closed, down, sidecar>>

\* Mutant: answers are taken to come back in the order of the requests.
AnsweredOldest(a) ==
    IF Pending = {} THEN a.req ELSE sent[CHOOSE i \in DOMAIN sent : /\ sent[i] \in Pending
                                                 /\ \A j \in 1..(i - 1) : sent[j] \notin Pending]
\* The request an answer names.
Answered(a) == a.req

\* Mutant: an answer settles its request again.
AcceptsAny(a) == TRUE
\* Only the request that still waits for this answer takes it.
Accepts(a) == outcome[Answered(a)] = "pending"

Accept ==
    /\ down # <<>>
    /\ down' = Tail(down)
    /\ LET a == Head(down) IN
       IF Accepts(a)
       THEN /\ outcome' = [outcome EXCEPT ![Answered(a)] = IF a.ok THEN "resolved" ELSE "failed"]
            /\ Continue({Answered(a)}, a.ok)
       ELSE UNCHANGED <<outcome, call, active>>
    /\ UNCHANGED <<aborted, sent, closed, up, sidecar>>

\* The requests rs are settled by the desktop itself, and the sidecar is told to stop:
\* an invocation waits for one request at a time.
CancelPending(rs, how) ==
    /\ outcome' = [r \in Reqs |-> IF r \in rs THEN how ELSE outcome[r]]
    /\ Sent(IF rs = {} THEN <<>> ELSE <<Message("cancel", CHOOSE r \in rs : TRUE)>>)
    /\ Continue(rs, FALSE)

\* The timer of a request runs until the request settles.
Armed(r) == r \in Pending

Timeout(r) ==
    /\ Armed(r)
    /\ CancelPending({r}, "timedOut")
    /\ UNCHANGED <<aborted, sent, closed, down, sidecar>>

\* operations.cancel: the controller that holds the id aborts, once.
CancelOperation(o) ==
    LET c == active[o] IN
    /\ c # NoCall /\ c \notin aborted
    /\ aborted' = aborted \cup {c}
    /\ CancelPending({r \in Pending : r[1] = c}, "aborted")
    /\ UNCHANGED <<sent, closed, down, sidecar>>

\* Every pending request is rejected with the error the broker is closed with.
RejectAll ==
    /\ outcome' = [r \in Reqs |-> IF r \in Pending THEN "closed" ELSE outcome[r]]
    /\ Continue(Pending, FALSE)

Close == ~closed /\ closed' = TRUE /\ RejectAll /\ UNCHANGED <<aborted, sent, down>>

\* The exit event of a process that died.
ProcessExit == ~alive /\ Close /\ UNCHANGED <<up, sidecar>>

Dead == alive' = FALSE /\ channel' = <<>> /\ running' = {} /\ up' = <<>> /\ UNCHANGED <<stopped, committed>>
Die  == alive /\ Dead /\ UNCHANGED <<desktop, down>>
Stop == alive /\ Close /\ Dead

-----------------------------------------------------------------------------
(* The sidecar *)

\* Mutant: the newest request of the channel is served first.
EnqueuedFirst(r) == <<r>> \o channel
Enqueued(r) == Append(channel, r)

\* A request read from the pipe waits in the channel, or is served at once.
Admit(r) == IF concurrent THEN running' = running \cup {r} /\ channel' = channel
                            ELSE Len(channel) < JobLimit /\ channel' = Enqueued(r) /\ running' = running

\* Mutant: a cancellation is matched only against the request that is running.
CancelRunning(r) == stopped' = stopped \cup ({r} \cap running)
\* A cancellation reaches a request that is registered: queued or running.
CancelRegistered(r) == stopped' = stopped \cup ({r} \cap Registered)

\* One reader takes the messages in order; a full channel holds it up.
Read ==
    /\ alive /\ up # <<>>
    /\ up' = Tail(up)
    /\ IF Head(up).kind = "cancel"
       THEN CancelRegistered(Head(up).req) /\ UNCHANGED <<channel, running>>
       ELSE Admit(Head(up).req) /\ UNCHANGED stopped
    /\ UNCHANGED <<desktop, alive, committed, down>>

\* One worker serves the channel.
WorkerFree == running = {}

Start ==
    /\ channel # <<>> /\ WorkerFree
    /\ running' = running \cup {Head(channel)} /\ channel' = Tail(channel)
    /\ UNCHANGED <<desktop, alive, up, stopped, committed, down>>

\* The work of r ends, with its result committed or with an error, and is answered.
Finish(r) ==
    /\ r \in running
    /\ running' = running \ {r}
    /\ \E ok \in BOOLEAN :
          /\ committed' = IF ok THEN Append(committed, r) ELSE committed
          /\ down' = Append(down, [req |-> r, ok |-> ok])
    /\ UNCHANGED <<desktop, alive, up, channel, stopped>>

\* Cancelled work stops; other work may go on for as long as it likes.
FinishStopped == \E r \in stopped : Finish(r)

RpcNext ==
    /\ \/ \E c \in Calls : Run(c)
       \/ \E r \in Reqs : Request(r) \/ Timeout(r) \/ Finish(r)
       \/ \E o \in Ops : CancelOperation(o)
       \/ Accept \/ ProcessExit \/ Die \/ Stop \/ Read \/ Start
    /\ UNCHANGED <<concurrent, opOf>>

RpcSpec == RpcInit /\ [][RpcNext]_rpcState

\* The deadlines and the promises' continuations run; the sidecar reads, serves its
\* channel and stops what was cancelled; a dead process is noticed.
RpcFairness ==
    /\ \A r \in Reqs : WF_rpcVars(Timeout(r)) /\ WF_rpcVars(Request(r))
    /\ WF_rpcVars(Accept) /\ WF_rpcVars(ProcessExit)
    /\ WF_rpcVars(Read) /\ WF_rpcVars(Start) /\ WF_rpcVars(FinishStopped)

-----------------------------------------------------------------------------
\* An invocation at work is the one its operation id leads to, so that
\* operations.cancel reaches it, and an ended one leaves no entry behind
\* (operation-registry.ts: the refusal must not clean up the other's entry).
RunningIsCancellable ==
    \A c \in Calls : call[c] = "running" <=> active[opOf[c]] = c

\* The person is told of success only when the sidecar committed that very request
\* (accept matches answers to requests by id, late answers included).
ResolvedIsCommitted ==
    \A r \in Reqs : outcome[r] = "resolved" => r \in ToSet(committed)

\* A promise settles once: a late answer, a second abort or the exit event changes nothing.
SettlesOnce ==
    [][\A r \in Reqs : outcome[r] \in Settled => outcome'[r] = outcome[r]]_rpcVars

\* The data core commits work in the order the desktop asked for it, whatever was
\* cancelled, timed out or refused in between (one reader, one channel, one worker).
CommitsInOrder ==
    ~concurrent => \A i, j \in DOMAIN committed : \A k, l \in DOMAIN sent :
       i < j /\ sent[k] = committed[i] /\ sent[l] = committed[j] => k < l

\* Every request ends at both ends: it settles even when the sidecar hangs or dies, and work the desktop
\* gave up on does not keep the sidecar busy for ever.
EveryRequestEnds == \A r \in Reqs :
    /\ outcome[r] = "pending" ~> outcome[r] \in Settled
    /\ outcome[r] \in {"timedOut", "aborted"} ~> r \notin Registered
=============================================================================
