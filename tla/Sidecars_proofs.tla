-------------------------- MODULE Sidecars_proofs --------------------------
(***************************************************************************)
(* The way from the window to a sidecar and back, for any number of        *)
(* invocations, requests, sessions, lists and panels: the transport, the   *)
(* AI runtime behind it and the panels the person reviews in. The three    *)
(* share no state and no invariant.                                        *)
(***************************************************************************)
EXTENDS MCSidecars, FiniteSetTheorems, SequenceTheorems, TLAPS

-----------------------------------------------------------------------------
(***************************************************************************)
(* RpcTransport: the registry leads to the invocation at work, a promise   *)
(* settles once and tells of success only what was committed, and the data *)
(* core commits requests in the order they were sent.                      *)
(***************************************************************************)

LEMMA Appended == ASSUME NEW S, NEW q \in Seq(S), NEW x \in S
                  PROVE  /\ Append(q, x) \in Seq(S) /\ q \o <<x>> \in Seq(S)
                         /\ Len(Append(q, x)) = Len(q) + 1
  OBVIOUS

LEMMA Consumed == ASSUME NEW S, NEW q \in Seq(S), q # <<>>
                  PROVE  Head(q) \in S /\ Tail(q) \in Seq(S) /\ Len(Tail(q)) = Len(q) - 1
  OBVIOUS

LEMMA AppendedSet == ASSUME NEW S, NEW q \in Seq(S), NEW x \in S
                     PROVE  ToSet(Append(q, x)) = ToSet(q) \cup {x}
<1> DEFINE p == Append(q, x)
<1>1. /\ DOMAIN q = 1..Len(q) /\ DOMAIN p = 1..(Len(q) + 1) /\ Len(q) \in Nat
      /\ \A i \in 1..Len(q) : p[i] = q[i]
      /\ p[Len(q) + 1] = x
  OBVIOUS
<1> HIDE DEF p
<1>2. ToSet(p) = ToSet(q) \cup {x}
  BY <1>1 DEF ToSet
<1> QED BY <1>2 DEF p

LEMMA Emptied == ASSUME RpcTypeOK, Dead
                 PROVE  /\ alive' \in BOOLEAN /\ up' \in Seq(Messages)
                        /\ channel' \in Seq(Reqs) /\ Len(channel') <= JobLimit
                        /\ running' = {} /\ stopped' \subseteq Reqs /\ committed' \in Seq(Reqs)
<1>1. alive' = FALSE /\ channel' = <<>> /\ running' = {} /\ up' = <<>> /\ UNCHANGED <<stopped, committed>>
  BY DEF Dead
<1>2. stopped \subseteq Reqs /\ committed \in Seq(Reqs)
  BY DEF RpcTypeOK
<1>3. Len(channel') <= JobLimit
  BY <1>1, RpcAssumption
<1>4. alive' \in BOOLEAN
  BY <1>1
<1>5. up' \in Seq(Messages) /\ channel' \in Seq(Reqs)
  BY <1>1
<1>6. running' = {} /\ stopped' \subseteq Reqs /\ committed' \in Seq(Reqs)
  BY <1>1, <1>2
<1> QED BY <1>3, <1>4, <1>5, <1>6

\* Every state of the transport is well typed: in particular the data core never
\* serves two requests at once and its channel never holds more than JobLimit.
LEMMA TypeStep == RpcTypeOK /\ [RpcNext]_rpcState => RpcTypeOK'
<1> SUFFICES ASSUME RpcTypeOK, [RpcNext]_rpcState PROVE RpcTypeOK'
  OBVIOUS
<1> USE RpcAssumption
<1>1. ASSUME NEW c \in Calls, Run(c), UNCHANGED <<concurrent, opOf>> PROVE RpcTypeOK'
  <2>1. /\ call' \in [Calls -> {"idle", "running", "done", "failed", "refused"}]
        /\ active' \in [Ops -> Calls \cup {NoCall}]
    <3>1. /\ call \in [Calls -> {"idle", "running", "done", "failed", "refused"}]
          /\ active \in [Ops -> Calls \cup {NoCall}] /\ opOf \in [Calls -> Ops]
      BY DEF RpcTypeOK
    <3>2. Register(c)
      BY <1>1 DEF Run
    <3> QED BY <3>1, <3>2 DEF Register, Taken
  <2> QED BY <1>1, <2>1 DEF RpcTypeOK, Run, sidecar
<1>2. ASSUME NEW rs, NEW won \in BOOLEAN, Continue(rs, won)
      PROVE /\ call' \in [Calls -> {"idle", "running", "done", "failed", "refused"}]
            /\ active' \in [Ops -> Calls \cup {NoCall}]
  BY <1>2 DEF RpcTypeOK, Continue
<1>3. ASSUME NEW r \in Reqs, NEW k \in {"request", "cancel"}, Sent(<<Message(k, r)>>)
      PROVE up' \in Seq(Messages)
  <2>1. Message(k, r) \in Messages
    BY DEF Message, Messages
  <2>2. up \in Seq(Messages)
    BY DEF RpcTypeOK
  <2>3. up' = up \o <<Message(k, r)>> \/ up' = up
    BY <1>3 DEF Sent
  <2> QED BY <2>1, <2>2, <2>3, Appended
<1>4. ASSUME NEW rs \in SUBSET Reqs, NEW how \in Settled, CancelPending(rs, how)
      PROVE /\ call' \in [Calls -> {"idle", "running", "done", "failed", "refused"}]
            /\ active' \in [Ops -> Calls \cup {NoCall}]
            /\ outcome' \in [Reqs -> Outcomes]
            /\ up' \in Seq(Messages)
  <2>1. up' \in Seq(Messages)
    <3>1. CASE rs = {}
      BY <1>4, <3>1 DEF CancelPending, Sent, RpcTypeOK
    <3>2. CASE rs # {}
      <4>1. (CHOOSE r \in rs : TRUE) \in Reqs
        BY <3>2
      <4> QED BY <1>4, <1>3, <3>2, <4>1 DEF CancelPending
    <3> QED BY <3>1, <3>2
  <2> QED BY <1>4, <1>2, <2>1 DEF CancelPending, RpcTypeOK, Outcomes
<1>5. ASSUME NEW r \in Reqs, Request(r), UNCHANGED <<concurrent, opOf>> PROVE RpcTypeOK'
  <2>1. Requested(r) \in Outcomes
    BY DEF Requested, Settled, Outcomes
  <2>2. outcome' \in [Reqs -> Outcomes]
    BY <1>5, <2>1 DEF Request, RpcTypeOK
  <2>3. CASE Requested(r) = "pending"
    <3>1. up' \in Seq(Messages)
      BY <1>5, <1>3, <2>3 DEF Request
    <3>2. sent' \in Seq(Reqs)
      <4>1. sent' = Append(sent, r)
        BY <1>5, <2>3 DEF Request
      <4>2. sent \in Seq(Reqs)
        BY DEF RpcTypeOK
      <4> QED BY <4>1, <4>2, Appended
    <3> QED BY <1>5, <2>2, <2>3, <3>1, <3>2 DEF Request, RpcTypeOK, sidecar
  <2>4. CASE Requested(r) # "pending"
    <3>1. Continue({r}, FALSE)
      BY <1>5, <2>4 DEF Request
    <3> QED BY <1>5, <1>2, <2>2, <2>4, <3>1 DEF Request, RpcTypeOK, sidecar
  <2> QED BY <2>3, <2>4
<1>6. ASSUME NEW r \in Reqs, Timeout(r), UNCHANGED <<concurrent, opOf>> PROVE RpcTypeOK'
  <2>1. {r} \in SUBSET Reqs /\ "timedOut" \in Settled
    BY DEF Settled
  <2> QED BY <1>4, <1>6, <2>1 DEF Timeout, RpcTypeOK, sidecar
<1>7. ASSUME NEW r \in Reqs, Finish(r), UNCHANGED <<concurrent, opOf>> PROVE RpcTypeOK'
  <2> PICK ok \in BOOLEAN : /\ committed' = IF ok THEN Append(committed, r) ELSE committed
                            /\ down' = Append(down, [req |-> r, ok |-> ok])
    BY <1>7 DEF Finish
  <2>1. committed' \in Seq(Reqs) /\ down' \in Seq(Responses)
    BY Appended DEF RpcTypeOK, Responses
  <2>2. running' \subseteq Reqs /\ (concurrent' \/ \A q, s \in running' : q = s)
    BY <1>7 DEF Finish, RpcTypeOK
  <2> QED BY <1>7, <2>1, <2>2 DEF Finish, RpcTypeOK, desktop
<1>8. ASSUME NEW o \in Ops, CancelOperation(o), UNCHANGED <<concurrent, opOf>> PROVE RpcTypeOK'
  <2>1. {r \in Pending : r[1] = active[o]} \in SUBSET Reqs /\ "aborted" \in Settled
    BY DEF Settled, Pending
  <2>2. aborted' \subseteq Calls
    BY <1>8 DEF CancelOperation, RpcTypeOK
  <2> QED BY <1>4, <1>8, <2>1, <2>2 DEF CancelOperation, RpcTypeOK, sidecar
<1>9. ASSUME Accept, UNCHANGED <<concurrent, opOf>> PROVE RpcTypeOK'
  <2> DEFINE a == Head(down)
  <2>1. a \in Responses /\ down' \in Seq(Responses)
    BY <1>9, Consumed DEF Accept, RpcTypeOK
  <2>2. CASE Accepts(a)
    <3>1. outcome' \in [Reqs -> Outcomes]
      BY <1>9, <2>1, <2>2 DEF Accept, RpcTypeOK, Settled, Outcomes
    <3>2. Continue({Answered(a)}, a.ok) /\ a.ok \in BOOLEAN
      BY <1>9, <2>1, <2>2 DEF Accept, Responses
    <3> QED BY <1>9, <1>2, <2>1, <3>1, <3>2 DEF Accept, RpcTypeOK, sidecar
  <2>3. CASE ~Accepts(a)
    BY <1>9, <2>1, <2>3 DEF Accept, RpcTypeOK, sidecar
  <2> QED BY <2>2, <2>3
<1>10. ASSUME Close PROVE /\ call' \in [Calls -> {"idle", "running", "done", "failed", "refused"}]
                          /\ active' \in [Ops -> Calls \cup {NoCall}]
                          /\ outcome' \in [Reqs -> Outcomes]
                          /\ closed' \in BOOLEAN /\ UNCHANGED <<aborted, sent, down>>
  BY <1>10, <1>2 DEF Close, RejectAll, RpcTypeOK, Settled, Outcomes
<1>11. ASSUME ProcessExit, UNCHANGED <<concurrent, opOf>> PROVE RpcTypeOK'
  BY <1>10, <1>11 DEF ProcessExit, RpcTypeOK, sidecar
<1>12. ASSUME Die, UNCHANGED <<concurrent, opOf>> PROVE RpcTypeOK'
  <2>1. Dead
    BY <1>12 DEF Die
  <2> QED BY <1>12, <2>1, Emptied DEF Die, RpcTypeOK, desktop
<1>13. ASSUME Stop, UNCHANGED <<concurrent, opOf>> PROVE RpcTypeOK'
  <2>1. Dead /\ Close
    BY <1>13 DEF Stop
  <2> QED BY <1>10, <1>13, <2>1, Emptied DEF RpcTypeOK
<1>14. ASSUME Read, UNCHANGED <<concurrent, opOf>> PROVE RpcTypeOK'
  <2>1. Head(up).req \in Reqs /\ up' \in Seq(Messages)
    <3>1. up \in Seq(Messages) /\ up # <<>> /\ up' = Tail(up)
      BY <1>14 DEF Read, RpcTypeOK
    <3>2. Head(up) \in Messages /\ up' \in Seq(Messages)
      BY <3>1, Consumed
    <3> QED BY <3>2 DEF Messages
  <2>2. CASE Head(up).kind = "cancel"
    BY <1>14, <2>1, <2>2 DEF Read, CancelRegistered, RpcTypeOK, desktop
  <2>3. CASE Head(up).kind # "cancel"
    <3>1. /\ channel' \in Seq(Reqs) /\ Len(channel') <= JobLimit
          /\ running' \subseteq Reqs /\ (concurrent' \/ running' = running)
      <4>1. Admit(Head(up).req)
        BY <1>14, <2>3 DEF Read
      <4>2. /\ channel \in Seq(Reqs) /\ Len(channel) <= JobLimit /\ running \subseteq Reqs
        BY DEF RpcTypeOK
      <4>3. /\ channel' = channel \/ (Len(channel) < JobLimit /\ channel' = Append(channel, Head(up).req))
            /\ (concurrent /\ running' = running \cup {Head(up).req}) \/ running' = running
        BY <4>1 DEF Admit, Enqueued
      <4>4. channel' \in Seq(Reqs) /\ Len(channel') <= JobLimit
        BY <2>1, <4>2, <4>3, Appended, RpcAssumption
      <4>5. running' \subseteq Reqs
        BY <2>1, <4>2, <4>3
      <4>6. concurrent' = concurrent
        BY <1>14
      <4> QED BY <4>3, <4>4, <4>5, <4>6
    <3> QED BY <1>14, <2>1, <2>3, <3>1 DEF Read, RpcTypeOK, desktop
  <2> QED BY <2>2, <2>3
<1>15. ASSUME Start, UNCHANGED <<concurrent, opOf>> PROVE RpcTypeOK'
  <2>1. channel' \in Seq(Reqs) /\ Len(channel') <= JobLimit
    BY <1>15, Consumed, RpcAssumption DEF Start, RpcTypeOK
  <2>2. running' \subseteq Reqs /\ \A r, q \in running' : r = q
    BY <1>15, Consumed DEF Start, WorkerFree, RpcTypeOK
  <2> QED BY <1>15, <2>1, <2>2 DEF Start, RpcTypeOK, desktop
<1>16. ASSUME UNCHANGED rpcState PROVE RpcTypeOK'
  BY <1>16 DEF rpcState, rpcVars, RpcTypeOK
<1> QED BY <1>1, <1>5, <1>6, <1>7, <1>8, <1>9, <1>11, <1>12, <1>13, <1>14, <1>15, <1>16 DEF RpcNext

\* Well typed for ever (RpcTypeOK): one request served at a time, a channel within its size.
THEOREM RpcTyped == RpcSpec => []RpcTypeOK
<1>1. RpcInit => RpcTypeOK
  <2> SUFFICES ASSUME RpcInit PROVE RpcTypeOK
    OBVIOUS
  <2>1. Len(channel) <= JobLimit /\ channel \in Seq(Reqs) /\ up \in Seq(Messages)
    BY RpcAssumption DEF RpcInit
  <2>2. sent \in Seq(Reqs) /\ committed \in Seq(Reqs) /\ down \in Seq(Responses)
    BY DEF RpcInit
  <2>3. /\ outcome \in [Reqs -> Outcomes] /\ active \in [Ops -> Calls \cup {NoCall}]
        /\ call \in [Calls -> {"idle", "running", "done", "failed", "refused"}]
    BY DEF RpcInit, Outcomes
  <2> QED BY <2>1, <2>2, <2>3 DEF RpcInit, RpcTypeOK
<1> QED BY <1>1, TypeStep, PTL DEF RpcSpec

-----------------------------------------------------------------------------
(* The registry *)

\* What the end of any set of invocations does keeps the registry in step.
LEMMA EndsTogether ==
    ASSUME RpcTypeOK, RunningIsCancellable, NEW rs, NEW won, Continue(rs, won), opOf' = opOf
    PROVE  RunningIsCancellable'
<1> DEFINE over == {q[1] : q \in {r \in rs : ~won \/ r[2] = Steps[r[1]]}}
<1> SUFFICES ASSUME NEW c \in Calls PROVE call'[c] = "running" <=> active'[opOf[c]] = c
  BY DEF RunningIsCancellable
<1>1. /\ opOf[c] \in Ops /\ active[opOf[c]] \in Calls \cup {NoCall} /\ c # NoCall
      /\ call[c] = "running" <=> active[opOf[c]] = c
  BY RpcAssumption DEF RpcTypeOK, RunningIsCancellable
<1>2. /\ call'[c] = IF c \in over THEN IF won THEN "done" ELSE "failed" ELSE call[c]
      /\ active'[opOf[c]] = IF active[opOf[c]] \in over THEN NoCall ELSE active[opOf[c]]
  BY <1>1 DEF Continue
<1> HIDE DEF over
<1> QED BY <1>1, <1>2

LEMMA RegistryStep == RpcTypeOK /\ RunningIsCancellable /\ [RpcNext]_rpcState => RunningIsCancellable'
<1> SUFFICES ASSUME RpcTypeOK, RunningIsCancellable, [RpcNext]_rpcState PROVE RunningIsCancellable'
  OBVIOUS
<1>1. opOf' = opOf
  BY DEF RpcNext, rpcState
<1>2. ASSUME NEW c \in Calls, Run(c) PROVE RunningIsCancellable'
  <2> SUFFICES ASSUME NEW d \in Calls PROVE call'[d] = "running" <=> active'[opOf[d]] = d
    BY <1>1 DEF RunningIsCancellable
  <2>1. /\ call \in [Calls -> {"idle", "running", "done", "failed", "refused"}]
        /\ active \in [Ops -> Calls \cup {NoCall}] /\ opOf \in [Calls -> Ops]
        /\ \A e \in Calls : call[e] = "running" <=> active[opOf[e]] = e
    BY DEF RpcTypeOK, RunningIsCancellable
  <2>2. CASE active[opOf[c]] = NoCall
    <3>1. active' = [active EXCEPT ![opOf[c]] = c] /\ call' = [call EXCEPT ![c] = "running"]
      BY <1>2, <2>2 DEF Run, Register, Taken
    <3>2. CASE d = c
      BY <2>1, <3>1, <3>2
    <3>3. CASE d # c /\ opOf[d] = opOf[c]
      BY <2>1, <2>2, <3>1, <3>3, RpcAssumption
    <3>4. CASE d # c /\ opOf[d] # opOf[c]
      BY <2>1, <3>1, <3>4
    <3> QED BY <3>2, <3>3, <3>4
  <2>3. CASE active[opOf[c]] # NoCall
    BY <1>2, <2>1, <2>3 DEF Run, Register
  <2> QED BY <2>2, <2>3
<1>3. ASSUME UNCHANGED <<call, active>> PROVE RunningIsCancellable'
  BY <1>1, <1>3 DEF RunningIsCancellable
<1>4. (\E rs, won : Continue(rs, won)) => RunningIsCancellable'
  BY <1>1, EndsTogether
<1>5. ASSUME NEW r \in Reqs, Request(r) PROVE RunningIsCancellable'
  BY <1>3, <1>4, <1>5 DEF Request
<1>6. ASSUME NEW r \in Reqs, Timeout(r) PROVE RunningIsCancellable'
  BY <1>4, <1>6 DEF Timeout, CancelPending
<1>7. ASSUME NEW r \in Reqs, Finish(r) PROVE RunningIsCancellable'
  BY <1>3, <1>7 DEF Finish, desktop
<1>8. ASSUME NEW o \in Ops, CancelOperation(o) PROVE RunningIsCancellable'
  BY <1>4, <1>8 DEF CancelOperation, CancelPending
<1>9. ASSUME Accept PROVE RunningIsCancellable'
  BY <1>3, <1>4, <1>9 DEF Accept
<1>10. Close => RunningIsCancellable'
  BY <1>4 DEF Close, RejectAll
<1>11. Die \/ Read \/ Start => RunningIsCancellable'
  BY <1>3 DEF Die, Read, Start, desktop
<1>12. UNCHANGED rpcState => RunningIsCancellable'
  BY <1>3 DEF rpcState, rpcVars
<1> QED BY <1>2, <1>5, <1>6, <1>7, <1>8, <1>9, <1>10, <1>11, <1>12 DEF RpcNext, ProcessExit, Stop

\* The registry leads to every invocation at work and to no other (RunningIsCancellable):
\* operations.cancel reaches it, and an ended invocation leaves nothing behind.
THEOREM RegistryLeadsToWork == RpcSpec => []RunningIsCancellable
<1>1. RpcInit => RunningIsCancellable
  <2> SUFFICES ASSUME RpcInit, NEW c \in Calls PROVE call[c] # "running" /\ active[opOf[c]] # c
    BY DEF RunningIsCancellable
  <2> QED BY RpcAssumption DEF RpcInit
<1> QED BY <1>1, RpcTyped, RegistryStep, PTL DEF RpcSpec

-----------------------------------------------------------------------------
(* Promises *)

\* Only promises that wait are settled by the desktop itself.
LEMMA OutcomeStep ==
    ASSUME RpcTypeOK, [RpcNext]_rpcState, NEW q \in Reqs
    PROVE  /\ outcome[q] \in Settled => outcome'[q] = outcome[q]
           /\ outcome[q] # "unsent" => outcome'[q] # "unsent"
           /\ outcome[q] = "pending" /\ outcome'[q] = "resolved"
                 => Accept /\ Head(down).req = q /\ Head(down).ok
           /\ outcome[q] = "unsent" => outcome'[q] # "resolved"
<1> DEFINE Good == /\ outcome[q] \in Settled => outcome'[q] = outcome[q]
                   /\ outcome[q] # "unsent" => outcome'[q] # "unsent"
                   /\ outcome[q] = "pending" /\ outcome'[q] = "resolved"
                         => Accept /\ Head(down).req = q /\ Head(down).ok
                   /\ outcome[q] = "unsent" => outcome'[q] # "resolved"
<1>0. outcome \in [Reqs -> Outcomes]
  BY DEF RpcTypeOK
<1>1. ASSUME outcome' = outcome PROVE Good
  BY <1>1 DEF Settled
<1>2. ASSUME NEW r \in Reqs, Request(r) PROVE Good
  <2>1. outcome[r] = "unsent" /\ outcome' = [outcome EXCEPT ![r] = Requested(r)]
    BY <1>2 DEF Request
  <2>2. Requested(r) \in {"closed", "aborted", "pending"}
    BY DEF Requested
  <2>3. CASE q = r
    BY <1>0, <2>1, <2>2, <2>3 DEF Settled
  <2>4. CASE q # r
    <3>1. outcome'[q] = outcome[q]
      BY <1>0, <2>1, <2>4
    <3> QED BY <3>1 DEF Settled
  <2> QED BY <2>3, <2>4
<1>3. ASSUME NEW rs \in SUBSET Pending, NEW how \in Settled \ {"resolved"},
             outcome' = [r \in Reqs |-> IF r \in rs THEN how ELSE outcome[r]]
      PROVE Good
  <2>1. q \in rs => outcome[q] = "pending"
    BY DEF Pending
  <2>2. outcome'[q] = IF q \in rs THEN how ELSE outcome[q]
    BY <1>3
  <2> QED BY <2>1, <2>2 DEF Settled
<1>4. ASSUME NEW rs \in SUBSET Pending, NEW how \in Settled \ {"resolved"}, CancelPending(rs, how) PROVE Good
  BY <1>3, <1>4 DEF CancelPending
<1>5. ASSUME Accept PROVE Good
  <2> DEFINE a == Head(down)
  <2>1. a.ok \in BOOLEAN /\ a.req \in Reqs
    <3>1. down \in Seq(Responses) /\ down # <<>>
      BY <1>5 DEF Accept, RpcTypeOK
    <3>2. a \in Responses
      BY <3>1, Consumed
    <3> QED BY <3>2 DEF Responses
  <2>2. CASE Accepts(a)
    <3>1. /\ outcome[a.req] = "pending"
          /\ outcome' = [outcome EXCEPT ![a.req] = IF a.ok THEN "resolved" ELSE "failed"]
      BY <1>5, <2>2 DEF Accept, Accepts, Answered
    <3>2. CASE q = a.req
      BY <1>0, <1>5, <2>1, <3>1, <3>2 DEF Settled
    <3>3. CASE q # a.req
      <4>1. outcome'[q] = outcome[q]
        BY <1>0, <3>1, <3>3
      <4> QED BY <4>1 DEF Settled
    <3> QED BY <3>2, <3>3
  <2>3. CASE ~Accepts(a)
    BY <1>1, <1>5, <2>3 DEF Accept
  <2> QED BY <2>2, <2>3
<1>6. ASSUME Close PROVE Good
  <2>1. Pending \in SUBSET Pending /\ "closed" \in Settled \ {"resolved"}
    BY DEF Settled
  <2> QED BY <1>3, <1>6, <2>1 DEF Close, RejectAll
<1>7. ASSUME NEW r \in Reqs, Timeout(r) PROVE Good
  <2>1. {r} \in SUBSET Pending /\ "timedOut" \in Settled \ {"resolved"}
    BY <1>7 DEF Settled, Timeout, Armed
  <2> QED BY <1>4, <1>7, <2>1 DEF Timeout
<1>8. ASSUME NEW o \in Ops, CancelOperation(o) PROVE Good
  <2>1. {r \in Pending : r[1] = active[o]} \in SUBSET Pending /\ "aborted" \in Settled \ {"resolved"}
    BY DEF Settled
  <2> QED BY <1>4, <1>8, <2>1 DEF CancelOperation
<1>9. ASSUME NEW c \in Calls, Run(c) PROVE Good
  BY <1>1, <1>9 DEF Run
<1>10. ASSUME NEW r \in Reqs, Finish(r) PROVE Good
  BY <1>1, <1>10 DEF Finish, desktop
<1>11. ASSUME Die \/ Read \/ Start \/ UNCHANGED rpcState PROVE Good
  BY <1>1, <1>11 DEF Die, Read, Start, desktop, rpcState, rpcVars
<1> QED BY <1>2, <1>5, <1>6, <1>7, <1>8, <1>9, <1>10, <1>11 DEF RpcNext, ProcessExit, Stop

\* A promise settles once (SettlesOnce), whatever arrives late.
THEOREM PromiseSettlesOnce == RpcSpec => SettlesOnce
<1>1. RpcTypeOK /\ [RpcNext]_rpcState
        => [\A r \in Reqs : outcome[r] \in Settled => outcome'[r] = outcome[r]]_rpcVars
  BY OutcomeStep
<1> QED BY <1>1, RpcTyped, PTL DEF RpcSpec, SettlesOnce

-----------------------------------------------------------------------------
(* Success is backed by a commit *)

\* Every answer of success on its way back names work that was committed.
Backed == \A i \in DOMAIN down : down[i].ok => down[i].req \in ToSet(committed)

LEMMA BackedStep == RpcTypeOK /\ Backed /\ [RpcNext]_rpcState
                       => Backed' /\ ToSet(committed) \subseteq ToSet(committed')
<1> SUFFICES ASSUME RpcTypeOK, Backed, [RpcNext]_rpcState
             PROVE  Backed' /\ ToSet(committed) \subseteq ToSet(committed')
  OBVIOUS
<1>1. ASSUME UNCHANGED <<committed, down>> PROVE Backed' /\ ToSet(committed) \subseteq ToSet(committed')
  BY <1>1 DEF Backed
<1>2. ASSUME Accept PROVE Backed' /\ ToSet(committed) \subseteq ToSet(committed')
  <2>1. down \in Seq(Responses) /\ down # <<>> /\ down' = Tail(down) /\ committed' = committed
    BY <1>2 DEF Accept, RpcTypeOK, sidecar
  <2>2. \A i \in DOMAIN down' : i + 1 \in DOMAIN down /\ down'[i] = down[i + 1]
    BY <2>1
  <2> QED BY <2>1, <2>2 DEF Backed
<1>3. ASSUME NEW r \in Reqs, Finish(r) PROVE Backed' /\ ToSet(committed) \subseteq ToSet(committed')
  <2> PICK ok \in BOOLEAN : /\ committed' = IF ok THEN Append(committed, r) ELSE committed
                            /\ down' = Append(down, [req |-> r, ok |-> ok])
    BY <1>3 DEF Finish
  <2>1. committed \in Seq(Reqs) /\ down \in Seq(Responses)
    BY DEF RpcTypeOK
  <2>2. ToSet(committed) \subseteq ToSet(committed') /\ (ok => r \in ToSet(committed'))
    <3>1. ToSet(Append(committed, r)) = ToSet(committed) \cup {r}
      BY <2>1, AppendedSet
    <3> QED BY <3>1
  <2>3. \A i \in DOMAIN down' : (i \in DOMAIN down /\ down'[i] = down[i]) \/ down'[i] = [req |-> r, ok |-> ok]
    BY <2>1
  <2> QED BY <2>2, <2>3 DEF Backed
<1>4. ASSUME NEW r \in Reqs, Request(r) \/ Timeout(r) PROVE UNCHANGED <<committed, down>>
  BY <1>4 DEF Request, Timeout, sidecar
<1>5. ASSUME NEW c \in Calls, Run(c) PROVE UNCHANGED <<committed, down>>
  BY <1>5 DEF Run, sidecar
<1>6. ASSUME NEW o \in Ops, CancelOperation(o) PROVE UNCHANGED <<committed, down>>
  BY <1>6 DEF CancelOperation, sidecar
<1>7. ASSUME ProcessExit \/ Die \/ Stop \/ Read \/ Start \/ UNCHANGED rpcState PROVE UNCHANGED <<committed, down>>
  BY <1>7 DEF ProcessExit, Die, Stop, Close, Dead, Read, Start, rpcState, rpcVars, sidecar
<1> QED BY <1>1, <1>2, <1>3, <1>4, <1>5, <1>6, <1>7 DEF RpcNext

\* Success is told only of work the sidecar committed (ResolvedIsCommitted), late answers included.
THEOREM SuccessIsCommitted == RpcSpec => []ResolvedIsCommitted
<1> DEFINE Inv == Backed /\ ResolvedIsCommitted
<1>1. RpcInit => Inv
  BY DEF RpcInit, Backed, ResolvedIsCommitted
<1>2. RpcTypeOK /\ Inv /\ [RpcNext]_rpcState => Inv'
  <2> SUFFICES ASSUME RpcTypeOK, Backed, ResolvedIsCommitted, [RpcNext]_rpcState,
                      NEW r \in Reqs, outcome'[r] = "resolved"
               PROVE  r \in ToSet(committed')
    BY BackedStep DEF ResolvedIsCommitted
  <2>1. ToSet(committed) \subseteq ToSet(committed')
    BY BackedStep
  <2>2. CASE outcome[r] = "resolved"
    BY <2>1, <2>2 DEF ResolvedIsCommitted
  <2>3. CASE outcome[r] # "resolved"
    <3>1. outcome[r] \in Outcomes
      BY DEF RpcTypeOK
    <3>2. Accept /\ Head(down).req = r /\ Head(down).ok
      BY <2>3, <3>1, OutcomeStep DEF Outcomes, Settled
    <3>3. 1 \in DOMAIN down /\ Head(down) = down[1]
      BY <3>2 DEF Accept, RpcTypeOK
    <3> QED BY <2>1, <3>2, <3>3 DEF Backed
  <2> QED BY <2>2, <2>3
<1> QED BY <1>1, <1>2, RpcTyped, PTL DEF RpcSpec

-----------------------------------------------------------------------------
(* The order of commits *)

\* The pairs of requests of which the second is not sent at or before the first.
After == {p \in Reqs \X Reqs : \A k, l \in DOMAIN sent : sent[k] = p[1] /\ sent[l] = p[2] => k < l}

\* The requests among the messages of a pipe.
Asked(q) == {q[i].req : i \in {j \in DOMAIN q : q[j].kind = "request"}}

Sorted(F, q)     == \A i, j \in DOMAIN q : i < j => <<q[i], q[j]>> \in F
AsksSorted(F, q) == \A i, j \in DOMAIN q :
    i < j /\ q[i].kind = "request" /\ q[j].kind = "request" => <<q[i].req, q[j].req>> \in F
Before(F, A, B)  == \A a \in A, b \in B : <<a, b>> \in F

\* Where a request is on its way through the data core, the farthest place first.
Placed == ToSet(committed) \cup running \cup ToSet(channel) \cup Asked(up)

\* Every request in the pipe, the channel, the worker or among the commits has been
\* sent, and each of them was sent before all that are behind it.
InLine ==
    /\ Sorted(After, committed) /\ Sorted(After, channel) /\ AsksSorted(After, up)
    /\ Before(After, ToSet(committed), running \cup ToSet(channel) \cup Asked(up))
    /\ Before(After, running, ToSet(channel) \cup Asked(up))
    /\ Before(After, ToSet(channel), Asked(up))

OrderInv ==
    /\ \A r \in Placed \cup ToSet(sent) : r \in Reqs /\ outcome[r] # "unsent"
    /\ ~concurrent => InLine

\* A queue keeps its order when its head leaves and when what comes last is appended.
LEMMA HeadLeaves == ASSUME NEW F, NEW S, NEW q \in Seq(S), q # <<>>, Sorted(F, q)
                    PROVE  /\ Sorted(F, Tail(q)) /\ Before(F, {Head(q)}, ToSet(Tail(q)))
                           /\ ToSet(q) = {Head(q)} \cup ToSet(Tail(q))
<1> DEFINE t == Tail(q)
<1>1. /\ Head(q) = q[1] /\ DOMAIN q = 1..Len(q) /\ Len(q) \in Nat \ {0}
      /\ DOMAIN t = 1..(Len(q) - 1) /\ \A i \in 1..(Len(q) - 1) : t[i] = q[i + 1]
  OBVIOUS
<1> HIDE DEF t
<1>2. \A i \in DOMAIN t : i + 1 \in DOMAIN q /\ t[i] = q[i + 1] /\ 1 < i + 1
  BY <1>1
<1>3. \A j \in DOMAIN q : q[j] = q[1] \/ (j - 1 \in DOMAIN t /\ t[j - 1] = q[j])
  BY <1>1
<1>4. Sorted(F, t)
  <2> SUFFICES ASSUME NEW i \in DOMAIN t, NEW j \in DOMAIN t, i < j PROVE <<t[i], t[j]>> \in F
    BY DEF Sorted
  <2>1. i + 1 < j + 1
    BY <1>1
  <2> QED BY <1>2, <2>1 DEF Sorted
<1>5. Before(F, {Head(q)}, ToSet(t))
  BY <1>1, <1>2 DEF Before, ToSet, Sorted
<1>6. ToSet(q) = {Head(q)} \cup ToSet(t)
  <2>1. ToSet(q) \subseteq {Head(q)} \cup ToSet(t)
    BY <1>1, <1>3 DEF ToSet
  <2>2. {Head(q)} \cup ToSet(t) \subseteq ToSet(q)
    BY <1>1, <1>2 DEF ToSet
  <2> QED BY <2>1, <2>2
<1> QED BY <1>4, <1>5, <1>6 DEF t

LEMMA LastArrives == ASSUME NEW F, NEW S, NEW q \in Seq(S), NEW x \in S, Sorted(F, q), Before(F, ToSet(q), {x})
                     PROVE  Sorted(F, Append(q, x))
<1> DEFINE p == Append(q, x)
<1>1. /\ DOMAIN q = 1..Len(q) /\ DOMAIN p = 1..(Len(q) + 1) /\ Len(q) \in Nat
      /\ \A i \in 1..Len(q) : p[i] = q[i]
      /\ p[Len(q) + 1] = x
  OBVIOUS
<1> HIDE DEF p
<1>2. Sorted(F, p)
  <2> SUFFICES ASSUME NEW i \in DOMAIN p, NEW j \in DOMAIN p, i < j PROVE <<p[i], p[j]>> \in F
    BY DEF Sorted
  <2>1. i \in DOMAIN q /\ p[i] = q[i] /\ (j \in DOMAIN q \/ j = Len(q) + 1)
    BY <1>1
  <2>2. CASE j \in DOMAIN q
    BY <1>1, <2>1, <2>2 DEF Sorted
  <2>3. CASE j = Len(q) + 1
    BY <1>1, <2>1, <2>3 DEF Before, ToSet
  <2> QED BY <2>1, <2>2, <2>3
<1> QED BY <1>2 DEF p

\* The same of the messages in the pipe.
LEMMA AskedRead == ASSUME NEW q \in Seq(Messages), q # <<>>
                   PROVE  /\ Asked(Tail(q)) \subseteq Asked(q)
                          /\ Head(q).kind = "request" => Head(q).req \in Asked(q)
<1> DEFINE t == Tail(q)
<1>1. /\ Head(q) = q[1] /\ DOMAIN q = 1..Len(q) /\ Len(q) \in Nat \ {0}
      /\ DOMAIN t = 1..(Len(q) - 1) /\ \A i \in 1..(Len(q) - 1) : t[i] = q[i + 1]
  OBVIOUS
<1> HIDE DEF t
<1>2. 1 \in DOMAIN q /\ \A i \in DOMAIN t : i + 1 \in DOMAIN q /\ t[i] = q[i + 1]
  BY <1>1
<1>3. Asked(t) \subseteq Asked(q)
  BY <1>2 DEF Asked
<1>4. Head(q).kind = "request" => Head(q).req \in Asked(q)
  BY <1>1, <1>2 DEF Asked
<1> QED BY <1>3, <1>4 DEF t

LEMMA HeadRead == ASSUME NEW F, NEW q \in Seq(Messages), q # <<>>, AsksSorted(F, q)
                  PROVE  /\ AsksSorted(F, Tail(q))
                         /\ Head(q).kind = "request" => Before(F, {Head(q).req}, Asked(Tail(q)))
<1> DEFINE t == Tail(q)
<1>1. /\ Head(q) = q[1] /\ DOMAIN q = 1..Len(q) /\ Len(q) \in Nat \ {0}
      /\ DOMAIN t = 1..(Len(q) - 1) /\ \A i \in 1..(Len(q) - 1) : t[i] = q[i + 1]
  OBVIOUS
<1> HIDE DEF t
<1>2. \A i \in DOMAIN t : i + 1 \in DOMAIN q /\ t[i] = q[i + 1] /\ 1 < i + 1
  BY <1>1
<1>3. AsksSorted(F, t)
  <2> SUFFICES ASSUME NEW i \in DOMAIN t, NEW j \in DOMAIN t, i < j, t[i].kind = "request", t[j].kind = "request"
               PROVE  <<t[i].req, t[j].req>> \in F
    BY DEF AsksSorted
  <2>1. i + 1 < j + 1
    BY <1>1
  <2> QED BY <1>2, <2>1 DEF AsksSorted
<1>4. ASSUME q[1].kind = "request" PROVE Before(F, {q[1].req}, Asked(t))
  <2>1. 1 \in DOMAIN q
    BY <1>1
  <2> QED BY <1>2, <1>4, <2>1 DEF Before, Asked, AsksSorted
<1> QED BY <1>1, <1>3, <1>4 DEF t

LEMMA AskedWritten == ASSUME NEW q \in Seq(Messages), NEW m \in Messages
                      PROVE  Asked(q \o <<m>>) = IF m.kind = "request" THEN Asked(q) \cup {m.req} ELSE Asked(q)
<1> DEFINE p == q \o <<m>>
<1>1. /\ DOMAIN q = 1..Len(q) /\ DOMAIN p = 1..(Len(q) + 1) /\ Len(q) \in Nat
      /\ \A i \in 1..Len(q) : p[i] = q[i]
      /\ p[Len(q) + 1] = m
  OBVIOUS
<1> HIDE DEF p
<1>3. \A j \in DOMAIN p : j = Len(q) + 1 \/ (j \in DOMAIN q /\ p[j] = q[j])
  BY <1>1
<1>4. \A j \in DOMAIN q : j \in DOMAIN p /\ p[j] = q[j]
  BY <1>1
<1>5. Len(q) + 1 \in DOMAIN p /\ p[Len(q) + 1] = m
  BY <1>1
<1>6. CASE m.kind = "request"
  <2>1. Asked(p) \subseteq Asked(q) \cup {m.req}
    BY <1>3, <1>5 DEF Asked
  <2>2. Asked(q) \cup {m.req} \subseteq Asked(p)
    BY <1>4, <1>5, <1>6 DEF Asked
  <2> QED BY <1>6, <2>1, <2>2 DEF p
<1>7. CASE m.kind # "request"
  <2>1. Asked(p) \subseteq Asked(q)
    BY <1>3, <1>5, <1>7 DEF Asked
  <2>2. Asked(q) \subseteq Asked(p)
    BY <1>4 DEF Asked
  <2> QED BY <1>7, <2>1, <2>2 DEF p
<1> QED BY <1>6, <1>7

LEMMA LastWritten == ASSUME NEW F, NEW q \in Seq(Messages), NEW m \in Messages, AsksSorted(F, q),
                            m.kind = "request" => Before(F, Asked(q), {m.req})
                     PROVE  AsksSorted(F, q \o <<m>>)
<1> DEFINE p == q \o <<m>>
<1>1. /\ DOMAIN q = 1..Len(q) /\ DOMAIN p = 1..(Len(q) + 1) /\ Len(q) \in Nat
      /\ \A i \in 1..Len(q) : p[i] = q[i]
      /\ p[Len(q) + 1] = m
  OBVIOUS
<1> HIDE DEF p
<1>2. AsksSorted(F, p)
  <2> SUFFICES ASSUME NEW i \in DOMAIN p, NEW j \in DOMAIN p, i < j, p[i].kind = "request", p[j].kind = "request"
               PROVE  <<p[i].req, p[j].req>> \in F
    BY DEF AsksSorted
  <2>1. i \in DOMAIN q /\ p[i] = q[i] /\ (j \in DOMAIN q \/ j = Len(q) + 1)
    BY <1>1
  <2>2. CASE j \in DOMAIN q
    BY <1>1, <2>1, <2>2 DEF AsksSorted
  <2>3. CASE j = Len(q) + 1
    BY <1>1, <2>1, <2>3 DEF Before, Asked
  <2> QED BY <2>1, <2>2, <2>3
<1> QED BY <1>2 DEF p

\* Nothing moves but a cancellation into the pipe.
LEMMA OnlyCancelled ==
    ASSUME RpcTypeOK, OrderInv, [RpcNext]_rpcState, UNCHANGED <<sent, channel, running, committed>>,
           NEW r \in Reqs, up' = up \/ up' = up \o <<Message("cancel", r)>>
    PROVE  OrderInv'
<1>1. After' = After /\ concurrent' = concurrent
  BY DEF After, RpcNext, rpcState
<1>2. Asked(up') = Asked(up) /\ (~concurrent => AsksSorted(After, up'))
  <2>1. CASE up' = up
    BY <2>1 DEF OrderInv, InLine
  <2>2. CASE up' = up \o <<Message("cancel", r)>>
    <3>1. up \in Seq(Messages) /\ Message("cancel", r) \in Messages /\ Message("cancel", r).kind # "request"
      BY DEF RpcTypeOK, Message, Messages
    <3>3. Asked(up') = Asked(up)
      BY <2>2, <3>1, AskedWritten
    <3>4. AsksSorted(After, up) => AsksSorted(After, up')
      BY <2>2, <3>1, LastWritten
    <3> QED BY <3>3, <3>4 DEF OrderInv, InLine
  <2> QED BY <2>1, <2>2
<1>3. Placed' = Placed /\ ToSet(sent') = ToSet(sent)
  BY <1>2 DEF Placed
<1>4. \A q \in Placed' \cup ToSet(sent') : q \in Reqs /\ outcome'[q] # "unsent"
  BY <1>3, OutcomeStep DEF OrderInv
<1>5. ~concurrent' => InLine'
  BY <1>1, <1>2 DEF OrderInv, InLine
<1> QED BY <1>4, <1>5 DEF OrderInv

\* The sidecar dies with all it had not yet committed.
LEMMA AllDropped ==
    ASSUME RpcTypeOK, OrderInv, [RpcNext]_rpcState, sent' = sent, Dead
    PROVE  OrderInv'
<1>1. After' = After /\ concurrent' = concurrent
  BY DEF After, RpcNext, rpcState
<1>2. channel' = <<>> /\ up' = <<>> /\ running' = {} /\ committed' = committed
  BY DEF Dead
<1>3. ToSet(channel') = {} /\ Asked(up') = {} /\ Sorted(After', channel') /\ AsksSorted(After', up')
  BY <1>2 DEF ToSet, Asked, Sorted, AsksSorted
<1>4. Placed' \subseteq Placed /\ ToSet(sent') = ToSet(sent)
  BY <1>2, <1>3 DEF Placed
<1>5. \A q \in Placed' \cup ToSet(sent') : q \in Reqs /\ outcome'[q] # "unsent"
  BY <1>4, OutcomeStep DEF OrderInv
<1>6. ~concurrent' => InLine'
  BY <1>1, <1>2, <1>3 DEF OrderInv, InLine, Before
<1> QED BY <1>5, <1>6 DEF OrderInv

\* A request enters the pipe behind everything that was sent before.
LEMMA SentLast ==
    ASSUME RpcTypeOK, OrderInv, [RpcNext]_rpcState, NEW r \in Reqs, Request(r), Requested(r) = "pending"
    PROVE  OrderInv'
<1>1. /\ outcome[r] = "unsent" /\ outcome'[r] = "pending" /\ sent' = Append(sent, r)
      /\ up' = up \/ up' = up \o <<Message("request", r)>>
      /\ UNCHANGED <<channel, running, committed, concurrent>>
  BY DEF Request, Sent, RpcTypeOK, sidecar, RpcNext, rpcState
<1>2. sent \in Seq(Reqs) /\ up \in Seq(Messages)
  BY DEF RpcTypeOK
<1>3. Message("request", r) \in Messages /\ Message("request", r).kind = "request" /\ Message("request", r).req = r
  BY DEF Message, Messages
<1>4. r \notin Placed /\ r \notin ToSet(sent)
  BY <1>1 DEF OrderInv
<1>5. ToSet(sent') = ToSet(sent) \cup {r}
  BY <1>1, <1>2, AppendedSet
<1>6. \A a \in Reqs \ {r}, b \in Reqs : b = r \/ <<a, b>> \in After => <<a, b>> \in After'
  <2> SUFFICES ASSUME NEW a \in Reqs \ {r}, NEW b \in Reqs, b = r \/ <<a, b>> \in After,
                      NEW k \in DOMAIN sent', NEW l \in DOMAIN sent', sent'[k] = a, sent'[l] = b
               PROVE  k < l
    BY DEF After
  <2>1. /\ DOMAIN sent' = 1..(Len(sent) + 1) /\ Len(sent) \in Nat /\ DOMAIN sent = 1..Len(sent)
        /\ sent'[Len(sent) + 1] = r /\ \A i \in 1..Len(sent) : sent'[i] = sent[i]
    BY <1>1, <1>2
  <2>2. k \in 1..Len(sent)
    BY <2>1
  <2>3. CASE b = r
    <3>1. l \notin 1..Len(sent)
      BY <1>4, <2>1, <2>3 DEF ToSet
    <3> QED BY <2>1, <2>2, <3>1
  <2>4. CASE b # r
    <3>1. l \in 1..Len(sent) /\ <<a, b>> \in After
      BY <2>1, <2>4
    <3> QED BY <2>1, <2>2, <3>1 DEF After
  <2> QED BY <2>3, <2>4
<1>8. Asked(up') = Asked(up) \/ Asked(up') = Asked(up) \cup {r}
  <2>1. Asked(up \o <<Message("request", r)>>) = Asked(up) \cup {r}
    BY <1>2, <1>3, AskedWritten
  <2> QED BY <1>1, <2>1
<1>9. \A q \in Placed' \cup ToSet(sent') : q \in Reqs /\ outcome'[q] # "unsent"
  <2>1. Placed' \cup ToSet(sent') \subseteq Placed \cup ToSet(sent) \cup {r}
    BY <1>1, <1>5, <1>8 DEF Placed
  <2>2. \A q \in Placed \cup ToSet(sent) : q \in Reqs /\ outcome'[q] # "unsent"
    BY OutcomeStep DEF OrderInv
  <2> QED BY <1>1, <2>1, <2>2
<1>10. ASSUME ~concurrent PROVE InLine'
  <2>1. InLine
    BY <1>10 DEF OrderInv
  <2>2. \A a \in Placed : a \in Reqs \ {r}
    BY <1>4 DEF OrderInv
  <2>3. \A a \in Placed, b \in Placed \cup {r} : b = r \/ <<a, b>> \in After => <<a, b>> \in After'
    BY <1>6, <2>2
  <2>4. Sorted(After', committed')
    <3>1. \A k \in DOMAIN committed : committed[k] \in Placed
      BY DEF Placed, ToSet
    <3> QED BY <1>1, <2>1, <2>3, <3>1 DEF InLine, Sorted
  <2>5. Sorted(After', channel')
    <3>1. \A k \in DOMAIN channel : channel[k] \in Placed
      BY DEF Placed, ToSet
    <3> QED BY <1>1, <2>1, <2>3, <3>1 DEF InLine, Sorted
  <2>6. AsksSorted(After', up) /\ Before(After', Asked(up), {r})
    <3>1. \A k \in DOMAIN up : up[k].kind = "request" => up[k].req \in Placed
      BY DEF Placed, Asked
    <3>2. AsksSorted(After', up)
      BY <2>1, <2>3, <3>1 DEF InLine, AsksSorted
    <3>3. Before(After', Asked(up), {r})
      BY <2>3 DEF Before, Placed
    <3> QED BY <3>2, <3>3
  <2>7. AsksSorted(After', up')
    <3>1. AsksSorted(After', up \o <<Message("request", r)>>)
      BY <1>2, <1>3, <2>6, LastWritten
    <3> QED BY <1>1, <2>6, <3>1
  <2>8. /\ Before(After', ToSet(committed), running \cup ToSet(channel) \cup Asked(up'))
        /\ Before(After', running, ToSet(channel) \cup Asked(up'))
        /\ Before(After', ToSet(channel), Asked(up'))
    BY <1>8, <2>1, <2>3 DEF InLine, Before, Placed
  <2> QED BY <1>1, <2>4, <2>5, <2>7, <2>8 DEF InLine
<1> QED BY <1>1, <1>9, <1>10 DEF OrderInv

\* A request or a cancellation leaves the pipe.
LEMMA ReadKeepsOrder ==
    ASSUME RpcTypeOK, OrderInv, [RpcNext]_rpcState, Read
    PROVE  OrderInv'
<1> DEFINE m == Head(up)
<1>1. /\ After' = After /\ concurrent' = concurrent
      /\ up # <<>> /\ up' = Tail(up) /\ UNCHANGED <<sent, committed>>
  BY DEF After, RpcNext, rpcState, Read, desktop
<1>2. up \in Seq(Messages) /\ channel \in Seq(Reqs) /\ m \in Messages
  BY <1>1, Consumed DEF RpcTypeOK
<1>4. Asked(up') \subseteq Asked(up) /\ (m.kind = "request" => m.req \in Asked(up))
  BY <1>1, <1>2, AskedRead
<1>5. ASSUME ~concurrent
      PROVE  /\ InLine /\ AsksSorted(After, up')
             /\ m.kind = "request" => Before(After, {m.req}, Asked(up'))
  BY <1>1, <1>2, <1>5, HeadRead DEF OrderInv, InLine
<1>6. ASSUME UNCHANGED <<channel, running>> PROVE OrderInv'
  <2>1. Placed' \cup ToSet(sent') \subseteq Placed \cup ToSet(sent)
    BY <1>1, <1>4, <1>6 DEF Placed
  <2>2. \A q \in Placed' \cup ToSet(sent') : q \in Reqs /\ outcome'[q] # "unsent"
    BY <2>1, OutcomeStep DEF OrderInv
  <2>3. ~concurrent => InLine'
    BY <1>1, <1>4, <1>5, <1>6 DEF InLine, Before
  <2> QED BY <1>1, <2>2, <2>3 DEF OrderInv
<1>7. ASSUME m.kind # "cancel", Admit(m.req) PROVE OrderInv'
  <2>1. m.kind = "request" /\ m.req \in Reqs
    BY <1>2, <1>7 DEF Messages
  <2>2. CASE concurrent
    <3>1. running' = running \cup {m.req} /\ channel' = channel
      BY <1>7, <2>2 DEF Admit
    <3>2. Placed' \cup ToSet(sent') \subseteq Placed \cup ToSet(sent)
      BY <1>1, <1>4, <2>1, <3>1 DEF Placed
    <3>3. \A q \in Placed' \cup ToSet(sent') : q \in Reqs /\ outcome'[q] # "unsent"
      BY <3>2, OutcomeStep DEF OrderInv
    <3> QED BY <1>1, <2>2, <3>3 DEF OrderInv
  <2>3. CASE ~concurrent
    <3>1. running' = running /\ channel' = Append(channel, m.req)
      BY <1>7, <2>3 DEF Admit, Enqueued
    <3>2. ToSet(channel') = ToSet(channel) \cup {m.req}
      BY <1>2, <2>1, <3>1, AppendedSet
    <3>3. Placed' \cup ToSet(sent') \subseteq Placed \cup ToSet(sent)
      BY <1>1, <1>4, <2>1, <3>1, <3>2 DEF Placed
    <3>4. \A q \in Placed' \cup ToSet(sent') : q \in Reqs /\ outcome'[q] # "unsent"
      BY <3>3, OutcomeStep DEF OrderInv
    <3>5. InLine
      BY <1>5, <2>3
    <3>6. Sorted(After, channel')
      <4>1. Sorted(After, channel) /\ Before(After, ToSet(channel), {m.req})
        BY <1>4, <2>1, <3>5 DEF InLine, Before
      <4> QED BY <1>2, <2>1, <3>1, <4>1, LastArrives
    <3>7. AsksSorted(After, up') /\ Before(After, {m.req}, Asked(up'))
      BY <1>5, <2>1, <2>3
    <3>8. /\ Before(After, ToSet(committed), running \cup ToSet(channel') \cup Asked(up'))
          /\ Before(After, running, ToSet(channel') \cup Asked(up'))
          /\ Before(After, ToSet(channel'), Asked(up'))
      BY <1>4, <2>1, <3>2, <3>5, <3>7 DEF InLine, Before
    <3>9. InLine'
      BY <1>1, <3>1, <3>5, <3>6, <3>7, <3>8 DEF InLine
    <3> QED BY <3>4, <3>9 DEF OrderInv
  <2> QED BY <2>2, <2>3
<1> QED BY <1>6, <1>7 DEF Read

\* The worker takes the head of the channel.
LEMMA StartKeepsOrder ==
    ASSUME RpcTypeOK, OrderInv, [RpcNext]_rpcState, Start
    PROVE  OrderInv'
<1>1. /\ After' = After /\ concurrent' = concurrent
      /\ channel # <<>> /\ running = {} /\ running' = {Head(channel)} /\ channel' = Tail(channel)
      /\ UNCHANGED <<sent, committed, up>>
  BY DEF After, RpcNext, rpcState, Start, WorkerFree, desktop
<1>2. channel \in Seq(Reqs)
  BY DEF RpcTypeOK
<1>3. ToSet(channel) = {Head(channel)} \cup ToSet(channel')
  <2>1. Sorted({p \in Reqs \X Reqs : TRUE}, channel)
    BY <1>2 DEF Sorted
  <2> QED BY <1>1, <1>2, <2>1, HeadLeaves
<1>4. Placed' \cup ToSet(sent') \subseteq Placed \cup ToSet(sent)
  BY <1>1, <1>3 DEF Placed
<1>5. \A q \in Placed' \cup ToSet(sent') : q \in Reqs /\ outcome'[q] # "unsent"
  BY <1>4, OutcomeStep DEF OrderInv
<1>6. ASSUME ~concurrent PROVE InLine'
  <2>1. InLine
    BY <1>6 DEF OrderInv
  <2>2. Sorted(After, channel') /\ Before(After, {Head(channel)}, ToSet(channel'))
    BY <1>1, <1>2, <2>1, HeadLeaves DEF InLine
  <2>3. /\ Before(After, ToSet(committed), running' \cup ToSet(channel') \cup Asked(up))
        /\ Before(After, running', ToSet(channel') \cup Asked(up))
        /\ Before(After, ToSet(channel'), Asked(up))
    BY <1>1, <1>3, <2>1, <2>2 DEF InLine, Before
  <2> QED BY <1>1, <2>1, <2>2, <2>3 DEF InLine
<1> QED BY <1>1, <1>5, <1>6 DEF OrderInv

\* The work of the request that runs ends, with a commit behind all others or without one.
LEMMA FinishKeepsOrder ==
    ASSUME RpcTypeOK, OrderInv, [RpcNext]_rpcState, NEW r \in Reqs, Finish(r)
    PROVE  OrderInv'
<1>1. /\ After' = After /\ concurrent' = concurrent
      /\ r \in running /\ running' = running \ {r} /\ UNCHANGED <<sent, channel, up>>
  BY DEF After, RpcNext, rpcState, Finish, desktop
<1>2. committed \in Seq(Reqs) /\ (concurrent \/ \A a, b \in running : a = b)
  BY DEF RpcTypeOK
<1>3. committed' = committed \/ committed' = Append(committed, r)
  BY DEF Finish
<1>4. ToSet(Append(committed, r)) = ToSet(committed) \cup {r}
  BY <1>2, AppendedSet
<1>5. Placed' \cup ToSet(sent') \subseteq Placed \cup ToSet(sent)
  BY <1>1, <1>3, <1>4 DEF Placed
<1>6. \A q \in Placed' \cup ToSet(sent') : q \in Reqs /\ outcome'[q] # "unsent"
  BY <1>5, OutcomeStep DEF OrderInv
<1>7. ASSUME ~concurrent PROVE InLine'
  <2>1. InLine /\ running = {r} /\ running' = {}
    BY <1>1, <1>2, <1>7 DEF OrderInv
  <2>2. CASE committed' = committed
    BY <1>1, <2>1, <2>2 DEF InLine, Before
  <2>3. CASE committed' = Append(committed, r)
    <3>1. Sorted(After, committed')
      <4>1. Sorted(After, committed) /\ Before(After, ToSet(committed), {r})
        BY <2>1 DEF InLine, Before
      <4> QED BY <1>2, <2>3, <4>1, LastArrives
    <3>2. /\ Before(After, ToSet(committed'), running' \cup ToSet(channel) \cup Asked(up))
          /\ Before(After, running', ToSet(channel) \cup Asked(up))
          /\ Before(After, ToSet(channel), Asked(up))
      BY <1>4, <2>1, <2>3 DEF InLine, Before
    <3> QED BY <1>1, <2>1, <3>1, <3>2 DEF InLine
  <2> QED BY <1>3, <2>2, <2>3
<1> QED BY <1>1, <1>6, <1>7 DEF OrderInv

LEMMA OrderStep == RpcTypeOK /\ OrderInv /\ [RpcNext]_rpcState => OrderInv'
<1> SUFFICES ASSUME RpcTypeOK, OrderInv, [RpcNext]_rpcState PROVE OrderInv'
  OBVIOUS
<1>1. ASSUME UNCHANGED <<sent, channel, running, committed, up>> PROVE OrderInv'
  <2>1. Placed' = Placed /\ After' = After /\ concurrent' = concurrent
    BY <1>1 DEF Placed, After, RpcNext, rpcState
  <2>2. \A q \in Placed' \cup ToSet(sent') : q \in Reqs /\ outcome'[q] # "unsent"
    BY <1>1, <2>1, OutcomeStep DEF OrderInv
  <2>3. ~concurrent' => InLine'
    BY <1>1, <2>1 DEF OrderInv, InLine
  <2> QED BY <2>2, <2>3 DEF OrderInv
<1>2. ASSUME NEW rs \in SUBSET Reqs, NEW how, CancelPending(rs, how),
             UNCHANGED <<sent, channel, running, committed>>
      PROVE  OrderInv'
  <2>1. CASE rs = {}
    <3>1. up \in Seq(Messages)
      BY DEF RpcTypeOK
    <3>2. up \o <<>> = up
      BY <3>1
    <3> QED BY <1>1, <1>2, <2>1, <3>2 DEF CancelPending, Sent
  <2>2. CASE rs # {}
    <3>1. (CHOOSE r \in rs : TRUE) \in Reqs
      BY <2>2
    <3>2. up' = up \/ up' = up \o <<Message("cancel", CHOOSE r \in rs : TRUE)>>
      BY <1>2, <2>2 DEF CancelPending, Sent
    <3> QED BY <1>2, <3>1, <3>2, OnlyCancelled
  <2> QED BY <2>1, <2>2
<1>3. ASSUME NEW r \in Reqs, Request(r) PROVE OrderInv'
  <2>1. CASE Requested(r) = "pending"
    BY <1>3, <2>1, SentLast
  <2>2. CASE Requested(r) # "pending"
    BY <1>1, <1>3, <2>2 DEF Request, sidecar
  <2> QED BY <2>1, <2>2
<1>4. ASSUME NEW r \in Reqs, Timeout(r) PROVE OrderInv'
  <2>1. {r} \in SUBSET Reqs
    OBVIOUS
  <2> QED BY <1>2, <1>4, <2>1 DEF Timeout, sidecar
<1>5. ASSUME NEW o \in Ops, CancelOperation(o) PROVE OrderInv'
  <2>1. {r \in Pending : r[1] = active[o]} \in SUBSET Reqs
    BY DEF Pending
  <2> QED BY <1>2, <1>5, <2>1 DEF CancelOperation, sidecar
<1>6. ASSUME NEW c \in Calls, Run(c) PROVE OrderInv'
  BY <1>1, <1>6 DEF Run, sidecar
<1>7. ASSUME Accept \/ ProcessExit PROVE OrderInv'
  BY <1>1, <1>7 DEF Accept, ProcessExit, Close, sidecar
<1>8. ASSUME Die \/ Stop PROVE OrderInv'
  BY <1>8, AllDropped DEF Die, Stop, Close, desktop
<1>9. ASSUME UNCHANGED rpcState PROVE OrderInv'
  BY <1>1, <1>9 DEF rpcState, rpcVars
<1> QED BY <1>3, <1>4, <1>5, <1>6, <1>7, <1>8, <1>9,
           ReadKeepsOrder, StartKeepsOrder, FinishKeepsOrder DEF RpcNext

\* The data core commits work in the order the desktop sent it (CommitsInOrder), for any
\* number of requests, through cancellations, deadlines, refusals and the death of the process.
THEOREM CommitsFollowRequests == RpcSpec => []CommitsInOrder
<1>1. RpcInit => OrderInv
  <2> SUFFICES ASSUME RpcInit PROVE OrderInv
    OBVIOUS
  <2>1. sent = <<>> /\ up = <<>> /\ channel = <<>> /\ running = {} /\ committed = <<>>
    BY DEF RpcInit
  <2>2. ToSet(sent) = {} /\ ToSet(channel) = {} /\ ToSet(committed) = {} /\ Asked(up) = {}
    BY <2>1 DEF ToSet, Asked
  <2> QED BY <2>1, <2>2 DEF OrderInv, InLine, Placed, Before, Sorted, AsksSorted
<1>2. RpcTypeOK /\ OrderInv => CommitsInOrder
  <2> SUFFICES ASSUME RpcTypeOK, OrderInv, ~concurrent, NEW i \in DOMAIN committed, NEW j \in DOMAIN committed,
                      NEW k \in DOMAIN sent, NEW l \in DOMAIN sent,
                      i < j, sent[k] = committed[i], sent[l] = committed[j]
               PROVE  k < l
    BY DEF CommitsInOrder
  <2>1. <<committed[i], committed[j]>> \in After
    BY DEF OrderInv, InLine, Sorted
  <2> QED BY <2>1 DEF After
<1> QED BY <1>1, <1>2, RpcTyped, OrderStep, PTL DEF RpcSpec

-----------------------------------------------------------------------------
(***************************************************************************)
(* AiRuntime: an inspection that cannot show all a server offers says so.  *)
(* What is kept is counted over all lists; the invariant says of each list *)
(* whether it still is whole, and of the inspection that it is limited as  *)
(* soon as one list is not or the count is over the limit.                 *)
(***************************************************************************)

\* The AI runtime without its fairness, which a safety property does not need.
RuntimeSpec == RuntimeInit /\ [][RuntimeNext]_runtimeVars

\* As long as nothing was left out, a list holds all it was offered; once over, nothing more was.
ListIsWhole(l) ==
    /\ DOMAIN l = {"items", "seen", "next", "pages", "limited", "over", "offered", "more"}
    /\ l.items \in Seq(Items) /\ Len(l.items) <= MaxItems
    /\ ~l.limited => l.offered = Len(l.items) /\ (l.over => ~l.more)
\* An inspection says that it is limited, unless its lists are whole and all of them are kept.
Told(x) ==
    x.method = "inspect" /\ x.ok /\ ~x.limited =>
        /\ x.kept = Count(x.lists)
        /\ \A k \in Kinds : x.lists[k].over /\ ~x.lists[k].limited
SlotFits(x) ==
    /\ DOMAIN x = {"method", "id", "stage", "lists", "kept", "limited", "aborted", "expired", "hops", "ok", "answer"}
    /\ DOMAIN x.lists = Kinds /\ \A k \in Kinds : ListIsWhole(x.lists[k])
    /\ x.stage \in {"unused", "closing", "answered"} \cup Waiting
    /\ x.stage \in Waiting \cup {"unused"} => ~x.ok
    /\ x.stage = "acting" => x.method # "inspect"
    /\ x.answer = "ok" => x.ok
    /\ Told(x)
RuntimeInv == DOMAIN slots = Slots /\ \A s \in Slots : SlotFits(slots[s])

LEMMA CountIsNat == ASSUME NEW lists PROVE Count(lists) \in Nat
<1> DEFINE E == Kinds \X (1..MaxItems)
           C == {e \in E : e[2] <= Len(lists[e[1]].items)}
<1>1. IsFiniteSet({"tools", "resources", "prompts"})
  <2>1. IsFiniteSet({"tools"})
    BY FS_Singleton
  <2>2. IsFiniteSet({"tools"} \cup {"resources"})
    BY <2>1, FS_AddElement
  <2>3. IsFiniteSet(({"tools"} \cup {"resources"}) \cup {"prompts"})
    BY <2>2, FS_AddElement
  <2>4. ({"tools"} \cup {"resources"}) \cup {"prompts"} = {"tools", "resources", "prompts"}
    OBVIOUS
  <2> QED BY <2>3, <2>4
<1>2. IsFiniteSet(Kinds)
  BY <1>1, FS_Subset, RuntimeAssumption
<1>3. IsFiniteSet(1..MaxItems)
  BY FS_Interval, RuntimeAssumption
<1>4. IsFiniteSet(E)
  BY <1>2, <1>3, FS_Product
<1>5. C \subseteq E
  OBVIOUS
<1> HIDE DEF E, C
<1>6. IsFiniteSet(C)
  BY <1>4, <1>5, FS_Subset
<1>7. Cardinality(C) \in Nat
  BY <1>6, FS_CardinalityType
<1> QED BY <1>7 DEF Count, C, E

LEMMA NewListIsWhole ==
    ASSUME NEW over PROVE ListIsWhole(NewList) /\ ListIsWhole([NewList EXCEPT !.over = over])
<1>1. NewList.items = <<>> /\ NewList.offered = 0 /\ NewList.more = FALSE
  BY DEF NewList
<1> DEFINE l == [NewList EXCEPT !.over = over]
<1>2. DOMAIN l = DOMAIN NewList /\ l.items = <<>> /\ l.offered = 0 /\ l.more = FALSE
  BY DEF NewList
<1> HIDE DEF l
<1>3. DOMAIN NewList = {"items", "seen", "next", "pages", "limited", "over", "offered", "more"}
  BY DEF NewList
<1>4. <<>> \in Seq(Items) /\ Len(<<>>) = 0 /\ 0 <= MaxItems
  BY RuntimeAssumption
<1>5. ListIsWhole(l)
  BY <1>2, <1>3, <1>4 DEF ListIsWhole
<1>6. ListIsWhole(NewList)
  BY <1>1, <1>3, <1>4 DEF ListIsWhole
<1> QED BY <1>5, <1>6 DEF l

LEMMA GrownIsWhole ==
    ASSUME NEW l, ListIsWhole(l), NEW items \in Seq(Items), NEW page, page.items = items
    PROVE  ListIsWhole(Grown(l, page))
<1> DEFINE room == MaxItems - Len(l.items)
           n    == IF Len(items) > room THEN room ELSE Len(items)
           cut  == SubSeq(items, 1, n)
           now  == l.items \o cut
<1>1. Len(l.items) \in Nat /\ Len(items) \in Nat /\ MaxItems \in Nat /\ room \in Nat /\ n \in Nat /\ n <= Len(items) /\ n <= room
  BY RuntimeAssumption DEF ListIsWhole
<1>2. cut \in Seq(Items) /\ Len(cut) = n
  <2>1. \A i \in 1..n : items[i] \in Items
    BY <1>1
  <2>2. 1 \in Int /\ n \in Int
    BY <1>1
  <2> HIDE DEF n
  <2>3. cut \in Seq(Items) /\ Len(cut) = IF 1 <= n THEN n - 1 + 1 ELSE 0
    BY <2>1, <2>2, SubSeqProperties
  <2> QED BY <1>1, <2>3
<1> HIDE DEF cut
<1>3. now \in Seq(Items) /\ Len(now) = Len(l.items) + n
  <2>1. PICK old : old = l.items /\ old \in Seq(Items)
    BY DEF ListIsWhole
  <2>2. old \o cut \in Seq(Items) /\ Len(old \o cut) = Len(old) + Len(cut)
    BY <1>2, <2>1, ConcatProperties
  <2> QED BY <1>2, <2>1, <2>2
<1> HIDE DEF now
<1> DEFINE g == Grown(l, page)
           full == l.pages + 1 >= MaxPages \/ Len(now) >= MaxItems \/ page.next \in l.seen
           limited == l.limited \/ Len(items) > room \/ (page.next # None /\ full)
           over == page.next = None \/ full
           more == page.next # None
<1>4. g = [items |-> now, seen |-> l.seen \cup {page.next}, next |-> page.next, pages |-> l.pages + 1, limited |-> limited,
           over |-> over, offered |-> l.offered + Len(items), more |-> more]
  BY DEF Grown, now, cut
<1> HIDE DEF g
<1>a. /\ DOMAIN g = {"items", "seen", "next", "pages", "limited", "over", "offered", "more"}
      /\ g.items = now /\ g.offered = l.offered + Len(items)
  BY <1>4
<1>b. (g.limited <=> limited) /\ (g.over <=> over) /\ (g.more <=> more)
  BY <1>4
<1> HIDE DEF full
<1>5. Len(now) <= MaxItems /\ Len(now) \in Nat
  <2> HIDE DEF n
  <2> QED BY <1>1, <1>3
<1>6. ASSUME ~g.limited PROVE g.offered = Len(now) /\ (g.over => ~g.more)
  <2>1. ~l.limited /\ ~(Len(items) > room) /\ ~(page.next # None /\ full)
    BY <1>b, <1>6
  <2>2. l.offered = Len(l.items)
    BY <2>1 DEF ListIsWhole
  <2>3. g.offered = Len(now)
    BY <1>1, <1>3, <1>a, <2>1, <2>2
  <2>4. over => ~more
    BY <2>1
  <2> QED BY <1>b, <2>3, <2>4
<1>7. ListIsWhole(g)
  BY <1>3, <1>a, <1>5, <1>6 DEF ListIsWhole
<1> QED BY <1>7 DEF g

LEMMA SlotSet ==
    ASSUME RuntimeInv, NEW s \in Slots, NEW y, SlotFits(y), slots' = [slots EXCEPT ![s] = y]
    PROVE  RuntimeInv'
BY DEF RuntimeInv

\* A slot that takes no list and claims no success is as it should be.
LEMMA NothingClaimed ==
    ASSUME NEW x, SlotFits(x), NEW y, DOMAIN y = DOMAIN x, y.lists = x.lists, y.stage \in {"closing", "answered"} \cup Waiting,
           ~y.ok, y.answer # "ok", y.stage = "acting" => y.method # "inspect"
    PROVE  SlotFits(y)
BY DEF SlotFits, Told

\* What a session is when it ends, whatever for.
Ended(x, ok) == [x EXCEPT !.stage = "closing", !.ok = ok]
LEMMA EndedFits ==
    ASSUME NEW x, SlotFits(x), x.stage \in Waiting, NEW ok, ~ok \/ x.method # "inspect"
    PROVE  SlotFits(Ended(x, ok))
<1> DEFINE y == Ended(x, ok)
<1>1. /\ DOMAIN y = DOMAIN x /\ y.stage = "closing" /\ (y.ok <=> ok) /\ y.method = x.method /\ y.lists = x.lists
      /\ y.answer = x.answer
  BY DEF SlotFits, Ended
<1> HIDE DEF y
<1>2. x.answer # "ok"
  BY DEF SlotFits
<1>3. Told(y)
  BY <1>1 DEF Told
<1>4. SlotFits(y)
  BY <1>1, <1>2, <1>3 DEF SlotFits, Waiting
<1> QED BY <1>4 DEF y

LEMMA UnusedFits ==
    ASSUME NEW y, DOMAIN y = DOMAIN Unused, y.lists = Unused.lists, ~y.ok, y.answer # "ok",
           y.stage \in {"unused", "connecting", "answered"}
    PROVE  SlotFits(y)
<1>1. DOMAIN Unused = {"method", "id", "stage", "lists", "kept", "limited", "aborted", "expired", "hops", "ok", "answer"}
  BY DEF Unused
<1>2. DOMAIN Unused.lists = Kinds /\ \A k \in Kinds : Unused.lists[k] = NewList
  BY DEF Unused
<1>3. ListIsWhole(NewList)
  BY NewListIsWhole
<1> QED BY <1>1, <1>2, <1>3 DEF SlotFits, Told, Waiting

LEMMA DispatchKeeps ==
    ASSUME RuntimeInv, NEW s \in Slots, NEW id, NEW m, Dispatch(s, id, m)
    PROVE  RuntimeInv'
<1> DEFINE A(answer) == [Unused EXCEPT !.method = m, !.id = id, !.stage = "answered", !.answer = answer]
           C == [Unused EXCEPT !.method = m, !.id = id, !.stage = "connecting"]
<1>1. \E y \in {A("duplicate"), A("refused"), C} : slots' = [slots EXCEPT ![s] = y]
  BY DEF Dispatch, Set
<1>2. ASSUME NEW a \in {"duplicate", "refused"} PROVE SlotFits(A(a))
  <2>1. DOMAIN A(a) = DOMAIN Unused /\ A(a).lists = Unused.lists /\ A(a).ok = FALSE /\ A(a).answer = a /\ A(a).stage = "answered"
    BY DEF Unused
  <2> HIDE DEF A
  <2> QED BY <2>1, UnusedFits
<1>3. SlotFits(C)
  <2>1. DOMAIN C = DOMAIN Unused /\ C.lists = Unused.lists /\ C.ok = FALSE /\ C.answer = None /\ C.stage = "connecting"
    BY DEF Unused
  <2>2. None # "ok"
    BY RuntimeAssumption
  <2> HIDE DEF C
  <2> QED BY <2>1, <2>2, UnusedFits
<1> HIDE DEF A, C
<1>4. PICK y : y \in {A("duplicate"), A("refused"), C} /\ slots' = [slots EXCEPT ![s] = y]
  BY <1>1
<1>5. SlotFits(y)
  BY <1>2, <1>3, <1>4
<1> QED BY <1>4, <1>5, SlotSet

\* A timer that goes off, a cancellation or a redirect change nothing the invariant is about.
LEMMA MarkKeeps ==
    ASSUME NEW x, SlotFits(x), NEW v
    PROVE  SlotFits([x EXCEPT !.aborted = v]) /\ SlotFits([x EXCEPT !.expired = v]) /\ SlotFits([x EXCEPT !.hops = v])
<1>1. ASSUME NEW y, DOMAIN y = DOMAIN x, y.method = x.method, y.stage = x.stage, y.lists = x.lists, y.kept = x.kept,
             y.limited = x.limited, y.ok = x.ok, y.answer = x.answer
      PROVE  SlotFits(y)
  BY <1>1 DEF SlotFits, Told
<1>2. DOMAIN x = {"method", "id", "stage", "lists", "kept", "limited", "aborted", "expired", "hops", "ok", "answer"}
  BY DEF SlotFits
<1>3. SlotFits([x EXCEPT !.aborted = v])
  BY <1>1, <1>2
<1>4. SlotFits([x EXCEPT !.expired = v])
  BY <1>1, <1>2
<1>5. SlotFits([x EXCEPT !.hops = v])
  BY <1>1, <1>2
<1> QED BY <1>3, <1>4, <1>5

LEMMA ConnectKeeps ==
    ASSUME RuntimeInv, NEW s \in Slots, NEW advertised, Connect(s, advertised)
    PROVE  RuntimeInv'
<1>1. PICK x : x = slots[s]
  OBVIOUS
<1>2. SlotFits(x) /\ x.stage = "connecting"
  BY <1>1 DEF RuntimeInv, Connect, Live
<1> DEFINE m == x.method
           act == [x EXCEPT !.stage = "acting"]
           lists == [k \in Kinds |-> [NewList EXCEPT !.over = k \notin advertised \cap Listed(m)]]
           list == [x EXCEPT !.stage = "listing", !.hops = 0, !.lists = lists]
<1>3. \/ m = "generate" /\ slots' = [slots EXCEPT ![s] = act]
      \/ slots' = [slots EXCEPT ![s] = Ended(x, FALSE)]
      \/ slots' = [slots EXCEPT ![s] = list]
  BY <1>1 DEF Connect, Set, Ends, Ended
<1>4. CASE m = "generate" /\ slots' = [slots EXCEPT ![s] = act]
  <2>1. DOMAIN act = DOMAIN x /\ act.lists = x.lists /\ act.stage = "acting" /\ act.ok = x.ok /\ act.answer = x.answer /\ act.method = m
    BY <1>2 DEF SlotFits
  <2>2. ~x.ok /\ x.answer # "ok"
    BY <1>2 DEF SlotFits, Waiting
  <2> HIDE DEF act
  <2>3. SlotFits(act)
    BY <1>2, <1>4, <2>1, <2>2, NothingClaimed DEF Waiting
  <2> QED BY <1>4, <2>3, SlotSet
<1>5. CASE slots' = [slots EXCEPT ![s] = Ended(x, FALSE)]
  <2>1. SlotFits(Ended(x, FALSE))
    BY <1>2, EndedFits DEF Waiting
  <2> QED BY <1>5, <2>1, SlotSet
<1>6. CASE slots' = [slots EXCEPT ![s] = list]
  <2>1. DOMAIN lists = Kinds /\ \A k \in Kinds : ListIsWhole(lists[k])
    <3>1. ASSUME NEW k \in Kinds PROVE ListIsWhole(lists[k])
      <4>1. PICK over : over = (k \notin advertised \cap Listed(m))
        OBVIOUS
      <4>2. lists[k] = [NewList EXCEPT !.over = over]
        BY <4>1
      <4> QED BY <4>2, NewListIsWhole
    <3> QED BY <3>1
  <2> HIDE DEF lists
  <2>2. DOMAIN list = DOMAIN x /\ list.lists = lists /\ list.stage = "listing" /\ list.ok = x.ok /\ list.answer = x.answer
    BY <1>2 DEF SlotFits
  <2>3. ~x.ok /\ x.answer # "ok"
    BY <1>2 DEF SlotFits, Waiting
  <2> HIDE DEF list
  <2>4. SlotFits(list)
    BY <1>2, <2>1, <2>2, <2>3 DEF SlotFits, Told, Waiting
  <2> QED BY <1>6, <2>4, SlotSet
<1> QED BY <1>3, <1>4, <1>5, <1>6

LEMMA GetPageKeeps ==
    ASSUME RuntimeInv, NEW s \in Slots, NEW k \in Kinds, NEW m, NEW page \in Pages(m), GetPage(s, k, page)
    PROVE  RuntimeInv'
<1>1. PICK x : x = slots[s]
  OBVIOUS
<1>2. SlotFits(x) /\ x.stage = "listing"
  BY <1>1 DEF RuntimeInv, GetPage, Live
<1> DEFINE l == Grown(x.lists[k], page)
           lists == [x.lists EXCEPT ![k] = l]
           y == [x EXCEPT !.lists = lists, !.hops = 0]
<1>3. slots' = [slots EXCEPT ![s] = y]
  BY <1>1 DEF GetPage, Set
<1>4. ListIsWhole(l)
  <2>1. page.items \in Seq(Items)
    <3>1. PICK n \in PageSizes : page.items \in [1..n -> Items] \/ page.items \in [1..n -> {"other"}]
      BY DEF Pages
    <3>2. n \in Nat /\ {"other"} \subseteq Items
      BY RuntimeAssumption DEF Items
    <3>3. page.items \in [1..n -> Items]
      BY <3>1, <3>2
    <3> QED BY <3>2, <3>3
  <2>2. ListIsWhole(x.lists[k])
    BY <1>2 DEF SlotFits
  <2> QED BY <2>1, <2>2, GrownIsWhole
<1> HIDE DEF l
<1>5. DOMAIN lists = Kinds /\ \A j \in Kinds : ListIsWhole(lists[j])
  BY <1>2, <1>4 DEF SlotFits
<1> HIDE DEF lists
<1>6. DOMAIN y = DOMAIN x /\ y.lists = lists /\ y.stage = "listing" /\ y.ok = x.ok /\ y.answer = x.answer
  BY <1>2 DEF SlotFits
<1>7. ~x.ok /\ x.answer # "ok"
  BY <1>2 DEF SlotFits, Waiting
<1> HIDE DEF y
<1>8. SlotFits(y)
  BY <1>2, <1>5, <1>6, <1>7 DEF SlotFits, Told, Waiting
<1> QED BY <1>3, <1>8, SlotSet

LEMMA SummariseKeeps == ASSUME RuntimeInv, NEW s \in Slots, Summarise(s) PROVE RuntimeInv'
<1>1. PICK x : x = slots[s]
  OBVIOUS
<1>2. SlotFits(x) /\ x.stage = "listing" /\ \A k \in Kinds : x.lists[k].over
  BY <1>1 DEF RuntimeInv, Summarise, Live
<1>3. PICK lists, n : lists = x.lists /\ n = Count(lists)
  OBVIOUS
<1>4. n \in Nat
  BY <1>3, CountIsNat
<1>5. PICK kept \in 0..n, cut \in BOOLEAN :
        slots' = [slots EXCEPT ![s] = [x EXCEPT !.stage = "closing", !.ok = TRUE, !.kept = kept,
                    !.limited = cut \/ kept < n \/ \E k \in Kinds : lists[k].limited]]
  BY <1>1, <1>3 DEF Summarise, Set
<1>6. PICK limited : limited = (cut \/ kept < n \/ \E k \in Kinds : lists[k].limited)
  OBVIOUS
<1> DEFINE y == [x EXCEPT !.stage = "closing", !.ok = TRUE, !.kept = kept, !.limited = limited]
<1>7. slots' = [slots EXCEPT ![s] = y]
  BY <1>5, <1>6
<1>8. DOMAIN y = DOMAIN x /\ y.stage = "closing" /\ y.ok = TRUE /\ y.kept = kept /\ y.limited = limited /\ y.lists = lists
      /\ y.method = x.method
  BY <1>2, <1>3 DEF SlotFits
<1> HIDE DEF y
<1>9. Told(y)
  <2> SUFFICES ASSUME ~limited PROVE kept = n /\ \A k \in Kinds : lists[k].over /\ ~lists[k].limited
    BY <1>3, <1>8 DEF Told
  <2>1. ~(kept < n) /\ \A k \in Kinds : ~lists[k].limited
    BY <1>6
  <2> QED BY <1>2, <1>3, <1>4, <1>5, <2>1
<1>10. SlotFits(y)
  BY <1>2, <1>3, <1>8, <1>9 DEF SlotFits, Waiting
<1> QED BY <1>7, <1>10, SlotSet

LEMMA LookUpKeeps == ASSUME RuntimeInv, NEW s \in Slots, LookUp(s) PROVE RuntimeInv'
<1>1. PICK x : x = slots[s]
  OBVIOUS
<1>2. SlotFits(x) /\ x.stage = "listing" /\ x.method # "inspect"
  BY <1>1 DEF RuntimeInv, LookUp, Live
<1> DEFINE y == [x EXCEPT !.stage = "acting", !.hops = 0]
<1>3. slots' = [slots EXCEPT ![s] = y] \/ slots' = [slots EXCEPT ![s] = Ended(x, FALSE)]
  BY <1>1 DEF LookUp, Set, Ends, Ended
<1>4. DOMAIN y = DOMAIN x /\ y.lists = x.lists /\ y.stage = "acting" /\ y.ok = x.ok /\ y.answer = x.answer /\ y.method = x.method
  BY <1>2 DEF SlotFits
<1>5. ~x.ok /\ x.answer # "ok"
  BY <1>2 DEF SlotFits, Waiting
<1> HIDE DEF y
<1>6. SlotFits(y)
  BY <1>2, <1>4, <1>5, NothingClaimed DEF Waiting
<1>7. SlotFits(Ended(x, FALSE))
  BY <1>2, EndedFits DEF Waiting
<1> QED BY <1>3, <1>6, <1>7, SlotSet

LEMMA EndKeeps == ASSUME RuntimeInv, NEW s \in Slots, StopsWaiting(s) \/ ServerFails(s) \/ Result(s) PROVE RuntimeInv'
<1>1. PICK x : x = slots[s]
  OBVIOUS
<1>2. PICK ok \in BOOLEAN : slots' = [slots EXCEPT ![s] = Ended(x, ok)] /\ x.stage \in Waiting /\ (~ok \/ x.stage = "acting")
  BY <1>1 DEF StopsWaiting, ServerFails, Result, Live, Ends, Ended, Set, Waiting
<1>3. SlotFits(x)
  BY <1>1 DEF RuntimeInv
<1>4. ~ok \/ x.method # "inspect"
  BY <1>2, <1>3 DEF SlotFits
<1>5. SlotFits(Ended(x, ok))
  BY <1>2, <1>3, <1>4, EndedFits
<1> QED BY <1>2, <1>5, SlotSet

LEMMA RedirectKeeps == ASSUME RuntimeInv, NEW s \in Slots, Redirect(s) \/ Expire(s) PROVE RuntimeInv'
<1>1. PICK x : x = slots[s]
  OBVIOUS
<1>2. SlotFits(x)
  BY <1>1 DEF RuntimeInv
<1>3. \/ \E v : slots' = [slots EXCEPT ![s] = [x EXCEPT !.hops = v]]
      \/ \E v : slots' = [slots EXCEPT ![s] = [x EXCEPT !.expired = v]]
      \/ x.stage \in Waiting /\ slots' = [slots EXCEPT ![s] = Ended(x, FALSE)]
  BY <1>1 DEF Redirect, Expire, Set, Ends, Ended
<1>4. CASE \E v : slots' = [slots EXCEPT ![s] = [x EXCEPT !.hops = v]]
  <2>1. PICK v : slots' = [slots EXCEPT ![s] = [x EXCEPT !.hops = v]]
    BY <1>4
  <2> QED BY <1>2, <2>1, MarkKeeps, SlotSet
<1>5. CASE \E v : slots' = [slots EXCEPT ![s] = [x EXCEPT !.expired = v]]
  <2>1. PICK v : slots' = [slots EXCEPT ![s] = [x EXCEPT !.expired = v]]
    BY <1>5
  <2> QED BY <1>2, <2>1, MarkKeeps, SlotSet
<1>6. CASE x.stage \in Waiting /\ slots' = [slots EXCEPT ![s] = Ended(x, FALSE)]
  <2>1. SlotFits(Ended(x, FALSE))
    BY <1>2, <1>6, EndedFits
  <2> QED BY <1>6, <2>1, SlotSet
<1> QED BY <1>3, <1>4, <1>5, <1>6

LEMMA CancelKeeps == ASSUME RuntimeInv, NEW id, Cancel(id) PROVE RuntimeInv'
<1>1. CASE controllers[id] \in Slots
  <2>1. PICK s, x : s = controllers[id] /\ x = slots[s]
    OBVIOUS
  <2>2. s \in Slots /\ SlotFits(x) /\ slots' = [slots EXCEPT ![s] = [x EXCEPT !.aborted = TRUE]]
    BY <1>1, <2>1 DEF RuntimeInv, Cancel
  <2> QED BY <2>2, MarkKeeps, SlotSet
<1>2. CASE controllers[id] \notin Slots
  BY <1>2 DEF RuntimeInv, Cancel
<1> QED BY <1>1, <1>2

LEMMA RespondKeeps == ASSUME RuntimeInv, NEW s \in Slots, Respond(s) PROVE RuntimeInv'
<1>1. PICK x : x = slots[s]
  OBVIOUS
<1>2. PICK answer : answer = IF x.ok THEN "ok" ELSE IF x.aborted THEN "cancelled" ELSE "failed"
  OBVIOUS
<1> DEFINE y == [x EXCEPT !.stage = "answered", !.answer = answer]
<1>3. SlotFits(x) /\ x.stage = "closing" /\ slots' = [slots EXCEPT ![s] = y]
  BY <1>1, <1>2 DEF RuntimeInv, Respond, Set
<1>4. DOMAIN y = DOMAIN x /\ y.stage = "answered" /\ y.answer = answer /\ y.ok = x.ok /\ y.method = x.method /\ y.lists = x.lists
      /\ y.kept = x.kept /\ y.limited = x.limited
  BY <1>3 DEF SlotFits
<1> HIDE DEF y
<1>5. Told(y)
  BY <1>3, <1>4 DEF SlotFits, Told
<1>6. answer = "ok" => x.ok
  BY <1>2
<1>7. SlotFits(y)
  BY <1>3, <1>4, <1>5, <1>6 DEF SlotFits, Waiting
<1> QED BY <1>3, <1>7, SlotSet

LEMMA RuntimeHolds == RuntimeSpec => []RuntimeInv
<1>1. RuntimeInit => RuntimeInv
  <2> SUFFICES ASSUME RuntimeInit PROVE RuntimeInv
    OBVIOUS
  <2>1. Unused.ok = FALSE /\ Unused.answer = None /\ Unused.stage = "unused" /\ None # "ok"
    BY RuntimeAssumption DEF Unused
  <2>2. SlotFits(Unused)
    BY <2>1, UnusedFits
  <2> QED BY <2>2 DEF RuntimeInit, RuntimeInv
<1>2. RuntimeInv /\ [RuntimeNext]_runtimeVars => RuntimeInv'
  <2> SUFFICES ASSUME RuntimeInv, [RuntimeNext]_runtimeVars PROVE RuntimeInv'
    OBVIOUS
  <2>1. CASE UNCHANGED runtimeVars
    BY <2>1 DEF runtimeVars, RuntimeInv
  <2>2. CASE \E s \in Slots : Step(s) \/ Expire(s) \/ ServerFails(s) \/ Redirect(s) \/ Result(s)
    BY <2>2, EndKeeps, RespondKeeps, SummariseKeeps, LookUpKeeps, RedirectKeeps DEF Step
  <2>3. CASE \E s \in Slots : \E id \in Ids, m \in Methods[s] : Dispatch(s, id, m)
    BY <2>3, DispatchKeeps
  <2>4. CASE \E s \in Slots : \E advertised \in SUBSET Kinds : Connect(s, advertised)
    BY <2>4, ConnectKeeps
  <2>5. CASE \E s \in Slots : \E k \in Kinds : slots[s].stage = "listing" /\ \E page \in Pages(slots[s].method) : GetPage(s, k, page)
    <3>1. PICK s \in Slots, k \in Kinds : \E page \in Pages(slots[s].method) : GetPage(s, k, page)
      BY <2>5
    <3>2. PICK m : m = slots[s].method
      OBVIOUS
    <3>3. PICK page \in Pages(m) : GetPage(s, k, page)
      BY <3>1, <3>2
    <3> QED BY <3>3, GetPageKeeps
  <2>6. CASE \E id \in Ids : Cancel(id)
    BY <2>6, CancelKeeps
  <2> QED BY <2>1, <2>2, <2>3, <2>4, <2>5, <2>6 DEF RuntimeNext, RuntimeSteps
<1> QED BY <1>1, <1>2, PTL DEF RuntimeSpec

\* An inspection that does not say it is limited shows everything the server offered, whatever the server does
\* with its pages and cursors.
THEOREM TruncationIsAlwaysTold == RuntimeSpec => []TruncationIsTold
<1>1. RuntimeInv => TruncationIsTold
  BY DEF RuntimeInv, SlotFits, Told, ListIsWhole, TruncationIsTold
<1> QED BY <1>1, RuntimeHolds, PTL

-----------------------------------------------------------------------------
(***************************************************************************)
(* ReviewPanels: the panels whose buttons wait. A behaviour has one panel  *)
(* open, so the invariant is about one flow at a time: every review in use *)
(* was made by an answered request, an approval under way is what holds    *)
(* the panel, and a review taken back is neither usable nor acted upon.    *)
(***************************************************************************)

GuardedFlows == ReviewFlows \cap {"rows", "clean"}
PanelRequest == [kind: {"prepare", "approve", "dismiss"}, flow: ReviewFlows, review: Nat,
            phase: {"sent", "running", "refused", "ended"}]
ReviewTypes ==
    /\ requests \in Seq(PanelRequest)
    /\ proposal \in [ReviewFlows -> Nat]
    /\ acted \subseteq Nat /\ takenBack \subseteq Nat /\ usable \subseteq Nat

\* Another panel is open, and was from the start.
Elsewhere(f) == opened # Rule[f].panel /\ \A i \in DOMAIN requests : requests[i].flow # f

\* The request has made the review and was answered: it cannot make it again.
Made(r) == r \in DOMAIN requests /\ requests[r].kind = "prepare" /\ requests[r].phase = "ended"
OfPanel(f) == opened \in {Rule[f].panel, ""} /\ \A i \in DOMAIN requests : requests[i].flow = f
AllMade(f) ==
    /\ \A r \in usable \cup acted \cup takenBack : Made(r)
    /\ proposal[f] # 0 => Made(proposal[f])
    /\ \A i \in DOMAIN requests : requests[i].kind # "prepare" => Made(requests[i].review)
ActedByApproval == \A r \in acted : \E i \in DOMAIN requests :
    requests[i].kind = "approve" /\ requests[i].review = r /\ requests[i].phase \in {"running", "ended"}
Gone == (\A r \in takenBack : r \notin usable /\ r \notin acted)
DismissedIsGone == \A i \in DOMAIN requests : requests[i].kind = "dismiss" =>
    requests[i].review \notin usable /\ requests[i].review \notin acted
\* A panel that offers to cancel what runs.
OffersToCancel(f) == opened = Rule[f].panel =>
    /\ \A i \in Ongoing("approve") : operation = i
    /\ \A i \in DOMAIN requests :
          proposal[f] # 0 /\ requests[i].kind = "approve" /\ requests[i].review = proposal[f] => requests[i].phase # "ended"
\* A panel that is busy with what runs.
IsBusy(f) == opened = Rule[f].panel =>
    /\ busy # "loading"
    /\ \A i \in Ongoing("prepare") \cup Ongoing("approve") :
          busy = "work" /\ \A j \in Ongoing("prepare") \cup Ongoing("approve") : j = i
Here(f) ==
    /\ OfPanel(f) /\ AllMade(f) /\ ActedByApproval /\ Gone /\ DismissedIsGone
    /\ f = "rows" => OffersToCancel(f)
    /\ f = "clean" => IsBusy(f)

ReviewInv == ReviewTypes /\ \A f \in GuardedFlows : Elsewhere(f) \/ Here(f)

-----------------------------------------------------------------------------
(* The rules of the two flows *)

LEMMA RowsRule ==
    /\ Rule["rows"].panel = "rows" /\ Rule["rows"].waits = {"approve", "dismiss"}
    /\ Rule["rows"].marks = FALSE /\ Rule["rows"].cancels = TRUE /\ Rule["rows"].keeps = FALSE
    /\ Rule["rows"].confirms = TRUE /\ Rule["rows"].revokes = FALSE
  BY DEF Rule, Rows, ModelRule
LEMMA CleanRule ==
    /\ Rule["clean"].panel = "clean" /\ Rule["clean"].waits = {"prepare", "approve", "dismiss"}
    /\ Rule["clean"].marks = TRUE /\ Rule["clean"].cancels = FALSE /\ Rule["clean"].keeps = TRUE
    /\ Rule["clean"].confirms = FALSE /\ Rule["clean"].revokes = TRUE
  BY DEF Rule, Clean, LocalRule

\* The other flows.
OtherFlows == {"inspection", "resource", "prompt", "tool", "promptModel", "toolModel", "execution",
               "explanation", "agent", "reconcile", "knowledge"}
LEMMA FlowsOfRule == DOMAIN Rule = OtherFlows \cup {"rows", "clean"}
  BY DEF Rule, OtherFlows
LEMMA OtherPanels == \A f \in OtherFlows : Rule[f].panel \in {"mcp", "bridge", "explanation", "agent", "reconcile", "knowledge"}
  <1> SUFFICES ASSUME NEW f \in OtherFlows
               PROVE  Rule[f].panel \in {"mcp", "bridge", "explanation", "agent", "reconcile", "knowledge"}
    OBVIOUS
  <1>1. CASE f \in {"inspection", "resource", "prompt", "tool"}
    BY <1>1 DEF Rule, Inspection, Resource, Prompt, Tool, McpRule
  <1>2. CASE f \in {"promptModel", "toolModel", "explanation", "agent"}
    BY <1>2 DEF Rule, PromptModel, ToolModel, Explanation, Agent, ModelRule
  <1>3. CASE f = "execution"
    BY <1>3 DEF Rule, Execution, ModelRule
  <1>4. CASE f \in {"reconcile", "knowledge"}
    BY <1>4 DEF Rule, Reconcile, Knowledge, LocalRule
  <1> QED BY <1>1, <1>2, <1>3, <1>4 DEF OtherFlows
LEMMA OtherWaits == \A f \in OtherFlows : ~Guarded(f)
  <1> SUFFICES ASSUME NEW f \in OtherFlows PROVE ~Guarded(f)
    OBVIOUS
  <1>1. CASE f \in {"inspection", "resource", "prompt", "tool"}
    BY <1>1 DEF Guarded, Rule, Inspection, Resource, Prompt, Tool, McpRule
  <1>2. CASE f \in {"promptModel", "toolModel", "explanation", "agent"}
    BY <1>2 DEF Guarded, Rule, PromptModel, ToolModel, Explanation, Agent, ModelRule
  <1>3. CASE f = "execution"
    BY <1>3 DEF Guarded, Rule, Execution, ModelRule
  <1>4. CASE f \in {"reconcile", "knowledge"}
    BY <1>4 DEF Guarded, Rule, Reconcile, Knowledge, LocalRule
  <1> QED BY <1>1, <1>2, <1>3, <1>4 DEF OtherFlows

\* The flows whose buttons wait are the two, and each has a panel of its own.
LEMMA GuardedAre == \A f \in ReviewFlows : Guarded(f) => f \in GuardedFlows
  BY ReviewAssumption, FlowsOfRule, OtherWaits DEF GuardedFlows
LEMMA OwnPanel ==
    ASSUME NEW f \in GuardedFlows
    PROVE  /\ f \in ReviewFlows /\ f \in {"rows", "clean"} /\ Rule[f].panel # ""
           /\ \A g \in ReviewFlows : Rule[g].panel = Rule[f].panel => g = f
  <1>1. f \in ReviewFlows /\ f \in {"rows", "clean"} /\ Rule[f].panel = f
    BY RowsRule, CleanRule DEF GuardedFlows
  <1>2. ASSUME NEW g \in ReviewFlows, Rule[g].panel = Rule[f].panel PROVE g = f
    <2>1. g \in OtherFlows \/ g \in {"rows", "clean"}
      BY ReviewAssumption, FlowsOfRule
    <2> QED BY <1>1, <1>2, <2>1, OtherPanels, RowsRule, CleanRule
  <1> QED BY <1>1, <1>2

-----------------------------------------------------------------------------
(* The requests *)

\* A request that changes its phase stays the request it was.
LEMMA BecomesKeeps ==
    ASSUME requests \in Seq(PanelRequest), NEW i \in DOMAIN requests,
           NEW phase \in {"sent", "running", "refused", "ended"}, Becomes(i, phase)
    PROVE  /\ requests' \in Seq(PanelRequest) /\ DOMAIN requests' = DOMAIN requests
           /\ \A j \in DOMAIN requests :
                 /\ requests'[j].kind = requests[j].kind /\ requests'[j].flow = requests[j].flow
                 /\ requests'[j].review = requests[j].review
                 /\ requests'[j].phase = IF j = i THEN phase ELSE requests[j].phase
  <1> DEFINE new == [requests[i] EXCEPT !.phase = phase]
  <1>1. requests[i] \in PanelRequest
    OBVIOUS
  <1>2. /\ new \in PanelRequest /\ new.kind = requests[i].kind /\ new.flow = requests[i].flow
        /\ new.review = requests[i].review /\ new.phase = phase
    BY <1>1 DEF PanelRequest
  <1>3. requests' = [requests EXCEPT ![i] = new]
    BY DEF Becomes
  <1> HIDE DEF new
  <1>4. requests' \in Seq(PanelRequest) /\ DOMAIN requests' = DOMAIN requests
    BY <1>2, <1>3
  <1>5. \A j \in DOMAIN requests : requests'[j] = IF j = i THEN new ELSE requests[j]
    BY <1>3
  <1> QED BY <1>2, <1>4, <1>5
\* A new request comes last and leaves the others as they are.
LEMMA AsksAppends ==
    ASSUME requests \in Seq(PanelRequest), NEW kind \in {"prepare", "approve", "dismiss"}, NEW f \in ReviewFlows,
           NEW review \in Nat, Asks(kind, f, review)
    PROVE  /\ requests' \in Seq(PanelRequest) /\ Len(requests) \in Nat
           /\ DOMAIN requests = 1..Len(requests) /\ DOMAIN requests' = 1..(Len(requests) + 1)
           /\ \A j \in DOMAIN requests : requests'[j] = requests[j]
           /\ requests'[Len(requests) + 1] = [kind |-> kind, flow |-> f, review |-> review, phase |-> "sent"]
  BY DEF Asks, PanelRequest

-----------------------------------------------------------------------------
(* Types *)

LEMMA TypesAtStart == ReviewInit => ReviewTypes
  <1> SUFFICES ASSUME ReviewInit PROVE ReviewTypes
    OBVIOUS
  <1>1. requests = <<>>
    BY DEF ReviewInit
  <1>2. requests \in Seq(PanelRequest)
    BY <1>1
  <1>3. proposal \in [ReviewFlows -> Nat]
    BY DEF ReviewInit
  <1>4. acted \subseteq Nat /\ takenBack \subseteq Nat /\ usable \subseteq Nat
    BY DEF ReviewInit
  <1> QED BY <1>2, <1>3, <1>4 DEF ReviewTypes
LEMMA NumbersOfRequests ==
    ASSUME requests \in Seq(PanelRequest)
    PROVE  /\ DOMAIN requests \subseteq Nat
           /\ \A i \in DOMAIN requests : requests[i] \in PanelRequest /\ i # 0
  OBVIOUS
LEMMA WithoutIsShown ==
    ASSUME NEW shown \in [ReviewFlows -> Nat], NEW fs
    PROVE  Without(shown, fs) \in [ReviewFlows -> Nat]
  BY DEF Without
LEMMA TypesKept == ReviewTypes /\ [ReviewNext]_reviewVars => ReviewTypes'
  <1> SUFFICES ASSUME ReviewTypes, [ReviewNext]_reviewVars PROVE ReviewTypes'
    OBVIOUS
  <1> USE NumbersOfRequests, WithoutIsShown
  <1>1. ASSUME NEW f \in ReviewFlows, Prepare(f) PROVE ReviewTypes'
    <2>1. requests' \in Seq(PanelRequest)
      <3>1. Len(requests) + 1 \in Nat
        BY DEF ReviewTypes
      <3> QED BY <1>1, <3>1, AsksAppends DEF Prepare, ReviewTypes
    <2>2. proposal' \in [ReviewFlows -> Nat]
      BY <1>1 DEF Prepare, ReviewTypes
    <2> QED BY <1>1, <2>1, <2>2 DEF Prepare, ReviewTypes
  <1>2. ASSUME NEW i \in DOMAIN requests, Prepared(i) PROVE ReviewTypes'
    <2>1. requests' \in Seq(PanelRequest)
      BY <1>2, BecomesKeeps DEF Prepared, ReviewTypes
    <2>2. proposal' \in [ReviewFlows -> Nat]
      BY <1>2 DEF Prepared, ReviewTypes
    <2>3. usable' \subseteq Nat
      BY <1>2 DEF Prepared, ReviewTypes
    <2> QED BY <1>2, <2>1, <2>2, <2>3 DEF Prepared, ReviewTypes
  <1>3. ASSUME NEW f \in ReviewFlows, Approve(f) PROVE ReviewTypes'
    BY <1>3, AsksAppends DEF Approve, ReviewTypes
  <1>4. ASSUME NEW i \in DOMAIN requests, Act(i) PROVE ReviewTypes'
    <2>1. requests' \in Seq(PanelRequest)
      BY <1>4, BecomesKeeps DEF Act, ReviewTypes
    <2>2. requests[i].review \in Nat
      BY DEF ReviewTypes, PanelRequest
    <2> QED BY <1>4, <2>1, <2>2 DEF Act, ReviewTypes
  <1>5. ASSUME NEW i \in DOMAIN requests, Approved(i) PROVE ReviewTypes'
    <2>1. requests' \in Seq(PanelRequest)
      BY <1>5, BecomesKeeps DEF Approved, ReviewTypes
    <2>2. proposal' \in [ReviewFlows -> Nat]
      <3>1. CASE ~Offered(requests[i].flow)
        BY <1>5, <3>1 DEF Approved, ReviewTypes
      <3>2. CASE Offered(requests[i].flow)
        <4>1. PICK well \in BOOLEAN : proposal' = [g \in ReviewFlows |->
                 IF g = requests[i].flow /\ (well \/ ~Rule[requests[i].flow].keeps) THEN 0
                 ELSE IF g = "execution" /\ well /\ Suggests(requests[i].flow) THEN i ELSE proposal[g]]
          BY <1>5, <3>2 DEF Approved
        <4>2. proposal \in [ReviewFlows -> Nat] /\ i \in Nat
          BY DEF ReviewTypes
        <4> QED BY <4>1, <4>2
      <3> QED BY <3>1, <3>2
    <2>3. usable' \subseteq Nat
      BY <1>5 DEF Approved, ReviewTypes
    <2> QED BY <1>5, <2>1, <2>2, <2>3 DEF Approved, ReviewTypes
  <1>6. ASSUME NEW f \in ReviewFlows, Dismiss(f) PROVE ReviewTypes'
    <2>1. requests' \in Seq(PanelRequest)
      BY <1>6, AsksAppends DEF Dismiss, ReviewTypes
    <2>2. proposal' \in [ReviewFlows -> Nat] /\ usable' \subseteq Nat
      <3>1. proposal' = proposal \/ proposal' = [proposal EXCEPT ![f] = 0]
        BY <1>6 DEF Dismiss
      <3>2. usable' \subseteq usable
        BY <1>6 DEF Dismiss
      <3> QED BY <3>1, <3>2 DEF ReviewTypes
    <2>3. takenBack' \subseteq Nat
      <3>1. proposal[f] \in Nat /\ takenBack' \subseteq takenBack \cup {proposal[f]}
        BY <1>6 DEF Dismiss, ReviewTypes
      <3> QED BY <3>1 DEF ReviewTypes
    <2> QED BY <1>6, <2>1, <2>2, <2>3 DEF Dismiss, ReviewTypes
  <1>7. ASSUME NEW i \in DOMAIN requests, Dismissed(i) PROVE ReviewTypes'
    <2>1. requests' \in Seq(PanelRequest)
      BY <1>7, BecomesKeeps DEF Dismissed, ReviewTypes
    <2>2. proposal' \in [ReviewFlows -> Nat]
      BY <1>7 DEF Dismissed, ReviewTypes
    <2>3. requests[i].review \in Nat
      BY DEF ReviewTypes, PanelRequest
    <2> QED BY <1>7, <2>1, <2>2, <2>3 DEF Dismissed, ReviewTypes
  <1>8. ASSUME NEW f \in ReviewFlows, ShowsAnother(f) \/ ChooseSource(f) PROVE ReviewTypes'
    BY <1>8 DEF ShowsAnother, ChooseSource, ReviewTypes
  <1>9. CASE SourceLoaded \/ ClosePanel \/ UNCHANGED reviewVars
    BY <1>9 DEF SourceLoaded, ClosePanel, reviewVars, ReviewTypes
  <1> QED BY <1>1, <1>2, <1>3, <1>4, <1>5, <1>6, <1>7, <1>8, <1>9 DEF ReviewNext, PanelAnswers

-----------------------------------------------------------------------------
(* Another panel *)

LEMMA ElsewhereStays ==
    ASSUME ReviewTypes, NEW f \in GuardedFlows, Elsewhere(f), [ReviewNext]_reviewVars
    PROVE  Elsewhere(f)'
  <1>0. requests \in Seq(PanelRequest)
    BY DEF ReviewTypes
  <1>a. Rule[f].panel # "" /\ \A g \in ReviewFlows : g = f => Rule[g].panel = Rule[f].panel
    BY OwnPanel
  <1>1. ASSUME NEW g \in ReviewFlows, NEW kind \in {"prepare", "approve", "dismiss"}, NEW review \in Nat,
               Offered(g), Asks(kind, g, review), opened' = opened
        PROVE  Elsewhere(f)'
    <2>1. g # f
      BY <1>1, <1>a DEF Offered, Elsewhere
    <2>2. /\ Len(requests) \in Nat
          /\ DOMAIN requests = 1..Len(requests) /\ DOMAIN requests' = 1..(Len(requests) + 1)
          /\ \A j \in DOMAIN requests : requests'[j] = requests[j]
          /\ requests'[Len(requests) + 1] = [kind |-> kind, flow |-> g, review |-> review, phase |-> "sent"]
      BY <1>0, <1>1, AsksAppends, Zenon
    <2>3. \A j \in DOMAIN requests' : j \in DOMAIN requests \/ j = Len(requests) + 1
      BY <2>2
    <2>4. requests'[Len(requests) + 1].flow = g
      BY <2>2
    <2> QED BY <1>1, <2>1, <2>2, <2>3, <2>4 DEF Elsewhere
  <1>2. ASSUME NEW i \in DOMAIN requests, NEW phase \in {"sent", "running", "refused", "ended"}, Becomes(i, phase),
               opened' = opened
        PROVE  Elsewhere(f)'
    BY <1>0, <1>2, BecomesKeeps DEF Elsewhere
  <1>3. ASSUME opened' \in {opened, ""}, requests' = requests PROVE Elsewhere(f)'
    BY <1>a, <1>3 DEF Elsewhere
  <1>4. ASSUME NEW g \in ReviewFlows, Prepare(g) PROVE Elsewhere(f)'
    <2>1. Len(requests) + 1 \in Nat
      BY <1>0
    <2> QED BY <1>1, <1>4, <2>1 DEF Prepare, Enabled
  <1>5. ASSUME NEW g \in ReviewFlows, Approve(g) PROVE Elsewhere(f)'
    BY <1>1, <1>5 DEF Approve, Enabled, ReviewTypes
  <1>6. ASSUME NEW g \in ReviewFlows, Dismiss(g) PROVE Elsewhere(f)'
    BY <1>1, <1>3, <1>6 DEF Dismiss, Enabled, ReviewTypes
  <1>7. ASSUME NEW i \in DOMAIN requests, Prepared(i) \/ Act(i) \/ Approved(i) \/ Dismissed(i) PROVE Elsewhere(f)'
    BY <1>2, <1>7 DEF Prepared, Act, Approved, Dismissed
  <1>8. ASSUME NEW g \in ReviewFlows, ShowsAnother(g) \/ ChooseSource(g) PROVE Elsewhere(f)'
    BY <1>3, <1>8 DEF ShowsAnother, ChooseSource
  <1>9. CASE SourceLoaded \/ ClosePanel \/ UNCHANGED reviewVars
    BY <1>3, <1>9 DEF SourceLoaded, ClosePanel, reviewVars
  <1> QED BY <1>4, <1>5, <1>6, <1>7, <1>8, <1>9 DEF ReviewNext, PanelAnswers

-----------------------------------------------------------------------------
(* The panel of the flow *)

LEMMA OnlyItsFlow ==
    ASSUME NEW f \in GuardedFlows, OfPanel(f), NEW g \in ReviewFlows, Offered(g)
    PROVE  g = f /\ opened = Rule[f].panel
  <1>1. Rule[g].panel # ""
    <2>1. g \in OtherFlows \/ g \in {"rows", "clean"}
      BY ReviewAssumption, FlowsOfRule
    <2> QED BY <2>1, OtherPanels, RowsRule, CleanRule
  <1> QED BY <1>1, OwnPanel DEF OfPanel, Offered

\* Made(r) in the next state.
MadeThen(r) == r \in DOMAIN requests' /\ requests'[r].kind = "prepare" /\ requests'[r].phase = "ended"
AllMadeThen(f) ==
    /\ \A r \in usable' \cup acted' \cup takenBack' : MadeThen(r)
    /\ proposal'[f] # 0 => MadeThen(proposal'[f])
    /\ \A i \in DOMAIN requests' : requests'[i].kind # "prepare" => MadeThen(requests'[i].review)
LEMMA AllMadeNext == ASSUME NEW f, AllMadeThen(f) PROVE AllMade(f)'
  BY DEF AllMadeThen, MadeThen, AllMade, Made
\* What a request was is not lost: one that was answered stays answered.
LEMMA BecomesKeepsMade ==
    ASSUME requests \in Seq(PanelRequest), NEW i \in DOMAIN requests, requests[i].phase # "ended",
           NEW phase \in {"sent", "running", "refused", "ended"}, Becomes(i, phase),
           NEW r, Made(r)
    PROVE  MadeThen(r)
  BY BecomesKeeps DEF Made, MadeThen
LEMMA AsksKeepsMade ==
    ASSUME requests \in Seq(PanelRequest), NEW kind \in {"prepare", "approve", "dismiss"}, NEW f \in ReviewFlows,
           NEW review \in Nat, Asks(kind, f, review),
           NEW r, Made(r)
    PROVE  MadeThen(r)
  <1>1. /\ requests' \in Seq(PanelRequest) /\ Len(requests) \in Nat
        /\ DOMAIN requests = 1..Len(requests) /\ DOMAIN requests' = 1..(Len(requests) + 1)
        /\ \A j \in DOMAIN requests : requests'[j] = requests[j]
        /\ requests'[Len(requests) + 1] = [kind |-> kind, flow |-> f, review |-> review, phase |-> "sent"]
    BY AsksAppends, Zenon
  <1>2. r \in DOMAIN requests' /\ requests'[r] = requests[r]
    BY <1>1 DEF Made
  <1> QED BY <1>2 DEF Made, MadeThen

\* A panel that is busy or offers to cancel something is all that is under way.
LEMMA NothingUnderWay ==
    ASSUME ReviewTypes, NEW f \in GuardedFlows, Here(f), opened = Rule[f].panel, ~UnderWay
    PROVE  /\ Ongoing("approve") = {}
           /\ f = "clean" => Ongoing("prepare") = {}
  <1>1. operation = 0 /\ busy = ""
    BY DEF UnderWay
  <1>2. \A i \in Ongoing("approve") : i # 0
    BY NumbersOfRequests DEF Ongoing, ReviewTypes
  <1>3. CASE f = "rows"
    BY <1>1, <1>2, <1>3 DEF Here, OffersToCancel
  <1>4. CASE f = "clean"
    BY <1>1, <1>4 DEF Here, IsBusy
  <1> QED BY <1>3, <1>4, OwnPanel

-----------------------------------------------------------------------------
(* What is asked *)

\* What a new request of the panel does to the parts of the invariant that are about all of them.
LEMMA AskedStays ==
    ASSUME ReviewTypes, NEW f \in GuardedFlows, Here(f),
           NEW kind \in {"prepare", "approve", "dismiss"}, NEW review \in Nat, Asks(kind, f, review),
           kind # "prepare" => Made(review),
           kind = "dismiss" => review \notin usable' /\ review \notin acted',
           usable' \subseteq usable, UNCHANGED <<opened, proposal, acted, takenBack>>
    PROVE  OfPanel(f)' /\ AllMade(f)' /\ ActedByApproval' /\ Gone' /\ DismissedIsGone'
  <1> DEFINE n == Len(requests) + 1
  <1>0. requests \in Seq(PanelRequest) /\ f \in ReviewFlows
    BY OwnPanel DEF ReviewTypes
  <1>1. /\ Len(requests) \in Nat
        /\ DOMAIN requests = 1..Len(requests) /\ DOMAIN requests' = 1..n
        /\ \A j \in DOMAIN requests : requests'[j] = requests[j]
        /\ requests'[n] = [kind |-> kind, flow |-> f, review |-> review, phase |-> "sent"]
    BY <1>0, AsksAppends, Zenon
  <1>2. \A j \in DOMAIN requests' : j \in DOMAIN requests \/ j = n
    BY <1>1
  <1>3. \A j \in DOMAIN requests : j \in DOMAIN requests'
    BY <1>1
  <1>4. requests'[n].flow = f /\ requests'[n].kind = kind /\ requests'[n].review = review
    BY <1>1
  <1>5. \A r : Made(r) => MadeThen(r)
    BY <1>0, AsksKeepsMade, Zenon
  <1>6. \A j \in DOMAIN requests : requests'[j] = requests[j]
    BY <1>1
  <1> HIDE DEF n
  <1>7. OfPanel(f)'
    BY <1>2, <1>4, <1>6 DEF OfPanel, Here
  <1>8. AllMade(f)'
    <2>1. \A r \in usable' \cup acted' \cup takenBack' : MadeThen(r)
      BY <1>5 DEF AllMade, Here
    <2>2. proposal'[f] # 0 => MadeThen(proposal'[f])
      BY <1>5 DEF AllMade, Here
    <2>3. \A j \in DOMAIN requests' : requests'[j].kind # "prepare" => MadeThen(requests'[j].review)
      BY <1>2, <1>4, <1>5, <1>6 DEF AllMade, Here
    <2> QED BY <2>1, <2>2, <2>3, AllMadeNext DEF AllMadeThen
  <1>9. ActedByApproval'
    BY <1>3, <1>6 DEF ActedByApproval, Here
  <1>10. Gone'
    BY DEF Gone, Here
  <1>11. DismissedIsGone'
    BY <1>2, <1>4, <1>6 DEF DismissedIsGone, Here
  <1> QED BY <1>7, <1>8, <1>9, <1>10, <1>11

LEMMA PrepareStays ==
    ASSUME ReviewTypes, NEW f \in GuardedFlows, Here(f), NEW g \in ReviewFlows, Prepare(g)
    PROVE  Here(f)'
  <1> DEFINE n == Len(requests) + 1
  <1>0. g = f /\ opened = Rule[f].panel /\ f \in {"rows", "clean"}
    BY OnlyItsFlow, OwnPanel DEF Prepare, Enabled, Here
  <1>a. requests \in Seq(PanelRequest) /\ f \in ReviewFlows /\ n \in Nat
    <2>1. requests \in Seq(PanelRequest)
      BY DEF ReviewTypes
    <2>2. f \in ReviewFlows
      BY OwnPanel
    <2> QED BY <2>1, <2>2
  <1>b. Asks("prepare", f, n) /\ UNCHANGED <<opened, proposal, operation, usable, acted, takenBack>>
    BY <1>0 DEF Prepare
  <1>1. OfPanel(f)' /\ AllMade(f)' /\ ActedByApproval' /\ Gone' /\ DismissedIsGone'
    BY <1>a, <1>b, AskedStays
  <1>2. /\ Len(requests) \in Nat
        /\ DOMAIN requests = 1..Len(requests) /\ DOMAIN requests' = 1..n
        /\ \A j \in DOMAIN requests : requests'[j] = requests[j]
        /\ requests'[n] = [kind |-> "prepare", flow |-> f, review |-> n, phase |-> "sent"]
    BY <1>a, <1>b, AsksAppends, Zenon
  <1>3. \A j \in DOMAIN requests' : j \in DOMAIN requests \/ j = n
    BY <1>2
  <1>4. requests'[n].kind = "prepare" /\ \A j \in DOMAIN requests : requests'[j] = requests[j]
    BY <1>2
  <1> HIDE DEF n
  <1>5. f = "rows" => OffersToCancel(f)'
    <2>1. \A j \in Ongoing("approve")' : j \in Ongoing("approve")
      BY <1>3, <1>4 DEF Ongoing
    <2>2. f = "rows" => OffersToCancel(f)
      BY DEF Here
    <2> QED BY <1>0, <1>b, <1>3, <1>4, <2>1, <2>2 DEF OffersToCancel
  <1>6. f = "clean" => IsBusy(f)'
    <2> SUFFICES ASSUME f = "clean" PROVE IsBusy(f)'
      OBVIOUS
    <2>1. ~UnderWay /\ busy' = "work"
      BY <1>0, CleanRule DEF Prepare, Enabled
    <2>2. \A j \in Ongoing("approve")' \cup Ongoing("prepare")' : j = n
      BY <1>0, <1>3, <1>4, <2>1, NothingUnderWay DEF Ongoing
    <2> QED BY <2>1, <2>2 DEF IsBusy
  <1> QED BY <1>1, <1>5, <1>6 DEF Here

LEMMA ApproveStays ==
    ASSUME ReviewTypes, NEW f \in GuardedFlows, Here(f), NEW g \in ReviewFlows, Approve(g)
    PROVE  Here(f)'
  <1> DEFINE n == Len(requests) + 1
  <1>0. g = f /\ opened = Rule[f].panel /\ f \in {"rows", "clean"} /\ ~UnderWay
    <2>1. g = f /\ opened = Rule[f].panel /\ f \in {"rows", "clean"}
      BY OnlyItsFlow, OwnPanel DEF Approve, Enabled, Here
    <2> QED BY <2>1, RowsRule, CleanRule DEF Approve, Enabled
  <1>a. requests \in Seq(PanelRequest) /\ f \in ReviewFlows /\ proposal[f] \in Nat
    BY OwnPanel DEF ReviewTypes
  <1>b. Asks("approve", f, proposal[f]) /\ UNCHANGED <<opened, proposal, usable, acted, takenBack>>
    BY <1>0 DEF Approve
  <1>c. Made(proposal[f])
    BY <1>0 DEF Approve, Here, AllMade
  <1>1. OfPanel(f)' /\ AllMade(f)' /\ ActedByApproval' /\ Gone' /\ DismissedIsGone'
    BY <1>a, <1>b, <1>c, AskedStays
  <1>2. /\ Len(requests) \in Nat
        /\ DOMAIN requests = 1..Len(requests) /\ DOMAIN requests' = 1..n
        /\ \A j \in DOMAIN requests : requests'[j] = requests[j]
        /\ requests'[n] = [kind |-> "approve", flow |-> f, review |-> proposal[f], phase |-> "sent"]
    BY <1>a, <1>b, AsksAppends, Zenon
  <1>3. \A j \in DOMAIN requests' : j \in DOMAIN requests \/ j = n
    BY <1>2
  <1>4. /\ requests'[n].kind = "approve" /\ requests'[n].phase = "sent"
        /\ \A j \in DOMAIN requests : requests'[j] = requests[j]
    BY <1>2
  <1>5. f = "rows" => OffersToCancel(f)'
    <2> SUFFICES ASSUME f = "rows" PROVE OffersToCancel(f)'
      OBVIOUS
    <2>1. operation' = n
      BY <1>0, RowsRule DEF Approve
    <2> HIDE DEF n
    <2>2. \A j \in Ongoing("approve")' : j = n
      BY <1>0, <1>3, <1>4, NothingUnderWay DEF Ongoing
    <2>3. OffersToCancel(f)
      BY DEF Here
    <2> QED BY <1>0, <1>b, <1>3, <1>4, <2>1, <2>2, <2>3 DEF OffersToCancel
  <1>6. f = "clean" => IsBusy(f)'
    <2> SUFFICES ASSUME f = "clean" PROVE IsBusy(f)'
      OBVIOUS
    <2>1. busy' = "work"
      BY <1>0, CleanRule DEF Approve
    <2> HIDE DEF n
    <2>2. \A j \in Ongoing("approve")' \cup Ongoing("prepare")' : j = n
      BY <1>0, <1>3, <1>4, NothingUnderWay DEF Ongoing
    <2> QED BY <2>1, <2>2 DEF IsBusy
  <1> QED BY <1>1, <1>5, <1>6 DEF Here

LEMMA DismissStays ==
    ASSUME ReviewTypes, NEW f \in GuardedFlows, Here(f), NEW g \in ReviewFlows, Dismiss(g)
    PROVE  Here(f)'
  <1> DEFINE n == Len(requests) + 1
  <1>0. g = f /\ opened = Rule[f].panel /\ f \in {"rows", "clean"} /\ ~UnderWay
    <2>1. g = f /\ opened = Rule[f].panel /\ f \in {"rows", "clean"}
      BY OnlyItsFlow, OwnPanel DEF Dismiss, Enabled, Here
    <2> QED BY <2>1, RowsRule, CleanRule DEF Dismiss, Enabled
  <1>a. requests \in Seq(PanelRequest) /\ f \in ReviewFlows /\ proposal[f] \in Nat /\ proposal[f] # 0
    BY <1>0, OwnPanel DEF ReviewTypes, Dismiss
  <1>b. Made(proposal[f])
    BY <1>a DEF Here, AllMade
  <1>c. usable' = usable \ {proposal[f]} /\ UNCHANGED <<opened, operation, busy, acted>>
    BY <1>0 DEF Dismiss
  <1>1. CASE f = "rows"
    <2>1. Asks("dismiss", f, proposal[f]) /\ UNCHANGED <<proposal, takenBack>>
      BY <1>0, <1>1, RowsRule DEF Dismiss
    <2>2. OffersToCancel(f) /\ ActedByApproval /\ Ongoing("approve") = {}
      BY <1>0, <1>1, NothingUnderWay DEF Here
    <2>3. proposal[f] \notin acted
      BY <1>0, <1>a, <2>2 DEF OffersToCancel, ActedByApproval, Ongoing
    <2>4. OfPanel(f)' /\ AllMade(f)' /\ ActedByApproval' /\ Gone' /\ DismissedIsGone'
      <3>1. proposal[f] \notin usable' /\ proposal[f] \notin acted' /\ usable' \subseteq usable
        BY <1>c, <2>3
      <3> QED BY <1>a, <1>b, <1>c, <2>1, <3>1, AskedStays
    <2>5. /\ Len(requests) \in Nat
          /\ DOMAIN requests = 1..Len(requests) /\ DOMAIN requests' = 1..n
          /\ \A j \in DOMAIN requests : requests'[j] = requests[j]
          /\ requests'[n] = [kind |-> "dismiss", flow |-> f, review |-> proposal[f], phase |-> "sent"]
      BY <1>a, <2>1, AsksAppends, Zenon
    <2>6. \A j \in DOMAIN requests' : j \in DOMAIN requests \/ j = n
      BY <2>5
    <2>7. requests'[n].kind = "dismiss" /\ \A j \in DOMAIN requests : requests'[j] = requests[j]
      BY <2>5
    <2> HIDE DEF n
    <2>8. OffersToCancel(f)'
      <3>1. Ongoing("approve")' = {}
        BY <2>2, <2>6, <2>7 DEF Ongoing
      <3> QED BY <1>0, <1>c, <2>1, <2>2, <2>6, <2>7, <3>1 DEF OffersToCancel
    <2> QED BY <1>1, <2>4, <2>8 DEF Here
  <1>2. CASE f = "clean"
    <2>1. /\ proposal' = [proposal EXCEPT ![f] = 0] /\ UNCHANGED requests
          /\ takenBack' = IF ApprovalEnded(proposal[f]) THEN takenBack ELSE takenBack \cup {proposal[f]}
      BY <1>0, <1>2, CleanRule DEF Dismiss
    <2>2. proposal'[f] = 0
      BY <1>a, <2>1 DEF ReviewTypes
    <2>3. Ongoing("approve") = {}
      BY <1>0, NothingUnderWay
    <2>4. OfPanel(f)' /\ ActedByApproval' /\ DismissedIsGone'
      BY <1>c, <2>1 DEF Here, OfPanel, ActedByApproval, DismissedIsGone
    <2>5. AllMade(f)'
      <3>1. takenBack' \subseteq takenBack \cup {proposal[f]}
        BY <2>1
      <3>2. \A r : Made(r) => MadeThen(r)
        BY <2>1 DEF Made, MadeThen
      <3>3. AllMadeThen(f)
        <4>1. \A r \in usable' \cup acted' \cup takenBack' : Made(r)
          BY <1>b, <1>c, <3>1 DEF Here, AllMade
        <4>2. \A i \in DOMAIN requests : requests[i].kind # "prepare" => Made(requests[i].review)
          BY DEF Here, AllMade
        <4> QED BY <2>1, <2>2, <3>2, <4>1, <4>2 DEF AllMadeThen
      <3> QED BY <3>3, AllMadeNext
    <2>6. Gone'
      <3>1. proposal[f] \in acted => ApprovalEnded(proposal[f])
        BY <2>3 DEF Here, ActedByApproval, ApprovalEnded, Ongoing
      <3> QED BY <1>c, <2>1, <3>1 DEF Here, Gone
    <2>7. IsBusy(f)'
      BY <1>2, <1>c, <2>1 DEF Here, IsBusy, Ongoing
    <2> QED BY <1>2, <2>4, <2>5, <2>6, <2>7 DEF Here
  <1> QED BY <1>0, <1>1, <1>2

-----------------------------------------------------------------------------
(* What is answered *)

\* An approval that runs or has ended, in the next state.
ActedThen(r) == \E j \in DOMAIN requests' :
    requests'[j].kind = "approve" /\ requests'[j].review = r /\ requests'[j].phase \in {"running", "ended"}
\* What an answer to a request does to the parts of the invariant that are about all requests.
LEMMA AnsweredStays ==
    ASSUME ReviewTypes, NEW f \in GuardedFlows, Here(f), NEW i \in DOMAIN requests,
           NEW phase \in {"sent", "running", "refused", "ended"}, Becomes(i, phase), requests[i].phase # "ended",
           requests[i].kind = "approve" /\ requests[i].phase = "running" => phase = "ended",
           UNCHANGED opened
    PROVE  /\ OfPanel(f)' /\ requests[i].flow = f
           /\ \A r : Made(r) => MadeThen(r)
           /\ \A j \in DOMAIN requests' : requests'[j].kind # "prepare" => MadeThen(requests'[j].review)
           /\ \A r \in acted : ActedThen(r)
  <1>1. requests \in Seq(PanelRequest)
    BY DEF ReviewTypes
  <1>2. /\ DOMAIN requests' = DOMAIN requests
        /\ \A j \in DOMAIN requests :
              /\ requests'[j].kind = requests[j].kind /\ requests'[j].flow = requests[j].flow
              /\ requests'[j].review = requests[j].review
              /\ requests'[j].phase = IF j = i THEN phase ELSE requests[j].phase
    BY <1>1, BecomesKeeps
  <1>3. OfPanel(f)' /\ requests[i].flow = f
    BY <1>2 DEF Here, OfPanel
  <1>4. \A r : Made(r) => MadeThen(r)
    BY <1>1, BecomesKeepsMade
  <1>5. \A j \in DOMAIN requests' : requests'[j].kind # "prepare" => MadeThen(requests'[j].review)
    BY <1>2, <1>4 DEF Here, AllMade
  <1>6. \A r \in acted : ActedThen(r)
    <2> SUFFICES ASSUME NEW r \in acted PROVE ActedThen(r)
      OBVIOUS
    <2>1. PICK j \in DOMAIN requests :
             requests[j].kind = "approve" /\ requests[j].review = r /\ requests[j].phase \in {"running", "ended"}
      BY DEF Here, ActedByApproval
    <2>2. requests'[j].phase \in {"running", "ended"}
      BY <1>2, <2>1
    <2> QED BY <1>2, <2>1, <2>2 DEF ActedThen
  <1> QED BY <1>3, <1>4, <1>5, <1>6

LEMMA PreparedStays ==
    ASSUME ReviewTypes, NEW f \in GuardedFlows, Here(f), NEW i \in DOMAIN requests, Prepared(i)
    PROVE  Here(f)'
  <1>0. /\ Becomes(i, "ended") /\ requests[i].kind = "prepare" /\ requests[i].phase # "ended"
        /\ UNCHANGED <<opened, operation, acted, takenBack>>
    BY DEF Prepared, Ongoing
  <1>1. /\ OfPanel(f)' /\ requests[i].flow = f
        /\ \A r : Made(r) => MadeThen(r)
        /\ \A j \in DOMAIN requests' : requests'[j].kind # "prepare" => MadeThen(requests'[j].review)
        /\ \A r \in acted : ActedThen(r)
    BY <1>0, AnsweredStays
  <1>2. /\ DOMAIN requests' = DOMAIN requests
        /\ \A j \in DOMAIN requests :
              /\ requests'[j].kind = requests[j].kind /\ requests'[j].flow = requests[j].flow
              /\ requests'[j].review = requests[j].review
              /\ requests'[j].phase = IF j = i THEN "ended" ELSE requests[j].phase
    BY <1>0, BecomesKeeps DEF ReviewTypes
  <1>3. MadeThen(i) /\ ~Made(i)
    BY <1>0, <1>2 DEF MadeThen, Made
  <1>4. /\ usable' \subseteq usable \cup {i}
        /\ proposal'[f] = proposal[f] \/ proposal'[f] = i
    <2>1. proposal \in [ReviewFlows -> Nat] /\ f \in ReviewFlows
      BY OwnPanel DEF ReviewTypes
    <2>2. PICK made \in BOOLEAN :
             /\ usable' = {r \in usable : ~(made /\ Rule[f].revokes /\ r = proposal[f])} \cup {r \in {i} : made}
             /\ proposal' = IF made /\ Offered(f) THEN [proposal EXCEPT ![f] = i] ELSE proposal
      BY <1>1 DEF Prepared
    <2>3. proposal' = proposal \/ proposal' = [proposal EXCEPT ![f] = i]
      BY <2>2
    <2> QED BY <2>1, <2>2, <2>3
  <1>5. AllMade(f)'
    <2>1. \A r \in usable \cup acted \cup takenBack : Made(r)
      BY DEF Here, AllMade
    <2>2. proposal[f] # 0 => Made(proposal[f])
      BY DEF Here, AllMade
    <2>3. AllMadeThen(f)
      BY <1>0, <1>1, <1>3, <1>4, <2>1, <2>2 DEF AllMadeThen
    <2> QED BY <2>3, AllMadeNext
  <1>6. ActedByApproval'
    BY <1>0, <1>1 DEF ActedByApproval, ActedThen
  <1>7. Gone'
    BY <1>0, <1>3, <1>4 DEF Gone, Here, AllMade
  <1>8. DismissedIsGone'
    BY <1>0, <1>2, <1>3, <1>4 DEF DismissedIsGone, Here, AllMade
  <1>9. ASSUME f = "rows" PROVE OffersToCancel(f)'
    <2>1. \A j \in Ongoing("approve")' : j \in Ongoing("approve")
      BY <1>0, <1>2 DEF Ongoing
    <2>2. \A j \in DOMAIN requests : requests[j].kind = "approve" => requests[j].review # i /\ j # i
      BY <1>0, <1>3 DEF Here, AllMade
    <2> QED BY <1>0, <1>2, <1>4, <1>9, <2>1, <2>2 DEF Here, OffersToCancel
  <1>10. ASSUME f = "clean" PROVE IsBusy(f)'
    <2>1. busy' = ""
      BY <1>1, <1>10, CleanRule DEF Prepared
    <2>2. ASSUME opened = Rule[f].panel PROVE Ongoing("prepare")' \cup Ongoing("approve")' = {}
      <3>1. i \in Ongoing("prepare")
        BY <1>0 DEF Ongoing
      <3>2. \A j \in Ongoing("prepare") \cup Ongoing("approve") : j = i
        BY <1>10, <2>2, <3>1 DEF Here, IsBusy
      <3> QED BY <1>2, <3>2 DEF Ongoing
    <2> QED BY <1>0, <2>1, <2>2 DEF IsBusy
  <1> QED BY <1>1, <1>5, <1>6, <1>7, <1>8, <1>9, <1>10 DEF Here

LEMMA ActStays ==
    ASSUME ReviewTypes, NEW f \in GuardedFlows, Here(f), NEW i \in DOMAIN requests, Act(i)
    PROVE  Here(f)'
  <1>a. PICK phase \in {"running", "refused"} :
           Becomes(i, phase) /\ (requests[i].review \in usable => phase = "running")
    BY DEF Act
  <1>0. /\ requests[i].kind = "approve" /\ requests[i].phase = "sent"
        /\ usable' = usable \ {requests[i].review}
        /\ acted' = acted \/ (requests[i].review \in usable /\ acted' = acted \cup {requests[i].review})
        /\ UNCHANGED <<opened, proposal, operation, busy, takenBack>>
    BY DEF Act, Ongoing
  <1>1. /\ OfPanel(f)' /\ requests[i].flow = f
        /\ \A r : Made(r) => MadeThen(r)
        /\ \A j \in DOMAIN requests' : requests'[j].kind # "prepare" => MadeThen(requests'[j].review)
        /\ \A r \in acted : ActedThen(r)
    BY <1>a, <1>0, AnsweredStays
  <1>2. /\ DOMAIN requests' = DOMAIN requests
        /\ \A j \in DOMAIN requests :
              /\ requests'[j].kind = requests[j].kind /\ requests'[j].flow = requests[j].flow
              /\ requests'[j].review = requests[j].review
              /\ requests'[j].phase = IF j = i THEN phase ELSE requests[j].phase
    BY <1>a, BecomesKeeps DEF ReviewTypes
  <1>5. AllMade(f)'
    <2>1. \A r \in usable \cup acted \cup takenBack : Made(r)
      BY DEF Here, AllMade
    <2>2. proposal[f] # 0 => Made(proposal[f])
      BY DEF Here, AllMade
    <2>3. AllMadeThen(f)
      BY <1>0, <1>1, <2>1, <2>2 DEF AllMadeThen
    <2> QED BY <2>3, AllMadeNext
  <1>6. ActedByApproval'
    <2>1. requests[i].review \in usable => ActedThen(requests[i].review)
      BY <1>a, <1>0, <1>2 DEF ActedThen
    <2>2. \A r \in acted' : ActedThen(r)
      BY <1>0, <1>1, <2>1
    <2> QED BY <2>2 DEF ActedByApproval, ActedThen
  <1>7. Gone'
    BY <1>0 DEF Gone, Here
  <1>8. DismissedIsGone'
    BY <1>0, <1>2 DEF DismissedIsGone, Here
  <1>9. ASSUME f = "rows" PROVE OffersToCancel(f)'
    <2>1. \A j \in Ongoing("approve")' : j \in Ongoing("approve")
      BY <1>0, <1>2 DEF Ongoing
    <2> QED BY <1>0, <1>2, <1>9, <2>1 DEF Here, OffersToCancel
  <1>10. ASSUME f = "clean" PROVE IsBusy(f)'
    <2>1. \A j \in Ongoing("prepare")' \cup Ongoing("approve")' : j \in Ongoing("prepare") \cup Ongoing("approve")
      BY <1>0, <1>2 DEF Ongoing
    <2> QED BY <1>0, <1>10, <2>1 DEF Here, IsBusy
  <1> QED BY <1>1, <1>5, <1>6, <1>7, <1>8, <1>9, <1>10 DEF Here

LEMMA ApprovedStays ==
    ASSUME ReviewTypes, NEW f \in GuardedFlows, Here(f), NEW i \in DOMAIN requests, Approved(i)
    PROVE  Here(f)'
  <1>0. /\ Becomes(i, "ended") /\ requests[i].kind = "approve" /\ requests[i].phase # "ended"
        /\ UNCHANGED <<opened, acted, takenBack>>
    BY DEF Approved, Ongoing
  <1>1. /\ OfPanel(f)' /\ requests[i].flow = f
        /\ \A r : Made(r) => MadeThen(r)
        /\ \A j \in DOMAIN requests' : requests'[j].kind # "prepare" => MadeThen(requests'[j].review)
        /\ \A r \in acted : ActedThen(r)
    BY <1>0, AnsweredStays
  <1>2. /\ DOMAIN requests' = DOMAIN requests
        /\ \A j \in DOMAIN requests :
              /\ requests'[j].kind = requests[j].kind /\ requests'[j].flow = requests[j].flow
              /\ requests'[j].review = requests[j].review
              /\ requests'[j].phase = IF j = i THEN "ended" ELSE requests[j].phase
    BY <1>0, BecomesKeeps DEF ReviewTypes
  <1>3. f \in ReviewFlows /\ f \in {"rows", "clean"} /\ ~Suggests(f)
    BY OwnPanel DEF Suggests
  <1>4. usable' = usable
    BY <1>1, <1>3 DEF Approved
  <1>a. proposal'[f] = proposal[f] \/ proposal'[f] = 0
    <2>1. CASE ~Offered(f)
      BY <1>1, <2>1 DEF Approved
    <2>2. CASE Offered(f)
      <3>1. PICK well \in BOOLEAN : proposal' = [g \in ReviewFlows |->
               IF g = f /\ (well \/ ~Rule[f].keeps) THEN 0
               ELSE IF g = "execution" /\ well /\ Suggests(f) THEN i ELSE proposal[g]]
        BY <1>1, <2>2 DEF Approved
      <3> QED BY <1>3, <3>1
    <2> QED BY <2>1, <2>2
  <1>b. \A j \in DOMAIN requests' : j \in Ongoing("approve")' => j \in Ongoing("approve") /\ j # i
    BY <1>2 DEF Ongoing
  <1>5. AllMade(f)'
    <2>1. \A r \in usable \cup acted \cup takenBack : Made(r)
      BY DEF Here, AllMade
    <2>2. proposal[f] # 0 => Made(proposal[f])
      BY DEF Here, AllMade
    <2>3. AllMadeThen(f)
      BY <1>0, <1>1, <1>4, <1>a, <2>1, <2>2 DEF AllMadeThen
    <2> QED BY <2>3, AllMadeNext
  <1>6. ActedByApproval'
    BY <1>0, <1>1 DEF ActedByApproval, ActedThen
  <1>7. Gone'
    BY <1>0, <1>4 DEF Gone, Here
  <1>8. DismissedIsGone'
    BY <1>0, <1>2, <1>4 DEF DismissedIsGone, Here
  <1>c. i \in Ongoing("approve")
    BY <1>0 DEF Ongoing
  <1>9. ASSUME f = "rows" PROVE OffersToCancel(f)'
    <2> SUFFICES ASSUME opened = Rule[f].panel PROVE OffersToCancel(f)'
      BY <1>0 DEF OffersToCancel
    <2>1. \A j \in Ongoing("approve") : j = i
      BY <1>9, <1>c DEF Here, OffersToCancel
    <2>2. Ongoing("approve")' = {}
      BY <1>2, <2>1 DEF Ongoing
    <2>3. proposal'[f] = 0
      <3>1. Offered(f) /\ Rule[f].keeps = FALSE
        BY <1>9, RowsRule DEF Offered
      <3>2. PICK well \in BOOLEAN : proposal' = [g \in ReviewFlows |->
               IF g = f /\ (well \/ ~Rule[f].keeps) THEN 0
               ELSE IF g = "execution" /\ well /\ Suggests(f) THEN i ELSE proposal[g]]
        BY <1>1, <3>1 DEF Approved
      <3> QED BY <1>3, <3>1, <3>2
    <2> QED BY <2>2, <2>3 DEF OffersToCancel
  <1>10. ASSUME f = "clean" PROVE IsBusy(f)'
    <2> SUFFICES ASSUME opened = Rule[f].panel PROVE IsBusy(f)'
      BY <1>0 DEF IsBusy
    <2>1. \A j \in Ongoing("prepare") \cup Ongoing("approve") : j = i
      BY <1>10, <1>c DEF Here, IsBusy
    <2>2. Ongoing("prepare")' \cup Ongoing("approve")' = {}
      BY <1>2, <2>1 DEF Ongoing
    <2>3. busy' = ""
      BY <1>1, <1>10, CleanRule DEF Approved, Released, Offered
    <2> QED BY <2>2, <2>3 DEF IsBusy
  <1> QED BY <1>1, <1>5, <1>6, <1>7, <1>8, <1>9, <1>10 DEF Here

LEMMA DismissedStays ==
    ASSUME ReviewTypes, NEW f \in GuardedFlows, Here(f), NEW i \in DOMAIN requests, Dismissed(i)
    PROVE  Here(f)'
  <1>0. /\ Becomes(i, "ended") /\ requests[i].kind = "dismiss" /\ requests[i].phase # "ended"
        /\ takenBack' \subseteq takenBack \cup {requests[i].review}
        /\ UNCHANGED <<opened, operation, busy, usable, acted>>
    BY DEF Dismissed, Ongoing
  <1>1. /\ OfPanel(f)' /\ requests[i].flow = f
        /\ \A r : Made(r) => MadeThen(r)
        /\ \A j \in DOMAIN requests' : requests'[j].kind # "prepare" => MadeThen(requests'[j].review)
        /\ \A r \in acted : ActedThen(r)
    BY <1>0, AnsweredStays
  <1>2. /\ DOMAIN requests' = DOMAIN requests
        /\ \A j \in DOMAIN requests :
              /\ requests'[j].kind = requests[j].kind /\ requests'[j].flow = requests[j].flow
              /\ requests'[j].review = requests[j].review
              /\ requests'[j].phase = IF j = i THEN "ended" ELSE requests[j].phase
    BY <1>0, BecomesKeeps DEF ReviewTypes
  <1>3. f \in ReviewFlows
    BY OwnPanel
  <1>4. proposal'[f] = proposal[f] \/ proposal'[f] = 0
    <2>1. CASE Offered(f)
      <3>1. PICK fs \in {{"promptModel", "toolModel"}, {f}} : proposal' = Without(proposal, fs)
        BY <1>1, <2>1 DEF Dismissed
      <3> QED BY <1>3, <3>1 DEF Without
    <2>2. CASE ~Offered(f)
      BY <1>1, <2>2 DEF Dismissed
    <2> QED BY <2>1, <2>2
  <1>5. AllMade(f)'
    <2>1. \A r \in usable \cup acted \cup takenBack : Made(r)
      BY DEF Here, AllMade
    <2>2. proposal[f] # 0 => Made(proposal[f])
      BY DEF Here, AllMade
    <2>3. Made(requests[i].review)
      BY <1>0 DEF Here, AllMade
    <2>4. AllMadeThen(f)
      BY <1>0, <1>1, <1>4, <2>1, <2>2, <2>3 DEF AllMadeThen
    <2> QED BY <2>4, AllMadeNext
  <1>6. ActedByApproval'
    BY <1>0, <1>1 DEF ActedByApproval, ActedThen
  <1>7. Gone'
    BY <1>0 DEF Gone, Here, DismissedIsGone
  <1>8. DismissedIsGone'
    BY <1>0, <1>2 DEF DismissedIsGone, Here
  <1>a. \A j \in DOMAIN requests' : j \in Ongoing("approve")' => j \in Ongoing("approve")
    BY <1>2 DEF Ongoing
  <1>9. ASSUME f = "rows" PROVE OffersToCancel(f)'
    <2>1. \A j \in Ongoing("approve")' : j \in Ongoing("approve")
      BY <1>2 DEF Ongoing
    <2> QED BY <1>0, <1>2, <1>4, <1>9, <2>1 DEF Here, OffersToCancel
  <1>10. ASSUME f = "clean" PROVE IsBusy(f)'
    <2>1. \A j \in Ongoing("prepare")' \cup Ongoing("approve")' : j \in Ongoing("prepare") \cup Ongoing("approve")
      BY <1>2 DEF Ongoing
    <2> QED BY <1>0, <1>10, <2>1 DEF Here, IsBusy
  <1> QED BY <1>1, <1>5, <1>6, <1>7, <1>8, <1>9, <1>10 DEF Here

-----------------------------------------------------------------------------
(* The panel itself *)

LEMMA PanelStays ==
    ASSUME ReviewTypes, NEW f \in GuardedFlows, Here(f),
           NEW g \in ReviewFlows,
           ShowsAnother(g) \/ ChooseSource(g) \/ SourceLoaded \/ ClosePanel \/ UNCHANGED reviewVars
    PROVE  Here(f)'
  <1>0. f \in ReviewFlows /\ f \in {"rows", "clean"} /\ Rule[f].panel # "" /\ proposal \in [ReviewFlows -> Nat]
    BY OwnPanel DEF ReviewTypes
  <1>1. ~ChooseSource(g)
    BY OnlyItsFlow, <1>0 DEF ChooseSource, Here
  <1>2. /\ opened' \in {opened, ""} /\ requests' = requests /\ usable' \subseteq usable
        /\ acted' = acted /\ takenBack' = takenBack
    BY <1>1 DEF ShowsAnother, SourceLoaded, ClosePanel, reviewVars
  <1>3. proposal'[f] = proposal[f] \/ proposal'[f] = 0
    BY <1>0, <1>1 DEF ShowsAnother, SourceLoaded, ClosePanel, reviewVars, Without
  <1>4. OfPanel(f)'
    BY <1>2 DEF Here, OfPanel
  <1>5. AllMade(f)'
    <2>1. AllMadeThen(f)
      BY <1>2, <1>3 DEF Here, AllMade, AllMadeThen, Made, MadeThen
    <2> QED BY <2>1, AllMadeNext
  <1>6. ActedByApproval' /\ Gone' /\ DismissedIsGone'
    BY <1>2 DEF Here, ActedByApproval, Gone, DismissedIsGone
  <1>7. ASSUME f = "rows" PROVE OffersToCancel(f)'
    <2>1. CASE opened' = ""
      BY <1>0, <2>1 DEF OffersToCancel
    <2>2. CASE opened' = opened
      <3>1. operation' = operation \/ ClosePanel
        BY <1>1 DEF ShowsAnother, SourceLoaded, reviewVars
      <3>2. operation' = operation
        BY <2>2, <3>1 DEF ClosePanel
      <3> QED BY <1>2, <1>3, <1>7, <2>2, <3>2 DEF Here, OffersToCancel, Ongoing
    <2> QED BY <1>2, <2>1, <2>2
  <1>8. ASSUME f = "clean" PROVE IsBusy(f)'
    <2>1. CASE opened' # Rule[f].panel
      BY <2>1 DEF IsBusy
    <2>2. CASE opened' = Rule[f].panel
      <3>1. opened = Rule[f].panel /\ ~ClosePanel
        BY <1>0, <1>2, <2>2 DEF ClosePanel
      <3>2. ~SourceLoaded
        BY <1>8, <3>1 DEF Here, IsBusy, SourceLoaded
      <3>3. busy' = busy
        BY <1>1, <3>1, <3>2 DEF ShowsAnother, reviewVars
      <3> QED BY <1>2, <1>8, <3>1, <3>3 DEF Here, IsBusy, Ongoing
    <2> QED BY <2>1, <2>2
  <1> QED BY <1>4, <1>5, <1>6, <1>7, <1>8 DEF Here

-----------------------------------------------------------------------------
(* The invariant *)

LEMMA HereStays ==
    ASSUME ReviewTypes, NEW f \in GuardedFlows, Here(f), [ReviewNext]_reviewVars
    PROVE  Here(f)'
  <1>1. f \in ReviewFlows
    BY OwnPanel
  <1> QED BY <1>1, PrepareStays, ApproveStays, DismissStays, PreparedStays, ActStays, ApprovedStays, DismissedStays,
             PanelStays, Zenon DEF ReviewNext, PanelAnswers

LEMMA ReviewInvAtStart == ReviewInit => ReviewInv
  <1> SUFFICES ASSUME ReviewInit, NEW f \in GuardedFlows PROVE Elsewhere(f) \/ Here(f)
    BY TypesAtStart DEF ReviewInv
  <1>0. requests = <<>>
    BY DEF ReviewInit
  <1>1. DOMAIN requests = {}
    BY <1>0
  <1>2. f \in ReviewFlows
    BY OwnPanel
  <1>3. CASE opened # Rule[f].panel
    BY <1>1, <1>3 DEF Elsewhere
  <1>4. CASE opened = Rule[f].panel
    <2>1. OfPanel(f) /\ AllMade(f)
      BY <1>1, <1>2, <1>4 DEF OfPanel, AllMade, ReviewInit
    <2>2. ActedByApproval /\ Gone /\ DismissedIsGone
      BY <1>1 DEF ActedByApproval, Gone, DismissedIsGone, ReviewInit
    <2>3. OffersToCancel(f) /\ IsBusy(f)
      BY <1>1 DEF OffersToCancel, IsBusy, Ongoing, ReviewInit
    <2> QED BY <2>1, <2>2, <2>3 DEF Here
  <1> QED BY <1>3, <1>4

LEMMA ReviewInvKept == ReviewInv /\ [ReviewNext]_reviewVars => ReviewInv'
  <1> SUFFICES ASSUME ReviewInv, [ReviewNext]_reviewVars PROVE ReviewInv'
    OBVIOUS
  <1>1. ReviewTypes' /\ ReviewTypes
    BY TypesKept DEF ReviewInv
  <1>2. ASSUME NEW f \in GuardedFlows PROVE (Elsewhere(f) \/ Here(f))'
    BY <1>1, ElsewhereStays, HereStays DEF ReviewInv
  <1> QED BY <1>1, <1>2 DEF ReviewInv

LEMMA ReviewInvGuards == ReviewInv => GuardedReviews
  <1> SUFFICES ASSUME ReviewInv, NEW i \in DOMAIN requests, requests[i].kind = "approve", Guarded(requests[i].flow)
               PROVE  /\ requests[i].review \in takenBack => requests[i].review \notin acted
                      /\ i \in Ongoing("approve") /\ Offered(requests[i].flow) =>
                            Ongoing("approve") = {i} /\ (operation = i \/ busy = "work")
    BY DEF GuardedReviews
  <1> DEFINE f == requests[i].flow
  <1>1. f \in GuardedFlows
    <2>1. requests[i] \in PanelRequest
      BY DEF ReviewInv, ReviewTypes
    <2>2. f \in ReviewFlows
      BY <2>1 DEF PanelRequest
    <2> QED BY <2>2, GuardedAre
  <1>2. Here(f) /\ f \in {"rows", "clean"}
    BY <1>1, OwnPanel DEF ReviewInv, Elsewhere
  <1>3. requests[i].review \in takenBack => requests[i].review \notin acted
    BY <1>2 DEF Here, Gone
  <1>4. ASSUME i \in Ongoing("approve"), Offered(f)
        PROVE  Ongoing("approve") = {i} /\ (operation = i \/ busy = "work")
    BY <1>2, <1>4 DEF Here, OffersToCancel, IsBusy, Offered
  <1> QED BY <1>3, <1>4

\* Where the buttons of a panel wait for what is under way, a review that was taken back is never acted upon, and
\* what runs is what the panel offers to cancel or is busy with, one operation at a time (ReviewPanels.GuardedReviews:
\* the rows of a dataset and the cleaning), whatever is clicked, replaced, closed and answered late.
THEOREM ReviewsAreGuarded == ReviewSpec => []GuardedReviews
  <1>1. ReviewSpec => []ReviewInv
    BY ReviewInvAtStart, ReviewInvKept, PTL DEF ReviewSpec
  <1> QED BY <1>1, ReviewInvGuards, PTL

-----------------------------------------------------------------------------
(***************************************************************************)
(* The parts side by side, as MCSidecars composes them: a behaviour of the *)
(* whole is one of each part, with the fairness of the panels.             *)
(***************************************************************************)

LEMMA SidecarsBehave == SidecarsSpec => RpcSpec /\ RuntimeSpec /\ ReviewSpec
<1>1. SidecarsInit => RpcInit /\ RuntimeInit /\ ReviewInit
  BY DEF SidecarsInit
<1>2. \A S \in SUBSET Slots : RuntimeSteps(S) => RuntimeNext
  BY DEF RuntimeNext, RuntimeSteps
<1>3. RuntimeSteps({mcp}) \/ RuntimeSteps({first, second}) => RuntimeNext
  BY <1>2, SidecarsAssumption
<1>4. [SidecarsNext]_<<part, rpcState, runtimeVars, reviewVars>>
        => [RpcNext]_rpcState /\ [RuntimeNext]_runtimeVars /\ [ReviewNext]_reviewVars
  BY <1>3 DEF SidecarsNext
<1> QED BY <1>1, <1>4, PTL DEF SidecarsSpec, RpcSpec, RuntimeSpec, ReviewSpec

\* What is proved of the transport, the AI runtime and the panels holds of the three as the run of MCSidecars has them.
THEOREM SidecarsHold ==
    SidecarsSpec => /\ [](RunningIsCancellable /\ ResolvedIsCommitted /\ CommitsInOrder) /\ SettlesOnce
                    /\ [](TruncationIsTold /\ GuardedReviews)
BY SidecarsBehave, RegistryLeadsToWork, SuccessIsCommitted, CommitsFollowRequests, PromiseSettlesOnce,
   TruncationIsAlwaysTold, ReviewsAreGuarded, PTL
=============================================================================
