-------------------------- MODULE Exchange_proofs --------------------------
(***************************************************************************)
(* What the program exchanges with the world outside: the Hub, the         *)
(* destinations of an external delivery, and the files that arrive in      *)
(* watched folders. The three share no state and no invariant.             *)
(***************************************************************************)
EXTENDS HubSync, ExternalDelivery, FileArrivals, FiniteSetTheorems, SequenceTheorems, WellFoundedInduction, TLAPS

-----------------------------------------------------------------------------
(***************************************************************************)
(* HubSync: for any tenants, flushers, objects and page sizes. What the    *)
(* queue of the device says of an item agrees with the history of the Hub, *)
(* which only grows; a pull applies every version between two cursors, as  *)
(* each page is read from one state of the history and the cursor is moved *)
(* with the page.                                                          *)
(***************************************************************************)

\* The Hub and its devices; in MCDesktop they take turns with parts that leave their state alone.
HubSpec == HubInit /\ [][HubNext]_hubVars

-----------------------------------------------------------------------------
(* The Hub *)

IsSequence(s) == s \in Seq({s[i] : i \in DOMAIN s})
\* In what the Hub keeps of a tenant.
AcceptedIn(h, id)     == \E i \in DOMAIN h.objects : h.objects[i].id = id
ResultIn(h, id, kind) == \E r \in h.results : r.id = id /\ r.verdict.kind = kind

\* An operation has one result, accepted if and only if the Hub holds what it pushed.
Remembers(h) ==
    /\ DOMAIN h = {"objects", "results"} /\ IsSequence(h.objects)
    /\ \A r \in h.results : r.verdict.kind \in {"accepted", "conflict"}
    /\ \A r, q \in h.results : r.id = q.id => r = q
    /\ \A r \in h.results : r.verdict.kind = "accepted" <=> AcceptedIn(h, r.id)
    /\ \A i \in DOMAIN h.objects : ResultIn(h, h.objects[i].id, "accepted")
HubRemembers == DOMAIN hub = Tenants /\ \A t \in Tenants : Remembers(hub[t])

\* What an item says of its push is so, of what the Hub keeps.
TrueItem(all, x) ==
    /\ DOMAIN x = {"op", "status", "attempts", "current"} /\ {"id", "tenant", "object", "base", "content"} \subseteq DOMAIN x.op
    /\ x.op.tenant \in Tenants
    /\ x.status = "succeeded" => AcceptedIn(all[x.op.tenant], x.op.id)
    /\ x.status \in {"conflict", "discarded"} => ResultIn(all[x.op.tenant], x.op.id, "conflict")
TrueDevice(all, d) ==
    /\ DOMAIN d = {"tenant", "queue", "catalog", "cursor", "inbox"} /\ IsSequence(d.queue)
    /\ d.tenant \in Tenants \cup {Nobody}
    /\ \A i \in DOMAIN d.queue : TrueItem(all, d.queue[i])

\* A flush under way works on an item that is on its way, and the answer it has is of that item.
TrueAnswer(all, x, v) ==
    \/ v = Error
    \/ v.kind = "accepted" /\ AcceptedIn(all[x.op.tenant], x.op.id)
    \/ v.kind = "conflict" /\ ResultIn(all[x.op.tenant], x.op.id, "conflict")
TrueFlush(all, d, y) ==
    /\ DOMAIN y = {"phase", "at", "to", "verdict"}
    /\ y.phase \in {"idle", "sent", "answered"}
    /\ y.phase = "sent" => y.to \in Tenants
    /\ y.phase # "idle" => y.at \in DOMAIN d.queue /\ d.queue[y.at].status = "syncing"
    /\ y.phase = "answered" => TrueAnswer(all, d.queue[y.at], y.verdict)
TrueFlushes ==
    /\ DOMAIN flush = Flushers /\ \A f \in Flushers : TrueFlush(hub, device, flush[f])
    /\ \A f, g \in Flushers : f # g /\ flush[f].phase # "idle" /\ flush[g].phase # "idle" => flush[f].at # flush[g].at
LateFits == \A op \in late : op.tenant \in Tenants

OutcomeInv == HubRemembers /\ TrueDevice(hub, device) /\ TrueFlushes /\ LateFits

\* What the pull under way keeps, whatever the tenants.
PullerFits ==
    /\ DOMAIN puller = {"phase", "tenant", "to", "page", "next", "more"}
    /\ puller.phase \in {"idle", "sent", "answered"} /\ device.cursor \in Nat
    /\ puller.phase # "idle" => puller.tenant \in Tenants
    /\ puller.phase = "answered" => IsSequence(puller.page) /\ puller.next \in Nat
HubInv == OutcomeInv /\ PullerFits

\* A device of one tenant: what is up to its cursor, and what a page brings up to the next one.
Pulled(objects, d) == d.cursor \in 0..Len(objects) /\ \A i \in 1..d.cursor : objects[i] \in d.inbox
Brings(objects, cursor, page, next) ==
    /\ next \in cursor..Len(objects)
    /\ \A i \in cursor + 1..next : \E k \in DOMAIN page : page[k] = objects[i]
PullInv ==
    /\ homes \subseteq Tenants /\ device.tenant \in homes \cup {Nobody}
    /\ puller.phase # "idle" => puller.tenant \in homes
    /\ homes = {} => device.cursor = 0
    /\ \A t \in Tenants : homes = {t} =>
         /\ Pulled(hub[t].objects, device)
         /\ puller.phase = "answered" => Brings(hub[t].objects, device.cursor, puller.page, puller.next)

-----------------------------------------------------------------------------
(* Sequences of what they hold *)

LEMMA SequenceDomain == ASSUME NEW s, IsSequence(s) PROVE Len(s) \in Nat /\ DOMAIN s = 1..Len(s)
BY DEF IsSequence

\* A function on 1..n is a sequence of what it holds.
LEMMA SequenceOf ==
    ASSUME NEW n \in Nat, NEW s, s = [i \in 1..n |-> s[i]]
    PROVE  IsSequence(s) /\ Len(s) = n /\ DOMAIN s = 1..n
<1> DEFINE S == {s[i] : i \in DOMAIN s}
<1>1. DOMAIN s = 1..n
  OBVIOUS
<1>2. \A i \in 1..n : s[i] \in S
  BY <1>1
<1> HIDE DEF S
<1>3. s \in [1..n -> S]
  BY <1>2
<1>4. s \in Seq(S)
  BY <1>3
<1>5. Len(s) = n
  BY <1>1, <1>4
<1> QED BY <1>1, <1>4, <1>5 DEF IsSequence, S

LEMMA AppendedTo ==
    ASSUME NEW s, IsSequence(s), NEW e
    PROVE  /\ IsSequence(Append(s, e)) /\ Len(Append(s, e)) = Len(s) + 1 /\ DOMAIN Append(s, e) = 1..(Len(s) + 1)
           /\ \A i \in 1..Len(s) : Append(s, e)[i] = s[i]
           /\ Append(s, e)[Len(s) + 1] = e
<1> DEFINE S == {s[i] : i \in DOMAIN s} \cup {e}
           a == Append(s, e)
<1>1. s \in Seq(S) /\ e \in S
  BY DEF IsSequence
<1> HIDE DEF S
<1>2. a \in Seq(S) /\ Len(a) = Len(s) + 1 /\ (\A i \in 1..Len(s) : a[i] = s[i]) /\ a[Len(s) + 1] = e /\ Len(s) \in Nat
  BY <1>1, AppendProperties
<1> HIDE DEF a
<1>3. a = [i \in 1..(Len(s) + 1) |-> a[i]]
  BY <1>2
<1>4. IsSequence(a) /\ DOMAIN a = 1..(Len(s) + 1)
  BY <1>2, <1>3, SequenceOf
<1> QED BY <1>2, <1>4 DEF a

LEMMA UpdatedAt ==
    ASSUME NEW s, IsSequence(s), NEW i \in DOMAIN s, NEW e
    PROVE  /\ IsSequence([s EXCEPT ![i] = e]) /\ Len([s EXCEPT ![i] = e]) = Len(s)
           /\ DOMAIN [s EXCEPT ![i] = e] = DOMAIN s /\ [s EXCEPT ![i] = e][i] = e
           /\ \A j \in DOMAIN s : j # i => [s EXCEPT ![i] = e][j] = s[j]
<1> DEFINE u == [s EXCEPT ![i] = e]
<1>1. Len(s) \in Nat /\ DOMAIN s = 1..Len(s)
  BY SequenceDomain
<1>2. /\ u = [j \in 1..Len(s) |-> u[j]] /\ u[i] = e
      /\ \A j \in DOMAIN s : j # i => u[j] = s[j]
  BY <1>1
<1> HIDE DEF u
<1>3. IsSequence(u) /\ Len(u) = Len(s) /\ DOMAIN u = 1..Len(s)
  BY <1>1, <1>2, SequenceOf
<1> QED BY <1>1, <1>2, <1>3 DEF u

-----------------------------------------------------------------------------
(* The Hub only ever adds *)

Extends(g, h) ==
    /\ Len(h.objects) <= Len(g.objects)
    /\ \A i \in 1..Len(h.objects) : g.objects[i] = h.objects[i]
    /\ h.results \subseteq g.results
HubGrows == \A t \in Tenants : Extends(hub'[t], hub[t])

\* One result more, and the object if it is accepted.
LEMMA RemembersMore ==
    ASSUME NEW h, Remembers(h), NEW id, \A r \in h.results : r.id # id,
           NEW new, new.id = id, new.verdict.kind \in {"accepted", "conflict"},
           NEW object, object.id = id,
           NEW g, DOMAIN g = {"objects", "results"}, g.results = h.results \cup {new},
           g.objects = IF new.verdict.kind = "conflict" THEN h.objects ELSE Append(h.objects, object)
    PROVE  Remembers(g) /\ Extends(g, h) /\ ResultIn(g, id, new.verdict.kind)
           /\ (new.verdict.kind = "accepted" => AcceptedIn(g, id))
<1> DEFINE old == h.objects
           now == g.objects
           kind == new.verdict.kind
<1>1. /\ IsSequence(old) /\ Len(old) \in Nat /\ DOMAIN old = 1..Len(old)
  BY SequenceDomain DEF Remembers
<1>2. ~AcceptedIn(h, id)
  BY DEF Remembers, AcceptedIn, ResultIn
<1>3. CASE kind = "conflict"
  <2>1. now = old
    BY <1>3
  <2>2. \A x : AcceptedIn(g, x) <=> AcceptedIn(h, x)
    BY <2>1 DEF AcceptedIn
  <2>3. Remembers(g)
    BY <1>2, <1>3, <2>1, <2>2 DEF Remembers, ResultIn
  <2> QED BY <1>1, <1>3, <2>1, <2>3 DEF Extends, ResultIn
<1>4. CASE kind = "accepted"
  <2>1. now = Append(old, object)
    BY <1>4
  <2> HIDE DEF old, now
  <2>2. /\ IsSequence(now) /\ Len(now) = Len(old) + 1 /\ DOMAIN now = 1..(Len(old) + 1)
        /\ \A i \in 1..Len(old) : now[i] = old[i]
        /\ now[Len(old) + 1] = object
    BY <1>1, <2>1, AppendedTo
  <2>3. DOMAIN now = DOMAIN old \cup {Len(old) + 1} /\ \A i \in DOMAIN old : now[i] = old[i]
    BY <1>1, <2>2
  <2>4. \A x : AcceptedIn(g, x) <=> AcceptedIn(h, x) \/ x = id
    BY <2>2, <2>3 DEF AcceptedIn, old, now
  <2>5. \A r \in g.results : r.verdict.kind = "accepted" <=> AcceptedIn(g, r.id)
    <3> TAKE r \in g.results
    <3>1. CASE r = new
      BY <1>4, <2>4, <3>1
    <3>2. CASE r \in h.results
      BY <2>4, <3>2 DEF Remembers
    <3> QED BY <3>1, <3>2
  <2>6. \A i \in DOMAIN now : ResultIn(g, now[i].id, "accepted")
    <3> TAKE i \in DOMAIN now
    <3>1. CASE i \in DOMAIN old
      BY <2>3, <3>1 DEF Remembers, ResultIn, old
    <3>2. CASE i = Len(old) + 1
      BY <1>4, <2>2, <3>2 DEF ResultIn
    <3> QED BY <2>3, <3>1, <3>2
  <2>7. Remembers(g)
    <3>1. \A r, q \in g.results : r.id = q.id => r = q
      BY DEF Remembers
    <3>2. \A r \in g.results : r.verdict.kind \in {"accepted", "conflict"}
      BY DEF Remembers
    <3> QED BY <2>2, <2>5, <2>6, <3>1, <3>2 DEF Remembers, now
  <2>8. Extends(g, h)
    BY <1>1, <2>2 DEF Extends, old, now
  <2> QED BY <1>4, <2>4, <2>7, <2>8 DEF ResultIn
<1> QED BY <1>3, <1>4

\* What was accepted stays accepted, and what was a result stays one.
LEMMA GrownHolds ==
    ASSUME NEW h, NEW g, Remembers(h), Remembers(g), Extends(g, h), NEW id
    PROVE  (AcceptedIn(h, id) => AcceptedIn(g, id)) /\ (ResultIn(h, id, "conflict") => ResultIn(g, id, "conflict"))
<1>1. /\ DOMAIN h.objects = 1..Len(h.objects) /\ DOMAIN g.objects = 1..Len(g.objects)
      /\ Len(h.objects) \in Nat /\ Len(g.objects) \in Nat
  BY SequenceDomain DEF Remembers
<1>2. AcceptedIn(h, id) => AcceptedIn(g, id)
  <2> SUFFICES ASSUME NEW i \in DOMAIN h.objects, h.objects[i].id = id PROVE AcceptedIn(g, id)
    BY DEF AcceptedIn
  <2>1. i \in DOMAIN g.objects /\ g.objects[i].id = id
    BY <1>1 DEF Extends
  <2> QED BY <2>1 DEF AcceptedIn
<1> QED BY <1>2 DEF Extends, ResultIn

LEMMA HubAdds ==
    ASSUME HubRemembers, NEW t \in Tenants, NEW op, NEW v, v = Error \/ v.kind \in {"accepted", "conflict"},
           hub' = HubAfter(t, op, v)
    PROVE  /\ HubRemembers' /\ HubGrows
           /\ v # Error /\ Prior(t, op) = {} =>
                ResultIn(hub'[t], op.id, v.kind) /\ (v.kind = "accepted" => AcceptedIn(hub'[t], op.id))
<1>0. \A u \in Tenants : Extends(hub[u], hub[u])
  <2> TAKE u \in Tenants
  <2>1. Len(hub[u].objects) \in Nat
    BY SequenceDomain DEF HubRemembers, Remembers
  <2> QED BY <2>1 DEF Extends
<1>1. CASE v = Error \/ Prior(t, op) # {}
  <2>1. hub' = hub
    BY <1>1 DEF HubAfter
  <2> QED BY <1>0, <1>1, <2>1 DEF HubRemembers, HubGrows
<1>2. CASE v # Error /\ Prior(t, op) = {}
  <2> DEFINE new == [id |-> op.id, verdict |-> v]
             object == [id |-> op.id, object |-> op.object, version |-> v.version, content |-> op.content]
             objects == IF v.kind = "conflict" THEN hub[t].objects ELSE Append(hub[t].objects, object)
  <2>1. hub' = [hub EXCEPT ![t].results = @ \cup {new}, ![t].objects = objects]
    BY <1>2 DEF HubAfter
  <2>2. new.id = op.id /\ new.verdict = v /\ object.id = op.id
    OBVIOUS
  <2> HIDE DEF new, object, objects
  <2>3. /\ DOMAIN hub' = Tenants /\ \A u \in Tenants : u # t => hub'[u] = hub[u]
        /\ DOMAIN hub'[t] = {"objects", "results"}
        /\ hub'[t].results = hub[t].results \cup {new} /\ hub'[t].objects = objects
    BY <2>1 DEF HubRemembers, Remembers
  <2>4. \A r \in hub[t].results : r.id # op.id
    BY <1>2 DEF Prior
  <2>5. /\ Remembers(hub'[t]) /\ Extends(hub'[t], hub[t]) /\ ResultIn(hub'[t], op.id, v.kind)
        /\ v.kind = "accepted" => AcceptedIn(hub'[t], op.id)
    <3>1. hub'[t].objects = IF new.verdict.kind = "conflict" THEN hub[t].objects ELSE Append(hub[t].objects, object)
      BY <2>2, <2>3 DEF objects
    <3>2. Remembers(hub[t]) /\ new.verdict.kind \in {"accepted", "conflict"}
      BY <1>2, <2>2 DEF HubRemembers
    <3> DEFINE h == hub[t]
               g == hub'[t]
    <3>3. /\ Remembers(h) /\ (\A r \in h.results : r.id # op.id) /\ DOMAIN g = {"objects", "results"}
          /\ g.results = h.results \cup {new}
          /\ g.objects = IF new.verdict.kind = "conflict" THEN h.objects ELSE Append(h.objects, object)
      BY <2>3, <2>4, <3>1, <3>2
    <3> HIDE DEF h, g
    <3>4. Remembers(g) /\ Extends(g, h) /\ ResultIn(g, op.id, new.verdict.kind)
          /\ (new.verdict.kind = "accepted" => AcceptedIn(g, op.id))
      BY <2>2, <3>2, <3>3, RemembersMore
    <3> QED BY <2>2, <3>4 DEF h, g
  <2>6. HubRemembers'
    BY <2>3, <2>5 DEF HubRemembers
  <2>7. HubGrows
    BY <1>0, <2>3, <2>5 DEF HubGrows
  <2> QED BY <2>5, <2>6, <2>7
<1> QED BY <1>1, <1>2

\* The answer to a push is so once it is given.
LEMMA AnswerIsTrue ==
    ASSUME HubRemembers, NEW t \in Tenants, NEW op, Push(t, op)
    PROVE  /\ HubRemembers' /\ HubGrows
           /\ \/ Verdict(t, op) = Error
              \/ op.tenant = t /\ Verdict(t, op).kind = "accepted" /\ AcceptedIn(hub'[t], op.id)
              \/ op.tenant = t /\ Verdict(t, op).kind = "conflict" /\ ResultIn(hub'[t], op.id, "conflict")
<1>0. PICK v : v = Verdict(t, op)
  OBVIOUS
<1>a. hub' = HubAfter(t, op, v)
  BY <1>0 DEF Push
<1>1. CASE v # Error /\ Prior(t, op) # {}
  <2>1. PICK r \in hub[t].results : r.id = op.id /\ v = r.verdict /\ op.tenant = t
    BY <1>0, <1>1 DEF Verdict, Prior
  <2>2. v.kind \in {"accepted", "conflict"}
    BY <2>1 DEF HubRemembers, Remembers
  <2>3. HubRemembers' /\ HubGrows
    BY <1>a, <2>2, HubAdds
  <2>4. v.kind = "accepted" => AcceptedIn(hub[t], op.id)
    BY <2>1 DEF HubRemembers, Remembers
  <2>5. v.kind = "conflict" => ResultIn(hub[t], op.id, "conflict")
    BY <2>1 DEF ResultIn
  <2>6. Remembers(hub[t]) /\ Remembers(hub'[t]) /\ Extends(hub'[t], hub[t])
    BY <2>3 DEF HubRemembers, HubGrows
  <2> QED BY <1>0, <2>1, <2>2, <2>3, <2>4, <2>5, <2>6, GrownHolds
<1>2. CASE v # Error /\ Prior(t, op) = {}
  <2>1. v.kind \in {"accepted", "conflict"} /\ op.tenant = t
    BY <1>0, <1>2 DEF Verdict
  <2> QED BY <1>0, <1>a, <1>2, <2>1, HubAdds
<1>3. CASE v = Error
  BY <1>0, <1>a, <1>3, HubAdds
<1> QED BY <1>1, <1>2, <1>3

-----------------------------------------------------------------------------
(* The queue tells what became of an item *)

LEMMA OutcomeStarts == HubInit => OutcomeInv
<1> SUFFICES ASSUME HubInit PROVE OutcomeInv
  OBVIOUS
<1> DEFINE empty == [objects |-> <<>>, results |-> {}]
<1>0. IsSequence(<<>>)
  <2>1. DOMAIN <<>> = {} /\ <<>> \in Seq({})
    OBVIOUS
  <2>2. {<<>>[i] : i \in DOMAIN <<>>} = {}
    BY <2>1
  <2> QED BY <2>1, <2>2 DEF IsSequence
<1>1. Remembers(empty)
  BY <1>0 DEF Remembers
<1>2. HubRemembers
  BY <1>1 DEF HubInit, HubRemembers
<1>3. TrueDevice(hub, device)
  <2>1. device.queue = <<>> /\ device.tenant = Nobody /\ DOMAIN device = {"tenant", "queue", "catalog", "cursor", "inbox"}
    BY DEF HubInit
  <2> QED BY <1>0, <2>1 DEF TrueDevice
<1>4. TrueFlushes
  BY DEF HubInit, TrueFlushes, TrueFlush, NoFlush
<1> QED BY <1>2, <1>3, <1>4 DEF OutcomeInv, HubInit, LateFits

\* What is true stays true while the Hub adds.
LEMMA StaysTrue ==
    ASSUME HubRemembers, HubRemembers', HubGrows
    PROVE  /\ \A x : TrueItem(hub, x) => TrueItem(hub', x)
           /\ \A d : TrueDevice(hub, d) => TrueDevice(hub', d)
           /\ \A x, v : x.op.tenant \in Tenants /\ TrueAnswer(hub, x, v) => TrueAnswer(hub', x, v)
<1>1. ASSUME NEW t \in Tenants, NEW id
      PROVE  /\ AcceptedIn(hub[t], id) => AcceptedIn(hub'[t], id)
             /\ ResultIn(hub[t], id, "conflict") => ResultIn(hub'[t], id, "conflict")
  <2>1. Remembers(hub[t]) /\ Remembers(hub'[t]) /\ Extends(hub'[t], hub[t])
    BY DEF HubRemembers, HubGrows
  <2> QED BY <2>1, GrownHolds
<1>2. \A x : TrueItem(hub, x) => TrueItem(hub', x)
  BY <1>1 DEF TrueItem
<1>3. \A d : TrueDevice(hub, d) => TrueDevice(hub', d)
  BY <1>2 DEF TrueDevice
<1>4. \A x, v : x.op.tenant \in Tenants /\ TrueAnswer(hub, x, v) => TrueAnswer(hub', x, v)
  BY <1>1 DEF TrueAnswer
<1> QED BY <1>2, <1>3, <1>4

\* The Hub adds, and the device goes on as before but for the answer of one flush.
LEMMA HubGoesOn ==
    ASSUME OutcomeInv, HubRemembers', HubGrows, UNCHANGED device, LateFits',
           DOMAIN flush' = Flushers,
           \A f \in Flushers : \/ flush'[f] = flush[f]
                               \/ /\ TrueFlush(hub', device, flush'[f])
                                  /\ flush[f].phase # "idle" /\ flush'[f].at = flush[f].at
    PROVE  OutcomeInv'
<1>1. TrueDevice(hub', device')
  BY StaysTrue DEF OutcomeInv
<1>2. ASSUME NEW f \in Flushers PROVE TrueFlush(hub', device, flush'[f])
  <2>1. CASE flush'[f] = flush[f]
    <3>1. TrueFlush(hub, device, flush[f])
      BY DEF OutcomeInv, TrueFlushes
    <3>2. flush[f].phase # "idle" => device.queue[flush[f].at].op.tenant \in Tenants
      BY <3>1 DEF TrueFlush, OutcomeInv, TrueDevice, TrueItem
    <3>3. flush[f].phase = "answered" => TrueAnswer(hub', device.queue[flush[f].at], flush[f].verdict)
      BY <3>1, <3>2, StaysTrue DEF TrueFlush, OutcomeInv
    <3> QED BY <2>1, <3>1, <3>3 DEF TrueFlush
  <2> QED BY <2>1
<1>3. \A f \in Flushers : flush'[f].phase # "idle" => flush[f].phase # "idle" /\ flush'[f].at = flush[f].at
  OBVIOUS
<1>4. TrueFlushes'
  BY <1>2, <1>3 DEF OutcomeInv, TrueFlushes
<1> QED BY <1>1, <1>4 DEF OutcomeInv

LEMMA RecoveredIsTrue == ASSUME NEW all, NEW d, TrueDevice(all, d) PROVE TrueDevice(all, Recovered(d))
<1> DEFINE Back(x) == [x EXCEPT !.status = "pending"]
           queue == [i \in DOMAIN d.queue |-> IF d.queue[i].status = "syncing" THEN Back(d.queue[i]) ELSE d.queue[i]]
<1>1. ASSUME NEW x, TrueItem(all, x) PROVE TrueItem(all, Back(x))
  <2>1. DOMAIN Back(x) = DOMAIN x /\ Back(x).op = x.op /\ Back(x).status = "pending"
    BY <1>1 DEF TrueItem
  <2> HIDE DEF Back
  <2> QED BY <1>1, <2>1 DEF TrueItem
<1>2. Len(d.queue) \in Nat /\ DOMAIN d.queue = 1..Len(d.queue)
  BY SequenceDomain DEF TrueDevice
<1> HIDE DEF Back
<1>3. queue = [i \in 1..Len(d.queue) |-> queue[i]] /\ \A i \in DOMAIN queue : TrueItem(all, queue[i])
  BY <1>1, <1>2 DEF TrueDevice
<1>4. Recovered(d).queue = queue /\ DOMAIN Recovered(d) = DOMAIN d /\ Recovered(d).tenant = d.tenant
  BY DEF Recovered, TrueDevice, Back
<1> HIDE DEF queue
<1>5. IsSequence(queue)
  BY <1>2, <1>3, SequenceOf
<1> QED BY <1>3, <1>4, <1>5 DEF TrueDevice

LEMMA StopKeeps == ASSUME OutcomeInv, NEW d, TrueDevice(hub, d), StopsAt(d) PROVE OutcomeInv'
<1>1. TrueDevice(hub, Recovered(d))
  BY RecoveredIsTrue
<1>2. /\ device' = Recovered(d) /\ UNCHANGED hub /\ flush' = [f \in Flushers |-> NoFlush] /\ late' = late \cup InFlight
  BY DEF StopsAt
<1>3. TrueFlushes'
  BY <1>2 DEF TrueFlushes, TrueFlush, NoFlush
<1>4. \A op \in InFlight : op.tenant \in Tenants
  BY DEF InFlight, OutcomeInv, TrueFlushes, TrueFlush, TrueDevice, TrueItem
<1>5. HubRemembers' /\ LateFits'
  BY <1>2, <1>4 DEF OutcomeInv, HubRemembers, LateFits
<1> QED BY <1>1, <1>2, <1>3, <1>5 DEF OutcomeInv

\* The device changes what is not under way.
LEMMA DeviceKeeps ==
    ASSUME OutcomeInv, NEW d, device' = d, TrueDevice(hub, d), UNCHANGED <<hub, flush, late>>,
           \A f \in Flushers : flush[f].phase # "idle" =>
               flush[f].at \in DOMAIN d.queue /\ d.queue[flush[f].at] = device.queue[flush[f].at]
    PROVE  OutcomeInv'
<1>1. TrueFlushes'
  BY DEF OutcomeInv, TrueFlushes, TrueFlush
<1> QED BY <1>1 DEF OutcomeInv, HubRemembers, LateFits

\* The flush moves on from what the last of its writes leaves, or stops after one of them.
LEMMA GoesKeeps ==
    ASSUME OutcomeInv, NEW f \in Flushers, NEW writes, NEW i \in Nat \ {0}, Goes(f, writes, i),
           NEW last, last = writes[Len(writes)], TrueDevice(hub, last),
           \A n \in 2..Len(writes) - 1 : TrueDevice(hub, writes[n]),
           \A g \in Flushers \ {f} : flush[g].phase # "idle" =>
               flush[g].at \in DOMAIN last.queue /\ last.queue[flush[g].at] = device.queue[flush[g].at]
    PROVE  OutcomeInv'
<1>1. CASE \E n \in 2..Len(writes) - 1 : StopsAt(writes[n])
  <2>1. PICK n \in 2..Len(writes) - 1 : StopsAt(writes[n])
    BY <1>1
  <2>2. PICK d : d = writes[n]
    OBVIOUS
  <2>3. TrueDevice(hub, d) /\ StopsAt(d)
    BY <2>1, <2>2
  <2> QED BY <2>3, StopKeeps
<1>2. ASSUME NEW j \in NextDue(last, i),
             device' = IF j = 0 THEN last ELSE Syncing(last, j),
             flush' = [flush EXCEPT ![f] = IF j = 0 THEN NoFlush
                            ELSE [phase |-> IF last.tenant = Nobody THEN "answered" ELSE "sent", at |-> j,
                                  to |-> last.tenant, verdict |-> Error]],
             UNCHANGED <<hub, puller, late, homes>>
      PROVE  OutcomeInv'
  <2>0. HubRemembers' /\ LateFits' /\ UNCHANGED hub
    BY <1>2 DEF OutcomeInv, HubRemembers, LateFits
  <2>1. \A g \in Flushers : g # f => flush'[g] = flush[g] /\ TrueFlush(hub, device, flush[g])
    BY <1>2 DEF OutcomeInv, TrueFlushes
  <2>2. DOMAIN flush' = Flushers
    BY <1>2 DEF OutcomeInv, TrueFlushes
  <2>3. CASE j = 0
    <3>1. device' = last /\ flush'[f] = NoFlush
      BY <1>2, <2>3 DEF OutcomeInv, TrueFlushes
    <3>2. \A g \in Flushers : TrueFlush(hub, last, flush'[g])
      BY <2>1, <3>1 DEF TrueFlush, NoFlush
    <3>3. TrueFlushes'
      BY <1>2, <2>0, <2>1, <2>2, <3>1, <3>2 DEF TrueFlushes, OutcomeInv, NoFlush
    <3> QED BY <2>0, <3>1, <3>3 DEF OutcomeInv
  <2>4. CASE j # 0
    <3>1. j \in DOMAIN last.queue /\ Due(last.queue[j])
      <4>1. Len(last.queue) \in Nat /\ DOMAIN last.queue = 1..Len(last.queue)
        BY SequenceDomain DEF TrueDevice
      <4>2. j \in i..Len(last.queue) /\ Due(last.queue[j])
        BY <2>4 DEF NextDue
      <4> QED BY <4>1, <4>2
    <3> DEFINE x == last.queue[j]
               y == Attempted(x)
               q == [last.queue EXCEPT ![j] = y]
               d == [last EXCEPT !.queue = q]
    <3>2. device' = d
      BY <1>2, <2>4 DEF Syncing
    <3>3. TrueItem(hub, x)
      BY <3>1 DEF TrueDevice
    <3>4. DOMAIN y = DOMAIN x /\ y.op = x.op /\ y.status = "syncing"
      BY <3>3 DEF TrueItem, Attempted
    <3> HIDE DEF y
    <3>5. TrueItem(hub, y)
      BY <3>3, <3>4 DEF TrueItem
    <3> HIDE DEF x
    <3>6. /\ IsSequence(q) /\ DOMAIN q = DOMAIN last.queue /\ q[j] = y
          /\ \A k \in DOMAIN last.queue : k # j => q[k] = last.queue[k]
      BY <3>1, UpdatedAt DEF TrueDevice
    <3> HIDE DEF q
    <3>7. DOMAIN d = DOMAIN last /\ d.queue = q /\ d.tenant = last.tenant
      BY DEF TrueDevice
    <3> HIDE DEF d
    <3>8. TrueDevice(hub, d)
      <4>1. \A k \in DOMAIN q : TrueItem(hub, q[k])
        BY <3>5, <3>6 DEF TrueDevice
      <4> QED BY <3>6, <3>7, <4>1 DEF TrueDevice
    <3> DEFINE z == [phase |-> IF last.tenant = Nobody THEN "answered" ELSE "sent", at |-> j,
                     to |-> last.tenant, verdict |-> Error]
    <3>9. flush'[f] = z
      BY <1>2, <2>4 DEF OutcomeInv, TrueFlushes
    <3>10. TrueFlush(hub, d, z)
      <4>1. DOMAIN z = {"phase", "at", "to", "verdict"} /\ z.at = j /\ z.verdict = Error /\ z.to = last.tenant
            /\ (z.phase = "sent" => last.tenant # Nobody) /\ z.phase \in {"sent", "answered"}
        OBVIOUS
      <4> HIDE DEF z
      <4>2. last.tenant # Nobody => last.tenant \in Tenants
        BY DEF TrueDevice
      <4> QED BY <3>1, <3>4, <3>6, <3>7, <4>1, <4>2 DEF TrueFlush, TrueAnswer
    <3>11. \A g \in Flushers : g # f /\ flush[g].phase # "idle" => flush[g].at # j
      <4> TAKE g \in Flushers
      <4> HAVE g # f /\ flush[g].phase # "idle"
      <4>1. last.queue[flush[g].at].status = "syncing"
        BY <2>1 DEF TrueFlush
      <4> QED BY <3>1, <4>1 DEF Due
    <3>12. \A g \in Flushers : g # f => TrueFlush(hub, d, flush'[g])
      <4> TAKE g \in Flushers
      <4> HAVE g # f
      <4>1. CASE flush[g].phase = "idle"
        BY <2>1, <4>1 DEF TrueFlush
      <4>2. CASE flush[g].phase # "idle"
        <5>1. flush[g].at \in DOMAIN q /\ q[flush[g].at] = device.queue[flush[g].at]
          BY <3>6, <3>11, <4>2
        <5> QED BY <2>1, <3>7, <5>1 DEF TrueFlush
      <4> QED BY <4>1, <4>2
    <3>13. z.at = j
      OBVIOUS
    <3> HIDE DEF z
    <3>14. \A g, h \in Flushers : g # h /\ flush'[g].phase # "idle" /\ flush'[h].phase # "idle" => flush'[g].at # flush'[h].at
      BY <2>1, <3>9, <3>11, <3>13 DEF OutcomeInv, TrueFlushes
    <3>15. TrueFlushes'
      BY <2>0, <2>2, <3>2, <3>9, <3>10, <3>12, <3>14 DEF TrueFlushes
    <3> QED BY <2>0, <3>2, <3>8, <3>15 DEF OutcomeInv
  <2> QED BY <2>3, <2>4
<1> QED BY <1>1, <1>2 DEF Goes

LEMMA ConnectionKeeps ==
    ASSUME OutcomeInv, Disconnect \/ \E t \in Tenants : Configure(t)
    PROVE  OutcomeInv'
<1>1. PICK t \in Tenants \cup {Nobody} : device' = [device EXCEPT !.tenant = t] /\ UNCHANGED <<hub, flush, late>>
  BY DEF Configure, Disconnect
<1> DEFINE d == [device EXCEPT !.tenant = t]
<1>2. DOMAIN d = DOMAIN device /\ d.queue = device.queue /\ d.tenant = t
  BY DEF OutcomeInv, TrueDevice
<1>3. device' = d
  BY <1>1
<1> HIDE DEF d
<1>4. TrueDevice(hub, d)
  BY <1>2 DEF OutcomeInv, TrueDevice
<1>5. PICK c : c = d
  OBVIOUS
<1>6. device' = c /\ c.queue = device.queue /\ TrueDevice(hub, c)
  BY <1>2, <1>3, <1>4, <1>5
<1>7. \A f \in Flushers : flush[f].phase # "idle" => flush[f].at \in DOMAIN c.queue /\ c.queue[flush[f].at] = device.queue[flush[f].at]
  BY <1>6 DEF OutcomeInv, TrueFlushes, TrueFlush
<1> QED BY <1>1, <1>6, <1>7, DeviceKeeps

LEMMA EnqueueKeeps ==
    ASSUME OutcomeInv, NEW o, NEW c, Enqueue(o, c)
    PROVE  OutcomeInv'
<1> DEFINE x == [op |-> [id |-> <<Len(device.queue) + 1, 0>>, tenant |-> device.tenant, object |-> o,
                         base |-> device.catalog[o], content |-> c],
                 status |-> "pending", attempts |-> 0, current |-> 0]
           q == Append(device.queue, x)
           d == [device EXCEPT !.queue = q]
<1>1. device' = d /\ UNCHANGED <<hub, flush, late>> /\ device.tenant # Nobody
  BY DEF Enqueue
<1>2. TrueItem(hub, x)
  BY <1>1 DEF TrueItem, OutcomeInv, TrueDevice
<1> HIDE DEF x
<1>3. Len(device.queue) \in Nat /\ DOMAIN device.queue = 1..Len(device.queue) /\ IsSequence(device.queue)
  BY SequenceDomain DEF OutcomeInv, TrueDevice
<1>4. /\ IsSequence(q) /\ DOMAIN q = 1..(Len(device.queue) + 1)
      /\ \A i \in 1..Len(device.queue) : q[i] = device.queue[i]
      /\ q[Len(device.queue) + 1] = x
  BY <1>3, AppendedTo
<1> HIDE DEF q
<1>5. DOMAIN d = DOMAIN device /\ d.queue = q /\ d.tenant = device.tenant
  BY DEF OutcomeInv, TrueDevice
<1> HIDE DEF d
<1>6. \A i \in DOMAIN q : i \in DOMAIN device.queue \/ i = Len(device.queue) + 1
  BY <1>3, <1>4
<1>7. \A i \in DOMAIN q : TrueItem(hub, q[i])
  BY <1>2, <1>3, <1>4, <1>6 DEF OutcomeInv, TrueDevice
<1>8. TrueDevice(hub, d)
  BY <1>4, <1>5, <1>7 DEF OutcomeInv, TrueDevice
<1>9. PICK e : e = d
  OBVIOUS
<1>10. /\ device' = e /\ TrueDevice(hub, e)
       /\ \A f \in Flushers : flush[f].phase # "idle" =>
            flush[f].at \in DOMAIN e.queue /\ e.queue[flush[f].at] = device.queue[flush[f].at]
  <2>1. \A i \in DOMAIN device.queue : i \in DOMAIN q /\ q[i] = device.queue[i]
    BY <1>3, <1>4
  <2> QED BY <1>1, <1>5, <1>8, <1>9, <2>1 DEF OutcomeInv, TrueFlushes, TrueFlush
<1> QED BY <1>1, <1>10, DeviceKeeps

LEMMA ResolveKeeps ==
    ASSUME OutcomeInv, NEW i \in DOMAIN device.queue, NEW retry, ResolveConflict(i, retry)
    PROVE  OutcomeInv'
<1> DEFINE x  == device.queue[i]
           op == [x.op EXCEPT !.id = <<@[1], @[2] + 1>>, !.base = x.current]
           again == [op |-> op, status |-> "pending", attempts |-> 0, current |-> 0]
           given == [x EXCEPT !.status = "discarded"]
           y  == IF retry THEN again ELSE given
           q  == [device.queue EXCEPT ![i] = y]
           d  == [device EXCEPT !.queue = q]
<1>1. device' = d /\ UNCHANGED <<hub, flush, late>> /\ x.status = "conflict"
  BY DEF ResolveConflict
<1>2. TrueItem(hub, x)
  BY DEF OutcomeInv, TrueDevice
<1>3. DOMAIN op = DOMAIN x.op /\ op.tenant = x.op.tenant
  BY <1>2 DEF TrueItem
<1> HIDE DEF op
<1>4. TrueItem(hub, again)
  BY <1>2, <1>3 DEF TrueItem
<1>5. DOMAIN given = DOMAIN x /\ given.op = x.op /\ given.status = "discarded"
  BY <1>2 DEF TrueItem
<1> HIDE DEF again, given
<1>6. TrueItem(hub, given)
  BY <1>1, <1>2, <1>5 DEF TrueItem
<1>7. TrueItem(hub, y)
  BY <1>4, <1>6
<1> HIDE DEF y
<1>8. /\ IsSequence(q) /\ DOMAIN q = DOMAIN device.queue /\ q[i] = y
      /\ \A k \in DOMAIN device.queue : k # i => q[k] = device.queue[k]
  BY UpdatedAt DEF OutcomeInv, TrueDevice
<1> HIDE DEF q
<1>9. DOMAIN d = DOMAIN device /\ d.queue = q /\ d.tenant = device.tenant
  BY DEF OutcomeInv, TrueDevice
<1> HIDE DEF d
<1>10. \A k \in DOMAIN q : TrueItem(hub, q[k])
  BY <1>7, <1>8 DEF OutcomeInv, TrueDevice
<1>11. TrueDevice(hub, d)
  BY <1>8, <1>9, <1>10 DEF OutcomeInv, TrueDevice
<1>12. PICK e : e = d
  OBVIOUS
<1>13. \A f \in Flushers : flush[f].phase # "idle" => flush[f].at \in DOMAIN device.queue /\ flush[f].at # i
  BY <1>1 DEF OutcomeInv, TrueFlushes, TrueFlush
<1>14. /\ device' = e /\ TrueDevice(hub, e)
       /\ \A f \in Flushers : flush[f].phase # "idle" =>
            flush[f].at \in DOMAIN e.queue /\ e.queue[flush[f].at] = device.queue[flush[f].at]
  BY <1>1, <1>8, <1>9, <1>11, <1>12, <1>13
<1> QED BY <1>1, <1>14, DeviceKeeps

\* An answer, or the lack of one, at a flush.
Answered(y, v) == [y EXCEPT !.phase = "answered", !.verdict = v]
LEMMA AnsweredFlush ==
    ASSUME NEW all, NEW d, NEW y, TrueFlush(all, d, y), y.phase # "idle", NEW v, TrueAnswer(all, d.queue[y.at], v)
    PROVE  TrueFlush(all, d, Answered(y, v)) /\ Answered(y, v).at = y.at
<1> DEFINE z == Answered(y, v)
<1>1. DOMAIN z = DOMAIN y /\ z.phase = "answered" /\ z.verdict = v /\ z.at = y.at /\ z.to = y.to
  BY DEF TrueFlush, Answered
<1> HIDE DEF z
<1>2. TrueFlush(all, d, z) /\ z.at = y.at
  BY <1>1 DEF TrueFlush
<1> QED BY <1>2 DEF z

LEMMA ServePushKeeps == ASSUME OutcomeInv, NEW f \in Flushers, ServePush(f) PROVE OutcomeInv'
<1>0. PICK v : v = Verdict(flush[f].to, device.queue[flush[f].at].op)
  OBVIOUS
<1>1. PICK op : op = device.queue[flush[f].at].op
  OBVIOUS
<1>2. PICK t : t = flush[f].to
  OBVIOUS
<1>3. TrueFlush(hub, device, flush[f]) /\ flush[f].phase = "sent" /\ t \in Tenants
  BY <1>2 DEF OutcomeInv, TrueFlushes, TrueFlush, ServePush
<1>4. /\ Push(t, op) /\ v = Verdict(t, op) /\ UNCHANGED <<device, late>>
      /\ flush' = [flush EXCEPT ![f] = Answered(flush[f], v)]
  BY <1>0, <1>1, <1>2 DEF ServePush, Answered, OutcomeInv, TrueFlushes
<1>5. /\ HubRemembers' /\ HubGrows
      /\ \/ v = Error
         \/ op.tenant = t /\ v.kind = "accepted" /\ AcceptedIn(hub'[t], op.id)
         \/ op.tenant = t /\ v.kind = "conflict" /\ ResultIn(hub'[t], op.id, "conflict")
  BY <1>3, <1>4, AnswerIsTrue DEF OutcomeInv
<1>6. PICK after : after = hub'
  OBVIOUS
<1>7. TrueAnswer(after, device.queue[flush[f].at], v)
  BY <1>1, <1>5, <1>6 DEF TrueAnswer
<1>8. TrueFlush(after, device, flush[f])
  BY <1>3, <1>6 DEF TrueFlush
<1>9. TrueFlush(after, device, Answered(flush[f], v)) /\ Answered(flush[f], v).at = flush[f].at
  BY <1>3, <1>7, <1>8, AnsweredFlush
<1>10. /\ DOMAIN flush' = Flushers
       /\ \A g \in Flushers : \/ flush'[g] = flush[g]
                              \/ /\ TrueFlush(hub', device, flush'[g])
                                 /\ flush[g].phase # "idle" /\ flush'[g].at = flush[g].at
  BY <1>3, <1>4, <1>6, <1>9 DEF OutcomeInv, TrueFlushes
<1> QED BY <1>4, <1>5, <1>10, HubGoesOn DEF OutcomeInv, LateFits

LEMMA LosePushKeeps == ASSUME OutcomeInv, NEW f \in Flushers, LosePush(f) PROVE OutcomeInv'
<1>1. TrueFlush(hub, device, flush[f]) /\ flush[f].phase # "idle"
  BY DEF OutcomeInv, TrueFlushes, LosePush
<1>2. /\ UNCHANGED <<hub, device>> /\ HubRemembers'
      /\ flush' = [flush EXCEPT ![f] = Answered(flush[f], Error)]
  BY DEF LosePush, Answered, OutcomeInv, TrueFlushes, HubRemembers
<1>3. device.queue[flush[f].at].op.tenant \in Tenants
  BY <1>1 DEF OutcomeInv, TrueDevice, TrueItem, TrueFlush
<1>4. LateFits'
  BY <1>3 DEF LosePush, OutcomeInv, LateFits
<1>5. TrueFlush(hub, device, Answered(flush[f], Error)) /\ Answered(flush[f], Error).at = flush[f].at
  BY <1>1, AnsweredFlush DEF TrueAnswer
<1>6. HubGrows
  <2> SUFFICES ASSUME NEW t \in Tenants PROVE Extends(hub'[t], hub[t])
    BY DEF HubGrows
  <2>1. Len(hub[t].objects) \in Nat
    BY SequenceDomain DEF OutcomeInv, HubRemembers, Remembers
  <2> QED BY <1>2, <2>1 DEF Extends
<1>7. /\ DOMAIN flush' = Flushers
      /\ \A g \in Flushers : \/ flush'[g] = flush[g]
                             \/ /\ TrueFlush(hub', device, flush'[g])
                                /\ flush[g].phase # "idle" /\ flush'[g].at = flush[g].at
  BY <1>1, <1>2, <1>5 DEF OutcomeInv, TrueFlushes
<1> QED BY <1>2, <1>4, <1>6, <1>7, HubGoesOn

\* The Hub adds, and the device does not notice.
LEMMA HubAloneKeeps ==
    ASSUME OutcomeInv, HubRemembers', HubGrows, UNCHANGED <<device, flush>>, late' \subseteq late
    PROVE  OutcomeInv'
<1>1. DOMAIN flush' = Flushers /\ LateFits'
  BY DEF OutcomeInv, TrueFlushes, LateFits
<1> QED BY <1>1, HubGoesOn

LEMMA ServeLateKeeps == ASSUME OutcomeInv, NEW op \in late, ServeLate(op) PROVE OutcomeInv' /\ HubGrows
<1>1. op.tenant \in Tenants /\ Push(op.tenant, op)
  BY DEF OutcomeInv, LateFits, ServeLate
<1>2. HubRemembers' /\ HubGrows
  BY <1>1, AnswerIsTrue DEF OutcomeInv
<1> QED BY <1>2, HubAloneKeeps DEF ServeLate

LEMMA OtherPushKeeps ==
    ASSUME OutcomeInv, NEW t \in Tenants, NEW o, NEW c, OtherPush(t, o, c)
    PROVE  OutcomeInv' /\ HubGrows
<1>1. PICK op : op = [id |-> <<0, Cardinality(hub[t].results)>>, tenant |-> t, object |-> o, base |-> Current(t, o), content |-> c]
  OBVIOUS
<1>2. PICK v : v = [kind |-> "accepted", version |-> op.base + 1]
  OBVIOUS
<1>3. hub' = HubAfter(t, op, v) /\ UNCHANGED <<device, flush, late>>
  BY <1>1, <1>2 DEF OtherPush
<1>4. v.kind \in {"accepted", "conflict"}
  BY <1>2
<1>5. HubRemembers' /\ HubGrows
  BY <1>3, <1>4, HubAdds DEF OutcomeInv
<1> QED BY <1>3, <1>5, HubAloneKeeps

LEMMA FlushKeeps == ASSUME OutcomeInv, NEW f \in Flushers, Flush(f) PROVE OutcomeInv'
<1>1. PICK writes : writes = <<device>>
  OBVIOUS
<1>2. PICK last : last = device
  OBVIOUS
<1>3. Len(writes) = 1 /\ last = writes[Len(writes)] /\ Goes(f, writes, 1) /\ 1 \in Nat \ {0}
  BY <1>1, <1>2 DEF Flush
<1>4. TrueDevice(hub, last) /\ \A n \in 2..Len(writes) - 1 : TrueDevice(hub, writes[n])
  BY <1>2, <1>3 DEF OutcomeInv
<1>5. \A g \in Flushers \ {f} : flush[g].phase # "idle" =>
        flush[g].at \in DOMAIN last.queue /\ last.queue[flush[g].at] = device.queue[flush[g].at]
  BY <1>2 DEF OutcomeInv, TrueFlushes, TrueFlush
<1> QED BY <1>3, <1>4, <1>5, GoesKeeps

\* The outcome that is written to the queue.
LEMMA AfterAnswerIsTrue ==
    ASSUME NEW all, NEW x, TrueItem(all, x), NEW v, TrueAnswer(all, x, v)
    PROVE  TrueItem(all, AfterAnswer(x, v))
<1> DEFINE done == [x EXCEPT !.status = "succeeded"]
           clash == [x EXCEPT !.status = "conflict", !.current = v.version]
           status == IF x.attempts >= MaxAttempts THEN "failed" ELSE "pending"
           again == [x EXCEPT !.status = status]
<1>1. /\ DOMAIN done = DOMAIN x /\ done.op = x.op /\ done.status = "succeeded"
      /\ DOMAIN clash = DOMAIN x /\ clash.op = x.op /\ clash.status = "conflict"
      /\ DOMAIN again = DOMAIN x /\ again.op = x.op /\ again.status \in {"failed", "pending"}
  BY DEF TrueItem
<1>2. /\ v.kind = "accepted" => AfterAnswer(x, v) = done
      /\ v.kind = "conflict" => AfterAnswer(x, v) = clash
      /\ v.kind \notin {"accepted", "conflict"} => AfterAnswer(x, v) = again
  BY DEF AfterAnswer
<1> HIDE DEF done, clash, again
<1>3. TrueItem(all, again)
  BY <1>1 DEF TrueItem
<1>4. v.kind = "accepted" => TrueItem(all, done)
  BY <1>1 DEF TrueItem, TrueAnswer, Error
<1>5. v.kind = "conflict" => TrueItem(all, clash)
  BY <1>1 DEF TrueItem, TrueAnswer, Error
<1> QED BY <1>2, <1>3, <1>4, <1>5

\* The outcome is written to the item that is under way.
LEMMA WrittenIsTrue ==
    ASSUME OutcomeInv, NEW f \in Flushers, flush[f].phase = "answered",
           NEW v, v = flush[f].verdict, NEW i, i = flush[f].at, NEW x, x = device.queue[i],
           NEW d1, TrueDevice(hub, d1), d1.queue = device.queue,
           NEW d2, d2 = [d1 EXCEPT !.queue[i] = AfterAnswer(x, v)]
    PROVE  /\ TrueDevice(hub, d2) /\ i \in DOMAIN device.queue
           /\ DOMAIN d2.queue = DOMAIN device.queue
           /\ \A k \in DOMAIN device.queue : k # i => d2.queue[k] = device.queue[k]
<1>1. TrueFlush(hub, device, flush[f])
  BY DEF OutcomeInv, TrueFlushes
<1>2. i \in DOMAIN device.queue /\ TrueAnswer(hub, x, v) /\ TrueItem(hub, x)
  BY <1>1 DEF TrueFlush, OutcomeInv, TrueDevice
<1> DEFINE y == AfterAnswer(x, v)
           q == [device.queue EXCEPT ![i] = y]
<1>3. TrueItem(hub, y)
  BY <1>2, AfterAnswerIsTrue
<1>4. d2 = [d1 EXCEPT !.queue = q]
  OBVIOUS
<1> HIDE DEF y
<1>5. /\ IsSequence(q) /\ DOMAIN q = DOMAIN device.queue /\ q[i] = y
      /\ \A k \in DOMAIN device.queue : k # i => q[k] = device.queue[k]
  BY <1>2, UpdatedAt DEF OutcomeInv, TrueDevice
<1> HIDE DEF q
<1>6. d2.queue = q /\ DOMAIN d2 = DOMAIN d1 /\ d2.tenant = d1.tenant
  BY <1>4 DEF TrueDevice
<1>7. \A k \in DOMAIN q : TrueItem(hub, q[k])
  BY <1>3, <1>5 DEF OutcomeInv, TrueDevice
<1>8. TrueDevice(hub, d2)
  BY <1>5, <1>6, <1>7 DEF TrueDevice
<1> QED BY <1>2, <1>5, <1>6, <1>8

LEMMA TakeAnswerKeeps == ASSUME OutcomeInv, NEW f \in Flushers, TakeAnswer(f) PROVE OutcomeInv'
<1>1. PICK v : v = flush[f].verdict
  OBVIOUS
<1>2. PICK i : i = flush[f].at
  OBVIOUS
<1>3. PICK x : x = device.queue[i]
  OBVIOUS
<1>4. PICK d1 : d1 = IF v.kind = "accepted" THEN [device EXCEPT !.catalog[x.op.object] = v.version] ELSE device
  OBVIOUS
<1>5. PICK d2 : d2 = [d1 EXCEPT !.queue[i] = AfterAnswer(x, v)]
  OBVIOUS
<1>6. PICK writes : writes = <<device, d1, d2>>
  OBVIOUS
<1>7. Goes(f, writes, i + 1) /\ flush[f].phase = "answered"
  BY <1>1, <1>2, <1>3, <1>4, <1>5, <1>6 DEF TakeAnswer
<1>8. TrueFlush(hub, device, flush[f])
  BY DEF OutcomeInv, TrueFlushes
<1>10. d1.queue = device.queue /\ DOMAIN d1 = DOMAIN device /\ d1.tenant = device.tenant
  BY <1>4 DEF OutcomeInv, TrueDevice
<1>11. TrueDevice(hub, d1)
  BY <1>10 DEF OutcomeInv, TrueDevice
<1>16. /\ TrueDevice(hub, d2) /\ i \in DOMAIN device.queue
       /\ DOMAIN d2.queue = DOMAIN device.queue
       /\ \A k \in DOMAIN device.queue : k # i => d2.queue[k] = device.queue[k]
  BY <1>1, <1>2, <1>3, <1>5, <1>7, <1>10, <1>11, WrittenIsTrue
<1>17. Len(writes) = 3 /\ writes[2] = d1 /\ writes[3] = d2
  BY <1>6
<1>18. TrueDevice(hub, d2) /\ d2 = writes[Len(writes)] /\ \A n \in 2..Len(writes) - 1 : TrueDevice(hub, writes[n])
  <2>1. \A n \in 2..Len(writes) - 1 : n = 2
    BY <1>17
  <2> QED BY <1>11, <1>16, <1>17, <2>1
<1>19. \A g \in Flushers \ {f} : flush[g].phase # "idle" =>
         flush[g].at \in DOMAIN d2.queue /\ d2.queue[flush[g].at] = device.queue[flush[g].at]
  <2> TAKE g \in Flushers \ {f}
  <2> HAVE flush[g].phase # "idle"
  <2>1. flush[g].at \in DOMAIN device.queue /\ flush[g].at # i
    BY <1>2, <1>7 DEF OutcomeInv, TrueFlushes, TrueFlush
  <2> QED BY <1>16, <2>1
<1>20. i + 1 \in Nat \ {0}
  <2>1. Len(device.queue) \in Nat /\ DOMAIN device.queue = 1..Len(device.queue)
    BY SequenceDomain DEF OutcomeInv, TrueDevice
  <2> QED BY <1>16, <2>1
<1> QED BY <1>7, <1>18, <1>19, <1>20, GoesKeeps

\* A pull changes what the device holds only in its inbox and its cursor.
LEMMA PageKeeps ==
    ASSUME OutcomeInv, NEW d, DOMAIN d = DOMAIN device, d.queue = device.queue, d.tenant = device.tenant
    PROVE  /\ TrueDevice(hub, d)
           /\ StopsAt(d) => OutcomeInv'
           /\ device' = d /\ UNCHANGED <<hub, flush, late>> => OutcomeInv'
<1>1. TrueDevice(hub, d)
  BY DEF OutcomeInv, TrueDevice
<1>2. StopsAt(d) => OutcomeInv'
  BY <1>1, StopKeeps
<1>3. \A f \in Flushers : flush[f].phase # "idle" => flush[f].at \in DOMAIN d.queue /\ d.queue[flush[f].at] = device.queue[flush[f].at]
  BY DEF OutcomeInv, TrueFlushes, TrueFlush
<1>4. device' = d /\ UNCHANGED <<hub, flush, late>> => OutcomeInv'
  BY <1>1, <1>3, DeviceKeeps
<1> QED BY <1>1, <1>2, <1>4

-----------------------------------------------------------------------------
(* A pull misses nothing *)

\* The pull is as before or over, and the device holds of the pulls what it held.
SamePulls(d) == d.cursor = device.cursor /\ d.inbox = device.inbox /\ d.tenant \in {device.tenant, Nobody}

LEMMA RecoveredPulls == ASSUME NEW all, NEW d, TrueDevice(all, d)
    PROVE  Recovered(d).cursor = d.cursor /\ Recovered(d).inbox = d.inbox /\ Recovered(d).tenant = d.tenant
BY DEF TrueDevice, Recovered

\* More versions on the Hub: what was up to the cursor is as it was.
LEMMA PulledGrows ==
    ASSUME NEW g, NEW h, Remembers(g), Remembers(h), Extends(g, h)
    PROVE  /\ \A d : Pulled(h.objects, d) => Pulled(g.objects, d)
           /\ \A cursor \in Nat : \A page, next : Brings(h.objects, cursor, page, next) => Brings(g.objects, cursor, page, next)
<1>1. Len(h.objects) \in Nat /\ Len(g.objects) \in Nat /\ Len(h.objects) <= Len(g.objects)
      /\ \A i \in 1..Len(h.objects) : g.objects[i] = h.objects[i]
  BY SequenceDomain DEF Remembers, Extends
<1>2. ASSUME NEW d, Pulled(h.objects, d) PROVE Pulled(g.objects, d)
  <2>1. d.cursor \in 0..Len(h.objects) /\ \A i \in 1..d.cursor : h.objects[i] \in d.inbox
    BY <1>2 DEF Pulled
  <2>2. \A i \in 1..d.cursor : i \in 1..Len(h.objects)
    BY <1>1, <2>1
  <2>3. \A i \in 1..d.cursor : g.objects[i] = h.objects[i]
    BY <1>1, <2>2
  <2>4. d.cursor \in 0..Len(g.objects)
    BY <1>1, <2>1
  <2> QED BY <2>1, <2>3, <2>4 DEF Pulled
<1>3. ASSUME NEW cursor \in Nat, NEW page, NEW next, Brings(h.objects, cursor, page, next)
      PROVE  Brings(g.objects, cursor, page, next)
  <2>1. next \in cursor..Len(h.objects) /\ \A i \in cursor + 1..next : \E k \in DOMAIN page : page[k] = h.objects[i]
    BY <1>3 DEF Brings
  <2>2. \A i \in cursor + 1..next : g.objects[i] = h.objects[i]
    BY <1>1, <2>1
  <2>3. next \in cursor..Len(g.objects)
    BY <1>1, <2>1
  <2> QED BY <2>1, <2>2, <2>3 DEF Brings
<1> QED BY <1>2, <1>3

LEMMA PullsGoOn ==
    ASSUME HubInv, PullInv, OutcomeInv', HubGrows, SamePulls(device'), UNCHANGED homes, puller' = puller \/ puller' = NoPull
    PROVE  PullerFits' /\ PullInv'
<1>1. PullerFits'
  BY DEF HubInv, PullerFits, NoPull, SamePulls
<1>2. \A t \in Tenants : /\ Pulled(hub[t].objects, device) => Pulled(hub'[t].objects, device)
                         /\ Brings(hub[t].objects, device.cursor, puller.page, puller.next)
                              => Brings(hub'[t].objects, device.cursor, puller.page, puller.next)
  <2> TAKE t \in Tenants
  <2>1. Remembers(hub[t]) /\ Remembers(hub'[t]) /\ Extends(hub'[t], hub[t]) /\ device.cursor \in Nat
    BY DEF HubInv, OutcomeInv, HubRemembers, HubGrows, PullerFits
  <2> QED BY <2>1, PulledGrows
<1>3. \A t \in Tenants : Pulled(hub'[t].objects, device) => Pulled(hub'[t].objects, device')
  BY DEF Pulled, SamePulls
<1>4. device'.cursor = device.cursor /\ device'.tenant \in {device.tenant, Nobody}
  BY DEF SamePulls
<1>5. puller'.phase # "idle" => puller' = puller
  BY DEF NoPull
<1> QED BY <1>1, <1>2, <1>3, <1>4, <1>5 DEF PullInv

LEMMA StillGrows == ASSUME OutcomeInv, UNCHANGED hub PROVE HubGrows
<1> SUFFICES ASSUME NEW t \in Tenants PROVE Extends(hub'[t], hub[t])
  BY DEF HubGrows
<1>1. Len(hub[t].objects) \in Nat
  BY SequenceDomain DEF OutcomeInv, HubRemembers, Remembers
<1> QED BY <1>1 DEF Extends

\* A write of the queue, or a stop, leaves the pulls alone.
LEMMA GoesSamePulls ==
    ASSUME OutcomeInv, NEW f, NEW writes, NEW i, Goes(f, writes, i), TrueDevice(hub, writes[Len(writes)]),
           \A n \in 2..Len(writes) : TrueDevice(hub, writes[n]) /\ SamePulls(writes[n]), SamePulls(writes[Len(writes)])
    PROVE  SamePulls(device') /\ UNCHANGED <<hub, homes>> /\ (puller' = puller \/ puller' = NoPull)
<1>1. CASE \E n \in 2..Len(writes) - 1 : StopsAt(writes[n])
  <2>1. PICK n \in 2..Len(writes) - 1 : StopsAt(writes[n])
    BY <1>1
  <2>2. PICK d : d = writes[n]
    OBVIOUS
  <2>3. TrueDevice(hub, d) /\ SamePulls(d) /\ StopsAt(d)
    <3>1. Len(writes) \in Nat \/ Len(writes) \notin Nat
      OBVIOUS
    <3> QED BY <2>1, <2>2
  <2>4. device' = Recovered(d) /\ UNCHANGED <<hub, homes>> /\ puller' = NoPull
    BY <2>3 DEF StopsAt
  <2> QED BY <2>3, <2>4, RecoveredPulls DEF SamePulls
<1>2. CASE ~\E n \in 2..Len(writes) - 1 : StopsAt(writes[n])
  <2>1. PICK last : last = writes[Len(writes)]
    OBVIOUS
  <2>2. PICK j \in NextDue(last, i) : device' = (IF j = 0 THEN last ELSE Syncing(last, j)) /\ UNCHANGED <<hub, puller, homes>>
    BY <1>2, <2>1 DEF Goes
  <2>3. SamePulls(last) /\ TrueDevice(hub, last)
    BY <2>1
  <2>4. Syncing(last, j).cursor = last.cursor /\ Syncing(last, j).inbox = last.inbox /\ Syncing(last, j).tenant = last.tenant
    BY <2>3 DEF TrueDevice, Syncing
  <2> QED BY <2>2, <2>3, <2>4 DEF SamePulls
<1> QED BY <1>1, <1>2

\* Every step of the device that is not one of the pull, and the Hub's.
LEMMA PushesKeep ==
    ASSUME HubInv, PullInv,
           \/ \E t \in Shared, o \in Objects, c \in Bodies : OtherPush(t, o, c)
           \/ \E o \in Objects : QueueDelete(o) \/ \E c \in Contents : QueueWorkflow(o, c)
           \/ \E i \in DOMAIN device.queue, retry \in BOOLEAN : ResolveConflict(i, retry)
           \/ \E f \in Flushers : Flush(f) \/ ServePush(f) \/ LosePush(f) \/ TakeAnswer(f)
           \/ \E op \in late : ServeLate(op)
           \/ Disconnect \/ Crash
    PROVE  HubInv' /\ PullInv'
<1>0. OutcomeInv /\ TrueDevice(hub, device)
  BY DEF HubInv, OutcomeInv
<1> SUFFICES OutcomeInv' /\ HubGrows /\ SamePulls(device') /\ UNCHANGED homes /\ (puller' = puller \/ puller' = NoPull)
  <2>1. PullerFits' /\ PullInv'
    BY PullsGoOn
  <2> QED BY <2>1 DEF HubInv
<1>a. SamePulls(device)
  BY DEF SamePulls
<1>1. ASSUME NEW t \in Shared, NEW o, NEW c, OtherPush(t, o, c)
      PROVE  OutcomeInv' /\ HubGrows /\ SamePulls(device') /\ UNCHANGED homes /\ puller' = puller
  <2>1. t \in Tenants
    BY HubAssumption
  <2>2. UNCHANGED <<device, homes, puller>>
    BY <1>1 DEF OtherPush
  <2> QED BY <1>0, <1>1, <1>a, <2>1, <2>2, OtherPushKeeps DEF SamePulls
<1>2. ASSUME NEW o, NEW c, Enqueue(o, c)
      PROVE  OutcomeInv' /\ HubGrows /\ SamePulls(device') /\ UNCHANGED homes /\ puller' = puller
  <2>1. OutcomeInv' /\ HubGrows /\ UNCHANGED <<homes, puller>>
    BY <1>0, <1>2, EnqueueKeeps, StillGrows DEF Enqueue
  <2>2. device'.cursor = device.cursor /\ device'.inbox = device.inbox /\ device'.tenant = device.tenant
    BY <1>0, <1>2 DEF Enqueue, TrueDevice
  <2> QED BY <2>1, <2>2 DEF SamePulls
<1>3. ASSUME NEW i \in DOMAIN device.queue, NEW retry, ResolveConflict(i, retry)
      PROVE  OutcomeInv' /\ HubGrows /\ SamePulls(device') /\ UNCHANGED homes /\ puller' = puller
  <2>1. OutcomeInv' /\ HubGrows /\ UNCHANGED <<homes, puller>>
    BY <1>0, <1>3, ResolveKeeps, StillGrows DEF ResolveConflict
  <2>2. PICK q : device' = [device EXCEPT !.queue = q]
    BY <1>3 DEF ResolveConflict
  <2>3. device'.cursor = device.cursor /\ device'.inbox = device.inbox /\ device'.tenant = device.tenant
    BY <1>0, <2>2 DEF TrueDevice
  <2> QED BY <2>1, <2>3 DEF SamePulls
<1>4. ASSUME NEW f \in Flushers, Flush(f)
      PROVE  OutcomeInv' /\ HubGrows /\ SamePulls(device') /\ UNCHANGED homes /\ (puller' = puller \/ puller' = NoPull)
  <2>1. PICK writes : writes = <<device>>
    OBVIOUS
  <2>2. Len(writes) = 1 /\ writes[1] = device /\ Goes(f, writes, 1)
    BY <1>4, <2>1 DEF Flush
  <2>3. SamePulls(device') /\ UNCHANGED <<hub, homes>> /\ (puller' = puller \/ puller' = NoPull)
    BY <1>0, <1>a, <2>2, GoesSamePulls
  <2> QED BY <1>0, <1>4, <2>3, FlushKeeps, StillGrows
<1>5. ASSUME NEW f \in Flushers, ServePush(f)
      PROVE  OutcomeInv' /\ HubGrows /\ SamePulls(device') /\ UNCHANGED homes /\ puller' = puller
  <2>1. UNCHANGED <<device, homes, puller>>
    BY <1>5 DEF ServePush
  <2>2. PICK t, op : t = flush[f].to /\ op = device.queue[flush[f].at].op
    OBVIOUS
  <2>3. Push(t, op) /\ t \in Tenants
    BY <1>0, <1>5, <2>2 DEF ServePush, OutcomeInv, TrueFlushes, TrueFlush
  <2>4. HubGrows
    BY <1>0, <2>3, AnswerIsTrue DEF OutcomeInv
  <2> QED BY <1>0, <1>5, <1>a, <2>1, <2>4, ServePushKeeps DEF SamePulls
<1>6. ASSUME NEW f \in Flushers, LosePush(f)
      PROVE  OutcomeInv' /\ HubGrows /\ SamePulls(device') /\ UNCHANGED homes /\ puller' = puller
  <2>1. UNCHANGED <<hub, device, homes, puller>>
    BY <1>6 DEF LosePush
  <2> QED BY <1>0, <1>6, <1>a, <2>1, LosePushKeeps, StillGrows DEF SamePulls
<1>7. ASSUME NEW f \in Flushers, TakeAnswer(f)
      PROVE  OutcomeInv' /\ HubGrows /\ SamePulls(device') /\ UNCHANGED homes /\ (puller' = puller \/ puller' = NoPull)
  <2>1. PICK v, i, x : v = flush[f].verdict /\ i = flush[f].at /\ x = device.queue[i]
    OBVIOUS
  <2>2. PICK d1 : d1 = IF v.kind = "accepted" THEN [device EXCEPT !.catalog[x.op.object] = v.version] ELSE device
    OBVIOUS
  <2>3. PICK d2 : d2 = [d1 EXCEPT !.queue[i] = AfterAnswer(x, v)]
    OBVIOUS
  <2>4. PICK writes : writes = <<device, d1, d2>>
    OBVIOUS
  <2>5. Goes(f, writes, i + 1)
    BY <1>7, <2>1, <2>2, <2>3, <2>4 DEF TakeAnswer
  <2>6. DOMAIN d1 = DOMAIN device /\ d1.tenant = device.tenant /\ d1.cursor = device.cursor /\ d1.inbox = device.inbox
        /\ d1.queue = device.queue
    BY <1>0, <2>2 DEF TrueDevice
  <2>7. d2.tenant = d1.tenant /\ d2.cursor = d1.cursor /\ d2.inbox = d1.inbox
    BY <1>0, <2>3, <2>6 DEF TrueDevice
  <2>8. SamePulls(d1) /\ SamePulls(d2) /\ TrueDevice(hub, d1)
    BY <1>0, <2>6, <2>7 DEF SamePulls, TrueDevice
  <2>9. TrueDevice(hub, d2)
    <3>1. flush[f].phase = "answered"
      BY <1>7 DEF TakeAnswer
    <3>2. v = flush[f].verdict /\ i = flush[f].at /\ x = device.queue[i] /\ d1.queue = device.queue /\ TrueDevice(hub, d1)
      BY <2>1, <2>6, <2>8
    <3> QED BY <1>0, <2>3, <3>1, <3>2, WrittenIsTrue
  <2>10. Len(writes) = 3 /\ writes[2] = d1 /\ writes[3] = d2
    BY <2>4
  <2>11. \A n \in 2..3 : n = 2 \/ n = 3
    OBVIOUS
  <2>12. /\ TrueDevice(hub, writes[Len(writes)]) /\ SamePulls(writes[Len(writes)])
         /\ \A n \in 2..Len(writes) : TrueDevice(hub, writes[n]) /\ SamePulls(writes[n])
    BY <2>8, <2>9, <2>10, <2>11
  <2>13. SamePulls(device') /\ UNCHANGED <<hub, homes>> /\ (puller' = puller \/ puller' = NoPull)
    BY <1>0, <2>5, <2>12, GoesSamePulls
  <2> QED BY <1>0, <1>7, <2>13, TakeAnswerKeeps, StillGrows
<1>8. ASSUME NEW op \in late, ServeLate(op)
      PROVE  OutcomeInv' /\ HubGrows /\ SamePulls(device') /\ UNCHANGED homes /\ puller' = puller
  BY <1>0, <1>8, <1>a, ServeLateKeeps DEF ServeLate, SamePulls
<1>9. ASSUME Disconnect PROVE OutcomeInv' /\ HubGrows /\ SamePulls(device') /\ UNCHANGED homes /\ puller' = puller
  <2>1. UNCHANGED <<hub, homes, puller>>
    BY <1>9 DEF Disconnect
  <2>2. device'.cursor = device.cursor /\ device'.inbox = device.inbox /\ device'.tenant = Nobody
    BY <1>0, <1>9 DEF Disconnect, TrueDevice
  <2> QED BY <1>0, <1>9, <2>1, <2>2, ConnectionKeeps, StillGrows DEF SamePulls
<1>10. ASSUME Crash PROVE OutcomeInv' /\ HubGrows /\ SamePulls(device') /\ UNCHANGED homes /\ puller' = NoPull
  <2>1. PICK d : d = device
    OBVIOUS
  <2>2. StopsAt(d) /\ TrueDevice(hub, d)
    BY <1>0, <1>10, <2>1 DEF Crash
  <2>3. OutcomeInv'
    BY <1>0, <2>2, StopKeeps
  <2>4. UNCHANGED <<hub, homes>> /\ puller' = NoPull /\ device' = Recovered(d)
    BY <2>2 DEF StopsAt
  <2>5. SamePulls(device')
    BY <1>a, <2>1, <2>2, <2>4, RecoveredPulls DEF SamePulls
  <2> QED BY <1>0, <2>3, <2>4, <2>5, StillGrows
<1> QED BY <1>1, <1>2, <1>3, <1>4, <1>5, <1>6, <1>7, <1>8, <1>9, <1>10 DEF QueueDelete, QueueWorkflow

\* A page of a pull: what it holds, and that the versions up to the next cursor are among it.
LEMMA PageOf ==
    ASSUME NEW all, IsSequence(all), NEW cursor \in Nat, NEW to, to \in Nat, to <= Len(all),
           NEW next, next = IF cursor + 1 <= to THEN to ELSE cursor
    PROVE  /\ IsSequence(SubSeq(all, cursor + 1, to)) /\ next \in Nat
           /\ cursor <= Len(all) => Brings(all, cursor, SubSeq(all, cursor + 1, to), next)
<1> DEFINE S == {all[i] : i \in DOMAIN all}
           page == SubSeq(all, cursor + 1, to)
           n == IF cursor + 1 <= to THEN to - cursor ELSE 0
<1>1. Len(all) \in Nat /\ DOMAIN all = 1..Len(all)
  BY SequenceDomain
<1>2. \A i \in cursor + 1..to : all[i] \in S
  BY <1>1
<1> HIDE DEF S
<1>3. cursor + 1 \in Int /\ to \in Int
  OBVIOUS
<1>4. /\ page \in Seq(S) /\ Len(page) = IF cursor + 1 <= to THEN to - (cursor + 1) + 1 ELSE 0
      /\ \A i \in 1..to - (cursor + 1) + 1 : page[i] = all[cursor + 1 + i - 1]
  BY <1>2, <1>3, SubSeqProperties
<1> HIDE DEF page
<1>5. n \in Nat /\ Len(page) = n /\ DOMAIN page = 1..n /\ \A i \in 1..n : page[i] = all[cursor + i]
  BY <1>4
<1>6. page = [i \in 1..n |-> page[i]]
  BY <1>4, <1>5
<1>7. IsSequence(page)
  BY <1>5, <1>6, SequenceOf
<1>8. ASSUME cursor <= Len(all) PROVE Brings(all, cursor, page, next)
  <2>1. next \in cursor..Len(all)
    BY <1>1, <1>8
  <2>2. ASSUME NEW i \in cursor + 1..next PROVE \E k \in DOMAIN page : page[k] = all[i]
    <3>1. i - cursor \in 1..n /\ cursor + (i - cursor) = i
      BY <1>1, <2>2
    <3> QED BY <1>5, <3>1
  <2> QED BY <2>1, <2>2 DEF Brings
<1> QED BY <1>7, <1>8 DEF page

\* What the files hold while a page is stored.
LEMMA StoredAt ==
    ASSUME NEW all, NEW d, TrueDevice(all, d), NEW page, IsSequence(page), NEW next
    PROVE  /\ Len(Stored(d, page, next)) = Len(page) + 1 /\ Len(page) \in Nat
           /\ \A n \in 1..Len(page) + 1 :
                LET w == Stored(d, page, next)[n] IN
                /\ DOMAIN w = DOMAIN d /\ w.queue = d.queue /\ w.tenant = d.tenant /\ d.inbox \subseteq w.inbox
                /\ n <= Len(page) => w.cursor = d.cursor
                /\ n = Len(page) + 1 => w.cursor = next /\ \A k \in DOMAIN page : page[k] \in w.inbox
<1>1. Len(page) \in Nat /\ DOMAIN page = 1..Len(page)
  BY SequenceDomain
<1> DEFINE Cursor(n) == IF n > Len(page) THEN next ELSE d.cursor
           Inbox(n)  == d.inbox \cup {page[i] : i \in 1..IF n > Len(page) THEN Len(page) ELSE n}
           W(n)      == [d EXCEPT !.cursor = Cursor(n), !.inbox = Inbox(n)]
<1>2. Stored(d, page, next) = [n \in 1..Len(page) + 1 |-> W(n)]
  BY DEF Stored
<1>3. \A n \in 1..Len(page) + 1 : /\ DOMAIN W(n) = DOMAIN d /\ W(n).queue = d.queue /\ W(n).tenant = d.tenant
                                  /\ W(n).cursor = Cursor(n) /\ W(n).inbox = Inbox(n)
  BY DEF TrueDevice
<1>4. \A n \in 1..Len(page) + 1 : n = Len(page) + 1 => \A k \in DOMAIN page : page[k] \in Inbox(n)
  BY <1>1
<1>5. \A n \in 1..Len(page) + 1 : /\ d.inbox \subseteq Inbox(n) /\ (n <= Len(page) => Cursor(n) = d.cursor)
                                  /\ (n = Len(page) + 1 => Cursor(n) = next)
  BY <1>1
<1> HIDE DEF W, Cursor, Inbox
<1>6. \A n \in 1..Len(page) + 1 : Stored(d, page, next)[n] = W(n)
  BY <1>2
<1>7. Len(Stored(d, page, next)) = Len(page) + 1
  <2> DEFINE s == Stored(d, page, next)
  <2>1. s = [n \in 1..Len(page) + 1 |-> s[n]] /\ Len(page) + 1 \in Nat
    BY <1>1, <1>2
  <2> HIDE DEF s
  <2>2. Len(s) = Len(page) + 1
    BY <2>1, SequenceOf
  <2> QED BY <2>2 DEF s
<1> QED BY <1>1, <1>3, <1>4, <1>5, <1>6, <1>7

LEMMA TakePageKeeps == ASSUME HubInv, PullInv, TakePage PROVE HubInv' /\ PullInv'
<1>0. OutcomeInv /\ TrueDevice(hub, device) /\ PullerFits
  BY DEF HubInv, OutcomeInv
<1>1. PICK page, next : page = puller.page /\ next = puller.next
  OBVIOUS
<1>2. IsSequence(page) /\ next \in Nat /\ puller.phase = "answered" /\ puller.tenant \in Tenants \cap homes
  BY <1>0, <1>1 DEF TakePage, PullerFits, PullInv
<1>3. PICK writes : writes = Stored(device, page, next)
  OBVIOUS
<1>4. PICK m : m = Len(page)
  OBVIOUS
<1>5. PICK old : old = device
  OBVIOUS
<1>6. TrueDevice(hub, old)
  BY <1>0, <1>5
<1>7. /\ Len(writes) = m + 1 /\ m \in Nat
      /\ \A n \in 1..m + 1 :
           /\ DOMAIN writes[n] = DOMAIN old /\ writes[n].queue = old.queue /\ writes[n].tenant = old.tenant
           /\ old.inbox \subseteq writes[n].inbox
           /\ n <= m => writes[n].cursor = old.cursor
           /\ n = m + 1 => writes[n].cursor = next /\ \A k \in DOMAIN page : page[k] \in writes[n].inbox
  BY <1>2, <1>3, <1>4, <1>5, <1>6, StoredAt
<1>8. CASE \E n \in 1..Len(writes) - 1 : StopsAt(writes[n])
  <2>1. PICK n \in 1..Len(writes) - 1 : StopsAt(writes[n])
    BY <1>8
  <2>2. PICK d : d = writes[n]
    OBVIOUS
  <2>3. n \in 1..m + 1 /\ n <= m
    BY <1>7, <2>1
  <2>4. /\ DOMAIN d = DOMAIN device /\ d.queue = device.queue /\ d.tenant = device.tenant /\ d.cursor = device.cursor
        /\ device.inbox \subseteq d.inbox /\ StopsAt(d)
    BY <1>5, <1>7, <2>1, <2>2, <2>3
  <2>5. TrueDevice(hub, d) /\ OutcomeInv'
    BY <1>0, <2>4, PageKeeps
  <2>6. /\ device' = Recovered(d) /\ UNCHANGED <<hub, homes>> /\ puller' = NoPull
    BY <2>4 DEF StopsAt
  <2>7. device'.cursor = device.cursor /\ device'.tenant = device.tenant /\ device.inbox \subseteq device'.inbox
    BY <2>4, <2>5, <2>6, RecoveredPulls
  <2>8. PullerFits'
    BY <1>0, <2>6, <2>7 DEF PullerFits, NoPull
  <2>9. \A t \in Tenants : Pulled(hub[t].objects, device) => Pulled(hub[t].objects, device')
    BY <2>7 DEF Pulled
  <2>10. PullInv'
    BY <2>6, <2>7, <2>9 DEF PullInv, NoPull
  <2> QED BY <2>5, <2>8, <2>10 DEF HubInv
<1>9. CASE ~\E n \in 1..Len(writes) - 1 : StopsAt(writes[n])
  <2>1. PICK d : d = writes[Len(writes)]
    OBVIOUS
  <2>2. /\ device' = d /\ UNCHANGED <<hub, flush, late, homes>>
        /\ puller' = IF puller.more /\ d.tenant # Nobody THEN Asks(d, puller.tenant) ELSE NoPull
    BY <1>1, <1>3, <1>9, <2>1 DEF TakePage
  <2>3. m + 1 \in 1..m + 1
    BY <1>7
  <2>4. /\ DOMAIN d = DOMAIN device /\ d.queue = device.queue /\ d.tenant = device.tenant /\ d.cursor = next
        /\ device.inbox \subseteq d.inbox /\ \A k \in DOMAIN page : page[k] \in d.inbox
    BY <1>5, <1>7, <2>1, <2>3
  <2>5. OutcomeInv'
    BY <1>0, <2>2, <2>4, PageKeeps
  <2>6. /\ puller'.phase \in {"idle", "sent"} /\ DOMAIN puller' = {"phase", "tenant", "to", "page", "next", "more"}
        /\ puller'.phase # "idle" => puller'.tenant = puller.tenant
    BY <2>2 DEF Asks, NoPull
  <2>7. PullerFits'
    BY <1>2, <2>2, <2>4, <2>6 DEF PullerFits
  <2>8. ASSUME NEW t \in Tenants, homes = {t} PROVE Pulled(hub[t].objects, d)
    <3>1. Pulled(hub[t].objects, device) /\ Brings(hub[t].objects, device.cursor, page, next)
      BY <1>1, <1>2, <2>8 DEF PullInv
    <3>2. Len(hub[t].objects) \in Nat /\ device.cursor \in Nat
      BY <1>0, SequenceDomain DEF OutcomeInv, HubRemembers, Remembers, PullerFits
    <3>3. d.cursor \in 0..Len(hub[t].objects)
      BY <2>4, <3>1, <3>2 DEF Brings
    <3>4. ASSUME NEW i \in 1..d.cursor PROVE hub[t].objects[i] \in d.inbox
      <4>1. i \in 1..device.cursor \/ i \in device.cursor + 1..next
        BY <1>2, <2>4, <3>2
      <4>2. CASE i \in 1..device.cursor
        BY <2>4, <3>1, <4>2 DEF Pulled
      <4>3. CASE i \in device.cursor + 1..next
        BY <2>4, <3>1, <4>3 DEF Brings
      <4> QED BY <4>1, <4>2, <4>3
    <3> QED BY <3>3, <3>4 DEF Pulled
  <2>9. homes # {}
    BY <1>2
  <2>10. PullInv'
    BY <1>2, <2>2, <2>4, <2>6, <2>8, <2>9 DEF PullInv
  <2> QED BY <2>5, <2>7, <2>10 DEF HubInv
<1> QED BY <1>8, <1>9

LEMMA ConfigureKeeps == ASSUME HubInv, PullInv, NEW t \in Tenants, Configure(t) PROVE HubInv' /\ PullInv'
<1>0. OutcomeInv /\ OutcomeInv'
  BY ConnectionKeeps DEF HubInv
<1>1. /\ homes' = homes \cup {t} /\ UNCHANGED <<hub, puller>>
      /\ device'.tenant = t /\ device'.cursor = device.cursor /\ device'.inbox = device.inbox
  BY <1>0 DEF Configure, OutcomeInv, TrueDevice
<1>2. PullerFits'
  BY <1>1 DEF HubInv, PullerFits
<1>3. ASSUME NEW u \in Tenants, homes' = {u}
      PROVE  /\ Pulled(hub[u].objects, device')
             /\ puller.phase = "answered" => Brings(hub[u].objects, device.cursor, puller.page, puller.next)
  <2>1. CASE homes = {}
    <3>1. device.cursor = 0 /\ puller.phase # "answered"
      BY <2>1 DEF PullInv
    <3>2. Len(hub[u].objects) \in Nat
      BY <1>0, SequenceDomain DEF OutcomeInv, HubRemembers, Remembers
    <3> QED BY <1>1, <3>1, <3>2 DEF Pulled
  <2>2. CASE homes = {u}
    BY <1>1, <2>2 DEF PullInv, Pulled
  <2> QED BY <1>1, <1>3, <2>1, <2>2
<1>4. PullInv'
  BY <1>1, <1>3 DEF PullInv
<1> QED BY <1>0, <1>2, <1>4 DEF HubInv

LEMMA AskKeeps == ASSUME HubInv, PullInv, Pull \/ FailPull PROVE HubInv' /\ PullInv'
<1>1. UNCHANGED <<hub, device, flush, late, homes>> /\ (puller' = NoPull \/ (puller' = Asks(device, device.tenant) /\ device.tenant # Nobody))
  BY DEF Pull, FailPull
<1>2. /\ puller'.phase \in {"idle", "sent"} /\ DOMAIN puller' = {"phase", "tenant", "to", "page", "next", "more"}
      /\ puller'.phase # "idle" => puller'.tenant = device.tenant /\ device.tenant # Nobody
  <2>1. PICK a, t : a = Asks(device, t) /\ t = device.tenant
    OBVIOUS
  <2>2. a.phase = "sent" /\ a.tenant = t /\ DOMAIN a = {"phase", "tenant", "to", "page", "next", "more"}
    BY <2>1 DEF Asks, NoPull
  <2>3. NoPull.phase = "idle" /\ DOMAIN NoPull = {"phase", "tenant", "to", "page", "next", "more"}
    BY DEF NoPull
  <2> QED BY <1>1, <2>1, <2>2, <2>3
<1>3. device.tenant \in Tenants \cup {Nobody}
  BY DEF HubInv, OutcomeInv, TrueDevice
<1>4. OutcomeInv'
  BY <1>1 DEF HubInv, OutcomeInv, HubRemembers, TrueFlushes, LateFits
<1>5. PullerFits'
  BY <1>1, <1>2, <1>3 DEF HubInv, PullerFits
<1>6. PullInv'
  BY <1>1, <1>2 DEF PullInv
<1> QED BY <1>4, <1>5, <1>6 DEF HubInv

LEMMA ServePullKeeps == ASSUME HubInv, PullInv, ServePull PROVE HubInv' /\ PullInv'
<1>0. OutcomeInv /\ PullerFits
  BY DEF HubInv
<1>1. PICK t \in Tenants \cap homes : t = puller.to /\ puller.tenant = t /\ puller.phase = "sent"
  BY <1>0 DEF PullerFits, PullInv, ServePull
<1>2. PICK all, cursor : all = hub[t].objects /\ cursor = device.cursor
  OBVIOUS
<1>3. PICK to : to = IF cursor + PageLimit < Len(all) THEN cursor + PageLimit ELSE Len(all)
  OBVIOUS
<1>4. PICK page : page = SubSeq(all, cursor + 1, to)
  OBVIOUS
<1>5. PICK next : next = IF cursor + 1 <= to THEN to ELSE cursor
  OBVIOUS
<1>6. /\ puller' = [puller EXCEPT !.phase = "answered", !.page = page, !.next = next, !.more = to < Len(all)]
      /\ UNCHANGED <<hub, device, flush, late, homes>>
  BY <1>1, <1>2, <1>3, <1>4, <1>5 DEF ServePull
<1>7. IsSequence(all) /\ Len(all) \in Nat /\ cursor \in Nat
  BY <1>0, <1>2, SequenceDomain DEF OutcomeInv, HubRemembers, Remembers, PullerFits
<1>8. to \in Nat /\ to <= Len(all)
  BY <1>3, <1>7, HubAssumption
<1>9. IsSequence(page) /\ next \in Nat /\ (cursor <= Len(all) => Brings(all, cursor, page, next))
  BY <1>4, <1>5, <1>7, <1>8, PageOf
<1>10. /\ DOMAIN puller' = DOMAIN puller /\ puller'.phase = "answered" /\ puller'.page = page /\ puller'.next = next
       /\ puller'.tenant = puller.tenant
  BY <1>0, <1>6 DEF PullerFits
<1>11. OutcomeInv'
  BY <1>0, <1>6 DEF OutcomeInv, HubRemembers, TrueFlushes, LateFits
<1>12. PullerFits'
  BY <1>0, <1>1, <1>6, <1>9, <1>10 DEF PullerFits
<1>13. ASSUME NEW u \in Tenants, homes = {u} PROVE Brings(hub[u].objects, device.cursor, page, next)
  <2>1. u = t /\ Pulled(all, device)
    BY <1>1, <1>2, <1>13 DEF PullInv
  <2>2. cursor <= Len(all)
    BY <1>2, <1>7, <2>1 DEF Pulled
  <2> QED BY <1>2, <1>9, <2>1, <2>2
<1>14. PullInv'
  BY <1>1, <1>6, <1>10, <1>13 DEF PullInv
<1> QED BY <1>11, <1>12, <1>14 DEF HubInv

LEMMA HubStarts == ASSUME HubInit PROVE HubInv /\ PullInv
<1>1. PullerFits
  BY DEF HubInit, PullerFits, NoPull
<1>2. PullInv
  BY DEF HubInit, PullInv, NoPull
<1> QED BY <1>1, <1>2, OutcomeStarts DEF HubInv

LEMMA HubStep == ASSUME HubInv, PullInv, [HubNext]_hubVars PROVE HubInv' /\ PullInv'
<1>1. CASE UNCHANGED hubVars
  <2>1. OutcomeInv'
    BY <1>1 DEF hubVars, HubInv, OutcomeInv, HubRemembers, TrueFlushes, LateFits
  <2>2. PullerFits' /\ PullInv'
    BY <1>1 DEF hubVars, HubInv, PullerFits, PullInv
  <2> QED BY <2>1, <2>2 DEF HubInv
<1>2. CASE \E t \in Tenants : Configure(t)
  BY <1>2, ConfigureKeeps
<1>3. CASE TakePage
  BY <1>3, TakePageKeeps
<1>4. CASE Pull \/ FailPull
  BY <1>4, AskKeeps
<1>5. CASE ServePull
  BY <1>5, ServePullKeeps
<1>6. CASE \/ \E t \in Shared, o \in Objects, c \in Bodies : OtherPush(t, o, c)
           \/ \E o \in Objects : QueueDelete(o) \/ \E c \in Contents : QueueWorkflow(o, c)
           \/ \E i \in DOMAIN device.queue, retry \in BOOLEAN : ResolveConflict(i, retry)
           \/ \E f \in Flushers : Flush(f) \/ ServePush(f) \/ LosePush(f) \/ TakeAnswer(f)
           \/ \E op \in late : ServeLate(op)
           \/ Disconnect \/ Crash
  BY <1>6, PushesKeep
<1> QED BY <1>1, <1>2, <1>3, <1>4, <1>5, <1>6 DEF HubNext, PushNext, PullNext

LEMMA HubHolds == HubSpec => [](HubInv /\ PullInv)
<1>1. HubInit => HubInv /\ PullInv
  BY HubStarts
<1>2. (HubInv /\ PullInv) /\ [HubNext]_hubVars => (HubInv /\ PullInv)'
  BY HubStep
<1> QED BY <1>1, <1>2, PTL DEF HubSpec

\* What the queue of a device says of an item is so (HubSync.OutcomeIsTrue): one that succeeded is held by the Hub,
\* and one in conflict, or given up for the remote version, is not; whatever flush, answer, retry or stop comes
\* between, for any tenants and any number of flushes at once.
THEOREM OutcomesAreTrue == HubSpec => []OutcomeIsTrue
<1>1. HubInv => OutcomeIsTrue
  <2> SUFFICES ASSUME HubInv, NEW i \in DOMAIN device.queue, NEW x, x = device.queue[i]
               PROVE  /\ x.status = "succeeded" => HeldBy(x.op)
                      /\ x.status \in {"conflict", "discarded"} => ~HeldBy(x.op)
    BY DEF OutcomeIsTrue
  <2>1. TrueItem(hub, x) /\ Remembers(hub[x.op.tenant])
    BY DEF HubInv, OutcomeInv, TrueDevice, TrueItem, HubRemembers
  <2>2. HeldBy(x.op) <=> AcceptedIn(hub[x.op.tenant], x.op.id)
    BY DEF HeldBy, AcceptedIn
  <2>3. ResultIn(hub[x.op.tenant], x.op.id, "conflict") => ~AcceptedIn(hub[x.op.tenant], x.op.id)
    BY <2>1 DEF Remembers, ResultIn
  <2> QED BY <2>1, <2>2, <2>3 DEF TrueItem
<1> QED BY <1>1, HubHolds, PTL

\* A device of one tenant has, up to its cursor, every version the Hub holds (HubSync.PullMissesNothing): a page, a
\* version that comes meanwhile and a stop in the middle of a page skip none.
THEOREM PullsMissNothing == HubSpec => []PullMissesNothing
<1>1. PullInv => PullMissesNothing
  BY DEF PullInv, PullMissesNothing, Pulled
<1> QED BY <1>1, HubHolds, PTL

-----------------------------------------------------------------------------
(***************************************************************************)
(* The types and limits of HubSync.  The version the Hub gives to an       *)
(* object is never above its place in the history, so that no version,     *)
(* and none the device was told, passes the limit; no item counts more     *)
(* attempts than it has, as one without any left ends the flush.           *)
(***************************************************************************)

\* Some numbers up to a limit have a last one.
LEMMA LastOf ==
    ASSUME NEW n \in Nat, NEW S, S \subseteq 1..n, S # {}
    PROVE  \E i \in S : \A j \in S : j <= i
<1> DEFINE T == {n - i : i \in S}
           R == {ss \in Nat \X Nat : ss[1] < ss[2]}
<1>1. T \subseteq Nat
  BY DEF T
<1>2. T # {}
  BY DEF T
<1>3. IsWellFoundedOn(R, Nat)
  BY NatLessThanWellFounded, Zenon DEF OpToRel
<1> HIDE DEF R, T
<1>4. PICK x \in T : \A y \in T : <<y, x>> \notin R
  BY <1>1, <1>2, <1>3, WFMin
<1>5. \A y \in Nat : y < x => <<y, x>> \in R
  BY <1>1, <1>4 DEF R
<1>6. PICK i \in S : x = n - i
  BY <1>4 DEF T
<1>7. ASSUME NEW j \in S PROVE j <= i
  <2>1. n - j \in T /\ n - j \in Nat
    BY DEF T
  <2>2. ~ (n - j < x)
    BY <1>4, <1>5, <2>1
  <2> QED BY <1>6, <2>2
<1> QED BY <1>7

\* What the Hub keeps of a tenant.
HeldTyped(h) ==
    /\ Len(h.objects) <= MaxVersions
    /\ IsFiniteSet(h.results) /\ Cardinality(h.results) <= MaxOperations
    /\ \A i \in DOMAIN h.objects : h.objects[i].version \in 1..i
    /\ \A r \in h.results : r.verdict.version \in 0..MaxVersions
HubTyped == \A t \in Tenants : HeldTyped(hub[t])

ItemHasType(x) ==
    /\ x.status \in QueueStatuses /\ x.attempts \in 0..MaxAttempts
    /\ x.op.object \in Objects /\ x.op.content \in Bodies
DeviceTyped(d) ==
    /\ d.catalog \in [Objects -> 0..MaxVersions]
    /\ \A i \in DOMAIN d.queue : ItemHasType(d.queue[i])
FlushTyped(y) == y.verdict.version \in 0..MaxVersions /\ (y.phase = "idle" => y.at = 0)
HubBounds == HubTyped /\ DeviceTyped(device) /\ \A f \in Flushers : FlushTyped(flush[f])

LEMMA CurrentBounded ==
    ASSUME HubRemembers, HubTyped, NEW t \in Tenants, NEW o
    PROVE  Current(t, o) \in 0..Len(hub[t].objects) /\ Len(hub[t].objects) \in 0..MaxVersions
<1> DEFINE n == Len(hub[t].objects)
           S == HeldVersions(t, o)
<1>1. n \in Nat /\ DOMAIN hub[t].objects = 1..n
  BY SequenceDomain DEF HubRemembers, Remembers
<1>2. n <= MaxVersions /\ \A i \in 1..n : hub[t].objects[i].version \in 1..i
  BY <1>1 DEF HubTyped, HeldTyped
<1>3. n \in 0..MaxVersions
  BY <1>1, <1>2, HubAssumption
<1>4. CASE S = {}
  BY <1>1, <1>3, <1>4 DEF Current
<1>5. CASE S # {}
  <2>1. S \subseteq 1..n
    BY <1>1 DEF HeldVersions
  <2> DEFINE last == CHOOSE i \in S : \A j \in S : j <= i
  <2>2. last \in S
    <3> HIDE DEF S, n
    <3>1. \E i \in S : \A j \in S : j <= i
      BY <1>1, <1>5, <2>1, LastOf
    <3> QED BY <3>1
  <2>3. Current(t, o) = hub[t].objects[last].version
    BY <1>5 DEF Current
  <2> HIDE DEF last
  <2>4. last \in 1..n
    BY <2>1, <2>2
  <2>5. hub[t].objects[last].version \in 1..last
    BY <1>2, <2>4
  <2> QED BY <1>1, <1>3, <2>3, <2>4, <2>5
<1> QED BY <1>4, <1>5

\* One result more, and one version more if it is accepted.
LEMMA HeldMore ==
    ASSUME NEW h, IsSequence(h.objects), HeldTyped(h), NEW new, new.verdict.version \in 0..MaxVersions,
           Cardinality(h.results) < MaxOperations, NEW object,
           NEW g, g.results = h.results \cup {new},
           \/ g.objects = h.objects
           \/ /\ g.objects = Append(h.objects, object) /\ Len(h.objects) < MaxVersions
              /\ object.version \in 1..Len(h.objects) + 1
    PROVE  HeldTyped(g)
<1>1. IsFiniteSet(h.results) /\ Cardinality(h.results) \in Nat
  BY FS_CardinalityType DEF HeldTyped
<1>2. /\ IsFiniteSet(h.results \cup {new})
      /\ Cardinality(h.results \cup {new}) = IF new \in h.results THEN Cardinality(h.results) ELSE Cardinality(h.results) + 1
  BY <1>1, FS_AddElement
<1>3. IsFiniteSet(g.results) /\ Cardinality(g.results) <= MaxOperations
  BY <1>1, <1>2, HubAssumption
<1>4. \A r \in g.results : r.verdict.version \in 0..MaxVersions
  BY DEF HeldTyped
<1>5. CASE g.objects = h.objects
  BY <1>3, <1>4, <1>5 DEF HeldTyped
<1>6. CASE /\ g.objects = Append(h.objects, object) /\ Len(h.objects) < MaxVersions
           /\ object.version \in 1..Len(h.objects) + 1
  <2>1. Len(h.objects) \in Nat /\ DOMAIN h.objects = 1..Len(h.objects)
    BY SequenceDomain
  <2>2. /\ Len(g.objects) = Len(h.objects) + 1 /\ DOMAIN g.objects = 1..(Len(h.objects) + 1)
        /\ \A i \in 1..Len(h.objects) : g.objects[i] = h.objects[i]
        /\ g.objects[Len(h.objects) + 1] = object
    BY <1>6, AppendedTo
  <2>3. ASSUME NEW i \in DOMAIN g.objects PROVE g.objects[i].version \in 1..i
    <3>1. CASE i = Len(h.objects) + 1
      BY <1>6, <2>2, <3>1
    <3>2. CASE i \in 1..Len(h.objects)
      BY <2>1, <2>2, <3>2 DEF HeldTyped
    <3> QED BY <2>1, <2>2, <3>1, <3>2
  <2>4. Len(g.objects) <= MaxVersions
    BY <1>6, <2>1, <2>2, HubAssumption
  <2> QED BY <1>3, <1>4, <2>3, <2>4 DEF HeldTyped
<1> QED BY <1>5, <1>6

\* A result the Hub may add.
MayAdd(t, op, v) ==
    /\ v.version \in 0..MaxVersions
    /\ v # Error /\ Prior(t, op) = {} =>
         /\ Cardinality(hub[t].results) < MaxOperations
         /\ v.kind # "conflict" => Len(hub[t].objects) < MaxVersions /\ v.version \in 1..Len(hub[t].objects) + 1

LEMMA HubAddsTyped ==
    ASSUME HubRemembers, HubTyped, NEW t \in Tenants, NEW op, NEW v, MayAdd(t, op, v), hub' = HubAfter(t, op, v)
    PROVE  HubTyped'
<1>1. CASE v = Error \/ Prior(t, op) # {}
  <2>1. hub' = hub
    BY <1>1 DEF HubAfter
  <2> QED BY <2>1 DEF HubTyped
<1>2. CASE v # Error /\ Prior(t, op) = {}
  <2> DEFINE new == [id |-> op.id, verdict |-> v]
             object == [id |-> op.id, object |-> op.object, version |-> v.version, content |-> op.content]
             objects == IF v.kind = "conflict" THEN hub[t].objects ELSE Append(hub[t].objects, object)
  <2>1. hub' = [hub EXCEPT ![t].results = @ \cup {new}, ![t].objects = objects]
    BY <1>2 DEF HubAfter
  <2>2. new.verdict = v /\ object.version = v.version
    OBVIOUS
  <2> HIDE DEF new, object, objects
  <2>3. /\ \A u \in Tenants : u # t => hub'[u] = hub[u]
        /\ hub'[t].results = hub[t].results \cup {new} /\ hub'[t].objects = objects
    BY <2>1 DEF HubRemembers, Remembers
  <2> DEFINE h == hub[t]
             g == hub'[t]
  <2>4. /\ IsSequence(h.objects) /\ HeldTyped(h) /\ new.verdict.version \in 0..MaxVersions
        /\ Cardinality(h.results) < MaxOperations /\ g.results = h.results \cup {new}
        /\ \/ g.objects = h.objects
           \/ /\ g.objects = Append(h.objects, object) /\ Len(h.objects) < MaxVersions
              /\ object.version \in 1..Len(h.objects) + 1
    BY <1>2, <2>2, <2>3 DEF HubRemembers, Remembers, HubTyped, MayAdd, objects
  <2> HIDE DEF h, g
  <2>5. HeldTyped(g)
    BY <2>4, HeldMore
  <2> QED BY <2>3, <2>5 DEF HubTyped, g
<1> QED BY <1>1, <1>2

LEMMA VerdictMayAdd ==
    ASSUME HubRemembers, HubTyped, NEW t \in Tenants, NEW op
    PROVE  MayAdd(t, op, Verdict(t, op))
<1> DEFINE v == Verdict(t, op)
           now == Current(t, op.object)
<1>1. now \in 0..Len(hub[t].objects) /\ Len(hub[t].objects) \in 0..MaxVersions
  BY CurrentBounded
<1>2. CASE v = Error
  <2>1. Error.version = 0 /\ 0 \in 0..MaxVersions
    BY HubAssumption DEF Error
  <2> HIDE DEF v
  <2> QED BY <1>2, <2>1 DEF MayAdd, v
<1>3. CASE op.tenant = t /\ Prior(t, op) # {}
  <2>1. PICK r \in hub[t].results : v = r.verdict
    BY <1>3 DEF Verdict, Prior
  <2>2. v.version \in 0..MaxVersions
    BY <2>1 DEF HubTyped, HeldTyped
  <2> QED BY <1>3, <2>2 DEF MayAdd
<1>4. CASE v # Error /\ Prior(t, op) = {}
  <2>1. /\ op.tenant = t /\ ~(Cardinality(hub[t].results) >= MaxOperations)
        /\ \/ now # op.base /\ v = [kind |-> "conflict", version |-> now]
           \/ now = op.base /\ ~(Len(hub[t].objects) >= MaxVersions) /\ v = [kind |-> "accepted", version |-> op.base + 1]
    BY <1>4 DEF Verdict
  <2>2. Cardinality(hub[t].results) \in Nat
    BY FS_CardinalityType DEF HubTyped, HeldTyped
  <2>3. Cardinality(hub[t].results) < MaxOperations
    BY <2>1, <2>2, HubAssumption
  <2> HIDE DEF v, now
  <2>4. CASE v = [kind |-> "conflict", version |-> now]
    <3>1. v.kind = "conflict" /\ v.version = now
      BY <2>4
    <3> QED BY <1>1, <2>3, <3>1, HubAssumption DEF MayAdd, v
  <2>5. CASE now = op.base /\ ~(Len(hub[t].objects) >= MaxVersions) /\ v = [kind |-> "accepted", version |-> op.base + 1]
    <3>1. v.kind = "accepted" /\ v.version = now + 1
      BY <2>5
    <3>2. Len(hub[t].objects) < MaxVersions
      BY <1>1, <2>5, HubAssumption
    <3>3. v.version \in 0..MaxVersions /\ v.version \in 1..Len(hub[t].objects) + 1
      BY <1>1, <3>1, <3>2, HubAssumption
    <3> QED BY <2>3, <3>2, <3>3 DEF MayAdd, v
  <2> QED BY <2>1, <2>4, <2>5
<1> QED BY <1>2, <1>3, <1>4 DEF Verdict

LEMMA RecoveredTyped ==
    ASSUME NEW all, NEW d, TrueDevice(all, d), DeviceTyped(d) PROVE DeviceTyped(Recovered(d))
<1> DEFINE Back(x) == [x EXCEPT !.status = "pending"]
           queue == [i \in DOMAIN d.queue |-> IF d.queue[i].status = "syncing" THEN Back(d.queue[i]) ELSE d.queue[i]]
<1>1. ASSUME NEW x, TrueItem(all, x), ItemHasType(x) PROVE ItemHasType(Back(x))
  <2>1. Back(x).op = x.op /\ Back(x).status = "pending" /\ Back(x).attempts = x.attempts
    BY <1>1 DEF TrueItem
  <2> HIDE DEF Back
  <2> QED BY <1>1, <2>1 DEF ItemHasType, QueueStatuses
<1> HIDE DEF Back
<1>2. \A i \in DOMAIN queue : ItemHasType(queue[i])
  BY <1>1 DEF TrueDevice, DeviceTyped
<1>3. Recovered(d).queue = queue /\ Recovered(d).catalog = d.catalog
  BY DEF Recovered, TrueDevice, Back
<1> HIDE DEF queue
<1> QED BY <1>2, <1>3 DEF DeviceTyped

LEMMA StopTyped ==
    ASSUME OutcomeInv, HubBounds, NEW d, TrueDevice(hub, d), DeviceTyped(d), StopsAt(d) PROVE HubBounds'
<1>1. DeviceTyped(Recovered(d))
  BY RecoveredTyped
<1>2. device' = Recovered(d) /\ UNCHANGED hub /\ flush' = [f \in Flushers |-> NoFlush]
  BY DEF StopsAt
<1>3. FlushTyped(NoFlush)
  BY HubAssumption DEF FlushTyped, NoFlush, Error
<1>4. \A f \in Flushers : FlushTyped(flush'[f])
  BY <1>2, <1>3
<1> QED BY <1>1, <1>2, <1>4 DEF HubBounds, HubTyped

\* An item that is due has an attempt left, or the flush ends.
LEMMA GoesTyped ==
    ASSUME OutcomeInv, HubBounds, NEW f \in Flushers, NEW writes, NEW i \in Nat \ {0}, Goes(f, writes, i),
           NEW last, last = writes[Len(writes)], TrueDevice(hub, last), DeviceTyped(last),
           \A n \in 2..Len(writes) - 1 : TrueDevice(hub, writes[n]) /\ DeviceTyped(writes[n])
    PROVE  HubBounds'
<1>0. FlushTyped(NoFlush) /\ Error.version = 0 /\ 0 \in 0..MaxVersions
  BY HubAssumption DEF FlushTyped, NoFlush, Error
<1>1. CASE \E n \in 2..Len(writes) - 1 : StopsAt(writes[n])
  <2>1. PICK n \in 2..Len(writes) - 1 : StopsAt(writes[n])
    BY <1>1
  <2>2. PICK d : d = writes[n]
    OBVIOUS
  <2>3. TrueDevice(hub, d) /\ DeviceTyped(d) /\ StopsAt(d)
    BY <2>1, <2>2
  <2> QED BY <2>3, StopTyped
<1>2. ASSUME NEW j \in NextDue(last, i),
             device' = IF j = 0 THEN last ELSE Syncing(last, j),
             flush' = [flush EXCEPT ![f] = IF j = 0 THEN NoFlush
                            ELSE [phase |-> IF last.tenant = Nobody THEN "answered" ELSE "sent", at |-> j,
                                  to |-> last.tenant, verdict |-> Error]],
             UNCHANGED hub
      PROVE  HubBounds'
  <2>1. HubTyped' /\ \A g \in Flushers : g # f => FlushTyped(flush'[g])
    BY <1>2 DEF HubBounds, HubTyped
  <2>2. CASE j = 0
    <3>1. device' = last /\ flush'[f] = NoFlush
      BY <1>2, <2>2 DEF OutcomeInv, TrueFlushes
    <3> QED BY <1>0, <2>1, <3>1 DEF HubBounds
  <2>3. CASE j # 0
    <3> DEFINE x == last.queue[j]
               y == Attempted(x)
               q == [last.queue EXCEPT ![j] = y]
               d == [last EXCEPT !.queue = q]
               z == [phase |-> IF last.tenant = Nobody THEN "answered" ELSE "sent", at |-> j,
                     to |-> last.tenant, verdict |-> Error]
    <3>1. j \in i..Len(last.queue) /\ x.attempts # MaxAttempts
      BY <2>3 DEF NextDue
    <3>2. j \in DOMAIN last.queue
      <4>1. Len(last.queue) \in Nat /\ DOMAIN last.queue = 1..Len(last.queue)
        BY SequenceDomain DEF TrueDevice
      <4> QED BY <3>1, <4>1
    <3>3. device' = d /\ flush'[f] = z
      BY <1>2, <2>3 DEF Syncing, OutcomeInv, TrueFlushes
    <3>4. TrueItem(hub, x) /\ ItemHasType(x)
      BY <3>2 DEF TrueDevice, DeviceTyped
    <3>5. y.op = x.op /\ y.status = "syncing" /\ y.attempts = x.attempts + 1
      BY <3>4 DEF TrueItem, Attempted
    <3> HIDE DEF y
    <3>6. ItemHasType(y)
      BY <3>1, <3>4, <3>5, HubAssumption DEF ItemHasType, QueueStatuses
    <3> HIDE DEF x
    <3>7. \A k \in DOMAIN q : k \in DOMAIN last.queue /\ (q[k] = y \/ q[k] = last.queue[k])
      OBVIOUS
    <3> HIDE DEF q
    <3>8. d.queue = q /\ d.catalog = last.catalog
      BY DEF TrueDevice
    <3> HIDE DEF d
    <3>9. DeviceTyped(d)
      BY <3>6, <3>7, <3>8 DEF DeviceTyped
    <3>10. z.verdict = Error /\ z.phase # "idle"
      OBVIOUS
    <3> HIDE DEF z
    <3>11. FlushTyped(z)
      BY <1>0, <3>10 DEF FlushTyped
    <3> QED BY <2>1, <3>3, <3>9, <3>11 DEF HubBounds
  <2> QED BY <2>2, <2>3
<1> QED BY <1>1, <1>2 DEF Goes

LEMMA EnqueueTyped ==
    ASSUME OutcomeInv, HubBounds, NEW o \in Objects, NEW c \in Bodies, Enqueue(o, c) PROVE HubBounds'
<1> DEFINE op == [id |-> <<Len(device.queue) + 1, 0>>, tenant |-> device.tenant, object |-> o,
                  base |-> device.catalog[o], content |-> c]
           x == [op |-> op, status |-> "pending", attempts |-> 0, current |-> 0]
           q == Append(device.queue, x)
           d == [device EXCEPT !.queue = q]
<1>1. device' = d /\ UNCHANGED <<hub, flush>>
  BY DEF Enqueue
<1>2. x.status = "pending" /\ x.attempts = 0 /\ x.op.object = o /\ x.op.content = c
  OBVIOUS
<1> HIDE DEF x
<1>3. ItemHasType(x)
  BY <1>2, HubAssumption DEF ItemHasType, QueueStatuses
<1>4. IsSequence(device.queue) /\ Len(device.queue) \in Nat /\ DOMAIN device.queue = 1..Len(device.queue)
  BY SequenceDomain DEF OutcomeInv, TrueDevice
<1>5. /\ DOMAIN q = 1..(Len(device.queue) + 1)
      /\ \A i \in 1..Len(device.queue) : q[i] = device.queue[i]
      /\ q[Len(device.queue) + 1] = x
  BY <1>4, AppendedTo
<1> HIDE DEF q
<1>6. d.queue = q /\ d.catalog = device.catalog
  BY DEF OutcomeInv, TrueDevice
<1> HIDE DEF d
<1>7. \A i \in DOMAIN q : i \in DOMAIN device.queue \/ i = Len(device.queue) + 1
  BY <1>4, <1>5
<1>8. \A i \in DOMAIN q : ItemHasType(q[i])
  BY <1>3, <1>4, <1>5, <1>7 DEF HubBounds, DeviceTyped
<1>9. DeviceTyped(d)
  BY <1>6, <1>8 DEF HubBounds, DeviceTyped
<1> QED BY <1>1, <1>9 DEF HubBounds, HubTyped

LEMMA ResolveTyped ==
    ASSUME OutcomeInv, HubBounds, NEW i \in DOMAIN device.queue, NEW retry, ResolveConflict(i, retry) PROVE HubBounds'
<1> DEFINE x  == device.queue[i]
           op == [x.op EXCEPT !.id = <<@[1], @[2] + 1>>, !.base = x.current]
           again == [op |-> op, status |-> "pending", attempts |-> 0, current |-> 0]
           given == [x EXCEPT !.status = "discarded"]
           y  == IF retry THEN again ELSE given
           q  == [device.queue EXCEPT ![i] = y]
           d  == [device EXCEPT !.queue = q]
<1>1. device' = d /\ UNCHANGED <<hub, flush>>
  BY DEF ResolveConflict
<1>2. TrueItem(hub, x) /\ ItemHasType(x)
  BY DEF OutcomeInv, TrueDevice, HubBounds, DeviceTyped
<1>3. op.object = x.op.object /\ op.content = x.op.content
  BY <1>2 DEF TrueItem
<1> HIDE DEF op
<1>4. again.op = op /\ again.status = "pending" /\ again.attempts = 0
  OBVIOUS
<1>5. given.op = x.op /\ given.status = "discarded" /\ given.attempts = x.attempts
  BY <1>2 DEF TrueItem
<1> HIDE DEF again, given
<1>6. ItemHasType(again) /\ ItemHasType(given)
  BY <1>2, <1>3, <1>4, <1>5, HubAssumption DEF ItemHasType, QueueStatuses
<1>7. ItemHasType(y)
  BY <1>6
<1> HIDE DEF y
<1>8. \A k \in DOMAIN q : k \in DOMAIN device.queue /\ (q[k] = y \/ q[k] = device.queue[k])
  OBVIOUS
<1> HIDE DEF q
<1>9. d.queue = q /\ d.catalog = device.catalog
  BY DEF OutcomeInv, TrueDevice
<1> HIDE DEF d
<1>10. DeviceTyped(d)
  BY <1>7, <1>8, <1>9 DEF HubBounds, DeviceTyped
<1> QED BY <1>1, <1>10 DEF HubBounds, HubTyped

\* An answer, or the lack of one, at a flush that waits for it.
LEMMA AnsweredTyped ==
    ASSUME OutcomeInv, HubBounds, NEW f \in Flushers, NEW v, v.version \in 0..MaxVersions,
           flush' = [flush EXCEPT ![f] = Answered(flush[f], v)], UNCHANGED device, HubTyped'
    PROVE  HubBounds'
<1> DEFINE z == Answered(flush[f], v)
<1>1. z.verdict = v /\ z.phase = "answered"
  BY DEF Answered, OutcomeInv, TrueFlushes, TrueFlush
<1> HIDE DEF z
<1>2. FlushTyped(z)
  BY <1>1 DEF FlushTyped
<1>3. \A g \in Flushers : flush'[g] = z \/ flush'[g] = flush[g]
  BY DEF OutcomeInv, TrueFlushes, z
<1>4. \A g \in Flushers : FlushTyped(flush'[g])
  BY <1>2, <1>3 DEF HubBounds
<1> QED BY <1>4 DEF HubBounds

LEMMA PushTyped ==
    ASSUME OutcomeInv, HubBounds, NEW t \in Tenants, NEW op, Push(t, op)
    PROVE  HubTyped' /\ Verdict(t, op).version \in 0..MaxVersions
<1>1. PICK v : v = Verdict(t, op)
  OBVIOUS
<1>2. MayAdd(t, op, v) /\ hub' = HubAfter(t, op, v)
  BY <1>1, VerdictMayAdd DEF OutcomeInv, HubBounds, Push
<1>3. HubTyped'
  BY <1>2, HubAddsTyped DEF OutcomeInv, HubBounds
<1> QED BY <1>1, <1>2, <1>3 DEF MayAdd

LEMMA ServePushTyped == ASSUME OutcomeInv, HubBounds, NEW f \in Flushers, ServePush(f) PROVE HubBounds'
<1>1. PICK t, op : t = flush[f].to /\ op = device.queue[flush[f].at].op
  OBVIOUS
<1>2. PICK v : v = Verdict(t, op)
  OBVIOUS
<1>3. t \in Tenants /\ Push(t, op)
  BY <1>1 DEF OutcomeInv, TrueFlushes, TrueFlush, ServePush
<1>4. HubTyped' /\ v.version \in 0..MaxVersions
  BY <1>2, <1>3, PushTyped
<1>5. flush' = [flush EXCEPT ![f] = Answered(flush[f], v)] /\ UNCHANGED device
  BY <1>1, <1>2 DEF ServePush, Answered, OutcomeInv, TrueFlushes
<1> QED BY <1>4, <1>5, AnsweredTyped

LEMMA LosePushTyped == ASSUME OutcomeInv, HubBounds, NEW f \in Flushers, LosePush(f) PROVE HubBounds'
<1>1. flush' = [flush EXCEPT ![f] = Answered(flush[f], Error)] /\ UNCHANGED <<hub, device>>
  BY DEF LosePush, Answered, OutcomeInv, TrueFlushes
<1>2. Error.version \in 0..MaxVersions
  BY HubAssumption DEF Error
<1>3. HubTyped'
  BY <1>1 DEF HubBounds, HubTyped
<1> QED BY <1>1, <1>2, <1>3, AnsweredTyped

LEMMA OtherPushTyped ==
    ASSUME OutcomeInv, HubBounds, NEW t \in Tenants, NEW o, NEW c, OtherPush(t, o, c) PROVE HubBounds'
<1>1. PICK op : op = [id |-> <<0, Cardinality(hub[t].results)>>, tenant |-> t, object |-> o, base |-> Current(t, o), content |-> c]
  OBVIOUS
<1>2. PICK v : v = [kind |-> "accepted", version |-> op.base + 1]
  OBVIOUS
<1>3. /\ hub' = HubAfter(t, op, v) /\ UNCHANGED <<device, flush>>
      /\ Len(hub[t].objects) < MaxVersions /\ Cardinality(hub[t].results) < MaxOperations
  BY <1>1, <1>2 DEF OtherPush
<1>4. v.kind = "accepted" /\ v.version = Current(t, o) + 1
  BY <1>1, <1>2
<1>5. Current(t, o) \in 0..Len(hub[t].objects) /\ Len(hub[t].objects) \in 0..MaxVersions
  BY CurrentBounded DEF OutcomeInv, HubBounds
<1>6. v.version \in 0..MaxVersions /\ v.version \in 1..Len(hub[t].objects) + 1
  BY <1>3, <1>4, <1>5, HubAssumption
<1>7. MayAdd(t, op, v)
  BY <1>3, <1>6 DEF MayAdd
<1>8. HubTyped'
  BY <1>3, <1>7, HubAddsTyped DEF OutcomeInv, HubBounds
<1> QED BY <1>3, <1>8 DEF HubBounds

\* The outcome that is written to the item.
LEMMA AfterAnswerTyped ==
    ASSUME NEW all, NEW x, TrueItem(all, x), ItemHasType(x), NEW v
    PROVE  ItemHasType(AfterAnswer(x, v))
<1> DEFINE done == [x EXCEPT !.status = "succeeded"]
           clash == [x EXCEPT !.status = "conflict", !.current = v.version]
           status == IF x.attempts >= MaxAttempts THEN "failed" ELSE "pending"
           again == [x EXCEPT !.status = status]
<1>1. /\ done.op = x.op /\ done.status = "succeeded" /\ done.attempts = x.attempts
      /\ clash.op = x.op /\ clash.status = "conflict" /\ clash.attempts = x.attempts
      /\ again.op = x.op /\ again.status \in {"failed", "pending"} /\ again.attempts = x.attempts
  BY DEF TrueItem
<1>2. AfterAnswer(x, v) \in {done, clash, again}
  BY DEF AfterAnswer
<1> HIDE DEF done, clash, again
<1>3. ItemHasType(done) /\ ItemHasType(clash) /\ ItemHasType(again)
  BY <1>1 DEF ItemHasType, QueueStatuses
<1> QED BY <1>2, <1>3

LEMMA TakeAnswerTyped == ASSUME OutcomeInv, HubBounds, NEW f \in Flushers, TakeAnswer(f) PROVE HubBounds'
<1>1. PICK v, i : v = flush[f].verdict /\ i = flush[f].at
  OBVIOUS
<1>2. PICK x : x = device.queue[i]
  OBVIOUS
<1>3. PICK d1 : d1 = IF v.kind = "accepted" THEN [device EXCEPT !.catalog[x.op.object] = v.version] ELSE device
  OBVIOUS
<1>4. PICK d2 : d2 = [d1 EXCEPT !.queue[i] = AfterAnswer(x, v)]
  OBVIOUS
<1>5. PICK writes : writes = <<device, d1, d2>>
  OBVIOUS
<1>6. Goes(f, writes, i + 1) /\ flush[f].phase = "answered"
  BY <1>1, <1>2, <1>3, <1>4, <1>5 DEF TakeAnswer
<1>7. i \in DOMAIN device.queue /\ v.version \in 0..MaxVersions
  BY <1>1, <1>6 DEF OutcomeInv, TrueFlushes, TrueFlush, HubBounds, FlushTyped
<1>8. d1.queue = device.queue /\ DOMAIN d1 = DOMAIN device /\ d1.tenant = device.tenant
  BY <1>3 DEF OutcomeInv, TrueDevice
<1>9. TrueDevice(hub, d1)
  BY <1>8 DEF OutcomeInv, TrueDevice
<1>10. d1.catalog \in [Objects -> 0..MaxVersions]
  <2>1. device.catalog \in [Objects -> 0..MaxVersions]
    BY DEF HubBounds, DeviceTyped
  <2>2. CASE v.kind = "accepted"
    <3>1. d1.catalog = [device.catalog EXCEPT ![x.op.object] = v.version]
      BY <1>3, <2>2 DEF OutcomeInv, TrueDevice
    <3> QED BY <1>7, <2>1, <3>1
  <2>3. CASE v.kind # "accepted"
    BY <1>3, <2>1, <2>3
  <2> QED BY <2>2, <2>3
<1>11. DeviceTyped(d1)
  BY <1>8, <1>10 DEF HubBounds, DeviceTyped
<1>12. TrueDevice(hub, d2)
  BY <1>1, <1>2, <1>4, <1>6, <1>8, <1>9, WrittenIsTrue
<1>13. DeviceTyped(d2)
  <2> DEFINE y == AfterAnswer(x, v)
             q == [device.queue EXCEPT ![i] = y]
  <2>1. TrueItem(hub, x) /\ ItemHasType(x)
    BY <1>2, <1>7 DEF OutcomeInv, TrueDevice, HubBounds, DeviceTyped
  <2>2. ItemHasType(y)
    BY <2>1, AfterAnswerTyped
  <2> HIDE DEF y
  <2>3. d2.queue = q /\ d2.catalog = d1.catalog
    BY <1>4, <1>8, <1>9 DEF TrueDevice, y
  <2>4. \A k \in DOMAIN q : k \in DOMAIN device.queue /\ (q[k] = y \/ q[k] = device.queue[k])
    OBVIOUS
  <2> HIDE DEF q
  <2> QED BY <1>10, <2>2, <2>3, <2>4 DEF HubBounds, DeviceTyped
<1>14. Len(writes) = 3 /\ writes[2] = d1 /\ writes[3] = d2
  BY <1>5
<1>15. \A n \in 2..Len(writes) - 1 : TrueDevice(hub, writes[n]) /\ DeviceTyped(writes[n])
  <2>1. \A n \in 2..Len(writes) - 1 : n = 2
    BY <1>14
  <2> QED BY <1>9, <1>11, <1>14, <2>1
<1>16. i + 1 \in Nat \ {0}
  <2>1. Len(device.queue) \in Nat /\ DOMAIN device.queue = 1..Len(device.queue)
    BY SequenceDomain DEF OutcomeInv, TrueDevice
  <2> QED BY <1>7, <2>1
<1>17. d2 = writes[Len(writes)] /\ TrueDevice(hub, d2) /\ DeviceTyped(d2)
  BY <1>12, <1>13, <1>14
<1> QED BY <1>6, <1>15, <1>16, <1>17, GoesTyped

LEMMA FlushStartsTyped == ASSUME OutcomeInv, HubBounds, NEW f \in Flushers, Flush(f) PROVE HubBounds'
<1>1. PICK writes : writes = <<device>>
  OBVIOUS
<1>2. PICK last : last = device
  OBVIOUS
<1>3. Len(writes) = 1 /\ last = writes[Len(writes)] /\ Goes(f, writes, 1) /\ 1 \in Nat \ {0}
  BY <1>1, <1>2 DEF Flush
<1>4. TrueDevice(hub, last) /\ DeviceTyped(last)
  BY <1>2 DEF OutcomeInv, HubBounds
<1>5. \A n \in 2..Len(writes) - 1 : TrueDevice(hub, writes[n]) /\ DeviceTyped(writes[n])
  BY <1>3
<1> QED BY <1>3, <1>4, <1>5, GoesTyped

LEMMA TakePageTyped == ASSUME HubInv, HubBounds, TakePage PROVE HubBounds'
<1>0. OutcomeInv /\ TrueDevice(hub, device) /\ PullerFits
  BY DEF HubInv, OutcomeInv
<1>1. PICK page, next : page = puller.page /\ next = puller.next
  OBVIOUS
<1>2. IsSequence(page)
  BY <1>0, <1>1 DEF TakePage, PullerFits
<1>3. PICK writes : writes = Stored(device, page, next)
  OBVIOUS
<1> DEFINE Cursor(n) == IF n > Len(page) THEN next ELSE device.cursor
           Inbox(n)  == device.inbox \cup {page[i] : i \in 1..IF n > Len(page) THEN Len(page) ELSE n}
           W(n)      == [device EXCEPT !.cursor = Cursor(n), !.inbox = Inbox(n)]
<1>4. \A n \in 1..Len(page) + 1 : /\ DOMAIN writes[n] = DOMAIN device /\ writes[n].queue = device.queue
                                  /\ writes[n].tenant = device.tenant /\ writes[n].catalog = device.catalog
  <2>1. writes = [n \in 1..Len(page) + 1 |-> W(n)]
    BY <1>3 DEF Stored
  <2>2. \A n \in 1..Len(page) + 1 : /\ DOMAIN W(n) = DOMAIN device /\ W(n).queue = device.queue
                                    /\ W(n).tenant = device.tenant /\ W(n).catalog = device.catalog
    BY <1>0 DEF TrueDevice
  <2> HIDE DEF W
  <2> QED BY <2>1, <2>2
<1> HIDE DEF W, Cursor, Inbox
<1>5. Len(writes) = Len(page) + 1 /\ Len(page) \in Nat
  BY <1>0, <1>2, <1>3, StoredAt
<1>6. \A n \in 1..Len(page) + 1 : TrueDevice(hub, writes[n]) /\ DeviceTyped(writes[n])
  BY <1>0, <1>4 DEF TrueDevice, HubBounds, DeviceTyped
<1>7. CASE \E n \in 1..Len(writes) - 1 : StopsAt(writes[n])
  <2>1. PICK n \in 1..Len(writes) - 1 : StopsAt(writes[n])
    BY <1>7
  <2>2. PICK d : d = writes[n]
    OBVIOUS
  <2>3. TrueDevice(hub, d) /\ DeviceTyped(d) /\ StopsAt(d)
    BY <1>5, <1>6, <2>1, <2>2
  <2> QED BY <1>0, <2>3, StopTyped
<1>8. CASE ~\E n \in 1..Len(writes) - 1 : StopsAt(writes[n])
  <2>1. device' = writes[Len(writes)] /\ UNCHANGED <<hub, flush>>
    BY <1>1, <1>3, <1>8 DEF TakePage
  <2>2. DeviceTyped(device')
    BY <1>5, <1>6, <2>1
  <2> QED BY <2>1, <2>2 DEF HubBounds, HubTyped
<1> QED BY <1>7, <1>8

LEMMA HubBoundsStart == ASSUME HubInit PROVE HubBounds
<1> DEFINE empty == [objects |-> <<>>, results |-> {}]
<1>1. Len(<<>>) = 0 /\ DOMAIN <<>> = {}
  OBVIOUS
<1>2. IsFiniteSet({}) /\ Cardinality({}) = 0
  BY FS_EmptySet
<1>3. empty.objects = <<>> /\ empty.results = {}
  OBVIOUS
<1> HIDE DEF empty
<1>4. HeldTyped(empty)
  BY <1>1, <1>2, <1>3, HubAssumption DEF HeldTyped
<1>5. HubTyped
  BY <1>4 DEF HubInit, HubTyped, empty
<1>6. device.queue = <<>> /\ device.catalog = [o \in Objects |-> 0]
  BY DEF HubInit
<1>7. DeviceTyped(device)
  BY <1>1, <1>6, HubAssumption DEF DeviceTyped
<1>8. \A f \in Flushers : FlushTyped(flush[f])
  <2>1. FlushTyped(NoFlush)
    BY HubAssumption DEF FlushTyped, NoFlush, Error
  <2> QED BY <2>1 DEF HubInit
<1> QED BY <1>5, <1>7, <1>8 DEF HubBounds

LEMMA HubBoundsStep == ASSUME HubInv, HubBounds, [HubNext]_hubVars PROVE HubBounds'
<1>0. OutcomeInv /\ TrueDevice(hub, device)
  BY DEF HubInv, OutcomeInv
<1>1. CASE UNCHANGED <<hub, device, flush>>
  BY <1>1 DEF HubBounds, HubTyped
<1>2. ASSUME NEW t \in Tenants \cup {Nobody}, device' = [device EXCEPT !.tenant = t], UNCHANGED <<hub, flush>>
      PROVE  HubBounds'
  <2>1. device'.queue = device.queue /\ device'.catalog = device.catalog
    BY <1>0, <1>2 DEF TrueDevice
  <2>2. DeviceTyped(device')
    BY <2>1 DEF HubBounds, DeviceTyped
  <2> QED BY <1>2, <2>2 DEF HubBounds, HubTyped
<1>3. CASE Disconnect \/ \E t \in Tenants : Configure(t)
  BY <1>2, <1>3 DEF Disconnect, Configure
<1>4. CASE \E t \in Shared, o \in Objects, c \in Bodies : OtherPush(t, o, c)
  BY <1>0, <1>4, OtherPushTyped, HubAssumption
<1>5. CASE \E o \in Objects : QueueDelete(o) \/ \E c \in Contents : QueueWorkflow(o, c)
  <2>1. PICK o \in Objects, c \in Bodies : Enqueue(o, c)
    BY <1>5 DEF QueueDelete, QueueWorkflow, Bodies
  <2> QED BY <1>0, <2>1, EnqueueTyped
<1>6. CASE \E i \in DOMAIN device.queue, retry \in BOOLEAN : ResolveConflict(i, retry)
  BY <1>0, <1>6, ResolveTyped
<1>7. CASE \E f \in Flushers : Flush(f) \/ ServePush(f) \/ LosePush(f) \/ TakeAnswer(f)
  BY <1>0, <1>7, FlushStartsTyped, ServePushTyped, LosePushTyped, TakeAnswerTyped
<1>8. CASE \E op \in late : ServeLate(op)
  <2>1. PICK op \in late : ServeLate(op)
    BY <1>8
  <2>2. op.tenant \in Tenants /\ Push(op.tenant, op) /\ UNCHANGED <<device, flush>>
    BY <1>0, <2>1 DEF ServeLate, OutcomeInv, LateFits
  <2>3. HubTyped'
    BY <1>0, <2>2, PushTyped
  <2> QED BY <2>2, <2>3 DEF HubBounds
<1>9. CASE Crash
  <2>1. PICK d : d = device
    OBVIOUS
  <2>2. TrueDevice(hub, d) /\ DeviceTyped(d) /\ StopsAt(d)
    BY <1>0, <1>9, <2>1 DEF Crash, HubBounds
  <2> QED BY <1>0, <2>2, StopTyped
<1>10. CASE Pull \/ ServePull \/ FailPull
  BY <1>1, <1>10 DEF Pull, ServePull, FailPull
<1>11. CASE TakePage
  BY <1>11, TakePageTyped
<1> QED BY <1>1, <1>3, <1>4, <1>5, <1>6, <1>7, <1>8, <1>9, <1>10, <1>11 DEF HubNext, PushNext, PullNext, hubVars

\* The types and limits of the synchronisation (HubSync.HubTypeOK): the Hub holds no more versions and results of a
\* tenant than its limits, no item has more attempts than the limit, and a flush works on an item of the queue.
THEOREM HubTypes == HubSpec => []HubTypeOK
<1>1. HubInit => HubInv /\ PullInv /\ HubBounds
  BY HubStarts, HubBoundsStart
<1>2. (HubInv /\ PullInv /\ HubBounds) /\ [HubNext]_hubVars => (HubInv /\ PullInv /\ HubBounds)'
  BY HubStep, HubBoundsStep
<1>3. HubInv /\ HubBounds => HubTypeOK
  <2> SUFFICES ASSUME HubInv, HubBounds PROVE HubTypeOK
    OBVIOUS
  <2>0. OutcomeInv /\ TrueDevice(hub, device)
    BY DEF HubInv, OutcomeInv
  <2>1. Len(device.queue) \in Nat /\ DOMAIN device.queue = 1..Len(device.queue)
    BY <2>0, SequenceDomain DEF TrueDevice
  <2>2. ASSUME NEW f \in Flushers PROVE flush[f].phase \in {"idle", "sent", "answered"} /\ flush[f].at \in 0..Len(device.queue)
    BY <2>0, <2>1 DEF OutcomeInv, TrueFlushes, TrueFlush, HubBounds, FlushTyped
  <2>3. \A t \in Tenants : Len(hub[t].objects) <= MaxVersions /\ Cardinality(hub[t].results) <= MaxOperations
    BY DEF HubBounds, HubTyped, HeldTyped
  <2> QED BY <2>0, <2>2, <2>3 DEF HubTypeOK, TrueDevice, HubBounds, DeviceTyped, ItemHasType
<1> QED BY <1>1, <1>2, <1>3, PTL DEF HubSpec

-----------------------------------------------------------------------------
(***************************************************************************)
(* ExternalDelivery: for any jobs and limits of posts. No copy of a job, a *)
(* worker's or the file's, counts more attempts than were sent, so that a  *)
(* job with no attempt left has been posted for the last time.             *)
(***************************************************************************)

Job == [run : Runs \cup {"test"}, to : Destinations, status : {"pending", "delivering", "retry-wait"} \cup Ended,
        attempts : 0..MaxPosts, due : BOOLEAN, sent : 0..MaxPosts]

JobsTyped ==
    /\ webhooks \in [Destinations -> {"new", "saved", "removed"}] /\ binding \in Destinations \cup {"nowhere"}
    /\ decided \in [Runs -> {"open", "decided", "told"}]
    /\ jobs \in Seq(Job) /\ posters \in [Posters -> [list : Seq(Job), at : Nat]]
    /\ \A p \in Posters : posters[p].at <= Len(posters[p].list) /\ Len(posters[p].list) <= Len(jobs)

\* The attempts a copy of a job counts, a worker's or the file's, were all sent; the post under way is one more.
AttemptsWereSent ==
    /\ \A j \in DOMAIN jobs : jobs[j].attempts <= jobs[j].sent
    /\ \A p \in Posters : \A j \in DOMAIN posters[p].list : posters[p].list[j].attempts <= jobs[j].sent
    /\ \A p \in Posters : posters[p].at # 0 =>
           LET i == posters[p].at IN posters[p].list[i].attempts + 1 <= jobs[i].sent

DeliveryInv == JobsTyped /\ AttemptsWereSent /\ GivesUpLast

LEMMA DeliveryStarts == DeliveryInit => DeliveryInv
BY DeliveryAssumption DEF DeliveryInit, DeliveryInv, JobsTyped, AttemptsWereSent, GivesUpLast, NoPost

Marks(x, status) == [x EXCEPT !.status = status]
Waits(x) == [x EXCEPT !.status = "retry-wait", !.due = TRUE]
Revokes(x, sent) == [x EXCEPT !.status = "revoked", !.sent = sent]
Posts(x, sent) == [x EXCEPT !.status = "delivering", !.attempts = @ + 1, !.sent = sent]
Counts(x, sent) == [x EXCEPT !.attempts = @ + 1, !.due = FALSE, !.sent = sent]

LEMMA JobMarks ==
    ASSUME NEW x \in Job, NEW status \in {"pending", "delivering", "retry-wait"} \cup Ended
    PROVE  LET y == Marks(x, status) IN y \in Job /\ y.status = status /\ y.attempts = x.attempts /\ y.sent = x.sent
<1>1. x \in [run : Runs \cup {"test"}, to : Destinations, status : {"pending", "delivering", "retry-wait"} \cup Ended,
              attempts : 0..MaxPosts, due : BOOLEAN, sent : 0..MaxPosts]
  BY DEF Job
<1>2. MaxPosts \in Nat
  BY DeliveryAssumption DEF DeliveryAssumption
<1> QED BY <1>1, <1>2 DEF Job, Marks, Ended

LEMMA JobWaits ==
    ASSUME NEW x \in Job
    PROVE  LET y == Waits(x) IN y \in Job /\ y.status = "retry-wait" /\ y.attempts = x.attempts /\ y.sent = x.sent
<1>1. x \in [run : Runs \cup {"test"}, to : Destinations, status : {"pending", "delivering", "retry-wait"} \cup Ended,
              attempts : 0..MaxPosts, due : BOOLEAN, sent : 0..MaxPosts]
  BY DEF Job
<1>2. MaxPosts \in Nat
  BY DeliveryAssumption DEF DeliveryAssumption
<1> QED BY <1>1, <1>2 DEF Job, Waits, Ended

LEMMA JobRevokes ==
    ASSUME NEW x \in Job, NEW sent \in 0..MaxPosts
    PROVE  LET y == Revokes(x, sent) IN y \in Job /\ y.status = "revoked" /\ y.attempts = x.attempts /\ y.sent = sent
<1>1. x \in [run : Runs \cup {"test"}, to : Destinations, status : {"pending", "delivering", "retry-wait"} \cup Ended,
              attempts : 0..MaxPosts, due : BOOLEAN, sent : 0..MaxPosts]
  BY DEF Job
<1>2. MaxPosts \in Nat
  BY DeliveryAssumption DEF DeliveryAssumption
<1> QED BY <1>1, <1>2 DEF Job, Revokes, Ended

LEMMA JobPosts ==
    ASSUME NEW x \in Job, NEW sent \in 0..MaxPosts, x.attempts < MaxPosts
    PROVE  LET y == Posts(x, sent) IN y \in Job /\ y.status = "delivering" /\ y.attempts = x.attempts + 1 /\ y.sent = sent
<1>1. x \in [run : Runs \cup {"test"}, to : Destinations, status : {"pending", "delivering", "retry-wait"} \cup Ended,
              attempts : 0..MaxPosts, due : BOOLEAN, sent : 0..MaxPosts]
  BY DEF Job
<1>2. MaxPosts \in Nat
  BY DeliveryAssumption DEF DeliveryAssumption
<1>3. x.attempts + 1 \in 0..MaxPosts
  BY <1>1, <1>2
<1> QED BY <1>1, <1>3 DEF Job, Posts

LEMMA JobCounts ==
    ASSUME NEW x \in Job, NEW sent \in 0..MaxPosts, x.attempts < MaxPosts
    PROVE  LET y == Counts(x, sent) IN y \in Job /\ y.status = x.status /\ y.attempts = x.attempts + 1 /\ y.sent = sent
<1>1. x \in [run : Runs \cup {"test"}, to : Destinations, status : {"pending", "delivering", "retry-wait"} \cup Ended,
              attempts : 0..MaxPosts, due : BOOLEAN, sent : 0..MaxPosts]
  BY DEF Job
<1>2. MaxPosts \in Nat
  BY DeliveryAssumption DEF DeliveryAssumption
<1>3. x.attempts + 1 \in 0..MaxPosts
  BY <1>1, <1>2
<1> QED BY <1>1, <1>3 DEF Job, Counts

LEMMA JobNumbers ==
    ASSUME NEW x \in Job PROVE x.attempts \in 0..MaxPosts /\ x.sent \in 0..MaxPosts /\ x.to \in Destinations
BY DEF Job

\* Working through a list, be it a stale one: the posts a copy counts were sent.
LEMMA WorkKeeps ==
    ASSUME DeliveryInv, NEW p \in Posters, NEW all \in Seq(Job), NEW list \in Seq(Job), NEW i \in Nat \ {0},
           Len(jobs) <= Len(all), Len(list) <= Len(all),
           \A j \in DOMAIN jobs : jobs[j].sent <= all[j].sent,
           \A j \in DOMAIN all : all[j].attempts <= all[j].sent,
           \A j \in DOMAIN all : all[j].status = "failed" => all[j].sent = MaxPosts,
           \A j \in DOMAIN list : list[j].attempts <= all[j].sent,
           WorksOn(p, all, list, i), UNCHANGED <<webhooks, binding>>,
           decided' \in [Runs -> {"open", "decided", "told"}]
    PROVE  DeliveryInv'
<1> DEFINE due   == {j \in i..Len(list) : IsDue(list[j])}
           there == {j \in due : webhooks[list[j].to] = "saved"}
<1>1. PICK first \in there \cup {0} :
          LET posts == first # 0 /\ list[first].attempts < MaxPosts
              gone  == {j \in due \ there : first = 0 \/ j < first}
          IN  /\ first = 0 => there = {}
              /\ \A k \in there : first <= k
              /\ jobs' = [j \in DOMAIN all |->
                   IF j \in gone THEN [list[j] EXCEPT !.status = "revoked", !.sent = all[j].sent]
                   ELSE IF posts /\ j = first
                   THEN [list[j] EXCEPT !.status = "delivering", !.attempts = @ + 1,
                                        !.sent = IF all[j].sent < MaxPosts THEN all[j].sent + 1 ELSE MaxPosts]
                   ELSE all[j]]
              /\ posters' = [posters EXCEPT ![p] = IF posts THEN [list |-> list, at |-> first] ELSE NoPost]
  BY DEF WorksOn
<1> DEFINE posts == first # 0 /\ list[first].attempts < MaxPosts
           gone  == {j \in due \ there : first = 0 \/ j < first}
<1>2. /\ DOMAIN all = 1..Len(all) /\ DOMAIN list = 1..Len(list) /\ DOMAIN list \subseteq DOMAIN all
      /\ DOMAIN jobs = 1..Len(jobs) /\ jobs \in Seq(Job) /\ Len(all) \in Nat /\ Len(list) \in Nat /\ Len(jobs) \in Nat
      /\ DOMAIN jobs \subseteq DOMAIN all
  BY DEF DeliveryInv, JobsTyped
<1>21. jobs' = [j \in DOMAIN all |->
             IF j \in gone THEN [list[j] EXCEPT !.status = "revoked", !.sent = all[j].sent]
             ELSE IF posts /\ j = first
             THEN [list[j] EXCEPT !.status = "delivering", !.attempts = @ + 1,
                                  !.sent = IF all[j].sent < MaxPosts THEN all[j].sent + 1 ELSE MaxPosts]
             ELSE all[j]]
  BY <1>1, Zenon
<1>22. posts => first # 0 /\ list[first].attempts < MaxPosts
  OBVIOUS
<1>23. posters' = [posters EXCEPT ![p] = IF posts THEN [list |-> list, at |-> first] ELSE NoPost]
  BY <1>1, Zenon
<1>3. /\ gone \subseteq DOMAIN list /\ (first # 0 => first \in DOMAIN list) /\ first \notin gone
      /\ first \in 0..Len(list)
  <2>1. gone \subseteq due /\ there \subseteq due /\ due \subseteq i..Len(list) /\ first \notin gone
    <3> HIDE DEF due
    <3>1. gone \subseteq due /\ there \subseteq due OBVIOUS
    <3>3. due \subseteq i..Len(list) BY DEF due
    <3>4. 0 \notin due BY <3>3
    <3>2. first \notin gone BY <3>4
    <3> QED BY <3>1, <3>2, <3>3
  <2> HIDE DEF gone, there, due, posts
  <2>2. i..Len(list) \subseteq DOMAIN list BY <1>2
  <2> QED BY <2>1, <2>2, <1>2
<1> HIDE DEF posts, gone, due, there
<1>4. MaxPosts \in Nat \ {0}
  BY DeliveryAssumption DEF DeliveryAssumption
<1>5. /\ \A j \in DOMAIN all : all[j] \in Job
      /\ \A j \in DOMAIN list : list[j] \in Job
  BY <1>2
<1>6. ASSUME NEW j \in DOMAIN all
      PROVE  /\ jobs'[j] \in Job /\ all[j].sent <= jobs'[j].sent /\ jobs'[j].attempts <= jobs'[j].sent
             /\ jobs'[j].status = "failed" => jobs'[j].sent = MaxPosts
             /\ posts /\ j = first => list[j].attempts + 1 <= jobs'[j].sent
  <2>1. CASE j \in gone
    <3>1. jobs'[j] = Revokes(list[j], all[j].sent) BY <1>21, <2>1 DEF Revokes
    <3>2. j \in DOMAIN list /\ j # first BY <1>3, <2>1
    <3>3. all[j] \in Job /\ list[j] \in Job BY <1>5, <3>2
    <3>4. all[j].sent \in 0..MaxPosts /\ "revoked" \in {"pending", "delivering", "retry-wait"} \cup Ended
      BY <3>3, JobNumbers DEF Ended
    <3>5. jobs'[j] \in Job /\ jobs'[j].status = "revoked" /\ jobs'[j].attempts = list[j].attempts /\ jobs'[j].sent = all[j].sent
      BY <3>1, <3>3, <3>4, JobRevokes
    <3>6. list[j].attempts <= all[j].sent BY <3>2
    <3> QED BY <3>2, <3>4, <3>5, <3>6, <1>4
  <2>2. CASE posts /\ j = first
    <3>1. jobs'[j] = [list[j] EXCEPT !.status = "delivering", !.attempts = @ + 1,
                                     !.sent = IF all[j].sent < MaxPosts THEN all[j].sent + 1 ELSE MaxPosts]
      BY <1>21, <1>3, <2>2
    <3>2. j \in DOMAIN list BY <1>3, <2>2
    <3>3. list[j].attempts < MaxPosts /\ list[j].attempts \in Nat /\ all[j].sent \in 0..MaxPosts
      BY <1>22, <2>2, <3>2, <1>5, <1>4, JobNumbers
    <3> DEFINE sent == IF all[j].sent < MaxPosts THEN all[j].sent + 1 ELSE MaxPosts
    <3>4. sent \in 0..MaxPosts /\ list[j].attempts + 1 \in 0..MaxPosts /\ list[j] \in Job
          /\ "delivering" \in {"pending", "delivering", "retry-wait"} \cup Ended
      BY <3>2, <3>3, <1>5, <1>4
    <3>5. jobs'[j] \in Job /\ jobs'[j].status = "delivering" /\ jobs'[j].attempts = list[j].attempts + 1 /\ jobs'[j].sent = sent
      <4> HIDE DEF sent
      <4>1. jobs'[j] = Posts(list[j], sent) BY <3>1 DEF sent, Posts
      <4> QED BY <4>1, <3>3, <3>4, JobPosts
    <3>6. list[j].attempts <= all[j].sent BY <3>2
    <3> QED BY <3>2, <3>3, <3>5, <3>6, <1>4
  <2>3. CASE j \notin gone /\ ~(posts /\ j = first)
    <3>1. jobs'[j] = all[j] BY <1>21, <2>3
    <3>2. all[j] \in Job /\ all[j].sent \in Nat BY <1>5, <1>4, JobNumbers
    <3> QED BY <3>1, <3>2, <2>3
  <2> QED BY <2>1, <2>2, <2>3
<1>7. jobs' \in Seq(Job) /\ Len(jobs') = Len(all) /\ DOMAIN jobs' = DOMAIN all
  <2>1. jobs' \in [1..Len(all) -> Job]
    <3>1. DOMAIN jobs' = 1..Len(all) /\ jobs' = [j \in 1..Len(all) |-> jobs'[j]] BY <1>21, <1>2
    <3> QED BY <3>1, <1>6, <1>2
  <2> QED BY <2>1, <1>2
<1>8. /\ posters \in [Posters -> [list : Seq(Job), at : Nat]]
      /\ \A q \in Posters : posters[q].at <= Len(posters[q].list) /\ Len(posters[q].list) <= Len(jobs)
  BY DEF DeliveryInv, JobsTyped
<1>9. posters'[p] = IF posts THEN [list |-> list, at |-> first] ELSE NoPost
  BY <1>23, <1>8
<1>10. ASSUME NEW q \in Posters, q # p PROVE posters'[q] = posters[q]
  BY <1>23, <1>8, <1>10
<1>11. posters' \in [Posters -> [list : Seq(Job), at : Nat]]
  <2>1. (IF posts THEN [list |-> list, at |-> first] ELSE NoPost) \in [list : Seq(Job), at : Nat]
    BY <1>3, <1>2 DEF NoPost
  <2> QED BY <1>23, <1>8, <2>1
<1>12. ASSUME NEW q \in Posters
       PROVE  /\ posters'[q].at <= Len(posters'[q].list) /\ Len(posters'[q].list) <= Len(jobs')
              /\ \A j \in DOMAIN posters'[q].list : posters'[q].list[j].attempts <= jobs'[j].sent
              /\ posters'[q].at # 0 => posters'[q].list[posters'[q].at].attempts + 1 <= jobs'[posters'[q].at].sent
  <2>1. CASE q = p /\ posts
    <3>1. posters'[q].list = list /\ posters'[q].at = first BY <1>9, <2>1
    <3>2. ASSUME NEW j \in DOMAIN list PROVE list[j].attempts <= jobs'[j].sent
      <4>1. all[j].sent <= jobs'[j].sent /\ list[j].attempts <= all[j].sent BY <1>6, <1>2
      <4>2. all[j].sent \in Nat /\ jobs'[j].sent \in Nat /\ list[j].attempts \in Nat BY <1>2, <1>5, <1>6, <1>4, JobNumbers
      <4> QED BY <4>1, <4>2
    <3> QED BY <3>1, <3>2, <1>3, <1>6, <1>7, <1>2, <2>1
  <2>2. CASE q = p /\ ~posts
    <3>1. posters'[q].list = <<>> /\ posters'[q].at = 0 BY <1>9, <2>2 DEF NoPost
    <3> QED BY <3>1, <1>7, <1>2
  <2>3. CASE q # p
    <3>1. posters'[q] = posters[q] BY <1>10, <2>3
    <3>2. posters[q].at <= Len(posters[q].list) /\ Len(posters[q].list) <= Len(jobs) /\ posters[q].at \in Nat
          /\ posters[q].list \in Seq(Job)
      BY <1>8
    <3>3. ASSUME NEW j \in DOMAIN posters[q].list PROVE posters[q].list[j].attempts <= jobs'[j].sent
          /\ (posters[q].at = j => posters[q].list[j].attempts + 1 <= jobs'[j].sent)
      <4>1. j \in DOMAIN jobs /\ j \in DOMAIN all BY <3>2, <1>2
      <4>2. posters[q].list[j].attempts <= jobs[j].sent BY DEF DeliveryInv, AttemptsWereSent
      <4>3. posters[q].at = j => posters[q].list[j].attempts + 1 <= jobs[j].sent
        BY <4>1, <1>2 DEF DeliveryInv, AttemptsWereSent
      <4>4. jobs[j].sent <= all[j].sent /\ all[j].sent <= jobs'[j].sent BY <4>1, <1>6
      <4>5. posters[q].list[j] \in Job /\ jobs[j] \in Job /\ all[j] \in Job /\ jobs'[j] \in Job
        BY <4>1, <3>2, <1>2, <1>5, <1>6
      <4>6. /\ posters[q].list[j].attempts \in Nat /\ jobs[j].sent \in Nat /\ all[j].sent \in Nat /\ jobs'[j].sent \in Nat
        BY <4>5, <1>4, JobNumbers
      <4> QED BY <4>2, <4>3, <4>4, <4>6
    <3> QED BY <3>1, <3>2, <3>3, <1>7, <1>2
  <2> QED BY <2>1, <2>2, <2>3
<1>13. JobsTyped'
  BY <1>7, <1>11, <1>12 DEF JobsTyped, DeliveryInv
<1>14. AttemptsWereSent' /\ GivesUpLast'
  BY <1>6, <1>7, <1>12 DEF AttemptsWereSent, GivesUpLast
<1> QED BY <1>13, <1>14 DEF DeliveryInv

\* What a worker, a click or a stop does otherwise: the copies stay or go, and no count goes down.
LEMMA RestKeeps ==
    ASSUME DeliveryInv, webhooks' \in [Destinations -> {"new", "saved", "removed"}],
           binding' \in Destinations \cup {"nowhere"}, decided' \in [Runs -> {"open", "decided", "told"}],
           posters' = posters \/ posters' = [p \in Posters |-> NoPost],
           DOMAIN jobs' = DOMAIN jobs, jobs' = [j \in DOMAIN jobs |-> jobs'[j]],
           \A j \in DOMAIN jobs : /\ jobs'[j] \in Job /\ jobs'[j].sent = jobs[j].sent /\ jobs'[j].attempts = jobs[j].attempts
                                  /\ jobs'[j].status = "failed" => jobs[j].status = "failed"
    PROVE  DeliveryInv'
<1>1. jobs \in Seq(Job) /\ DOMAIN jobs = 1..Len(jobs) /\ Len(jobs) \in Nat
  BY DEF DeliveryInv, JobsTyped
<1>2. jobs' \in Seq(Job) /\ Len(jobs') = Len(jobs)
  <2>1. jobs' \in [1..Len(jobs) -> Job]
    BY <1>1
  <2> QED BY <2>1, <1>1
<1>3. /\ posters' \in [Posters -> [list : Seq(Job), at : Nat]]
      /\ \A p \in Posters : posters'[p] = posters[p] \/ (posters'[p].list = <<>> /\ posters'[p].at = 0)
  <2>1. posters \in [Posters -> [list : Seq(Job), at : Nat]]
    BY DEF DeliveryInv, JobsTyped
  <2>2. NoPost \in [list : Seq(Job), at : Nat] /\ NoPost.list = <<>> /\ NoPost.at = 0
    BY DEF NoPost
  <2>3. CASE posters' = posters
    BY <2>1, <2>3
  <2>4. CASE posters' = [p \in Posters |-> NoPost]
    <3>1. \A p \in Posters : posters'[p] = NoPost
      BY <2>4
    <3> HIDE DEF NoPost
    <3> QED BY <2>2, <2>4, <3>1
  <2> QED BY <2>3, <2>4
<1>4. JobsTyped'
  <2>1. ASSUME NEW p \in Posters PROVE posters'[p].at <= Len(posters'[p].list) /\ Len(posters'[p].list) <= Len(jobs')
    <3>1. CASE posters'[p] = posters[p]
      BY <3>1, <1>2 DEF DeliveryInv, JobsTyped
    <3>2. CASE posters'[p].list = <<>> /\ posters'[p].at = 0
      BY <3>2, <1>1, <1>2
    <3> QED BY <3>1, <3>2, <1>3
  <2> QED BY <2>1, <1>2, <1>3 DEF JobsTyped
<1>5. AttemptsWereSent'
  <2>1. ASSUME NEW p \in Posters
        PROVE  /\ \A j \in DOMAIN posters'[p].list : posters'[p].list[j].attempts <= jobs'[j].sent
               /\ posters'[p].at # 0 => posters'[p].list[posters'[p].at].attempts + 1 <= jobs'[posters'[p].at].sent
    <3>1. CASE posters'[p] = posters[p]
      <4>1. DOMAIN posters[p].list \subseteq DOMAIN jobs /\ (posters[p].at # 0 => posters[p].at \in DOMAIN jobs)
        BY <1>1 DEF DeliveryInv, JobsTyped
      <4> QED BY <3>1, <4>1 DEF DeliveryInv, AttemptsWereSent
    <3>2. CASE posters'[p].list = <<>> /\ posters'[p].at = 0
      BY <3>2
    <3> QED BY <3>1, <3>2, <1>3
  <2> QED BY <2>1 DEF DeliveryInv, AttemptsWereSent
<1>6. GivesUpLast'
  BY DEF DeliveryInv, GivesUpLast
<1> QED BY <1>4, <1>5, <1>6 DEF DeliveryInv

LEMMA OwnList ==
    ASSUME DeliveryInv
    PROVE  /\ jobs \in Seq(Job) /\ DOMAIN jobs = 1..Len(jobs) /\ Len(jobs) \in Nat
           /\ \A j \in DOMAIN jobs : /\ jobs[j] \in Job /\ jobs[j].sent \in Nat /\ jobs[j].attempts \in Nat
                                     /\ jobs[j].attempts <= jobs[j].sent
                                     /\ jobs[j].status = "failed" => jobs[j].sent = MaxPosts
           /\ webhooks \in [Destinations -> {"new", "saved", "removed"}] /\ binding \in Destinations \cup {"nowhere"}
           /\ decided \in [Runs -> {"open", "decided", "told"}]
<1>1. jobs \in Seq(Job) /\ DOMAIN jobs = 1..Len(jobs) /\ Len(jobs) \in Nat
  BY DEF DeliveryInv, JobsTyped
<1>2. \A j \in DOMAIN jobs : jobs[j] \in Job
  BY <1>1
<1>3. MaxPosts \in Nat
  BY DeliveryAssumption DEF DeliveryAssumption
<1> QED BY <1>1, <1>2, <1>3, JobNumbers DEF DeliveryInv, JobsTyped, AttemptsWereSent, GivesUpLast

LEMMA ProcessKeeps == ASSUME DeliveryInv, NEW p \in Posters, Process(p) PROVE DeliveryInv'
<1>1. WorksOn(p, jobs, jobs, 1) /\ UNCHANGED <<webhooks, binding, decided>>
  BY DEF Process
<1>2. /\ jobs \in Seq(Job) /\ Len(jobs) <= Len(jobs) /\ 1 \in Nat \ {0}
      /\ \A j \in DOMAIN jobs : jobs[j].sent <= jobs[j].sent /\ jobs[j].attempts <= jobs[j].sent
      /\ \A j \in DOMAIN jobs : jobs[j].status = "failed" => jobs[j].sent = MaxPosts
  BY OwnList
<1>3. decided' \in [Runs -> {"open", "decided", "told"}]
  BY <1>1, OwnList
<1> QED BY <1>1, <1>2, <1>3, WorkKeeps

LEMMA PostEndsKeeps == ASSUME DeliveryInv, NEW p \in Posters, PostEnds(p) PROVE DeliveryInv'
<1> DEFINE i == posters[p].at
           list == posters[p].list
           x == Counts(list[i], jobs[i].sent)
<1>1. PICK status \in {"succeeded", RetryAfter(x.attempts)} :
          WorksOn(p, [jobs EXCEPT ![i] = Marks(x, status)], list, i + 1)
  BY DEF PostEnds, Counts, Marks
<1> DEFINE all == [jobs EXCEPT ![i] = Marks(x, status)]
<1>2. i # 0 /\ UNCHANGED <<webhooks, binding, decided>>
  BY DEF PostEnds
<1>3. /\ i \in Nat \ {0} /\ list \in Seq(Job) /\ i \in DOMAIN list /\ i \in DOMAIN jobs /\ Len(list) <= Len(jobs)
      /\ DOMAIN list = 1..Len(list) /\ Len(list) \in Nat /\ list[i] \in Job
      /\ list[i].attempts + 1 <= jobs[i].sent
      /\ \A j \in DOMAIN list : list[j].attempts <= jobs[j].sent
  BY <1>2, OwnList DEF DeliveryInv, JobsTyped, AttemptsWereSent
<1>4. MaxPosts \in Nat
  BY DeliveryAssumption DEF DeliveryAssumption
<1>5. jobs[i].sent \in 0..MaxPosts /\ list[i].attempts \in 0..MaxPosts /\ list[i].attempts < MaxPosts
  <2>1. jobs[i] \in Job
    BY <1>3, OwnList
  <2>2. jobs[i].sent \in 0..MaxPosts /\ list[i].attempts \in 0..MaxPosts
    BY <1>3, <2>1, JobNumbers
  <2>3. list[i].attempts + 1 <= jobs[i].sent
    BY <1>3
  <2> HIDE DEF i, list
  <2> QED BY <1>4, <2>2, <2>3
<1>6. x \in Job /\ x.attempts = list[i].attempts + 1 /\ x.sent = jobs[i].sent
  BY <1>3, <1>5, JobCounts
<1>7. status \in {"pending", "delivering", "retry-wait"} \cup Ended /\ (status = "failed" => x.attempts >= MaxPosts)
  BY DEF RetryAfter, Ended
<1>8. LET y == Marks(x, status) IN y \in Job /\ y.status = status /\ y.attempts = x.attempts /\ y.sent = x.sent
  <2> HIDE DEF x
  <2> QED BY <1>6, <1>7, JobMarks
<1> HIDE DEF x
<1>9. /\ all \in Seq(Job) /\ Len(all) = Len(jobs) /\ DOMAIN all = DOMAIN jobs
      /\ \A j \in DOMAIN jobs : all[j] = IF j = i THEN Marks(x, status) ELSE jobs[j]
  BY <1>3, <1>8, OwnList
<1> HIDE DEF all, i, list
<1>10. ASSUME NEW j \in DOMAIN jobs
       PROVE  /\ all[j].sent = jobs[j].sent /\ all[j].attempts <= all[j].sent
              /\ all[j].status = "failed" => all[j].sent = MaxPosts
  <2>1. CASE j = i
    BY <2>1, <1>3, <1>4, <1>5, <1>6, <1>7, <1>8, <1>9
  <2>2. CASE j # i
    <3>1. all[j] = jobs[j]
      BY <2>2, <1>9
    <3> QED BY <3>1, OwnList
  <2> QED BY <2>1, <2>2
<1>11. DOMAIN list \subseteq DOMAIN jobs
  BY <1>3, OwnList
<1>12. WorksOn(p, all, list, i + 1)
  BY <1>1 DEF all
<1>13. i + 1 \in Nat \ {0} /\ Len(list) <= Len(all) /\ Len(jobs) <= Len(all)
  BY <1>3, <1>9, OwnList
<1>14. /\ \A j \in DOMAIN jobs : jobs[j].sent <= all[j].sent
       /\ \A j \in DOMAIN all : all[j].attempts <= all[j].sent
       /\ \A j \in DOMAIN all : all[j].status = "failed" => all[j].sent = MaxPosts
       /\ \A j \in DOMAIN list : list[j].attempts <= all[j].sent
  <2>1. \A j \in DOMAIN jobs : jobs[j].sent \in Nat
    BY OwnList
  <2> QED BY <2>1, <1>3, <1>9, <1>10, <1>11
<1> QED BY <1>2, <1>3, <1>9, <1>12, <1>13, <1>14, OwnList, WorkKeeps

LEMMA DeliverEnqueueKeeps ==
    ASSUME DeliveryInv, NEW r \in Runs \cup {"test"}, NEW d \in Destinations, EnqueueAndProcess(r, d),
           UNCHANGED <<webhooks, binding>>, decided' \in [Runs -> {"open", "decided", "told"}]
    PROVE  DeliveryInv'
<1> DEFINE all == IF r # "test" /\ \E j \in DOMAIN jobs : jobs[j].run = r /\ jobs[j].to = d THEN jobs
                  ELSE Append(jobs, NewJob(r, d))
<1>1. WorksOn("handler", all, all, 1) /\ "handler" \in Posters
  BY DeliveryAssumption DEF EnqueueAndProcess, DeliveryAssumption
<1>2. MaxPosts \in Nat
  BY DeliveryAssumption DEF DeliveryAssumption
<1>3. NewJob(r, d) \in Job /\ NewJob(r, d).attempts = 0 /\ NewJob(r, d).sent = 0 /\ NewJob(r, d).status = "pending"
  BY <1>2 DEF NewJob, Job
<1>4. all = jobs \/ all = Append(jobs, NewJob(r, d))
  OBVIOUS
<1> HIDE DEF all
<1>5. /\ all \in Seq(Job) /\ Len(jobs) <= Len(all) /\ DOMAIN all = 1..Len(all) /\ Len(all) \in Nat
      /\ \A j \in DOMAIN all : all[j] = NewJob(r, d) \/ (j \in DOMAIN jobs /\ all[j] = jobs[j])
      /\ \A j \in DOMAIN jobs : all[j] = jobs[j]
  BY <1>3, <1>4, OwnList
<1>6. ASSUME NEW j \in DOMAIN all
      PROVE  all[j].attempts <= all[j].sent /\ (all[j].status = "failed" => all[j].sent = MaxPosts)
  <2>1. CASE all[j] = NewJob(r, d)
    BY <2>1, <1>3
  <2>2. CASE j \in DOMAIN jobs /\ all[j] = jobs[j]
    BY <2>2, OwnList
  <2> QED BY <2>1, <2>2, <1>5
<1>7. \A j \in DOMAIN jobs : jobs[j].sent <= all[j].sent
  <2>1. \A j \in DOMAIN jobs : jobs[j].sent \in Nat
    BY OwnList
  <2> QED BY <2>1, <1>5
<1> QED BY <1>1, <1>5, <1>6, <1>7, WorkKeeps

LEMMA RestartsKeep ==
    ASSUME DeliveryInv, Restarts(jobs), webhooks' \in [Destinations -> {"new", "saved", "removed"}], UNCHANGED binding
    PROVE  DeliveryInv'
<1>1. ASSUME NEW j \in DOMAIN jobs
      PROVE  /\ jobs'[j] \in Job /\ jobs'[j].sent = jobs[j].sent /\ jobs'[j].attempts = jobs[j].attempts
             /\ jobs'[j].status = "failed" => jobs[j].status = "failed"
  <2>1. jobs'[j] = Waits(jobs[j]) \/ jobs'[j] = jobs[j]
    BY DEF Restarts, Waits
  <2>3. jobs[j] \in Job 
    BY OwnList
  <2>4. CASE jobs'[j] = jobs[j]
    BY <2>3, <2>4
  <2>5. CASE jobs'[j] = Waits(jobs[j])
    <3>1. jobs'[j] \in Job /\ jobs'[j].status = "retry-wait" /\ jobs'[j].attempts = jobs[j].attempts /\ jobs'[j].sent = jobs[j].sent
      BY <2>3, <2>5, JobWaits
    <3> QED BY <3>1
  <2> QED BY <2>1, <2>4, <2>5
<1>2. DOMAIN jobs' = DOMAIN jobs /\ jobs' = [j \in DOMAIN jobs |-> jobs'[j]]
  BY DEF Restarts
<1>3. posters' = [p \in Posters |-> NoPost] /\ decided' \in [Runs -> {"open", "decided", "told"}]
  BY OwnList DEF Restarts
<1> QED BY <1>1, <1>2, <1>3, OwnList, RestKeeps

LEMMA RemoveKeeps == ASSUME DeliveryInv, NEW d \in Destinations, RemoveDestination(d) PROVE DeliveryInv'
<1>1. webhooks' \in [Destinations -> {"new", "saved", "removed"}]
  BY OwnList DEF RemoveDestination
<1>2. CASE Restarts(jobs) /\ UNCHANGED binding
  BY <1>1, <1>2, RestartsKeep
<1>3. CASE /\ binding' = IF binding = d THEN "nowhere" ELSE binding
           /\ jobs' = [j \in DOMAIN jobs |-> IF jobs[j].to = d /\ jobs[j].status \notin Ended
                        THEN [jobs[j] EXCEPT !.status = "revoked"] ELSE jobs[j]]
           /\ UNCHANGED <<decided, posters>>
  <2>1. ASSUME NEW j \in DOMAIN jobs
        PROVE  /\ jobs'[j] \in Job /\ jobs'[j].sent = jobs[j].sent /\ jobs'[j].attempts = jobs[j].attempts
               /\ jobs'[j].status = "failed" => jobs[j].status = "failed"
    <3>1. jobs'[j] = Marks(jobs[j], "revoked") \/ jobs'[j] = jobs[j]
      BY <1>3 DEF Marks
    <3>2. "revoked" \in {"pending", "delivering", "retry-wait"} \cup Ended
      BY DEF Ended
    <3> QED BY <3>1, <3>2, OwnList, JobMarks
  <2>2. DOMAIN jobs' = DOMAIN jobs /\ jobs' = [j \in DOMAIN jobs |-> jobs'[j]]
    BY <1>3
  <2>3. binding' \in Destinations \cup {"nowhere"} /\ decided' \in [Runs -> {"open", "decided", "told"}]
    BY <1>3, OwnList
  <2> QED BY <1>1, <1>3, <2>1, <2>2, <2>3, RestKeeps
<1> QED BY <1>2, <1>3 DEF RemoveDestination

LEMMA BackoffKeeps == ASSUME DeliveryInv, NEW k \in DOMAIN jobs, BackoffEnds(k) PROVE DeliveryInv'
<1>1. ASSUME NEW j \in DOMAIN jobs
      PROVE  /\ jobs'[j] \in Job /\ jobs'[j].sent = jobs[j].sent /\ jobs'[j].attempts = jobs[j].attempts
             /\ jobs'[j].status = "failed" => jobs[j].status = "failed"
  <2>1. jobs'[j] = Waits(jobs[j]) \/ jobs'[j] = jobs[j]
    <3>1. jobs[k] \in Job /\ jobs[k].status = "retry-wait" /\ jobs' = [jobs EXCEPT ![k].due = TRUE]
      BY OwnList DEF BackoffEnds
    <3>2. [jobs[k] EXCEPT !.due = TRUE] = [jobs[k] EXCEPT !.status = "retry-wait", !.due = TRUE]
      BY <3>1 DEF Job
    <3> QED BY <3>1, <3>2 DEF Waits
  <2>3. jobs[j] \in Job 
    BY OwnList
  <2>4. CASE jobs'[j] = jobs[j]
    BY <2>3, <2>4
  <2>5. CASE jobs'[j] = Waits(jobs[j])
    <3>1. jobs'[j] \in Job /\ jobs'[j].status = "retry-wait" /\ jobs'[j].attempts = jobs[j].attempts /\ jobs'[j].sent = jobs[j].sent
      BY <2>3, <2>5, JobWaits
    <3> QED BY <3>1
  <2> QED BY <2>1, <2>4, <2>5
<1>2. DOMAIN jobs' = DOMAIN jobs /\ jobs' = [j \in DOMAIN jobs |-> jobs'[j]] /\ UNCHANGED <<webhooks, binding, decided, posters>>
  BY OwnList DEF BackoffEnds
<1> QED BY <1>1, <1>2, OwnList, RestKeeps

LEMMA DeliveryKeeps == DeliveryInv /\ [DeliveryNext]_deliveryVars => DeliveryInv'
<1> SUFFICES ASSUME DeliveryInv, [DeliveryNext]_deliveryVars PROVE DeliveryInv'
  OBVIOUS
<1>0. {"scheduler", "handler"} \subseteq Posters
  BY DeliveryAssumption DEF DeliveryAssumption
<1> DEFINE Quiet == /\ UNCHANGED <<jobs, posters>> /\ webhooks' \in [Destinations -> {"new", "saved", "removed"}]
                    /\ binding' \in Destinations \cup {"nowhere"} /\ decided' \in [Runs -> {"open", "decided", "told"}]
<1>1. Quiet => DeliveryInv'
  BY DEF DeliveryInv, JobsTyped, AttemptsWereSent, GivesUpLast
<1>2. ASSUME NEW d \in Destinations, SaveDestination(d) \/ Bind(d) PROVE DeliveryInv'
  BY <1>1, <1>2, OwnList DEF SaveDestination, Bind
<1>3. ASSUME NEW d \in Destinations, TestDestination(d) PROVE DeliveryInv'
  BY <1>3, DeliverEnqueueKeeps, OwnList DEF TestDestination
<1>4. CASE Unbind
  BY <1>1, <1>4, OwnList DEF Unbind
<1>5. ASSUME NEW r \in Runs, DecideRun(r) PROVE DeliveryInv'
  BY <1>1, <1>5, OwnList DEF DecideRun
<1>6. ASSUME NEW r \in Runs, ApprovedRun(r) PROVE DeliveryInv'
  <2>1. decided' \in [Runs -> {"open", "decided", "told"}] /\ UNCHANGED <<webhooks, binding>>
    BY <1>6, OwnList DEF ApprovedRun
  <2>2. CASE binding = "nowhere"
    BY <1>1, <1>6, <2>1, <2>2, OwnList DEF ApprovedRun
  <2>3. CASE binding # "nowhere"
    BY <1>6, <2>1, <2>3, DeliverEnqueueKeeps, OwnList DEF ApprovedRun
  <2> QED BY <2>2, <2>3
<1>7. CASE Process("scheduler")
  BY <1>0, <1>7, ProcessKeeps
<1>8. CASE DeliveryCrash
  BY <1>8, OwnList, RestartsKeep DEF DeliveryCrash
<1>9. CASE UNCHANGED deliveryVars
  BY <1>1, <1>9, OwnList DEF deliveryVars
<1> QED
  BY <1>2, <1>3, <1>4, <1>5, <1>6, <1>7, <1>8, <1>9, PostEndsKeeps, RemoveKeeps, BackoffKeeps DEF DeliveryNext

LEMMA DeliveryHolds == DeliveryInit /\ [][DeliveryNext]_deliveryVars => []DeliveryInv
BY DeliveryStarts, DeliveryKeeps, PTL

\* A job is only given up after all its posts (ExternalDelivery.GivesUpLast), though two workers, the scheduler and
\* the handler of a decision, work on copies of the list that may be old.
THEOREM GivenUpLast == DeliverySpec => []GivesUpLast
<1>1. DeliveryInv => GivesUpLast
  BY DEF DeliveryInv
<1> QED BY <1>1, DeliveryHolds, PTL DEF DeliverySpec

LEMMA DeliveryTypes == DeliveryInv => DeliveryTypeOK
<1> SUFFICES ASSUME DeliveryInv PROVE DeliveryTypeOK
  OBVIOUS
<1>0. JobsTyped /\ MaxPosts \in Nat
  BY DeliveryAssumption DEF DeliveryInv
<1>1. ASSUME NEW j \in DOMAIN jobs
      PROVE  /\ jobs[j].status \in {"pending", "delivering", "retry-wait"} \cup Ended
             /\ jobs[j].attempts \in 0..MaxPosts /\ jobs[j].to \in Destinations /\ jobs[j].run \in Runs \cup {"test"}
  <2>1. jobs[j] \in Job
    BY <1>0 DEF JobsTyped
  <2> QED BY <2>1 DEF Job
<1>2. ASSUME NEW p \in Posters
      PROVE  posters[p].at \in 0..Len(posters[p].list) /\ Len(posters[p].list) <= Len(jobs)
  <2>1. /\ posters[p] \in [list : Seq(Job), at : Nat]
        /\ posters[p].at <= Len(posters[p].list) /\ Len(posters[p].list) <= Len(jobs)
    BY <1>0 DEF JobsTyped
  <2>2. posters[p].at \in Nat /\ Len(posters[p].list) \in Nat
    BY <2>1
  <2> QED BY <2>1, <2>2
<1> QED BY <1>0, <1>1, <1>2 DEF JobsTyped, DeliveryTypeOK

\* Jobs keep to their attempts, and a worker to its copy of the list (ExternalDelivery.DeliveryTypeOK).
THEOREM DeliveryTyped == DeliverySpec => []DeliveryTypeOK
BY DeliveryTypes, DeliveryHolds, PTL DEF DeliverySpec

-----------------------------------------------------------------------------
(***************************************************************************)
(* FileArrivals: for any files and any number of saves. A save that was    *)
(* not mixed up with others is the only one under way, and one that lost   *)
(* its temporary file was mixed up; so a save that ran alone has written   *)
(* what a restart reads.                                                   *)
(***************************************************************************)

\* The list of files; in MCDesktop it takes turns with parts that leave its state alone.
ArrivalSpec == ArrivalInit /\ [][ArrivalNext]_arrivalVars

\* A save that was not mixed up is the only one; one that lost its temporary file was, and so was the file.
SavesAlone ==
    /\ DOMAIN calls = Watchers \cup Handlers
    /\ \A c \in Savers :
         /\ {"at", "mixed", "robbed"} \subseteq DOMAIN calls[c]
         /\ calls[c].mixed \in BOOLEAN /\ calls[c].robbed \in BOOLEAN
         /\ ~calls[c].mixed => \A d \in Savers : d = c
         /\ calls[c].robbed => calls[c].mixed /\ ~saved.alone
    /\ saved.alone \in BOOLEAN

ArrivalInv == SavesAlone /\ RestartReloads

LEMMA ArrivalStarts == ArrivalInit => ArrivalInv
BY DEF ArrivalInit, ArrivalInv, SavesAlone, RestartReloads, Savers, Resting

\* Whatever the list becomes: it is being saved.
LEMMA SavesKeeps ==
    ASSUME ArrivalInv, NEW c \in Watchers \cup Handlers, NEW then, Saves(c, then),
           calls[c].at = "save" => calls[c].robbed, UNCHANGED saved
    PROVE  ArrivalInv'
<1> DEFINE x == [at |-> "save", then |-> then, list |-> items', mixed |-> Savers \ {c} # {}, robbed |-> FALSE]
           M(d) == [calls[d] EXCEPT !.mixed = TRUE]
<1>1. x.at = "save" /\ x.mixed = (Savers \ {c} # {}) /\ x.robbed = FALSE /\ {"at", "mixed", "robbed"} \subseteq DOMAIN x
  OBVIOUS
<1>2. ASSUME NEW d \in Savers
      PROVE  /\ M(d).at = "save" /\ M(d).mixed = TRUE /\ M(d).robbed = calls[d].robbed /\ {"at", "mixed", "robbed"} \subseteq DOMAIN M(d)
  BY DEF ArrivalInv, SavesAlone, Savers
<1>3. /\ DOMAIN calls' = DOMAIN calls /\ c \in DOMAIN calls
      /\ \A d \in DOMAIN calls : calls'[d] = IF d = c THEN x ELSE IF d \in Savers THEN M(d) ELSE calls[d]
  BY DEF Saves, ArrivalInv, SavesAlone
<1> HIDE DEF x, M
<1>4. Savers' = Savers \cup {c}
  BY <1>1, <1>2, <1>3 DEF Savers
<1>5. ASSUME NEW d \in Savers'
      PROVE  /\ {"at", "mixed", "robbed"} \subseteq DOMAIN calls'[d]
             /\ calls'[d].mixed \in BOOLEAN /\ calls'[d].robbed \in BOOLEAN
             /\ ~calls'[d].mixed => \A e \in Savers' : e = d
             /\ calls'[d].robbed => calls'[d].mixed /\ ~saved.alone
  <2>1. d \in DOMAIN calls
    BY <1>3, <1>4 DEF Savers
  <2>2. CASE d = c
    BY <1>1, <1>3, <1>4, <2>1, <2>2
  <2>3. CASE d # c
    <3>1. d \in Savers /\ calls'[d] = M(d)
      BY <1>3, <1>4, <2>1, <2>3
    <3> QED BY <1>2, <3>1 DEF ArrivalInv, SavesAlone
  <2> QED BY <2>2, <2>3
<1>6. SavesAlone'
  BY <1>3, <1>5 DEF ArrivalInv, SavesAlone
<1> QED BY <1>4, <1>6 DEF ArrivalInv, RestartReloads

\* A call goes on that saves nothing, before and after.
LEMMA OtherCallKeeps ==
    ASSUME ArrivalInv, NEW c \in Watchers \cup Handlers, NEW x, calls' = [calls EXCEPT ![c] = x],
           calls[c].at # "save", x.at # "save", UNCHANGED <<items, saved, loaded>>
    PROVE  ArrivalInv'
<1>1. /\ DOMAIN calls' = DOMAIN calls /\ calls'[c].at # "save"
      /\ \A d \in DOMAIN calls : d # c => calls'[d] = calls[d]
  BY DEF ArrivalInv, SavesAlone
<1>2. Savers' = Savers /\ c \notin Savers
  BY <1>1 DEF Savers
<1>3. \A d \in Savers : calls'[d] = calls[d]
  BY <1>1, <1>2 DEF Savers
<1> QED BY <1>1, <1>2, <1>3 DEF ArrivalInv, SavesAlone, RestartReloads

LEMMA SaveEndsKeeps == ASSUME ArrivalInv, NEW c \in Watchers \cup Handlers, SaveEnds(c) PROVE ArrivalInv'
<1> DEFINE next == IF calls[c].then.do = "replace" THEN [at |-> "replace", item |-> calls[c].then.item] ELSE Resting
           R(d) == [calls[d] EXCEPT !.robbed = TRUE]
<1>1. next.at # "save"
  BY DEF Resting
<1>2. ASSUME NEW d \in Savers
      PROVE  /\ R(d).at = "save" /\ R(d).robbed = TRUE /\ R(d).mixed = calls[d].mixed /\ {"at", "mixed", "robbed"} \subseteq DOMAIN R(d)
  BY DEF ArrivalInv, SavesAlone, Savers
<1>3. /\ DOMAIN calls' = DOMAIN calls /\ c \in DOMAIN calls
      /\ \A d \in DOMAIN calls : calls'[d] = IF d = c THEN next ELSE IF d \in Savers THEN R(d) ELSE calls[d]
  BY DEF SaveEnds, Robbed, ArrivalInv, SavesAlone
<1>4. c \in Savers /\ saved' \in FileAfter(c) /\ UNCHANGED <<items, loaded>>
  BY <1>3 DEF SaveEnds, Savers
<1> HIDE DEF next, R
<1>5. Savers' = Savers \ {c}
  BY <1>1, <1>2, <1>3 DEF Savers
<1>6. \/ ~calls[c].mixed /\ saved'.list = items /\ saved'.alone = TRUE
      \/ calls[c].mixed /\ saved'.alone = FALSE
  BY <1>4 DEF FileAfter
<1>7. ASSUME NEW d \in Savers'
      PROVE  /\ {"at", "mixed", "robbed"} \subseteq DOMAIN calls'[d]
             /\ calls'[d].mixed = TRUE /\ calls'[d].robbed = TRUE /\ saved'.alone = FALSE
  <2>1. d \in Savers /\ d # c /\ d \in DOMAIN calls
    BY <1>5 DEF Savers
  <2>2. calls[d].mixed = TRUE /\ calls[c].mixed
    BY <1>4, <2>1 DEF ArrivalInv, SavesAlone
  <2> QED BY <1>2, <1>3, <1>6, <2>1, <2>2
<1>8. SavesAlone'
  BY <1>3, <1>6, <1>7 DEF ArrivalInv, SavesAlone
<1> QED BY <1>4, <1>6, <1>8 DEF ArrivalInv, RestartReloads

LEMMA SaveFailsKeeps == ASSUME ArrivalInv, NEW c \in Watchers \cup Handlers, SaveFails(c) PROVE ArrivalInv'
<1>1. calls[c].at = "save" /\ calls[c].robbed /\ c \in Savers /\ UNCHANGED <<saved, loaded>> /\ c \in DOMAIN calls
  BY DEF SaveFails, Savers, ArrivalInv, SavesAlone
<1>2. CASE calls[c].then.do = "settle"
  BY <1>1, <1>2, SavesKeeps DEF SaveFails
<1>3. CASE calls[c].then.do # "settle"
  <2>1. /\ DOMAIN calls' = DOMAIN calls /\ calls'[c].at # "save" /\ UNCHANGED items
        /\ \A d \in DOMAIN calls : d # c => calls'[d] = calls[d]
    BY <1>1, <1>3 DEF SaveFails, Resting
  <2>2. Savers' = Savers \ {c}
    BY <2>1 DEF Savers
  <2>3. \A d \in Savers' : calls'[d] = calls[d]
    BY <2>1, <2>2 DEF Savers
  <2>4. ~saved.alone
    BY <1>1 DEF ArrivalInv, SavesAlone
  <2> QED BY <1>1, <2>1, <2>2, <2>3, <2>4 DEF ArrivalInv, SavesAlone, RestartReloads
<1> QED BY <1>2, <1>3

LEMMA ArrivalKeeps == ArrivalInv /\ [ArrivalNext]_arrivalVars => ArrivalInv'
<1> SUFFICES ASSUME ArrivalInv, [ArrivalNext]_arrivalVars PROVE ArrivalInv'
  OBVIOUS
<1>0. Resting.at = "resting" /\ DOMAIN calls = Watchers \cup Handlers
  BY DEF Resting, ArrivalInv, SavesAlone
<1>1. UNCHANGED <<items, saved, calls, loaded>> => ArrivalInv'
  BY DEF ArrivalInv, SavesAlone, RestartReloads, Savers
<1>2. ASSUME NEW f \in Files, FileArrives(f) PROVE ArrivalInv'
  BY <1>1, <1>2 DEF FileArrives
<1>3. ASSUME NEW f \in Files, NEW c \in Watchers, Notice(c, f) PROVE ArrivalInv'
  <2> DEFINE x == [at |-> "inspect", file |-> f, stamp |-> folder[f]]
  <2>1. x.at # "save" /\ calls[c].at # "save" /\ calls' = [calls EXCEPT ![c] = x] /\ UNCHANGED <<items, saved, loaded>>
    BY <1>0, <1>3 DEF Notice
  <2> HIDE DEF x
  <2> QED BY <2>1, OtherCallKeeps
<1>4. ASSUME NEW c \in Watchers, Inspected(c) PROVE ArrivalInv'
  <2>1. calls[c].at = "inspect" /\ UNCHANGED <<saved, loaded>>
    BY <1>4 DEF Inspected
  <2>2. CASE calls' = [calls EXCEPT ![c] = Resting] /\ UNCHANGED items
    BY <1>0, <2>1, <2>2, OtherCallKeeps
  <2>3. CASE ListsAndSaves(c)
    BY <2>1, <2>3, SavesKeeps DEF ListsAndSaves
  <2> QED BY <1>4, <2>2, <2>3 DEF Inspected
<1>5. ASSUME NEW c \in Handlers, NEW n, ApproveArrival(c, n) \/ DismissArrival(c, n) PROVE ArrivalInv'
  <2>1. calls[c].at = "resting" /\ UNCHANGED saved /\ \E then : Saves(c, then)
    BY <1>0, <1>5 DEF ApproveArrival, DismissArrival
  <2> QED BY <2>1, SavesKeeps
<1>6. ASSUME NEW c \in Handlers, ApproveFolder(c) PROVE ArrivalInv'
  BY <1>0, <1>6, SavesKeeps DEF ApproveFolder
<1>7. ASSUME NEW c \in Handlers, Replaced(c) PROVE ArrivalInv'
  <2>1. calls[c].at = "replace" /\ UNCHANGED saved /\ \E then : Saves(c, then)
    BY <1>7 DEF Replaced
  <2> QED BY <2>1, SavesKeeps
<1>8. ASSUME NEW c \in Handlers, ReplacedUnlisted(c) PROVE ArrivalInv'
  BY <1>0, <1>8, OtherCallKeeps DEF ReplacedUnlisted
<1>9. ASSUME NEW c \in Handlers, NEW s \in DOMAIN sessions, MapColumns(c, s) PROVE ArrivalInv'
  <2>1. calls[c].at = "resting" /\ UNCHANGED <<saved, loaded>>
    BY <1>0, <1>9 DEF MapColumns
  <2>2. CASE UNCHANGED <<items, calls>>
    BY <1>1, <2>1, <2>2
  <2>3. CASE Saves(c, [do |-> "return"])
    BY <2>1, <2>3, SavesKeeps
  <2> QED BY <1>9, <2>2, <2>3 DEF MapColumns
<1>10. CASE ArrivalCrash
  <2>1. Savers' = {} /\ DOMAIN calls' = DOMAIN calls /\ loaded' = FALSE /\ UNCHANGED saved
    BY <1>0, <1>10 DEF ArrivalCrash, Savers
  <2> QED BY <2>1 DEF ArrivalInv, SavesAlone, RestartReloads
<1>11. CASE Load
  BY <1>11 DEF Load, ArrivalInv, SavesAlone, RestartReloads, Savers
<1>12. CASE UNCHANGED arrivalVars
  BY <1>1, <1>12 DEF arrivalVars
<1> QED
  BY <1>2, <1>3, <1>4, <1>5, <1>6, <1>7, <1>8, <1>9, <1>10, <1>11, <1>12, SaveEndsKeeps, SaveFailsKeeps DEF ArrivalNext

\* A restart reloads the list as it was, once the last save ran alone (FileArrivals.RestartReloads): nothing that
\* saves made of the file before, by overtaking one another, failing or being cut off, is left.
THEOREM ListIsReloaded == ArrivalSpec => []RestartReloads
<1>1. ArrivalInv => RestartReloads
  BY DEF ArrivalInv
<1> QED BY <1>1, ArrivalStarts, ArrivalKeeps, PTL DEF ArrivalSpec
-----------------------------------------------------------------------------
(* The types and limits of FileArrivals: the lists in memory, on the disk, and in the saves under way *)

ItemTyped(x) ==
    /\ {"id", "file", "stamp", "status", "version"} \subseteq DOMAIN x
    /\ x.file \in Files /\ x.stamp \in 1..MaxStamps /\ x.status \in Statuses
Listed(list) == IsSequence(list) /\ Len(list) <= MaxListed /\ \A i \in DOMAIN list : ItemTyped(list[i])
CallTyped(x) ==
    /\ x.at \in {"resting", "inspect", "save", "replace"}
    /\ x.at = "inspect" => x.file \in Files /\ x.stamp \in 1..MaxStamps
    /\ x.at = "save" => {"at", "list", "mixed", "robbed"} \subseteq DOMAIN x /\ Listed(x.list)
ListsTyped ==
    /\ folder \in [Files -> 0..MaxStamps] /\ loaded \in BOOLEAN /\ made \in 0..MaxArrivals
    /\ Listed(items) /\ Listed(saved.list)
    /\ DOMAIN calls = Watchers \cup Handlers /\ \A c \in Watchers \cup Handlers : CallTyped(calls[c])
    /\ IsSequence(sessions) /\ Len(sessions) <= MaxTokens

LEMMA NothingListed == Listed(<<>>) /\ IsSequence(<<>>) /\ Len(<<>>) = 0
BY ArrivalAssumption DEF Listed, IsSequence

\* The items of a list are marked, in their places.
LEMMA MarkedListed ==
    ASSUME NEW list, Listed(list), NEW new, new = [i \in DOMAIN list |-> new[i]], \A i \in DOMAIN list : ItemTyped(new[i])
    PROVE  Listed(new)
<1>1. Len(list) \in Nat /\ DOMAIN list = 1..Len(list)
  BY SequenceDomain DEF Listed
<1>2. IsSequence(new) /\ Len(new) = Len(list) /\ DOMAIN new = DOMAIN list
  BY <1>1, SequenceOf
<1> QED BY <1>2 DEF Listed

LEMMA ItemMarked ==
    ASSUME NEW x, ItemTyped(x), NEW status \in Statuses
    PROVE  ItemTyped([x EXCEPT !.status = status]) /\ ItemTyped([x EXCEPT !.status = status, !.version = TRUE])
BY DEF ItemTyped

LEMMA MarksListed ==
    ASSUME Listed(items), NEW n, NEW status \in Statuses
    PROVE  /\ Listed(Marked(n, status))
           /\ Listed([i \in DOMAIN items |-> IF items[i].id = n THEN [items[i] EXCEPT !.status = status, !.version = TRUE] ELSE items[i]])
<1> DEFINE A(i) == IF items[i].id = n THEN [items[i] EXCEPT !.status = status] ELSE items[i]
           B(i) == IF items[i].id = n THEN [items[i] EXCEPT !.status = status, !.version = TRUE] ELSE items[i]
<1>1. \A i \in DOMAIN items : ItemTyped(A(i)) /\ ItemTyped(B(i))
  BY ItemMarked DEF Listed
<1> HIDE DEF A, B
<1>2. Listed([i \in DOMAIN items |-> A(i)]) /\ Listed([i \in DOMAIN items |-> B(i)])
  BY <1>1, MarkedListed
<1> QED BY <1>2 DEF A, B, Marked

\* A new item goes first, and the last one from a full list.
LEMMA ItemListed ==
    ASSUME Listed(items), NEW item, ItemTyped(item)
    PROVE  Listed(SubSeq(<<item>> \o items, 1, IF Len(items) < MaxListed THEN Len(items) + 1 ELSE MaxListed))
<1> DEFINE S == {item} \cup {items[i] : i \in DOMAIN items}
           one == <<item>>
           all == one \o items
           k == IF Len(items) < MaxListed THEN Len(items) + 1 ELSE MaxListed
           cut == SubSeq(all, 1, k)
<1>1. items \in Seq(S) /\ one \in Seq(S) /\ Len(one) = 1 /\ MaxListed \in Nat \ {0} /\ Len(items) <= MaxListed
      /\ Len(items) \in Nat /\ \A x \in S : ItemTyped(x)
  BY ArrivalAssumption DEF Listed, IsSequence
<1> HIDE DEF S, one
<1>2. all \in Seq(S) /\ Len(all) = Len(items) + 1
  BY <1>1, ConcatProperties
<1> HIDE DEF all
<1>3. k \in 1..Len(all) /\ k <= MaxListed
  BY <1>1, <1>2
<1> HIDE DEF k
<1>4. \A i \in 1..k : all[i] \in S
  BY <1>2, <1>3
<1>5. cut \in Seq(S) /\ Len(cut) = k
  BY <1>3, <1>4, SubSeqProperties
<1> HIDE DEF cut
<1>6. DOMAIN cut = 1..k /\ \A i \in 1..k : cut[i] \in S
  BY <1>3, <1>5
<1>7. cut = [i \in 1..k |-> cut[i]] /\ k \in Nat
  BY <1>3, <1>5, <1>6
<1>8. IsSequence(cut)
  BY <1>7, SequenceOf
<1>9. Listed(cut)
  BY <1>1, <1>3, <1>5, <1>6, <1>8 DEF Listed
<1> QED BY <1>9 DEF cut, k, all, one

-----------------------------------------------------------------------------
(* Each action keeps them *)

LEMMA SavesTyped ==
    ASSUME ListsTyped, NEW c \in Watchers \cup Handlers, NEW then, Saves(c, then), Listed(items')
    PROVE  DOMAIN calls' = Watchers \cup Handlers /\ \A d \in Watchers \cup Handlers : CallTyped(calls'[d])
<1> DEFINE x == [at |-> "save", then |-> then, list |-> items', mixed |-> Savers \ {c} # {}, robbed |-> FALSE]
           M(d) == [calls[d] EXCEPT !.mixed = TRUE]
<1>1. CallTyped(x)
  BY DEF CallTyped
<1>2. ASSUME NEW d \in Savers PROVE CallTyped(M(d))
  <2>1. d \in Watchers \cup Handlers /\ calls[d].at = "save" /\ {"at", "list", "mixed", "robbed"} \subseteq DOMAIN calls[d]
        /\ Listed(calls[d].list)
    BY DEF Savers, ListsTyped, CallTyped
  <2>2. M(d).at = "save" /\ M(d).list = calls[d].list /\ DOMAIN M(d) = DOMAIN calls[d]
    BY <2>1
  <2> HIDE DEF M
  <2> QED BY <2>1, <2>2 DEF CallTyped
<1>3. /\ DOMAIN calls' = DOMAIN calls
      /\ \A d \in DOMAIN calls : calls'[d] = IF d = c THEN x ELSE IF d \in Savers THEN M(d) ELSE calls[d]
  BY DEF Saves, ListsTyped
<1> HIDE DEF x, M
<1> QED BY <1>1, <1>2, <1>3 DEF ListsTyped

LEMMA OtherCallTyped ==
    ASSUME ListsTyped, NEW c \in Watchers \cup Handlers, NEW x, CallTyped(x), calls' = [calls EXCEPT ![c] = x]
    PROVE  DOMAIN calls' = Watchers \cup Handlers /\ \A d \in Watchers \cup Handlers : CallTyped(calls'[d])
BY DEF ListsTyped

LEMMA SaveEndsTyped == ASSUME ListsTyped, NEW c \in Watchers \cup Handlers, SaveEnds(c) PROVE ListsTyped'
<1> DEFINE next == IF calls[c].then.do = "replace" THEN [at |-> "replace", item |-> calls[c].then.item] ELSE Resting
           R(d) == [calls[d] EXCEPT !.robbed = TRUE]
<1>1. CallTyped(next)
  BY DEF Resting, CallTyped
<1>2. ASSUME NEW d \in Savers PROVE CallTyped(R(d)) /\ Listed(calls[d].list)
  <2>1. d \in Watchers \cup Handlers /\ calls[d].at = "save" /\ {"at", "list", "mixed", "robbed"} \subseteq DOMAIN calls[d]
        /\ Listed(calls[d].list)
    BY DEF Savers, ListsTyped, CallTyped
  <2>2. R(d).at = "save" /\ R(d).list = calls[d].list /\ DOMAIN R(d) = DOMAIN calls[d]
    BY <2>1
  <2> HIDE DEF R
  <2> QED BY <2>1, <2>2 DEF CallTyped
<1>3. /\ DOMAIN calls' = DOMAIN calls
      /\ \A d \in DOMAIN calls : calls'[d] = IF d = c THEN next ELSE IF d \in Savers THEN R(d) ELSE calls[d]
  BY DEF SaveEnds, Robbed, ListsTyped
<1>4. saved' \in FileAfter(c) /\ UNCHANGED <<folder, items, sessions, loaded, made>>
  BY DEF SaveEnds
<1> HIDE DEF next, R
<1>5. Listed(saved'.list)
  <2>1. saved'.list \in {items, <<>>} \cup {calls[d].list : d \in Savers}
    BY <1>4 DEF FileAfter
  <2> QED BY <1>2, <2>1, NothingListed DEF ListsTyped
<1>6. \A d \in Watchers \cup Handlers : CallTyped(calls'[d])
  BY <1>1, <1>2, <1>3 DEF ListsTyped
<1> QED BY <1>3, <1>4, <1>5, <1>6 DEF ListsTyped

\* The list is marked and saved, and nothing else changes but sessions.
LEMMA MarkedAndSaved ==
    ASSUME ListsTyped, NEW c \in Watchers \cup Handlers, NEW then, Saves(c, then), Listed(items'),
           IsSequence(sessions'), Len(sessions') <= MaxTokens, UNCHANGED <<folder, saved, loaded>>, made' \in 0..MaxArrivals
    PROVE  ListsTyped'
BY SavesTyped DEF ListsTyped

LEMMA ListsTypedStep == ListsTyped /\ [ArrivalNext]_arrivalVars => ListsTyped'
<1> SUFFICES ASSUME ListsTyped, [ArrivalNext]_arrivalVars PROVE ListsTyped'
  OBVIOUS
<1>0. /\ Resting.at = "resting" /\ CallTyped(Resting) /\ MaxStamps \in Nat /\ MaxArrivals \in Nat /\ MaxTokens \in Nat
      /\ Listed(items) /\ IsSequence(sessions) /\ Len(sessions) <= MaxTokens /\ made \in 0..MaxArrivals
      /\ folder \in [Files -> 0..MaxStamps] /\ {"processing", "completed", "mapping-required", "failed", "dismissed"} \subseteq Statuses
  BY ArrivalAssumption DEF Resting, CallTyped, ListsTyped, Statuses
<1>1. ASSUME NEW c \in Watchers \cup Handlers, NEW x, CallTyped(x), calls' = [calls EXCEPT ![c] = x],
             UNCHANGED <<folder, items, saved, sessions, loaded, made>>
      PROVE  ListsTyped'
  BY <1>1, OtherCallTyped DEF ListsTyped
<1>2. ASSUME NEW f \in Files, FileArrives(f) PROVE ListsTyped'
  <2>1. folder' \in [Files -> 0..MaxStamps]
    BY <1>0, <1>2 DEF FileArrives
  <2> QED BY <1>2, <2>1 DEF FileArrives, ListsTyped
<1>3. ASSUME NEW f \in Files, NEW c \in Watchers, Notice(c, f) PROVE ListsTyped'
  <2> DEFINE x == [at |-> "inspect", file |-> f, stamp |-> folder[f]]
  <2>1. folder[f] \in 1..MaxStamps
    BY <1>0, <1>3 DEF Notice
  <2>2. CallTyped(x) /\ calls' = [calls EXCEPT ![c] = x]
    BY <1>3, <2>1 DEF Notice, CallTyped
  <2> HIDE DEF x
  <2> QED BY <1>1, <1>3, <2>2 DEF Notice
<1>4. ASSUME NEW c \in Watchers, Inspected(c) PROVE ListsTyped'
  <2> DEFINE item == [id |-> made + 1, file |-> calls[c].file, stamp |-> calls[c].stamp, status |-> "needs-review", version |-> FALSE]
  <2>1. ItemTyped(item)
    BY <1>4 DEF Inspected, ListsTyped, CallTyped, ItemTyped, Statuses
  <2>2. CASE calls' = [calls EXCEPT ![c] = Resting] /\ UNCHANGED <<items, made>>
    BY <1>0, <1>1, <1>4, <2>2 DEF Inspected
  <2>3. CASE /\ items' = SubSeq(<<item>> \o items, 1, IF Len(items) < MaxListed THEN Len(items) + 1 ELSE MaxListed)
             /\ made < MaxArrivals /\ made' = made + 1 /\ ListsAndSaves(c)
    <3> HIDE DEF item
    <3>1. Listed(items')
      BY <1>0, <2>1, <2>3, ItemListed
    <3>2. made' \in 0..MaxArrivals
      BY <1>0, <2>3
    <3> QED BY <1>0, <1>4, <2>3, <3>1, <3>2, MarkedAndSaved DEF Inspected, ListsAndSaves
  <2> QED BY <1>4, <2>2, <2>3 DEF Inspected
<1>5. ASSUME NEW c \in Handlers, NEW n, ApproveArrival(c, n) \/ DismissArrival(c, n) PROVE ListsTyped'
  <2>1. PICK status, then : status \in Statuses /\ items' = Marked(n, status) /\ Saves(c, then)
    BY <1>0, <1>5 DEF ApproveArrival, DismissArrival
  <2>2. Listed(items')
    BY <1>0, <2>1, MarksListed
  <2> QED BY <1>0, <1>5, <2>1, <2>2, MarkedAndSaved DEF ApproveArrival, DismissArrival
<1>6. ASSUME NEW c \in Handlers, ApproveFolder(c) PROVE ListsTyped'
  BY <1>0, <1>6, MarkedAndSaved DEF ApproveFolder
<1>7. ASSUME NEW c \in Handlers, Replaced(c) PROVE ListsTyped'
  <2>1. UNCHANGED <<folder, saved, loaded, made>> /\ \E then : Saves(c, then)
    BY <1>7 DEF Replaced
  <2>2. Listed(items')
    <3>1. PICK n : n = calls[c].item
      OBVIOUS
    <3>2. \/ items' = [i \in DOMAIN items |-> IF items[i].id = n
                          THEN [items[i] EXCEPT !.status = "completed", !.version = TRUE] ELSE items[i]]
          \/ items' = Marked(n, "mapping-required")
          \/ items' = Marked(n, "failed")
      BY <1>7, <3>1 DEF Replaced
    <3>3. CASE items' = Marked(n, "mapping-required") \/ items' = Marked(n, "failed")
      BY <1>0, <3>3, MarksListed
    <3>4. CASE items' = [i \in DOMAIN items |-> IF items[i].id = n
                           THEN [items[i] EXCEPT !.status = "completed", !.version = TRUE] ELSE items[i]]
      BY <1>0, <3>4, MarksListed
    <3> QED BY <3>2, <3>3, <3>4
  <2>3. sessions' = sessions \/ (Len(sessions) < MaxTokens /\ sessions' = Append(sessions, calls[c].item))
    BY <1>7 DEF Replaced
  <2>4. IsSequence(sessions') /\ Len(sessions') <= MaxTokens
    <3>1. Len(sessions) \in Nat
      BY <1>0, SequenceDomain
    <3>2. ASSUME NEW n, Len(sessions) < MaxTokens, sessions' = Append(sessions, n)
          PROVE  IsSequence(sessions') /\ Len(sessions') <= MaxTokens
      BY <1>0, <3>1, <3>2, AppendedTo
    <3> QED BY <1>0, <2>3, <3>2
  <2> QED BY <1>0, <2>1, <2>2, <2>4, MarkedAndSaved
<1>8. ASSUME NEW c \in Handlers, ReplacedUnlisted(c) PROVE ListsTyped'
  BY <1>0, <1>1, <1>8 DEF ReplacedUnlisted
<1>9. ASSUME NEW c \in Handlers, NEW s \in DOMAIN sessions, MapColumns(c, s) PROVE ListsTyped'
  <2>1. IsSequence(sessions') /\ Len(sessions') <= MaxTokens /\ UNCHANGED <<folder, saved, loaded, made>>
    BY <1>0, <1>9, UpdatedAt DEF MapColumns
  <2>2. CASE UNCHANGED <<items, calls>>
    BY <2>1, <2>2 DEF ListsTyped
  <2>3. CASE /\ items' = [i \in DOMAIN items |-> IF items[i].id = sessions[s]
                            THEN [items[i] EXCEPT !.status = "completed", !.version = TRUE] ELSE items[i]]
             /\ Saves(c, [do |-> "return"])
    <3>1. Listed(items')
      BY <1>0, <2>3, MarksListed
    <3> QED BY <1>0, <2>1, <2>3, <3>1, MarkedAndSaved
  <2> QED BY <1>9, <2>2, <2>3 DEF MapColumns
<1>10. CASE ArrivalCrash
  <2>1. /\ DOMAIN calls' = Watchers \cup Handlers /\ \A c \in Watchers \cup Handlers : calls'[c] = Resting
        /\ items' = <<>> /\ sessions' = <<>> /\ loaded' = FALSE /\ UNCHANGED <<folder, saved, made>>
    BY <1>10 DEF ArrivalCrash, ListsTyped
  <2>2. Listed(items') /\ IsSequence(sessions') /\ Len(sessions') <= MaxTokens
    <3>1. Len(sessions') = 0
      BY <2>1, NothingListed
    <3> QED BY <1>0, <2>1, <3>1, NothingListed
  <2>3. \A c \in Watchers \cup Handlers : CallTyped(calls'[c])
    BY <1>0, <2>1
  <2> QED BY <1>0, <2>1, <2>2, <2>3 DEF ListsTyped
<1>11. CASE Load
  <2>1. Listed(saved.list) /\ items' = saved.list /\ loaded' = TRUE /\ UNCHANGED <<folder, saved, calls, sessions, made>>
    BY <1>11 DEF Load, ListsTyped
  <2>2. Listed(items') /\ Listed(saved'.list)
    BY <2>1
  <2> QED BY <2>1, <2>2 DEF ListsTyped
<1>12. CASE UNCHANGED arrivalVars
  BY <1>12 DEF arrivalVars, ListsTyped, CallTyped
<1>13. ASSUME NEW c \in Watchers \cup Handlers, SaveFails(c) PROVE ListsTyped'
  <2>1. CASE calls[c].then.do = "settle"
    <3>1. items' = Marked(calls[c].then.item, "failed") /\ Saves(c, [do |-> "return"])
      BY <1>13, <2>1 DEF SaveFails
    <3>2. Listed(items')
      BY <1>0, <3>1, MarksListed
    <3> QED BY <1>0, <1>13, <3>1, <3>2, MarkedAndSaved DEF SaveFails
  <2>2. CASE calls[c].then.do # "settle"
    BY <1>0, <1>1, <1>13, <2>2 DEF SaveFails
  <2> QED BY <2>1, <2>2
<1> QED
  BY <1>2, <1>3, <1>4, <1>5, <1>6, <1>7, <1>8, <1>9, <1>10, <1>11, <1>12, <1>13, SaveEndsTyped DEF ArrivalNext

LEMMA ListsTypedStart == ArrivalInit => ListsTyped
<1> SUFFICES ASSUME ArrivalInit PROVE ListsTyped
  OBVIOUS
<1>1. folder \in [Files -> 0..MaxStamps] /\ made \in 0..MaxArrivals
  BY ArrivalAssumption DEF ArrivalInit
<1>2. items = <<>> /\ saved.list = <<>> /\ sessions = <<>> /\ loaded = TRUE
  BY DEF ArrivalInit
<1>3. Len(<<>>) <= MaxTokens
  BY ArrivalAssumption, NothingListed
<1>4. DOMAIN calls = Watchers \cup Handlers /\ \A c \in Watchers \cup Handlers : CallTyped(calls[c])
  BY DEF ArrivalInit, Resting, CallTyped
<1> QED BY <1>1, <1>2, <1>3, <1>4, NothingListed DEF ListsTyped

\* The list is never longer than the list is allowed to be, in memory and on the disk, whatever saves mix up, and
\* sessions and items keep to their bounds (FileArrivals.ArrivalTypeOK).
THEOREM ArrivalsTyped == ArrivalSpec => []ArrivalTypeOK
<1>1. ListsTyped => ArrivalTypeOK
  BY DEF ListsTyped, Listed, ItemTyped, CallTyped, ArrivalTypeOK
<1> QED BY <1>1, ListsTypedStart, ListsTypedStep, PTL DEF ArrivalSpec

-----------------------------------------------------------------------------
(***************************************************************************)
(* What makes a replacement that succeeded a failed one                    *)
(* (FileArrivals.FailedChangesNothing is violated): two saves at once, of  *)
(* which one takes the temporary file of the other, or two handlers at     *)
(* work on one item, of which the later one fails. Without either a failed *)
(* item has no version.                                                    *)
(***************************************************************************)

\* The handler c is about to replace the data object with the file of the item n.
Replacing(c, n) ==
    \/ calls[c].at = "replace" /\ calls[c].item = n
    \/ calls[c].at = "save" /\ calls[c].then.do = "replace" /\ calls[c].then.item = n

\* Saves are serialised; an item is one handler's, and not also that of a mapping session.
OneSaveAtATime == \A c, d \in Savers : c = d
OneHandlerAnItem ==
    \A c \in DOMAIN calls, n \in ListedIds : Replacing(c, n) =>
        /\ \A d \in DOMAIN calls : Replacing(d, n) => d = c
        /\ \A s \in DOMAIN sessions : sessions[s] # n

\* A list tells the truth: an item that has a version is completed; items with the same number are alike.
Truthful(list, last) ==
    \A i \in DOMAIN list :
        /\ list[i].id \in 1..last
        /\ list[i].version => list[i].status = "completed"
        /\ \A j \in DOMAIN list : list[j].id = list[i].id /\ list[i].version => list[j].version
NoVersion(list, n) == \A i \in DOMAIN list : list[i].id = n => ~list[i].version

TruthInv ==
    /\ Truthful(items, made) /\ Truthful(saved.list, made)
    /\ \A c \in Savers : /\ DOMAIN calls[c] = {"at", "then", "list", "mixed", "robbed"}
                         /\ ~calls[c].robbed /\ Truthful(calls[c].list, made)
    /\ \A c \in DOMAIN calls : \A n : Replacing(c, n) => NoVersion(items, n)
    /\ ~loaded => sessions = <<>> /\ \A c \in DOMAIN calls : calls[c] = Resting

LEMMA MarksAre ==
    ASSUME Listed(items), NEW n, NEW status
    PROVE  /\ DOMAIN Marked(n, status) = DOMAIN items
           /\ \A i \in DOMAIN items :
                /\ Marked(n, status)[i].id = items[i].id /\ Marked(n, status)[i].version = items[i].version
                /\ Marked(n, status)[i].status = IF items[i].id = n THEN status ELSE items[i].status
<1> DEFINE A(i) == IF items[i].id = n THEN [items[i] EXCEPT !.status = status] ELSE items[i]
<1>1. ASSUME NEW i \in DOMAIN items
      PROVE  /\ A(i).id = items[i].id /\ A(i).version = items[i].version
             /\ A(i).status = IF items[i].id = n THEN status ELSE items[i].status
  <2>1. {"id", "file", "stamp", "status", "version"} \subseteq DOMAIN items[i]
    BY DEF Listed, ItemTyped
  <2> QED BY <2>1
<1>2. Marked(n, status) = [i \in DOMAIN items |-> A(i)]
  BY DEF Marked
<1> HIDE DEF A
<1> QED BY <1>1, <1>2

\* An item without a version may be marked as anything.
LEMMA MarksTruthful ==
    ASSUME Listed(items), Truthful(items, made), NEW n, NEW status, NoVersion(items, n)
    PROVE  /\ Truthful(Marked(n, status), made)
           /\ \A m : NoVersion(items, m) => NoVersion(Marked(n, status), m)
<1> DEFINE new == Marked(n, status)
<1>1. /\ DOMAIN new = DOMAIN items
      /\ \A i \in DOMAIN items : /\ new[i].id = items[i].id /\ new[i].version = items[i].version
                                 /\ new[i].status = IF items[i].id = n THEN status ELSE items[i].status
  BY MarksAre
<1> HIDE DEF new
<1>2. Truthful(new, made) /\ \A m : NoVersion(items, m) => NoVersion(new, m)
  BY <1>1 DEF Truthful, NoVersion
<1> QED BY <1>2 DEF new

\* The items n get their version.
LEMMA CompletedTruthful ==
    ASSUME Listed(items), Truthful(items, made), NEW n,
           items' = [i \in DOMAIN items |-> IF items[i].id = n THEN [items[i] EXCEPT !.status = "completed", !.version = TRUE]
                                            ELSE items[i]]
    PROVE  Truthful(items', made) /\ \A m : m # n /\ NoVersion(items, m) => NoVersion(items', m)
<1> DEFINE A(i) == IF items[i].id = n THEN [items[i] EXCEPT !.status = "completed", !.version = TRUE] ELSE items[i]
<1>1. ASSUME NEW i \in DOMAIN items
      PROVE  /\ A(i).id = items[i].id
             /\ items[i].id = n => A(i).status = "completed" /\ A(i).version = TRUE
             /\ items[i].id # n => A(i) = items[i]
  <2>1. {"id", "file", "stamp", "status", "version"} \subseteq DOMAIN items[i]
    BY DEF Listed, ItemTyped
  <2> QED BY <2>1
<1>2. DOMAIN items' = DOMAIN items /\ \A i \in DOMAIN items : items'[i] = A(i)
  OBVIOUS
<1> HIDE DEF A
<1>3. ASSUME NEW i \in DOMAIN items
      PROVE  /\ items'[i].id = items[i].id /\ items'[i].id = n => items'[i].version = TRUE /\ items'[i].status = "completed"
             /\ items'[i].id # n => items'[i] = items[i]
  BY <1>1, <1>2
<1>4. ASSUME NEW i \in DOMAIN items'
      PROVE  /\ items'[i].id \in 1..made
             /\ items'[i].version => items'[i].status = "completed"
             /\ \A j \in DOMAIN items' : items'[j].id = items'[i].id /\ items'[i].version => items'[j].version
  <2>1. /\ items[i].id \in 1..made
        /\ items[i].version => items[i].status = "completed"
        /\ \A j \in DOMAIN items : items[j].id = items[i].id /\ items[i].version => items[j].version
    BY <1>2 DEF Truthful
  <2>2. CASE items'[i].id = n
    BY <1>2, <1>3, <2>1, <2>2
  <2>3. CASE items'[i].id # n
    BY <1>2, <1>3, <2>1, <2>3
  <2> QED BY <2>2, <2>3
<1>5. Truthful(items', made)
  BY <1>4 DEF Truthful
<1>6. \A m : m # n /\ NoVersion(items, m) => NoVersion(items', m)
  BY <1>2, <1>3 DEF NoVersion
<1> QED BY <1>5, <1>6

\* A new item goes first, and nothing else comes in.
WithFirst(item) == SubSeq(<<item>> \o items, 1, IF Len(items) < MaxListed THEN Len(items) + 1 ELSE MaxListed)
LEMMA FirstOrBefore ==
    ASSUME Listed(items), NEW item
    PROVE  \A i \in DOMAIN WithFirst(item) :
              WithFirst(item)[i] = item \/ \E j \in DOMAIN items : WithFirst(item)[i] = items[j]
<1> DEFINE cut == WithFirst(item)
           S == {item} \cup {items[i] : i \in DOMAIN items}
           one == <<item>>
           all == one \o items
           k == IF Len(items) < MaxListed THEN Len(items) + 1 ELSE MaxListed
<1>0. cut = SubSeq(all, 1, k)
  BY DEF WithFirst
<1>1. items \in Seq(S) /\ one \in Seq(S) /\ Len(one) = 1 /\ MaxListed \in Nat \ {0} /\ Len(items) <= MaxListed
      /\ Len(items) \in Nat
  BY ArrivalAssumption DEF Listed, IsSequence
<1> HIDE DEF S, one
<1>2. all \in Seq(S) /\ Len(all) = Len(items) + 1
  <2>1. one \o items \in Seq(S)
    BY ONLY <1>1, ConcatProperties
  <2>2. Len(one \o items) = Len(one) + Len(items)
    BY ONLY <1>1, ConcatProperties
  <2> QED BY ONLY <1>1, <2>1, <2>2
<1> HIDE DEF all
<1>3. k \in 1..Len(all)
  BY <1>1, <1>2
<1> HIDE DEF k, cut
<1>4. \A i \in 1..k : all[i] \in S
  BY <1>2, <1>3
<1>6. SubSeq(all, 1, k) \in Seq(S) /\ Len(SubSeq(all, 1, k)) = k
  BY ONLY <1>3, <1>4, SubSeqProperties
<1>5. cut \in Seq(S) /\ Len(cut) = k
  BY ONLY <1>0, <1>6
<1>7. \A i \in DOMAIN cut : cut[i] = item \/ \E j \in DOMAIN items : cut[i] = items[j]
  BY <1>5 DEF S
<1> QED BY <1>7 DEF cut

\* A new item comes under a number of its own.
LEMMA NewTruthful ==
    ASSUME Listed(items), Truthful(items, made), made \in Nat, NEW item, item.id = made + 1, ~item.version,
           items' = SubSeq(<<item>> \o items, 1, IF Len(items) < MaxListed THEN Len(items) + 1 ELSE MaxListed)
    PROVE  Truthful(items', made + 1) /\ \A m : NoVersion(items, m) => NoVersion(items', m)
<1>1. items' = WithFirst(item)
  BY DEF WithFirst
<1>2. \A i \in DOMAIN WithFirst(item) :
         WithFirst(item)[i] = item \/ \E j \in DOMAIN items : WithFirst(item)[i] = items[j]
  BY FirstOrBefore
<1>6. \A i \in DOMAIN items' : items'[i] = item \/ \E j \in DOMAIN items : items'[i] = items[j]
  BY ONLY <1>1, <1>2
<1>7. \A i \in DOMAIN items : items[i].id \in 1..made
  BY DEF Truthful
<1>8. ASSUME NEW i \in DOMAIN items'
      PROVE  /\ items'[i].id \in 1..(made + 1)
             /\ items'[i].version => items'[i].status = "completed"
             /\ \A j \in DOMAIN items' : items'[j].id = items'[i].id /\ items'[i].version => items'[j].version
  <2>1. CASE items'[i] = item
    <3>1. ASSUME NEW j \in DOMAIN items', items'[j].id = made + 1 PROVE items'[j] = item
      <4>1. ASSUME NEW q \in DOMAIN items, items'[j] = items[q] PROVE FALSE
        <5>1. items[q].id \in 1..made /\ items[q].id = made + 1
          BY <1>7, <3>1, <4>1
        <5> QED BY <5>1
      <4> QED BY <1>6, <4>1
    <3>2. ~item.version /\ item.id \in 1..(made + 1)
      OBVIOUS
    <3> QED BY <2>1, <3>1, <3>2
  <2>2. ASSUME NEW p \in DOMAIN items, items'[i] = items[p]
        PROVE  /\ items'[i].id \in 1..(made + 1)
               /\ items'[i].version => items'[i].status = "completed"
               /\ \A j \in DOMAIN items' : items'[j].id = items'[i].id /\ items'[i].version => items'[j].version
    <3>1. /\ items[p].id \in 1..made
          /\ items[p].version => items[p].status = "completed"
          /\ \A j \in DOMAIN items : items[j].id = items[p].id /\ items[p].version => items[j].version
      BY DEF Truthful
    <3>2. items[p].id \in 1..(made + 1) /\ items[p].id # made + 1
      BY <3>1
    <3>3. ASSUME NEW j \in DOMAIN items', items'[j].id = items'[i].id, items'[i].version PROVE items'[j].version
      <4>1. PICK q \in DOMAIN items : items'[j] = items[q]
        BY <1>6, <2>2, <3>2, <3>3
      <4> QED BY <2>2, <3>1, <3>3, <4>1
    <3> QED BY <2>2, <3>1, <3>2, <3>3
  <2> QED BY <1>6, <2>1, <2>2
<1>9. Truthful(items', made + 1)
  BY <1>8 DEF Truthful
<1>10. \A m : NoVersion(items, m) => NoVersion(items', m)
  BY <1>6 DEF NoVersion
<1> QED BY <1>9, <1>10

LEMMA LaterTruthful ==
    ASSUME NEW list, NEW n \in Nat, NEW m \in Nat, n <= m, Truthful(list, n) PROVE Truthful(list, m)
BY DEF Truthful

\* The list is saved as it now is: the call that saves holds what it goes on with, the others hold what they held.
LEMMA SavesTruth ==
    ASSUME TruthInv, ListsTyped, NEW c \in Watchers \cup Handlers, NEW then, Saves(c, then), loaded, UNCHANGED <<saved, loaded>>,
           made' \in Nat, made <= made', Truthful(items', made'),
           then.do = "replace" => NoVersion(items', then.item),
           \A d \in DOMAIN calls : d # c => \A n : Replacing(d, n) => NoVersion(items', n)
    PROVE  TruthInv'
<1> DEFINE x == [at |-> "save", then |-> then, list |-> items', mixed |-> Savers \ {c} # {}, robbed |-> FALSE]
           M(d) == [calls[d] EXCEPT !.mixed = TRUE]
           Fields == {"at", "then", "list", "mixed", "robbed"}
<1>1. x.at = "save" /\ x.then = then /\ x.list = items' /\ ~x.robbed /\ DOMAIN x = Fields
  OBVIOUS
<1>2. ASSUME NEW d \in Savers
      PROVE  /\ M(d).at = "save" /\ M(d).then = calls[d].then /\ M(d).list = calls[d].list /\ M(d).robbed = calls[d].robbed
             /\ DOMAIN M(d) = Fields /\ ~calls[d].robbed /\ Truthful(calls[d].list, made)
  BY DEF TruthInv, Savers
<1>3. /\ DOMAIN calls' = DOMAIN calls /\ c \in DOMAIN calls
      /\ \A d \in DOMAIN calls : calls'[d] = IF d = c THEN x ELSE IF d \in Savers THEN M(d) ELSE calls[d]
  BY DEF Saves, ListsTyped
<1>4. made \in Nat
  BY ArrivalAssumption DEF ListsTyped
<1> HIDE DEF x, M, Fields
<1>5. ASSUME NEW d \in Savers'
      PROVE  DOMAIN calls'[d] = Fields /\ ~calls'[d].robbed /\ Truthful(calls'[d].list, made')
  <2>1. d \in DOMAIN calls /\ calls'[d].at = "save"
    BY <1>3 DEF Savers
  <2>2. CASE d = c
    BY <1>1, <1>3, <2>1, <2>2
  <2>3. CASE d # c
    <3>1. d \in Savers /\ calls'[d] = M(d)
      BY <1>3, <2>1, <2>3 DEF Savers
    <3>2. Truthful(calls[d].list, made')
      BY <1>2, <1>4, <3>1, LaterTruthful
    <3> QED BY <1>2, <3>1, <3>2
  <2> QED BY <2>2, <2>3
<1>6. ASSUME NEW d \in DOMAIN calls', NEW n, Replacing(d, n)' PROVE NoVersion(items', n)
  <2>1. CASE d = c
    BY <1>1, <1>3, <1>6, <2>1 DEF Replacing
  <2>2. CASE d # c /\ d \in Savers
    <3>1. calls[d].at = "save" /\ calls'[d] = M(d)
      BY <1>3, <1>6, <2>2 DEF Savers
    <3>2. Replacing(d, n)
      BY <1>2, <1>6, <2>2, <3>1 DEF Replacing
    <3> QED BY <1>3, <1>6, <2>2, <3>2
  <2>3. CASE d # c /\ d \notin Savers
    <3>1. calls'[d] = calls[d]
      BY <1>3, <1>6, <2>3
    <3>2. Replacing(d, n)
      BY <1>6, <3>1 DEF Replacing
    <3> QED BY <1>3, <1>6, <2>3, <3>2
  <2> QED BY <2>1, <2>2, <2>3
<1>7. Truthful(saved'.list, made')
  BY <1>4, LaterTruthful DEF TruthInv
<1>8. \A d \in Savers' : DOMAIN calls'[d] = {"at", "then", "list", "mixed", "robbed"} /\ ~calls'[d].robbed
                         /\ Truthful(calls'[d].list, made')
  BY <1>5 DEF Fields
<1>9. \A d \in DOMAIN calls' : \A n : Replacing(d, n)' => NoVersion(items, n)'
  BY <1>6 DEF NoVersion
<1>10. Truthful(items, made)' /\ Truthful(saved.list, made)'
  BY <1>7 DEF Truthful
<1>11. \A d \in Savers' : Truthful(calls[d].list, made)'
  BY <1>8 DEF Truthful
<1> QED BY <1>8, <1>9, <1>10, <1>11 DEF TruthInv

\* A call goes on, to nothing that saves or replaces.
LEMMA OtherCallTruth ==
    ASSUME TruthInv, ListsTyped, NEW c \in Watchers \cup Handlers, NEW x, calls' = [calls EXCEPT ![c] = x], loaded,
           x.at \notin {"save", "replace"}, UNCHANGED <<items, saved, sessions, loaded, made>>
    PROVE  TruthInv'
<1>1. /\ DOMAIN calls' = DOMAIN calls /\ calls'[c].at \notin {"save", "replace"}
      /\ \A d \in DOMAIN calls : d # c => calls'[d] = calls[d]
  BY DEF ListsTyped
<1>2. \A d \in Savers' : d \in Savers /\ calls'[d] = calls[d]
  BY <1>1 DEF Savers
<1>3. \A d \in DOMAIN calls : \A n : Replacing(d, n)' => Replacing(d, n)
  BY <1>1 DEF Replacing
<1> QED BY <1>1, <1>2, <1>3 DEF TruthInv, Truthful, NoVersion

\* A save that is the only one ends: nobody loses its temporary file.
LEMMA SaveEndsTruth == ASSUME TruthInv, ListsTyped, OneSaveAtATime, NEW c \in Watchers \cup Handlers, SaveEnds(c) PROVE TruthInv'
<1> DEFINE next == IF calls[c].then.do = "replace" THEN [at |-> "replace", item |-> calls[c].then.item] ELSE Resting
<1>1. c \in DOMAIN calls /\ c \in Savers /\ \A d \in DOMAIN calls : d # c => d \notin Savers
  BY DEF SaveEnds, ListsTyped, Savers, OneSaveAtATime
<1>2. /\ DOMAIN calls' = DOMAIN calls /\ calls'[c] = next /\ \A d \in DOMAIN calls : d # c => calls'[d] = calls[d]
      /\ saved' \in FileAfter(c) /\ UNCHANGED <<folder, items, sessions, loaded, made>>
  BY <1>1 DEF SaveEnds, Robbed
<1>3. next.at # "save" /\ (next.at = "replace" => calls[c].then.do = "replace" /\ next.item = calls[c].then.item)
  BY DEF Resting
<1> HIDE DEF next
<1>4. Savers' = {}
  BY <1>1, <1>2, <1>3 DEF Savers
<1>5. Truthful(<<>>, made)
  BY DEF Truthful
<1>6. Truthful(saved'.list, made)
  <2>1. saved'.list \in {items, <<>>} \cup {calls[d].list : d \in Savers}
    BY <1>2 DEF FileAfter
  <2> QED BY <1>5, <2>1 DEF TruthInv
<1>7. ASSUME NEW d \in DOMAIN calls, NEW n, Replacing(d, n)' PROVE Replacing(d, n)
  <2>1. CASE d = c
    BY <1>1, <1>2, <1>3, <1>7, <2>1 DEF Replacing, Savers
  <2>2. CASE d # c
    BY <1>2, <1>7, <2>2 DEF Replacing
  <2> QED BY <2>1, <2>2
<1>8. loaded
  BY <1>1 DEF TruthInv, Savers, Resting
<1>9. Truthful(items, made)' /\ Truthful(saved.list, made)'
  BY <1>2, <1>6 DEF TruthInv, Truthful
<1>10. \A d \in DOMAIN calls' : \A n : Replacing(d, n)' => NoVersion(items, n)'
  BY <1>2, <1>7 DEF TruthInv, NoVersion
<1> QED BY <1>2, <1>4, <1>8, <1>9, <1>10 DEF TruthInv

LEMMA TruthOfItems ==
    ASSUME TruthInv, ListsTyped PROVE Listed(items) /\ Truthful(items, made) /\ made \in Nat
BY ArrivalAssumption DEF ListsTyped, TruthInv

\* The items n were marked without a version, and the list is saved.
LEMMA MarkedTruth ==
    ASSUME TruthInv, ListsTyped, NEW c \in Watchers \cup Handlers, NEW n, NEW status, NEW then, NoVersion(items, n),
           items' = Marked(n, status), Saves(c, then), then.do = "replace" => then.item = n, loaded,
           UNCHANGED <<saved, loaded, made>>
    PROVE  TruthInv'
<1>1. Listed(items) /\ Truthful(items, made) /\ made \in Nat
  BY TruthOfItems
<1>2. Truthful(items', made) /\ \A m : NoVersion(items, m) => NoVersion(items', m)
  BY <1>1, MarksTruthful
<1>3. \A d \in DOMAIN calls : \A m : Replacing(d, m) => NoVersion(items', m)
  BY <1>2 DEF TruthInv
<1>4. then.do = "replace" => NoVersion(items', then.item)
  BY <1>2
<1>5. made' \in Nat /\ made <= made' /\ Truthful(items', made') /\ UNCHANGED <<saved, loaded>>
  <2>1. made' = made /\ UNCHANGED <<saved, loaded>>
    OBVIOUS
  <2> QED BY ONLY <1>1, <1>2, <2>1
<1> QED BY <1>3, <1>4, <1>5, SavesTruth

\* The items n got their version, at which no other call is at work, and the list is saved.
LEMMA CompletedTruth ==
    ASSUME TruthInv, ListsTyped, NEW c \in Watchers \cup Handlers, NEW n, NEW then, then.do # "replace", Saves(c, then), loaded,
           items' = [i \in DOMAIN items |-> IF items[i].id = n THEN [items[i] EXCEPT !.status = "completed", !.version = TRUE]
                                            ELSE items[i]],
           \A d \in DOMAIN calls : Replacing(d, n) => d = c, UNCHANGED <<saved, loaded, made>>
    PROVE  TruthInv'
<1>1. Listed(items) /\ Truthful(items, made) /\ made \in Nat
  BY TruthOfItems
<1>2. Truthful(items', made) /\ \A m : m # n /\ NoVersion(items, m) => NoVersion(items', m)
  BY <1>1, CompletedTruthful
<1>3. \A d \in DOMAIN calls : d # c => \A m : Replacing(d, m) => NoVersion(items', m)
  BY <1>2 DEF TruthInv
<1>5. made' \in Nat /\ made <= made' /\ Truthful(items', made') /\ UNCHANGED <<saved, loaded>>
  <2>1. made' = made /\ UNCHANGED <<saved, loaded>>
    OBVIOUS
  <2> QED BY ONLY <1>1, <1>2, <2>1
<1> QED BY <1>3, <1>5, SavesTruth

\* What has not been completed or dismissed has no version.
LEMMA OpenHasNone ==
    ASSUME TruthInv, NEW n \in ListedIds, ItemOf(n).status # "completed" PROVE NoVersion(items, n)
<1>1. PICK k \in DOMAIN items : items[k].id = n
  BY DEF ListedIds
<1> DEFINE k0 == CHOOSE i \in DOMAIN items : items[i].id = n
<1>2. k0 \in DOMAIN items /\ items[k0].id = n /\ ItemOf(n) = items[k0]
  BY <1>1 DEF ItemOf
<1> HIDE DEF k0
<1>3. ~items[k0].version
  BY <1>2 DEF TruthInv, Truthful
<1> QED BY <1>2, <1>3 DEF TruthInv, Truthful, NoVersion

LEMMA TruthStep ==
    TruthInv /\ ListsTyped /\ OneSaveAtATime /\ OneHandlerAnItem /\ [ArrivalNext]_arrivalVars => TruthInv'
<1> SUFFICES ASSUME TruthInv, ListsTyped, OneSaveAtATime, OneHandlerAnItem, [ArrivalNext]_arrivalVars PROVE TruthInv'
  OBVIOUS
<1>0. /\ Listed(items) /\ Truthful(items, made) /\ made \in Nat /\ Resting.at = "resting" /\ DOMAIN calls = Watchers \cup Handlers
      /\ \A c \in DOMAIN calls : calls[c] # Resting => loaded
  BY ArrivalAssumption DEF ListsTyped, TruthInv, Resting
<1>1. CASE UNCHANGED <<items, saved, calls, sessions, loaded, made>>
  BY <1>1 DEF TruthInv, Truthful, NoVersion, Replacing, Savers
<1>2. ASSUME NEW f \in Files, FileArrives(f) PROVE TruthInv'
  BY <1>1, <1>2 DEF FileArrives
<1>3. ASSUME NEW f \in Files, NEW c \in Watchers, Notice(c, f) PROVE TruthInv'
  <2> DEFINE x == [at |-> "inspect", file |-> f, stamp |-> folder[f]]
  <2>1. x.at \notin {"save", "replace"} /\ calls' = [calls EXCEPT ![c] = x]
    BY <1>3 DEF Notice
  <2> HIDE DEF x
  <2> QED BY <1>3, <2>1, OtherCallTruth DEF Notice
<1>4. ASSUME NEW c \in Watchers, Inspected(c) PROVE TruthInv'
  <2> DEFINE item == [id |-> made + 1, file |-> calls[c].file, stamp |-> calls[c].stamp, status |-> "needs-review", version |-> FALSE]
  <2>1. item.id = made + 1 /\ ~item.version /\ loaded
    BY <1>0, <1>4 DEF Inspected
  <2>2. CASE calls' = [calls EXCEPT ![c] = Resting] /\ UNCHANGED <<items, made>>
    BY <1>0, <1>4, <2>1, <2>2, OtherCallTruth DEF Inspected
  <2>3. CASE /\ items' = SubSeq(<<item>> \o items, 1, IF Len(items) < MaxListed THEN Len(items) + 1 ELSE MaxListed)
             /\ made < MaxArrivals /\ made' = made + 1 /\ ListsAndSaves(c)
    <3> HIDE DEF item
    <3>1. Truthful(items', made + 1) /\ \A m : NoVersion(items, m) => NoVersion(items', m)
      BY <1>0, <2>1, <2>3, NewTruthful
    <3>2. \A d \in DOMAIN calls : \A m : Replacing(d, m) => NoVersion(items', m)
      BY <3>1 DEF TruthInv
    <3>3. made' \in Nat /\ made <= made' /\ Truthful(items', made')
      BY <1>0, <2>3, <3>1
    <3>4. PICK then : then = [do |-> "return"]
      OBVIOUS
    <3>5. then.do # "replace" /\ Saves(c, then)
      BY <2>3, <3>4 DEF ListsAndSaves
    <3> QED BY <1>4, <2>1, <3>2, <3>3, <3>5, SavesTruth DEF Inspected
  <2> QED BY <1>4, <2>2, <2>3 DEF Inspected
<1>5. ASSUME NEW c \in Handlers, NEW n \in ListedIds, ApproveArrival(c, n) PROVE TruthInv'
  <2>1. NoVersion(items, n)
    BY <1>5, OpenHasNone DEF ApproveArrival
  <2>2. PICK then : then = [do |-> "replace", item |-> n]
    OBVIOUS
  <2>3. then.item = n /\ Saves(c, then)
    BY <1>5, <2>2 DEF ApproveArrival
  <2> QED BY <1>5, <2>1, <2>3, MarkedTruth DEF ApproveArrival
<1>6. ASSUME NEW c \in Handlers, NEW n \in ListedIds, DismissArrival(c, n) PROVE TruthInv'
  <2>1. NoVersion(items, n)
    BY <1>6, OpenHasNone DEF DismissArrival
  <2>2. PICK then : then = [do |-> "return"]
    OBVIOUS
  <2>3. then.do # "replace" /\ Saves(c, then)
    BY <1>6, <2>2 DEF DismissArrival
  <2> QED BY <1>6, <2>1, <2>3, MarkedTruth DEF DismissArrival
<1>7. ASSUME NEW c \in Handlers, ApproveFolder(c) PROVE TruthInv'
  <2>1. PICK then : then = [do |-> "return"]
    OBVIOUS
  <2>2. then.do # "replace" /\ Saves(c, then) /\ items' = items /\ made' = made /\ loaded /\ UNCHANGED <<saved, loaded>>
    BY <1>7, <2>1 DEF ApproveFolder
  <2>3. \A d \in DOMAIN calls : d # c => \A n : Replacing(d, n) => NoVersion(items', n)
    BY <2>2 DEF TruthInv
  <2>4. Truthful(items', made') /\ made' \in Nat /\ made <= made'
    BY <1>0, <2>2
  <2> QED BY <2>2, <2>3, <2>4, SavesTruth
<1>8. ASSUME NEW c \in Handlers, Replaced(c) PROVE TruthInv'
  <2>1. PICK n \in ListedIds : n = calls[c].item
    BY <1>8 DEF Replaced
  <2>2. Replacing(c, n) /\ loaded /\ UNCHANGED <<saved, loaded, made>>
    BY <1>0, <1>8, <2>1 DEF Replaced, Replacing
  <2>3. NoVersion(items, n) /\ \A d \in DOMAIN calls : Replacing(d, n) => d = c
    BY <1>0, <2>2 DEF TruthInv, OneHandlerAnItem
  <2>4. ASSUME NEW status, NEW then, then.do # "replace", items' = Marked(n, status), Saves(c, then) PROVE TruthInv'
    BY <2>2, <2>3, <2>4, MarkedTruth
  <2>5. ASSUME NEW then, then.do # "replace", Saves(c, then),
               items' = [i \in DOMAIN items |-> IF items[i].id = n THEN [items[i] EXCEPT !.status = "completed", !.version = TRUE]
                                                ELSE items[i]]
        PROVE  TruthInv'
    BY <2>2, <2>3, <2>5, CompletedTruth
  <2>6. [do |-> "return"].do # "replace" /\ [do |-> "settle", item |-> n].do # "replace"
    OBVIOUS
  <2>7. \/ /\ items' = [i \in DOMAIN items |-> IF items[i].id = n
                           THEN [items[i] EXCEPT !.status = "completed", !.version = TRUE] ELSE items[i]]
           /\ Saves(c, [do |-> "settle", item |-> n])
        \/ items' = Marked(n, "mapping-required") /\ Saves(c, [do |-> "settle", item |-> n])
        \/ items' = Marked(n, "failed") /\ Saves(c, [do |-> "return"])
    BY <1>8, <2>1 DEF Replaced
  <2>8. CASE /\ items' = [i \in DOMAIN items |-> IF items[i].id = n
                            THEN [items[i] EXCEPT !.status = "completed", !.version = TRUE] ELSE items[i]]
             /\ Saves(c, [do |-> "settle", item |-> n])
    BY <2>5, <2>6, <2>8
  <2>9. CASE items' = Marked(n, "mapping-required") /\ Saves(c, [do |-> "settle", item |-> n])
    BY <2>4, <2>6, <2>9
  <2>10. CASE items' = Marked(n, "failed") /\ Saves(c, [do |-> "return"])
    BY <2>4, <2>6, <2>10
  <2> QED BY <2>7, <2>8, <2>9, <2>10
<1>9. ASSUME NEW c \in Handlers, ReplacedUnlisted(c) PROVE TruthInv'
  <2>1. loaded
    BY <1>0, <1>9 DEF ReplacedUnlisted
  <2> QED BY <1>0, <1>9, <2>1, OtherCallTruth DEF ReplacedUnlisted
<1>10. ASSUME NEW c \in Handlers, NEW s \in DOMAIN sessions, MapColumns(c, s) PROVE TruthInv'
  <2>0. DOMAIN <<>> = {}
    OBVIOUS
  <2>1. loaded /\ UNCHANGED <<saved, loaded, made>>
    <3>1. sessions # <<>>
      BY <1>10, <2>0
    <3> QED BY <1>10, <3>1 DEF MapColumns, TruthInv
  <2>2. CASE UNCHANGED <<items, calls>>
    BY <2>1, <2>2 DEF TruthInv, Truthful, NoVersion, Replacing, Savers
  <2>3. CASE /\ sessions[s] \in ListedIds
             /\ items' = [i \in DOMAIN items |-> IF items[i].id = sessions[s]
                            THEN [items[i] EXCEPT !.status = "completed", !.version = TRUE] ELSE items[i]]
             /\ Saves(c, [do |-> "return"])
    <3>1. \A d \in DOMAIN calls : Replacing(d, sessions[s]) => d = c
      BY <2>3 DEF OneHandlerAnItem
    <3>2. PICK then : then = [do |-> "return"]
      OBVIOUS
    <3>3. then.do # "replace" /\ Saves(c, then)
      BY <2>3, <3>2
    <3> QED BY <2>1, <2>3, <3>1, <3>3, CompletedTruth
  <2> QED BY <1>10, <2>2, <2>3 DEF MapColumns
<1>11. CASE ArrivalCrash
  <2>1. /\ DOMAIN calls' = DOMAIN calls /\ \A c \in DOMAIN calls : calls'[c] = Resting
        /\ items' = <<>> /\ sessions' = <<>> /\ UNCHANGED <<saved, made>>
    BY <1>11 DEF ArrivalCrash
  <2>2. Truthful(items', made')
    BY <2>1 DEF Truthful
  <2>3. Savers' = {} /\ \A c \in DOMAIN calls' : \A n : ~Replacing(c, n)'
    BY <1>0, <2>1 DEF Savers, Replacing
  <2>4. Truthful(items, made)' /\ Truthful(saved.list, made)'
    BY <2>1, <2>2 DEF TruthInv, Truthful
  <2> QED BY <2>1, <2>3, <2>4 DEF TruthInv
<1>12. CASE Load
  <2>1. /\ sessions = <<>> /\ \A c \in DOMAIN calls : calls[c] = Resting
        /\ items' = saved.list /\ loaded' = TRUE /\ UNCHANGED <<saved, calls, made>>
    BY <1>12 DEF Load, TruthInv
  <2>2. Savers' = {} /\ \A c \in DOMAIN calls' : \A n : ~Replacing(c, n)'
    BY <1>0, <2>1 DEF Savers, Replacing
  <2>3. Truthful(items, made)' /\ Truthful(saved.list, made)'
    BY <2>1 DEF TruthInv, Truthful
  <2> QED BY <2>1, <2>2, <2>3 DEF TruthInv
<1>13. CASE UNCHANGED arrivalVars
  BY <1>1, <1>13 DEF arrivalVars
<1>14. ASSUME NEW c \in Watchers \cup Handlers, SaveFails(c) PROVE FALSE
  BY <1>0, <1>14 DEF SaveFails, TruthInv, Savers
<1> QED
  BY <1>2, <1>3, <1>4, <1>5, <1>6, <1>7, <1>8, <1>9, <1>10, <1>11, <1>12, <1>13, <1>14, SaveEndsTruth DEF ArrivalNext

\* As long as no two saves overlap and an item is one handler's, what is said to have failed made no version
\* (FileArrivals.FailedChangesNothing), through refusals, mappings, stops and restarts. Both conditions are needed:
\* the run false_failure shows the first, and two approvals of one item, of which the later one fails, the second.
THEOREM FailuresAreTrue == ArrivalSpec /\ [](OneSaveAtATime /\ OneHandlerAnItem) => []FailedChangesNothing
<1>1. ArrivalInit => TruthInv
  <2> SUFFICES ASSUME ArrivalInit PROVE TruthInv
    OBVIOUS
  <2>1. items = <<>> /\ saved.list = <<>> /\ loaded /\ \A c \in DOMAIN calls : calls[c] = Resting
    BY DEF ArrivalInit
  <2>2. Truthful(<<>>, made)
    BY DEF Truthful
  <2>3. Savers = {} /\ \A c \in DOMAIN calls : \A n : ~Replacing(c, n)
    BY <2>1 DEF Savers, Replacing, Resting
  <2> QED BY <2>1, <2>2, <2>3 DEF TruthInv
<1>2. TruthInv => FailedChangesNothing
  BY DEF TruthInv, Truthful, FailedChangesNothing
<1> QED BY <1>1, <1>2, ListsTypedStart, ListsTypedStep, TruthStep, PTL DEF ArrivalSpec
=============================================================================
