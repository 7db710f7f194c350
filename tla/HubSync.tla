------------------------------ MODULE HubSync ------------------------------
(***************************************************************************)
(* Encrypted synchronisation of workflow definitions: one device           *)
(* (apps/desktop/src/main/hub-sync-service.ts), the Hub (services/hub) and  *)
(* the network between them.  The person queues definitions and deletions; *)
(* a flush, of the scheduler or of the person, pushes what is queued, one  *)
(* request after the other; a pull copies what the Hub holds to the inbox. *)
(* Requests and answers get lost or come late, other devices push, the     *)
(* person disconnects and connects to another tenant, and the application  *)
(* may stop between any two of its file writes.  A content is the member   *)
(* of a small set; encryption, roles and the audit chain are left out.     *)
(***************************************************************************)
EXTENDS Naturals, Sequences, FiniteSets

CONSTANTS
    Tenants,      \* the tenants the device may be connected to
    Shared,       \* those that have other devices, too
    Objects,      \* the workflows that are synchronised
    Contents,     \* what a definition may say
    Flushers,     \* who flushes: the scheduler, the person
    MaxAttempts,  \* the attempts an item of the queue has
    MaxVersions, MaxOperations,  \* the limits of the Hub, for each tenant
    PageLimit,    \* the objects of a page of a pull
    MaxQueued,    \* bound: the items of the queue
    Nobody        \* no tenant

ASSUME HubAssumption ==
    /\ MaxAttempts \in Nat \ {0} /\ MaxVersions \in Nat /\ MaxOperations \in Nat
    /\ PageLimit \in Nat \ {0} /\ MaxQueued \in Nat
    /\ Shared \subseteq Tenants /\ Nobody \notin Tenants /\ "deleted" \notin Contents

VARIABLES
    hub,      \* what the Hub keeps of each tenant
    device,   \* what the device keeps
    flush,    \* the flushes under way
    puller,   \* the pull under way
    late,     \* requests nobody waits for any more, which may still arrive
    homes     \* the tenants the device was ever connected to (for the properties)
hubVars == <<hub, device, flush, puller, late, homes>>

Bodies == Contents \cup {"deleted"}
Error  == [kind |-> "error", version |-> 0]
NoFlush   == [phase |-> "idle", at |-> 0, to |-> Nobody, verdict |-> Error]
NoPull == [phase |-> "idle", tenant |-> Nobody, to |-> Nobody, page |-> <<>>, next |-> 0, more |-> FALSE]
QueueStatuses == {"pending", "syncing", "succeeded", "conflict", "failed", "discarded"}

HubTypeOK ==
    /\ \A t \in Tenants : Len(hub[t].objects) <= MaxVersions /\ Cardinality(hub[t].results) <= MaxOperations
    /\ device.tenant \in Tenants \cup {Nobody} /\ device.catalog \in [Objects -> 0..MaxVersions]
    /\ \A i \in DOMAIN device.queue :
         LET x == device.queue[i] IN
         /\ x.status \in QueueStatuses /\ x.attempts \in 0..MaxAttempts /\ x.op.object \in Objects /\ x.op.content \in Bodies
    /\ \A f \in Flushers : flush[f].phase \in {"idle", "sent", "answered"} /\ flush[f].at \in 0..Len(device.queue)

HubInit ==
    /\ hub = [t \in Tenants |-> [objects |-> <<>>, results |-> {}]]
    /\ device = [tenant |-> Nobody, queue |-> <<>>, catalog |-> [o \in Objects |-> 0], cursor |-> 0, inbox |-> {}]
    /\ flush = [f \in Flushers |-> NoFlush] /\ puller = NoPull
    /\ late = {} /\ homes = {}

-----------------------------------------------------------------------------
(* The Hub *)

HeldVersions(t, o) == {i \in DOMAIN hub[t].objects : hub[t].objects[i].object = o}
\* The version the Hub holds of an object: the last one, 0 if there is none.
Current(t, o) == IF HeldVersions(t, o) = {} THEN 0
                 ELSE hub[t].objects[CHOOSE i \in HeldVersions(t, o) : \A j \in HeldVersions(t, o) : j <= i].version
Prior(t, op)  == {r \in hub[t].results : r.id = op.id}

\* Mutant: the operations of the past are forgotten.
VerdictAnew(t, op) ==
    IF op.tenant # t THEN Error
    ELSE IF Prior(t, op) = {} /\ Cardinality(hub[t].results) >= MaxOperations THEN Error
    ELSE IF Current(t, op.object) # op.base THEN [kind |-> "conflict", version |-> Current(t, op.object)]
    ELSE IF Len(hub[t].objects) >= MaxVersions THEN Error
    ELSE [kind |-> "accepted", version |-> op.base + 1]

\* The answer to a push, and what the Hub keeps afterwards.
Verdict(t, op) ==
    IF op.tenant # t THEN Error
    ELSE IF Prior(t, op) # {} THEN (CHOOSE r \in Prior(t, op) : TRUE).verdict
    ELSE IF Cardinality(hub[t].results) >= MaxOperations THEN Error
    ELSE IF Current(t, op.object) # op.base THEN [kind |-> "conflict", version |-> Current(t, op.object)]
    ELSE IF Len(hub[t].objects) >= MaxVersions THEN Error
    ELSE [kind |-> "accepted", version |-> op.base + 1]

HubAfter(t, op, v) ==
    IF v = Error \/ Prior(t, op) # {} THEN hub
    ELSE [hub EXCEPT ![t].results = @ \cup {[id |-> op.id, verdict |-> v]},
                     ![t].objects = IF v.kind = "conflict" THEN @
                                    ELSE Append(@, [id |-> op.id, object |-> op.object, version |-> v.version,
                                                    content |-> op.content])]
Push(t, op) == hub' = HubAfter(t, op, Verdict(t, op))

\* Another device pushes a version on top of the one it knows, which is the last one.
OtherPush(t, o, c) ==
    /\ Len(hub[t].objects) < MaxVersions /\ Cardinality(hub[t].results) < MaxOperations
    /\ LET op == [id |-> <<0, Cardinality(hub[t].results)>>, tenant |-> t, object |-> o, base |-> Current(t, o), content |-> c]
       IN  hub' = HubAfter(t, op, [kind |-> "accepted", version |-> op.base + 1])
    /\ UNCHANGED <<device, flush, puller, late, homes>>

-----------------------------------------------------------------------------
(* The device *)

\* What a start finds: work that was under way is pending again.
Recovered(d) == [d EXCEPT !.queue = [i \in DOMAIN d.queue |->
                    IF d.queue[i].status = "syncing" THEN [d.queue[i] EXCEPT !.status = "pending"] ELSE d.queue[i]]]
InFlight == {device.queue[flush[f].at].op : f \in {g \in Flushers : flush[g].phase = "sent" /\ flush[g].to # Nobody}}
\* The application stops when its files hold d, and starts again; requests that were sent may still arrive.
StopsAt(d) ==
    /\ device' = Recovered(d)
    /\ flush' = [f \in Flushers |-> NoFlush] /\ puller' = NoPull /\ late' = late \cup InFlight
    /\ UNCHANGED <<hub, homes>>
Crash == StopsAt(device)

Configure(t) ==
    /\ device' = [device EXCEPT !.tenant = t] /\ homes' = homes \cup {t}
    /\ UNCHANGED <<hub, flush, puller, late>>
Disconnect ==
    /\ device' = [device EXCEPT !.tenant = Nobody]
    /\ UNCHANGED <<hub, flush, puller, late, homes>>

Queued(o, c) == {i \in DOMAIN device.queue : device.queue[i].op.object = o /\ device.queue[i].op.content = c}
Enqueue(o, c) ==
    /\ device.tenant # Nobody /\ Len(device.queue) < MaxQueued
    /\ device' = [device EXCEPT !.queue = Append(@,
                    [op |-> [id |-> <<Len(@) + 1, 0>>, tenant |-> device.tenant, object |-> o,
                             base |-> device.catalog[o], content |-> c],
                     status |-> "pending", attempts |-> 0, current |-> 0])]
    /\ UNCHANGED <<hub, flush, puller, late, homes>>
\* A definition that is in the queue, whatever became of it, is not queued again.
QueueWorkflow(o, c) == c \in Contents /\ Queued(o, c) = {} /\ Enqueue(o, c)
QueueDelete(o) == device.catalog[o] # 0 /\ Enqueue(o, "deleted")

\* The person decides about a conflict.
ResolveConflict(i, retry) ==
    /\ device.queue[i].status = "conflict"
    /\ LET x == device.queue[i] IN
       device' = [device EXCEPT !.queue[i] =
         IF retry THEN [op |-> [x.op EXCEPT !.id = <<@[1], @[2] + 1>>, !.base = x.current],
                        status |-> "pending", attempts |-> 0, current |-> 0]
         ELSE [x EXCEPT !.status = "discarded"]]
    /\ UNCHANGED <<hub, flush, puller, late, homes>>

-----------------------------------------------------------------------------
(* A flush *)

Due(x) == x.status = "pending" \/ (x.status = "failed" /\ x.attempts < MaxAttempts)
\* The next item to push from i on; 0 if the flush is over.  An item that a restart found on its last attempt
\* cannot be counted once more: the flush ends there.
NextDue(d, i) ==
    LET due   == {j \in i..Len(d.queue) : Due(d.queue[j])}
        first == {j \in due : \A k \in due : j <= k}
    IN  IF due = {} THEN {0} ELSE {IF d.queue[j].attempts = MaxAttempts THEN 0 ELSE j : j \in first}
Attempted(x)  == [x EXCEPT !.status = "syncing", !.attempts = @ + 1]
Syncing(d, j) == [d EXCEPT !.queue[j] = Attempted(d.queue[j])]

\* The files hold the states of the sequence, one after the other; then the flush looks for the next item from
\* i on.  The application may stop after any of the writes.
Goes(f, writes, i) ==
    LET last == writes[Len(writes)]
    IN  \/ \E j \in NextDue(last, i) :
             /\ device' = IF j = 0 THEN last ELSE Syncing(last, j)
             /\ flush' = [flush EXCEPT ![f] = IF j = 0 THEN NoFlush
                            ELSE [phase |-> IF last.tenant = Nobody THEN "answered" ELSE "sent", at |-> j,
                                  to |-> last.tenant, verdict |-> Error]]
             /\ UNCHANGED <<hub, puller, late, homes>>
        \/ \E n \in 2..Len(writes) - 1 : StopsAt(writes[n])

Flush(f) ==
    /\ flush[f].phase = "idle" /\ device.tenant # Nobody
    /\ Goes(f, <<device>>, 1)

\* The Hub answers a push.
ServePush(f) ==
    /\ flush[f].phase = "sent"
    /\ LET op == device.queue[flush[f].at].op IN
       /\ Push(flush[f].to, op)
       /\ flush' = [flush EXCEPT ![f].phase = "answered", ![f].verdict = Verdict(flush[f].to, op)]
    /\ UNCHANGED <<device, puller, late, homes>>
\* The time of a push is over: the request may arrive later, or has, and its answer is lost.
LosePush(f) ==
    /\ flush[f].phase = "sent" \/ (flush[f].phase = "answered" /\ flush[f].verdict # Error)
    /\ late' = IF flush[f].phase = "sent" /\ flush[f].to = device.queue[flush[f].at].op.tenant
               THEN late \cup {device.queue[flush[f].at].op} ELSE late
    /\ flush' = [flush EXCEPT ![f].phase = "answered", ![f].verdict = Error]
    /\ UNCHANGED <<hub, device, puller, homes>>
ServeLate(op) ==
    /\ op \in late
    /\ Push(op.tenant, op) /\ late' = late \ {op}
    /\ UNCHANGED <<device, flush, puller, homes>>

AfterAnswer(x, v) ==
    CASE v.kind = "accepted" -> [x EXCEPT !.status = "succeeded"]
      [] v.kind = "conflict" -> [x EXCEPT !.status = "conflict", !.current = v.version]
      [] OTHER -> [x EXCEPT !.status = IF x.attempts >= MaxAttempts THEN "failed" ELSE "pending"]
\* The answer is dealt with, the catalogue first, and the flush goes on.
TakeAnswer(f) ==
    /\ flush[f].phase = "answered"
    /\ LET v  == flush[f].verdict
           i  == flush[f].at
           x  == device.queue[i]
           d1 == IF v.kind = "accepted" THEN [device EXCEPT !.catalog[x.op.object] = v.version] ELSE device
           d2 == [d1 EXCEPT !.queue[i] = AfterAnswer(x, v)]
       IN  Goes(f, <<device, d1, d2>>, i + 1)

-----------------------------------------------------------------------------
(* A pull *)

Asks(d, tenant) == [NoPull EXCEPT !.phase = "sent", !.tenant = tenant, !.to = d.tenant]
Pull ==
    /\ puller.phase = "idle" /\ device.tenant # Nobody
    /\ puller' = Asks(device, device.tenant)
    /\ UNCHANGED <<hub, device, flush, late, homes>>
ServePull ==
    /\ puller.phase = "sent" /\ puller.to = puller.tenant
    /\ LET all  == hub[puller.to].objects
           from == device.cursor + 1
           to   == IF device.cursor + PageLimit < Len(all) THEN device.cursor + PageLimit ELSE Len(all)
       IN  puller' = [puller EXCEPT !.phase = "answered", !.page = SubSeq(all, from, to),
                        !.next = IF from <= to THEN to ELSE device.cursor, !.more = to < Len(all)]
    /\ UNCHANGED <<hub, device, flush, late, homes>>
FailPull ==
    /\ puller.phase # "idle"
    /\ puller' = NoPull
    /\ UNCHANGED <<hub, device, flush, late, homes>>

\* Mutant: the cursor is written before the objects.
CursorFirst(d, page, next) ==
    [n \in 1..Len(page) + 1 |-> [d EXCEPT !.cursor = next,
        !.inbox = @ \cup {page[i] : i \in 1..n - 1}]]
\* What the files hold while a page is stored: its objects, one by one, and then the cursor.
Stored(d, page, next) ==
    [n \in 1..Len(page) + 1 |-> [d EXCEPT !.cursor = IF n > Len(page) THEN next ELSE @,
        !.inbox = @ \cup {page[i] : i \in 1..IF n > Len(page) THEN Len(page) ELSE n}]]
TakePage ==
    /\ puller.phase = "answered"
    /\ LET writes == Stored(device, puller.page, puller.next)
           last   == writes[Len(writes)]
       IN  \/ /\ device' = last
              /\ puller' = IF puller.more /\ last.tenant # Nobody THEN Asks(last, puller.tenant) ELSE NoPull
              /\ UNCHANGED <<hub, flush, late, homes>>
           \/ \E n \in 1..Len(writes) - 1 : StopsAt(writes[n])

-----------------------------------------------------------------------------
\* What goes on between the person, the queue, the Hub and the other devices.
PushNext ==
    \/ \E t \in Tenants : Configure(t)
    \/ \E t \in Shared, o \in Objects, c \in Bodies : OtherPush(t, o, c)
    \/ \E o \in Objects : QueueDelete(o) \/ \E c \in Contents : QueueWorkflow(o, c)
    \/ \E i \in DOMAIN device.queue, retry \in BOOLEAN : ResolveConflict(i, retry)
    \/ \E f \in Flushers : Flush(f) \/ ServePush(f) \/ LosePush(f) \/ TakeAnswer(f)
    \/ \E op \in late : ServeLate(op)
    \/ Disconnect \/ Crash
PullNext ==
    \/ \E t \in Tenants : Configure(t)
    \/ \E t \in Shared, o \in Objects, c \in Bodies : OtherPush(t, o, c)
    \/ Disconnect \/ Pull \/ ServePull \/ FailPull \/ TakePage \/ Crash
HubNext == PushNext \/ PullNext

-----------------------------------------------------------------------------
(* Properties *)

HeldBy(op) == \E i \in DOMAIN hub[op.tenant].objects : hub[op.tenant].objects[i].id = op.id
\* The queue tells the person what became of an item, whatever was lost, came late or was sent twice: one that
\* succeeded is held by the Hub, and one in conflict, or given up for the remote version, is not: the person
\* never decides about a conflict of a version with itself.
OutcomeIsTrue ==
    \A i \in DOMAIN device.queue :
        LET x == device.queue[i] IN
        /\ x.status = "succeeded" => HeldBy(x.op)
        /\ x.status \in {"conflict", "discarded"} => ~HeldBy(x.op)

\* A device that was only ever connected to one tenant has, up to its cursor, every version the Hub holds: none
\* is skipped by a page, by a version that comes meanwhile or by a stop in the middle of a page.
PullMissesNothing ==
    \A t \in Tenants : homes = {t} => \A i \in 1..device.cursor : hub[t].objects[i] \in device.inbox
=============================================================================
