----------------------- MODULE TaskConversation_proofs -----------------------
(***************************************************************************)
(* The threads of TaskConversation do not mix evidence, and an archived    *)
(* one takes none, for every number of threads, targets and operations.    *)
(* EvidenceInItsThread is not inductive: that a plan finds its question    *)
(* when it arrives, and a result its plan, is because the operation left   *)
(* one in its thread (Begun), because the entries of a thread only grow    *)
(* until it is gone for good (ThreadStep), and because what a started      *)
(* operation names does not change (Onward).                               *)
(***************************************************************************)
EXTENDS TaskConversation, SequenceTheorems, TLAPS

IsSequence(s) == s \in Seq({s[i] : i \in DOMAIN s})

\* The rows and the records have their fields.
Stored(th) == DOMAIN th = {"target", "entries", "archived", "version"} /\ IsSequence(th.entries)
Whole ==
    /\ DOMAIN store = Threads /\ \A t \in Threads : Stored(store[t])
    /\ DOMAIN ops = Ops
    /\ \A o \in Ops : /\ DOMAIN ops[o] = {"kind", "target", "thread", "plan", "stage", "cancelled"}
                      /\ ops[o].stage # "unused" => ops[o].target \in Targets
    /\ DOMAIN view = {"target", "listed", "archived", "active", "busy"} /\ view.target \in Targets

\* The operation x was started, so what it names will not change.
Used(all, x) == x \in Ops /\ all[x].stage # "unused"

\* The question the operation o asks, and the plan it executes, among the entries of a thread.
Asks(entries, o, i)       == entries[i].kind = "question" /\ entries[i].op = o
Plans(entries, plan, i)   == entries[i].kind = "plan" /\ entries[i].plan = plan

\* EvidenceInItsThread for one entry: the i-th of a thread of the target d.
Sound(all, t, d, entries, i) ==
    LET e == entries[i] IN
    /\ Used(all, e.op)
    /\ e.kind \in {"plan", "result"} =>
           /\ Used(all, e.plan)
           /\ all[e.plan].thread # None =>
                  /\ all[e.op].thread = t /\ all[e.op].target = d
                  /\ \E j \in 1..(i - 1) : IF e.kind = "plan" THEN Asks(entries, e.op, j)
                                           ELSE Plans(entries, e.plan, j)
AllSound == \A t \in Threads : \A i \in DOMAIN store[t].entries :
                Sound(ops, t, store[t].target, store[t].entries, i)

\* What makes it inductive: an operation that is under way left something in its thread, and
\* that is there as long as the thread is.
Begun(o) ==
    LET x == ops[o]  th == store[x.thread] IN
    x.stage = "working" /\ x.thread \in Threads =>
        \/ th = Gone
        \/ x.kind = "propose" /\ \E i \in DOMAIN th.entries : Asks(th.entries, o, i)
        \/ x.kind = "execute" /\ \E i \in DOMAIN th.entries : Plans(th.entries, x.plan, i)

TaskInv == Whole /\ AllSound /\ \A o \in Ops : Begun(o)

-----------------------------------------------------------------------------
(* Sequences of entries.                                                   *)

\* The entries of a thread have numbers.
LEMMA SequenceDomain == ASSUME NEW s, IsSequence(s) PROVE Len(s) \in Nat /\ DOMAIN s = 1..Len(s)
BY DEF IsSequence

\* A function on 1..n is a sequence of what it holds.
LEMMA SequenceOf ==
    ASSUME NEW n \in Nat, NEW s, s = [i \in 1..n |-> s[i]]
    PROVE  IsSequence(s) /\ Len(s) = n /\ DOMAIN s = 1..n
<1> DEFINE S == {s[i] : i \in DOMAIN s}
<1>1. DOMAIN s = 1..n
  OBVIOUS
<1>2. \A i \in 1..n : s[i] \in S
  BY <1>1
<1> HIDE DEF S
<1>3. s \in [1..n -> S]
  BY <1>2
<1>4. s \in Seq(S)
  BY <1>3
<1>5. Len(s) = n
  BY <1>1, <1>4
<1> QED BY <1>1, <1>4, <1>5 DEF IsSequence, S

\* One more entry leaves the others where they are.
LEMMA AppendedTo ==
    ASSUME NEW s, IsSequence(s), NEW e
    PROVE  /\ IsSequence(Append(s, e)) /\ Len(Append(s, e)) = Len(s) + 1 /\ DOMAIN Append(s, e) = 1..(Len(s) + 1)
           /\ \A i \in 1..Len(s) : Append(s, e)[i] = s[i]
           /\ Append(s, e)[Len(s) + 1] = e
<1> DEFINE S == {s[i] : i \in DOMAIN s} \cup {e}
           a == Append(s, e)
<1>1. s \in Seq(S) /\ e \in S
  BY DEF IsSequence
<1> HIDE DEF S
<1>2. a \in Seq(S) /\ Len(a) = Len(s) + 1 /\ (\A i \in 1..Len(s) : a[i] = s[i]) /\ a[Len(s) + 1] = e /\ Len(s) \in Nat
  BY <1>1, AppendProperties
<1> HIDE DEF a
<1>3. a = [i \in 1..(Len(s) + 1) |-> a[i]]
  BY <1>2
<1>4. IsSequence(a) /\ DOMAIN a = 1..(Len(s) + 1)
  BY <1>2, <1>3, SequenceOf
<1> QED BY <1>2, <1>4 DEF a

-----------------------------------------------------------------------------
(* What a step does to a thread and to an operation.                       *)

\* A thread goes for good, or its entries stay, and with them its target.
ThreadStep(t) ==
    \/ store'[t] = Gone
    \/ /\ store[t] # Gone
       /\ \A i \in DOMAIN store[t].entries :
              i \in DOMAIN store'[t].entries /\ store'[t].entries[i] = store[t].entries[i]
       /\ store[t].entries # <<>> => store'[t].target = store[t].target
ThreadsStep == DOMAIN store' = Threads /\ \A t \in Threads : Stored(store'[t]) /\ ThreadStep(t)

\* No entry is added to a thread.
Unwritten(t) == store'[t] = Gone \/ store'[t].entries = store[t].entries

\* What a started operation names stays.
Onward(o) ==
    ops[o].stage # "unused" =>
        /\ ops'[o].stage # "unused"
        /\ ops'[o].kind = ops[o].kind /\ ops'[o].target = ops[o].target
        /\ ops'[o].thread = ops[o].thread /\ ops'[o].plan = ops[o].plan
OpsStep ==
    /\ DOMAIN ops' = Ops
    /\ \A o \in Ops : /\ DOMAIN ops'[o] = {"kind", "target", "thread", "plan", "stage", "cancelled"}
                      /\ ops'[o].stage # "unused" => ops'[o].target \in Targets
                      /\ Onward(o)
ViewStep == DOMAIN view' = {"target", "listed", "archived", "active", "busy"} /\ view'.target \in Targets

LEMMA GoneIs == /\ DOMAIN Gone = {"target", "entries", "archived", "version"}
                /\ Gone.target = None /\ Gone.entries = <<>> /\ Gone.archived = FALSE /\ Gone.version = 1
                /\ Stored(Gone) /\ Absent # Gone /\ Absent.entries = <<>> /\ Absent.archived = FALSE
<1>1. /\ DOMAIN Gone = {"target", "entries", "archived", "version"}
      /\ Gone.target = None /\ Gone.entries = <<>> /\ Gone.archived = FALSE /\ Gone.version = 1
      /\ Absent.version = 0 /\ Absent.entries = <<>> /\ Absent.archived = FALSE
  BY DEF Gone, Absent
<1>2. IsSequence(<<>>)
  BY DEF IsSequence
<1> QED
  BY <1>1, <1>2 DEF Stored

\* Entries go to a thread that is there, or to a new one; a thread that was named is the only one.
LEMMA DestinationIs ==
    ASSUME NEW d, NEW t, NEW kind, NEW u \in Destinations(d, t, kind)
    PROVE  /\ u \in Threads
           /\ u \in Live(d) \/ (u \in Free /\ t = None)
           /\ t # None => u = t
BY DEF Destinations, Live, Latest, Free

\* One entry is appended, to a thread that is not archived.
LEMMA WriteStep ==
    ASSUME TaskInv, NEW d \in Targets, NEW u, u \in Live(d) \/ u \in Free, NEW e, Write(d, u, e)
    PROVE  /\ ThreadsStep /\ u \in Threads /\ ~store[u].archived
           /\ \A t \in Threads : t # u => store'[t] = store[t]
           /\ store'[u].target = d /\ store'[u].entries = Append(store[u].entries, e)
           /\ store[u] # Gone
           /\ u \in Live(d) => store[u].target = d
<1>1. u \in Threads
  BY DEF Live, Free
<1>2. Stored(store[u]) /\ DOMAIN store = Threads
  BY <1>1 DEF TaskInv, Whole
<1>3. store' = [store EXCEPT ![u].target = d, ![u].version = @ + 1, ![u].entries = Append(@, e)]
  BY DEF Write
<1>4. /\ DOMAIN store' = Threads
      /\ \A t \in Threads : t # u => store'[t] = store[t]
      /\ store'[u] = [[[store[u] EXCEPT !.target = d] EXCEPT !.version = @ + 1] EXCEPT !.entries = Append(@, e)]
  BY <1>1, <1>2, <1>3
<1>5. /\ DOMAIN store'[u] = {"target", "entries", "archived", "version"}
      /\ store'[u].target = d /\ store'[u].entries = Append(store[u].entries, e)
  BY <1>2, <1>4 DEF Stored
<1>6. d # None
  BY TaskAssumption
<1>7. /\ store[u] # Gone /\ ~store[u].archived /\ (u \in Live(d) => store[u].target = d)
      /\ store[u].entries # <<>> => store[u].target = d
  BY <1>6, GoneIs DEF Live, Accepts, Free
<1>8. /\ Stored(store'[u])
      /\ \A i \in DOMAIN store[u].entries :
             i \in DOMAIN store'[u].entries /\ store'[u].entries[i] = store[u].entries[i]
  <2> DEFINE old == store[u].entries
  <2>1. IsSequence(old)
    BY <1>2 DEF Stored
  <2> HIDE DEF old
  <2>2. /\ IsSequence(Append(old, e)) /\ DOMAIN Append(old, e) = 1..(Len(old) + 1)
        /\ \A i \in 1..Len(old) : Append(old, e)[i] = old[i]
    BY <2>1, AppendedTo
  <2>3. Len(old) \in Nat /\ DOMAIN old = 1..Len(old)
    BY <2>1, SequenceDomain
  <2>4. store'[u].entries = Append(old, e)
    BY <1>5 DEF old
  <2>5. Stored(store'[u])
    BY <1>5, <2>2, <2>4 DEF Stored
  <2>6. \A i \in DOMAIN old : i \in DOMAIN store'[u].entries /\ store'[u].entries[i] = old[i]
    BY <2>2, <2>3, <2>4
  <2> QED
    BY <2>5, <2>6 DEF old
<1>9. ThreadStep(u)
  BY <1>5, <1>7, <1>8 DEF ThreadStep
<1>10. \A t \in Threads : t # u => Stored(store'[t]) /\ ThreadStep(t)
  BY <1>4 DEF ThreadStep, TaskInv, Whole
<1> QED
  BY <1>1, <1>4, <1>5, <1>7, <1>8, <1>9, <1>10 DEF ThreadsStep

\* Nothing is written.
LEMMA StoreStays ==
    ASSUME TaskInv, store' = store
    PROVE  ThreadsStep /\ \A t \in Threads : Unwritten(t)
BY DEF TaskInv, Whole, ThreadsStep, ThreadStep, Unwritten

-----------------------------------------------------------------------------
(* Each part of the invariant.                                             *)

\* An entry that was sound stays so, with its thread.
LEMMA SoundKept ==
    ASSUME TaskInv, ThreadsStep, OpsStep, NEW t \in Threads, NEW i,
           i \in DOMAIN store[t].entries, store'[t] # Gone
    PROVE  Sound(ops', t, store'[t].target, store'[t].entries, i)
<1> DEFINE old == store[t].entries
           new == store'[t].entries
<1>1. /\ i \in DOMAIN old /\ Sound(ops, t, store[t].target, old, i)
      /\ DOMAIN old = 1..Len(old) /\ Len(old) \in Nat
  BY SequenceDomain DEF TaskInv, AllSound, Whole, Stored
<1>2. /\ \A j \in DOMAIN old : new[j] = old[j]
      /\ store'[t].target = store[t].target
  <2>1. old # <<>>
    BY <1>1
  <2> QED
    BY <2>1 DEF ThreadsStep, ThreadStep
<1>3. \A o : Used(ops, o) => /\ Used(ops', o) /\ ops'[o].thread = ops[o].thread
                             /\ ops'[o].target = ops[o].target
  BY DEF OpsStep, Onward, Used
<1> HIDE DEF old, new
<1>4. \A j \in 1..(i - 1) : j \in DOMAIN old
  BY <1>1
<1>5. new[i] = old[i]
  BY <1>1, <1>2
<1>6. Sound(ops', t, store[t].target, new, i)
  BY <1>1, <1>2, <1>3, <1>4, <1>5 DEF Sound, Asks, Plans
<1> QED
  BY <1>2, <1>6 DEF new

LEMMA UnwrittenSound ==
    ASSUME TaskInv, ThreadsStep, OpsStep, \A t \in Threads : Unwritten(t)
    PROVE  AllSound'
<1> SUFFICES ASSUME NEW t \in Threads, NEW i \in DOMAIN store'[t].entries
             PROVE  Sound(ops', t, store'[t].target, store'[t].entries, i)
  BY DEF AllSound
<1>1. store'[t] # Gone
  BY GoneIs
<1> QED
  BY <1>1, SoundKept DEF Unwritten

LEMMA WrittenSound ==
    ASSUME TaskInv, OpsStep, NEW d \in Targets, NEW u, u \in Live(d) \/ u \in Free, NEW e, Write(d, u, e),
           Sound(ops', u, d, Append(store[u].entries, e), Len(store[u].entries) + 1)
    PROVE  AllSound'
<1>1. /\ ThreadsStep /\ u \in Threads
      /\ \A t \in Threads : t # u => store'[t] = store[t]
      /\ store'[u].target = d /\ store'[u].entries = Append(store[u].entries, e)
  BY WriteStep
<1> SUFFICES ASSUME NEW t \in Threads, NEW i \in DOMAIN store'[t].entries
             PROVE  Sound(ops', t, store'[t].target, store'[t].entries, i)
  BY DEF AllSound
<1>2. store'[t] # Gone
  BY GoneIs
<1>3. CASE i \in DOMAIN store[t].entries
  BY <1>1, <1>2, <1>3, SoundKept
<1>4. CASE i \notin DOMAIN store[t].entries
  <2>1. t = u
    BY <1>1, <1>4
  <2>2. i = Len(store[u].entries) + 1
    <3> DEFINE old == store[u].entries
    <3>1. IsSequence(old)
      BY <1>1 DEF TaskInv, Whole, Stored
    <3>2. i \in DOMAIN Append(old, e) /\ i \notin DOMAIN old
      BY <1>1, <1>4, <2>1
    <3> HIDE DEF old
    <3>3. DOMAIN Append(old, e) = 1..(Len(old) + 1) /\ DOMAIN old = 1..Len(old) /\ Len(old) \in Nat
      BY <3>1, AppendedTo, SequenceDomain
    <3>4. i = Len(old) + 1
      BY <3>2, <3>3
    <3> QED
      BY <3>4 DEF old
  <2> QED
    BY <1>1, <2>1, <2>2
<1> QED
  BY <1>3, <1>4

\* What an operation left in its thread is there until the thread goes.
LEMMA BegunKept ==
    ASSUME TaskInv, ThreadsStep, NEW o \in Ops, Onward(o),
           ops'[o].stage = "working" => ops[o].stage = "working"
    PROVE  Begun(o)'
<1> SUFFICES ASSUME ops'[o].stage = "working", ops'[o].thread \in Threads
             PROVE  \/ store'[ops'[o].thread] = Gone
                    \/ ops'[o].kind = "propose" /\ \E i \in DOMAIN store'[ops'[o].thread].entries :
                                                       Asks(store'[ops'[o].thread].entries, o, i)
                    \/ ops'[o].kind = "execute" /\ \E i \in DOMAIN store'[ops'[o].thread].entries :
                                                       Plans(store'[ops'[o].thread].entries, ops'[o].plan, i)
  BY DEF Begun
<1>1. /\ ops[o].stage = "working" /\ ops'[o].kind = ops[o].kind
      /\ ops'[o].thread = ops[o].thread /\ ops'[o].plan = ops[o].plan
  BY DEF Onward
<1>2. PICK t \in Threads : t = ops[o].thread
  BY <1>1
<1>3. \/ store[t] = Gone
      \/ ops[o].kind = "propose" /\ \E i \in DOMAIN store[t].entries : Asks(store[t].entries, o, i)
      \/ ops[o].kind = "execute" /\ \E i \in DOMAIN store[t].entries : Plans(store[t].entries, ops[o].plan, i)
  BY <1>1, <1>2 DEF TaskInv, Begun
<1>4. ThreadStep(t)
  BY DEF ThreadsStep
<1>5. \/ store'[t] = Gone
      \/ ops[o].kind = "propose" /\ \E i \in DOMAIN store'[t].entries : Asks(store'[t].entries, o, i)
      \/ ops[o].kind = "execute" /\ \E i \in DOMAIN store'[t].entries : Plans(store'[t].entries, ops[o].plan, i)
  BY <1>3, <1>4 DEF ThreadStep, Asks, Plans
<1> QED
  BY <1>1, <1>2, <1>5

\* Everything but one operation goes on as it was.
LEMMA OneGoesOn ==
    ASSUME TaskInv, ThreadsStep, OpsStep, ViewStep, AllSound', NEW p,
           \A o \in Ops : o # p /\ ops'[o].stage = "working" => ops[o].stage = "working",
           p \in Ops => Begun(p)'
    PROVE  TaskInv'
<1>1. Whole'
  BY DEF ThreadsStep, OpsStep, ViewStep, Whole
<1>2. \A o \in Ops : Begun(o)'
  BY BegunKept DEF OpsStep
<1> QED
  BY <1>1, <1>2 DEF TaskInv

-----------------------------------------------------------------------------
(* The operations.                                                         *)

LEMMA EndsStep ==
    ASSUME TaskInv, NEW o \in Ops, ops[o].stage # "unused", NEW stage, stage # "unused", Ends(o, stage)
    PROVE  /\ OpsStep /\ ops'[o].stage = stage
           /\ \A p \in Ops : p # o => ops'[p] = ops[p]
<1>1. DOMAIN ops = Ops /\ \A p \in Ops : /\ DOMAIN ops[p] = {"kind", "target", "thread", "plan", "stage", "cancelled"}
                                         /\ ops[p].stage # "unused" => ops[p].target \in Targets
  BY DEF TaskInv, Whole
<1>2. ops' = [ops EXCEPT ![o].stage = stage]
  BY DEF Ends
<1>3. /\ DOMAIN ops' = Ops /\ \A p \in Ops : p # o => ops'[p] = ops[p]
      /\ ops'[o] = [ops[o] EXCEPT !.stage = stage]
  BY <1>1, <1>2
<1>4. /\ DOMAIN ops'[o] = {"kind", "target", "thread", "plan", "stage", "cancelled"}
      /\ ops'[o].stage = stage /\ ops'[o].kind = ops[o].kind /\ ops'[o].target = ops[o].target
      /\ ops'[o].thread = ops[o].thread /\ ops'[o].plan = ops[o].plan
  BY <1>1, <1>3
<1> QED
  BY <1>1, <1>3, <1>4 DEF OpsStep, Onward

LEMMA OpsStay ==
    ASSUME TaskInv, ops' = ops
    PROVE  OpsStep
BY DEF TaskInv, Whole, OpsStep, Onward

LEMMA ViewStays ==
    ASSUME TaskInv, UNCHANGED Main
    PROVE  ViewStep
BY DEF TaskInv, Whole, ViewStep, Main

\* A question is sound anywhere, and an error is.
LEMMA PlainEntry ==
    ASSUME NEW all, NEW t, NEW d, NEW s, IsSequence(s), NEW kind, NEW o, NEW plan, Used(all, o),
           kind \notin {"plan", "result"}
    PROVE  Sound(all, t, d, Append(s, Entry(kind, o, plan)), Len(s) + 1)
<1>1. Append(s, Entry(kind, o, plan))[Len(s) + 1] = Entry(kind, o, plan)
  BY AppendedTo
<1>2. Entry(kind, o, plan).kind = kind /\ Entry(kind, o, plan).op = o
  BY DEF Entry
<1> QED
  BY <1>1, <1>2 DEF Sound

\* A plan or a result is, where what it answers came before.
LEMMA EvidenceEntry ==
    ASSUME NEW all, NEW t, NEW d, NEW s, IsSequence(s), NEW kind, NEW o, NEW plan,
           Used(all, o), Used(all, plan),
           all[plan].thread # None =>
               /\ all[o].thread = t /\ all[o].target = d
               /\ \E j \in DOMAIN s : IF kind = "plan" THEN Asks(s, o, j) ELSE Plans(s, plan, j)
    PROVE  Sound(all, t, d, Append(s, Entry(kind, o, plan)), Len(s) + 1)
<1> DEFINE e == Entry(kind, o, plan)
           new == Append(s, e)
<1>1. e.kind = kind /\ e.op = o /\ e.plan = plan
  BY DEF Entry
<1>2. /\ DOMAIN s = 1..Len(s) /\ Len(s) \in Nat
      /\ new[Len(s) + 1] = e /\ \A j \in 1..Len(s) : new[j] = s[j]
  BY AppendedTo, SequenceDomain
<1> HIDE DEF e, new
<1>3. 1..((Len(s) + 1) - 1) = 1..Len(s)
  BY <1>2
<1>4. ASSUME all[plan].thread # None
      PROVE  \E j \in 1..((Len(s) + 1) - 1) : IF kind = "plan" THEN Asks(new, o, j) ELSE Plans(new, plan, j)
  <2>1. PICK j \in 1..Len(s) : IF kind = "plan" THEN Asks(s, o, j) ELSE Plans(s, plan, j)
    BY <1>2, <1>4
  <2>2. new[j] = s[j]
    BY <1>2
  <2> QED
    BY <1>3, <2>1, <2>2 DEF Asks, Plans
<1>5. Sound(all, t, d, new, Len(s) + 1)
  BY <1>1, <1>2, <1>4 DEF Sound
<1> QED
  BY <1>5 DEF new, e

LEMMA QuestionKept ==
    ASSUME TaskInv, NEW o \in Ops, AppendQuestion(o)
    PROVE  TaskInv'
<1> DEFINE d == ops[o].target
           t == ops[o].thread
<1>1. ops[o].kind = "propose" /\ ops[o].stage # "unused" /\ UNCHANGED Main /\ d \in Targets
  BY DEF AppendQuestion, TaskInv, Whole
<1>2. ViewStep
  BY <1>1, ViewStays
<1>3. CASE Ends(o, "failed") /\ UNCHANGED <<store, recent>>
  <2>1. OpsStep /\ ops'[o].stage = "failed" /\ \A p \in Ops : p # o => ops'[p] = ops[p]
    BY <1>1, <1>3, EndsStep
  <2>2. ThreadsStep /\ AllSound'
    BY <1>3, <2>1, StoreStays, UnwrittenSound
  <2>3. Begun(o)'
    BY <2>1 DEF Begun
  <2> QED
    BY <1>2, <2>1, <2>2, <2>3, OneGoesOn
<1>4. ASSUME Ends(o, "working"), NEW u \in Destinations(d, t, "question"),
             Write(d, u, Entry("question", o, None))
      PROVE  TaskInv'
  <2> DEFINE e == Entry("question", o, None)
  <2>1. OpsStep /\ ops'[o].stage = "working" /\ \A p \in Ops : p # o => ops'[p] = ops[p]
    BY <1>1, <1>4, EndsStep
  <2>2. u \in Threads /\ (u \in Live(d) \/ u \in Free) /\ (t # None => u = t)
    BY DestinationIs
  <2>3. /\ ThreadsStep /\ store'[u].entries = Append(store[u].entries, e)
    BY <1>1, <1>4, <2>2, WriteStep
  <2>4. IsSequence(store[u].entries)
    BY <2>2 DEF TaskInv, Whole, Stored
  <2>5. Used(ops', o)
    BY <2>1 DEF Used
  <2>6. AllSound'
    <3>1. Sound(ops', u, d, Append(store[u].entries, e), Len(store[u].entries) + 1)
      BY <2>4, <2>5, PlainEntry
    <3> HIDE DEF e, d
    <3> QED
      BY <1>1, <1>4, <2>1, <2>2, <3>1, WrittenSound DEF e, d
  <2>7. Begun(o)'
    <3> SUFFICES ASSUME ops'[o].thread \in Threads
                 PROVE  /\ ops'[o].kind = "propose"
                        /\ \E i \in DOMAIN store'[ops'[o].thread].entries :
                               Asks(store'[ops'[o].thread].entries, o, i)
      BY DEF Begun
    <3>1. ops'[o].thread = t /\ ops'[o].kind = "propose"
      BY <1>1, <2>1 DEF OpsStep, Onward
    <3>2. u = ops'[o].thread
      BY <2>2, <3>1, TaskAssumption
    <3> DEFINE old == store[u].entries
    <3>3. IsSequence(old) /\ store'[u].entries = Append(old, e)
      BY <2>3, <2>4
    <3> HIDE DEF old, e
    <3>4. /\ DOMAIN Append(old, e) = 1..(Len(old) + 1) /\ Append(old, e)[Len(old) + 1] = e
          /\ Len(old) \in Nat
      BY <3>3, AppendedTo, SequenceDomain
    <3>5. Len(old) + 1 \in 1..(Len(old) + 1)
      BY <3>4
    <3>6. e.kind = "question" /\ e.op = o
      BY DEF e, Entry
    <3>7. Asks(store'[u].entries, o, Len(old) + 1) /\ Len(old) + 1 \in DOMAIN store'[u].entries
      BY <3>3, <3>4, <3>5, <3>6 DEF Asks
    <3> QED
      BY <3>1, <3>2, <3>7
  <2> QED
    BY <1>2, <2>1, <2>3, <2>6, <2>7, OneGoesOn
<1> QED
  BY <1>3, <1>4 DEF AppendQuestion

LEMMA PlanKept ==
    ASSUME TaskInv, NEW o \in Ops, AppendPlan(o)
    PROVE  TaskInv'
<1> DEFINE d == ops[o].target
           t == ops[o].thread
<1>1. /\ ops[o].kind = "propose" /\ ops[o].stage = "working" /\ UNCHANGED Main /\ d \in Targets
      /\ Begun(o)
  BY DEF AppendPlan, TaskInv, Whole
<1>2. ViewStep
  BY <1>1, ViewStays
<1>3. CASE Ends(o, "failing") /\ UNCHANGED <<store, recent>>
  <2>1. OpsStep /\ ops'[o].stage = "failing" /\ \A p \in Ops : p # o => ops'[p] = ops[p]
    BY <1>1, <1>3, EndsStep
  <2>2. ThreadsStep /\ AllSound'
    BY <1>3, <2>1, StoreStays, UnwrittenSound
  <2>3. Begun(o)'
    BY <2>1 DEF Begun
  <2> QED
    BY <1>2, <2>1, <2>2, <2>3, OneGoesOn
<1>4. ASSUME Ends(o, "planned"), NEW u \in Destinations(d, t, "plan"), Write(d, u, Entry("plan", o, o))
      PROVE  TaskInv'
  <2> DEFINE e == Entry("plan", o, o)
             old == store[u].entries
  <2>1. OpsStep /\ ops'[o].stage = "planned" /\ \A p \in Ops : p # o => ops'[p] = ops[p]
    BY <1>1, <1>4, EndsStep
  <2>2. u \in Threads /\ (u \in Live(d) \/ u \in Free) /\ (t # None => u = t)
    BY DestinationIs
  <2>3. ThreadsStep /\ store[u] # Gone
    BY <1>1, <1>4, <2>2, WriteStep
  <2>4. IsSequence(old)
    BY <2>2 DEF TaskInv, Whole, Stored
  <2>5. Used(ops', o) /\ ops'[o].thread = t /\ ops'[o].target = d
    BY <1>1, <2>1 DEF Used, OpsStep, Onward
  <2>6. ASSUME t # None
        PROVE  u = t /\ \E j \in DOMAIN old : Asks(old, o, j)
    BY <1>1, <2>2, <2>3, <2>6 DEF Begun
  <2> HIDE DEF old, d, t
  <2>7. Sound(ops', u, d, Append(old, e), Len(old) + 1)
    BY <2>4, <2>5, <2>6, EvidenceEntry
  <2> HIDE DEF e
  <2>8. AllSound'
    BY <1>1, <1>4, <2>1, <2>2, <2>7, WrittenSound DEF e, d, old
  <2>9. Begun(o)'
    BY <2>1 DEF Begun
  <2> QED
    BY <1>2, <2>1, <2>3, <2>8, <2>9, OneGoesOn
<1> QED
  BY <1>3, <1>4 DEF AppendPlan

LEMMA CheckKept ==
    ASSUME TaskInv, NEW o \in Ops, CheckPlan(o)
    PROVE  TaskInv'
<1>1. ops[o].kind = "execute" /\ ops[o].stage # "unused" /\ UNCHANGED <<store, recent, Main>>
  BY DEF CheckPlan
<1>2. PICK stage \in {"working", "failed"} :
          Ends(o, stage) /\ (stage = "working" => Reviewed(o))
  BY DEF CheckPlan
<1>3. /\ OpsStep /\ ops'[o].stage = stage /\ (\A p \in Ops : p # o => ops'[p] = ops[p])
  BY <1>1, <1>2, EndsStep
<1>4. ViewStep /\ ThreadsStep /\ AllSound'
  BY <1>1, <1>3, StoreStays, UnwrittenSound, ViewStays
<1>5. Begun(o)'
  <2> SUFFICES ASSUME ops'[o].stage = "working", ops'[o].thread \in Threads
               PROVE  /\ ops'[o].kind = "execute"
                      /\ \E i \in DOMAIN store'[ops'[o].thread].entries :
                             Plans(store'[ops'[o].thread].entries, ops'[o].plan, i)
    BY DEF Begun
  <2>1. ops'[o].thread = ops[o].thread /\ ops'[o].plan = ops[o].plan /\ ops'[o].kind = "execute"
    BY <1>1, <1>3 DEF OpsStep, Onward
  <2>2. Reviewed(o)
    BY <1>2, <1>3
  <2> QED
    BY <1>1, <2>1, <2>2 DEF Reviewed, Plans
<1> QED
  BY <1>3, <1>4, <1>5, OneGoesOn

LEMMA ResultKept ==
    ASSUME TaskInv, NEW o \in Ops, AppendResult(o)
    PROVE  TaskInv'
<1> DEFINE d == ops[o].target
           t == ops[o].thread
           plan == ops[o].plan
<1>1. /\ ops[o].kind = "execute" /\ ops[o].stage = "working" /\ UNCHANGED Main /\ d \in Targets
      /\ Begun(o)
  BY DEF AppendResult, TaskInv, Whole
<1>2. ViewStep
  BY <1>1, ViewStays
<1>3. CASE Ends(o, "failing") /\ UNCHANGED <<store, recent>>
  <2>1. OpsStep /\ ops'[o].stage = "failing" /\ \A p \in Ops : p # o => ops'[p] = ops[p]
    BY <1>1, <1>3, EndsStep
  <2>2. ThreadsStep /\ AllSound'
    BY <1>3, <2>1, StoreStays, UnwrittenSound
  <2>3. Begun(o)'
    BY <2>1 DEF Begun
  <2> QED
    BY <1>2, <2>1, <2>2, <2>3, OneGoesOn
<1>4. ASSUME t \in Live(d), Ends(o, "executed"), Write(d, t, Entry("result", o, plan))
      PROVE  TaskInv'
  <2> DEFINE e == Entry("result", o, plan)
             old == store[t].entries
  <2>1. OpsStep /\ ops'[o].stage = "executed" /\ \A p \in Ops : p # o => ops'[p] = ops[p]
    BY <1>1, <1>4, EndsStep
  <2>2. ThreadsStep /\ store[t] # Gone /\ t \in Threads
    BY <1>1, <1>4, WriteStep
  <2>3. IsSequence(old)
    BY <2>2 DEF TaskInv, Whole, Stored
  <2>4. Used(ops', o) /\ ops'[o].thread = t /\ ops'[o].target = d
    BY <1>1, <2>1 DEF Used, OpsStep, Onward
  <2>5. PICK j \in DOMAIN old : Plans(old, plan, j)
    BY <1>1, <2>2 DEF Begun
  <2>6. Used(ops', plan)
    <3>1. Sound(ops, t, store[t].target, old, j)
      BY <2>2, <2>5 DEF TaskInv, AllSound
    <3>2. Used(ops, plan)
      BY <2>5, <3>1 DEF Sound, Plans
    <3> QED
      BY <2>1, <3>2 DEF Used, OpsStep, Onward
  <2> HIDE DEF old, d, t, plan
  <2>7. Sound(ops', t, d, Append(old, e), Len(old) + 1)
    BY <2>3, <2>4, <2>5, <2>6, EvidenceEntry
  <2> HIDE DEF e
  <2>8. AllSound'
    BY <1>1, <1>4, <2>1, <2>7, WrittenSound DEF e, d, old
  <2>9. Begun(o)'
    BY <2>1 DEF Begun
  <2> QED
    BY <1>2, <2>1, <2>2, <2>8, <2>9, OneGoesOn
<1> QED
  BY <1>3, <1>4 DEF AppendResult

\* A failure is written where the error goes, or nowhere.
LEMMA FailureKept ==
    ASSUME TaskInv, NEW o \in Ops, Breaks(o) \/ PersistError(o)
    PROVE  TaskInv'
<1> DEFINE d == ops[o].target
<1>1. ops[o].stage # "unused" /\ UNCHANGED Main /\ d \in Targets
  BY DEF Breaks, PersistError, TaskInv, Whole
<1>2. PICK stage \in {"failing", "aborting", "failed", "cancelled"} : Ends(o, stage)
  BY DEF Breaks, PersistError
<1>3. /\ OpsStep /\ ops'[o].stage = stage /\ (\A p \in Ops : p # o => ops'[p] = ops[p])
  BY <1>1, <1>2, EndsStep
<1>4. ViewStep /\ Begun(o)'
  BY <1>1, <1>3, ViewStays DEF Begun
<1>5. CASE UNCHANGED <<store, recent>>
  <2>1. ThreadsStep /\ AllSound'
    BY <1>3, <1>5, StoreStays, UnwrittenSound
  <2> QED
    BY <1>3, <1>4, <2>1, OneGoesOn
<1>6. ASSUME NEW t, NEW kind \in {"error", "cancelled"}, NEW plan, NEW u \in Destinations(d, t, kind),
             Write(d, u, Entry(kind, o, plan))
      PROVE  TaskInv'
  <2>1. u \in Threads /\ (u \in Live(d) \/ u \in Free)
    BY DestinationIs
  <2>2. ThreadsStep
    BY <1>1, <1>6, <2>1, WriteStep
  <2>3. IsSequence(store[u].entries) /\ Used(ops', o)
    BY <1>3, <2>1 DEF TaskInv, Whole, Stored, Used
  <2>4. Sound(ops', u, d, Append(store[u].entries, Entry(kind, o, plan)), Len(store[u].entries) + 1)
    BY <2>3, PlainEntry
  <2> HIDE DEF d
  <2>5. AllSound'
    BY <1>1, <1>3, <1>6, <2>1, <2>4, WrittenSound
  <2> QED
    BY <1>3, <1>4, <2>2, <2>5, OneGoesOn
<1>7. CASE Breaks(o)
  BY <1>5, <1>7 DEF Breaks
<1>8. CASE PersistError(o)
  <2> DEFINE kind == IF ops[o].stage = "failing" THEN "error" ELSE "cancelled"
  <2>1. Entry(kind, o, ops[o].plan).kind = kind /\ kind \in {"error", "cancelled"}
    BY DEF Entry
  <2>2. AppendOrDrop(d, ErrorThread(o), Entry(kind, o, ops[o].plan))
    BY <1>8 DEF PersistError
  <2> HIDE DEF kind, d
  <2> QED
    BY <1>5, <1>6, <2>1, <2>2 DEF AppendOrDrop, d
<1> QED
  BY <1>7, <1>8

-----------------------------------------------------------------------------
(* The person and the workbench.                                           *)

\* A step that leaves the operations as they are, and adds no entry.
LEMMA QuietKept ==
    ASSUME TaskInv, OpsStep, ViewStep, ThreadsStep, \A t \in Threads : Unwritten(t),
           \A o \in Ops : ops'[o].stage = "working" => ops[o].stage = "working"
    PROVE  TaskInv'
<1>1. AllSound'
  BY UnwrittenSound
<1>2. Whole'
  BY DEF ThreadsStep, OpsStep, ViewStep, Whole
<1>3. \A o \in Ops : Begun(o)'
  BY BegunKept DEF OpsStep
<1> QED
  BY <1>1, <1>2, <1>3 DEF TaskInv

\* One thread is put away, brought back, made or removed; the others stay.
LEMMA OneThread ==
    ASSUME TaskInv, DOMAIN store' = Threads, NEW t,
           \A u \in Threads : u # t => store'[u] = store[u],
           t \in Threads => /\ DOMAIN store'[t] = {"target", "entries", "archived", "version"}
                            /\ \/ store'[t] = Gone
                               \/ /\ store[t] # Gone /\ store'[t].entries = store[t].entries
                                  /\ store[t].entries = <<>> \/ store'[t].target = store[t].target
    PROVE  ThreadsStep /\ \A u \in Threads : Unwritten(u)
<1>1. \A u \in Threads : Stored(store[u])
  BY DEF TaskInv, Whole
<1>2. ASSUME NEW u \in Threads
      PROVE  Stored(store'[u]) /\ ThreadStep(u) /\ Unwritten(u)
  <2>1. CASE u # t
    BY <1>1, <2>1 DEF ThreadStep, Unwritten
  <2>2. CASE u = t
    BY <1>1, <2>2, GoneIs DEF ThreadStep, Unwritten, Stored
  <2> QED
    BY <2>1, <2>2
<1> QED
  BY <1>2 DEF ThreadsStep

LEMMA StoreActions ==
    ASSUME TaskInv,
           \/ ApplyRetention
           \/ \E job \in jobs : ChangeThread(job) \/ RemoveThread(job) \/ MakeThread(job)
    PROVE  ThreadsStep /\ \A u \in Threads : Unwritten(u)
<1>1. /\ DOMAIN store = Threads
      /\ \A t \in Threads : DOMAIN store[t] = {"target", "entries", "archived", "version"} /\ Stored(store[t])
  BY DEF TaskInv, Whole, Stored
<1>2. CASE ApplyRetention
  <2>1. PICK gone \in SUBSET Threads :
            store' = [t \in Threads |-> IF t \in gone THEN Gone ELSE store[t]]
    BY <1>2 DEF ApplyRetention
  <2> QED
    BY <1>1, <2>1, GoneIs DEF ThreadsStep, ThreadStep, Unwritten
<1>3. ASSUME NEW job \in jobs, ChangeThread(job)
      PROVE  ThreadsStep /\ \A u \in Threads : Unwritten(u)
  <2> DEFINE t == job.thread
  <2>1. store' = [store EXCEPT ![t].archived = (job.do = "archive"), ![t].version = @ + 1]
        /\ store[t].target # None
    BY <1>3 DEF ChangeThread
  <2> HIDE DEF t
  <2>2. DOMAIN store' = Threads /\ \A u \in Threads : u # t => store'[u] = store[u]
    BY <1>1, <2>1
  <2>3. ASSUME t \in Threads
        PROVE  /\ DOMAIN store'[t] = {"target", "entries", "archived", "version"} /\ store[t] # Gone
               /\ store'[t].entries = store[t].entries /\ store'[t].target = store[t].target
    BY <1>1, <2>1, <2>3, GoneIs
  <2> QED
    BY <2>2, <2>3, OneThread
<1>4. ASSUME NEW job \in jobs, RemoveThread(job)
      PROVE  ThreadsStep /\ \A u \in Threads : Unwritten(u)
  <2>1. /\ DOMAIN store' = Threads /\ \A u \in Threads : u # job.thread => store'[u] = store[u]
        /\ job.thread \in Threads => store'[job.thread] = Gone
    BY <1>1, <1>4 DEF RemoveThread
  <2> QED
    BY <2>1, OneThread, GoneIs
<1>5. ASSUME NEW job \in jobs, MakeThread(job)
      PROVE  ThreadsStep /\ \A u \in Threads : Unwritten(u)
  <2>1. CASE store' = store
    BY <2>1, StoreStays
  <2>2. ASSUME NEW t \in Free, store' = [store EXCEPT ![t].target = job.target, ![t].version = 1]
        PROVE  ThreadsStep /\ \A u \in Threads : Unwritten(u)
    <3>1. t \in Threads /\ store[t] = Absent
      BY DEF Free
    <3>2. DOMAIN store' = Threads /\ \A u \in Threads : u # t => store'[u] = store[u]
      BY <1>1, <2>2
    <3>3. /\ DOMAIN store'[t] = {"target", "entries", "archived", "version"}
          /\ store'[t].entries = store[t].entries
      BY <1>1, <2>2, <3>1
    <3> QED
      BY <3>1, <3>2, <3>3, OneThread, GoneIs
  <2> QED
    BY <1>5, <2>1, <2>2 DEF MakeThread
<1> QED
  BY <1>2, <1>3, <1>4, <1>5

\* The workbench keeps its target until the person selects another.
LEMMA ViewActions ==
    ASSUME TaskInv,
           \/ UNCHANGED view
           \/ \E job \in jobs : Refuse(job) \/ MakeThread(job) \/ Arrive(job)
           \/ \E job : Send(job)
           \/ \E d \in Targets : SelectTarget(d)
           \/ \E t \in Threads : SelectThread(t)
    PROVE  ViewStep
<1>1. DOMAIN view = {"target", "listed", "archived", "active", "busy"} /\ view.target \in Targets
  BY DEF TaskInv, Whole
<1>2. ASSUME NEW job, NEW v, DOMAIN v = DOMAIN view, v.target = view.target, Back(job, v)
      PROVE  ViewStep
  BY <1>1, <1>2 DEF Back, ViewStep
<1>3. ASSUME NEW job \in jobs, MakeThread(job)
      PROVE  ViewStep
  <2>1. CASE Back(job, view)
    BY <1>2, <2>1
  <2>2. ASSUME NEW t, Back(job, [view EXCEPT !.listed = <<[id |-> t, version |-> 1]>> \o @, !.active = t])
        PROVE  ViewStep
    <3> DEFINE v == [view EXCEPT !.listed = <<[id |-> t, version |-> 1]>> \o @, !.active = t]
    <3>1. DOMAIN v = DOMAIN view /\ v.target = view.target
      BY <1>1
    <3> HIDE DEF v
    <3> QED
      BY <1>2, <2>2, <3>1 DEF v
  <2> QED
    BY <1>3, <2>1, <2>2 DEF MakeThread
<1>4. ASSUME NEW job \in jobs, Arrive(job)
      PROVE  ViewStep
  <2>1. PICK listed, archived, active, busy :
            view' = [view EXCEPT !.listed = listed, !.archived = archived, !.active = active, !.busy = busy]
    BY <1>4, Zenon DEF Arrive
  <2> QED
    BY <1>1, <2>1 DEF ViewStep
<1>5. ASSUME NEW d \in Targets, SelectTarget(d)
      PROVE  ViewStep
  BY <1>1, <1>5 DEF SelectTarget, ViewStep
<1>6. ASSUME NEW t, SelectThread(t)
      PROVE  ViewStep
  BY <1>1, <1>6 DEF SelectThread, ViewStep
<1>7. ASSUME NEW job, Send(job)
      PROVE  ViewStep
  BY <1>1, <1>7 DEF Send, ViewStep
<1>8. CASE UNCHANGED view
  BY <1>1, <1>8 DEF ViewStep
<1>9. ASSUME NEW job, Refuse(job)
      PROVE  ViewStep
  BY <1>2, <1>9 DEF Refuse
<1> QED
  BY <1>3, <1>4, <1>5, <1>6, <1>7, <1>8, <1>9

\* A new operation is one that no entry names yet.
LEMMA StartStep ==
    ASSUME TaskInv, NEW o \in Ops, Fresh(o), NEW kind, NEW plan, Start(o, kind, plan)
    PROVE  OpsStep /\ \A p \in Ops : ops'[p].stage = "working" => ops[p].stage = "working"
<1> DEFINE new == [kind |-> kind, target |-> view.target, thread |-> view.active,
                   plan |-> plan, stage |-> "sent", cancelled |-> FALSE]
<1>1. /\ DOMAIN ops = Ops /\ view.target \in Targets
      /\ \A p \in Ops : /\ DOMAIN ops[p] = {"kind", "target", "thread", "plan", "stage", "cancelled"}
                        /\ ops[p].stage # "unused" => ops[p].target \in Targets
  BY DEF TaskInv, Whole
<1>2. /\ DOMAIN new = {"kind", "target", "thread", "plan", "stage", "cancelled"}
      /\ new.stage = "sent" /\ new.target \in Targets
  BY <1>1
<1>3. ops' = [ops EXCEPT ![o] = new] /\ ops[o].stage = "unused"
  BY DEF Start, Fresh
<1> HIDE DEF new
<1>4. DOMAIN ops' = Ops /\ ops'[o] = new /\ \A p \in Ops : p # o => ops'[p] = ops[p]
  BY <1>1, <1>3
<1> QED
  BY <1>1, <1>2, <1>3, <1>4 DEF OpsStep, Onward

LEMMA PersonOps ==
    ASSUME TaskInv,
           \/ UNCHANGED ops
           \/ \E o \in Ops : Settle(o) \/ Propose(o) \/ Execute(o)
           \/ CancelOperation
    PROVE  OpsStep /\ \A p \in Ops : ops'[p].stage = "working" => ops[p].stage = "working"
<1>1. CASE UNCHANGED ops
  BY <1>1, OpsStay
<1>2. ASSUME NEW o \in Ops, Settle(o)
      PROVE  OpsStep /\ \A p \in Ops : ops'[p].stage = "working" => ops[p].stage = "working"
  <2>1. ops[o].stage # "unused" /\ Ends(o, "done")
    BY <1>2 DEF Settle, Over
  <2> QED
    BY <2>1, EndsStep
<1>3. ASSUME NEW o \in Ops, Propose(o) \/ Execute(o)
      PROVE  OpsStep /\ \A p \in Ops : ops'[p].stage = "working" => ops[p].stage = "working"
  <2>1. UNCHANGED ops \/ (Fresh(o) /\ \E kind, plan : Start(o, kind, plan))
    BY <1>3 DEF Propose, Execute
  <2> QED
    BY <1>1, <2>1, StartStep
<1>4. CASE CancelOperation
  <2>1. /\ DOMAIN ops = Ops
        /\ \A p \in Ops : /\ DOMAIN ops[p] = {"kind", "target", "thread", "plan", "stage", "cancelled"}
                          /\ ops[p].stage # "unused" => ops[p].target \in Targets
    BY DEF TaskInv, Whole
  <2>2. PICK o : ops' = [ops EXCEPT ![o].cancelled = TRUE]
    BY <1>4 DEF CancelOperation
  <2>3. DOMAIN ops' = Ops /\ \A p \in Ops : p # o => ops'[p] = ops[p]
    BY <2>1, <2>2
  <2>4. o \in Ops => ops'[o] = [ops[o] EXCEPT !.cancelled = TRUE]
    BY <2>1, <2>2
  <2> QED
    BY <2>1, <2>3, <2>4 DEF OpsStep, Onward
<1> QED
  BY <1>1, <1>2, <1>3, <1>4

-----------------------------------------------------------------------------
(* The theorems.                                                           *)

LEMMA TaskStarts == Init => TaskInv
<1> SUFFICES ASSUME Init PROVE TaskInv
  OBVIOUS
<1>1. \A t \in Threads : store[t] = [Absent EXCEPT !.target = Home[t]]
  BY DEF Init
<1>2. \A t \in Threads : /\ DOMAIN store[t] = {"target", "entries", "archived", "version"}
                         /\ store[t].entries = <<>>
  BY <1>1 DEF Absent
<1>3. Stored(Gone) /\ Gone.entries = <<>> /\ DOMAIN <<>> = {}
  BY GoneIs
<1>4. \A o \in Ops : ops[o] = Idle
  BY DEF Init
<1>5. /\ DOMAIN Idle = {"kind", "target", "thread", "plan", "stage", "cancelled"}
      /\ Idle.stage = "unused"
  BY DEF Idle
<1>6. Whole
  BY <1>2, <1>3, <1>4, <1>5, TaskAssumption DEF Init, Whole, Stored
<1>7. AllSound
  BY <1>2, <1>3 DEF AllSound
<1>8. \A o \in Ops : Begun(o)
  BY <1>4, <1>5 DEF Begun
<1> QED
  BY <1>6, <1>7, <1>8 DEF TaskInv

\* The steps that are not an operation's own.
LEMMA PersonKept ==
    ASSUME TaskInv,
           \/ \E o \in Ops : Settle(o) \/ Propose(o) \/ Execute(o)
           \/ \E job \in jobs : JobStep(job)
           \/ ApplyRetention \/ Poll \/ Discard \/ EditQuestion \/ CancelOperation \/ CreateThread
           \/ \E d \in Targets : SelectTarget(d)
           \/ \E t \in Threads : SelectThread(t)
           \/ \E r : Archive(r) \/ Restore(r) \/ DeleteThread(r)
    PROVE  TaskInv'
<1>1. ThreadsStep /\ \A u \in Threads : Unwritten(u)
  <2>1. \/ store' = store
        \/ ApplyRetention
        \/ \E job \in jobs : ChangeThread(job) \/ RemoveThread(job) \/ MakeThread(job)
    BY Zenon DEF Settle, Propose, Execute, JobStep, Refuse, Arrive, Poll, Discard, EditQuestion, CancelOperation,
       CreateThread, SelectTarget, SelectThread, Archive, Restore, DeleteThread, Send
  <2> QED
    BY <2>1, StoreStays, StoreActions
<1>2. ViewStep
  <2>1. \/ UNCHANGED view
        \/ \E job \in jobs : Refuse(job) \/ MakeThread(job) \/ Arrive(job)
        \/ \E job : Send(job)
        \/ \E d \in Targets : SelectTarget(d)
        \/ \E t \in Threads : SelectThread(t)
    BY Zenon DEF Settle, Propose, Execute, JobStep, ChangeThread, RemoveThread, ApplyRetention, Poll, Discard,
       EditQuestion, CancelOperation, CreateThread, Archive, Restore, DeleteThread
  <2> QED
    BY <2>1, ViewActions
<1>3. OpsStep /\ \A p \in Ops : ops'[p].stage = "working" => ops[p].stage = "working"
  <2>1. \/ UNCHANGED ops
        \/ \E o \in Ops : Settle(o) \/ Propose(o) \/ Execute(o)
        \/ CancelOperation
    BY Zenon DEF JobStep, ChangeThread, RemoveThread, Refuse, MakeThread, Arrive, ApplyRetention, Poll, Discard,
       EditQuestion, CreateThread, SelectTarget, SelectThread, Archive, Restore, DeleteThread, Send
  <2> QED
    BY <2>1, PersonOps
<1> QED
  BY <1>1, <1>2, <1>3, QuietKept

LEMMA TaskNext == TaskInv /\ [Next]_vars => TaskInv'
<1> SUFFICES ASSUME TaskInv, [Next]_vars PROVE TaskInv'
  OBVIOUS
<1>1. ASSUME NEW o \in Ops, OperationStep(o)
      PROVE  TaskInv'
  BY <1>1, QuestionKept, PlanKept, CheckKept, ResultKept, FailureKept DEF OperationStep
<1>2. CASE UNCHANGED vars
  <2>1. ThreadsStep /\ OpsStep /\ \A t \in Threads : Unwritten(t)
    BY <1>2, StoreStays, OpsStay DEF vars
  <2>2. ViewStep
    BY <1>2, ViewActions DEF vars
  <2> QED
    BY <1>2, <2>1, <2>2, QuietKept DEF vars
<1> QED
  BY <1>1, <1>2, PersonKept DEF Next

LEMMA TaskInvariant == Spec => []TaskInv
BY TaskStarts, TaskNext, PTL DEF Spec

\* The threads do not mix evidence: a plan stands behind the question it answers, a result
\* behind the plan it was computed from, each in the thread and of the target its operation
\* named, however late the model or the data core answers and wherever the person is by then.
THEOREM EvidenceStays == Spec => []EvidenceInItsThread
<1>1. TaskInv => EvidenceInItsThread
  BY DEF TaskInv, AllSound, Sound, Asks, Plans, EvidenceInItsThread
<1> QED
  BY <1>1, TaskInvariant, PTL

\* What a step may do to the entries of a thread that is archived before and after it.
Frozen == \A t \in Threads : (store[t].archived /\ store'[t].archived) => store'[t].entries = store[t].entries

LEMMA WriteFreezes ==
    ASSUME TaskInv, NEW o \in Ops, OperationStep(o)
    PROVE  Frozen
<1> DEFINE d == ops[o].target
<1>1. ops[o].stage # "unused" /\ d \in Targets
  BY DEF OperationStep, AppendQuestion, AppendPlan, CheckPlan, AppendResult, Breaks, PersistError,
         TaskInv, Whole
<1>2. CASE store' = store
  BY <1>2 DEF Frozen
<1>3. ASSUME NEW u, u \in Live(d) \/ u \in Free, NEW e, Write(d, u, e)
      PROVE  Frozen
  BY <1>1, <1>3, WriteStep DEF Frozen
<1>4. ASSUME NEW t, NEW kind, NEW u \in Destinations(d, t, kind), NEW e, Write(d, u, e)
      PROVE  Frozen
  BY <1>3, <1>4, DestinationIs
<1> HIDE DEF d
<1>5. CASE AppendQuestion(o) \/ AppendPlan(o) \/ CheckPlan(o)
  BY <1>2, <1>4, <1>5 DEF AppendQuestion, AppendPlan, CheckPlan, d
<1>6. CASE AppendResult(o) \/ Breaks(o) \/ PersistError(o)
  BY <1>2, <1>3, <1>4, <1>6 DEF AppendResult, Breaks, PersistError, AppendOrDrop, d
<1> QED
  BY <1>5, <1>6 DEF OperationStep

\* What the person put away stays as she left it, until she restores it.
THEOREM PutAwayStays == Spec => ArchivedIsFrozen
<1>1. ASSUME TaskInv, [Next]_vars
      PROVE  Frozen
  <2>1. CASE UNCHANGED store
    BY <2>1 DEF Frozen
  <2>2. ASSUME \A t \in Threads : Unwritten(t)
        PROVE  Frozen
    BY <2>2, GoneIs DEF Unwritten, Frozen
  <2>3. CASE \E o \in Ops : OperationStep(o)
    BY <1>1, <2>3, WriteFreezes
  <2>4. CASE \/ ApplyRetention
             \/ \E job \in jobs : ChangeThread(job) \/ RemoveThread(job) \/ MakeThread(job)
    BY <1>1, <2>2, <2>4, StoreActions
  <2>5. \/ UNCHANGED store
        \/ \E o \in Ops : OperationStep(o)
        \/ ApplyRetention
        \/ \E job \in jobs : ChangeThread(job) \/ RemoveThread(job) \/ MakeThread(job)
    BY <1>1, Zenon DEF Next, vars, Settle, Propose, Execute, JobStep, Refuse, Arrive, Poll, Discard, EditQuestion,
       CancelOperation, CreateThread, SelectTarget, SelectThread, Archive, Restore, DeleteThread, Send
  <2> QED
    BY <2>1, <2>3, <2>4, <2>5
<1>2. TaskInv /\ [Next]_vars => [Frozen]_vars
  BY <1>1
<1>3. Spec => [][Frozen]_vars
  BY <1>2, TaskInvariant, PTL DEF Spec
<1> QED
  BY <1>3 DEF ArchivedIsFrozen, Frozen
=============================================================================
