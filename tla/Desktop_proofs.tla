-------------------------- MODULE Desktop_proofs ---------------------------
(***************************************************************************)
(* What the desktop keeps on the disk and shows in the window: its         *)
(* settings, the database with its two queues, and the catalogue, which    *)
(* share no state and no invariant; and, at the end, all the parts that    *)
(* MCDesktop composes.                                                     *)
(***************************************************************************)
EXTENDS MCDesktop, ApprovedActions_proofs, Exchange_proofs

-----------------------------------------------------------------------------
(***************************************************************************)
(* Settings: for any values and any number of writes, restores and stops.  *)
(* What an operation has left to do, and what would undo the steps it has  *)
(* done, is always that of a write of one file, of a credential and its    *)
(* list, or of a restore or roll-back over known settings; whichever step  *)
(* fails, what follows puts the settings back or through.                  *)
(***************************************************************************)

\* The settings; in MCDesktop they take turns with parts that leave their state alone.
SettingsSpec == SettingsInit /\ [][SettingsNext]_settingsVars

-----------------------------------------------------------------------------
(* Short sequences *)

LEMMA JoinedPair == ASSUME NEW a, NEW b PROVE <<a>> \o <<b>> = <<a,b>>
<1> DEFINE s == <<a>> 
           t == <<b>>
           v == <<a, b>>
<1>1. /\ s \in Seq({a,b}) /\ t \in Seq({a,b}) /\ Len(s) = 1 /\ Len(t) = 1 /\ s[1] = a /\ t[1] = b
      /\ v \in Seq({a,b}) /\ Len(v) = 2 /\ v[1] = a /\ v[2] = b
  OBVIOUS
<1> HIDE DEF s, t, v
<1> DEFINE u == s \o t
<1>2. u \in Seq({a,b}) /\ Len(u) = 2 /\ u[1] = a /\ u[2] = b
  BY <1>1, ConcatProperties
<1> HIDE DEF u
<1>3. u = v
  BY <1>1, <1>2, SeqEqual
<1> QED BY <1>3 DEF u, v, s, t
LEMMA JoinedTriple == ASSUME NEW a, NEW b, NEW c PROVE <<a>> \o <<b, c>> = <<a,b,c>>
<1> DEFINE M == {a, b, c}
           s == <<a>> 
           t == <<b, c>>
           v == <<a, b, c>>
<1>1. /\ s \in Seq(M) /\ t \in Seq(M) /\ Len(s) = 1 /\ Len(t) = 2 /\ s[1] = a /\ t[1] = b /\ t[2] = c
      /\ v \in Seq(M) /\ Len(v) = 3 /\ v[1] = a /\ v[2] = b /\ v[3] = c
  OBVIOUS
<1> HIDE DEF M, s, t, v
<1> DEFINE u == s \o t
<1>2. u \in Seq(M) /\ Len(u) = 3 /\ u[1] = a /\ u[2] = b /\ u[3] = c
  <2>1. u \in Seq(M) /\ Len(u) = 1 + 2 /\ \A i \in 1..(1 + 2) : u[i] = IF i <= 1 THEN s[i] ELSE t[i - 1]
    <3>1. /\ s \o t \in Seq(M) /\ Len(s \o t) = Len(s) + Len(t)
          /\ \A i \in 1..(Len(s) + Len(t)) : (s \o t)[i] = IF i <= Len(s) THEN s[i] ELSE t[i - Len(s)]
      <4>1. s \in Seq(M) /\ t \in Seq(M)
        BY <1>1
      <4> HIDE DEF u
      <4> QED BY ONLY <4>1, ConcatProperties
    <3> QED BY <1>1, <3>1
  <2> HIDE DEF u
  <2> QED BY <1>1, <2>1
<1> HIDE DEF u
<1>3. u = v
  BY <1>1, <1>2, SeqEqual
<1> QED BY <1>3 DEF u, v, s, t
LEMMA JoinedOne == ASSUME NEW a PROVE <<a>> \o <<>> = <<a>> /\ <<>> \o <<a>> = <<a>>
<1>1. <<a>> \in Seq({a})
  OBVIOUS
<1> QED BY <1>1, ConcatEmptySeq

LEMMA Heads ==
    /\ \A a : Head(<<a>>) = a /\ Tail(<<a>>) = <<>> /\ <<a>> # <<>>
    /\ \A a, b : Head(<<a, b>>) = a /\ Tail(<<a, b>>) = <<b>> /\ <<a, b>> # <<>>
    /\ \A a, b, c : Head(<<a, b, c>>) = a /\ Tail(<<a, b, c>>) = <<b, c>> /\ <<a, b, c>> # <<>>
OBVIOUS

-----------------------------------------------------------------------------
(* What the next start reads fits together *)

Befores == [SettingStores -> Origins]
Sound(registry, credentials) ==
    /\ \A p \in Providers : registry.kinds[p] = "remote" => p \in credentials
    /\ registry.active # "nobody" => registry.kinds[registry.active] # "none"

FilesFit ==
    /\ disk \in [content : Content, credentials : SUBSET Providers]
    /\ memory \in [content : Content, active : SUBSET Audits]
    /\ Sound(disk.content.registry, disk.credentials)
    /\ Sound(memory.content.registry, disk.credentials)
    /\ disk.content.outcomes \subseteq disk.content.starts
    /\ memory.active \subseteq disk.content.starts

\* The steps of a restore of a device that had the settings b, and what undoes those done.
RestoringNow(b) ==
    \/ op.steps = <<Keep("privacy", "file"), Keep("retention", "file"), Keep("agents", "file")>> /\ op.undo = <<>>
    \/ op.steps = <<Keep("retention", "file"), Keep("agents", "file")>> /\ op.undo = <<Keep("privacy", b["privacy"])>>
    \/ /\ op.steps = <<Keep("agents", "file")>>
       /\ op.undo = <<Keep("retention", b["retention"]), Keep("privacy", b["privacy"])>>
    \/ op.steps = <<>> /\ op.undo = RollbackTo(b)
\* What is left to do of a rollback to the settings b.
RollingBack(b) ==
    /\ op.undo = <<>>
    /\ \/ op.steps = RollbackTo(b)
       \/ op.steps = <<Keep("retention", b["retention"]), Keep("privacy", b["privacy"])>>
       \/ op.steps = <<Keep("privacy", b["privacy"])>>
       \/ op.steps = <<>>
\* A step that may be done, or fail late, as the files are now: of an operation on one file, and any.
FileStep(step) ==
    \/ \E s \in SettingStores : step = Keep(s, "edit")
    \/ \E r \in Registry : step = Write(r) /\ Sound(r, disk.credentials)
    \/ \E c \in Connections : step = Put("connections", c) \/ step = Drop("connections", c)
    \/ \E a \in Audits : step = Put("starts", a)
    \/ \E a \in disk.content.starts : step = Put("outcomes", a)
    \/ \E p \in Providers : step = Secret(p)
    \/ \E p \in Providers : /\ step = Forget(p)
                            /\ disk.content.registry.kinds[p] = "none" /\ memory.content.registry.kinds[p] = "none"
Safe(step) == FileStep(step) \/ \E s \in SettingStores, o \in Origins : step = Keep(s, o)
\* The credential is there before the list that needs it, and goes after the list that does not.
Credential ==
    \E r \in Registry, p \in Providers :
        \/ op.steps = <<Secret(p), Write(r)>> /\ Sound(r, disk.credentials \cup {p})
        \/ op.steps = <<Write(r), Forget(p)>> /\ Sound(r, disk.credentials) /\ r.kinds[p] = "none"
OneFile ==
    /\ op.name \notin {"restore", "rollback"} /\ op.undo = <<>>
    /\ op.steps = <<>> \/ Credential \/ \E step : op.steps = <<step>> /\ FileStep(step)
StepsFit ==
    /\ DOMAIN op = {"name", "steps", "undo"} /\ (app # "up" => op = NoOperation)
    /\ \/ op.name = "restore" /\ \E b \in Befores : RestoringNow(b)
       \/ op.name = "rollback" /\ \E b \in Befores : RollingBack(b)
       \/ OneFile
PendingFits == \A t \in DOMAIN pending : pending[t] \in Befores

FilesInv == FilesFit /\ StepsFit /\ PendingFits

LEMMA FilesStart == SettingsInit => FilesInv
<1> SUFFICES ASSUME SettingsInit PROVE FilesInv
  OBVIOUS
<1>1. Empty \in Content
  BY DEF Empty, Content, Registry, Origins, ProviderKinds
<1>2. Sound(Empty.registry, {})
  BY DEF Sound, Empty
<1> QED BY <1>1, <1>2 DEF SettingsInit, FilesInv, FilesFit, PendingFits, StepsFit, OneFile, NoOperation, Empty

\* One part of what is in memory and the audits that run are replaced.
Reworked(m, slot, x, y) == [m EXCEPT !.content[slot] = x, !.active = y]
Memories == [content : Content, active : SUBSET Audits]
LEMMA MemoryPut ==
    ASSUME NEW m \in Memories, NEW y \in SUBSET Audits,
           NEW slot, NEW x,
           \/ slot = "connections" /\ x \in SUBSET Connections
           \/ slot \in {"starts", "outcomes"} /\ x \in SUBSET Audits
    PROVE  /\ Reworked(m, slot, x, y) \in Memories
           /\ Reworked(m, slot, x, y).content.registry = m.content.registry /\ Reworked(m, slot, x, y).active = y
<1> DEFINE c == [m.content EXCEPT ![slot] = x]
<1>1. m.content \in Content /\ m.active \in SUBSET Audits /\ m = [content |-> m.content, active |-> m.active]
  BY DEF Memories
<1>2. c \in Content /\ c.registry = m.content.registry
  BY <1>1 DEF Content
<1>3. [m EXCEPT !.content[slot] = x, !.active = y] = [content |-> c, active |-> y]
  <2>1. [m EXCEPT !.content[slot] = x] = [content |-> c, active |-> m.active]
    <3> HIDE DEF c
    <3>1. [m EXCEPT !.content = c] = [content |-> c, active |-> m.active]
      BY <1>1
    <3> QED BY <3>1 DEF c
  <2> HIDE DEF c
  <2>2. [[content |-> c, active |-> m.active] EXCEPT !.active = y] = [content |-> c, active |-> y]
    OBVIOUS
  <2>3. [m EXCEPT !.content[slot] = x, !.active = y] = [[m EXCEPT !.content[slot] = x] EXCEPT !.active = y]
    OBVIOUS
  <2> QED BY <2>1, <2>2, <2>3
<1> HIDE DEF c
<1> DEFINE new == [content |-> c, active |-> y]
<1>4. new \in Memories /\ new.content.registry = m.content.registry /\ new.active = y
  BY <1>2 DEF Memories
<1> HIDE DEF new
<1> QED BY <1>3, <1>4 DEF new, Reworked

\* A safe step keeps the files in order, whether the application sees it done or not.
LEMMA SafeStep ==
    ASSUME FilesFit, NEW step, Safe(step), disk' = OnDisk(step), memory' \in {memory, InMemory(step)}
    PROVE  FilesFit'
<1>1. CASE \E s \in SettingStores, o \in Origins : step = Keep(s, o)
  <2> PICK s \in SettingStores, o \in Origins : step = Keep(s, o)
    BY <1>1
  <2>1. /\ disk' = [disk EXCEPT !.content.settings[s] = o]
        /\ memory' \in {memory, [memory EXCEPT !.content.settings[s] = o]}
    BY DEF OnDisk, InMemory, Keep
  <2> QED BY <2>1 DEF FilesFit, Content
<1>2. CASE \E r \in Registry : step = Write(r) /\ Sound(r, disk.credentials)
  <2> PICK r \in Registry : step = Write(r) /\ Sound(r, disk.credentials)
    BY <1>2
  <2>1. /\ disk' = [disk EXCEPT !.content.registry = r]
        /\ memory' \in {memory, [memory EXCEPT !.content.registry = r]}
    BY DEF OnDisk, InMemory, Write
  <2> QED BY <2>1 DEF FilesFit, Content
<1>3. CASE \E c \in Connections : step = Put("connections", c) \/ step = Drop("connections", c)
  <2> PICK c \in Connections : step = Put("connections", c) \/ step = Drop("connections", c)
    BY <1>3
  <2>1. CASE step = Put("connections", c)
    <3>1. /\ disk' = [disk EXCEPT !.content["connections"] = @ \cup {c}]
          /\ memory' \in {memory, [memory EXCEPT !.content["connections"] = @ \cup {c}, !.active = @]}
      BY <2>1 DEF OnDisk, InMemory, Put
    <3>2. /\ disk' \in [content : Content, credentials : SUBSET Providers]
          /\ disk'.content.registry = disk.content.registry /\ disk'.credentials = disk.credentials
          /\ disk'.content.starts = disk.content.starts /\ disk'.content.outcomes = disk.content.outcomes
      BY <3>1 DEF FilesFit, Content
    <3>3. /\ memory' \in [content : Content, active : SUBSET Audits]
          /\ memory'.content.registry = memory.content.registry /\ memory'.active = memory.active
      <4>1. memory.content["connections"] \cup {c} \in SUBSET Connections /\ memory.active \in SUBSET Audits
        BY DEF FilesFit, Content
      <4>2. memory' \in {memory, Reworked(memory, "connections", memory.content["connections"] \cup {c}, memory.active)}
        BY <3>1 DEF Reworked
      <4>3. memory \in Memories
        BY DEF FilesFit, Memories
      <4> DEFINE x == memory.content["connections"] \cup {c}
                 y == memory.active
                 new == Reworked(memory, "connections", x, y)
      <4> HIDE DEF x, y
      <4>4. x \in SUBSET Connections /\ y \in SUBSET Audits
        BY <4>1 DEF x, y
      <4>5. new \in Memories /\ new.content.registry = memory.content.registry
            /\ new.active = y
        BY <4>3, <4>4, MemoryPut
      <4> HIDE DEF new
      <4> QED BY <4>2, <4>3, <4>5 DEF new, x, y, Memories
    <3> QED BY <3>2, <3>3 DEF FilesFit
  <2>2. CASE step = Drop("connections", c)
    <3>1. /\ disk' = [disk EXCEPT !.content["connections"] = @ \ {c}]
          /\ memory' = memory
      BY <2>2 DEF OnDisk, InMemory, Drop
    <3> QED BY <3>1 DEF FilesFit, Content
  <2> QED BY <2>1, <2>2
<1>4. CASE \E a \in Audits : step = Put("starts", a)
  <2> PICK a \in Audits : step = Put("starts", a)
    BY <1>4
  <2>1. /\ disk' = [disk EXCEPT !.content["starts"] = @ \cup {a}]
        /\ memory' \in {memory, [memory EXCEPT !.content["starts"] = @ \cup {a}, !.active = @ \cup {a}]}
    BY DEF OnDisk, InMemory, Put
  <2>2. /\ disk' \in [content : Content, credentials : SUBSET Providers]
        /\ disk'.content.registry = disk.content.registry /\ disk'.credentials = disk.credentials
        /\ disk'.content.starts = disk.content.starts \cup {a} /\ disk'.content.outcomes = disk.content.outcomes
    BY <2>1 DEF FilesFit, Content
  <2>3. /\ memory' \in [content : Content, active : SUBSET Audits]
        /\ memory'.content.registry = memory.content.registry /\ memory'.active \subseteq memory.active \cup {a}
    <3>1. memory.content["starts"] \cup {a} \in SUBSET Audits /\ memory.active \cup {a} \in SUBSET Audits
      BY DEF FilesFit, Content
    <3>2. memory' \in {memory, Reworked(memory, "starts", memory.content["starts"] \cup {a}, memory.active \cup {a})}
      BY <2>1 DEF Reworked
    <3>3. memory \in Memories
      BY DEF FilesFit, Memories
    <3> DEFINE x == memory.content["starts"] \cup {a}
               y == memory.active \cup {a}
               new == Reworked(memory, "starts", x, y)
    <3> HIDE DEF x, y
    <3>4. x \in SUBSET Audits /\ y \in SUBSET Audits /\ y \subseteq memory.active \cup {a}
      BY <3>1 DEF x, y
    <3>5. new \in Memories /\ new.content.registry = memory.content.registry
          /\ new.active = y
      BY <3>3, <3>4, MemoryPut
    <3> HIDE DEF new
    <3> QED BY <3>2, <3>3, <3>4, <3>5 DEF new, x, y, Memories
  <2> QED BY <2>2, <2>3 DEF FilesFit
<1>5. CASE \E a \in disk.content.starts : step = Put("outcomes", a)
  <2> PICK a \in disk.content.starts : step = Put("outcomes", a)
    BY <1>5
  <2>0. a \in Audits
    BY DEF FilesFit, Content
  <2>1. /\ disk' = [disk EXCEPT !.content["outcomes"] = @ \cup {a}]
        /\ memory' \in {memory, [memory EXCEPT !.content["outcomes"] = @ \cup {a}, !.active = @ \ {a}]}
    BY DEF OnDisk, InMemory, Put
  <2>2. /\ disk' \in [content : Content, credentials : SUBSET Providers]
        /\ disk'.content.registry = disk.content.registry /\ disk'.credentials = disk.credentials
        /\ disk'.content.starts = disk.content.starts /\ disk'.content.outcomes = disk.content.outcomes \cup {a}
    BY <2>0, <2>1 DEF FilesFit, Content
  <2>3. /\ memory' \in [content : Content, active : SUBSET Audits]
        /\ memory'.content.registry = memory.content.registry /\ memory'.active \subseteq memory.active
    <3>1. memory.content["outcomes"] \cup {a} \in SUBSET Audits /\ memory.active \ {a} \in SUBSET Audits
      BY <2>0 DEF FilesFit, Content
    <3>2. memory' \in {memory, Reworked(memory, "outcomes", memory.content["outcomes"] \cup {a}, memory.active \ {a})}
      BY <2>1 DEF Reworked
    <3>3. memory \in Memories
      BY DEF FilesFit, Memories
    <3> DEFINE x == memory.content["outcomes"] \cup {a}
               y == memory.active \ {a}
               new == Reworked(memory, "outcomes", x, y)
    <3> HIDE DEF x, y
    <3>4. x \in SUBSET Audits /\ y \in SUBSET Audits /\ y \subseteq memory.active \cup {a} /\ y \subseteq memory.active
      BY <3>1 DEF x, y
    <3>5. new \in Memories /\ new.content.registry = memory.content.registry
          /\ new.active = y
      BY <3>3, <3>4, MemoryPut
    <3> HIDE DEF new
    <3> QED BY <3>2, <3>3, <3>4, <3>5 DEF new, x, y, Memories
  <2> QED BY <2>2, <2>3 DEF FilesFit
<1>6. CASE \E p \in Providers : step = Secret(p)
  <2> PICK p \in Providers : step = Secret(p)
    BY <1>6
  <2>1. disk' = [disk EXCEPT !.credentials = @ \cup {p}] /\ memory' = memory
    BY DEF OnDisk, InMemory, Secret
  <2> QED BY <2>1 DEF FilesFit, Sound
<1>7. CASE \E p \in Providers : /\ step = Forget(p)
                                /\ disk.content.registry.kinds[p] = "none" /\ memory.content.registry.kinds[p] = "none"
  <2> PICK p \in Providers : /\ step = Forget(p)
                             /\ disk.content.registry.kinds[p] = "none" /\ memory.content.registry.kinds[p] = "none"
    BY <1>7
  <2>1. disk' = [disk EXCEPT !.credentials = @ \ {p}] /\ memory' = memory
    BY DEF OnDisk, InMemory, Forget
  <2> QED BY <2>1 DEF FilesFit, Sound
<1> QED BY <1>1, <1>2, <1>3, <1>4, <1>5, <1>6, <1>7 DEF Safe, FileStep, Origins

\* The first step to do is a safe one.
LEMMA FirstIsSafe == ASSUME FilesInv, op.steps # <<>> PROVE Safe(Head(op.steps))
<1>1. ASSUME NEW b \in Befores, RestoringNow(b) PROVE Safe(Head(op.steps))
  <2>1. \E s \in SettingStores, o \in Origins : Head(op.steps) = Keep(s, o)
    BY <1>1, Heads DEF RestoringNow, SettingStores, Origins
  <2> QED BY <2>1 DEF Safe
<1>2. ASSUME NEW b \in Befores, RollingBack(b) PROVE Safe(Head(op.steps))
  <2>1. \E s \in SettingStores, o \in Origins : Head(op.steps) = Keep(s, o)
    BY <1>2, Heads DEF RollingBack, RollbackTo, SettingStores, Befores
  <2> QED BY <2>1 DEF Safe
<1>3. CASE OneFile
  <2>1. CASE Credential
    <3> PICK r \in Registry, p \in Providers :
          \/ op.steps = <<Secret(p), Write(r)>>
          \/ op.steps = <<Write(r), Forget(p)>> /\ Sound(r, disk.credentials)
      BY <2>1 DEF Credential
    <3>1. \/ Head(op.steps) = Secret(p)
          \/ Head(op.steps) = Write(r) /\ Sound(r, disk.credentials)
      BY Heads
    <3> QED BY <3>1 DEF Safe, FileStep
  <2>2. CASE \E step : op.steps = <<step>> /\ FileStep(step)
    BY <2>2, Heads DEF Safe
  <2> QED BY <1>3, <2>1, <2>2 DEF OneFile
<1> QED BY <1>1, <1>2, <1>3 DEF FilesInv, StepsFit

LEMMA RollbackGoesOn ==
    ASSUME NEW b, RollingBack(b), op.steps # <<>>
    PROVE  \/ Tail(op.steps) = <<Keep("retention", b["retention"]), Keep("privacy", b["privacy"])>>
           \/ Tail(op.steps) = <<Keep("privacy", b["privacy"])>>
           \/ Tail(op.steps) = <<>>
<1>1. CASE op.steps = RollbackTo(b)
  BY <1>1, Heads DEF RollbackTo
<1>2. CASE op.steps = <<Keep("retention", b["retention"]), Keep("privacy", b["privacy"])>>
  BY <1>2, Heads
<1>3. CASE op.steps = <<Keep("privacy", b["privacy"])>>
  BY <1>3, Heads
<1> QED BY <1>1, <1>2, <1>3 DEF RollingBack
LEMMA StepDoneKeeps == ASSUME FilesInv, StepDone PROVE FilesInv'
<1> DEFINE step == Head(op.steps)
<1>1. /\ Safe(step) /\ FilesFit' /\ op.steps # <<>> /\ PendingFits'
  <2>1. op.steps # <<>> /\ disk' = OnDisk(step) /\ memory' = InMemory(step) /\ UNCHANGED pending
    BY DEF StepDone
  <2>2. Safe(step)
    BY <2>1, FirstIsSafe
  <2> HIDE DEF step
  <2> QED BY <2>1, <2>2, SafeStep DEF FilesInv, PendingFits
<1>0. app' = "up"
  BY DEF FilesInv, StepsFit, StepDone, NoOperation
<1>2. /\ DOMAIN op' = {"name", "steps", "undo"} /\ op'.name = op.name /\ op'.steps = Tail(op.steps) /\ op'.undo = UndoOf(step)
  BY DEF FilesInv, StepsFit, StepDone
<1>3. disk' = OnDisk(step) /\ memory' = InMemory(step)
  BY DEF StepDone
<1>4. ASSUME op.name = "restore", NEW b \in Befores, RestoringNow(b) PROVE \E c \in Befores : RestoringNow(c)'
  <2> DEFINE m == memory.content.settings
  <2>1. m \in Befores /\ UndoOf(step) = <<Keep(step.part, m[step.part])>> \o op.undo
    BY <1>4 DEF FilesInv, FilesFit, Content, UndoOf, Befores
  <2> HIDE DEF m
  <2>2. CASE op.steps = <<Keep("privacy", "file"), Keep("retention", "file"), Keep("agents", "file")>> /\ op.undo = <<>>
    <3>1. step.part = "privacy" /\ op'.steps = <<Keep("retention", "file"), Keep("agents", "file")>>
      BY <1>2, <2>2, Heads DEF Keep
    <3>2. op'.undo = <<Keep("privacy", m["privacy"])>>
      BY <1>2, <2>1, <2>2, <3>1, JoinedOne
    <3> QED BY <2>1, <3>1, <3>2 DEF RestoringNow
  <2>3. CASE op.steps = <<Keep("retention", "file"), Keep("agents", "file")>> /\ op.undo = <<Keep("privacy", b["privacy"])>>
    <3> DEFINE c == [b EXCEPT !["retention"] = m["retention"]]
    <3>0. c \in Befores /\ c["privacy"] = b["privacy"] /\ c["retention"] = m["retention"]
      BY <2>1 DEF Befores, SettingStores
    <3> HIDE DEF c
    <3>1. step.part = "retention" /\ op'.steps = <<Keep("agents", "file")>>
      BY <1>2, <2>3, Heads DEF Keep
    <3>2. op'.undo = <<Keep("retention", c["retention"]), Keep("privacy", c["privacy"])>>
      BY <1>2, <2>1, <2>3, <3>0, <3>1, JoinedPair
    <3> QED BY <3>0, <3>1, <3>2 DEF RestoringNow
  <2>4. CASE /\ op.steps = <<Keep("agents", "file")>>
             /\ op.undo = <<Keep("retention", b["retention"]), Keep("privacy", b["privacy"])>>
    <3> DEFINE c == [b EXCEPT !["agents"] = m["agents"]]
    <3>0. c \in Befores /\ c["privacy"] = b["privacy"] /\ c["retention"] = b["retention"] /\ c["agents"] = m["agents"]
      BY <2>1 DEF Befores, SettingStores
    <3> HIDE DEF c
    <3>1. step.part = "agents" /\ op'.steps = <<>>
      BY <1>2, <2>4, Heads DEF Keep
    <3>2. op'.undo = RollbackTo(c)
      BY <1>2, <2>1, <2>4, <3>0, <3>1, JoinedTriple DEF RollbackTo
    <3> QED BY <3>0, <3>1, <3>2 DEF RestoringNow
  <2> QED BY <1>1, <1>4, <2>2, <2>3, <2>4 DEF RestoringNow
<1>5. ASSUME op.name = "rollback", NEW b \in Befores, RollingBack(b) PROVE RollingBack(b)'
  <2>1. op'.undo = <<>>
    BY <1>2, <1>5 DEF UndoOf
  <2>2. \/ op'.steps = <<Keep("retention", b["retention"]), Keep("privacy", b["privacy"])>>
        \/ op'.steps = <<Keep("privacy", b["privacy"])>>
        \/ op'.steps = <<>>
    BY <1>1, <1>2, <1>5, RollbackGoesOn
  <2> QED BY <2>1, <2>2 DEF RollingBack
<1>6. ASSUME OneFile PROVE OneFile'
  <2>1. op'.undo = <<>> /\ op'.name \notin {"restore", "rollback"}
    BY <1>2, <1>6 DEF UndoOf, OneFile
  <2>2. CASE Credential
    <3> PICK r \in Registry, p \in Providers :
          \/ op.steps = <<Secret(p), Write(r)>> /\ Sound(r, disk.credentials \cup {p})
          \/ op.steps = <<Write(r), Forget(p)>> /\ Sound(r, disk.credentials) /\ r.kinds[p] = "none"
      BY <2>2 DEF Credential
    <3>1. CASE op.steps = <<Secret(p), Write(r)>> /\ Sound(r, disk.credentials \cup {p})
      <4>1. step = Secret(p) /\ op'.steps = <<Write(r)>>
        BY <1>2, <3>1, Heads
      <4>2. disk'.credentials = disk.credentials \cup {p}
        BY <1>3, <4>1 DEF OnDisk, Secret, FilesInv, FilesFit
      <4>3. FileStep(Write(r))'
        BY <3>1, <4>2 DEF FileStep, Write
      <4> QED BY <2>1, <4>1, <4>3 DEF OneFile
    <3>2. CASE op.steps = <<Write(r), Forget(p)>> /\ Sound(r, disk.credentials) /\ r.kinds[p] = "none"
      <4>1. step = Write(r) /\ op'.steps = <<Forget(p)>>
        BY <1>2, <3>2, Heads
      <4>2. disk'.content.registry = r /\ memory'.content.registry = r
        BY <1>3, <4>1 DEF OnDisk, InMemory, Write, FilesInv, FilesFit, Content
      <4>3. FileStep(Forget(p))'
        BY <3>2, <4>2 DEF FileStep, Forget
      <4> QED BY <2>1, <4>1, <4>3 DEF OneFile
    <3> QED BY <3>1, <3>2
  <2>3. CASE \E one : op.steps = <<one>>
    BY <1>2, <2>1, <2>3, Heads DEF OneFile
  <2> QED BY <1>1, <1>6, <2>2, <2>3 DEF OneFile
<1> QED BY <1>0, <1>1, <1>2, <1>4, <1>5, <1>6 DEF FilesInv, StepsFit

LEMMA StepFailsKeeps == ASSUME FilesInv, NEW went \in BOOLEAN, StepFails(went) PROVE FilesInv'
<1> DEFINE step == Head(op.steps)
<1>1. FilesFit' /\ PendingFits'
  <2>1. /\ op.steps # <<>> /\ disk' = (IF went THEN OnDisk(step) ELSE disk) /\ memory' = memory /\ UNCHANGED pending
    BY DEF StepFails
  <2>2. Safe(step)
    BY <2>1, FirstIsSafe
  <2> HIDE DEF step
  <2>3. CASE went
    BY <2>1, <2>2, <2>3, SafeStep DEF FilesInv, PendingFits
  <2>4. CASE ~went
    BY <2>1, <2>4 DEF FilesInv, FilesFit, PendingFits
  <2> QED BY <2>3, <2>4
<1>0. app' = "up"
  BY DEF FilesInv, StepsFit, StepFails, NoOperation
<1>2. ASSUME op.name = "restore", NEW b \in Befores, RestoringNow(b) PROVE op'.name = "rollback" /\ RollingBack(b)' /\ DOMAIN op' = {"name", "steps", "undo"}
  <2>1. op' = [name |-> "rollback", steps |-> op.undo, undo |-> <<>>]
    BY <1>2 DEF StepFails
  <2> QED BY <1>2, <2>1 DEF RestoringNow, RollingBack
<1>3. ASSUME op.name = "rollback", NEW b \in Befores, RollingBack(b) PROVE op'.name = "rollback" /\ RollingBack(b)' /\ DOMAIN op' = {"name", "steps", "undo"}
  <2>1. op' = [op EXCEPT !.steps = Tail(@)] /\ op.steps # <<>>
    BY <1>3 DEF StepFails
  <2>2. op'.undo = <<>> /\ op'.steps = Tail(op.steps) /\ op'.name = "rollback" /\ DOMAIN op' = {"name", "steps", "undo"}
    BY <1>3, <2>1 DEF FilesInv, StepsFit, RollingBack
  <2>3. \/ op'.steps = <<Keep("retention", b["retention"]), Keep("privacy", b["privacy"])>>
        \/ op'.steps = <<Keep("privacy", b["privacy"])>>
        \/ op'.steps = <<>>
    BY <1>3, <2>1, <2>2, RollbackGoesOn
  <2> QED BY <2>2, <2>3 DEF RollingBack
<1>4. ASSUME OneFile PROVE OneFile' /\ DOMAIN op' = {"name", "steps", "undo"}
  <2>1. op' = [op EXCEPT !.steps = <<>>]
    BY <1>4 DEF StepFails, OneFile
  <2> QED BY <1>4, <2>1 DEF OneFile, FilesInv, StepsFit
<1> QED BY <1>0, <1>1, <1>2, <1>3, <1>4 DEF FilesInv, StepsFit

\* A restore that returns has the settings of before to put back.
LEMMA UndoneTo ==
    ASSUME NEW b \in Befores, op.undo = RollbackTo(b)
    PROVE  b = [s \in SettingStores |-> op.undo[CHOOSE i \in DOMAIN op.undo : op.undo[i].part = s].value]
<1>1. /\ DOMAIN op.undo = 1..3
      /\ op.undo[1] = Keep("agents", b["agents"])
      /\ op.undo[2] = Keep("retention", b["retention"])
      /\ op.undo[3] = Keep("privacy", b["privacy"])
  BY DEF RollbackTo
<1>2. /\ \A i \in DOMAIN op.undo : op.undo[i].value = b[op.undo[i].part]
      /\ \A s \in SettingStores : \E i \in DOMAIN op.undo : op.undo[i].part = s
  BY <1>1 DEF Keep, SettingStores
<1>3. ASSUME NEW s \in SettingStores PROVE b[s] = op.undo[CHOOSE i \in DOMAIN op.undo : op.undo[i].part = s].value
  <2> DEFINE i == CHOOSE j \in DOMAIN op.undo : op.undo[j].part = s
  <2>1. i \in DOMAIN op.undo /\ op.undo[i].part = s
    BY <1>2
  <2> HIDE DEF i
  <2>2. op.undo[i].value = b[s]
    BY <1>2, <2>1
  <2> QED BY <2>2 DEF i
<1> QED BY <1>3 DEF Befores

LEMMA ReturnsKeeps == ASSUME FilesInv, Returns PROVE FilesInv'
<1>1. FilesFit' /\ StepsFit'
  BY DEF Returns, FilesInv, FilesFit, StepsFit, OneFile, NoOperation
<1>2. CASE op.name # "restore"
  BY <1>1, <1>2 DEF Returns, FilesInv, PendingFits
<1>3. CASE op.name = "restore"
  <2>1. PICK b \in Befores : op.undo = RollbackTo(b)
    <3>1. \E b \in Befores : RestoringNow(b)
      BY <1>3 DEF FilesInv, StepsFit, RollingBack, OneFile
    <3> QED BY <3>1, Heads DEF RestoringNow, Returns
  <2>2. pending' = [t \in DOMAIN pending \cup {ticket.token} |-> IF t = ticket.token THEN b ELSE pending[t]]
    BY <1>3, <2>1, UndoneTo DEF Returns
  <2>3. PendingFits'
    BY <2>2 DEF FilesInv, PendingFits
  <2> QED BY <1>1, <2>3 DEF FilesInv
<1> QED BY <1>2, <1>3

\* A change that touches no file and begins nothing.
LEMMA NoFileKeeps ==
    ASSUME FilesInv, UNCHANGED <<disk, memory, op, app>>, PendingFits'
    PROVE  FilesInv'
<1>1. FilesFit' /\ StepsFit'
  BY DEF FilesInv, FilesFit, StepsFit, OneFile, Credential, FileStep, RestoringNow, RollingBack
<1> QED BY <1>1 DEF FilesInv

\* An operation on one file, or on a credential and the list, begins.
LEMMA BeginsKeeps ==
    ASSUME FilesInv, NEW name, NEW steps, Begins(name, steps), UNCHANGED <<disk, app, pending>>,
           name \notin {"restore", "rollback"}, FilesFit',
           \/ \E r \in Registry, p \in Providers :
                 \/ steps = <<Secret(p), Write(r)>> /\ Sound(r, disk.credentials \cup {p})
                 \/ steps = <<Write(r), Forget(p)>> /\ Sound(r, disk.credentials) /\ r.kinds[p] = "none"
           \/ \E step : steps = <<step>> /\ FileStep(step)'
    PROVE  FilesInv'
<1>1. op' = [name |-> name, steps |-> steps, undo |-> <<>>] /\ app = "up"
  BY DEF Begins
<1>2. op'.steps = steps /\ op'.name = name /\ op'.undo = <<>> /\ DOMAIN op' = {"name", "steps", "undo"}
  BY <1>1
<1>3. Credential' \/ \E step : op'.steps = <<step>> /\ FileStep(step)'
  BY <1>2 DEF Credential
<1>4. OneFile'
  BY <1>2, <1>3 DEF OneFile
<1> QED BY <1>1, <1>2, <1>4 DEF FilesInv, StepsFit, PendingFits

LEMMA ProvidersKeep ==
    ASSUME FilesInv, NEW p \in Providers,
           \/ SelectProvider(p) \/ RemoveProvider(p)
           \/ \E k \in ProviderKinds, c \in BOOLEAN : SaveProvider(p, k, c)
    PROVE  FilesInv'
<1> DEFINE known == memory.content.registry
<1>0. /\ known \in Registry /\ Sound(known, disk.credentials) /\ "nobody" \notin Providers
      /\ disk.content.registry \in Registry
  BY SettingsAssumption DEF FilesInv, FilesFit, Content
<1>a. ASSUME NEW steps, NEW name \in {"provider"}, OnlyBegins(name, steps)
      PROVE  Begins(name, steps) /\ UNCHANGED <<disk, memory, app, pending>> /\ FilesFit' /\ name \notin {"restore", "rollback"}
  BY <1>a DEF OnlyBegins, FilesInv, FilesFit
<1>b. ASSUME NEW r \in Registry, OnlyBegins("provider", <<Write(r)>>), Sound(r, disk.credentials) PROVE FilesInv'
  <2>1. UNCHANGED disk
    BY <1>a, <1>b
  <2>2. FileStep(Write(r))'
    BY <1>b, <2>1 DEF FileStep
  <2> QED BY <1>a, <1>b, <2>2, BeginsKeeps
<1>1. CASE SelectProvider(p)
  <2> DEFINE r == [known EXCEPT !.active = p]
  <2>1. r \in Registry /\ Sound(r, disk.credentials)
    <3>1. r.kinds = known.kinds /\ r.active = p /\ r \in Registry
      BY <1>0 DEF Registry
    <3> HIDE DEF r
    <3> QED BY <1>0, <1>1, <3>1 DEF Sound, SelectProvider
  <2>2. OnlyBegins("provider", <<Write(r)>>)
    BY <1>1 DEF SelectProvider
  <2> HIDE DEF r
  <2> QED BY <1>b, <2>1, <2>2
<1>2. CASE RemoveProvider(p)
  <2> DEFINE rest == {q \in Providers \ {p} : known.kinds[q] # "none"}
             kinds == [known.kinds EXCEPT ![p] = "none"]
  <2>1. PICK next \in IF known.active # p THEN {known.active} ELSE IF rest = {} THEN {"nobody"} ELSE rest :
          OnlyBegins("provider", <<Write([kinds |-> kinds, active |-> next]), Forget(p)>>)
    BY <1>2 DEF RemoveProvider
  <2>2. /\ kinds \in [Providers -> ProviderKinds] /\ kinds[p] = "none"
        /\ \A q \in Providers \ {p} : kinds[q] = known.kinds[q]
    BY <1>0 DEF Registry, ProviderKinds
  <2>3. /\ next \in Providers \cup {"nobody"} /\ next # p
        /\ next # "nobody" => known.kinds[next] # "none"
    BY <1>0, <2>1 DEF Sound, Registry
  <2> DEFINE r == [kinds |-> kinds, active |-> next]
  <2> HIDE DEF kinds, rest
  <2>4. r \in Registry /\ Sound(r, disk.credentials) /\ r.kinds[p] = "none"
    BY <1>0, <2>2, <2>3 DEF Sound, Registry, ProviderKinds
  <2> HIDE DEF r
  <2>5. OnlyBegins("provider", <<Write(r), Forget(p)>>)
    BY <2>1 DEF r
  <2> QED BY <1>a, <2>4, <2>5, BeginsKeeps
<1>3. CASE \E k \in ProviderKinds, c \in BOOLEAN : SaveProvider(p, k, c)
  <2> PICK k \in ProviderKinds, c \in BOOLEAN : SaveProvider(p, k, c)
    BY <1>3
  <2> DEFINE kinds == [known.kinds EXCEPT ![p] = k]
             active == IF known.active = "nobody" THEN p ELSE known.active
             r == [kinds |-> kinds, active |-> active]
  <2>1. /\ k # "none" /\ (k = "remote" => c \/ p \in disk.credentials)
        /\ OnlyBegins("provider", ProviderSteps(p, c, r))
    BY DEF SaveProvider
  <2>2. /\ kinds \in [Providers -> ProviderKinds] /\ kinds[p] = k
        /\ \A q \in Providers \ {p} : kinds[q] = known.kinds[q]
    BY <1>0 DEF Registry
  <2>3. active \in Providers \cup {"nobody"} /\ (active # "nobody" => kinds[active] # "none")
    BY <1>0, <2>1, <2>2 DEF Registry, Sound
  <2> HIDE DEF kinds, active
  <2>4. r \in Registry
    BY <2>2, <2>3 DEF Registry
  <2>5. CASE c
    <3>1. Sound(r, disk.credentials \cup {p})
      BY <1>0, <2>2, <2>3 DEF Sound
    <3> HIDE DEF r
    <3>2. OnlyBegins("provider", <<Secret(p), Write(r)>>)
      BY <2>1, <2>5, JoinedPair DEF ProviderSteps
    <3> QED BY <1>a, <2>4, <3>1, <3>2, BeginsKeeps
  <2>6. CASE ~c
    <3>1. Sound(r, disk.credentials)
      BY <1>0, <2>1, <2>2, <2>3, <2>6 DEF Sound
    <3> HIDE DEF r
    <3>2. OnlyBegins("provider", <<Write(r)>>)
      BY <2>1, <2>6, JoinedOne DEF ProviderSteps
    <3> QED BY <1>b, <2>4, <3>1, <3>2
  <2> QED BY <2>5, <2>6
<1> QED BY <1>1, <1>2, <1>3

LEMMA RecordsKeep ==
    ASSUME FilesInv,
           \/ \E c \in Connections : SaveConnection(c) \/ RemoveConnection(c)
           \/ \E a \in Audits : OpenAudit(a) \/ CloseAudit(a)
           \/ \E s \in SettingStores : EditSetting(s)
    PROVE  FilesInv'
<1>a. ASSUME NEW step, NEW name \in {"strict", "edit"}, OnlyBegins(name, <<step>>), FileStep(step)' PROVE FilesInv'
  <2>1. Begins(name, <<step>>) /\ UNCHANGED <<disk, memory, app, pending>> /\ FilesFit' /\ name \notin {"restore", "rollback"}
    BY <1>a DEF OnlyBegins, FilesInv, FilesFit
  <2> QED BY <1>a, <2>1, BeginsKeeps
<1>1. ASSUME NEW c \in Connections, SaveConnection(c) PROVE FilesInv'
  <2>1. OnlyBegins("strict", <<Put("connections", c)>>)
    BY <1>1 DEF SaveConnection
  <2>2. FileStep(Put("connections", c))'
    BY DEF FileStep
  <2> QED BY <1>a, <2>1, <2>2
<1>2. ASSUME NEW c \in Connections, RemoveConnection(c) PROVE FilesInv'
  <2>1. memory' = [memory EXCEPT !.content.connections = @ \ {c}] /\ Begins("removal", <<Drop("connections", c)>>)
        /\ UNCHANGED <<disk, app, pending>>
    BY <1>2 DEF RemoveConnection
  <2>2. FilesFit'
    BY <2>1 DEF FilesInv, FilesFit, Content
  <2>3. FileStep(Drop("connections", c))'
    BY DEF FileStep
  <2> QED BY <2>1, <2>2, <2>3, BeginsKeeps
<1>3. ASSUME NEW a \in Audits, OpenAudit(a) PROVE FilesInv'
  <2>1. OnlyBegins("strict", <<Put("starts", a)>>)
    BY <1>3 DEF OpenAudit
  <2>2. FileStep(Put("starts", a))'
    BY DEF FileStep
  <2> QED BY <1>a, <2>1, <2>2
<1>4. ASSUME NEW a \in Audits, CloseAudit(a) PROVE FilesInv'
  <2>1. OnlyBegins("strict", <<Put("outcomes", a)>>) /\ a \in disk.content.starts /\ UNCHANGED disk
    BY <1>4 DEF CloseAudit, OnlyBegins, FilesInv, FilesFit
  <2>2. FileStep(Put("outcomes", a))'
    BY <2>1 DEF FileStep
  <2> QED BY <1>a, <2>1, <2>2
<1>5. ASSUME NEW s \in SettingStores, EditSetting(s) PROVE FilesInv'
  <2>1. OnlyBegins("edit", <<Keep(s, "edit")>>)
    BY <1>5 DEF EditSetting
  <2>2. FileStep(Keep(s, "edit"))'
    BY DEF FileStep, Origins
  <2> QED BY <1>a, <2>1, <2>2
<1> QED BY <1>1, <1>2, <1>3, <1>4, <1>5

LEMMA RollbackBegins ==
    ASSUME FilesInv, NEW b \in Befores, op' = [name |-> "rollback", steps |-> RollbackTo(b), undo |-> <<>>],
           app = "up", UNCHANGED <<disk, memory, app>>, PendingFits'
    PROVE  FilesInv'
<1>1. op'.steps = RollbackTo(b) /\ op'.name = "rollback" /\ op'.undo = <<>> /\ DOMAIN op' = {"name", "steps", "undo"}
  OBVIOUS
<1> QED BY <1>1 DEF FilesInv, FilesFit, StepsFit, RollingBack

LEMMA SettingsRestoreKeeps ==
    ASSUME FilesInv,
           \/ \E t \in Tokens : Restore(t) \/ RollbackTimer(t)
           \/ WritePreferences \/ Commit \/ Undo \/ CloseWindow
    PROVE  FilesInv'
<1>0. ASSUME NEW t, pending' = Without(t) PROVE PendingFits'
  BY <1>0 DEF FilesInv, PendingFits, Without
<1>1. ASSUME NEW t \in Tokens, Restore(t) PROVE FilesInv'
  <2>1. UNCHANGED <<disk, memory, app, pending>>
        /\ Begins("restore", <<Keep("privacy", "file"), Keep("retention", "file"), Keep("agents", "file")>>)
    BY <1>1 DEF Restore
  <2>2. op'.name = "restore" /\ op'.undo = <<>> /\ DOMAIN op' = {"name", "steps", "undo"}
        /\ op'.steps = <<Keep("privacy", "file"), Keep("retention", "file"), Keep("agents", "file")>> /\ app = "up"
    BY <2>1 DEF Begins
  <2>3. [s \in SettingStores |-> "own"] \in Befores
    BY DEF Befores, Origins
  <2>4. \E b \in Befores : RestoringNow(b)'
    BY <2>2, <2>3 DEF RestoringNow
  <2> QED BY <2>1, <2>2, <2>4 DEF FilesInv, FilesFit, StepsFit, PendingFits
<1>2. ASSUME NEW t \in Tokens, RollbackTimer(t) PROVE FilesInv'
  <2>1. /\ op' = [name |-> "rollback", steps |-> RollbackTo(pending[t]), undo |-> <<>>] /\ app = "up" /\ UNCHANGED <<disk, memory, app>>
        /\ pending[t] \in Befores /\ pending' = Without(t)
    BY <1>2 DEF RollbackTimer, Begins, FilesInv, PendingFits
  <2> QED BY <1>0, <2>1, RollbackBegins
<1>3. CASE WritePreferences
  BY <1>3, NoFileKeeps DEF WritePreferences, FilesInv, PendingFits
<1>4. CASE Commit
  <2>1. PendingFits' /\ UNCHANGED <<disk, memory, op, app>>
    BY <1>0, <1>4 DEF Commit, FilesInv, PendingFits
  <2> QED BY <2>1, NoFileKeeps
<1>5. CASE Undo
  <2>1. PendingFits' /\ app = "up" /\ UNCHANGED <<disk, memory, app>>
    BY <1>0, <1>5 DEF Undo
  <2>2. CASE Confirmable
    <3>1. /\ op' = [name |-> "rollback", steps |-> RollbackTo(pending[ticket.token]), undo |-> <<>>]
          /\ pending[ticket.token] \in Befores
      BY <1>5, <2>2 DEF Undo, Confirmable, FilesInv, PendingFits
    <3> QED BY <2>1, <3>1, RollbackBegins
  <2>3. CASE ~Confirmable
    BY <1>5, <2>1, <2>3, NoFileKeeps DEF Undo
  <2> QED BY <2>2, <2>3
<1>6. CASE CloseWindow
  BY <1>6, NoFileKeeps DEF CloseWindow, FilesInv, PendingFits
<1> QED BY <1>1, <1>2, <1>3, <1>4, <1>5, <1>6

LEMMA StopsKeep == ASSUME FilesInv, SettingsCrash \/ SettingsStart PROVE FilesInv'
<1>1. CASE SettingsCrash
  BY <1>1 DEF SettingsCrash, FilesInv, FilesFit, StepsFit, OneFile, NoOperation, PendingFits
<1>2. CASE SettingsStart
  <2>1. UNCHANGED <<disk, op, pending>> /\ memory' \in {memory, [content |-> disk.content, active |-> {}]}
    BY <1>2 DEF SettingsStart
  <2>2. FilesFit'
    BY <2>1 DEF FilesInv, FilesFit
  <2>3. op = NoOperation
    BY <1>2 DEF SettingsStart, FilesInv, StepsFit
  <2> QED BY <2>1, <2>2, <2>3 DEF FilesInv, StepsFit, OneFile, NoOperation, PendingFits
<1> QED BY <1>1, <1>2

\* Every step keeps the files in order.
LEMMA FilesKeep == FilesInv /\ [SettingsNext]_settingsVars => FilesInv'
<1> SUFFICES ASSUME FilesInv, [SettingsNext]_settingsVars PROVE FilesInv'
  OBVIOUS
<1>1. CASE UNCHANGED settingsVars
  BY <1>1, NoFileKeeps DEF settingsVars, FilesInv, PendingFits
<1>2. CASE StepNext
  BY <1>2, StepDoneKeeps, StepFailsKeeps, ReturnsKeeps, StopsKeep DEF StepNext
<1>3. CASE FilesNext
  BY <1>2, <1>3, ProvidersKeep, RecordsKeep DEF FilesNext
<1>4. CASE RestoreNext
  BY <1>2, <1>4, RecordsKeep, SettingsRestoreKeeps DEF RestoreNext
<1> QED BY <1>1, <1>3, <1>4 DEF SettingsNext

\* At every moment the files the next start would read fit together (Settings.FilesAgree): a provider that needs a
\* credential has its file, the active provider is one of the list, and an outcome on record has its start.
THEOREM FilesAlwaysAgree == SettingsSpec => []FilesAgree
<1>1. FilesInv => FilesAgree
  BY DEF FilesInv, FilesFit, Sound, FilesAgree
<1> QED BY <1>1, FilesStart, FilesKeep, PTL DEF SettingsSpec

-----------------------------------------------------------------------------
(* A restore is seen as a whole or not at all *)

Whole(settings, pref) == ~({"own", "file"} \subseteq {settings[s] : s \in SettingStores} \cup {pref})

\* A restore of a device that had the settings b: those it has not come to are still so, the others of the file.
RestoresOver(b) ==
    LET cur == memory.content.settings IN
    \/ /\ op.steps = <<Keep("privacy", "file"), Keep("retention", "file"), Keep("agents", "file")>> /\ op.undo = <<>>
       /\ cur = b
    \/ /\ op.steps = <<Keep("retention", "file"), Keep("agents", "file")>> /\ op.undo = <<Keep("privacy", b["privacy"])>>
       /\ cur["privacy"] = "file" /\ cur["retention"] = b["retention"] /\ cur["agents"] = b["agents"]
    \/ /\ op.steps = <<Keep("agents", "file")>>
       /\ op.undo = <<Keep("retention", b["retention"]), Keep("privacy", b["privacy"])>>
       /\ cur["privacy"] = "file" /\ cur["retention"] = "file" /\ cur["agents"] = b["agents"]
    \/ /\ op.steps = <<>> /\ op.undo = RollbackTo(b)
       /\ \A s \in SettingStores : cur[s] = "file"
\* A rollback to the settings b: those that it has done, or need not do, are back.
RollsTo(b) ==
    LET cur == memory.content.settings IN
    \/ op.steps = RollbackTo(b)
    \/ /\ op.steps = <<Keep("retention", b["retention"]), Keep("privacy", b["privacy"])>>
       /\ cur["agents"] = b["agents"]
    \/ /\ op.steps = <<Keep("privacy", b["privacy"])>>
       /\ cur["agents"] = b["agents"] /\ cur["retention"] = b["retention"]
    \/ op.steps = <<>> /\ cur = b
\* The settings, once what rolls back has done so, are whole beside these preferences.
Settles(pref) ==
    IF op.name = "rollback" THEN \E b \in Befores : RollsTo(b) /\ Whole(b, pref)
    ELSE Whole(memory.content.settings, pref)

\* What holds in each phase of the panel.
IdleRestore == Settles(preferences)
Asking ==
    /\ preferences = ticket.before
    /\ IF op.name = "restore" THEN \E b \in Befores : RestoresOver(b) /\ Whole(b, ticket.before)
       ELSE op.name = "rollback" /\ Settles(ticket.before)
Waiting ==
    /\ panel = "restored" => preferences = ticket.before
    /\ panel = "committing" => preferences = "file"
    /\ IF ticket.token \in DOMAIN pending
       THEN /\ op.name # "rollback" /\ Whole(pending[ticket.token], ticket.before)
            /\ \A s \in SettingStores : memory.content.settings[s] \in {"file", "edit"}
       ELSE Settles(ticket.before)
DiskFollows ==
    \A s \in SettingStores : disk.content.settings[s] \in {memory.content.settings[s], "edit"}
Phases ==
    /\ panel \in {"idle", "asking", "restored", "committing", "undoing"}
    /\ DOMAIN pending \subseteq {ticket.token}
    /\ app # "up" => panel = "idle"
    /\ op.name = "restore" => panel = "asking"
    /\ panel \in {"idle", "asking"} => DOMAIN pending = {}
    /\ panel = "idle" => IdleRestore
    /\ panel = "asking" => Asking
    /\ panel \in {"restored", "committing", "undoing"} => Waiting
Prefs == preferences \in {"own", "file"} /\ DOMAIN ticket = {"token", "before"} /\ ticket.before \in {"own", "file"}
WholeInv ==
    /\ FilesInv
    /\ Prefs
    /\ ~excused => DiskFollows /\ Phases

\* An edit makes nothing mixed.
LEMMA EditsFade ==
    ASSUME NEW x, NEW y, NEW pref \in {"own", "file"}, Whole(x, pref), \A s \in SettingStores : y[s] \in {x[s], "edit"}
    PROVE  Whole(y, pref)
BY DEF Whole

\* A step on a setting, on disk and in memory.
LEMMA SettingStep ==
    ASSUME FilesInv, NEW s \in SettingStores, NEW o
    PROVE  /\ OnDisk(Keep(s, o)).content.settings = [disk.content.settings EXCEPT ![s] = o]
           /\ InMemory(Keep(s, o)).content.settings = [memory.content.settings EXCEPT ![s] = o]
<1>1. /\ OnDisk(Keep(s, o)) = [disk EXCEPT !.content.settings[s] = o]
      /\ InMemory(Keep(s, o)) = [memory EXCEPT !.content.settings[s] = o]
  BY DEF OnDisk, InMemory, Keep
<1> QED BY <1>1 DEF FilesInv, FilesFit, Content

\* A step of an operation on one file: the settings stay as they are, or one is an edit.
LEMMA OtherStep ==
    ASSUME FilesInv, OneFile, op.steps # <<>>
    PROVE  \A s \in SettingStores :
             \/ /\ OnDisk(Head(op.steps)).content.settings[s] = disk.content.settings[s]
                /\ InMemory(Head(op.steps)).content.settings[s] = memory.content.settings[s]
             \/ /\ OnDisk(Head(op.steps)).content.settings[s] = "edit"
                /\ InMemory(Head(op.steps)).content.settings[s] = "edit"
<1> DEFINE step == Head(op.steps)
<1>1. FileStep(step) \/ (\E r \in Registry : step = Write(r)) \/ (\E p \in Providers : step = Secret(p))
  <2>1. CASE Credential
    BY <2>1, Heads DEF Credential
  <2>2. CASE \E one : op.steps = <<one>> /\ FileStep(one)
    BY <2>2, Heads
  <2> QED BY <2>1, <2>2 DEF OneFile
<1> HIDE DEF step
<1>2. CASE \E s \in SettingStores : step = Keep(s, "edit")
  <2> PICK s \in SettingStores : step = Keep(s, "edit")
    BY <1>2
  <2>1. disk.content.settings \in Befores /\ memory.content.settings \in Befores
    BY DEF FilesInv, FilesFit, Content, Befores
  <2>2. /\ OnDisk(step).content.settings = [disk.content.settings EXCEPT ![s] = "edit"]
        /\ InMemory(step).content.settings = [memory.content.settings EXCEPT ![s] = "edit"]
    BY SettingStep
  <2> QED BY <2>1, <2>2 DEF step, Befores
<1>3. CASE step.kind # "setting"
  <2>1. /\ disk \in [content : Content, credentials : SUBSET Providers]
        /\ memory \in [content : Content, active : SUBSET Audits]
    BY DEF FilesInv, FilesFit
  <2>2. CASE step.kind = "write"
    <3>1. OnDisk(step) = [disk EXCEPT !.content.registry = step.value]
          /\ InMemory(step) = [memory EXCEPT !.content.registry = step.value]
      BY <2>2 DEF OnDisk, InMemory
    <3> QED BY <2>1, <3>1 DEF step, Content
  <2>3. CASE step.kind = "put" /\ step.part \in {"connections", "starts", "outcomes"}
    <3> DEFINE x == memory.content[step.part] \cup {step.value}
               y == IF step.part = "starts" THEN memory.active \cup {step.value}
                    ELSE IF step.part = "outcomes" THEN memory.active \ {step.value} ELSE memory.active
               z == disk.content[step.part] \cup {step.value}
    <3>1. OnDisk(step) = [disk EXCEPT !.content[step.part] = z]
          /\ InMemory(step) = Reworked(memory, step.part, x, y)
      BY <2>3 DEF OnDisk, InMemory, Reworked
    <3> HIDE DEF x, y, z
    <3>2. OnDisk(step).content.settings = disk.content.settings
      BY <2>1, <2>3, <3>1 DEF Content
    <3>3. Reworked(memory, step.part, x, y).content.settings = memory.content.settings
      <4>1. [memory EXCEPT !.content[step.part] = x].content.settings = memory.content.settings
            /\ DOMAIN [memory EXCEPT !.content[step.part] = x] = {"content", "active"}
        BY <2>1, <2>3 DEF Content
      <4> QED BY <4>1 DEF Reworked
    <3> QED BY <3>1, <3>2, <3>3 DEF step
  <2>4. CASE step.kind = "drop" /\ step.part = "connections"
    <3>1. OnDisk(step) = [disk EXCEPT !.content["connections"] = @ \ {step.value}] /\ InMemory(step) = memory
      BY <2>4 DEF OnDisk, InMemory
    <3> QED BY <2>1, <3>1 DEF step, Content
  <2>5. CASE step.kind \in {"secret", "forget"}
    <3>1. OnDisk(step).content = disk.content /\ InMemory(step) = memory
      BY <2>1, <2>5 DEF OnDisk, InMemory
    <3> QED BY <3>1 DEF step
  <2> QED BY <1>1, <1>3, <2>2, <2>3, <2>4, <2>5 DEF FileStep, Keep, Write, Put, Drop, Secret, Forget
<1>4. step.kind = "setting" => \E s \in SettingStores : step = Keep(s, "edit")
  BY <1>1 DEF FileStep, Keep, Write, Put, Drop, Secret, Forget
<1> QED BY <1>2, <1>3, <1>4

LEMMA WholeStart == SettingsInit => WholeInv
<1> SUFFICES ASSUME SettingsInit PROVE WholeInv
  OBVIOUS
<1>1. memory.content.settings = [s \in SettingStores |-> "own"] /\ disk.content.settings = memory.content.settings
      /\ preferences = "own" /\ ticket \in [token : Tokens, before : {"own"}] /\ op.name = "idle" /\ panel = "idle" /\ pending = <<>>
      /\ app = "up"
  BY DEF SettingsInit, Empty, NoOperation
<1>2. Whole(memory.content.settings, preferences)
  BY <1>1 DEF Whole
<1>3. DiskFollows
  BY <1>1 DEF DiskFollows
<1>4. Phases
  BY <1>1, <1>2 DEF Phases, IdleRestore, Settles
<1>5. Prefs
  BY <1>1 DEF Prefs
<1> QED BY <1>3, <1>4, <1>5, FilesStart DEF WholeInv

\* While the panel stays in its phase and the settings go on settling, the phases hold.
LEMMA PhasesGoOn ==
    ASSUME WholeInv, ~excused, UNCHANGED <<pending, panel, ticket, preferences>>, app' # "up" => panel = "idle",
           op'.name = "restore" => op.name = "restore",
           op'.name = "rollback" => op.name = "rollback",
           panel = "asking" => op'.name = op.name,
           op.name # "restore" => \A x \in {"own", "file"} : Settles(x) => Settles(x)',
           op.name = "restore" => \A b \in Befores : RestoresOver(b) => RestoresOver(b)',
           op.name \notin {"restore", "rollback"} =>
               \A s \in SettingStores : memory.content.settings'[s] \in {memory.content.settings[s], "edit"}
    PROVE  Phases'
<1>1. Phases /\ preferences \in {"own", "file"} /\ ticket.before \in {"own", "file"}
  BY DEF WholeInv, Prefs
<1>2. panel = "idle" => IdleRestore'
  <2>1. panel = "idle" => Settles(preferences)'
    BY <1>1 DEF Phases, IdleRestore, Settles
  <2> QED BY <2>1 DEF IdleRestore
<1>3. panel = "asking" => Asking'
  <2>1. CASE panel = "asking" /\ op.name = "restore"
    BY <1>1, <2>1 DEF Phases, Asking
  <2>2. CASE panel = "asking" /\ op.name # "restore"
    <3>1. Settles(ticket.before)'
      BY <1>1, <2>2 DEF Phases, Asking, Settles
    <3> QED BY <1>1, <2>2, <3>1 DEF Phases, Asking
  <2> QED BY <2>1, <2>2
<1>4. panel \in {"restored", "committing", "undoing"} => Waiting'
  <2> SUFFICES ASSUME panel \in {"restored", "committing", "undoing"} PROVE Waiting'
    OBVIOUS
  <2>0. op.name # "restore"
    BY <1>1 DEF Phases
  <2>1. CASE ticket.token \in DOMAIN pending
    BY <1>1, <2>0, <2>1 DEF Phases, Waiting
  <2>2. CASE ticket.token \notin DOMAIN pending
    <3>1. Settles(ticket.before)'
      BY <1>1, <2>2 DEF Phases, Waiting, Settles
    <3> QED BY <1>1, <2>2, <3>1 DEF Phases, Waiting
  <2> QED BY <2>1, <2>2
<1> QED BY <1>1, <1>2, <1>3, <1>4 DEF Phases

LEMMA WholeStepDone == ASSUME WholeInv, StepDone, ~excused PROVE DiskFollows' /\ Phases'
<1> DEFINE step == Head(op.steps)
           cur == memory.content.settings
           kept == disk.content.settings
<1>1. /\ FilesInv /\ DiskFollows /\ Phases /\ op.steps # <<>>
      /\ disk' = OnDisk(step) /\ memory' = InMemory(step)
      /\ UNCHANGED <<app, pending, panel, ticket, preferences>>
  BY DEF WholeInv, StepDone
<1>2. /\ DOMAIN op' = {"name", "steps", "undo"} /\ op'.name = op.name /\ op'.steps = Tail(op.steps) /\ op'.undo = UndoOf(step)
  BY <1>1 DEF FilesInv, StepsFit, StepDone
<1>3. cur \in Befores /\ kept \in Befores /\ cur' \in Befores /\ kept' \in Befores
  <2>1. FilesFit /\ FilesFit'
    BY <1>1, FilesKeep DEF FilesInv, SettingsNext, FilesNext, StepNext
  <2> QED BY <2>1 DEF FilesFit, Content, Befores
<1>4. ASSUME NEW s \in SettingStores, NEW o, step = Keep(s, o)
      PROVE  cur' = [cur EXCEPT ![s] = o] /\ kept' = [kept EXCEPT ![s] = o] /\ DiskFollows'
  <2>1. cur' = [cur EXCEPT ![s] = o] /\ kept' = [kept EXCEPT ![s] = o]
    BY <1>1, <1>4, SettingStep
  <2>2. \A r \in SettingStores : kept'[r] \in {cur'[r], "edit"}
    <3>1. \A r \in SettingStores : kept[r] \in {cur[r], "edit"}
      BY <1>1 DEF DiskFollows
    <3> HIDE DEF cur, kept
    <3> QED BY <1>3, <2>1, <3>1 DEF Befores
  <2> QED BY <2>1, <2>2 DEF DiskFollows
<1>5. ASSUME NEW b \in Befores, op.name = "restore", RestoresOver(b) PROVE RestoresOver(b)' /\ DiskFollows'
  <2>u. op'.undo = <<Keep(step.part, cur[step.part])>> \o op.undo
    BY <1>2, <1>5 DEF UndoOf
  <2>1. CASE /\ op.steps = <<Keep("privacy", "file"), Keep("retention", "file"), Keep("agents", "file")>> /\ op.undo = <<>>
             /\ cur = b
    <3>1. step = Keep("privacy", "file") /\ op'.steps = <<Keep("retention", "file"), Keep("agents", "file")>>
      BY <1>2, <2>1, Heads
    <3>2. op'.undo = <<Keep("privacy", b["privacy"])>>
      BY <2>u, <2>1, <3>1, JoinedOne DEF Keep
    <3>3. cur' = [cur EXCEPT !["privacy"] = "file"] /\ DiskFollows'
      BY <1>4, <3>1 DEF SettingStores
    <3>4. cur'["privacy"] = "file" /\ cur'["retention"] = b["retention"] /\ cur'["agents"] = b["agents"]
      BY <1>3, <2>1, <3>3 DEF Befores, SettingStores
    <3> QED BY <3>1, <3>2, <3>3, <3>4 DEF RestoresOver
  <2>2. CASE /\ op.steps = <<Keep("retention", "file"), Keep("agents", "file")>> /\ op.undo = <<Keep("privacy", b["privacy"])>>
             /\ cur["privacy"] = "file" /\ cur["retention"] = b["retention"] /\ cur["agents"] = b["agents"]
    <3>1. step = Keep("retention", "file") /\ op'.steps = <<Keep("agents", "file")>>
      BY <1>2, <2>2, Heads
    <3>2. op'.undo = <<Keep("retention", b["retention"]), Keep("privacy", b["privacy"])>>
      BY <2>u, <2>2, <3>1, JoinedPair DEF Keep
    <3>3. cur' = [cur EXCEPT !["retention"] = "file"] /\ DiskFollows'
      BY <1>4, <3>1 DEF SettingStores
    <3>4. cur'["privacy"] = "file" /\ cur'["retention"] = "file" /\ cur'["agents"] = b["agents"]
      BY <1>3, <2>2, <3>3 DEF Befores, SettingStores
    <3> QED BY <3>1, <3>2, <3>3, <3>4 DEF RestoresOver
  <2>3. CASE /\ op.steps = <<Keep("agents", "file")>>
             /\ op.undo = <<Keep("retention", b["retention"]), Keep("privacy", b["privacy"])>>
             /\ cur["privacy"] = "file" /\ cur["retention"] = "file" /\ cur["agents"] = b["agents"]
    <3>1. step = Keep("agents", "file") /\ op'.steps = <<>>
      BY <1>2, <2>3, Heads
    <3>2. op'.undo = RollbackTo(b)
      BY <2>u, <2>3, <3>1, JoinedTriple DEF Keep, RollbackTo
    <3>3. cur' = [cur EXCEPT !["agents"] = "file"] /\ DiskFollows'
      BY <1>4, <3>1 DEF SettingStores
    <3>4. \A s \in SettingStores : cur'[s] = "file"
      BY <1>3, <2>3, <3>3 DEF Befores, SettingStores
    <3> QED BY <3>1, <3>2, <3>3, <3>4 DEF RestoresOver
  <2> QED BY <1>1, <1>5, <2>1, <2>2, <2>3 DEF RestoresOver
<1>6. ASSUME NEW b \in Befores, op.name = "rollback", RollsTo(b) PROVE RollsTo(b)' /\ DiskFollows'
  <2>1. CASE op.steps = RollbackTo(b)
    <3>1. step = Keep("agents", b["agents"]) /\ op'.steps = <<Keep("retention", b["retention"]), Keep("privacy", b["privacy"])>>
      BY <1>2, <2>1, Heads DEF RollbackTo
    <3>2. cur' = [cur EXCEPT !["agents"] = b["agents"]] /\ DiskFollows'
      BY <1>4, <3>1 DEF SettingStores
    <3>3. cur'["agents"] = b["agents"]
      BY <1>3, <3>2 DEF Befores, SettingStores
    <3> QED BY <3>1, <3>2, <3>3 DEF RollsTo
  <2>2. CASE /\ op.steps = <<Keep("retention", b["retention"]), Keep("privacy", b["privacy"])>>
             /\ cur["agents"] = b["agents"]
    <3>1. step = Keep("retention", b["retention"]) /\ op'.steps = <<Keep("privacy", b["privacy"])>>
      BY <1>2, <2>2, Heads
    <3>2. cur' = [cur EXCEPT !["retention"] = b["retention"]] /\ DiskFollows'
      BY <1>4, <3>1 DEF SettingStores
    <3>3. cur'["agents"] = b["agents"] /\ cur'["retention"] = b["retention"]
      BY <1>3, <2>2, <3>2 DEF Befores, SettingStores
    <3> QED BY <3>1, <3>2, <3>3 DEF RollsTo
  <2>3. CASE /\ op.steps = <<Keep("privacy", b["privacy"])>>
             /\ cur["agents"] = b["agents"] /\ cur["retention"] = b["retention"]
    <3>1. step = Keep("privacy", b["privacy"]) /\ op'.steps = <<>>
      BY <1>2, <2>3, Heads
    <3>2. cur' = [cur EXCEPT !["privacy"] = b["privacy"]] /\ DiskFollows'
      BY <1>4, <3>1 DEF SettingStores
    <3>3. cur' = b
      BY <1>3, <2>3, <3>2 DEF Befores, SettingStores
    <3> QED BY <3>1, <3>2, <3>3 DEF RollsTo
  <2> QED BY <1>1, <1>6, <2>1, <2>2, <2>3 DEF RollsTo
<1>7. ASSUME OneFile
      PROVE  (\A s \in SettingStores : cur'[s] \in {cur[s], "edit"}) /\ DiskFollows'
  <2>1. \A s \in SettingStores : (kept'[s] = kept[s] /\ cur'[s] = cur[s]) \/ (kept'[s] = "edit" /\ cur'[s] = "edit")
    BY <1>1, <1>7, OtherStep
  <2>2. \A s \in SettingStores : kept[s] \in {cur[s], "edit"}
    BY <1>1 DEF DiskFollows
  <2>3. \A s \in SettingStores : kept'[s] \in {cur'[s], "edit"}
    BY <2>1, <2>2
  <2> QED BY <2>1, <2>3 DEF DiskFollows
<1>8. op.name \notin {"restore", "rollback"} <=> OneFile
  BY <1>1 DEF FilesInv, StepsFit, OneFile
<1>9. ASSUME NEW x \in {"own", "file"}, Settles(x), op.name # "restore" PROVE Settles(x)' /\ DiskFollows'
  <2>1. CASE op.name = "rollback"
    <3> PICK b \in Befores : RollsTo(b) /\ Whole(b, x)
      BY <1>9, <2>1 DEF Settles
    <3> QED BY <1>2, <1>6, <2>1 DEF Settles
  <2>2. CASE op.name # "rollback"
    <3>1. Whole(cur', x)
      BY <1>7, <1>8, <1>9, <2>2, EditsFade DEF Settles
    <3> QED BY <1>2, <1>7, <1>8, <1>9, <2>2, <3>1 DEF Settles
  <2> QED BY <2>1, <2>2
<1>a. DiskFollows'
  <2>1. CASE op.name = "restore"
    <3>1. \E b \in Befores : RestoresOver(b)
      BY <1>1, <2>1 DEF Phases, Asking
    <3> QED BY <1>5, <2>1, <3>1
  <2>2. CASE op.name = "rollback"
    <3>1. \E b \in Befores : RollsTo(b)
      BY <1>1, <2>2 DEF Phases, IdleRestore, Asking, Waiting, Settles
    <3> QED BY <1>6, <2>2, <3>1
  <2>3. CASE op.name \notin {"restore", "rollback"}
    BY <1>7, <1>8, <2>3
  <2> QED BY <2>1, <2>2, <2>3
<1>c. Phases'
  BY <1>1, <1>2, <1>5, <1>7, <1>8, <1>9, PhasesGoOn DEF Phases
<1> QED BY <1>a, <1>c

LEMMA WholeStepFails == ASSUME WholeInv, NEW went \in BOOLEAN, StepFails(went), ~excused' PROVE DiskFollows' /\ Phases'
<1>1. /\ FilesInv /\ DiskFollows /\ Phases /\ op.steps # <<>> /\ ~excused
      /\ memory' = memory /\ UNCHANGED <<app, pending, panel, ticket, preferences>>
      /\ op.name # "rollback" /\ (op.name = "restore" => disk' = disk)
      /\ disk' = (IF went THEN OnDisk(Head(op.steps)) ELSE disk)
  BY DEF WholeInv, StepFails
<1>2. DiskFollows'
  <2>1. CASE disk' = disk
    BY <1>1, <2>1 DEF DiskFollows
  <2>2. CASE disk' = OnDisk(Head(op.steps)) /\ op.name # "restore"
    <3>1. OneFile
      BY <1>1, <2>2 DEF FilesInv, StepsFit
    <3> QED BY <1>1, <2>2, <3>1, OtherStep DEF DiskFollows
  <2> QED BY <1>1, <2>1, <2>2
<1>3. CASE op.name = "restore"
  <2>1. op' = [name |-> "rollback", steps |-> op.undo, undo |-> <<>>] /\ panel = "asking"
    BY <1>1, <1>3 DEF StepFails, Phases
  <2>2. op'.name = "rollback" /\ op'.steps = op.undo
    BY <2>1
  <2>3. PICK b \in Befores : RestoresOver(b) /\ Whole(b, ticket.before)
    BY <1>1, <1>3, <2>1 DEF Phases, Asking
  <2>4. RollsTo(b)'
    <3>1. CASE op.undo = RollbackTo(b)
      BY <2>2, <3>1 DEF RollsTo
    <3>2. CASE op.undo # RollbackTo(b)
      <4>1. \/ op.undo = <<>> /\ memory.content.settings = b
            \/ op.undo = <<Keep("privacy", b["privacy"])>> /\ memory.content.settings["agents"] = b["agents"]
               /\ memory.content.settings["retention"] = b["retention"]
            \/ op.undo = <<Keep("retention", b["retention"]), Keep("privacy", b["privacy"])>>
               /\ memory.content.settings["agents"] = b["agents"]
        BY <2>3, <3>2 DEF RestoresOver
      <4> QED BY <1>1, <2>2, <4>1 DEF RollsTo
    <3> QED BY <3>1, <3>2
  <2>5. Settles(ticket.before)'
    BY <1>1, <2>2, <2>3, <2>4 DEF Settles
  <2>6. Asking'
    BY <1>1, <2>1, <2>2, <2>5 DEF Phases, Asking
  <2> QED BY <1>1, <1>2, <2>1, <2>2, <2>6 DEF Phases
<1>4. CASE op.name # "restore"
  <2>1. op' = [op EXCEPT !.steps = <<>>]
    BY <1>1, <1>4 DEF StepFails
  <2>2. op'.name = op.name
    BY <1>1, <2>1 DEF FilesInv, StepsFit
  <2>3. \A x \in {"own", "file"} : Settles(x) => Settles(x)'
    BY <1>1, <2>2 DEF Settles
  <2>4. Phases'
    BY <1>1, <1>4, <2>2, <2>3, PhasesGoOn DEF Phases
  <2> QED BY <1>2, <2>4
<1> QED BY <1>3, <1>4

LEMMA WholeReturns == ASSUME WholeInv, Returns, ~excused PROVE DiskFollows' /\ Phases'
<1>1. /\ FilesInv /\ DiskFollows /\ Phases /\ op # NoOperation /\ op.steps = <<>> /\ op'.name = "idle"
      /\ UNCHANGED <<disk, memory, app, ticket, preferences>>
  BY DEF WholeInv, Returns, NoOperation
<1>2. DiskFollows'
  BY <1>1 DEF DiskFollows
<1>3. \A x \in {"own", "file"} : op.name # "restore" /\ Settles(x) => Settles(x)' /\ Whole(memory.content.settings, x)
  <2>1. \A b \in Befores : RollsTo(b) => memory.content.settings = b
    BY <1>1, Heads DEF RollsTo, RollbackTo
  <2> QED BY <1>1, <2>1 DEF Settles
<1>4. CASE op.name = "restore"
  <2>1. PICK b \in Befores : RestoresOver(b) /\ Whole(b, ticket.before)
    BY <1>1, <1>4 DEF Phases, Asking
  <2>2. op.undo = RollbackTo(b) /\ \A s \in SettingStores : memory.content.settings[s] = "file"
    BY <1>1, <2>1, Heads DEF RestoresOver
  <2>3. pending' = [t \in DOMAIN pending \cup {ticket.token} |-> IF t = ticket.token THEN b ELSE pending[t]] /\ panel' = "restored"
    BY <1>4, <2>2, UndoneTo DEF Returns
  <2>4. preferences = ticket.before /\ panel = "asking" /\ DOMAIN pending = {} /\ app = "up"
    BY <1>1, <1>4 DEF Phases, Asking
  <2>5. DOMAIN pending' = {ticket.token} /\ pending'[ticket.token] = b
    BY <2>3, <2>4
  <2>6. Waiting'
    BY <1>1, <2>1, <2>2, <2>3, <2>4, <2>5 DEF Waiting
  <2> QED BY <1>1, <1>2, <2>3, <2>4, <2>5, <2>6 DEF Phases
<1>5. CASE op.name # "restore" /\ panel # "asking"
  <2>1. UNCHANGED <<panel, pending>>
    BY <1>5 DEF Returns
  <2>2. Phases'
    BY <1>1, <1>3, <1>5, <2>1, PhasesGoOn DEF Phases
  <2> QED BY <1>2, <2>2
<1>6. CASE op.name # "restore" /\ panel = "asking"
  <2>1. panel' = "idle" /\ UNCHANGED pending
    BY <1>6 DEF Returns
  <2>2. preferences = ticket.before /\ preferences \in {"own", "file"} /\ Settles(preferences)
    BY <1>1, <1>6 DEF Phases, Asking, Settles, WholeInv, Prefs
  <2>3. IdleRestore'
    BY <1>1, <1>3, <1>6, <2>2 DEF IdleRestore, Settles
  <2> QED BY <1>1, <1>2, <1>6, <2>1, <2>3 DEF Phases
<1> QED BY <1>4, <1>5, <1>6

\* An operation that is no restore begins while the settings stay.
LEMMA WholeBegins ==
    ASSUME WholeInv, ~excused, op = NoOperation, op'.name \notin {"restore", "rollback"},
           UNCHANGED <<disk, app, pending, panel, ticket, preferences>>,
           memory'.content.settings = memory.content.settings
    PROVE  DiskFollows' /\ Phases'
<1>1. DiskFollows /\ Phases /\ op.name = "idle"
  BY DEF WholeInv, NoOperation
<1>2. DiskFollows'
  BY <1>1 DEF DiskFollows
<1>3. \A x \in {"own", "file"} : Settles(x) => Settles(x)'
  BY <1>1 DEF Settles
<1>4. panel # "asking"
  BY <1>1 DEF Phases, Asking
<1>5. app # "up" => panel = "idle"
  BY <1>1 DEF Phases
<1>6. Phases'
  BY <1>1, <1>3, <1>4, <1>5, PhasesGoOn
<1> QED BY <1>2, <1>6

\* A rollback begins, to settings that are whole beside these preferences.
LEMMA RollsBack ==
    ASSUME NEW b \in Befores, NEW x, Whole(b, x), op' = [name |-> "rollback", steps |-> RollbackTo(b), undo |-> <<>>]
    PROVE  Settles(x)'
<1>1. op'.name = "rollback" /\ op'.steps = RollbackTo(b)
  OBVIOUS
<1>2. RollsTo(b)'
  BY <1>1 DEF RollsTo
<1> QED BY <1>1, <1>2 DEF Settles

\* What an operation that is no restore changes when it begins.
LEMMA OperationBegins ==
    ASSUME \/ \E p \in Providers : SelectProvider(p) \/ RemoveProvider(p)
           \/ \E p \in Providers, k \in ProviderKinds, c \in BOOLEAN : SaveProvider(p, k, c)
           \/ \E c \in Connections : SaveConnection(c) \/ RemoveConnection(c)
           \/ \E a \in Audits : OpenAudit(a) \/ CloseAudit(a)
           \/ \E s \in SettingStores : EditSetting(s)
    PROVE  /\ op = NoOperation /\ UNCHANGED <<disk, app, leftovers, pending, panel, ticket, preferences, excused>>
           /\ op'.name \notin {"restore", "rollback"}
           /\ \/ UNCHANGED memory
              \/ \E c \in Connections : memory' = [memory EXCEPT !.content.connections = @ \ {c}]
<1>1. ASSUME NEW name \in {"provider", "strict", "edit", "removal"}, NEW steps, Begins(name, steps)
      PROVE  op = NoOperation /\ op'.name \notin {"restore", "rollback"}
  BY <1>1 DEF Begins
<1>2. ASSUME NEW name \in {"provider", "strict", "edit", "removal"}, NEW steps, OnlyBegins(name, steps)
      PROVE  /\ op = NoOperation /\ UNCHANGED <<disk, memory, app, leftovers, pending, panel, ticket, preferences, excused>>
             /\ op'.name \notin {"restore", "rollback"}
  BY <1>1, <1>2 DEF OnlyBegins
<1>3. CASE \E p \in Providers : SelectProvider(p)
  BY <1>2, <1>3 DEF SelectProvider
<1>4. CASE \E p \in Providers : RemoveProvider(p)
  BY <1>2, <1>4 DEF RemoveProvider
<1>5. CASE \E p \in Providers, k \in ProviderKinds, c \in BOOLEAN : SaveProvider(p, k, c)
  BY <1>2, <1>5 DEF SaveProvider
<1>6. CASE \E c \in Connections : SaveConnection(c)
  BY <1>2, <1>6 DEF SaveConnection
<1>7. CASE \E c \in Connections : RemoveConnection(c)
  BY <1>1, <1>7 DEF RemoveConnection
<1>8. CASE \E a \in Audits : OpenAudit(a) \/ CloseAudit(a)
  BY <1>2, <1>8 DEF OpenAudit, CloseAudit
<1>9. CASE \E s \in SettingStores : EditSetting(s)
  BY <1>2, <1>9 DEF EditSetting
<1> QED BY <1>3, <1>4, <1>5, <1>6, <1>7, <1>8, <1>9
LEMMA WholeOperations ==
    ASSUME WholeInv, ~excused,
           \/ \E p \in Providers : SelectProvider(p) \/ RemoveProvider(p)
           \/ \E p \in Providers, k \in ProviderKinds, c \in BOOLEAN : SaveProvider(p, k, c)
           \/ \E c \in Connections : SaveConnection(c) \/ RemoveConnection(c)
           \/ \E a \in Audits : OpenAudit(a) \/ CloseAudit(a)
           \/ \E s \in SettingStores : EditSetting(s)
    PROVE  DiskFollows' /\ Phases'
<1>1. /\ op = NoOperation /\ UNCHANGED <<disk, app, pending, panel, ticket, preferences>>
      /\ op'.name \notin {"restore", "rollback"}
  BY OperationBegins
<1>2. memory'.content.settings = memory.content.settings
  <2>1. ASSUME NEW c \in Connections, memory' = [memory EXCEPT !.content.connections = @ \ {c}]
        PROVE  memory'.content.settings = memory.content.settings
    BY <2>1 DEF WholeInv, FilesInv, FilesFit, Content
  <2> QED BY <2>1, OperationBegins
<1> QED BY <1>1, <1>2, WholeBegins

LEMMA WholeRestore == ASSUME WholeInv, ~excused, NEW t \in Tokens, Restore(t) PROVE DiskFollows' /\ Phases' /\ Prefs'
<1>1. /\ FilesInv /\ DiskFollows /\ Phases /\ Prefs
      /\ panel = "idle" /\ op = NoOperation /\ app = "up" /\ panel' = "asking" /\ ticket' = [token |-> t, before |-> preferences]
      /\ UNCHANGED <<disk, memory, app, pending, preferences>>
      /\ op' = [name |-> "restore", undo |-> <<>>,
                steps |-> <<Keep("privacy", "file"), Keep("retention", "file"), Keep("agents", "file")>>]
  BY DEF WholeInv, Restore, Begins
<1>2. Whole(memory.content.settings, preferences) /\ DOMAIN pending = {}
  BY <1>1 DEF Phases, IdleRestore, Settles, NoOperation
<1>3. ticket'.before = preferences /\ ticket'.token = t /\ DOMAIN ticket' = {"token", "before"}
  BY <1>1
<1>4. /\ op'.name = "restore" /\ op'.undo = <<>>
      /\ op'.steps = <<Keep("privacy", "file"), Keep("retention", "file"), Keep("agents", "file")>>
  BY <1>1
<1>5. PICK b \in Befores : b = memory.content.settings
  BY <1>1 DEF FilesInv, FilesFit, Content, Befores
<1>6. RestoresOver(b)'
  BY <1>1, <1>4, <1>5 DEF RestoresOver
<1>7. Asking'
  BY <1>1, <1>2, <1>3, <1>4, <1>5, <1>6 DEF Asking
<1> QED BY <1>1, <1>2, <1>3, <1>7 DEF DiskFollows, Phases, Prefs

LEMMA WholeRollbackTimer == ASSUME WholeInv, ~excused, NEW t \in Tokens, RollbackTimer(t) PROVE DiskFollows' /\ Phases'
<1>1. /\ FilesInv /\ DiskFollows /\ Phases /\ Prefs
      /\ t \in DOMAIN pending /\ pending' = Without(t) /\ app = "up"
      /\ UNCHANGED <<disk, memory, app, panel, ticket, preferences>>
      /\ op' = [name |-> "rollback", steps |-> RollbackTo(pending[t]), undo |-> <<>>]
  BY DEF WholeInv, RollbackTimer, Begins
<1>2. t = ticket.token /\ panel \in {"restored", "committing", "undoing"}
  BY <1>1 DEF Phases
<1>3. PICK b \in Befores, x \in {"own", "file"} : b = pending[t] /\ x = ticket.before
  BY <1>1 DEF FilesInv, PendingFits, Prefs
<1>4. Whole(b, x)
  BY <1>1, <1>2, <1>3 DEF Phases, Waiting
<1>5. Settles(x)'
  BY <1>1, <1>3, <1>4, RollsBack
<1>6. DOMAIN pending' = DOMAIN pending \ {t}
  BY <1>1 DEF Without
<1>7. ticket.token \notin DOMAIN pending' /\ DOMAIN pending' = {}
  BY <1>1, <1>2, <1>6 DEF Phases
<1>8. Settles(ticket.before)'
  BY <1>1, <1>3, <1>5 DEF Settles
<1>9. Waiting'
  BY <1>1, <1>2, <1>7, <1>8 DEF Waiting, Phases
<1>a. op'.name = "rollback"
  BY <1>1
<1> QED BY <1>1, <1>2, <1>7, <1>9, <1>a DEF DiskFollows, Phases

LEMMA WholeWrites == ASSUME WholeInv, ~excused, WritePreferences PROVE DiskFollows' /\ Phases' /\ Prefs'
<1>1. /\ DiskFollows /\ Phases /\ Prefs
      /\ panel = "restored" /\ app = "up"
      /\ \/ preferences' = "file" /\ panel' = "committing"
         \/ UNCHANGED preferences /\ panel' = "undoing"
      /\ UNCHANGED <<disk, memory, op, app, pending, ticket>>
  BY DEF WholeInv, WritePreferences
<1>2. Waiting'
  <2>1. ticket.token \notin DOMAIN pending => Settles(ticket.before)'
    BY <1>1 DEF Phases, Waiting, Settles, RollsTo
  <2> QED BY <1>1, <2>1 DEF Phases, Waiting
<1> QED BY <1>1, <1>2 DEF DiskFollows, Phases, Prefs

LEMMA WholeCommit == ASSUME WholeInv, ~excused, Commit PROVE DiskFollows' /\ Phases' /\ Prefs'
<1>1. /\ DiskFollows /\ Phases /\ Prefs
      /\ panel = "committing" /\ app = "up" /\ op = NoOperation
      /\ \/ Confirmable /\ pending' = Without(ticket.token) /\ panel' = "idle"
         \/ UNCHANGED pending /\ panel' = "undoing"
      /\ UNCHANGED <<disk, memory, op, app, ticket, preferences>>
  BY DEF WholeInv, Commit
<1>2. op.name = "idle"
  BY <1>1 DEF NoOperation
<1>3. CASE Confirmable /\ pending' = Without(ticket.token) /\ panel' = "idle"
  <2>1. DOMAIN pending' = {}
    BY <1>1, <1>3 DEF Phases, Without
  <2>2. \A s \in SettingStores : memory.content.settings[s] \in {"file", "edit"}
    BY <1>1, <1>3 DEF Phases, Waiting, Confirmable
  <2>3. Whole(memory.content.settings, "file")
    BY <2>2 DEF Whole
  <2>4. preferences = "file"
    BY <1>1 DEF Phases, Waiting
  <2>5. IdleRestore'
    BY <1>1, <1>2, <2>3, <2>4 DEF IdleRestore, Settles
  <2> QED BY <1>1, <1>2, <1>3, <2>1, <2>5 DEF DiskFollows, Phases, Prefs
<1>4. CASE UNCHANGED pending /\ panel' = "undoing"
  <2>1. Waiting'
    <3>1. ticket.token \notin DOMAIN pending => Settles(ticket.before)'
      BY <1>1, <1>2 DEF Phases, Waiting, Settles
    <3> QED BY <1>1, <1>4, <3>1 DEF Phases, Waiting
  <2> QED BY <1>1, <1>2, <1>4, <2>1 DEF DiskFollows, Phases, Prefs
<1> QED BY <1>1, <1>3, <1>4

LEMMA WholeUndo == ASSUME WholeInv, ~excused, Undo PROVE DiskFollows' /\ Phases' /\ Prefs'
<1>1. /\ DiskFollows /\ Phases /\ Prefs /\ FilesInv
      /\ panel = "undoing" /\ app = "up" /\ op = NoOperation
      /\ preferences' = ticket.before /\ panel' = "idle" /\ pending' = Without(ticket.token)
      /\ op' = IF Confirmable
               THEN [name |-> "rollback", steps |-> RollbackTo(pending[ticket.token]), undo |-> <<>>] ELSE op
      /\ UNCHANGED <<disk, memory, app, ticket>>
  BY DEF WholeInv, Undo
<1>2. DOMAIN pending' = {} /\ op.name = "idle"
  BY <1>1 DEF Phases, Without, NoOperation
<1>3. IdleRestore' /\ op'.name # "restore"
  <2>1. CASE Confirmable
    <3>1. PICK b \in Befores, x \in {"own", "file"} : b = pending[ticket.token] /\ x = ticket.before
      BY <1>1, <2>1 DEF FilesInv, PendingFits, Prefs, Confirmable
    <3>2. Whole(b, x) /\ op' = [name |-> "rollback", steps |-> RollbackTo(b), undo |-> <<>>]
      BY <1>1, <2>1, <3>1 DEF Phases, Waiting, Confirmable
    <3>3. Settles(x)'
      BY <3>2, RollsBack
    <3> QED BY <1>1, <3>1, <3>2, <3>3 DEF IdleRestore, Settles
  <2>2. CASE ~Confirmable
    BY <1>1, <1>2, <2>2 DEF IdleRestore, Settles, Phases, Waiting, Confirmable
  <2> QED BY <2>1, <2>2
<1> QED BY <1>1, <1>2, <1>3 DEF DiskFollows, Phases, Prefs

LEMMA WholeStops == ASSUME WholeInv, SettingsCrash \/ SettingsStart, ~excused' PROVE DiskFollows' /\ Phases'
<1>1. CASE SettingsCrash
  <2>1. /\ DiskFollows /\ Phases /\ Prefs
        /\ ~excused /\ panel = "idle" /\ op.name \notin {"restore", "rollback"}
        /\ op' = NoOperation /\ pending' = <<>> /\ panel' = "idle" /\ UNCHANGED <<disk, memory, ticket, preferences>>
    BY <1>1 DEF WholeInv, SettingsCrash
  <2>2. IdleRestore' /\ op'.name = "idle"
    BY <2>1 DEF Phases, IdleRestore, Settles, NoOperation
  <2> QED BY <2>1, <2>2 DEF DiskFollows, Phases
<1>2. CASE SettingsStart
  <2>1. /\ DiskFollows /\ Phases /\ Prefs /\ FilesInv
        /\ ~excused /\ app = "down" /\ UNCHANGED <<disk, op, pending, panel, ticket, preferences>>
        /\ memory' \in {memory, [content |-> disk.content, active |-> {}]}
    BY <1>2 DEF WholeInv, SettingsStart
  <2>2. panel = "idle" /\ op = NoOperation /\ op.name = "idle"
    BY <2>1 DEF FilesInv, StepsFit, Phases, NoOperation
  <2>3. memory'.content.settings \in {memory.content.settings, disk.content.settings}
    BY <2>1
  <2>4. \A s \in SettingStores : memory'.content.settings[s] \in {memory.content.settings[s], "edit"}
    BY <2>1, <2>3 DEF DiskFollows
  <2>5. DiskFollows'
    BY <2>1, <2>3 DEF DiskFollows
  <2>6. Whole(memory'.content.settings, preferences)
    <3>1. Whole(memory.content.settings, preferences) /\ preferences \in {"own", "file"}
      BY <2>1, <2>2 DEF Phases, IdleRestore, Settles, Prefs
    <3> QED BY <2>4, <3>1, EditsFade
  <2>7. IdleRestore'
    BY <2>1, <2>2, <2>6 DEF IdleRestore, Settles
  <2> QED BY <2>1, <2>2, <2>5, <2>7 DEF Phases
<1> QED BY <1>1, <1>2

\* Every step keeps the restore whole.
LEMMA WholeKeeps == WholeInv /\ [SettingsNext]_settingsVars => WholeInv'
<1> SUFFICES ASSUME WholeInv, [SettingsNext]_settingsVars PROVE WholeInv'
  OBVIOUS
<1>1. FilesInv'
  BY FilesKeep DEF WholeInv
<1>2. SUFFICES Prefs' /\ (~excused' => DiskFollows' /\ Phases')
  BY <1>1 DEF WholeInv
<1>3. CASE UNCHANGED settingsVars
  BY <1>3 DEF WholeInv, Prefs, settingsVars, DiskFollows, Phases, IdleRestore, Asking, Waiting, Settles, RollsTo, RestoresOver
<1>4. ASSUME Prefs', excused => excused', ~excused => DiskFollows' /\ Phases'
      PROVE  Prefs' /\ (~excused' => DiskFollows' /\ Phases')
  BY <1>4
<1>5. CASE StepNext
  <2>1. Prefs' /\ (excused => excused')
    <3>1. UNCHANGED <<preferences, ticket>> /\ (excused => excused')
      <4>1. CASE StepDone
        BY <4>1 DEF StepDone
      <4>2. CASE Returns
        BY <4>2 DEF Returns
      <4>3. CASE \E went \in BOOLEAN : StepFails(went)
        BY <4>3 DEF StepFails
      <4>4. CASE SettingsCrash
        BY <4>4 DEF SettingsCrash
      <4>5. CASE SettingsStart
        BY <4>5 DEF SettingsStart
      <4> QED BY <1>5, <4>1, <4>2, <4>3, <4>4, <4>5 DEF StepNext
    <3> QED BY <3>1 DEF WholeInv, Prefs
  <2>2. CASE StepDone
    BY <1>4, <2>1, <2>2, WholeStepDone
  <2>3. CASE Returns
    BY <1>4, <2>1, <2>3, WholeReturns
  <2>4. CASE \E went \in BOOLEAN : StepFails(went)
    BY <2>1, <2>4, WholeStepFails
  <2>5. CASE SettingsCrash \/ SettingsStart
    BY <2>1, <2>5, WholeStops
  <2> QED BY <1>5, <2>2, <2>3, <2>4, <2>5 DEF StepNext
<1>6. ASSUME \/ \E p \in Providers : SelectProvider(p) \/ RemoveProvider(p)
             \/ \E p \in Providers, k \in ProviderKinds, c \in BOOLEAN : SaveProvider(p, k, c)
             \/ \E c \in Connections : SaveConnection(c) \/ RemoveConnection(c)
             \/ \E a \in Audits : OpenAudit(a) \/ CloseAudit(a)
             \/ \E s \in SettingStores : EditSetting(s)
      PROVE  Prefs' /\ (~excused' => DiskFollows' /\ Phases')
  <2>1. Prefs' /\ (excused => excused')
    <3>1. UNCHANGED <<preferences, ticket, excused>>
      BY <1>6, OperationBegins
    <3> QED BY <3>1 DEF WholeInv, Prefs
  <2> QED BY <1>4, <1>6, <2>1, WholeOperations
<1>7. ASSUME NEW t \in Tokens, Restore(t) \/ RollbackTimer(t) PROVE Prefs' /\ (~excused' => DiskFollows' /\ Phases')
  <2>1. Prefs' /\ UNCHANGED excused
    BY <1>7 DEF Restore, RollbackTimer, WholeInv, Prefs
  <2> QED BY <1>7, <2>1, WholeRestore, WholeRollbackTimer
<1>8. CASE WritePreferences \/ Commit \/ Undo \/ CloseWindow
  <2>1. Prefs'
    BY <1>8 DEF WritePreferences, Commit, Undo, CloseWindow, WholeInv, Prefs
  <2>2. CASE CloseWindow
    BY <2>1, <2>2 DEF CloseWindow
  <2>3. CASE WritePreferences \/ Commit \/ Undo
    <3>1. UNCHANGED excused
      BY <2>3 DEF WritePreferences, Commit, Undo
    <3> QED BY <2>1, <2>3, <3>1, WholeWrites, WholeCommit, WholeUndo
  <2> QED BY <1>8, <2>2, <2>3
<1> QED BY <1>3, <1>5, <1>6, <1>7, <1>8 DEF SettingsNext, FilesNext, RestoreNext

\* Restoring the settings, confirming and rolling back never ends between the device's own settings and the file's
\* (Settings.RestoreIsWhole), whichever of their writes fails.
THEOREM RestoredAsAWhole == SettingsSpec => []RestoreIsWhole
<1>1. WholeInv => RestoreIsWhole
  BY DEF WholeInv, Phases, IdleRestore, Settles, Whole, RestoreIsWhole, NoOperation
<1> QED BY <1>1, WholeStart, WholeKeeps, PTL DEF SettingsSpec

-----------------------------------------------------------------------------
(* The types of Settings *)

\* What is left of the types when the files and the steps on them are known to fit.
PanelTyped ==
    /\ app \in {"up", "down", "refused"} /\ leftovers \in BOOLEAN /\ excused \in BOOLEAN
    /\ DOMAIN pending \subseteq Tokens /\ preferences \in Origins /\ ticket \in [token : Tokens, before : Origins]
    /\ panel \in {"idle", "asking", "restored", "committing", "undoing"}

LEMMA PanelTypedStart == SettingsInit => PanelTyped
<1> SUFFICES ASSUME SettingsInit PROVE PanelTyped
  OBVIOUS
<1>1. pending = <<>> /\ DOMAIN pending = {}
  BY DEF SettingsInit
<1>2. /\ ticket \in [token : Tokens, before : {"own"}] /\ preferences = "own" /\ panel = "idle" /\ app = "up"
      /\ leftovers = FALSE /\ excused = FALSE
  BY DEF SettingsInit
<1>3. ticket \in [token : Tokens, before : Origins]
  BY <1>2 DEF Origins
<1> QED BY <1>1, <1>2, <1>3 DEF PanelTyped, Origins

LEMMA PanelTypedStep == PanelTyped /\ [SettingsNext]_settingsVars => PanelTyped'
<1> SUFFICES ASSUME PanelTyped, [SettingsNext]_settingsVars PROVE PanelTyped'
  OBVIOUS
<1> DEFINE Same == UNCHANGED <<app, leftovers, pending, panel, ticket, preferences, excused>>
<1>0. Same => PanelTyped'
  BY DEF PanelTyped
<1>1. CASE UNCHANGED settingsVars
  BY <1>0, <1>1 DEF settingsVars
<1>2. ASSUME NEW p \in Providers, SelectProvider(p) \/ RemoveProvider(p) PROVE PanelTyped'
  BY <1>0, <1>2 DEF SelectProvider, RemoveProvider, OnlyBegins
<1>3. ASSUME NEW p \in Providers, NEW k \in ProviderKinds, NEW c \in BOOLEAN, SaveProvider(p, k, c) PROVE PanelTyped'
  BY <1>0, <1>3 DEF SaveProvider, OnlyBegins
<1>4. ASSUME NEW c \in Connections, SaveConnection(c) \/ RemoveConnection(c) PROVE PanelTyped'
  BY <1>0, <1>4 DEF SaveConnection, RemoveConnection, OnlyBegins
<1>5. ASSUME NEW a \in Audits, OpenAudit(a) \/ CloseAudit(a) PROVE PanelTyped'
  BY <1>0, <1>5 DEF OpenAudit, CloseAudit, OnlyBegins
<1>6. CASE StepDone
  BY <1>0, <1>6 DEF StepDone
<1>7. ASSUME NEW went \in BOOLEAN, StepFails(went) PROVE PanelTyped'
  <2>1. excused' \in BOOLEAN /\ UNCHANGED <<app, leftovers, pending, panel, ticket, preferences>>
    BY <1>7 DEF StepFails
  <2> QED BY <2>1 DEF PanelTyped
<1>8. CASE Returns
  <2>1. /\ panel' \in {"restored", "idle", panel} /\ DOMAIN pending' \subseteq DOMAIN pending \cup {ticket.token}
        /\ UNCHANGED <<app, leftovers, ticket, preferences, excused>>
    BY <1>8 DEF Returns
  <2> QED BY <2>1 DEF PanelTyped
<1>9. CASE SettingsCrash
  <2>1. /\ leftovers' \in BOOLEAN /\ app' = "down" /\ pending' = <<>> /\ panel' = "idle" /\ excused' \in BOOLEAN
        /\ UNCHANGED <<ticket, preferences>>
    BY <1>9 DEF SettingsCrash, PanelTyped
  <2> QED BY <2>1 DEF PanelTyped
<1>10. CASE SettingsStart
  BY <1>10 DEF SettingsStart, PanelTyped
<1>11. ASSUME NEW s \in SettingStores, EditSetting(s) PROVE PanelTyped'
  BY <1>0, <1>11 DEF EditSetting, OnlyBegins
<1>12. ASSUME NEW t \in Tokens, Restore(t) \/ RollbackTimer(t) PROVE PanelTyped'
  BY <1>12 DEF Restore, RollbackTimer, Without, PanelTyped
<1>13. CASE WritePreferences \/ Commit \/ Undo \/ CloseWindow
  BY <1>13 DEF WritePreferences, Commit, Undo, CloseWindow, Without, PanelTyped, Origins
<1> QED
  BY <1>1, <1>2, <1>3, <1>4, <1>5, <1>6, <1>7, <1>8, <1>9, <1>10, <1>11, <1>12, <1>13
     DEF SettingsNext, FilesNext, RestoreNext, StepNext

\* The files and what the application has of them keep to their types, whatever steps fail (Settings.SettingsTypeOK).
THEOREM SettingsTyped == SettingsSpec => []SettingsTypeOK
<1>1. FilesInv /\ PanelTyped => SettingsTypeOK
  BY DEF FilesInv, FilesFit, PendingFits, Befores, PanelTyped, SettingsTypeOK
<1> QED BY <1>1, FilesStart, FilesKeep, PanelTypedStart, PanelTypedStep, PTL DEF SettingsSpec

-----------------------------------------------------------------------------
(***************************************************************************)
(* CatalogView: for any objects, versions and requests. The effect has at  *)
(* most one request on its way, for the preview of what is selected, and   *)
(* no operation asks for a preview.                                        *)
(***************************************************************************)

\* The view; in MCDesktop it takes turns with parts that leave its state alone.
CatalogSpec == CatalogInit /\ [][CatalogNext]_catalogVars

Requests == [by : Operations \cup {"open", "effect"}, of : DataObjects,
         do : {"import", "replace", "delete", "apply", "open", "show", "drop", "preview"}]
        \cup [by : {"open"}, of : {"nothing"}, do : {"read"}]

\* The effect has at most one request on its way, for the preview of o, and no operation asks for a preview.
Awaited(requests, o) ==
    /\ requests \in Seq(Requests)
    /\ \A i \in DOMAIN requests : /\ requests[i].by = "effect" <=> requests[i].do = "preview"
                                  /\ requests[i].by = "effect" => requests[i].of = o
    /\ \A i, j \in DOMAIN requests : requests[i].by = "effect" /\ requests[j].by = "effect" => i = j

VersionsKnown ==
    /\ catalog \in [DataObjects -> Nat] /\ selected \in DataObjects \cup {"nothing"}
    /\ mapping \in DataObjects \cup {"nothing"} /\ working \subseteq Operations
    /\ preview.version \in Nat /\ announced.version \in Nat
    /\ announced.of \in DataObjects => announced.version <= catalog[announced.of]

CatalogInv == VersionsKnown /\ Awaited(queue, selected) /\ ViewIsOfSelection

-----------------------------------------------------------------------------
(* The requests on their way *)

LEMMA AwaitedNext ==
    ASSUME NEW requests, NEW o, Awaited(requests, o), requests # <<>>
    PROVE  /\ Awaited(Tail(requests), o)
           /\ Head(requests) \in Requests /\ (Head(requests).by = "effect" <=> Head(requests).do = "preview")
           /\ Head(requests).by = "effect" => Head(requests).of = o
<1>1. requests \in Seq(Requests) /\ Len(requests) \in Nat \ {0} /\ DOMAIN requests = 1..Len(requests)
  BY DEF Awaited
<1>2. /\ Tail(requests) \in Seq(Requests) /\ DOMAIN Tail(requests) = 1..(Len(requests) - 1)
      /\ \A i \in DOMAIN Tail(requests) : i + 1 \in DOMAIN requests /\ Tail(requests)[i] = requests[i + 1]
      /\ Head(requests) = requests[1] /\ 1 \in DOMAIN requests
  BY <1>1
<1>3. ASSUME NEW i \in DOMAIN Tail(requests), NEW j \in DOMAIN Tail(requests),
             Tail(requests)[i].by = "effect", Tail(requests)[j].by = "effect"
      PROVE  i = j
  <2>1. i + 1 = j + 1
    BY <1>2, <1>3 DEF Awaited
  <2> QED BY <2>1, <1>2
<1> QED BY <1>1, <1>2, <1>3 DEF Awaited

LEMMA AwaitedAfter ==
    ASSUME NEW requests, NEW o, Awaited(requests, o), NEW q \in Requests, q.by # "effect", q.do # "preview"
    PROVE  Awaited(Append(requests, q), o)
<1>1. requests \in Seq(Requests) /\ Len(requests) \in Nat /\ DOMAIN requests = 1..Len(requests)
  BY DEF Awaited
<1>2. /\ Append(requests, q) \in Seq(Requests) /\ DOMAIN Append(requests, q) = 1..(Len(requests) + 1)
      /\ \A i \in DOMAIN requests : Append(requests, q)[i] = requests[i]
      /\ Append(requests, q)[Len(requests) + 1] = q
  BY <1>1
<1>3. \A i \in DOMAIN Append(requests, q) : i \in DOMAIN requests \/ Append(requests, q)[i] = q
  BY <1>1, <1>2
<1> QED BY <1>2, <1>3 DEF Awaited

\* Without the request of the effect, the others are left.
LEMMA EffectsGone ==
    ASSUME NEW requests, NEW o, Awaited(requests, o)
    PROVE  /\ WithoutEffects(requests) \in Seq(Requests)
           /\ \A i \in DOMAIN WithoutEffects(requests) :
                  WithoutEffects(requests)[i].by # "effect" /\ WithoutEffects(requests)[i].do # "preview"
           /\ \E f \in [DOMAIN WithoutEffects(requests) -> DOMAIN requests] :
                  /\ \A i \in DOMAIN WithoutEffects(requests) : WithoutEffects(requests)[i] = requests[f[i]]
                  /\ \A i, j \in DOMAIN WithoutEffects(requests) : f[i] = f[j] => i = j
<1> DEFINE effects == {i \in DOMAIN requests : requests[i].by = "effect"}
           at == CHOOSE i \in effects : TRUE
           n == Len(requests)
           left == SubSeq(requests, 1, at - 1)
           right == SubSeq(requests, at + 1, n)
<1>1. requests \in Seq(Requests) /\ n \in Nat /\ DOMAIN requests = 1..n
  BY DEF Awaited
<1>2. CASE effects = {}
  <2>1. WithoutEffects(requests) = requests
    BY <1>2 DEF WithoutEffects
  <2> DEFINE D == DOMAIN requests
             f == [i \in D |-> i]
  <2> HIDE DEF D
  <2>2. f \in [D -> D] /\ \A i \in D : f[i] = i
    OBVIOUS
  <2> HIDE DEF f
  <2>3. \E g \in [D -> D] : /\ \A i \in D : requests[i] = requests[g[i]]
                            /\ \A i, j \in D : g[i] = g[j] => i = j
    BY <2>2
  <2> QED BY <1>1, <1>2, <2>1, <2>3 DEF Awaited, D
<1>3. CASE effects # {}
  <2>1. at \in 1..n /\ requests[at].by = "effect"
    BY <1>1, <1>3
  <2>2. WithoutEffects(requests) = left \o right
    BY <1>3 DEF WithoutEffects
  <2> HIDE DEF at
  <2>3. /\ left \in Seq(Requests) /\ Len(left) = at - 1 /\ \A i \in 1..(at - 1) : left[i] = requests[i]
        /\ right \in Seq(Requests) /\ Len(right) = n - at /\ \A i \in 1..(n - at) : right[i] = requests[at + i]
    <3>1. 1 \in Int /\ at - 1 \in Int /\ at + 1 \in Int /\ n \in Int
      BY <1>1, <2>1
    <3>2. /\ \A i \in 1..(at - 1) : requests[i] \in Requests
          /\ \A i \in (at + 1)..n : requests[i] \in Requests
      BY <1>1, <2>1
    <3> HIDE DEF n
    <3>3. /\ left \in Seq(Requests) /\ Len(left) = (IF 1 <= at - 1 THEN at - 1 - 1 + 1 ELSE 0)
          /\ \A i \in 1..(at - 1 - 1 + 1) : left[i] = requests[1 + i - 1]
      BY <3>1, <3>2, SubSeqProperties
    <3>4. /\ right \in Seq(Requests) /\ Len(right) = (IF at + 1 <= n THEN n - (at + 1) + 1 ELSE 0)
          /\ \A i \in 1..(n - (at + 1) + 1) : right[i] = requests[at + 1 + i - 1]
      BY <3>1, <3>2, SubSeqProperties
    <3> HIDE DEF left, right
    <3>5. (at - 1 - 1 + 1 = at - 1) /\ (n - (at + 1) + 1 = n - at) /\ at \in 1..n /\ n \in Nat
      BY <1>1, <2>1 DEF n
    <3>6. (\A i \in Int : 1 + i - 1 = i) /\ (\A i \in Int : at + 1 + i - 1 = at + i)
      BY <3>5
    <3> QED BY <3>3, <3>4, <3>5, <3>6
  <2> HIDE DEF left, right, n
  <2>4. /\ left \o right \in Seq(Requests) /\ DOMAIN (left \o right) = 1..(n - 1)
        /\ \A i \in 1..(n - 1) : (left \o right)[i] = IF i <= at - 1 THEN left[i] ELSE right[i - (at - 1)]
    <3>1. /\ left \o right \in Seq(Requests) /\ Len(left \o right) = Len(left) + Len(right)
          /\ \A i \in 1..(Len(left) + Len(right)) :
                 (left \o right)[i] = IF i <= Len(left) THEN left[i] ELSE right[i - Len(left)]
      BY <2>3, ConcatProperties
    <3>2. Len(left) + Len(right) = n - 1
      BY <2>1, <2>3, <1>1
    <3>3. DOMAIN (left \o right) = 1..(n - 1)
      BY <3>1, <3>2
    <3> QED BY <3>1, <3>2, <3>3, <2>3
  <2>5. ASSUME NEW i \in 1..(n - 1)
        PROVE  (left \o right)[i].by # "effect" /\ (left \o right)[i].do # "preview"
    <3>1. CASE i <= at - 1
      <4>1. (left \o right)[i] = requests[i] /\ i \in DOMAIN requests /\ at \in DOMAIN requests /\ i # at
        BY <3>1, <2>1, <2>3, <2>4, <1>1
      <4> QED BY <4>1, <2>1 DEF Awaited
    <3>2. CASE ~(i <= at - 1)
      <4>1. i - (at - 1) \in 1..(n - at) /\ at + (i - (at - 1)) = i + 1
        BY <3>2, <2>1, <1>1
      <4>2. (left \o right)[i] = requests[i + 1] /\ i + 1 \in DOMAIN requests /\ at \in DOMAIN requests /\ i + 1 # at
        BY <3>2, <4>1, <2>1, <2>3, <2>4, <1>1
      <4> QED BY <4>2, <2>1 DEF Awaited
    <3> QED BY <3>1, <3>2
  <2> DEFINE f == [i \in 1..(n - 1) |-> IF i <= at - 1 THEN i ELSE i + 1]
  <2>6. f \in [1..(n - 1) -> 1..n] /\ \A i, j \in 1..(n - 1) : f[i] = f[j] => i = j
    BY <1>1, <2>1 DEF n
  <2>7. ASSUME NEW i \in 1..(n - 1)
        PROVE  (left \o right)[i] = requests[f[i]]
    <3>1. CASE i <= at - 1
      BY <3>1, <2>1, <2>3, <2>4
    <3>2. CASE ~(i <= at - 1)
      <4>1. i - (at - 1) \in 1..(n - at) /\ at + (i - (at - 1)) = i + 1 /\ n \in Nat
        BY <3>2, <2>1, <1>1 DEF n
      <4>2. (left \o right)[i] = right[i - (at - 1)] /\ f[i] = i + 1
        BY <3>2, <2>4
      <4>3. right[i - (at - 1)] = requests[at + (i - (at - 1))]
        BY <4>1, <2>3
      <4> HIDE DEF f
      <4> QED BY <4>1, <4>2, <4>3
    <3> QED BY <3>1, <3>2
  <2> HIDE DEF f
  <2>8. DOMAIN requests = 1..n
    BY <1>1 DEF n
  <2>9. \E g \in [1..(n - 1) -> 1..n] : /\ \A i \in 1..(n - 1) : (left \o right)[i] = requests[g[i]]
                                       /\ \A i, j \in 1..(n - 1) : g[i] = g[j] => i = j
    BY <2>6, <2>7
  <2> DEFINE rest == left \o right
             D == DOMAIN rest
             E == DOMAIN requests
  <2>10. D = 1..(n - 1) /\ E = 1..n
    BY <2>4, <2>8
  <2>11. rest \in Seq(Requests) /\ \A i \in D : rest[i].by # "effect" /\ rest[i].do # "preview"
    <3> HIDE DEF D
    <3> QED BY <2>4, <2>5, <2>10
  <2>12. \E g \in [D -> E] : /\ \A i \in D : rest[i] = requests[g[i]]
                            /\ \A i, j \in D : g[i] = g[j] => i = j
    <3> HIDE DEF D, E
    <3> QED BY <2>9, <2>10
  <2> HIDE DEF rest
  <2>13. WithoutEffects(requests) = rest
    BY <2>2 DEF rest
  <2> QED BY <2>11, <2>12, <2>13
<1> QED BY <1>2, <1>3

\* The preview is asked for again.
LEMMA AwaitedAgain ==
    ASSUME NEW requests, NEW o, Awaited(requests, o), NEW next
    PROVE  /\ next \in DataObjects =>
                  Awaited(WithoutEffects(requests) \o <<[by |-> "effect", do |-> "preview", of |-> next]>>, next)
           /\ Awaited(WithoutEffects(requests) \o <<>>, next)
<1> DEFINE rest == WithoutEffects(requests)
           q == [by |-> "effect", do |-> "preview", of |-> next]
<1>1. rest \in Seq(Requests) /\ \A i \in DOMAIN rest : rest[i].by # "effect" /\ rest[i].do # "preview"
  BY EffectsGone
<1>3. rest \o <<>> = rest
  BY <1>1
<1>4. Awaited(rest, next)
  BY <1>1 DEF Awaited
<1>5. ASSUME next \in DataObjects PROVE Awaited(rest \o <<q>>, next)
  <2>1. q \in Requests /\ q.by = "effect" /\ q.do = "preview" /\ q.of = next
    BY <1>5 DEF Requests
  <2> HIDE DEF rest, q
  <2>2. rest \o <<q>> = Append(rest, q)
    BY <1>1, <2>1
  <2>3. /\ Append(rest, q) \in Seq(Requests) /\ DOMAIN Append(rest, q) = 1..(Len(rest) + 1) /\ Len(rest) \in Nat
        /\ \A i \in DOMAIN rest : Append(rest, q)[i] = rest[i]
        /\ Append(rest, q)[Len(rest) + 1] = q /\ DOMAIN rest = 1..Len(rest)
    BY <1>1, <2>1
  <2>4. \A i \in DOMAIN Append(rest, q) : i \in DOMAIN rest \/ (i = Len(rest) + 1 /\ Append(rest, q)[i] = q)
    BY <2>3
  <2>5. Awaited(Append(rest, q), next)
    BY <1>1, <2>1, <2>3, <2>4 DEF Awaited
  <2> QED BY <2>2, <2>5
<1> QED BY <1>3, <1>4, <1>5

\* The selection, with a preview and announcement that agree with it.
LEMMA SelectsKeeps ==
    ASSUME NEW o \in DataObjects \cup {"nothing"}, NEW requests, NEW cur, NEW map \in DataObjects \cup {"nothing"},
           selected \in DataObjects \cup {"nothing"},
           Awaited(requests, selected), Selects(o, requests, cur, map), cur.version \in Nat, announced'.version \in Nat,
           o = selected => (cur.of # "nothing" => /\ cur.of = selected
                                                  /\ announced'.of = selected => cur.version >= announced'.version)
    PROVE  /\ Awaited(queue', selected') /\ ViewIsOfSelection' /\ preview'.version \in Nat
           /\ selected' \in DataObjects \cup {"nothing"} /\ mapping' \in DataObjects \cup {"nothing"}
<1>1. CASE o = selected
  BY <1>1 DEF Selects, ViewIsOfSelection
<1>2. CASE o # selected
  <2>1. selected' = o /\ mapping' = "nothing" /\ preview' = None0
    BY <1>2 DEF Selects
  <2>2. \/ queue' = WithoutEffects(requests) \o <<>>
        \/ o \in DataObjects /\ queue' = WithoutEffects(requests) \o <<[by |-> "effect", do |-> "preview", of |-> o]>>
    BY <1>2 DEF Selects
  <2>3. Awaited(queue', o)
    BY <2>2, AwaitedAgain
  <2> QED BY <2>1, <2>3 DEF ViewIsOfSelection, None0
<1> QED BY <1>1, <1>2

LEMMA CatalogStarts == CatalogInit => CatalogInv
<1> SUFFICES ASSUME CatalogInit PROVE CatalogInv
  OBVIOUS
<1>1. VersionsKnown /\ ViewIsOfSelection
  BY CatalogAssumption DEF CatalogInit, VersionsKnown, ViewIsOfSelection, None0
<1> DEFINE q == [by |-> "open", do |-> "read", of |-> "nothing"]
<1>2. q \in Requests /\ q.by = "open" /\ q.do = "read"
  BY DEF Requests
<1>3. queue = <<q>>
  BY DEF CatalogInit
<1> HIDE DEF q
<1>4. <<q>> \in Seq(Requests) /\ DOMAIN <<q>> = {1} /\ <<q>>[1] = q
  BY <1>2
<1>5. Awaited(queue, selected)
  BY <1>2, <1>3, <1>4 DEF Awaited
<1> QED BY <1>1, <1>5 DEF CatalogInv

LEMMA OperationsAre == ASSUME NEW w \in Operations PROVE w # "effect"
BY CatalogAssumption DEF CatalogAssumption

\* An operation starts: a request more, and the view is as it was.
LEMMA StartsKeeps ==
    ASSUME CatalogInv, NEW w \in Operations, NEW o \in DataObjects,
           NEW do \in {"import", "replace", "delete", "apply"}, Starts(w, do, o),
           mapping' \in DataObjects \cup {"nothing"}
    PROVE  CatalogInv'
<1> DEFINE q == [by |-> w, do |-> do, of |-> o]
<1>1. q \in Requests /\ q.by # "effect" /\ q.do # "preview"
  BY OperationsAre DEF Requests
<1>2. queue' = Append(queue, q) /\ UNCHANGED <<catalog, shown, selected, preview, announced>> /\ working' \subseteq Operations
  BY DEF Starts, CatalogInv, VersionsKnown
<1> HIDE DEF q
<1>3. Awaited(queue', selected')
  BY <1>1, <1>2, AwaitedAfter DEF CatalogInv
<1> QED BY <1>2, <1>3 DEF CatalogInv, VersionsKnown, ViewIsOfSelection

LEMMA CatalogKeeps == CatalogInv /\ [CatalogNext]_catalogVars => CatalogInv'
<1> SUFFICES ASSUME CatalogInv, [CatalogNext]_catalogVars PROVE CatalogInv'
  OBVIOUS
<1> USE DEF Finishes
<1>0. /\ Awaited(queue, selected) /\ ViewIsOfSelection /\ VersionsKnown /\ "nothing" \notin DataObjects
      /\ catalog \in [DataObjects -> Nat] /\ selected \in DataObjects \cup {"nothing"}
      /\ mapping \in DataObjects \cup {"nothing"} /\ working \subseteq Operations
      /\ preview.version \in Nat /\ announced.version \in Nat
      /\ announced.of \in DataObjects => announced.version <= catalog[announced.of]
  BY CatalogAssumption DEF CatalogInv, CatalogAssumption, VersionsKnown
<1>1. ASSUME NEW o \in DataObjects, Select(o) PROVE CatalogInv'
  <2>1. Selects(o, queue, preview, mapping) /\ UNCHANGED <<catalog, shown, working, announced>> /\ o # selected
    BY <1>1 DEF Select
  <2>2. /\ Awaited(queue', selected') /\ ViewIsOfSelection' /\ preview'.version \in Nat
        /\ selected' \in DataObjects \cup {"nothing"} /\ mapping' \in DataObjects \cup {"nothing"}
    BY <1>0, <2>1, SelectsKeeps
  <2> QED BY <1>0, <2>1, <2>2 DEF CatalogInv, VersionsKnown
<1>2. ASSUME NEW w \in Operations, ApplyMapping(w) PROVE CatalogInv'
  <2>1. mapping \in DataObjects /\ Starts(w, "apply", mapping) /\ mapping' = "nothing"
    BY <1>0, <1>2 DEF ApplyMapping
  <2> QED BY <2>1, StartsKeeps
<1>3. ASSUME NEW w \in Operations, NEW o \in DataObjects, ImportFiles(w, o) \/ ReplaceFile(w, o) \/ DeleteDataset(w, o)
      PROVE  CatalogInv'
  <2>1. \E do \in {"import", "replace", "delete"} : Starts(w, do, o) /\ mapping' = mapping
    BY <1>3 DEF ImportFiles, ReplaceFile, DeleteDataset
  <2> QED BY <2>1, <1>0, StartsKeeps
<1>4. CASE CancelMapping
  BY <1>0, <1>4 DEF CancelMapping, CatalogInv, VersionsKnown, ViewIsOfSelection
<1>5. CASE UNCHANGED catalogVars
  BY <1>0, <1>5 DEF catalogVars, CatalogInv, VersionsKnown, ViewIsOfSelection, Awaited
<1>6. ASSUME queue # <<>>
      PROVE  /\ Awaited(Tail(queue), selected) /\ Asked \in Requests /\ (Asked.by = "effect" <=> Asked.do = "preview")
             /\ Asked.by = "effect" => Asked.of = selected
             /\ Asked.of \in DataObjects \/ (Asked.of = "nothing" /\ Asked.do = "read")
  <2>1. Asked \in Requests
    BY <1>0, <1>6, AwaitedNext DEF Asked
  <2>2. Asked.of \in DataObjects \/ (Asked.of = "nothing" /\ Asked.do = "read")
    BY <2>1 DEF Requests
  <2> QED BY <2>1, <2>2, <1>0, <1>6, AwaitedNext DEF Asked
<1>7. ASSUME queue # <<>>, Changed PROVE CatalogInv'
  <2>1. Asked.do \in {"import", "replace", "apply", "delete"} /\ UNCHANGED <<shown, selected, preview, mapping>>
    BY <1>7 DEF Changed
  <2>2. PICK do \in {"open", "show", "drop"} : queue' = Append(Tail(queue), [Asked EXCEPT !.do = do])
    BY <1>7 DEF Changed, ReadAgain
  <2>3. [Asked EXCEPT !.do = do] \in Requests /\ [Asked EXCEPT !.do = do].by # "effect" /\ [Asked EXCEPT !.do = do].do # "preview"
    <3>1. Asked \in Requests /\ Asked.by # "effect" /\ Asked.do # "read"
      BY <1>6, <1>7, <2>1
    <3>2. Asked \in [by : Operations \cup {"open", "effect"}, of : DataObjects,
                    do : {"import", "replace", "delete", "apply", "open", "show", "drop", "preview"}]
      BY <3>1 DEF Requests
    <3>3. [Asked EXCEPT !.do = do] \in [by : Operations \cup {"open", "effect"}, of : DataObjects,
                                       do : {"import", "replace", "delete", "apply", "open", "show", "drop", "preview"}]
      BY <3>2
    <3> QED BY <3>1, <3>2, <3>3 DEF Requests
  <2>4. Awaited(queue', selected')
    BY <1>6, <1>7, <2>1, <2>2, <2>3, AwaitedAfter
  <2>5. working' = working
    BY <1>7 DEF Changed
  <2>9. Asked.of \in DataObjects
    BY <1>6, <1>7, <2>1
  <2>6. CASE Asked.do # "delete" /\ Asked.of \in DataObjects /\ announced' = announced /\ catalog' = [catalog EXCEPT ![Asked.of] = @ + 1]
    <3>1. catalog' \in [DataObjects -> Nat] /\ \A o \in DataObjects : catalog'[o] \in Nat /\ catalog[o] \in Nat /\ catalog[o] <= catalog'[o]
      BY <1>0, <2>6
    <3>2. announced.of \in DataObjects => announced.version <= catalog'[announced.of]
      BY <1>0, <3>1
    <3> QED BY <1>0, <2>1, <2>4, <2>5, <2>6, <3>1, <3>2 DEF CatalogInv, VersionsKnown, ViewIsOfSelection
  <2>7. CASE catalog' = catalog /\ announced' = announced
    BY <1>0, <2>1, <2>4, <2>5, <2>7 DEF CatalogInv, VersionsKnown, ViewIsOfSelection
  <2>8. CASE /\ catalog' = [catalog EXCEPT ![Asked.of] = 0]
             /\ announced' = IF announced.of = Asked.of THEN None0 ELSE announced
    <3>1. catalog' \in [DataObjects -> Nat]
      BY <1>0, <2>8, <2>9
    <3>2. CASE announced' = None0
      BY <1>0, <2>1, <2>4, <2>5, <3>1, <3>2 DEF CatalogInv, VersionsKnown, ViewIsOfSelection, None0
    <3>3. CASE announced' = announced /\ announced.of # Asked.of
      <4>1. announced.of \in DataObjects => announced.version <= catalog'[announced.of]
        BY <1>0, <2>8, <3>3
      <4> QED BY <1>0, <2>1, <2>4, <2>5, <3>1, <3>3, <4>1 DEF CatalogInv, VersionsKnown, ViewIsOfSelection
    <3> QED BY <2>8, <3>2, <3>3
  <2> QED BY <1>7, <2>6, <2>7, <2>8, <2>9 DEF Changed
<1>8. ASSUME queue # <<>>, MappingNeeded PROVE CatalogInv'
  BY <1>0, <1>6, <1>8 DEF MappingNeeded, CatalogInv, VersionsKnown, ViewIsOfSelection
<1>9. ASSUME queue # <<>>, RequestFails PROVE CatalogInv'
  BY <1>0, <1>6, <1>9 DEF RequestFails, CatalogInv, VersionsKnown, ViewIsOfSelection, None0
<1>10. ASSUME queue # <<>>, Show PROVE CatalogInv'
  <2> DEFINE cur == [of |-> Asked.of, version |-> catalog[Asked.of]]
  <2>1. /\ Selects(Asked.of, Tail(queue), cur, "nothing") /\ announced' = cur
        /\ UNCHANGED catalog /\ working' \subseteq Operations
    BY <1>0, <1>10 DEF Show
  <2>2. Asked.of \in DataObjects /\ Awaited(Tail(queue), selected)
    BY <1>6, <1>10 DEF Show
  <2>3. cur.of = Asked.of /\ cur.version = catalog[Asked.of] /\ cur.version \in Nat
    BY <1>0, <2>2
  <2> HIDE DEF cur
  <2>4. /\ Awaited(queue', selected') /\ ViewIsOfSelection' /\ preview'.version \in Nat
        /\ selected' \in DataObjects \cup {"nothing"} /\ mapping' \in DataObjects \cup {"nothing"}
    BY <1>0, <2>1, <2>2, <2>3, SelectsKeeps
  <2> QED BY <1>0, <2>1, <2>2, <2>3, <2>4 DEF CatalogInv, VersionsKnown
<1>11. ASSUME queue # <<>>, NEW o \in DataObjects \cup {"nothing"}, Selects(o, Tail(queue), preview, mapping),
              working' = working \ {Asked.by}, UNCHANGED <<catalog, announced>>
       PROVE  CatalogInv'
  <2>1. Awaited(Tail(queue), selected)
    BY <1>6, <1>11
  <2>2. /\ Awaited(queue', selected') /\ ViewIsOfSelection' /\ preview'.version \in Nat
        /\ selected' \in DataObjects \cup {"nothing"} /\ mapping' \in DataObjects \cup {"nothing"}
    BY <1>0, <1>11, <2>1, SelectsKeeps DEF ViewIsOfSelection
  <2> QED BY <1>0, <1>11, <2>2 DEF CatalogInv, VersionsKnown
<1>12. ASSUME queue # <<>>, ShowImported PROVE CatalogInv'
  BY <1>6, <1>11, <1>12 DEF ShowImported
<1>13. ASSUME queue # <<>>, ReadAll PROVE CatalogInv'
  <2>1. PICK o \in DataObjects \cup {"nothing"} : Selects(o, Tail(queue), preview, mapping)
    BY <1>13 DEF ReadAll, Existing
  <2> QED BY <1>11, <1>13, <2>1 DEF ReadAll
<1>14. ASSUME queue # <<>>, PreviewRead PROVE CatalogInv'
  <2>1. Asked.of = selected /\ Awaited(Tail(queue), selected)
    BY <1>6, <1>14 DEF PreviewRead
  <2>2. selected # "nothing" => catalog[selected] \in Nat /\ (announced.of = selected => announced.version <= catalog[selected])
    BY <1>0
  <2>3. preview' = [of |-> selected, version |-> catalog[selected]]
    BY <1>14, <2>1 DEF PreviewRead
  <2>4. selected \in DataObjects
    BY <1>6, <1>14, <2>1 DEF PreviewRead
  <2> QED BY <1>0, <1>14, <2>1, <2>2, <2>3, <2>4 DEF PreviewRead, CatalogInv, VersionsKnown, ViewIsOfSelection
<1> QED
  BY <1>1, <1>2, <1>3, <1>4, <1>5, <1>7, <1>8, <1>9, <1>10, <1>12, <1>13, <1>14 DEF CatalogNext

\* The preview is of the selected object, and no older than what an operation told the person of
\* (CatalogView.ViewIsOfSelection), in whatever order the answers arrive.
THEOREM ViewFollowsSelection == CatalogSpec => []ViewIsOfSelection
<1>1. CatalogInv => ViewIsOfSelection
  BY DEF CatalogInv
<1> QED BY <1>1, CatalogStarts, CatalogKeeps, PTL DEF CatalogSpec

-----------------------------------------------------------------------------
(* The types and limits of CatalogView *)

\* Nobody has two requests on its way; the operations among those who have one are W.
Single(requests, W) ==
    /\ \A i \in DOMAIN requests : requests[i].by \in W \cup {"open", "effect"}
    /\ \A i, j \in DOMAIN requests : requests[i].by = requests[j].by => i = j

Named(v) == v.of \in DataObjects \cup {"nothing"} /\ v.version \in 0..MaxDataVersions

CatalogBounds ==
    /\ catalog \in [DataObjects -> 0..MaxDataVersions] /\ shown \in [DataObjects -> 0..MaxDataVersions]
    /\ Named(preview) /\ Named(announced)
    /\ Single(queue, working)

LEMMA SingleNext ==
    ASSUME NEW requests \in Seq(Requests), NEW W \in SUBSET Operations, Single(requests, W), requests # <<>>
    PROVE  /\ Single(Tail(requests), W \ {Head(requests).by}) /\ Single(Tail(requests), W)
           /\ \A i \in DOMAIN Tail(requests) : Tail(requests)[i].by # Head(requests).by
           /\ Head(requests).by \in W \cup {"open", "effect"}
<1>1. /\ Tail(requests) \in Seq(Requests) /\ DOMAIN Tail(requests) = 1..(Len(requests) - 1) /\ Len(requests) \in Nat
      /\ \A i \in DOMAIN Tail(requests) : i + 1 \in DOMAIN requests /\ Tail(requests)[i] = requests[i + 1]
      /\ Head(requests) = requests[1] /\ 1 \in DOMAIN requests
  OBVIOUS
<1>2. ASSUME NEW i \in DOMAIN Tail(requests) PROVE Tail(requests)[i].by # Head(requests).by
  <2>1. i + 1 # 1
    BY <1>1
  <2> QED BY <1>1, <2>1 DEF Single
<1>3. ASSUME NEW i \in DOMAIN Tail(requests), NEW j \in DOMAIN Tail(requests), Tail(requests)[i].by = Tail(requests)[j].by
      PROVE  i = j
  <2>1. i + 1 = j + 1
    BY <1>1, <1>3 DEF Single
  <2> QED BY <1>1, <2>1
<1> QED BY <1>1, <1>2, <1>3 DEF Single

LEMMA SingleAfter ==
    ASSUME NEW requests \in Seq(Requests), NEW W \in SUBSET Operations, Single(requests, W), NEW q \in Requests,
           NEW V \in SUBSET Operations, W \subseteq V, q.by \in V \cup {"open", "effect"},
           \A i \in DOMAIN requests : requests[i].by # q.by
    PROVE  Single(Append(requests, q), V)
<1>1. /\ DOMAIN Append(requests, q) = 1..(Len(requests) + 1) /\ Len(requests) \in Nat
      /\ DOMAIN requests = 1..Len(requests)
      /\ \A i \in DOMAIN requests : Append(requests, q)[i] = requests[i]
      /\ Append(requests, q)[Len(requests) + 1] = q
  <2>1. /\ Append(requests, q) \in Seq(Requests) /\ Len(Append(requests, q)) = Len(requests) + 1
        /\ \A i \in 1..Len(requests) : Append(requests, q)[i] = requests[i]
        /\ Append(requests, q)[Len(requests) + 1] = q
    BY AppendProperties
  <2>2. Len(requests) \in Nat /\ DOMAIN requests = 1..Len(requests)
    BY LenProperties
  <2>3. DOMAIN Append(requests, q) = 1..Len(Append(requests, q))
    BY <2>1, LenProperties
  <2> QED BY <2>1, <2>2, <2>3
<1>2. \A i \in DOMAIN Append(requests, q) :
          \/ i \in DOMAIN requests /\ Append(requests, q)[i] = requests[i]
          \/ i = Len(requests) + 1 /\ Append(requests, q)[i] = q
  <2> SUFFICES ASSUME NEW i \in 1..(Len(requests) + 1)
               PROVE  \/ i \in 1..Len(requests)
                      \/ i = Len(requests) + 1
    BY <1>1
  <2> QED BY <1>1
<1> QED BY <1>2 DEF Single

LEMMA SingleAgain ==
    ASSUME NEW requests, NEW o, Awaited(requests, o), NEW W \in SUBSET Operations, Single(requests, W)
    PROVE  /\ Single(WithoutEffects(requests) \o <<>>, W)
           /\ \A next \in DataObjects :
                  Single(WithoutEffects(requests) \o <<[by |-> "effect", do |-> "preview", of |-> next]>>, W)
<1> DEFINE rest == WithoutEffects(requests)
<1>0. SUFFICES ASSUME NEW next
               PROVE  /\ Single(rest \o <<>>, W)
                      /\ next \in DataObjects =>
                             Single(rest \o <<[by |-> "effect", do |-> "preview", of |-> next]>>, W)
  OBVIOUS
<1> DEFINE q == [by |-> "effect", do |-> "preview", of |-> next]
<1>1. /\ rest \in Seq(Requests) /\ \A i \in DOMAIN rest : rest[i].by # "effect"
      /\ \E f \in [DOMAIN rest -> DOMAIN requests] : /\ \A i \in DOMAIN rest : rest[i] = requests[f[i]]
                                                     /\ \A i, j \in DOMAIN rest : f[i] = f[j] => i = j
  BY EffectsGone
<1>2. Single(rest, W)
  <2>1. PICK f \in [DOMAIN rest -> DOMAIN requests] : /\ \A i \in DOMAIN rest : rest[i] = requests[f[i]]
                                                     /\ \A i, j \in DOMAIN rest : f[i] = f[j] => i = j
    BY <1>1
  <2> HIDE DEF rest
  <2> QED BY <2>1 DEF Single
<1>3. (next \in DataObjects => q \in Requests) /\ q.by = "effect"
  BY DEF Requests
<1> HIDE DEF rest, q
<1>4. rest \o <<>> = rest /\ (next \in DataObjects => rest \o <<q>> = Append(rest, q))
  BY <1>1, <1>3
<1>5. next \in DataObjects => Single(Append(rest, q), W)
  BY <1>1, <1>2, <1>3, SingleAfter
<1> QED BY <1>2, <1>4, <1>5 DEF rest, q

\* So there are no more requests on their way than those who ask.
LEMMA SingleLength ==
    ASSUME NEW requests \in Seq(Requests), NEW W \in SUBSET Operations, Single(requests, W)
    PROVE  Len(requests) <= Cardinality(W) + 2
<1> DEFINE T == W \cup {"open", "effect"}
           n == Len(requests)
           f == [i \in 1..n |-> requests[i].by]
<1>1. n \in Nat /\ DOMAIN requests = 1..n
  BY LenProperties
<1>2. IsFiniteSet(W) /\ Cardinality(W) \in Nat
  <2>1. IsFiniteSet(Operations) /\ W \in SUBSET Operations
    BY CatalogAssumption
  <2>2. IsFiniteSet(W)
    BY <2>1, FS_Subset
  <2> QED BY <2>2, FS_CardinalityType
<1> DEFINE V == W \cup {"open"}
<1>3. IsFiniteSet(V) /\ Cardinality(V) \in Nat /\ Cardinality(V) <= Cardinality(W) + 1
  <2>1. IsFiniteSet(V) /\ Cardinality(V) = IF "open" \in W THEN Cardinality(W) ELSE Cardinality(W) + 1
    BY <1>2, FS_AddElement
  <2> QED BY <1>2, <2>1
<1>4. IsFiniteSet(T) /\ Cardinality(T) <= Cardinality(W) + 2 /\ Cardinality(T) \in Nat
  <2>1. T = V \cup {"effect"}
    OBVIOUS
  <2> HIDE DEF T, V
  <2>2. IsFiniteSet(T) /\ Cardinality(T) = IF "effect" \in V THEN Cardinality(V) ELSE Cardinality(V) + 1
    BY <1>3, <2>1, FS_AddElement
  <2> QED BY <1>2, <1>3, <2>2
<1>5. f \in [1..n -> T] /\ \A i, j \in 1..n : f[i] = f[j] => i = j
  BY <1>1 DEF Single
<1>6. f \in Injection(1..n, T)
  BY <1>5 DEF Injection, IsInjective
<1>7. Cardinality(1..n) = n
  BY <1>1, FS_Interval
<1> HIDE DEF T, n, f
<1>8. Cardinality(1..n) <= Cardinality(T)
  BY <1>4, <1>6, FS_Injection
<1> QED BY <1>1, <1>2, <1>4, <1>7, <1>8 DEF n

LEMMA SelectsOnce ==
    ASSUME NEW requests, NEW W \in SUBSET Operations, Awaited(requests, selected), Single(requests, W),
           NEW o \in DataObjects \cup {"nothing"}, NEW cur, NEW map, Selects(o, requests, cur, map)
    PROVE  Single(queue', W) /\ (preview' = cur \/ preview' = None0)
<1>1. CASE o = selected
  BY <1>1 DEF Selects
<1>2. CASE o # selected /\ o = "nothing"
  <2>1. queue' = WithoutEffects(requests) \o <<>> /\ preview' = None0
    BY <1>2 DEF Selects
  <2> QED BY <2>1, SingleAgain
<1>3. CASE o # selected /\ o \in DataObjects
  <2>1. o # "nothing"
    BY <1>3, CatalogAssumption
  <2>2. queue' = WithoutEffects(requests) \o <<[by |-> "effect", do |-> "preview", of |-> o]>> /\ preview' = None0
    BY <1>3, <2>1 DEF Selects
  <2> QED BY <1>3, <2>2, SingleAgain
<1> QED BY <1>1, <1>2, <1>3

LEMMA CatalogBoundsStart == CatalogInit => CatalogBounds
<1> SUFFICES ASSUME CatalogInit PROVE CatalogBounds
  OBVIOUS
<1>0. MaxDataVersions \in Nat /\ MaxDataVersions >= 1
  BY CatalogAssumption
<1>1. /\ catalog \in [DataObjects -> 0..MaxDataVersions] /\ shown \in [DataObjects -> 0..MaxDataVersions]
      /\ Named(preview) /\ Named(announced)
  BY <1>0 DEF CatalogInit, Blank, Named, None0
<1> DEFINE q == [by |-> "open", do |-> "read", of |-> "nothing"]
<1>2. queue = <<q>> /\ q.by = "open"
  BY DEF CatalogInit
<1> HIDE DEF q
<1>3. DOMAIN <<q>> = {1} /\ <<q>>[1] = q
  OBVIOUS
<1> QED BY <1>1, <1>2, <1>3 DEF CatalogBounds, Single

\* An operation starts: it has no request on its way yet.
LEMMA StartsBounded ==
    ASSUME CatalogInv, CatalogBounds, NEW w \in Operations, NEW o \in DataObjects,
           NEW do \in {"import", "replace", "delete", "apply"}, Starts(w, do, o)
    PROVE  CatalogBounds'
<1> DEFINE q == [by |-> w, do |-> do, of |-> o]
           after == working \cup {w}
<1>1. q \in Requests /\ q.by = w
  BY DEF Requests
<1>2. /\ queue' = Append(queue, q) /\ working' = after /\ w \notin working
      /\ UNCHANGED <<catalog, shown, preview, announced>>
  BY DEF Starts
<1>3. /\ working \in SUBSET Operations /\ after \in SUBSET Operations /\ working \subseteq after /\ w \in after
      /\ w \notin working \cup {"open", "effect"} /\ queue \in Seq(Requests)
  BY <1>2, CatalogAssumption DEF CatalogInv, VersionsKnown, Awaited
<1> HIDE DEF q, after
<1>4. Single(queue, working) /\ \A i \in DOMAIN queue : queue[i].by # q.by
  BY <1>1, <1>3 DEF CatalogBounds, Single
<1>5. q.by \in after \cup {"open", "effect"}
  BY <1>1, <1>3
<1>6. Single(Append(queue, q), after)
  BY <1>1, <1>3, <1>4, <1>5, SingleAfter
<1> QED BY <1>2, <1>6 DEF CatalogBounds, Named

LEMMA CatalogBoundsStep == CatalogInv /\ CatalogBounds /\ [CatalogNext]_catalogVars => CatalogBounds'
<1> SUFFICES ASSUME CatalogInv, CatalogBounds, [CatalogNext]_catalogVars PROVE CatalogBounds'
  OBVIOUS
<1> USE DEF Finishes
<1>0. /\ Awaited(queue, selected) /\ Single(queue, working) /\ working \in SUBSET Operations /\ queue \in Seq(Requests)
      /\ "nothing" \notin DataObjects /\ MaxDataVersions \in Nat /\ Named(None0)
      /\ catalog \in [DataObjects -> 0..MaxDataVersions] /\ shown \in [DataObjects -> 0..MaxDataVersions]
      /\ Named(preview) /\ Named(announced) /\ mapping \in DataObjects \cup {"nothing"}
  BY CatalogAssumption DEF CatalogInv, VersionsKnown, Awaited, CatalogBounds, Named, None0
<1>1. ASSUME NEW o \in DataObjects, Select(o) PROVE CatalogBounds'
  <2>1. Selects(o, queue, preview, mapping) /\ UNCHANGED <<catalog, shown, working, announced>>
    BY <1>1 DEF Select
  <2>2. Single(queue', working) /\ (preview' = preview \/ preview' = None0)
    BY <1>0, <2>1, SelectsOnce
  <2> QED BY <1>0, <2>1, <2>2 DEF CatalogBounds, Named
<1>2. ASSUME NEW w \in Operations, ApplyMapping(w) PROVE CatalogBounds'
  <2>1. mapping \in DataObjects /\ Starts(w, "apply", mapping)
    BY <1>0, <1>2 DEF ApplyMapping
  <2> QED BY <2>1, StartsBounded
<1>3. ASSUME NEW w \in Operations, NEW o \in DataObjects, ImportFiles(w, o) \/ ReplaceFile(w, o) \/ DeleteDataset(w, o)
      PROVE  CatalogBounds'
  <2>1. \E do \in {"import", "replace", "delete"} : Starts(w, do, o)
    BY <1>3 DEF ImportFiles, ReplaceFile, DeleteDataset
  <2> QED BY <2>1, StartsBounded
<1>4. CASE CancelMapping
  BY <1>0, <1>4 DEF CancelMapping, CatalogBounds, Named
<1>5. CASE UNCHANGED catalogVars
  BY <1>0, <1>5 DEF catalogVars, CatalogBounds, Named
<1>6. ASSUME queue # <<>>
      PROVE  /\ Awaited(Tail(queue), selected) /\ Asked \in Requests /\ Tail(queue) \in Seq(Requests)
             /\ Single(Tail(queue), working \ {Asked.by}) /\ Single(Tail(queue), working)
             /\ \A i \in DOMAIN Tail(queue) : Tail(queue)[i].by # Asked.by
             /\ Asked.by \in working \cup {"open", "effect"}
             /\ Asked.of \in DataObjects \/ (Asked.of = "nothing" /\ Asked.do = "read")
  <2>1. Asked \in Requests /\ Awaited(Tail(queue), selected)
    BY <1>0, <1>6, AwaitedNext DEF Asked
  <2>2. Asked.of \in DataObjects \/ (Asked.of = "nothing" /\ Asked.do = "read")
    BY <2>1 DEF Requests
  <2>3. Tail(queue) \in Seq(Requests)
    BY <2>1 DEF Awaited
  <2> QED BY <2>1, <2>2, <2>3, <1>0, <1>6, SingleNext DEF Asked
<1>7. ASSUME queue # <<>>, Changed PROVE CatalogBounds'
  <2>1. /\ Asked.do \in {"import", "replace", "apply", "delete"} /\ UNCHANGED <<shown, selected, preview, mapping>>
        /\ working' = working
    BY <1>7 DEF Changed
  <2>2. PICK do \in {"open", "show", "drop"} : queue' = Append(Tail(queue), [Asked EXCEPT !.do = do])
    BY <1>7 DEF Changed, ReadAgain
  <2> DEFINE Queries == [by : Operations \cup {"open", "effect"}, of : DataObjects,
                         do : {"import", "replace", "delete", "apply", "open", "show", "drop", "preview"}]
  <2>3. PICK q \in Requests : q = [Asked EXCEPT !.do = do] /\ q.by = Asked.by
    <3>1. Asked \in Queries
      BY <1>6, <1>7, <2>1 DEF Requests
    <3>2. [Asked EXCEPT !.do = do] \in Queries /\ [Asked EXCEPT !.do = do].by = Asked.by
      BY <3>1
    <3>3. Queries \subseteq Requests
      BY DEF Requests
    <3> HIDE DEF Queries
    <3> QED BY <3>2, <3>3
  <2>4. Single(queue', working)
    <3>1. /\ Tail(queue) \in Seq(Requests) /\ Single(Tail(queue), working) /\ q.by \in working \cup {"open", "effect"}
          /\ \A i \in DOMAIN Tail(queue) : Tail(queue)[i].by # q.by
      BY <1>6, <1>7, <2>3
    <3>2. Single(Append(Tail(queue), q), working)
      BY <3>1, <1>0, SingleAfter
    <3> QED BY <3>2, <2>2, <2>3
  <2>5. Asked.of \in DataObjects
    BY <1>6, <1>7, <2>1
  <2>6. /\ \/ catalog[Asked.of] < MaxDataVersions /\ catalog' = [catalog EXCEPT ![Asked.of] = @ + 1]
           \/ catalog' = [catalog EXCEPT ![Asked.of] = 0]
        /\ announced' = announced \/ announced' = None0
    BY <1>7 DEF Changed
  <2>7. catalog' \in [DataObjects -> 0..MaxDataVersions]
    <3>1. PICK o \in DataObjects : o = Asked.of
      BY <2>5
    <3>2. catalog[o] \in 0..MaxDataVersions
      BY <1>0
    <3>3. catalog[o] < MaxDataVersions => catalog[o] + 1 \in 0..MaxDataVersions
      BY <3>2, <1>0
    <3>4. \/ catalog[o] < MaxDataVersions /\ catalog' = [catalog EXCEPT ![o] = catalog[o] + 1]
          \/ catalog' = [catalog EXCEPT ![o] = 0]
      BY <2>6, <3>1
    <3>5. ASSUME NEW n \in 0..MaxDataVersions, catalog' = [catalog EXCEPT ![o] = n]
          PROVE  catalog' \in [DataObjects -> 0..MaxDataVersions]
      BY <1>0, <3>5
    <3>6. 0 \in 0..MaxDataVersions
      BY <1>0
    <3> QED BY <3>3, <3>4, <3>5, <3>6
  <2> QED BY <1>0, <2>1, <2>4, <2>6, <2>7 DEF CatalogBounds, Named
<1>8. ASSUME queue # <<>>, MappingNeeded PROVE CatalogBounds'
  BY <1>0, <1>6, <1>8 DEF MappingNeeded, CatalogBounds, Named
<1>9. ASSUME queue # <<>>, RequestFails PROVE CatalogBounds'
  BY <1>0, <1>6, <1>9 DEF RequestFails, CatalogBounds, Named
<1>10. ASSUME queue # <<>>, NEW o \in DataObjects \cup {"nothing"}, NEW cur, NEW map, Selects(o, Tail(queue), cur, map),
              Named(cur), working' = working \ {Asked.by}, catalog' = catalog, shown' \in {shown, catalog}, Named(announced')
       PROVE  CatalogBounds'
  <2>1. Awaited(Tail(queue), selected) /\ Single(Tail(queue), working \ {Asked.by}) /\ working \ {Asked.by} \in SUBSET Operations
    BY <1>0, <1>6, <1>10
  <2>2. Single(queue', working \ {Asked.by}) /\ (preview' = cur \/ preview' = None0)
    BY <1>10, <2>1, SelectsOnce
  <2>3. Named(preview')
    BY <1>0, <1>10, <2>2
  <2> QED BY <1>0, <1>10, <2>2, <2>3 DEF CatalogBounds
<1>11. ASSUME queue # <<>>, Show PROVE CatalogBounds'
  <2> DEFINE cur == [of |-> Asked.of, version |-> catalog[Asked.of]]
  <2>1. /\ Selects(Asked.of, Tail(queue), cur, "nothing") /\ announced' = cur /\ shown' = catalog
        /\ catalog' = catalog /\ working' = working \ {Asked.by}
    BY <1>11 DEF Show
  <2>2. Asked.of \in DataObjects
    BY <1>6, <1>11 DEF Show
  <2>3. Named(cur)
    BY <1>0, <2>2 DEF Named
  <2> HIDE DEF cur
  <2> QED BY <1>10, <1>11, <2>1, <2>2, <2>3
<1>12. ASSUME queue # <<>>, ShowImported PROVE CatalogBounds'
  BY <1>0, <1>6, <1>10, <1>12 DEF ShowImported
<1>13. ASSUME queue # <<>>, ReadAll PROVE CatalogBounds'
  <2>1. PICK o \in DataObjects \cup {"nothing"} : Selects(o, Tail(queue), preview, mapping)
    BY <1>13 DEF ReadAll, Existing
  <2> QED BY <1>0, <1>10, <1>13, <2>1 DEF ReadAll
<1>14. ASSUME queue # <<>>, PreviewRead PROVE CatalogBounds'
  <2>1. Asked.of \in DataObjects
    BY <1>6, <1>14 DEF PreviewRead
  <2>2. Named(preview')
    BY <1>0, <1>14, <2>1 DEF PreviewRead, Named
  <2> QED BY <1>0, <1>6, <1>14, <2>2 DEF PreviewRead, CatalogBounds
<1> QED
  BY <1>1, <1>2, <1>3, <1>4, <1>5, <1>7, <1>8, <1>9, <1>11, <1>12, <1>13, <1>14 DEF CatalogNext

\* VersionsKnown keep to their bound, and there are no more requests on their way than operations under way and the two
\* askers besides them (CatalogView.CatalogTypeOK).
THEOREM CatalogTyped == CatalogSpec => []CatalogTypeOK
<1>1. CatalogInv /\ CatalogBounds => CatalogTypeOK
  <2> SUFFICES ASSUME CatalogInv, CatalogBounds PROVE CatalogTypeOK
    OBVIOUS
  <2>1. queue \in Seq(Requests) /\ working \in SUBSET Operations /\ Single(queue, working)
    BY DEF CatalogInv, VersionsKnown, Awaited, CatalogBounds
  <2>2. Len(queue) <= Cardinality(working) + 2
    BY <2>1, SingleLength
  <2> QED BY <2>1, <2>2 DEF CatalogTypeOK, CatalogBounds, CatalogInv, VersionsKnown, Named
<1> QED BY <1>1, CatalogStarts, CatalogKeeps, CatalogBoundsStart, CatalogBoundsStep, PTL DEF CatalogSpec

-----------------------------------------------------------------------------
(***************************************************************************)
(* RecomputeQueues: for any tables, derivations, reconciliations and       *)
(* attempts, nothing that a new version calls for is forgotten by the two  *)
(* queues.                                                                 *)
(***************************************************************************)

Event  == [source : Tables, at : Nat, target : Derived, status : TaskStatuses, attempt : Nat, born : Nat]
Replay == [of : Reviews, pair : Nat \X Nat, status : TaskStatuses, attempt : Nat, born : Nat]

Rows ==
    /\ tableVersion \in [Tables -> Nat] /\ activations \in Nat
    /\ DOMAIN basis = Derived /\ DOMAIN declined = Derived
    /\ tasks \subseteq Event /\ replays \subseteq Replay
    /\ balances \subseteq [of : Reviews, pair : Nat \X Nat, attempt : Nat]

\* No event is of a version still to come, so that a new version finds no event of its own.
NotAhead ==
    /\ \A e \in tasks : e.at <= tableVersion[e.source]
    /\ \A r \in replays : r.pair[1] <= tableVersion[r.of[1]] /\ r.pair[2] <= tableVersion[r.of[2]]

OneReplayPerPair == \A r, s \in replays : SignatureOf(r) = SignatureOf(s) => r = s

\* What the worker holds: a replay that is running, or a table it has just made from the current versions.
Holds ==
    /\ worker.queue = "replays" => \A r \in replays : SignatureOf(r) = worker.key => r.status = "running"
    /\ worker.queue = "tasks" /\ worker.step = "succeeded" =>
           basis[worker.key[3]] = ParentsAt(tableVersion, worker.key[3])

QueueInv == Rows /\ NotAhead /\ OneReplayPerPair /\ Holds /\ NothingForgotten

-----------------------------------------------------------------------------
(* A new version *)

LEMMA Numbers ==
    /\ \A t \in Derived : ParentsOf[t] \subseteq Tables /\ t \notin ParentsOf[t]
    /\ \A d \in Reviews : d[1] \in Tables /\ d[2] \in Tables
    /\ Derived \subseteq Tables
BY QueueAssumption DEF QueueAssumption

LEMMA VersionMoves ==
    ASSUME Rows, NEW d \in Tables, Activated(d)
    PROVE  /\ tableVersion' \in [Tables -> Nat] /\ activations' \in Nat
           /\ tableVersion'[d] = tableVersion[d] + 1
           /\ \A x \in Tables : x # d => tableVersion'[x] = tableVersion[x]
           /\ \A x \in Tables : tableVersion[x] <= tableVersion'[x]
           /\ tasks' = Enqueued(d, tableVersion') /\ replays' = Replayed(d, tableVersion')
BY DEF Rows, Activated

\* Every dataset made from d has an event for the new version, which is a new one.
LEMMA TasksEnqueued ==
    ASSUME Rows, NotAhead, NEW d \in Tables, Activated(d)
    PROVE  /\ tasks \subseteq tasks' /\ tasks' \subseteq Event
           /\ \A e \in tasks' : e.at <= tableVersion'[e.source]
           /\ \A t \in Derived : d \in ParentsOf[t] => \E e \in tasks' : e.target = t /\ e.status = "pending"
<1> DEFINE New(t) == [source |-> d, at |-> tableVersion'[d], target |-> t, status |-> "pending",
                      attempt |-> 0, born |-> activations]
           Add    == {u \in Dependents(d) : <<d, tableVersion'[d], u>> \notin {KeyOf(e) : e \in tasks}}
<1>1. tasks' = tasks \cup {New(t) : t \in Add}
  BY VersionMoves DEF Enqueued
<1>2. \A t \in Dependents(d) : t \in Add
  <2> SUFFICES ASSUME NEW t \in Dependents(d), NEW e \in tasks, KeyOf(e) = <<d, tableVersion'[d], t>> PROVE FALSE
    OBVIOUS
  <2>1. e.source = d /\ e.at = tableVersion'[d]
    BY DEF KeyOf
  <2>2. e.at <= tableVersion[d] /\ tableVersion[d] \in Nat
    BY <2>1 DEF NotAhead, Rows
  <2> QED
    BY <2>1, <2>2, VersionMoves
<1>3. \A t \in Add : New(t) \in Event
  BY VersionMoves DEF Event, Rows, Dependents, TaskStatuses, Unended
<1>4. \A e \in tasks : e.at <= tableVersion'[e.source]
  BY VersionMoves DEF NotAhead, Rows, Event
<1>5. \A t \in Add : New(t).at <= tableVersion'[New(t).source]
  BY VersionMoves
<1>6. \A t \in Derived : d \in ParentsOf[t] => \E e \in tasks' : e.target = t /\ e.status = "pending"
  <2> SUFFICES ASSUME NEW t \in Derived, d \in ParentsOf[t] PROVE \E e \in tasks' : e.target = t /\ e.status = "pending"
    OBVIOUS
  <2>1. New(t) \in tasks'
    BY <1>1, <1>2 DEF Dependents
  <2> QED
    BY <2>1
<1>7. tasks' \subseteq Event
  BY <1>1, <1>3 DEF Rows
<1> HIDE DEF New, Add
<1>8. \A e \in tasks' : e.at <= tableVersion'[e.source]
  BY <1>1, <1>4, <1>5
<1> QED
  BY <1>1, <1>6, <1>7, <1>8

\* Every reconciliation of d has an event for the new pair; those for other pairs are superseded at most.
LEMMA ReplaysEnqueued ==
    ASSUME Rows, NotAhead, OneReplayPerPair, NEW d \in Tables, Activated(d)
    PROVE  /\ replays' \subseteq Replay
           /\ \A r \in replays' : r.pair[1] <= tableVersion'[r.of[1]] /\ r.pair[2] <= tableVersion'[r.of[2]]
           /\ OneReplayPerPair'
           /\ \A r \in replays : r.of \notin Concerned(d) \/ r.status \notin {"pending", "paused", "failed"} => r \in replays'
           /\ \A r \in replays' : r.status = "succeeded" => r \in replays
           /\ \A w \in Concerned(d) : \E r \in replays' : SignatureOf(r) = <<w, PairAt(tableVersion', w)>> /\ r.status = "pending"
<1> DEFINE V      == tableVersion'
           New(w) == [of |-> w, pair |-> PairAt(V, w), status |-> "pending", attempt |-> 0, born |-> activations]
           Add    == {w \in Concerned(d) : <<w, PairAt(V, w)>> \notin {SignatureOf(r) : r \in replays}}
           Old(r) == IF Outdated(r, d, V) THEN [r EXCEPT !.status = "stale"] ELSE r
<1>1. replays' = {Old(r) : r \in replays} \cup {New(w) : w \in Add}
  BY VersionMoves DEF Replayed
<1>2. \A w \in Reviews : PairAt(V, w) \in Nat \X Nat /\ PairAt(V, w)[1] = V[w[1]] /\ PairAt(V, w)[2] = V[w[2]]
  BY VersionMoves, Numbers DEF PairAt
<1>3. \A w \in Concerned(d) : w \in Add
  <2> SUFFICES ASSUME NEW w \in Concerned(d), NEW r \in replays, SignatureOf(r) = <<w, PairAt(V, w)>> PROVE FALSE
    OBVIOUS
  <2>1. w \in Reviews /\ d \in {w[1], w[2]} /\ r.of = w /\ r.pair = PairAt(V, w)
    BY DEF Concerned, SignatureOf
  <2>2. r.pair[1] = V[w[1]] /\ r.pair[2] = V[w[2]]
    BY <2>1, <1>2
  <2>3. r.pair[1] <= tableVersion[w[1]] /\ r.pair[2] <= tableVersion[w[2]]
    BY <2>1 DEF NotAhead
  <2>4. tableVersion[d] \in Nat /\ V[d] = tableVersion[d] + 1
    BY VersionMoves DEF Rows
  <2> QED
    BY <2>1, <2>2, <2>3, <2>4
<1>4. \A r \in replays : /\ Old(r) \in Replay /\ Old(r).of = r.of /\ Old(r).pair = r.pair
                         /\ Old(r).status = "succeeded" => Old(r) = r
                         /\ r.of \notin Concerned(d) \/ r.status \notin {"pending", "paused", "failed"} => Old(r) = r
  BY DEF Rows, Replay, Outdated, TaskStatuses, Unended
<1>5. \A w \in Add : New(w) \in Replay /\ New(w).of = w /\ New(w).pair = PairAt(V, w) /\ New(w).status = "pending"
  BY <1>2 DEF Concerned, Replay, Rows, TaskStatuses, Unended
<1>6. \A r \in replays : r.pair[1] <= V[r.of[1]] /\ r.pair[2] <= V[r.of[2]]
  <2> SUFFICES ASSUME NEW r \in replays PROVE r.pair[1] <= V[r.of[1]] /\ r.pair[2] <= V[r.of[2]]
    OBVIOUS
  <2>1. r.pair[1] \in Nat /\ r.pair[2] \in Nat /\ r.of[1] \in Tables /\ r.of[2] \in Tables
    BY Numbers DEF Rows, Replay
  <2>2. /\ tableVersion[r.of[1]] \in Nat /\ tableVersion[r.of[2]] \in Nat
        /\ V[r.of[1]] \in Nat /\ V[r.of[2]] \in Nat
        /\ tableVersion[r.of[1]] <= V[r.of[1]] /\ tableVersion[r.of[2]] <= V[r.of[2]]
    BY <2>1, VersionMoves DEF Rows
  <2> QED
    BY <2>1, <2>2 DEF NotAhead
<1>7. \A w \in Add : w \in Reviews /\ \A r \in replays : <<r.of, r.pair>> # <<w, PairAt(V, w)>>
  BY DEF Concerned, SignatureOf
<1> HIDE DEF New, Add, Old
<1>8. replays' \subseteq Replay
  BY <1>1, <1>4, <1>5
<1>9. \A r \in replays' : r.pair[1] <= V[r.of[1]] /\ r.pair[2] <= V[r.of[2]]
  <2>1. \A w \in Add : New(w).pair[1] = V[w[1]] /\ New(w).pair[2] = V[w[2]] /\ V[w[1]] \in Nat /\ V[w[2]] \in Nat
    BY <1>2, <1>5, <1>7
  <2> QED
    BY <1>1, <1>4, <1>5, <1>6, <2>1
<1>10. OneReplayPerPair'
  <2> SUFFICES ASSUME NEW r \in replays', NEW s \in replays', r.of = s.of, r.pair = s.pair PROVE r = s
    BY DEF OneReplayPerPair, SignatureOf
  <2>1. CASE (\E x \in replays : r = Old(x)) /\ \E y \in replays : s = Old(y)
    BY <2>1, <1>4 DEF OneReplayPerPair, SignatureOf
  <2>2. CASE (\E x \in Add : r = New(x)) /\ \E y \in Add : s = New(y)
    BY <2>2, <1>5
  <2>3. CASE (\E x \in Add : r = New(x)) /\ \E y \in replays : s = Old(y)
    BY <2>3, <1>4, <1>5, <1>7
  <2>4. CASE (\E x \in replays : r = Old(x)) /\ \E y \in Add : s = New(y)
    BY <2>4, <1>4, <1>5, <1>7
  <2> QED
    BY <1>1, <2>1, <2>2, <2>3, <2>4
<1>11. \A r \in replays' : r.status = "succeeded" => r \in replays
  BY <1>1, <1>4, <1>5
<1>12. \A w \in Concerned(d) : \E r \in replays' : SignatureOf(r) = <<w, PairAt(V, w)>> /\ r.status = "pending"
  BY <1>1, <1>3, <1>5 DEF SignatureOf
<1>13. \A r \in replays : r.of \notin Concerned(d) \/ r.status \notin {"pending", "paused", "failed"} => r \in replays'
  BY <1>1, <1>4
<1> QED
  BY <1>8, <1>9, <1>10, <1>11, <1>12, <1>13

\* A table that is not made from d keeps its parents; d itself, when it is made anew, is made from all the current ones.
LEMMA OthersKeepParents ==
    ASSUME Rows, NEW d \in Tables, Activated(d), NEW t \in Derived, d \notin ParentsOf[t]
    PROVE  ParentsAt(tableVersion', t) = ParentsAt(tableVersion, t)
<1>1. \A p \in ParentsOf[t] : tableVersion'[p] = tableVersion[p]
  BY VersionMoves, Numbers
<1> QED
  BY <1>1 DEF ParentsAt

Remade(d) ==
    \/ basis' = basis
    \/ /\ DOMAIN basis' = Derived /\ basis'[d] = ParentsAt(tableVersion', d)
       /\ \A t \in Derived : t # d => basis'[t] = basis[t]

LEMMA MadeFromCurrent ==
    ASSUME Rows, NEW d \in Derived, Activated(d), Rebound(d)
    PROVE  Remade(d) /\ basis'[d] = ParentsAt(tableVersion', d)
<1>1. d \in Tables /\ d \notin ParentsOf[d]
  BY Numbers
<1>2. ParentsAt(tableVersion', d) = ParentsAt(tableVersion, d)
  BY <1>1, OthersKeepParents
<1> QED
  BY <1>2 DEF Rebound, Rows, Remade

\* Whoever makes the version, nothing is forgotten.
LEMMA VersionStep ==
    ASSUME QueueInv, NEW d \in Tables, Activated(d), UNCHANGED <<balances, declined>>,
           Remade(d), Holds'
    PROVE  QueueInv'
<1> USE DEF QueueInv
<1>1. /\ tasks \subseteq tasks' /\ tasks' \subseteq Event
      /\ \A e \in tasks' : e.at <= tableVersion'[e.source]
      /\ \A t \in Derived : d \in ParentsOf[t] => \E e \in tasks' : e.target = t /\ e.status = "pending"
  BY TasksEnqueued
<1>2. \A t \in Derived : d \notin ParentsOf[t] => ParentsAt(tableVersion', t) = ParentsAt(tableVersion, t)
  BY OthersKeepParents
<1>3. /\ DOMAIN basis' = Derived
      /\ \A t \in Derived : basis'[t] = basis[t] \/ basis'[t] = ParentsAt(tableVersion', t)
  BY DEF Remade, Rows
<1>4. Rows'
  BY <1>1, <1>3, VersionMoves, ReplaysEnqueued DEF Rows
<1>5. NotAhead'
  BY <1>1, ReplaysEnqueued DEF NotAhead
<1>7. NoTableForgotten'
  <2> SUFFICES ASSUME NEW t \in Derived
               PROVE  \/ ParentsAt(tableVersion', t) \in {basis'[t], declined[t]}
                      \/ \E e \in tasks' : e.target = t /\ e.status \in Unended
    BY DEF NoTableForgotten
  <2>1. CASE d \in ParentsOf[t]
    BY <2>1, <1>1 DEF Unended
  <2>2. CASE d \notin ParentsOf[t]
    <3>1. \/ ParentsAt(tableVersion, t) \in {basis[t], declined[t]}
          \/ \E e \in tasks : e.target = t /\ e.status \in Unended
      BY DEF NothingForgotten, NoTableForgotten
    <3> QED
      BY <2>2, <3>1, <1>1, <1>2, <1>3
  <2> QED
    BY <2>1, <2>2
<1>8. NoPairForgotten'
  <2> SUFFICES ASSUME NEW w \in Reviews, PairAt(tableVersion', w) # <<1, 1>>
               PROVE  \E r \in replays' : SignatureOf(r) = <<w, PairAt(tableVersion', w)>> /\ r.status # "stale"
    BY DEF NoPairForgotten
  <2>1. CASE w \in Concerned(d)
    BY <2>1, ReplaysEnqueued
  <2>2. CASE w \notin Concerned(d)
    <3>1. PairAt(tableVersion', w) = PairAt(tableVersion, w)
      BY <2>2, VersionMoves, Numbers DEF PairAt, Concerned
    <3>2. PICK r \in replays : SignatureOf(r) = <<w, PairAt(tableVersion, w)>> /\ r.status # "stale"
      BY <3>1 DEF NothingForgotten, NoPairForgotten
    <3>3. r.of = w
      BY <3>2 DEF SignatureOf
    <3> QED
      BY <2>2, <3>1, <3>2, <3>3, ReplaysEnqueued
  <2> QED
    BY <2>1, <2>2
<1>9. OneBalancePerPair'
  BY ReplaysEnqueued DEF NothingForgotten, OneBalancePerPair
<1> QED
  BY <1>4, <1>5, <1>7, <1>8, <1>9, ReplaysEnqueued DEF NothingForgotten

-----------------------------------------------------------------------------
(* The recompute queue *)

\* A step that only moves recompute events on.
LEMMA TaskStep ==
    ASSUME QueueInv, UNCHANGED <<tableVersion, basis, replays, balances, activations>>, DOMAIN declined' = Derived,
           tasks' \subseteq Event, \A e \in tasks' : \E f \in tasks : f.source = e.source /\ f.at = e.at,
           Holds', NoTableForgotten'
    PROVE  QueueInv'
<1> USE DEF QueueInv
<1>1. Rows' /\ NotAhead' /\ OneReplayPerPair'
  BY DEF Rows, NotAhead, OneReplayPerPair, SignatureOf
<1>2. NoPairForgotten' /\ OneBalancePerPair'
  BY DEF NothingForgotten, NoPairForgotten, OneBalancePerPair, SignatureOf, PairAt
<1> QED
  BY <1>1, <1>2 DEF NothingForgotten

\* A table keeps its place on the list when its events change among the states that count.
LEMMA PlacesKept ==
    ASSUME QueueInv, UNCHANGED <<tableVersion, basis>>,
           \A t \in Derived : declined'[t] = declined[t] \/ declined'[t] = ParentsAt(tableVersion, t),
           \A e \in tasks : e.status \in Unended =>
               \/ \E f \in tasks' : f.target = e.target /\ f.status \in Unended
               \/ ParentsAt(tableVersion, e.target) \in {basis[e.target], declined'[e.target]}
    PROVE  NoTableForgotten'
<1> SUFFICES ASSUME NEW t \in Derived
             PROVE  \/ ParentsAt(tableVersion, t) \in {basis[t], declined'[t]}
                    \/ \E e \in tasks' : e.target = t /\ e.status \in Unended
  BY DEF NoTableForgotten, ParentsAt
<1>1. \/ ParentsAt(tableVersion, t) \in {basis[t], declined[t]}
      \/ \E e \in tasks : e.target = t /\ e.status \in Unended
  BY DEF QueueInv, NothingForgotten, NoTableForgotten
<1> QED
  BY <1>1

LEMMA OneTask ==
    ASSUME Rows, NEW e \in tasks, NEW status \in TaskStatuses, NEW attempt \in Nat, tasks' = WithTask(e, status, attempt)
    PROVE  /\ tasks' \subseteq Event /\ \A f \in tasks' : \E g \in tasks : g.source = f.source /\ g.at = f.at
           /\ \E f \in tasks' : f.target = e.target /\ f.status = status
           /\ \A f \in tasks : f # e => f \in tasks'
<1> DEFINE E == [e EXCEPT !.status = status, !.attempt = attempt]
<1>1. E \in Event /\ E.source = e.source /\ E.at = e.at /\ E.target = e.target /\ E.status = status
  BY DEF Rows, Event
<1>2. tasks' = (tasks \ {e}) \cup {E}
  BY DEF WithTask
<1> HIDE DEF E
<1> QED
  BY <1>1, <1>2 DEF Rows

LEMMA TaskActions ==
    ASSUME QueueInv, NEW e \in tasks,
           \/ ClaimTask(e) \/ TaskMade(e) \/ FinishTask(e) \/ RetryTask(e) \/ CancelTask(e)
           \/ \E status \in {"paused", "failed"} : TaskStopped(e, status)
    PROVE  QueueInv'
<1> USE DEF QueueInv
<1>0. e \in Event /\ e.target \in Derived /\ e.target \in Tables /\ e.attempt \in Nat /\ TaskAttempts \in Nat
  BY Numbers, QueueAssumption DEF Rows, Event, QueueAssumption
<1>1. CASE ClaimTask(e)
  <2>1. tasks' = WithTask(e, "running", e.attempt + 1) /\ "running" \in TaskStatuses /\ e.attempt + 1 \in Nat
    BY <1>0, <1>1 DEF ClaimTask, TaskStatuses, Unended
  <2>2. Holds'
    BY <1>1 DEF ClaimTask, Holds
  <2>3. NoTableForgotten'
    BY <1>1, <2>1, OneTask, PlacesKept DEF ClaimTask, Unended
  <2> QED
    BY <1>1, <2>1, <2>2, <2>3, OneTask, TaskStep DEF ClaimTask, Rows
<1>2. CASE TaskMade(e)
  <2>1. Activated(e.target) /\ Rebound(e.target) /\ UNCHANGED <<balances, declined>>
    BY <1>2 DEF TaskMade
  <2>2. Remade(e.target) /\ basis'[e.target] = ParentsAt(tableVersion', e.target)
    BY <1>0, <2>1, MadeFromCurrent
  <2>3. Holds'
    BY <1>2, <2>2 DEF TaskMade, AtWork, KeyOf, Holds
  <2> QED
    BY <1>0, <2>1, <2>2, <2>3, VersionStep
<1>3. CASE FinishTask(e)
  <2>1. PICK status \in {"succeeded", "paused", "failed"} : InHand(e, status) /\ tasks' = WithTask(e, status, e.attempt)
    BY <1>3 DEF FinishTask
  <2>2. status \in TaskStatuses
    BY <2>1 DEF TaskStatuses, Unended
  <2>3. status = "succeeded" => basis[e.target] = ParentsAt(tableVersion, e.target)
    BY <2>1 DEF InHand, Holds, KeyOf
  <2>4. NoTableForgotten'
    BY <1>0, <1>3, <2>1, <2>2, <2>3, OneTask, PlacesKept DEF FinishTask, Unended
  <2>5. Holds'
    BY <1>3 DEF FinishTask, Holds, NoWork
  <2> QED
    BY <1>0, <1>3, <2>1, <2>2, <2>4, <2>5, OneTask, TaskStep DEF FinishTask, Rows
<1>4. CASE RetryTask(e)
  <2> DEFINE E    == [e EXCEPT !.status = "pending"]
             M(f) == IF f.target = e.target /\ f # e /\ f.status = "pending" THEN [f EXCEPT !.status = "merged"] ELSE f
  <2>1. tasks' = ({M(f) : f \in tasks} \ {e}) \cup {E}
    BY <1>4 DEF RetryTask, Merged
  <2>2. E \in Event /\ E.source = e.source /\ E.at = e.at /\ E.target = e.target /\ E.status = "pending"
    BY <1>0 DEF Event, TaskStatuses, Unended
  <2>3. \A f \in tasks : M(f) \in Event /\ M(f).source = f.source /\ M(f).at = f.at
    BY DEF Rows, Event, TaskStatuses
  <2>4. \A f \in tasks : f.target # e.target => M(f) = f /\ f # e
    OBVIOUS
  <2> HIDE DEF E, M
  <2>5. \A f \in tasks : \E g \in tasks' : g.target = f.target /\ (f.status \in Unended => g.status \in Unended)
    BY <2>1, <2>2, <2>4 DEF Unended
  <2>6. NoTableForgotten'
    BY <1>4, <2>5, PlacesKept DEF RetryTask
  <2>7. Holds'
    BY <1>4 DEF RetryTask, Holds, NoWork
  <2>8. tasks' \subseteq Event /\ \A f \in tasks' : \E g \in tasks : g.source = f.source /\ g.at = f.at
    BY <2>1, <2>2, <2>3
  <2> QED
    BY <1>4, <2>6, <2>7, <2>8, TaskStep DEF RetryTask, Rows
<1>5. CASE CancelTask(e)
  <2>1. tasks' = WithTask(e, "cancelled", e.attempt) /\ "cancelled" \in TaskStatuses
    BY <1>5 DEF CancelTask, TaskStatuses
  <2>2. DOMAIN declined' = Derived /\ declined'[e.target] = ParentsAt(tableVersion, e.target)
        /\ \A t \in Derived : t # e.target => declined'[t] = declined[t]
    BY <1>0, <1>5 DEF CancelTask, Rows
  <2>3. NoTableForgotten'
    BY <1>0, <1>5, <2>1, <2>2, OneTask, PlacesKept DEF CancelTask
  <2>4. Holds'
    BY <1>5 DEF CancelTask, Holds, NoWork
  <2> QED
    BY <1>0, <1>5, <2>1, <2>2, <2>3, <2>4, OneTask, TaskStep DEF CancelTask
<1>6. CASE \E status \in {"paused", "failed"} : TaskStopped(e, status)
  <2>1. UNCHANGED <<tableVersion, basis, tasks, replays, balances, activations, declined>>
    BY <1>6 DEF TaskStopped
  <2>2. Holds'
    BY <1>6 DEF TaskStopped, AtWork, Holds
  <2>3. NoTableForgotten'
    BY <2>1, PlacesKept
  <2> QED
    BY <2>1, <2>2, <2>3, TaskStep DEF Rows
<1> QED
  BY <1>1, <1>2, <1>3, <1>4, <1>5, <1>6

-----------------------------------------------------------------------------
(* The replay queue *)

LEMMA OneReplay ==
    ASSUME Rows, OneReplayPerPair, NEW r \in replays, NEW status \in TaskStatuses, NEW attempt \in Nat,
           replays' = WithReplay(r, status, attempt)
    PROVE  /\ replays' \subseteq Replay /\ OneReplayPerPair'
           /\ \A s \in replays : s # r => s \in replays'
           /\ \E s \in replays' : s.of = r.of /\ s.pair = r.pair /\ s.status = status
           /\ \A s \in replays' : (s \in replays /\ s # r) \/ (s.of = r.of /\ s.pair = r.pair /\ s.status = status)
<1> DEFINE R == [r EXCEPT !.status = status, !.attempt = attempt]
<1>1. R \in Replay /\ R.of = r.of /\ R.pair = r.pair /\ R.status = status
  BY DEF Rows, Replay
<1>2. replays' = (replays \ {r}) \cup {R}
  BY DEF WithReplay
<1> HIDE DEF R
<1>3. OneReplayPerPair'
  BY <1>1, <1>2 DEF OneReplayPerPair, SignatureOf
<1> QED
  BY <1>1, <1>2, <1>3 DEF Rows

\* A step that moves one replay on, and makes its artifact exactly when it succeeds.
LEMMA ReplayStep ==
    ASSUME QueueInv, NEW r \in replays, NEW status \in TaskStatuses, NEW attempt \in Nat,
           replays' = WithReplay(r, status, attempt), ReplayOnly, Holds', r.status # "succeeded",
           status = "stale" => r.pair # PairAt(tableVersion, r.of),
           status # "succeeded" => balances' = balances,
           status = "succeeded" => \E n \in Nat : balances' = balances \cup {[of |-> r.of, pair |-> r.pair, attempt |-> n]}
    PROVE  QueueInv'
<1> USE DEF QueueInv, ReplayOnly
<1>1. /\ replays' \subseteq Replay /\ OneReplayPerPair'
      /\ \A s \in replays : s # r => s \in replays'
      /\ \E s \in replays' : s.of = r.of /\ s.pair = r.pair /\ s.status = status
      /\ \A s \in replays' : (s \in replays /\ s # r) \/ (s.of = r.of /\ s.pair = r.pair /\ s.status = status)
  BY OneReplay
<1>2. r.of \in Reviews /\ r.pair \in Nat \X Nat
  BY DEF Rows, Replay
<1>3. Rows'
  BY <1>1, <1>2 DEF Rows
<1>4. NotAhead'
  BY <1>1 DEF NotAhead
<1>5. NoTableForgotten'
  BY DEF NothingForgotten, NoTableForgotten, ParentsAt
<1>6. NoPairForgotten'
  <2> SUFFICES ASSUME NEW w \in Reviews, PairAt(tableVersion, w) # <<1, 1>>
               PROVE  \E s \in replays' : s.of = w /\ s.pair = PairAt(tableVersion, w) /\ s.status # "stale"
    BY DEF NoPairForgotten, PairAt, SignatureOf
  <2>1. PICK s \in replays : SignatureOf(s) = <<w, PairAt(tableVersion, w)>> /\ s.status # "stale"
    BY DEF NothingForgotten, NoPairForgotten
  <2>2. s.of = w /\ s.pair = PairAt(tableVersion, w)
    BY <2>1 DEF SignatureOf
  <2> QED
    BY <1>1, <2>1, <2>2
<1>7. \A b \in balances : \E s \in replays : s.of = b.of /\ s.pair = b.pair /\ s.status = "succeeded"
  BY DEF NothingForgotten, OneBalancePerPair, SignatureOf
<1>8. \A s \in replays : s.status = "succeeded" => \E b \in balances : b.of = s.of /\ b.pair = s.pair
  BY DEF NothingForgotten, OneBalancePerPair, SignatureOf
<1>9. \A s \in replays : s.of = r.of /\ s.pair = r.pair => s = r
  BY DEF OneReplayPerPair, SignatureOf
<1>10. OneBalancePerPair'
  <2>1. CASE status # "succeeded"
    <3>1. \A b \in balances' : \E s \in replays' : s.of = b.of /\ s.pair = b.pair /\ s.status = "succeeded"
      BY <2>1, <1>1, <1>7
    <3>2. \A s \in replays' : s.status = "succeeded" => \E b \in balances' : b.of = s.of /\ b.pair = s.pair
      BY <2>1, <1>1, <1>8
    <3> QED
      BY <2>1, <3>1, <3>2 DEF NothingForgotten, OneBalancePerPair, SignatureOf
  <2>2. CASE status = "succeeded"
    <3>1. PICK n \in Nat : balances' = balances \cup {[of |-> r.of, pair |-> r.pair, attempt |-> n]}
      BY <2>2
    <3> DEFINE B == [of |-> r.of, pair |-> r.pair, attempt |-> n]
    <3>2. B.of = r.of /\ B.pair = r.pair /\ balances' = balances \cup {B}
      BY <3>1
    <3> HIDE DEF B
    <3>3. \A b \in balances : ~(b.of = r.of /\ b.pair = r.pair)
      BY <1>7, <1>9
    <3>4. \A b, c \in balances' : b.of = c.of /\ b.pair = c.pair => b = c
      BY <3>2, <3>3 DEF NothingForgotten, OneBalancePerPair
    <3>5. \A b \in balances' : \E s \in replays' : s.of = b.of /\ s.pair = b.pair /\ s.status = "succeeded"
      BY <2>2, <3>2, <1>1, <1>7
    <3>6. \A s \in replays' : s.status = "succeeded" => \E b \in balances' : b.of = s.of /\ b.pair = s.pair
      BY <3>2, <1>1, <1>8
    <3> QED
      BY <3>4, <3>5, <3>6 DEF OneBalancePerPair, SignatureOf
  <2> QED
    BY <2>1, <2>2
<1> QED
  BY <1>1, <1>3, <1>4, <1>5, <1>6, <1>10 DEF NothingForgotten

LEMMA ReplayActions ==
    ASSUME QueueInv, NEW r \in replays,
           ClaimReplay(r) \/ RefuseReplay(r) \/ KeepReplay(r) \/ RetryReplay(r) \/ CancelReplay(r)
    PROVE  QueueInv'
<1>0. r.attempt \in Nat /\ r.attempt + 1 \in Nat
  BY DEF QueueInv, Rows, Replay
<1>r. Replaying(r) => r.status = "running"
  BY DEF QueueInv, Holds, Replaying
<1>1. CASE ClaimReplay(r)
  <2>1. replays' = WithReplay(r, "running", r.attempt + 1) /\ "running" \in TaskStatuses
    BY <1>1 DEF ClaimReplay, TaskStatuses, Unended
  <2>2. \A s \in replays' : (s \in replays /\ s # r) \/ (s.of = r.of /\ s.pair = r.pair /\ s.status = "running")
    BY <1>0, <2>1, OneReplay DEF QueueInv
  <2>3. Holds'
    BY <1>1, <2>2 DEF ClaimReplay, Holds, QueueInv, OneReplayPerPair, SignatureOf
  <2> QED
    BY <1>0, <1>1, <2>1, <2>3, ReplayStep DEF ClaimReplay
<1>2. CASE RefuseReplay(r)
  <2>1. PICK status \in Refusals(r) : replays' = WithReplay(r, status, r.attempt)
    BY <1>2 DEF RefuseReplay
  <2>2. /\ status \in TaskStatuses /\ status # "succeeded"
        /\ status = "stale" => r.pair # PairAt(tableVersion, r.of)
    BY DEF Refusals, TaskStatuses, Unended
  <2>3. Holds'
    BY <1>2 DEF RefuseReplay, Holds, NoWork
  <2> QED
    BY <1>0, <1>r, <1>2, <2>1, <2>2, <2>3, ReplayStep DEF RefuseReplay
<1>3. CASE KeepReplay(r)
  <2>1. Holds'
    BY <1>3 DEF KeepReplay, Holds, NoWork
  <2>2. balances' = balances \cup {[of |-> r.of, pair |-> r.pair, attempt |-> r.attempt]}
    BY <1>3 DEF KeepReplay
  <2>3. "succeeded" \in TaskStatuses
    BY DEF TaskStatuses
  <2> QED
    BY <1>0, <1>r, <1>3, <2>1, <2>2, <2>3, ReplayStep DEF KeepReplay
<1>4. CASE RetryReplay(r)
  <2>1. Holds'
    BY <1>4 DEF RetryReplay, Holds, NoWork
  <2>2. "pending" \in TaskStatuses
    BY DEF TaskStatuses, Unended
  <2> QED
    BY <1>0, <1>4, <2>1, <2>2, ReplayStep DEF RetryReplay
<1>5. CASE CancelReplay(r)
  <2>1. Holds'
    BY <1>5 DEF CancelReplay, Holds, NoWork
  <2>2. "cancelled" \in TaskStatuses
    BY DEF TaskStatuses
  <2> QED
    BY <1>0, <1>5, <2>1, <2>2, ReplayStep DEF CancelReplay
<1> QED
  BY <1>1, <1>2, <1>3, <1>4, <1>5

-----------------------------------------------------------------------------
(* New versions, failures, and the theorem *)

LEMMA NewVersions == ASSUME QueueInv, NewVersion PROVE QueueInv'
<1>1. ASSUME NEW d \in Tables, Replace(d) PROVE QueueInv'
  <2>1. Activated(d) /\ UNCHANGED <<balances, declined>>
    BY <1>1 DEF Replace
  <2>2. Remade(d)
    BY <1>1 DEF Replace, Remade
  <2>3. Holds'
    BY <1>1 DEF Replace, Holds, NoWork
  <2> QED
    BY <2>1, <2>2, <2>3, VersionStep
<1>2. ASSUME NEW t \in Derived, Recompute(t) PROVE QueueInv'
  <2>1. t \in Tables /\ Activated(t) /\ UNCHANGED <<balances, declined>> /\ Rebound(t)
    BY <1>2, Numbers DEF Recompute
  <2>2. Remade(t)
    BY <2>1, MadeFromCurrent DEF QueueInv
  <2>3. Holds'
    BY <1>2 DEF Recompute, Holds, NoWork
  <2> QED
    BY <2>1, <2>2, <2>3, VersionStep
<1> QED
  BY <1>1, <1>2 DEF NewVersion

\* A request that is cut off leaves everything as it is but the worker.
LEMMA Idle ==
    ASSUME QueueInv, worker' = NoWork \/ worker' = worker,
           UNCHANGED <<tableVersion, basis, tasks, replays, balances, activations, declined>>
    PROVE  QueueInv'
<1> USE DEF QueueInv
<1>1. Rows' /\ NotAhead' /\ OneReplayPerPair'
  BY DEF Rows, NotAhead, OneReplayPerPair, SignatureOf
<1>2. Holds'
  BY DEF Holds, NoWork, SignatureOf, ParentsAt
<1>3. NoTableForgotten'
  BY DEF NothingForgotten, NoTableForgotten, ParentsAt
<1>4. NoPairForgotten' /\ OneBalancePerPair'
  BY DEF NothingForgotten, NoPairForgotten, OneBalancePerPair, SignatureOf, PairAt
<1> QED
  BY <1>1, <1>2, <1>3, <1>4 DEF NothingForgotten

LEMMA Restarted == ASSUME QueueInv, RestartQueues PROVE QueueInv'
<1> DEFINE T(e) == IF e.status = "running" THEN [e EXCEPT !.status = "pending"] ELSE e
           R(r) == RecoveredReplay(r)
<1>1. tasks' = {T(e) : e \in tasks} /\ replays' = {R(r) : r \in replays} /\ worker' = NoWork
  BY DEF RestartQueues
<1>2. UNCHANGED <<tableVersion, basis, balances, activations, declined>>
  BY DEF RestartQueues
<1>3. \A e \in tasks : /\ T(e) \in Event /\ T(e).source = e.source /\ T(e).at = e.at /\ T(e).target = e.target
                       /\ e.status \in Unended => T(e).status \in Unended
  BY DEF QueueInv, Rows, Event, TaskStatuses, Unended
<1>4. \A r \in replays : /\ R(r) \in Replay /\ R(r).of = r.of /\ R(r).pair = r.pair
                         /\ r.status # "stale" => R(r).status # "stale"
                         /\ r.status = "succeeded" <=> R(r).status = "succeeded"
  BY DEF QueueInv, Rows, Replay, TaskStatuses, Unended, RecoveredReplay
<1> HIDE DEF T, R
<1>5. Rows'
  BY <1>1, <1>2, <1>3, <1>4 DEF QueueInv, Rows
<1>6. NotAhead'
  BY <1>1, <1>2, <1>3, <1>4 DEF QueueInv, NotAhead
<1>7. OneReplayPerPair'
  BY <1>1, <1>4 DEF QueueInv, OneReplayPerPair, SignatureOf
<1>8. Holds'
  BY <1>1 DEF Holds, NoWork
<1>9. NoTableForgotten'
  BY <1>1, <1>2, <1>3, PlacesKept
<1>10. NoPairForgotten'
  <2> SUFFICES ASSUME NEW w \in Reviews, PairAt(tableVersion, w) # <<1, 1>>
               PROVE  \E s \in replays' : s.of = w /\ s.pair = PairAt(tableVersion, w) /\ s.status # "stale"
    BY <1>2 DEF NoPairForgotten, PairAt, SignatureOf
  <2>1. PICK s \in replays : SignatureOf(s) = <<w, PairAt(tableVersion, w)>> /\ s.status # "stale"
    BY DEF QueueInv, NothingForgotten, NoPairForgotten
  <2>2. R(s) \in replays' /\ s.of = w /\ s.pair = PairAt(tableVersion, w)
    BY <1>1, <2>1 DEF SignatureOf
  <2> QED
    BY <1>4, <2>1, <2>2
<1>11. OneBalancePerPair'
  <2>1. \A b \in balances : \E s \in replays : s.of = b.of /\ s.pair = b.pair /\ s.status = "succeeded"
    BY DEF QueueInv, NothingForgotten, OneBalancePerPair, SignatureOf
  <2>2. \A s \in replays : s.status = "succeeded" => \E b \in balances : b.of = s.of /\ b.pair = s.pair
    BY DEF QueueInv, NothingForgotten, OneBalancePerPair, SignatureOf
  <2>3. \A b \in balances' : \E s \in replays' : s.of = b.of /\ s.pair = b.pair /\ s.status = "succeeded"
    BY <1>1, <1>2, <1>4, <2>1
  <2>4. \A s \in replays' : s.status = "succeeded" => \E b \in balances' : b.of = s.of /\ b.pair = s.pair
    BY <1>1, <1>2, <1>4, <2>2
  <2> QED
    BY <1>2, <2>3, <2>4 DEF QueueInv, NothingForgotten, OneBalancePerPair, SignatureOf
<1> QED
  BY <1>5, <1>6, <1>7, <1>8, <1>9, <1>10, <1>11 DEF QueueInv, NothingForgotten

LEMMA QueueInitially == QueueInit => QueueInv
<1> SUFFICES ASSUME QueueInit PROVE QueueInv
  OBVIOUS
<1>1. Rows
  BY DEF QueueInit, Rows
<1>2. NotAhead /\ OneReplayPerPair /\ Holds
  BY DEF QueueInit, NotAhead, OneReplayPerPair, Holds, NoWork
<1>3. NoTableForgotten
  BY DEF QueueInit, NoTableForgotten
<1>4. NoPairForgotten
  BY Numbers DEF QueueInit, NoPairForgotten, PairAt
<1>5. OneBalancePerPair
  BY DEF QueueInit, OneBalancePerPair
<1> QED
  BY <1>1, <1>2, <1>3, <1>4, <1>5 DEF QueueInv, NothingForgotten

LEMMA QueueStep == QueueInv /\ [QueueNext]_queueVars => QueueInv'
<1> SUFFICES ASSUME QueueInv, [QueueNext]_queueVars PROVE QueueInv'
  OBVIOUS
<1>1. CASE NewVersion
  BY <1>1, NewVersions
<1>2. CASE Interrupt
  BY <1>2, Idle DEF Interrupt
<1>3. CASE RestartQueues
  BY <1>3, Restarted
<1>4. ASSUME NEW e \in tasks,
             \/ ClaimTask(e) \/ TaskMade(e) \/ FinishTask(e) \/ RetryTask(e) \/ CancelTask(e)
             \/ \E status \in {"paused", "failed"} : TaskStopped(e, status)
      PROVE  QueueInv'
  BY <1>4, TaskActions
<1>5. ASSUME NEW r \in replays,
             ClaimReplay(r) \/ RefuseReplay(r) \/ KeepReplay(r) \/ RetryReplay(r) \/ CancelReplay(r)
      PROVE  QueueInv'
  BY <1>5, ReplayActions
<1>6. CASE UNCHANGED queueVars
  BY <1>6, Idle DEF queueVars
<1> QED
  BY <1>1, <1>2, <1>3, <1>4, <1>5, <1>6 DEF QueueNext, TaskNext, ReplayNext

\* However new versions, retries, cancellations, cut-off requests and restarts follow one
\* another, both queues keep what a new version calls for: for any number of tables and
\* reconciliations.
THEOREM QueuesRemember == QueueSpec => []NothingForgotten
<1>1. QueueInv => NothingForgotten
  BY DEF QueueInv
<1> QED
  BY <1>1, QueueInitially, QueueStep, PTL DEF QueueSpec

-----------------------------------------------------------------------------
(* The types and limits of RecomputeQueues *)

\* Events and replays keep to their statuses and attempts, and no two events have one key.
TasksTyped(S) ==
    /\ \A e \in S : /\ e.status \in TaskStatuses /\ e.attempt \in 0..TaskAttempts
                    /\ e.target \in Derived /\ e.source \in ParentsOf[e.target]
    /\ \A e, f \in S : e.source = f.source /\ e.at = f.at /\ e.target = f.target => e = f
ReplaysTyped(S) ==
    \A r \in S : /\ r.status \in TaskStatuses /\ r.attempt \in 0..TaskAttempts
                 /\ r.status = "pending" => r.attempt < TaskAttempts
\* A table has at most one version more than there were activations; what it was made from are versions.
VersionsTyped ==
    /\ activations \in 0..MaxActivations /\ \A t \in Tables : tableVersion[t] \in 1..(activations + 1)
    /\ \A t \in Derived : basis[t] \in [ParentsOf[t] -> Nat] /\ declined[t] \in [ParentsOf[t] -> Nat]
QueueBounds ==
    VersionsTyped /\ TasksTyped(tasks) /\ ReplaysTyped(replays) /\ worker.queue \in {"none", "tasks", "replays"}

LEMMA ParentsTyped ==
    ASSUME NEW v \in [Tables -> Nat], NEW t \in Derived
    PROVE  ParentsAt(v, t) \in [ParentsOf[t] -> Nat]
<1>1. ParentsOf[t] \subseteq Tables
  BY Numbers
<1> QED BY <1>1 DEF ParentsAt

LEMMA ActivatedTyped ==
    ASSUME QueueInv, QueueBounds, NEW d \in Tables, Activated(d), UNCHANGED declined,
           basis' = basis \/ \E t \in Derived : Rebound(t), worker'.queue \in {"none", "tasks", "replays"}
    PROVE  QueueBounds'
<1>0. Rows /\ NotAhead /\ TaskAttempts \in Nat \ {0} /\ MaxActivations \in Nat
  BY QueueAssumption DEF QueueInv
<1>v. tableVersion \in [Tables -> Nat]
  BY <1>0 DEF Rows
<1>1. VersionsTyped'
  <2>1. activations' = activations + 1 /\ activations < MaxActivations /\ activations \in 0..MaxActivations
    BY DEF Activated, QueueBounds, VersionsTyped
  <2>2. \A t \in Tables : tableVersion'[t] \in 1..(activations' + 1)
    <3> SUFFICES ASSUME NEW t \in Tables PROVE tableVersion'[t] \in 1..(activations' + 1)
      OBVIOUS
    <3>1. tableVersion[t] \in 1..(activations + 1)
      BY DEF QueueBounds, VersionsTyped
    <3>2. tableVersion'[t] = tableVersion[t] \/ tableVersion'[t] = tableVersion[t] + 1
      BY <1>0, VersionMoves
    <3> QED BY <2>1, <3>1, <3>2
  <2>3. \A t \in Derived : basis'[t] \in [ParentsOf[t] -> Nat]
    <3>1. \A t \in Derived : basis[t] \in [ParentsOf[t] -> Nat]
      BY DEF QueueBounds, VersionsTyped
    <3>2. ASSUME NEW t \in Derived, Rebound(t), NEW u \in Derived PROVE basis'[u] \in [ParentsOf[u] -> Nat]
      <4>1. basis'[u] = IF u = t THEN ParentsAt(tableVersion, t) ELSE basis[u]
        BY <1>0, <3>2 DEF Rebound, Rows
      <4>2. ParentsAt(tableVersion, t) \in [ParentsOf[t] -> Nat]
        BY <1>v, ParentsTyped
      <4> QED BY <3>1, <4>1, <4>2
    <3> QED BY <3>1, <3>2
  <2> QED BY <1>0, <2>1, <2>2, <2>3 DEF QueueBounds, VersionsTyped
<1>2. TasksTyped(tasks')
  <2> DEFINE New(t) == [source |-> d, at |-> tableVersion'[d], target |-> t, status |-> "pending",
                        attempt |-> 0, born |-> activations]
             Add    == {u \in Dependents(d) : <<d, tableVersion'[d], u>> \notin {KeyOf(e) : e \in tasks}}
  <2>1. tasks' = tasks \cup {New(t) : t \in Add}
    BY <1>0, VersionMoves DEF Enqueued
  <2>2. \A t \in Add : /\ New(t).status \in TaskStatuses /\ New(t).attempt \in 0..TaskAttempts
                       /\ New(t).target = t /\ t \in Derived /\ New(t).source = d /\ New(t).at = tableVersion'[d]
                       /\ d \in ParentsOf[t]
    BY <1>0 DEF Dependents, TaskStatuses, Unended
  <2>3. \A e \in tasks : \A t \in Add : ~(e.source = d /\ e.at = tableVersion'[d] /\ e.target = t)
    BY DEF KeyOf
  <2>4. TasksTyped(tasks)
    BY DEF QueueBounds
  <2> HIDE DEF New, Add
  <2>5. \A e \in tasks' : /\ e.status \in TaskStatuses /\ e.attempt \in 0..TaskAttempts
                          /\ e.target \in Derived /\ e.source \in ParentsOf[e.target]
    BY <2>1, <2>2, <2>4 DEF TasksTyped
  <2>6. ASSUME NEW e \in tasks', NEW f \in tasks', e.source = f.source, e.at = f.at, e.target = f.target
        PROVE  e = f
    <3>1. CASE e \in tasks /\ f \in tasks
      BY <2>4, <2>6, <3>1 DEF TasksTyped
    <3>2. ASSUME NEW t \in Add, e = New(t) PROVE e = f
      <4>1. f \notin tasks
        BY <2>2, <2>3, <2>6, <3>2
      <4>2. PICK u \in Add : f = New(u)
        BY <2>1, <4>1
      <4> QED BY <2>2, <2>6, <3>2, <4>2
    <3>3. ASSUME NEW t \in Add, f = New(t) PROVE e = f
      <4>1. e \notin tasks
        BY <2>2, <2>3, <2>6, <3>3
      <4>2. PICK u \in Add : e = New(u)
        BY <2>1, <4>1
      <4> QED BY <2>2, <2>6, <3>3, <4>2
    <3> QED BY <2>1, <3>1, <3>2, <3>3
  <2> QED BY <2>5, <2>6 DEF TasksTyped
<1>3. ReplaysTyped(replays')
  <2> DEFINE V      == tableVersion'
             New(w) == [of |-> w, pair |-> PairAt(V, w), status |-> "pending", attempt |-> 0, born |-> activations]
             Add    == {w \in Concerned(d) : <<w, PairAt(V, w)>> \notin {SignatureOf(r) : r \in replays}}
             Old(r) == IF Outdated(r, d, V) THEN [r EXCEPT !.status = "stale"] ELSE r
  <2>1. replays' = {Old(r) : r \in replays} \cup {New(w) : w \in Add}
    BY <1>0, VersionMoves DEF Replayed
  <2>2. \A w \in Add : New(w).status \in TaskStatuses /\ New(w).attempt \in 0..TaskAttempts /\ New(w).attempt < TaskAttempts
    BY <1>0 DEF TaskStatuses, Unended
  <2>3. \A r \in replays : /\ Old(r).status \in TaskStatuses /\ Old(r).attempt = r.attempt
                           /\ Old(r).status = "pending" => r.status = "pending"
    BY <1>0 DEF Rows, Replay, TaskStatuses
  <2>4. ReplaysTyped(replays)
    BY DEF QueueBounds
  <2> HIDE DEF New, Add, Old
  <2> QED BY <2>1, <2>2, <2>3, <2>4 DEF ReplaysTyped
<1> QED BY <1>1, <1>2, <1>3 DEF QueueBounds

LEMMA OneTaskTyped ==
    ASSUME Rows, TasksTyped(tasks), NEW e \in tasks, NEW status \in TaskStatuses, NEW attempt \in 0..TaskAttempts,
           tasks' = WithTask(e, status, attempt)
    PROVE  TasksTyped(tasks')
<1> DEFINE E == [e EXCEPT !.status = status, !.attempt = attempt]
<1>1. E.source = e.source /\ E.at = e.at /\ E.target = e.target /\ E.status = status /\ E.attempt = attempt
  BY DEF Rows, Event
<1>2. tasks' = (tasks \ {e}) \cup {E}
  BY DEF WithTask
<1> HIDE DEF E
<1> QED BY <1>1, <1>2 DEF TasksTyped

LEMMA OneReplayTyped ==
    ASSUME Rows, ReplaysTyped(replays), NEW r \in replays, NEW status \in TaskStatuses, NEW attempt \in 0..TaskAttempts,
           status = "pending" => attempt < TaskAttempts, replays' = WithReplay(r, status, attempt)
    PROVE  ReplaysTyped(replays')
<1> DEFINE R == [r EXCEPT !.status = status, !.attempt = attempt]
<1>1. R.status = status /\ R.attempt = attempt
  BY DEF Rows, Replay
<1>2. replays' = (replays \ {r}) \cup {R}
  BY DEF WithReplay
<1> HIDE DEF R
<1> QED BY <1>1, <1>2 DEF ReplaysTyped

LEMMA TaskActionsTyped ==
    ASSUME QueueInv, QueueBounds, NEW e \in tasks,
           \/ ClaimTask(e) \/ TaskMade(e) \/ FinishTask(e) \/ RetryTask(e) \/ CancelTask(e)
           \/ \E status \in {"paused", "failed"} : TaskStopped(e, status)
    PROVE  QueueBounds'
<1>0. /\ e \in Event /\ e.target \in Derived /\ e.target \in Tables /\ e.attempt \in 0..TaskAttempts
      /\ TaskAttempts \in Nat \ {0} /\ Rows /\ TasksTyped(tasks) /\ ReplaysTyped(replays) /\ VersionsTyped
      /\ tableVersion \in [Tables -> Nat]
      /\ {"running", "succeeded", "paused", "failed", "cancelled"} \subseteq TaskStatuses
  BY Numbers, QueueAssumption DEF QueueInv, Rows, Event, QueueBounds, TasksTyped, TaskStatuses, Unended
<1>1. CASE TaskMade(e)
  <2>1. Activated(e.target) /\ Rebound(e.target) /\ UNCHANGED declined /\ worker'.queue = "tasks"
    BY <1>1 DEF TaskMade, AtWork
  <2> QED BY <1>0, <2>1, ActivatedTyped
<1>2. CASE RetryTask(e)
  <2> DEFINE E    == [e EXCEPT !.status = "pending"]
             M(f) == IF f.target = e.target /\ f # e /\ f.status = "pending" THEN [f EXCEPT !.status = "merged"] ELSE f
  <2>1. tasks' = ({M(f) : f \in tasks} \ {e}) \cup {E} /\ M(e) = e
    BY <1>2 DEF RetryTask, Merged
  <2>2. E.source = e.source /\ E.at = e.at /\ E.target = e.target /\ E.status \in TaskStatuses /\ E.attempt = e.attempt
    BY <1>0 DEF Event, TaskStatuses, Unended
  <2>3. \A f \in tasks : /\ M(f).source = f.source /\ M(f).at = f.at /\ M(f).target = f.target
                         /\ M(f).attempt = f.attempt /\ M(f).status \in TaskStatuses
    BY <1>0 DEF Rows, Event, TaskStatuses
  <2> HIDE DEF E, M
  <2>4. TasksTyped(tasks')
    <3>1. \A x \in tasks' : /\ x.status \in TaskStatuses /\ x.attempt \in 0..TaskAttempts
                            /\ x.target \in Derived /\ x.source \in ParentsOf[x.target]
      BY <1>0, <2>1, <2>2, <2>3 DEF TasksTyped
    <3>2. ASSUME NEW x \in tasks', NEW y \in tasks', x.source = y.source, x.at = y.at, x.target = y.target
          PROVE  x = y
      <4>1. \A f \in tasks : M(f).source = e.source /\ M(f).at = e.at /\ M(f).target = e.target => M(f) = e
        BY <1>0, <2>1, <2>3 DEF TasksTyped
      <4>2. \A f, g \in tasks : M(f).source = M(g).source /\ M(f).at = M(g).at /\ M(f).target = M(g).target => f = g
        BY <1>0, <2>3 DEF TasksTyped
      <4>3. CASE x = E
        BY <2>1, <2>2, <3>2, <4>1, <4>3
      <4>4. CASE y = E
        BY <2>1, <2>2, <3>2, <4>1, <4>4
      <4>5. CASE x # E /\ y # E
        BY <2>1, <3>2, <4>2, <4>5
      <4> QED BY <4>3, <4>4, <4>5
    <3> QED BY <3>1, <3>2 DEF TasksTyped
  <2> QED BY <1>0, <1>2, <2>4 DEF RetryTask, QueueBounds, VersionsTyped
<1>3. CASE CancelTask(e)
  <2>1. TasksTyped(tasks')
    BY <1>0, <1>3, OneTaskTyped DEF CancelTask
  <2>2. \A t \in Derived : declined'[t] \in [ParentsOf[t] -> Nat]
    <3> SUFFICES ASSUME NEW t \in Derived PROVE declined'[t] \in [ParentsOf[t] -> Nat]
      OBVIOUS
    <3>1. declined'[t] = IF t = e.target THEN ParentsAt(tableVersion, t) ELSE declined[t]
      BY <1>0, <1>3 DEF CancelTask, Rows
    <3>2. ParentsAt(tableVersion, t) \in [ParentsOf[t] -> Nat]
      BY <1>0, ParentsTyped
    <3> QED BY <1>0, <3>1, <3>2 DEF VersionsTyped
  <2> QED BY <1>0, <1>3, <2>1, <2>2 DEF CancelTask, QueueBounds, VersionsTyped
<1>4. CASE ClaimTask(e)
  <2>1. tasks' = WithTask(e, "running", e.attempt + 1) /\ e.attempt + 1 \in 0..TaskAttempts
    BY <1>0, <1>4 DEF ClaimTask, Claimable
  <2>2. TasksTyped(tasks')
    BY <1>0, <2>1, OneTaskTyped
  <2> QED BY <1>0, <1>4, <2>2 DEF ClaimTask, QueueBounds, VersionsTyped
<1>5. CASE FinishTask(e)
  <2>1. PICK status \in {"succeeded", "paused", "failed"} : tasks' = WithTask(e, status, e.attempt)
    BY <1>5 DEF FinishTask
  <2>2. TasksTyped(tasks')
    BY <1>0, <2>1, OneTaskTyped
  <2> QED BY <1>0, <1>5, <2>2 DEF FinishTask, NoWork, QueueBounds, VersionsTyped
<1>6. CASE \E status \in {"paused", "failed"} : TaskStopped(e, status)
  BY <1>0, <1>6 DEF TaskStopped, AtWork, QueueBounds, VersionsTyped
<1> QED BY <1>1, <1>2, <1>3, <1>4, <1>5, <1>6

LEMMA ReplayActionsTyped ==
    ASSUME QueueInv, QueueBounds, NEW r \in replays,
           ClaimReplay(r) \/ RefuseReplay(r) \/ KeepReplay(r) \/ RetryReplay(r) \/ CancelReplay(r)
    PROVE  QueueBounds'
<1>0. /\ r.attempt \in 0..TaskAttempts /\ TaskAttempts \in Nat \ {0} /\ Rows
      /\ TasksTyped(tasks) /\ ReplaysTyped(replays) /\ VersionsTyped
      /\ r.status = "pending" => r.attempt < TaskAttempts
      /\ {"running", "succeeded", "paused", "failed", "cancelled", "stale", "pending"} \subseteq TaskStatuses
  BY QueueAssumption DEF QueueInv, QueueBounds, ReplaysTyped, TaskStatuses, Unended
<1>1. PICK status \in TaskStatuses, attempt \in 0..TaskAttempts :
          replays' = WithReplay(r, status, attempt) /\ (status = "pending" => attempt < TaskAttempts)
  <2>1. CASE ClaimReplay(r)
    <3>1. r.attempt + 1 \in 0..TaskAttempts
      BY <1>0, <2>1 DEF ClaimReplay
    <3> QED BY <1>0, <2>1, <3>1 DEF ClaimReplay
  <2>2. CASE RefuseReplay(r)
    BY <1>0, <2>2 DEF RefuseReplay, Refusals
  <2>3. CASE KeepReplay(r)
    BY <1>0, <2>3 DEF KeepReplay
  <2>4. CASE RetryReplay(r)
    BY <1>0, <2>4 DEF RetryReplay
  <2>5. CASE CancelReplay(r)
    BY <1>0, <2>5 DEF CancelReplay
  <2> QED BY <2>1, <2>2, <2>3, <2>4, <2>5
<1>2. ReplaysTyped(replays')
  BY <1>0, <1>1, OneReplayTyped
<1>3. /\ UNCHANGED <<tableVersion, basis, tasks, activations, declined>>
      /\ worker'.queue \in {"none", "tasks", "replays"}
  BY DEF ClaimReplay, RefuseReplay, KeepReplay, RetryReplay, CancelReplay, ReplayOnly, NoWork, QueueBounds
<1> QED BY <1>0, <1>2, <1>3 DEF QueueBounds, VersionsTyped

LEMMA QueueBoundsStep == QueueInv /\ QueueBounds /\ [QueueNext]_queueVars => QueueBounds'
<1> SUFFICES ASSUME QueueInv, QueueBounds, [QueueNext]_queueVars PROVE QueueBounds'
  OBVIOUS
<1>1. CASE NewVersion
  <2>1. PICK d \in Tables : Activated(d) /\ UNCHANGED <<worker, declined>> /\ (basis' = basis \/ \E t \in Derived : Rebound(t))
    BY <1>1, Numbers DEF NewVersion, Replace, Recompute
  <2> QED BY <2>1, ActivatedTyped DEF QueueBounds
<1>2. CASE Interrupt
  BY <1>2 DEF Interrupt, NoWork, QueueBounds, VersionsTyped
<1>3. CASE RestartQueues
  <2> DEFINE T(e) == IF e.status = "running" THEN [e EXCEPT !.status = "pending"] ELSE e
             R(r) == RecoveredReplay(r)
  <2>1. tasks' = {T(e) : e \in tasks} /\ replays' = {R(r) : r \in replays} /\ worker' = NoWork
    BY <1>3 DEF RestartQueues
  <2>2. \A e \in tasks : /\ T(e).source = e.source /\ T(e).at = e.at /\ T(e).target = e.target
                         /\ T(e).attempt = e.attempt /\ T(e).status \in TaskStatuses
    BY DEF QueueInv, Rows, Event, TaskStatuses, Unended
  <2>3. \A r \in replays : /\ R(r).attempt = r.attempt /\ R(r).status \in TaskStatuses
                           /\ R(r).status = "pending" => r.status = "pending" \/ r.attempt < TaskAttempts
    BY DEF QueueInv, Rows, Replay, TaskStatuses, Unended, RecoveredReplay
  <2> HIDE DEF T, R
  <2>4. TasksTyped(tasks')
    BY <2>1, <2>2 DEF QueueBounds, TasksTyped
  <2>5. ReplaysTyped(replays')
    BY <2>1, <2>3 DEF QueueBounds, ReplaysTyped
  <2> QED BY <1>3, <2>1, <2>4, <2>5 DEF RestartQueues, NoWork, QueueBounds, VersionsTyped
<1>4. ASSUME NEW e \in tasks,
             \/ ClaimTask(e) \/ TaskMade(e) \/ FinishTask(e) \/ RetryTask(e) \/ CancelTask(e)
             \/ \E status \in {"paused", "failed"} : TaskStopped(e, status)
      PROVE  QueueBounds'
  BY <1>4, TaskActionsTyped
<1>5. ASSUME NEW r \in replays,
             ClaimReplay(r) \/ RefuseReplay(r) \/ KeepReplay(r) \/ RetryReplay(r) \/ CancelReplay(r)
      PROVE  QueueBounds'
  BY <1>5, ReplayActionsTyped
<1>6. CASE UNCHANGED queueVars
  BY <1>6 DEF queueVars, QueueBounds, VersionsTyped
<1> QED
  BY <1>1, <1>2, <1>3, <1>4, <1>5, <1>6 DEF QueueNext, TaskNext, ReplayNext

\* No event and no replay is tried more often than the bound, a pending replay always has an attempt left, so that
\* the claim need not look, and no two events have one key (RecomputeQueues.QueueTypeOK).
THEOREM QueueTyped == QueueSpec => []QueueTypeOK
<1>1. QueueInit => QueueBounds
  <2> SUFFICES ASSUME QueueInit PROVE QueueBounds
    OBVIOUS
  <2>1. tableVersion \in [Tables -> Nat] /\ \A t \in Tables : tableVersion[t] = 1
    BY DEF QueueInit
  <2>2. \A t \in Derived : basis[t] \in [ParentsOf[t] -> Nat]
    BY <2>1, ParentsTyped DEF QueueInit
  <2>4. \A t \in Derived : declined[t] \in [ParentsOf[t] -> Nat]
    BY DEF QueueInit
  <2>5. activations = 0 /\ MaxActivations \in Nat
    BY QueueAssumption DEF QueueInit
  <2>3. VersionsTyped
    BY <2>1, <2>2, <2>4, <2>5 DEF VersionsTyped
  <2> QED BY <2>3 DEF QueueInit, QueueBounds, TasksTyped, ReplaysTyped, NoWork
<1>2. QueueInv /\ QueueBounds => QueueTypeOK
  <2> SUFFICES ASSUME QueueInv, QueueBounds PROVE QueueTypeOK
    OBVIOUS
  <2>1. tableVersion \in [Tables -> 1..(MaxActivations + 1)]
    <3>1. \A t \in Tables : tableVersion[t] \in 1..(MaxActivations + 1)
      BY QueueAssumption DEF QueueBounds, VersionsTyped
    <3> QED BY <3>1 DEF QueueInv, Rows
  <2>2. \A e, f \in tasks : KeyOf(e) = KeyOf(f) => e = f
    BY DEF KeyOf, QueueBounds, TasksTyped
  <2> QED
    BY <2>1, <2>2 DEF QueueTypeOK, QueueInv, OneReplayPerPair, QueueBounds, VersionsTyped, TasksTyped, ReplaysTyped
<1> QED BY <1>1, <1>2, QueueInitially, QueueStep, QueueBoundsStep, PTL DEF QueueSpec

-----------------------------------------------------------------------------
(***************************************************************************)
(* DatabaseRestore: for any number of restores, the database the person    *)
(* works with survives every failure and every stop.                       *)
(***************************************************************************)

\* Where the database in use is, statement by statement.  As long as every rollback file
\* that was done with has gone, one that is there holds the database in use.
Whereabouts ==
    /\ rollback \in {0, inUse} /\ inUse \in {main, rollback}
    /\ doing \in {"close", "moveAway", "reopen"} => main = inUse
    /\ doing \in {"install", "open", "undo", "putBack", "done", "discard", "recover"} => rollback = inUse
    /\ doing = "idle" /\ serving = TRUE => main = inUse

\* What a statement finds: something to put in place, and something to tell the person of.
Prepared ==
    /\ doing \in {"close", "moveAway", "install"} => incoming # 0
    /\ doing \in {"close", "moveAway", "reopen", "open", "done", "start", "restart", "started"} => main # 0
    /\ doing \in {"install", "open", "undo", "putBack", "discard", "recover"} => rollback # 0
    /\ main = 0 => serving = FALSE
    /\ doing \notin {"idle", "close", "done", "started"} => serving = FALSE

Numbered == main \in Nat /\ rollback \in Nat /\ incoming \in Nat /\ inUse \in Nat \ {0}

DatabaseInv == Numbered /\ Prepared /\ (outlived = FALSE => Whereabouts)

-----------------------------------------------------------------------------
LEMMA DatabaseInitially == DatabaseInit => DatabaseInv
BY DEF DatabaseInit, DatabaseInv, Numbered, Prepared, Whereabouts

LEMMA DatabaseStep == DatabaseInv /\ [DatabaseNext]_databaseVars => DatabaseInv'
<1> SUFFICES ASSUME DatabaseInv, [DatabaseNext]_databaseVars PROVE DatabaseInv'
  OBVIOUS
<1> USE DEF DatabaseInv, Numbered, Prepared, Whereabouts
<1>1. CASE PrepareRestore
  BY <1>1 DEF PrepareRestore
<1>2. CASE CloseCurrent
  BY <1>2 DEF CloseCurrent
<1>3. CASE MoveAway
  BY <1>3 DEF MoveAway
<1>4. CASE InstallStaged
  BY <1>4 DEF InstallStaged
<1>5. CASE OpenRestored
  BY <1>5 DEF OpenRestored, Tried, Tries
<1>6. CASE RestoreDone
  BY <1>6 DEF RestoreDone, Forgotten
<1>7. CASE UndoInstall
  BY <1>7 DEF UndoInstall
<1>8. CASE PutBack
  BY <1>8 DEF PutBack
<1>9. CASE ReopenCurrent
  BY <1>9 DEF ReopenCurrent
<1>10. CASE StopCore
  BY <1>10 DEF StopCore
<1>11. CASE StartCore
  BY <1>11 DEF StartCore
<1>12. CASE FindDatabase
  BY <1>12 DEF FindDatabase
<1>13. CASE OpenAtStart
  BY <1>13 DEF OpenAtStart
<1>14. CASE DiscardUnusable
  BY <1>14 DEF DiscardUnusable
<1>15. CASE RecoverOriginal
  BY <1>15 DEF RecoverOriginal
<1>16. CASE OpenRecovered
  BY <1>16 DEF OpenRecovered
<1>17. CASE StartDone
  BY <1>17 DEF StartDone, Forgotten
<1>18. CASE UNCHANGED databaseVars
  BY <1>18 DEF databaseVars
<1> QED
  BY <1>1, <1>2, <1>3, <1>4, <1>5, <1>6, <1>7, <1>8, <1>9, <1>10, <1>11, <1>12, <1>13, <1>14, <1>15, <1>16,
     <1>17, <1>18 DEF DatabaseNext

\* The database in use is in one of its two places in every reachable state, for any
\* number of restores and stops.
THEOREM RestoreKeeps == DatabaseSpec => []DatabaseInUseKept
<1>1. DatabaseInv => DatabaseInUseKept
  BY DEF DatabaseInv, Whereabouts, DatabaseInUseKept
<1> QED
  BY <1>1, DatabaseInitially, DatabaseStep, PTL DEF DatabaseSpec
-----------------------------------------------------------------------------
(* The types and limits of DatabaseRestore *)

LEMMA DatabaseBoundsStep ==
    DatabaseInv /\ DatabaseTypeOK /\ [DatabaseNext]_databaseVars => DatabaseTypeOK'
<1> SUFFICES ASSUME DatabaseInv, DatabaseTypeOK, [DatabaseNext]_databaseVars PROVE DatabaseTypeOK'
  OBVIOUS
<1>1. MaxRestores \in Nat
  BY RestoreAssumption
<1>2. (main = 0 => serving = FALSE)'
  BY DatabaseStep DEF DatabaseInv, Prepared
<1>3. /\ (main = 0 => serving = FALSE)' /\ serving' \in BOOLEAN /\ outlived' \in BOOLEAN
      /\ doing' \in {"idle", "down"} \cup Restoring \cup Starting
  BY <1>2 DEF DatabaseTypeOK, DatabaseNext, PrepareRestore, CloseCurrent, MoveAway, InstallStaged, OpenRestored,
     Tried, Tries, RestoreDone, Forgotten, UndoInstall, PutBack, ReopenCurrent, StopCore, StartCore, FindDatabase,
     OpenAtStart, DiscardUnusable, RecoverOriginal, OpenRecovered, StartDone, databaseVars, Restoring, Starting
<1>4. /\ main' \in 0..(MaxRestores + 1) /\ rollback' \in 0..(MaxRestores + 1)
      /\ incoming' \in 0..(MaxRestores + 1) /\ inUse' \in 1..(MaxRestores + 1)
  <2>1. /\ main \in 0..(MaxRestores + 1) /\ rollback \in 0..(MaxRestores + 1)
        /\ incoming \in 0..(MaxRestores + 1) /\ inUse \in 1..(MaxRestores + 1)
        /\ doing \in {"done", "started"} => main # 0
    BY DEF DatabaseTypeOK, DatabaseInv, Prepared
  <2>2. CASE PrepareRestore
    BY <1>1, <2>1, <2>2 DEF PrepareRestore
  <2>3. CASE RestoreDone \/ StartDone
    <3>1. /\ main' = main /\ incoming' = incoming /\ inUse' = main /\ rollback' \in {0, rollback}
          /\ doing \in {"done", "started"}
      BY <2>3 DEF RestoreDone, StartDone, Forgotten
    <3> QED
      BY <1>1, <2>1, <3>1
  <2>4. CASE CloseCurrent \/ MoveAway \/ InstallStaged \/ OpenRestored
    BY <1>1, <2>1, <2>4 DEF CloseCurrent, MoveAway, InstallStaged, OpenRestored, Tried
  <2>5. CASE UndoInstall \/ PutBack \/ ReopenCurrent \/ StopCore \/ StartCore
    BY <1>1, <2>1, <2>5 DEF UndoInstall, PutBack, ReopenCurrent, StopCore, StartCore
  <2>6. CASE FindDatabase \/ OpenAtStart \/ DiscardUnusable \/ RecoverOriginal \/ OpenRecovered
    BY <1>1, <2>1, <2>6 DEF FindDatabase, OpenAtStart, DiscardUnusable, RecoverOriginal, OpenRecovered
  <2>7. CASE UNCHANGED databaseVars
    BY <2>1, <2>7 DEF databaseVars
  <2> QED
    BY <2>2, <2>3, <2>4, <2>5, <2>6, <2>7 DEF DatabaseNext
<1> QED
  BY <1>3, <1>4 DEF DatabaseTypeOK

\* However many restores there are and wherever they are cut short, no file holds a database
\* that was never made, and nothing is served without one.
THEOREM DatabaseTyped == DatabaseSpec => []DatabaseTypeOK
<1>1. DatabaseInit => DatabaseTypeOK
  <2> SUFFICES ASSUME DatabaseInit PROVE DatabaseTypeOK
    OBVIOUS
  <2>1. /\ main = 1 /\ rollback = 0 /\ incoming = 0 /\ inUse = 1 /\ serving \in BOOLEAN /\ outlived \in BOOLEAN
        /\ doing = "idle"
    BY DEF DatabaseInit
  <2>2. 0 \in 0..(MaxRestores + 1) /\ 1 \in 0..(MaxRestores + 1) /\ 1 \in 1..(MaxRestores + 1)
    BY RestoreAssumption
  <2> QED
    BY <2>1, <2>2 DEF DatabaseTypeOK
<1>2. DatabaseInit => DatabaseInv
  BY DatabaseInitially
<1>3. DatabaseInv /\ [DatabaseNext]_databaseVars => DatabaseInv'
  BY DatabaseStep
<1> QED
  BY <1>1, <1>2, <1>3, DatabaseBoundsStep, PTL DEF DatabaseSpec

-----------------------------------------------------------------------------
(***************************************************************************)
(* The parts side by side, as MCDesktop composes them. A part takes steps  *)
(* while it is at work and rests otherwise, so a behaviour of the desktop  *)
(* is one of each part, and what holds of each part holds of the desktop.  *)
(***************************************************************************)

Parts == {"approvals", "push", "pull", "delivery", "files", "restore", "arrivals", "catalog", "recomputes", "replays",
          "database"}
desktopVars == <<part, approvalVars, hubVars, deliveryVars, settingsVars, arrivalVars, catalogVars, queueVars, databaseVars>>

\* A step of the desktop, seen by the parts.
PartsStep ==
    /\ [ApprovalNext]_approvalVars /\ [HubNext]_hubVars /\ [DeliveryNext]_deliveryVars /\ [SettingsNext]_settingsVars
    /\ [ArrivalNext]_arrivalVars /\ [CatalogNext]_catalogVars /\ [QueueNext]_queueVars /\ [DatabaseNext]_databaseVars
    /\ UNCHANGED part

LEMMA PartsSteps == [DesktopNext]_desktopVars => PartsStep
BY DEF DesktopNext, PartsStep, OnlyDesktop, OnlyCore, HubNext, SettingsNext, QueueNext, desktopVars

LEMMA PartsBehave ==
    DesktopSpec => /\ [](part \in Parts) /\ ApprovalSpec /\ HubSpec /\ DeliveryInit /\ [][DeliveryNext]_deliveryVars
                   /\ SettingsSpec /\ ArrivalSpec /\ CatalogSpec /\ QueueSpec /\ DatabaseSpec
<1>1. DesktopInit => /\ part \in Parts /\ ApprovalInit /\ HubInit /\ DeliveryInit /\ SettingsInit /\ ArrivalInit
                     /\ CatalogInit /\ QueueInit /\ DatabaseInit
  BY DEF DesktopInit, Parts
<1>2. part \in Parts /\ UNCHANGED part => (part \in Parts)'
  OBVIOUS
<1>3. [DesktopNext]_desktopVars =>
          /\ [ApprovalNext]_approvalVars /\ [HubNext]_hubVars /\ [DeliveryNext]_deliveryVars
          /\ [SettingsNext]_settingsVars /\ [ArrivalNext]_arrivalVars /\ [CatalogNext]_catalogVars
          /\ [QueueNext]_queueVars /\ [DatabaseNext]_databaseVars /\ UNCHANGED part
  BY PartsSteps DEF PartsStep
<1>4. DesktopSpec => DesktopInit /\ [][DesktopNext]_desktopVars
  BY DEF DesktopSpec, desktopVars
<1> QED
  BY <1>1, <1>2, <1>3, <1>4, PTL DEF ApprovalSpec, HubSpec, SettingsSpec, ArrivalSpec, CatalogSpec, QueueSpec, DatabaseSpec

\* Whatever part is at work, it keeps to its types and limits (MCDesktop.DesktopTypeOK): no store of approvals and no
\* list grows beyond its capacity, nothing is tried more often than it may, no version is beyond those that were made.
THEOREM DesktopTyped == DesktopSpec => []DesktopTypeOK
<1>1. /\ part \in Parts /\ ApprovalTypeOK /\ HubTypeOK /\ DeliveryTypeOK /\ SettingsTypeOK /\ ArrivalTypeOK
      /\ CatalogTypeOK /\ QueueTypeOK /\ DatabaseTypeOK
      => DesktopTypeOK
  BY DEF DesktopTypeOK, Parts
<1> QED
  BY <1>1, PartsBehave, ApprovalTypes, HubTypes, DeliveryHolds, DeliveryTypes, SettingsTyped, ArrivalsTyped, CatalogTyped,
     QueueTyped, DatabaseTyped, PTL

\* What is proved of the parts holds of the desktop they make up, as the run of MCDesktop checks it.
THEOREM DesktopHolds ==
    DesktopSpec => /\ [](SentAsReviewed /\ StrictStops /\ SentIsOnRecord) /\ KeepsPromise
                   /\ [](OutcomeIsTrue /\ PullMissesNothing /\ GivesUpLast /\ RestartReloads)
                   /\ [](FilesAgree /\ RestoreIsWhole /\ ViewIsOfSelection /\ NothingForgotten /\ DatabaseInUseKept)
<1>1. DeliveryInv => GivesUpLast
  BY DEF DeliveryInv
<1> QED
  BY <1>1, PartsBehave, ReviewedLeaves, StrictHolds, LeavesOnRecord, PromiseKept, OutcomesAreTrue, PullsMissNothing,
     DeliveryHolds, ListIsReloaded, FilesAlwaysAgree, RestoredAsAWhole, ViewFollowsSelection, QueuesRemember,
     RestoreKeeps, PTL
=============================================================================
