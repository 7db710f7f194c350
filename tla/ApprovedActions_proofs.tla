----------------------- MODULE ApprovedActions_proofs -----------------------
(***************************************************************************)
(* Proofs about ApprovedActions, for any scenes: any number of proposals   *)
(* and clicks in any of the fourteen flows, any capacity and lifetime of   *)
(* the stores, any number of edits, ticks and turns.  The flows implement  *)
(* ApprovalPromise; what is sent was reviewed, is on record and was open   *)
(* to leave.                                                               *)
(***************************************************************************)
EXTENDS ApprovedActions, FiniteSetTheorems, WellFoundedInduction, TLAPS

\* What the proofs need of the types.
Attempt == [at : Nat, prop : Proposals \cup {None}, config : Nat, content : Nat, open : BOOLEAN,
            turn : 0..MaxTurns, tools : Nat]
Effect == [key : Attempts \X (0..MaxTurns), prop : Proposals, config : Nat, content : Nat, open : BOOLEAN]

Typed ==
    /\ scene \in Scenes /\ now \in Nat /\ config \in Nat /\ content \in Nat /\ strict \in BOOLEAN
    /\ proposed = [p \in Proposals |-> proposed[p]]
    /\ \A p \in Proposals : proposed[p].config \in Nat /\ proposed[p].content \in Nat /\ proposed[p].expires \in Nat
    /\ store \in [Stores -> SUBSET Proposals]
    /\ attempts \in [Attempts -> Attempt]
    /\ sent \subseteq Effect
    /\ audits \in [Attempts \X (0..MaxTurns) -> {"none", "started", "succeeded", "failed"}]
    /\ closed \subseteq Proposals

LEMMA Bounds == MaxTurns \in Nat \ {0} /\ Lifetime \in Nat \ {0} /\ None \notin Proposals
  BY ApprovalAssumption

LEMMA Begun == NoAttempt \in Attempt /\ \A w \in Attempt : Over(w) \in Attempt /\ Over(w).at = 0 /\ Over(w).prop = w.prop
<1>1. 0 \in 0..MaxTurns
  BY Bounds
<1> QED BY <1>1 DEF NoAttempt, Attempt, Over

LEMMA KeyTyped == ASSUME Typed, NEW a \in Attempts PROVE Key(a) \in Attempts \X (0..MaxTurns)
  BY DEF Typed, Attempt, Key

LEMMA OnwardTyped ==
    ASSUME Typed, NEW a \in Attempts, attempts[a].at \in 2..Len(FlowAt(a).steps)
    PROVE  \E w \in Attempt : /\ Onward(a) = [attempts EXCEPT ![a] = w]
                              /\ w.prop = attempts[a].prop
                              /\ \/ w = [attempts[a] EXCEPT !.at = @ + 1] /\ attempts[a].at < Len(FlowAt(a).steps)
                                 \/ w = Over(attempts[a])
<1>1. attempts[a] \in Attempt
  BY DEF Typed
<1> DEFINE w == IF attempts[a].at < Len(FlowAt(a).steps) THEN [attempts[a] EXCEPT !.at = @ + 1] ELSE Over(attempts[a])
<1>2. Onward(a) = [attempts EXCEPT ![a] = w]
  <2>1. CASE attempts[a].at < Len(FlowAt(a).steps)
    BY <2>1 DEF Onward
  <2>2. CASE ~(attempts[a].at < Len(FlowAt(a).steps))
    BY <2>2 DEF Onward
  <2> QED BY <2>1, <2>2
<1>3. w \in Attempt /\ w.prop = attempts[a].prop
  <2>1. Over(attempts[a]) \in Attempt /\ Over(attempts[a]).prop = attempts[a].prop
    BY <1>1, Begun
  <2>2. [attempts[a] EXCEPT !.at = @ + 1] \in Attempt /\ [attempts[a] EXCEPT !.at = @ + 1].prop = attempts[a].prop
    BY <1>1 DEF Attempt
  <2> QED BY <2>1, <2>2
<1> QED BY <1>2, <1>3

\* The handler a goes on with its proposal or is over, and no token is touched.
HandlerStep(a) ==
    /\ attempts[a].at \in 2..Len(FlowAt(a).steps)
    /\ \E w \in Attempt : attempts' = [attempts EXCEPT ![a] = w] /\ w.prop = attempts[a].prop
    /\ UNCHANGED <<scene, now, config, content, strict, proposed, store, closed>>
    /\ sent' \in {sent, sent \cup {[key |-> Key(a), prop |-> attempts[a].prop, config |-> attempts[a].config,
                                    content |-> attempts[a].content, open |-> attempts[a].open]}}
    /\ audits' = audits \/ \E s \in {"started", "succeeded", "failed"} : audits' = [audits EXCEPT ![Key(a)] = s]

LEMMA HandlerSteps ==
    ASSUME Typed, NEW a \in Attempts, UNCHANGED scene,
           Read(a) \/ Clear(a) \/ StartAudit(a) \/ Send(a) \/ Finish(a) \/ Turn(a) \/ Fail(a)
    PROVE  HandlerStep(a)
<1> DEFINE Goes == \E w \in Attempt : attempts' = [attempts EXCEPT ![a] = w] /\ w.prop = attempts[a].prop
<1>0. attempts[a] \in Attempt /\ attempts \in [Attempts -> Attempt]
  BY DEF Typed
<1>1. attempts[a].at \in 2..Len(FlowAt(a).steps)
  BY DEF Read, Clear, StartAudit, Send, Finish, Turn, Fail, Ready
<1>2. attempts' = Onward(a) => Goes
  BY <1>1, OnwardTyped
<1>3. Stopped(a) => Goes
  BY <1>0, Begun DEF Stopped
<1>4. CASE Read(a)
  <2>1. PICK w \in Attempt : Onward(a) = [attempts EXCEPT ![a] = w] /\ w.prop = attempts[a].prop
    BY <1>1, OnwardTyped
  <2> DEFINE v == [w EXCEPT !.content = content, !.open = ~strict]
  <2>2. v \in Attempt /\ v.prop = w.prop
    BY DEF Typed, Attempt
  <2>3. attempts' = [attempts EXCEPT ![a] = v]
    BY <1>0, <1>4, <2>1 DEF Read
  <2> QED BY <1>1, <1>4, <2>1, <2>2, <2>3 DEF Read, HandlerStep
<1>5. CASE Clear(a)
  BY <1>1, <1>2, <1>3, <1>5 DEF Clear, HandlerStep
<1>6. CASE StartAudit(a)
  BY <1>1, <1>2, <1>6 DEF StartAudit, HandlerStep, Recorded
<1>7. CASE Send(a)
  BY <1>1, <1>2, <1>3, <1>7 DEF Send, HandlerStep, Recorded
<1>8. CASE Finish(a)
  BY <1>1, <1>2, <1>3, <1>8 DEF Finish, HandlerStep, Recorded
<1>9. CASE Turn(a)
  <2> DEFINE v == [attempts[a] EXCEPT !.turn = @ + 1, !.tools = @ + 1, !.at = 2]
  <2>1. TurnLeft(attempts[a]) => v \in Attempt /\ v.prop = attempts[a].prop
    <3>1. attempts[a].turn < MaxTurns => attempts[a].turn + 1 \in 0..MaxTurns
      BY <1>0, Bounds DEF Attempt
    <3> DEFINE t == attempts[a].turn + 1  n == attempts[a].tools + 1
    <3>2. attempts[a].turn < MaxTurns => t \in 0..MaxTurns /\ n \in Nat
      BY <1>0, <3>1 DEF Attempt
    <3>3. v = [attempts[a] EXCEPT !.turn = t, !.tools = n, !.at = 2]
      OBVIOUS
    <3> HIDE DEF t, n
    <3> QED BY <1>0, <3>2, <3>3 DEF Attempt, TurnLeft
  <2> QED BY <1>1, <1>3, <1>9, <2>1 DEF Turn, HandlerStep
<1>10. CASE Fail(a)
  BY <1>1, <1>3, <1>10 DEF Fail, HandlerStep, Recorded
<1> QED BY <1>4, <1>5, <1>6, <1>7, <1>8, <1>9, <1>10

\* What showing a new proposal does to the stores: older proposals may be dropped for it.
LEMMA Shows ==
    ASSUME Typed, NEW p \in DOMAIN FlowOf, NEW c \in Nat, NEW d \in Nat, Issued(p, c, d)
    PROVE  /\ p \in Proposals /\ proposed[p] = Unshown
           /\ proposed' = [q \in Proposals |-> proposed'[q]]
           /\ \A q \in Proposals \ {p} : proposed'[q] = proposed[q]
           /\ proposed'[p].config = c /\ proposed'[p].content = d /\ proposed'[p].expires = now + Lifetime
           /\ proposed'[p] # Unshown
           /\ store' \in [Stores -> SUBSET Proposals] /\ StoreOf(p) \in Stores
           /\ p \in store'[StoreOf(p)]
           /\ \A s \in Stores : store'[s] \subseteq store[s] \cup (IF s = StoreOf(p) THEN {p} ELSE {})
<1>1. p \in Proposals /\ StoreOf(p) \in Stores
  BY ApprovalAssumption DEF Typed, FlowOf, Stores
<1>2. PICK n, K : /\ proposed' = [proposed EXCEPT ![p] = [config |-> c, content |-> d, expires |-> now + Lifetime, nr |-> n]]
                  /\ K \subseteq store[StoreOf(p)]
                  /\ store' = [store EXCEPT ![StoreOf(p)] = K \cup {p}]
  <2> DEFINE fresh == {o \in store[StoreOf(p)] : ~Expired(o)}
             earlier == {o \in DOMAIN FlowOf : StoreOf(o) = StoreOf(p) /\ proposed[o] # Unshown}
  <2>1. Kept(fresh) \subseteq fresh
    BY DEF Kept
  <2>2. /\ proposed' = [proposed EXCEPT ![p] = [config |-> c, content |-> d, expires |-> now + Lifetime,
                                                nr |-> Cardinality(earlier) + 1]]
        /\ store' = [store EXCEPT ![StoreOf(p)] = Kept(fresh) \cup {p}]
    BY DEF Issued
  <2> QED BY <2>1, <2>2
<1>3. proposed = [q \in Proposals |-> proposed[q]] /\ store \in [Stores -> SUBSET Proposals]
  BY DEF Typed
<1>4. /\ proposed' = [q \in Proposals |-> proposed'[q]]
      /\ \A q \in Proposals \ {p} : proposed'[q] = proposed[q]
      /\ proposed'[p].config = c /\ proposed'[p].content = d /\ proposed'[p].expires = now + Lifetime
  BY <1>1, <1>2, <1>3
<1>5. proposed'[p] # Unshown
  <2>1. now + Lifetime # 0
    BY Bounds DEF Typed
  <2>2. Unshown.expires = 0
    BY DEF Unshown
  <2> QED BY <1>4, <2>1, <2>2
<1>6. store' \in [Stores -> SUBSET Proposals]
  BY <1>1, <1>2, <1>3
<1>7. /\ p \in store'[StoreOf(p)]
      /\ \A s \in Stores : store'[s] \subseteq store[s] \cup (IF s = StoreOf(p) THEN {p} ELSE {})
  BY <1>1, <1>2, <1>3
<1>8. proposed[p] = Unshown
  BY DEF Issued
<1> QED BY <1>1, <1>4, <1>5, <1>6, <1>7, <1>8

\* A click that finds its token in the store, and in time.
Presented(p) == Held(p) /\ now <= proposed[p].expires

LEMMA InTime == ASSUME Typed, NEW p \in Proposals, ~Expired(p) PROVE now <= proposed[p].expires
  BY DEF Typed, Expired

LEMMA HandlerBegins == ASSUME Typed, NEW p \in Proposals, NEW a \in Attempts, NEW c \in Nat
                PROVE  Begin(a, p, c) \in Attempt /\ Begin(a, p, c).prop = p /\ Begin(a, p, c).turn = 1
<1>1. 1 \in 0..MaxTurns /\ config \in Nat /\ (~strict) \in BOOLEAN
  BY Bounds DEF Typed
<1> DEFINE d == IF FlowAt(a).clicked THEN c ELSE proposed[p].content
<1>2. d \in Nat
  BY DEF Typed
<1>3. Begin(a, p, c) = [NoAttempt EXCEPT !.at = 1, !.prop = p, !.config = config, !.open = ~strict, !.turn = 1,
                                         !.content = d]
  BY DEF Begin
<1> DEFINE v == [at |-> 1, prop |-> p, config |-> config, content |-> d, open |-> ~strict, turn |-> 1, tools |-> 0]
<1>4. Begin(a, p, c) = v
  BY <1>3 DEF NoAttempt
<1>5. v \in Attempt
  <2> HIDE DEF d
  <2> QED BY <1>1, <1>2 DEF Attempt
<1> QED BY <1>4, <1>5

LEMMA Clicks ==
    ASSUME Typed, NEW p \in DOMAIN FlowOf, NEW a \in DOMAIN ClickOf, NEW c \in Versions, Approve(a, p, c)
    PROVE  /\ p \in Proposals /\ a \in Attempts /\ StoreOf(p) \in Stores /\ c \in Nat
           /\ attempts[a] = NoAttempt /\ proposed[p] # Unshown
           /\ UNCHANGED <<now, config, content, strict, proposed, closed>>
           /\ store' = [store EXCEPT ![StoreOf(p)] = @ \ {p}]
           /\ \E v \in Attempt : /\ attempts' = [attempts EXCEPT ![a] = v] /\ v.prop = p
                                 /\ v.at # 0 => Presented(p)
           /\ \/ sent' = sent
              \/ /\ Presented(p)
                 /\ sent' = sent \cup {[key |-> <<a, 1>>, prop |-> p, config |-> Begin(a, p, c).config,
                                        content |-> Begin(a, p, c).content, open |-> Begin(a, p, c).open]}
           /\ audits' = audits \/ audits' = [audits EXCEPT ![<<a, 1>>] = "started"]
<1>1. p \in Proposals /\ a \in Attempts /\ StoreOf(p) \in Stores
  BY ApprovalAssumption DEF Typed, FlowOf, ClickOf, Stores
<1>2. c \in Nat
  BY ApprovalAssumption DEF Typed, Versions
<1>3. /\ attempts[a] = NoAttempt /\ proposed[p] # Unshown /\ UNCHANGED <<now, config, content, strict, proposed, closed>>
      /\ StoreOf(p) = FlowAt(a).store
  BY DEF Approve
<1>4. store' = [store EXCEPT ![StoreOf(p)] = @ \ {p}]
  BY <1>3 DEF Approve, TokenTaken
<1> DEFINE flow == FlowAt(a)
           first == Head(flow.steps)
           w == Begin(a, p, c)
<1>5. w \in Attempt /\ w.prop = p
  BY <1>1, <1>2, HandlerBegins
<1>6. Over(w) \in Attempt /\ Over(w).prop = p /\ Over(w).at = 0
  BY <1>5, Begun
<1>7. [w EXCEPT !.at = 2] \in Attempt /\ [w EXCEPT !.at = 2].prop = p
  BY <1>5 DEF Attempt
<1>8. CASE Held(p) /\ ~Expired(p) /\ FlowOf[p] = ClickOf[a] /\ Passes(a, w, first.need)
  <2>1. Presented(p)
    BY <1>1, <1>8, InTime DEF Presented
  <2>2. /\ attempts' = [attempts EXCEPT ![a] = IF Len(flow.steps) > 1 THEN [w EXCEPT !.at = 2] ELSE Over(w)]
        /\ audits' = IF "audit" \in first.do THEN [audits EXCEPT ![<<a, 1>>] = "started"] ELSE audits
        /\ sent' = IF "send" \in first.do
                   THEN sent \cup {[key |-> <<a, 1>>, prop |-> p, config |-> w.config,
                                    content |-> w.content, open |-> w.open]}
                   ELSE sent
    BY <1>8 DEF Approve
  <2> HIDE DEF w, first
  <2>3. \E v \in Attempt : /\ attempts' = [attempts EXCEPT ![a] = v] /\ v.prop = p
                           /\ v.at # 0 => Presented(p)
    BY <1>6, <1>7, <2>1, <2>2
  <2>4. audits' = audits \/ audits' = [audits EXCEPT ![<<a, 1>>] = "started"]
    BY <2>2
  <2>5. \/ sent' = sent
        \/ sent' = sent \cup {[key |-> <<a, 1>>, prop |-> p, config |-> w.config,
                               content |-> w.content, open |-> w.open]}
    BY <2>2
  <2> QED BY <1>1, <1>2, <1>3, <1>4, <2>1, <2>3, <2>4, <2>5 DEF w
<1>9. CASE ~(Held(p) /\ ~Expired(p) /\ FlowOf[p] = ClickOf[a] /\ Passes(a, w, first.need))
  <2>1. attempts' = [attempts EXCEPT ![a] = Over(w)] /\ UNCHANGED <<audits, sent>>
    BY <1>9 DEF Approve
  <2> QED BY <1>1, <1>2, <1>3, <1>4, <1>6, <2>1
<1> QED BY <1>8, <1>9

LEMMA SceneTyped == ASSUME Typed
                    PROVE  /\ DOMAIN FlowOf \subseteq Proposals /\ DOMAIN ClickOf \subseteq Attempts
                           /\ Versions \subseteq Nat /\ scene.changes \in Nat
                           /\ \A p \in DOMAIN FlowOf : FlowOf[p] \in Flows
                           /\ \A a \in DOMAIN ClickOf : ClickOf[a] \in Flows
  BY ApprovalAssumption DEF Typed, FlowOf, ClickOf, Versions

-----------------------------------------------------------------------------
(* Tokens *)

Works(a, p) == attempts[a].at # 0 /\ attempts[a].prop = p
Free(p)     == \A a \in Attempts : ~Works(a, p)

\* A token is in the store of its flow, and only until it is taken: no handler works on a
\* proposal that is kept, two never work on the same, and nothing is known of a proposal
\* before it is shown.
TokenInv ==
    /\ \A p \in Proposals : proposed[p] = Unshown => p \notin closed /\ Free(p) /\ \A s \in Stores : p \notin store[s]
    /\ \A s \in Stores : \A p \in store[s] : p \in DOMAIN FlowOf /\ StoreOf(p) = s /\ p \notin closed /\ Free(p)
    /\ \A p \in Proposals : \A a, b \in Attempts : Works(a, p) /\ Works(b, p) => a = b
    /\ \A a \in Attempts : attempts[a].at # 0 => attempts[a].prop \in DOMAIN FlowOf

LEMMA HandlerKeeps ==
    ASSUME Typed, TokenInv, NEW a \in Attempts, HandlerStep(a)
    PROVE  Typed' /\ TokenInv' /\ \A b \in Attempts \ {a} : attempts'[b] = attempts[b]
<1> DEFINE m == [key |-> Key(a), prop |-> attempts[a].prop, config |-> attempts[a].config,
                 content |-> attempts[a].content, open |-> attempts[a].open]
<1>1. attempts \in [Attempts -> Attempt] /\ attempts[a] \in Attempt
  BY DEF Typed
<1>2. attempts[a].at # 0 /\ attempts[a].prop \in DOMAIN FlowOf /\ attempts[a].prop \in Proposals
  BY <1>1, SceneTyped DEF HandlerStep, TokenInv
<1>3. m \in Effect
  BY <1>1, <1>2, KeyTyped DEF Effect, Attempt
<1>4. sent' \subseteq Effect
  BY <1>3 DEF HandlerStep, Typed
<1>5. audits' \in [Attempts \X (0..MaxTurns) -> {"none", "started", "succeeded", "failed"}]
  BY KeyTyped DEF HandlerStep, Typed
<1>6. PICK w \in Attempt : attempts' = [attempts EXCEPT ![a] = w] /\ w.prop = attempts[a].prop
  BY DEF HandlerStep
<1>7. attempts' \in [Attempts -> Attempt] /\ attempts'[a] = w /\ \A b \in Attempts \ {a} : attempts'[b] = attempts[b]
  BY <1>1, <1>6
<1>8. UNCHANGED <<scene, now, config, content, strict, proposed, store, closed>>
  BY DEF HandlerStep
<1>9. Typed'
  BY <1>4, <1>5, <1>7, <1>8 DEF Typed, Stores, StoreOf, FlowAt, FlowOf, ClickOf
<1>10. \A b \in Attempts, p \in Proposals : Works(b, p)' => Works(b, p)
  BY <1>2, <1>6, <1>7 DEF Works
<1>11. \A b \in Attempts : attempts'[b].at # 0 => attempts[b].at # 0 /\ attempts'[b].prop = attempts[b].prop
  BY <1>2, <1>6, <1>7
<1>12. TokenInv'
  <2>1. \A p \in Proposals : Free(p) => Free(p)'
    BY <1>10 DEF Free
  <2>2. FlowOf' = FlowOf /\ Stores' = Stores /\ \A p : StoreOf(p)' = StoreOf(p)
    BY <1>8 DEF FlowOf, Stores, StoreOf, FlowAt, ClickOf
  <2>3. \A p \in Proposals : proposed'[p] = Unshown => p \notin closed' /\ Free(p)' /\ \A s \in Stores' : p \notin store'[s]
    BY <1>8, <2>1, <2>2 DEF TokenInv
  <2>4. \A s \in Stores' : \A p \in store'[s] :
            p \in DOMAIN FlowOf' /\ StoreOf(p)' = s /\ p \notin closed' /\ Free(p)'
    BY <1>8, <2>1, <2>2, SceneTyped DEF TokenInv
  <2>5. \A p \in Proposals : \A b, e \in Attempts : Works(b, p)' /\ Works(e, p)' => b = e
    BY <1>10 DEF TokenInv
  <2>6. \A b \in Attempts : attempts'[b].at # 0 => attempts'[b].prop \in DOMAIN FlowOf'
    BY <1>11, <2>2 DEF TokenInv
  <2> QED BY <2>3, <2>4, <2>5, <2>6 DEF TokenInv, Unshown
<1> QED BY <1>7, <1>9, <1>12

LEMMA ClickKeeps ==
    ASSUME Typed, TokenInv, NEW p \in DOMAIN FlowOf, NEW a \in DOMAIN ClickOf, NEW c \in Versions,
           Approve(a, p, c), scene' = scene
    PROVE  /\ Typed' /\ TokenInv' /\ \A b \in Attempts \ {a} : attempts'[b] = attempts[b]
           /\ ~Held(p)' /\ \A q \in DOMAIN FlowOf \ {p} : Held(q)' <=> Held(q)
<1>1. /\ p \in Proposals /\ a \in Attempts /\ StoreOf(p) \in Stores /\ c \in Nat
      /\ attempts[a] = NoAttempt /\ proposed[p] # Unshown
      /\ UNCHANGED <<now, config, content, strict, proposed, closed>>
      /\ store' = [store EXCEPT ![StoreOf(p)] = @ \ {p}]
  BY Clicks
<1>2. PICK v \in Attempt : attempts' = [attempts EXCEPT ![a] = v] /\ v.prop = p /\ (v.at # 0 => Presented(p))
  BY Clicks
<1>3. attempts \in [Attempts -> Attempt] /\ store \in [Stores -> SUBSET Proposals]
  BY DEF Typed
<1>4. attempts' \in [Attempts -> Attempt] /\ attempts'[a] = v /\ \A b \in Attempts \ {a} : attempts'[b] = attempts[b]
  BY <1>1, <1>2, <1>3
<1>5. sent' \subseteq Effect
  <2> DEFINE w == Begin(a, p, c)
             m == [key |-> <<a, 1>>, prop |-> p, config |-> w.config, content |-> w.content, open |-> w.open]
  <2>1. w \in Attempt
    BY <1>1, HandlerBegins
  <2>2. 1 \in 0..MaxTurns
    BY Bounds
  <2> HIDE DEF w
  <2>3. m \in Effect
    BY <1>1, <2>1, <2>2 DEF Effect, Attempt
  <2>4. sent' = sent \/ sent' = sent \cup {m}
    BY Clicks DEF w
  <2> QED BY <2>3, <2>4 DEF Typed
<1>6. audits' \in [Attempts \X (0..MaxTurns) -> {"none", "started", "succeeded", "failed"}]
  <2>1. <<a, 1>> \in Attempts \X (0..MaxTurns)
    BY <1>1, Bounds
  <2>2. audits' = audits \/ audits' = [audits EXCEPT ![<<a, 1>>] = "started"]
    BY Clicks
  <2> QED BY <2>1, <2>2 DEF Typed
<1>7. FlowOf' = FlowOf /\ ClickOf' = ClickOf /\ Stores' = Stores /\ \A q : StoreOf(q)' = StoreOf(q)
  BY DEF FlowOf, Stores, StoreOf, FlowAt, ClickOf
<1>8. store' \in [Stores' -> SUBSET Proposals] /\ store'[StoreOf(p)] = store[StoreOf(p)] \ {p}
      /\ \A s \in Stores \ {StoreOf(p)} : store'[s] = store[s]
  BY <1>1, <1>3, <1>7
<1>9. Typed'
  BY <1>1, <1>4, <1>5, <1>6, <1>8 DEF Typed
<1>10. ~Held(p)' /\ \A q \in DOMAIN FlowOf \ {p} : Held(q)' <=> Held(q)
  <2>1. \A q \in DOMAIN FlowOf : StoreOf(q) \in Stores
    BY DEF Stores
  <2> QED BY <1>7, <1>8, <2>1 DEF Held
<1>11. \A b \in Attempts, q \in Proposals \ {p} : Works(b, q)' <=> Works(b, q)
  <2>1. NoAttempt.at = 0
    BY DEF NoAttempt
  <2> QED BY <1>1, <1>2, <1>4, <2>1 DEF Works
<1>12. \A b \in Attempts : Works(b, p)' => b = a \/ Works(b, p)
  BY <1>4 DEF Works
<1>13. Works(a, p)' => p \in store[StoreOf(p)] /\ Free(p)
  <2>1. Works(a, p)' => Held(p)
    BY <1>2, <1>4 DEF Works, Presented
  <2> QED BY <1>1, <2>1 DEF Held, TokenInv
<1>14. TokenInv'
  <2>1. \A q \in Proposals \ {p} : Free(q) => Free(q)'
    BY <1>11 DEF Free
  <2>2. \A s \in Stores : store'[s] \subseteq store[s] \ {p}
    <3>1. \A s \in Stores \ {StoreOf(p)} : p \notin store[s]
      BY DEF TokenInv
    <3> QED BY <1>8, <3>1
  <2>3. \A q \in Proposals : proposed'[q] = Unshown => q \notin closed' /\ Free(q)' /\ \A s \in Stores' : q \notin store'[s]
    BY <1>1, <1>7, <2>1, <2>2 DEF TokenInv
  <2>4. \A s \in Stores' : \A q \in store'[s] :
            q \in DOMAIN FlowOf' /\ StoreOf(q)' = s /\ q \notin closed' /\ Free(q)'
    BY <1>1, <1>7, <2>1, <2>2, SceneTyped DEF TokenInv
  <2>5. \A q \in Proposals : \A b, e \in Attempts : Works(b, q)' /\ Works(e, q)' => b = e
    <3> SUFFICES ASSUME NEW q \in Proposals, NEW b \in Attempts, NEW e \in Attempts, Works(b, q)', Works(e, q)'
                 PROVE  b = e
      OBVIOUS
    <3>1. CASE q # p
      BY <1>11, <3>1 DEF TokenInv
    <3>2. CASE q = p
      <4>1. Works(a, p)' => b = a /\ e = a
        BY <1>12, <1>13, <3>2 DEF Free
      <4>2. ~Works(a, p)' => Works(b, p) /\ Works(e, p)
        BY <1>12, <3>2
      <4> QED BY <1>1, <4>1, <4>2 DEF TokenInv
    <3> QED BY <3>1, <3>2
  <2>6. \A b \in Attempts : attempts'[b].at # 0 => attempts'[b].prop \in DOMAIN FlowOf'
    BY <1>2, <1>4, <1>7 DEF TokenInv
  <2> QED BY <2>3, <2>4, <2>5, <2>6 DEF TokenInv, Unshown
<1> QED BY <1>4, <1>9, <1>10, <1>14

\* The handlers work on no proposal that none of them worked on before.
NoneBegins == /\ attempts' \in [Attempts -> Attempt]
              /\ \A b \in Attempts : attempts'[b].at # 0 => attempts[b].at # 0 /\ attempts'[b].prop = attempts[b].prop

LEMMA OnwardBegins ==
    ASSUME Typed, NEW a \in Attempts, attempts[a].at \in 2..Len(FlowAt(a).steps), attempts' = Onward(a)
    PROVE  NoneBegins
<1>1. PICK w \in Attempt : attempts' = [attempts EXCEPT ![a] = w] /\ w.prop = attempts[a].prop
  BY OnwardTyped
<1>2. attempts \in [Attempts -> Attempt]
  BY DEF Typed
<1> QED BY <1>1, <1>2 DEF NoneBegins

\* Steps in which the stores only lose proposals, or keep what they have.
LEMMA LossKeeps ==
    ASSUME Typed, TokenInv, scene' = scene, UNCHANGED <<proposed, sent, audits>>,
           now' \in Nat, config' \in Nat, content' \in Nat, strict' \in BOOLEAN,
           NoneBegins,
           store' \in [Stores -> SUBSET Proposals], \A s \in Stores : store'[s] \subseteq store[s],
           closed' \subseteq Proposals, closed \subseteq closed',
           \A p \in closed' \ closed : proposed[p] # Unshown /\ \A s \in Stores : p \notin store'[s]
    PROVE  Typed' /\ TokenInv'
<1>1. FlowOf' = FlowOf /\ ClickOf' = ClickOf /\ Stores' = Stores /\ \A q : StoreOf(q)' = StoreOf(q)
  BY DEF FlowOf, Stores, StoreOf, FlowAt, ClickOf
<1>2. Typed'
  BY <1>1 DEF Typed, NoneBegins
<1>3. \A b \in Attempts, p \in Proposals : Works(b, p)' => Works(b, p)
  BY DEF Works, NoneBegins
<1>4. \A p \in Proposals : Free(p) => Free(p)'
  BY <1>3 DEF Free
<1>5. \A p \in Proposals : proposed'[p] = Unshown => p \notin closed' /\ Free(p)' /\ \A s \in Stores' : p \notin store'[s]
  BY <1>1, <1>4 DEF TokenInv
<1>6. \A s \in Stores' : \A p \in store'[s] : p \in DOMAIN FlowOf' /\ StoreOf(p)' = s /\ p \notin closed' /\ Free(p)'
  BY <1>1, <1>4, SceneTyped DEF TokenInv
<1>7. \A p \in Proposals : \A b, e \in Attempts : Works(b, p)' /\ Works(e, p)' => b = e
  BY <1>3 DEF TokenInv
<1>8. \A b \in Attempts : attempts'[b].at # 0 => attempts'[b].prop \in DOMAIN FlowOf'
  BY <1>1 DEF TokenInv, NoneBegins
<1> QED BY <1>2, <1>5, <1>6, <1>7, <1>8 DEF TokenInv, Unshown

LEMMA ShowKeeps ==
    ASSUME Typed, TokenInv, scene' = scene, NEW p \in DOMAIN FlowOf, NEW c \in Nat, NEW d \in Nat, Issued(p, c, d),
           UNCHANGED <<now, config, content, strict, sent, audits, closed>>, NoneBegins
    PROVE  Typed' /\ TokenInv'
<1>0. /\ p \in Proposals /\ proposed[p] = Unshown
      /\ proposed' = [q \in Proposals |-> proposed'[q]]
      /\ \A q \in Proposals \ {p} : proposed'[q] = proposed[q]
      /\ proposed'[p].config = c /\ proposed'[p].content = d /\ proposed'[p].expires = now + Lifetime
      /\ proposed'[p] # Unshown
      /\ store' \in [Stores -> SUBSET Proposals] /\ StoreOf(p) \in Stores
      /\ \A s \in Stores : store'[s] \subseteq store[s] \cup (IF s = StoreOf(p) THEN {p} ELSE {})
  BY Shows
<1>1. FlowOf' = FlowOf /\ ClickOf' = ClickOf /\ Stores' = Stores /\ \A q : StoreOf(q)' = StoreOf(q)
  BY DEF FlowOf, Stores, StoreOf, FlowAt, ClickOf
<1>2. Typed'
  <2>1. now + Lifetime \in Nat
    BY Bounds DEF Typed
  <2>2. \A q \in Proposals : proposed'[q].config \in Nat /\ proposed'[q].content \in Nat /\ proposed'[q].expires \in Nat
    BY <1>0, <2>1 DEF Typed
  <2> QED BY <1>0, <1>1, <2>2 DEF Typed, NoneBegins
<1>3. \A b \in Attempts, q \in Proposals : Works(b, q)' => Works(b, q)
  BY DEF Works, NoneBegins
<1>4. \A q \in Proposals : Free(q) => Free(q)'
  BY <1>3 DEF Free
<1>5. p \notin closed /\ Free(p)
  BY <1>0 DEF TokenInv
<1>6. \A q \in Proposals : proposed'[q] = Unshown => q \notin closed' /\ Free(q)' /\ \A s \in Stores' : q \notin store'[s]
  BY <1>0, <1>1, <1>4 DEF TokenInv
<1>7. \A s \in Stores' : \A q \in store'[s] : q \in DOMAIN FlowOf' /\ StoreOf(q)' = s /\ q \notin closed' /\ Free(q)'
  <2> SUFFICES ASSUME NEW s \in Stores, NEW q \in store'[s]
               PROVE  q \in DOMAIN FlowOf /\ StoreOf(q) = s /\ q \notin closed /\ Free(q)'
    BY <1>1
  <2>1. CASE q \in store[s]
    BY <1>4, <2>1, SceneTyped DEF TokenInv
  <2>2. CASE q \notin store[s]
    BY <1>0, <1>4, <1>5, <2>2
  <2> QED BY <2>1, <2>2
<1>8. \A q \in Proposals : \A b, e \in Attempts : Works(b, q)' /\ Works(e, q)' => b = e
  BY <1>3 DEF TokenInv
<1>9. \A b \in Attempts : attempts'[b].at # 0 => attempts'[b].prop \in DOMAIN FlowOf'
  BY <1>1 DEF TokenInv, NoneBegins
<1> QED BY <1>2, <1>6, <1>7, <1>8, <1>9 DEF TokenInv, Unshown

-----------------------------------------------------------------------------
(* The refinement *)

\* The proposal q stands as before, or its offer or the work on it is given up.
Fades(q) == Offers'[q] = Offers[q] \/ (Offers[q] # "new" /\ Offers'[q] = "gone")

LEMMA Names == ASSUME NEW a \in Attempts PROVE a # "new" /\ a # "open" /\ a # "gone"
  BY ApprovalAssumption

\* Where a proposal stands, in a state and in the next.
LEMMA StandsNow ==
    ASSUME TokenInv, NEW q \in Proposals
    PROVE  /\ \A a \in Attempts : Works(a, q) => Standing(q) = a
           /\ Free(q) => Standing(q) = IF proposed[q] = Unshown THEN "new"
                                       ELSE IF Held(q) /\ q \notin closed /\ now <= proposed[q].expires
                                            THEN "open" ELSE "gone"
<1> DEFINE W == {a \in Attempts : attempts[a].at # 0 /\ attempts[a].prop = q}
<1>1. \A a \in Attempts : Works(a, q) => W = {a}
  BY DEF TokenInv, Works
<1>2. Free(q) => W = {}
  BY DEF Free, Works
<1> HIDE DEF W
<1>3. Standing(q) = IF W # {} THEN CHOOSE a \in W : TRUE
                    ELSE IF proposed[q] = Unshown THEN "new"
                    ELSE IF Held(q) /\ q \notin closed /\ now <= proposed[q].expires THEN "open" ELSE "gone"
  BY DEF W, Standing
<1> QED BY <1>1, <1>2, <1>3

LEMMA StandsNext ==
    ASSUME TokenInv', NEW q \in Proposals
    PROVE  /\ \A a \in Attempts : Works(a, q)' => Standing(q)' = a
           /\ Free(q)' => Standing(q)' = IF proposed'[q] = Unshown THEN "new"
                                         ELSE IF Held(q)' /\ q \notin closed' /\ now' <= proposed'[q].expires
                                              THEN "open" ELSE "gone"
<1> DEFINE W == {a \in Attempts : attempts'[a].at # 0 /\ attempts'[a].prop = q}
<1>1. \A a \in Attempts : Works(a, q)' => W = {a}
  BY DEF TokenInv, Works
<1>2. Free(q)' => W = {}
  BY DEF Free, Works
<1> HIDE DEF W
<1>3. Standing(q)' = IF W # {} THEN CHOOSE a \in W : TRUE
                     ELSE IF proposed'[q] = Unshown THEN "new"
                     ELSE IF Held(q)' /\ q \notin closed' /\ now' <= proposed'[q].expires THEN "open" ELSE "gone"
  BY DEF W, Standing, Unshown
<1> QED BY <1>1, <1>2, <1>3

\* A proposal nobody begins to work on, and that no store takes up, keeps its standing or loses it.
LEMMA Fading ==
    ASSUME Typed, TokenInv, TokenInv', scene' = scene, now' \in Nat, now <= now',
           NEW q \in Proposals, proposed'[q] = proposed[q], closed \subseteq closed',
           Held(q)' => Held(q),
           \A b \in Attempts : Works(b, q)' => Works(b, q)
    PROVE  Fades(q)
<1>1. FlowOf' = FlowOf
  BY DEF FlowOf
<1>2. CASE q \notin DOMAIN FlowOf
  BY <1>1, <1>2 DEF Fades, Offers
<1>3. CASE q \in DOMAIN FlowOf
  <2>1. Offers[q] = Standing(q) /\ Offers'[q] = Standing(q)'
    BY <1>1, <1>3 DEF Offers
  <2>2. CASE Free(q)
    <3>1. Free(q)'
      BY <2>2 DEF Free
    <3>2. now' <= proposed[q].expires => now <= proposed[q].expires
      BY DEF Typed
    <3> QED BY <2>1, <2>2, <3>1, <3>2, StandsNow, StandsNext DEF Fades
  <2>3. CASE ~Free(q)
    <3>1. PICK a \in Attempts : Works(a, q)
      BY <2>3 DEF Free
    <3>2. Standing(q) = a /\ a # "new"
      BY <3>1, StandsNow, Names
    <3>3. CASE Works(a, q)'
      BY <2>1, <3>2, <3>3, StandsNext DEF Fades
    <3>4. CASE ~Works(a, q)'
      <4>1. Free(q)'
        BY <3>1, <3>4 DEF Free, TokenInv
      <4>2. proposed'[q] # Unshown
        BY <3>1 DEF TokenInv, Free
      <4>3. ~Held(q)
        <5>1. StoreOf(q) \in Stores
          BY <1>3 DEF Stores
        <5> QED BY <3>1, <5>1 DEF TokenInv, Free, Held
      <4> QED BY <2>1, <3>2, <4>1, <4>2, <4>3, StandsNext DEF Fades
    <3> QED BY <3>3, <3>4
  <2> QED BY <2>2, <2>3
<1> QED BY <1>2, <1>3

\* Steps of the promise, from what they do to each proposal.
LEMMA Withdraws ==
    ASSUME \A q \in Proposals : Fades(q), Effects' = Effects
    PROVE  Promise!Next
<1> DEFINE ps == {q \in Proposals : Offers'[q] # Offers[q]}
<1>1. \A q \in ps : Offers[q] # "new" /\ Offers'[q] = "gone"
  BY DEF Fades
<1>2. Offers' = [q \in Proposals |-> IF q \in ps THEN "gone" ELSE Offers[q]]
  <2>1. Offers' = [q \in Proposals |-> Offers'[q]]
    BY DEF Offers
  <2> QED BY <1>1, <2>1
<1>3. ps \in SUBSET Proposals
  OBVIOUS
<1> HIDE DEF ps
<1>4. Promise!Withdraw(ps)
  BY <1>1, <1>2 DEF Promise!Withdraw, Promise!Gone
<1> QED BY <1>3, <1>4 DEF Promise!Next

LEMMA Offered ==
    ASSUME NEW p \in Proposals, Offers[p] = "new", Offers'[p] = "open",
           \A q \in Proposals \ {p} : Fades(q), Effects' = Effects
    PROVE  Promise!Next
<1> DEFINE ps == {q \in Proposals \ {p} : Offers'[q] # Offers[q]}
<1>1. \A q \in ps : Offers[q] # "new" /\ Offers'[q] = "gone"
  BY DEF Fades
<1>2. Offers' = [[q \in Proposals |-> IF q \in ps THEN "gone" ELSE Offers[q]] EXCEPT ![p] = "open"]
  <2>1. Offers' = [q \in Proposals |-> Offers'[q]]
    BY DEF Offers
  <2> QED BY <1>1, <2>1
<1>3. ps \in SUBSET Proposals
  OBVIOUS
<1> HIDE DEF ps
<1>4. Promise!Offer(p, ps)
  BY <1>1, <1>2 DEF Promise!Offer, Promise!Gone
<1> QED BY <1>3, <1>4 DEF Promise!Next

LEMMA Worked ==
    ASSUME NEW p \in Proposals, NEW a \in Attempts, Offers[p] \in {"open", a}, Offers'[p] \in {a, "gone"},
           \A q \in Proposals \ {p} : Offers'[q] = Offers[q],
           Effects' = Effects \/ \E k \in 0..MaxTurns : Effects' = Effects \cup {<<p, a, k>>}
    PROVE  Promise!Next
<1>1. Offers' = [Offers EXCEPT ![p] = Offers'[p]]
  <2>1. Offers = [q \in Proposals |-> Offers[q]] /\ Offers' = [q \in Proposals |-> Offers'[q]]
    BY DEF Offers
  <2> QED BY <2>1
<1>2. Promise!Work(p, a)
  BY <1>1 DEF Promise!Work
<1> QED BY <1>2 DEF Promise!Next

\* What is sent for a proposal is an effect of the handler that sends it.
LEMMA EffectsGrow ==
    ASSUME NEW p, NEW a, NEW k, NEW x, NEW y, NEW z,
           sent' = sent \cup {[key |-> <<a, k>>, prop |-> p, config |-> x, content |-> y, open |-> z]}
    PROVE  Effects' = Effects \cup {<<p, a, k>>}
<1> DEFINE m == [key |-> <<a, k>>, prop |-> p, config |-> x, content |-> y, open |-> z]
<1>1. m.prop = p /\ m.key[1] = a /\ m.key[2] = k /\ sent' = sent \cup {m}
  OBVIOUS
<1> HIDE DEF m
<1> QED BY <1>1 DEF Effects

LEMMA HandlerPromised ==
    ASSUME Typed, TokenInv, NEW a \in Attempts, HandlerStep(a)
    PROVE  Promise!Next
<1>0. attempts[a] \in Attempt /\ attempts[a].at # 0 /\ attempts[a].prop \in DOMAIN FlowOf
  BY DEF HandlerStep, Typed, TokenInv
<1> PICK p \in DOMAIN FlowOf : p = attempts[a].prop
  BY <1>0
<1>1. attempts[a] \in Attempt /\ attempts[a].at # 0 /\ p \in DOMAIN FlowOf /\ p \in Proposals
  BY <1>0, SceneTyped
<1>2. Typed' /\ TokenInv' /\ \A b \in Attempts \ {a} : attempts'[b] = attempts[b]
  BY HandlerKeeps
<1>3. UNCHANGED <<scene, now, proposed, store, closed>>
  BY DEF HandlerStep
<1>4. FlowOf' = FlowOf /\ \A q : Held(q)' <=> Held(q)
  BY <1>3 DEF FlowOf, Held, StoreOf
<1>5. attempts'[a].prop = p
  <2>1. PICK w \in Attempt : attempts' = [attempts EXCEPT ![a] = w] /\ w.prop = attempts[a].prop
    BY DEF HandlerStep
  <2> QED BY <2>1 DEF Typed
<1>6. Works(a, p)
  BY <1>1 DEF Works
<1>7. Offers[p] = a
  BY <1>1, <1>6, StandsNow DEF Offers
<1>8. Offers'[p] \in {a, "gone"}
  <2>1. Offers'[p] = Standing(p)'
    BY <1>1, <1>4 DEF Offers
  <2>2. CASE attempts'[a].at # 0
    <3>1. Works(a, p)'
      BY <1>5, <2>2 DEF Works
    <3> QED BY <1>1, <1>2, <2>1, <3>1, StandsNext
  <2>3. CASE attempts'[a].at = 0
    <3>1. Free(p)'
      BY <1>1, <1>2, <1>6, <2>3 DEF Free, Works, TokenInv
    <3>2. proposed[p] # Unshown /\ ~Held(p)
      <4>1. StoreOf(p) \in Stores
        BY <1>1 DEF Stores
      <4> QED BY <1>1, <1>6, <4>1 DEF TokenInv, Free, Held
    <3> QED BY <1>1, <1>2, <1>3, <1>4, <2>1, <3>1, <3>2, StandsNext
  <2> QED BY <2>2, <2>3
<1>9. \A q \in Proposals \ {p} : Offers'[q] = Offers[q]
  <2> SUFFICES ASSUME NEW q \in Proposals \ {p} PROVE Offers'[q] = Offers[q]
    OBVIOUS
  <2>1. \A b \in Attempts : Works(b, q)' <=> Works(b, q)
    BY <1>2, <1>5 DEF Works
  <2>2. Standing(q)' = Standing(q)
    <3>1. CASE Free(q)
      BY <1>2, <1>3, <1>4, <2>1, <3>1, StandsNow, StandsNext DEF Free
    <3>2. CASE ~Free(q)
      BY <1>2, <2>1, <3>2, StandsNow, StandsNext DEF Free
    <3> QED BY <3>1, <3>2
  <2> QED BY <1>4, <2>2 DEF Offers
<1>10. Effects' = Effects \/ \E k \in 0..MaxTurns : Effects' = Effects \cup {<<p, a, k>>}
  <2>1. sent' = sent => Effects' = Effects
    BY DEF Effects
  <2>2. attempts[a].turn \in 0..MaxTurns
    BY <1>1 DEF Attempt
  <2>3. sent' # sent => Effects' = Effects \cup {<<p, a, attempts[a].turn>>}
    <3>1. sent' # sent => sent' = sent \cup {[key |-> <<a, attempts[a].turn>>, prop |-> p,
            config |-> attempts[a].config, content |-> attempts[a].content, open |-> attempts[a].open]}
      BY DEF HandlerStep, Key
    <3>2. CASE sent' # sent
      <4> PICK k, x, y, z : k = attempts[a].turn /\ x = attempts[a].config /\ y = attempts[a].content
                             /\ z = attempts[a].open
        OBVIOUS
      <4>1. sent' = sent \cup {[key |-> <<a, k>>, prop |-> p, config |-> x, content |-> y, open |-> z]}
        BY <3>1, <3>2
      <4>2. Effects' = Effects \cup {<<p, a, k>>}
        BY <4>1, EffectsGrow
      <4> QED BY <4>2
    <3> QED BY <3>2
  <2> QED BY <2>1, <2>2, <2>3
<1> QED BY <1>1, <1>7, <1>8, <1>9, <1>10, Worked

LEMMA ClickPromised ==
    ASSUME Typed, TokenInv, NEW p \in DOMAIN FlowOf, NEW a \in DOMAIN ClickOf, NEW c \in Versions,
           Approve(a, p, c), scene' = scene
    PROVE  Promise!Next
<1>1. /\ p \in Proposals /\ a \in Attempts /\ attempts[a] = NoAttempt /\ proposed[p] # Unshown
      /\ UNCHANGED <<now, proposed, closed>>
  BY Clicks
<1>2. /\ Typed' /\ TokenInv' /\ \A b \in Attempts \ {a} : attempts'[b] = attempts[b]
      /\ ~Held(p)' /\ \A q \in DOMAIN FlowOf \ {p} : Held(q)' <=> Held(q)
  BY ClickKeeps
<1>3. PICK v \in Attempt : attempts' = [attempts EXCEPT ![a] = v] /\ v.prop = p /\ (v.at # 0 => Presented(p))
  BY Clicks
<1>4. attempts'[a] = v /\ FlowOf' = FlowOf
  BY <1>1, <1>3 DEF Typed, FlowOf
<1>5. \A b \in Attempts, q \in Proposals \ {p} : Works(b, q)' <=> Works(b, q)
  <2>1. NoAttempt.at = 0
    BY DEF NoAttempt
  <2> QED BY <1>1, <1>2, <1>3, <1>4, <2>1 DEF Works
<1>6. \A q \in Proposals \ {p} : Offers'[q] = Offers[q]
  <2> SUFFICES ASSUME NEW q \in Proposals \ {p} PROVE Offers'[q] = Offers[q]
    OBVIOUS
  <2>1. CASE q \in DOMAIN FlowOf
    <3>1. Held(q)' <=> Held(q)
      BY <1>2, <2>1
    <3>2. Standing(q)' = Standing(q)
      <4>1. CASE Free(q)
        BY <1>1, <1>2, <1>5, <3>1, <4>1, StandsNow, StandsNext DEF Free
      <4>2. CASE ~Free(q)
        BY <1>2, <1>5, <4>2, StandsNow, StandsNext DEF Free
      <4> QED BY <4>1, <4>2
    <3> QED BY <1>4, <3>2 DEF Offers
  <2>2. CASE q \notin DOMAIN FlowOf
    BY <1>4, <2>2 DEF Offers
  <2> QED BY <2>1, <2>2
<1>7. Offers[p] = Standing(p) /\ Offers'[p] = Standing(p)'
  BY <1>1, <1>4 DEF Offers
<1>8. CASE Presented(p)
  <2>1. Free(p) /\ p \notin closed
    <3>1. StoreOf(p) \in Stores
      BY DEF Stores
    <3> QED BY <1>8, <3>1 DEF Presented, Held, TokenInv
  <2>2. Offers[p] = "open"
    BY <1>1, <1>7, <1>8, <2>1, StandsNow DEF Presented
  <2>3. Offers'[p] \in {a, "gone"}
    <3>1. CASE v.at # 0
      <4>1. Works(a, p)'
        BY <1>3, <1>4, <3>1 DEF Works
      <4> QED BY <1>1, <1>2, <1>7, <4>1, StandsNext
    <3>2. CASE v.at = 0
      <4>1. Free(p)'
        BY <1>2, <1>4, <2>1, <3>2 DEF Free, Works
      <4> QED BY <1>1, <1>2, <1>7, <4>1, StandsNext
    <3> QED BY <3>1, <3>2
  <2>4. Effects' = Effects \/ \E k \in 0..MaxTurns : Effects' = Effects \cup {<<p, a, k>>}
    <3>1. sent' = sent => Effects' = Effects
      BY DEF Effects
    <3>2. sent' # sent => Effects' = Effects \cup {<<p, a, 1>>}
      <4>1. sent' # sent => sent' = sent \cup {[key |-> <<a, 1>>, prop |-> p,
              config |-> Begin(a, p, c).config, content |-> Begin(a, p, c).content, open |-> Begin(a, p, c).open]}
        BY Clicks
      <4> QED BY <4>1, EffectsGrow
    <3>3. 1 \in 0..MaxTurns
      BY Bounds
    <3> QED BY <3>1, <3>2, <3>3
  <2> QED BY <1>1, <1>6, <2>2, <2>3, <2>4, Worked
<1>9. CASE ~Presented(p)
  <2>1. Effects' = Effects
    <3>1. sent' = sent
      BY <1>9, Clicks
    <3> QED BY <3>1 DEF Effects
  <2>2. Fades(p)
    <3>1. \A b \in Attempts : Works(b, p)' => Works(b, p)
      BY <1>2, <1>3, <1>4, <1>9 DEF Works
    <3>2. now' \in Nat /\ now <= now'
      BY <1>1 DEF Typed
    <3> QED BY <1>1, <1>2, <3>1, <3>2, Fading
  <2>3. \A q \in Proposals : Fades(q)
    BY <1>6, <2>2 DEF Fades
  <2> QED BY <2>1, <2>3, Withdraws
<1> QED BY <1>8, <1>9

\* Steps in which the stores only lose proposals.
LEMMA LossPromised ==
    ASSUME Typed, TokenInv, TokenInv', scene' = scene, UNCHANGED <<proposed, sent>>,
           now' \in Nat, now <= now', NoneBegins,
           store' \in [Stores -> SUBSET Proposals], \A s \in Stores : store'[s] \subseteq store[s],
           closed \subseteq closed'
    PROVE  Promise!Next
<1>1. Effects' = Effects
  BY DEF Effects
<1>2. \A b \in Attempts, q \in Proposals : Works(b, q)' => Works(b, q)
  BY DEF Works, NoneBegins
<1>3. \A q \in DOMAIN FlowOf : Held(q)' => Held(q)
  <2>1. \A q \in DOMAIN FlowOf : StoreOf(q) \in Stores /\ StoreOf(q)' = StoreOf(q)
    BY DEF Stores, StoreOf, FlowOf
  <2> QED BY <2>1 DEF Held
<1>4. \A q \in Proposals : Fades(q)
  <2> SUFFICES ASSUME NEW q \in Proposals PROVE Fades(q)
    OBVIOUS
  <2>1. CASE q \in DOMAIN FlowOf
    BY <1>2, <1>3, <2>1, Fading
  <2>2. CASE q \notin DOMAIN FlowOf
    BY <2>2 DEF Fades, Offers, FlowOf
  <2> QED BY <2>1, <2>2
<1> QED BY <1>1, <1>4, Withdraws

LEMMA ShowPromised ==
    ASSUME Typed, TokenInv, TokenInv', scene' = scene, NEW p \in DOMAIN FlowOf, NEW c \in Nat, NEW d \in Nat,
           Issued(p, c, d), UNCHANGED <<now, sent, closed>>, NoneBegins
    PROVE  Promise!Next
<1>0. /\ p \in Proposals /\ proposed[p] = Unshown /\ proposed'[p] # Unshown
      /\ \A q \in Proposals \ {p} : proposed'[q] = proposed[q]
      /\ proposed'[p].expires = now + Lifetime
      /\ p \in store'[StoreOf(p)]
      /\ \A s \in Stores : store'[s] \subseteq store[s] \cup (IF s = StoreOf(p) THEN {p} ELSE {})
  BY Shows
<1>1. Effects' = Effects
  BY DEF Effects
<1>2. \A b \in Attempts, q \in Proposals : Works(b, q)' => Works(b, q)
  BY DEF Works, NoneBegins
<1>3. FlowOf' = FlowOf /\ \A q \in DOMAIN FlowOf : StoreOf(q) \in Stores /\ StoreOf(q)' = StoreOf(q)
  BY DEF Stores, StoreOf, FlowOf
<1>4. \A q \in DOMAIN FlowOf \ {p} : Held(q)' => Held(q)
  BY <1>0, <1>3 DEF Held
<1>5. now \in Nat /\ now <= now' /\ now' <= now + Lifetime
  BY Bounds DEF Typed
<1>6. \A q \in Proposals \ {p} : Fades(q)
  <2> SUFFICES ASSUME NEW q \in Proposals \ {p} PROVE Fades(q)
    OBVIOUS
  <2>1. CASE q \in DOMAIN FlowOf
    BY <1>0, <1>2, <1>4, <1>5, <2>1, Fading
  <2>2. CASE q \notin DOMAIN FlowOf
    BY <1>3, <2>2 DEF Fades, Offers
  <2> QED BY <2>1, <2>2
<1>7. Free(p) /\ p \notin closed
  BY <1>0 DEF TokenInv
<1>8. Offers[p] = "new"
  BY <1>0, <1>7, StandsNow DEF Offers
<1>9. Offers'[p] = "open"
  <2>1. Free(p)' /\ Held(p)'
    BY <1>0, <1>2, <1>3, <1>7 DEF Free, Held
  <2>2. Standing(p)' = "open"
    BY <1>0, <1>5, <1>7, <2>1, StandsNext
  <2> QED BY <1>0, <1>3, <2>2 DEF Offers
<1> QED BY <1>0, <1>1, <1>6, <1>8, <1>9, Offered

\* Around the clicks: what the person edits and dismisses, the clock, and the stop.
Around == (\E p \in DOMAIN FlowOf : Dismiss(p)) \/ EditConfig \/ EditData \/ SetPolicy \/ Tick \/ Stop

LEMMA AroundLoses ==
    ASSUME Typed, TokenInv, Around, scene' = scene
    PROVE  /\ UNCHANGED <<proposed, sent, audits>>
           /\ now' \in Nat /\ now <= now' /\ config' \in Nat /\ content' \in Nat /\ strict' \in BOOLEAN
           /\ NoneBegins
           /\ store' \in [Stores -> SUBSET Proposals] /\ \A s \in Stores : store'[s] \subseteq store[s]
           /\ closed' \subseteq Proposals /\ closed \subseteq closed'
           /\ \A p \in closed' \ closed : proposed[p] # Unshown /\ \A s \in Stores : p \notin store'[s]
<1>1. /\ attempts \in [Attempts -> Attempt] /\ store \in [Stores -> SUBSET Proposals]
      /\ closed \subseteq Proposals /\ strict \in BOOLEAN
  BY DEF Typed
<1>2. now \in Nat /\ config \in Nat /\ content \in Nat
  BY DEF Typed
<1>3. attempts' = attempts => NoneBegins
  BY <1>1 DEF NoneBegins
<1>4. ASSUME NEW p \in DOMAIN FlowOf, Dismiss(p)
      PROVE  /\ UNCHANGED <<now, config, content, strict, proposed, attempts, sent, audits>>
             /\ closed' = closed \cup {p} /\ proposed[p] # Unshown /\ p \in Proposals
             /\ store' \in [Stores -> SUBSET Proposals]
             /\ \A s \in Stores : store'[s] \subseteq store[s] /\ p \notin store'[s]
  <2>1. StoreOf(p) \in Stores /\ p \in Proposals
    BY SceneTyped DEF Stores
  <2>2. store' = [store EXCEPT ![StoreOf(p)] = @ \ {p}]
    BY <1>4 DEF Dismiss, Revoke, TokenTaken
  <2>3. \A s \in Stores \ {StoreOf(p)} : p \notin store[s]
    BY DEF TokenInv
  <2>4. \A s \in Stores : store'[s] \subseteq store[s] /\ p \notin store'[s]
    BY <1>1, <2>1, <2>2, <2>3
  <2> QED BY <1>1, <1>4, <2>1, <2>2, <2>4 DEF Dismiss
<1>5. CASE \E p \in DOMAIN FlowOf : Dismiss(p)
  <2> PICK p \in DOMAIN FlowOf : Dismiss(p)
    BY <1>5
  <2> QED BY <1>1, <1>2, <1>3, <1>4
<1>6. CASE EditConfig \/ EditData
  BY <1>1, <1>2, <1>3, <1>6 DEF EditConfig, EditData
<1>7. CASE SetPolicy
  <2> DEFINE o(b) == attempts[b].open \/ (strict /\ attempts[b].at # 0)
  <2>1. attempts' = [b \in Attempts |-> [attempts[b] EXCEPT !.open = o(b)]]
    BY <1>7 DEF SetPolicy
  <2>2. \A b \in Attempts : o(b) \in BOOLEAN
    OBVIOUS
  <2> HIDE DEF o
  <2>3. \A b \in Attempts : /\ [attempts[b] EXCEPT !.open = o(b)] \in Attempt
                            /\ [attempts[b] EXCEPT !.open = o(b)].at = attempts[b].at
                            /\ [attempts[b] EXCEPT !.open = o(b)].prop = attempts[b].prop
    <3> SUFFICES ASSUME NEW b \in Attempts
                 PROVE  /\ [attempts[b] EXCEPT !.open = o(b)] \in Attempt
                        /\ [attempts[b] EXCEPT !.open = o(b)].at = attempts[b].at
                        /\ [attempts[b] EXCEPT !.open = o(b)].prop = attempts[b].prop
      OBVIOUS
    <3>1. attempts[b] \in Attempt /\ o(b) \in BOOLEAN
      BY <1>1, <2>2
    <3> QED BY <3>1 DEF Attempt
  <2>4. NoneBegins
    BY <2>1, <2>3 DEF NoneBegins
  <2>5. UNCHANGED <<now, config, content, proposed, store, sent, audits, closed>> /\ strict' \in BOOLEAN
    BY <1>1, <1>7 DEF SetPolicy
  <2> QED BY <1>1, <1>2, <2>4, <2>5
<1>8. CASE Tick
  BY <1>1, <1>2, <1>3, <1>8 DEF Tick
<1>9. CASE Stop
  <2>1. store' = [s \in Stores |-> {}] /\ attempts' = [b \in Attempts |-> Over(attempts[b])]
        /\ UNCHANGED <<now, config, content, strict, proposed, sent, audits, closed>>
    BY <1>9 DEF Stop
  <2>2. NoneBegins
    BY <1>1, <2>1, Begun DEF NoneBegins
  <2>3. store' \in [Stores -> SUBSET Proposals] /\ \A s \in Stores : store'[s] \subseteq store[s]
    BY <2>1
  <2> QED BY <1>1, <1>2, <2>1, <2>2, <2>3
<1> QED BY <1>5, <1>6, <1>7, <1>8, <1>9 DEF Around

\* Every step keeps the invariants and is a step of the promise, or none of it.
LEMMA EveryStep ==
    Typed /\ TokenInv /\ [ApprovalNext]_approvalVars => Typed' /\ TokenInv' /\ [Promise!Next]_<<Offers, Effects>>
<1> SUFFICES ASSUME Typed, TokenInv, [ApprovalNext]_approvalVars
             PROVE  Typed' /\ TokenInv' /\ [Promise!Next]_<<Offers, Effects>>
  OBVIOUS
<1>1. CASE UNCHANGED approvalVars
  <2>1. /\ UNCHANGED <<scene, now, config, content, strict, proposed, store, attempts, sent, audits, closed>>
        /\ FlowOf' = FlowOf /\ Stores' = Stores /\ \A q : StoreOf(q)' = StoreOf(q)
    BY <1>1 DEF approvalVars, FlowOf, Stores, StoreOf, FlowAt, ClickOf
  <2>2. Typed'
    BY <2>1 DEF Typed
  <2>3. TokenInv'
    BY <2>1 DEF TokenInv, Free, Works, Unshown
  <2>4. UNCHANGED <<Offers, Effects>>
    BY <2>1 DEF Offers, Effects, Standing, Held, Unshown
  <2> QED BY <2>2, <2>3, <2>4
<1>2. CASE ApprovalNext
  <2>1. scene' = scene
    BY <1>2 DEF ApprovalNext
  <2>2. ASSUME NEW p \in DOMAIN FlowOf, Prepare(p) PROVE Typed' /\ TokenInv' /\ Promise!Next
    <3>1. PICK d \in 0..content : Issued(p, config, d)
      BY <2>2 DEF Prepare
    <3>2. config \in Nat /\ d \in Nat
      BY DEF Typed
    <3>3. UNCHANGED <<now, config, content, strict, attempts, sent, audits, closed>>
      BY <2>2 DEF Prepare
    <3>4. NoneBegins
      BY <3>3 DEF NoneBegins, Typed
    <3>5. Typed' /\ TokenInv'
      BY <2>1, <3>1, <3>2, <3>3, <3>4, ShowKeeps
    <3> QED BY <2>1, <3>1, <3>2, <3>3, <3>4, <3>5, ShowPromised
  <2>3. ASSUME NEW a \in Attempts, NEW p \in DOMAIN FlowOf, Propose(a, p) PROVE Typed' /\ TokenInv' /\ Promise!Next
    <3>1. /\ Issued(p, attempts[a].config, content) /\ attempts' = Onward(a)
          /\ attempts[a].at \in 2..Len(FlowAt(a).steps)
          /\ UNCHANGED <<now, config, content, strict, sent, audits, closed>>
      BY <2>3 DEF Propose, Ready
    <3>2. attempts[a].config \in Nat /\ content \in Nat
      BY DEF Typed, Attempt
    <3>3. NoneBegins
      BY <3>1, OnwardBegins
    <3>4. Typed' /\ TokenInv'
      BY <2>1, <3>1, <3>2, <3>3, ShowKeeps
    <3> QED BY <2>1, <3>1, <3>2, <3>3, <3>4, ShowPromised
  <2>4. ASSUME NEW a \in DOMAIN ClickOf, NEW p \in DOMAIN FlowOf, NEW c \in Versions, Approve(a, p, c)
        PROVE  Typed' /\ TokenInv' /\ Promise!Next
    BY <2>1, <2>4, ClickKeeps, ClickPromised
  <2>5. ASSUME NEW a \in Attempts,
               Read(a) \/ Clear(a) \/ StartAudit(a) \/ Send(a) \/ Finish(a) \/ Turn(a) \/ Fail(a)
        PROVE  Typed' /\ TokenInv' /\ Promise!Next
    <3>1. HandlerStep(a)
      BY <2>1, <2>5, HandlerSteps
    <3> QED BY <3>1, HandlerKeeps, HandlerPromised
  <2>6. ASSUME Around PROVE Typed' /\ TokenInv' /\ Promise!Next
    <3>1. Typed' /\ TokenInv'
      BY <2>1, <2>6, AroundLoses, LossKeeps
    <3> QED BY <2>1, <2>6, <3>1, AroundLoses, LossPromised
  <2>7. DOMAIN ClickOf \subseteq Attempts
    BY SceneTyped
  <2> QED BY <1>2, <2>2, <2>3, <2>4, <2>5, <2>6, <2>7 DEF ApprovalNext, Click, Around
<1> QED BY <1>1, <1>2

LEMMA AtFirst == ApprovalInit => Typed /\ TokenInv /\ Promise!Init
<1> SUFFICES ASSUME ApprovalInit PROVE Typed /\ TokenInv /\ Promise!Init
  OBVIOUS
<1>1. Typed
  <2>1. attempts \in [Attempts -> Attempt]
    BY Begun DEF ApprovalInit
  <2>2. \A p \in Proposals : proposed[p].config = 0 /\ proposed[p].content = 0 /\ proposed[p].expires = 0
    BY DEF ApprovalInit, Unshown
  <2>3. proposed = [p \in Proposals |-> proposed[p]] /\ store \in [Stores -> SUBSET Proposals]
    BY DEF ApprovalInit
  <2>4. sent \subseteq Effect /\ audits \in [Attempts \X (0..MaxTurns) -> {"none", "started", "succeeded", "failed"}]
    BY DEF ApprovalInit
  <2>5. scene \in Scenes /\ now \in Nat /\ config \in Nat /\ content \in Nat /\ closed \subseteq Proposals
    BY DEF ApprovalInit
  <2>6. strict \in BOOLEAN
    BY DEF ApprovalInit
  <2>7. \A p \in Proposals : proposed[p].config \in Nat /\ proposed[p].content \in Nat /\ proposed[p].expires \in Nat
    BY <2>2
  <2> QED BY <2>1, <2>3, <2>4, <2>5, <2>6, <2>7 DEF Typed
<1>2. \A a \in Attempts : \A p : ~Works(a, p)
  BY DEF ApprovalInit, NoAttempt, Works
<1>3. TokenInv
  <2>1. \A a \in Attempts : attempts[a].at = 0
    BY DEF ApprovalInit, NoAttempt
  <2> QED BY <1>2, <2>1 DEF ApprovalInit, TokenInv, Free
<1>4. Promise!Init
  <2>1. \A p \in Proposals : Offers[p] = "new"
    BY <1>2, <1>3, StandsNow DEF Offers, Free, ApprovalInit
  <2>2. Offers = [p \in Proposals |-> "new"]
    BY <2>1 DEF Offers
  <2>3. Effects = {}
    BY DEF ApprovalInit, Effects
  <2> QED BY <2>2, <2>3 DEF Promise!Init
<1> QED BY <1>1, <1>3, <1>4

\* Every flow over every store keeps what the dialogs promise (KeepsPromise): one handler at
\* most works on a proposal and acts for it, and none that is dismissed, refused, expired,
\* pushed out or lost comes back.
THEOREM PromiseKept == ApprovalSpec => KeepsPromise
<1> QED BY AtFirst, EveryStep, PTL DEF ApprovalSpec, KeepsPromise, Promise!Spec, Promise!vars

-----------------------------------------------------------------------------
(* Walks *)

\* What the proofs need to know of the fourteen walks: what binds the approval to the
\* destination and to the request, that what is read again is compared before anything
\* else happens, that a guarded flow asks for the policy, and where records are written.
WellTaken(f) ==
    LET S == FlowNamed(f).steps IN
    /\ Len(S) \in 1..8 /\ Head(S) = S[1]
    /\ f \notin {"clean", "reconcile"} => "config" \in S[1].need
    /\ FlowNamed(f).clicked => "content" \in S[1].need
    /\ f \in Guarded => /\ "send" \notin S[1].do
                        /\ "policy" \in S[1].need \/ (Len(S) > 1 /\ "read" \in S[2].do)
    /\ "send" \in S[1].do /\ f \notin Unlogged => "audit" \in S[1].do

WellStepped(f, i) ==
    LET S == FlowNamed(f).steps IN
    /\ "read" \in S[i].do => /\ i = 2 /\ S[2].do = {"read"} /\ Len(S) > 2 /\ S[3].do = {}
                             /\ {"content", "policy"} \subseteq S[3].need
    /\ "turn" \in S[i].do => /\ "read" \notin S[2].do /\ S[i].do = {"turn"}
                             /\ "audit" \notin S[1].do /\ "send" \notin S[1].do
    /\ "send" \in S[i].do /\ f \notin Unlogged => "audit" \in S[i].do \/ "audit" \in S[i - 1].do
    /\ "finish" \in S[i].do => "send" \in S[i - 1].do /\ S[i].do = {"finish"}
    /\ "propose" \in S[i].do => S[i].do = {"propose"}
    /\ "send" \in S[i].do \/ "audit" \in S[i].do => S[i].do \subseteq {"send", "audit"}

WellMade(f) == WellTaken(f) /\ \A i \in 2..Len(FlowNamed(f).steps) : WellStepped(f, i)

LEMMA AggregateExplanationWalks == WellMade("explanation")
<1> DEFINE S == FlowNamed("explanation").steps
<1>1. S = <<Step({"take"}, {"config"}), Step({"audit"}, {}), Step({"send"}, {}), Step({"finish"}, {})>>
  BY DEF FlowNamed, AggregateExplanation, Flow, AggregateSessions, Sessions, Audited
<1>2. FlowNamed("explanation").clicked = FALSE
  BY DEF FlowNamed, AggregateExplanation, Flow
<1>3. /\ Len(S) = 4 /\ Head(S) = S[1]
      /\ S[1] = Step({"take"}, {"config"})
      /\ S[2] = Step({"audit"}, {})
      /\ S[3] = Step({"send"}, {})
      /\ S[4] = Step({"finish"}, {})
  BY <1>1
<1> HIDE DEF S
<1> QED BY <1>2, <1>3 DEF WellMade, WellTaken, WellStepped, Step, S, Guarded, Unlogged

LEMMA AggregateAgentWalks == WellMade("agent")
<1> DEFINE S == FlowNamed("agent").steps
<1>1. S = <<Step({"take"}, {"config"}), Step({"audit"}, {}), Step({"send"}, {}), Step({"finish"}, {}),
            Step({"turn"}, {})>>
  BY DEF FlowNamed, AggregateAgent, Flow, AgentSessions, Sessions, Audited
<1>2. FlowNamed("agent").clicked = FALSE
  BY DEF FlowNamed, AggregateAgent, Flow
<1>3. /\ Len(S) = 5 /\ Head(S) = S[1]
      /\ S[1] = Step({"take"}, {"config"})
      /\ S[2] = Step({"audit"}, {})
      /\ S[3] = Step({"send"}, {})
      /\ S[4] = Step({"finish"}, {})
      /\ S[5] = Step({"turn"}, {})
  BY <1>1
<1> HIDE DEF S
<1>4. WellTaken("agent")
  BY <1>2, <1>3 DEF WellTaken, Step, S, Guarded, Unlogged
<1>5. ASSUME NEW i \in 2..5 PROVE WellStepped("agent", i)
  <2>1. CASE i = 2
    BY <2>1, <1>3 DEF WellStepped, Step, S, Guarded, Unlogged
  <2>2. CASE i = 3
    BY <2>2, <1>3 DEF WellStepped, Step, S, Guarded, Unlogged
  <2>3. CASE i = 4
    BY <2>3, <1>3 DEF WellStepped, Step, S, Guarded, Unlogged
  <2>4. CASE i = 5
    BY <2>4, <1>3 DEF WellStepped, Step, S, Guarded, Unlogged
  <2> QED BY <2>1, <2>2, <2>3, <2>4
<1> QED BY <1>3, <1>4, <1>5 DEF WellMade, S

LEMMA ExplicitRowsWalks == WellMade("rows")
<1> DEFINE S == FlowNamed("rows").steps
<1>1. S = <<Step({"take"}, {"config"}), Step({"read"}, {}), Step({}, {"content", "policy"}),
            Step({"audit"}, {}), Step({"send"}, {}), Step({"finish"}, {})>>
  BY DEF FlowNamed, ExplicitRows, Flow, RowSessions, Sessions, Audited
<1>2. FlowNamed("rows").clicked = FALSE
  BY DEF FlowNamed, ExplicitRows, Flow
<1>3. /\ Len(S) = 6 /\ Head(S) = S[1]
      /\ S[1] = Step({"take"}, {"config"})
      /\ S[2] = Step({"read"}, {})
      /\ S[3] = Step({}, {"content", "policy"})
      /\ S[4] = Step({"audit"}, {})
      /\ S[5] = Step({"send"}, {})
      /\ S[6] = Step({"finish"}, {})
  BY <1>1
<1> HIDE DEF S
<1>4. WellTaken("rows")
  BY <1>2, <1>3 DEF WellTaken, Step, S, Guarded, Unlogged
<1>5. ASSUME NEW i \in 2..6 PROVE WellStepped("rows", i)
  <2>1. CASE i = 2
    BY <2>1, <1>3 DEF WellStepped, Step, S, Guarded, Unlogged
  <2>2. CASE i = 3
    BY <2>2, <1>3 DEF WellStepped, Step, S, Guarded, Unlogged
  <2>3. CASE i = 4
    BY <2>3, <1>3 DEF WellStepped, Step, S, Guarded, Unlogged
  <2>4. CASE i = 5
    BY <2>4, <1>3 DEF WellStepped, Step, S, Guarded, Unlogged
  <2>5. CASE i = 6
    BY <2>5, <1>3 DEF WellStepped, Step, S, Guarded, Unlogged
  <2> QED BY <2>1, <2>2, <2>3, <2>4, <2>5
<1> QED BY <1>3, <1>4, <1>5 DEF WellMade, S

LEMMA KnowledgeAnswerWalks == WellMade("knowledge")
<1> DEFINE S == FlowNamed("knowledge").steps
<1>1. S = <<Step({"take"}, {"config"}), Step({"read"}, {}), Step({}, {"content", "policy"}),
            Step({"audit"}, {}), Step({"send"}, {}), Step({"finish"}, {})>>
  BY DEF FlowNamed, KnowledgeAnswer, Flow, KnowledgeSessions, Sessions, Audited
<1>2. FlowNamed("knowledge").clicked = FALSE
  BY DEF FlowNamed, KnowledgeAnswer, Flow
<1>3. /\ Len(S) = 6 /\ Head(S) = S[1]
      /\ S[1] = Step({"take"}, {"config"})
      /\ S[2] = Step({"read"}, {})
      /\ S[3] = Step({}, {"content", "policy"})
      /\ S[4] = Step({"audit"}, {})
      /\ S[5] = Step({"send"}, {})
      /\ S[6] = Step({"finish"}, {})
  BY <1>1
<1> HIDE DEF S
<1>4. WellTaken("knowledge")
  BY <1>2, <1>3 DEF WellTaken, Step, S, Guarded, Unlogged
<1>5. ASSUME NEW i \in 2..6 PROVE WellStepped("knowledge", i)
  <2>1. CASE i = 2
    BY <2>1, <1>3 DEF WellStepped, Step, S, Guarded, Unlogged
  <2>2. CASE i = 3
    BY <2>2, <1>3 DEF WellStepped, Step, S, Guarded, Unlogged
  <2>3. CASE i = 4
    BY <2>3, <1>3 DEF WellStepped, Step, S, Guarded, Unlogged
  <2>4. CASE i = 5
    BY <2>4, <1>3 DEF WellStepped, Step, S, Guarded, Unlogged
  <2>5. CASE i = 6
    BY <2>5, <1>3 DEF WellStepped, Step, S, Guarded, Unlogged
  <2> QED BY <2>1, <2>2, <2>3, <2>4, <2>5
<1> QED BY <1>3, <1>4, <1>5 DEF WellMade, S

LEMMA McpPromptModelWalks == WellMade("promptModel")
<1> DEFINE S == FlowNamed("promptModel").steps
<1>1. S = <<Step({"take"}, {"config", "policy"}), Step({"audit"}, {}), Step({"send"}, {}),
            Step({"finish"}, {})>>
  BY DEF FlowNamed, McpPromptModel, Flow, ModelSessions, Sessions, Audited
<1>2. FlowNamed("promptModel").clicked = FALSE
  BY DEF FlowNamed, McpPromptModel, Flow
<1>3. /\ Len(S) = 4 /\ Head(S) = S[1]
      /\ S[1] = Step({"take"}, {"config", "policy"})
      /\ S[2] = Step({"audit"}, {})
      /\ S[3] = Step({"send"}, {})
      /\ S[4] = Step({"finish"}, {})
  BY <1>1
<1> HIDE DEF S
<1> QED BY <1>2, <1>3 DEF WellMade, WellTaken, WellStepped, Step, S, Guarded, Unlogged

LEMMA McpModelToolWalks == WellMade("modelTool")
<1> DEFINE S == FlowNamed("modelTool").steps
<1>1. S = <<Step({"take"}, {"config", "policy"}), Step({"audit"}, {}), Step({"send"}, {}),
            Step({"finish"}, {}), Step({"propose"}, {})>>
  BY DEF FlowNamed, McpModelTool, Flow, ModelSessions, Sessions, Audited
<1>2. FlowNamed("modelTool").clicked = FALSE
  BY DEF FlowNamed, McpModelTool, Flow
<1>3. /\ Len(S) = 5 /\ Head(S) = S[1]
      /\ S[1] = Step({"take"}, {"config", "policy"})
      /\ S[2] = Step({"audit"}, {})
      /\ S[3] = Step({"send"}, {})
      /\ S[4] = Step({"finish"}, {})
      /\ S[5] = Step({"propose"}, {})
  BY <1>1
<1> HIDE DEF S
<1>4. WellTaken("modelTool")
  BY <1>2, <1>3 DEF WellTaken, Step, S, Guarded, Unlogged
<1>5. ASSUME NEW i \in 2..5 PROVE WellStepped("modelTool", i)
  <2>1. CASE i = 2
    BY <2>1, <1>3 DEF WellStepped, Step, S, Guarded, Unlogged
  <2>2. CASE i = 3
    BY <2>2, <1>3 DEF WellStepped, Step, S, Guarded, Unlogged
  <2>3. CASE i = 4
    BY <2>3, <1>3 DEF WellStepped, Step, S, Guarded, Unlogged
  <2>4. CASE i = 5
    BY <2>4, <1>3 DEF WellStepped, Step, S, Guarded, Unlogged
  <2> QED BY <2>1, <2>2, <2>3, <2>4
<1> QED BY <1>3, <1>4, <1>5 DEF WellMade, S

LEMMA McpToolCallWalks == WellMade("tool")
<1> DEFINE S == FlowNamed("tool").steps
<1>1. S = <<Step({"take", "audit", "send"}, {"config", "content"}), Step({"finish"}, {})>>
  BY DEF FlowNamed, McpToolCall, Flow, ToolSessions, Sessions
<1>2. FlowNamed("tool").clicked = TRUE
  BY DEF FlowNamed, McpToolCall, Flow
<1>3. /\ Len(S) = 2 /\ Head(S) = S[1]
      /\ S[1] = Step({"take", "audit", "send"}, {"config", "content"})
      /\ S[2] = Step({"finish"}, {})
  BY <1>1
<1> HIDE DEF S
<1> QED BY <1>2, <1>3 DEF WellMade, WellTaken, WellStepped, Step, S, Guarded, Unlogged

LEMMA McpPromptGetWalks == WellMade("prompt")
<1> DEFINE S == FlowNamed("prompt").steps
<1>1. S = <<Step({"take", "audit", "send"}, {"config", "content"}), Step({"finish"}, {})>>
  BY DEF FlowNamed, McpPromptGet, Flow, PromptSessions, Sessions
<1>2. FlowNamed("prompt").clicked = TRUE
  BY DEF FlowNamed, McpPromptGet, Flow
<1>3. /\ Len(S) = 2 /\ Head(S) = S[1]
      /\ S[1] = Step({"take", "audit", "send"}, {"config", "content"})
      /\ S[2] = Step({"finish"}, {})
  BY <1>1
<1> HIDE DEF S
<1> QED BY <1>2, <1>3 DEF WellMade, WellTaken, WellStepped, Step, S, Guarded, Unlogged

LEMMA McpResourceReadWalks == WellMade("resource")
<1> DEFINE S == FlowNamed("resource").steps
<1>1. S = <<Step({"take", "audit", "send"}, {"config", "content"}), Step({"finish"}, {})>>
  BY DEF FlowNamed, McpResourceRead, Flow, ResourceSessions, Sessions
<1>2. FlowNamed("resource").clicked = FALSE
  BY DEF FlowNamed, McpResourceRead, Flow
<1>3. /\ Len(S) = 2 /\ Head(S) = S[1]
      /\ S[1] = Step({"take", "audit", "send"}, {"config", "content"})
      /\ S[2] = Step({"finish"}, {})
  BY <1>1
<1> HIDE DEF S
<1> QED BY <1>2, <1>3 DEF WellMade, WellTaken, WellStepped, Step, S, Guarded, Unlogged

LEMMA McpInspectionWalks == WellMade("inspect")
<1> DEFINE S == FlowNamed("inspect").steps
<1>1. S = <<Step({"take", "send"}, {"config"})>>
  BY DEF FlowNamed, McpInspection, Flow, InspectionSessions, Sessions
<1>2. FlowNamed("inspect").clicked = FALSE
  BY DEF FlowNamed, McpInspection, Flow
<1>3. /\ Len(S) = 1 /\ Head(S) = S[1]
      /\ S[1] = Step({"take", "send"}, {"config"})
  BY <1>1
<1> HIDE DEF S
<1> QED BY <1>2, <1>3 DEF WellMade, WellTaken, WellStepped, Step, S, Guarded, Unlogged

LEMMA RemoteInspectionWalks == WellMade("remoteInspect")
<1> DEFINE S == FlowNamed("remoteInspect").steps
<1>1. S = <<Step({"take"}, {"config"}), Step({"audit", "send"}, {}), Step({"finish"}, {})>>
  BY DEF FlowNamed, RemoteInspection, Flow, RemoteSessions, Sessions
<1>2. FlowNamed("remoteInspect").clicked = FALSE
  BY DEF FlowNamed, RemoteInspection, Flow
<1>3. /\ Len(S) = 3 /\ Head(S) = S[1]
      /\ S[1] = Step({"take"}, {"config"})
      /\ S[2] = Step({"audit", "send"}, {})
      /\ S[3] = Step({"finish"}, {})
  BY <1>1
<1> HIDE DEF S
<1> QED BY <1>2, <1>3 DEF WellMade, WellTaken, WellStepped, Step, S, Guarded, Unlogged

LEMMA RemoteToolCallWalks == WellMade("remoteTool")
<1> DEFINE S == FlowNamed("remoteTool").steps
<1>1. S = <<Step({"take"}, {"config", "content"}), Step({"audit", "send"}, {}), Step({"finish"}, {})>>
  BY DEF FlowNamed, RemoteToolCall, Flow, RemoteToolSessions, Sessions
<1>2. FlowNamed("remoteTool").clicked = TRUE
  BY DEF FlowNamed, RemoteToolCall, Flow
<1>3. /\ Len(S) = 3 /\ Head(S) = S[1]
      /\ S[1] = Step({"take"}, {"config", "content"})
      /\ S[2] = Step({"audit", "send"}, {})
      /\ S[3] = Step({"finish"}, {})
  BY <1>1
<1> HIDE DEF S
<1> QED BY <1>2, <1>3 DEF WellMade, WellTaken, WellStepped, Step, S, Guarded, Unlogged

LEMMA DataCleanWalks == WellMade("clean")
<1> DEFINE S == FlowNamed("clean").steps
<1>1. S = <<Step({"take"}, {}), Step({"send"}, {"current"})>>
  BY DEF FlowNamed, DataClean, Flow, CleanSessions, Sessions
<1>2. FlowNamed("clean").clicked = FALSE
  BY DEF FlowNamed, DataClean, Flow
<1>3. /\ Len(S) = 2 /\ Head(S) = S[1]
      /\ S[1] = Step({"take"}, {})
      /\ S[2] = Step({"send"}, {"current"})
  BY <1>1
<1> HIDE DEF S
<1> QED BY <1>2, <1>3 DEF WellMade, WellTaken, WellStepped, Step, S, Guarded, Unlogged

LEMMA ReconciliationWalks == WellMade("reconcile")
<1> DEFINE S == FlowNamed("reconcile").steps
<1>1. S = <<Step({"take"}, {}), Step({"send"}, {"current"})>>
  BY DEF FlowNamed, Reconciliation, Flow, ReconciliationSessions, Sessions
<1>2. FlowNamed("reconcile").clicked = FALSE
  BY DEF FlowNamed, Reconciliation, Flow
<1>3. /\ Len(S) = 2 /\ Head(S) = S[1]
      /\ S[1] = Step({"take"}, {})
      /\ S[2] = Step({"send"}, {"current"})
  BY <1>1
<1> HIDE DEF S
<1> QED BY <1>2, <1>3 DEF WellMade, WellTaken, WellStepped, Step, S, Guarded, Unlogged

LEMMA AllWellMade == \A f \in Flows : WellMade(f)
  BY AggregateExplanationWalks, AggregateAgentWalks, ExplicitRowsWalks, KnowledgeAnswerWalks, McpPromptModelWalks,
     McpModelToolWalks, McpToolCallWalks, McpPromptGetWalks, McpResourceReadWalks, McpInspectionWalks,
     RemoteInspectionWalks, RemoteToolCallWalks, DataCleanWalks, ReconciliationWalks DEF Flows

-----------------------------------------------------------------------------
(* What is known of a handler on its walk *)

Path(a) == FlowAt(a).steps

\* The handler reads again, or has just done so.
Unread(a, w) == "read" \in Path(a)[2].do /\ w.at \in {2, 3}

\* It works on a proposal of its own flow, with the settings and the data that were shown.
Placed(a, w) ==
    /\ a \in DOMAIN ClickOf /\ w.at \in 2..Len(Path(a))
    /\ w.prop \in DOMAIN FlowOf /\ FlowOf[w.prop] = ClickOf[a] /\ proposed[w.prop] # Unshown
    /\ w.config = proposed[w.prop].config \/ ClickOf[a] \in {"clean", "reconcile"}
    /\ w.content = proposed[w.prop].content \/ (w.at = 3 /\ "read" \in Path(a)[2].do)

\* Strict private mode was off at some time since the handler took what it works on.
Watched(a, w) ==
    /\ ClickOf[a] \in Guarded => w.open \/ Unread(a, w)
    /\ ~strict => w.open

\* The step behind it left its record, or its disclosure.
Noted(a, w) ==
    /\ "audit" \in Path(a)[w.at - 1].do => audits[<<a, w.turn>>] # "none"
    /\ "send" \in Path(a)[w.at - 1].do => \E m \in sent : m.key = <<a, w.turn>>

Walks(a, w) == Placed(a, w) /\ Watched(a, w) /\ Noted(a, w)

Proper(m) ==
    /\ m.prop \in Proposals /\ proposed[m.prop] # Unshown
    /\ m.config = proposed[m.prop].config \/ FlowOf[m.prop] \in {"clean", "reconcile"}
    /\ m.content = proposed[m.prop].content
    /\ FlowOf[m.prop] \in Guarded => m.open
    /\ FlowOf[m.prop] \notin Unlogged => audits[m.key] # "none"

WalkInv ==
    /\ \A a \in Attempts : attempts[a].at # 0 => Walks(a, attempts[a])
    /\ \A m \in sent : Proper(m)
    /\ \A k \in Attempts \X (0..MaxTurns) : audits[k] = "succeeded" => \E m \in sent : m.key = k

LEMMA WalkShows == Typed /\ WalkInv => SentAsReviewed /\ SentIsOnRecord /\ StrictStops
  BY DEF Typed, WalkInv, Proper, SentAsReviewed, SentIsOnRecord, StrictStops

\* What every step does to what others know: what was shown stays as it was, records and
\* disclosures are never taken back.
Grows ==
    /\ scene' = scene
    /\ \A q \in Proposals : proposed[q] # Unshown => proposed'[q] = proposed[q]
    /\ sent \subseteq sent'
    /\ \A k \in Attempts \X (0..MaxTurns) : audits[k] # "none" => audits'[k] # "none"

LEMMA StillPlaced == ASSUME Typed, Grows, NEW a, NEW w, Placed(a, w) PROVE Placed(a, w)'
<1>1. ClickOf' = ClickOf /\ FlowOf' = FlowOf /\ Path(a)' = Path(a)
  BY DEF Grows, ClickOf, FlowOf, Path, FlowAt
<1>2. w.prop \in Proposals /\ proposed'[w.prop] = proposed[w.prop]
  BY SceneTyped DEF Placed, Grows
<1> QED BY <1>1, <1>2 DEF Placed

LEMMA StillWatched == ASSUME Grows, NEW a, NEW w, Watched(a, w), strict' = strict
                      PROVE  Watched(a, w)'
<1>1. ClickOf' = ClickOf /\ Path(a)' = Path(a)
  BY DEF Grows, ClickOf, Path, FlowAt
<1>2. Unread(a, w)' = Unread(a, w)
  BY <1>1 DEF Unread
<1> QED BY <1>1, <1>2 DEF Watched

LEMMA StillNoted ==
    ASSUME Typed, Grows, NEW a \in Attempts, NEW w \in Attempt, Noted(a, w)
    PROVE  Noted(a, w)'
<1>1. Path(a)' = Path(a)
  BY DEF Grows, Path, FlowAt, ClickOf
<1>2. <<a, w.turn>> \in Attempts \X (0..MaxTurns)
  BY DEF Attempt
<1> QED BY <1>1, <1>2 DEF Noted, Grows

LEMMA StillProper == ASSUME Typed, Grows, NEW m \in Effect, Proper(m) PROVE Proper(m)'
<1>1. FlowOf' = FlowOf
  BY DEF Grows, FlowOf
<1>2. proposed'[m.prop] = proposed[m.prop] /\ m.key \in Attempts \X (0..MaxTurns)
  BY DEF Proper, Grows, Effect
<1> QED BY <1>1, <1>2 DEF Proper, Grows

\* A step of one handler: the others go on as they were.
LEMMA OneWalks ==
    ASSUME Typed, WalkInv, Grows, strict' = strict, NEW a \in Attempts, NEW v \in Attempt,
           attempts' = [attempts EXCEPT ![a] = v],
           v.at # 0 => Walks(a, v)',
           \A m \in sent' : m \in sent \/ Proper(m)',
           \A k \in Attempts \X (0..MaxTurns) :
               audits'[k] = "succeeded" => audits[k] = "succeeded" \/ \E m \in sent' : m.key = k
    PROVE  WalkInv'
<1>1. attempts \in [Attempts -> Attempt] /\ sent \subseteq Effect
  BY DEF Typed
<1>2. ASSUME NEW b \in Attempts, attempts'[b].at # 0 PROVE Walks(b, attempts[b])'
  <2>1. CASE b = a
    <3>1. attempts'[b] = v
      BY <1>1, <2>1
    <3>2. Walks(a, v)'
      BY <1>2, <3>1
    <3> QED BY <2>1, <3>1, <3>2
  <2>2. CASE b # a
    <3>1. attempts'[b] = attempts[b]
      BY <1>1, <2>2
    <3>2. PICK w \in Attempt : w = attempts[b]
      BY <1>1
    <3>3. Placed(b, w) /\ Watched(b, w) /\ Noted(b, w)
      BY <1>2, <3>1, <3>2 DEF WalkInv, Walks
    <3>4. Placed(b, w)' /\ Noted(b, w)'
      BY <3>3, StillPlaced, StillNoted
    <3>5. Watched(b, w)'
      BY <3>3, StillWatched DEF Watched
    <3>6. attempts'[b] = w
      BY <3>1, <3>2
    <3> QED BY <3>4, <3>5, <3>6 DEF Walks
  <2> QED BY <2>1, <2>2
<1>3. ASSUME NEW m \in sent' PROVE Proper(m)'
  <2>1. CASE Proper(m)'
    BY <2>1
  <2>2. CASE m \in sent
    BY <1>1, <2>2, StillProper DEF WalkInv
  <2> QED BY <1>3, <2>1, <2>2
<1>4. ASSUME NEW k \in Attempts \X (0..MaxTurns), audits'[k] = "succeeded" PROVE \E m \in sent' : m.key = k
  BY <1>4 DEF WalkInv, Grows
<1> QED BY <1>2, <1>3, <1>4 DEF WalkInv

\* A handler that is over knows nothing any more.
LEMMA StopWalks ==
    ASSUME Typed, WalkInv, Grows, strict' = strict, NEW a \in Attempts, Stopped(a),
           \A m \in sent' : m \in sent \/ Proper(m)',
           \A k \in Attempts \X (0..MaxTurns) :
               audits'[k] = "succeeded" => audits[k] = "succeeded" \/ \E m \in sent' : m.key = k
    PROVE  WalkInv'
<1>1. attempts[a] \in Attempt
  BY DEF Typed
<1> PICK v \in Attempt : v = Over(attempts[a]) /\ v.at = 0
  BY <1>1, Begun
<1>2. attempts' = [attempts EXCEPT ![a] = v]
  BY DEF Stopped
<1> QED BY <1>2, OneWalks

\* What the walk of a handler at work looks like at its place.
LEMMA OnPath ==
    ASSUME Typed, NEW a, NEW w, Placed(a, w)
    PROVE  /\ ClickOf[a] \in Flows /\ WellTaken(ClickOf[a]) /\ WellStepped(ClickOf[a], w.at)
           /\ Len(Path(a)) \in Nat /\ w.at \in Nat /\ w.at >= 2
           /\ 2 \in 2..Len(Path(a)) /\ WellStepped(ClickOf[a], 2)
<1>1. ClickOf[a] \in Flows /\ Path(a) = FlowNamed(ClickOf[a]).steps
  BY SceneTyped DEF Placed, Path, FlowAt
<1>2. WellMade(ClickOf[a])
  BY <1>1, AllWellMade
<1>3. Len(Path(a)) \in Nat
  BY <1>1, <1>2 DEF WellMade, WellTaken
<1> QED BY <1>1, <1>2, <1>3 DEF WellMade, Placed

\* Going on by one step, what was read again having been compared.
LEMMA StepPlaced ==
    ASSUME Typed, Grows, NEW a, NEW w \in Attempt, Placed(a, w), w.at < Len(Path(a)),
           "read" \notin Path(a)[w.at].do,
           Path(a)[w.at].do = {} => Passes(a, w, Path(a)[w.at].need)
    PROVE  Placed(a, [w EXCEPT !.at = @ + 1])'
<1> DEFINE v == [w EXCEPT !.at = @ + 1]
<1>1. /\ v.at = w.at + 1 /\ v.prop = w.prop /\ v.config = w.config /\ v.content = w.content
  BY DEF Attempt
<1> HIDE DEF v
<1>2. /\ Path(a) = FlowNamed(ClickOf[a]).steps /\ WellStepped(ClickOf[a], 2)
      /\ Len(Path(a)) \in Nat /\ w.at \in Nat /\ w.at >= 2
  BY OnPath DEF Path, FlowAt
<1>3. v.at \in 2..Len(Path(a))
  BY <1>1, <1>2
<1>4. w.content = proposed[w.prop].content
  <2>1. CASE w.at = 3 /\ "read" \in Path(a)[2].do
    <3>1. Path(a)[3].do = {} /\ "content" \in Path(a)[3].need
      BY <1>2, <2>1 DEF WellStepped
    <3> QED BY <2>1, <3>1 DEF Passes
  <2> QED BY <2>1 DEF Placed
<1>5. Placed(a, v)
  BY <1>1, <1>3, <1>4 DEF Placed
<1> QED BY <1>5, StillPlaced DEF v

LEMMA StepWatched ==
    ASSUME Typed, Grows, strict' = strict, NEW a, NEW w \in Attempt, Placed(a, w), Watched(a, w),
           w.at < Len(Path(a)), "read" \notin Path(a)[w.at].do,
           Path(a)[w.at].do = {} => Passes(a, w, Path(a)[w.at].need)
    PROVE  Watched(a, [w EXCEPT !.at = @ + 1])'
<1> DEFINE v == [w EXCEPT !.at = @ + 1]
<1>1. v.open = w.open
  BY DEF Attempt
<1> HIDE DEF v
<1>2. Unread(a, w) => ~strict
  <2>1. ASSUME Unread(a, w) PROVE w.at = 3 /\ "read" \in Path(a)[2].do
    BY <2>1 DEF Unread
  <2>2. ASSUME Unread(a, w) PROVE Path(a)[3].do = {} /\ "policy" \in Path(a)[3].need
    BY <2>1, <2>2, OnPath DEF WellStepped, Path, FlowAt
  <2> QED BY <2>1, <2>2 DEF Passes
<1>3. Watched(a, v)
  BY <1>1, <1>2 DEF Watched
<1> QED BY <1>3, StillWatched DEF v

LEMMA StepWalks ==
    ASSUME Typed, WalkInv, Grows, strict' = strict, NEW a \in Attempts,
           attempts[a].at \in 2..Len(FlowAt(a).steps), attempts' = Onward(a),
           "read" \notin Path(a)[attempts[a].at].do,
           Path(a)[attempts[a].at].do = {} => Passes(a, attempts[a], Path(a)[attempts[a].at].need),
           "audit" \in Path(a)[attempts[a].at].do => audits'[Key(a)] # "none",
           "send" \in Path(a)[attempts[a].at].do => \E m \in sent' : m.key = Key(a),
           \A m \in sent' : m \in sent \/ Proper(m)',
           \A k \in Attempts \X (0..MaxTurns) :
               audits'[k] = "succeeded" => audits[k] = "succeeded" \/ \E m \in sent' : m.key = k
    PROVE  WalkInv'
<1> PICK w \in Attempt : w = attempts[a]
  BY DEF Typed
<1> PICK v \in Attempt : /\ attempts' = [attempts EXCEPT ![a] = v]
                         /\ \/ v = [w EXCEPT !.at = @ + 1] /\ w.at < Len(Path(a))
                            \/ v = Over(w)
  BY OnwardTyped DEF Path
<1>1. Placed(a, w) /\ Watched(a, w) /\ w.at \in 2..Len(Path(a))
  BY DEF WalkInv, Walks, Placed
<1>2. CASE v = [w EXCEPT !.at = @ + 1] /\ w.at < Len(Path(a))
  <2>1. Placed(a, v)' /\ Watched(a, v)'
    BY <1>1, <1>2, StepPlaced, StepWatched
  <2>2. v.at - 1 = w.at /\ v.turn = w.turn /\ Path(a)' = Path(a) /\ Key(a) = <<a, w.turn>>
    BY <1>1, <1>2 DEF Attempt, Grows, Path, FlowAt, ClickOf, Key
  <2>3. Noted(a, v)'
    BY <2>2 DEF Noted
  <2> QED BY <2>1, <2>3, OneWalks DEF Walks
<1>3. CASE v = Over(w)
  <2>1. v.at = 0
    BY <1>3, Begun
  <2> QED BY <2>1, OneWalks
<1> QED BY <1>2, <1>3

-----------------------------------------------------------------------------
(* The steps of a handler *)

LEMMA ReadWalks ==
    ASSUME Typed, WalkInv, scene' = scene, NEW a \in Attempts, Read(a) PROVE WalkInv'
<1> PICK w \in Attempt : w = attempts[a]
  BY DEF Typed
<1>1. /\ w.at \in 2..Len(Path(a)) /\ "read" \in Path(a)[w.at].do
      /\ UNCHANGED <<strict, proposed, sent, audits>> /\ content \in Nat /\ (~strict) \in BOOLEAN
  BY DEF Read, Ready, Path, Typed
<1>2. Grows /\ strict' = strict
  BY <1>1 DEF Grows
<1>3. Placed(a, w) /\ Watched(a, w)
  BY <1>1 DEF WalkInv, Walks
<1>4. w.at = 2 /\ Path(a)[2].do = {"read"} /\ Len(Path(a)) > 2 /\ Len(Path(a)) \in Nat
  BY <1>1, <1>3, OnPath DEF WellStepped, Path, FlowAt
<1> DEFINE v == [w EXCEPT !.at = 3, !.content = content, !.open = ~strict]
<1>5. v \in Attempt
  BY <1>1 DEF Attempt
<1>6. attempts' = [attempts EXCEPT ![a] = v]
  <2>1. Onward(a) = [attempts EXCEPT ![a] = [w EXCEPT !.at = @ + 1]]
    BY <1>4 DEF Onward, Path
  <2>2. attempts \in [Attempts -> Attempt]
    BY DEF Typed
  <2>3. attempts' = [Onward(a) EXCEPT ![a].content = content, ![a].open = ~strict]
    BY DEF Read
  <2>4. [w EXCEPT !.at = @ + 1] = [w EXCEPT !.at = 3]
    BY <1>4
  <2> QED BY <2>1, <2>2, <2>3, <2>4
<1> PICK u \in Attempt : u = v
  BY <1>5
<1>7. u.at = 3 /\ u.prop = w.prop /\ u.config = w.config /\ u.open = ~strict
  BY DEF Attempt
<1>8. attempts' = [attempts EXCEPT ![a] = u]
  BY <1>6
<1> HIDE DEF v
<1>9. Placed(a, u)
  BY <1>3, <1>4, <1>7 DEF Placed
<1>10. Watched(a, u)
  BY <1>4, <1>7 DEF Watched, Unread
<1>11. Path(a)' = Path(a)
  BY DEF Path, FlowAt, ClickOf
<1>12. Noted(a, u)'
  <2>1. u.at - 1 = 2
    BY <1>7
  <2> QED BY <1>4, <1>11, <2>1 DEF Noted
<1>13. Placed(a, u)' /\ Watched(a, u)'
  BY <1>2, <1>9, <1>10, StillPlaced, StillWatched
<1> QED BY <1>1, <1>2, <1>8, <1>12, <1>13, OneWalks DEF Walks

LEMMA ClearWalks ==
    ASSUME Typed, WalkInv, scene' = scene, NEW a \in Attempts, Clear(a) PROVE WalkInv'
<1>1. /\ attempts[a].at \in 2..Len(Path(a)) /\ Path(a)[attempts[a].at].do = {}
      /\ UNCHANGED <<strict, proposed, sent, audits>>
  BY DEF Clear, Path
<1>2. Grows
  BY <1>1 DEF Grows
<1>3. CASE Passes(a, attempts[a], Path(a)[attempts[a].at].need)
  <2>1. attempts' = Onward(a)
    BY <1>3 DEF Clear, Path
  <2> QED BY <1>1, <1>2, <1>3, <2>1, StepWalks DEF Path
<1>4. CASE ~Passes(a, attempts[a], Path(a)[attempts[a].at].need)
  <2>1. Stopped(a)
    BY <1>4 DEF Clear, Path
  <2> QED BY <1>1, <1>2, <2>1, StopWalks
<1> QED BY <1>3, <1>4

\* A record that is not of a success.
LEMMA Records ==
    ASSUME Typed, NEW a \in Attempts, NEW s \in {"started", "failed"}, audits' = Recorded(a, s)
    PROVE  /\ audits'[Key(a)] = s
           /\ \A k \in Attempts \X (0..MaxTurns) : audits[k] # "none" => audits'[k] # "none"
           /\ \A k \in Attempts \X (0..MaxTurns) : audits'[k] = "succeeded" => audits[k] = "succeeded"
  BY KeyTyped DEF Typed, Recorded

LEMMA StartWalks ==
    ASSUME Typed, WalkInv, scene' = scene, NEW a \in Attempts, StartAudit(a) PROVE WalkInv'
<1>1. /\ attempts[a].at \in 2..Len(FlowAt(a).steps) /\ "audit" \in Path(a)[attempts[a].at].do
      /\ "send" \notin Path(a)[attempts[a].at].do
      /\ attempts' = Onward(a) /\ audits' = Recorded(a, "started")
      /\ UNCHANGED <<strict, proposed, sent>>
  BY DEF StartAudit, Ready, Path
<1>2. /\ audits'[Key(a)] # "none"
      /\ \A k \in Attempts \X (0..MaxTurns) : audits[k] # "none" => audits'[k] # "none"
      /\ \A k \in Attempts \X (0..MaxTurns) : audits'[k] = "succeeded" => audits[k] = "succeeded"
  BY <1>1, Records
<1>3. Grows
  BY <1>1, <1>2 DEF Grows
<1>4. Placed(a, attempts[a])
  BY <1>1, Begun DEF WalkInv, Walks, Typed, Attempt
<1>5. "read" \notin Path(a)[attempts[a].at].do /\ Path(a)[attempts[a].at].do # {}
  BY <1>1, <1>4, OnPath DEF WellStepped, Path, FlowAt
<1> QED BY <1>1, <1>2, <1>3, <1>5, StepWalks

LEMMA FinishWalks ==
    ASSUME Typed, WalkInv, scene' = scene, NEW a \in Attempts, Finish(a) PROVE WalkInv'
<1>1. /\ attempts[a].at \in 2..Len(FlowAt(a).steps) /\ "finish" \in Path(a)[attempts[a].at].do
      /\ UNCHANGED <<strict, proposed, sent>>
  BY DEF Finish, Ready, Path
<1>2. PICK s \in {"succeeded", "failed"} : /\ audits' = Recorded(a, s)
                                           /\ IF s = "succeeded" THEN attempts' = Onward(a) ELSE Stopped(a)
  BY DEF Finish
<1>3. Placed(a, attempts[a]) /\ Noted(a, attempts[a]) /\ attempts[a] \in Attempt
  BY <1>1 DEF WalkInv, Walks, Typed, Attempt
<1>4. "send" \in Path(a)[attempts[a].at - 1].do /\ Path(a)[attempts[a].at].do = {"finish"}
  BY <1>1, <1>3, OnPath DEF WellStepped, Path, FlowAt
<1>5. \E m \in sent' : m.key = Key(a)
  BY <1>1, <1>3, <1>4 DEF Noted, Key
<1>6. \A k \in Attempts \X (0..MaxTurns) : /\ audits[k] # "none" => audits'[k] # "none"
                                           /\ audits'[k] = "succeeded" => audits[k] = "succeeded" \/ k = Key(a)
  BY <1>2, KeyTyped DEF Typed, Recorded
<1>7. Grows
  BY <1>1, <1>6 DEF Grows
<1>8. CASE s = "succeeded"
  BY <1>1, <1>2, <1>4, <1>5, <1>6, <1>7, <1>8, StepWalks
<1>9. CASE s = "failed"
  BY <1>1, <1>2, <1>5, <1>6, <1>7, <1>9, StopWalks
<1> QED BY <1>8, <1>9

LEMMA FailWalks ==
    ASSUME Typed, WalkInv, scene' = scene, NEW a \in Attempts, Fail(a) PROVE WalkInv'
<1>1. Stopped(a) /\ UNCHANGED <<strict, proposed, sent>> /\ (audits' = audits \/ audits' = Recorded(a, "failed"))
  BY DEF Fail
<1>2. \A k \in Attempts \X (0..MaxTurns) : /\ audits[k] # "none" => audits'[k] # "none"
                                           /\ audits'[k] = "succeeded" => audits[k] = "succeeded"
  BY <1>1, Records
<1>3. Grows
  BY <1>1, <1>2 DEF Grows
<1> QED BY <1>1, <1>2, <1>3, StopWalks

\* The next turn of an agent begins where the first one did.
LEMMA TurnWalks ==
    ASSUME Typed, WalkInv, scene' = scene, NEW a \in Attempts, Turn(a) PROVE WalkInv'
<1> PICK w \in Attempt : w = attempts[a]
  BY DEF Typed
<1>1. /\ w.at \in 2..Len(Path(a)) /\ "turn" \in Path(a)[w.at].do
      /\ UNCHANGED <<strict, proposed, sent, audits>>
  BY DEF Turn, Ready, Path
<1>2. Grows /\ strict' = strict
  BY <1>1 DEF Grows
<1>3. Placed(a, w) /\ Watched(a, w)
  BY <1>1 DEF WalkInv, Walks
<1>4. /\ "read" \notin Path(a)[2].do /\ "audit" \notin Path(a)[1].do /\ "send" \notin Path(a)[1].do
      /\ 2 \in 2..Len(Path(a))
  BY <1>1, <1>3, OnPath DEF WellStepped, Path, FlowAt
<1>5. CASE Stopped(a)
  BY <1>1, <1>2, <1>5, StopWalks
<1>6. CASE TurnLeft(w) /\ attempts' = [attempts EXCEPT ![a] = [w EXCEPT !.turn = @ + 1, !.tools = @ + 1, !.at = 2]]
  <2>1. w.turn + 1 \in 0..MaxTurns /\ w.tools + 1 \in Nat
    BY <1>6, Bounds DEF Attempt, TurnLeft
  <2> DEFINE x == [w EXCEPT !.turn = @ + 1, !.tools = @ + 1, !.at = 2]
  <2>2. x \in Attempt
    BY <2>1 DEF Attempt
  <2> PICK v \in Attempt : v = x
    BY <2>2
  <2>3. v.at = 2 /\ v.prop = w.prop /\ v.config = w.config /\ v.content = w.content /\ v.open = w.open
    BY DEF Attempt
  <2>4. attempts' = [attempts EXCEPT ![a] = v]
    BY <1>6
  <2> HIDE DEF x
  <2>5. Placed(a, v)
    BY <1>3, <1>4, <2>3 DEF Placed
  <2>6. Watched(a, v)
    BY <1>3, <1>4, <2>3 DEF Watched, Unread
  <2>7. Path(a)' = Path(a) /\ v.at - 1 = 1
    BY <2>3 DEF Path, FlowAt, ClickOf
  <2>8. Noted(a, v)'
    BY <1>4, <2>7 DEF Noted
  <2>9. Placed(a, v)' /\ Watched(a, v)'
    BY <1>2, <2>5, <2>6, StillPlaced, StillWatched
  <2> QED BY <1>1, <1>2, <2>4, <2>8, <2>9, OneWalks DEF Walks
<1> QED BY <1>5, <1>6 DEF Turn

LEMMA SendWalks ==
    ASSUME Typed, WalkInv, scene' = scene, NEW a \in Attempts, Send(a) PROVE WalkInv'
<1> PICK w \in Attempt : w = attempts[a]
  BY DEF Typed
<1>1. /\ w.at \in 2..Len(Path(a)) /\ "send" \in Path(a)[w.at].do
      /\ UNCHANGED <<strict, proposed>>
  BY DEF Send, Ready, Path
<1>2. Placed(a, w) /\ Watched(a, w) /\ Noted(a, w)
  BY <1>1 DEF WalkInv, Walks
<1>3. /\ Path(a)[w.at].do \subseteq {"send", "audit"}
      /\ ClickOf[a] \notin Unlogged => "audit" \in Path(a)[w.at].do \/ "audit" \in Path(a)[w.at - 1].do
  BY <1>1, <1>2, OnPath DEF WellStepped, Path, FlowAt
<1>4. ~(w.at = 3 /\ "read" \in Path(a)[2].do) /\ ~Unread(a, w)
  <2>1. ASSUME "read" \in Path(a)[2].do PROVE Path(a)[2].do = {"read"} /\ Path(a)[3].do = {}
    BY <1>2, <2>1, OnPath DEF WellStepped, Path, FlowAt
  <2> QED BY <1>1, <2>1 DEF Unread
<1>5. CASE ~Passes(a, w, Path(a)[w.at].need)
  <2>1. Stopped(a) /\ UNCHANGED <<sent, audits>>
    BY <1>5 DEF Send, Path
  <2>2. Grows
    BY <1>1, <2>1 DEF Grows
  <2> QED BY <1>1, <2>1, <2>2, StopWalks
<1>6. CASE Passes(a, w, Path(a)[w.at].need)
  <2> DEFINE e == [key |-> Key(a), prop |-> w.prop, config |-> w.config, content |-> w.content, open |-> w.open]
  <2>1. /\ sent' = sent \cup {e} /\ attempts' = Onward(a)
        /\ audits' = IF "audit" \in Path(a)[w.at].do THEN Recorded(a, "started") ELSE audits
    BY <1>6 DEF Send, Path
  <2> PICK m : m = e
    OBVIOUS
  <2>2. /\ m.key = Key(a) /\ m.prop = w.prop /\ m.config = w.config /\ m.content = w.content /\ m.open = w.open
        /\ sent' = sent \cup {m}
    BY <2>1
  <2> HIDE DEF e
  <2>3. /\ \A k \in Attempts \X (0..MaxTurns) : audits[k] # "none" => audits'[k] # "none"
        /\ \A k \in Attempts \X (0..MaxTurns) : audits'[k] = "succeeded" => audits[k] = "succeeded"
        /\ "audit" \in Path(a)[w.at].do => audits'[Key(a)] # "none"
    BY <2>1, Records
  <2>4. Grows
    BY <1>1, <2>2, <2>3 DEF Grows
  <2>5. ClickOf[a] \notin Unlogged => audits'[m.key] # "none"
    BY <1>2, <1>3, <2>2, <2>3, KeyTyped DEF Noted, Key
  <2>6. m.prop \in Proposals /\ proposed'[m.prop] = proposed[m.prop] /\ FlowOf' = FlowOf /\ FlowOf[m.prop] = ClickOf[a]
    BY <1>1, <1>2, <2>2, SceneTyped DEF Placed, FlowOf
  <2>7. proposed[m.prop] # Unshown
        /\ (m.config = proposed[m.prop].config \/ FlowOf[m.prop] \in {"clean", "reconcile"})
        /\ m.content = proposed[m.prop].content
    BY <1>2, <1>4, <2>2, <2>6 DEF Placed
  <2>8. FlowOf[m.prop] \in Guarded => m.open
    BY <1>2, <1>4, <2>2, <2>6 DEF Watched
  <2>9. Proper(m)'
    BY <2>5, <2>6, <2>7, <2>8 DEF Proper
  <2>10. Path(a)[w.at].do # {} /\ "read" \notin Path(a)[w.at].do
    BY <1>1, <1>3
  <2>11. /\ \A x \in sent' : x \in sent \/ Proper(x)'
         /\ \E x \in sent' : x.key = Key(a)
    BY <2>2, <2>9
  <2> QED BY <1>1, <2>1, <2>3, <2>4, <2>10, <2>11, StepWalks DEF Path
<1> QED BY <1>5, <1>6

-----------------------------------------------------------------------------
(* The click, the dialogs and the rest *)

\* What the first checks of an approval establish.
LEMMA FirstPlaced ==
    ASSUME Typed, NEW p \in DOMAIN FlowOf, NEW a \in DOMAIN ClickOf, NEW c \in Nat, NEW w \in Attempt,
           w = Begin(a, p, c), proposed[p] # Unshown, FlowOf[p] = ClickOf[a],
           Passes(a, w, Path(a)[1].need)
    PROVE  /\ w.prop = p /\ w.turn = 1 /\ w.open = ~strict
           /\ w.config = proposed[p].config \/ ClickOf[a] \in {"clean", "reconcile"}
           /\ w.content = proposed[p].content
           /\ WellTaken(ClickOf[a]) /\ Head(Path(a)) = Path(a)[1] /\ Len(Path(a)) \in Nat
           /\ Len(Path(a)) > 1 => WellStepped(ClickOf[a], 2)
<1>1. WellMade(ClickOf[a]) /\ Path(a) = FlowNamed(ClickOf[a]).steps
  BY SceneTyped, AllWellMade DEF Path, FlowAt
<1>2. /\ WellTaken(ClickOf[a]) /\ Head(Path(a)) = Path(a)[1] /\ Len(Path(a)) \in Nat
      /\ Len(Path(a)) > 1 => WellStepped(ClickOf[a], 2)
  BY <1>1 DEF WellMade, WellTaken
<1>3. /\ w.prop = p /\ w.turn = 1 /\ w.open = ~strict /\ w.config = config
      /\ w.content = IF FlowAt(a).clicked THEN c ELSE proposed[p].content
  BY DEF Begin, NoAttempt
<1>4. ClickOf[a] \notin {"clean", "reconcile"} => "config" \in Path(a)[1].need
  BY <1>1, <1>2 DEF WellTaken
<1>5. FlowAt(a).clicked => "content" \in Path(a)[1].need
  BY <1>1, <1>2 DEF WellTaken, FlowAt
<1> QED BY <1>2, <1>3, <1>4, <1>5 DEF Passes

LEMMA ClickWalks ==
    ASSUME Typed, WalkInv, scene' = scene, NEW p \in DOMAIN FlowOf, NEW a \in DOMAIN ClickOf, NEW c \in Versions,
           Approve(a, p, c)
    PROVE  WalkInv'
<1>1. /\ p \in Proposals /\ a \in Attempts /\ c \in Nat /\ attempts[a] = NoAttempt /\ proposed[p] # Unshown
      /\ UNCHANGED <<strict, proposed>>
  BY Clicks
<1>2. <<a, 1>> \in Attempts \X (0..MaxTurns)
  BY <1>1, Bounds
<1> PICK w \in Attempt : w = Begin(a, p, c)
  BY <1>1, HandlerBegins
<1> PICK o \in Attempt : o = Over(w) /\ o.at = 0
  BY Begun
<1> DEFINE first == Head(FlowAt(a).steps)
           Goes == Held(p) /\ ~Expired(p) /\ FlowOf[p] = ClickOf[a] /\ Passes(a, w, first.need)
<1>3. CASE ~Goes
  <2>1. attempts' = [attempts EXCEPT ![a] = o] /\ UNCHANGED <<audits, sent>>
    BY <1>3 DEF Approve
  <2>2. Grows
    BY <1>1, <2>1 DEF Grows
  <2> QED BY <1>1, <2>1, <2>2, OneWalks
<1>4. CASE Goes
  <2> DEFINE e == [key |-> <<a, 1>>, prop |-> p, config |-> w.config, content |-> w.content, open |-> w.open]
             x == [w EXCEPT !.at = 2]
  <2>1. /\ attempts' = [attempts EXCEPT ![a] = IF Len(FlowAt(a).steps) > 1 THEN x ELSE Over(w)]
        /\ audits' = IF "audit" \in first.do THEN [audits EXCEPT ![<<a, 1>>] = "started"] ELSE audits
        /\ sent' = IF "send" \in first.do THEN sent \cup {e} ELSE sent
    BY <1>4 DEF Approve
  <2>2. FlowOf[p] = ClickOf[a] /\ Head(Path(a)) = Path(a)[1] /\ first = Path(a)[1]
    <3>1. ClickOf[a] \in Flows
      BY SceneTyped
    <3> QED BY <1>4, <3>1, AllWellMade DEF WellMade, WellTaken, Path, FlowAt
  <2>3. /\ w.prop = p /\ w.turn = 1 /\ w.open = ~strict
        /\ w.config = proposed[p].config \/ ClickOf[a] \in {"clean", "reconcile"}
        /\ w.content = proposed[p].content
        /\ WellTaken(ClickOf[a]) /\ Len(Path(a)) \in Nat
        /\ Len(Path(a)) > 1 => WellStepped(ClickOf[a], 2)
    BY <1>1, <1>4, <2>2, FirstPlaced
  <2> PICK m : m = e
    OBVIOUS
  <2>4. m.key = <<a, 1>> /\ m.prop = p /\ m.config = w.config /\ m.content = w.content /\ m.open = w.open
    OBVIOUS
  <2>5. sent' = IF "send" \in Path(a)[1].do THEN sent \cup {m} ELSE sent
    BY <2>1, <2>2
  <2>6. /\ "audit" \in Path(a)[1].do => audits'[<<a, 1>>] # "none"
        /\ \A k \in Attempts \X (0..MaxTurns) : /\ audits[k] # "none" => audits'[k] # "none"
                                                /\ audits'[k] = "succeeded" => audits[k] = "succeeded"
    BY <1>2, <2>1, <2>2 DEF Typed
  <2> HIDE DEF e
  <2>7. Grows
    BY <1>1, <2>5, <2>6 DEF Grows
  <2>8. FlowOf' = FlowOf /\ Path(a)' = Path(a)
    BY DEF FlowOf, Path, FlowAt, ClickOf
  <2>9. "send" \in Path(a)[1].do => Proper(m)'
    <3> HAVE "send" \in Path(a)[1].do
    <3>1. ClickOf[a] \notin Guarded /\ (ClickOf[a] \notin Unlogged => "audit" \in Path(a)[1].do)
      BY <2>3 DEF WellTaken, Path, FlowAt
    <3> QED BY <1>1, <2>2, <2>3, <2>4, <2>6, <2>8, <3>1 DEF Proper
  <2>10. CASE Len(Path(a)) > 1
    <3>1. x \in Attempt
      BY DEF Attempt
    <3> PICK v \in Attempt : v = x
      BY <3>1
    <3>2. v.at = 2 /\ v.prop = p /\ v.turn = 1 /\ v.open = w.open /\ v.config = w.config /\ v.content = w.content
      BY <2>3 DEF Attempt
    <3>3. attempts' = [attempts EXCEPT ![a] = v]
      BY <2>1, <2>10 DEF Path
    <3> HIDE DEF x
    <3>4. Placed(a, v)
      BY <1>1, <2>2, <2>3, <2>10, <3>2 DEF Placed
    <3>5. Watched(a, v)
      <4>1. ClickOf[a] \in Guarded => "policy" \in Path(a)[1].need \/ "read" \in Path(a)[2].do
        BY <2>3 DEF WellTaken, Path, FlowAt
      <4>2. "policy" \in Path(a)[1].need => ~strict
        BY <1>4, <2>2 DEF Passes
      <4> QED BY <2>3, <3>2, <4>1, <4>2 DEF Watched, Unread
    <3>6. v.at - 1 = 1
      BY <3>2
    <3>7. Noted(a, v)'
      BY <2>4, <2>5, <2>6, <2>8, <3>2, <3>6 DEF Noted
    <3>8. Placed(a, v)' /\ Watched(a, v)'
      BY <1>1, <2>7, <3>4, <3>5, StillPlaced, StillWatched
    <3> QED BY <1>1, <2>5, <2>6, <2>7, <2>9, <3>3, <3>7, <3>8, OneWalks DEF Walks
  <2>11. CASE ~(Len(Path(a)) > 1)
    <3>1. attempts' = [attempts EXCEPT ![a] = o]
      BY <2>1, <2>11 DEF Path
    <3> QED BY <1>1, <2>5, <2>6, <2>7, <2>9, <3>1, OneWalks
  <2> QED BY <2>10, <2>11
<1> QED BY <1>3, <1>4

LEMMA OthersWalk ==
    ASSUME Typed, WalkInv, Grows, strict' = strict, UNCHANGED <<attempts, sent, audits>>
    PROVE  WalkInv'
<1>1. sent \subseteq Effect
  BY DEF Typed
<1>2. ASSUME NEW b \in Attempts, attempts[b].at # 0 PROVE Walks(b, attempts[b])'
  <2> PICK w \in Attempt : w = attempts[b]
    BY DEF Typed
  <2>1. Placed(b, w) /\ Watched(b, w) /\ Noted(b, w)
    BY <1>2 DEF WalkInv, Walks
  <2>2. Placed(b, w)' /\ Watched(b, w)' /\ Noted(b, w)'
    BY <2>1, StillPlaced, StillWatched, StillNoted
  <2>3. attempts'[b] = w
    OBVIOUS
  <2> QED BY <2>2, <2>3 DEF Walks
<1>3. \A m \in sent' : Proper(m)'
  BY <1>1, StillProper DEF WalkInv
<1> QED BY <1>2, <1>3 DEF WalkInv

\* A new proposal tells nothing about the others.
LEMMA ShowGrows ==
    ASSUME Typed, scene' = scene, NEW p \in DOMAIN FlowOf, NEW c \in Nat, NEW d \in Nat, Issued(p, c, d),
           UNCHANGED <<sent, audits>>
    PROVE  Grows
<1>1. proposed[p] = Unshown /\ \A q \in Proposals \ {p} : proposed'[q] = proposed[q]
  BY Shows
<1> QED BY <1>1 DEF Grows

LEMMA PrepareWalks ==
    ASSUME Typed, WalkInv, scene' = scene, NEW p \in DOMAIN FlowOf, Prepare(p) PROVE WalkInv'
<1>1. PICK d \in 0..content : Issued(p, config, d)
  BY DEF Prepare
<1>2. config \in Nat /\ d \in Nat
  BY DEF Typed
<1>3. UNCHANGED <<strict, attempts, sent, audits>>
  BY DEF Prepare
<1>4. Grows
  BY <1>1, <1>2, <1>3, ShowGrows
<1> QED BY <1>3, <1>4, OthersWalk

LEMMA ProposeWalks ==
    ASSUME Typed, WalkInv, scene' = scene, NEW a \in Attempts, NEW p \in DOMAIN FlowOf, Propose(a, p) PROVE WalkInv'
<1>1. /\ Issued(p, attempts[a].config, content) /\ attempts' = Onward(a)
      /\ attempts[a].at \in 2..Len(FlowAt(a).steps) /\ "propose" \in Path(a)[attempts[a].at].do
      /\ UNCHANGED <<strict, sent, audits>>
  BY DEF Propose, Ready, Path
<1>2. attempts[a].config \in Nat /\ content \in Nat
  BY DEF Typed, Attempt
<1>3. Grows
  BY <1>1, <1>2, ShowGrows
<1>4. Placed(a, attempts[a])
  BY <1>1 DEF WalkInv, Walks, Typed, Attempt
<1>5. Path(a)[attempts[a].at].do = {"propose"}
  BY <1>1, <1>4, OnPath DEF WellStepped, Path, FlowAt
<1> QED BY <1>1, <1>3, <1>5, StepWalks

\* Leaving strict mode opens every handler at work, and entering it asks nothing of them.
LEMMA PolicyWalks ==
    ASSUME Typed, WalkInv, scene' = scene, SetPolicy PROVE WalkInv'
<1>1. /\ UNCHANGED <<proposed, sent, audits>> /\ strict' = ~strict
      /\ attempts' = [a \in Attempts |-> [attempts[a] EXCEPT !.open = @ \/ (strict /\ attempts[a].at # 0)]]
  BY DEF SetPolicy
<1>2. Grows /\ sent \subseteq Effect
  BY <1>1 DEF Grows, Typed
<1>3. ASSUME NEW b \in Attempts, attempts'[b].at # 0 PROVE Walks(b, attempts[b])'
  <2> PICK w \in Attempt : w = attempts[b]
    BY DEF Typed
  <2> DEFINE x == [w EXCEPT !.open = @ \/ (strict /\ w.at # 0)]
  <2>1. x \in Attempt
    <3>1. (w.open \/ (strict /\ w.at # 0)) \in BOOLEAN
      OBVIOUS
    <3> QED BY <3>1 DEF Attempt
  <2> PICK v \in Attempt : v = x
    BY <2>1
  <2>2. attempts'[b] = v
    BY <1>1
  <2>3. v.at = w.at /\ v.prop = w.prop /\ v.config = w.config /\ v.content = w.content /\ v.turn = w.turn
    BY DEF Attempt
  <2>4. v.at # 0
    BY <1>3, <2>2
  <2>5. v.open <=> w.open \/ strict
    BY <2>3, <2>4 DEF Attempt
  <2> HIDE DEF x
  <2>6. Placed(b, w) /\ Watched(b, w) /\ Noted(b, w)
    BY <2>3, <2>4 DEF WalkInv, Walks
  <2>7. Placed(b, v) /\ Noted(b, v)
    BY <2>3, <2>6 DEF Placed, Noted
  <2>8. Placed(b, v)' /\ Noted(b, v)'
    BY <1>2, <2>7, StillPlaced, StillNoted
  <2>9. ClickOf' = ClickOf /\ (Unread(b, v)' <=> Unread(b, w))
    BY <2>3 DEF ClickOf, Unread, Path, FlowAt
  <2>10. Watched(b, v)'
    BY <1>1, <2>5, <2>6, <2>9 DEF Watched
  <2> QED BY <2>2, <2>8, <2>10 DEF Walks
<1>4. \A m \in sent' : Proper(m)'
  BY <1>1, <1>2, StillProper DEF WalkInv
<1> QED BY <1>1, <1>3, <1>4 DEF WalkInv

LEMMA EndWalks ==
    ASSUME Typed, WalkInv, scene' = scene, Stop PROVE WalkInv'
<1>1. UNCHANGED <<strict, proposed, sent, audits>> /\ attempts' = [a \in Attempts |-> Over(attempts[a])]
  BY DEF Stop
<1>2. Grows /\ sent \subseteq Effect
  BY <1>1 DEF Grows, Typed
<1>3. \A b \in Attempts : attempts'[b].at = 0
  BY <1>1, Begun DEF Typed
<1>4. \A m \in sent' : Proper(m)'
  BY <1>1, <1>2, StillProper DEF WalkInv
<1> QED BY <1>1, <1>3, <1>4 DEF WalkInv

LEMMA WalksAtFirst == ApprovalInit => WalkInv
  BY DEF ApprovalInit, WalkInv, NoAttempt

LEMMA WalksOn == Typed /\ WalkInv /\ [ApprovalNext]_approvalVars => WalkInv'
<1> SUFFICES ASSUME Typed, WalkInv, [ApprovalNext]_approvalVars PROVE WalkInv'
  OBVIOUS
<1>1. CASE UNCHANGED approvalVars
  <2>1. UNCHANGED <<scene, strict, proposed, attempts, sent, audits>>
    BY <1>1 DEF approvalVars
  <2>2. Grows
    BY <2>1 DEF Grows
  <2> QED BY <2>1, <2>2, OthersWalk
<1>2. CASE ApprovalNext
  <2>1. scene' = scene /\ DOMAIN ClickOf \subseteq Attempts
    BY <1>2, SceneTyped DEF ApprovalNext
  <2>2. ASSUME (\E p \in DOMAIN FlowOf : Dismiss(p)) \/ EditConfig \/ EditData \/ Tick PROVE WalkInv'
    <3>1. UNCHANGED <<strict, proposed, attempts, sent, audits>>
      BY <2>2 DEF Dismiss, EditConfig, EditData, Tick
    <3>2. Grows
      BY <2>1, <3>1 DEF Grows
    <3> QED BY <3>1, <3>2, OthersWalk
  <2>3. ASSUME NEW a \in Attempts,
               Read(a) \/ Clear(a) \/ StartAudit(a) \/ Send(a) \/ Finish(a) \/ Turn(a) \/ Fail(a)
        PROVE  WalkInv'
    BY <2>1, <2>3, ReadWalks, ClearWalks, StartWalks, SendWalks, FinishWalks, TurnWalks, FailWalks
  <2>4. ASSUME NEW a \in DOMAIN ClickOf, Click(a) PROVE WalkInv'
    BY <2>1, <2>4, ClickWalks, ProposeWalks DEF Click
  <2> QED BY <1>2, <2>1, <2>2, <2>3, <2>4, PrepareWalks, PolicyWalks, EndWalks DEF ApprovalNext
<1> QED BY <1>1, <1>2

LEMMA WalkInvariant == ApprovalSpec => [](Typed /\ WalkInv)
<1>1. ApprovalInit => Typed /\ TokenInv /\ WalkInv
  BY AtFirst, WalksAtFirst
<1>2. Typed /\ TokenInv /\ WalkInv /\ [ApprovalNext]_approvalVars => (Typed /\ TokenInv /\ WalkInv)'
  BY EveryStep, WalksOn
<1> QED BY <1>1, <1>2, PTL DEF ApprovalSpec

\* What leaves is what the person saw, at the destination the person saw (SentAsReviewed):
\* the handler holds what was shown, but for one step in which it has just read again.
THEOREM ReviewedLeaves == ApprovalSpec => []SentAsReviewed
<1> QED BY WalkInvariant, WalkShows, PTL

\* What left is on record, and a recorded success was sent (SentIsOnRecord): the step before
\* a disclosure, or the disclosure itself, writes the record, and none is taken back.
THEOREM LeavesOnRecord == ApprovalSpec => []SentIsOnRecord
<1> QED BY WalkInvariant, WalkShows, PTL

\* Strict private mode stops guarded disclosures (StrictStops): a guarded handler was open
\* when it took its token, or will ask again after it has read.
THEOREM StrictHolds == ApprovalSpec => []StrictStops
<1> QED BY WalkInvariant, WalkShows, PTL

-----------------------------------------------------------------------------
(* Types and limits *)

\* Some numbers have a first one.
LEMMA FirstOf ==
    ASSUME NEW T, T \subseteq Nat, T # {}
    PROVE  \E x \in T : \A y \in T : x <= y
<1> DEFINE R == {ss \in Nat \X Nat : ss[1] < ss[2]}
<1>1. IsWellFoundedOn(R, Nat)
  BY NatLessThanWellFounded, Zenon DEF OpToRel
<1> HIDE DEF R
<1>2. PICK x \in T : \A y \in T : <<y, x>> \notin R
  BY <1>1, WFMin
<1>3. \A y \in T : ~(y < x)
  BY <1>2 DEF R
<1> QED BY <1>3

\* A handler works on versions that were there, on its walk and within its budget.
WorkBounded(w) == w.at \in 0..8 /\ w.config \in Versions /\ w.content \in Versions /\ w.tools \in 0..MaxTools
ShownTyped(x) == x \in [config : Versions, content : Versions, expires : 0..(scene.time + Lifetime),
                        nr : 0..Cardinality(Proposals)]
WorksBounded  == \A a \in Attempts : WorkBounded(attempts[a])
StoresBounded == (\A p \in Proposals : ShownTyped(proposed[p])) /\ \A s \in Stores : Cardinality(store[s]) <= Capacity
SentBounded   == \A m \in sent : m.config \in Versions /\ m.content \in Versions
ClockBounded  == now \in 0..scene.time /\ config \in Versions /\ content \in Versions
ApprovalBounds == ClockBounded /\ StoresBounded /\ WorksBounded /\ SentBounded

LEMMA SceneBounds == ASSUME Typed PROVE scene.time \in Nat /\ scene.changes \in Nat /\ 0 \in Versions
  BY ApprovalAssumption DEF Typed, Versions

LEMMA SameScene ==
    ASSUME scene' = scene
    PROVE  /\ Versions' = Versions /\ Stores' = Stores
           /\ \A w : WorkBounded(w)' <=> WorkBounded(w)
           /\ \A x : ShownTyped(x)' <=> ShownTyped(x)
  BY DEF Versions, Stores, StoreOf, FlowAt, FlowOf, ClickOf, WorkBounded, ShownTyped

\* A full store drops its oldest proposal, the one with the lowest number, before it keeps another.
LEMMA KeptFits ==
    ASSUME Typed, StoresBounded, NEW s \in Stores, NEW fresh, fresh \subseteq store[s], NEW p
    PROVE  IsFiniteSet(Kept(fresh) \cup {p}) /\ Cardinality(Kept(fresh) \cup {p}) <= Capacity
<1>1. store[s] \subseteq Proposals /\ Cardinality(store[s]) <= Capacity
  BY DEF Typed, StoresBounded
<1>2. IsFiniteSet(store[s])
  BY <1>1, ApprovalAssumption, FS_Subset
<1>3. IsFiniteSet(fresh) /\ Cardinality(fresh) <= Cardinality(store[s])
  BY <1>2, FS_Subset
<1>4. Cardinality(store[s]) \in Nat /\ Cardinality(fresh) \in Nat /\ Capacity \in Nat \ {0}
  BY <1>2, <1>3, FS_CardinalityType, ApprovalAssumption
<1> DEFINE kept == Kept(fresh)
<1>5. IsFiniteSet(kept) /\ Cardinality(kept) < Capacity
  <2>1. CASE Cardinality(fresh) < Capacity
    <3>1. kept = fresh
      BY <2>1 DEF Kept
    <3> QED BY <1>3, <2>1, <3>1
  <2>2. CASE ~(Cardinality(fresh) < Capacity)
    <3>1. kept = {q \in fresh : \E o \in fresh : proposed[o].nr < proposed[q].nr}
      BY <2>2 DEF Kept
    <3> DEFINE numbers == {proposed[q].nr : q \in fresh}
    <3>2. fresh # {}
      <4>1. Cardinality({}) = 0
        BY FS_EmptySet
      <4> QED BY <1>4, <2>2, <4>1
    <3>3. numbers # {}
      BY <3>2
    <3>4. \A q \in fresh : proposed[q].nr \in Nat
      <4> TAKE q \in fresh
      <4>1. q \in Proposals
        BY <1>1
      <4>2. ShownTyped(proposed[q]) /\ Cardinality(Proposals) \in Nat
        BY <4>1, ApprovalAssumption, FS_CardinalityType DEF StoresBounded
      <4> QED BY <4>2 DEF ShownTyped
    <3>5. numbers \subseteq Nat
      BY <3>4
    <3> HIDE DEF numbers
    <3>6. PICK n \in numbers : \A y \in numbers : n <= y
      BY <3>3, <3>5, FirstOf
    <3>7. PICK o \in fresh : proposed[o].nr = n
      BY <3>6 DEF numbers
    <3>8. \A q \in fresh : ~(proposed[q].nr < n)
      BY <3>4, <3>5, <3>6 DEF numbers
    <3>9. kept \subseteq fresh \ {o}
      BY <3>1, <3>7, <3>8
    <3> HIDE DEF kept
    <3>10. IsFiniteSet(fresh \ {o}) /\ Cardinality(fresh \ {o}) = Cardinality(fresh) - 1
      BY <1>3, <3>7, FS_RemoveElement
    <3>11. IsFiniteSet(kept) /\ Cardinality(kept) <= Cardinality(fresh \ {o})
      BY <3>9, <3>10, FS_Subset
    <3>12. Cardinality(kept) \in Nat
      BY <3>11, FS_CardinalityType
    <3> QED BY <1>1, <1>3, <1>4, <3>10, <3>11, <3>12
  <2> QED BY <2>1, <2>2
<1> HIDE DEF kept
<1>6. /\ IsFiniteSet(kept \cup {p})
      /\ Cardinality(kept \cup {p}) = IF p \in kept THEN Cardinality(kept) ELSE Cardinality(kept) + 1
  BY <1>5, FS_AddElement
<1>7. Cardinality(kept) \in Nat
  BY <1>5, FS_CardinalityType
<1> QED BY <1>4, <1>5, <1>6, <1>7 DEF kept

LEMMA IssuedBounded ==
    ASSUME Typed, ClockBounded, StoresBounded, scene' = scene, NEW p \in DOMAIN FlowOf,
           NEW c \in Versions, NEW d \in Versions, Issued(p, c, d)
    PROVE  StoresBounded'
<1> DEFINE fresh   == {o \in store[StoreOf(p)] : ~Expired(o)}
           earlier == {o \in DOMAIN FlowOf : StoreOf(o) = StoreOf(p) /\ proposed[o] # Unshown}
           nr      == Cardinality(earlier) + 1
           x       == [config |-> c, content |-> d, expires |-> now + Lifetime, nr |-> nr]
           kept    == Kept(fresh) \cup {p}
<1>1. proposed[p] = Unshown /\ proposed' = [proposed EXCEPT ![p] = x] /\ store' = [store EXCEPT ![StoreOf(p)] = kept]
  BY DEF Issued
<1>2. p \in Proposals /\ StoreOf(p) \in Stores /\ DOMAIN FlowOf \subseteq Proposals
  BY SceneTyped DEF Stores
<1>3. nr \in 0..Cardinality(Proposals)
  <2>1. earlier \subseteq Proposals \ {p}
    BY <1>1, <1>2
  <2> HIDE DEF earlier
  <2>2. IsFiniteSet(Proposals \ {p}) /\ Cardinality(Proposals \ {p}) = Cardinality(Proposals) - 1
    BY <1>2, ApprovalAssumption, FS_RemoveElement
  <2>3. IsFiniteSet(earlier) /\ Cardinality(earlier) <= Cardinality(Proposals \ {p})
    BY <2>1, <2>2, FS_Subset
  <2>4. Cardinality(earlier) \in Nat /\ Cardinality(Proposals) \in Nat
    BY <2>3, ApprovalAssumption, FS_CardinalityType
  <2> QED BY <2>2, <2>3, <2>4
<1>4. now + Lifetime \in 0..(scene.time + Lifetime)
  BY SceneBounds, Bounds DEF ClockBounded
<1>5. ShownTyped(x)
  <2> HIDE DEF nr
  <2> QED BY <1>3, <1>4 DEF ShownTyped
<1>6. Cardinality(kept) <= Capacity
  <2>1. fresh \subseteq store[StoreOf(p)]
    OBVIOUS
  <2> HIDE DEF fresh
  <2> QED BY <1>2, <2>1, KeptFits
<1> HIDE DEF x, kept
<1>7. \A q \in Proposals : proposed'[q] = x \/ proposed'[q] = proposed[q]
  BY <1>1, <1>2 DEF Typed
<1>8. \A s \in Stores : store'[s] = kept \/ store'[s] = store[s]
  BY <1>1, <1>2 DEF Typed
<1>9. \A q \in Proposals : ShownTyped(proposed'[q])
  BY <1>5, <1>7 DEF StoresBounded
<1>10. \A s \in Stores : Cardinality(store'[s]) <= Capacity
  BY <1>6, <1>8 DEF StoresBounded
<1> QED BY <1>9, <1>10, SameScene DEF StoresBounded

\* A store that loses a proposal.
LEMMA LossBounded ==
    ASSUME Typed, StoresBounded, scene' = scene, UNCHANGED proposed, \A s \in Stores : store'[s] \subseteq store[s]
    PROVE  StoresBounded'
<1>1. ASSUME NEW s \in Stores PROVE Cardinality(store'[s]) <= Capacity
  <2>1. store[s] \subseteq Proposals /\ Cardinality(store[s]) <= Capacity /\ store'[s] \subseteq store[s]
    BY DEF Typed, StoresBounded
  <2>2. IsFiniteSet(store[s])
    BY <2>1, ApprovalAssumption, FS_Subset
  <2>3. IsFiniteSet(store'[s]) /\ Cardinality(store'[s]) <= Cardinality(store[s])
    BY <2>1, <2>2, FS_Subset
  <2>4. Cardinality(store'[s]) \in Nat /\ Cardinality(store[s]) \in Nat
    BY <2>2, <2>3, FS_CardinalityType
  <2> QED BY <2>1, <2>3, <2>4, ApprovalAssumption
<1>2. \A p \in Proposals : ShownTyped(proposed'[p])
  BY DEF StoresBounded
<1> QED BY <1>1, <1>2, SameScene DEF StoresBounded

LEMMA OverBounded == ASSUME Typed, NEW w PROVE WorkBounded(Over(w)) /\ WorkBounded(NoAttempt)
<1>1. 0 \in 0..MaxTools
  BY ApprovalAssumption
<1>2. Over(w).at = 0 /\ Over(w).config = 0 /\ Over(w).content = 0 /\ Over(w).tools = 0
  BY DEF Over, NoAttempt
<1> QED BY <1>1, <1>2, SceneBounds DEF WorkBounded, NoAttempt

LEMMA PathLength == ASSUME Typed, NEW a \in DOMAIN ClickOf PROVE Len(FlowAt(a).steps) \in 1..8
<1>1. ClickOf[a] \in Flows
  BY SceneTyped
<1>2. WellTaken(ClickOf[a])
  BY <1>1, AllWellMade DEF WellMade
<1> QED BY <1>2 DEF WellTaken, FlowAt

\* One handler moves, and works within its bounds.
LEMMA WorkMoves ==
    ASSUME Typed, WorksBounded, scene' = scene, NEW a \in Attempts, NEW w, WorkBounded(w),
           attempts' = [attempts EXCEPT ![a] = w]
    PROVE  WorksBounded'
<1>1. \A b \in Attempts : attempts'[b] = w \/ attempts'[b] = attempts[b]
  BY DEF Typed
<1> QED BY <1>1, SameScene DEF WorksBounded

LEMMA StoppedBounded ==
    ASSUME Typed, WorksBounded, scene' = scene, NEW a \in Attempts, Stopped(a) PROVE WorksBounded'
<1>1. PICK w : w = Over(attempts[a])
  OBVIOUS
<1>2. WorkBounded(w) /\ attempts' = [attempts EXCEPT ![a] = w]
  BY <1>1, OverBounded DEF Stopped
<1> QED BY <1>2, WorkMoves

LEMMA OnwardIs ==
    ASSUME Typed, WorksBounded, NEW a \in DOMAIN ClickOf, attempts[a].at \in 2..Len(FlowAt(a).steps)
    PROVE  \E w \in Attempt : Onward(a) = [attempts EXCEPT ![a] = w] /\ WorkBounded(w)
<1>0. a \in Attempts
  BY SceneTyped
<1>1. PICK w \in Attempt : /\ Onward(a) = [attempts EXCEPT ![a] = w]
                           /\ \/ w = [attempts[a] EXCEPT !.at = @ + 1] /\ attempts[a].at < Len(FlowAt(a).steps)
                              \/ w = Over(attempts[a])
  BY <1>0, OnwardTyped
<1>2. CASE w = Over(attempts[a])
  BY <1>1, <1>2, OverBounded
<1>3. CASE w = [attempts[a] EXCEPT !.at = @ + 1] /\ attempts[a].at < Len(FlowAt(a).steps)
  <2>1. PICK v \in Attempt : v = attempts[a]
    BY <1>0 DEF Typed
  <2>2. w.at = v.at + 1 /\ w.config = v.config /\ w.content = v.content /\ w.tools = v.tools
    BY <1>3, <2>1 DEF Attempt
  <2>3. WorkBounded(v) /\ v.at \in Nat /\ v.at < Len(FlowAt(a).steps)
    BY <1>0, <1>3, <2>1 DEF WorksBounded, Attempt
  <2>4. PICK n \in 1..8 : n = Len(FlowAt(a).steps)
    BY PathLength
  <2>5. v.at \in Nat /\ v.at < n
    BY <2>3, <2>4
  <2>6. v.at + 1 \in 0..8
    BY <2>5
  <2> QED BY <1>1, <2>2, <2>3, <2>6 DEF WorkBounded
<1> QED BY <1>1, <1>2, <1>3

LEMMA OnwardBounded ==
    ASSUME Typed, WorksBounded, scene' = scene, NEW a \in DOMAIN ClickOf, attempts[a].at \in 2..Len(FlowAt(a).steps),
           attempts' = Onward(a)
    PROVE  WorksBounded'
<1>1. PICK w \in Attempt : attempts' = [attempts EXCEPT ![a] = w] /\ WorkBounded(w)
  BY OnwardIs
<1>2. a \in Attempts
  BY SceneTyped
<1> QED BY <1>1, <1>2, WorkMoves

LEMMA HandlerBounded ==
    ASSUME Typed, WorksBounded, ClockBounded, scene' = scene, NEW a \in DOMAIN ClickOf,
           Read(a) \/ Clear(a) \/ StartAudit(a) \/ Send(a) \/ Finish(a) \/ Turn(a) \/ Fail(a)
    PROVE  WorksBounded'
<1>0. a \in Attempts /\ attempts[a] \in Attempt /\ WorkBounded(attempts[a])
  BY SceneTyped DEF Typed, WorksBounded
<1>1. attempts[a].at \in 2..Len(FlowAt(a).steps)
  BY DEF Read, Clear, StartAudit, Send, Finish, Turn, Fail, Ready
<1>2. CASE attempts' = Onward(a) \/ Stopped(a)
  BY <1>0, <1>1, <1>2, OnwardBounded, StoppedBounded
<1>3. CASE Read(a)
  <2>1. PICK w \in Attempt : Onward(a) = [attempts EXCEPT ![a] = w] /\ WorkBounded(w)
    BY <1>1, OnwardIs
  <2> DEFINE v == [w EXCEPT !.content = content, !.open = ~strict]
  <2>2. v.at = w.at /\ v.config = w.config /\ v.content = content /\ v.tools = w.tools
    BY DEF Attempt
  <2>3. attempts' = [attempts EXCEPT ![a] = v]
    BY <1>0, <1>3, <2>1 DEF Read, Typed
  <2> HIDE DEF v
  <2>4. WorkBounded(v)
    BY <2>1, <2>2 DEF WorkBounded, ClockBounded
  <2> QED BY <1>0, <2>3, <2>4, WorkMoves
<1>4. CASE Turn(a)
  <2>1. PICK w \in Attempt : w = attempts[a]
    BY <1>0
  <2>2. CASE TurnLeft(w) /\ attempts' = [attempts EXCEPT ![a] = [w EXCEPT !.turn = @ + 1, !.tools = @ + 1, !.at = 2]]
    <3> DEFINE v == [w EXCEPT !.turn = @ + 1, !.tools = @ + 1, !.at = 2]
    <3>1. v.at = 2 /\ v.config = w.config /\ v.content = w.content /\ v.tools = w.tools + 1
      BY DEF Attempt
    <3>2. attempts' = [attempts EXCEPT ![a] = v]
      BY <2>2
    <3> HIDE DEF v
    <3>3. w.tools + 1 \in 0..MaxTools
      BY <1>0, <2>1, <2>2, ApprovalAssumption DEF TurnLeft, WorkBounded
    <3>4. WorkBounded(v)
      BY <1>0, <2>1, <3>1, <3>3 DEF WorkBounded
    <3> QED BY <1>0, <3>2, <3>4, WorkMoves
  <2> QED BY <1>2, <1>4, <2>1, <2>2 DEF Turn
<1>5. CASE Clear(a) \/ StartAudit(a) \/ Send(a) \/ Finish(a) \/ Fail(a)
  BY <1>2, <1>5 DEF Clear, StartAudit, Send, Finish, Fail
<1> QED BY <1>3, <1>4, <1>5

LEMMA BeginBounded ==
    ASSUME Typed, ClockBounded, StoresBounded, NEW p \in Proposals, NEW a \in Attempts, NEW c \in Versions
    PROVE  LET w == Begin(a, p, c) IN WorkBounded(w) /\ WorkBounded([w EXCEPT !.at = 2])
<1> DEFINE w == Begin(a, p, c)
           d == IF FlowAt(a).clicked THEN c ELSE proposed[p].content
           v == [at |-> 1, prop |-> p, config |-> config, content |-> d, open |-> ~strict, turn |-> 1, tools |-> 0]
           u == [w EXCEPT !.at = 2]
<1>0. w = [NoAttempt EXCEPT !.at = 1, !.prop = p, !.config = config, !.open = ~strict, !.turn = 1, !.content = d]
  BY DEF Begin
<1>1. w = v
  BY <1>0 DEF NoAttempt
<1>2. d \in Versions
  BY DEF StoresBounded, ShownTyped
<1>3. w.at = 1 /\ w.config = config /\ w.content = d /\ w.tools = 0
  BY <1>1
<1>4. u.at = 2 /\ u.config = config /\ u.content = d /\ u.tools = 0
  BY <1>1
<1> HIDE DEF w, d, u
<1>5. WorkBounded(w) /\ WorkBounded(u)
  BY <1>2, <1>3, <1>4, ApprovalAssumption DEF WorkBounded, ClockBounded
<1> QED BY <1>5 DEF w, u

LEMMA ClickBounded ==
    ASSUME Typed, ClockBounded, StoresBounded, WorksBounded, scene' = scene,
           NEW p \in DOMAIN FlowOf, NEW a \in DOMAIN ClickOf, NEW c \in Versions, Approve(a, p, c)
    PROVE  WorksBounded'
<1>1. p \in Proposals /\ a \in Attempts
  BY SceneTyped
<1>2. PICK w : w = Begin(a, p, c)
  OBVIOUS
<1>3. PICK v : v \in {[w EXCEPT !.at = 2], Over(w)} /\ attempts' = [attempts EXCEPT ![a] = v]
  BY <1>2 DEF Approve
<1>4. WorkBounded(v)
  BY <1>1, <1>2, <1>3, BeginBounded, OverBounded
<1> QED BY <1>1, <1>3, <1>4, WorkMoves

\* What leaves has the versions its handler has.
LEMMA SentStaysBounded ==
    ASSUME Typed, SentBounded, scene' = scene, NEW v, WorkBounded(v),
           NEW m, m.config = v.config /\ m.content = v.content, sent' \subseteq sent \cup {m}
    PROVE  SentBounded'
BY SameScene DEF SentBounded, WorkBounded

LEMMA SendsBounded ==
    ASSUME Typed, ApprovalBounds, scene' = scene, NEW a \in DOMAIN ClickOf,
           Read(a) \/ Clear(a) \/ StartAudit(a) \/ Send(a) \/ Finish(a) \/ Turn(a) \/ Fail(a)
    PROVE  SentBounded'
<1>1. a \in Attempts
  BY SceneTyped
<1>2. PICK v \in Attempt : v = attempts[a]
  BY <1>1 DEF Typed
<1>3. HandlerStep(a)
  BY <1>1, HandlerSteps
<1>4. PICK m : m.config = v.config /\ m.content = v.content /\ sent' \subseteq sent \cup {m}
  <2> DEFINE m == [key |-> Key(a), prop |-> v.prop, config |-> v.config, content |-> v.content, open |-> v.open]
  <2>1. m.config = v.config /\ m.content = v.content
    OBVIOUS
  <2>2. sent' \subseteq sent \cup {m}
    BY <1>2, <1>3 DEF HandlerStep
  <2> HIDE DEF m
  <2> QED BY <2>1, <2>2
<1>5. WorkBounded(v)
  BY <1>1, <1>2 DEF ApprovalBounds, WorksBounded
<1> QED BY <1>4, <1>5, SentStaysBounded DEF ApprovalBounds

LEMMA ClickSendsBounded ==
    ASSUME Typed, ApprovalBounds, scene' = scene,
           NEW p \in DOMAIN FlowOf, NEW a \in DOMAIN ClickOf, NEW c \in Versions, Approve(a, p, c)
    PROVE  SentBounded'
<1>1. p \in Proposals /\ a \in Attempts
  BY SceneTyped
<1>2. PICK w : w = Begin(a, p, c)
  OBVIOUS
<1>3. WorkBounded(w)
  BY <1>1, <1>2, BeginBounded DEF ApprovalBounds
<1>4. PICK m : m.config = w.config /\ m.content = w.content /\ sent' \subseteq sent \cup {m}
  <2> DEFINE m == [key |-> <<a, 1>>, prop |-> p, config |-> w.config, content |-> w.content, open |-> w.open]
  <2>1. m.config = w.config /\ m.content = w.content
    OBVIOUS
  <2>2. sent' = sent \/ sent' = sent \cup {m}
    BY <1>2, Clicks
  <2> HIDE DEF m
  <2> QED BY <2>1, <2>2
<1> QED BY <1>3, <1>4, SentStaysBounded DEF ApprovalBounds

\* The rest of the desktop goes on around the handlers.
LEMMA AroundBounded ==
    ASSUME Typed, TokenInv, ApprovalBounds, scene' = scene, Around PROVE ApprovalBounds'
<1>1. /\ UNCHANGED <<proposed, sent>> /\ \A s \in Stores : store'[s] \subseteq store[s]
  BY AroundLoses
<1>2. StoresBounded'
  BY <1>1, LossBounded DEF ApprovalBounds
<1>3. SentBounded'
  BY <1>1, SameScene DEF ApprovalBounds, SentBounded
<1>4. ClockBounded'
  <2>1. /\ now' = now \/ (now < scene.time /\ now' = now + 1)
        /\ config' = config \/ (config < scene.changes /\ config' = config + 1)
        /\ content' = content \/ (content < scene.changes /\ content' = content + 1)
    BY DEF Around, Dismiss, EditConfig, EditData, SetPolicy, Tick, Stop
  <2>2. now' \in 0..scene.time
    BY <2>1, SceneBounds DEF ApprovalBounds, ClockBounded
  <2>3. config' \in 0..scene.changes /\ content' \in 0..scene.changes
    BY <2>1, SceneBounds DEF ApprovalBounds, ClockBounded, Versions
  <2> QED BY <2>2, <2>3 DEF ClockBounded, Versions
<1>5. WorksBounded'
  <2>1. CASE SetPolicy
    <3>1. ASSUME NEW b \in Attempts PROVE WorkBounded(attempts'[b])
      <4>1. PICK w \in Attempt : w = attempts[b]
        BY DEF Typed
      <4> DEFINE v == [w EXCEPT !.open = @ \/ (strict /\ w.at # 0)]
      <4>2. attempts'[b] = v
        BY <2>1, <4>1 DEF SetPolicy
      <4>3. v.at = w.at /\ v.config = w.config /\ v.content = w.content /\ v.tools = w.tools
        BY DEF Attempt
      <4> HIDE DEF v
      <4>4. WorkBounded(w)
        BY <4>1 DEF ApprovalBounds, WorksBounded
      <4> QED BY <4>2, <4>3, <4>4 DEF WorkBounded
    <3> QED BY <3>1, SameScene DEF WorksBounded
  <2>2. CASE Stop
    <3>1. \A b \in Attempts : attempts'[b] = Over(attempts[b])
      BY <2>2 DEF Stop
    <3> QED BY <3>1, OverBounded, SameScene DEF WorksBounded
  <2>3. CASE attempts' = attempts
    BY <2>3, SameScene DEF ApprovalBounds, WorksBounded
  <2> QED BY <2>1, <2>2, <2>3 DEF Around, Dismiss, EditConfig, EditData, Tick
<1> QED BY <1>2, <1>3, <1>4, <1>5 DEF ApprovalBounds

LEMMA BoundsStart == ApprovalInit => ApprovalBounds
<1> SUFFICES ASSUME ApprovalInit PROVE ApprovalBounds
  OBVIOUS
<1>1. Typed
  BY AtFirst
<1>2. ClockBounded
  BY <1>1, SceneBounds DEF ApprovalInit, ClockBounded
<1>3. WorksBounded
  BY <1>1, OverBounded DEF ApprovalInit, WorksBounded
<1>4. StoresBounded
  <2>1. Cardinality(Proposals) \in Nat /\ Cardinality({}) = 0
    BY ApprovalAssumption, FS_CardinalityType, FS_EmptySet
  <2>2. 0 \in 0..Cardinality(Proposals) /\ 0 \in 0..(scene.time + Lifetime)
    BY <1>1, <2>1, SceneBounds, Bounds
  <2>3. ShownTyped(Unshown)
    BY <1>1, <2>2, SceneBounds DEF ShownTyped, Unshown
  <2>4. \A p \in Proposals : ShownTyped(proposed[p])
    BY <2>3 DEF ApprovalInit
  <2>5. \A s \in Stores : Cardinality(store[s]) <= Capacity
    BY <2>1, ApprovalAssumption DEF ApprovalInit
  <2> QED BY <2>4, <2>5 DEF StoresBounded
<1>5. SentBounded
  BY DEF ApprovalInit, SentBounded
<1> QED BY <1>2, <1>3, <1>4, <1>5 DEF ApprovalBounds

LEMMA BoundsKept == Typed /\ TokenInv /\ ApprovalBounds /\ [ApprovalNext]_approvalVars => ApprovalBounds'
<1> SUFFICES ASSUME Typed, TokenInv, ApprovalBounds, [ApprovalNext]_approvalVars PROVE ApprovalBounds'
  OBVIOUS
<1>0. ClockBounded /\ StoresBounded /\ WorksBounded /\ SentBounded
  BY DEF ApprovalBounds
<1>1. scene' = scene
  BY DEF ApprovalNext, approvalVars
<1>2. UNCHANGED <<now, config, content>> => ClockBounded'
  BY <1>0, <1>1, SameScene DEF ClockBounded
<1>3. UNCHANGED <<proposed, store>> => StoresBounded'
  BY <1>0, <1>1, SameScene DEF StoresBounded
<1>4. UNCHANGED attempts => WorksBounded'
  BY <1>0, <1>1, SameScene DEF WorksBounded
<1>5. UNCHANGED sent => SentBounded'
  BY <1>0, <1>1, SameScene DEF SentBounded
<1>6. CASE UNCHANGED approvalVars
  BY <1>2, <1>3, <1>4, <1>5, <1>6 DEF approvalVars, ApprovalBounds
<1>7. ASSUME NEW p \in DOMAIN FlowOf, Prepare(p) PROVE ApprovalBounds'
  <2>1. PICK d \in 0..content : Issued(p, config, d)
    BY <1>7 DEF Prepare
  <2>2. config \in Versions /\ d \in Versions
    BY <1>0, SceneBounds DEF ClockBounded, Versions
  <2>3. StoresBounded'
    BY <1>0, <1>1, <2>1, <2>2, IssuedBounded
  <2> QED BY <1>2, <1>4, <1>5, <1>7, <2>3 DEF Prepare, ApprovalBounds
<1>8. ASSUME NEW a \in DOMAIN ClickOf, NEW p \in DOMAIN FlowOf, Propose(a, p) PROVE ApprovalBounds'
  <2>1. a \in Attempts
    BY SceneTyped
  <2>2. attempts[a].config \in Versions /\ content \in Versions
    BY <1>0, <2>1 DEF ClockBounded, WorksBounded, WorkBounded
  <2>3. StoresBounded'
    BY <1>0, <1>1, <1>8, <2>2, IssuedBounded DEF Propose
  <2>4. WorksBounded'
    BY <1>0, <1>1, <1>8, OnwardBounded DEF Propose, Ready
  <2> QED BY <1>2, <1>5, <1>8, <2>3, <2>4 DEF Propose, ApprovalBounds
<1>9. ASSUME NEW a \in DOMAIN ClickOf, NEW p \in DOMAIN FlowOf, NEW c \in Versions, Approve(a, p, c)
      PROVE  ApprovalBounds'
  <2>1. p \in Proposals /\ a \in Attempts /\ StoreOf(p) \in Stores
    BY SceneTyped DEF Stores
  <2>2. WorksBounded' /\ SentBounded'
    BY <1>0, <1>1, <1>9, ClickBounded, ClickSendsBounded
  <2>3. UNCHANGED <<now, config, content, proposed>> /\ store' = [store EXCEPT ![StoreOf(p)] = @ \ {p}]
    BY <1>9, Clicks
  <2>4. \A s \in Stores : store'[s] \subseteq store[s]
    BY <2>1, <2>3 DEF Typed
  <2>5. StoresBounded'
    BY <1>0, <1>1, <2>3, <2>4, LossBounded
  <2> QED BY <1>2, <2>2, <2>3, <2>5 DEF ApprovalBounds
<1>10. ASSUME NEW a \in DOMAIN ClickOf,
              Read(a) \/ Clear(a) \/ StartAudit(a) \/ Send(a) \/ Finish(a) \/ Turn(a) \/ Fail(a)
       PROVE  ApprovalBounds'
  <2>1. WorksBounded' /\ SentBounded'
    BY <1>0, <1>1, <1>10, HandlerBounded, SendsBounded
  <2>2. UNCHANGED <<now, config, content, proposed, store>>
    BY <1>10 DEF Read, Clear, StartAudit, Send, Finish, Turn, Fail
  <2> QED BY <1>2, <1>3, <2>1, <2>2 DEF ApprovalBounds
<1>11. CASE Around
  BY <1>1, <1>11, AroundBounded
<1> QED BY <1>6, <1>7, <1>8, <1>9, <1>10, <1>11 DEF ApprovalNext, Click, Around

\* The types and limits of the approvals (ApprovalTypeOK): no store keeps more proposals than its capacity, whatever
\* is proposed at once, as the oldest makes room; no agent passes its budget of turns and tools; what is kept, worked
\* on and sent is of a version that was there.
THEOREM ApprovalTypes == ApprovalSpec => []ApprovalTypeOK
<1>1. ApprovalInit => Typed /\ TokenInv /\ ApprovalBounds
  BY AtFirst, BoundsStart
<1>2. (Typed /\ TokenInv /\ ApprovalBounds) /\ [ApprovalNext]_approvalVars => (Typed /\ TokenInv /\ ApprovalBounds)'
  BY EveryStep, BoundsKept
<1>3. Typed /\ ApprovalBounds => ApprovalTypeOK
  <2> SUFFICES ASSUME Typed, ApprovalBounds PROVE ApprovalTypeOK
    OBVIOUS
  <2>1. proposed \in [Proposals -> [config : Versions, content : Versions, expires : 0..(scene.time + Lifetime),
                                    nr : 0..Cardinality(Proposals)]]
    <3> DEFINE S == [config : Versions, content : Versions, expires : 0..(scene.time + Lifetime),
                     nr : 0..Cardinality(Proposals)]
    <3>1. \A p \in Proposals : proposed[p] \in S
      BY DEF ApprovalBounds, StoresBounded, ShownTyped
    <3>2. proposed = [p \in Proposals |-> proposed[p]]
      BY DEF Typed
    <3> HIDE DEF S
    <3>3. proposed \in [Proposals -> S]
      BY <3>1, <3>2
    <3> QED BY <3>3 DEF S
  <2>2. attempts \in [Attempts -> [at : 0..8, prop : Proposals \cup {None}, config : Versions,
                        content : Versions, open : BOOLEAN, turn : 0..MaxTurns, tools : 0..MaxTools]]
    <3> DEFINE S == [at : 0..8, prop : Proposals \cup {None}, config : Versions,
                        content : Versions, open : BOOLEAN, turn : 0..MaxTurns, tools : 0..MaxTools]
    <3>1. ASSUME NEW a \in Attempts PROVE attempts[a] \in S
      <4>1. PICK w \in Attempt : w = attempts[a]
        BY DEF Typed
      <4>2. WorkBounded(w)
        BY <4>1 DEF ApprovalBounds, WorksBounded
      <4>3. w \in S
        BY <4>2 DEF WorkBounded, Attempt
      <4> QED BY <4>1, <4>3
    <3>2. attempts \in [Attempts -> Attempt]
      BY DEF Typed
    <3> HIDE DEF S
    <3>3. attempts \in [Attempts -> S]
      BY <3>1, <3>2
    <3> QED BY <3>3 DEF S
  <2>3. sent \subseteq [key : Attempts \X (0..MaxTurns), prop : Proposals, config : Versions,
                        content : Versions, open : BOOLEAN]
    <3> SUFFICES ASSUME NEW m \in sent
                 PROVE  m \in [key : Attempts \X (0..MaxTurns), prop : Proposals, config : Versions,
                               content : Versions, open : BOOLEAN]
      OBVIOUS
    <3>1. m \in Effect /\ m.config \in Versions /\ m.content \in Versions
      BY DEF Typed, ApprovalBounds, SentBounded
    <3> QED BY <3>1 DEF Effect
  <2> QED BY <2>1, <2>2, <2>3 DEF ApprovalTypeOK, Typed, ApprovalBounds, ClockBounded, StoresBounded
<1> QED BY <1>1, <1>2, <1>3, PTL DEF ApprovalSpec
=============================================================================
