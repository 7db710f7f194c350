--------------------------- MODULE ApprovedActions ---------------------------
(***************************************************************************)
(* What leaves the desktop, or changes its data, after a person reviewed   *)
(* it: model disclosures, MCP launches and calls, clean-up and             *)
(* reconciliation plans.  Every handler has the same shape: "prepare"      *)
(* shows a proposal and keeps it under a one-use token, "approve" takes    *)
(* the token and walks through checks, reads, an audit record and the      *)
(* action itself.  They differ in what they check and where they wait: a   *)
(* flow is that walk, cut at its awaits, between which the person edits    *)
(* settings, data changes and other approvals run.                         *)
(***************************************************************************)
EXTENDS Naturals, Sequences, FiniteSets

CONSTANTS
    Proposals,   \* proposals the person may be proposed
    Attempts,    \* clicks on "approve"
    Scenes,      \* what a person may be busy with: the flow of each proposal and click
    Capacity,    \* proposals one store keeps (20 in the code)
    Lifetime,    \* of a token (ten minutes)
    MaxTurns, MaxTools,    \* the budget of an agent run
    None

Flows == {"explanation", "agent", "rows", "knowledge", "promptModel", "modelTool", "tool", "prompt",
          "resource", "inspect", "remoteInspect", "remoteTool", "clean", "reconcile"}

\* A scene also bounds the clock, and the edits of a setting or of data.
ASSUME ApprovalAssumption ==
    /\ \A s \in Scenes :
          /\ DOMAIN s.flowOf \subseteq Proposals /\ DOMAIN s.clickOf \subseteq Attempts
          /\ \A p \in DOMAIN s.flowOf : s.flowOf[p] \in Flows
          /\ \A a \in DOMAIN s.clickOf : s.clickOf[a] \in Flows
          /\ s.time \in Nat /\ s.changes \in Nat
    /\ Capacity \in Nat \ {0} /\ Lifetime \in Nat \ {0}
    /\ MaxTurns \in Nat \ {0} /\ MaxTools \in Nat
    /\ IsFiniteSet(Proposals) /\ None \notin Proposals /\ {"new", "open", "gone"} \cap Attempts = {}

-----------------------------------------------------------------------------
(* The flows.  A step is one turn of the event loop: its checks, then its   *)
(* effects.  "take" is always the first; a clicked request comes along      *)
(* with the approval, any other is the stored one or is read again.         *)

Step(effects, checks) == [do |-> effects, need |-> checks]
Audited == <<Step({"audit"}, {}), Step({"send"}, {}), Step({"finish"}, {})>>

\* The session stores: whether a token dies at the very instant its lifetime ends, and
\* what the store's fingerprint, or the handler with the stored proposal, compares when the
\* token is taken.
Sessions(name, atInstant, binds) == [name |-> name, atInstant |-> atInstant, binds |-> binds]
AggregateSessions  == Sessions("aggregate", TRUE, {"config"})
AgentSessions      == Sessions("agent", FALSE, {"config"})
RowSessions        == Sessions("rows", TRUE, {"config"})
KnowledgeSessions  == Sessions("knowledge", TRUE, {"config"})
ModelSessions      == Sessions("mcpModel", TRUE, {"config", "policy"})
ToolSessions       == Sessions("mcpTool", TRUE, {"config", "content"})
PromptSessions     == Sessions("mcpPrompt", TRUE, {"config", "content"})
ResourceSessions   == Sessions("mcpResource", TRUE, {"config", "content"})
InspectionSessions == Sessions("mcpInspection", TRUE, {"config"})
RemoteSessions     == Sessions("remote", TRUE, {"config"})
RemoteToolSessions == Sessions("remoteTool", TRUE, {"config", "content"})
CleanSessions          == Sessions("clean", FALSE, {})
ReconciliationSessions == Sessions("reconcile", FALSE, {})

\* A flow takes its token with the checks of its store and the effects first, and walks on.
Flow(sessions, clicked, first, steps) ==
    [store |-> sessions.name, atInstant |-> sessions.atInstant, clicked |-> clicked,
     steps |-> <<Step({"take"} \cup first, sessions.binds)>> \o steps]

AggregateExplanation == Flow(AggregateSessions, FALSE, {}, Audited)
AggregateAgent       == Flow(AgentSessions, FALSE, {}, Audited \o <<Step({"turn"}, {})>>)
\* Mutant: the policy is asked before the rows are read again.
ExplicitRowsEarly == Flow(RowSessions, FALSE, {},
    <<Step({}, {"policy"}), Step({"read"}, {}), Step({}, {"content"})>> \o Audited)
ExplicitRows    == Flow(RowSessions, FALSE, {}, <<Step({"read"}, {}), Step({}, {"content", "policy"})>> \o Audited)
KnowledgeAnswer == Flow(KnowledgeSessions, FALSE, {}, <<Step({"read"}, {}), Step({}, {"content", "policy"})>> \o Audited)
McpPromptModel  == Flow(ModelSessions, FALSE, {}, Audited)
McpModelTool    == Flow(ModelSessions, FALSE, {}, Audited \o <<Step({"propose"}, {})>>)
McpToolCall     == Flow(ToolSessions, TRUE, {"audit", "send"}, <<Step({"finish"}, {})>>)
McpPromptGet    == Flow(PromptSessions, TRUE, {"audit", "send"}, <<Step({"finish"}, {})>>)
McpResourceRead == Flow(ResourceSessions, FALSE, {"audit", "send"}, <<Step({"finish"}, {})>>)
McpInspection   == Flow(InspectionSessions, FALSE, {"send"}, <<>>)
RemoteInspection == Flow(RemoteSessions, FALSE, {}, <<Step({"audit", "send"}, {}), Step({"finish"}, {})>>)
RemoteToolCall == Flow(RemoteToolSessions, TRUE, {}, <<Step({"audit", "send"}, {}), Step({"finish"}, {})>>)
DataClean      == Flow(CleanSessions, FALSE, {}, <<Step({"send"}, {"current"})>>)
Reconciliation == Flow(ReconciliationSessions, FALSE, {}, <<Step({"send"}, {"current"})>>)

FlowNamed(f) ==
    CASE f = "explanation" -> AggregateExplanation [] f = "agent"      -> AggregateAgent
      [] f = "rows"        -> ExplicitRows         [] f = "knowledge"  -> KnowledgeAnswer
      [] f = "promptModel" -> McpPromptModel       [] f = "modelTool"  -> McpModelTool
      [] f = "tool"        -> McpToolCall          [] f = "prompt"     -> McpPromptGet
      [] f = "resource"    -> McpResourceRead      [] f = "inspect"    -> McpInspection
      [] f = "remoteInspect" -> RemoteInspection   [] f = "remoteTool" -> RemoteToolCall
      [] f = "clean"       -> DataClean            [] f = "reconcile"  -> Reconciliation

\* Proposals whose content is read before they are proposed.
Previewed == {"rows", "knowledge", "clean", "reconcile"}
\* Flows that strict private mode closes, and those that leave a record.
Guarded  == {"rows", "knowledge", "promptModel", "modelTool"}
Unlogged == {"inspect", "clean", "reconcile"}

VARIABLES
    scene,             \* the flows of this behaviour
    now,
    config, content,   \* versions of the destination's settings and of the data
    strict,            \* strict private mode
    proposed,          \* what each proposal showed, with its expiry and its number in its store
    store,             \* the proposals each store keeps
    attempts,          \* the handlers at work
    sent,              \* what has left the desktop
    audits,            \* the records, started and finished
    closed             \* proposals the person dismissed

approvalVars == <<scene, now, config, content, strict, proposed, store, attempts, sent, audits, closed>>

FlowOf   == scene.flowOf
ClickOf  == scene.clickOf
Versions == 0..scene.changes
StoreOf(p) == FlowNamed(FlowOf[p]).store
FlowAt(a) == FlowNamed(ClickOf[a])
Stores   == {StoreOf(p) : p \in DOMAIN FlowOf} \cup {FlowAt(a).store : a \in DOMAIN ClickOf}
Held(p)   == p \in store[StoreOf(p)]
Unshown   == [config |-> 0, content |-> 0, expires |-> 0, nr |-> 0]
NoAttempt == [at |-> 0, prop |-> None, config |-> 0, content |-> 0, open |-> FALSE, turn |-> 0, tools |-> 0]
Key(a)    == <<a, attempts[a].turn>>

ApprovalTypeOK ==
    /\ scene \in Scenes /\ now \in 0..scene.time /\ config \in Versions /\ content \in Versions /\ strict \in BOOLEAN
    /\ proposed \in [Proposals -> [config : Versions, content : Versions, expires : 0..(scene.time + Lifetime),
                                 nr : 0..Cardinality(Proposals)]]
    /\ store \in [Stores -> SUBSET Proposals]
    /\ \A s \in Stores : Cardinality(store[s]) <= Capacity
    /\ attempts \in [Attempts -> [at : 0..8, prop : Proposals \cup {None}, config : Versions,
                        content : Versions, open : BOOLEAN, turn : 0..MaxTurns, tools : 0..MaxTools]]
    /\ sent \subseteq [key : Attempts \X (0..MaxTurns), prop : Proposals, config : Versions,
                       content : Versions, open : BOOLEAN]
    /\ audits \in [Attempts \X (0..MaxTurns) -> {"none", "started", "succeeded", "failed"}]
    /\ closed \subseteq Proposals

ApprovalInit ==
    /\ scene \in Scenes
    /\ now = 0 /\ config = 0 /\ content = 0 /\ strict = FALSE
    /\ proposed = [p \in Proposals |-> Unshown] /\ store = [s \in Stores |-> {}]
    /\ attempts = [a \in Attempts |-> NoAttempt]
    /\ sent = {} /\ audits = [k \in Attempts \X (0..MaxTurns) |-> "none"] /\ closed = {}

-----------------------------------------------------------------------------
(* The session stores *)

\* The store's rule for a token whose lifetime ends at this very instant.
Expired(p) == IF FlowNamed(FlowOf[p]).atInstant THEN proposed[p].expires <= now ELSE proposed[p].expires < now

\* Mutant: the store only drops what has expired.
KeptAll(ps) == ps
\* A full store drops its oldest proposal for the new one.
Kept(ps) == IF Cardinality(ps) < Capacity THEN ps
            ELSE {p \in ps : \E o \in ps : proposed[o].nr < proposed[p].nr}

\* The proposal p is proposed, for the settings c and the data d, and its token kept.
Issued(p, c, d) ==
    LET fresh   == {o \in store[StoreOf(p)] : ~Expired(o)}
        earlier == {o \in DOMAIN FlowOf : StoreOf(o) = StoreOf(p) /\ proposed[o] # Unshown} IN
    /\ proposed[p] = Unshown
    /\ proposed' = [proposed EXCEPT ![p] = [config |-> c, content |-> d, expires |-> now + Lifetime,
                                           nr |-> Cardinality(earlier) + 1]]
    /\ store' = [store EXCEPT ![StoreOf(p)] = Kept(fresh) \cup {p}]

\* Mutant: the token stays in the store until the action is over.
TokenStays(s, p) == store
\* The token is gone as soon as it was presented, whatever the checks say.
TokenTaken(s, p) == [store EXCEPT ![s] = @ \ {p}]

\* "prepare": strict mode refuses a guarded proposal; a preview may be out of date already.
Prepare(p) ==
    /\ FlowOf[p] \in Guarded => ~strict
    /\ \E d \in 0..content : (FlowOf[p] \in Previewed \/ d = content) /\ Issued(p, config, d)
    /\ UNCHANGED <<now, config, content, strict, attempts, sent, audits, closed>>

\* "dismiss" revokes the token.
Revoke(p) == store' = TokenTaken(StoreOf(p), p)

Dismiss(p) ==
    /\ proposed[p] # Unshown /\ p \notin closed
    /\ closed' = closed \cup {p}
    /\ Revoke(p)
    /\ UNCHANGED <<now, config, content, strict, proposed, attempts, sent, audits>>

-----------------------------------------------------------------------------
(* The handlers *)

\* Mutant: what was read again is not compared with what was reviewed.
PassesUnread(a, w, checks) ==
    /\ "config"  \in checks => config = proposed[w.prop].config
    /\ "current" \in checks => content = proposed[w.prop].content
    /\ "policy"  \in checks => ~strict
\* What the checks of a step say of the attempt w.
Passes(a, w, checks) ==
    /\ "config"  \in checks => config = proposed[w.prop].config
    /\ "content" \in checks => w.content = proposed[w.prop].content
    /\ "current" \in checks => content = proposed[w.prop].content
    /\ "policy"  \in checks => ~strict

Begin(a, p, c) ==
    LET s == FlowAt(a) IN
    [NoAttempt EXCEPT !.at = 1, !.prop = p, !.config = config, !.open = ~strict, !.turn = 1,
                      !.content = IF s.clicked THEN c ELSE proposed[p].content]

\* The handler is over, here or at its last step.
Over(w) == [NoAttempt EXCEPT !.prop = w.prop]
Stopped(a) == attempts' = [attempts EXCEPT ![a] = Over(attempts[a])]

\* Mutant: the action is only written down once its answer is there.
NotYet(a, status) == IF status = "started" THEN audits ELSE [audits EXCEPT ![Key(a)] = status]
Recorded(a, status) == [audits EXCEPT ![Key(a)] = status]

\* The click: the token of p, in the store the handler looks into.
Approve(a, p, c) ==
    LET flow == FlowAt(a)  first == Head(flow.steps)  w == Begin(a, p, c) IN
    /\ attempts[a] = NoAttempt
    /\ StoreOf(p) = flow.store /\ proposed[p] # Unshown
    /\ flow.clicked \/ c = proposed[p].content
    /\ store' = TokenTaken(flow.store, p)
    /\ IF Held(p) /\ ~Expired(p) /\ FlowOf[p] = ClickOf[a] /\ Passes(a, w, first.need)
       THEN /\ attempts' = [attempts EXCEPT ![a] = IF Len(flow.steps) > 1 THEN [w EXCEPT !.at = 2] ELSE Over(w)]
            /\ audits' = IF "audit" \in first.do THEN [audits EXCEPT ![<<a, 1>>] = "started"] ELSE audits
            /\ sent' = IF "send" \in first.do
                       THEN sent \cup {[key |-> <<a, 1>>, prop |-> p, config |-> w.config,
                                        content |-> w.content, open |-> w.open]}
                       ELSE sent
       ELSE /\ attempts' = [attempts EXCEPT ![a] = Over(w)]
            /\ UNCHANGED <<audits, sent>>
    /\ UNCHANGED <<now, config, content, strict, proposed, closed>>

Ready(a, effect) ==
    /\ attempts[a].at \in 2..Len(FlowAt(a).steps)
    /\ effect \in FlowAt(a).steps[attempts[a].at].do

Onward(a) ==
    LET w == attempts[a]
    IN  [attempts EXCEPT ![a] = IF w.at < Len(FlowAt(a).steps) THEN [w EXCEPT !.at = @ + 1] ELSE Over(w)]

\* The rows or passages are read again for the person's selection.
Read(a) ==
    /\ Ready(a, "read")
    /\ attempts' = [Onward(a) EXCEPT ![a].content = content, ![a].open = ~strict]
    /\ UNCHANGED <<now, config, content, strict, proposed, store, sent, audits, closed>>

\* The answer is compared with the proposal.
Clear(a) ==
    LET w == attempts[a] IN
    /\ w.at \in 2..Len(FlowAt(a).steps) /\ FlowAt(a).steps[w.at].do = {}
    /\ IF Passes(a, w, FlowAt(a).steps[w.at].need) THEN attempts' = Onward(a) ELSE Stopped(a)
    /\ UNCHANGED <<now, config, content, strict, proposed, store, sent, audits, closed>>

\* The data core keeps the record of a disclosure that is about to start.
StartAudit(a) ==
    /\ Ready(a, "audit") /\ ~Ready(a, "send")
    /\ audits' = Recorded(a, "started")
    /\ attempts' = Onward(a)
    /\ UNCHANGED <<now, config, content, strict, proposed, store, sent, closed>>

Send(a) ==
    LET w == attempts[a]  step == FlowAt(a).steps[w.at] IN
    /\ Ready(a, "send")
    /\ IF Passes(a, w, step.need)
       THEN /\ sent' = sent \cup {[key |-> Key(a), prop |-> w.prop, config |-> w.config,
                                   content |-> w.content, open |-> w.open]}
            /\ audits' = IF "audit" \in step.do THEN Recorded(a, "started") ELSE audits
            /\ attempts' = Onward(a)
       ELSE Stopped(a) /\ UNCHANGED <<sent, audits>>
    /\ UNCHANGED <<now, config, content, strict, proposed, store, closed>>

\* The outcome is recorded; only a success goes on.
Finish(a) ==
    /\ Ready(a, "finish")
    /\ \E status \in {"succeeded", "failed"} :
          /\ audits' = Recorded(a, status)
          /\ IF status = "succeeded" THEN attempts' = Onward(a) ELSE Stopped(a)
    /\ UNCHANGED <<now, config, content, strict, proposed, store, sent, closed>>

\* Another turn needs a tool call and a turn of the budget.
TurnLeft(w) == w.tools < MaxTools /\ w.turn < MaxTurns

\* The agent's decision: a tool call and another turn while the budget lasts, or the end.
Turn(a) ==
    LET w == attempts[a] IN
    /\ Ready(a, "turn")
    /\ \/ TurnLeft(w) /\ attempts' = [attempts EXCEPT ![a] = [w EXCEPT !.turn = @ + 1, !.tools = @ + 1, !.at = 2]]
       \/ Stopped(a)
    /\ UNCHANGED <<now, config, content, strict, proposed, store, sent, audits, closed>>

\* A tool the model suggested becomes a proposal of its own, with the connection the
\* handler resolved when it began.
Propose(a, p) ==
    /\ Ready(a, "propose")
    /\ FlowOf[p] = "tool"
    /\ Issued(p, attempts[a].config, content)
    /\ attempts' = Onward(a)
    /\ UNCHANGED <<now, config, content, strict, sent, audits, closed>>

\* Any step that waits may fail; a disclosure that is on record and cannot be sent is
\* recorded as failed, unless the record cannot be written any more.
Fail(a) ==
    /\ attempts[a].at \in 2..Len(FlowAt(a).steps)
    /\ Stopped(a)
    /\ \/ audits' = audits
       \/ Ready(a, "send") /\ audits[Key(a)] = "started" /\ audits' = Recorded(a, "failed")
    /\ UNCHANGED <<now, config, content, strict, proposed, store, sent, closed>>

-----------------------------------------------------------------------------
(* Around them *)

EditConfig == config < scene.changes /\ config' = config + 1
              /\ UNCHANGED <<now, content, strict, proposed, store, attempts, sent, audits, closed>>
EditData == content < scene.changes /\ content' = content + 1
            /\ UNCHANGED <<now, config, strict, proposed, store, attempts, sent, audits, closed>>

\* Switching to the local-private mode opens what is under way again.
SetPolicy ==
    /\ strict' = ~strict
    /\ attempts' = [a \in Attempts |-> [attempts[a] EXCEPT !.open = @ \/ (strict /\ attempts[a].at # 0)]]
    /\ UNCHANGED <<now, config, content, proposed, store, sent, audits, closed>>

Tick == now < scene.time /\ now' = now + 1
        /\ UNCHANGED <<config, content, strict, proposed, store, attempts, sent, audits, closed>>

\* The application stops: tokens and handlers live in memory, records do not.
Stop ==
    /\ \E a \in Attempts : attempts[a].at # 0
    /\ store' = [s \in Stores |-> {}]
    /\ attempts' = [a \in Attempts |-> Over(attempts[a])]
    /\ UNCHANGED <<now, config, content, strict, proposed, sent, audits, closed>>

Click(a) == \E p \in DOMAIN FlowOf : (\E c \in Versions : Approve(a, p, c)) \/ Propose(a, p)

ApprovalNext ==
    /\ \/ \E p \in DOMAIN FlowOf : Prepare(p) \/ Dismiss(p)
       \/ \E a \in DOMAIN ClickOf : \/ Click(a) \/ Read(a) \/ Clear(a) \/ StartAudit(a) \/ Send(a)
                                    \/ Finish(a) \/ Turn(a) \/ Fail(a)
       \/ EditConfig \/ EditData \/ SetPolicy \/ Tick \/ Stop
    /\ UNCHANGED scene

ApprovalSpec == ApprovalInit /\ [][ApprovalNext]_approvalVars

-----------------------------------------------------------------------------
\* What leaves is what the person saw, at the destination the person saw, although
\* settings and data change and requests come along with the click.  (The plans over
\* local data have no destination.)
SentAsReviewed ==
    \A m \in sent : /\ m.config = proposed[m.prop].config \/ FlowOf[m.prop] \in {"clean", "reconcile"}
                    /\ m.content = proposed[m.prop].content

\* Where a proposal stands for ApprovalPromise: with the handler at work on it, still to be
\* taken, not proposed yet, or gone, which it is once its dialog is closed or has run out.
Standing(p) ==
    LET workers == {a \in Attempts : attempts[a].at # 0 /\ attempts[a].prop = p} IN
    IF workers # {} THEN CHOOSE a \in workers : TRUE
    ELSE IF proposed[p] = Unshown THEN "new"
    ELSE IF Held(p) /\ p \notin closed /\ now <= proposed[p].expires THEN "open" ELSE "gone"

Offers  == [p \in Proposals |-> IF p \in DOMAIN FlowOf THEN Standing(p) ELSE "new"]
Effects == {<<m.prop, m.key[1], m.key[2]>> : m \in sent}
Promise == INSTANCE ApprovalPromise WITH Rounds <- 0..MaxTurns, offer <- Offers, effects <- Effects

\* Every flow over every store keeps the promise of the dialogs: one handler per
\* proposal, whatever is clicked twice, late or in a dialog of another kind; nothing is
\* done for a proposal that was dismissed, has expired or was pushed out, and none comes
\* back.
KeepsPromise == Promise!Spec

\* Whatever left is on record, also when the application stops right after it, and no
\* record tells of a success that was never sent.
SentIsOnRecord ==
    /\ \A m \in sent : FlowOf[m.prop] \notin Unlogged => audits[m.key] # "none"
    /\ \A k \in DOMAIN audits : audits[k] = "succeeded" => \E m \in sent : m.key = k

\* Strict private mode that was on ever since the content was read again, or since the
\* click, stops a guarded disclosure.
StrictStops == \A m \in sent : FlowOf[m.prop] \in Guarded => m.open
=============================================================================
