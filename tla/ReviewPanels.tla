---------------------------- MODULE ReviewPanels ----------------------------
(***************************************************************************)
(* The panels of the window in which the person reviews what is about to   *)
(* be sent or run, and approves it or takes it back.  A panel holds the    *)
(* proposals it shows, the operation it offers to cancel and whether it is *)
(* busy; its requests to the main process are on the way meanwhile, and    *)
(* what is not disabled can be clicked.  Which button is disabled when     *)
(* differs from flow to flow: these are the rules below.  In a behaviour   *)
(* one panel is open.  A review is known by the request that made it.      *)
(***************************************************************************)
EXTENDS Naturals, Sequences

CONSTANTS
    ReviewFlows,    \* the flows looked at
    MaxRequests     \* bound: requests of a panel

VARIABLES
    opened,      \* the panel the person has open, "" when it is closed
    proposal,    \* flows: the review that is shown, or 0
    result,      \* flows: the review whose result is shown, or 0
    operation,   \* the request the panel offers to cancel, or 0
    busy,        \* what a panel without one waits for: "work", the "loading" of a source, or ""
    requests,    \* the requests of the panel, in the order they were made
    usable,      \* reviews the main process would still act upon
    acted,       \* reviews it has acted upon
    takenBack    \* reviews the person took back
reviewVars == <<opened, proposal, result, operation, busy, requests, usable, acted, takenBack>>

-----------------------------------------------------------------------------
(* The rules of the flows:                                                 *)
(*   behind, after: a review that is shown, or a result, hides the way to  *)
(*     a new review; needs: the result that offers it                      *)
(*   marks: preparing makes the panel busy; forgets: what it takes away    *)
(*   cancels: the panel offers to cancel what was approved; else it is busy *)
(*   waits: the buttons among "prepare", "approve" and "dismiss" that are  *)
(*     disabled while an operation is under way                            *)
(*   keeps: a review stays when its approval failed                        *)
(*   confirms: a dismissal shows once the main process has taken note of it *)
(*   revokes: a review that leaves the screen is taken back                *)

McpFlows == {"inspection", "resource", "prompt", "tool"}
McpRule(behind, needs, forgets) ==
    [panel |-> "mcp", behind |-> behind, after |-> {}, needs |-> needs, marks |-> TRUE, forgets |-> forgets,
     cancels |-> TRUE, waits |-> {"prepare"}, keeps |-> FALSE, confirms |-> TRUE, revokes |-> FALSE]
Inspection == McpRule(McpFlows, {}, McpFlows)
Resource   == McpRule({"resource", "prompt", "tool"}, {"inspection"}, {"resource", "prompt"})
Prompt     == McpRule({"resource", "prompt"}, {"inspection"}, {"prompt"})
Tool       == McpRule({"resource", "prompt", "tool"}, {"inspection"}, {"tool"})

ModelRule(panel, behind, forgets) ==
    [panel |-> panel, behind |-> behind, after |-> {}, needs |-> {}, marks |-> FALSE, forgets |-> forgets,
     cancels |-> TRUE, waits |-> {"prepare"}, keeps |-> FALSE, confirms |-> TRUE, revokes |-> FALSE]
PromptModel == ModelRule("bridge", {"promptModel"}, {"promptModel"})
ToolModel   == ModelRule("bridge", {"toolModel", "execution"}, {"execution"})
Execution   == [ModelRule("bridge", {"execution"}, {}) EXCEPT !.confirms = FALSE]
Explanation == ModelRule("explanation", {"explanation"}, {"explanation"})
Agent       == ModelRule("agent", {"agent"}, {"agent"})
Rows        == [ModelRule("rows", {"rows"}, {"rows"}) EXCEPT !.after = {"rows"},
                                                             !.waits = {"approve", "dismiss"}]

LocalRule(panel, behind, after, waits, revokes) ==
    [panel |-> panel, behind |-> behind, after |-> after, needs |-> {}, marks |-> TRUE, forgets |-> {},
     cancels |-> FALSE, waits |-> waits, keeps |-> TRUE, confirms |-> FALSE, revokes |-> revokes]
Clean     == LocalRule("clean", {"clean"}, {}, {"prepare", "approve", "dismiss"}, TRUE)
Reconcile == LocalRule("reconcile", {"reconcile"}, {"reconcile"}, {"prepare", "approve", "dismiss"}, TRUE)
Knowledge == LocalRule("knowledge", {}, {}, {"prepare", "approve"}, FALSE)

Rule == [inspection |-> Inspection, resource |-> Resource, prompt |-> Prompt, tool |-> Tool,
         promptModel |-> PromptModel, toolModel |-> ToolModel, execution |-> Execution,
         explanation |-> Explanation, agent |-> Agent, rows |-> Rows,
         clean |-> Clean, reconcile |-> Reconcile, knowledge |-> Knowledge]

ASSUME ReviewAssumption == ReviewFlows \subseteq DOMAIN Rule

-----------------------------------------------------------------------------
ReviewInit ==
    /\ opened \in {Rule[f].panel : f \in ReviewFlows}
    /\ proposal = [f \in ReviewFlows |-> 0] /\ result = [f \in ReviewFlows |-> 0]
    /\ operation = 0 /\ busy = ""
    /\ requests = <<>> /\ usable = {} /\ acted = {} /\ takenBack = {}

Offered(f) == opened = Rule[f].panel
UnderWay   == operation # 0 \/ busy # ""
\* Mutant: a button stays enabled while the approved operation runs.
EnabledAlways(f, button) == Offered(f)
\* The button of the flow can be clicked.
Enabled(f, button) == Offered(f) /\ (button \in Rule[f].waits => ~UnderWay)

Asks(kind, f, review) ==
    /\ Len(requests) < MaxRequests
    /\ requests' = Append(requests, [kind |-> kind, flow |-> f, review |-> review, phase |-> "sent"])
Becomes(i, phase) == requests' = [requests EXCEPT ![i].phase = phase]
Ongoing(kind) == {i \in DOMAIN requests : requests[i].kind = kind /\ requests[i].phase # "ended"}
Without(shown, fs) == [f \in ReviewFlows |-> IF f \in fs THEN 0 ELSE shown[f]]

Prepare(f) ==
    /\ f # "execution" /\ Enabled(f, "prepare")
    /\ \A g \in Rule[f].behind : proposal[g] = 0
    /\ \A g \in Rule[f].after : result[g] = 0
    /\ \A g \in Rule[f].needs : result[g] # 0
    /\ Asks("prepare", f, Len(requests) + 1)
    /\ busy' = IF Rule[f].marks THEN "work" ELSE busy
    /\ result' = Without(result, Rule[f].forgets)
    /\ proposal' = IF f \in {"inspection", "toolModel"} THEN Without(proposal, Rule[f].forgets) ELSE proposal
    /\ UNCHANGED <<opened, operation, usable, acted, takenBack>>
\* The review is made, or refused; a panel that was closed meanwhile does not learn of it.
Prepared(i) ==
    LET f == requests[i].flow IN
    /\ i \in Ongoing("prepare")
    /\ Becomes(i, "ended")
    /\ \E made \in BOOLEAN :
          /\ usable' = {r \in usable : ~(made /\ Rule[f].revokes /\ r = proposal[f])} \cup {r \in {i} : made}
          /\ proposal' = IF made /\ Offered(f) THEN [proposal EXCEPT ![f] = i] ELSE proposal
    /\ busy' = IF Rule[f].marks THEN "" ELSE busy
    /\ UNCHANGED <<opened, result, operation, acted, takenBack>>

Approve(f) ==
    /\ proposal[f] # 0 /\ Enabled(f, "approve")
    /\ Asks("approve", f, proposal[f])
    /\ IF Rule[f].cancels THEN operation' = Len(requests) + 1 /\ UNCHANGED busy ELSE busy' = "work" /\ UNCHANGED operation
    /\ UNCHANGED <<opened, proposal, result, usable, acted, takenBack>>
\* The main process acts upon a review once.
Act(i) ==
    LET r == requests[i].review IN
    /\ i \in Ongoing("approve") /\ requests[i].phase = "sent"
    /\ Becomes(i, IF r \in usable THEN "running" ELSE "refused")
    /\ usable' = usable \ {r} /\ acted' = IF r \in usable THEN acted \cup {r} ELSE acted
    /\ UNCHANGED <<opened, proposal, result, operation, busy, takenBack>>
\* What an approved tool proposal of the model leads to is a review of its own.
Suggests(f) == f = "toolModel"

\* Mutant: an approval that failed does not release the panel.
ReleasedBySuccess(f, well) == Offered(f) /\ well
\* The answer to an approval releases the panel, whatever it is and whatever the panel waits for by now.
Released(f, well) == Offered(f)
Approved(i) ==
    LET f == requests[i].flow IN
    /\ i \in Ongoing("approve") /\ requests[i].phase # "sent"
    /\ Becomes(i, "ended")
    /\ \E well \in {FALSE} \cup {requests[i].phase = "running"} :
          /\ usable' = IF well /\ Suggests(f) THEN usable \cup {i} ELSE usable
          /\ IF ~Offered(f) THEN UNCHANGED <<proposal, result>>
             ELSE /\ result' = IF well THEN [result EXCEPT ![f] = requests[i].review] ELSE result
                  /\ proposal' = [g \in ReviewFlows |->
                        IF g = f /\ (well \/ ~Rule[f].keeps) THEN 0
                        ELSE IF g = "execution" /\ well /\ Suggests(f) THEN i ELSE proposal[g]]
          /\ operation' = IF Released(f, well) /\ Rule[f].cancels THEN 0 ELSE operation
          /\ busy' = IF Released(f, well) /\ ~Rule[f].cancels THEN "" ELSE busy
    /\ UNCHANGED <<opened, acted, takenBack>>

\* A review whose approval failed may stay on the screen: it is cleared away, no longer taken back.
ApprovalEnded(review) == \E i \in DOMAIN requests :
    requests[i].kind = "approve" /\ requests[i].review = review /\ requests[i].phase = "ended"
\* The main process forgets the review at once; most panels wait to hear of it.
Dismiss(f) ==
    /\ proposal[f] # 0 /\ Enabled(f, "dismiss")
    /\ usable' = usable \ {proposal[f]}
    /\ IF Rule[f].confirms
       THEN Asks("dismiss", f, proposal[f]) /\ UNCHANGED <<proposal, takenBack>>
       ELSE /\ proposal' = [proposal EXCEPT ![f] = 0] /\ UNCHANGED requests
            /\ takenBack' = IF ApprovalEnded(proposal[f]) THEN takenBack ELSE takenBack \cup {proposal[f]}
    /\ UNCHANGED <<opened, result, operation, busy, acted>>
Dismissed(i) ==
    LET f == requests[i].flow IN
    /\ i \in Ongoing("dismiss")
    /\ Becomes(i, "ended")
    /\ IF Offered(f) THEN /\ takenBack' = takenBack \cup {requests[i].review}
                          /\ proposal' = Without(proposal, IF opened = "bridge" THEN {"promptModel", "toolModel"} ELSE {f})
                     ELSE UNCHANGED <<takenBack, proposal>>
    /\ UNCHANGED <<opened, result, operation, busy, usable, acted>>

\* The rows are shown of another version, or another source of knowledge is selected: the panel starts anew.
ShowsAnother(f) ==
    /\ f \in {"rows", "knowledge"} /\ Offered(f)
    /\ proposal' = Without(proposal, {f}) /\ result' = Without(result, {f})
    /\ UNCHANGED <<opened, operation, busy, requests, usable, acted, takenBack>>
\* The sources of a reconciliation can be chosen while its review is prepared, and loading them ends what
\* the panel waited for.
ChooseSource(f) ==
    /\ f = "reconcile" /\ Offered(f) /\ proposal[f] = 0 /\ result[f] = 0
    /\ busy' = "loading"
    /\ UNCHANGED <<opened, proposal, result, operation, requests, usable, acted, takenBack>>
SourceLoaded ==
    /\ busy = "loading" /\ busy' = ""
    /\ UNCHANGED <<opened, proposal, result, operation, requests, usable, acted, takenBack>>
ClosePanel ==
    /\ opened # ""
    /\ opened' = ""
    /\ usable' = usable \ {proposal[f] : f \in {g \in ReviewFlows : Rule[g].revokes}}
    /\ proposal' = Without(proposal, ReviewFlows) /\ result' = Without(result, ReviewFlows)
    /\ operation' = 0 /\ busy' = ""
    /\ UNCHANGED <<requests, acted, takenBack>>

PanelAnswers == \E i \in DOMAIN requests : Prepared(i) \/ Act(i) \/ Approved(i) \/ Dismissed(i)
ReviewNext ==
    \/ \E f \in ReviewFlows : Prepare(f) \/ Approve(f) \/ Dismiss(f) \/ ShowsAnother(f) \/ ChooseSource(f)
    \/ PanelAnswers \/ SourceLoaded \/ ClosePanel
\* Every request is answered (RpcTransport).
ReviewFairness ==
    /\ WF_reviewVars(SourceLoaded)
    /\ \A i \in 1..MaxRequests :
         WF_reviewVars(i \in DOMAIN requests /\ (Prepared(i) \/ Act(i) \/ Approved(i) \/ Dismissed(i)))
ReviewSpec == ReviewInit /\ [][ReviewNext]_reviewVars /\ ReviewFairness

-----------------------------------------------------------------------------
(* Properties *)

\* Choosing a source makes the panel of a reconciliation forget what it waits for.
Guarded(f) == {"approve", "dismiss"} \subseteq Rule[f].waits /\ f # "reconcile"
\* Where the buttons wait, a review that was taken back is never acted upon, and what runs is what the panel
\* offers to cancel or is busy with, one operation at a time, whatever is clicked, replaced and answered late.
GuardedReviews ==
    \A i \in DOMAIN requests :
        LET f == requests[i].flow IN
        requests[i].kind = "approve" /\ Guarded(f) =>
            /\ requests[i].review \in takenBack => requests[i].review \notin acted
            /\ i \in Ongoing("approve") /\ Offered(f) =>
                  Ongoing("approve") = {i} /\ (operation = i \/ busy = "work")

\* A panel does not stay locked: what it waits for ends and releases it.
PanelUnlocks == UnderWay ~> ~UnderWay

=============================================================================
