-------------------------- MODULE TaskConversation --------------------------
(***************************************************************************)
(* A data task: a person asks a question about a dataset or a group in one *)
(* of its threads, a model proposes a plan, the person approves it and the *)
(* data core executes it.  Three parties keep pieces of it: the renderer   *)
(* (ConversationWorkbench lists the threads, DatasetAnalysis and           *)
(* DatasetGroupAnalysis show one), the main process (analysis-api.ts runs  *)
(* the two operations) and the data core (conversation.go stores the       *)
(* entries).  The panels are not remounted when the person moves to        *)
(* another thread or target, so an answer arrives wherever she is by then. *)
(* An operation is also the name of the plan it proposes.                  *)
(***************************************************************************)
EXTENDS Naturals, Sequences, FiniteSets

CONSTANTS
    Targets,    \* datasets (or groups): what a thread is about
    Threads,    \* thread ids
    Ops,        \* the operations the person may start: 1..n, in that order
    Opened,     \* the target the person opens first
    Home,       \* the target of each thread that exists at the start, or None
    Moves,      \* how often the person may navigate or manage threads
    None

ASSUME TaskAssumption ==
    /\ Ops \in SUBSET Nat /\ Opened \in Targets /\ Home \in [Threads -> Targets \cup {None}]
    /\ Moves \in Nat /\ None \notin Targets \cup Threads \cup Ops

Kinds  == {"question", "plan", "result", "error", "cancelled"}
Entry(kind, op, plan) == [kind |-> kind, op |-> op, plan |-> plan]
Absent == [target |-> None, entries |-> <<>>, archived |-> FALSE, version |-> 0]
Gone   == [Absent EXCEPT !.version = 1]     \* ids are not given twice

VARIABLES
    store,   \* data core: the threads with their entries; version counts the changes of updated_at
    recent,  \* data core: the threads that exist, the one updated last first
    ops,     \* main process and the promise the renderer waits on: each operation
    view,    \* ConversationWorkbench: its target, what it lists, and the active thread
    jobs,    \* ConversationWorkbench: its calls that have not come back
    panel,   \* DatasetAnalysis: what it shows
    history, \* useConversationThread: the entries last polled
    moves

vars == <<store, recent, ops, view, jobs, panel, history, moves>>

Blank   == [submitted |-> FALSE, proposal |-> None, result |-> None, state |-> "draft", op |-> None]
Unknown == [loaded |-> FALSE, entries |-> <<>>]
Idle    == [kind |-> "none", target |-> None, thread |-> None, plan |-> None, stage |-> "unused", cancelled |-> FALSE]
Over    == {"planned", "executed", "failed", "cancelled"}   \* how an operation ends in the main process

TypeOK ==
    LET Refs == [id : Threads, version : Nat] IN
    /\ \A t \in Threads :
         /\ store[t].target \in Targets \cup {None} /\ store[t].archived \in BOOLEAN /\ store[t].version \in Nat
         /\ \A i \in DOMAIN store[t].entries : store[t].entries[i] \in [kind : Kinds, op : Ops, plan : Ops \cup {None}]
    /\ recent \in Seq(Threads) /\ {recent[i] : i \in DOMAIN recent} = {t \in Threads : store[t].target # None}
    /\ Len(recent) = Cardinality({recent[i] : i \in DOMAIN recent})
    /\ ops \in [Ops -> [kind : {"none", "propose", "execute"}, target : Targets \cup {None},
                        thread : Threads \cup {None}, plan : Ops \cup {None}, cancelled : BOOLEAN,
                        stage : {"unused", "sent", "working", "failing", "aborting", "done"} \cup Over]]
    /\ view.target \in Targets /\ view.active \in Threads \cup {None} /\ view.busy \in BOOLEAN
    /\ view.listed \in Seq(Refs) /\ view.archived \in Seq(Refs)
    /\ panel \in [submitted : BOOLEAN, proposal : Ops \cup {None}, result : Ops \cup {None}, op : Ops \cup {None},
                  state : {"draft", "planning", "awaiting-approval", "executing", "completed", "needs-attention", "cancelled"}]
    /\ history.loaded \in BOOLEAN /\ moves \in 0..Moves

Init ==
    /\ store = [t \in Threads |-> [Absent EXCEPT !.target = Home[t]]]
    /\ recent \in {s \in [1..Cardinality({t \in Threads : Home[t] # None}) -> {t \in Threads : Home[t] # None}] :
                     \A i, j \in DOMAIN s : s[i] = s[j] => i = j}
    /\ ops = [o \in Ops |-> Idle]
    /\ view = [target |-> Opened, listed |-> <<>>, archived |-> <<>>, active |-> None, busy |-> FALSE]
    /\ jobs = {[do |-> "list", target |-> Opened, thread |-> None, version |-> 0]}
    /\ panel = Blank /\ history = Unknown /\ moves = 0

-----------------------------------------------------------------------------
(* The data core: the threads *)

List(d, archived) ==
    LET s == SelectSeq(recent, LAMBDA t : store[t].target = d /\ store[t].archived = archived)
    IN  [i \in DOMAIN s |-> [id |-> s[i], version |-> store[s[i]].version]]

Touched(t) == <<t>> \o SelectSeq(recent, LAMBDA u : u # t)
Free == {t \in Threads : store[t] = Absent}

\* Mutant: an archived thread still takes entries.
AcceptsArchived(d, t) == store[t].target = d
\* The thread t takes entries about the target d: it exists, is not archived and belongs to d.
Accepts(d, t) == store[t].target = d /\ ~store[t].archived

\* The threads that take entries about the target d, and the one of S that was updated last.
Live(d)   == {t \in Threads : Accepts(d, t)}
Latest(S) == {t \in S : \E i \in DOMAIN recent :
                           recent[i] = t /\ \A j \in DOMAIN recent : recent[j] \in S => i <= j}

\* Where an entry goes: the thread that was named, else the one of the target updated last,
\* else (a question only) a new one; none when the append is refused.
Destinations(d, t, kind) ==
    IF t # None THEN Live(d) \cap {t}
    ELSE IF Live(d) # {} THEN Latest(Live(d))
    ELSE IF kind = "question" THEN Free ELSE {}

Write(d, t, entry) ==
    /\ store' = [store EXCEPT ![t].target = d, ![t].version = @ + 1, ![t].entries = Append(@, entry)]
    /\ recent' = Touched(t)

\* The append of an entry, or (persistError) nothing when it is refused.
AppendOrDrop(d, t, entry) ==
    IF Destinations(d, t, entry.kind) = {} THEN UNCHANGED <<store, recent>>
    ELSE \E u \in Destinations(d, t, entry.kind) : Write(d, u, entry)

\* ApplyConversationRetention, in the background: archived threads that are old enough are deleted.
ApplyRetention ==
    \E gone \in SUBSET {t \in Threads : store[t].archived} :
        /\ gone # {}
        /\ store' = [t \in Threads |-> IF t \in gone THEN Gone ELSE store[t]]
        /\ recent' = SelectSeq(recent, LAMBDA t : t \notin gone)
        /\ UNCHANGED <<ops, view, jobs, panel, history, moves>>

-----------------------------------------------------------------------------
(* The main process: the operations *)

Ends(o, stage) == ops' = [ops EXCEPT ![o].stage = stage]
Main == <<view, jobs, panel, history, moves>>

\* proposeQueryPlan, its first step: the question is appended, or the operation fails.
AppendQuestion(o) ==
    /\ ops[o].kind = "propose" /\ ops[o].stage = "sent"
    /\ LET d == ops[o].target  t == ops[o].thread IN
       IF Destinations(d, t, "question") = {} THEN Ends(o, "failed") /\ UNCHANGED <<store, recent>>
       ELSE Ends(o, "working") /\ \E u \in Destinations(d, t, "question") : Write(d, u, Entry("question", o, None))
    /\ UNCHANGED Main

\* The model answers with a plan that validates, and the plan is appended.
AppendPlan(o) ==
    /\ ops[o].kind = "propose" /\ ops[o].stage = "working"
    /\ LET d == ops[o].target  t == ops[o].thread IN
       IF Destinations(d, t, "plan") = {} THEN Ends(o, "failing") /\ UNCHANGED <<store, recent>>
       ELSE Ends(o, "planned") /\ \E u \in Destinations(d, t, "plan") : Write(d, u, Entry("plan", o, o))
    /\ UNCHANGED Main

\* Mutant: the plan is not looked for in the thread.
ReviewedAnywhere(o) == store[ops[o].thread].target = ops[o].target
\* executeQueryPlan, its first step: the plan must be one that was proposed in this thread of its dataset.
Reviewed(o) ==
    /\ store[ops[o].thread].target = ops[o].target
    /\ \E i \in DOMAIN store[ops[o].thread].entries :
         store[ops[o].thread].entries[i].kind = "plan" /\ store[ops[o].thread].entries[i].plan = ops[o].plan

CheckPlan(o) ==
    /\ ops[o].kind = "execute" /\ ops[o].stage = "sent"
    /\ Ends(o, IF Reviewed(o) THEN "working" ELSE "failed")
    /\ UNCHANGED <<store, recent, Main>>

\* The data core executes the plan and the result is appended.
AppendResult(o) ==
    /\ ops[o].kind = "execute" /\ ops[o].stage = "working"
    /\ LET d == ops[o].target  t == ops[o].thread IN
       IF t \in Live(d) THEN Ends(o, "executed") /\ Write(d, t, Entry("result", o, ops[o].plan))
       ELSE Ends(o, "failing") /\ UNCHANGED <<store, recent>>
    /\ UNCHANGED Main

\* The model, the data core or the network fails, or the signal is aborted.
Breaks(o) ==
    /\ ops[o].stage = "working"
    /\ Ends(o, "failing") \/ (ops[o].cancelled /\ Ends(o, "aborting"))
    /\ UNCHANGED <<store, recent, Main>>

\* persistError: a proposal names its thread; an execution (analysis-api.ts:309, 399) does not.
ErrorThread(o) == IF ops[o].kind = "propose" THEN ops[o].thread ELSE None
PersistError(o) ==
    /\ ops[o].stage \in {"failing", "aborting"}
    /\ AppendOrDrop(ops[o].target, ErrorThread(o),
                    Entry(IF ops[o].stage = "failing" THEN "error" ELSE "cancelled", o, ops[o].plan))
    /\ Ends(o, IF ops[o].stage = "failing" THEN "failed" ELSE "cancelled")
    /\ UNCHANGED Main

-----------------------------------------------------------------------------
(* The panel: DatasetAnalysis and DatasetGroupAnalysis *)

\* The last entry of a kind that is not older than the last question (0: there is none).
LastAt(entries, kinds) ==
    LET at == {i \in DOMAIN entries : entries[i].kind \in kinds}
    IN  IF at = {} THEN 0 ELSE CHOOSE i \in at : \A j \in at : j <= i
PlanOf(entries, kind) ==
    LET i == LastAt(entries, {kind})
    IN  IF i > LastAt(entries, {"question"}) THEN entries[i].plan ELSE None

StateOf(entries) ==
    IF entries = <<>> THEN "draft"
    ELSE CASE entries[Len(entries)].kind = "result"    -> "completed"
           [] entries[Len(entries)].kind = "plan"      -> "awaiting-approval"
           [] entries[Len(entries)].kind = "cancelled" -> "cancelled"
           [] OTHER                                    -> "needs-attention"

\* Mutant: a thread without a plan leaves the plan that is shown.
SyncedPlan(p, h, t) ==
    IF ~h.loaded \/ t = None \/ p.op # None \/ p.submitted \/ PlanOf(h.entries, "plan") = None THEN p
    ELSE [p EXCEPT !.proposal = PlanOf(h.entries, "plan"), !.result = PlanOf(h.entries, "result"),
                   !.state = StateOf(h.entries)]
\* The history effect: with nothing asked and nothing running, the panel shows what is stored.
Synced(p, h, t) ==
    IF ~h.loaded \/ t = None \/ p.op # None \/ p.submitted THEN p
    ELSE [p EXCEPT !.proposal = PlanOf(h.entries, "plan"), !.result = PlanOf(h.entries, "result"),
                   !.state = StateOf(h.entries)]

\* The active thread becomes t: the panel is reset, but the history effect of the same commit still
\* sees the history, the operation and the question of the thread that was left.
Shows(t) ==
    /\ history' = IF t = view.active THEN history ELSE Unknown
    /\ panel' = IF t = view.active THEN panel
                ELSE IF panel.op # None \/ panel.submitted THEN Blank ELSE Synced(Blank, history, t)

\* The two-second poll of useConversationThread; with no active thread it reads the target's latest.
Polled == IF view.active # None THEN {view.active} \cap {t \in Threads : store[t].target # None}
          ELSE Latest(Live(view.target))
Poll ==
    /\ history' = IF Polled = {} THEN Unknown
                  ELSE [loaded |-> TRUE, entries |-> store[CHOOSE t \in Polled : TRUE].entries]
    /\ panel' = Synced(panel, history', view.active)
    /\ UNCHANGED <<store, recent, ops, view, jobs, moves>>

Fresh(o) == ops[o].stage = "unused" /\ \A p \in Ops : p < o => ops[p].stage # "unused"
Start(o, kind, plan) ==
    ops' = [ops EXCEPT ![o] = [kind |-> kind, target |-> view.target, thread |-> view.active,
                               plan |-> plan, stage |-> "sent", cancelled |-> FALSE]]

\* A question is submitted: the composer needs a thread, the retry of a recovered question does not.
Propose(o) ==
    /\ Fresh(o)
    /\ \/ view.active # None /\ panel.state \notin {"planning", "executing"}
       \/ panel.state = "needs-attention" /\ LastAt(history.entries, {"question"}) # 0
    /\ Start(o, "propose", None)
    /\ panel' = [Blank EXCEPT !.submitted = TRUE, !.state = "planning", !.op = o]
    /\ UNCHANGED <<store, recent, view, jobs, history, moves>>

\* "Approve and execute": whatever plan the panel shows, in whatever thread is active.
Execute(o) ==
    /\ Fresh(o)
    /\ panel.proposal # None /\ panel.state \notin {"completed", "executing"}
    /\ IF view.active = None
       THEN panel' = [panel EXCEPT !.state = "needs-attention", !.op = None] /\ UNCHANGED ops
       ELSE panel' = [panel EXCEPT !.state = "executing", !.op = o] /\ Start(o, "execute", panel.proposal)
    /\ UNCHANGED <<store, recent, view, jobs, history, moves>>

\* Mutant: a failure does not change the state the panel is in.
AfterSuccess(o) ==
    CASE ops[o].stage = "planned"  -> [panel EXCEPT !.proposal = o, !.state = "awaiting-approval"]
      [] ops[o].stage = "executed" -> [panel EXCEPT !.result = ops[o].plan, !.state = "completed"]
      [] OTHER                     -> panel
\* An operation comes back to the panel, which may show another thread by now.
AfterSettle(o) ==
    CASE ops[o].stage = "planned"   -> [panel EXCEPT !.proposal = o, !.state = "awaiting-approval"]
      [] ops[o].stage = "executed"  -> [panel EXCEPT !.result = ops[o].plan, !.state = "completed"]
      [] ops[o].stage = "cancelled" -> [panel EXCEPT !.state = "cancelled"]
      [] OTHER                      -> [panel EXCEPT !.state = "needs-attention"]
Settle(o) ==
    /\ ops[o].stage \in Over
    /\ Ends(o, "done")
    /\ LET shown == AfterSettle(o) IN
       panel' = IF panel.op = o THEN Synced([shown EXCEPT !.op = None], history, view.active) ELSE shown
    /\ UNCHANGED <<store, recent, view, jobs, history, moves>>

Discard ==
    /\ panel.proposal # None /\ panel.state \notin {"completed", "executing"}
    /\ panel' = [panel EXCEPT !.proposal = None, !.state = "draft"]
    /\ UNCHANGED <<store, recent, ops, view, jobs, history, moves>>
EditQuestion ==
    /\ panel.state = "needs-attention"
    /\ panel' = LET cleared == [Blank EXCEPT !.op = panel.op]
                IN  IF panel.submitted THEN Synced(cleared, history, view.active) ELSE cleared
    /\ UNCHANGED <<store, recent, ops, view, jobs, history, moves>>
CancelOperation ==
    /\ panel.op # None /\ ops[panel.op].stage \in {"sent", "working"} /\ ~ops[panel.op].cancelled
    /\ ops' = [ops EXCEPT ![panel.op].cancelled = TRUE]
    /\ UNCHANGED <<store, recent, view, jobs, panel, history, moves>>

-----------------------------------------------------------------------------
(* The workbench: ConversationWorkbench *)

Move == moves < Moves /\ moves' = moves + 1
Job(do, t, version) == [do |-> do, target |-> view.target, thread |-> t, version |-> version]
Refs(list) == {list[i] : i \in DOMAIN list}

\* The person moves to another dataset: the lists are cleared and its own are asked for.
SelectTarget(d) ==
    /\ Move /\ d # view.target
    /\ view' = [view EXCEPT !.target = d, !.listed = <<>>, !.archived = <<>>, !.active = None]
    /\ jobs' = jobs \cup {[do |-> "list", target |-> d, thread |-> None, version |-> 0]}
    /\ panel' = Blank /\ history' = Unknown
    /\ UNCHANGED <<store, recent, ops>>

SelectThread(t) ==
    /\ Move /\ \E r \in Refs(view.listed) : r.id = t
    /\ t # view.active /\ view' = [view EXCEPT !.active = t] /\ Shows(t)
    /\ UNCHANGED <<store, recent, ops, jobs>>

\* The buttons of the workbench wait for the call before; its context menu does not.
Send(job) ==
    /\ Move /\ jobs' = jobs \cup {job} /\ view' = [view EXCEPT !.busy = TRUE]
    /\ UNCHANGED <<store, recent, ops, panel, history>>
Archive(r)      == ~view.busy /\ r \in Refs(view.listed)   /\ Send(Job("archive", r.id, r.version))
Restore(r)      == ~view.busy /\ r \in Refs(view.archived) /\ Send(Job("restore", r.id, r.version))
DeleteThread(r) == ~view.busy /\ r \in Refs(view.archived) /\ Send(Job("delete", r.id, r.version))
CreateThread    == Send(Job("create", view.active, 0))

Back(job, v) ==
    /\ jobs' = jobs \ {job}
    /\ view' = [v EXCEPT !.busy = FALSE]
Listing(job) == (jobs \ {job}) \cup {[job EXCEPT !.do = IF job.do = "restore" THEN "relist" ELSE "list"]}

\* An archived thread is deleted if it still is as it was when the person reviewed it.
Deletes(job) ==
    store[job.thread].target # None /\ store[job.thread].archived /\ store[job.thread].version = job.version

\* archive, restore and delete: the data core's change, and then the lists of the target it was asked in.
ChangeThread(job) ==
    /\ job.do \in {"archive", "restore"}
    /\ store[job.thread].target # None
    /\ store' = [store EXCEPT ![job.thread].archived = (job.do = "archive"), ![job.thread].version = @ + 1]
    /\ recent' = Touched(job.thread)
    /\ jobs' = Listing(job)
    /\ UNCHANGED <<ops, view, panel, history, moves>>
RemoveThread(job) ==
    /\ job.do = "delete" /\ Deletes(job)
    /\ store' = [store EXCEPT ![job.thread] = Gone]
    /\ recent' = SelectSeq(recent, LAMBDA u : u # job.thread)
    /\ jobs' = Listing(job)
    /\ UNCHANGED <<ops, view, panel, history, moves>>
Refuse(job) ==
    /\ \/ job.do \in {"archive", "restore"} /\ store[job.thread].target = None
       \/ job.do = "delete" /\ ~Deletes(job)
    /\ Back(job, view)
    /\ UNCHANGED <<store, recent, ops, panel, history, moves>>

\* createThread: an active thread without entries is used instead of a new one.
MakeThread(job) ==
    /\ job.do = "create"
    /\ IF job.thread # None /\ store[job.thread].target # None /\ store[job.thread].entries = <<>>
       THEN Back(job, view) /\ UNCHANGED <<store, recent, panel, history>>
       ELSE \E t \in Free :
              /\ store' = [store EXCEPT ![t].target = job.target, ![t].version = 1]
              /\ recent' = <<t>> \o recent
              /\ Back(job, [view EXCEPT !.listed = <<[id |-> t, version |-> 1]>> \o @, !.active = t])
              /\ Shows(t)
    /\ UNCHANGED <<ops, moves>>

\* The lists of a target arrive; nothing compares it with the target the workbench shows by then.
Arrive(job) ==
    /\ job.do \in {"list", "relist"}
    /\ LET listed == List(job.target, FALSE)
           kept   == \E r \in Refs(listed) : r.id = view.active
           next   == IF job.do = "relist" THEN job.thread
                     ELSE IF kept THEN view.active
                     ELSE IF listed = <<>> THEN None ELSE listed[1].id IN
       /\ Shows(next)
       /\ jobs' = jobs \ {job}
       /\ view' = [view EXCEPT !.listed = listed, !.archived = List(job.target, TRUE), !.active = next,
                               !.busy = IF job.thread = None THEN @ ELSE FALSE]
    /\ UNCHANGED <<store, recent, ops, moves>>

-----------------------------------------------------------------------------
OperationStep(o) == AppendQuestion(o) \/ AppendPlan(o) \/ CheckPlan(o) \/ AppendResult(o) \/ Breaks(o) \/ PersistError(o)
JobStep(job) == ChangeThread(job) \/ RemoveThread(job) \/ Refuse(job) \/ MakeThread(job) \/ Arrive(job)

Next ==
    \/ \E o \in Ops : OperationStep(o) \/ Settle(o) \/ Propose(o) \/ Execute(o)
    \/ \E job \in jobs : JobStep(job)
    \/ ApplyRetention \/ Poll \/ Discard \/ EditQuestion \/ CancelOperation \/ CreateThread
    \/ \E d \in Targets : SelectTarget(d)
    \/ \E t \in Threads : SelectThread(t)
    \/ \E r \in Refs(view.listed) : Archive(r)
    \/ \E r \in Refs(view.archived) : Restore(r) \/ DeleteThread(r)

Spec == Init /\ [][Next]_vars
\* Every step of an operation ends (a model call has a deadline, the data core answers), its promise
\* settles, and the poll goes on; nothing obliges the person to do anything.
FairSpec ==
    /\ Spec /\ WF_vars(Poll)
    /\ \A o \in Ops : WF_vars(OperationStep(o)) /\ WF_vars(Settle(o))

-----------------------------------------------------------------------------
(* Properties *)

\* The threads do not mix evidence: in a thread, a plan follows the question it answers, and a result
\* follows the plan it was computed from, however late an answer or a list was and wherever the person
\* had gone (for operations that named a thread).
EvidenceInItsThread ==
    \A t \in Threads : \A i \in DOMAIN store[t].entries :
        LET e == store[t].entries[i] IN
        (e.kind \in {"plan", "result"} /\ ops[e.plan].thread # None) =>
            /\ ops[e.op].thread = t /\ ops[e.op].target = store[t].target
            /\ \E j \in 1..(i - 1) :
                 IF e.kind = "plan" THEN store[t].entries[j].kind = "question" /\ store[t].entries[j].op = e.op
                 ELSE store[t].entries[j].kind = "plan" /\ store[t].entries[j].plan = e.plan

\* What the person put away stays as she left it: an answer, a result or a failure that comes after the
\* archiving changes nothing in the thread, until she restores it.
ArchivedIsFrozen ==
    [][\A t \in Threads : (store[t].archived /\ store'[t].archived) => store'[t].entries = store[t].entries]_vars

\* The panel does not stay busy: planning and execution end, after a failure, a cancellation and a late
\* answer to another thread as well.
BusyEnds == panel.state \in {"planning", "executing"} ~> panel.state \notin {"planning", "executing"}

\* A plan of another thread that arrived late does not stay on the screen of a thread nothing was asked in.
ForeignPlan == panel.proposal # None /\ view.active # None /\ ~panel.submitted /\ panel.op = None
               /\ store[view.active].target # None
               /\ ~\E i \in DOMAIN store[view.active].entries : store[view.active].entries[i].plan = panel.proposal
ForeignPlanGoes == ForeignPlan ~> ~ForeignPlan
=============================================================================
