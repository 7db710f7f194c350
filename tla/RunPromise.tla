----------------------------- MODULE RunPromise -----------------------------
(***************************************************************************)
(* What docs/product/repeatable-workflows.md promises of the runs of a     *)
(* workflow, without handlers, checkpoints, commits and restarts: a run    *)
(* begins once, under the definition of that moment; it goes through the   *)
(* steps of that definition in their order, one attempt at a time and no   *)
(* more of them than the step allows, and does no step a second time; a    *)
(* review is passed by an answer in time, while the definition is still    *)
(* the one that was reviewed; and a run ends once.  WorkflowEngine         *)
(* implements it.                                                          *)
(***************************************************************************)
EXTENDS Integers, Sequences

CONSTANTS Workflows, RunIds, Plans, Ordinals, Attempts, None

VARIABLES
    book,   \* of each workflow, the definition there is
    life    \* of each run, how far it is

vars == <<book, life>>

Entry == [active : BOOLEAN, version : Nat, plan : Plans \cup {None}]
Ended == {"succeeded", "failed", "cancelled"}
Life  == [stage : {"new", "between", "trying", "asked", "overdue"} \cup Ended,
          version : Nat, plan : Plans \cup {None},
          done : SUBSET Ordinals, begun : SUBSET (Ordinals \X Attempts)]

NotBegun == [stage |-> "new", version |-> 0, plan |-> None, done |-> {}, begun |-> {}]

Init == /\ book = [w \in Workflows |-> [active |-> FALSE, version |-> 0, plan |-> None]]
        /\ life = [r \in RunIds |-> NotBegun]

\* A definition is saved, as a new version, or withdrawn for good.
Save(w) ==
    /\ book[w].active \/ book[w].version = 0
    /\ \E p \in Plans : book'[w] = [active |-> TRUE, version |-> book[w].version + 1, plan |-> p]
Withdraw(w) == book'[w] = [active |-> FALSE, version |-> book[w].version, plan |-> book[w].plan]

\* The run r is between two steps, and the step o of that kind is the next.
IsNext(r, o, kind) ==
    /\ life[r].stage = "between" /\ life[r].done = 1..(o - 1)
    /\ o <= Len(life[r].plan) /\ life[r].plan[o].kind = kind

Begin(r) ==
    /\ life[r].stage = "new" /\ book[r[1]].active
    /\ life'[r] = [stage |-> "between", version |-> book[r[1]].version, plan |-> book[r[1]].plan,
                   done |-> {}, begun |-> {}]
Try(r, o, a) ==
    /\ IsNext(r, o, "query") /\ a <= life[r].plan[o].attempts
    /\ <<o, a>> \notin life[r].begun /\ (a > 1 => <<o, a - 1>> \in life[r].begun)
    /\ life'[r] = [life[r] EXCEPT !.stage = "trying", !.begun = @ \cup {<<o, a>>}]
\* The attempt ends, and the step with it if it succeeded.
Succeed(r, o) ==
    /\ life[r].stage = "trying" /\ life[r].done = 1..(o - 1)
    /\ life'[r] = [life[r] EXCEPT !.stage = "between", !.done = @ \cup {o}]
Miss(r) == life[r].stage = "trying" /\ life'[r] = [life[r] EXCEPT !.stage = "between"]
Ask(r, o) ==
    /\ IsNext(r, o, "human-approval")
    /\ life'[r] = [life[r] EXCEPT !.stage = "asked", !.begun = @ \cup {<<o, 1>>}]
Approve(r, o) ==
    /\ life[r].stage = "asked" /\ life[r].done = 1..(o - 1)
    /\ book[r[1]].active /\ book[r[1]].version = life[r].version
    /\ life'[r] = [life[r] EXCEPT !.stage = "between", !.done = @ \cup {o}]
Expire(r) == life[r].stage = "asked" /\ life'[r] = [life[r] EXCEPT !.stage = "overdue"]

\* Nobody is asked about a run that is cancelled; one that succeeds has done it all.
Succeeds(r) ==
    /\ life[r].stage = "between" /\ life[r].done = 1..Len(life[r].plan)
    /\ life'[r] = [life[r] EXCEPT !.stage = "succeeded"]
Fails(r)   == /\ life[r].stage \in {"between", "trying", "asked", "overdue"}
              /\ life'[r] = [life[r] EXCEPT !.stage = "failed"]
Cancels(r) == life[r].stage = "between" /\ life'[r] = [life[r] EXCEPT !.stage = "cancelled"]

Step(r) ==
    \/ Begin(r) \/ Miss(r) \/ Expire(r) \/ Succeeds(r) \/ Fails(r) \/ Cancels(r)
    \/ \E o \in Ordinals : Succeed(r, o) \/ Ask(r, o) \/ Approve(r, o) \/ \E a \in Attempts : Try(r, o, a)

\* One run makes a step at a time; others may only end with it, whose time is over or which
\* an interruption found on their way.
Next ==
    \/ /\ UNCHANGED life /\ book' \in [Workflows -> Entry]
       /\ \A w \in Workflows : book'[w] = book[w] \/ Save(w) \/ Withdraw(w)
    \/ /\ UNCHANGED book /\ life' \in [RunIds -> Life]
       /\ \E r \in RunIds : Step(r) /\ \A q \in RunIds \ {r} : life'[q] = life[q] \/ Fails(q)

Spec == Init /\ [][Next]_vars
=============================================================================
