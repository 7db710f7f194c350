-------------------------- MODULE ApprovalPromise --------------------------
(***************************************************************************)
(* What every approval dialog of the desktop promises, whatever it is      *)
(* about: a proposal that was offered is worked on by one handler at most, *)
(* only that handler acts on it, and once it is withdrawn or worked on it  *)
(* is never offered or worked on again.  ApprovedActions implements it.    *)
(***************************************************************************)
CONSTANTS Proposals, Attempts, Rounds   \* Rounds: the turns of an agent run

VARIABLES
    offer,    \* where each proposal stands: new, open, gone, or the handler that works on it
    effects   \* what was done: for which proposal, by which handler, in which round

vars == <<offer, effects>>

Init == offer = [p \in Proposals |-> "new"] /\ effects = {}

\* The offers and the work on ps are given up: dismissed, refused, pushed out of a full
\* store, lost when the application stops.
Gone(ps) == [p \in Proposals |-> IF p \in ps THEN "gone" ELSE offer[p]]
Withdraw(ps) ==
    /\ \A p \in ps : offer[p] # "new"
    /\ offer' = Gone(ps) /\ UNCHANGED effects

\* A new proposal is offered, once; older ones may go for it, and the work it came from.
Offer(p, ps) ==
    /\ offer[p] = "new" /\ \A o \in ps : offer[o] # "new"
    /\ offer' = [Gone(ps) EXCEPT ![p] = "open"] /\ UNCHANGED effects

\* The handler a works on p: from the click on, and until it is done.
Work(p, a) ==
    /\ offer[p] \in {"open", a}
    /\ \E s \in {a, "gone"} : offer' = [offer EXCEPT ![p] = s]
    /\ \/ UNCHANGED effects
       \/ \E k \in Rounds : effects' = effects \cup {<<p, a, k>>}

Next ==
    \/ \E ps \in SUBSET Proposals : Withdraw(ps) \/ \E p \in Proposals : Offer(p, ps)
    \/ \E p \in Proposals, a \in Attempts : Work(p, a)

Spec == Init /\ [][Next]_vars
=============================================================================
