-------------------------- MODULE RecomputeQueues --------------------------
(***************************************************************************)
(* What the data core does by itself when a dataset gets a new version:    *)
(* it queues a recompute of every dataset derived from it                  *)
(* (derived_recompute_queue.go, derived_recompute_store.go) and a replay   *)
(* of every reviewed reconciliation of it (reconciliation_replay.go).      *)
(* Both queues are worked off in the data core's only worker, on a poll of *)
(* the desktop; the request may be cancelled between two of its            *)
(* statements, which then fail, and the process may stop anywhere.         *)
(* Tables are numbered; a version is an ordinal.                           *)
(***************************************************************************)
EXTENDS Naturals

CONSTANTS
    Tables,          \* datasets
    Derived,         \* those made by a reviewed transformation
    ParentsOf,       \* what each of them is made from
    Reviews,         \* reconciliations saved for the next period, with a left and a right table
    TaskAttempts,    \* attempts of an event of either queue
    MaxActivations   \* bound: new versions

ASSUME QueueAssumption ==
    /\ Tables \subseteq Nat /\ Derived \subseteq Tables
    /\ ParentsOf \in [Derived -> SUBSET Tables] /\ \A t \in Derived : t \notin ParentsOf[t]
    /\ Reviews \subseteq Tables \X Tables
    /\ TaskAttempts \in Nat \ {0} /\ MaxActivations \in Nat

VARIABLES
    tableVersion, \* the current version of each table
    basis,        \* the versions of its parents that each derived table's current version was made from
    tasks,        \* the recompute events; born counts the activations before
    replays,      \* the replay events; pair is the source signature
    balances,     \* the artifacts of replays, with the event that made each
    worker,       \* the event the request is at work on and how far it is
    activations,  \* activations so far: what created_at is read from
    declined      \* the parents of each derived table when the person last cancelled an event of it

queueVars == <<tableVersion, basis, tasks, replays, balances, worker, activations, declined>>

NoWork   == [queue |-> "none", key |-> <<>>, step |-> "none"]
Unended  == {"pending", "running", "paused", "failed"}
TaskStatuses == Unended \cup {"succeeded", "cancelled", "merged", "stale"}

ParentsAt(v, t) == [p \in ParentsOf[t] |-> v[p]]
PairAt(v, d)    == <<v[d[1]], v[d[2]]>>
KeyOf(e)        == <<e.source, e.at, e.target>>       \* dedupe_key
SignatureOf(r)  == <<r.of, r.pair>>                   \* UNIQUE(definition_id, source_signature)

QueueTypeOK ==
    /\ tableVersion \in [Tables -> 1..(MaxActivations + 1)]
    /\ \A t \in Derived : basis[t] \in [ParentsOf[t] -> Nat] /\ declined[t] \in [ParentsOf[t] -> Nat]
    /\ \A e \in tasks : /\ e.status \in TaskStatuses /\ e.attempt \in 0..TaskAttempts
                        /\ e.target \in Derived /\ e.source \in ParentsOf[e.target]
    /\ \A e, f \in tasks : KeyOf(e) = KeyOf(f) => e = f
    \* a pending replay always has an attempt left: the claim need not look
    /\ \A r \in replays : /\ r.status \in TaskStatuses /\ r.attempt \in 0..TaskAttempts
                          /\ r.status = "pending" => r.attempt < TaskAttempts
    /\ \A r, s \in replays : SignatureOf(r) = SignatureOf(s) => r = s
    /\ worker.queue \in {"none", "tasks", "replays"}

QueueInit ==
    /\ tableVersion = [t \in Tables |-> 1]
    /\ basis = [t \in Derived |-> ParentsAt(tableVersion, t)]
    /\ tasks = {} /\ replays = {} /\ balances = {}
    /\ worker = NoWork /\ activations = 0
    /\ declined = [t \in Derived |-> [p \in ParentsOf[t] |-> 0]]

-----------------------------------------------------------------------------
(* A new version becomes the current one *)

Dependents(d) == {t \in Derived : d \in ParentsOf[t]}
\* One event for each direct dependent, unless one for this version is there already.
Enqueued(d, v) ==
    tasks \cup {[source |-> d, at |-> v[d], target |-> t, status |-> "pending", attempt |-> 0, born |-> activations] :
                t \in {u \in Dependents(d) : <<d, v[d], u>> \notin {KeyOf(e) : e \in tasks}}}

Concerned(d) == {w \in Reviews : d \in {w[1], w[2]}}
\* Of each reconciliation of d: what waits for another pair of versions is superseded, and this pair is queued once.
Outdated(r, d, v) == r.of \in Concerned(d) /\ r.pair # PairAt(v, r.of) /\ r.status \in {"pending", "paused", "failed"}
Replayed(d, v) ==
    LET due == {w \in Concerned(d) : <<w, PairAt(v, w)>> \notin {SignatureOf(r) : r \in replays}}
    IN  {IF Outdated(r, d, v) THEN [r EXCEPT !.status = "stale"] ELSE r : r \in replays}
        \cup {[of |-> w, pair |-> PairAt(v, w), status |-> "pending", attempt |-> 0, born |-> activations] : w \in due}

\* The transaction that makes a version of d: the pointer and both queues.
Activated(d) ==
    LET v == [tableVersion EXCEPT ![d] = @ + 1] IN
    /\ activations < MaxActivations
    /\ tableVersion' = v /\ tasks' = Enqueued(d, v) /\ replays' = Replayed(d, v)
    /\ activations' = activations + 1

\* A file replaces the current version of an imported table.
Replace(d) ==
    /\ worker = NoWork /\ d \notin Derived /\ Activated(d)
    /\ UNCHANGED <<basis, balances, worker, declined>>

\* The reviewed plan is bound to the current versions of its parents.
Rebound(t) == basis' = [basis EXCEPT ![t] = ParentsAt(tableVersion, t)]
\* The person asks for a recompute in the data inspector.
Recompute(t) ==
    /\ worker = NoWork /\ Activated(t) /\ Rebound(t)
    /\ UNCHANGED <<balances, worker, declined>>

-----------------------------------------------------------------------------
(* The recompute queue *)

WithTask(e, status, attempt) == (tasks \ {e}) \cup {[e EXCEPT !.status = status, !.attempt = attempt]}
AtWork(e, step)  == worker' = [queue |-> "tasks", key |-> KeyOf(e), step |-> step]
InHand(e, step)  == worker = [queue |-> "tasks", key |-> KeyOf(e), step |-> step]

\* The oldest event with an attempt left; those of one activation in any order, for the text that created_at is
\* compared as does not keep the nanoseconds they are told apart by.
Claimable(e) == /\ e.status = "pending" /\ e.attempt < TaskAttempts
                /\ \A f \in tasks : f.status = "pending" /\ f.attempt < TaskAttempts => e.born <= f.born
ClaimTask(e) ==
    /\ worker = NoWork /\ Claimable(e)
    /\ tasks' = WithTask(e, "running", e.attempt + 1) /\ worker' = [queue |-> "tasks", key |-> KeyOf(e), step |-> "claimed"]
    /\ UNCHANGED <<tableVersion, basis, replays, balances, activations, declined>>

\* The transformation makes a version, or fails and leaves everything as it was.
TaskMade(e) ==
    /\ InHand(e, "claimed") /\ AtWork(e, "succeeded")
    /\ Activated(e.target) /\ Rebound(e.target)
    /\ UNCHANGED <<balances, declined>>
TaskStopped(e, status) ==
    /\ InHand(e, "claimed") /\ AtWork(e, status) /\ status \in {"paused", "failed"}
    /\ UNCHANGED <<tableVersion, basis, tasks, replays, balances, activations, declined>>
\* Its outcome is recorded in a statement of its own.
FinishTask(e) ==
    /\ \E status \in {"succeeded", "paused", "failed"} :
         InHand(e, status) /\ e.status = "running" /\ tasks' = WithTask(e, status, e.attempt)
    /\ worker' = NoWork
    /\ UNCHANGED <<tableVersion, basis, replays, balances, activations, declined>>

\* Mutant: the retry takes over what is pending for any table.
MergedAll(e) == {IF f # e /\ f.status = "pending" THEN [f EXCEPT !.status = "merged"] ELSE f : f \in tasks}
\* A retry takes over what else is pending for the same table.
Merged(e) == {IF f.target = e.target /\ f # e /\ f.status = "pending" THEN [f EXCEPT !.status = "merged"] ELSE f : f \in tasks}
RetryTask(e) ==
    /\ worker = NoWork /\ e.status \in {"paused", "failed"} /\ e.attempt < TaskAttempts
    /\ \A f \in tasks : f.target = e.target /\ f.status = "succeeded" => f.born <= e.born
    /\ tasks' = (Merged(e) \ {e}) \cup {[e EXCEPT !.status = "pending"]}
    /\ UNCHANGED <<tableVersion, basis, replays, balances, worker, activations, declined>>
CancelTask(e) ==
    /\ worker = NoWork /\ e.status = "pending" /\ tasks' = WithTask(e, "cancelled", e.attempt)
    /\ declined' = [declined EXCEPT ![e.target] = ParentsAt(tableVersion, e.target)]
    /\ UNCHANGED <<tableVersion, basis, replays, balances, worker, activations>>

-----------------------------------------------------------------------------
(* The replay queue *)

WithReplay(r, status, attempt) == (replays \ {r}) \cup {[r EXCEPT !.status = status, !.attempt = attempt]}
Replaying(r) == worker = [queue |-> "replays", key |-> SignatureOf(r), step |-> "claimed"]
ReplayOnly   == UNCHANGED <<tableVersion, basis, tasks, activations, declined>>

ClaimReplay(r) ==
    /\ worker = NoWork /\ r.status = "pending" /\ \A s \in replays : s.status = "pending" => r.born <= s.born
    /\ replays' = WithReplay(r, "running", r.attempt + 1)
    /\ worker' = [queue |-> "replays", key |-> SignatureOf(r), step |-> "claimed"]
    /\ ReplayOnly /\ UNCHANGED balances
\* The pair it names is no longer the current one, or differs from the baseline, or cannot be evaluated.
Refusals(r) == IF r.pair # PairAt(tableVersion, r.of) THEN {"stale"} ELSE {"paused", "failed"}
RefuseReplay(r) ==
    /\ Replaying(r) /\ worker' = NoWork
    /\ \E status \in Refusals(r) : replays' = WithReplay(r, status, r.attempt)
    /\ ReplayOnly /\ UNCHANGED balances
\* The artifact and the end of the event are one transaction.
KeepReplay(r) ==
    /\ Replaying(r) /\ worker' = NoWork /\ r.pair = PairAt(tableVersion, r.of)
    /\ replays' = WithReplay(r, "succeeded", r.attempt)
    /\ balances' = balances \cup {[of |-> r.of, pair |-> PairAt(tableVersion, r.of), attempt |-> r.attempt]}
    /\ ReplayOnly

RetryReplay(r) ==
    /\ worker = NoWork /\ r.status \in {"paused", "failed", "cancelled", "stale"} /\ r.attempt < TaskAttempts
    /\ replays' = WithReplay(r, "pending", r.attempt)
    /\ ReplayOnly /\ UNCHANGED <<balances, worker>>
CancelReplay(r) ==
    /\ worker = NoWork /\ r.status \in {"pending", "paused", "failed"} /\ replays' = WithReplay(r, "cancelled", r.attempt)
    /\ ReplayOnly /\ UNCHANGED <<balances, worker>>

-----------------------------------------------------------------------------
(* Failures *)

\* The context of the request ends: whatever statement comes next fails, and the event stays as it is.
Interrupt ==
    /\ worker # NoWork /\ worker' = NoWork
    /\ UNCHANGED <<tableVersion, basis, tasks, replays, balances, activations, declined>>

\* The process stops and starts again: what was running is pending, replays without an attempt left have failed.
RecoveredReplay(r) ==
    IF r.status # "running" THEN r
    ELSE [r EXCEPT !.status = IF r.attempt < TaskAttempts THEN "pending" ELSE "failed"]
RestartQueues ==
    /\ tasks' = {IF e.status = "running" THEN [e EXCEPT !.status = "pending"] ELSE e : e \in tasks}
    /\ replays' = {RecoveredReplay(r) : r \in replays} /\ worker' = NoWork
    /\ UNCHANGED <<tableVersion, basis, balances, activations, declined>>

NewVersion == (\E d \in Tables : Replace(d)) \/ \E t \in Derived : Recompute(t)
TaskNext ==
    \/ \E e \in tasks :
         \/ ClaimTask(e) \/ TaskMade(e) \/ FinishTask(e) \/ RetryTask(e) \/ CancelTask(e)
         \/ \E status \in {"paused", "failed"} : TaskStopped(e, status)
    \/ NewVersion \/ Interrupt \/ RestartQueues
ReplayNext ==
    \/ \E r \in replays : ClaimReplay(r) \/ RefuseReplay(r) \/ KeepReplay(r) \/ RetryReplay(r) \/ CancelReplay(r)
    \/ NewVersion \/ Interrupt \/ RestartQueues
QueueNext == TaskNext \/ ReplayNext

QueueSpec == QueueInit /\ [][QueueNext]_queueVars

-----------------------------------------------------------------------------
\* A derived table that is behind its parents is on the list: an event of it is to be worked off, under way, or
\* shown as paused or failed, unless the person cancelled one since its parents have these versions.
NoTableForgotten ==
    \A t \in Derived :
      \/ ParentsAt(tableVersion, t) \in {basis[t], declined[t]}
      \/ \E e \in tasks : e.target = t /\ e.status \in Unended

\* A reconciliation with new versions on either side has an event for the current pair, which is not put down as
\* superseded.
NoPairForgotten ==
    \A d \in Reviews :
      \/ PairAt(tableVersion, d) = <<1, 1>>
      \/ \E r \in replays : SignatureOf(r) = <<d, PairAt(tableVersion, d)>> /\ r.status # "stale"

\* A pair of versions has an artifact exactly when its event has succeeded, and only one.
OneBalancePerPair ==
    /\ \A b, c \in balances : b.of = c.of /\ b.pair = c.pair => b = c
    /\ \A b \in balances : \E r \in replays : SignatureOf(r) = <<b.of, b.pair>> /\ r.status = "succeeded"
    /\ \A r \in replays : r.status = "succeeded" => \E b \in balances : <<b.of, b.pair>> = SignatureOf(r)

\* What new versions call for is not forgotten, whatever is retried, merged, cancelled, interrupted or cut off.
NothingForgotten == NoTableForgotten /\ NoPairForgotten /\ OneBalancePerPair
=============================================================================
