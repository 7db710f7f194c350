-------------------------- MODULE ExternalDelivery --------------------------
(***************************************************************************)
(* Reminders sent to webhooks (external-delivery-service.ts of the desktop). *)
(* An approved run of a bound workflow, or a test, makes a job; a worker,  *)
(* the scheduler or the handler that made the job, takes the list of jobs  *)
(* and posts those that are due, one after the other.  The list is a copy, *)
(* kept across the posts: other workers, the removal of the destination    *)
(* and a stop of the application come in between.  Time is whether the     *)
(* backoff of a job is over.                                               *)
(***************************************************************************)
EXTENDS Naturals, Sequences

CONSTANTS
    Runs,          \* runs of the bound workflow that end with an approval
    Destinations,  \* webhooks
    Posters,       \* who works through the jobs: "scheduler" and "handler"
    MaxPosts,      \* the attempts of a job
    MaxJobs        \* bound: jobs

ASSUME DeliveryAssumption ==
    /\ MaxPosts \in Nat \ {0} /\ MaxJobs \in Nat
    /\ "test" \notin Runs /\ "nowhere" \notin Destinations /\ {"scheduler", "handler"} \subseteq Posters

VARIABLES
    webhooks,  \* the destinations: "new", "saved" or "removed"
    binding,   \* the destination the workflow is bound to
    decided,   \* runs: "open", "decided" (the data core has the approval) or "told"
    jobs,      \* the jobs, in the order they were made
    posters    \* the workers
deliveryVars == <<webhooks, binding, decided, jobs, posters>>

Ended   == {"succeeded", "failed", "revoked"}
NoPost == [list |-> <<>>, at |-> 0]

DeliveryTypeOK ==
    /\ webhooks \in [Destinations -> {"new", "saved", "removed"}] /\ binding \in Destinations \cup {"nowhere"}
    /\ decided \in [Runs -> {"open", "decided", "told"}]
    /\ \A j \in DOMAIN jobs :
         /\ jobs[j].status \in {"pending", "delivering", "retry-wait"} \cup Ended
         /\ jobs[j].attempts \in 0..MaxPosts /\ jobs[j].to \in Destinations /\ jobs[j].run \in Runs \cup {"test"}
    /\ \A p \in Posters : posters[p].at \in 0..Len(posters[p].list) /\ Len(posters[p].list) <= Len(jobs)

DeliveryInit ==
    /\ webhooks = [d \in Destinations |-> "new"] /\ binding = "nowhere"
    /\ decided = [r \in Runs |-> "open"]
    /\ jobs = <<>> /\ posters = [p \in Posters |-> NoPost]

-----------------------------------------------------------------------------
(* Working through the jobs *)

IsDue(x) == x.status = "pending" \/ (x.status = "retry-wait" /\ x.due)
\* The worker p goes on with its list from i on: jobs without a destination are revoked, and the first other one
\* is posted.  A job that has no attempt left cannot be counted once more: the worker ends there.
WorksOn(p, all, list, i) ==
    LET due   == {j \in i..Len(list) : IsDue(list[j])}
        there == {j \in due : webhooks[list[j].to] = "saved"}
    IN  \E first \in there \cup {0} :
          LET posts == first # 0 /\ list[first].attempts < MaxPosts
              gone  == {j \in due \ there : first = 0 \/ j < first}
          IN  /\ first = 0 => there = {}
              /\ \A k \in there : first <= k
              /\ jobs' = [j \in DOMAIN all |->
                   IF j \in gone THEN [list[j] EXCEPT !.status = "revoked", !.sent = all[j].sent]
                   ELSE IF posts /\ j = first
                   THEN [list[j] EXCEPT !.status = "delivering", !.attempts = @ + 1,
                                        !.sent = IF all[j].sent < MaxPosts THEN all[j].sent + 1 ELSE MaxPosts]
                   ELSE all[j]]
              /\ posters' = [posters EXCEPT ![p] = IF posts THEN [list |-> list, at |-> first] ELSE NoPost]

\* processDue
Process(p) ==
    /\ posters[p].at = 0
    /\ WorksOn(p, jobs, jobs, 1)
    /\ UNCHANGED <<webhooks, binding, decided>>

\* Mutant: the last attempt is not made.
RetryAfterOneLess(attempts) == IF attempts + 1 >= MaxPosts THEN "failed" ELSE "retry-wait"
\* What becomes of a job after a failed post.
RetryAfter(attempts) == IF attempts >= MaxPosts THEN "failed" ELSE "retry-wait"
\* The post ends, at the latest when its time is over; its result is written over whatever the job is by now.
PostEnds(p) ==
    /\ posters[p].at # 0
    /\ LET i == posters[p].at
           x == [posters[p].list[i] EXCEPT !.attempts = @ + 1, !.due = FALSE, !.sent = jobs[i].sent]
       IN  \E status \in {"succeeded", RetryAfter(x.attempts)} :
             WorksOn(p, [jobs EXCEPT ![i] = [x EXCEPT !.status = status]], posters[p].list, i + 1)
    /\ UNCHANGED <<webhooks, binding, decided>>

\* The backoff of a job is over.
BackoffEnds(j) ==
    /\ jobs[j].status = "retry-wait" /\ ~jobs[j].due
    /\ jobs' = [jobs EXCEPT ![j].due = TRUE]
    /\ UNCHANGED <<webhooks, binding, decided, posters>>

-----------------------------------------------------------------------------
(* What the person does *)

NewJob(r, d) == [run |-> r, to |-> d, status |-> "pending", attempts |-> 0, due |-> FALSE, sent |-> 0]
\* The job is made, if there is none for the run and the destination, and the handler works through the jobs.
EnqueueAndProcess(r, d) ==
    /\ Len(jobs) < MaxJobs
    /\ LET known == r # "test" /\ \E j \in DOMAIN jobs : jobs[j].run = r /\ jobs[j].to = d
           all   == IF known THEN jobs ELSE Append(jobs, NewJob(r, d))
       IN  posters["handler"].at = 0 /\ WorksOn("handler", all, all, 1)

SaveDestination(d) ==
    /\ webhooks[d] = "new"
    /\ webhooks' = [webhooks EXCEPT ![d] = "saved"]
    /\ UNCHANGED <<binding, decided, jobs, posters>>
Bind(d) ==
    /\ d # binding /\ webhooks[d] = "saved"
    /\ binding' = d
    /\ UNCHANGED <<webhooks, decided, jobs, posters>>
Unbind ==
    /\ binding # "nowhere"
    /\ binding' = "nowhere"
    /\ UNCHANGED <<webhooks, decided, jobs, posters>>
TestDestination(d) ==
    /\ webhooks[d] = "saved"
    /\ EnqueueAndProcess("test", d)
    /\ UNCHANGED <<webhooks, binding, decided>>

\* The approval is committed; then the handler learns of it and makes the job.
DecideRun(r) ==
    /\ decided[r] = "open"
    /\ decided' = [decided EXCEPT ![r] = "decided"]
    /\ UNCHANGED <<webhooks, binding, jobs, posters>>
ApprovedRun(r) ==
    /\ decided[r] = "decided"
    /\ decided' = [decided EXCEPT ![r] = "told"]
    /\ IF binding = "nowhere" THEN UNCHANGED <<jobs, posters>> ELSE EnqueueAndProcess(r, binding)
    /\ UNCHANGED <<webhooks, binding>>

Restarts(all) ==
    /\ jobs' = [j \in DOMAIN all |-> IF all[j].status = "delivering"
                  THEN [all[j] EXCEPT !.status = "retry-wait", !.due = TRUE] ELSE all[j]]
    /\ posters' = [p \in Posters |-> NoPost]
    /\ decided' = [r \in Runs |-> IF decided[r] = "decided" THEN "told" ELSE decided[r]]
\* The file of the destination, the bindings and the jobs are written in this order.
RemoveDestination(d) ==
    /\ webhooks[d] = "saved"
    /\ webhooks' = [webhooks EXCEPT ![d] = "removed"]
    /\ \/ /\ binding' = IF binding = d THEN "nowhere" ELSE binding
          /\ jobs' = [j \in DOMAIN jobs |-> IF jobs[j].to = d /\ jobs[j].status \notin Ended
                        THEN [jobs[j] EXCEPT !.status = "revoked"] ELSE jobs[j]]
          /\ UNCHANGED <<decided, posters>>
       \/ Restarts(jobs) /\ UNCHANGED binding
DeliveryCrash == Restarts(jobs) /\ UNCHANGED <<webhooks, binding>>

-----------------------------------------------------------------------------
DeliveryNext ==
    \/ \E d \in Destinations : SaveDestination(d) \/ TestDestination(d) \/ RemoveDestination(d) \/ Bind(d)
    \/ Unbind
    \/ \E r \in Runs : DecideRun(r) \/ ApprovedRun(r)
    \/ Process("scheduler")
    \/ \E p \in Posters : PostEnds(p)
    \/ \E j \in DOMAIN jobs : BackoffEnds(j)
    \/ DeliveryCrash

\* The scheduler ticks every 10 seconds, a post ends within 15, a backoff ends.
DeliveryFairness ==
    /\ WF_deliveryVars(Process("scheduler"))
    /\ \A p \in Posters : WF_deliveryVars(PostEnds(p))
    /\ \A j \in 1..MaxJobs : WF_deliveryVars(j \in DOMAIN jobs /\ BackoffEnds(j))
DeliverySpec == DeliveryInit /\ [][DeliveryNext]_deliveryVars /\ DeliveryFairness

-----------------------------------------------------------------------------
(* Properties *)

\* A job is only given up after all its posts, however workers, stops and recoveries mix up their copies.
GivesUpLast == \A j \in DOMAIN jobs : jobs[j].status = "failed" => jobs[j].sent = MaxPosts

\* Work that a stop interrupted, or that failed, is tried again until it ends.
RestartedIsRetried ==
    \A j \in 1..MaxJobs :
        (j \in DOMAIN jobs /\ jobs[j].status = "retry-wait") ~> (j \in DOMAIN jobs /\ jobs[j].status \in Ended)
=============================================================================
