----------------------------- MODULE AiRuntime -----------------------------
(***************************************************************************)
(* The AI runtime (services/ai-runtime): a process that serves the desktop *)
(* application's requests to language models and to MCP servers.  Every    *)
(* request about an MCP server is a session of its own: the server is      *)
(* started or connected to, what it offers is listed page by page, and     *)
(* then the list is summarised (an inspection) or the item the person      *)
(* approved is looked up in it and used.  The server is a program nobody   *)
(* vouches for: it lists what it likes, changes its mind and may never     *)
(* answer.  A name is the approved one or another; a payload is whether it *)
(* fits the budget.                                                        *)
(***************************************************************************)
EXTENDS Naturals, Sequences, FiniteSets

CONSTANTS
    Slots,       \* the requests that arrive
    Ids,         \* the ids they carry
    Methods,     \* the methods a slot may ask for
    Kinds,       \* what a server can list
    Cursors,     \* the cursors a server gives out
    PageSizes,   \* the items of a page
    MaxPages, MaxItems, MaxRedirects,
    None

ASSUME RuntimeAssumption ==
    /\ MaxPages \in Nat \ {0} /\ MaxItems \in Nat \ {0} /\ MaxRedirects \in Nat /\ PageSizes \subseteq Nat
    /\ Kinds \subseteq {"tools", "resources", "prompts"}
    /\ Methods \in [Slots -> SUBSET {"generate", "inspect", "tool", "remoteTool", "prompt", "resource"}]
    /\ None \notin Slots \cup Ids \cup Cursors \cup {"ok"}

VARIABLES slots, controllers   \* controllers: the controllers of the dispatcher, by request id
runtimeVars == <<slots, controllers>>

Remote  == {"remoteTool"}
\* A listed item: the approved one as reviewed, one of its name that changed, or another.
Items   == {"reviewed", "changed", "other"}
NewList == [items |-> <<>>, seen |-> {}, next |-> None, pages |-> 0, limited |-> FALSE, over |-> FALSE,
            offered |-> 0, more |-> FALSE]    \* offered and more: what the server showed, for the properties
Unused  == [method |-> None, id |-> None, stage |-> "unused", lists |-> [k \in Kinds |-> NewList], kept |-> 0,
            limited |-> FALSE, aborted |-> FALSE, expired |-> FALSE, hops |-> 0, ok |-> FALSE, answer |-> None]
Answers == {"ok", "failed", "cancelled", "refused", "duplicate"}
Waiting == {"connecting", "listing", "acting"}
Running(s) == slots[s].stage \in Waiting \cup {"closing"}

RuntimeTypeOK ==
    /\ \A s \in Slots :
         LET x == slots[s] IN
         /\ x.method \in Methods[s] \cup {None} /\ x.id \in Ids \cup {None} /\ x.answer \in Answers \cup {None}
         /\ x.stage \in {"unused", "closing", "answered"} \cup Waiting /\ x.hops \in 0..MaxRedirects
         /\ {x.limited, x.aborted, x.expired, x.ok} \subseteq BOOLEAN
         /\ \A k \in Kinds : /\ Len(x.lists[k].items) <= MaxItems /\ x.lists[k].pages <= MaxPages
                             /\ \A i \in DOMAIN x.lists[k].items : x.lists[k].items[i] \in Items
    /\ controllers \in [Ids -> Slots \cup {None}]

RuntimeInit == slots = [s \in Slots |-> Unused] /\ controllers = [i \in Ids |-> None]

-----------------------------------------------------------------------------
(* The dispatcher *)

Set(s, x) == slots' = [slots EXCEPT ![s] = x]

\* A request arrives: an id that is at work is refused, and so is an invocation that does not parse.
Dispatch(s, id, m) ==
    /\ slots[s].stage = "unused"
    /\ IF controllers[id] # None
       THEN /\ Set(s, [Unused EXCEPT !.method = m, !.id = id, !.stage = "answered", !.answer = "duplicate"])
            /\ UNCHANGED controllers
       ELSE \/ /\ Set(s, [Unused EXCEPT !.method = m, !.id = id, !.stage = "connecting"])
               /\ controllers' = [controllers EXCEPT ![id] = s]
            \/ /\ Set(s, [Unused EXCEPT !.method = m, !.id = id, !.stage = "answered", !.answer = "refused"])
               /\ UNCHANGED controllers

\* system.cancel: aborts whatever runs under the id.
Cancel(id) ==
    /\ controllers[id] # None /\ ~slots[controllers[id]].aborted
    /\ slots' = [slots EXCEPT ![controllers[id]].aborted = TRUE]
    /\ UNCHANGED controllers

-----------------------------------------------------------------------------
(* A session with a server *)

Stopped(x) == x.aborted \/ x.expired
\* The timer of the session: 30 seconds with an MCP server, 120 with a provider.
Expire(s) ==
    /\ Running(s) /\ ~slots[s].expired
    /\ Set(s, [slots[s] EXCEPT !.expired = TRUE])
    /\ UNCHANGED controllers

Live(s, stage) == slots[s].stage = stage /\ ~Stopped(slots[s])
Ends(s, ok) == Set(s, [slots[s] EXCEPT !.stage = "closing", !.ok = ok])

\* Mutant: only a cancellation stops what a server does not answer.
AbortedOnly(s) == slots[s].stage \in Waiting /\ slots[s].aborted /\ Ends(s, FALSE) /\ UNCHANGED controllers
\* A request in flight, or about to be sent, fails once the session was cancelled or its time is over.
StopsWaiting(s) == slots[s].stage \in Waiting /\ Stopped(slots[s]) /\ Ends(s, FALSE) /\ UNCHANGED controllers
\* The server fails, or its answer breaks a rule of the protocol.
ServerFails(s) == slots[s].stage \in Waiting /\ Ends(s, FALSE) /\ UNCHANGED controllers

\* A remote server redirects, within its origin, a limited number of times.
Redirect(s) ==
    /\ slots[s].method \in Remote /\ slots[s].stage \in Waiting /\ ~Stopped(slots[s])
    /\ IF slots[s].hops = MaxRedirects THEN Ends(s, FALSE)
       ELSE Set(s, [slots[s] EXCEPT !.hops = @ + 1])
    /\ UNCHANGED controllers

\* The primitive a method works with, and those it lists; a provider lists nothing.
Primitive(m) == CASE m \in {"tool", "remoteTool"} -> "tools" [] m = "prompt" -> "prompts" [] OTHER -> "resources"
Listed(m)    == IF m = "inspect" THEN Kinds ELSE {Primitive(m)}

\* The server is connected and says what it can list.
Connect(s, advertised) ==
    /\ Live(s, "connecting")
    /\ LET m == slots[s].method IN
       IF m = "generate" THEN Set(s, [slots[s] EXCEPT !.stage = "acting"])
       ELSE IF m # "inspect" /\ Primitive(m) \notin advertised THEN Ends(s, FALSE)
       ELSE Set(s, [slots[s] EXCEPT !.stage = "listing", !.hops = 0,
                        !.lists = [k \in Kinds |-> [NewList EXCEPT !.over = k \notin advertised \cap Listed(m)]]])
    /\ UNCHANGED controllers

\* Mutant: a cursor that was seen before ends the list as if it were complete.
GrownQuietly(l, page) ==
    LET room  == MaxItems - Len(l.items)
        items == l.items \o SubSeq(page.items, 1, IF Len(page.items) > room THEN room ELSE Len(page.items))
        full  == l.pages + 1 >= MaxPages \/ Len(items) >= MaxItems
    IN  [items |-> items, seen |-> l.seen \cup {page.next}, next |-> page.next, pages |-> l.pages + 1,
         limited |-> l.limited \/ Len(page.items) > room \/ (page.next # None /\ full),
         over |-> page.next = None \/ full \/ page.next \in l.seen,
         offered |-> l.offered + Len(page.items), more |-> page.next # None]
\* collectPages: a page more, as long as there are pages and items left and the cursor is a new one.
Grown(l, page) ==
    LET room  == MaxItems - Len(l.items)
        items == l.items \o SubSeq(page.items, 1, IF Len(page.items) > room THEN room ELSE Len(page.items))
        full  == l.pages + 1 >= MaxPages \/ Len(items) >= MaxItems \/ page.next \in l.seen
    IN  [items |-> items, seen |-> l.seen \cup {page.next}, next |-> page.next, pages |-> l.pages + 1,
         limited |-> l.limited \/ Len(page.items) > room \/ (page.next # None /\ full),
         over |-> page.next = None \/ full,
         offered |-> l.offered + Len(page.items), more |-> page.next # None]

Pages(m) == [items : UNION {[1..n -> IF m = "inspect" THEN {"other"} ELSE Items] : n \in PageSizes},
             next  : Cursors \cup {None}]
GetPage(s, k, page) ==
    /\ Live(s, "listing") /\ ~slots[s].lists[k].over
    /\ Set(s, [slots[s] EXCEPT !.lists[k] = Grown(@, page), !.hops = 0])
    /\ UNCHANGED controllers

Count(lists) == Cardinality({e \in Kinds \X (1..MaxItems) : e[2] <= Len(lists[e[1]].items)})
\* An inspection: the lists in one snapshot, cut until it fits the byte budget; texts may be cut as well.
Summarise(s) ==
    /\ Live(s, "listing") /\ slots[s].method = "inspect" /\ \A k \in Kinds : slots[s].lists[k].over
    /\ \E kept \in 0..Count(slots[s].lists), cut \in BOOLEAN :
         Set(s, [slots[s] EXCEPT !.stage = "closing", !.ok = TRUE, !.kept = kept,
                    !.limited = cut \/ kept < Count(slots[s].lists) \/ \E k \in Kinds : slots[s].lists[k].limited])
    /\ UNCHANGED controllers

\* The first listed item with the approved name: the tool's schema must be the reviewed one.
FoundAt(x) == {i \in DOMAIN x.lists[Primitive(x.method)].items : x.lists[Primitive(x.method)].items[i] # "other"}
Accepted(x) ==
    \E i \in FoundAt(x) : /\ \A j \in FoundAt(x) : i <= j
                          /\ x.method \in {"tool", "remoteTool"} => x.lists[Primitive(x.method)].items[i] = "reviewed"
LookUp(s) ==
    /\ Live(s, "listing") /\ slots[s].method # "inspect" /\ slots[s].lists[Primitive(slots[s].method)].over
    /\ IF Accepted(slots[s]) THEN Set(s, [slots[s] EXCEPT !.stage = "acting", !.hops = 0]) ELSE Ends(s, FALSE)
    /\ UNCHANGED controllers

\* The call, the prompt, the resource or the completion comes back; one above a budget is an error.
Result(s) ==
    /\ Live(s, "acting")
    /\ \E fits \in BOOLEAN : Ends(s, fits)
    /\ UNCHANGED controllers

\* The client is closed and the answer is sent; a failure after a cancellation is a cancellation.
Respond(s) ==
    /\ slots[s].stage = "closing"
    /\ Set(s, [slots[s] EXCEPT !.stage = "answered",
                  !.answer = IF slots[s].ok THEN "ok" ELSE IF slots[s].aborted THEN "cancelled" ELSE "failed"])
    /\ controllers' = [controllers EXCEPT ![slots[s].id] = None]

-----------------------------------------------------------------------------
Step(s) == StopsWaiting(s) \/ Respond(s) \/ Summarise(s) \/ LookUp(s)
RuntimeSteps(arriving) ==
    \/ \E s \in arriving : Step(s) \/ Expire(s) \/ ServerFails(s) \/ Redirect(s) \/ Result(s)
    \/ \E s \in arriving : \E id \in Ids, m \in Methods[s] : Dispatch(s, id, m)
    \/ \E s \in arriving : \E advertised \in SUBSET Kinds : Connect(s, advertised)
    \/ \E s \in arriving : \E k \in Kinds : slots[s].stage = "listing" /\ \E page \in Pages(slots[s].method) : GetPage(s, k, page)
    \/ \E id \in Ids : Cancel(id)
RuntimeNext == RuntimeSteps(Slots)

\* The timers go off and local steps are taken; nothing obliges a server or a provider to answer.
RuntimeFairness == \A s \in Slots : WF_runtimeVars(Step(s)) /\ WF_runtimeVars(Expire(s))

-----------------------------------------------------------------------------
(* Properties *)

\* An inspection that does not say it is limited shows everything the server offered: no page was left,
\* no item dropped, nothing cut to fit, whatever the cursors did.
TruncationIsTold ==
    \A s \in Slots :
        (slots[s].method = "inspect" /\ slots[s].answer = "ok" /\ ~slots[s].limited) =>
            /\ slots[s].kept = Count(slots[s].lists)
            /\ \A k \in Kinds : ~slots[s].lists[k].more /\ slots[s].lists[k].offered = Len(slots[s].lists[k].items)

\* Every request is answered, also when a server or a provider never answers or redirects in a circle.
EveryRequestAnswered == \A s \in Slots : slots[s].stage = "connecting" ~> slots[s].stage = "answered"
=============================================================================
