---------------------------- MODULE CatalogView ----------------------------
(***************************************************************************)
(* The data objects the window shows (App.tsx): the list, the selected     *)
(* object, its preview, and a mapping of columns that waits for the        *)
(* person.  Operations of the window change the catalogue of the data core *)
(* and then read it again; effects read the preview whenever the selection *)
(* changes.  The data core answers requests in the order they were sent.   *)
(* An object is shown by the number of its version, 0: there is none.      *)
(***************************************************************************)
EXTENDS Naturals, Sequences, FiniteSets

CONSTANTS
    DataObjects,      \* data objects
    Operations,   \* operations of the window that may be under way at once
    MaxDataVersions   \* bound: versions of an object

ASSUME CatalogAssumption ==
    /\ MaxDataVersions \in Nat \ {0} /\ "nothing" \notin DataObjects
    /\ IsFiniteSet(Operations) /\ {"open", "effect"} \cap Operations = {}

VARIABLES
    catalog,   \* the versions the data core has
    queue,     \* requests on their way, in order
    shown,     \* the list of the window
    selected,  \* the selected object, or "nothing"
    preview,   \* the preview: of which object and version, or loading or empty
    mapping,   \* the object whose replacement waits for a mapping of columns, or "nothing"
    working,   \* operations under way
    announced  \* the object and version an operation told the person of
catalogVars == <<catalog, queue, shown, selected, preview, mapping, working, announced>>

None0    == [of |-> "nothing", version |-> 0]
Blank    == [o \in DataObjects |-> 0]
Existing(list) == {o \in DataObjects : list[o] > 0}

CatalogTypeOK ==
    /\ catalog \in [DataObjects -> 0..MaxDataVersions] /\ shown \in [DataObjects -> 0..MaxDataVersions]
    /\ selected \in DataObjects \cup {"nothing"} /\ mapping \in DataObjects \cup {"nothing"}
    /\ \A v \in {preview, announced} : v.of \in DataObjects \cup {"nothing"} /\ v.version \in 0..MaxDataVersions
    \* an operation has one request on its way, and so have the effect and the opening window
    /\ working \subseteq Operations /\ Len(queue) <= Cardinality(working) + 2

\* The window loads the catalogue when it opens.
CatalogInit ==
    /\ catalog \in [DataObjects -> 0..1] /\ shown = Blank /\ selected = "nothing" /\ preview = None0
    /\ mapping = "nothing" /\ announced = None0 /\ working = {}
    /\ queue = <<[by |-> "open", do |-> "read", of |-> "nothing"]>>

-----------------------------------------------------------------------------
(* The selection *)

\* Mutant: the preview that was asked for stays awaited.
KeepAll(requests) == requests
\* The request for a preview, there is one at most, is forgotten when the selection changes.
WithoutEffects(requests) ==
    LET effects == {i \in DOMAIN requests : requests[i].by = "effect"}
        at      == CHOOSE i \in effects : TRUE
    IN  IF effects = {} THEN requests
        ELSE SubSeq(requests, 1, at - 1) \o SubSeq(requests, at + 1, Len(requests))
\* The selection becomes o: with the change the mapping goes and the preview is asked for again.
Selects(o, requests, now, map) ==
    /\ selected' = o
    /\ IF o = selected
       THEN queue' = requests /\ preview' = now /\ mapping' = map
       ELSE /\ mapping' = "nothing" /\ preview' = None0
            /\ queue' = WithoutEffects(requests) \o
                  IF o = "nothing" THEN <<>> ELSE <<[by |-> "effect", do |-> "preview", of |-> o]>>
Select(o) ==
    /\ o \in Existing(shown) /\ o # selected
    /\ Selects(o, queue, preview, mapping)
    /\ UNCHANGED <<catalog, shown, working, announced>>

-----------------------------------------------------------------------------
(* Operations *)

Starts(w, do, o) ==
    /\ w \notin working /\ working' = working \cup {w}
    /\ queue' = Append(queue, [by |-> w, do |-> do, of |-> o])
    /\ UNCHANGED <<catalog, shown, selected, preview, announced>>
ImportFiles(w, o) == o \notin Existing(catalog) /\ Starts(w, "import", o) /\ UNCHANGED mapping
\* The menu of an object selects it, and starts the operation.
ReplaceFile(w, o) == o = selected /\ Starts(w, "replace", o) /\ UNCHANGED mapping
DeleteDataset(w, o) == o \in Existing(shown) /\ Starts(w, "delete", o) /\ UNCHANGED mapping
ApplyMapping(w) == mapping # "nothing" /\ Starts(w, "apply", mapping) /\ mapping' = "nothing"
CancelMapping ==
    /\ mapping # "nothing" /\ mapping' = "nothing"
    /\ UNCHANGED <<catalog, queue, shown, selected, preview, working, announced>>

Asked == Head(queue)
Finishes(by) == working' = working \ {by}
\* An operation changed the catalogue: it reads it again.
ReadAgain(do) == queue' = Append(Tail(queue), [Asked EXCEPT !.do = do])
Changed ==
    /\ Asked.do \in {"import", "replace", "apply", "delete"}
    /\ LET o == Asked.of IN
         \/ /\ Asked.do # "delete" /\ catalog[o] < MaxDataVersions /\ (Asked.do # "import" => catalog[o] > 0)
            /\ catalog' = [catalog EXCEPT ![o] = @ + 1]
            /\ ReadAgain(IF Asked.do = "import" THEN "open" ELSE "show") /\ UNCHANGED <<working, announced>>
         \/ /\ Asked.do = "delete" /\ catalog[o] > 0
            /\ catalog' = [catalog EXCEPT ![o] = 0]
            /\ announced' = IF announced.of = o THEN None0 ELSE announced
            /\ ReadAgain("drop") /\ UNCHANGED working
    /\ UNCHANGED <<shown, selected, preview, mapping>>
\* The columns differ: the mapping is offered, and the operation ends.
MappingNeeded ==
    /\ Asked.do = "replace" /\ catalog[Asked.of] > 0
    /\ mapping' = Asked.of /\ Finishes(Asked.by) /\ queue' = Tail(queue)
    /\ UNCHANGED <<catalog, shown, selected, preview, announced>>
\* A request fails, or a dialog was cancelled: the error is shown, and nothing else.
RequestFails ==
    /\ queue' = Tail(queue) /\ Finishes(Asked.by)
    /\ preview' = IF Asked.by = "effect" THEN None0 ELSE preview
    /\ UNCHANGED <<catalog, shown, selected, mapping, announced>>
\* What an operation read is shown at once: the list, the object and its preview.
Show ==
    /\ Asked.do = "show" /\ catalog[Asked.of] > 0
    /\ LET now == [of |-> Asked.of, version |-> catalog[Asked.of]] IN
         /\ shown' = catalog /\ announced' = now
         /\ Selects(Asked.of, Tail(queue), now, "nothing")
    /\ Finishes(Asked.by) /\ UNCHANGED catalog
\* An import selects the new object and leaves its preview to the effect.
ShowImported ==
    /\ Asked.do = "open"
    /\ shown' = catalog /\ Selects(Asked.of, Tail(queue), preview, mapping)
    /\ Finishes(Asked.by) /\ UNCHANGED <<catalog, announced>>
\* A read that is not for an object selects the first one there is.
ReadAll ==
    /\ Asked.do \in {"read", "drop"}
    /\ shown' = catalog
    /\ \E o \in IF Existing(catalog) = {} THEN {"nothing"} ELSE Existing(catalog) : Selects(o, Tail(queue), preview, mapping)
    /\ Finishes(Asked.by) /\ UNCHANGED <<catalog, announced>>
PreviewRead ==
    /\ Asked.do = "preview" /\ catalog[Asked.of] > 0
    /\ preview' = [of |-> Asked.of, version |-> catalog[Asked.of]]
    /\ queue' = Tail(queue)
    /\ UNCHANGED <<catalog, shown, selected, mapping, working, announced>>

CatalogNext ==
    \/ \E o \in DataObjects : Select(o)
    \/ \E w \in Operations : ApplyMapping(w) \/ \E o \in DataObjects : ImportFiles(w, o) \/ ReplaceFile(w, o) \/ DeleteDataset(w, o)
    \/ CancelMapping
    \/ queue # <<>> /\ (Changed \/ MappingNeeded \/ RequestFails \/ Show \/ ShowImported \/ ReadAll \/ PreviewRead)

-----------------------------------------------------------------------------
(* Properties *)

\* The preview is of the selected object, and not older than the version an operation told the person of, in
\* whatever order selections, operations and their answers meet.
ViewIsOfSelection ==
    preview.of # "nothing" =>
        /\ preview.of = selected
        /\ announced.of = selected => preview.version >= announced.version
=============================================================================
