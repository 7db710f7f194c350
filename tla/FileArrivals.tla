---------------------------- MODULE FileArrivals ----------------------------
(***************************************************************************)
(* The approved folder: files that arrive in it are listed, and each waits *)
(* until the person makes it the next version of a data object or          *)
(* dismisses it.                                                           *)
(*                                                                         *)
(* The list lives in the memory of the main process and is saved as a      *)
(* whole, into one temporary file that is then renamed.  A handler awaits  *)
(* both, so saves overlap: they write over one another's temporary file,   *)
(* and a rename may find that another has taken it.  The stamp of a file   *)
(* stands for its size and time of change.                                 *)
(***************************************************************************)
EXTENDS Naturals, Sequences

CONSTANTS
    Files,      \* names of files with a supported extension
    MaxStamps,  \* bound: changes of a file
    Watchers,   \* calls of recordFile that may be under way at once
    Handlers,   \* calls of the renderer that may be under way at once
    MaxListed,   \* items the list keeps
    MaxArrivals, \* bound: items made
    MaxTokens   \* bound: mapping sessions

ASSUME ArrivalAssumption == MaxStamps \in Nat /\ MaxListed \in Nat \ {0} /\ MaxArrivals \in Nat /\ MaxTokens \in Nat

Statuses == {"needs-review", "processing", "mapping-required", "completed", "failed", "dismissed"}

VARIABLES
    folder,    \* the stamp of each file, 0: there is none
    items,     \* the list in memory, newest first
    saved,     \* the list on disk (none if it cannot be parsed), and whether the last save ran alone
    calls,     \* the calls under way
    sessions,  \* mapping sessions: the items whose columns are to be mapped, 0 when used
    loaded,    \* the list was read since the start
    made       \* how many items were made
arrivalVars == <<folder, items, saved, calls, sessions, loaded, made>>

Resting   == [at |-> "resting"]
ListedIds == {items[i].id : i \in DOMAIN items}
ItemOf(n) == items[CHOOSE i \in DOMAIN items : items[i].id = n]
Savers    == {c \in DOMAIN calls : calls[c].at = "save"}

ArrivalTypeOK ==
    /\ folder \in [Files -> 0..MaxStamps] /\ loaded \in BOOLEAN
    /\ \A list \in {items, saved.list} : Len(list) <= MaxListed /\ \A i \in DOMAIN list :
         list[i].file \in Files /\ list[i].stamp \in 1..MaxStamps /\ list[i].status \in Statuses
    /\ \A c \in Watchers \cup Handlers : calls[c].at \in {"resting", "inspect", "save", "replace"}
    /\ Len(sessions) <= MaxTokens /\ made \in 0..MaxArrivals

ArrivalInit ==
    /\ folder = [f \in Files |-> 0] /\ items = <<>> /\ saved = [list |-> <<>>, alone |-> TRUE]
    /\ calls = [c \in Watchers \cup Handlers |-> Resting]
    /\ sessions = <<>> /\ loaded = TRUE /\ made = 0

-----------------------------------------------------------------------------
(* Saving the list *)

\* The call c saves the list as it is now and goes on as then says.  Saves that overlap are mixed up.
Saves(c, then) ==
    calls' = [d \in DOMAIN calls |->
                IF d = c THEN [at |-> "save", then |-> then, list |-> items', mixed |-> Savers \ {c} # {}, robbed |-> FALSE]
                ELSE IF d \in Savers THEN [calls[d] EXCEPT !.mixed = TRUE] ELSE calls[d]]
Marked(n, status) == [i \in DOMAIN items |-> IF items[i].id = n THEN [items[i] EXCEPT !.status = status] ELSE items[i]]
\* What the file may hold when the save c is over: the list; or, when saves were mixed up, the one any of them
\* began with, or pieces of both.
FileAfter(c) ==
    IF ~calls[c].mixed THEN {[list |-> items, alone |-> TRUE]}
    ELSE {[list |-> l, alone |-> FALSE] : l \in {items} \cup {calls[d].list : d \in Savers}}
         \cup {[list |-> <<>>, alone |-> FALSE]}
Robbed(c, next) == [d \in DOMAIN calls |-> IF d = c THEN next
                      ELSE IF d \in Savers THEN [calls[d] EXCEPT !.robbed = TRUE] ELSE calls[d]]
\* The rename takes the temporary file, also from the saves that still want it, and the call goes on.
SaveEnds(c) ==
    /\ calls[c].at = "save"
    /\ saved' \in FileAfter(c)
    /\ calls' = Robbed(c, IF calls[c].then.do = "replace" THEN [at |-> "replace", item |-> calls[c].then.item] ELSE Resting)
    /\ UNCHANGED <<folder, items, sessions, loaded, made>>
\* The temporary file is gone, and the call fails; a handler that was to record how a replacement ended records a
\* failure instead.
SaveFails(c) ==
    /\ calls[c].at = "save" /\ calls[c].robbed
    /\ IF calls[c].then.do = "settle"
       THEN items' = Marked(calls[c].then.item, "failed") /\ Saves(c, [do |-> "return"])
       ELSE UNCHANGED items /\ calls' = [calls EXCEPT ![c] = Resting]
    /\ UNCHANGED <<folder, saved, sessions, loaded, made>>

-----------------------------------------------------------------------------
(* The watcher *)

\* A program writes the file.
FileArrives(f) ==
    /\ folder[f] < MaxStamps
    /\ folder' = [folder EXCEPT ![f] = @ + 1]
    /\ UNCHANGED <<items, saved, calls, sessions, loaded, made>>
Known(f, stamp) == \E i \in DOMAIN items : items[i].file = f /\ items[i].stamp = stamp
\* recordFile: a file and stamp that is listed is left alone; the inspection of another is awaited.
Notice(c, f) ==
    /\ loaded /\ calls[c] = Resting /\ folder[f] > 0 /\ ~Known(f, folder[f])
    /\ calls' = [calls EXCEPT ![c] = [at |-> "inspect", file |-> f, stamp |-> folder[f]]]
    /\ UNCHANGED <<folder, items, saved, sessions, loaded, made>>
\* Mutant: the new item is not saved.
ListsOnly(c) == calls' = [calls EXCEPT ![c] = Resting]
ListsAndSaves(c) == Saves(c, [do |-> "return"])
\* The inspection may fail (then nothing is listed); otherwise the item is put first, and the list is cut.
Inspected(c) ==
    /\ calls[c].at = "inspect"
    /\ \/ /\ calls' = [calls EXCEPT ![c] = Resting] /\ UNCHANGED <<items, made>>
       \/ LET item == [id |-> made + 1, file |-> calls[c].file, stamp |-> calls[c].stamp, status |-> "needs-review", version |-> FALSE]
          IN  /\ items' = SubSeq(<<item>> \o items, 1, IF Len(items) < MaxListed THEN Len(items) + 1 ELSE MaxListed)
              /\ made < MaxArrivals /\ made' = made + 1
              /\ ListsAndSaves(c)
    /\ UNCHANGED <<folder, saved, sessions, loaded>>

-----------------------------------------------------------------------------
(* What the person does *)

\* source and the first update of approveFileArrival: the file is as it was detected.
ApproveArrival(c, n) ==
    /\ loaded /\ calls[c] = Resting /\ n \in ListedIds
    /\ ItemOf(n).status \notin {"completed", "dismissed"} /\ folder[ItemOf(n).file] = ItemOf(n).stamp
    /\ items' = Marked(n, "processing")
    /\ Saves(c, [do |-> "replace", item |-> n])
    /\ UNCHANGED <<folder, saved, sessions, loaded, made>>
\* The data core makes a version, asks for a mapping, or fails; the item is marked accordingly.
Replaced(c) ==
    /\ calls[c].at = "replace" /\ calls[c].item \in ListedIds
    /\ LET n == calls[c].item IN
         \/ /\ items' = [i \in DOMAIN items |-> IF items[i].id = n
                           THEN [items[i] EXCEPT !.status = "completed", !.version = TRUE] ELSE items[i]]
            /\ Saves(c, [do |-> "settle", item |-> n]) /\ UNCHANGED sessions
         \/ /\ Len(sessions) < MaxTokens
            /\ items' = Marked(n, "mapping-required") /\ sessions' = Append(sessions, n)
            /\ Saves(c, [do |-> "settle", item |-> n])
         \/ /\ items' = Marked(n, "failed")
            /\ Saves(c, [do |-> "return"]) /\ UNCHANGED sessions
    /\ UNCHANGED <<folder, saved, loaded, made>>
\* The item left the list meanwhile: its update throws, and so does the one that records the failure.
ReplacedUnlisted(c) ==
    /\ calls[c].at = "replace" /\ calls[c].item \notin ListedIds
    /\ calls' = [calls EXCEPT ![c] = Resting]
    /\ UNCHANGED <<folder, items, saved, sessions, loaded, made>>
\* applyReplacementMapping: the session is used up, and only a new version changes the item.
MapColumns(c, s) ==
    /\ calls[c] = Resting /\ sessions[s] # 0
    /\ sessions' = [sessions EXCEPT ![s] = 0]
    /\ \/ UNCHANGED <<items, calls>>
       \/ /\ sessions[s] \in ListedIds
          /\ items' = [i \in DOMAIN items |-> IF items[i].id = sessions[s]
                         THEN [items[i] EXCEPT !.status = "completed", !.version = TRUE] ELSE items[i]]
          /\ Saves(c, [do |-> "return"])
    /\ UNCHANGED <<folder, saved, loaded, made>>
\* configure, with the folder that is approved already: its items stay.
ApproveFolder(c) ==
    /\ loaded /\ calls[c] = Resting
    /\ UNCHANGED items /\ Saves(c, [do |-> "return"])
    /\ UNCHANGED <<folder, saved, sessions, loaded, made>>
DismissArrival(c, n) ==
    /\ loaded /\ calls[c] = Resting /\ n \in ListedIds /\ ItemOf(n).status \notin {"completed", "dismissed"}
    /\ items' = Marked(n, "dismissed")
    /\ Saves(c, [do |-> "return"])
    /\ UNCHANGED <<folder, saved, sessions, loaded, made>>

-----------------------------------------------------------------------------
(* Stop and start *)

ArrivalCrash ==
    /\ loaded
    /\ calls' = [c \in DOMAIN calls |-> Resting] /\ sessions' = <<>> /\ items' = <<>> /\ loaded' = FALSE
    /\ UNCHANGED <<folder, saved, made>>
\* A list that cannot be parsed is an error for the first call, and no list for those that follow.
Load ==
    /\ ~loaded
    /\ items' = saved.list /\ loaded' = TRUE
    /\ UNCHANGED <<folder, saved, calls, sessions, made>>

ArrivalNext ==
    \/ \E f \in Files : FileArrives(f) \/ \E c \in Watchers : Notice(c, f)
    \/ \E c \in Watchers : Inspected(c)
    \/ \E c \in Watchers \cup Handlers : SaveEnds(c) \/ SaveFails(c)
    \/ \E c \in Handlers :
         \/ \E n \in ListedIds : ApproveArrival(c, n) \/ DismissArrival(c, n)
         \/ ApproveFolder(c) \/ Replaced(c) \/ ReplacedUnlisted(c)
         \/ \E s \in DOMAIN sessions : MapColumns(c, s)
    \/ ArrivalCrash \/ Load

-----------------------------------------------------------------------------
(* Properties *)

\* A restart reloads the list as it was: once a save ran alone, nothing that other saves made of the file before,
\* by overtaking one another, failing, or ending in the middle of a stop, is left, and no change goes unsaved.
RestartReloads == loaded /\ Savers = {} /\ saved.alone => saved.list = items

\* A replacement that is said to have failed made no version.
FailedChangesNothing == \A i \in DOMAIN items : items[i].status = "failed" => ~items[i].version
=============================================================================
