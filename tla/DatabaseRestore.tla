-------------------------- MODULE DatabaseRestore --------------------------
(***************************************************************************)
(* A validated backup takes the place of the data core's database          *)
(* (restore.go), and the start of the data core that finds such an         *)
(* exchange cut short (service.go).  Databases are numbered in the order   *)
(* they came to be; a file is the number of the database in it, or 0.  The *)
(* data core serves nothing else meanwhile.  An open may fail in any       *)
(* state: it configures, migrates and recovers.  The write-ahead log is    *)
(* left out.                                                               *)
(***************************************************************************)
EXTENDS Naturals

CONSTANT MaxRestores   \* bound: restores

ASSUME RestoreAssumption == MaxRestores \in Nat

VARIABLES
    main,      \* bubu.db
    rollback,  \* bubu.db.restore-rollback
    incoming,  \* the staged file of the restore under way
    serving,   \* the process has a database open
    doing,     \* the next statement of a restore or of a start, "idle", or "down"
    inUse,     \* the database the person works with, as far as the data core has told
    outlived   \* a rollback file could not be removed when it was done with
databaseVars == <<main, rollback, incoming, serving, doing, inUse, outlived>>

Restoring == {"close", "moveAway", "install", "open", "undo", "putBack", "reopen", "done"}
Starting  == {"find", "start", "discard", "recover", "restart", "started"}

DatabaseTypeOK ==
    /\ main \in 0..(MaxRestores + 1) /\ rollback \in 0..(MaxRestores + 1) /\ incoming \in 0..(MaxRestores + 1)
    /\ inUse \in 1..(MaxRestores + 1)
    /\ serving \in BOOLEAN /\ outlived \in BOOLEAN
    /\ doing \in {"idle", "down"} \cup Restoring \cup Starting
    /\ main = 0 => serving = FALSE

DatabaseInit ==
    /\ main = 1 /\ rollback = 0 /\ incoming = 0 /\ inUse = 1
    /\ serving = TRUE /\ doing = "idle" /\ outlived = FALSE

-----------------------------------------------------------------------------
(* The restore *)

\* The staged file has passed every check; the current database is checkpointed.
PrepareRestore ==
    /\ doing = "idle" /\ serving = TRUE /\ main <= MaxRestores
    /\ incoming' = main + 1 /\ doing' = "close"
    /\ UNCHANGED <<main, rollback, serving, inUse, outlived>>

\* The current database is closed, for good if that fails, and an older rollback file is in the way.
CloseCurrent ==
    /\ doing = "close" /\ serving' = FALSE
    /\ \/ doing' = "moveAway" /\ rollback' \in {0, rollback} /\ UNCHANGED incoming
       \/ doing' = "idle" /\ incoming' = 0 /\ UNCHANGED rollback
    /\ UNCHANGED <<main, inUse, outlived>>

MoveAway ==
    /\ doing = "moveAway"
    /\ \/ rollback' = main /\ main' = 0 /\ doing' = "install"
       \/ UNCHANGED <<main, rollback>> /\ doing' = "reopen"
    /\ UNCHANGED <<incoming, serving, inUse, outlived>>

InstallStaged ==
    /\ doing = "install"
    /\ \/ main' = incoming /\ incoming' = 0 /\ doing' = "open"
       \/ UNCHANGED <<main, incoming>> /\ doing' = "undo"
    /\ UNCHANGED <<rollback, serving, inUse, outlived>>

\* A rollback file that is done with goes; nobody looks at whether it could be removed.
Forgotten == rollback' \in {0, rollback} /\ outlived' = IF rollback' = 0 THEN outlived ELSE TRUE

Tries == \/ serving' = TRUE /\ doing' = "done"
         \/ UNCHANGED serving /\ doing' = "undo"
\* Mutant: the rollback file goes before the restored database has been opened.
TriedAlone == Tries /\ rollback' = 0 /\ UNCHANGED outlived
\* It is opened, or everything is undone.
Tried == Tries /\ UNCHANGED <<rollback, outlived>>
OpenRestored == doing = "open" /\ Tried /\ UNCHANGED <<main, incoming, inUse>>

\* The caller is told that the backup was restored.
RestoreDone ==
    /\ doing = "done" /\ Forgotten /\ inUse' = main /\ doing' = "idle"
    /\ UNCHANGED <<main, incoming, serving>>

\* What was installed is removed, the original moved back and opened again.
UndoInstall ==
    /\ doing = "undo" /\ main' = 0 /\ doing' = "putBack"
    /\ UNCHANGED <<rollback, incoming, serving, inUse, outlived>>
PutBack ==
    /\ doing = "putBack"
    /\ \/ main' = rollback /\ rollback' = 0 /\ doing' = "reopen"
       \/ UNCHANGED <<main, rollback>> /\ doing' = "idle"
    /\ incoming' = 0 /\ UNCHANGED <<serving, inUse, outlived>>
ReopenCurrent ==
    /\ doing = "reopen" /\ serving' \in BOOLEAN /\ doing' = "idle" /\ incoming' = 0
    /\ UNCHANGED <<main, rollback, inUse, outlived>>

-----------------------------------------------------------------------------
(* The start *)

\* The process ends between two statements, and starts again.
StopCore ==
    /\ doing # "down" /\ doing' = "down" /\ serving' = FALSE /\ incoming' = 0
    /\ UNCHANGED <<main, rollback, inUse, outlived>>
StartCore == doing = "down" /\ doing' = "find" /\ UNCHANGED <<main, rollback, incoming, serving, inUse, outlived>>

\* Without a database the rollback file is taken; a start without either makes a new one, which is not meant to occur.
FindDatabase ==
    /\ doing = "find"
    /\ \/ main = 0 /\ rollback # 0 /\ main' = rollback /\ rollback' = 0 /\ doing' = "start"
       \/ main = 0 /\ rollback # 0 /\ UNCHANGED <<main, rollback>> /\ doing' = "down"
       \/ main # 0 /\ UNCHANGED <<main, rollback>> /\ doing' = "start"
    /\ UNCHANGED <<incoming, serving, inUse, outlived>>

\* A database that cannot be opened gives way to the rollback file, if there is one.
OpenAtStart ==
    /\ doing = "start"
    /\ \/ serving' = TRUE /\ doing' = "started"
       \/ UNCHANGED serving /\ doing' = IF rollback = 0 THEN "down" ELSE "discard"
    /\ UNCHANGED <<main, rollback, incoming, inUse, outlived>>
DiscardUnusable ==
    /\ doing = "discard" /\ main' = 0 /\ doing' = "recover"
    /\ UNCHANGED <<rollback, incoming, serving, inUse, outlived>>
RecoverOriginal ==
    /\ doing = "recover"
    /\ \/ main' = rollback /\ rollback' = 0 /\ doing' = "restart"
       \/ UNCHANGED <<main, rollback>> /\ doing' = "down"
    /\ UNCHANGED <<incoming, serving, inUse, outlived>>
OpenRecovered ==
    /\ doing = "restart"
    /\ \/ serving' = TRUE /\ doing' = "started"
       \/ UNCHANGED serving /\ doing' = "down"
    /\ UNCHANGED <<main, rollback, incoming, inUse, outlived>>
StartDone ==
    /\ doing = "started" /\ Forgotten /\ inUse' = main /\ doing' = "idle"
    /\ UNCHANGED <<main, incoming, serving>>

DatabaseNext ==
    \/ PrepareRestore \/ CloseCurrent \/ MoveAway \/ InstallStaged \/ OpenRestored \/ RestoreDone
    \/ UndoInstall \/ PutBack \/ ReopenCurrent
    \/ StopCore \/ StartCore \/ FindDatabase \/ OpenAtStart \/ DiscardUnusable \/ RecoverOriginal
    \/ OpenRecovered \/ StartDone

DatabaseSpec == DatabaseInit /\ [][DatabaseNext]_databaseVars

-----------------------------------------------------------------------------
\* The database the person works with is in one of its two places through every failure and every stop, until
\* another one has been opened in its stead: unless a rollback file outlived the restore it was made for, when a
\* later start that fails to open the database puts that file in its place.
DatabaseInUseKept == outlived = FALSE => inUse \in {main, rollback}
=============================================================================
