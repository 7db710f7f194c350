------------------------------ MODULE Settings ------------------------------
(***************************************************************************)
(* What the desktop keeps in files of its own: the settings (privacy       *)
(* policy, retention, agent definitions), the model providers and their    *)
(* credentials, the connections to MCP servers and the audit of what they  *)
(* did; and the restore of the settings from a file, which the main        *)
(* process applies and the panel confirms after it has written the         *)
(* preferences that only the renderer keeps.                               *)
(*                                                                         *)
(* The main process does one operation at a time, as a list of file steps. *)
(* Every step may fail, may fail after the file was replaced ("late"), and *)
(* the application may stop between two steps.                             *)
(***************************************************************************)
EXTENDS Sequences, FiniteSets

CONSTANTS
    Providers,    \* identifiers of model providers
    Connections,  \* identifiers of connections
    Audits,       \* identifiers of audited operations
    Tokens        \* restores of the settings that are tried

SettingStores  == {"privacy", "retention", "agents"}
ProviderKinds   == {"none", "local", "remote"}   \* no such provider; one that needs no credential; one that needs it
Origins == {"own", "file", "edit"}       \* where a setting comes from: this device, the restored file, a later edit

ASSUME SettingsAssumption == "nobody" \notin Providers

VARIABLES
    disk,      \* the files
    memory,    \* what the running application has of them
    op,        \* the operation the main process is in: file steps still to do, and how to undo those done
    app,       \* "up", "down", or "refused": it cannot start with the files there are
    leftovers, \* a temporary file was left in a directory of connections or audits
    pending,   \* restores that wait to be confirmed: token -> the settings before
    panel,     \* the panel that restores: "idle", "asking", "restored", "committing", "undoing"
    ticket,    \* its token, and the preferences before
    preferences, \* the preferences of the renderer: "own" or "file"
    excused    \* during a restore a rollback failed, a step failed late, or the window or the application was closed
settingsVars == <<disk, memory, op, app, leftovers, pending, panel, ticket, preferences, excused>>

Registry == [kinds : [Providers -> ProviderKinds], active : Providers \cup {"nobody"}]
Content  == [settings : [SettingStores -> Origins], registry : Registry, connections : SUBSET Connections,
             starts : SUBSET Audits, outcomes : SUBSET Audits]
NoOperation     == [name |-> "idle", steps |-> <<>>, undo |-> <<>>]

SettingsTypeOK ==
    /\ disk.content \in Content /\ memory.content \in Content
    /\ disk.credentials \in SUBSET Providers /\ memory.active \in SUBSET Audits
    /\ app \in {"up", "down", "refused"} /\ leftovers \in BOOLEAN /\ excused \in BOOLEAN
    /\ \A t \in DOMAIN pending : pending[t] \in [SettingStores -> Origins]
    /\ DOMAIN pending \subseteq Tokens /\ preferences \in Origins /\ ticket \in [token : Tokens, before : Origins]
    /\ panel \in {"idle", "asking", "restored", "committing", "undoing"}

Empty == [settings |-> [s \in SettingStores |-> "own"], connections |-> {}, starts |-> {}, outcomes |-> {},
          registry |-> [kinds |-> [p \in Providers |-> "none"], active |-> "nobody"]]
SettingsInit ==
    /\ disk = [content |-> Empty, credentials |-> {}] /\ memory = [content |-> Empty, active |-> {}]
    /\ op = NoOperation /\ app = "up" /\ leftovers = FALSE /\ pending = <<>>
    /\ panel = "idle" /\ ticket \in [token : Tokens, before : {"own"}] /\ preferences = "own" /\ excused = FALSE

-----------------------------------------------------------------------------
(* Operations of the main process *)

\* The list of providers is one file, a connection and a record of the audit have each a file of their own.
Write(value)       == [kind |-> "write", value |-> value]
Put(part, x)       == [kind |-> "put", part |-> part, value |-> x]
Drop(part, x)      == [kind |-> "drop", part |-> part, value |-> x]
Keep(s, origin)    == [kind |-> "setting", part |-> s, value |-> origin]
Secret(p)          == [kind |-> "secret", part |-> p]
Forget(p)          == [kind |-> "forget", part |-> p]

Begins(name, steps) ==
    /\ app = "up" /\ op = NoOperation
    /\ op' = [name |-> name, steps |-> steps, undo |-> <<>>]
\* Nothing else changes before the first step.
OnlyBegins(name, steps) ==
    /\ Begins(name, steps)
    /\ UNCHANGED <<disk, memory, app, leftovers, pending, panel, ticket, preferences, excused>>

\* The steps that save a provider: the credential first, then the list of providers that names it.
\* Mutant: the list first.
ProfileFirst(p, credential, registry) ==
    <<Write(registry)>> \o IF credential THEN <<Secret(p)>> ELSE <<>>
ProviderSteps(p, credential, registry) ==
    (IF credential THEN <<Secret(p)>> ELSE <<>>) \o <<Write(registry)>>
SaveProvider(p, kind, credential) ==
    LET known == memory.content.registry IN
    /\ kind # "none" /\ (kind = "remote" => credential \/ p \in disk.credentials)
    /\ OnlyBegins("provider", ProviderSteps(p, credential,
           [kinds |-> [known.kinds EXCEPT ![p] = kind], active |-> IF known.active = "nobody" THEN p ELSE known.active]))
SelectProvider(p) ==
    LET known == memory.content.registry IN
    /\ known.kinds[p] # "none" /\ known.active # p
    /\ OnlyBegins("provider", <<Write([known EXCEPT !.active = p])>>)
RemoveProvider(p) ==
    LET known == memory.content.registry
        rest  == {q \in Providers \ {p} : known.kinds[q] # "none"}
    IN  /\ known.kinds[p] # "none"
        /\ \E next \in IF known.active # p THEN {known.active} ELSE IF rest = {} THEN {"nobody"} ELSE rest :
             OnlyBegins("provider", <<Write([kinds |-> [known.kinds EXCEPT ![p] = "none"], active |-> next]), Forget(p)>>)

\* The removal of a connection is done in memory first.
SaveConnection(c) ==
    OnlyBegins("strict", <<Put("connections", c)>>)
RemoveConnection(c) ==
    /\ c \in memory.content.connections
    /\ memory' = [memory EXCEPT !.content.connections = @ \ {c}]
    /\ Begins("removal", <<Drop("connections", c)>>)
    /\ UNCHANGED <<disk, app, leftovers, pending, panel, ticket, preferences, excused>>

\* An audited operation is on record before it starts, and its outcome once.
OpenAudit(a) ==
    /\ a \notin disk.content.starts
    /\ OnlyBegins("strict", <<Put("starts", a)>>)
CloseAudit(a) ==
    /\ a \in memory.active /\ a \notin disk.content.outcomes
    /\ OnlyBegins("strict", <<Put("outcomes", a)>>)

EditSetting(s) ==
    OnlyBegins("edit", <<Keep(s, "edit")>>)

-----------------------------------------------------------------------------
(* The steps on files *)

OnDisk(step) ==
    CASE step.kind = "write"   -> [disk EXCEPT !.content.registry = step.value]
      [] step.kind = "put"     -> [disk EXCEPT !.content[step.part] = @ \cup {step.value}]
      [] step.kind = "drop"    -> [disk EXCEPT !.content[step.part] = @ \ {step.value}]
      [] step.kind = "setting" -> [disk EXCEPT !.content.settings[step.part] = step.value]
      [] step.kind = "secret"  -> [disk EXCEPT !.credentials = @ \cup {step.part}]
      [] step.kind = "forget"  -> [disk EXCEPT !.credentials = @ \ {step.part}]
InMemory(step) ==
    CASE step.kind = "write"   -> [memory EXCEPT !.content.registry = step.value]
      [] step.kind = "put"     -> [memory EXCEPT !.content[step.part] = @ \cup {step.value},
                                     !.active = IF step.part = "starts" THEN @ \cup {step.value}
                                                ELSE IF step.part = "outcomes" THEN @ \ {step.value} ELSE @]
      [] step.kind = "setting" -> [memory EXCEPT !.content.settings[step.part] = step.value]
      [] OTHER                 -> memory
\* Mutant: what was applied before the failure stays.
NothingUndone(step) == op.undo
\* A restore that applied a setting can put the one of before in its place.
UndoOf(step) == IF op.name = "restore" THEN <<Keep(step.part, memory.content.settings[step.part])>> \o op.undo ELSE <<>>

StepDone ==
    /\ op.steps # <<>>
    /\ LET step == Head(op.steps) IN
         /\ disk' = OnDisk(step) /\ memory' = InMemory(step)
         /\ op' = [op EXCEPT !.steps = Tail(@), !.undo = UndoOf(step)]
    /\ UNCHANGED <<app, leftovers, pending, panel, ticket, preferences, excused>>
\* A step fails, before or after it replaced the file: a restore undoes what it applied, a rollback goes on with the
\* rest and is incomplete, and any other operation ends.
StepFails(late) ==
    /\ op.steps # <<>>
    /\ disk' = IF late THEN OnDisk(Head(op.steps)) ELSE disk
    /\ op' = CASE op.name = "restore"  -> [name |-> "rollback", steps |-> op.undo, undo |-> <<>>]
               [] op.name = "rollback" -> [op EXCEPT !.steps = Tail(@)]
               [] OTHER                -> [op EXCEPT !.steps = <<>>]
    /\ excused' = (excused \/ op.name = "rollback" \/ (late /\ op.name = "restore"))
    /\ UNCHANGED <<memory, app, leftovers, pending, panel, ticket, preferences>>
\* The operation returns; a restore hands out a token, a failed one an error.
Returns ==
    /\ op # NoOperation /\ op.steps = <<>>
    /\ op' = NoOperation
    /\ IF op.name = "restore"
       THEN /\ panel' = "restored"
            /\ pending' = [t \in DOMAIN pending \cup {ticket.token} |-> IF t = ticket.token
                             THEN [s \in SettingStores |-> op.undo[CHOOSE i \in DOMAIN op.undo : op.undo[i].part = s].value]
                             ELSE pending[t]]
       ELSE /\ panel' = IF panel = "asking" THEN "idle" ELSE panel
            /\ UNCHANGED pending
    /\ UNCHANGED <<disk, memory, app, leftovers, ticket, preferences, excused>>

-----------------------------------------------------------------------------
(* The restore of the settings *)

Restore(t) ==
    /\ panel = "idle" /\ t \notin DOMAIN pending
    /\ Begins("restore", <<Keep("privacy", "file"), Keep("retention", "file"), Keep("agents", "file")>>)
    /\ panel' = "asking" /\ ticket' = [token |-> t, before |-> preferences]
    /\ UNCHANGED <<disk, memory, app, leftovers, pending, preferences, excused>>
RollbackTo(before) == <<Keep("agents", before["agents"]), Keep("retention", before["retention"]), Keep("privacy", before["privacy"])>>
Without(t)         == [u \in DOMAIN pending \ {t} |-> pending[u]]
\* Nobody confirmed the restore in time.
RollbackTimer(t) ==
    /\ t \in DOMAIN pending
    /\ Begins("rollback", RollbackTo(pending[t]))
    /\ pending' = Without(t)
    /\ UNCHANGED <<disk, memory, app, leftovers, panel, ticket, preferences, excused>>

WritePreferences ==
    /\ panel = "restored" /\ app = "up"
    /\ \/ preferences' = "file" /\ panel' = "committing"
       \/ UNCHANGED preferences /\ panel' = "undoing"
    /\ UNCHANGED <<disk, memory, op, app, leftovers, pending, ticket, excused>>
Confirmable == ticket.token \in DOMAIN pending
\* The panel reads the new policies, which may fail, and confirms.
Commit ==
    /\ panel = "committing" /\ app = "up" /\ op = NoOperation
    /\ \/ Confirmable /\ pending' = Without(ticket.token) /\ panel' = "idle"
       \/ UNCHANGED pending /\ panel' = "undoing"
    /\ UNCHANGED <<disk, memory, op, app, leftovers, ticket, preferences, excused>>
Undo ==
    /\ panel = "undoing" /\ app = "up" /\ op = NoOperation
    /\ preferences' = ticket.before /\ panel' = "idle"
    /\ pending' = Without(ticket.token)
    /\ op' = IF Confirmable
             THEN [name |-> "rollback", steps |-> RollbackTo(pending[ticket.token]), undo |-> <<>>] ELSE op
    /\ UNCHANGED <<disk, memory, app, leftovers, ticket, excused>>
CloseWindow ==
    /\ panel # "idle" /\ op = NoOperation /\ app = "up"
    /\ panel' = "idle" /\ excused' = TRUE
    /\ UNCHANGED <<disk, memory, op, app, leftovers, pending, ticket, preferences>>

-----------------------------------------------------------------------------
(* Stop and start *)

\* The application stops, possibly with the temporary file of the current step still there.
SettingsCrash ==
    /\ app = "up"
    /\ leftovers' \in {leftovers, leftovers \/ (op.name = "strict" /\ op.steps # <<>>)}
    /\ app' = "down" /\ op' = NoOperation /\ pending' = <<>> /\ panel' = "idle"
    /\ excused' = (excused \/ panel # "idle" \/ pending # <<>> \/ op.name \in {"restore", "rollback"})
    /\ UNCHANGED <<disk, memory, ticket, preferences>>
\* The start reads every file, and refuses a directory with a file it does not know.
SettingsStart ==
    /\ app = "down"
    /\ IF leftovers THEN app' = "refused" /\ UNCHANGED memory
       ELSE app' = "up" /\ memory' = [content |-> disk.content, active |-> {}]
    /\ UNCHANGED <<disk, op, leftovers, pending, panel, ticket, preferences, excused>>

StepNext == StepDone \/ Returns \/ (\E late \in BOOLEAN : StepFails(late)) \/ SettingsCrash \/ SettingsStart
FilesNext ==
    \/ \E p \in Providers : SelectProvider(p) \/ RemoveProvider(p)
    \/ \E p \in Providers, k \in ProviderKinds, c \in BOOLEAN : SaveProvider(p, k, c)
    \/ \E c \in Connections : SaveConnection(c) \/ RemoveConnection(c)
    \/ \E a \in Audits : OpenAudit(a) \/ CloseAudit(a)
    \/ StepNext
RestoreNext ==
    \/ \E s \in SettingStores : EditSetting(s)
    \/ \E t \in Tokens : Restore(t) \/ RollbackTimer(t)
    \/ WritePreferences \/ Commit \/ Undo \/ CloseWindow
    \/ StepNext
SettingsNext == FilesNext \/ RestoreNext

-----------------------------------------------------------------------------
(* Properties *)

\* What the next start reads fits together wherever this one stops: a provider that needs a credential has its
\* file, the active provider is one of the list, and an outcome on record has its start.
FilesAgree ==
    LET registry == disk.content.registry IN
    /\ \A p \in Providers : registry.kinds[p] = "remote" => p \in disk.credentials
    /\ registry.active # "nobody" => registry.kinds[registry.active] # "none"
    /\ disk.content.outcomes \subseteq disk.content.starts

\* A restore is seen as a whole or not at all: when it is over, however its steps, the confirmation and the
\* rollback of its timer failed or met, no setting of this device stands beside one of the file.
RestoreIsWhole ==
    panel = "idle" /\ op = NoOperation /\ app = "up" /\ ~excused =>
        ~({"own", "file"} \subseteq {memory.content.settings[s] : s \in SettingStores} \cup {preferences})
=============================================================================
