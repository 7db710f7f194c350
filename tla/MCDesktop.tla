----------------------------- MODULE MCDesktop -----------------------------
(***************************************************************************)
(* Parts of the desktop and of the data core that share no state, side by *)
(* side in one instance: in every behaviour one part takes steps and the   *)
(* others rest in their initial states, so that what is reachable is the   *)
(* sum of the parts and not their product.  The approvals come in scenes:  *)
(* one to three proposals and clicks in the guarded disclosures, the       *)
(* aggregate flows, the MCP flows with the tool a model suggests, and the  *)
(* flows that act on the desktop's own data.                               *)
(***************************************************************************)
EXTENDS ApprovedActions, HubSync, ExternalDelivery, Settings, FileArrivals, CatalogView,
        RecomputeQueues, DatabaseRestore, TLC

CONSTANTS p1, p2, p3, a1, a2, a3

VARIABLE part   \* the part at work

Scene(flows, clicks, time, changes) == [flowOf |-> flows, clickOf |-> clicks, time |-> time, changes |-> changes]

MCScenes ==
    {Scene(p1 :> "rows" @@ p2 :> "knowledge", a1 :> "rows" @@ a2 :> "knowledge", 0, 1),
     Scene(p1 :> "promptModel" @@ p2 :> "modelTool" @@ p3 :> "tool",
           a1 :> "modelTool" @@ a2 :> "modelTool" @@ a3 :> "tool", 0, 0),
     Scene(p1 :> "explanation", a1 :> "explanation" @@ a2 :> "explanation", 0, 1),
     Scene(p1 :> "agent", a1 :> "agent" @@ a2 :> "agent", 0, 1),
     Scene(p1 :> "resource" @@ p2 :> "prompt", a1 :> "resource" @@ a2 :> "prompt", 0, 1),
     Scene(p1 :> "remoteTool" @@ p2 :> "remoteInspect", a1 :> "remoteTool" @@ a2 :> "remoteInspect", 0, 1),
     Scene(p1 :> "remoteTool", a1 :> "remoteTool" @@ a2 :> "remoteTool", 0, 1),
     Scene(p1 :> "clean" @@ p2 :> "clean", a1 :> "clean", 2, 1),
     Scene(p1 :> "reconcile" @@ p2 :> "inspect", a1 :> "reconcile" @@ a2 :> "inspect", 2, 0)}
QuietScene == Scene(p1 :> "remoteTool", a1 :> "remoteTool" @@ a2 :> "remoteTool", 0, 1)

MCParentsOf == (2 :> {1}) @@ (3 :> {1, 2})
MCReviews   == {<<1, 2>>}

\* A part that rests starts from one of its initial states.
DesktopInit ==
    /\ part \in {"approvals", "push", "pull", "delivery", "files", "restore", "arrivals", "catalog",
                 "recomputes", "replays", "database"}
    /\ ApprovalInit /\ HubInit /\ DeliveryInit /\ SettingsInit /\ ArrivalInit /\ CatalogInit
    /\ QueueInit /\ DatabaseInit
    /\ part # "approvals" => scene = QuietScene
    /\ part # "catalog" => catalog = shown

\* The variables of a part at work change, those of the others do not.
OnlyDesktop == UNCHANGED <<queueVars, databaseVars>>
OnlyCore    == UNCHANGED <<approvalVars, hubVars, deliveryVars, settingsVars, arrivalVars, catalogVars>>

DesktopNext ==
    /\ UNCHANGED part
    /\ \/ /\ part = "approvals" /\ ApprovalNext /\ OnlyDesktop
          /\ UNCHANGED <<hubVars, deliveryVars, settingsVars, arrivalVars, catalogVars>>
       \/ /\ \/ part = "push" /\ PushNext
             \/ part = "pull" /\ PullNext
          /\ OnlyDesktop /\ UNCHANGED <<approvalVars, deliveryVars, settingsVars, arrivalVars, catalogVars>>
       \/ /\ part = "delivery" /\ DeliveryNext
          /\ OnlyDesktop /\ UNCHANGED <<approvalVars, hubVars, settingsVars, arrivalVars, catalogVars>>
       \/ /\ \/ part = "files" /\ FilesNext
             \/ part = "restore" /\ RestoreNext
          /\ OnlyDesktop /\ UNCHANGED <<approvalVars, hubVars, deliveryVars, arrivalVars, catalogVars>>
       \/ /\ part = "arrivals" /\ ArrivalNext
          /\ OnlyDesktop /\ UNCHANGED <<approvalVars, hubVars, deliveryVars, settingsVars, catalogVars>>
       \/ /\ part = "catalog" /\ CatalogNext
          /\ OnlyDesktop /\ UNCHANGED <<approvalVars, hubVars, deliveryVars, settingsVars, arrivalVars>>
       \/ /\ \/ part = "recomputes" /\ TaskNext
             \/ part = "replays" /\ ReplayNext
          /\ OnlyCore /\ UNCHANGED databaseVars
       \/ /\ part = "database" /\ DatabaseNext
          /\ OnlyCore /\ UNCHANGED queueVars

DesktopSpec ==
    DesktopInit /\ [][DesktopNext]_<<part, approvalVars, hubVars, deliveryVars, settingsVars, arrivalVars, catalogVars,
                                     queueVars, databaseVars>>

\* The part at work keeps to its types and bounds: proposals of a store, turns of an agent, attempts of an item
\* or a job, versions, items of a list.
DesktopTypeOK ==
    CASE part = "approvals" -> ApprovalTypeOK
      [] part \in {"push", "pull"} -> HubTypeOK
      [] part = "delivery" -> DeliveryTypeOK
      [] part \in {"files", "restore"} -> SettingsTypeOK
      [] part = "arrivals" -> ArrivalTypeOK
      [] part = "catalog" -> CatalogTypeOK
      [] part \in {"recomputes", "replays"} -> QueueTypeOK
      [] part = "database" -> DatabaseTypeOK
=============================================================================
