----------------------------- MODULE MCSidecars -----------------------------
(***************************************************************************)
(* The review panels of the window, the transport to the sidecars and the  *)
(* AI runtime behind it, side by side: in every behaviour one part takes   *)
(* steps and the others rest in their initial states, so that what is      *)
(* reachable is the sum of the parts and not their product.  The requests: *)
(* two invocations, under one operation id or two, the second with two     *)
(* requests.  The AI runtime: one session with an MCP server, or two       *)
(* completions under one id.  The panels: each of them, one at a time.     *)
(***************************************************************************)
EXTENDS RpcTransport, AiRuntime, ReviewPanels

CONSTANTS c1, c2, mcp, first, second

\* The parts at the AI runtime are requests of its own.
ASSUME SidecarsAssumption == {mcp, first, second} \subseteq Slots

VARIABLE part   \* the part at work

MCSteps      == [c \in Calls |-> IF c = c2 THEN 2 ELSE 1]
MCMethods    == [s \in Slots |-> IF s = mcp THEN {"inspect", "tool", "prompt", "remoteTool"} ELSE {"generate"}]

SidecarsInit ==
    /\ part \in {"requests", "servers", "models", "panels"}
    /\ RpcInit /\ RuntimeInit /\ ReviewInit
    /\ part # "panels" => opened = "mcp"
    /\ part # "requests" => ~concurrent /\ opOf = [c \in Calls |-> "query"]

SidecarsNext ==
    /\ UNCHANGED part
    /\ \/ part = "requests" /\ RpcNext /\ UNCHANGED <<runtimeVars, reviewVars>>
       \/ part = "servers" /\ RuntimeSteps({mcp}) /\ UNCHANGED <<rpcState, reviewVars>>
       \/ part = "models" /\ RuntimeSteps({first, second}) /\ UNCHANGED <<rpcState, reviewVars>>
       \/ part = "panels" /\ ReviewNext /\ UNCHANGED <<rpcState, runtimeVars>>

\* In the initial state of a part none of its fair actions is enabled: one that rests is treated fairly.
SidecarsSpec ==
    /\ SidecarsInit /\ [][SidecarsNext]_<<part, rpcState, runtimeVars, reviewVars>>
    /\ RpcFairness /\ RuntimeFairness /\ ReviewFairness
=============================================================================
