------------------------- MODULE MCTaskConversation -------------------------
(***************************************************************************)
(* An instance of TaskConversation: two datasets, two threads at the start *)
(* and room for a third.                                                   *)
(***************************************************************************)
EXTENDS TaskConversation

CONSTANTS t1, t2, t3, orders, stock

MCHome == [t \in Threads |-> IF t = t1 THEN orders ELSE IF t = t2 THEN stock ELSE None]
=============================================================================
