--------------------------- MODULE MCThreadGroup ---------------------------
(* Three stacks and four tasks: admit finds a stack free, finds one whose  *)
(* task has ended behind one whose task has not, and has to wait for the   *)
(* oldest; and two failures race for the ledger while a third comes late.  *)
EXTENDS ThreadGroup
=============================================================================
