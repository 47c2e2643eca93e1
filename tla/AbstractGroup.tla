--------------------------- MODULE AbstractGroup ---------------------------
(***************************************************************************)
(* What a group of tasks promises, whether its tasks are fibres            *)
(* (core/fibre) or threads (hosted/thread): a task is given a stack no     *)
(* other task is on; a task that fails says so before it ends, and the     *)
(* first failure since the last join is kept; and join returns when no     *)
(* task is left, handing that failure on once.                             *)
(***************************************************************************)
CONSTANTS
  Groups,     \* the groups
  Stacks,     \* Stacks[g]: the stacks of group g
  Problems,   \* the reasons a task may fail for
  NoProblem   \* no failure

VARIABLES
  active,     \* active[g]: the stacks of g a task is on
  doomed,     \* doomed[g]: those of them whose task has failed
  kept,       \* kept[g]: the failure g keeps
  handed      \* handed[g]: what g's last join failed with

gvars == <<active, doomed, kept, handed>>

Init ==
  /\ active = [g \in Groups |-> {}]
  /\ doomed = [g \in Groups |-> {}]
  /\ kept = [g \in Groups |-> NoProblem]
  /\ handed = [g \in Groups |-> NoProblem]

Admit(g, s) ==
  /\ s \notin active[g]
  /\ active' = [active EXCEPT ![g] = @ \cup {s}]
  /\ UNCHANGED <<doomed, kept, handed>>

Fail(g, s, x) ==
  /\ s \in active[g] \ doomed[g]
  /\ doomed' = [doomed EXCEPT ![g] = @ \cup {s}]
  /\ kept' = [kept EXCEPT ![g] = IF @ = NoProblem THEN x ELSE @]
  /\ UNCHANGED <<active, handed>>

End(g, s) ==
  /\ s \in active[g]
  /\ active' = [active EXCEPT ![g] = @ \ {s}]
  /\ doomed' = [doomed EXCEPT ![g] = @ \ {s}]
  /\ UNCHANGED <<kept, handed>>

Join(g) ==
  /\ active[g] = {}
  /\ handed' = [handed EXCEPT ![g] = kept[g]]
  /\ kept' = [kept EXCEPT ![g] = NoProblem]
  /\ UNCHANGED <<active, doomed>>

Next ==
  \E g \in Groups :
    \/ \E s \in Stacks[g] :
         \/ Admit(g, s)
         \/ \E x \in Problems : Fail(g, s, x)
         \/ End(g, s)
    \/ Join(g)

Spec == Init /\ [][Next]_gvars
=============================================================================
