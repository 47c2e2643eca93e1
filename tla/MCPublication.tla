--------------------------- MODULE MCPublication ---------------------------
(***************************************************************************)
(* Two scenes for Publication.  Rivals: two invocations prepare the same   *)
(* name, one of them in a group that also deletes a stale output.          *)
(* Siblings: two transactions of one invocation share its arena; one       *)
(* stages a tree and a file that may turn out to be a protected input, the *)
(* other reserves the tree's name as absent.                               *)
(***************************************************************************)
EXTENDS Publication, FileIdentity, TLC

CONSTANTS n1, n2, p1, p2, t1, t2

Rivals ==
    [owner |-> (t1 :> p1) @@ (t2 :> p2),
     outputs |-> (t1 :> <<n1, n2>>) @@ (t2 :> <<n1>>),
     deletes |-> (t1 :> {n2}) @@ (t2 :> {}),
     absent |-> (t1 :> {}) @@ (t2 :> {}),
     trees |-> {}, inputs |-> {}, first |-> {"file"}]

Siblings ==
    [owner |-> (t1 :> p1) @@ (t2 :> p1),
     outputs |-> (t1 :> <<n1, n2>>) @@ (t2 :> <<n1>>),
     deletes |-> (t1 :> {}) @@ (t2 :> {}),
     absent |-> (t1 :> {}) @@ (t2 :> {n1}),
     trees |-> {n1}, inputs |-> {n2}, first |-> Kinds]

MCScenes == {Rivals, Siblings}
Swap == Permutations(Bytes)

(* The outputs a transaction takes for separate names are separate files: no *)
(* two names landin_names_alias and landin_same_file answer separate are one *)
(* entry on any volume, through dangling links too. The preflight is over    *)
(* before anything is opened, so only the states of that time are looked at. *)
PreflightSeparates ==
  (\A t \in Trans : pc[t] = "open") /\ saves = 0 /\ troubles = 0 /\ dropped = {}
    => AliasSound /\ OutputsSeparate
=============================================================================
