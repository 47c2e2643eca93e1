---------------------------- MODULE AbstractLock ----------------------------
(***************************************************************************)
(* What hosted/thread/lock promises its callers: a lock is held by one     *)
(* thread at a time, between its `take` and its `give`.  How a thread      *)
(* waits, and who is woken, is no part of it.  ThreadLock implements it.   *)
(***************************************************************************)
CONSTANT Threads

VARIABLE holders        \* the threads between a take and a give

Init == holders = {}

Acquire(t) == holders = {} /\ holders' = {t}

Release(t) == holders = {t} /\ holders' = {}

Next == \E t \in Threads : Acquire(t) \/ Release(t)

Spec == Init /\ [][Next]_holders
=============================================================================
