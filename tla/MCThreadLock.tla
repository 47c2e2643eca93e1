---------------------------- MODULE MCThreadLock ----------------------------
(***************************************************************************)
(* Instances of ThreadLock: four threads are a holder, a waker and two     *)
(* sleepers at once, the least in which one wake-up can leave a second     *)
(* sleeper behind.                                                         *)
(***************************************************************************)
EXTENDS ThreadLock
=============================================================================
