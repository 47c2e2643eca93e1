------------------------- MODULE ThreadLock_proofs --------------------------
(***************************************************************************)
(* Proofs about ThreadLock, for any set of threads.  No part of the        *)
(* invariant is inductive alone: that a taker which finds the cell free    *)
(* is alone needs HeldIsMarked, and that giving leaves nobody inside needs *)
(* MutualExclusion.                                                        *)
(***************************************************************************)
EXTENDS ThreadLock, TLAPS

IInv == TypeOK /\ MutualExclusion /\ HeldIsMarked

(* Every thread's place and the cell keep their types.                     *)
LEMMA TypeStep == TypeOK /\ [Next]_vars => TypeOK'
<1> USE DEF TypeOK, Places, Goes, free, taken, contended, Sleepers
<1> SUFFICES ASSUME TypeOK, [Next]_vars PROVE TypeOK'
  OBVIOUS
<1>1. ASSUME NEW t \in Threads, Take(t) \/ TakeIfFree(t)  PROVE TypeOK'
  BY <1>1 DEF Take, TakeIfFree
<1>2. ASSUME NEW t \in Threads, Swap(t)  PROVE TypeOK'
  BY <1>2 DEF Swap
<1>3. ASSUME NEW t \in Threads, WaitOn(t) \/ Return(t)  PROVE TypeOK'
  BY <1>3 DEF WaitOn, Return
<1>4. ASSUME NEW t \in Threads, Give(t)  PROVE TypeOK'
  BY <1>4 DEF Give
<1>5. ASSUME NEW t \in Threads, WakeOne(t)  PROVE TypeOK'
  BY <1>5 DEF WakeOne
<1>6. CASE UNCHANGED vars
  BY <1>6 DEF vars
<1> QED
  BY <1>1, <1>2, <1>3, <1>4, <1>5, <1>6 DEF Next

(* One step keeps the lock single-holder and its cell truthful.            *)
LEMMA InvStep == IInv /\ [Next]_vars => IInv'
<1> USE DEF Places, Goes, free, taken, contended, Sleepers
<1> SUFFICES ASSUME IInv, [Next]_vars PROVE MutualExclusion' /\ HeldIsMarked'
  BY TypeStep DEF IInv
<1> USE DEF IInv, TypeOK, MutualExclusion, HeldIsMarked
<1>1. ASSUME NEW t \in Threads, Take(t) \/ TakeIfFree(t)
      PROVE  MutualExclusion' /\ HeldIsMarked'
  BY <1>1 DEF Take, TakeIfFree
<1>2. ASSUME NEW t \in Threads, Swap(t)
      PROVE  MutualExclusion' /\ HeldIsMarked'
  BY <1>2 DEF Swap
<1>3. ASSUME NEW t \in Threads, WaitOn(t) \/ Return(t)
      PROVE  MutualExclusion' /\ HeldIsMarked'
  BY <1>3 DEF WaitOn, Return
<1>4. ASSUME NEW t \in Threads, Give(t)
      PROVE  MutualExclusion' /\ HeldIsMarked'
  BY <1>4 DEF Give
<1>5. ASSUME NEW t \in Threads, WakeOne(t)
      PROVE  MutualExclusion' /\ HeldIsMarked'
  BY <1>5 DEF WakeOne
<1>6. CASE UNCHANGED vars
  BY <1>6 DEF vars
<1> QED
  BY <1>1, <1>2, <1>3, <1>4, <1>5, <1>6 DEF Next

(* The cell and every thread's place have their types in every state.      *)
THEOREM TypeCorrect == Spec => []TypeOK
<1>1. Init => TypeOK
  BY DEF Init, TypeOK, Places, free
<1> QED
  BY <1>1, TypeStep, PTL DEF Spec

LEMMA Invariance == Spec => []IInv
<1>1. Init => IInv
  BY DEF Init, IInv, TypeOK, MutualExclusion, HeldIsMarked, Places, free
<1> QED
  BY <1>1, InvStep, PTL DEF Spec

(* One thread at a time holds the lock, whoever else is in take or give.   *)
THEOREM LockExcludes == Spec => [](MutualExclusion /\ HeldIsMarked)
<1>1. IInv => MutualExclusion /\ HeldIsMarked
  BY DEF IInv
<1> QED
  BY <1>1, Invariance, PTL

(* Whenever a thread sleeps, the cell says so or another thread is on its  *)
(* way to say so or to wake one: the safety half of "no wake-up is lost".  *)
THEOREM NobodySleepsUnseen == Spec => []SleepersAwaited
<1>1. Init => SleepersAwaited
  BY DEF Init, SleepersAwaited, Sleepers
<1>2. ASSUME TypeOK, SleepersAwaited, [Next]_vars  PROVE SleepersAwaited'
  <2> USE <1>2 DEF TypeOK, SleepersAwaited, Sleepers, Goes, Places,
                   free, taken, contended
  <2>1. ASSUME NEW t \in Threads, Take(t) \/ TakeIfFree(t)
        PROVE  SleepersAwaited'
    BY <2>1 DEF Take, TakeIfFree
  <2>2. ASSUME NEW t \in Threads, Swap(t)  PROVE SleepersAwaited'
    BY <2>2 DEF Swap
  <2>3. ASSUME NEW t \in Threads, WaitOn(t) \/ Return(t)
        PROVE  SleepersAwaited'
    BY <2>3 DEF WaitOn, Return
  <2>4. ASSUME NEW t \in Threads, Give(t)  PROVE SleepersAwaited'
    BY <2>4 DEF Give
  <2>5. ASSUME NEW t \in Threads, WakeOne(t)  PROVE SleepersAwaited'
    BY <2>5 DEF WakeOne
  <2>6. CASE UNCHANGED vars
    BY <2>6 DEF vars
  <2> QED
    BY <2>1, <2>2, <2>3, <2>4, <2>5, <2>6 DEF Next
<1> QED
  BY <1>1, <1>2, TypeCorrect, PTL DEF Spec

(* The three-state lock implements the abstract one: finding the cell free *)
(* is the acquisition, give's exchange the release, all else a stutter.    *)
THEOREM Refinement == Spec => ImplementsLock
<1> DEFINE holders == {t \in Threads : pc[t] = "in"}
<1>1. Init => Abstract!Init
  BY DEF Init, Abstract!Init
<1>2. ASSUME IInv, [Next]_vars  PROVE [Abstract!Next]_holders
  <2> USE <1>2 DEF IInv, TypeOK, MutualExclusion, HeldIsMarked, Goes, Places,
                   free, taken, contended,
                   Abstract!Next, Abstract!Acquire, Abstract!Release
  <2>1. ASSUME NEW t \in Threads, Take(t) \/ TakeIfFree(t)
        PROVE  [Abstract!Next]_holders
    BY <2>1 DEF Take, TakeIfFree
  <2>2. ASSUME NEW t \in Threads, Swap(t)  PROVE [Abstract!Next]_holders
    BY <2>2 DEF Swap
  <2>3. ASSUME NEW t \in Threads, WaitOn(t) \/ Return(t)
        PROVE  UNCHANGED holders
    BY <2>3 DEF WaitOn, Return
  <2>4. ASSUME NEW t \in Threads, Give(t)  PROVE [Abstract!Next]_holders
    <3>1. Abstract!Release(t)
      BY <2>4 DEF Give
    <3> QED
      BY <3>1
  <2>5. ASSUME NEW t \in Threads, WakeOne(t)  PROVE UNCHANGED holders
    BY <2>5 DEF WakeOne, Sleepers
  <2>6. CASE UNCHANGED vars
    BY <2>6 DEF vars
  <2> QED
    BY <2>1, <2>2, <2>3, <2>4, <2>5, <2>6 DEF Next
<1> QED
  BY <1>1, <1>2, Invariance, PTL DEF Spec, ImplementsLock, Abstract!Spec
=============================================================================
