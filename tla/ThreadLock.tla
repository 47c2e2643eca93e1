----------------------------- MODULE ThreadLock -----------------------------
(***************************************************************************)
(* The lock of hosted/thread/lock: one u32 cell that is free, taken, or    *)
(* taken with a thread waiting, over the system's sleep on an address,     *)
(* platform/posix's wait_on and wake_one.                                  *)
(*                                                                         *)
(* One action is one atomic access to the cell or one call to the system,  *)
(* so every interleaving of the threads between two of them is a           *)
(* behaviour.  `seen`, a local of `take`, is folded into pc: a thread that *)
(* saw the cell free has the lock, one that saw it contended goes to       *)
(* sleep, and one that saw it taken swaps first.                           *)
(***************************************************************************)
EXTENDS Naturals

CONSTANT Threads

VARIABLES
  word,     \* the lock's cell
  pc        \* where each thread is in take or give

vars == <<word, pc>>

free      == 0
taken     == 1
contended == 2

(***************************************************************************)
(* out     not holding the lock and in no call on it                       *)
(* swap    in take, about to exchange the cell for contended               *)
(* wait    in take, about to call wait_on(word, contended)                 *)
(* asleep  in wait_on, on the system's queue for the cell                  *)
(* in      holding the lock                                                *)
(* wake    in give, the cell already free, about to call wake_one          *)
(***************************************************************************)
Places  == {"out", "swap", "wait", "asleep", "in", "wake"}
Waiting == {"swap", "wait", "asleep"}

Goes(t, place) == pc' = [pc EXCEPT ![t] = place]

Init ==
  /\ word = free
  /\ pc = [t \in Threads |-> "out"]

(* take's compare_exchange(word, free, taken).                             *)
Take(t) ==
  /\ pc[t] = "out"
  /\ \/ word = free      /\ word' = taken     /\ Goes(t, "in")
     \/ word = taken     /\ UNCHANGED word    /\ Goes(t, "swap")
     \/ word = contended /\ UNCHANGED word    /\ Goes(t, "wait")

(* The same taken without waiting: a held lock is left alone.              *)
TakeIfFree(t) ==
  /\ pc[t] = "out"
  /\ word = free
  /\ word' = taken
  /\ Goes(t, "in")

(* A woken thread that takes the cell as merely taken forgets the others   *)
(* that still sleep.                                                       *)
Bug_SwapTaken(t) ==
  /\ pc[t] = "swap"
  /\ word' = IF word = free THEN taken ELSE contended
  /\ Goes(t, IF word = free THEN "in" ELSE "wait")

(* A thread that trusts its wake-up and does not look at what it swapped.  *)
Bug_SwapUnchecked(t) ==
  /\ pc[t] = "swap"
  /\ word' = contended
  /\ Goes(t, "in")

(* take's exchange(word, contended), before the first sleep and after each *)
(* return from it: the lock is this thread's if the cell was free.         *)
Swap(t) ==
  /\ pc[t] = "swap"
  /\ word' = contended
  /\ Goes(t, IF word = free THEN "in" ELSE "wait")

(* A sleep that does not compare the cell with what the thread saw.        *)
Bug_WaitOn(t) ==
  /\ pc[t] = "wait"
  /\ Goes(t, "asleep")
  /\ UNCHANGED word

(* posix.wait_on(word, contended): the system compares the cell and puts   *)
(* the thread to sleep in one step, or returns at once.                    *)
WaitOn(t) ==
  /\ pc[t] = "wait"
  /\ Goes(t, IF word = contended THEN "asleep" ELSE "swap")
  /\ UNCHANGED word

(* wait_on may return with nobody having woken the thread.                 *)
Return(t) ==
  /\ pc[t] = "asleep"
  /\ Goes(t, "swap")
  /\ UNCHANGED word

(* give's exchange(word, free).                                            *)
Give(t) ==
  /\ pc[t] = "in"
  /\ word' = free
  /\ Goes(t, IF word = contended THEN "wake" ELSE "out")

Sleepers == {t \in Threads : pc[t] = "asleep"}

(* give's wake_one: one of the sleepers, whichever the system picks, goes  *)
(* back to its exchange, and with nobody asleep nothing happens.           *)
WakeOne(t) ==
  /\ pc[t] = "wake"
  /\ \/ \E s \in Sleepers : pc' = [pc EXCEPT ![t] = "out", ![s] = "swap"]
     \/ Sleepers = {} /\ Goes(t, "out")
  /\ UNCHANGED word

Next ==
  \E t \in Threads :
    \/ Take(t)
    \/ TakeIfFree(t)
    \/ Swap(t)
    \/ WaitOn(t)
    \/ Return(t)
    \/ Give(t)
    \/ WakeOne(t)

(***************************************************************************)
(* Each thread the system schedules goes on with the call it is in.  That  *)
(* a holder gives the lock back is its caller's part of the contract.      *)
(* Nothing makes a thread take the lock, and no sleep has to end by itself.*)
(***************************************************************************)
Fairness ==
  \A t \in Threads :
    /\ WF_vars(Swap(t))
    /\ WF_vars(WaitOn(t))
    /\ WF_vars(Give(t))
    /\ WF_vars(WakeOne(t))

Spec     == Init /\ [][Next]_vars
FairSpec == Spec /\ Fairness

-----------------------------------------------------------------------------
(* The cell holds one of the three values of lock.ldn, and every thread is *)
(* at one of the places between two accesses to it.                        *)
TypeOK ==
  /\ word \in {free, taken, contended}
  /\ pc \in [Threads -> Places]

(* Two threads never hold the lock at once: whatever the order in which    *)
(* takers exchange the cell, and whoever returns from wait_on early.       *)
MutualExclusion ==
  \A s, t \in Threads : pc[s] = "in" /\ pc[t] = "in" => s = t

(* The cell is free exactly when nobody holds the lock: take_if_free and   *)
(* take's first exchange decide from the cell alone.                       *)
HeldIsMarked == (word = free) <=> (\A t \in Threads : pc[t] # "in")

(* A lock somebody sleeps on says so in its cell, so that give calls       *)
(* wake_one, or else a thread is on its way to say it or to wake a sleeper.*)
SleepersAwaited ==
  Sleepers # {} =>
    \/ word = contended
    \/ \E t \in Threads : pc[t] \in {"swap", "wake"}

(* No wake-up is lost: a lock with a thread waiting for it does not stay   *)
(* free, however the wait, the give and the wake-up interleave.            *)
NoLostWake ==
  ((word = free) /\ (\E t \in Threads : pc[t] \in Waiting)) ~> (word # free)

Abstract == INSTANCE AbstractLock
              WITH holders <- {t \in Threads : pc[t] = "in"}

(* take and give implement a lock that a single thread holds at a time and *)
(* that only its holder releases.                                          *)
ImplementsLock == Abstract!Spec
=============================================================================
