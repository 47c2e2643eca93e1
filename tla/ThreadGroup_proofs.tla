------------------------- MODULE ThreadGroup_proofs -------------------------
(***************************************************************************)
(* Proofs about ThreadGroup, for any number of stacks.  StackFree alone is *)
(* not inductive: that Finish leaves no thread on the stack needs the word *)
(* to say whether the thread is there, and that join reads the ledger      *)
(* alone needs the stacks it has passed to be free.                        *)
(***************************************************************************)
EXTENDS ThreadGroup, TLAPS

USE ThreadGroupAssumption DEF ThreadGroupAssumption

(* A thread on a stack is one its owner remembers and the system's word    *)
(* shows; the owner starts only on a stack it does not remember one on;    *)
(* and join has left no thread behind it.                                  *)
ThreadsKnown ==
  /\ \A s \in Stacks : thread[s] # "none" => running[s] = 1 /\ word[s] = 1
  /\ owner \in {"start", "create"} => running[at] = 0
  /\ owner = "join" \/ (owner = "finish" /\ joining)
       => \A s \in Stacks : s < at => running[s] = 0
  /\ owner = "join" => joining
  /\ owner = "scan" => ~joining

(* Whoever writes the ledger has the claim, alone, and a written failure   *)
(* keeps it.                                                               *)
ClaimHeld ==
  /\ \A s \in Stacks : thread[s] \in {"write", "mark"}
                         => claimed = 1 /\ failed = FALSE
  /\ failed => claimed = 1
  /\ \A s, t \in Stacks : thread[s] \in {"write", "mark"}
                            /\ thread[t] \in {"write", "mark"} => s = t

(* Between the note and the system's answer the note is made; a note made  *)
(* only afterwards would leave the new thread beside an unnoted start.     *)
NotedFirst == owner = "create" => started = 1

IInv == TypeOK /\ ThreadsKnown /\ ClaimHeld /\ StartNoted /\ NotedFirst

(* When join finds no more stack to look at, no thread is left.            *)
LEMMA AllJoined ==
  IInv /\ owner = "join" /\ Remaining = {}
    => \A s \in Stacks : thread[s] = "none"
<1> SUFFICES ASSUME IInv, owner = "join", Remaining = {}, NEW s \in Stacks
             PROVE  thread[s] = "none"
  OBVIOUS
<1>1. s < at \/ s >= at
  BY DEF IInv, TypeOK, Stacks
<1>2. running[s] = 0
  BY <1>1 DEF IInv, TypeOK, ThreadsKnown, Remaining
<1> QED
  BY <1>2 DEF IInv, TypeOK, ThreadsKnown

(* The cells and the locals keep their types.                              *)
LEMMA TypeStep == TypeOK /\ [Next]_vars => TypeOK'
<1> SUFFICES ASSUME TypeOK, [Next]_vars PROVE TypeOK'
  OBVIOUS
<1> USE DEF TypeOK, Stacks, OwnerPlaces, ThreadPlaces, ownerVars, threadVars,
            ledgerVars
<1>1. CASE Admit
  <2>1. at' \in Stacks
    <3>1. at' = 1 \/ at' \in Free
      BY <1>1 DEF Admit
    <3>2. Free \subseteq Stacks /\ 1 \in Stacks
      BY DEF Free
    <3> QED BY <3>1, <3>2
  <2>4. oldest' \in Stacks
    BY <1>1 DEF Admit
  <2>2. owner' \in OwnerPlaces /\ joining' \in BOOLEAN
    BY <1>1 DEF Admit
  <2>3. UNCHANGED <<running, order, admitted, ended, claimed, failed, problem,
                    started, thread, why, word, handed>>
    BY <1>1 DEF Admit
  <2> QED BY <2>1, <2>2, <2>3, <2>4
<1>2. CASE ScanEnded
  BY <1>2 DEF ScanEnded
<1>3. CASE ScanNext
  BY <1>3 DEF ScanNext, Older
<1>4. CASE Finish
  BY <1>4 DEF Finish
<1>5. CASE AdmitTooLarge
  BY <1>5 DEF AdmitTooLarge
<1>6. CASE Start
  BY <1>6 DEF Start
<1>7. CASE LayOut \/ StartRefused
  BY <1>7 DEF LayOut, StartRefused, NoteStart
<1>8. CASE CallJoin
  BY <1>8 DEF CallJoin
<1>9. CASE JoinNext
  BY <1>9 DEF JoinNext, Remaining
<1>10. CASE JoinReturns
  BY <1>10 DEF JoinReturns, Reclaimed
<1>11. ASSUME NEW s \in Stacks, ThreadStep(s) PROVE TypeOK'
  <2>1. CASE TaskSucceeds(s)
    BY <2>1 DEF Goes, TaskSucceeds
  <2>2. ASSUME NEW x \in Problems, TaskFails(s, x) PROVE TypeOK'
    BY <2>2 DEF Goes, TaskFails
  <2>3. CASE Claim(s)
    BY <2>3 DEF Goes, Claim
  <2>4. CASE WriteProblem(s)
    BY <2>4 DEF Goes, WriteProblem
  <2>5. CASE MarkFailed(s)
    BY <2>5 DEF Goes, MarkFailed
  <2>6. CASE StoreEnded(s)
    BY <2>6 DEF Goes, StoreEnded
  <2>7. CASE Exit(s)
    BY <2>7 DEF Goes, Exit
  <2> QED
    BY <1>11, <2>1, <2>2, <2>3, <2>4, <2>5, <2>6, <2>7 DEF ThreadStep
<1>12. CASE UNCHANGED vars
  BY <1>12 DEF vars
<1> QED
  BY <1>1, <1>2, <1>3, <1>4, <1>5, <1>6, <1>7, <1>8, <1>9, <1>10, <1>11,
     <1>12 DEF Next, OwnerStep

(* One step keeps every thread known to its owner.                         *)
LEMMA KnownStep == IInv /\ [Next]_vars => ThreadsKnown'
<1> SUFFICES ASSUME IInv, [Next]_vars PROVE ThreadsKnown'
  OBVIOUS
<1> USE DEF IInv, TypeOK, ThreadsKnown, Stacks, OwnerPlaces, ThreadPlaces,
            ownerVars, threadVars, ledgerVars
<1>1. CASE Admit
  BY <1>1 DEF Admit, Free
<1>2. CASE ScanEnded
  BY <1>2 DEF ScanEnded
<1>3. CASE ScanNext
  BY <1>3 DEF ScanNext, Older
<1>4. CASE Finish
  BY <1>4 DEF Finish, Joined
<1>5. CASE AdmitTooLarge
  BY <1>5 DEF AdmitTooLarge
<1>6. CASE Start
  BY <1>6 DEF Start
<1>7. CASE LayOut \/ StartRefused
  BY <1>7 DEF LayOut, StartRefused, NoteStart
<1>8. CASE CallJoin
  BY <1>8 DEF CallJoin
<1>9. CASE JoinNext
  BY <1>9 DEF JoinNext, Remaining, IsFirst
<1>10. CASE JoinReturns
  BY <1>10 DEF JoinReturns, Reclaimed
<1>11. ASSUME NEW s \in Stacks, ThreadStep(s) PROVE ThreadsKnown'
  <2>1. UNCHANGED ownerVars
    BY <1>11 DEF ThreadStep, TaskSucceeds, TaskFails, Claim, WriteProblem,
                 MarkFailed, StoreEnded, Exit
  <2>2. thread[s] # "none" /\ \A t \in Stacks \ {s} : thread'[t] = thread[t]
    BY <1>11 DEF ThreadStep, Goes, TaskSucceeds, TaskFails, Claim,
                 WriteProblem, MarkFailed, StoreEnded, Exit
  <2>3. CASE Exit(s)
    BY <2>1, <2>2, <2>3 DEF Exit, Goes
  <2>4. CASE ~Exit(s)
    <3>1. UNCHANGED word
      BY <1>11, <2>4 DEF ThreadStep, TaskSucceeds, TaskFails, Claim,
                         WriteProblem, MarkFailed, StoreEnded
    <3> QED BY <2>1, <2>2, <3>1
  <2> QED BY <2>3, <2>4
<1>12. CASE UNCHANGED vars
  BY <1>12 DEF vars
<1> QED
  BY <1>1, <1>2, <1>3, <1>4, <1>5, <1>6, <1>7, <1>8, <1>9, <1>10, <1>11,
     <1>12 DEF Next, OwnerStep

(* One step keeps the ledger one thread's to write.                        *)
LEMMA ClaimStep == IInv /\ [Next]_vars => ClaimHeld'
<1> SUFFICES ASSUME IInv, [Next]_vars PROVE ClaimHeld'
  OBVIOUS
<1> USE DEF IInv, TypeOK, ThreadsKnown, ClaimHeld, Stacks, OwnerPlaces,
            ThreadPlaces, ownerVars, threadVars, ledgerVars
<1>1. CASE Admit \/ ScanEnded \/ ScanNext \/ Finish \/ AdmitTooLarge
             \/ LayOut \/ StartRefused \/ CallJoin \/ JoinNext
  BY <1>1 DEF Admit, ScanEnded, ScanNext, Finish, AdmitTooLarge, LayOut,
              StartRefused, CallJoin, JoinNext
<1>2. CASE Start
  BY <1>2 DEF Start
<1>3. CASE JoinReturns
  <2>1. \A s \in Stacks : thread[s] = "none"
    BY <1>3, AllJoined DEF JoinReturns, Reclaimed
  <2> QED BY <1>3, <2>1 DEF JoinReturns, Reclaimed
<1>4. ASSUME NEW s \in Stacks, Claim(s) PROVE ClaimHeld'
  BY <1>4 DEF Goes, Claim
<1>5. ASSUME NEW s \in Stacks,
             TaskSucceeds(s) \/ (\E x \in Problems : TaskFails(s, x))
               \/ WriteProblem(s) \/ StoreEnded(s) \/ Exit(s)
      PROVE  ClaimHeld'
  <2>1. PICK place \in {"none", "claim", "mark", "return", "exit"} :
          /\ thread' = [thread EXCEPT ![s] = place]
          /\ place = "mark" => thread[s] = "write"
    BY <1>5 DEF Goes, TaskSucceeds, TaskFails, WriteProblem, StoreEnded, Exit
  <2>2. UNCHANGED <<claimed, failed>>
    BY <1>5 DEF TaskSucceeds, TaskFails, WriteProblem, StoreEnded, Exit
  <2> QED BY <2>1, <2>2
<1>6. ASSUME NEW s \in Stacks, MarkFailed(s) PROVE ClaimHeld'
  BY <1>6 DEF Goes, MarkFailed
<1>7. CASE UNCHANGED vars
  BY <1>7 DEF vars
<1> QED
  BY <1>1, <1>2, <1>3, <1>4, <1>5, <1>6, <1>7 DEF Next, OwnerStep, ThreadStep

(* One step keeps a thread beside a noted start: the owner notes it before *)
(* it asks for the thread, and nobody takes the note back.                 *)
LEMMA NotedStep == IInv /\ [Next]_vars => StartNoted' /\ NotedFirst'
<1> SUFFICES ASSUME IInv, [Next]_vars PROVE StartNoted' /\ NotedFirst'
  OBVIOUS
<1> USE DEF IInv, TypeOK, StartNoted, NotedFirst, Stacks, OwnerPlaces,
            ThreadPlaces, ownerVars, threadVars, ledgerVars
<1>1. CASE LayOut
  BY <1>1 DEF LayOut, NoteStart
<1>2. CASE Start
  BY <1>2 DEF Start
<1>3. CASE Admit \/ ScanEnded \/ ScanNext \/ Finish \/ AdmitTooLarge
             \/ StartRefused \/ CallJoin \/ JoinNext \/ JoinReturns
  BY <1>3 DEF Admit, ScanEnded, ScanNext, Finish, AdmitTooLarge,
              StartRefused, CallJoin, JoinNext, JoinReturns
<1>4. ASSUME NEW s \in Stacks, ThreadStep(s)
      PROVE  StartNoted' /\ NotedFirst'
  BY <1>4 DEF ThreadStep, Goes, TaskSucceeds, TaskFails, Claim, WriteProblem,
              MarkFailed, StoreEnded, Exit
<1>5. CASE UNCHANGED vars
  BY <1>5 DEF vars
<1> QED
  BY <1>1, <1>2, <1>3, <1>4, <1>5 DEF Next, OwnerStep

(* The whole invariant holds in every state.                               *)
LEMMA Invariance == Spec => []IInv
<1>1. Init => IInv
  <2> SUFFICES ASSUME Init PROVE IInv
    OBVIOUS
  <2>1. TypeOK
    <3>1. at \in Stacks /\ oldest \in Stacks
      BY DEF Init, Stacks
    <3>2. joining \in BOOLEAN /\ failed \in BOOLEAN
      BY DEF Init
    <3> QED BY <3>1, <3>2 DEF Init, TypeOK, OwnerPlaces, ThreadPlaces
  <2>2. ThreadsKnown /\ StartNoted /\ NotedFirst
    BY DEF Init, ThreadsKnown, StartNoted, NotedFirst
  <2>3. ClaimHeld
    BY DEF Init, ClaimHeld
  <2> QED BY <2>1, <2>2, <2>3 DEF IInv
<1>2. IInv /\ [Next]_vars => IInv'
  BY TypeStep, KnownStep, ClaimStep, NotedStep DEF IInv
<1> QED
  BY <1>1, <1>2, PTL DEF Spec

(* For any number of stacks, admit lays a task out only where no thread    *)
(* runs.                                                                   *)
THEOREM StacksAreFree == Spec => []StackFree
<1>1. IInv => StackFree
  BY DEF IInv, TypeOK, ThreadsKnown, StackFree, Stacks
<1> QED
  BY <1>1, Invariance, PTL

(* For any number of stacks, one thread at a time writes the ledger, and   *)
(* join reads it when none is left.                                        *)
THEOREM LedgerIsUnraced == Spec => []LedgerUnraced
<1>1. IInv => LedgerUnraced
  BY AllJoined DEF IInv, ClaimHeld, LedgerUnraced
<1> QED
  BY <1>1, Invariance, PTL

(* No thread runs whose start was not noted first: the note is a step of   *)
(* its own, and the thread is the system's next.                           *)
THEOREM StartsAreNoted == Spec => []StartNoted
<1> QED
  BY Invariance, PTL DEF IInv

-----------------------------------------------------------------------------
(***************************************************************************)
(* The refinement.  That a claim fails exactly when a failure is kept      *)
(* needs the ledger's three cells and the threads' places to agree:        *)
(* someone who has the claim is still writing, or the failure is there.    *)
(***************************************************************************)

IsWriter(s) == thread[s] \in {"write", "mark"}

(* A task that has failed carries its reason from its claim on; the one    *)
(* the ledger has is the writer's once it is written; and a claim taken is *)
(* a failure on its way to the ledger, or there.                           *)
Failing ==
  /\ \A s \in Stacks : thread[s] \in {"none", "task"} => why[s] = NoProblem
  /\ \A s \in Stacks : thread[s] \in {"claim", "write", "mark"}
                         => why[s] \in Problems
  /\ \A s \in Stacks : thread[s] = "mark" => problem = why[s]
  /\ failed => problem \in Problems
  /\ claimed = 1 => failed \/ \E s \in Stacks : IsWriter(s)

(* One step keeps the ledger and the failures in step.                     *)
LEMMA FailingStep == IInv /\ Failing /\ [Next]_vars => Failing'
<1> SUFFICES ASSUME IInv, Failing, [Next]_vars PROVE Failing'
  OBVIOUS
<1> USE DEF IInv, TypeOK, ThreadsKnown, ClaimHeld, Failing, IsWriter, Stacks,
            OwnerPlaces, ThreadPlaces, ownerVars, threadVars, ledgerVars
<1>1. CASE Admit \/ ScanEnded \/ ScanNext \/ Finish \/ AdmitTooLarge
             \/ LayOut \/ StartRefused \/ CallJoin \/ JoinNext
  <2>1. UNCHANGED <<thread, why, claimed, failed, problem>>
    BY <1>1 DEF Admit, ScanEnded, ScanNext, Finish, AdmitTooLarge, LayOut,
                StartRefused, CallJoin, JoinNext
  <2> QED BY <2>1
<1>2. CASE Start
  <2>1. thread[at] = "none"
    BY <1>2 DEF Start
  <2>2. thread' = [thread EXCEPT ![at] = "task"]
    BY <1>2 DEF Start
  <2>3. UNCHANGED <<why, claimed, failed, problem>>
    BY <1>2 DEF Start
  <2> QED BY <2>1, <2>2, <2>3
<1>3. CASE JoinReturns
  <2>1. \A s \in Stacks : thread[s] = "none"
    BY <1>3, AllJoined DEF JoinReturns
  <2>2. UNCHANGED <<thread, why, problem>>
    BY <1>3 DEF JoinReturns
  <2>3. failed' = FALSE /\ claimed' = 0
    BY <1>3, <2>1 DEF JoinReturns, Reclaimed
  <2> QED BY <2>1, <2>2, <2>3
<1>4. ASSUME NEW s \in Stacks, TaskSucceeds(s) PROVE Failing'
  BY <1>4 DEF Goes, TaskSucceeds
<1>5. ASSUME NEW s \in Stacks, NEW x \in Problems, TaskFails(s, x)
      PROVE  Failing'
  BY <1>5 DEF Goes, TaskFails
<1>6. ASSUME NEW s \in Stacks, Claim(s) PROVE Failing'
  BY <1>6 DEF Goes, Claim
<1>7. ASSUME NEW s \in Stacks, WriteProblem(s) PROVE Failing'
  BY <1>7 DEF Goes, WriteProblem
<1>8. ASSUME NEW s \in Stacks, MarkFailed(s) PROVE Failing'
  BY <1>8 DEF Goes, MarkFailed
<1>9. ASSUME NEW s \in Stacks, StoreEnded(s) PROVE Failing'
  BY <1>9 DEF Goes, StoreEnded
<1>10. ASSUME NEW s \in Stacks, Exit(s) PROVE Failing'
  BY <1>10 DEF Goes, Exit
<1>11. CASE UNCHANGED vars
  BY <1>11 DEF vars
<1> QED
  BY <1>1, <1>2, <1>3, <1>4, <1>5, <1>6, <1>7, <1>8, <1>9, <1>10, <1>11
  DEF Next, OwnerStep, ThreadStep

(* What Kept is: the one writer's reason, or what the ledger holds.        *)
LEMMA KeptIs ==
  IInv => /\ \A s \in Stacks : IsWriter(s) => Kept = why[s]
          /\ (\A s \in Stacks : ~IsWriter(s))
               => Kept = IF failed THEN problem ELSE NoProblem
<1> SUFFICES ASSUME IInv
             PROVE  /\ \A s \in Stacks : IsWriter(s) => Kept = why[s]
                    /\ (\A s \in Stacks : ~IsWriter(s))
                         => Kept = IF failed THEN problem ELSE NoProblem
  OBVIOUS
<1>1. ASSUME NEW s \in Stacks, IsWriter(s) PROVE Kept = why[s]
  <2>1. Writers = {s}
    BY <1>1 DEF IInv, ClaimHeld, Writers, IsWriter
  <2>2. (CHOOSE w \in Writers : TRUE) = s
    BY <2>1
  <2> QED BY <2>1, <2>2 DEF Kept
<1>2. ASSUME \A s \in Stacks : ~IsWriter(s)
      PROVE  Kept = IF failed THEN problem ELSE NoProblem
  <2>1. Writers = {}
    BY <1>2 DEF Writers, IsWriter
  <2> QED BY <2>1 DEF Kept
<1> QED BY <1>1, <1>2

(* The claim is taken exactly while a failure is kept.                     *)
LEMMA ClaimIsKept ==
  IInv /\ Failing => /\ claimed = 0 => Kept = NoProblem
                     /\ claimed = 1 => Kept \in Problems
                     /\ claimed = 0 => \A s \in Stacks : ~IsWriter(s)
<1> SUFFICES ASSUME IInv, Failing
             PROVE  /\ claimed = 0 => Kept = NoProblem
                    /\ claimed = 1 => Kept \in Problems
                    /\ claimed = 0 => \A s \in Stacks : ~IsWriter(s)
  OBVIOUS
<1>1. claimed = 0 => ~failed /\ \A s \in Stacks : ~IsWriter(s)
  BY DEF IInv, ClaimHeld, IsWriter
<1>2. claimed = 0 => Kept = NoProblem
  BY <1>1, KeptIs
<1>3. ASSUME NEW s \in Stacks, IsWriter(s) PROVE Kept \in Problems
  BY <1>3, KeptIs DEF Failing, IsWriter
<1>4. ASSUME \A s \in Stacks : ~IsWriter(s), claimed = 1
      PROVE  Kept \in Problems
  <2>1. failed
    BY <1>4 DEF Failing
  <2> QED BY <1>4, <2>1, KeptIs DEF Failing
<1> QED BY <1>1, <1>2, <1>3, <1>4

Active == {s \in Stacks : thread[s] # "none"}

(* A step that leaves the threads, their reasons and the ledger alone      *)
(* stutters.                                                               *)
LEMMA Idle ==
  ASSUME UNCHANGED <<thread, why, failed, problem>>
  PROVE  UNCHANGED <<Active, Doomed, Kept>>
<1>1. Active' = Active
  BY DEF Active
<1>2. Doomed' = Doomed
  BY DEF Doomed
<1>3. Writers' = Writers
  BY DEF Writers
<1>4. Kept' = Kept
  BY <1>3 DEF Kept
<1> QED BY <1>1, <1>2, <1>4

(* What each step does to what the abstract group sees: nothing, or one    *)
(* task admitted, failed or ended, or the join.                            *)
GroupSees ==
  \/ UNCHANGED <<Active, Doomed, Kept, handed>>
  \/ \E s \in Stacks :
       /\ s \notin Active
       /\ Active' = Active \cup {s}
       /\ UNCHANGED <<Doomed, Kept, handed>>
  \/ \E s \in Stacks, x \in Problems :
       /\ s \in Active \ Doomed
       /\ Doomed' = Doomed \cup {s}
       /\ Kept' = IF Kept = NoProblem THEN x ELSE Kept
       /\ UNCHANGED <<Active, handed>>
  \/ \E s \in Stacks :
       /\ s \in Active
       /\ Active' = Active \ {s}
       /\ Doomed' = Doomed \ {s}
       /\ UNCHANGED <<Kept, handed>>
  \/ /\ Active = {}
     /\ handed' = Kept
     /\ Kept' = NoProblem
     /\ UNCHANGED <<Active, Doomed>>

(* The same of the next state.                                             *)
LEMMA KeptNext ==
  IInv' => /\ \A s \in Stacks : IsWriter(s)' => Kept' = why'[s]
           /\ (\A s \in Stacks : ~IsWriter(s)')
                => Kept' = IF failed' THEN problem' ELSE NoProblem
<1> DEFINE Is == /\ \A s \in Stacks : IsWriter(s) => Kept = why[s]
                 /\ (\A s \in Stacks : ~IsWriter(s))
                      => Kept = IF failed THEN problem ELSE NoProblem
<1>1. IInv => Is
  BY KeptIs
<1>2. IInv' => Is'
  BY <1>1, PTL
<1> QED BY <1>2

(* A thread's step that is not the claim leaves the kept failure as it is. *)
LEMMA KeptStays ==
  ASSUME IInv, Failing, IInv', NEW s \in Stacks,
         \/ TaskSucceeds(s)
         \/ \E x \in Problems : TaskFails(s, x)
         \/ WriteProblem(s)
         \/ MarkFailed(s)
         \/ StoreEnded(s)
         \/ Exit(s)
  PROVE  Kept' = Kept
<1> USE DEF IsWriter
<1>1. /\ thread \in [Stacks -> ThreadPlaces]
      /\ why \in [Stacks -> Problems \cup {NoProblem}]
  BY DEF IInv, TypeOK
<1>2. CASE TaskSucceeds(s) \/ (\E x \in Problems : TaskFails(s, x))
             \/ StoreEnded(s) \/ Exit(s)
  <2>1. PICK place \in {"none", "claim", "return", "exit"} :
          thread' = [thread EXCEPT ![s] = place]
    BY <1>2 DEF Goes, TaskSucceeds, TaskFails, StoreEnded, Exit
  <2>2. UNCHANGED <<failed, problem>>
    BY <1>2 DEF TaskSucceeds, TaskFails, StoreEnded, Exit, ledgerVars
  <2>3. \A t \in Stacks : IsWriter(t)' <=> IsWriter(t)
    BY <1>1, <1>2, <2>1 DEF Goes, TaskSucceeds, TaskFails, StoreEnded, Exit
  <2>4. \A t \in Stacks : t # s => why'[t] = why[t]
    BY <1>1, <1>2 DEF Goes, TaskSucceeds, TaskFails, StoreEnded, Exit
  <2>5. ~IsWriter(s)
    BY <1>2 DEF TaskSucceeds, TaskFails, StoreEnded, Exit
  <2>6. CASE \E t \in Stacks : IsWriter(t)
    <3>1. PICK t \in Stacks : IsWriter(t)
      BY <2>6
    <3>2. Kept = why[t] /\ Kept' = why'[t] /\ t # s
      BY <3>1, <2>3, <2>5, KeptIs, KeptNext
    <3> QED BY <3>2, <2>4
  <2>7. CASE \A t \in Stacks : ~IsWriter(t)
    <3>1. Kept = IF failed THEN problem ELSE NoProblem
      BY <2>7, KeptIs
    <3>2. Kept' = IF failed' THEN problem' ELSE NoProblem
      BY <2>7, <2>3, KeptNext
    <3> QED BY <3>1, <3>2, <2>2
  <2> QED BY <2>6, <2>7
<1>3. CASE WriteProblem(s)
  <2>1. IsWriter(s) /\ IsWriter(s)' /\ why' = why
    BY <1>1, <1>3 DEF WriteProblem, Goes
  <2> QED BY <2>1, KeptIs, KeptNext
<1>4. CASE MarkFailed(s)
  <2>1. IsWriter(s) /\ problem = why[s] /\ problem' = problem /\ failed'
    BY <1>1, <1>4 DEF MarkFailed, Failing
  <2>2. \A t \in Stacks : ~IsWriter(t)'
    BY <1>1, <1>4 DEF MarkFailed, Goes, IInv, ClaimHeld
  <2> QED BY <2>1, <2>2, KeptIs, KeptNext
<1> QED BY <1>2, <1>3, <1>4

(* Every step does one of those.                                           *)
LEMMA GroupStep ==
  ASSUME IInv, Failing, IInv', [Next]_vars
  PROVE  GroupSees
<1> USE DEF GroupSees
<1>1. /\ thread \in [Stacks -> ThreadPlaces]
      /\ why \in [Stacks -> Problems \cup {NoProblem}]
  BY DEF IInv, TypeOK
<1>2. CASE Admit \/ ScanEnded \/ ScanNext \/ Finish \/ AdmitTooLarge
             \/ LayOut \/ StartRefused \/ CallJoin \/ JoinNext
             \/ UNCHANGED vars
  <2>1. UNCHANGED <<thread, why, failed, problem, handed>>
    BY <1>2 DEF Admit, ScanEnded, ScanNext, Finish, AdmitTooLarge, LayOut,
                StartRefused, CallJoin, JoinNext, vars, ownerVars, threadVars,
                ledgerVars
  <2> QED BY <2>1, Idle
<1>3. CASE Start
  <2>1. at \in Stacks /\ thread[at] = "none" /\ why[at] = NoProblem
    BY <1>1, <1>3 DEF Start, IInv, TypeOK, ThreadsKnown, Failing
  <2>2. /\ thread' = [thread EXCEPT ![at] = "task"]
        /\ UNCHANGED <<why, failed, problem, handed>>
    BY <1>3 DEF Start, ledgerVars
  <2>3. at \notin Active /\ Active' = Active \cup {at}
    BY <1>1, <2>1, <2>2 DEF Active
  <2>4. Doomed' = Doomed
    BY <1>1, <2>1, <2>2 DEF Doomed
  <2>5. Writers' = Writers
    BY <1>1, <2>1, <2>2 DEF Writers
  <2>6. Kept' = Kept
    BY <2>2, <2>5 DEF Kept
  <2> QED BY <2>1, <2>2, <2>3, <2>4, <2>6
<1>4. CASE JoinReturns
  <2>1. \A s \in Stacks : thread[s] = "none"
    BY <1>4, AllJoined DEF JoinReturns
  <2>2. /\ UNCHANGED <<thread, why, problem>>
        /\ failed' = FALSE
        /\ handed' = IF failed THEN problem ELSE NoProblem
    BY <1>4 DEF JoinReturns, threadVars
  <2>3. Active = {} /\ Active' = Active /\ Doomed' = Doomed
    BY <2>1, <2>2 DEF Active, Doomed
  <2>4. Writers = {} /\ Writers' = {}
    BY <2>1, <2>2 DEF Writers
  <2> QED BY <2>2, <2>3, <2>4 DEF Kept
<1>5. ASSUME NEW s \in Stacks, Claim(s) PROVE GroupSees
  <2>1. thread[s] = "claim" /\ why[s] \in Problems
    BY <1>5 DEF Claim, Failing
  <2>2. /\ thread' = [thread EXCEPT ![s] = IF claimed = 0 THEN "write"
                                           ELSE "return"]
        /\ UNCHANGED <<why, failed, problem, handed>>
    BY <1>5 DEF Claim, Goes, ownerVars
  <2>3. s \in Active \ Doomed /\ Active' = Active
    BY <1>1, <2>1, <2>2 DEF Active, Doomed
  <2>4. Doomed' = Doomed \cup {s}
    BY <1>1, <2>1, <2>2 DEF Doomed
  <2>5. Kept' = IF Kept = NoProblem THEN why[s] ELSE Kept
    <3>1. CASE claimed = 0
      <4>1. IsWriter(s)'
        BY <1>1, <2>2, <3>1 DEF IsWriter
      <4> QED BY <2>2, <3>1, <4>1, ClaimIsKept, KeptNext
    <3>2. CASE claimed = 1
      <4>1. Writers' = Writers
        BY <1>1, <2>1, <2>2, <3>2 DEF Writers
      <4>2. Kept' = Kept
        BY <2>2, <4>1 DEF Kept
      <4> QED BY <3>2, <4>2, ClaimIsKept
    <3> QED BY <3>1, <3>2 DEF IInv, TypeOK
  <2> QED BY <2>1, <2>2, <2>3, <2>4, <2>5
<1>6. ASSUME NEW s \in Stacks, Exit(s) PROVE GroupSees
  <2>1. Kept' = Kept
    BY <1>6, KeptStays
  <2>2. /\ thread[s] = "exit" /\ thread' = [thread EXCEPT ![s] = "none"]
        /\ why' = [why EXCEPT ![s] = NoProblem]
        /\ handed' = handed
    BY <1>6 DEF Exit, Goes, ownerVars
  <2>3. s \in Active /\ Active' = Active \ {s}
    BY <1>1, <2>2 DEF Active
  <2>4. Doomed' = Doomed \ {s}
    BY <1>1, <2>2 DEF Doomed
  <2> QED BY <2>1, <2>2, <2>3, <2>4
<1>7. ASSUME NEW s \in Stacks,
             \/ TaskSucceeds(s)
             \/ \E x \in Problems : TaskFails(s, x)
             \/ WriteProblem(s)
             \/ MarkFailed(s)
             \/ StoreEnded(s)
      PROVE  GroupSees
  <2>1. Kept' = Kept
    BY <1>7, KeptStays
  <2>2. handed' = handed
    BY <1>7 DEF TaskSucceeds, TaskFails, WriteProblem, MarkFailed, StoreEnded,
                ownerVars
  <2>3. Active' = Active
    BY <1>1, <1>7 DEF TaskSucceeds, TaskFails, WriteProblem, MarkFailed,
                      StoreEnded, Goes, Active
  <2>4. Doomed' = Doomed
    <3>1. CASE \E x \in Problems : TaskFails(s, x)
      BY <1>1, <3>1 DEF TaskFails, Goes, Doomed, Failing
    <3>2. CASE TaskSucceeds(s)
      BY <1>1, <3>2 DEF TaskSucceeds, Goes, Doomed
    <3>3. CASE WriteProblem(s) \/ MarkFailed(s) \/ StoreEnded(s)
      BY <1>1, <3>3 DEF WriteProblem, MarkFailed, StoreEnded, Goes, Doomed
    <3> QED BY <1>7, <3>1, <3>2, <3>3
  <2> QED BY <2>1, <2>2, <2>3, <2>4
<1> QED
  BY <1>2, <1>3, <1>4, <1>5, <1>6, <1>7 DEF Next, OwnerStep, ThreadStep

(* For any number of stacks, a group over threads implements the abstract  *)
(* group: claims are failures in their order, and a join hands on exactly  *)
(* the first since the last one, once no task is left.                     *)
THEOREM GroupRefinement == Spec => ImplementsGroup
<1> USE DEF Active
<1>1. Init => Abstract!Init
  <2> SUFFICES ASSUME Init PROVE Abstract!Init
    OBVIOUS
  <2>1. Active = {} /\ Doomed = {} /\ Writers = {}
    BY DEF Init, Active, Doomed, Writers
  <2>2. Kept = NoProblem /\ handed = NoProblem
    BY <2>1 DEF Init, Kept
  <2> QED BY <2>1, <2>2 DEF Abstract!Init
<1>2. Init => Failing
  BY DEF Init, Failing, IsWriter
<1>3. IInv /\ IInv' /\ Failing /\ [Next]_vars
        => [Abstract!Next]_(Abstract!gvars)
  <2> SUFFICES ASSUME GroupSees
               PROVE  [Abstract!Next]_(Abstract!gvars)
    BY GroupStep
  <2> USE DEF Abstract!gvars, Abstract!Next, Abstract!Admit, Abstract!Fail,
              Abstract!End, Abstract!Join
  <2>1. CASE UNCHANGED <<Active, Doomed, Kept, handed>>
    BY <2>1
  <2>2. ASSUME NEW s \in Stacks, s \notin Active, Active' = Active \cup {s},
               UNCHANGED <<Doomed, Kept, handed>>
        PROVE  Abstract!Next
    <3>1. Abstract!Admit("g", s)
      BY <2>2
    <3> QED BY <3>1
  <2>3. ASSUME NEW s \in Stacks, NEW x \in Problems, s \in Active \ Doomed,
               Doomed' = Doomed \cup {s},
               Kept' = IF Kept = NoProblem THEN x ELSE Kept,
               UNCHANGED <<Active, handed>>
        PROVE  Abstract!Next
    <3>1. Abstract!Fail("g", s, x)
      BY <2>3
    <3> QED BY <3>1
  <2>4. ASSUME NEW s \in Stacks, s \in Active, Active' = Active \ {s},
               Doomed' = Doomed \ {s}, UNCHANGED <<Kept, handed>>
        PROVE  Abstract!Next
    <3>1. Abstract!End("g", s)
      BY <2>4
    <3> QED BY <3>1
  <2>5. ASSUME Active = {}, handed' = Kept, Kept' = NoProblem,
               UNCHANGED <<Active, Doomed>>
        PROVE  Abstract!Next
    <3>1. Abstract!Join("g")
      BY <2>5
    <3> QED BY <3>1
  <2> QED BY <2>1, <2>2, <2>3, <2>4, <2>5 DEF GroupSees
<1> QED
  BY <1>1, <1>2, <1>3, Invariance, FailingStep, PTL
  DEF Spec, ImplementsGroup, Abstract!Spec
=============================================================================
