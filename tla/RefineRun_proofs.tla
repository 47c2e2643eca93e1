-------------------------- MODULE RefineRun_proofs --------------------------
(* Proofs about RefineRun, for any tool, signals, scratch directories and    *)
(* other processes, and any bounds.                                          *)
EXTENDS RefineRun, TLAPS

USE OwnedAssumption, ToolAssumption, CommandAssumption

-----------------------------------------------------------------------------
(* The directories. ForeignUntouched is not inductive: that the emptied and  *)
(* removed entry is the opened one needs the comparison to be remembered.    *)
(* What is in the slot from the comparison to the removal is the retained    *)
(* root.                                                                     *)
SlotOwned == job.call \in {"empty", "rmdir"} => slot[job.root] = root[job.root]

(* A directory whose record says that it was removed, or is about to, is     *)
(* gone.                                                                     *)
FinishedGone ==
  /\ job.call = "retire" => root[job.root] \in gone
  /\ \A r \in Roots : life[r] = "finished" => root[r] \in gone

(* A record that has no descriptor yet has adopted nothing.                  *)
Unopened == {"unmade", "made"}
DirTypes ==
  /\ DOMAIN slot = Roots /\ DOMAIN root = Roots
  /\ life \in [Roots -> Lives]
  /\ job \in {Idle} \cup [root : Roots, call : Calls]
  /\ \A r \in Roots : life[r] \in Unopened => root[r] = Nobody

DirInv ==
  DirTypes /\ SlotOwned /\ FinishedGone /\ ForeignUntouched /\ RemovedMeansGone

dirState == <<slot, full, gone, root, life, job>>

(* What a removal that answers, and one that goes on, do to the records.     *)
LEMMA Returned ==
  ASSUME DirTypes, NEW r \in Roots, NEW was \in Lives, NEW result, NEW places,
         Return(r, was, result, places)
  PROVE  /\ job' = Idle /\ job'.call = "none"
         /\ life' \in [Roots -> Lives]
         /\ \A q \in Roots : q # r => life'[q] = life[q]
         /\ life'[r] \in {was, "dropped", "lost"}
         /\ r \in PrivateRoots /\ result = "refused" => life'[r] \in {was, "lost"}
         /\ life[r] # "opened" => life'[r] \in {was, "dropped"}
         /\ life[r] = "opened" => life'[r] = "lost" /\ told' = told
<1>1. /\ job' = Idle
      /\ life[r] = "opened" => life' = [life EXCEPT ![r] = "lost"] /\ told' = told
      /\ life[r] # "opened" => life' = [life EXCEPT ![r] = AfterResult(r, was, result)]
  BY DEF Return
<1>2. AfterResult(r, was, result) \in {was, "dropped"}
  BY DEF AfterResult
<1>3. r \in PrivateRoots /\ result = "refused" => AfterResult(r, was, result) = was
  BY DEF AfterResult, OwnedAssumption
<1>4. {"lost", "dropped", was} \subseteq Lives
  BY DEF Lives, Handed
<1> QED
  BY <1>1, <1>2, <1>3, <1>4 DEF Idle, DirTypes

(* A removal that goes on changes no record.                                 *)
LEMMA Continued ==
  ASSUME DirTypes, NEW r \in Roots, NEW call \in Calls, Continue(r, call)
  PROVE  /\ job' \in [root : Roots, call : Calls]
         /\ job'.root = r /\ job'.call = call /\ life' = life
  BY DEF Continue

(* Which directory and which call the removal under way is at.               *)
LEMMA Working ==
  ASSUME NEW r \in Roots, NEW call, At(r, call)
  PROVE  job.root = r /\ job.call = call
  BY DEF At

(* Steps that leave the directories' entries and records alone.              *)
LEMMA DirStutter == DirInv /\ UNCHANGED dirState => DirInv'
  BY DEF DirInv, DirTypes, SlotOwned, FinishedGone, ForeignUntouched, Adopted,
         RemovedMeansGone, At, dirState

(* The creation's first call, and its end without a descriptor.              *)
LEMMA DirMade ==
  ASSUME DirInv, NEW r \in Roots, NEW to \in {"made", "lost"}, life[r] \in Unopened,
         life' = [life EXCEPT ![r] = to], UNCHANGED <<slot, full, gone, root, job>>
  PROVE  DirInv'
<1>1. to \in Lives
  BY DEF Lives
<1> QED
  BY <1>1 DEF DirInv, DirTypes, SlotOwned, FinishedGone, ForeignUntouched, Adopted,
         RemovedMeansGone, At, Unopened

(* Its second call. What is adopted here is nobody's record's before.        *)
LEMMA DirOpen ==
  ASSUME DirInv, NEW r \in Roots, NEW stage \in {"live", "opened"}, Resting,
         OpenDirectory(r, stage),
         full' = full \/ full' = full \cup {root'[r]}
  PROVE  DirInv'
<1>1. /\ life[r] = "made" /\ root[r] = Nobody /\ job.call = "none"
      /\ root' = [root EXCEPT ![r] = name[r]] /\ life' = [life EXCEPT ![r] = stage]
      /\ UNCHANGED <<slot, gone, job>>
  BY DEF OpenDirectory, DirInv, DirTypes, Unopened, Resting, Idle
<1>2. /\ DOMAIN root' = Roots /\ root'[r] = name[r] /\ life'[r] = stage
      /\ \A q \in Roots \ {r} : root'[q] = root[q] /\ life'[q] = life[q]
  BY <1>1 DEF DirInv, DirTypes
<1>3. DirTypes'
  <2>1. stage \in Lives /\ stage \notin Unopened
    BY DEF Lives, Handed, Unopened
  <2> QED BY <1>1, <1>2, <2>1 DEF DirInv, DirTypes
<1>4. SlotOwned' /\ FinishedGone' /\ RemovedMeansGone'
  BY <1>1, <1>2 DEF DirInv, SlotOwned, FinishedGone, RemovedMeansGone, Roots
<1>5. Adopted \cap Strangers \subseteq Adopted' /\ root'[r] \in Adopted'
  <2>1. Nobody \notin Strangers
    OBVIOUS
  <2>2. ASSUME NEW q \in Roots, root[q] \in Strangers PROVE root[q] \in Adopted'
    BY <1>1, <1>2, <2>1, <2>2 DEF Adopted
  <2> QED BY <1>2, <2>2 DEF Adopted
<1>6. ForeignUntouched'
  <2> HIDE DEF Adopted
  <2> QED BY <1>1, <1>5 DEF DirInv, ForeignUntouched
<1> QED BY <1>3, <1>4, <1>6 DEF DirInv

(* A write through the retained descriptor.                                  *)
LEMMA DirWrite ==
  ASSUME DirInv, NEW r \in Roots, WriteInto(r)
  PROVE  DirInv'
<1>1. root[r] \in Adopted
  BY DEF Adopted
<1>2. Adopted' = Adopted /\ UNCHANGED <<slot, gone, root, life, job>>
      /\ full' = full \cup {root[r]}
  BY DEF WriteInto, Adopted
<1>3. ForeignUntouched'
  BY <1>1, <1>2 DEF DirInv, ForeignUntouched
<1> QED
  BY <1>2, <1>3 DEF DirInv, DirTypes, SlotOwned, FinishedGone, RemovedMeansGone

(* The early returns and the first step of landin_owned_remove.              *)
LEMMA DirRemove ==
  ASSUME DirInv, NEW r \in Roots, Remove(r)
  PROVE  DirInv'
<1> USE DEF DirInv, SlotOwned, FinishedGone, ForeignUntouched, Adopted,
            RemovedMeansGone
<1>0. UNCHANGED <<slot, full, gone, root>> /\ DirTypes
  BY DEF Remove
<1>1. CASE life[r] \in {"finished", "dropped"} /\ Return(r, "dropped", "absent", {})
  <2>1. "dropped" \in Lives
    BY DEF Lives, Handed
  <2>2. r \in PrivateRoots => root[r] \in gone
    BY <1>1
  <2>3. /\ job' = Idle /\ job'.call = "none" /\ life' \in [Roots -> Lives]
        /\ life'[r] = "dropped"
        /\ \A q \in Roots : q # r => life'[q] = life[q]
    BY <1>0, <1>1, <2>1, Returned
  <2> QED
    BY <1>0, <2>2, <2>3 DEF Roots, DirTypes, Unopened
<1>2. CASE /\ life[r] \in {"finished", "dropped", "retained"}
           /\ \E places : Return(r, life[r], "refused", places)
  <2>1. life[r] \in Lives
    BY <1>0 DEF DirTypes
  <2>2. /\ job' = Idle /\ job'.call = "none" /\ life' \in [Roots -> Lives]
        /\ life'[r] \in {life[r], "dropped"}
        /\ r \in PrivateRoots => life'[r] \in {life[r], "lost"}
        /\ \A q \in Roots : q # r => life'[q] = life[q]
    BY <1>0, <1>2, <2>1, Returned
  <2> QED
    BY <1>0, <1>2, <2>2 DEF Roots, DirTypes, Unopened
<1>3. CASE /\ life[r] \in {"opened", "live"}
           /\ \E places : Return(r, "live", "refused", places)
  <2>1. "live" \in Lives
    BY DEF Lives, Handed
  <2>2. /\ job' = Idle /\ job'.call = "none" /\ life' \in [Roots -> Lives]
        /\ life'[r] \in {"live", "dropped", "lost"}
        /\ r \in PrivateRoots => life'[r] \in {"live", "lost"}
        /\ \A q \in Roots : q # r => life'[q] = life[q]
    BY <1>0, <1>3, <2>1, Returned
  <2> QED
    BY <1>0, <1>3, <2>2 DEF Roots, DirTypes, Unopened
<1>4. CASE Continue(r, "allocate")
  <2>1. /\ job' \in [root : Roots, call : Calls]
        /\ job'.call = "allocate" /\ life' = life
    BY <1>0, <1>4, Continued DEF Calls
  <2> QED
    BY <1>0, <2>1 DEF DirTypes
<1> QED
  BY <1>1, <1>2, <1>3, <1>4 DEF Remove

(* What a step of a removal may do to the entries.                           *)
Removing(r) ==
  /\ root' = root /\ DOMAIN slot' = Roots /\ gone \subseteq gone'
  /\ gone' \cap Strangers \subseteq Adopted
  /\ full' \cap (Strangers \ Adopted) = Filled \ Adopted

(* A step of a removal that goes on to its next call.                        *)
LEMMA DirGoesOn ==
  ASSUME DirInv, NEW r \in Roots, NEW call \in Calls, Continue(r, call),
         Removing(r),
         call \in {"empty", "rmdir"} => slot'[r] = root[r],
         call = "retire" => root[r] \in gone'
  PROVE  DirInv'
<1>1. /\ job' \in [root : Roots, call : Calls]
      /\ job'.root = r /\ job'.call = call /\ life' = life
  BY Continued DEF DirInv
<1>2. Adopted' = Adopted
  BY DEF Adopted, Removing
<1> QED
  BY <1>1, <1>2 DEF DirInv, DirTypes, SlotOwned, FinishedGone, ForeignUntouched,
              RemovedMeansGone, Removing

(* A step that ends the removal.                                             *)
LEMMA DirAnswers ==
  ASSUME DirInv, NEW r \in Roots, NEW was \in {"live", "retained", "finished"},
         NEW result, NEW places, Return(r, was, result, places), Removing(r),
         was = "finished" \/ result # "refused" => root[r] \in gone'
  PROVE  DirInv'
<1>0. was \in Lives
  BY DEF Lives, Handed
<1>1. /\ job' = Idle /\ job'.call = "none"
      /\ life' \in [Roots -> Lives]
      /\ \A q \in Roots : q # r => life'[q] = life[q]
      /\ life'[r] \in {was, "dropped", "lost"}
      /\ r \in PrivateRoots /\ result = "refused" => life'[r] \in {was, "lost"}
  BY <1>0, Returned DEF DirInv
<1>2. root' = root /\ Adopted' = Adopted /\ gone \subseteq gone'
  BY DEF Adopted, Removing
<1>3. \A q \in Roots : life'[q] = "finished" => root'[q] \in gone'
  BY <1>1, <1>2 DEF DirInv, FinishedGone
<1>4. \A q \in PrivateRoots : life'[q] = "dropped" => root'[q] \in gone'
  BY <1>1, <1>2 DEF DirInv, RemovedMeansGone, Roots
<1>5. \A q \in Roots : life'[q] \in Unopened => root'[q] = Nobody
  BY <1>1, <1>2 DEF DirInv, DirTypes, Unopened
<1> QED
  BY <1>1, <1>2, <1>3, <1>4, <1>5 DEF DirInv, DirTypes, SlotOwned, FinishedGone,
     ForeignUntouched, RemovedMeansGone, Removing

(* Every step of a removal.                                                  *)
LEMMA DirRemoval == DirInv /\ RemovalStep => DirInv'
<1> SUFFICES ASSUME DirInv, NEW r \in Roots,
                    \/ Allocate(r) \/ CaptureEntry(r) \/ Compare(r) \/ Restore(r)
                    \/ EmptyRoot(r) \/ RemoveEntry(r) \/ Retire(r)
             PROVE  DirInv'
  BY DEF RemovalStep
<1>0. /\ DOMAIN slot = Roots /\ root[r] \in Adopted
      /\ gone \cap Strangers \subseteq Adopted
      /\ full \cap (Strangers \ Adopted) = Filled \ Adopted
      /\ Calls = {"allocate", "capture", "compare", "restore", "empty", "rmdir",
                  "retire"}
  BY DEF Adopted, DirInv, DirTypes, ForeignUntouched, Calls
<1>a. ASSUME NEW e, slot' = [slot EXCEPT ![r] = e]
      PROVE  DOMAIN slot' = Roots /\ slot'[r] = e
  BY <1>0, <1>a
<1>b. /\ At(r, "compare") \/ At(r, "empty") \/ At(r, "rmdir") \/ At(r, "retire")
          => job.root = r
      /\ At(r, "empty") \/ At(r, "rmdir") => slot[r] = root[r]
      /\ At(r, "retire") => root[r] \in gone
  BY Working DEF DirInv, SlotOwned, FinishedGone
<1>c. ASSUME root' = root, gone' = gone, full' = full, DOMAIN slot' = Roots
      PROVE  Removing(r)
  BY <1>0, <1>c DEF Removing
<1>1. CASE Allocate(r)
  <2>0. /\ slot' = [slot EXCEPT ![r] = "empty"] \/ slot' = [slot EXCEPT ![r] = "none"]
        /\ UNCHANGED <<root, gone, full>>
        /\ Continue(r, "capture") \/ Return(r, "live", "refused", {"name"})
    BY <1>1 DEF Allocate
  <2>1. Removing(r)
    BY <1>a, <1>c, <2>0
  <2> QED BY <1>0, <2>0, <2>1, DirGoesOn, DirAnswers
<1>2. CASE CaptureEntry(r)
  <2>0. /\ \E e : slot' = [slot EXCEPT ![r] = e]
        /\ UNCHANGED <<root, gone, full>>
        /\ Continue(r, "compare") \/ Return(r, "live", "refused", {"name"})
    BY <1>2 DEF CaptureEntry, RemoveSlot
  <2>1. Removing(r)
    BY <1>a, <1>c, <2>0
  <2> QED BY <1>0, <2>0, <2>1, DirGoesOn, DirAnswers
<1>3. CASE Compare(r)
  <2>0. Removing(r) /\ slot' = slot
    BY <1>0, <1>3, <1>c DEF Compare
  <2>1. CASE Same(r)
    BY <1>0, <1>3, <2>0, <2>1, DirGoesOn DEF Compare, Same
  <2>2. CASE ~Same(r)
    BY <1>0, <1>3, <2>0, <2>2, DirGoesOn DEF Compare
  <2> QED BY <2>1, <2>2
<1>4. CASE Restore(r)
  <2>0. /\ slot' = slot \/ \E e : slot' = [slot EXCEPT ![r] = e]
        /\ UNCHANGED <<root, gone, full>>
        /\ \E was \in {"live", "retained"} : \E places : Return(r, was, "refused", places)
    <3>1. CASE CanRestore(r)
      <4>1. gone' = gone
        BY ZenonT(60), <1>4, <3>1 DEF Restore, CanRestore
      <4> QED BY <1>4, <3>1, <4>1 DEF Restore, RemoveSlot
    <3>2. CASE ~CanRestore(r)
      BY <1>4, <3>2 DEF Restore
    <3> QED BY <3>1, <3>2
  <2>1. Removing(r)
    BY <1>0, <1>a, <1>c, <2>0
  <2> QED BY <2>0, <2>1, DirAnswers
<1>5. CASE EmptyRoot(r)
  <2>0. /\ slot' = slot /\ gone' = gone /\ root' = root /\ slot'[r] = root[r]
        /\ full' = full \/ full' = full \ {root[r]}
        /\ Continue(r, "rmdir") \/ Return(r, "retained", "refused", {"slot"})
    BY <1>5, <1>b DEF EmptyRoot
  <2>1. Removing(r)
    BY <1>0, <2>0 DEF Removing
  <2> QED BY <1>0, <2>0, <2>1, DirGoesOn, DirAnswers
<1>6. CASE RemoveEntry(r)
  <2>0. full' = full /\ root' = root /\ slot[r] = root[r]
    BY <1>6, <1>b DEF RemoveEntry
  <2>1. CASE slot[r] \in full \cup Files
    <3>1. Return(r, "retained", "refused", {"slot"}) /\ UNCHANGED <<slot, gone>>
      BY <1>6, <2>1 DEF RemoveEntry
    <3> QED BY <1>0, <1>c, <2>0, <3>1, DirAnswers
  <2>2. CASE slot[r] \notin full \cup Files
    <3>1. /\ gone' = gone \cup {root[r]} /\ slot' = [slot EXCEPT ![r] = "empty"]
          /\ Continue(r, "retire")
      BY <1>6, <2>0, <2>2 DEF RemoveEntry
    <3>2. Removing(r)
      BY <1>0, <1>a, <2>0, <3>1 DEF Removing
    <3> QED BY <1>0, <3>1, <3>2, DirGoesOn
  <2> QED BY <2>1, <2>2
<1>7. CASE Retire(r)
  <2>0. /\ gone' = gone /\ full' = full /\ root' = root /\ root[r] \in gone
        /\ slot' = slot \/ slot' = [slot EXCEPT ![r] = "none"]
        /\ \/ Return(r, "finished", "removed", {})
           \/ Return(r, "finished", "refused", {"name", "slot"})
    BY <1>7, <1>b DEF Retire
  <2>1. Removing(r)
    BY <1>0, <1>a, <1>c, <2>0
  <2> QED BY <2>0, <2>1, DirAnswers
<1> QED
  BY <1>1, <1>2, <1>3, <1>4, <1>5, <1>6, <1>7

(* What a step does to the directories, by whoever takes it. The rest of     *)
(* this module asks no more of it than this.                                 *)
Creating(r) ==
  \/ MakeDirectory(r) \/ LoseDirectory(r)
  \/ \E stage \in {"live", "opened"} :
       /\ Resting /\ OpenDirectory(r, stage)
       /\ full' = full \/ full' = full \cup {root'[r]}

DirStep ==
  \/ UNCHANGED ownedVars \/ UNCHANGED dirVars
  \/ \E r \in Roots : Creating(r) \/ Remove(r) \/ WriteInto(r)
  \/ RemovalStep \/ OtherProcess

LEMMA EveryDirStep == [Next]_vars => DirStep
<1> SUFFICES ASSUME [Next]_vars PROVE DirStep
  OBVIOUS
<1>0. Capture \in Roots /\ Workspace \in Roots
  BY DEF Roots
<1>1. CASE CommandStep
  <2>1. CASE Prepare \/ OpenPrepared \/ Unprepare
    BY <1>0, <2>1 DEF Prepare, OpenPrepared, Unprepare, Creating, Goto, DirStep
  <2>2. CASE ~(Prepare \/ OpenPrepared \/ Unprepare)
    BY <1>0, <1>1, <2>2 DEF CommandStep, FinishRun, CheckCancelled, Report, Launch,
       Mask, Catch, Spawn, Unmask, Wait, Uncatch, Clean, Finish, DirStep
  <2> QED BY <2>1, <2>2
<1>2. CASE ToolStep
  <2>1. CASE MakeCapture \/ OpenCapture
    BY <1>0, <2>1 DEF MakeCapture, OpenCapture, Creating, Goto, DirStep
  <2>2. CASE UnmakeCapture \/ Release
    BY <1>0, <2>2 DEF UnmakeCapture, Release, DirStep
  <2>3. CASE ~(MakeCapture \/ OpenCapture) /\ ~(UnmakeCapture \/ Release)
    <3>1. UNCHANGED ownedVars \/ UNCHANGED dirVars
      BY <1>2, <2>3 DEF ToolStep, Begin, StartTool, PollCancelled, PollReaped,
         PollLate, Forward, Observe, Direct, Grace, Refused, StopGroup,
         StopLeader, Reap, ReadCapture, Released, Unwind
    <3> QED BY <3>1 DEF DirStep
  <2> QED BY <2>1, <2>2, <2>3
<1>3. CASE RemoveAgain
  BY <1>0, <1>3 DEF RemoveAgain, DirStep
<1>4. CASE (\E s \in Signals : Signal(s)) \/ ProgramExits \/ UNCHANGED vars
  BY <1>4 DEF Signal, ProgramExits, vars, DirStep
<1>5. CASE Family
  <2>1. UNCHANGED ownedVars \/ WriteInto(Workspace)
    BY <1>5 DEF Family, LeaderExits, Fork, KinExits, LeavesGroup, Reuse, Competitor,
       FamilyWrites
  <2> QED BY <1>0, <2>1 DEF DirStep
<1> QED
  BY <1>1, <1>2, <1>3, <1>4, <1>5 DEF Next, Supervisor, DirStep

(* Every step of the command, of the tool and of the others keeps DirInv.    *)
LEMMA DirNext == DirInv /\ [Next]_vars => DirInv'
<1> SUFFICES ASSUME DirInv, DirStep PROVE DirInv'
  BY EveryDirStep
<1>1. CASE UNCHANGED ownedVars \/ UNCHANGED dirVars
  BY <1>1, DirStutter DEF ownedVars, dirVars, dirState
<1>2. ASSUME NEW r \in Roots, Creating(r) PROVE DirInv'
  <2>1. CASE MakeDirectory(r) \/ LoseDirectory(r)
    BY <2>1, DirMade DEF MakeDirectory, LoseDirectory, Unopened
  <2>2. CASE ~(MakeDirectory(r) \/ LoseDirectory(r))
    BY <1>2, <2>2, DirOpen DEF Creating
  <2> QED BY <2>1, <2>2
<1>3. CASE \E r \in Roots : Remove(r) \/ WriteInto(r)
  BY <1>3, DirRemove, DirWrite
<1>4. CASE RemovalStep
  BY <1>4, DirRemoval
<1>5. CASE OtherProcess
  BY <1>5, DirStutter DEF OtherProcess, dirState
<1> QED
  BY <1>1, <1>2, <1>3, <1>4, <1>5 DEF DirStep

(* Nothing has been made or removed at first.                                *)
LEMMA DirInit == Init => DirInv
<1> SUFFICES ASSUME Init PROVE DirInv
  OBVIOUS
<1>1. /\ slot = [r \in Roots |-> "none"] /\ full = Filled /\ gone = {}
      /\ root = [r \in Roots |-> Nobody]
      /\ life = [r \in Roots |-> "unmade"] /\ job = Idle
  BY DEF Init, OwnedInit
<1>2. DirTypes
  BY <1>1 DEF DirTypes, Lives
<1>3. SlotOwned /\ FinishedGone
  BY <1>1 DEF SlotOwned, FinishedGone, Idle
<1>4. ForeignUntouched /\ RemovedMeansGone
  BY <1>1 DEF ForeignUntouched, RemovedMeansGone, Roots
<1> QED BY <1>2, <1>3, <1>4 DEF DirInv

(* Whatever other processes do with the public names and whichever calls     *)
(* fail, refine empties and removes only the directories its records opened: *)
(* those it made, unless another one was there by the time it opened them.   *)
THEOREM StrangersAreSafe == Spec => []ForeignUntouched
<1>1. DirInv => ForeignUntouched
  BY DEF DirInv
<1> QED BY <1>1, DirInit, DirNext, PTL DEF Spec

(* A private directory whose record landin_remove_tree has dropped is gone,  *)
(* however often its removal was refused and asked for again.                *)
THEOREM RemovalIsTrue == Spec => []RemovedMeansGone
<1>1. DirInv => RemovedMeansGone
  BY DEF DirInv
<1> QED BY <1>1, DirInit, DirNext, PTL DEF Spec

-----------------------------------------------------------------------------
(* The tool. Its identifier is used only while Run_Tool holds it (pid), and  *)
(* while it is held the tool is unreaped unless a competitor has taken its   *)
(* status: no step but Reap and PollReaped reaps, and a policy that discards *)
(* statuses never gets a tool.                                               *)
Unstarted == {"prepare", "prepare_open", "tool", "capture", "open_capture", "start"}
Supervised == {"poll", "forward", "observe", "direct", "grace", "stop",
               "stop_child", "reap"}

Held ==
  /\ pid \in BOOLEAN
  /\ pc \in Unstarted => leader = "none" /\ ~reused
  /\ pc \in Supervised => pid
  /\ pid /\ ~lost => leader \in {"running", "zombie"}
  /\ leader = "running" => ~discards
  /\ reused => leader = "reaped"
  /\ OnlyOursSignalled

(* The tool is told of a cancellation on the way to the grace period only.   *)
ToldLate ==
  /\ heard \in {0, 1}
  /\ pc \in Unstarted \cup {"poll", "forward", "observe", "direct"} => heard = 0

(* What the steps outside the tool's supervision leave alone.                *)
toolState == <<pc, leader, pid, reused, struck, lost, discards, heard>>

(* Steps that change none of it.                                             *)
LEMMA ToolStutter ==
  /\ Held /\ UNCHANGED toolState => Held'
  /\ ToldLate /\ UNCHANGED toolState => ToldLate'
  BY DEF Held, ToldLate, OnlyOursSignalled, toolState

(* The command's own steps do not touch the tool and lead into Run_Tool only *)
(* from the preparation; Finish_Run forgets the identifier.                  *)
LEMMA ToolCommand ==
  ASSUME CommandStep
  PROVE  /\ UNCHANGED <<leader, reused, struck, lost, discards, heard>>
         /\ pid' = pid \/ pid' = FALSE
         /\ \/ pc \in {"prepare", "prepare_open"} /\ pc' \in {"prepare_open", "tool"}
            \/ pc' \notin Unstarted \cup Supervised
<1>1. CASE Prepare \/ OpenPrepared \/ Unprepare
  BY <1>1 DEF Prepare, OpenPrepared, Unprepare, Goto, toolVars, family, effects,
     locals, outside, Unstarted, Supervised
<1>2. CASE FinishRun
  BY <1>2 DEF FinishRun, Goto, family, effects, outside, Unstarted, Supervised
<1>3. CASE CheckCancelled \/ Report \/ Launch \/ Mask \/ Catch \/ Spawn \/ Wait
           \/ Uncatch \/ Clean \/ Finish
  <2>1. UNCHANGED toolVars
    BY <1>3 DEF CheckCancelled, Report, Launch, Mask, Catch, Spawn, Wait,
       Uncatch, Clean, Finish
  <2>2. pc' \in {"report", "launch", "finish", "mask", "clean", "catch", "spawn",
                 "unmask", "uncatch", "exit"}
    BY <1>3 DEF CheckCancelled, Report, Launch, Mask, Catch, Spawn, Wait,
       Uncatch, Clean, Finish, Goto
  <2> QED BY <2>1, <2>2 DEF toolVars, family, effects, locals, outside,
             Unstarted, Supervised
<1>4. CASE Unmask
  BY <1>4 DEF Unmask, Goto, family, effects, locals, Unstarted, Supervised
<1> QED
  BY <1>1, <1>2, <1>3, <1>4 DEF CommandStep

(* The steps of Run_Tool.                                                    *)
LEMMA HeldTool == Held /\ ToolStep => Held'
<1> SUFFICES ASSUME Held, ToolStep PROVE Held'
  OBVIOUS
<1> USE DEF Held, OnlyOursSignalled, Goto, Unstarted, Supervised, family,
            effects, locals, outside, toolVars
<1>1. CASE Begin \/ MakeCapture \/ OpenCapture \/ UnmakeCapture
  BY <1>1 DEF Begin, MakeCapture, OpenCapture, UnmakeCapture
<1>2. CASE StartTool
  <2>1. CASE Startable /\ pc' = "poll" /\ leader' = "running" /\ pid' = TRUE
    BY <1>2, <2>1 DEF StartTool, Startable
  <2>2. CASE pc' = "unwind" /\ UNCHANGED <<leader, pid>>
    BY <1>2, <2>2 DEF StartTool
  <2> QED BY <1>2, <2>1, <2>2 DEF StartTool
<1>3. CASE PollCancelled \/ PollReaped \/ PollLate
  <2>1. CASE PollCancelled \/ PollLate
    BY <2>1 DEF PollCancelled, PollLate
  <2>2. CASE PollReaped
    BY <2>2 DEF PollReaped
  <2> QED BY <1>3, <2>1, <2>2
<1>4. CASE Forward
  <2>1. /\ pc = "forward" /\ pc' \in {"grace", "observe"}
        /\ UNCHANGED <<leader, pid, reused, lost, discards>>
    BY <1>4 DEF Forward, AfterGroup
  <2>2. CASE Strike
    BY <2>1, <2>2 DEF Strike
  <2>3. CASE UNCHANGED struck
    BY <2>1, <2>3
  <2> QED BY <1>4, <2>2, <2>3 DEF Forward, SignalGroup
<1>5. CASE Observe \/ Grace
  <2>1. CASE pc' \in Supervised /\ UNCHANGED pid
    BY <1>5, <2>1 DEF Observe, Grace
  <2>2. CASE pc' = "unwind" /\ pid' = FALSE
    <3>1. /\ UNCHANGED <<leader, reused, struck, lost, discards>>
          /\ ~pid' /\ pid' \in BOOLEAN
      BY <1>5, <2>2 DEF Observe, Grace
    <3> QED BY <2>2, <3>1
  <2> QED BY <1>5, <2>1, <2>2 DEF Observe, Grace
<1>6. CASE Direct
  BY <1>6 DEF Direct, Strike
<1>7. CASE Refused
  BY <1>7 DEF Refused
<1>8. CASE StopGroup
  BY <1>8 DEF StopGroup, KillGroup, Strike
<1>9. CASE StopLeader
  BY <1>9 DEF StopLeader, KillLeader, Strike
<1>10. CASE Reap
  BY <1>10 DEF Reap
<1>11. CASE ReadCapture \/ Release \/ Released
  BY <1>11 DEF ReadCapture, Release, Released
<1>12. CASE Unwind
  BY <1>12 DEF Unwind
<1> QED
  BY <1>1, <1>2, <1>3, <1>4, <1>5, <1>6, <1>7, <1>8, <1>9, <1>10, <1>11, <1>12
     DEF ToolStep

(* The tool's own steps, its family's and the system's.                      *)
LEMMA HeldFamily == Held /\ Family => Held'
<1> SUFFICES ASSUME Held, Family PROVE Held'
  OBVIOUS
<1> USE DEF Held, OnlyOursSignalled, effects, locals, outside, family, toolVars
<1>1. CASE LeaderExits
  BY <1>1 DEF LeaderExits, Unstarted
<1>2. CASE Fork \/ KinExits \/ LeavesGroup \/ FamilyWrites
  BY <1>2 DEF Fork, KinExits, LeavesGroup, FamilyWrites
<1>3. CASE Reuse
  BY <1>3 DEF Reuse, Unstarted
<1>4. CASE Competitor
  BY <1>4 DEF Competitor, Unstarted
<1> QED
  BY <1>1, <1>2, <1>3, <1>4 DEF Family

(* Every step of the composition keeps Held.                                 *)
LEMMA HeldNext == Held /\ [Next]_vars => Held'
<1> SUFFICES ASSUME Held, [Next]_vars PROVE Held'
  OBVIOUS
<1>1. CASE CommandStep
  <2>1. CASE pid' = pid
    BY <1>1, <2>1, ToolCommand DEF Held, OnlyOursSignalled, Unstarted, Supervised
  <2>2. CASE pid' = FALSE
    <3>1. ~pid' /\ pid' \in BOOLEAN
      BY <2>2
    <3>2. /\ UNCHANGED <<leader, reused, struck, lost, discards>>
          /\ pc' \notin Supervised
          /\ pc' \in Unstarted => pc \in Unstarted
      BY <1>1, ToolCommand DEF Unstarted, Supervised
    <3> QED BY <3>1, <3>2 DEF Held, OnlyOursSignalled
  <2> QED BY <1>1, <2>1, <2>2, ToolCommand
<1>2. CASE ToolStep
  BY <1>2, HeldTool
<1>3. CASE Family
  BY <1>3, HeldFamily
<1>4. CASE \/ RemovalStep /\ UNCHANGED <<pc, commandVars, toolVars>>
           \/ OtherProcess /\ UNCHANGED <<pc, commandVars, toolVars>>
           \/ RemoveAgain \/ (\E s \in Signals : Signal(s)) \/ ProgramExits
           \/ UNCHANGED vars
  <2>1. UNCHANGED toolState
    BY <1>4 DEF RemoveAgain, Goto, Signal, ProgramExits, vars, toolState,
       toolVars, family, effects, locals, outside
  <2> QED BY <2>1, ToolStutter
<1> QED
  BY <1>1, <1>2, <1>3, <1>4 DEF Next, Supervisor

(* While nobody else reaps the tool, no signal of refine reaches a process   *)
(* that was given its identifier: every kill of landin_tool_stop and         *)
(* landin_tool_cancel_reserved is sent to a tool that is still unreaped.     *)
THEOREM SignalsStayOurs == Spec => []OnlyOursSignalled
<1>1. Init => Held
  BY DEF Init, ToolInit, Held, OnlyOursSignalled, Unstarted, Supervised
<1>2. Held => OnlyOursSignalled
  BY DEF Held
<1> QED BY <1>1, <1>2, HeldNext, PTL DEF Spec

(* Every step of the composition keeps ToldLate.                             *)
LEMMA ToldNext == ToldLate /\ [Next]_vars => ToldLate'
<1> SUFFICES ASSUME ToldLate, [Next]_vars PROVE ToldLate'
  OBVIOUS
<1>1. CASE CommandStep
  BY <1>1, ToolCommand DEF ToldLate, Unstarted, Supervised
<1>2. CASE ToolStep
  <2> USE DEF ToldLate, Goto, Unstarted, effects, toolVars
  <2>1. CASE Forward
    BY <2>1 DEF Forward, AfterGroup, SignalGroup
  <2>2. CASE Direct
    BY <2>2 DEF Direct
  <2>3. CASE Begin \/ MakeCapture \/ OpenCapture \/ UnmakeCapture \/ StartTool
             \/ PollCancelled \/ PollReaped \/ PollLate
    BY <2>3 DEF Begin, MakeCapture, OpenCapture, UnmakeCapture, StartTool,
       PollCancelled, PollReaped, PollLate
  <2>4. CASE Observe \/ Grace \/ Refused \/ StopGroup \/ StopLeader \/ Reap
    BY <2>4 DEF Observe, Grace, Refused, StopGroup, StopLeader, Reap
  <2>5. CASE ReadCapture \/ Release \/ Released \/ Unwind
    BY <2>5 DEF ReadCapture, Release, Released, Unwind
  <2> QED BY <1>2, <2>1, <2>2, <2>3, <2>4, <2>5 DEF ToolStep
<1>3. CASE Family
  BY <1>3 DEF Family, LeaderExits, Fork, KinExits, LeavesGroup, FamilyWrites,
     Reuse, Competitor, ToldLate, effects, toolVars
<1>4. CASE \/ RemovalStep /\ UNCHANGED <<pc, commandVars, toolVars>>
           \/ OtherProcess /\ UNCHANGED <<pc, commandVars, toolVars>>
           \/ RemoveAgain \/ (\E s \in Signals : Signal(s)) \/ ProgramExits
           \/ UNCHANGED vars
  <2>1. UNCHANGED toolState
    BY <1>4 DEF RemoveAgain, Goto, Signal, ProgramExits, vars, toolState,
       toolVars, family, effects, locals, outside
  <2> QED BY <2>1, ToolStutter
<1> QED
  BY <1>1, <1>2, <1>3, <1>4 DEF Next, Supervisor

(* A cancellation is delivered to the tool at most once, by the signal to    *)
(* its group or by the one to itself.                                        *)
THEOREM ToldOnce == Spec => []HeardOnce
<1>1. Init => ToldLate
  BY DEF Init, ToolInit, ToldLate
<1>2. ToldLate => HeardOnce
  BY DEF ToldLate, HeardOnce
<1> QED BY <1>1, <1>2, ToldNext, PTL DEF Spec

-----------------------------------------------------------------------------
(* What a run leaves. The order of landin_tool_stop matters: the group is    *)
(* killed first, and a tool that left it cannot fork into it again, so once  *)
(* the tool is killed too nobody is left to fork.                            *)
Polled == {"poll", "forward", "observe", "direct", "grace"}
Stops == {"limit", "cancelled"}
Clear == why \in Stops => leader = "reaped" /\ kin = {}

Cleared ==
  /\ lost => leader = "reaped"
  /\ pc \in Unstarted \cup Polled \cup {"unmake"} => why = "none"
  /\ pc = "unmake" => leader = "none"
  /\ pc \in Unstarted \cup Supervised \cup {"unmake", "read", "unwind"}
       => ended = "none"
  /\ pc \in {"stop_child", "reap"} => kin = {}
  /\ pc = "stop_child" => ~(leader = "running" /\ grouped)
  /\ pc = "reap" => leader # "running"
  /\ pc = "read" => leader = "reaped" /\ Clear
  /\ pc = "unwind" => pid \/ (leader \in {"none", "reaped"} /\ Clear)
  /\ pc \in {"release", "released"} =>
       /\ Clear
       /\ leader \in {"none", "reaped"} \/ (ended = "none" /\ "tool" \in notes)
  /\ NothingLeftRunning

(* The steps of Run_Tool.                                                    *)
LEMMA ClearedTool == Held /\ Cleared /\ ToolStep => Cleared'
<1> SUFFICES ASSUME Held, Cleared, ToolStep PROVE Cleared'
  OBVIOUS
<1> USE DEF Cleared, Clear, NothingLeftRunning, Stops, Polled, Goto, Unstarted,
            Supervised, family, effects, locals, outside, toolVars
<1>1. CASE Begin \/ MakeCapture \/ OpenCapture \/ UnmakeCapture
  <2>1. CASE Begin
    BY <2>1 DEF Begin, Held
  <2>2. CASE MakeCapture \/ OpenCapture
    BY <2>2 DEF MakeCapture, OpenCapture, Held
  <2>3. CASE UnmakeCapture
    BY <2>3 DEF UnmakeCapture
  <2> QED BY <1>1, <2>1, <2>2, <2>3
<1>2. CASE StartTool
  BY <1>2 DEF StartTool, Held
<1>3. CASE PollCancelled
  BY <1>3 DEF PollCancelled
<1>4. CASE PollLate
  BY <1>4 DEF PollLate
<1>5. CASE PollReaped
  BY <1>5 DEF PollReaped, StillOwned, Held
<1>6. CASE Forward
  BY <1>6 DEF Forward, AfterGroup
<1>7. CASE Observe
  BY <1>7 DEF Observe, StillOwned, Held
<1>8. CASE Direct
  BY <1>8 DEF Direct
<1>9. CASE Grace
  BY <1>9 DEF Grace, StillOwned, Held
<1>10. CASE Refused
  BY <1>10 DEF Refused, Held
<1>11. CASE StopGroup
  BY <1>11 DEF StopGroup, KillGroup
<1>12. CASE StopLeader
  BY <1>12 DEF StopLeader, KillLeader
<1>13. CASE Reap
  BY <1>13 DEF Reap
<1>14. CASE ReadCapture
  BY <1>14 DEF ReadCapture
<1>15. CASE Release
  BY <1>15 DEF Release
<1>16. CASE Released
  BY <1>16 DEF Released
<1>17. CASE Unwind
  BY <1>17 DEF Unwind
<1> QED
  BY <1>1, <1>2, <1>3, <1>4, <1>5, <1>6, <1>7, <1>8, <1>9, <1>10, <1>11, <1>12,
     <1>13, <1>14, <1>15, <1>16, <1>17 DEF ToolStep

(* The tool's own steps, its family's and the system's.                      *)
LEMMA ClearedFamily == Held /\ Cleared /\ Family => Cleared'
<1> SUFFICES ASSUME Held, Cleared, Family PROVE Cleared'
  OBVIOUS
<1> USE DEF Cleared, Clear, NothingLeftRunning, Stops, Polled, Unstarted,
            Supervised, family, effects, locals, outside, toolVars
<1>1. CASE LeaderExits
  BY <1>1 DEF LeaderExits
<1>2. CASE Fork
  BY <1>2 DEF Fork
<1>3. CASE KinExits
  BY <1>3 DEF KinExits
<1>4. CASE LeavesGroup
  BY <1>4 DEF LeavesGroup
<1>5. CASE FamilyWrites
  BY <1>5 DEF FamilyWrites
<1>6. CASE Reuse
  BY <1>6 DEF Reuse
<1>7. CASE Competitor
  BY <1>7 DEF Competitor
<1> QED
  BY <1>1, <1>2, <1>3, <1>4, <1>5, <1>6, <1>7 DEF Family

(* The command's steps enter Run_Tool with nothing stopped and nothing ended. *)
LEMMA ClearedCommand == Cleared /\ CommandStep => Cleared'
<1> SUFFICES ASSUME Cleared, CommandStep PROVE Cleared'
  OBVIOUS
<1>0. lost' = lost /\ leader' = leader
  BY ToolCommand
<1>1. CASE Prepare \/ OpenPrepared \/ Unprepare
  <2>1. /\ \/ pc \in {"prepare", "prepare_open"} /\ pc' \in {"prepare_open", "tool"}
           \/ pc' \in {"unprepare", "check"}
        /\ why' = why /\ ended' = ended
    BY <1>1 DEF Prepare, OpenPrepared, Unprepare, Goto, toolVars, locals
  <2> QED BY <1>0, <2>1 DEF Cleared, NothingLeftRunning, Unstarted, Supervised, Polled
<1>2. CASE ~(Prepare \/ OpenPrepared \/ Unprepare)
  <2>1. pc' \in {"check", "report", "launch", "finish", "mask", "clean", "catch",
                 "spawn", "unmask", "wait", "uncatch", "exit"}
    BY <1>2 DEF CommandStep, FinishRun, CheckCancelled, Report, Launch, Mask, Catch,
       Spawn, Unmask, Wait, Uncatch, Clean, Finish, Goto
  <2> QED BY <1>0, <2>1 DEF Cleared, NothingLeftRunning, Unstarted, Supervised, Polled
<1> QED BY <1>1, <1>2

(* Every step of the composition keeps Cleared.                              *)
LEMMA ClearedNext == Held /\ Cleared /\ [Next]_vars => Cleared'
<1> SUFFICES ASSUME Held, Cleared, [Next]_vars PROVE Cleared'
  OBVIOUS
<1>1. CASE CommandStep
  BY <1>1, ClearedCommand
<1>2. CASE ToolStep
  BY <1>2, ClearedTool
<1>3. CASE Family
  BY <1>3, ClearedFamily
<1>4. CASE \/ RemovalStep /\ UNCHANGED <<pc, commandVars, toolVars>>
           \/ OtherProcess /\ UNCHANGED <<pc, commandVars, toolVars>>
           \/ RemoveAgain \/ (\E s \in Signals : Signal(s)) \/ ProgramExits
           \/ UNCHANGED vars
  <2>1. UNCHANGED <<pc, family, locals>>
    BY <1>4 DEF RemoveAgain, Goto, Signal, ProgramExits, vars, toolVars
  <2> QED BY <2>1 DEF Cleared, Clear, NothingLeftRunning, family, locals
<1> QED
  BY <1>1, <1>2, <1>3, <1>4 DEF Next, Supervisor

(* Run_Tool leaves no member of the group and no zombie of a tool it stopped *)
(* for its limit or a cancellation, and no tool at all unless its message    *)
(* says so, whatever the tool, its descendants and the system's refusals do. *)
THEOREM NothingIsLeft == Spec => []NothingLeftRunning
<1>1. Init => Held /\ Cleared
  BY DEF Init, ToolInit, Held, OnlyOursSignalled, Cleared, NothingLeftRunning,
     Unstarted, Supervised, Polled
<1>2. Cleared => NothingLeftRunning
  BY DEF Cleared
<1> QED BY <1>1, <1>2, HeldNext, ClearedNext, PTL DEF Spec

-----------------------------------------------------------------------------
(* The signals. What is sent from the block on is held until Spawn has told  *)
(* the handlers the program's identifier, and by then every handler that     *)
(* notified forwards.                                                        *)
Before == {"prepare", "prepare_open", "unprepare", "check", "report", "launch",
           "mask"} \cup ToolSteps
Blocked == {"catch", "spawn", "unmask"}
Attached == {"unmask", "wait"}

Passing ==
  /\ DOMAIN handler = Signals
  /\ masked => pc \in Blocked
  /\ pc \in Blocked => masked /\ since \subseteq waiting
  /\ known => pc \in {"unmask", "wait", "uncatch"}
  /\ pc \in Before => since = {}
  /\ pc \in Before \cup {"catch", "spawn"} => prog = "none"
  /\ pc \in Attached /\ prog # "none" => known
  /\ pc = "wait" => prog # "none"
  /\ since \subseteq Signals \ Terminal
  /\ pc = "catch" => \A s \in since : handler[s] # "ignore"
  /\ pc = "spawn" \/ (pc \in Attached /\ prog # "none") =>
       /\ \A s \in since : handler[s] = "forward"
       /\ \A s \in Signals \ Terminal : handler[s] \in {"forward", "ignore"}
  /\ PassedOn

(* The command's steps.                                                      *)
LEMMA PassingCommand == Passing /\ CommandStep => Passing'
<1> SUFFICES ASSUME Passing, CommandStep PROVE Passing'
  OBVIOUS
<1> USE DEF Passing, PassedOn, Before, ToolSteps, Blocked, Attached, Goto,
            signalVars, programVars, commandVars
<1>1. CASE Prepare \/ OpenPrepared \/ Unprepare
  BY <1>1 DEF Prepare, OpenPrepared, Unprepare
<1>2. CASE FinishRun
  BY <1>2 DEF FinishRun
<1>3. CASE CheckCancelled
  BY <1>3 DEF CheckCancelled
<1>4. CASE Report
  BY <1>4 DEF Report
<1>5. CASE Launch
  BY <1>5 DEF Launch
<1>6. CASE Mask
  BY <1>6 DEF Mask
<1>7. CASE Catch
  BY <1>7 DEF Catch, Catching
<1>8. CASE Spawn
  BY <1>8 DEF Spawn, Learn
<1>9. CASE Unmask
  BY <1>9 DEF Unmask, Handle
<1>10. CASE Wait
  BY <1>10 DEF Wait
<1>11. CASE Uncatch
  BY <1>11 DEF Uncatch
<1>12. CASE Clean \/ Finish
  BY <1>12 DEF Clean, Finish
<1> QED
  BY <1>1, <1>2, <1>3, <1>4, <1>5, <1>6, <1>7, <1>8, <1>9, <1>10, <1>11, <1>12
     DEF CommandStep

(* A signal is held, or passed on at once.                                   *)
LEMMA PassingSignal ==
  ASSUME Passing, NEW s \in Signals, Signal(s)
  PROVE  Passing'
<1> USE DEF Passing, PassedOn, Before, ToolSteps, Blocked, Attached
<1>1. CASE masked /\ s \notin Terminal
  BY <1>1 DEF Signal
<1>2. CASE ~(masked /\ s \notin Terminal)
  BY <1>2 DEF Signal, Handle
<1> QED BY <1>1, <1>2

(* Every step of the composition keeps Passing.                              *)
LEMMA PassingNext == Passing /\ [Next]_vars => Passing'
<1> SUFFICES ASSUME Passing, [Next]_vars PROVE Passing'
  OBVIOUS
<1>1. CASE CommandStep
  BY <1>1, PassingCommand
<1>2. CASE \E s \in Signals : Signal(s)
  BY <1>2, PassingSignal
<1>3. CASE ProgramExits
  BY <1>3 DEF ProgramExits, Passing, PassedOn, signalVars, Before, ToolSteps,
     Blocked, Attached
<1>4. CASE ToolStep /\ UNCHANGED commandVars
  <2>1. pc \in ToolSteps /\ pc' \in ToolSteps
    BY <1>4 DEF ToolStep, Begin, MakeCapture, OpenCapture, UnmakeCapture, StartTool,
       PollCancelled, PollReaped, PollLate, Forward, AfterGroup, Observe, Direct,
       Grace, Refused, StopGroup, StopLeader, Reap, ReadCapture, Release,
       Released, Unwind, Goto, ToolSteps
  <2> QED BY <1>4, <2>1 DEF Passing, PassedOn, commandVars, signalVars,
             programVars, Before, ToolSteps, Blocked, Attached
<1>5. CASE \/ (RemovalStep \/ OtherProcess) /\ UNCHANGED <<pc, commandVars, toolVars>>
           \/ RemoveAgain \/ (Family /\ UNCHANGED commandVars) \/ UNCHANGED vars
  <2>1. UNCHANGED <<pc, commandVars>>
    BY <1>5 DEF RemoveAgain, Goto, Family, LeaderExits, Fork, KinExits,
       LeavesGroup, FamilyWrites, Reuse, Competitor, vars
  <2> QED BY <2>1 DEF Passing, PassedOn, commandVars, signalVars, programVars
<1> QED
  BY <1>1, <1>2, <1>3, <1>4, <1>5 DEF Next, Supervisor

(* A termination or hangup sent from the moment landin_program_run blocks it *)
(* has been passed on once refine waits for the running program: none is     *)
(* lost between posix_spawn and the handler's learning the identifier.       *)
THEOREM SignalsArePassedOn == Spec => []PassedOn
<1>1. Init => Passing
  BY DEF Init, Passing, PassedOn, Before, ToolSteps, Blocked, Attached
<1>2. Passing => PassedOn
  BY DEF Passing
<1> QED BY <1>1, <1>2, PassingNext, PTL DEF Spec

-----------------------------------------------------------------------------
(* What the reasons say. An entry is in one place at most: under a public    *)
(* name, in a slot, or removed. What is left in a slot has been named unless *)
(* the removal that put it there is still under way or was a failed          *)
(* creation's own, and a record says a directory is lost only when it is     *)
(* gone, in its slot, or was named.                                          *)
Places ==
  /\ name \in [Roots -> Entries \cup {Nobody}]
  /\ slot \in [Roots -> Entries \cup {"none", "empty"}]
  /\ \A r \in Roots : name[r] \in {r, Nobody} \cup Strangers
  /\ \A r \in Roots : slot[r] \in {r, "none", "empty"} \cup Strangers
  /\ \A r, q \in Roots : name[r] \in Strangers /\ name[q] = name[r] => q = r
  /\ \A r, q \in Roots : slot[r] \in Strangers /\ slot[q] = slot[r] => q = r
  /\ \A r, q \in Roots : name[r] # slot[q]
  /\ \A r \in Roots : name[r] \notin gone /\ slot[r] \notin gone
  /\ gone \subseteq Entries
  /\ \A r \in Roots : life[r] = "unmade" => name[r] # r /\ slot[r] # r /\ r \notin gone

Captured == {"compare", "restore", "empty", "rmdir"}
SlotTold(r) ==
  slot[r] \in Entries =>
    \/ "slot" \in told[r] \/ life[r] = "lost"
    \/ job.root = r /\ job.call \in Captured

LossTold(r) ==
  life[r] \in {"finished", "retained", "dropped"} =>
    root[r] \in gone \/ slot[r] = root[r] \/ "name" \in told[r]

Recorded(r) ==
  /\ SlotTold(r) /\ LossTold(r)
  /\ root[r] \in Entries \cup {Nobody}
  /\ job.root = r => /\ life[r] \in {"opened", "live"}
                     /\ job.call \in Captured => slot[r] \in Entries

TellInv ==
  /\ DOMAIN told = Roots
  /\ \A r \in Roots : Recorded(r)

tellState == <<slot, gone, root, life, told, job>>

(* A step about one directory moves what its name and its slot hold, or puts *)
(* an entry there that was nowhere, and removes at most what is in its slot. *)
LEMMA PlacesStep ==
  ASSUME Places, NEW r \in Roots, NEW x, NEW y,
         name' = [name EXCEPT ![r] = x], slot' = [slot EXCEPT ![r] = y],
         gone \subseteq gone', gone' \subseteq gone \cup ({slot[r]} \cap Entries),
         x \in {name[r], slot[r], Nobody}
           \/ (x \notin gone /\ \A q \in Roots : name[q] # x /\ slot[q] # x),
         y \in {name[r], slot[r], "none", "empty"},
         x \in {r, Nobody} \cup Strangers, y \in {r, "none", "empty"} \cup Strangers,
         x # y, x \notin gone', y \notin gone',
         \A q \in Roots : life'[q] = "unmade" => life[q] = "unmade" /\ q # r
  PROVE  Places'
<1>1. /\ name' \in [Roots -> Entries \cup {Nobody}]
      /\ slot' \in [Roots -> Entries \cup {"none", "empty"}]
      /\ name'[r] = x /\ slot'[r] = y
      /\ \A q \in Roots \ {r} : name'[q] = name[q] /\ slot'[q] = slot[q]
  <2>1. x \in Entries \cup {Nobody} /\ y \in Entries \cup {"none", "empty"}
    BY DEF Entries
  <2> QED BY <2>1 DEF Places
<1>2. /\ {"none", "empty"} \cap (Strangers \cup Roots \cup {Nobody}) \subseteq {Nobody}
      /\ Nobody \notin Strangers \cup Roots /\ Roots \cap Strangers = {}
  OBVIOUS
<1>3. ASSUME NEW q \in Roots \ {r}
      PROVE  /\ x \in Strangers => name[q] # x
             /\ y \in Strangers => slot[q] # y
             /\ x # slot[q] /\ y # name[q]
             /\ name[q] \notin gone' /\ slot[q] \notin gone'
  BY <1>2 DEF Places, Entries
<1>4. \A a \in Roots : name'[a] \in {a, Nobody} \cup Strangers
  BY <1>1 DEF Places
<1>5. \A a \in Roots : slot'[a] \in {a, "none", "empty"} \cup Strangers
  BY <1>1 DEF Places
<1>6. \A a, b \in Roots : name'[a] \in Strangers /\ name'[b] = name'[a] => b = a
  BY <1>1, <1>3 DEF Places
<1>7. \A a, b \in Roots : slot'[a] \in Strangers /\ slot'[b] = slot'[a] => b = a
  BY <1>1, <1>3 DEF Places
<1>8. \A a, b \in Roots : name'[a] # slot'[b]
  BY <1>1, <1>3 DEF Places
<1>9. \A a \in Roots : name'[a] \notin gone' /\ slot'[a] \notin gone'
  BY <1>1, <1>3
<1>10. gone' \subseteq Entries
  BY DEF Places
<1>11. ASSUME NEW a \in Roots, life'[a] = "unmade"
       PROVE  name'[a] # a /\ slot'[a] # a /\ a \notin gone'
  <2>1. a # r /\ life[a] = "unmade"
    BY <1>11
  <2>2. slot[r] # a
    BY <1>2, <2>1 DEF Places
  <2> QED BY <1>1, <2>1, <2>2 DEF Places
<1> QED
  BY <1>1, <1>4, <1>5, <1>6, <1>7, <1>8, <1>9, <1>10, <1>11 DEF Places

(* Who the removal under way is of, and where its entries are.               *)
LEMMA RemovalOf ==
  ASSUME NEW r \in Roots, TellInv,
         \/ Allocate(r) \/ CaptureEntry(r) \/ Compare(r) \/ Restore(r)
         \/ EmptyRoot(r) \/ RemoveEntry(r) \/ Retire(r)
  PROVE  /\ job.root = r /\ life[r] \in {"opened", "live"} /\ Recorded(r)
         /\ root' = root
<1>1. job.root = r /\ root' = root
  BY DEF Allocate, CaptureEntry, Compare, Restore, EmptyRoot, RemoveEntry, Retire, At
<1> QED
  BY <1>1 DEF TellInv, Recorded

(* How the records move: a removal drops what a failed creation opened, and  *)
(* a directory whose caller has its path keeps a record that says so.        *)
LEMMA RecordsMove ==
  ASSUME DirInv, TellInv, NEW q \in Roots,
         RemovalStep \/ \E r \in Roots : Remove(r)
  PROVE  \/ life'[q] = life[q]
         \/ life[q] = "opened" /\ life'[q] = "lost"
         \/ life[q] \in Handed /\ life'[q] \in Handed
<1>a. ASSUME NEW r \in Roots, NEW was \in Handed, NEW result, NEW places,
             Return(r, was, result, places), life[r] \in {"opened"} \cup Handed
      PROVE  \/ life'[q] = life[q]
             \/ life[q] = "opened" /\ life'[q] = "lost"
             \/ life[q] \in Handed /\ life'[q] \in Handed
  <2>1. was \in Lives /\ "dropped" \in Handed /\ "opened" \notin Handed
    BY DEF Lives, Handed
  <2>2. /\ \A p \in Roots : p # r => life'[p] = life[p]
        /\ life[r] # "opened" => life'[r] \in {was, "dropped"}
        /\ life[r] = "opened" => life'[r] = "lost"
    BY <1>a, <2>1, Returned DEF DirInv
  <2> QED BY <1>a, <2>1, <2>2
<1>1. ASSUME NEW r \in Roots, Remove(r)
      PROVE  \/ life'[q] = life[q]
             \/ life[q] = "opened" /\ life'[q] = "lost"
             \/ life[q] \in Handed /\ life'[q] \in Handed
  <2>1. \/ life' = life
        \/ /\ life[r] \in {"opened"} \cup Handed
           /\ \E was \in Handed : \E result, places : Return(r, was, result, places)
    BY <1>1 DEF Remove, Continue, Handed
  <2> QED BY <1>a, <2>1
<1>2. ASSUME NEW r \in Roots,
             \/ Allocate(r) \/ CaptureEntry(r) \/ Compare(r) \/ Restore(r)
             \/ EmptyRoot(r) \/ RemoveEntry(r) \/ Retire(r)
      PROVE  \/ life'[q] = life[q]
             \/ life[q] = "opened" /\ life'[q] = "lost"
             \/ life[q] \in Handed /\ life'[q] \in Handed
  <2>1. \/ life' = life
        \/ \E was \in Handed : \E result, places : Return(r, was, result, places)
    BY <1>2 DEF Allocate, CaptureEntry, Compare, Restore, EmptyRoot, RemoveEntry,
       Retire, Continue, Handed
  <2>2. life[r] \in {"opened"} \cup Handed
    BY <1>2, RemovalOf DEF Handed
  <2> QED BY <1>a, <2>1, <2>2
<1> QED BY <1>1, <1>2 DEF RemovalStep

(* Every step keeps the entries in one place.                                *)
LEMMA PlacesNext == DirInv /\ TellInv /\ Places /\ [Next]_vars => Places'
<1> SUFFICES ASSUME DirInv, TellInv, Places, DirStep PROVE Places'
  BY EveryDirStep
<1>0. "none" \notin Entries /\ "empty" \notin Entries /\ Nobody \notin Entries
  BY DEF Entries
<1>a. ASSUME UNCHANGED <<name, slot, gone>>,
             \A q \in Roots : life'[q] = "unmade" => life[q] = "unmade"
      PROVE  Places'
  BY <1>a DEF Places
<1>1. CASE UNCHANGED ownedVars \/ UNCHANGED dirVars
  BY <1>1, <1>a DEF ownedVars, dirVars
<1>2. ASSUME NEW r \in Roots, Creating(r) PROVE Places'
  <2>1. CASE MakeDirectory(r)
    <3>1. /\ name' = [name EXCEPT ![r] = r] /\ slot' = [slot EXCEPT ![r] = slot[r]]
          /\ gone' = gone /\ life[r] = "unmade"
          /\ \A q \in Roots : life'[q] = "unmade" => life[q] = "unmade" /\ q # r
      BY <2>1 DEF MakeDirectory, Places, DirInv, DirTypes
    <3>2. r \notin gone /\ \A q \in Roots : name[q] # r /\ slot[q] # r
      BY <3>1 DEF Places
    <3>3. slot[r] \in {r, "none", "empty"} \cup Strangers /\ slot[r] \notin gone
      BY DEF Places
    <3> QED BY <3>1, <3>2, <3>3, PlacesStep
  <2>2. CASE ~MakeDirectory(r)
    <3>1. /\ UNCHANGED <<name, slot, gone>>
          /\ \E to \in {"lost", "live", "opened"} : life' = [life EXCEPT ![r] = to]
      BY <1>2, <2>2 DEF Creating, LoseDirectory, OpenDirectory
    <3> QED BY <1>a, <3>1 DEF DirInv, DirTypes
  <2> QED BY <2>1, <2>2
<1>3. ASSUME NEW r \in Roots, Remove(r) PROVE Places'
  <2>1. \A q \in Roots : life'[q] = "unmade" => life[q] = "unmade"
    BY <1>3, RecordsMove DEF Handed
  <2> QED BY <1>3, <1>a, <2>1 DEF Remove
<1>4. CASE \E r \in Roots : WriteInto(r)
  BY <1>4, <1>a DEF WriteInto
<1>5. CASE OtherProcess
  <2>1. PICK r \in Roots : /\ life[r] # "unmade"
                           /\ \E e \in Elsewhere(r) \cup {Nobody} :
                                name' = [name EXCEPT ![r] = e]
    BY <1>5 DEF OtherProcess
  <2>2. PICK e \in Elsewhere(r) \cup {Nobody} : name' = [name EXCEPT ![r] = e]
    BY <2>1
  <2>3. /\ slot' = [slot EXCEPT ![r] = slot[r]] /\ gone' = gone /\ life' = life
    BY <1>5 DEF OtherProcess, Places
  <2>4. e = Nobody \/ (e \notin gone /\ \A q \in Roots : name[q] # e /\ slot[q] # e)
    BY DEF Elsewhere, Placed, Entries
  <2>5. e \in {r, Nobody} \cup Strangers /\ e \notin gone /\ e # slot[r]
    BY <1>0, <2>4 DEF Elsewhere, Places, Entries
  <2>6. slot[r] \in {r, "none", "empty"} \cup Strangers /\ slot[r] \notin gone
    BY DEF Places
  <2> QED BY <2>1, <2>2, <2>3, <2>4, <2>5, <2>6, PlacesStep
<1>6. ASSUME NEW r \in Roots,
             \/ Allocate(r) \/ CaptureEntry(r) \/ Compare(r) \/ Restore(r)
             \/ EmptyRoot(r) \/ RemoveEntry(r) \/ Retire(r)
      PROVE  Places'
  <2>0. RemovalStep
    BY <1>6 DEF RemovalStep
  <2>1. \A q \in Roots : life'[q] = "unmade" => life[q] = "unmade" /\ q # r
    BY <1>6, <2>0, RecordsMove, RemovalOf DEF Handed
  <2>2. /\ name[r] \in {r, Nobody} \cup Strangers /\ name[r] \notin gone
        /\ slot[r] \in {r, "none", "empty"} \cup Strangers /\ slot[r] \notin gone
        /\ name[r] # slot[r] /\ gone \subseteq Entries
        /\ name = [name EXCEPT ![r] = name[r]] /\ slot = [slot EXCEPT ![r] = slot[r]]
    BY DEF Places
  <2>3. /\ "none" \notin gone /\ "empty" \notin gone /\ Nobody \notin gone
        /\ name[r] \notin {"none", "empty"} /\ Nobody \notin {"none", "empty"}
    BY <1>0, <2>2 DEF Entries
  <2>4. CASE Allocate(r) \/ Retire(r) \/ EmptyRoot(r) \/ Compare(r)
    <3>1. /\ \E y \in {slot[r], "none", "empty"} : slot' = [slot EXCEPT ![r] = y]
          /\ name' = name /\ gone' = gone
      BY <2>2, <2>4 DEF Allocate, Retire, EmptyRoot, Compare
    <3> QED BY <2>1, <2>2, <2>3, <3>1, PlacesStep
  <2>5. CASE CaptureEntry(r)
    <3>1. CASE name[r] = Nobody
      <4>1. /\ \E y \in {"none", "empty"} : slot' = [slot EXCEPT ![r] = y]
            /\ name' = name /\ gone' = gone
        BY <2>5, <3>1 DEF CaptureEntry, RemoveSlot
      <4> QED BY <2>1, <2>2, <2>3, <4>1, PlacesStep
    <3>2. CASE name[r] # Nobody
      <4>1. /\ slot' = [slot EXCEPT ![r] = name[r]]
            /\ name' = [name EXCEPT ![r] = Nobody] /\ gone' = gone
        BY <2>5, <3>2 DEF CaptureEntry
      <4>2. /\ name[r] \in {r, "none", "empty"} \cup Strangers /\ Nobody # name[r]
            /\ Nobody \notin gone' /\ name[r] \notin gone'
            /\ Nobody \in {name[r], slot[r], Nobody}
            /\ Nobody \in {r, Nobody} \cup Strangers
            /\ name[r] \in {name[r], slot[r], "none", "empty"}
            /\ gone \subseteq gone' /\ gone' \subseteq gone \cup ({slot[r]} \cap Entries)
        BY <2>2, <2>3, <3>2, <4>1
      <4> QED BY <2>1, <4>1, <4>2, PlacesStep, ZenonT(60)
    <3> QED BY <3>1, <3>2
  <2>6. CASE Restore(r)
    <3>1. CASE ~CanRestore(r)
      <4>1. UNCHANGED <<name, slot, gone>>
        BY <2>6, <3>1 DEF Restore
      <4> QED BY <1>a, <2>1, <4>1
    <3>2. CASE CanRestore(r)
      <4>1. /\ \E y \in {"none", "empty"} : slot' = [slot EXCEPT ![r] = y]
            /\ name' = [name EXCEPT ![r] = slot[r]] /\ gone' = gone
        <5>1. /\ name' = [name EXCEPT ![r] = slot[r]]
              /\ gone' = gone \cup ({name[r]} \ {Nobody}) /\ RemoveSlot(r)
          BY <2>6, <3>2 DEF Restore
        <5>2. gone' = gone
          BY <3>2, <5>1 DEF CanRestore
        <5> QED BY <5>1, <5>2 DEF RemoveSlot
      <4>2. slot[r] \in Entries
        BY <2>6, RemovalOf DEF Restore, At, Recorded, Captured
      <4>3. /\ slot[r] \in {r} \cup Strangers /\ slot[r] \notin {"none", "empty"}
            /\ slot[r] \notin gone' /\ "none" \notin gone' /\ "empty" \notin gone'
            /\ gone \subseteq gone' /\ gone' \subseteq gone \cup ({slot[r]} \cap Entries)
        BY <1>0, <2>2, <2>3, <4>1, <4>2
      <4>4. PICK y \in {"none", "empty"} : slot' = [slot EXCEPT ![r] = y]
        BY <4>1
      <4>5. y # slot[r] /\ y \notin gone' /\ y \in {r, "none", "empty"} \cup Strangers
        BY <4>3
      <4> QED BY <2>1, <4>1, <4>3, <4>4, <4>5, PlacesStep, ZenonT(60)
    <3> QED BY <3>1, <3>2
  <2>7. CASE RemoveEntry(r)
    <3>1. CASE slot[r] \in full \cup Files
      BY <1>a, <2>1, <2>7, <3>1 DEF RemoveEntry
    <3>2. CASE slot[r] \notin full \cup Files
      <4>1. /\ slot' = [slot EXCEPT ![r] = "empty"] /\ name' = name
            /\ gone' = gone \cup {slot[r]}
        BY <2>7, <3>2 DEF RemoveEntry
      <4>2. slot[r] \in Entries
        BY <2>7, RemovalOf DEF RemoveEntry, At, Recorded, Captured
      <4>3. /\ name[r] \notin gone' /\ "empty" \notin gone'
            /\ gone \subseteq gone' /\ gone' \subseteq gone \cup ({slot[r]} \cap Entries)
        BY <1>0, <2>2, <2>3, <4>1, <4>2
      <4>4. name' = [name EXCEPT ![r] = name[r]] /\ name[r] # "empty"
            /\ name[r] \in {r, Nobody} \cup Strangers
        BY <2>2, <2>3, <4>1
      <4> QED BY <2>1, <4>1, <4>3, <4>4, PlacesStep, ZenonT(60)
    <3> QED BY <3>1, <3>2
  <2> QED BY <1>6, <2>4, <2>5, <2>6, <2>7
<1> QED
  BY <1>1, <1>2, <1>3, <1>4, <1>5, <1>6 DEF DirStep, RemovalStep

(* A step about one directory: it leaves the others' records alone.          *)
Only(r) ==
  /\ gone \subseteq gone'
  /\ \A q \in Roots \ {r} :
       /\ slot'[q] = slot[q] /\ root'[q] = root[q]
       /\ life'[q] = life[q] /\ told'[q] = told[q]

(* Which leaves it to show what it says of that one.                         *)
LEMMA TellOne ==
  ASSUME TellInv, NEW r \in Roots, Only(r),
         job' = job \/ {job.root, job'.root} \subseteq {r, Nobody},
         DOMAIN told' = Roots, Recorded(r)'
  PROVE  TellInv'
<1>1. ASSUME NEW q \in Roots \ {r} PROVE Recorded(q)'
  <2>1. q # Nobody /\ Recorded(q)
    BY DEF TellInv
  <2>2. job' = job \/ (job.root # q /\ job'.root # q)
    BY <2>1
  <2> QED
    BY <2>1, <2>2 DEF Only, Recorded, SlotTold, LossTold
<1> QED
  BY <1>1 DEF TellInv

(* Steps that change nothing of this.                                        *)
LEMMA TellStutter == TellInv /\ UNCHANGED tellState => TellInv'
  BY DEF TellInv, Recorded, SlotTold, LossTold, tellState

(* A removal that answers: one that drops what a failed creation opened may  *)
(* say nothing, any other has to have named what it leaves.                  *)
LEMMA TellAnswers ==
  ASSUME DirInv, TellInv, NEW r \in Roots, NEW was \in Handed, NEW result, NEW places,
         Return(r, was, result, places), job.root \in {r, Nobody},
         root' = root, gone \subseteq gone',
         \A q \in Roots \ {r} : slot'[q] = slot[q],
         life[r] # "opened" =>
           /\ slot'[r] \in Entries => "slot" \in places \cup told[r]
           /\ root[r] \in gone' \/ slot'[r] = root[r] \/ "name" \in places \cup told[r]
  PROVE  TellInv'
<1>0. was \in Lives
  BY DEF Lives
<1>1. /\ job' = Idle /\ job'.root = Nobody /\ Nobody # r
      /\ \A q \in Roots : q # r => life'[q] = life[q]
      /\ life[r] = "opened" => life'[r] = "lost" /\ told' = told
  BY <1>0, Returned DEF DirInv, Idle
<1>2. life[r] # "opened" => told' = [told EXCEPT ![r] = @ \cup places]
  BY DEF Return
<1>3. /\ DOMAIN told' = Roots /\ \A q \in Roots \ {r} : told'[q] = told[q]
      /\ life[r] # "opened" => told'[r] = told[r] \cup places
  BY <1>1, <1>2 DEF TellInv
<1>4. Only(r)
  BY <1>1, <1>3 DEF Only
<1>5. Recorded(r)'
  <2>1. SlotTold(r)' /\ LossTold(r)'
    BY <1>1, <1>3 DEF SlotTold, LossTold
  <2>2. root'[r] \in Entries \cup {Nobody} /\ Entries' = Entries
    BY DEF TellInv, Recorded, Entries, Roots
  <2> QED BY <1>1, <2>1, <2>2 DEF Recorded
<1> QED
  BY <1>1, <1>3, <1>4, <1>5, TellOne

(* A removal that goes on.                                                   *)
LEMMA TellGoesOn ==
  ASSUME DirInv, TellInv, NEW r \in Roots, NEW call \in Calls, Continue(r, call),
         job.root \in {r, Nobody}, life[r] \in {"opened", "live"},
         root' = root, gone \subseteq gone',
         \A q \in Roots \ {r} : slot'[q] = slot[q],
         slot'[r] \in Entries => "slot" \in told[r] \/ call \in Captured,
         call \in Captured => slot'[r] \in Entries
  PROVE  TellInv'
<1>1. job'.root = r /\ job'.call = call /\ life' = life /\ told' = told
  BY Continued DEF DirInv, Continue
<1>2. Only(r)
  BY <1>1 DEF Only
<1>3. Recorded(r)'
  <2>1. Recorded(r) /\ life'[r] \notin {"finished", "retained", "dropped"}
    BY <1>1 DEF TellInv
  <2> QED BY <1>1, <2>1 DEF Recorded, SlotTold, LossTold
<1> QED
  BY <1>1, <1>2, <1>3, TellOne DEF TellInv

(* A creation's steps: there is no removal of it, nor a record to say much.  *)
LEMMA TellCreating ==
  ASSUME DirInv, TellInv, Places, NEW r \in Roots, Creating(r)
  PROVE  TellInv'
<1>1. /\ life[r] \in Unopened /\ UNCHANGED <<slot, gone, told, job>>
      /\ \E to \in {"made", "lost", "live", "opened"} : life' = [life EXCEPT ![r] = to]
      /\ root' = root \/ root' = [root EXCEPT ![r] = name[r]]
  BY DEF Creating, MakeDirectory, LoseDirectory, OpenDirectory, Unopened
<1>2. /\ life'[r] \in {"made", "lost", "live", "opened"} /\ Only(r)
      /\ root'[r] \in {root[r], name[r]}
  BY <1>1 DEF Only, DirInv, DirTypes
<1>3. Recorded(r) /\ job.root # r /\ root'[r] \in Entries \cup {Nobody}
  BY <1>1, <1>2 DEF TellInv, Recorded, Unopened, Places
<1>4. Recorded(r)'
  BY <1>1, <1>2, <1>3 DEF Recorded, SlotTold, LossTold, Unopened
<1> QED
  BY <1>1, <1>2, <1>4, TellOne DEF TellInv

(* The early returns and the first step of landin_owned_remove.              *)
LEMMA TellRemove ==
  ASSUME DirInv, TellInv, NEW r \in Roots, Remove(r)
  PROVE  TellInv'
<1>0. /\ UNCHANGED <<slot, gone, root>> /\ job.root = Nobody
      /\ {"live", "retained", "dropped", "finished"} \subseteq Handed
      /\ "opened" \notin Handed
  BY DEF Remove, Resting, Idle, Handed
<1>1. Recorded(r)
  BY DEF TellInv
<1>2. ASSUME life[r] \in {"finished", "retained", "dropped"},
             NEW was \in {"dropped", life[r]}, NEW result, NEW places,
             Return(r, was, result, places)
      PROVE  TellInv'
  <2>1. was \in Handed
    BY <1>0, <1>2
  <2>2. /\ slot[r] \in Entries => "slot" \in told[r]
        /\ root[r] \in gone \/ slot[r] = root[r] \/ "name" \in told[r]
    BY <1>0, <1>1, <1>2 DEF Recorded, SlotTold, LossTold
  <2> QED
    BY <1>0, <1>2, <2>1, <2>2, TellAnswers
<1>3. CASE /\ life[r] \in {"opened", "live"}
           /\ Return(r, "live", "refused", {"name"})
  <2>1. life[r] # "opened" => (slot[r] \in Entries => "slot" \in told[r])
    BY <1>0, <1>1, <1>3 DEF Recorded, SlotTold
  <2> QED
    BY <1>0, <1>3, <2>1, TellAnswers
<1>4. CASE life[r] \in {"opened", "live"} /\ Continue(r, "allocate")
  <2>1. slot[r] \in Entries => "slot" \in told[r]
    BY <1>0, <1>1, <1>4 DEF Recorded, SlotTold
  <2>2. "allocate" \in Calls \ Captured
    BY DEF Calls, Captured
  <2> QED
    BY <1>0, <1>4, <2>1, <2>2, TellGoesOn
<1>5. \/ life[r] \in {"finished", "dropped"} /\ Return(r, "dropped", "absent", {})
      \/ life[r] \in {"finished", "dropped"} /\ Return(r, life[r], "refused", {"name"})
      \/ life[r] = "retained" /\ Return(r, "retained", "refused", {})
      \/ life[r] \in {"opened", "live"} /\ Return(r, "live", "refused", {"name"})
      \/ life[r] \in {"opened", "live"} /\ Continue(r, "allocate")
  BY DEF Remove
<1> QED
  BY <1>2, <1>3, <1>4, <1>5

(* Every step of a removal.                                                  *)
LEMMA TellRemoval == DirInv /\ TellInv /\ Places /\ RemovalStep => TellInv'
<1> SUFFICES ASSUME DirInv, TellInv, Places, NEW r \in Roots,
                    \/ Allocate(r) \/ CaptureEntry(r) \/ Compare(r) \/ Restore(r)
                    \/ EmptyRoot(r) \/ RemoveEntry(r) \/ Retire(r)
             PROVE  TellInv'
  BY DEF RemovalStep
<1>0. /\ DOMAIN name = Roots /\ DOMAIN slot = Roots
      /\ "none" \notin Entries /\ "empty" \notin Entries /\ Nobody \notin Entries
      /\ {"live", "retained", "finished"} \subseteq Handed
      /\ Captured \subseteq Calls /\ {"capture", "retire"} \subseteq Calls \ Captured
      /\ {"compare", "restore", "empty", "rmdir"} = Captured
  BY DEF Places, Entries, Handed, Captured, Calls
<1>1. /\ job.root = r /\ life[r] \in {"opened", "live"} /\ Recorded(r)
      /\ root' = root
  BY RemovalOf
<1>2. job.call \in {"empty", "rmdir"} => slot[r] = root[r]
  BY <1>1 DEF DirInv, SlotOwned
<1>3. job.call = "retire" => root[r] \in gone
  BY <1>1 DEF DirInv, FinishedGone
<1>4. /\ job.call \notin Captured /\ slot[r] \in Entries => "slot" \in told[r]
      /\ job.call \in Captured => slot[r] \in Entries
  BY <1>1 DEF Recorded, SlotTold
<1>5. CASE Allocate(r)
  <2>1. /\ gone' = gone
        /\ \E left \in {"none", "empty"} : slot' = [slot EXCEPT ![r] = left]
        /\ \/ Continue(r, "capture") \/ Return(r, "live", "refused", {"name"})
    BY <1>5 DEF Allocate
  <2>2. slot'[r] \notin Entries /\ \A q \in Roots \ {r} : slot'[q] = slot[q]
    BY <1>0, <2>1
  <2> QED BY <1>0, <1>1, <2>1, <2>2, TellGoesOn, TellAnswers
<1>6. CASE CaptureEntry(r)
  <2>1. CASE name[r] = Nobody
    <3>1. /\ gone' = gone /\ Return(r, "live", "refused", {"name"})
          /\ \E left \in {"none", "empty"} : slot' = [slot EXCEPT ![r] = left]
      BY <1>6, <2>1 DEF CaptureEntry, RemoveSlot
    <3>2. slot'[r] \notin Entries /\ \A q \in Roots \ {r} : slot'[q] = slot[q]
      BY <1>0, <3>1
    <3> QED BY <1>0, <1>1, <3>1, <3>2, TellAnswers
  <2>2. CASE name[r] # Nobody
    <3>1. gone' = gone /\ Continue(r, "compare") /\ slot' = [slot EXCEPT ![r] = name[r]]
      BY <1>6, <2>2 DEF CaptureEntry
    <3>2. slot'[r] \in Entries /\ \A q \in Roots \ {r} : slot'[q] = slot[q]
      BY <1>0, <2>2, <3>1 DEF Places, Entries
    <3> QED BY <1>0, <1>1, <3>1, <3>2, TellGoesOn
  <2> QED BY <2>1, <2>2
<1>7. CASE Compare(r)
  <2>1. /\ UNCHANGED <<slot, gone>> /\ slot[r] \in Entries
        /\ Continue(r, "empty") \/ Continue(r, "restore")
    BY <1>0, <1>4, <1>7 DEF Compare, At
  <2> QED BY <1>0, <1>1, <2>1, TellGoesOn
<1>8. CASE Restore(r)
  <2>1. CASE CanRestore(r)
    <3>1. /\ gone' = gone /\ Return(r, "live", "refused", {"name"})
          /\ \E left \in {"none", "empty"} : slot' = [slot EXCEPT ![r] = left]
      <4>1. /\ Return(r, "live", "refused", {"name"})
            /\ gone' = gone \cup ({name[r]} \ {Nobody}) /\ RemoveSlot(r)
        BY <1>8, <2>1 DEF Restore
      <4>2. gone' = gone
        BY <2>1, <4>1 DEF CanRestore
      <4> QED BY <4>1, <4>2 DEF RemoveSlot
    <3>2. slot'[r] \notin Entries /\ \A q \in Roots \ {r} : slot'[q] = slot[q]
      BY <1>0, <3>1
    <3> QED BY <1>0, <1>1, <3>1, <3>2, TellAnswers
  <2>2. CASE ~CanRestore(r)
    BY <1>0, <1>1, <1>8, <2>2, TellAnswers DEF Restore
  <2> QED BY <2>1, <2>2
<1>9. CASE EmptyRoot(r)
  <2>1. slot[r] = root[r] /\ slot[r] \in Entries /\ UNCHANGED <<slot, gone>>
    BY <1>0, <1>2, <1>4, <1>9 DEF EmptyRoot, At
  <2>2. Continue(r, "rmdir") \/ Return(r, "retained", "refused", {"slot"})
    BY <1>9 DEF EmptyRoot
  <2> QED BY <1>0, <1>1, <2>1, <2>2, TellGoesOn, TellAnswers
<1>10. CASE RemoveEntry(r)
  <2>1. slot[r] = root[r]
    BY <1>2, <1>10 DEF RemoveEntry, At
  <2>2. CASE slot[r] \in full \cup Files
    BY <1>0, <1>1, <1>10, <2>1, <2>2, TellAnswers DEF RemoveEntry
  <2>3. CASE slot[r] \notin full \cup Files
    <3>1. /\ gone' = gone \cup {slot[r]} /\ slot' = [slot EXCEPT ![r] = "empty"]
          /\ Continue(r, "retire")
      BY <1>10, <2>3 DEF RemoveEntry
    <3> QED BY <1>0, <1>1, <3>1, TellGoesOn
  <2> QED BY <2>2, <2>3
<1>11. CASE Retire(r)
  <2>1. root[r] \in gone /\ gone' = gone /\ (slot[r] \in Entries => "slot" \in told[r])
    BY <1>0, <1>3, <1>4, <1>11 DEF Retire, At, Captured
  <2>2. slot' = slot \/ slot' = [slot EXCEPT ![r] = "none"]
    BY <1>11 DEF Retire
  <2>3. \E result, places : Return(r, "finished", result, places)
    BY <1>11 DEF Retire
  <2> QED BY <1>0, <1>1, <2>1, <2>2, <2>3, TellAnswers
<1> QED
  BY <1>5, <1>6, <1>7, <1>8, <1>9, <1>10, <1>11

(* Every step of the composition keeps the records.                          *)
LEMMA TellNext == DirInv /\ TellInv /\ Places /\ [Next]_vars => TellInv'
<1> SUFFICES ASSUME DirInv, TellInv, Places, DirStep PROVE TellInv'
  BY EveryDirStep
<1>1. CASE UNCHANGED ownedVars \/ UNCHANGED dirVars
  BY <1>1, TellStutter DEF ownedVars, dirVars, tellState
<1>2. CASE \E r \in Roots : WriteInto(r)
  BY <1>2, TellStutter DEF WriteInto, tellState
<1>3. CASE OtherProcess
  BY <1>3, TellStutter DEF OtherProcess, tellState
<1> QED
  BY <1>1, <1>2, <1>3, TellCreating, TellRemove, TellRemoval DEF DirStep

(* Nothing has been made, told or removed at first.                          *)
LEMMA TellInit == Init => TellInv /\ Places
<1> SUFFICES ASSUME Init PROVE TellInv /\ Places
  OBVIOUS
<1>1. /\ name = [r \in Roots |-> Nobody] /\ slot = [r \in Roots |-> "none"]
      /\ gone = {} /\ life = [r \in Roots |-> "unmade"]
      /\ told = [r \in Roots |-> {}] /\ job.root = Nobody
      /\ root = [r \in Roots |-> Nobody] /\ "none" \notin Entries
  BY DEF Init, OwnedInit, Idle, Entries
<1>2. ASSUME NEW r \in Roots PROVE Recorded(r)
  BY <1>1, <1>2 DEF Recorded, SlotTold, LossTold
<1>3. Places
  BY <1>1 DEF Places, Entries
<1> QED BY <1>1, <1>2, <1>3 DEF TellInv

(* When no removal is under way, every entry left in a retirement slot has   *)
(* been named in a reason, and so has every scratch directory left under its *)
(* name after its record was dropped, whichever calls failed and whatever    *)
(* other processes did in between; what a failed creation leaves is not.     *)
THEOREM StrandedIsTold == Spec => []StrandedTold
<1>1. ASSUME TellInv, Places PROVE StrandedTold
  <2> SUFFICES ASSUME Resting, NEW r \in Roots
               PROVE  /\ slot[r] \in Entries => "slot" \in told[r] \/ life[r] = "lost"
                      /\ life[r] = "dropped" /\ name[r] = root[r] => "name" \in told[r]
    BY DEF StrandedTold
  <2>1. Recorded(r) /\ job.root # r
    BY <1>1 DEF TellInv, Resting, Idle
  <2>2. name[r] \notin gone /\ name[r] # slot[r]
    BY <1>1 DEF Places
  <2> QED BY <2>1, <2>2 DEF Recorded, SlotTold, LossTold
<1>2. DirInv /\ TellInv /\ Places /\ [Next]_vars => (DirInv /\ TellInv /\ Places)'
  BY DirNext, TellNext, PlacesNext
<1>3. Init => DirInv /\ TellInv /\ Places
  BY DirInit, TellInit
<1>4. TellInv /\ Places => StrandedTold
  BY <1>1
<1> QED BY <1>2, <1>3, <1>4, PTL DEF Spec

-----------------------------------------------------------------------------
(* The command's directory. Every way to the end of the command goes through *)
(* its removal or through a failed creation (Attempted); a removal that is   *)
(* not under way any more has removed it or named something, and a creation  *)
(* that failed is followed by neither a tool nor a program (Untouched).      *)
Attempted ==
  \/ life[Workspace] \in {"unmade", "lost"}
  \/ root[Workspace] \in gone
  \/ told[Workspace] # {}
  \/ job.root = Workspace

OnTheWayOut ==
  /\ pc = "prepare" => life[Workspace] = "unmade"
  /\ pc \in {"finish", "exit"} \/ (pc \in {"check", "report"} /\ ~launch) => Attempted

Untouched ==
  life[Workspace] \notin Handed =>
    /\ Workspace \notin full
    /\ leader = "none" /\ prog = "none" /\ kin = {} /\ ~launch
    /\ pc \in {"prepare", "prepare_open", "unprepare", "check", "report", "finish",
               "exit"}

(* A removal that answers has removed the directory, named something, or was *)
(* the failed creation's own.                                                *)
LEMMA AnswerAttempts ==
  ASSUME DirInv, TellInv, NEW was \in Handed, NEW result, NEW places,
         Return(Workspace, was, result, places), root' = root,
         \/ life[Workspace] = "opened" \/ root[Workspace] \in gone'
         \/ told[Workspace] \cup places # {}
  PROVE  Attempted'
<1>0. Workspace \in Roots /\ was \in Lives
  BY DEF Roots, Lives
<1>1. CASE life[Workspace] = "opened"
  BY <1>0, <1>1, Returned DEF DirInv, Attempted
<1>2. CASE life[Workspace] # "opened"
  <2>1. told'[Workspace] = told[Workspace] \cup places
    BY <1>0, <1>2 DEF Return, TellInv
  <2> QED BY <1>2, <2>1 DEF Attempted
<1> QED BY <1>1, <1>2

(* Asking for the removal.                                                   *)
LEMMA RemoveAttempts ==
  ASSUME DirInv, TellInv, Places, Remove(Workspace)
  PROVE  Attempted'
<1>1. Workspace \in Roots /\ Workspace # Nobody
  BY DEF Roots
<1>2. job.root = Nobody /\ gone' = gone /\ root' = root
      /\ {"live", "retained", "dropped", "finished"} \subseteq Handed
  BY DEF Remove, Resting, Idle, Handed
<1>3. Recorded(Workspace)
  BY <1>1 DEF TellInv
<1>4. life[Workspace] \in {"finished", "retained", "dropped"}
        => root[Workspace] \in gone \/ told[Workspace] # {}
  <2> SUFFICES ASSUME life[Workspace] \in {"finished", "retained", "dropped"},
                      slot[Workspace] = root[Workspace]
               PROVE  told[Workspace] # {}
    BY <1>3 DEF Recorded, LossTold
  <2>1. slot[Workspace] \in Entries
    <3>1. /\ root[Workspace] \in Entries \cup {Nobody}
          /\ slot[Workspace] \in Entries \cup {"none", "empty"}
      BY <1>1, <1>3 DEF Recorded, Places
    <3> QED BY <3>1
  <2> QED BY <1>1, <1>2, <1>3, <2>1 DEF Recorded, SlotTold
<1>5. CASE Continue(Workspace, "allocate")
  BY <1>5 DEF Continue, Attempted
<1>6. ASSUME NEW was \in {"dropped", life[Workspace]}, NEW result, NEW places,
             life[Workspace] \in {"finished", "retained", "dropped"},
             Return(Workspace, was, result, places)
      PROVE  Attempted'
  BY <1>2, <1>4, <1>6, AnswerAttempts
<1>7. CASE Return(Workspace, "live", "refused", {"name"})
  BY <1>2, <1>7, AnswerAttempts
<1> QED
  BY <1>5, <1>6, <1>7 DEF Remove

(* A removal under way.                                                      *)
LEMMA RemovalAttempts ==
  ASSUME DirInv, TellInv, Attempted, RemovalStep
  PROVE  Attempted'
<1>0. Workspace \in Roots /\ DOMAIN told = Roots
      /\ {"live", "retained", "finished"} \subseteq Handed
      /\ "unmade" \notin Handed /\ "lost" \notin Handed
  BY DEF Roots, TellInv, Handed
<1>1. CASE life[Workspace] \in {"unmade", "lost"}
  BY <1>0, <1>1, RecordsMove DEF Attempted
<1>2. PICK r \in Roots :
        \/ Allocate(r) \/ CaptureEntry(r) \/ Compare(r) \/ Restore(r)
        \/ EmptyRoot(r) \/ RemoveEntry(r) \/ Retire(r)
  BY DEF RemovalStep
<1>3. gone \subseteq gone' /\ root' = root
  BY <1>2 DEF Allocate, CaptureEntry, Compare, Restore, EmptyRoot, RemoveEntry, Retire
<1>4. /\ told' = told \/ \E x : told' = [told EXCEPT ![r] = @ \cup x]
      /\ job.root = r
  BY <1>2 DEF Allocate, CaptureEntry, Compare, Restore, EmptyRoot, RemoveEntry,
     Retire, Return, Continue, At
<1>5. told[Workspace] # {} => told'[Workspace] # {}
  BY <1>0, <1>4
<1>6. CASE r = Workspace
  <2>1. job.call = "retire" => root[r] \in gone
    BY <1>4 DEF DirInv, FinishedGone
  <2>2. \/ \E call : Continue(r, call)
        \/ \E was \in {"live", "retained", "finished"} :
           \E result : \E places \in {{"name"}, {"slot"}, {"name", "slot"}} :
             Return(r, was, result, places)
        \/ root[r] \in gone
    BY <1>2, <2>1 DEF Allocate, CaptureEntry, Compare, Restore, EmptyRoot, RemoveEntry,
       Retire, At
  <2>3. ASSUME NEW call, Continue(r, call) PROVE Attempted'
    BY <1>6, <2>3 DEF Continue, Attempted
  <2>4. ASSUME NEW was \in {"live", "retained", "finished"}, NEW result,
               NEW places \in {{"name"}, {"slot"}, {"name", "slot"}},
               Return(r, was, result, places)
        PROVE  Attempted'
    BY <1>0, <1>3, <1>6, <2>4, AnswerAttempts
  <2> QED
    BY <1>3, <1>6, <2>2, <2>3, <2>4 DEF Attempted
<1> QED
  BY <1>1, <1>3, <1>4, <1>5, <1>6 DEF Attempted

(* A step that is not about the command's directory.                         *)
LEMMA AttemptElsewhere ==
  ASSUME DirInv, TellInv, NEW r \in Roots \ {Workspace}, Attempted,
         Creating(r) \/ Remove(r) \/ WriteInto(r)
  PROVE  Attempted'
<1>0. Workspace \in Roots
  BY DEF Roots
<1>1. CASE Creating(r)
  <2>1. /\ UNCHANGED <<gone, told, job>>
        /\ \E to : life' = [life EXCEPT ![r] = to]
        /\ root' = root \/ root' = [root EXCEPT ![r] = name[r]]
    BY <1>1 DEF Creating, MakeDirectory, LoseDirectory, OpenDirectory
  <2> QED BY <1>0, <2>1 DEF Attempted, DirInv, DirTypes
<1>2. CASE Remove(r)
  <2>1. UNCHANGED <<gone, root>> /\ job.root = Nobody
    BY <1>2 DEF Remove, Resting, Idle
  <2>2. life[Workspace] \in {"unmade", "lost"} => life'[Workspace] = life[Workspace]
    BY <1>0, <1>2, RecordsMove DEF Handed
  <2>3. told' = told \/ \E x : told' = [told EXCEPT ![r] = @ \cup x]
    BY <1>2 DEF Remove, Return, Continue
  <2>4. told'[Workspace] = told[Workspace]
    BY <1>0, <2>3 DEF TellInv
  <2> QED BY <1>0, <2>1, <2>2, <2>4 DEF Attempted
<1>3. CASE WriteInto(r)
  BY <1>3 DEF WriteInto, Attempted
<1> QED BY <1>1, <1>2, <1>3

(* Every step of the composition keeps OnTheWayOut.                          *)
LEMMA AttemptNext ==
  DirInv /\ TellInv /\ Places /\ OnTheWayOut /\ [Next]_vars => OnTheWayOut'
<1> SUFFICES ASSUME DirInv, TellInv, Places, OnTheWayOut, [Next]_vars
             PROVE  OnTheWayOut'
  OBVIOUS
<1>0. Workspace \in Roots
  BY DEF Roots
<1>a. ASSUME Attempted, UNCHANGED ownedVars \/ UNCHANGED dirVars PROVE Attempted'
  BY <1>a DEF Attempted, ownedVars, dirVars
<1>1. CASE CommandStep
  <2> USE DEF Goto, OnTheWayOut
  <2>1. CASE Prepare
    BY <2>1, <1>a DEF Prepare, Attempted
  <2>2. CASE OpenPrepared
    <3>1. pc' = "check" => LoseDirectory(Workspace)
      BY <2>2 DEF OpenPrepared
    <3>2. pc' = "check" => life'[Workspace] = "lost"
      BY <1>0, <3>1 DEF LoseDirectory, DirInv, DirTypes
    <3> QED BY <2>2, <3>2 DEF OpenPrepared, Attempted
  <2>3. CASE Unprepare
    BY <2>3, RemoveAttempts DEF Unprepare
  <2>4. CASE FinishRun
    BY <2>4, RemoveAttempts DEF FinishRun
  <2>5. CASE CheckCancelled
    BY <2>5, <1>a, RemoveAttempts DEF CheckCancelled
  <2>6. CASE Report
    BY <2>6, <1>a DEF Report, commandVars, programVars
  <2>7. CASE Launch \/ Mask \/ Catch \/ Spawn \/ Unmask \/ Wait \/ Uncatch
    BY <2>7 DEF Launch, Mask, Catch, Spawn, Unmask, Wait, Uncatch
  <2>8. CASE Clean
    BY <2>8, RemoveAttempts DEF Clean
  <2>9. CASE Finish
    BY <2>9, <1>a DEF Finish
  <2> QED
    BY <1>1, <2>1, <2>2, <2>3, <2>4, <2>5, <2>6, <2>7, <2>8, <2>9 DEF CommandStep
<1>2. CASE ToolStep
  <2>1. pc' \in ToolSteps
    BY <1>2 DEF ToolStep, Begin, MakeCapture, OpenCapture, UnmakeCapture, StartTool,
       PollCancelled, PollReaped, PollLate, Forward, AfterGroup, Observe, Direct,
       Grace, Refused, StopGroup, StopLeader, Reap, ReadCapture, Release,
       Released, Unwind, Goto, ToolSteps
  <2> QED BY <2>1 DEF OnTheWayOut, ToolSteps
<1>3. CASE RemovalStep /\ UNCHANGED <<pc, commandVars, toolVars>>
  <2>1. life[Workspace] = "unmade" => life'[Workspace] = "unmade"
    BY <1>0, <1>3, RecordsMove DEF Handed
  <2> QED BY <1>3, <2>1, RemovalAttempts DEF OnTheWayOut, commandVars, programVars
<1>4. CASE RemoveAgain
  BY <1>4, RemoveAttempts DEF RemoveAgain, OnTheWayOut, Goto
<1>5. CASE (\E s \in Signals : Signal(s)) \/ ProgramExits \/ UNCHANGED vars
  BY <1>5, <1>a DEF Signal, ProgramExits, vars, OnTheWayOut, commandVars, programVars,
     ownedVars
<1>6. CASE \/ Family /\ UNCHANGED commandVars
           \/ OtherProcess /\ UNCHANGED <<pc, commandVars, toolVars>>
  <2>1. UNCHANGED <<pc, launch, gone, root, life, told, job>>
    BY <1>6 DEF Family, LeaderExits, Fork, KinExits, LeavesGroup, Reuse, Competitor,
       FamilyWrites, WriteInto, OtherProcess, ownedVars, commandVars, programVars
  <2> QED BY <2>1 DEF OnTheWayOut, Attempted
<1> QED
  BY <1>1, <1>2, <1>3, <1>4, <1>5, <1>6 DEF Next, Supervisor

(* A caller that was given the path keeps a record of what became of it.     *)
LEMMA HandedStays ==
  ASSUME DirInv, TellInv, [Next]_vars, life[Workspace] \in Handed
  PROVE  life'[Workspace] \in Handed
<1>0. Workspace \in Roots /\ "opened" \notin Handed /\ Handed \cap Unopened = {}
  BY DEF Roots, Handed, Unopened
<1>1. DirStep
  BY EveryDirStep
<1>2. ASSUME NEW r \in Roots, Creating(r) PROVE life'[Workspace] = life[Workspace]
  <2>1. life[r] \in Unopened /\ \E to : life' = [life EXCEPT ![r] = to]
    BY <1>2 DEF Creating, MakeDirectory, LoseDirectory, OpenDirectory, Unopened
  <2>2. r # Workspace
    BY <1>0, <2>1
  <2> QED BY <1>0, <2>1, <2>2 DEF DirInv, DirTypes
<1>3. CASE RemovalStep \/ \E r \in Roots : Remove(r)
  BY <1>0, <1>3, RecordsMove
<1>4. CASE \/ UNCHANGED ownedVars \/ UNCHANGED dirVars \/ OtherProcess
           \/ \E r \in Roots : WriteInto(r)
  BY <1>4 DEF ownedVars, dirVars, OtherProcess, WriteInto
<1> QED BY <1>1, <1>2, <1>3, <1>4 DEF DirStep

(* Until then neither a tool nor a program has started.                      *)
LEMMA UntouchedNext == DirInv /\ TellInv /\ Untouched /\ [Next]_vars => Untouched'
<1> SUFFICES ASSUME DirInv, TellInv, Untouched, [Next]_vars,
                    life'[Workspace] \notin Handed
             PROVE  /\ Workspace \notin full'
                    /\ leader' = "none" /\ prog' = "none" /\ kin' = {} /\ ~launch'
                    /\ pc' \in {"prepare", "prepare_open", "unprepare", "check",
                                "report", "finish", "exit"}
  BY DEF Untouched
<1>1. life[Workspace] \notin Handed
  BY HandedStays
<1>2. /\ Workspace \notin full
      /\ leader = "none" /\ prog = "none" /\ kin = {} /\ ~launch
      /\ pc \in {"prepare", "prepare_open", "unprepare", "check", "report", "finish",
                 "exit"}
  BY <1>1 DEF Untouched
<1>3. CASE CommandStep
  <2> USE <1>2 DEF Goto
  <2>0. Workspace \in Roots /\ "live" \in Handed
    BY DEF Roots, Handed
  <2>1. CASE Prepare
    BY <2>1 DEF Prepare, MakeDirectory, dirVars, commandVars, programVars, toolVars,
       family
  <2>2. CASE OpenPrepared
    <3>1. ~OpenDirectory(Workspace, "live")
      BY <2>0 DEF OpenDirectory, DirInv, DirTypes
    <3> QED BY <2>2, <3>1 DEF OpenPrepared, LoseDirectory, commandVars, programVars,
            toolVars, family
  <2>3. CASE Unprepare
    BY <2>3 DEF Unprepare, Remove, commandVars, programVars, toolVars, family
  <2>4. CASE CheckCancelled
    BY <2>4 DEF CheckCancelled, Remove, ownedVars, toolVars, family
  <2>5. CASE Report \/ Finish
    BY <2>5 DEF Report, Finish, commandVars, programVars, ownedVars, toolVars, family
  <2>6. CASE ~(Prepare \/ OpenPrepared \/ Unprepare \/ CheckCancelled \/ Report \/ Finish)
    BY <1>3, <2>6 DEF CommandStep, FinishRun, Launch, Mask, Catch, Spawn, Unmask, Wait,
       Uncatch, Clean
  <2> QED BY <2>1, <2>2, <2>3, <2>4, <2>5, <2>6
<1>4. CASE ToolStep
  <2>1. pc \in ToolSteps
    BY <1>4 DEF ToolStep, Begin, MakeCapture, OpenCapture, UnmakeCapture, StartTool,
       PollCancelled, PollReaped, PollLate, Forward, Observe, Direct, Grace, Refused,
       StopGroup, StopLeader, Reap, ReadCapture, Release, Released, Unwind, Goto,
       ToolSteps
  <2> QED BY <1>2, <2>1 DEF ToolSteps
<1>5. CASE RemovalStep /\ UNCHANGED <<pc, commandVars, toolVars>>
  <2>1. full' \subseteq full
    BY <1>5 DEF RemovalStep, Allocate, CaptureEntry, Compare, Restore, EmptyRoot,
       RemoveEntry, Retire
  <2> QED BY <1>2, <1>5, <2>1 DEF commandVars, programVars, toolVars, family
<1>6. CASE RemoveAgain
  BY <1>1, <1>6 DEF RemoveAgain
<1>7. CASE (\E s \in Signals : Signal(s)) \/ ProgramExits \/ UNCHANGED vars
  <2>1. UNCHANGED <<pc, launch, prog, leader, kin, full>>
    <3>1. ASSUME NEW s \in Signals, Signal(s) PROVE UNCHANGED <<pc, launch, prog, leader, kin, full>>
      BY <3>1 DEF Signal, family, ownedVars
    <3>2. ~ProgramExits
      BY <1>2 DEF ProgramExits
    <3>3. CASE UNCHANGED vars
      BY <3>3 DEF vars, commandVars, programVars, toolVars, family, ownedVars
    <3> QED BY <1>7, <3>1, <3>2, <3>3
  <2> QED BY <1>2, <2>1
<1>8. CASE Family
  BY <1>2, <1>8 DEF Family, LeaderExits, Fork, KinExits, LeavesGroup, Reuse, Competitor,
     FamilyWrites
<1>9. CASE OtherProcess /\ UNCHANGED <<pc, commandVars, toolVars>>
  BY <1>2, <1>9 DEF OtherProcess, commandVars, programVars, toolVars, family
<1> QED
  BY <1>3, <1>4, <1>5, <1>6, <1>7, <1>8, <1>9 DEF Next, Supervisor

(* On every way out of `refine run` its directory is gone, a reason has      *)
(* named where something was left, or it was never handed out, and then      *)
(* nothing was written into it and neither a tool nor a program ran.         *)
THEOREM DirectoryIsAccounted == Spec => []DirectoryAccounted
<1>1. Init => OnTheWayOut /\ Untouched
  BY DEF Init, OwnedInit, ToolInit, OnTheWayOut, Untouched, Handed, Roots
<1>2. OnTheWayOut /\ Untouched => DirectoryAccounted
  <2> SUFFICES ASSUME OnTheWayOut, Untouched, pc = "exit", Resting,
                      life[Workspace] # "unmade"
               PROVE  \/ root[Workspace] \in gone \/ told[Workspace] # {}
                      \/ LeftUnused
    BY DEF DirectoryAccounted
  <2>1. Attempted /\ job.root # Workspace
    BY DEF OnTheWayOut, Resting, Idle, Roots
  <2> QED BY <2>1 DEF Attempted, Untouched, LeftUnused, Handed
<1>3. DirInv /\ TellInv /\ Places /\ OnTheWayOut /\ Untouched /\ [Next]_vars
        => (DirInv /\ TellInv /\ Places /\ OnTheWayOut /\ Untouched)'
  BY DirNext, TellNext, PlacesNext, AttemptNext, UntouchedNext
<1>4. Init => DirInv /\ TellInv /\ Places
  BY DirInit, TellInit
<1> QED BY <1>1, <1>2, <1>3, <1>4, PTL DEF Spec

-----------------------------------------------------------------------------
(* The streams. Each source is first moved to a number above the standard    *)
(* ones that no other source has, so no later action overwrites it.          *)

(* Where a source is moved to.                                               *)
LEMMA MovedAbove ==
  ASSUME NEW call \in SpawnCalls
  PROVE  /\ \A x \in Given(call) :
              /\ call[x] \in 0 .. MaxFd /\ Moved(call, x) \in 3 .. MaxFd + 4
              /\ call[x] > 2 => Moved(call, x) = call[x]
              /\ call[x] <= 2 => Moved(call, x) > MaxFd
         /\ \A x, y \in Given(call) : call[x] = call[y] => x = y
         /\ \A x, y \in Given(call) : Moved(call, x) = Moved(call, y) => x = y
         /\ Given(call) \subseteq Sources /\ "capture" \in Given(call)
         /\ \A x \in Sources : x \in Given(call) <=> call[x] # NoFd
<1>1. /\ \A x \in Given(call) : call[x] \in 0 .. MaxFd
      /\ \A x, y \in Given(call) : call[x] = call[y] => x = y
      /\ Given(call) \subseteq Sources /\ "capture" \in Given(call)
      /\ \A x \in Sources : x \in Given(call) <=> call[x] # NoFd
  BY DEF SpawnCalls, Given, Sources
<1>2. /\ Above("input") = MaxFd + 1 /\ Above("capture") = MaxFd + 2
      /\ Above("errors") = MaxFd + 3 /\ Above("directory") = MaxFd + 4
  BY DEF Above
<1>3. \A x \in Sources : Above(x) \in MaxFd + 1 .. MaxFd + 4
  BY <1>2, FdAssumption DEF Sources
<1>4. \A x, y \in Sources : Above(x) = Above(y) => x = y
  BY <1>2, FdAssumption DEF Sources
<1>5. \A x \in Given(call) : Moved(call, x) = IF call[x] <= 2 THEN Above(x) ELSE call[x]
  BY <1>1, FdAssumption DEF Moved
<1>6. \A x, y \in Given(call) : Moved(call, x) = Moved(call, y) => x = y
  BY <1>1, <1>3, <1>4, <1>5, FdAssumption
<1> QED
  BY <1>1, <1>3, <1>5, <1>6, FdAssumption

(* The caller's table.                                                       *)
LEMMA CallerTable ==
  ASSUME NEW call \in SpawnCalls, NEW closed \in SUBSET (0 .. 2)
  PROVE  /\ DOMAIN Caller(call, closed) = Numbers
         /\ \A x \in Given(call) : Caller(call, closed)[call[x]] = x
         /\ \A n \in Numbers : (\A x \in Given(call) : call[x] # n) =>
              Caller(call, closed)[n] =
                IF n \in 0 .. 2 \ closed THEN Own[n + 1] ELSE Closed
<1>1. ASSUME NEW x \in Given(call) PROVE Caller(call, closed)[call[x]] = x
  <2>1. call[x] \in Numbers
    BY MovedAbove, FdAssumption DEF Numbers
  <2>2. (CHOOSE y \in Given(call) : call[y] = call[x]) = x
    BY MovedAbove
  <2> QED
    BY <2>1, <2>2 DEF Caller
<1> QED
  BY <1>1 DEF Caller

(* Each file action on a table.                                              *)
LEMMA Acted ==
  ASSUME NEW t, DOMAIN t = Numbers, NEW n \in Numbers, NEW m \in Numbers
  PROVE  /\ DOMAIN Dup2(t, n, m) = Numbers /\ Dup2(t, n, m)[m] = t[n]
         /\ \A j \in Numbers : j # m => Dup2(t, n, m)[j] = t[j]
         /\ DOMAIN Close(t, m) = Numbers /\ Close(t, m)[m] = Closed
         /\ \A j \in Numbers : j # m => Close(t, m)[j] = t[j]
  BY DEF Dup2, Close

(* Moving a source loses none of the others.                                 *)
LEMMA MovedOne ==
  ASSUME NEW call \in SpawnCalls, NEW t, DOMAIN t = Numbers, NEW x \in Sources,
         \A y \in Given(call) : t[call[y]] = y
  PROVE  /\ DOMAIN Move(t, call, x) = Numbers
         /\ \A y \in Given(call) : Move(t, call, x)[call[y]] = y
         /\ x \in Given(call) => Move(t, call, x)[Moved(call, x)] = x
         /\ \A n \in Numbers : x \in Given(call) /\ n # Moved(call, x) =>
              Move(t, call, x)[n] = t[n]
         /\ x \notin Given(call) => Move(t, call, x) = t
<1>1. CASE x \notin Given(call)
  BY <1>1, MovedAbove DEF Move
<1>2. CASE x \in Given(call)
  <2>1. Move(t, call, x) = [t EXCEPT ![Moved(call, x)] = x]
    BY <1>2, MovedAbove DEF Move
  <2>2. Moved(call, x) \in Numbers
    BY <1>2, MovedAbove, FdAssumption DEF Numbers
  <2>3. ASSUME NEW y \in Given(call) PROVE Move(t, call, x)[call[y]] = y
    <3>1. call[y] = Moved(call, x) => y = x
      BY <1>2, MovedAbove, FdAssumption
    <3> QED
      BY <2>1, <2>2, <3>1
  <2> QED
    BY <1>2, <2>1, <2>2, <2>3
<1> QED BY <1>1, <1>2

(* Closing a moved source.                                                   *)
LEMMA ClosedOne ==
  ASSUME NEW call \in SpawnCalls, NEW t, DOMAIN t = Numbers, NEW x \in Sources
  PROVE  /\ DOMAIN CloseSource(t, call, x) = Numbers
         /\ x \in Given(call) => CloseSource(t, call, x)[Moved(call, x)] = Closed
         /\ \A n \in Numbers : (x \in Given(call) => n # Moved(call, x)) =>
              CloseSource(t, call, x)[n] = t[n]
         /\ \A n \in Numbers : t[n] = Closed => CloseSource(t, call, x)[n] = Closed
<1>1. CASE x \notin Given(call)
  BY <1>1, MovedAbove DEF CloseSource
<1>2. CASE x \in Given(call)
  <2>1. Moved(call, x) \in Numbers /\ CloseSource(t, call, x) = Close(t, Moved(call, x))
    BY <1>2, MovedAbove, FdAssumption DEF CloseSource, Numbers
  <2> QED
    BY <1>2, <2>1, Acted
<1> QED BY <1>1, <1>2

(* For every largest number, every choice of sources and of closed standard  *)
(* descriptors, the file actions of landin_tool_start_in_directory give the  *)
(* tool what their comment promises.                                         *)
LEMMA EveryStart ==
  ASSUME NEW call \in SpawnCalls, NEW closed \in SUBSET (0 .. 2)
  PROVE  Right(call, closed)
<1> DEFINE t0 == Caller(call, closed)
           a == Move(t0, call, "input")
           b == Move(a, call, "capture")
           c == Move(b, call, "errors")
           t1 == Move(c, call, "directory")
           in == IF call["input"] = NoFd THEN t1 ELSE Dup2(t1, Moved(call, "input"), 0)
           out == Dup2(in, Moved(call, "capture"), 1)
           err == Dup2(out, IF call["errors"] = NoFd THEN 1
                            ELSE Moved(call, "errors"), 2)
           none == IF NoInput(call) THEN Close(err, 0) ELSE err
           p == CloseSource(none, call, "input")
           q == CloseSource(p, call, "capture")
           r == CloseSource(q, call, "errors")
           t2 == CloseSource(r, call, "directory")
           G == Given(call)
           M(x) == Moved(call, x)
<1>0. /\ {"input", "capture", "errors", "directory"} \subseteq Sources
      /\ \A x \in G : x \in {"input", "capture", "errors", "directory"}
      /\ \A x \in {"input", "capture", "errors", "directory"} : x \in G <=> call[x] # NoFd
      /\ "capture" \in G
  BY MovedAbove DEF Sources
<1>1. /\ \A x \in G : M(x) \in Numbers /\ M(x) > 2 /\ M(x) \in Int
      /\ \A x, y \in G : M(x) = M(y) => x = y
      /\ 0 \in Numbers /\ 1 \in Numbers /\ 2 \in Numbers
  BY MovedAbove, FdAssumption DEF Numbers
<1>2. /\ DOMAIN t1 = Numbers
      /\ \A x \in G : t1[M(x)] = x
      /\ \A n \in Numbers : (\A x \in G : n # M(x)) => t1[n] = t0[n]
  <2> HIDE DEF t0, a, b, c, t1
  <2>1. DOMAIN t0 = Numbers /\ \A y \in G : t0[call[y]] = y
    BY CallerTable DEF t0
  <2>2. /\ DOMAIN a = Numbers /\ \A y \in G : a[call[y]] = y
        /\ "input" \in G => a[M("input")] = "input"
        /\ \A n \in Numbers : ("input" \in G => n # M("input")) => a[n] = t0[n]
    BY <1>0, <2>1, MovedOne DEF a
  <2>3. /\ DOMAIN b = Numbers /\ \A y \in G : b[call[y]] = y
        /\ "capture" \in G => b[M("capture")] = "capture"
        /\ \A n \in Numbers : ("capture" \in G => n # M("capture")) => b[n] = a[n]
    BY <1>0, <2>2, MovedOne DEF b
  <2>4. /\ DOMAIN c = Numbers /\ \A y \in G : c[call[y]] = y
        /\ "errors" \in G => c[M("errors")] = "errors"
        /\ \A n \in Numbers : ("errors" \in G => n # M("errors")) => c[n] = b[n]
    BY <1>0, <2>3, MovedOne DEF c
  <2>5. /\ DOMAIN t1 = Numbers /\ \A y \in G : t1[call[y]] = y
        /\ "directory" \in G => t1[M("directory")] = "directory"
        /\ \A n \in Numbers : ("directory" \in G => n # M("directory")) => t1[n] = c[n]
    BY <1>0, <2>4, MovedOne DEF t1
  <2> HIDE DEF M, G
  <2>6. \A x \in G : t1[M(x)] = x
    BY <1>0, <1>1, <2>2, <2>3, <2>4, <2>5
  <2> QED
    BY <2>2, <2>3, <2>4, <2>5, <2>6
<1>3. /\ DOMAIN none = Numbers
      /\ \A n \in Numbers : n > 2 => none[n] = t1[n]
      /\ none[1] = "capture"
      /\ none[2] = IF "errors" \in G THEN "errors" ELSE "capture"
      /\ none[0] = IF "input" \in G THEN "input"
                   ELSE IF NoInput(call) THEN Closed ELSE t1[0]
  <2> HIDE DEF t1
  <2>1. /\ DOMAIN in = Numbers /\ in[0] = IF "input" \in G THEN "input" ELSE t1[0]
        /\ \A n \in Numbers : n # 0 => in[n] = t1[n]
    <3>1. CASE "input" \in G
      <4>1. in = Dup2(t1, M("input"), 0) /\ M("input") \in Numbers
        BY <1>0, <1>1, <3>1
      <4>2. t1[M("input")] = "input"
        BY <1>2, <3>1
      <4> HIDE DEF in, M, G
      <4> QED BY <1>1, <1>2, <3>1, <4>1, <4>2, Acted
    <3>2. CASE "input" \notin G
      BY <1>0, <1>1, <1>2, <3>2
    <3> QED BY <3>1, <3>2
  <2> HIDE DEF in
  <2>2. /\ DOMAIN out = Numbers /\ out[1] = "capture"
        /\ \A n \in Numbers : n # 1 => out[n] = in[n]
    <3>1. in[M("capture")] = "capture"
      BY <1>0, <1>1, <1>2, <2>1
    <3> QED BY <1>0, <1>1, <2>1, <3>1, Acted
  <2> HIDE DEF out
  <2>3. /\ DOMAIN err = Numbers
        /\ err[2] = IF "errors" \in G THEN "errors" ELSE "capture"
        /\ \A n \in Numbers : n # 2 => err[n] = out[n]
    <3>1. CASE "errors" \in G
      <4>1. out[M("errors")] = "errors"
        BY <1>0, <1>1, <1>2, <2>1, <2>2, <3>1
      <4>2. err = Dup2(out, M("errors"), 2)
        BY <1>0, <3>1
      <4> QED BY <1>1, <2>2, <3>1, <4>1, <4>2, Acted
    <3>2. CASE "errors" \notin G
      <4>1. err = Dup2(out, 1, 2)
        BY <1>0, <3>2
      <4> QED BY <1>1, <2>2, <3>2, <4>1, Acted
    <3> QED BY <3>1, <3>2
  <2> HIDE DEF err
  <2>4. NoInput(call) => "input" \notin G
    BY <1>0 DEF NoInput
  <2>5. /\ DOMAIN none = Numbers
        /\ none[0] = IF NoInput(call) THEN Closed ELSE err[0]
        /\ \A n \in Numbers : n # 0 => none[n] = err[n]
    <3>1. CASE NoInput(call)
      BY <1>1, <2>3, <3>1, Acted
    <3>2. CASE ~NoInput(call)
      BY <2>3, <3>2
    <3> QED BY <3>1, <3>2
  <2> HIDE DEF none
  <2> QED
    BY <1>1, <2>1, <2>2, <2>3, <2>4, <2>5
<1>4. /\ \A x \in G : t2[M(x)] = Closed
      /\ \A n \in Numbers : (\A x \in G : n # M(x)) => t2[n] = none[n]
  <2> HIDE DEF none
  <2>1. /\ DOMAIN p = Numbers
        /\ "input" \in G => p[M("input")] = Closed
        /\ \A n \in Numbers : ("input" \in G => n # M("input")) => p[n] = none[n]
    BY <1>0, <1>3, ClosedOne
  <2> HIDE DEF p
  <2>2. /\ DOMAIN q = Numbers /\ q[M("capture")] = Closed
        /\ \A n \in Numbers : n # M("capture") => q[n] = p[n]
    BY <1>0, <2>1, ClosedOne
  <2> HIDE DEF q
  <2>3. /\ DOMAIN r = Numbers
        /\ "errors" \in G => r[M("errors")] = Closed
        /\ \A n \in Numbers : ("errors" \in G => n # M("errors")) => r[n] = q[n]
    BY <1>0, <2>2, ClosedOne
  <2> HIDE DEF r
  <2>4. /\ DOMAIN t2 = Numbers
        /\ "directory" \in G => t2[M("directory")] = Closed
        /\ \A n \in Numbers : ("directory" \in G => n # M("directory")) => t2[n] = r[n]
    BY <1>0, <2>3, ClosedOne
  <2> HIDE DEF t2, M, G
  <2> QED
    BY <1>0, <1>1, <2>1, <2>2, <2>3, <2>4
<1>5. Started(call, closed) =
        [files |-> t2,
         cwd |-> IF call["directory"] = NoFd THEN "caller" ELSE t1[M("directory")]]
  BY DEF Started
<1> HIDE DEF t0, t1, t2, none
<1>6. \A n \in 0 .. 2 : t2[n] = none[n]
  BY <1>1, <1>4
<1>7. "input" \notin G /\ ~NoInput(call) => t1[0] = IF 0 \in closed THEN Closed ELSE "stdin"
  <2> SUFFICES ASSUME "input" \notin G, ~NoInput(call)
               PROVE  t1[0] = IF 0 \in closed THEN Closed ELSE "stdin"
    OBVIOUS
  <2>1. t1[0] = t0[0]
    BY <1>1, <1>2
  <2>2. \A x \in G : call[x] # 0
    BY <1>0 DEF NoInput, Sources
  <2>3. t0[0] = IF 0 \in 0 .. 2 \ closed THEN Own[1] ELSE Closed
    BY <1>1, <2>2, CallerTable DEF t0
  <2>4. Own[1] = "stdin"
    BY DEF Own
  <2> QED BY <2>1, <2>3, <2>4
<1>8. ASSUME NEW n \in Numbers \ 0 .. 2 PROVE t2[n] = Closed
  <2>1. n \in Int /\ n > 2
    BY FdAssumption DEF Numbers
  <2>2. CASE \E x \in G : n = M(x)
    BY <1>4, <2>2
  <2>3. CASE \A x \in G : n # M(x)
    <3>1. t2[n] = t0[n]
      BY <1>2, <1>3, <1>4, <2>1, <2>3
    <3>2. \A x \in G : call[x] # n
      BY <2>1, <2>3, MovedAbove
    <3> QED
      BY <3>1, <3>2, CallerTable DEF t0
  <2> QED BY <2>2, <2>3
<1>9. call["directory"] # NoFd => t1[M("directory")] = "directory"
  BY <1>0, <1>2
<1>10. call["input"] # NoFd => ~NoInput(call)
  BY DEF NoInput
<1> QED
  BY <1>0, <1>3, <1>5, <1>6, <1>7, <1>8, <1>9, <1>10 DEF Right

(* Whatever numbers the tool's streams are open at, they reach it.           *)
THEOREM StreamsReach == Spec => []StreamsReachTool
<1>1. StreamsRight
  BY EveryStart DEF StreamsRight
<1>2. StreamsReachTool
  BY <1>1 DEF StreamsReachTool
<1> QED BY <1>2, PTL
=============================================================================
