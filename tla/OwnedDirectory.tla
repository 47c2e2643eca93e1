--------------------------- MODULE OwnedDirectory ---------------------------
(* Private scratch directories under the shared temporary directory: the     *)
(* captures of a tool's output and the directory of `refine run`, made,      *)
(* written through a retained descriptor and removed again, while other      *)
(* processes rename and replace what the public names hold                   *)
(* (compiler/ada/src/platform/landin_owned_directory.h and the registry in   *)
(* landin_file_identity.c). One action is one system call on the namespace.  *)
EXTENDS Naturals, FiniteSets

CONSTANTS
  Captures,      \* scratch directories of the capture registry
  PrivateRoots,  \* scratch directories of the private registry
  Strangers,     \* entries other processes made
  Files,         \* the strangers that are files, not directories
  Filled,        \* the stranger directories that hold something
  Nobody,        \* nothing under a name
  NoReplace,     \* the host renames without replacing
  MaxMoves,      \* bound: renames made by other processes
  MaxFaults      \* bound: calls the system refuses

Roots == Captures \cup PrivateRoots

ASSUME OwnedAssumption ==
  /\ Captures \cap PrivateRoots = {}
  /\ Roots \cap Strangers = {}
  /\ Files \subseteq Strangers
  /\ Filled \subseteq Strangers \ Files
  /\ Nobody \notin Roots \cup Strangers \cup {"none", "empty"}
  /\ {"none", "empty"} \cap (Roots \cup Strangers) = {}
  /\ NoReplace \in BOOLEAN
  /\ MaxMoves \in Nat
  /\ MaxFaults \in Nat

VARIABLES
  name,    \* what the public name of each scratch directory holds
  slot,    \* its retirement slot: "none", "empty", or what was moved into it
  full,    \* the directories that hold something
  gone,    \* what has been removed
  root,    \* the entry its descriptor is open on and its identity was taken of
  life,    \* how far the scratch directory and its record have come
  told,    \* the places the reasons of failed removals have named
  job,     \* the removal under way, and the call it is about to make
  answer,  \* what the last removal returned
  moves,   \* renames other processes have made
  faults   \* calls the system has refused

ownedVars == <<name, slot, full, gone, root, life, told, job, answer, moves,
               faults>>

Entries == Roots \cup Strangers

(* A directory that is "made" has no descriptor yet, one that is "opened" no *)
(* record in its registry. A record is "live" until its removal finished or  *)
(* left it "retained", and "dropped" when the registry lets it go. What a    *)
(* failed creation leaves is "lost": its caller has no name for it.          *)
Handed == {"live", "finished", "retained", "dropped"}
Lives == Handed \cup {"unmade", "made", "opened", "lost"}
Calls == {"allocate", "capture", "compare", "restore", "empty", "rmdir",
          "retire"}
Idle == [root |-> Nobody, call |-> "none"]
Resting == job = Idle

(* The results of landin_owned_remove: 1, 0 and -1.                          *)
Results == {"none", "removed", "absent", "refused"}

OwnedTypeOK ==
  /\ name \in [Roots -> Entries \cup {Nobody}]
  /\ slot \in [Roots -> Entries \cup {"none", "empty"}]
  /\ full \subseteq Entries
  /\ gone \subseteq Entries
  /\ root \in [Roots -> Entries \cup {Nobody}]
  /\ life \in [Roots -> Lives]
  /\ told \in [Roots -> SUBSET {"name", "slot"}]
  /\ job \in {Idle} \cup [root : Roots, call : Calls]
  /\ answer \in Results
  /\ moves \in 0 .. MaxMoves
  /\ faults \in 0 .. MaxFaults

OwnedInit ==
  /\ name = [r \in Roots |-> Nobody]
  /\ slot = [r \in Roots |-> "none"]
  /\ full = Filled
  /\ gone = {}
  /\ root = [r \in Roots |-> Nobody]
  /\ life = [r \in Roots |-> "unmade"]
  /\ told = [r \in Roots |-> {}]
  /\ job = Idle
  /\ answer = "none"
  /\ moves = 0
  /\ faults = 0

Fault == faults < MaxFaults /\ faults' = faults + 1

-----------------------------------------------------------------------------
(* landin_owned_allocate, the first call: a directory under a fresh random   *)
(* name. Other processes may move it away from here on.                      *)
MakeDirectory(r) ==
  /\ life[r] = "unmade"
  /\ name' = [name EXCEPT ![r] = r]
  /\ life' = [life EXCEPT ![r] = "made"]
  /\ UNCHANGED <<slot, full, gone, root, told, job, answer, moves>>

(* The second: whatever directory the name holds now is opened, and its      *)
(* identity is the one that is kept. stage is "live" when the caller puts    *)
(* the record into its registry, and "opened" when it finds that it cannot.  *)
OpenDirectory(r, stage) ==
  /\ life[r] = "made"
  /\ name[r] \notin Files \cup {Nobody}
  /\ root' = [root EXCEPT ![r] = name[r]]
  /\ life' = [life EXCEPT ![r] = stage]
  /\ UNCHANGED <<name, slot, gone, told, job, answer, moves>>

(* It cannot be opened: what was made stays where it is, and nobody says so. *)
LoseDirectory(r) ==
  /\ life[r] = "made"
  /\ IF name[r] \in Files \cup {Nobody} THEN UNCHANGED faults ELSE Fault
  /\ life' = [life EXCEPT ![r] = "lost"]
  /\ UNCHANGED <<name, slot, full, gone, root, told, job, answer, moves>>

(* landin_private_write and a tool that runs in the directory: through the   *)
(* retained descriptor, wherever the directory has been moved.               *)
WriteInto(r) ==
  /\ root[r] \notin gone
  /\ full' = full \cup {root[r]}
  /\ UNCHANGED <<name, slot, gone, root, life, told, job, answer, moves,
                 faults>>

(* landin_private_path_current.                                              *)
PathCurrent(r) == life[r] = "live" /\ name[r] = root[r]

(* Mutant: a root is dropped although its removal was refused.               *)
Bug_AfterResult(r, was, result) == "dropped"

(* What the registries keep when landin_owned_remove has returned: a capture *)
(* is dropped whatever it returned, a private root unless it was refused.    *)
AfterResult(r, was, result) ==
  IF r \in Captures \/ result # "refused" THEN "dropped" ELSE was

(* A creation that failed half way removes what it opened and drops it,      *)
(* whatever came of that: the reason of a refusal reaches nobody.            *)
Return(r, was, result, places) ==
  /\ answer' = result
  /\ job' = Idle
  /\ IF life[r] = "opened"
     THEN life' = [life EXCEPT ![r] = "lost"] /\ UNCHANGED told
     ELSE /\ life' = [life EXCEPT ![r] = AfterResult(r, was, result)]
          /\ told' = [told EXCEPT ![r] = @ \cup places]

(* A removal that goes on: nothing is answered yet.                          *)
Continue(r, call) ==
  /\ job' = [root |-> r, call |-> call]
  /\ UNCHANGED <<answer, life, told>>

(* The early returns of landin_owned_remove and, for a root the registry no  *)
(* longer holds, of landin_remove_tree: the reserved spelling is refused     *)
(* while it names anything.                                                  *)
Remove(r) ==
  /\ Resting
  /\ \/ /\ life[r] \in {"finished", "dropped"}
        /\ IF name[r] = Nobody THEN Return(r, "dropped", "absent", {})
                               ELSE Return(r, life[r], "refused", {"name"})
     \/ /\ life[r] = "retained"
        /\ Return(r, "retained", "refused", {})
     \/ /\ life[r] \in {"opened", "live"} /\ name[r] # root[r]
        /\ Return(r, "live", "refused", {"name"})
     \/ /\ life[r] \in {"opened", "live"} /\ name[r] = root[r]
        /\ Continue(r, "allocate")
  /\ UNCHANGED <<name, slot, full, gone, root, moves, faults>>

At(r, call) == job = [root |-> r, call |-> call]

(* landin_owned_allocate of the retirement slot. A slot that was made and    *)
(* could not be opened stays, empty and unnamed.                             *)
Allocate(r) ==
  /\ At(r, "allocate")
  /\ \/ /\ slot' = [slot EXCEPT ![r] = "empty"]
        /\ Continue(r, "capture")
        /\ UNCHANGED faults
     \/ /\ Fault
        /\ \E left \in {"none", "empty"} : slot' = [slot EXCEPT ![r] = left]
        /\ Return(r, "live", "refused", {"name"})
  /\ UNCHANGED <<name, full, gone, root, moves>>

(* The removal of a slot nothing was left in. Its result is not looked at.   *)
RemoveSlot(r) ==
  \/ slot' = [slot EXCEPT ![r] = "none"] /\ UNCHANGED faults
  \/ slot' = [slot EXCEPT ![r] = "empty"] /\ Fault

(* The rename of whatever the public name holds now into the slot.           *)
CaptureEntry(r) ==
  /\ At(r, "capture")
  /\ IF name[r] = Nobody
     THEN /\ RemoveSlot(r)
          /\ Return(r, "live", "refused", {"name"})
          /\ UNCHANGED name
     ELSE /\ slot' = [slot EXCEPT ![r] = name[r]]
          /\ name' = [name EXCEPT ![r] = Nobody]
          /\ Continue(r, "compare")
          /\ UNCHANGED faults
  /\ UNCHANGED <<full, gone, root, moves>>

(* Mutant: what the rename captured is taken for the retained root.          *)
Bug_Same(r) == TRUE

(* What was captured against the identity of the retained root.              *)
Same(r) == slot[r] = root[r]
Compare(r) ==
  /\ At(r, "compare")
  /\ Continue(r, IF Same(r) THEN "empty" ELSE "restore")
  /\ UNCHANGED <<name, slot, full, gone, root, moves, faults>>

(* landin_owned_restore: a rename or a link that replaces nothing.           *)
CanRestore(r) == name[r] = Nobody /\ (NoReplace \/ slot[r] \in Files)
Restore(r) ==
  /\ At(r, "restore")
  /\ IF CanRestore(r)
     THEN /\ name' = [name EXCEPT ![r] = slot[r]]
          /\ RemoveSlot(r)
          /\ gone' = gone \cup ({name[r]} \ {Nobody})
          /\ Return(r, "live", "refused", {"name"})
     ELSE /\ Return(r, "retained", "refused", {"name", "slot"})
          /\ UNCHANGED <<name, slot, gone, faults>>
  /\ UNCHANGED <<full, root, moves>>

(* landin_owned_empty of the retained descriptor, which may fail half way.   *)
EmptyRoot(r) ==
  /\ At(r, "empty")
  /\ \/ /\ full' = full \ {root[r]}
        /\ Continue(r, "rmdir")
        /\ UNCHANGED faults
     \/ /\ Fault
        /\ full' \in {full, full \ {root[r]}}
        /\ Return(r, "retained", "refused", {"slot"})
  /\ UNCHANGED <<name, slot, gone, root, moves>>

(* Mutant: the reason names the public name and forgets the slot.            *)
Bug_RemoveEntry(r) ==
  /\ At(r, "rmdir")
  /\ IF slot[r] \in full \cup Files
     THEN /\ Return(r, "retained", "refused", {"name"})
          /\ UNCHANGED <<slot, gone>>
     ELSE /\ gone' = gone \cup {slot[r]}
          /\ slot' = [slot EXCEPT ![r] = "empty"]
          /\ Continue(r, "retire")
  /\ UNCHANGED <<name, full, root, moves, faults>>

(* The captured entry itself, if it is an empty directory.                   *)
RemoveEntry(r) ==
  /\ At(r, "rmdir")
  /\ IF slot[r] \in full \cup Files
     THEN /\ Return(r, "retained", "refused", {"slot"})
          /\ UNCHANGED <<slot, gone>>
     ELSE /\ gone' = gone \cup {slot[r]}
          /\ slot' = [slot EXCEPT ![r] = "empty"]
          /\ Continue(r, "retire")
  /\ UNCHANGED <<name, full, root, moves, faults>>

(* The look for a replacement and the removal of the slot.                   *)
Retire(r) ==
  /\ At(r, "retire")
  /\ \/ /\ slot' = [slot EXCEPT ![r] = "none"]
        /\ IF name[r] = Nobody
           THEN Return(r, "finished", "removed", {})
           ELSE Return(r, "finished", "refused", {"name", "slot"})
        /\ UNCHANGED faults
     \/ /\ Fault
        /\ Return(r, "finished", "refused", {"name", "slot"})
        /\ UNCHANGED slot
  /\ UNCHANGED <<name, full, gone, root, moves>>

RemovalStep == \E r \in Roots :
  \/ Allocate(r) \/ CaptureEntry(r) \/ Compare(r) \/ Restore(r)
  \/ EmptyRoot(r) \/ RemoveEntry(r) \/ Retire(r)

-----------------------------------------------------------------------------
(* Other processes in the temporary directory: one takes an entry away under *)
(* a name of its own, puts one it has at a free name, or exchanges the two.  *)
Placed == {e \in Entries : \E r \in Roots : name[r] = e \/ slot[r] = e}
Elsewhere(r) == ((Strangers \cup {r}) \ Placed) \ gone

OtherProcess == \E r \in Roots :
  /\ moves < MaxMoves
  /\ life[r] # "unmade"
  /\ \E e \in (Elsewhere(r) \cup {Nobody}) \ {name[r]} :
        name' = [name EXCEPT ![r] = e]
  /\ moves' = moves + 1
  /\ UNCHANGED <<slot, full, gone, root, life, told, job, answer, faults>>

-----------------------------------------------------------------------------
(* Cleanup removes and empties only what its record opened: an entry that    *)
(* another process put under a public name afterwards is never removed,      *)
(* emptied or overwritten, whatever call of the removal it came between      *)
(* (landin_owned_remove). One put there before the directory was opened is   *)
(* taken for it.                                                             *)
Adopted == {root[r] : r \in Roots}
ForeignUntouched ==
  /\ gone \cap Strangers \subseteq Adopted
  /\ full \cap (Strangers \ Adopted) = Filled \ Adopted

(* When no removal is under way, an entry that was moved into a slot and is  *)
(* still there has been named in a reason, and so has a scratch directory    *)
(* that is left under its public name after its record was dropped. A        *)
(* creation that failed is the exception: it names nothing it leaves.        *)
StrandedTold ==
  Resting => \A r \in Roots :
    /\ slot[r] \in Entries => "slot" \in told[r] \/ life[r] = "lost"
    /\ life[r] = "dropped" /\ name[r] = root[r] => "name" \in told[r]

(* A removal that answers success has removed the directory of its record.   *)
RemovedMeansGone ==
  \A r \in PrivateRoots : life[r] = "dropped" => root[r] \in gone
=============================================================================
