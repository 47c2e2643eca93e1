---------------------------- MODULE Publication ----------------------------
(***************************************************************************)
(* The publication of a command's outputs: src/compiler/ada/src/platform/  *)
(* landin_publication.c under the transactions of landin-platform-         *)
(* publication.adb, as the driver uses them.                               *)
(*                                                                         *)
(* A transaction prepares each of its outputs (what is at the public name  *)
(* now becomes the expected version), lets tools write the fresh versions  *)
(* into a private stage beside the destination, and commits: validate      *)
(* every output, capture every old entry into a recovery slot, install     *)
(* every fresh entry without replacing anything.  The first failure, a     *)
(* cancellation or a later verification rolls everything back.  Between    *)
(* any two system calls on a public name other processes act: editors      *)
(* that rename a save over the name, remove it or write to it in place,    *)
(* and other invocations that publish the same names.  Nobody holds a      *)
(* lock on a public name.                                                  *)
(*                                                                         *)
(* An object is an inode; its identity cannot be reused while the          *)
(* publication holds it open (expected_fd).  What an object holds (bytes,  *)
(* or a whole tree) is one value of Bytes with its kind.                   *)
(***************************************************************************)
EXTENDS Naturals, Sequences, FiniteSets

CONSTANTS
    Names,          \* the entries of the one output directory
    Bytes,          \* what a file or a tree can hold
    Procs,          \* invocations of the compiler
    Trans,          \* transactions
    Scenes,         \* what the invocations are asked to do, see SceneType
    None,
    MaxSaves,       \* bound on what editors do
    MaxTroubles,    \* bound on failing calls, litter of tools, cancellations
                    \* and crashes together
    MaxPasses       \* how often a failed abort is repeated (Commit,
                    \* Close_Artifacts and Finish each abort once)

\* A scene: the invocation each transaction belongs to, the names it prepares
\* in order, those of them it only deletes (stale outputs), those it reserves
\* as absent (a new output tree), those it stages a directory for, the names
\* whose first object is a protected input, read there or through another
\* link, and the kinds of object that may be there first.
Kinds == {"file", "dir"}
SceneType ==
    [owner : [Trans -> Procs], outputs : [Trans -> Seq(Names)],
     deletes : [Trans -> SUBSET Names], absent : [Trans -> SUBSET Names],
     trees : SUBSET Names, inputs : SUBSET Names, first : SUBSET Kinds]

ASSUME PublicationAssumption ==
    /\ Scenes \subseteq SceneType
    /\ MaxSaves \in Nat /\ MaxTroubles \in Nat
    /\ MaxPasses \in Nat \ {0}

VARIABLES
    scene,      \* the scene that is played; never changes
    public,     \* the object each public name shows, or None
    data,       \* what each object holds, or None when it does not exist
    ent,        \* per transaction, the publications it has prepared
    arena,      \* per invocation, its private directory in the parent
    pc,         \* where each transaction is
    at,         \* the index of the entry it works on
    pass,       \* which pass of the abort this is, and whether it failed
    outcome,    \* how the transaction ended
    told,       \* whether it has named what it retains
    stray,      \* the invocations that left a directory arena_for gave up
    cancelled,  \* per invocation: landin_cancellation_requested
    guarded,    \* names known to alias the path of a protected input
    saves, troubles,
    dropped,    \* history: objects their own owner replaced or removed
    made,       \* history: what the tools put into each staged object
    doubled,    \* history: objects a rollback found both at the public name
                \* and, left there by an unlink that failed, in its own slot
    hands       \* history: who has moved the entry of each public name

vars == <<scene, public, data, ent, arena, pc, at, pass, outcome, told, stray,
          cancelled, guarded, saves, troubles, dropped, made, doubled, hands>>

Owner == scene.owner
Outputs == scene.outputs
DeleteOnly == scene.deletes
MustBeAbsent == scene.absent
Trees == scene.trees
Inputs == scene.inputs

Data == [kind : Kinds, bytes : Bytes]

\* Identities: the object first at a name, the one a transaction stages for
\* a name, and the ones editors make.
OldOf(n) == <<"old", n>>
FreshOf(t, n) == <<t, n>>
SaveOf(k) == <<"save", k>>
Objects ==
    {OldOf(n) : n \in Names} \cup {SaveOf(k) : k \in 1..MaxSaves}
    \cup {FreshOf(t, n) : t \in Trans, n \in Names}
Place == Objects \cup {None}

\* No object, content or transaction is mistaken for a mark.
ASSUME MarksAssumption ==
    /\ None \notin Objects \cup Data \cup Trans
    /\ {"old", "save", "editor", "several"} \cap (Trans \cup {None}) = {}

\* struct publication.  `expected` and `bytes` are the version the
\* preparation saw, `fresh` and `tree` what validation saw in the stage;
\* stage, previous and rollback are the private entries on disk.
Entry == [name : Names, expected : Place, bytes : Data \cup {None},
          fresh : Place, tree : Data \cup {None},
          stage : Place, previous : Place, rollback : Place,
          captured : BOOLEAN, capture_valid : BOOLEAN, installed : BOOLEAN,
          unchanged : BOOLEAN, rollback_pending : BOOLEAN,
          finished : BOOLEAN, finish_failed : BOOLEAN, sealed : BOOLEAN]

Arena == [disk : BOOLEAN, refs : 0..Cardinality(Names) * Cardinality(Trans),
          retained : BOOLEAN, lease : BOOLEAN, temporary : BOOLEAN]

NoArena == [disk |-> FALSE, refs |-> 0, retained |-> FALSE, lease |-> FALSE,
            temporary |-> FALSE]

FirstPass == [number |-> 1, failed |-> FALSE]

-----------------------------------------------------------------------------
\* Some of the names exist at first, all holding the same.
Init ==
    /\ scene \in Scenes
    /\ \E first \in Bytes :
       \E found \in [Names -> [kind : scene.first, bytes : {first}] \cup {None}] :
         /\ \A n \in Inputs : found[n] # None
         /\ public = [n \in Names |-> IF found[n] = None THEN None ELSE OldOf(n)]
         /\ data = [o \in Objects |-> IF \E n \in Names : o = OldOf(n)
                                        THEN found[CHOOSE n \in Names : o = OldOf(n)]
                                        ELSE None]
    /\ ent = [t \in Trans |-> <<>>]
    /\ arena = [p \in Procs |-> NoArena]
    /\ pc = [t \in Trans |-> "open"]
    /\ at = [t \in Trans |-> 1]
    /\ pass = [t \in Trans |-> FirstPass]
    /\ outcome = [t \in Trans |-> "none"]
    /\ told = [t \in Trans |-> FALSE] /\ stray = {}
    /\ cancelled = [p \in Procs |-> FALSE]
    /\ guarded \in SUBSET {n \in Inputs : public[n] # None}
    /\ saves = 0 /\ troubles = 0
    /\ dropped = {} /\ doubled = {}
    /\ made = [o \in Objects |-> None]
    /\ hands = [n \in Names |-> None]

-----------------------------------------------------------------------------
\* Steps on one entry.

Now(t) == ent[t][at[t]]
Mine(t) == arena[Owner[t]]
Update(t, e) == ent' = [ent EXCEPT ![t][at[t]] = e]

Fault == troubles < MaxTroubles /\ troubles' = troubles + 1
NoFault == troubles' = troubles

Touch(t, n) ==
    hands' = [hands EXCEPT ![n] = IF @ \in {None, t} THEN t ELSE "several"]

\* The registry mutex is held from the scan of a preparation to its journal,
\* and over a whole step: the other transactions of the process wait.
Inside == {"record", "check"}
Registry(t) ==
    \A u \in Trans \ {t} : Owner[u] = Owner[t] => pc[u] \notin Inside

\* no_replace: the ways an entry can move to a public name.  "linked" is the
\* hard-link fallback whose unlink of the private name failed unnoticed;
\* directories have no fallback.
NoReplace(n, o) ==
    IF public[n] # None THEN {"failed"}
    ELSE {"moved"} \cup (IF troubles = MaxTroubles THEN {}
                         ELSE IF data[o].kind = "dir" THEN {"failed"}
                         ELSE {"failed", "linked"})

\* An occupied name costs no fault.
Spend(n, how) ==
    troubles' = IF how = "moved" \/ public[n] # None THEN troubles ELSE troubles + 1

Left(how, o) == IF how = "linked" THEN o ELSE None

\* quarantine: the arena is kept for inspection and its producer lease ends.
Quarantine(t) ==
    arena' = [arena EXCEPT ![Owner[t]].retained = TRUE, ![Owner[t]].lease = FALSE]

\* A plausible bug: the abort starts at the entry that failed.
Bug_Abort(t) ==
    /\ pc' = [pc EXCEPT ![t] = IF ent'[t] = <<>> THEN "ended" ELSE "restore"]
    /\ at' = [at EXCEPT ![t] = IF @ > Len(ent'[t]) THEN Len(ent'[t]) ELSE @]
    /\ pass' = [pass EXCEPT ![t] = FirstPass]
    /\ outcome' = [outcome EXCEPT ![t] = IF ent'[t] = <<>> THEN "aborted" ELSE "none"]

\* Where a transaction goes when a step of it fails: Abort_Transaction over
\* its entries in reverse order.
Abort(t) ==
    /\ pc' = [pc EXCEPT ![t] = IF ent'[t] = <<>> THEN "ended" ELSE "restore"]
    /\ at' = [at EXCEPT ![t] = Len(ent'[t])]
    /\ pass' = [pass EXCEPT ![t] = FirstPass]
    /\ outcome' = [outcome EXCEPT ![t] = IF ent'[t] = <<>> THEN "aborted" ELSE "none"]

-----------------------------------------------------------------------------
\* Preparation: landin_publication_open.

\* retained_workspace: an invocation refuses a name while it retains an arena
\* in this directory, while an active publication of its own reserves the
\* name, or while another invocation's arena on disk records the name, holds
\* a recovery entry no record explains, or holds a stage entry no record
\* explains and no live producer.
Reserved(t, n) ==
    \/ Mine(t).retained
    \/ \E u \in Trans : /\ Owner[u] = Owner[t]
                        /\ Mine(t).refs > 0
                        /\ \E i \in DOMAIN ent[u] :
                             ent[u][i].sealed /\ ent[u][i].name = n
    \/ \E u \in Trans : /\ Owner[u] # Owner[t]
                        /\ arena[Owner[u]].disk
                        /\ \/ /\ arena[Owner[u]].temporary
                              /\ ~arena[Owner[u]].lease
                           \/ \E i \in DOMAIN ent[u] :
                                \/ ent[u][i].sealed /\ ent[u][i].name = n
                                \/ /\ ~ent[u][i].sealed
                                   /\ \/ ent[u][i].previous # None
                                      \/ ent[u][i].rollback # None

Open(t) ==
    /\ pc[t] = "open" /\ Registry(t)
    /\ at[t] <= Len(Outputs[t])
    /\ IF cancelled[Owner[t]] \/ Reserved(t, Outputs[t][at[t]])
         THEN UNCHANGED ent /\ Abort(t)
         ELSE /\ pc' = [pc EXCEPT ![t] = "record"]
              /\ UNCHANGED <<ent, at, pass, outcome>>
    /\ UNCHANGED <<scene, stray, public, data, arena, told, cancelled, guarded, saves,
                   troubles, dropped, made, doubled, hands>>

\* struct publication as landin_publication_open fills it: the version found
\* is the expected one, bytes and identity from one descriptor.
NewEntry(n, o) ==
    [name |-> n, expected |-> o, bytes |-> IF o = None THEN None ELSE data[o],
     fresh |-> None, tree |-> None, stage |-> None, previous |-> None,
     rollback |-> None, captured |-> FALSE, capture_valid |-> FALSE,
     installed |-> FALSE, unchanged |-> FALSE, rollback_pending |-> FALSE,
     finished |-> FALSE, finish_failed |-> FALSE, sealed |-> TRUE]

\* arena_for: the arena is shared by the transactions of the invocation.
ArenaFor(t) ==
    IF Mine(t).refs > 0 THEN [Mine(t) EXCEPT !.refs = @ + 1]
    ELSE [NoArena EXCEPT !.disk = TRUE, !.refs = 1]

\* The rest of the preparation: snapshot, arena and write_journal, which
\* seals the record before anything is staged; the first record carries the
\* producer lease.  The snapshot and arena_for may fail, and arena_for after
\* it has made the directory: it stays, without an entry in it, and the
\* message cannot name it.  A record that cannot be sealed quarantines the
\* arena, whose reference is never given back.  Prepare itself then gives back
\* an output that aliases a protected input's path.
Record(t) ==
    /\ pc[t] = "record"
    /\ LET n == Outputs[t][at[t]]
           o == public[n]
           last == at[t] = Len(Outputs[t])
       IN  \/ /\ n \in MustBeAbsent[t] /\ o # None
              /\ UNCHANGED <<ent, arena, told, stray>> /\ NoFault
              /\ Abort(t)
           \/ /\ n \in MustBeAbsent[t] => o = None
              /\ UNCHANGED <<ent, arena, told>> /\ Fault
              /\ Abort(t)
              /\ \/ UNCHANGED stray
                 \/ Mine(t).refs = 0 /\ stray' = stray \cup {Owner[t]}
           \/ /\ n \in MustBeAbsent[t] => o = None
              /\ Fault
              /\ arena' = [arena EXCEPT ![Owner[t]] =
                             [ArenaFor(t) EXCEPT !.retained = TRUE, !.lease = FALSE]]
              /\ UNCHANGED <<ent, stray>>
              /\ Abort(t) /\ told' = [told EXCEPT ![t] = TRUE]
           \/ /\ n \in MustBeAbsent[t] => o = None
              /\ NoFault
              /\ arena' = [arena EXCEPT ![Owner[t]] = [ArenaFor(t) EXCEPT !.lease = TRUE]]
              /\ ent' = [ent EXCEPT ![t] = Append(@, NewEntry(n, o))]
              /\ UNCHANGED <<told, stray>>
              /\ IF n \in guarded
                   THEN Abort(t)
                   ELSE /\ pc' = [pc EXCEPT ![t] = IF last THEN "produce" ELSE "open"]
                        /\ at' = [at EXCEPT ![t] = IF last THEN 1 ELSE @ + 1]
                        /\ UNCHANGED <<pass, outcome>>
    /\ UNCHANGED <<scene, public, data, cancelled, guarded, saves, dropped,
                   made, doubled, hands>>

\* The tools write the stage.  They may leave entries of their own there.
\* A failed tool, or a driver that finds an error, aborts.  The driver
\* protects the inputs its tools turn out to have.
Produce(t) ==
    /\ pc[t] = "produce"
    /\ \/ \E extra \in BOOLEAN :
            LET n == Now(t).name
                last == at[t] = Len(ent[t])
            IN  /\ \/ /\ n \in DeleteOnly[t]
                      /\ UNCHANGED <<data, ent>>
                   \/ /\ n \notin DeleteOnly[t]
                      /\ \E b \in Bytes :
                           data' = [data EXCEPT ![FreshOf(t, n)] =
                             [kind |-> IF n \in Trees THEN "dir" ELSE "file",
                              bytes |-> b]]
                      /\ Update(t, [Now(t) EXCEPT !.stage = FreshOf(t, n)])
                /\ made' = [made EXCEPT ![FreshOf(t, n)] = data'[FreshOf(t, n)]]
                /\ IF extra THEN Fault ELSE NoFault
                /\ arena' = [arena EXCEPT ![Owner[t]].temporary = @ \/ extra]
                /\ pc' = [pc EXCEPT ![t] = IF last THEN "validate" ELSE "produce"]
                /\ at' = [at EXCEPT ![t] = IF last THEN 1 ELSE @ + 1]
                /\ guarded' \in {guarded, guarded \cup ({n} \cap Inputs)}
                /\ UNCHANGED <<pass, outcome>>
       \/ UNCHANGED <<data, ent, arena, guarded, made>> /\ NoFault /\ Abort(t)
    /\ UNCHANGED <<scene, stray, public, told, cancelled, saves, dropped, doubled, hands>>

-----------------------------------------------------------------------------
\* Commit: each action of validate, capture, install over every entry in
\* order; the next one starts when the last entry is through.

After(phase) ==
    CASE phase = "validate" -> "capture"
      [] phase = "capture" -> "install"
      [] phase = "install" -> "committed"

Advance(t) ==
    LET last == at[t] = Len(ent[t])
    IN  /\ pc' = [pc EXCEPT ![t] = IF last THEN After(@) ELSE @]
        /\ at' = [at EXCEPT ![t] = IF last THEN 1 ELSE @ + 1]
        /\ UNCHANGED <<pass, outcome>>

\* landin_publication_step refuses the three forward actions once
\* cancellation is requested.
Cancelled(t) ==
    /\ pc[t] \in {"validate", "capture", "install"}
    /\ cancelled[Owner[t]]
    /\ UNCHANGED ent
    /\ Abort(t)
    /\ UNCHANGED <<scene, stray, public, data, arena, told, cancelled, guarded, saves,
                   troubles, dropped, made, doubled, hands>>

Going(t, phase) == pc[t] = phase /\ ~cancelled[Owner[t]] /\ Registry(t)

\* Action 0.  A deletion refuses a directory.  A staged entry is synced,
\* remembered as `fresh`, and compared with the expected version.
Validate(t) ==
    /\ Going(t, "validate")
    /\ LET e == Now(t)
           d == IF e.stage = None THEN None ELSE data[e.stage]
           mismatch == e.bytes # None /\ e.stage # None /\ e.bytes.kind # d.kind
           seen == [e EXCEPT !.fresh = e.stage,
                             !.tree = IF d # None /\ d.kind = "dir" THEN d ELSE None]
       IN  IF e.name \in DeleteOnly[t]
             THEN /\ UNCHANGED ent /\ NoFault
                  /\ IF e.bytes # None /\ e.bytes.kind = "dir"
                       THEN Abort(t) ELSE Advance(t)
             ELSE \/ /\ NoFault
                     /\ IF mismatch
                          THEN Update(t, seen) /\ Abort(t)
                          ELSE /\ Update(t, [seen EXCEPT !.unchanged =
                                               e.bytes # None /\ e.bytes = d])
                               /\ Advance(t)
                  \/ /\ Fault
                     /\ Update(t, [e EXCEPT !.fresh = e.stage])
                     /\ Abort(t)
    /\ UNCHANGED <<scene, stray, public, data, arena, told, cancelled, guarded, saves, dropped,
                   made, doubled, hands>>

\* A plausible bug: whatever was captured is taken for the expected version.
Bug_CaptureGood(e) == e.expected # None

\* Action 1, the check on what the rename really caught: an existing version
\* was expected, this object, unchanged, and no protected input.
CaptureGood(e) ==
    /\ e.expected # None
    /\ e.previous = e.expected
    /\ data[e.previous] = e.bytes
    /\ \A n \in Inputs : e.previous # OldOf(n)

Capture(t) ==
    /\ Going(t, "capture")
    /\ LET e == Now(t)
           n == e.name
           caught == [e EXCEPT !.captured = TRUE, !.previous = public[n]]
       IN  \/ /\ n \in guarded
              /\ UNCHANGED <<public, ent, hands>> /\ NoFault
              /\ Abort(t)
           \/ /\ n \notin guarded /\ public[n] = None
              /\ UNCHANGED <<public, ent, hands>> /\ NoFault
              /\ IF e.expected = None THEN Advance(t) ELSE Abort(t)
           \/ /\ n \notin guarded /\ public[n] # None
              /\ public' = [public EXCEPT ![n] = None]
              /\ Touch(t, n) /\ NoFault
              /\ IF CaptureGood(caught)
                   THEN Update(t, [caught EXCEPT !.capture_valid = TRUE]) /\ Advance(t)
                   ELSE Update(t, caught) /\ Abort(t)
           \/ /\ n \notin guarded /\ public[n] # None
              /\ UNCHANGED <<public, ent, hands>>
              /\ Fault /\ Abort(t)
    /\ UNCHANGED <<scene, stray, data, arena, told, cancelled, guarded, saves, dropped, made, doubled>>

\* Action 2.  An unchanged output gets its old object back; otherwise the
\* fresh one is installed, and a failed sync of the directory afterwards
\* still fails the step.
Install(t) ==
    /\ Going(t, "install")
    /\ LET e == Now(t)
           n == e.name
           o == IF e.unchanged THEN e.previous ELSE e.stage
       IN  IF n \in DeleteOnly[t]
             THEN UNCHANGED <<public, ent, hands>> /\ NoFault /\ Advance(t)
             ELSE \E how \in NoReplace(n, o), synced \in BOOLEAN :
                    IF how = "failed"
                      THEN /\ synced /\ Spend(n, how)
                           /\ UNCHANGED <<public, ent, hands>>
                           /\ Abort(t)
                      ELSE /\ public' = [public EXCEPT ![n] = o]
                           /\ Touch(t, n)
                           /\ Update(t, IF e.unchanged
                                THEN [e EXCEPT !.captured = FALSE,
                                               !.previous = Left(how, o)]
                                ELSE [e EXCEPT !.installed = TRUE,
                                               !.stage = Left(how, o)])
                           /\ IF synced \/ e.unchanged
                                THEN synced /\ Spend(n, how) /\ Advance(t)
                                ELSE how = "moved" /\ Fault /\ Abort(t)
    /\ UNCHANGED <<scene, stray, data, arena, told, cancelled, guarded, saves, dropped, made, doubled>>

-----------------------------------------------------------------------------
\* Abort_Transaction: Restore_Previous then Finish_Publication for each entry
\* from the last to the first; a failure is noted and the loop goes on.  A
\* pass without failure clears the entries; otherwise they stay, and the
\* next caller's abort repeats the pass.

NextEntry(t, failed) ==
    LET bad == pass[t].failed \/ failed
        over == at[t] = 1
        again == over /\ bad /\ pass[t].number < MaxPasses
    IN  /\ pc' = [pc EXCEPT ![t] = IF over /\ ~again THEN "ended" ELSE "restore"]
        /\ at' = [at EXCEPT ![t] = IF again THEN Len(ent[t])
                                  ELSE IF over THEN 1 ELSE @ - 1]
        /\ pass' = [pass EXCEPT ![t] =
             IF again THEN [number |-> @.number + 1, failed |-> FALSE]
             ELSE IF over THEN FirstPass ELSE [@ EXCEPT !.failed = bad]]
        /\ outcome' = [outcome EXCEPT ![t] =
             IF ~over \/ again THEN @ ELSE IF bad THEN "kept" ELSE "aborted"]
        /\ told' = [told EXCEPT ![t] = @ \/ failed]

RestoreFails(t) == Quarantine(t) /\ NextEntry(t, TRUE)

Go(t, where) ==
    /\ pc' = [pc EXCEPT ![t] = where]
    /\ UNCHANGED <<arena, at, pass, outcome, told>>

\* Action 3 on an installed entry: what is at the public name is taken into
\* the rollback slot before it is looked at.  Renaming a link onto another
\* link of the same object does nothing.
RollbackCapture(t) ==
    /\ pc[t] = "restore" /\ Registry(t)
    /\ LET e == Now(t)
           n == e.name
       IN  /\ e.installed /\ ~e.rollback_pending /\ ~e.finished
           /\ \/ /\ public[n] = None
                 /\ Update(t, [e EXCEPT !.installed = FALSE])
                 /\ UNCHANGED <<public, hands, doubled>> /\ NoFault
                 /\ Go(t, "restore")
              \/ /\ public[n] # None
                 /\ doubled' = doubled \cup ({public[n]} \cap {e.rollback})
                 /\ Update(t, [e EXCEPT !.rollback = public[n],
                                        !.rollback_pending = TRUE])
                 /\ public' = [public EXCEPT
                      ![n] = IF e.rollback = @ THEN @ ELSE None]
                 /\ Touch(t, n) /\ NoFault
                 /\ Go(t, "check")
              \/ /\ public[n] # None
                 /\ UNCHANGED <<public, ent, hands, doubled>>
                 /\ Fault /\ RestoreFails(t)
    /\ UNCHANGED <<scene, stray, data, cancelled, guarded, saves, dropped, made>>

\* A plausible bug: rollback discards what it finds at the public name.
Bug_RollbackOurs(e) == TRUE

\* The object is this transaction's own, unmodified if it is a tree.
RollbackOurs(e) ==
    /\ e.rollback = e.fresh
    /\ data[e.rollback].kind = "dir" => e.tree = data[e.rollback]

\* Then it is discarded when it is ours; somebody else's is put back without
\* replacing what may be there by now, and the entry stays installed.
RollbackCheck(t) ==
    /\ pc[t] = "check"
    /\ LET e == Now(t)
           n == e.name
       IN  \/ /\ RollbackOurs(e)
              /\ Update(t, [e EXCEPT !.rollback = None, !.rollback_pending = FALSE,
                                     !.installed = FALSE])
              /\ UNCHANGED <<public, hands>> /\ NoFault
              /\ Go(t, "restore")
           \/ /\ e.rollback = e.fresh
              /\ IF RollbackOurs(e) THEN Fault ELSE NoFault
              /\ UNCHANGED <<public, ent, hands>>
              /\ RestoreFails(t)
           \/ /\ e.rollback # e.fresh
              /\ \E how \in NoReplace(n, e.rollback) :
                   /\ Spend(n, how)
                   /\ IF how = "failed"
                        THEN UNCHANGED <<public, ent, hands>>
                        ELSE /\ public' = [public EXCEPT ![n] = e.rollback]
                             /\ Touch(t, n)
                             /\ Update(t, [e EXCEPT !.rollback_pending = FALSE,
                                             !.rollback = Left(how, e.rollback)])
              /\ RestoreFails(t)
    /\ UNCHANGED <<scene, stray, data, cancelled, guarded, saves, dropped, made, doubled>>

\* Action 3, the previous entry: back to the public name when it is free.
RestorePrevious(t) ==
    /\ pc[t] = "restore" /\ Registry(t)
    /\ LET e == Now(t)
           n == e.name
       IN  /\ e.finished \/ ~e.installed \/ e.rollback_pending
           /\ \/ /\ e.finished \/ e.rollback_pending
                 /\ UNCHANGED <<public, ent, hands>> /\ NoFault
                 /\ IF ~e.finished THEN RestoreFails(t)
                    ELSE UNCHANGED arena /\ NextEntry(t, e.finish_failed)
              \/ /\ ~e.finished /\ ~e.rollback_pending /\ ~e.captured
                 /\ UNCHANGED <<public, ent, hands>> /\ NoFault
                 /\ Go(t, "discard")
              \/ /\ ~e.finished /\ ~e.rollback_pending /\ e.captured
                 /\ \E how \in NoReplace(n, e.previous) :
                      /\ Spend(n, how)
                      /\ IF how = "failed"
                           THEN UNCHANGED <<public, ent, hands>> /\ RestoreFails(t)
                           ELSE /\ public' = [public EXCEPT ![n] = e.previous]
                                /\ Touch(t, n)
                                /\ Update(t, [e EXCEPT !.captured = FALSE,
                                                !.previous = Left(how, e.previous)])
                                /\ Go(t, "discard")
    /\ UNCHANGED <<scene, stray, data, cancelled, guarded, saves, dropped, made, doubled>>

-----------------------------------------------------------------------------
\* Action 4, Finish_Publication.

\* Only the version that was expected, and checked when it was captured, may
\* be discarded; a tree is compared once more.
Discardable(e) ==
    \/ ~e.captured
    \/ /\ e.expected # None /\ e.capture_valid
       /\ e.previous = e.expected
       /\ e.bytes.kind = "dir" => data[e.previous] = e.bytes

StageDiscardable(e) ==
    e.stage # None /\ data[e.stage].kind = "dir" => e.tree = data[e.stage]

\* What the entry is once its private files are gone.
Finished(e) ==
    [e EXCEPT !.finished = TRUE, !.captured = FALSE, !.stage = None,
              !.previous = IF e.captured THEN None ELSE @]

\* A plausible bug: the directories are removed with what is in them.
Bug_Emptied(t, es) == TRUE

\* The last reference retires the arena: stage and recovery must be empty
\* before the records go.
Emptied(t, es) ==
    /\ ~Mine(t).temporary
    /\ \A u \in Trans : Owner[u] = Owner[t] =>
         \A i \in DOMAIN es[u] : es[u][i].sealed =>
            es[u][i].stage = None /\ es[u][i].previous = None
            /\ es[u][i].rollback = None

Unseal(t, es) ==
    [u \in Trans |-> IF Owner[u] # Owner[t] THEN es[u]
                     ELSE [i \in DOMAIN es[u] |-> [es[u][i] EXCEPT !.sealed = FALSE]]]

\* Finish of a committed group goes up its entries, and forgets them
\* whatever failed.
NextPublished(t, failed) ==
    LET over == at[t] = Len(ent[t])
    IN  /\ pc' = [pc EXCEPT ![t] = IF over THEN "ended" ELSE @]
        /\ at' = [at EXCEPT ![t] = IF over THEN 1 ELSE @ + 1]
        /\ told' = [told EXCEPT ![t] = @ \/ failed]
        /\ UNCHANGED <<pass, outcome>>

\* A plausible bug: the result of Finish_Publication is not looked at.
Bug_NextResult(t, failed) ==
    IF pc[t] = "discard" THEN NextEntry(t, FALSE) ELSE NextPublished(t, FALSE)

\* What the caller does with the result.
NextResult(t, failed) ==
    IF pc[t] = "discard" THEN NextEntry(t, failed) ELSE NextPublished(t, failed)

\* The step fails on what it may not discard or cannot unlink, the captured
\* entry first, then the staged one.
FinishFails(t) ==
    /\ LET e == Now(t)
       IN  \/ /\ IF Discardable(e) THEN e.captured /\ Fault ELSE NoFault
              /\ UNCHANGED ent
           \/ /\ Discardable(e)
              /\ IF StageDiscardable(e) THEN Fault ELSE NoFault
              /\ Update(t, [e EXCEPT !.captured = FALSE,
                               !.previous = IF e.captured THEN None ELSE @])
    /\ Quarantine(t)
    /\ NextResult(t, TRUE)

\* Or it succeeds, and the last reference retires the arena or, where an
\* entry is left or a call fails, quarantines it.
FinishSucceeds(t) ==
    LET e == Now(t)
        p == Owner[t]
        es == [ent EXCEPT ![t][at[t]] = Finished(e)]
        kept == [es EXCEPT ![t][at[t]].finish_failed = TRUE]
    IN  /\ Discardable(e) /\ StageDiscardable(e)
        /\ \/ /\ Mine(t).refs > 1
              /\ ent' = es /\ NoFault
              /\ arena' = [arena EXCEPT ![p].refs = @ - 1]
              /\ NextResult(t, FALSE)
           \/ /\ Mine(t).refs = 1 /\ Emptied(t, es)
              /\ ent' = Unseal(t, es) /\ NoFault
              /\ arena' = [arena EXCEPT ![p] = NoArena]
              /\ NextResult(t, FALSE)
           \/ /\ Mine(t).refs = 1
              /\ IF Emptied(t, es)
                   THEN Fault /\ ent' \in {kept, Unseal(t, kept)}
                   ELSE NoFault /\ ent' = kept
              /\ arena' = [arena EXCEPT ![p].refs = 0, ![p].retained = TRUE,
                                        ![p].lease = FALSE]
              /\ NextResult(t, TRUE)

FinishEntry(t) ==
    /\ pc[t] \in {"discard", "publish"} /\ Registry(t)
    /\ FinishFails(t) \/ FinishSucceeds(t)
    /\ UNCHANGED <<scene, stray, public, data, cancelled, guarded, saves, dropped,
                   made, doubled, hands>>

\* After the commit the driver verifies the group (an image built from it,
\* say): Finish makes it final, Close_Artifacts (False) still rolls it back.
Decide(t) ==
    /\ pc[t] = "committed"
    /\ UNCHANGED ent
    /\ \/ /\ pc' = [pc EXCEPT ![t] = "publish"]
          /\ at' = [at EXCEPT ![t] = 1]
          /\ outcome' = [outcome EXCEPT ![t] = "published"]
          /\ UNCHANGED pass
       \/ Abort(t)
    /\ UNCHANGED <<scene, stray, public, data, arena, told, cancelled, guarded, saves,
                   troubles, dropped, made, doubled, hands>>

-----------------------------------------------------------------------------
\* The others.

Published(t) == outcome[t] = "published"
Dead(t) == pc[t] \in {"ended", "crashed"}

\* Editors matter to a name while a transaction has prepared it and may
\* still move its entry; what they do before gives another first state.
Wanted(n) ==
    \E t \in Trans : /\ ~Dead(t) /\ ~Published(t)
                     /\ \E i \in DOMAIN ent[t] : ent[t][i].name = n

\* An editor saves by renaming a new object over the name.
Save(n) ==
    /\ Wanted(n)
    /\ saves < MaxSaves /\ saves' = saves + 1
    /\ \E b \in Bytes :
         LET k == IF public[n] = None THEN "file" ELSE data[public[n]].kind
         IN  data' = [data EXCEPT ![SaveOf(saves + 1)] = [kind |-> k, bytes |-> b]]
    /\ public' = [public EXCEPT ![n] = SaveOf(saves + 1)]
    /\ dropped' = dropped \cup ({public[n]} \ {None})
    /\ Touch("editor", n)
    /\ UNCHANGED <<scene, stray, ent, arena, pc, at, pass, outcome, told, cancelled, guarded,
                   troubles, made, doubled>>

Remove(n) ==
    /\ Wanted(n)
    /\ saves < MaxSaves /\ saves' = saves + 1
    /\ public[n] # None
    /\ public' = [public EXCEPT ![n] = None]
    /\ dropped' = dropped \cup {public[n]}
    /\ Touch("editor", n)
    /\ UNCHANGED <<scene, stray, data, ent, arena, pc, at, pass, outcome, told, cancelled,
                   guarded, troubles, made, doubled>>

\* Or writes through the name into the object.  Writing in place to a file
\* that a running transaction has installed is the one thing publication
\* does not support (rollback compares a file's identity, not its bytes).
EditInPlace(n) ==
    /\ Wanted(n)
    /\ saves < MaxSaves /\ saves' = saves + 1
    /\ public[n] # None
    /\ data[public[n]].kind = "file" =>
         \A t \in Trans : ~Dead(t) /\ ~Published(t) =>
           \A i \in DOMAIN ent[t] :
             ~(ent[t][i].installed /\ ent[t][i].fresh = public[n])
    /\ \E b \in Bytes \ {data[public[n]].bytes} :
         data' = [data EXCEPT ![public[n]].bytes = b]
    /\ Touch("editor", n)
    /\ UNCHANGED <<scene, stray, public, ent, arena, pc, at, pass, outcome, told, cancelled,
                   guarded, troubles, dropped, made, doubled>>

Cancel(p) ==
    /\ Fault
    /\ ~cancelled[p]
    /\ \E t \in Trans : Owner[t] = p /\ ~Dead(t)
    /\ cancelled' = [cancelled EXCEPT ![p] = TRUE]
    /\ UNCHANGED <<scene, stray, public, data, ent, arena, pc, at, pass, outcome, told, guarded,
                   saves, dropped, made, doubled, hands>>

\* The process dies: its directories stay, its lease and its memory go.
Remains(t, e) ==
    IF outcome[t] # "none" THEN e
    ELSE [NewEntry(e.name, None) EXCEPT !.stage = e.stage, !.previous = e.previous,
                                        !.rollback = e.rollback, !.sealed = e.sealed]

Crash(p) ==
    /\ Fault
    /\ \E t \in Trans : Owner[t] = p /\ ~Dead(t)
    /\ pc' = [t \in Trans |-> IF Owner[t] = p THEN "crashed" ELSE pc[t]]
    /\ arena' = [arena EXCEPT ![p].lease = FALSE]
    /\ ent' = [t \in Trans |-> IF Owner[t] # p THEN ent[t]
                ELSE [i \in DOMAIN ent[t] |-> Remains(t, ent[t][i])]]
    /\ at' = [t \in Trans |-> IF Owner[t] = p THEN 1 ELSE at[t]]
    /\ pass' = [t \in Trans |-> IF Owner[t] = p THEN FirstPass ELSE pass[t]]
    /\ UNCHANGED <<scene, stray, public, data, outcome, told, cancelled, guarded, saves, dropped,
                   made, doubled, hands>>

Step(t) ==
    \/ Open(t) \/ Record(t) \/ Produce(t)
    \/ Cancelled(t) \/ Validate(t) \/ Capture(t) \/ Install(t) \/ Decide(t)
    \/ RollbackCapture(t) \/ RollbackCheck(t) \/ RestorePrevious(t)
    \/ FinishEntry(t)

Next ==
    \/ \E t \in Trans : Step(t)
    \/ \E n \in Names : Save(n) \/ Remove(n) \/ EditInPlace(n)
    \/ \E p \in Procs : Cancel(p) \/ Crash(p)

Spec == Init /\ [][Next]_vars

-----------------------------------------------------------------------------
\* Every variable has its type, and a transaction works on an entry it has.
TypeOK ==
    /\ public \in [Names -> Place]
    /\ \A o \in Objects : data[o] \in Data \cup {None}
    /\ \A t \in Trans : \A i \in DOMAIN ent[t] : ent[t][i] \in Entry
    /\ \A p \in Procs : arena[p] \in Arena
    /\ \A t \in Trans :
         pc[t] \in {"validate", "capture", "install", "committed",
                   "restore", "check", "discard", "publish"} =>
           at[t] \in DOMAIN ent[t]

Slots(e) == {e.stage, e.previous, e.rollback}
Present(o) ==
    \/ \E n \in Names : public[n] = o
    \/ \E t \in Trans : \E i \in DOMAIN ent[t] : o \in Slots(ent[t][i])

\* Nothing is destroyed that is not the transaction's to destroy, whoever
\* renames, removes, writes, crashes or fails in between: an object that is
\* in no place any more was given up by its own owner, or is the untouched
\* output of a transaction that did not publish it, or is the version a
\* published output replaces, no protected input, with the very bytes its
\* preparation saw.
NothingLost ==
    \A o \in Objects :
      data[o] # None /\ ~Present(o) =>
        \/ o \in dropped
        \/ \E t \in Trans, n \in Names :
             /\ o = FreshOf(t, n) /\ data[o] = made[o]
             /\ Published(t) => \E i \in DOMAIN ent[t] :
                                  ent[t][i].name = n /\ ent[t][i].unchanged
        \/ \E t \in Trans : \E i \in DOMAIN ent[t] :
             /\ Published(t) /\ ~ent[t][i].unchanged
             /\ ent[t][i].expected = o /\ ent[t][i].bytes = data[o]
             /\ \A n \in Inputs : o # OldOf(n)

\* Whatever was taken from a public name, the directory that holds it is
\* still there and its sealed record says where it belongs: after a crash an
\* inspector finds it, and a later preparation of the name is refused.
RecoveryRecorded ==
    \A t \in Trans : \A i \in DOMAIN ent[t] :
      ent[t][i].previous # None \/ ent[t][i].rollback # None =>
        ent[t][i].sealed /\ arena[Owner[t]].disk

\* A version is replaced at most once: of two invocations that prepared
\* against the same object, scans having missed each other, one publishes.
OneSuccessor ==
    \A t, u \in Trans : t # u /\ Published(t) /\ Published(u) =>
      \A i \in DOMAIN ent[t], j \in DOMAIN ent[u] :
        ~(/\ ent[t][i].expected \notin doubled \cup {None}
          /\ ent[t][i].expected = ent[u][j].expected
          /\ ~ent[t][i].unchanged /\ ~ent[u][j].unchanged)

\* A group is published or rolled back as a whole: where nobody else touched
\* its names, a finished commit shows every new version and a finished abort
\* shows every old one.
GroupAtomic ==
    \A t \in Trans : \A i \in DOMAIN ent[t] :
      LET e == ent[t][i]
      IN  hands[e.name] \in {None, t} =>
            /\ outcome[t] = "aborted" => public[e.name] = e.expected
            /\ outcome[t] = "published" =>
                 public[e.name] = IF e.name \in DeleteOnly[t] THEN None
                                  ELSE IF e.unchanged THEN e.expected
                                  ELSE FreshOf(t, e.name)

\* What an invocation leaves behind it has reported: when its transactions
\* have all ended and none named anything retained, its directory is gone.
\* A directory that arena_for gave up is named by nobody, but is never left by
\* an invocation whose transactions have all succeeded.
LitterReported ==
    \A p \in Procs :
      (\A t \in Trans : Owner[t] = p => pc[t] = "ended") =>
        /\ arena[p].disk => \E t \in Trans : Owner[t] = p /\ told[t]
        /\ p \in stray => \E t \in Trans : Owner[t] = p /\ ~Published(t)

=============================================================================
