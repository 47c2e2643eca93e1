------------------------- MODULE Publication_proofs -------------------------
(***************************************************************************)
(* Proofs about Publication, for any scenes, names, contents, invocations, *)
(* transactions and bounds. RecoveryRecorded is not inductive: that the    *)
(* directory of a held object is still there needs the arena's reference   *)
(* count to be at least the number of entries its invocation has not       *)
(* finished (Refs), which needs to know what is finished at each place of  *)
(* each transaction (Phase), through aborts that are repeated.             *)
(* LitterReported needs the other direction: a reference more than that,   *)
(* or a directory without one, has been named; and that an invocation that *)
(* left a directory unnamed has a transaction that failed (StrayAborts).   *)
(*                                                                         *)
(* GroupAtomic, OneSuccessor and NothingLost need to know where every      *)
(* object is. Each step is a stride (Stride): one transaction moves one    *)
(* entry in one of ten ways (Rests ... Drops), waits, appends, stages or   *)
(* publishes, a process crashes, or an editor acts. Along the strides the  *)
(* flags of an entry agree with its place (AllFlags), the entries of a     *)
(* group have distinct names (AllDistinct), what is staged is at no public *)
(* name and is nobody else's until it is installed (Private), and          *)
(* validation lets only faithful outputs through (Gates). On these rest    *)
(* the three invariants of the theorems: an undisturbed name shows what    *)
(* its transaction last did there (Undisturbed), an object that was not    *)
(* doubled has at most one claimant (Once), and an object that exists is   *)
(* shown, was given up, or is accounted for by an entry (AllSolid).        *)
(***************************************************************************)
EXTENDS Publication, FiniteSetTheorems, SequenceTheorems, TLAPS

\* Where a transaction is, by what its entries are then.
Forward == {"open", "record", "produce", "validate", "capture", "install",
            "committed"}
Aborting == {"restore", "check", "discard"}
Working == {"produce", "validate", "capture", "install", "committed",
            "publish"} \cup Aborting
Places == Forward \cup Aborting \cup {"publish", "ended", "crashed"}

Types ==
    /\ scene \in SceneType
    /\ public \in [Names -> Place]
    /\ data \in [Objects -> Data \cup {None}]
    /\ made \in [Objects -> Data \cup {None}]
    /\ ent \in [Trans -> Seq(Entry)]
    /\ arena \in [Procs -> [disk : BOOLEAN, refs : Nat, retained : BOOLEAN,
                            lease : BOOLEAN, temporary : BOOLEAN]]
    /\ pc \in [Trans -> Places] /\ at \in [Trans -> Nat]
    /\ pass \in [Trans -> [number : Nat, failed : BOOLEAN]]
    /\ outcome \in [Trans -> {"none", "aborted", "kept", "published"}]
    /\ told \in [Trans -> BOOLEAN]
    /\ saves \in Nat

\* What is finished of a transaction at each place of it.
Phase(t) ==
    /\ pc[t] \in {"open", "record"} => at[t] = Len(ent[t]) + 1
    /\ pc[t] = "record" => at[t] <= Len(Outputs[t])
    /\ pc[t] \in Working => at[t] \in 1..Len(ent[t])
    /\ pc[t] \in Forward => \A i \in 1..Len(ent[t]) : ~ent[t][i].finished
    /\ pc[t] = "publish" =>
         \A i \in 1..Len(ent[t]) : IF i >= at[t] THEN ~ent[t][i].finished
                                   ELSE ent[t][i].finished \/ told[t]
    /\ pc[t] \in Aborting =>
         \A i \in 1..Len(ent[t]) : i > at[t] => ent[t][i].finished \/ pass[t].failed
    /\ pc[t] \in {"check", "discard"} => ~ent[t][at[t]].finished
    /\ pc[t] = "ended" => \A i \in 1..Len(ent[t]) : ent[t][i].finished \/ told[t]
    /\ pass[t].failed => told[t]

\* One entry's step.
LEMMA EntryStep ==
  ASSUME NEW e \in Entry, NEW o \in Place, NEW d \in Data \cup {None},
         NEW b \in BOOLEAN
  PROVE  /\ [e EXCEPT !.stage = o] \in Entry
         /\ [e EXCEPT !.fresh = o, !.tree = d] \in Entry
         /\ [e EXCEPT !.fresh = o, !.tree = d, !.unchanged = b] \in Entry
         /\ [e EXCEPT !.fresh = o] \in Entry
         /\ [e EXCEPT !.captured = b, !.previous = o] \in Entry
         /\ [e EXCEPT !.captured = TRUE, !.previous = o, !.capture_valid = TRUE] \in Entry
         /\ [e EXCEPT !.installed = TRUE, !.stage = o] \in Entry
  BY DEF Entry

\* What Update does to the entries: one of them changes.
Updated(t, e) ==
    /\ ent' \in [Trans -> Seq(Entry)]
    /\ \A u \in Trans : Len(ent'[u]) = Len(ent[u])
    /\ \A u \in Trans : u # t => ent'[u] = ent[u]
    /\ \A i \in 1..Len(ent[t]) : i # at[t] => ent'[t][i] = ent[t][i]
    /\ ent'[t][at[t]] = e

\* Update changes the entry t works on, and only it.
LEMMA UpdateStep ==
  ASSUME NEW t \in Trans, NEW e \in Entry, ent \in [Trans -> Seq(Entry)],
         at[t] \in 1..Len(ent[t]), Update(t, e)
  PROVE  Updated(t, e)
<1> DEFINE s == ent[t]
           r == [s EXCEPT ![at[t]] = e]
<1>1. s \in Seq(Entry) /\ Len(s) \in Nat /\ DOMAIN s = 1..Len(s)
  OBVIOUS
<1>2. r \in Seq(Entry) /\ Len(r) = Len(s)
  BY <1>1, ExceptSeq
<1>3. ent' = [ent EXCEPT ![t] = r]
  BY DEF Update
<1>4. \A i \in 1..Len(s) : r[i] = IF i = at[t] THEN e ELSE s[i]
  BY <1>1
<1> QED BY <1>2, <1>3, <1>4 DEF Updated

-----------------------------------------------------------------------------
\* How a transaction moves on.  Each of these lemmas is about one of the ways
\* an action may end, whatever it has done to the entries.

MoveTypes ==
    /\ pc' \in [Trans -> Places] /\ at' \in [Trans -> Nat]
    /\ pass' \in [Trans -> [number : Nat, failed : BOOLEAN]]
    /\ outcome' \in [Trans -> {"none", "aborted", "kept", "published"}]
    /\ told' \in [Trans -> BOOLEAN]

\* Nobody but t moves, and nothing it was told is taken back.
Alone(t) ==
    /\ \A u \in Trans \ {t} :
         /\ pc'[u] = pc[u] /\ at'[u] = at[u] /\ pass'[u] = pass[u]
         /\ outcome'[u] = outcome[u]
    /\ \A u \in Trans : told[u] => told'[u]

\* Nothing is finished by this step, except perhaps the entry t works on.
Unfinishing(t) ==
    /\ ent' \in [Trans -> Seq(Entry)]
    /\ \A u \in Trans : Len(ent'[u]) = Len(ent[u])
    /\ \A u \in Trans : \A i \in 1..Len(ent[u]) :
         u # t \/ i # at[t] => ent'[u][i].finished = ent[u][i].finished

\* A transaction that does not move keeps its phase.
LEMMA PhaseStays ==
  ASSUME Types, scene' = scene, NEW t \in Trans, NEW u \in Trans,
         pc'[u] = pc[u], at'[u] = at[u], pass'[u] = pass[u],
         told[u] => told'[u],
         Len(ent'[u]) = Len(ent[u]),
         \A i \in 1..Len(ent[u]) : ent'[u][i].finished = ent[u][i].finished,
         Phase(u)
  PROVE  Phase(u)'
  BY DEF Types, Phase, Outputs, Forward, Aborting, Working

\* An abort starts at the last entry, or ends at once when there is none.
LEMMA AbortMoves ==
  ASSUME Types, NEW t \in Trans, ent'[t] \in Seq(Entry), Abort(t),
         told' = told \/ told' = [told EXCEPT ![t] = TRUE]
  PROVE  MoveTypes /\ Alone(t) /\ Phase(t)'
<1>1. Len(ent'[t]) \in Nat /\ (ent'[t] # <<>> => Len(ent'[t]) # 0)
  BY EmptySeq
<1>2. MoveTypes /\ Alone(t)
  BY <1>1 DEF Types, MoveTypes, Alone, Abort, FirstPass, Places, Forward,
              Aborting
<1>3. /\ pc'[t] = IF ent'[t] = <<>> THEN "ended" ELSE "restore"
      /\ at'[t] = Len(ent'[t]) /\ ~pass'[t].failed
  BY DEF Types, Abort, FirstPass
<1>4. CASE ent'[t] = <<>>
  <2>1. Len(ent'[t]) = 0
    BY <1>4
  <2> QED
    BY <1>2, <1>3, <1>4, <2>1 DEF Phase, Forward, Aborting, Working
<1>5. CASE ent'[t] # <<>>
  BY <1>1, <1>2, <1>3, <1>5 DEF Phase, Forward, Aborting, Working
<1> QED BY <1>2, <1>4, <1>5

\* The next entry, or the next phase.
LEMMA AdvanceMoves ==
  ASSUME Types, scene' = scene, NEW t \in Trans, Phase(t), Unfinishing(t),
         ent'[t][at[t]].finished = ent[t][at[t]].finished,
         pc[t] \in {"validate", "capture", "install"}, Advance(t), told' = told
  PROVE  MoveTypes /\ Alone(t) /\ Phase(t)'
<1>1. at[t] \in 1..Len(ent[t]) /\ Len(ent[t]) \in Nat
  BY DEF Phase, Types, Working
<1>2. After(pc[t]) \in {"capture", "install", "committed"}
  BY DEF After
<1>3. MoveTypes /\ Alone(t)
  BY <1>1, <1>2 DEF Types, MoveTypes, Alone, Advance, Places, Forward
<1>4. /\ pc'[t] \in {"validate", "capture", "install", "committed"}
      /\ at'[t] \in 1..Len(ent[t]) /\ pass'[t] = pass[t] /\ told'[t] = told[t]
  BY <1>1, <1>2 DEF Types, Advance
<1>5. \A i \in 1..Len(ent[t]) : ~ent'[t][i].finished
  BY DEF Phase, Forward, Unfinishing
<1> QED
  BY <1>3, <1>4, <1>5 DEF Phase, Forward, Aborting, Working, Unfinishing

\* The abort's loop: what failed is told, what did not is finished.
LEMMA NextEntryMoves ==
  ASSUME Types, scene' = scene, NEW t \in Trans, Phase(t), Unfinishing(t),
         pc[t] \in Aborting, NEW failed \in BOOLEAN, NextEntry(t, failed),
         failed \/ ent'[t][at[t]].finished
  PROVE  MoveTypes /\ Alone(t) /\ Phase(t)'
<1> DEFINE bad == pass[t].failed \/ failed
           over == at[t] = 1
           again == over /\ bad /\ pass[t].number < MaxPasses
<1>1. at[t] \in 1..Len(ent[t]) /\ Len(ent[t]) \in Nat
  BY DEF Phase, Types, Working
<1>2. MoveTypes /\ Alone(t)
  <2>1. pc' \in [Trans -> Places] /\ at' \in [Trans -> Nat]
    BY <1>1 DEF Types, NextEntry, Places, Aborting
  <2>2. pass' \in [Trans -> [number : Nat, failed : BOOLEAN]]
    <3>1. pass[t] \in [number : Nat, failed : BOOLEAN] /\ bad \in BOOLEAN
      BY DEF Types
    <3>2. /\ FirstPass \in [number : Nat, failed : BOOLEAN]
          /\ [pass[t] EXCEPT !.failed = bad] \in [number : Nat, failed : BOOLEAN]
          /\ [number |-> pass[t].number + 1, failed |-> FALSE]
               \in [number : Nat, failed : BOOLEAN]
      BY <3>1 DEF FirstPass
    <3> HIDE DEF bad
    <3> QED BY <3>2 DEF Types, NextEntry, bad
  <2>3. /\ outcome' \in [Trans -> {"none", "aborted", "kept", "published"}]
        /\ told' \in [Trans -> BOOLEAN]
    BY DEF Types, NextEntry
  <2>4. Alone(t)
    BY DEF Types, NextEntry, Alone
  <2> QED BY <2>1, <2>2, <2>3, <2>4 DEF MoveTypes
<1>3. /\ pc'[t] = IF over /\ ~again THEN "ended" ELSE "restore"
      /\ at'[t] = IF again THEN Len(ent[t]) ELSE IF over THEN 1 ELSE at[t] - 1
      /\ pass'[t].failed = IF over THEN FALSE ELSE bad
      /\ told'[t] <=> (told[t] \/ failed)
  BY DEF Types, NextEntry, FirstPass
<1>4. bad => told'[t]
  BY <1>3 DEF Phase
<1>5. \A i \in 1..Len(ent[t]) : i >= at[t] => ent'[t][i].finished \/ bad
  BY <1>1 DEF Phase, Unfinishing
<1> HIDE DEF bad
<1>6. CASE again
  BY <1>1, <1>2, <1>3, <1>6 DEF Phase, Forward, Aborting, Working, Unfinishing
<1>7. CASE over /\ ~again
  BY <1>1, <1>2, <1>3, <1>4, <1>5, <1>7
  DEF Phase, Forward, Aborting, Working, Unfinishing
<1>8. CASE ~over
  BY <1>1, <1>2, <1>3, <1>4, <1>5, <1>8
  DEF Phase, Forward, Aborting, Working, Unfinishing
<1> QED BY <1>2, <1>6, <1>7, <1>8

\* Finish of a committed group.
LEMMA NextPublishedMoves ==
  ASSUME Types, scene' = scene, NEW t \in Trans, Phase(t), Unfinishing(t),
         pc[t] = "publish", NEW failed \in BOOLEAN, NextPublished(t, failed),
         failed \/ ent'[t][at[t]].finished
  PROVE  MoveTypes /\ Alone(t) /\ Phase(t)'
<1> DEFINE over == at[t] = Len(ent[t])
<1>1. at[t] \in 1..Len(ent[t]) /\ Len(ent[t]) \in Nat
  BY DEF Phase, Types, Working
<1>2. MoveTypes /\ Alone(t)
  BY <1>1 DEF Types, MoveTypes, Alone, NextPublished, Places
<1>3. /\ pc'[t] = IF over THEN "ended" ELSE "publish"
      /\ at'[t] = IF over THEN 1 ELSE at[t] + 1
      /\ pass'[t] = pass[t]
      /\ told'[t] <=> (told[t] \/ failed)
  BY DEF Types, NextPublished
<1>4. \A i \in 1..Len(ent[t]) : IF i > at[t] THEN ~ent'[t][i].finished
                                ELSE ent'[t][i].finished \/ told'[t]
  BY <1>1, <1>3 DEF Phase, Unfinishing
<1>5. pass'[t].failed => told'[t]
  BY <1>3 DEF Phase
<1>6. CASE over
  BY <1>1, <1>2, <1>3, <1>4, <1>5, <1>6
  DEF Phase, Forward, Aborting, Working, Unfinishing
<1>7. CASE ~over
  BY <1>1, <1>2, <1>3, <1>4, <1>5, <1>7
  DEF Phase, Forward, Aborting, Working, Unfinishing
<1> QED BY <1>2, <1>6, <1>7

\* From one step of the abort to the next on the same entry.
LEMMA GoMoves ==
  ASSUME Types, scene' = scene, NEW t \in Trans, Phase(t), Unfinishing(t),
         ent'[t][at[t]].finished = ent[t][at[t]].finished,
         pc[t] \in Aborting, NEW where \in Aborting, Go(t, where),
         ~ent[t][at[t]].finished
  PROVE  MoveTypes /\ Alone(t) /\ Phase(t)'
<1>1. MoveTypes /\ Alone(t)
  BY DEF Types, MoveTypes, Alone, Go, Places
<1>2. /\ pc'[t] = where /\ at'[t] = at[t] /\ pass'[t] = pass[t]
      /\ told'[t] = told[t]
  BY DEF Types, Go
<1> QED
  BY <1>1, <1>2 DEF Phase, Forward, Aborting, Working, Unfinishing

-----------------------------------------------------------------------------
\* The arena's references.

\* The entries an invocation has not finished.
Owed(p) ==
    {o \in Trans \X Nat :
       /\ Owner[o[1]] = p /\ pc[o[1]] # "crashed"
       /\ o[2] \in 1..Len(ent[o[1]]) /\ ~ent[o[1]][o[2]].finished}

\* Somebody has named what is retained, or nobody is left to.
Spoken(p) == \E t \in Trans : Owner[t] = p /\ (told[t] \/ pc[t] = "crashed")

\* The arena outlives every unfinished entry; what keeps it any longer has
\* been named.
Refs(p) ==
    /\ IsFiniteSet(Owed(p)) /\ Cardinality(Owed(p)) <= arena[p].refs
    /\ arena[p].refs = Cardinality(Owed(p)) \/ Spoken(p)
    /\ arena[p].refs > 0 => arena[p].disk
    /\ arena[p].disk /\ arena[p].refs = 0 => Spoken(p)

\* An unfinished entry's record is sealed.
Sealed ==
    \A t \in Trans : \A i \in 1..Len(ent[t]) :
      pc[t] # "crashed" /\ ~ent[t][i].finished => ent[t][i].sealed

RInv ==
    /\ Types /\ \A t \in Trans : Phase(t)
    /\ \A p \in Procs : Refs(p)
    /\ Sealed /\ RecoveryRecorded

Holds(e) == e.previous # None \/ e.rollback # None

\* The entries keep what the arena depends on.
Quietly(t) ==
    /\ ent' \in [Trans -> Seq(Entry)]
    /\ \A u \in Trans : Len(ent'[u]) = Len(ent[u])
    /\ \A u \in Trans : \A i \in 1..Len(ent[u]) :
         /\ ent'[u][i].finished = ent[u][i].finished
         /\ ent'[u][i].sealed = ent[u][i].sealed
         /\ Holds(ent'[u][i]) => Holds(ent[u][i]) \/ (u = t /\ i = at[t])

\* A step of t that finishes nothing and keeps the arenas' references.
Fine(t) ==
    /\ Types' /\ scene' = scene
    /\ Alone(t) /\ Phase(t)'
    /\ pc[t] # "crashed" /\ pc'[t] # "crashed"
    /\ Quietly(t)
    /\ ent' = ent \/ (at[t] \in 1..Len(ent[t]) /\ ~ent[t][at[t]].finished)
    /\ \A p \in Procs : /\ arena'[p].refs = arena[p].refs
                        /\ arena'[p].disk = arena[p].disk

\* The entries of a transaction.
LEMMA LenIs ==
  ASSUME Types, NEW t \in Trans
  PROVE  /\ Len(ent[t]) \in Nat /\ DOMAIN ent[t] = 1..Len(ent[t])
         /\ \A i \in 1..Len(ent[t]) : ent[t][i] \in Entry
  BY DEF Types

\* Every transaction belongs to an invocation.
LEMMA OwnerIs ==
  ASSUME Types, NEW t \in Trans
  PROVE  Owner[t] \in Procs
  BY DEF Types, Owner, SceneType

\* What is unfinished has a directory.
LEMMA OwedKept ==
  ASSUME RInv, NEW t \in Trans, pc[t] # "crashed",
         NEW i \in 1..Len(ent[t]), ~ent[t][i].finished
  PROVE  ent[t][i].sealed /\ arena[Owner[t]].disk /\ arena[Owner[t]].refs > 0
<1> DEFINE p == Owner[t]
<1>1. p \in Procs /\ arena[p].refs \in Nat /\ i \in Nat
  BY OwnerIs, LenIs DEF RInv, Types
<1>2. <<t, i>> \in Owed(p)
  BY <1>1 DEF Owed
<1>3. IsFiniteSet(Owed(p)) /\ Cardinality(Owed(p)) <= arena[p].refs
  BY <1>1 DEF RInv, Refs
<1>4. Cardinality(Owed(p)) \in Nat /\ Cardinality(Owed(p)) # 0
  BY <1>2, <1>3, FS_EmptySet, FS_CardinalityType
<1>5. arena[p].refs > 0
  BY <1>1, <1>3, <1>4
<1> QED BY <1>1, <1>5 DEF RInv, Sealed, Refs

\* The quiet steps keep the invariant.
LEMMA FineKeeps ==
  ASSUME RInv, NEW t \in Trans, Fine(t)
  PROVE  RInv'
<1>1. Owner' = Owner
  BY DEF Fine, Owner
<1>2. \A u \in Trans : /\ pc'[u] = "crashed" <=> pc[u] = "crashed"
                       /\ told[u] => told'[u]
  BY DEF Fine, Alone
<1>3. \A p \in Procs : Owed(p)' = Owed(p)
  BY <1>1, <1>2 DEF Fine, Quietly, Owed
<1>4. \A p \in Procs : Spoken(p) => Spoken(p)'
  BY <1>1, <1>2 DEF Spoken
<1>5. \A p \in Procs : Refs(p)'
  BY <1>3, <1>4 DEF Fine, Refs, RInv
<1>6. Sealed'
  BY <1>2 DEF Fine, Quietly, Sealed, RInv
<1>7. \A u \in Trans : Phase(u)'
  BY PhaseStays DEF Fine, Quietly, Alone, RInv
<1>8. RecoveryRecorded'
  <2> SUFFICES ASSUME NEW u \in Trans, NEW i \in 1..Len(ent[u]),
                      Holds(ent'[u][i])
               PROVE  ent'[u][i].sealed /\ arena'[Owner[u]].disk
    <3>1. \A u \in Trans : DOMAIN ent'[u] = 1..Len(ent[u])
      BY DEF Fine, Quietly
    <3> QED BY <1>1, <3>1 DEF RecoveryRecorded, Holds
  <2>1. Owner[u] \in Procs /\ DOMAIN ent[u] = 1..Len(ent[u])
    BY OwnerIs, LenIs DEF RInv
  <2>2. CASE Holds(ent[u][i])
    BY SMTT(60), <2>1, <2>2 DEF RInv, RecoveryRecorded, Holds, Fine, Quietly
  <2>3. CASE ~Holds(ent[u][i])
    <3>1. u = t /\ i = at[t]
      BY <2>3 DEF Fine, Quietly
    <3>2. ent' # ent
      BY <2>3
    <3>3. ent[u][i].sealed /\ arena[Owner[u]].disk
      BY <3>1, <3>2, OwedKept DEF Fine
    <3> QED BY <2>1, <3>3 DEF Fine, Quietly
  <2> QED BY <2>2, <2>3
<1> QED BY <1>5, <1>6, <1>7, <1>8 DEF RInv, Fine

-----------------------------------------------------------------------------
\* The steps that finish nothing.

\* The entries stay, or the one t works on, unfinished, changes in what the
\* arena does not depend on.
EntryKept(t) ==
    \/ ent' = ent
    \/ /\ at[t] \in 1..Len(ent[t]) /\ ~Now(t).finished
       /\ \E e \in Entry : /\ Updated(t, e)
                           /\ ~e.finished /\ e.sealed = Now(t).sealed

ArenaTypes ==
    arena' \in [Procs -> [disk : BOOLEAN, refs : Nat, retained : BOOLEAN,
                          lease : BOOLEAN, temporary : BOOLEAN]]

ArenaKept ==
    /\ ArenaTypes
    /\ \A p \in Procs : /\ arena'[p].refs = arena[p].refs
                        /\ arena'[p].disk = arena[p].disk

\* Such a step finishes nothing, and holds something new only where t works.
LEMMA KeptIsQuiet ==
  ASSUME Types, NEW t \in Trans, EntryKept(t)
  PROVE  /\ Quietly(t) /\ Unfinishing(t)
         /\ at[t] \in 1..Len(ent[t]) =>
              ent'[t][at[t]].finished = ent[t][at[t]].finished
<1>1. CASE ent' = ent
  BY <1>1 DEF Quietly, Unfinishing, Types
<1>2. CASE ent' # ent
  <2>1. PICK e \in Entry : /\ Updated(t, e)
                           /\ ~e.finished /\ e.sealed = Now(t).sealed
    BY <1>2 DEF EntryKept
  <2>2. at[t] \in 1..Len(ent[t]) /\ ~Now(t).finished /\ Now(t) = ent[t][at[t]]
    BY <1>2 DEF EntryKept, Now
  <2>3. e.finished = Now(t).finished
    <3>1. Now(t) \in Entry
      BY <2>2, LenIs
    <3>2. e.finished \in BOOLEAN /\ Now(t).finished \in BOOLEAN
      BY <3>1 DEF Entry
    <3> QED BY <2>1, <2>2, <3>2
  <2> QED BY <2>1, <2>2, <2>3 DEF Updated, Quietly, Unfinishing
<1> QED BY <1>1, <1>2

\* What makes a step of t quiet.
LEMMA FineFrom ==
  ASSUME Types, NEW t \in Trans, scene' = scene, public' \in [Names -> Place],
         data' \in [Objects -> Data \cup {None}],
         made' \in [Objects -> Data \cup {None}], saves' \in Nat,
         MoveTypes, Alone(t), Phase(t)', pc[t] # "crashed", pc'[t] # "crashed",
         EntryKept(t), ArenaKept
  PROVE  Fine(t)
<1>1. Quietly(t)
  BY KeptIsQuiet
<1>2. Types'
  BY <1>1 DEF Types, MoveTypes, ArenaKept, ArenaTypes, Quietly
<1> QED
  BY <1>1, <1>2 DEF Fine, EntryKept, ArenaKept, Now

\* An arena that is left alone keeps its references and its directory.
LEMMA ArenaStays ==
  ASSUME Types, arena' = arena
  PROVE  ArenaKept
  BY DEF Types, ArenaKept, ArenaTypes

\* So does one that is quarantined.
LEMMA QuarantineKeeps ==
  ASSUME Types, NEW t \in Trans, Quarantine(t)
  PROVE  ArenaKept
<1> DEFINE p == Owner[t]
           A == [disk : BOOLEAN, refs : Nat, retained : BOOLEAN,
                 lease : BOOLEAN, temporary : BOOLEAN]
           a == [arena[p] EXCEPT !.retained = TRUE, !.lease = FALSE]
<1>1. p \in Procs
  BY OwnerIs
<1>2. arena \in [Procs -> A]
  BY DEF Types
<1>3. arena[p] \in A
  BY <1>1, <1>2
<1>4. a \in A /\ a.refs = arena[p].refs /\ a.disk = arena[p].disk
  BY <1>3
<1>5. arena' = [arena EXCEPT ![p] = a]
  BY <1>1, <1>2 DEF Quarantine
<1>6. \A q \in Procs : arena'[q] = IF q = p THEN a ELSE arena[q]
  BY <1>2, <1>5
<1> HIDE DEF a
<1>7. arena' \in [Procs -> A]
  BY <1>1, <1>2, <1>4, <1>5
<1> QED BY <1>4, <1>6, <1>7 DEF ArenaKept, ArenaTypes

\* Whoever works on an entry has it.
LEMMA NowIs ==
  ASSUME Types, NEW t \in Trans, Phase(t), pc[t] \in Working
  PROVE  /\ at[t] \in 1..Len(ent[t]) /\ Now(t) \in Entry
         /\ Now(t).name \in Names
         /\ pc[t] \in Forward => ~Now(t).finished
<1>1. at[t] \in 1..Len(ent[t])
  BY DEF Phase
<1>2. Now(t) \in Entry
  BY <1>1, LenIs DEF Now
<1>3. Now(t).name \in Names
  BY <1>2 DEF Entry
<1> QED BY <1>1, <1>2, <1>3 DEF Phase, Now

\* A step that changes its entry so.
LEMMA Updating ==
  ASSUME Types, NEW t \in Trans, at[t] \in 1..Len(ent[t]), ~Now(t).finished,
         NEW e \in Entry, Update(t, e), ~e.finished, e.sealed = Now(t).sealed
  PROVE  EntryKept(t)
  BY UpdateStep DEF EntryKept, Types

\* The scan of a preparation is quiet, refused or not.
LEMMA OpenFine ==
  ASSUME Types, NEW t \in Trans, Phase(t), Open(t)
  PROVE  Fine(t)
<1>1. UNCHANGED <<scene, public, data, arena, told, made, saves, ent>>
  BY DEF Open
<1>2. EntryKept(t) /\ ArenaKept
  BY <1>1, ArenaStays DEF EntryKept
<1>3. MoveTypes /\ Alone(t) /\ Phase(t)' /\ pc'[t] # "crashed"
  <2>1. CASE Abort(t)
    <3>1. ent'[t] \in Seq(Entry)
      BY <1>1 DEF Types
    <3>2. pc'[t] # "crashed"
      BY <2>1 DEF Abort, Types
    <3> QED BY <1>1, <2>1, <3>1, <3>2, AbortMoves
  <2>2. CASE /\ pc' = [pc EXCEPT ![t] = "record"]
             /\ UNCHANGED <<ent, at, pass, outcome>>
    <3>1. MoveTypes /\ Alone(t) /\ pc'[t] = "record" /\ pc'[t] # "crashed"
      BY <1>1, <2>2 DEF Types, MoveTypes, Alone, Places, Forward
    <3>2. Phase(t)'
      BY <1>1, <2>2, <3>1 DEF Phase, Open, Forward, Aborting, Working, Outputs
    <3> QED BY <3>1, <3>2
  <2> QED BY <2>1, <2>2 DEF Open
<1>4. pc[t] # "crashed"
  BY DEF Open
<1> QED BY <1>1, <1>2, <1>3, <1>4, FineFrom DEF Types

\* An abort that leaves the entries, or the changed one, unfinished.
LEMMA AbortFine ==
  ASSUME Types, NEW t \in Trans, scene' = scene, public' \in [Names -> Place],
         UNCHANGED <<data, made, saves, told>>, pc[t] # "crashed",
         EntryKept(t), ArenaKept, Abort(t)
  PROVE  Fine(t)
<1>1. ent'[t] \in Seq(Entry)
  BY KeptIsQuiet DEF Quietly
<1>2. pc'[t] # "crashed"
  BY DEF Abort, Types
<1> QED BY <1>1, <1>2, AbortMoves, FineFrom DEF Types

\* A step of the commit that succeeds.
LEMMA AdvanceFine ==
  ASSUME Types, NEW t \in Trans, Phase(t), scene' = scene,
         public' \in [Names -> Place], UNCHANGED <<data, made, saves, told>>,
         pc[t] \in {"validate", "capture", "install"},
         EntryKept(t), ArenaKept, Advance(t)
  PROVE  Fine(t)
<1>1. at[t] \in 1..Len(ent[t])
  BY DEF Phase, Working
<1>2. /\ Unfinishing(t) /\ ent'[t][at[t]].finished = ent[t][at[t]].finished
  BY <1>1, KeptIsQuiet
<1>3. pc'[t] # "crashed"
  BY DEF Advance, After, Types
<1> QED BY <1>2, <1>3, AdvanceMoves, FineFrom DEF Types

\* A cancelled commit.
LEMMA CancelledFine ==
  ASSUME Types, NEW t \in Trans, Phase(t), Cancelled(t)
  PROVE  Fine(t)
<1>1. /\ UNCHANGED <<scene, public, data, arena, told, made, saves, ent>>
      /\ Abort(t) /\ pc[t] # "crashed"
  BY DEF Cancelled
<1>2. EntryKept(t) /\ ArenaKept
  BY <1>1, ArenaStays DEF EntryKept
<1> QED BY <1>1, <1>2, AbortFine DEF Types

\* The verdict on a committed group.
LEMMA DecideFine ==
  ASSUME Types, NEW t \in Trans, Phase(t), Decide(t)
  PROVE  Fine(t)
<1>1. /\ UNCHANGED <<scene, public, data, arena, told, made, saves, ent>>
      /\ pc[t] = "committed"
  BY DEF Decide
<1>2. EntryKept(t) /\ ArenaKept
  BY <1>1, ArenaStays DEF EntryKept
<1>3. CASE Abort(t)
  BY <1>1, <1>2, <1>3, AbortFine DEF Types
<1>4. CASE ~Abort(t)
  <2>1. /\ pc' = [pc EXCEPT ![t] = "publish"] /\ at' = [at EXCEPT ![t] = 1]
        /\ outcome' = [outcome EXCEPT ![t] = "published"] /\ pass' = pass
    BY <1>4 DEF Decide
  <2>2. MoveTypes /\ Alone(t) /\ pc'[t] = "publish" /\ at'[t] = 1
    BY <1>1, <2>1 DEF Types, MoveTypes, Alone, Places
  <2>3. Len(ent[t]) \in Nat
    BY LenIs
  <2>4. Phase(t)'
    BY <1>1, <2>1, <2>2, <2>3 DEF Phase, Forward, Aborting, Working, Outputs
  <2> QED BY <1>1, <1>2, <2>2, <2>4, FineFrom DEF Types
<1> QED BY <1>3, <1>4

\* The object a transaction stages is one of its own.
LEMMA FreshIs ==
  ASSUME NEW t \in Trans, NEW n \in Names
  PROVE  FreshOf(t, n) \in Objects
  BY DEF Objects

\* The tools finish nothing and give no reference back.
LEMMA ProduceFine ==
  ASSUME Types, NEW t \in Trans, Phase(t), Produce(t)
  PROVE  Fine(t)
<1>1. /\ UNCHANGED <<scene, public, told, saves>>
      /\ pc[t] = "produce"
  BY DEF Produce
<1>2. /\ at[t] \in 1..Len(ent[t]) /\ Now(t) \in Entry /\ Now(t).name \in Names
      /\ ~Now(t).finished
  BY <1>1, NowIs DEF Working, Forward
<1> DEFINE n == Now(t).name
           last == at[t] = Len(ent[t])
<1>3. CASE UNCHANGED <<data, ent, arena, guarded, made>> /\ Abort(t)
  <2>1. EntryKept(t) /\ ArenaKept
    BY <1>3, ArenaStays DEF EntryKept
  <2> QED BY <1>1, <1>3, <2>1, AbortFine DEF Types
<1>4. CASE ~(UNCHANGED <<data, ent, arena, guarded, made>> /\ Abort(t))
  <2>1. PICK extra \in BOOLEAN :
          /\ \/ /\ n \in DeleteOnly[t]
                /\ UNCHANGED <<data, ent>>
             \/ /\ n \notin DeleteOnly[t]
                /\ \E b \in Bytes :
                     data' = [data EXCEPT ![FreshOf(t, n)] =
                       [kind |-> IF n \in Trees THEN "dir" ELSE "file",
                        bytes |-> b]]
                /\ Update(t, [Now(t) EXCEPT !.stage = FreshOf(t, n)])
          /\ made' = [made EXCEPT ![FreshOf(t, n)] = data'[FreshOf(t, n)]]
          /\ arena' = [arena EXCEPT ![Owner[t]].temporary = @ \/ extra]
          /\ pc' = [pc EXCEPT ![t] = IF last THEN "validate" ELSE "produce"]
          /\ at' = [at EXCEPT ![t] = IF last THEN 1 ELSE @ + 1]
          /\ UNCHANGED <<pass, outcome>>
    BY <1>4, Zenon DEF Produce
  <2>2. FreshOf(t, n) \in Objects
    BY <1>2, FreshIs
  <2>3. data' \in [Objects -> Data \cup {None}]
    <3>1. CASE data' = data
      BY <3>1 DEF Types
    <3>2. CASE data' # data
      <4>1. PICK b \in Bytes :
              data' = [data EXCEPT ![FreshOf(t, n)] =
                [kind |-> IF n \in Trees THEN "dir" ELSE "file", bytes |-> b]]
        BY <2>1, <3>2
      <4>2. [kind |-> IF n \in Trees THEN "dir" ELSE "file", bytes |-> b] \in Data
        BY DEF Data, Kinds
      <4> QED BY <2>2, <4>1, <4>2 DEF Types
    <3> QED BY <3>1, <3>2
  <2>4. made' \in [Objects -> Data \cup {None}]
    BY <2>1, <2>2, <2>3 DEF Types
  <2>5. EntryKept(t)
    <3> DEFINE e == [Now(t) EXCEPT !.stage = FreshOf(t, n)]
    <3>1. e \in Entry /\ e.finished = Now(t).finished /\ e.sealed = Now(t).sealed
      BY <1>2, <2>2 DEF Entry, Place
    <3> HIDE DEF e
    <3>2. ent' = ent \/ Update(t, e)
      BY <2>1 DEF e
    <3> QED BY <1>2, <3>1, <3>2, Updating DEF EntryKept
  <2>6. ArenaKept
    <3>1. Owner[t] \in Procs
      BY OwnerIs
    <3> DEFINE x == arena[Owner[t]].temporary \/ extra
    <3>2. arena' = [arena EXCEPT ![Owner[t]].temporary = x]
      BY <2>1
    <3>3. x \in BOOLEAN
      OBVIOUS
    <3> HIDE DEF x
    <3> QED BY ZenonT(120), <3>1, <3>2, <3>3 DEF Types, ArenaKept, ArenaTypes
  <2>7. MoveTypes /\ Alone(t)
    BY <1>1, <1>2, <2>1 DEF Types, MoveTypes, Alone, Places, Forward
  <2>8. /\ pc'[t] \in {"validate", "produce"} /\ at'[t] \in 1..Len(ent[t])
        /\ pass'[t] = pass[t] /\ told'[t] = told[t]
    <3>1. Len(ent[t]) \in Nat
      BY LenIs
    <3> QED BY <1>1, <1>2, <2>1, <3>1 DEF Types
  <2>9. Phase(t)'
    <3>1. /\ Unfinishing(t) /\ ent'[t][at[t]].finished = ent[t][at[t]].finished
      BY <1>2, <2>5, KeptIsQuiet
    <3>2. \A i \in 1..Len(ent[t]) : ~ent'[t][i].finished
      BY <1>1, <3>1 DEF Phase, Forward, Unfinishing
    <3> QED
      BY <1>1, <2>8, <3>1, <3>2 DEF Phase, Forward, Aborting, Working, Unfinishing
  <2> QED
    BY <1>1, <2>3, <2>4, <2>5, <2>6, <2>7, <2>8, <2>9, FineFrom DEF Types
<1> QED BY <1>3, <1>4

\* Action 0 is quiet.
LEMMA ValidateFine ==
  ASSUME Types, NEW t \in Trans, Phase(t), Validate(t)
  PROVE  Fine(t)
<1>1. /\ UNCHANGED <<scene, public, data, arena, told, made, saves>>
      /\ pc[t] = "validate"
  BY DEF Validate, Going
<1>2. /\ at[t] \in 1..Len(ent[t]) /\ Now(t) \in Entry /\ ~Now(t).finished
  BY <1>1, NowIs DEF Working, Forward
<1> DEFINE e == Now(t)
           d == IF e.stage = None THEN None ELSE data[e.stage]
           seen == [e EXCEPT !.fresh = e.stage,
                             !.tree = IF d # None /\ d.kind = "dir" THEN d ELSE None]
           same == [seen EXCEPT !.unchanged = e.bytes # None /\ e.bytes = d]
           missed == [e EXCEPT !.fresh = e.stage]
<1>3. ArenaKept /\ public' \in [Names -> Place]
  BY <1>1, ArenaStays DEF Types
<1>4. /\ Abort(t) \/ Advance(t)
      /\ UNCHANGED ent \/ Update(t, seen) \/ Update(t, same) \/ Update(t, missed)
  BY DEF Validate
<1>5. e.stage \in Place /\ d \in Data \cup {None}
  BY <1>2 DEF Entry, Types, Place
<1>6. /\ seen \in Entry /\ ~seen.finished /\ seen.sealed = e.sealed
      /\ missed \in Entry /\ ~missed.finished /\ missed.sealed = e.sealed
  <2> HIDE DEF d
  <2> QED BY <1>2, <1>5 DEF Entry
<1>7. same \in Entry /\ ~same.finished /\ same.sealed = e.sealed
  <2> HIDE DEF d, seen
  <2> QED BY <1>6 DEF Entry
<1> HIDE DEF seen, same, missed
<1>8. EntryKept(t)
  BY <1>2, <1>4, <1>6, <1>7, Updating DEF EntryKept
<1> QED BY <1>1, <1>3, <1>4, <1>8, AbortFine, AdvanceFine

\* Capture moves what is at the name into the entry's slot, or nothing.
LEMMA CaptureFine ==
  ASSUME Types, NEW t \in Trans, Phase(t), Capture(t)
  PROVE  Fine(t)
<1>1. /\ UNCHANGED <<scene, data, arena, told, made, saves>>
      /\ pc[t] = "capture"
  BY DEF Capture, Going
<1>2. /\ at[t] \in 1..Len(ent[t]) /\ Now(t) \in Entry /\ ~Now(t).finished
      /\ Now(t).name \in Names
  BY <1>1, NowIs DEF Working, Forward
<1> DEFINE e == Now(t)
           caught == [e EXCEPT !.captured = TRUE, !.previous = public[e.name]]
           good == [caught EXCEPT !.capture_valid = TRUE]
<1>3. /\ Abort(t) \/ Advance(t)
      /\ UNCHANGED ent \/ Update(t, caught) \/ Update(t, good)
      /\ public' = public \/ public' = [public EXCEPT ![e.name] = None]
  BY DEF Capture
<1>4. public' \in [Names -> Place] /\ public[e.name] \in Place
  BY <1>2, <1>3 DEF Types, Place
<1>5. /\ caught \in Entry /\ ~caught.finished /\ caught.sealed = e.sealed
      /\ good \in Entry /\ ~good.finished /\ good.sealed = e.sealed
  BY <1>2, <1>4 DEF Entry
<1> HIDE DEF caught, good
<1>6. EntryKept(t)
  BY <1>2, <1>3, <1>5, Updating DEF EntryKept
<1> QED BY <1>1, <1>3, <1>4, <1>6, ArenaStays, AbortFine, AdvanceFine

\* Action 2 is quiet: a fresh or an old object moves to the public name.
LEMMA InstallFine ==
  ASSUME Types, NEW t \in Trans, Phase(t), Install(t)
  PROVE  Fine(t)
<1>1. /\ UNCHANGED <<scene, data, arena, told, made, saves>>
      /\ pc[t] = "install"
  BY DEF Install, Going
<1>2. /\ at[t] \in 1..Len(ent[t]) /\ Now(t) \in Entry /\ ~Now(t).finished
      /\ Now(t).name \in Names
  BY <1>1, NowIs DEF Working, Forward
<1> DEFINE e == Now(t)
           o == IF e.unchanged THEN e.previous ELSE e.stage
           back(how) == [e EXCEPT !.captured = FALSE, !.previous = Left(how, o)]
           new(how) == [e EXCEPT !.installed = TRUE, !.stage = Left(how, o)]
<1>3. /\ Abort(t) \/ Advance(t)
      /\ public' = public \/ public' = [public EXCEPT ![e.name] = o]
      /\ \/ UNCHANGED ent
         \/ \E how \in NoReplace(e.name, o) :
              Update(t, back(how)) \/ Update(t, new(how))
  BY Zenon DEF Install
<1>4. o \in Place /\ \A how : Left(how, o) \in Place
  BY <1>2 DEF Entry, Left, Place
<1>5. public' \in [Names -> Place]
  BY <1>2, <1>3, <1>4 DEF Types
<1>6. \A how : /\ back(how) \in Entry /\ ~back(how).finished
               /\ back(how).sealed = e.sealed
               /\ new(how) \in Entry /\ ~new(how).finished
               /\ new(how).sealed = e.sealed
  <2> HIDE DEF o
  <2> QED BY <1>2, <1>4 DEF Entry
<1> HIDE DEF back, new
<1>7. EntryKept(t)
  BY <1>2, <1>3, <1>6, Updating DEF EntryKept
<1> QED BY SMTT(60), <1>1, <1>3, <1>5, <1>7, ArenaStays, AbortFine, AdvanceFine

\* A failed restoration, or a failed finish of an aborted entry.
LEMMA FailsFine ==
  ASSUME Types, NEW t \in Trans, Phase(t), scene' = scene,
         public' \in [Names -> Place], UNCHANGED <<data, made, saves>>,
         pc[t] \in Aborting, EntryKept(t), RestoreFails(t)
  PROVE  Fine(t)
<1>1. Unfinishing(t)
  BY KeptIsQuiet
<1>2. pc'[t] # "crashed" /\ pc[t] # "crashed"
  BY DEF RestoreFails, NextEntry, Types, Aborting
<1>3. MoveTypes /\ Alone(t) /\ Phase(t)'
  BY <1>1, NextEntryMoves DEF RestoreFails
<1>4. ArenaKept
  BY QuarantineKeeps DEF RestoreFails
<1> QED BY <1>2, <1>3, <1>4, FineFrom DEF Types

\* One step of the abort leads to the next.
LEMMA GoFine ==
  ASSUME Types, NEW t \in Trans, Phase(t), scene' = scene,
         public' \in [Names -> Place], UNCHANGED <<data, made, saves>>,
         pc[t] \in Aborting, EntryKept(t), ~Now(t).finished,
         NEW where \in Aborting, Go(t, where)
  PROVE  Fine(t)
<1>1. at[t] \in 1..Len(ent[t])
  BY DEF Phase, Working
<1>2. /\ Unfinishing(t) /\ ent'[t][at[t]].finished = ent[t][at[t]].finished
  BY <1>1, KeptIsQuiet
<1>3. pc'[t] # "crashed" /\ pc[t] # "crashed"
  BY DEF Go, Types, Aborting
<1>4. MoveTypes /\ Alone(t) /\ Phase(t)'
  BY <1>2, GoMoves DEF Now
<1>5. ArenaKept
  BY ArenaStays DEF Go
<1> QED BY <1>3, <1>4, <1>5, FineFrom DEF Types

\* Taking what is at the public name into the rollback slot is quiet.
LEMMA RollbackCaptureFine ==
  ASSUME Types, NEW t \in Trans, Phase(t), RollbackCapture(t)
  PROVE  Fine(t)
<1> DEFINE e == Now(t)
           gone == [e EXCEPT !.installed = FALSE]
           taken == [e EXCEPT !.rollback = public[e.name], !.rollback_pending = TRUE]
<1>1. /\ UNCHANGED <<scene, data, made, saves>>
      /\ pc[t] = "restore" /\ ~e.finished
  BY DEF RollbackCapture
<1>2. at[t] \in 1..Len(ent[t]) /\ e \in Entry /\ e.name \in Names
  BY <1>1, NowIs DEF Working, Aborting
<1>3. /\ \/ Go(t, "restore") \/ Go(t, "check") \/ RestoreFails(t)
      /\ UNCHANGED ent \/ Update(t, gone) \/ Update(t, taken)
      /\ public' = public \/ \E o \in {public[e.name], None} :
                               public' = [public EXCEPT ![e.name] = o]
  BY DEF RollbackCapture
<1>4. public' \in [Names -> Place] /\ public[e.name] \in Place
  BY <1>2, <1>3 DEF Types, Place
<1>5. /\ gone \in Entry /\ ~gone.finished /\ gone.sealed = e.sealed
      /\ taken \in Entry /\ ~taken.finished /\ taken.sealed = e.sealed
  BY <1>1, <1>2, <1>4 DEF Entry
<1> HIDE DEF gone, taken
<1>6. EntryKept(t)
  BY <1>1, <1>2, <1>3, <1>5, Updating DEF EntryKept
<1> QED BY <1>1, <1>3, <1>4, <1>6, GoFine, FailsFine DEF Aborting

\* Discarding it or putting it back is quiet.
LEMMA RollbackCheckFine ==
  ASSUME Types, NEW t \in Trans, Phase(t), RollbackCheck(t)
  PROVE  Fine(t)
<1> DEFINE e == Now(t)
           ours == [e EXCEPT !.rollback = None, !.rollback_pending = FALSE,
                             !.installed = FALSE]
           back(how) == [e EXCEPT !.rollback_pending = FALSE,
                                  !.rollback = Left(how, e.rollback)]
<1>1. /\ UNCHANGED <<scene, data, made, saves>>
      /\ pc[t] = "check"
  BY DEF RollbackCheck
<1>2. /\ at[t] \in 1..Len(ent[t]) /\ e \in Entry /\ e.name \in Names
      /\ ~e.finished
  BY <1>1, NowIs DEF Working, Aborting, Phase, Now
<1>3. /\ \/ Go(t, "restore") \/ RestoreFails(t)
      /\ public' = public \/ public' = [public EXCEPT ![e.name] = e.rollback]
      /\ \/ UNCHANGED ent \/ Update(t, ours)
         \/ \E how \in NoReplace(e.name, e.rollback) : Update(t, back(how))
  BY Zenon DEF RollbackCheck
<1>4. e.rollback \in Place /\ \A how : Left(how, e.rollback) \in Place
  BY <1>2 DEF Entry, Left, Place
<1>5. public' \in [Names -> Place]
  BY <1>2, <1>3, <1>4 DEF Types
<1>6. /\ ours \in Entry /\ ~ours.finished /\ ours.sealed = e.sealed
      /\ \A how : /\ back(how) \in Entry /\ ~back(how).finished
                  /\ back(how).sealed = e.sealed
  BY ZenonT(120), <1>2, <1>4 DEF Entry, Place
<1> HIDE DEF ours, back
<1>7. EntryKept(t)
  BY <1>1, <1>2, <1>3, <1>6, Updating DEF EntryKept
<1> QED BY <1>1, <1>2, <1>3, <1>5, <1>7, GoFine, FailsFine DEF Aborting

\* Restoring the previous object is quiet.
LEMMA RestorePreviousFine ==
  ASSUME Types, NEW t \in Trans, Phase(t), RestorePrevious(t)
  PROVE  Fine(t)
<1> DEFINE e == Now(t)
           back(how) == [e EXCEPT !.captured = FALSE,
                                  !.previous = Left(how, e.previous)]
<1>1. /\ UNCHANGED <<scene, data, made, saves>>
      /\ pc[t] = "restore"
  BY DEF RestorePrevious
<1>2. /\ at[t] \in 1..Len(ent[t]) /\ e \in Entry /\ e.name \in Names
  BY <1>1, NowIs DEF Working, Aborting
<1>3. CASE e.finished
  <2>1. /\ UNCHANGED <<public, ent, arena>> /\ NextEntry(t, e.finish_failed)
    BY <1>3 DEF RestorePrevious
  <2>2. EntryKept(t) /\ ArenaKept /\ Unfinishing(t)
    BY <2>1, ArenaStays, KeptIsQuiet DEF EntryKept
  <2>3. e.finish_failed \in BOOLEAN /\ ent'[t][at[t]].finished
    BY <1>2, <1>3, <2>1 DEF Entry, Now
  <2>4. pc'[t] # "crashed" /\ pc[t] # "crashed"
    BY <1>1, <2>1 DEF NextEntry, Types
  <2>5. MoveTypes /\ Alone(t) /\ Phase(t)'
    BY <1>1, <2>1, <2>2, <2>3, NextEntryMoves DEF Aborting
  <2> QED BY <1>1, <2>1, <2>2, <2>4, <2>5, FineFrom DEF Types
<1>4. CASE ~e.finished
  <2>1. /\ \/ Go(t, "discard") \/ RestoreFails(t)
        /\ public' = public \/ public' = [public EXCEPT ![e.name] = e.previous]
        /\ \/ UNCHANGED ent
           \/ \E how \in NoReplace(e.name, e.previous) : Update(t, back(how))
    BY <1>4 DEF RestorePrevious
  <2>2. e.previous \in Place /\ \A how : Left(how, e.previous) \in Place
    BY <1>2 DEF Entry, Left, Place
  <2>3. public' \in [Names -> Place]
    BY <1>2, <2>1, <2>2 DEF Types
  <2>4. \A how : /\ back(how) \in Entry /\ ~back(how).finished
                 /\ back(how).sealed = e.sealed
    BY <1>2, <1>4, <2>2 DEF Entry
  <2> HIDE DEF back
  <2>5. EntryKept(t)
    BY <1>2, <1>4, <2>1, <2>4, Updating DEF EntryKept
  <2> QED BY <1>1, <1>4, <2>1, <2>3, <2>5, GoFine, FailsFine DEF Aborting
<1> QED BY <1>3, <1>4

\* A finish that fails gives no reference back.
LEMMA FinishFailsFine ==
  ASSUME Types, NEW t \in Trans, Phase(t), pc[t] \in {"discard", "publish"},
         UNCHANGED <<scene, public, data, made, saves>>, FinishFails(t)
  PROVE  Fine(t)
<1> DEFINE e == Now(t)
           less == [e EXCEPT !.captured = FALSE,
                             !.previous = IF e.captured THEN None ELSE @]
<1>1. /\ at[t] \in 1..Len(ent[t]) /\ e \in Entry /\ ~e.finished
  BY NowIs DEF Working, Aborting, Phase, Now
<1>2. /\ UNCHANGED ent \/ Update(t, less)
      /\ Quarantine(t) /\ NextResult(t, TRUE)
  BY DEF FinishFails
<1>3. less \in Entry /\ ~less.finished /\ less.sealed = e.sealed
  <2> DEFINE x == IF e.captured THEN None ELSE e.previous
  <2>1. x \in Place
    BY <1>1 DEF Entry, Place
  <2>2. less = [e EXCEPT !.captured = FALSE, !.previous = x]
    BY <1>1 DEF Entry
  <2> HIDE DEF x, less
  <2> QED BY <1>1, <2>1, <2>2 DEF Entry
<1> HIDE DEF less
<1>4. EntryKept(t)
  BY <1>1, <1>2, <1>3, Updating DEF EntryKept
<1>5. Unfinishing(t)
  BY <1>4, KeptIsQuiet
<1>6. CASE pc[t] = "discard"
  BY <1>2, <1>4, <1>6, FailsFine DEF NextResult, RestoreFails, Aborting, Types
<1>7. CASE pc[t] = "publish"
  <2>1. NextPublished(t, TRUE)
    BY <1>2, <1>7 DEF NextResult
  <2>2. MoveTypes /\ Alone(t) /\ Phase(t)'
    BY <1>5, <1>7, <2>1, NextPublishedMoves
  <2>3. pc'[t] # "crashed"
    BY <1>7, <2>1 DEF NextPublished, Types
  <2>4. ArenaKept
    BY <1>2, QuarantineKeeps
  <2> QED BY <1>4, <1>7, <2>2, <2>3, <2>4, FineFrom DEF Types
<1> QED BY <1>6, <1>7

-----------------------------------------------------------------------------
\* The steps that change the references.

\* The entry a preparation makes is sealed, unfinished and holds nothing.
LEMMA NewEntryIs ==
  ASSUME Types, NEW n \in Names, NEW o \in Place
  PROVE  /\ NewEntry(n, o) \in Entry
         /\ ~NewEntry(n, o).finished /\ NewEntry(n, o).sealed
         /\ ~Holds(NewEntry(n, o)) /\ NewEntry(n, o).name = n
         /\ NewEntry(n, o).expected = o
<1> DEFINE b == IF o = None THEN None ELSE data[o]
<1>1. b \in Data \cup {None}
  BY DEF Types, Place
<1>2. NewEntry(n, o) =
        [name |-> n, expected |-> o, bytes |-> b,
         fresh |-> None, tree |-> None, stage |-> None, previous |-> None,
         rollback |-> None, captured |-> FALSE, capture_valid |-> FALSE,
         installed |-> FALSE, unchanged |-> FALSE, rollback_pending |-> FALSE,
         finished |-> FALSE, finish_failed |-> FALSE, sealed |-> TRUE]
  BY DEF NewEntry
<1> HIDE DEF b
<1> QED BY <1>1, <1>2 DEF Entry, Place, Holds

ArenaType == [disk : BOOLEAN, refs : Nat, retained : BOOLEAN,
              lease : BOOLEAN, temporary : BOOLEAN]

\* What ArenaFor gives, as far as the references go.
LEMMA ArenaForIs ==
  ASSUME Types, NEW t \in Trans
  PROVE  /\ Owner[t] \in Procs /\ ArenaFor(t) \in ArenaType
         /\ ArenaFor(t).refs = arena[Owner[t]].refs + 1
         /\ arena[Owner[t]].disk => ArenaFor(t).disk
         /\ arena[Owner[t]].refs = 0 => ArenaFor(t).disk
<1>1. Owner[t] \in Procs /\ Mine(t) = arena[Owner[t]]
  BY OwnerIs DEF Mine
<1>2. arena[Owner[t]] \in ArenaType
  BY <1>1 DEF Types, ArenaType
<1>3. CASE arena[Owner[t]].refs > 0
  <2>1. ArenaFor(t) = [arena[Owner[t]] EXCEPT !.refs = @ + 1]
    BY <1>1, <1>3 DEF ArenaFor
  <2> QED BY <1>1, <1>2, <1>3, <2>1 DEF ArenaType
<1>4. CASE ~(arena[Owner[t]].refs > 0)
  <2>1. ArenaFor(t) = [NoArena EXCEPT !.disk = TRUE, !.refs = 1]
    BY <1>1, <1>4 DEF ArenaFor
  <2>2. ArenaFor(t) = [disk |-> TRUE, refs |-> 1, retained |-> FALSE,
                       lease |-> FALSE, temporary |-> FALSE]
    BY <2>1 DEF NoArena
  <2>3. arena[Owner[t]].refs = 0
    BY <1>2, <1>4 DEF ArenaType
  <2> QED BY <1>1, <2>2, <2>3 DEF ArenaType
<1> QED BY <1>3, <1>4

\* So the arena of a preparation has one more reference, and is on disk.
LEMMA ArenaForStep ==
  ASSUME Types, NEW t \in Trans, NEW x \in BOOLEAN, NEW y \in BOOLEAN,
         arena' = [arena EXCEPT ![Owner[t]] =
                     [ArenaFor(t) EXCEPT !.retained = x, !.lease = y]]
  PROVE  /\ ArenaTypes
         /\ arena'[Owner[t]].refs = arena[Owner[t]].refs + 1
         /\ arena[Owner[t]].disk => arena'[Owner[t]].disk
         /\ arena[Owner[t]].refs = 0 => arena'[Owner[t]].disk
         /\ \A p \in Procs : p # Owner[t] => arena'[p] = arena[p]
<1> DEFINE a == [ArenaFor(t) EXCEPT !.retained = x, !.lease = y]
<1>1. /\ a \in ArenaType /\ a.refs = ArenaFor(t).refs
      /\ a.disk = ArenaFor(t).disk
  BY ArenaForIs DEF ArenaType
<1> HIDE DEF a
<1>2. arena' = [arena EXCEPT ![Owner[t]] = a]
  BY DEF a
<1>3. arena'[Owner[t]] = a /\ \A p \in Procs : p # Owner[t] => arena'[p] = arena[p]
  BY <1>2, ArenaForIs DEF Types
<1>4. ArenaTypes
  BY <1>1, <1>2 DEF Types, ArenaTypes, ArenaType
<1> QED BY <1>1, <1>3, <1>4, ArenaForIs

\* A record that cannot be sealed: the reference is never given back, and the
\* transaction says so.
LEMMA RecordFailsKeeps ==
  ASSUME RInv, NEW t \in Trans, pc[t] = "record",
         UNCHANGED <<scene, public, data, made, saves, ent>>, Abort(t),
         told' = [told EXCEPT ![t] = TRUE],
         arena' = [arena EXCEPT ![Owner[t]] =
                     [ArenaFor(t) EXCEPT !.retained = TRUE, !.lease = FALSE]]
  PROVE  RInv'
<1>p. PICK p \in Procs : p = Owner[t]
  BY OwnerIs DEF RInv
<1>0. Types /\ arena[p].refs \in Nat
  BY DEF RInv, Types
<1>1. /\ ArenaTypes /\ arena'[p].refs = arena[p].refs + 1
      /\ arena[p].disk => arena'[p].disk
      /\ arena[p].refs = 0 => arena'[p].disk
      /\ \A q \in Procs : q # p => arena'[q] = arena[q]
  BY <1>0, <1>p, ArenaForStep
<1>2. ent'[t] \in Seq(Entry)
  BY <1>0 DEF Types
<1>3. MoveTypes /\ Alone(t) /\ Phase(t)'
  BY <1>0, <1>2, AbortMoves
<1>4. Types'
  BY <1>0, <1>1, <1>3 DEF Types, MoveTypes, ArenaTypes
<1>5. \A u \in Trans : /\ pc'[u] = "crashed" <=> pc[u] = "crashed"
                       /\ told[u] => told'[u]
  <2>1. pc'[t] # "crashed"
    BY <1>0 DEF Abort, Types
  <2> QED BY <1>3, <2>1 DEF Alone
<1>6. Owner' = Owner
  BY DEF Owner
<1>7. \A q \in Procs : Owed(q)' = Owed(q)
  BY <1>5, <1>6 DEF Owed
<1>8. Spoken(p)' /\ \A q \in Procs : Spoken(q) => Spoken(q)'
  <2>1. told'[t]
    BY <1>0 DEF Types
  <2> QED BY <1>p, <1>5, <1>6, <2>1 DEF Spoken
<1>9. Refs(p)'
  <2>1. /\ IsFiniteSet(Owed(p)) /\ Cardinality(Owed(p)) <= arena[p].refs
        /\ arena[p].refs > 0 => arena[p].disk
    BY <1>0 DEF RInv, Refs
  <2>2. Cardinality(Owed(p)) \in Nat
    BY <2>1, FS_CardinalityType
  <2>3. Cardinality(Owed(p)) <= arena'[p].refs /\ arena'[p].refs > 0 /\ arena'[p].disk
    BY <1>0, <1>1, <2>1, <2>2
  <2> QED BY <1>0, <1>6, <1>7, <1>8, <2>1, <2>3 DEF Refs
<1>10. ASSUME NEW q \in Procs, q # p PROVE Refs(q)'
  <2>1. Refs(q) /\ Owed(q)' = Owed(q) /\ arena'[q] = arena[q]
        /\ (Spoken(q) => Spoken(q)')
    BY <1>1, <1>7, <1>8, <1>10 DEF RInv
  <2> QED BY <2>1 DEF Refs
<1>11. Sealed'
  BY <1>5 DEF RInv, Sealed
<1>12. RecoveryRecorded'
  <2>1. \A q \in Procs : arena[q].disk => arena'[q].disk
    BY <1>1
  <2> QED BY <1>0, <1>6, <2>1, OwnerIs DEF RInv, RecoveryRecorded
<1>13. \A u \in Trans : Phase(u)'
  BY <1>0, <1>3, PhaseStays DEF Alone, RInv
<1>14. \A q \in Procs : Refs(q)'
  BY <1>9, <1>10
<1> QED BY <1>4, <1>11, <1>12, <1>13, <1>14 DEF RInv

\* A sealed record: one more reference for one more unfinished entry.
LEMMA RecordSealsKeeps ==
  ASSUME RInv, NEW t \in Trans, pc[t] = "record",
         UNCHANGED <<scene, public, data, made, saves, told>>,
         NEW e \in Entry, ~e.finished, e.sealed, ~Holds(e),
         ent' = [ent EXCEPT ![t] = Append(@, e)],
         arena' = [arena EXCEPT ![Owner[t]] = [ArenaFor(t) EXCEPT !.lease = TRUE]],
         NEW last \in BOOLEAN, last <=> at[t] = Len(Outputs[t]),
         \/ Abort(t)
         \/ /\ pc' = [pc EXCEPT ![t] = IF last THEN "produce" ELSE "open"]
            /\ at' = [at EXCEPT ![t] = IF last THEN 1 ELSE @ + 1]
            /\ UNCHANGED <<pass, outcome>>
  PROVE  RInv'
<1>p. PICK p \in Procs : p = Owner[t]
  BY OwnerIs DEF RInv
<1>0. /\ Types /\ arena[p].refs \in Nat /\ Phase(t)
      /\ ent \in [Trans -> Seq(Entry)] /\ Len(ent[t]) \in Nat
  BY LenIs DEF RInv, Types
<1>1. /\ ArenaTypes /\ arena'[p].refs = arena[p].refs + 1
      /\ arena[p].disk => arena'[p].disk
      /\ arena[p].refs = 0 => arena'[p].disk
      /\ \A q \in Procs : q # p => arena'[q] = arena[q]
  <2>1. [ArenaFor(t) EXCEPT !.lease = TRUE] =
          [ArenaFor(t) EXCEPT !.retained = ArenaFor(t).retained, !.lease = TRUE]
        /\ ArenaFor(t).retained \in BOOLEAN
    BY <1>0, ArenaForIs DEF ArenaType
  <2>2. /\ ArenaTypes
        /\ arena'[Owner[t]].refs = arena[Owner[t]].refs + 1
        /\ arena[Owner[t]].disk => arena'[Owner[t]].disk
        /\ arena[Owner[t]].refs = 0 => arena'[Owner[t]].disk
        /\ \A q \in Procs : q # Owner[t] => arena'[q] = arena[q]
    <3> DEFINE r == ArenaFor(t).retained
    <3>1. /\ r \in BOOLEAN
          /\ arena' = [arena EXCEPT ![Owner[t]] =
                         [ArenaFor(t) EXCEPT !.retained = r, !.lease = TRUE]]
      BY <2>1
    <3> HIDE DEF r
    <3> QED BY <1>0, <3>1, ArenaForStep
  <2> QED BY <1>p, <2>2
<1>2. /\ ent' \in [Trans -> Seq(Entry)]
      /\ Len(ent'[t]) = Len(ent[t]) + 1
      /\ \A i \in 1..Len(ent[t]) : ent'[t][i] = ent[t][i]
      /\ ent'[t][Len(ent[t]) + 1] = e
      /\ \A u \in Trans : u # t => ent'[u] = ent[u]
  BY <1>0, AppendProperties
<1>3. MoveTypes /\ Alone(t) /\ Phase(t)' /\ pc'[t] # "crashed"
  <2>1. CASE Abort(t)
    <3>1. pc'[t] # "crashed"
      BY <1>0, <2>1 DEF Abort, Types
    <3> QED BY <1>0, <1>2, <2>1, <3>1, AbortMoves
  <2>2. CASE ~Abort(t)
    <3>1. /\ pc' = [pc EXCEPT ![t] = IF last THEN "produce" ELSE "open"]
          /\ at' = [at EXCEPT ![t] = IF last THEN 1 ELSE @ + 1]
          /\ UNCHANGED <<pass, outcome>>
      BY <2>2
    <3>2. MoveTypes /\ Alone(t)
      BY <1>0, <3>1 DEF Types, MoveTypes, Alone, Places, Forward
    <3>3. /\ pc'[t] = IF last THEN "produce" ELSE "open"
          /\ at'[t] = IF last THEN 1 ELSE at[t] + 1
          /\ pass'[t] = pass[t] /\ told'[t] = told[t]
      BY <1>0, <3>1 DEF Types
    <3>4. \A i \in 1..Len(ent'[t]) : ~ent'[t][i].finished
      <4> SUFFICES ASSUME NEW i \in 1..Len(ent'[t]) PROVE ~ent'[t][i].finished
        OBVIOUS
      <4>1. i \in 1..Len(ent[t]) \/ i = Len(ent[t]) + 1
        BY <1>0, <1>2
      <4> QED BY <1>0, <1>2, <4>1 DEF Phase, Forward
    <3>5. at[t] = Len(ent[t]) + 1
      BY <1>0 DEF Phase
    <3>6. CASE last
      BY <1>0, <1>2, <3>2, <3>3, <3>4, <3>6 DEF Phase, Forward, Aborting, Working
    <3>7. CASE ~last
      BY <1>0, <1>2, <3>2, <3>3, <3>4, <3>5, <3>7
      DEF Phase, Forward, Aborting, Working
    <3> QED BY <3>6, <3>7
  <2> QED BY <2>1, <2>2
<1>4. Types'
  BY <1>0, <1>1, <1>2, <1>3 DEF Types, MoveTypes, ArenaTypes
<1>5. \A u \in Trans : /\ pc'[u] = "crashed" <=> pc[u] = "crashed"
                       /\ told[u] => told'[u]
  BY <1>3 DEF Alone
<1>6. Owner' = Owner
  BY DEF Owner
<1>7. /\ \A q \in Procs : q # p => Owed(q)' = Owed(q)
      /\ Owed(p)' = Owed(p) \cup {<<t, Len(ent[t]) + 1>>}
      /\ <<t, Len(ent[t]) + 1>> \notin Owed(p)
  <2>1. \A u \in Trans, i \in Nat :
          i \in 1..Len(ent'[u]) /\ ~ent'[u][i].finished <=>
            \/ i \in 1..Len(ent[u]) /\ ~ent[u][i].finished
            \/ u = t /\ i = Len(ent[t]) + 1
    <3> SUFFICES ASSUME NEW u \in Trans, NEW i \in Nat
                 PROVE  i \in 1..Len(ent'[u]) /\ ~ent'[u][i].finished <=>
                          \/ i \in 1..Len(ent[u]) /\ ~ent[u][i].finished
                          \/ u = t /\ i = Len(ent[t]) + 1
      OBVIOUS
    <3>1. CASE u # t
      BY <1>2, <3>1
    <3>2. CASE u = t
      BY <1>0, <1>2, <3>2
    <3> QED BY <3>1, <3>2
  <2>2. <<t, Len(ent[t]) + 1>> \notin Owed(p)
    BY <1>0 DEF Owed
  <2>3. Owed(p)' = Owed(p) \cup {<<t, Len(ent[t]) + 1>>}
    BY <1>p, <1>0, <1>5, <1>6, <2>1 DEF Owed
  <2>4. \A q \in Procs : q # p => Owed(q)' = Owed(q)
    BY <1>p, <1>0, <1>5, <1>6, <2>1 DEF Owed
  <2> QED BY <2>2, <2>3, <2>4
<1>8. \A q \in Procs : Spoken(q) => Spoken(q)'
  BY <1>5, <1>6 DEF Spoken
<1>9. Refs(p)'
  <2>1. /\ IsFiniteSet(Owed(p)) /\ Cardinality(Owed(p)) <= arena[p].refs
        /\ arena[p].refs > 0 => arena[p].disk
        /\ arena[p].refs = Cardinality(Owed(p)) \/ Spoken(p)
    BY <1>0 DEF RInv, Refs
  <2>2. Cardinality(Owed(p)) \in Nat
    BY <2>1, FS_CardinalityType
  <2>3. /\ IsFiniteSet(Owed(p)')
        /\ Cardinality(Owed(p)') = Cardinality(Owed(p)) + 1
    <3> DEFINE S == Owed(p)
               z == <<t, Len(ent[t]) + 1>>
    <3>1. IsFiniteSet(S) /\ z \notin S /\ Owed(p)' = S \cup {z}
      BY <1>7, <2>1
    <3> HIDE DEF S, z
    <3>2. IsFiniteSet(S \cup {z}) /\ Cardinality(S \cup {z}) = Cardinality(S) + 1
      BY <3>1, FS_AddElement
    <3>3. IsFiniteSet(Owed(p)') /\ Cardinality(Owed(p)') = Cardinality(S) + 1
      BY <3>1, <3>2
    <3> QED BY <3>3 DEF S
  <2>4. /\ Cardinality(Owed(p)') <= arena'[p].refs
        /\ arena'[p].refs > 0 /\ arena'[p].disk
        /\ arena'[p].refs = Cardinality(Owed(p)') \/ Spoken(p)
    BY <1>0, <1>1, <2>1, <2>2, <2>3
  <2> QED BY <1>0, <1>1, <1>8, <2>3, <2>4 DEF Refs
<1>10. ASSUME NEW q \in Procs, q # p PROVE Refs(q)'
  <2>1. Refs(q) /\ Owed(q)' = Owed(q) /\ arena'[q] = arena[q]
        /\ (Spoken(q) => Spoken(q)')
    BY <1>1, <1>7, <1>8, <1>10 DEF RInv
  <2> QED BY <2>1 DEF Refs
<1>11. \A u \in Trans : \A i \in 1..Len(ent'[u]) :
         \/ i \in 1..Len(ent[u]) /\ ent'[u][i] = ent[u][i]
         \/ ent'[u][i] = e
  <2> SUFFICES ASSUME NEW u \in Trans, NEW i \in 1..Len(ent'[u])
               PROVE  \/ i \in 1..Len(ent[u]) /\ ent'[u][i] = ent[u][i]
                      \/ ent'[u][i] = e
    OBVIOUS
  <2>1. CASE u # t
    BY <1>2, <2>1
  <2>2. CASE u = t
    BY <1>0, <1>2, <2>2
  <2> QED BY <2>1, <2>2
<1>12. Sealed'
  BY <1>5, <1>11 DEF RInv, Sealed
<1>13. RecoveryRecorded'
  <2>1. \A q \in Procs : arena[q].disk => arena'[q].disk
    BY <1>1
  <2>2. \A u \in Trans : /\ DOMAIN ent'[u] = 1..Len(ent'[u])
                         /\ DOMAIN ent[u] = 1..Len(ent[u])
    BY <1>0, <1>2
  <2> QED
    BY <1>0, <1>6, <1>11, <2>1, <2>2, OwnerIs DEF RInv, RecoveryRecorded, Holds
<1>14. \A u \in Trans : Phase(u)'
  BY <1>0, <1>2, <1>3, PhaseStays DEF Alone, RInv
<1>15. \A q \in Procs : Refs(q)'
  BY <1>9, <1>10
<1> QED BY <1>4, <1>12, <1>13, <1>14, <1>15 DEF RInv

\* The rest of the preparation keeps the invariant.
LEMMA RecordKeeps ==
  ASSUME RInv, NEW t \in Trans, Record(t)
  PROVE  RInv'
<1> DEFINE n == Outputs[t][at[t]]
           o == public[n]
<1>1. /\ UNCHANGED <<scene, public, data, made, saves>> /\ pc[t] = "record"
      /\ Types /\ Phase(t)
  BY DEF Record, RInv
<1>2. n \in Names /\ o \in Place
  <2>1. Outputs[t] \in Seq(Names)
    BY <1>1 DEF Types, SceneType, Outputs
  <2>2. at[t] \in 1..Len(Outputs[t])
    BY <1>1, LenIs DEF Phase
  <2> QED BY <1>1, <2>1, <2>2 DEF Types
<1>3. CASE UNCHANGED <<ent, arena, told>> /\ Abort(t)
  <2>1. EntryKept(t) /\ ArenaKept
    BY <1>1, <1>3, ArenaStays DEF EntryKept
  <2> QED BY <1>1, <1>3, <2>1, AbortFine, FineKeeps DEF Types
<1>4. CASE /\ arena' = [arena EXCEPT ![Owner[t]] =
                          [ArenaFor(t) EXCEPT !.retained = TRUE, !.lease = FALSE]]
           /\ UNCHANGED ent
           /\ Abort(t) /\ told' = [told EXCEPT ![t] = TRUE]
  BY <1>1, <1>4, RecordFailsKeeps
<1>5. CASE /\ arena' = [arena EXCEPT ![Owner[t]] = [ArenaFor(t) EXCEPT !.lease = TRUE]]
           /\ ent' = [ent EXCEPT ![t] = Append(@, NewEntry(n, o))]
           /\ UNCHANGED told
           /\ IF n \in guarded
                THEN Abort(t)
                ELSE /\ pc' = [pc EXCEPT ![t] = IF at[t] = Len(Outputs[t])
                                                  THEN "produce" ELSE "open"]
                     /\ at' = [at EXCEPT ![t] = IF at[t] = Len(Outputs[t])
                                                  THEN 1 ELSE @ + 1]
                     /\ UNCHANGED <<pass, outcome>>
  <2> DEFINE last == at[t] = Len(Outputs[t])
             e == NewEntry(n, o)
  <2>1. e \in Entry /\ ~e.finished /\ e.sealed /\ ~Holds(e)
    BY <1>1, <1>2, NewEntryIs
  <2>2. last \in BOOLEAN
    OBVIOUS
  <2> HIDE DEF e
  <2> QED BY <1>1, <1>5, <2>1, <2>2, RecordSealsKeeps DEF e
<1> QED
  BY <1>3, <1>4, <1>5, Zenon DEF Record

\* An entry whose private files are gone.
LEMMA FinishedIs ==
  ASSUME NEW e \in Entry
  PROVE  /\ Finished(e) \in Entry
         /\ [Finished(e) EXCEPT !.finish_failed = TRUE] \in Entry
         /\ Finished(e).finished
         /\ Finished(e).name = e.name /\ Finished(e).sealed = e.sealed
         /\ Finished(e).rollback = e.rollback
         /\ Finished(e).stage = None /\ Finished(e).expected = e.expected
         /\ Finished(e).unchanged = e.unchanged /\ Finished(e).bytes = e.bytes
         /\ Finished(e).previous = IF e.captured THEN None ELSE e.previous
         /\ ~Finished(e).captured
<1> DEFINE x == IF e.captured THEN None ELSE e.previous
<1>1. x \in Place
  BY DEF Entry, Place
<1>2. Finished(e) = [e EXCEPT !.finished = TRUE, !.captured = FALSE,
                              !.stage = None, !.previous = x]
  BY DEF Finished, Entry
<1> HIDE DEF x
<1>3. Finished(e) \in Entry /\ Finished(e).previous = x
  BY <1>1, <1>2 DEF Entry, Place
<1>4. /\ [Finished(e) EXCEPT !.finish_failed = TRUE] \in Entry
  BY <1>3 DEF Entry
<1>5. /\ Finished(e).finished /\ ~Finished(e).captured
      /\ Finished(e).name = e.name /\ Finished(e).sealed = e.sealed
      /\ Finished(e).rollback = e.rollback /\ Finished(e).stage = None
      /\ Finished(e).expected = e.expected
      /\ Finished(e).unchanged = e.unchanged /\ Finished(e).bytes = e.bytes
  BY <1>2 DEF Entry
<1> QED BY <1>3, <1>4, <1>5 DEF x

\* The records of t's arena are gone from us, and nothing else of es is.
Unsealed(t, es, us) ==
    /\ us \in [Trans -> Seq(Entry)]
    /\ \A u \in Trans : Len(us[u]) = Len(es[u])
    /\ \A u \in Trans : Owner[u] # Owner[t] => us[u] = es[u]
    /\ \A u \in Trans : \A i \in 1..Len(es[u]) :
         Owner[u] = Owner[t] => us[u][i] = [es[u][i] EXCEPT !.sealed = FALSE]

\* Unsealing changes nothing else.
LEMMA UnsealIs ==
  ASSUME Types, NEW t \in Trans, NEW es \in [Trans -> Seq(Entry)]
  PROVE  Unsealed(t, es, Unseal(t, es))
<1> SUFFICES ASSUME NEW u \in Trans
             PROVE  /\ Unseal(t, es)[u] \in Seq(Entry)
                    /\ Len(Unseal(t, es)[u]) = Len(es[u])
                    /\ Owner[u] # Owner[t] => Unseal(t, es)[u] = es[u]
                    /\ \A i \in 1..Len(es[u]) :
                         Owner[u] = Owner[t] =>
                           Unseal(t, es)[u][i] = [es[u][i] EXCEPT !.sealed = FALSE]
  <2>1. DOMAIN Unseal(t, es) = Trans
    BY DEF Unseal
  <2>2. Unseal(t, es) = [u \in Trans |-> Unseal(t, es)[u]]
    BY <2>1 DEF Unseal
  <2> QED BY <2>2 DEF Unsealed
<1>1. Len(es[u]) \in Nat /\ DOMAIN es[u] = 1..Len(es[u])
  OBVIOUS
<1>2. CASE Owner[u] # Owner[t]
  BY <1>2 DEF Unseal
<1>3. CASE Owner[u] = Owner[t]
  <2> DEFINE f == [i \in 1..Len(es[u]) |-> [es[u][i] EXCEPT !.sealed = FALSE]]
  <2>1. Unseal(t, es)[u] = f
    BY <1>1, <1>3 DEF Unseal
  <2>2. \A i \in 1..Len(es[u]) : [es[u][i] EXCEPT !.sealed = FALSE] \in Entry
    <3> SUFFICES ASSUME NEW i \in 1..Len(es[u])
                 PROVE  [es[u][i] EXCEPT !.sealed = FALSE] \in Entry
      OBVIOUS
    <3>1. es[u][i] \in Entry
      BY <1>1
    <3> QED BY <3>1 DEF Entry
  <2>3. f \in Seq(Entry) /\ Len(f) = Len(es[u])
    BY <1>1, <2>2
  <2> QED BY <1>3, <2>1, <2>3
<1> QED BY <1>2, <1>3

\* The entry t works on is finished; nothing else is, and nothing new is held.
Finishing(t) ==
    /\ ent' \in [Trans -> Seq(Entry)]
    /\ \A u \in Trans : Len(ent'[u]) = Len(ent[u])
    /\ \A u \in Trans : \A i \in 1..Len(ent[u]) :
         /\ u # t \/ i # at[t] => ent'[u][i].finished = ent[u][i].finished
         /\ Holds(ent'[u][i]) => Holds(ent[u][i])
         /\ Owner[u] # Owner[t] => ent'[u][i].sealed = ent[u][i].sealed
    /\ ent'[t][at[t]].finished

SameSeals ==
    \A u \in Trans : \A i \in 1..Len(ent[u]) : ent'[u][i].sealed = ent[u][i].sealed

\* Nothing is held any more in an arena that is emptied.
NothingHeld(t) ==
    \A u \in Trans : \A i \in 1..Len(ent[u]) :
      Owner[u] = Owner[t] => ~Holds(ent'[u][i])

\* The entries FinishSucceeds leaves are finished in this sense.
LEMMA FinishingIs ==
  ASSUME RInv, NEW t \in Trans, at[t] \in 1..Len(ent[t]),
         NEW f \in {Finished(Now(t)),
                    [Finished(Now(t)) EXCEPT !.finish_failed = TRUE]},
         NEW es, es = [ent EXCEPT ![t][at[t]] = f]
  PROVE  /\ es \in [Trans -> Seq(Entry)]
         /\ ent' = es => Finishing(t) /\ SameSeals
         /\ ent' = Unseal(t, es) /\ Emptied(t, es) =>
              Finishing(t) /\ NothingHeld(t)
<1>0. Types /\ Now(t) \in Entry /\ Now(t) = ent[t][at[t]]
  BY LenIs DEF RInv, Now
<1>1. /\ f \in Entry /\ f.finished /\ f.sealed = Now(t).sealed
      /\ Holds(f) => Holds(Now(t))
  <2>1. CASE f = Finished(Now(t))
    BY <1>0, <2>1, FinishedIs DEF Holds
  <2>2. CASE f = [Finished(Now(t)) EXCEPT !.finish_failed = TRUE]
    <3>1. /\ f \in Entry /\ f.finished = Finished(Now(t)).finished
          /\ f.sealed = Finished(Now(t)).sealed
          /\ f.previous = Finished(Now(t)).previous
          /\ f.rollback = Finished(Now(t)).rollback
      BY <1>0, <2>2, FinishedIs DEF Entry
    <3> QED BY <1>0, <3>1, FinishedIs DEF Holds
  <2> QED BY <2>1, <2>2
<1>2. /\ es \in [Trans -> Seq(Entry)]
      /\ \A u \in Trans : Len(es[u]) = Len(ent[u])
      /\ \A u \in Trans : u # t => es[u] = ent[u]
      /\ \A i \in 1..Len(ent[t]) : i # at[t] => es[t][i] = ent[t][i]
      /\ es[t][at[t]] = f
  <2>1. ent[t] \in Seq(Entry) /\ ent \in [Trans -> Seq(Entry)]
    BY <1>0 DEF Types
  <2>2. es = [ent EXCEPT ![t] = [ent[t] EXCEPT ![at[t]] = f]]
    OBVIOUS
  <2> QED BY <1>1, <2>1, <2>2, ExceptSeq
<1>3. ent' = es => Finishing(t) /\ SameSeals
  BY <1>0, <1>1, <1>2 DEF Finishing, SameSeals
<1>4. ASSUME ent' = Unseal(t, es), Emptied(t, es)
      PROVE  Finishing(t) /\ NothingHeld(t)
  <2>1. /\ ent' \in [Trans -> Seq(Entry)]
        /\ \A u \in Trans : Len(ent'[u]) = Len(ent[u])
        /\ \A u \in Trans : Owner[u] # Owner[t] => ent'[u] = es[u]
        /\ \A u \in Trans : \A i \in 1..Len(ent[u]) :
             Owner[u] = Owner[t] => ent'[u][i] = [es[u][i] EXCEPT !.sealed = FALSE]
    <3>1. Unsealed(t, es, Unseal(t, es))
      BY <1>0, <1>2, UnsealIs
    <3>2. Unsealed(t, es, ent')
      BY <1>4, <3>1, Zenon
    <3> QED BY <1>2, <3>2 DEF Unsealed
  <2>2. \A u \in Trans : \A i \in 1..Len(ent[u]) : es[u][i] \in Entry
    BY <1>2
  <2>3. \A u \in Trans : \A i \in 1..Len(ent[u]) :
          /\ ent'[u][i].finished = es[u][i].finished
          /\ ent'[u][i].previous = es[u][i].previous
          /\ ent'[u][i].rollback = es[u][i].rollback
          /\ Owner[u] # Owner[t] => ent'[u][i].sealed = es[u][i].sealed
    <3> SUFFICES ASSUME NEW u \in Trans, NEW i \in 1..Len(ent[u])
                 PROVE  /\ ent'[u][i].finished = es[u][i].finished
                        /\ ent'[u][i].previous = es[u][i].previous
                        /\ ent'[u][i].rollback = es[u][i].rollback
                        /\ Owner[u] # Owner[t] => ent'[u][i].sealed = es[u][i].sealed
      OBVIOUS
    <3>1. CASE Owner[u] # Owner[t]
      BY <2>1, <3>1
    <3>2. CASE Owner[u] = Owner[t]
      <4>1. ent'[u][i] = [es[u][i] EXCEPT !.sealed = FALSE] /\ es[u][i] \in Entry
        BY <2>1, <2>2, <3>2
      <4> QED BY <3>2, <4>1 DEF Entry
    <3> QED BY <3>1, <3>2
  <2>4. Finishing(t)
    BY <1>0, <1>1, <1>2, <2>1, <2>3 DEF Finishing, Holds
  <2>5. NothingHeld(t)
    <3> SUFFICES ASSUME NEW u \in Trans, NEW i \in 1..Len(ent[u]),
                        Owner[u] = Owner[t]
                 PROVE  ~Holds(es[u][i])
      BY <2>3 DEF NothingHeld, Holds
    <3>1. i \in DOMAIN es[u] /\ i \in DOMAIN ent[u]
      BY <1>0, <1>2, LenIs
    <3>2. CASE es[u][i].sealed
      BY <1>4, <3>1, <3>2 DEF Emptied, Holds
    <3>3. CASE ~es[u][i].sealed
      <4>1. ~ent[u][i].sealed /\ (Holds(es[u][i]) => Holds(ent[u][i]))
        BY <1>0, <1>1, <1>2, <3>3
      <4> QED BY <3>1, <4>1 DEF RInv, RecoveryRecorded, Holds
    <3> QED BY <3>2, <3>3
  <2> QED BY <2>4, <2>5
<1> QED BY <1>2, <1>3, <1>4

\* What the caller does with the result of Finish_Publication.
LEMMA ResultMoves ==
  ASSUME Types, scene' = scene, NEW t \in Trans, Phase(t), Unfinishing(t),
         pc[t] \in {"discard", "publish"}, NEW failed \in BOOLEAN,
         NextResult(t, failed), failed \/ ent'[t][at[t]].finished
  PROVE  /\ MoveTypes /\ Alone(t) /\ Phase(t)'
         /\ pc'[t] # "crashed" /\ (failed => told'[t])
<1>1. CASE pc[t] = "discard"
  <2>1. NextEntry(t, failed)
    BY <1>1 DEF NextResult
  <2>2. pc'[t] # "crashed" /\ (failed => told'[t])
    BY <2>1 DEF NextEntry, Types
  <2> QED BY <1>1, <2>1, <2>2, NextEntryMoves DEF Aborting
<1>2. CASE pc[t] = "publish"
  <2>1. NextPublished(t, failed)
    BY <1>2 DEF NextResult
  <2>2. pc'[t] # "crashed" /\ (failed => told'[t])
    BY <1>2, <2>1 DEF NextPublished, Types
  <2> QED BY <1>2, <2>1, <2>2, NextPublishedMoves
<1> QED BY <1>1, <1>2

\* Finishing one entry gives one reference back: the arena goes with the last
\* of them, or stays and is named.
LEMMA FinishingKeeps ==
  ASSUME RInv, NEW t \in Trans, pc[t] \in {"discard", "publish"},
         UNCHANGED <<scene, public, data, made, saves>>, Finishing(t),
         NEW failed \in BOOLEAN, NextResult(t, failed), ArenaTypes,
         NEW p \in Procs, p = Owner[t],
         \A q \in Procs \ {p} : arena'[q] = arena[q],
         arena[p].refs >= 1, arena'[p].refs = arena[p].refs - 1,
         \/ arena[p].refs > 1 /\ arena'[p].disk = arena[p].disk /\ SameSeals
         \/ arena[p].refs = 1 /\ ~arena'[p].disk /\ NothingHeld(t)
         \/ /\ arena[p].refs = 1 /\ arena'[p].disk = arena[p].disk /\ failed
            /\ SameSeals \/ NothingHeld(t)
  PROVE  RInv'
<1>0. Types /\ Phase(t) /\ at[t] \in 1..Len(ent[t]) /\ at[t] \in Nat
  BY NowIs DEF RInv, Working, Aborting, Types
<1>1. ~ent[t][at[t]].finished
  BY <1>0 DEF Phase
<1>2. Owner' = Owner
  BY DEF Owner
<1>3. Unfinishing(t)
  BY DEF Finishing, Unfinishing
<1>4. MoveTypes /\ Alone(t) /\ Phase(t)' /\ pc'[t] # "crashed" /\ (failed => told'[t])
  BY <1>0, <1>3, ResultMoves DEF Finishing
<1>5. /\ \A u \in Trans : /\ pc'[u] = "crashed" <=> pc[u] = "crashed"
                          /\ told[u] => told'[u]
      /\ \A q \in Procs : Spoken(q) => Spoken(q)'
  <2>1. \A u \in Trans : /\ pc'[u] = "crashed" <=> pc[u] = "crashed"
                         /\ told[u] => told'[u]
    BY <1>4 DEF Alone
  <2> QED BY <1>2, <2>1 DEF Spoken
<1>6. \A q \in Procs \ {p} : Owed(q)' = Owed(q)
  <2> SUFFICES ASSUME NEW q \in Procs \ {p}
               PROVE  Owed(q)' = Owed(q)
    OBVIOUS
  <2>1. ASSUME NEW x \in Trans \X Nat
        PROVE  x \in Owed(q)' <=> x \in Owed(q)
    <3>1. x[1] \in Trans /\ x[2] \in Nat
      OBVIOUS
    <3>2. CASE Owner[x[1]] # q
      BY <1>2, <3>2 DEF Owed
    <3>3. CASE Owner[x[1]] = q
      <4>1. x[1] # t
        BY <3>3
      <4> QED BY <1>2, <1>5, <3>1, <3>3, <4>1 DEF Owed, Finishing
    <3> QED BY <3>2, <3>3
  <2>2. Owed(q) \subseteq Trans \X Nat /\ Owed(q)' \subseteq Trans \X Nat
    BY DEF Owed
  <2> QED BY <2>1, <2>2
<1>7. Owed(p)' = Owed(p) \ {<<t, at[t]>>} /\ <<t, at[t]>> \in Owed(p)
  <2>1. <<t, at[t]>> \in Owed(p)
    BY <1>0, <1>1 DEF Owed
  <2>2. ASSUME NEW x \in Trans \X Nat
        PROVE  x \in Owed(p)' <=> x \in Owed(p) /\ x # <<t, at[t]>>
    <3>1. x = <<x[1], x[2]>> /\ x[1] \in Trans /\ x[2] \in Nat
      OBVIOUS
    <3>2. CASE x = <<t, at[t]>>
      BY <3>2 DEF Owed, Finishing
    <3>3. CASE x # <<t, at[t]>>
      <4>1. x[1] # t \/ x[2] # at[t]
        BY <3>1, <3>3
      <4> QED BY <1>2, <1>5, <3>1, <3>3, <4>1 DEF Owed, Finishing
    <3> QED BY <3>2, <3>3
  <2>3. Owed(p) \subseteq Trans \X Nat /\ Owed(p)' \subseteq Trans \X Nat
    BY DEF Owed
  <2> QED BY <2>1, <2>2, <2>3
<1>8. /\ IsFiniteSet(Owed(p)) /\ Cardinality(Owed(p)) \in Nat
      /\ IsFiniteSet(Owed(p)') /\ Cardinality(Owed(p)') = Cardinality(Owed(p)) - 1
  <2>1. IsFiniteSet(Owed(p))
    BY DEF RInv, Refs
  <2> QED BY <1>7, <2>1, FS_RemoveElement, FS_CardinalityType
<1>9. Cardinality(Owed(p)) <= arena[p].refs /\ arena[p].refs \in Nat
      /\ (arena[p].refs = Cardinality(Owed(p)) \/ Spoken(p))
      /\ arena[p].disk
  BY <1>0 DEF RInv, Refs, Types
<1>10. Refs(p)'
  <2>1. IsFiniteSet(Owed(p)') /\ Cardinality(Owed(p)') <= arena'[p].refs
    BY <1>8, <1>9
  <2>2. arena'[p].refs = Cardinality(Owed(p)') \/ Spoken(p)'
    BY <1>5, <1>8, <1>9
  <2>3. arena'[p].refs > 0 => arena'[p].disk
    <3>1. CASE arena[p].refs > 1
      <4>1. arena[p].refs # 1
        BY <3>1, <1>9
      <4>2. arena'[p].disk = arena[p].disk
        BY <4>1
      <4> QED BY <1>9, <4>2, Zenon
    <3>2. CASE arena[p].refs = 1
      <4>1. arena'[p].refs = 0
        BY <3>2
      <4> QED BY <4>1
    <3> QED BY <1>9, <3>1, <3>2
  <2>4. arena'[p].disk /\ arena'[p].refs = 0 => Spoken(p)'
    <3>1. failed => Spoken(p)'
      BY <1>2, <1>4 DEF Spoken
    <3> QED BY <1>9, <3>1
  <2> QED BY <2>1, <2>2, <2>3, <2>4 DEF Refs
<1>11. \A q \in Procs : Refs(q)'
  <2> SUFFICES ASSUME NEW q \in Procs \ {p}
               PROVE  Refs(q)'
    BY <1>10
  <2> QED BY <1>5, <1>6 DEF Refs, RInv
<1>12. arena[p].refs = 1 => Owed(p)' = {}
  <2> SUFFICES ASSUME arena[p].refs = 1
               PROVE  Owed(p)' = {}
    OBVIOUS
  <2>1. Cardinality(Owed(p)') = 0
    <3>1. Cardinality(Owed(p)') \in Nat
      BY <1>8, FS_CardinalityType
    <3> QED BY <1>8, <1>9, <3>1
  <2> QED BY <1>8, <2>1, FS_EmptySet
<1>13. Sealed'
  <2> SUFFICES ASSUME NEW u \in Trans, NEW i \in 1..Len(ent[u]),
                      pc'[u] # "crashed", ~ent'[u][i].finished
               PROVE  ent'[u][i].sealed
    BY DEF Sealed, Finishing
  <2>1. pc[u] # "crashed" /\ ~ent[u][i].finished /\ i \in Nat
    <3>1. u # t \/ i # at[t]
      BY DEF Finishing
    <3>2. ent'[u][i].finished = ent[u][i].finished
      BY <3>1 DEF Finishing
    <3>3. i \in Nat
      BY <1>0, LenIs
    <3> QED BY <1>5, <3>2, <3>3
  <2>2. ent[u][i].sealed
    BY <2>1 DEF RInv, Sealed
  <2>3. CASE Owner[u] # p
    BY <2>2, <2>3 DEF Finishing
  <2>4. CASE Owner[u] = p
    <3>1. <<u, i>> \in Owed(p)'
      BY <1>2, <2>1, <2>4 DEF Owed, Finishing
    <3> QED BY <1>12, <2>2, <3>1 DEF SameSeals
  <2> QED BY <2>3, <2>4
<1>14. RecoveryRecorded'
  <2> SUFFICES ASSUME NEW u \in Trans, NEW i \in 1..Len(ent[u]),
                      Holds(ent'[u][i])
               PROVE  ent'[u][i].sealed /\ arena'[Owner[u]].disk
    <3>1. \A u \in Trans : DOMAIN ent'[u] = 1..Len(ent[u])
      BY DEF Finishing
    <3> QED BY <1>2, <3>1 DEF RecoveryRecorded, Holds
  <2>1. Owner[u] \in Procs /\ DOMAIN ent[u] = 1..Len(ent[u])
    BY <1>0, OwnerIs, LenIs
  <2>2. ent[u][i].sealed /\ arena[Owner[u]].disk
    BY <2>1 DEF Finishing, RInv, RecoveryRecorded, Holds
  <2>3. CASE Owner[u] # p
    BY <2>1, <2>2, <2>3 DEF Finishing
  <2>4. CASE Owner[u] = p
    BY <2>2, <2>4 DEF SameSeals, NothingHeld
  <2> QED BY <2>3, <2>4
<1>15. \A u \in Trans : Phase(u)'
  <2> SUFFICES ASSUME NEW u \in Trans \ {t}
               PROVE  Phase(u)'
    BY <1>4
  <2> QED BY <1>0, <1>4, PhaseStays DEF Finishing, Alone, RInv
<1>16. Types'
  BY <1>0, <1>4 DEF Types, MoveTypes, ArenaTypes, Finishing
<1> QED BY <1>11, <1>13, <1>14, <1>15, <1>16 DEF RInv

\* A finish that succeeds keeps the invariant, whether it was the last of its
\* arena or not and whether the arena could be emptied or not.
LEMMA FinishSucceedsKeeps ==
  ASSUME RInv, NEW t \in Trans, pc[t] \in {"discard", "publish"},
         UNCHANGED <<scene, public, data, made, saves>>, FinishSucceeds(t)
  PROVE  RInv'
<1> DEFINE e == Now(t)
           f == [Finished(e) EXCEPT !.finish_failed = TRUE]
           es == [ent EXCEPT ![t][at[t]] = Finished(e)]
           kept == [es EXCEPT ![t][at[t]].finish_failed = TRUE]
<1>p. PICK p \in Procs : p = Owner[t]
  BY OwnerIs DEF RInv
<1>0. Types /\ Phase(t) /\ at[t] \in 1..Len(ent[t]) /\ e \in Entry
  BY NowIs DEF RInv, Working, Aborting
<1>1. kept = [ent EXCEPT ![t][at[t]] = f]
  <2>1. ent \in [Trans -> Seq(Entry)] /\ ent[t] \in Seq(Entry)
        /\ DOMAIN ent[t] = 1..Len(ent[t])
    BY <1>0 DEF Types
  <2> DEFINE g == Finished(e)
  <2>2. es = [ent EXCEPT ![t] = [ent[t] EXCEPT ![at[t]] = g]]
    OBVIOUS
  <2>3. es[t] = [ent[t] EXCEPT ![at[t]] = g] /\ es[t][at[t]] = g
    BY <1>0, <2>1, <2>2
  <2>4. kept = [es EXCEPT ![t] = [es[t] EXCEPT ![at[t]] = f]]
    BY <2>3
  <2> HIDE DEF es, kept, f, g
  <2>5. [es[t] EXCEPT ![at[t]] = f] = [ent[t] EXCEPT ![at[t]] = f]
    BY <2>3
  <2>6. kept = [ent EXCEPT ![t] = [ent[t] EXCEPT ![at[t]] = f]]
    BY <2>1, <2>2, <2>4, <2>5
  <2> QED BY <2>6
<1>2. /\ Mine(t) = arena[p] /\ arena[p] \in ArenaType /\ arena[p].refs \in Nat
      /\ arena \in [Procs -> ArenaType]
  BY <1>0, <1>p DEF Mine, Types, ArenaType
<1>3. /\ es \in [Trans -> Seq(Entry)]
      /\ ent' = es => Finishing(t) /\ SameSeals
      /\ ent' = Unseal(t, es) /\ Emptied(t, es) => Finishing(t) /\ NothingHeld(t)
  BY <1>0, FinishingIs
<1>4. /\ ent' = kept => Finishing(t) /\ SameSeals
      /\ ent' = Unseal(t, kept) /\ Emptied(t, kept) =>
           Finishing(t) /\ NothingHeld(t)
  BY <1>0, <1>1, FinishingIs
<1>5. Emptied(t, es) => Emptied(t, kept)
  <2>0. \A u \in Trans : DOMAIN es[u] = DOMAIN kept[u]
    BY <1>3
  <2>1. ASSUME NEW u \in Trans, NEW i \in DOMAIN es[u]
        PROVE  /\ es[u][i].sealed = kept[u][i].sealed
               /\ es[u][i].stage = kept[u][i].stage
               /\ es[u][i].previous = kept[u][i].previous
               /\ es[u][i].rollback = kept[u][i].rollback
    <3>1. es[u][i] \in Entry
      BY <1>3
    <3>2. CASE u = t /\ i = at[t]
      <4>1. kept[u][i] = [es[u][i] EXCEPT !.finish_failed = TRUE]
        BY <1>3, <3>2
      <4> HIDE DEF es, kept
      <4> QED BY <3>1, <4>1 DEF Entry
    <3>3. CASE ~(u = t /\ i = at[t])
      <4>1. kept[u][i] = es[u][i]
        BY <1>3, <3>3
      <4> QED BY <4>1
    <3> QED BY <3>2, <3>3
  <2> HIDE DEF es, kept
  <2> QED BY <2>0, <2>1 DEF Emptied
<1> HIDE DEF es, kept, e, f
<1>6. CASE /\ Mine(t).refs > 1 /\ ent' = es
           /\ arena' = [arena EXCEPT ![Owner[t]].refs = @ - 1]
           /\ NextResult(t, FALSE)
  <2>1. /\ ArenaTypes /\ \A q \in Procs \ {p} : arena'[q] = arena[q]
        /\ arena'[p].refs = arena[p].refs - 1
        /\ arena'[p].disk = arena[p].disk
    BY <1>2, <1>6, <1>p DEF ArenaTypes, ArenaType
  <2>2. /\ arena[p].refs >= 1 /\ arena[p].refs > 1
        /\ Finishing(t) /\ SameSeals
    BY <1>2, <1>3, <1>6
  <2>3. NextResult(t, FALSE)
    BY <1>6, Zenon
  <2> QED BY <1>p, <2>1, <2>2, <2>3, FinishingKeeps
<1>7. CASE /\ Mine(t).refs = 1 /\ Emptied(t, es) /\ ent' = Unseal(t, es)
           /\ arena' = [arena EXCEPT ![Owner[t]] = NoArena]
           /\ NextResult(t, FALSE)
  <2>1. /\ ArenaTypes /\ \A q \in Procs \ {p} : arena'[q] = arena[q]
        /\ arena'[p].refs = 0
        /\ ~arena'[p].disk
    BY <1>2, <1>7, <1>p DEF ArenaTypes, ArenaType, NoArena
  <2>2. /\ arena[p].refs >= 1 /\ arena[p].refs = 1
        /\ arena'[p].refs = arena[p].refs - 1
        /\ Finishing(t) /\ NothingHeld(t)
    BY <1>2, <1>3, <1>7, <2>1
  <2>3. NextResult(t, FALSE)
    BY <1>7, Zenon
  <2> QED BY <1>p, <2>1, <2>2, <2>3, FinishingKeeps
<1>8. CASE /\ Mine(t).refs = 1
           /\ \/ Emptied(t, es) /\ ent' \in {kept, Unseal(t, kept)}
              \/ ent' = kept
           /\ arena' = [arena EXCEPT ![Owner[t]].refs = 0, ![Owner[t]].retained = TRUE,
                                     ![Owner[t]].lease = FALSE]
           /\ NextResult(t, TRUE)
  <2>1. /\ ArenaTypes /\ \A q \in Procs \ {p} : arena'[q] = arena[q]
        /\ arena'[p].refs = 0
        /\ arena'[p].disk = arena[p].disk
    BY <1>2, <1>8, <1>p DEF ArenaTypes, ArenaType
  <2>2. Finishing(t) /\ (SameSeals \/ NothingHeld(t))
    BY <1>4, <1>5, <1>8
  <2>3. /\ arena[p].refs >= 1 /\ arena[p].refs = 1
        /\ arena'[p].refs = arena[p].refs - 1
    BY <1>2, <1>8, <2>1
  <2>4. NextResult(t, TRUE)
    BY <1>8, Zenon
  <2> QED BY <1>p, <2>1, <2>2, <2>3, <2>4, FinishingKeeps
<1> QED BY <1>6, <1>7, <1>8 DEF FinishSucceeds, es, kept, e

-----------------------------------------------------------------------------
\* The others.

\* What a crash leaves of an entry still holds what it held.
LEMMA RemainsIs ==
  ASSUME Types, NEW t \in Trans, NEW e \in Entry
  PROVE  /\ Remains(t, e) \in Entry /\ Remains(t, e).sealed = e.sealed
         /\ Holds(Remains(t, e)) => Holds(e)
         /\ Slots(Remains(t, e)) = Slots(e)
<1>1. CASE outcome[t] # "none"
  BY <1>1 DEF Remains
<1>2. CASE outcome[t] = "none"
  <2> DEFINE n == NewEntry(e.name, None)
             r == [n EXCEPT !.stage = e.stage, !.previous = e.previous,
                            !.rollback = e.rollback, !.sealed = e.sealed]
  <2>1. n \in Entry /\ e.name \in Names
    BY NewEntryIs DEF Entry, Place
  <2>2. Remains(t, e) = r
    BY <1>2 DEF Remains
  <2> HIDE DEF n
  <2>3. /\ r \in Entry /\ r.sealed = e.sealed /\ r.previous = e.previous
        /\ r.rollback = e.rollback /\ r.stage = e.stage
    BY <2>1 DEF Entry
  <2> QED BY <2>2, <2>3 DEF Holds, Slots
<1> QED BY <1>1, <1>2

\* A crash keeps the directory and the sealed records.
LEMMA CrashKeeps ==
  ASSUME RInv, NEW p \in Procs, Crash(p)
  PROVE  RInv'
<1>0. /\ Types /\ UNCHANGED <<scene, public, data, made, saves, outcome, told>>
      /\ Owner' = Owner
  BY DEF RInv, Crash, Owner
<1>1. ASSUME NEW u \in Trans
      PROVE  /\ ent'[u] \in Seq(Entry) /\ Len(ent'[u]) = Len(ent[u])
             /\ Owner[u] # p => ent'[u] = ent[u]
             /\ \A i \in 1..Len(ent[u]) :
                  /\ ent'[u][i].sealed = ent[u][i].sealed
                  /\ Holds(ent'[u][i]) => Holds(ent[u][i])
  <2>1. /\ Len(ent[u]) \in Nat /\ DOMAIN ent[u] = 1..Len(ent[u])
        /\ \A i \in 1..Len(ent[u]) : ent[u][i] \in Entry
        /\ ent[u] \in Seq(Entry)
    BY <1>0, LenIs DEF Types
  <2>2. CASE Owner[u] # p
    <3>1. ent'[u] = ent[u]
      BY <2>2 DEF Crash
    <3> QED BY <2>1, <3>1
  <2>3. CASE Owner[u] = p
    <3> DEFINE r(i) == Remains(u, ent[u][i])
               s == [i \in 1..Len(ent[u]) |-> r(i)]
    <3>1. ent'[u] = s
      BY <2>1, <2>3 DEF Crash
    <3>2. \A i \in 1..Len(ent[u]) :
            /\ r(i) \in Entry /\ r(i).sealed = ent[u][i].sealed
            /\ Holds(r(i)) => Holds(ent[u][i])
      BY <1>0, <2>1, RemainsIs
    <3> HIDE DEF r
    <3>3. s \in Seq(Entry) /\ Len(s) = Len(ent[u])
      BY <2>1, <3>2
    <3> QED BY <2>3, <3>1, <3>2, <3>3
  <2> QED BY <2>2, <2>3
<1>2. ent' \in [Trans -> Seq(Entry)]
  <2>1. ent' = [u \in Trans |-> ent'[u]]
    BY DEF Crash
  <2> QED BY <1>1, <2>1
<1>3. /\ \A u \in Trans : pc'[u] = IF Owner[u] = p THEN "crashed" ELSE pc[u]
      /\ \A u \in Trans : Owner[u] # p => at'[u] = at[u] /\ pass'[u] = pass[u]
      /\ \A u \in Trans : Owner[u] = p => ~pass'[u].failed
  BY DEF Crash, FirstPass
<1>4. /\ arena' \in [Procs -> [disk : BOOLEAN, refs : Nat, retained : BOOLEAN,
                               lease : BOOLEAN, temporary : BOOLEAN]]
      /\ \A q \in Procs : arena'[q].refs = arena[q].refs /\ arena'[q].disk = arena[q].disk
  BY ZenonT(120), <1>0 DEF Crash, Types
<1>5. Types'
  <2>1. /\ pc' \in [Trans -> Places] /\ at' \in [Trans -> Nat]
        /\ pass' \in [Trans -> [number : Nat, failed : BOOLEAN]]
    BY <1>0 DEF Crash, Types, FirstPass, Places
  <2> QED BY <1>0, <1>2, <1>4, <2>1 DEF Types
<1>6. \A u \in Trans : Phase(u)'
  <2> SUFFICES ASSUME NEW u \in Trans
               PROVE  Phase(u)'
    OBVIOUS
  <2>1. CASE Owner[u] = p
    BY <1>3, <2>1 DEF Phase, Forward, Aborting, Working
  <2>2. CASE Owner[u] # p
    <3>1. /\ pc'[u] = pc[u] /\ at'[u] = at[u] /\ pass'[u] = pass[u]
          /\ told'[u] = told[u] /\ ent'[u] = ent[u]
      BY <1>0, <1>1, <1>3, <2>2
    <3> QED BY <1>0, <3>1, PhaseStays DEF RInv
  <2> QED BY <2>1, <2>2
<1>7. \A q \in Procs : Refs(q)'
  <2> SUFFICES ASSUME NEW q \in Procs
               PROVE  Refs(q)'
    OBVIOUS
  <2>1. CASE q = p
    <3>1. PICK u \in Trans : Owner[u] = p
      BY DEF Crash
    <3>2. Spoken(q)'
      BY <1>0, <1>3, <2>1, <3>1 DEF Spoken
    <3>3. Owed(q)' = {}
      BY <1>0, <1>3, <2>1 DEF Owed
    <3>4. /\ IsFiniteSet(Owed(q)') /\ Cardinality(Owed(q)') = 0
      BY <3>3, FS_EmptySet
    <3>5. arena'[q].refs \in Nat /\ (arena'[q].refs > 0 => arena'[q].disk)
      BY <1>0, <1>4 DEF RInv, Refs, Types
    <3> QED BY <3>2, <3>4, <3>5 DEF Refs
  <2>2. CASE q # p
    <3>1. ASSUME NEW x \in Trans \X Nat
          PROVE  x \in Owed(q)' <=> x \in Owed(q)
      <4>1. x[1] \in Trans
        OBVIOUS
      <4>2. CASE Owner[x[1]] # q
        BY <1>0, <4>2 DEF Owed
      <4>3. CASE Owner[x[1]] = q
        <5>1. ent'[x[1]] = ent[x[1]] /\ pc'[x[1]] = pc[x[1]]
          BY <1>1, <1>3, <2>2, <4>1, <4>3
        <5> QED BY <1>0, <5>1 DEF Owed
      <4> QED BY <4>2, <4>3
    <3>2. Owed(q) \subseteq Trans \X Nat /\ Owed(q)' \subseteq Trans \X Nat
      BY DEF Owed
    <3>3. Owed(q)' = Owed(q)
      BY <3>1, <3>2
    <3>4. Spoken(q) => Spoken(q)'
      BY <1>0, <1>3 DEF Spoken
    <3> QED BY <1>4, <3>3, <3>4 DEF Refs, RInv
  <2> QED BY <2>1, <2>2
<1>8. Sealed'
  <2> SUFFICES ASSUME NEW u \in Trans, NEW i \in 1..Len(ent[u]),
                      pc'[u] # "crashed", ~ent'[u][i].finished
               PROVE  ent'[u][i].sealed
    BY <1>1 DEF Sealed
  <2>1. Owner[u] # p /\ pc'[u] = pc[u] /\ ent'[u] = ent[u]
    BY <1>1, <1>3
  <2> QED BY <2>1 DEF RInv, Sealed
<1>9. RecoveryRecorded'
  <2> SUFFICES ASSUME NEW u \in Trans, NEW i \in 1..Len(ent[u]),
                      Holds(ent'[u][i])
               PROVE  ent'[u][i].sealed /\ arena'[Owner[u]].disk
    <3>1. \A u \in Trans : DOMAIN ent'[u] = 1..Len(ent[u])
      BY <1>1
    <3> QED BY <1>0, <3>1 DEF RecoveryRecorded, Holds
  <2>1. Owner[u] \in Procs /\ DOMAIN ent[u] = 1..Len(ent[u])
    BY <1>0, OwnerIs, LenIs
  <2>2. ent[u][i].sealed /\ arena[Owner[u]].disk
    BY <1>1, <2>1 DEF RInv, RecoveryRecorded, Holds
  <2> QED BY <1>1, <1>4, <2>1, <2>2
<1> QED BY <1>5, <1>6, <1>7, <1>8, <1>9 DEF RInv

\* What concerns neither entries nor arenas keeps the invariant.
LEMMA OutsideKeeps ==
  ASSUME RInv, Types',
         UNCHANGED <<scene, ent, arena, pc, at, pass, outcome, told>>
  PROVE  RInv'
<1>1. UNCHANGED <<Owner, Outputs>>
  BY DEF Owner, Outputs
<1>2. \A t \in Trans : Phase(t)'
  BY <1>1 DEF RInv, Phase
<1>3. \A p \in Procs : Refs(p)'
  BY <1>1 DEF RInv, Refs, Owed, Spoken
<1> QED BY <1>1, <1>2, <1>3 DEF RInv, Sealed, RecoveryRecorded

-----------------------------------------------------------------------------
\* What is in a place exists: no step moves an object that was never made.

Known == {o \in Objects : data[o] # None} \cup {None}
Exist ==
    /\ \A n \in Names : public[n] \in Known
    /\ \A t \in Trans : \A i \in 1..Len(ent[t]) : Slots(ent[t][i]) \subseteq Known

\* One entry changes, to one whose slots exist.
LEMMA UpdateExist ==
  ASSUME Types, Exist, NEW t \in Trans, at[t] \in 1..Len(ent[t]),
         NEW e \in Entry, Update(t, e), Slots(e) \subseteq Known',
         Known \subseteq Known', \A n \in Names : public'[n] \in Known'
  PROVE  Exist'
<1>1. Updated(t, e)
  BY UpdateStep DEF Types
<1>2. \A u \in Trans : \A i \in 1..Len(ent[u]) :
        ent'[u][i] = ent[u][i] \/ ent'[u][i] = e
  BY <1>1 DEF Updated
<1>3. ASSUME NEW u \in Trans, NEW i \in 1..Len(ent'[u])
      PROVE  Slots(ent'[u][i]) \subseteq Known'
  <2>1. i \in 1..Len(ent[u])
    BY <1>1 DEF Updated
  <2>2. CASE ent'[u][i] = e
    BY <2>2
  <2>3. CASE ent'[u][i] = ent[u][i]
    <3>1. Slots(ent[u][i]) \subseteq Known
      BY <2>1 DEF Exist
    <3> QED BY <2>3, <3>1
  <2> QED BY <1>2, <2>1, <2>2, <2>3
<1> QED BY <1>3 DEF Exist

\* No entry changes.
LEMMA StayExist ==
  ASSUME Types, Exist, ent' = ent,
         Known \subseteq Known', \A n \in Names : public'[n] \in Known'
  PROVE  Exist'
<1>1. ASSUME NEW u \in Trans, NEW i \in 1..Len(ent'[u])
      PROVE  Slots(ent'[u][i]) \subseteq Known'
  <2>1. Slots(ent[u][i]) \subseteq Known
    BY DEF Exist
  <2> QED BY <2>1
<1> QED BY <1>1 DEF Exist

\* Where the contents stay, so does what exists.
LEMMA KnownStays ==
  ASSUME data' = data
  PROVE  Known' = Known
  BY DEF Known

\* The slots of the entry t works on exist, and what is at its name does.
LEMMA NowExist ==
  ASSUME Types, Exist, NEW t \in Trans, Phase(t), pc[t] \in Working
  PROVE  /\ at[t] \in 1..Len(ent[t]) /\ Now(t) \in Entry /\ Now(t).name \in Names
         /\ Now(t).stage \in Known /\ Now(t).previous \in Known
         /\ Now(t).rollback \in Known /\ public[Now(t).name] \in Known
         /\ None \in Known
<1>1. at[t] \in 1..Len(ent[t]) /\ Now(t) \in Entry /\ Now(t).name \in Names
  BY NowIs
<1>2. Slots(Now(t)) \subseteq Known
  BY <1>1 DEF Exist, Now
<1> QED BY <1>1, <1>2 DEF Exist, Slots, Known

\* Preparation and production make what they put in a place.
LEMMA PrepareExist ==
  ASSUME Types, Exist, NEW t \in Trans, Phase(t),
         Open(t) \/ Record(t) \/ Produce(t)
  PROVE  Exist'
<1>1. CASE Open(t)
  <2>1. UNCHANGED <<public, data, ent>>
    BY <1>1 DEF Open
  <2>2. Known' = Known
    BY <2>1, KnownStays
  <2> QED BY <2>1, <2>2, StayExist DEF Exist
<1>2. CASE Record(t)
  <2> DEFINE n == Outputs[t][at[t]]
             o == public[n]
  <2>1. /\ UNCHANGED <<public, data>> /\ pc[t] = "record"
        /\ ent' = ent \/ ent' = [ent EXCEPT ![t] = Append(@, NewEntry(n, o))]
    BY <1>2 DEF Record
  <2>2. Known' = Known
    BY <2>1, KnownStays
  <2>3. CASE ent' = ent
    BY <2>1, <2>2, <2>3, StayExist DEF Exist
  <2>4. CASE ent' = [ent EXCEPT ![t] = Append(@, NewEntry(n, o))]
    <3>1. n \in Names /\ o \in Place
      <4>1. Outputs[t] \in Seq(Names)
        BY DEF Types, Outputs, SceneType
      <4>2. at[t] \in 1..Len(Outputs[t])
        BY <2>1 DEF Phase, Types
      <4> QED BY <4>1, <4>2 DEF Types
    <3> DEFINE e == NewEntry(n, o)
    <3>2. e \in Entry
      BY <3>1, NewEntryIs
    <3>3. e.stage = None /\ e.previous = None /\ e.rollback = None
      BY DEF NewEntry
    <3> HIDE DEF e
    <3>4. ent' = [ent EXCEPT ![t] = Append(ent[t], e)]
      BY <2>4 DEF e
    <3>5. ent[t] \in Seq(Entry) /\ Len(ent[t]) \in Nat
      BY DEF Types
    <3>6. ASSUME NEW u \in Trans, NEW i \in 1..Len(ent'[u])
          PROVE  Slots(ent'[u][i]) \subseteq Known'
      <4>1. CASE u # t
        <5>1. ent'[u] = ent[u]
          BY <3>4, <4>1 DEF Types
        <5> QED BY <2>2, <5>1 DEF Exist
      <4>2. CASE u = t
        <5>1. ent'[u] = Append(ent[t], e)
          BY <3>4, <4>2 DEF Types
        <5>2. /\ Len(ent'[u]) = Len(ent[t]) + 1
              /\ \A j \in 1..Len(ent[t]) : ent'[u][j] = ent[t][j]
              /\ ent'[u][Len(ent[t]) + 1] = e
          BY <3>2, <3>5, <5>1
        <5>3. CASE i \in 1..Len(ent[t])
          BY <2>2, <5>2, <5>3 DEF Exist
        <5>4. CASE i = Len(ent[t]) + 1
          BY <2>2, <3>3, <5>2, <5>4 DEF Slots, Known
        <5> QED BY <3>5, <5>2, <5>3, <5>4
      <4> QED BY <4>1, <4>2
    <3> QED BY <2>1, <2>2, <3>6 DEF Exist
  <2> QED BY <2>1, <2>3, <2>4
<1>3. CASE Produce(t)
  <2> DEFINE n == Now(t).name
             e == [Now(t) EXCEPT !.stage = FreshOf(t, n)]
             d(b) == [kind |-> IF n \in Trees THEN "dir" ELSE "file", bytes |-> b]
  <2>1. /\ public' = public /\ pc[t] = "produce"
        /\ \/ UNCHANGED <<data, ent>>
           \/ /\ \E b \in Bytes : data' = [data EXCEPT ![FreshOf(t, n)] = d(b)]
              /\ Update(t, e)
    BY <1>3 DEF Produce
  <2>2. CASE UNCHANGED <<data, ent>>
    <3>1. Known' = Known
      BY <2>2, KnownStays
    <3> QED BY <2>1, <2>2, <3>1, StayExist DEF Exist
  <2>3. CASE /\ \E b \in Bytes : data' = [data EXCEPT ![FreshOf(t, n)] = d(b)]
             /\ Update(t, e)
    <3>1. PICK b \in Bytes : data' = [data EXCEPT ![FreshOf(t, n)] = d(b)]
      BY <2>3
    <3>2. /\ at[t] \in 1..Len(ent[t]) /\ Now(t) \in Entry /\ n \in Names
          /\ Now(t).previous \in Known /\ Now(t).rollback \in Known
      BY <2>1, NowExist DEF Working
    <3>3. FreshOf(t, n) \in Objects
      BY <3>2, FreshIs
    <3>4. d(b) \in Data /\ d(b) # None
      <4>1. d(b) \in Data
        BY DEF Data, Kinds
      <4> QED BY <4>1, MarksAssumption
    <3> HIDE DEF d
    <3>5. Known \subseteq Known' /\ FreshOf(t, n) \in Known'
      BY <3>1, <3>3, <3>4 DEF Known, Types
    <3>6. /\ e \in Entry /\ e.stage = FreshOf(t, n)
          /\ e.previous = Now(t).previous /\ e.rollback = Now(t).rollback
      BY <3>2, <3>3 DEF Entry, Place
    <3> HIDE DEF e
    <3>7. Slots(e) \subseteq Known'
      BY <3>2, <3>5, <3>6 DEF Slots
    <3>8. \A m \in Names : public'[m] \in Known'
      BY <2>1, <3>5 DEF Exist
    <3> QED BY <2>3, <3>2, <3>5, <3>6, <3>7, <3>8, UpdateExist
  <2> QED BY <2>1, <2>2, <2>3
<1> QED BY <1>1, <1>2, <1>3

\* A step on an entry: what it moves to the public name or into a slot exists.
LEMMA SlotStep ==
  ASSUME Types, Exist, NEW t \in Trans, Phase(t), pc[t] \in Working, data' = data,
         \/ ent' = ent
         \/ \E e \in Entry : Update(t, e) /\ Slots(e) \subseteq Known,
         \/ public' = public
         \/ \E o \in Known : public' = [public EXCEPT ![Now(t).name] = o]
  PROVE  Exist'
<1>1. Known' = Known
  BY KnownStays
<1>2. at[t] \in 1..Len(ent[t]) /\ Now(t).name \in Names
  BY NowExist
<1>3. \A n \in Names : public'[n] \in Known'
  BY ZenonT(120), <1>1, <1>2 DEF Exist, Types
<1>4. CASE ent' = ent
  BY <1>1, <1>3, <1>4, StayExist
<1>5. CASE \E e \in Entry : Update(t, e) /\ Slots(e) \subseteq Known
  BY <1>1, <1>2, <1>3, <1>5, UpdateExist
<1> QED BY <1>4, <1>5

\* The commit.
LEMMA CommitExist ==
  ASSUME Types, Exist, NEW t \in Trans, Phase(t),
         Cancelled(t) \/ Validate(t) \/ Capture(t) \/ Install(t) \/ Decide(t)
  PROVE  Exist'
<1> DEFINE e == Now(t)
<1>0. pc[t] \in Working /\ data' = data
  BY ZenonT(120) DEF Cancelled, Validate, Capture, Install, Decide, Going, Working
<1>1. /\ e \in Entry /\ e.stage \in Known /\ e.previous \in Known
      /\ e.rollback \in Known /\ public[e.name] \in Known /\ None \in Known
  BY <1>0, NowExist
<1>p. Known \subseteq Place
  BY DEF Known, Place
<1>2. CASE Cancelled(t) \/ Decide(t)
  <2>1. UNCHANGED <<public, ent>>
    BY <1>2 DEF Cancelled, Decide
  <2> QED BY <1>0, <2>1, SlotStep
<1>3. CASE Validate(t)
  <2> DEFINE d == IF e.stage = None THEN None ELSE data[e.stage]
             seen == [e EXCEPT !.fresh = e.stage,
                               !.tree = IF d # None /\ d.kind = "dir" THEN d ELSE None]
             same == [seen EXCEPT !.unchanged = e.bytes # None /\ e.bytes = d]
             bare == [e EXCEPT !.fresh = e.stage]
  <2>1. /\ public' = public
        /\ ent' = ent \/ Update(t, seen) \/ Update(t, same) \/ Update(t, bare)
    BY ZenonT(120), <1>3 DEF Validate
  <2>2. seen \in Entry /\ same \in Entry /\ bare \in Entry
    <3>1. e.stage \in Place /\ d \in Data \cup {None}
      BY <1>1, <1>p DEF Types, Entry, Place
    <3> DEFINE x == IF d # None /\ d.kind = "dir" THEN d ELSE None
               b == e.bytes # None /\ e.bytes = d
    <3>2. x \in Data \cup {None} /\ b \in BOOLEAN
      BY <3>1
    <3>3. /\ seen = [e EXCEPT !.fresh = e.stage, !.tree = x]
          /\ same = [e EXCEPT !.fresh = e.stage, !.tree = x, !.unchanged = b]
      BY <1>1 DEF Entry
    <3> HIDE DEF x, b, seen, same, d
    <3> QED BY ZenonT(120), <1>1, <3>1, <3>2, <3>3, EntryStep
  <2>3. \A x \in {seen, same, bare} : Slots(x) = Slots(e)
    BY <1>1 DEF Slots, Entry
  <2> HIDE DEF seen, same, bare
  <2>4. Slots(e) \subseteq Known
    BY <1>1 DEF Slots
  <2>5. ent' = ent \/ \E x \in Entry : Update(t, x) /\ Slots(x) \subseteq Known
    BY <2>1, <2>2, <2>3, <2>4
  <2> QED BY <1>0, <2>1, <2>5, SlotStep
<1>4. CASE Capture(t)
  <2> DEFINE caught == [e EXCEPT !.captured = TRUE, !.previous = public[e.name]]
             good == [caught EXCEPT !.capture_valid = TRUE]
  <2>1. /\ UNCHANGED ent \/ Update(t, caught) \/ Update(t, good)
        /\ public' = public \/ public' = [public EXCEPT ![e.name] = None]
    BY <1>4 DEF Capture
  <2>2. /\ caught \in Entry /\ good \in Entry
        /\ caught.stage = e.stage /\ caught.rollback = e.rollback
        /\ caught.previous = public[e.name]
        /\ good.stage = e.stage /\ good.rollback = e.rollback
        /\ good.previous = public[e.name]
    BY <1>1, <1>p DEF Entry
  <2> HIDE DEF caught, good
  <2>3. Slots(caught) \subseteq Known /\ Slots(good) \subseteq Known
    BY <1>1, <2>2 DEF Slots
  <2>4. ent' = ent \/ \E x \in Entry : Update(t, x) /\ Slots(x) \subseteq Known
    BY <2>1, <2>2, <2>3
  <2> QED BY <1>0, <1>1, <2>1, <2>4, SlotStep
<1>5. CASE Install(t)
  <2> DEFINE o == IF e.unchanged THEN e.previous ELSE e.stage
             back(how) == [e EXCEPT !.captured = FALSE, !.previous = Left(how, o)]
             new(how) == [e EXCEPT !.installed = TRUE, !.stage = Left(how, o)]
  <2>1. /\ public' = public \/ public' = [public EXCEPT ![e.name] = o]
        /\ \/ UNCHANGED ent
           \/ \E how \in NoReplace(e.name, o) :
                Update(t, back(how)) \/ Update(t, new(how))
    BY <1>5, Zenon DEF Install
  <2>2. o \in Known /\ \A how : Left(how, o) \in Known
    BY <1>1 DEF Left
  <2> HIDE DEF o
  <2>3. \A how : /\ back(how) \in Entry /\ new(how) \in Entry
                 /\ back(how).stage = e.stage /\ back(how).rollback = e.rollback
                 /\ back(how).previous = Left(how, o)
                 /\ new(how).previous = e.previous /\ new(how).rollback = e.rollback
                 /\ new(how).stage = Left(how, o)
    BY <1>1, <1>p, <2>2 DEF Entry
  <2> HIDE DEF back, new
  <2>4. \A how : Slots(back(how)) \subseteq Known /\ Slots(new(how)) \subseteq Known
    BY <1>1, <2>2, <2>3 DEF Slots
  <2>5. ent' = ent \/ \E x \in Entry : Update(t, x) /\ Slots(x) \subseteq Known
    BY <2>1, <2>3, <2>4
  <2> QED BY <1>0, <2>1, <2>2, <2>5, SlotStep
<1> QED BY SMTT(60), <1>2, <1>3, <1>4, <1>5

\* The rollback.
LEMMA RestoreExist ==
  ASSUME Types, Exist, NEW t \in Trans, Phase(t),
         RollbackCapture(t) \/ RollbackCheck(t) \/ RestorePrevious(t)
  PROVE  Exist'
<1> DEFINE e == Now(t)
<1>0. pc[t] \in Working /\ data' = data
  BY DEF RollbackCapture, RollbackCheck, RestorePrevious, Working, Aborting
<1>1. /\ e \in Entry /\ e.stage \in Known /\ e.previous \in Known
      /\ e.rollback \in Known /\ public[e.name] \in Known /\ None \in Known
  BY <1>0, NowExist
<1>p. Known \subseteq Place
  BY DEF Known, Place
<1>2. CASE RollbackCapture(t)
  <2> DEFINE gone == [e EXCEPT !.installed = FALSE]
             taken == [e EXCEPT !.rollback = public[e.name], !.rollback_pending = TRUE]
  <2>1. /\ UNCHANGED ent \/ Update(t, gone) \/ Update(t, taken)
        /\ public' = public \/ \E o \in {public[e.name], None} :
                                 public' = [public EXCEPT ![e.name] = o]
    BY <1>2 DEF RollbackCapture
  <2>2. /\ gone \in Entry /\ gone.stage = e.stage /\ gone.previous = e.previous
        /\ gone.rollback = e.rollback
        /\ taken \in Entry /\ taken.stage = e.stage /\ taken.previous = e.previous
        /\ taken.rollback = public[e.name]
    BY <1>1, <1>p DEF Entry
  <2> HIDE DEF gone, taken
  <2>3. Slots(gone) \subseteq Known /\ Slots(taken) \subseteq Known
    BY <1>1, <2>2 DEF Slots
  <2>4. ent' = ent \/ \E x \in Entry : Update(t, x) /\ Slots(x) \subseteq Known
    BY <2>1, <2>2, <2>3
  <2> QED BY <1>0, <1>1, <2>1, <2>4, SlotStep
<1>3. CASE RollbackCheck(t)
  <2> DEFINE ours == [e EXCEPT !.rollback = None, !.rollback_pending = FALSE,
                               !.installed = FALSE]
             back(how) == [e EXCEPT !.rollback_pending = FALSE,
                                    !.rollback = Left(how, e.rollback)]
  <2>1. /\ public' = public \/ public' = [public EXCEPT ![e.name] = e.rollback]
        /\ \/ UNCHANGED ent \/ Update(t, ours)
           \/ \E how \in NoReplace(e.name, e.rollback) : Update(t, back(how))
    BY <1>3, Zenon DEF RollbackCheck
  <2>2. \A how : Left(how, e.rollback) \in Known
    BY <1>1 DEF Left
  <2>3. /\ ours \in Entry /\ ours.stage = e.stage /\ ours.previous = e.previous
        /\ ours.rollback = None
        /\ \A how : /\ back(how) \in Entry
                    /\ back(how).stage = e.stage /\ back(how).previous = e.previous
                    /\ back(how).rollback = Left(how, e.rollback)
    BY <1>1, <1>p, <2>2 DEF Entry
  <2> HIDE DEF ours, back
  <2>4. Slots(ours) \subseteq Known /\ \A how : Slots(back(how)) \subseteq Known
    BY <1>1, <2>2, <2>3 DEF Slots
  <2>5. ent' = ent \/ \E x \in Entry : Update(t, x) /\ Slots(x) \subseteq Known
    BY <2>1, <2>3, <2>4
  <2> QED BY <1>0, <1>1, <2>1, <2>5, SlotStep
<1>4. CASE RestorePrevious(t)
  <2> DEFINE back(how) == [e EXCEPT !.captured = FALSE,
                                    !.previous = Left(how, e.previous)]
  <2>1. /\ public' = public \/ public' = [public EXCEPT ![e.name] = e.previous]
        /\ \/ UNCHANGED ent
           \/ \E how \in NoReplace(e.name, e.previous) : Update(t, back(how))
    BY <1>4, Zenon DEF RestorePrevious
  <2>2. \A how : Left(how, e.previous) \in Known
    BY <1>1 DEF Left
  <2>3. \A how : /\ back(how) \in Entry
                 /\ back(how).stage = e.stage /\ back(how).rollback = e.rollback
                 /\ back(how).previous = Left(how, e.previous)
    BY <1>1, <1>p, <2>2 DEF Entry
  <2> HIDE DEF back
  <2>4. \A how : Slots(back(how)) \subseteq Known
    BY <1>1, <2>2, <2>3 DEF Slots
  <2>5. ent' = ent \/ \E x \in Entry : Update(t, x) /\ Slots(x) \subseteq Known
    BY <2>1, <2>3, <2>4
  <2> QED BY <1>0, <1>1, <2>1, <2>5, SlotStep
<1> QED BY <1>2, <1>3, <1>4

\* No slot holds anything new.
LEMMA ShrinkExist ==
  ASSUME Types, Exist, UNCHANGED <<public, data>>,
         \A u \in Trans : Len(ent'[u]) = Len(ent[u]),
         \A u \in Trans : \A i \in 1..Len(ent[u]) :
           Slots(ent'[u][i]) \subseteq Slots(ent[u][i]) \cup {None}
  PROVE  Exist'
<1>1. Known' = Known /\ None \in Known
  BY KnownStays DEF Known
<1>2. ASSUME NEW u \in Trans, NEW i \in 1..Len(ent'[u])
      PROVE  Slots(ent'[u][i]) \subseteq Known'
  <2>1. Slots(ent[u][i]) \subseteq Known
    BY DEF Exist
  <2> HIDE DEF Known
  <2> QED BY <1>1, <2>1
<1> QED BY <1>1, <1>2 DEF Exist

\* The slots of an entry that is finished.
LEMMA FinishedSlots ==
  ASSUME NEW e \in Entry,
         NEW f \in {Finished(e), [Finished(e) EXCEPT !.finish_failed = TRUE]}
  PROVE  f \in Entry /\ Slots(f) \subseteq Slots(e) \cup {None}
<1> DEFINE g == Finished(e)
<1>1. /\ g \in Entry /\ g.stage = None /\ g.rollback = e.rollback
      /\ g.previous = None \/ g.previous = e.previous
  BY FinishedIs
<1> HIDE DEF g
<1>2. f = g \/ f = [g EXCEPT !.finish_failed = TRUE]
  BY DEF g
<1>3. /\ f \in Entry /\ f.stage = g.stage /\ f.rollback = g.rollback
      /\ f.previous = g.previous
  BY <1>1, <1>2 DEF Entry
<1> QED BY <1>1, <1>3 DEF Slots

\* Finishing an entry, successfully or not, moves nothing into a place.
LEMMA FinishExist ==
  ASSUME Types, Exist, NEW t \in Trans, Phase(t), FinishEntry(t)
  PROVE  Exist'
<1> DEFINE e == Now(t)
<1>0. pc[t] \in Working /\ UNCHANGED <<public, data>>
  BY DEF FinishEntry, Working, Aborting
<1>1. /\ at[t] \in 1..Len(ent[t]) /\ e \in Entry /\ e.stage \in Known
      /\ e.previous \in Known /\ e.rollback \in Known /\ None \in Known
  BY <1>0, NowExist
<1>p. Known \subseteq Place
  BY DEF Known, Place
<1>2. CASE FinishFails(t)
  <2> DEFINE x == IF e.captured THEN None ELSE e.previous
             less == [e EXCEPT !.captured = FALSE, !.previous = x]
  <2>1. UNCHANGED ent \/ Update(t, less)
    BY <1>2, <1>1 DEF FinishFails, Entry
  <2>2. x \in Known
    BY <1>1
  <2> HIDE DEF x
  <2>3. /\ less \in Entry /\ less.stage = e.stage /\ less.rollback = e.rollback
        /\ less.previous = x
    BY <1>1, <1>p, <2>2 DEF Entry
  <2> HIDE DEF less
  <2>4. Slots(less) \subseteq Known
    BY <1>1, <2>2, <2>3 DEF Slots
  <2>5. ent' = ent \/ \E y \in Entry : Update(t, y) /\ Slots(y) \subseteq Known
    BY <2>1, <2>3, <2>4
  <2> QED BY <1>0, <2>5, SlotStep
<1>3. CASE FinishSucceeds(t)
  <2> DEFINE es == [ent EXCEPT ![t][at[t]] = Finished(e)]
             kept == [es EXCEPT ![t][at[t]].finish_failed = TRUE]
             fs == {Finished(e), [Finished(e) EXCEPT !.finish_failed = TRUE]}
  <2>1. \E x \in {es, kept} : ent' = x \/ ent' = Unseal(t, x)
    BY <1>3, Zenon DEF FinishSucceeds
  <2>2. ASSUME NEW x \in {es, kept}
        PROVE  /\ x \in [Trans -> Seq(Entry)]
               /\ \A u \in Trans : Len(x[u]) = Len(ent[u])
               /\ \A u \in Trans : \A i \in 1..Len(ent[u]) :
                    Slots(x[u][i]) \subseteq Slots(ent[u][i]) \cup {None}
    <3>1. PICK f \in fs : x = [ent EXCEPT ![t] = [ent[t] EXCEPT ![at[t]] = f]]
      <4> DEFINE g == Finished(e)
                 f == [g EXCEPT !.finish_failed = TRUE]
      <4>1. ent[t] \in Seq(Entry) /\ DOMAIN ent[t] = 1..Len(ent[t])
            /\ ent \in [Trans -> Seq(Entry)]
        BY DEF Types
      <4>2. es = [ent EXCEPT ![t] = [ent[t] EXCEPT ![at[t]] = g]]
        OBVIOUS
      <4>3. es[t] = [ent[t] EXCEPT ![at[t]] = g] /\ es[t][at[t]] = g
        BY <1>1, <4>1, <4>2
      <4>4. kept = [es EXCEPT ![t] = [es[t] EXCEPT ![at[t]] = f]]
        BY <4>3
      <4>5. g \in fs /\ f \in fs
        OBVIOUS
      <4> HIDE DEF es, kept, f, g, fs
      <4>6. [es[t] EXCEPT ![at[t]] = f] = [ent[t] EXCEPT ![at[t]] = f]
        BY <4>3
      <4>7. kept = [ent EXCEPT ![t] = [ent[t] EXCEPT ![at[t]] = f]]
        BY <4>1, <4>2, <4>4, <4>6
      <4> QED BY <4>2, <4>5, <4>7
    <3>2. f \in Entry /\ Slots(f) \subseteq Slots(e) \cup {None}
      BY <1>1, FinishedSlots
    <3>3. e = ent[t][at[t]] /\ ent[t] \in Seq(Entry) /\ Len(ent[t]) \in Nat
          /\ ent \in [Trans -> Seq(Entry)] /\ DOMAIN ent[t] = 1..Len(ent[t])
      BY DEF Now, Types
    <3> HIDE DEF e, fs
    <3>4. [ent[t] EXCEPT ![at[t]] = f] \in Seq(Entry)
          /\ Len([ent[t] EXCEPT ![at[t]] = f]) = Len(ent[t])
      BY <1>1, <3>2, <3>3, ExceptSeq
    <3>5. /\ x \in [Trans -> Seq(Entry)]
          /\ \A u \in Trans : Len(x[u]) = Len(ent[u])
      BY <3>1, <3>3, <3>4
    <3>6. ASSUME NEW u \in Trans, NEW i \in 1..Len(ent[u])
          PROVE  Slots(x[u][i]) \subseteq Slots(ent[u][i]) \cup {None}
      <4>1. CASE u = t /\ i = at[t]
        <5>1. x[u][i] = f /\ ent[u][i] = e
          BY <1>1, <3>1, <3>3, <4>1
        <5> QED BY <3>2, <5>1
      <4>2. CASE ~(u = t /\ i = at[t])
        <5>1. x[u][i] = ent[u][i]
          BY <3>1, <3>3, <4>2
        <5> QED BY <5>1
      <4> QED BY <4>1, <4>2
    <3> QED BY <3>5, <3>6
  <2>3. PICK x \in {es, kept} : ent' = x \/ ent' = Unseal(t, x)
    BY <2>1
  <2>4. /\ x \in [Trans -> Seq(Entry)]
        /\ \A u \in Trans : Len(x[u]) = Len(ent[u])
        /\ \A u \in Trans : \A i \in 1..Len(ent[u]) :
             Slots(x[u][i]) \subseteq Slots(ent[u][i]) \cup {None}
    BY <2>2
  <2> HIDE DEF es, kept
  <2>5. CASE ent' = x
    BY <1>0, <2>4, <2>5, ShrinkExist
  <2>6. CASE ent' = Unseal(t, x)
    <3>1. Unsealed(t, x, ent')
      <4>1. Unsealed(t, x, Unseal(t, x))
        BY <2>4, UnsealIs
      <4> QED BY <2>6, <4>1, Zenon
    <3>2. \A u \in Trans : Len(ent'[u]) = Len(ent[u])
      BY <2>4, <3>1 DEF Unsealed
    <3>3. ASSUME NEW u \in Trans, NEW i \in 1..Len(ent[u])
          PROVE  Slots(ent'[u][i]) = Slots(x[u][i])
      <4>1. x[u][i] \in Entry /\ i \in 1..Len(x[u])
        BY <2>4
      <4>2. ent'[u][i] = x[u][i] \/ ent'[u][i] = [x[u][i] EXCEPT !.sealed = FALSE]
        BY <3>1, <4>1 DEF Unsealed
      <4> QED BY <4>1, <4>2 DEF Slots, Entry
    <3>4. \A u \in Trans : \A i \in 1..Len(ent[u]) :
            Slots(ent'[u][i]) \subseteq Slots(ent[u][i]) \cup {None}
      BY <2>4, <3>3
    <3> QED BY <1>0, <3>2, <3>4, ShrinkExist
  <2> QED BY <2>3, <2>5, <2>6
<1> QED BY <1>2, <1>3 DEF FinishEntry

\* A crash leaves every slot as it is.
LEMMA CrashExist ==
  ASSUME Types, Exist, NEW p \in Procs, Crash(p)
  PROVE  Exist'
<1>1. UNCHANGED <<public, data>>
  BY DEF Crash
<1>2. ASSUME NEW u \in Trans
      PROVE  /\ Len(ent'[u]) = Len(ent[u])
             /\ \A i \in 1..Len(ent[u]) : Slots(ent'[u][i]) = Slots(ent[u][i])
  <2>1. /\ Len(ent[u]) \in Nat /\ DOMAIN ent[u] = 1..Len(ent[u])
        /\ \A i \in 1..Len(ent[u]) : ent[u][i] \in Entry
    BY LenIs
  <2>2. CASE Owner[u] # p
    <3>1. ent'[u] = ent[u]
      BY <2>2 DEF Crash
    <3> QED BY <3>1
  <2>3. CASE Owner[u] = p
    <3> DEFINE r(i) == Remains(u, ent[u][i])
               s == [i \in 1..Len(ent[u]) |-> r(i)]
    <3>1. ent'[u] = s
      BY <2>1, <2>3 DEF Crash
    <3>2. \A i \in 1..Len(ent[u]) : r(i) \in Entry /\ Slots(r(i)) = Slots(ent[u][i])
      BY <2>1, RemainsIs
    <3> HIDE DEF r
    <3>3. Len(s) = Len(ent[u])
      BY <2>1
    <3> QED BY <3>1, <3>2, <3>3
  <2> QED BY <2>2, <2>3
<1> QED BY <1>1, <1>2, ShrinkExist

\* Editors make what they save, and change no object into nothing.
LEMMA EditorsKeep ==
  ASSUME RInv, Exist, NEW n \in Names, Save(n) \/ Remove(n) \/ EditInPlace(n)
  PROVE  RInv' /\ Exist'
<1>0. Types /\ None \notin Data /\ None \notin Objects
  BY MarksAssumption DEF RInv
<1>1. /\ UNCHANGED <<scene, ent, arena, pc, at, pass, outcome, told, made>>
      /\ saves' = saves + 1 /\ saves < MaxSaves
  BY DEF Save, Remove, EditInPlace
<1>2. public[n] # None => public[n] \in Objects /\ data[public[n]] \in Data
  BY <1>0 DEF Exist, Known, Types
<1>3. /\ public' \in [Names -> Place] /\ data' \in [Objects -> Data \cup {None}]
      /\ Known \subseteq Known' /\ \A m \in Names : public'[m] \in Known'
  <2>1. CASE Save(n)
    <3> DEFINE o == SaveOf(saves + 1)
               k == IF public[n] = None THEN "file" ELSE data[public[n]].kind
               d(b) == [kind |-> k, bytes |-> b]
    <3>1. o \in Objects
      <4>1. saves + 1 \in 1..MaxSaves
        BY <1>0, <1>1, PublicationAssumption DEF Types
      <4> QED BY <4>1 DEF Objects
    <3>2. PICK b \in Bytes : data' = [data EXCEPT ![o] = d(b)]
      BY <2>1 DEF Save
    <3>3. d(b) \in Data /\ d(b) # None
      <4>1. k \in Kinds
        BY <1>2 DEF Data, Kinds
      <4> HIDE DEF k
      <4>2. d(b) \in Data
        BY <4>1 DEF Data
      <4> QED BY <1>0, <4>2
    <3>4. public' = [public EXCEPT ![n] = o]
      BY <2>1 DEF Save
    <3> HIDE DEF o, d
    <3>5. data' \in [Objects -> Data \cup {None}] /\ public' \in [Names -> Place]
      BY <1>0, <3>1, <3>2, <3>3, <3>4 DEF Types, Place
    <3>6. Known \subseteq Known' /\ o \in Known'
      BY <1>0, <3>1, <3>2, <3>3 DEF Known, Types
    <3>7. \A m \in Names : public'[m] \in Known'
      BY <1>0, <3>4, <3>6 DEF Exist, Types
    <3> QED BY <3>5, <3>6, <3>7
  <2>2. CASE Remove(n)
    <3>1. data' = data /\ public' = [public EXCEPT ![n] = None]
      BY <2>2 DEF Remove
    <3>2. Known' = Known /\ None \in Known
      BY <3>1, KnownStays DEF Known
    <3> QED BY <1>0, <3>1, <3>2 DEF Exist, Types, Place
  <2>3. CASE EditInPlace(n)
    <3> DEFINE o == public[n]
    <3>1. PICK b \in Bytes : data' = [data EXCEPT ![o].bytes = b]
      BY <2>3 DEF EditInPlace
    <3>2. public' = public /\ o \in Objects /\ data[o] \in Data
      BY <1>2, <2>3 DEF EditInPlace
    <3> DEFINE d == [data[o] EXCEPT !.bytes = b]
    <3>3. d \in Data /\ d # None
      BY <1>0, <3>2 DEF Data
    <3>4. data' = [data EXCEPT ![o] = d]
      BY <3>1
    <3> HIDE DEF o, d
    <3>5. data' \in [Objects -> Data \cup {None}] /\ Known \subseteq Known'
      BY <1>0, <3>2, <3>3, <3>4 DEF Types, Known
    <3> QED BY <1>0, <3>2, <3>5 DEF Exist, Types
  <2> QED BY <2>1, <2>2, <2>3
<1>4. Types'
  BY <1>0, <1>1, <1>3 DEF Types
<1> QED BY <1>0, <1>1, <1>3, <1>4, OutsideKeeps, StayExist

\* It holds at first.
LEMMA InitRInv ==
  ASSUME Init
  PROVE  RInv /\ Exist
<1>1. scene \in SceneType /\ Scenes \subseteq SceneType /\ scene.first \subseteq Kinds
  BY PublicationAssumption DEF Init, SceneType
<1>2. PICK first \in Bytes :
        \E found \in [Names -> [kind : scene.first, bytes : {first}] \cup {None}] :
          /\ public = [n \in Names |-> IF found[n] = None THEN None ELSE OldOf(n)]
          /\ data = [o \in Objects |-> IF \E n \in Names : o = OldOf(n)
                                         THEN found[CHOOSE n \in Names : o = OldOf(n)]
                                         ELSE None]
  BY DEF Init
<1>3. PICK found \in [Names -> [kind : scene.first, bytes : {first}] \cup {None}] :
          /\ public = [n \in Names |-> IF found[n] = None THEN None ELSE OldOf(n)]
          /\ data = [o \in Objects |-> IF \E n \in Names : o = OldOf(n)
                                         THEN found[CHOOSE n \in Names : o = OldOf(n)]
                                         ELSE None]
  BY <1>2
<1>4. [kind : scene.first, bytes : {first}] \subseteq Data
  BY <1>1 DEF Data
<1>5. \A n \in Names : /\ OldOf(n) \in Objects /\ found[n] \in Data \cup {None}
                       /\ data[OldOf(n)] = found[n]
  <2> SUFFICES ASSUME NEW n \in Names
               PROVE  /\ OldOf(n) \in Objects /\ found[n] \in Data \cup {None}
                      /\ data[OldOf(n)] = found[n]
    OBVIOUS
  <2>1. OldOf(n) \in Objects /\ found[n] \in Data \cup {None}
    BY <1>4 DEF Objects
  <2>2. \A m \in Names : OldOf(n) = OldOf(m) => m = n
    BY DEF OldOf
  <2>3. (CHOOSE m \in Names : OldOf(n) = OldOf(m)) = n
    BY <2>2
  <2> HIDE DEF OldOf
  <2> QED BY <1>3, <2>1, <2>3
<1>6. /\ public \in [Names -> Place] /\ data \in [Objects -> Data \cup {None}]
  <2>1. public \in [Names -> Place]
    BY <1>3, <1>5 DEF Place
  <2>2. ASSUME NEW o \in Objects
        PROVE  data[o] \in Data \cup {None}
    <3>1. CASE \E n \in Names : o = OldOf(n)
      <4>1. PICK n \in Names : o = OldOf(n)
        BY <3>1
      <4> QED BY <1>5, <4>1
    <3>2. CASE ~\E n \in Names : o = OldOf(n)
      BY <1>3, <3>2
    <3> QED BY <3>1, <3>2
  <2>3. data = [o \in Objects |-> data[o]]
    BY <1>3
  <2> QED BY <2>1, <2>2, <2>3
<1>7. /\ ent = [t \in Trans |-> <<>>] /\ arena = [p \in Procs |-> NoArena]
      /\ pc = [t \in Trans |-> "open"] /\ at = [t \in Trans |-> 1]
      /\ pass = [t \in Trans |-> FirstPass] /\ outcome = [t \in Trans |-> "none"]
      /\ told = [t \in Trans |-> FALSE] /\ saves = 0
      /\ made = [o \in Objects |-> None]
  BY DEF Init
<1>8. Types
  BY <1>1, <1>6, <1>7 DEF Types, NoArena, FirstPass, Places, Forward
<1>9. \A t \in Trans : Len(ent[t]) = 0 /\ ent[t] = <<>>
  BY <1>7
<1>10. \A t \in Trans : Phase(t)
  BY <1>7, <1>9 DEF Phase, Working, Aborting, Forward, FirstPass
<1>11. \A p \in Procs : Refs(p)
  <2> SUFFICES ASSUME NEW p \in Procs
               PROVE  Refs(p)
    OBVIOUS
  <2>1. Owed(p) = {}
    BY <1>9 DEF Owed
  <2>2. IsFiniteSet(Owed(p)) /\ Cardinality(Owed(p)) = 0
    BY <2>1, FS_EmptySet
  <2>3. arena[p].refs = 0 /\ ~arena[p].disk
    BY <1>7 DEF NoArena
  <2> QED BY <2>2, <2>3 DEF Refs
<1>12. Sealed /\ RecoveryRecorded
  BY <1>9 DEF Sealed, RecoveryRecorded
<1>13. Exist
  <2>1. \A n \in Names : public[n] \in Known
    BY <1>3, <1>5 DEF Known
  <2> QED BY <1>9, <2>1 DEF Exist
<1> QED BY <1>8, <1>10, <1>11, <1>12, <1>13 DEF RInv

\* Every step keeps it.
LEMMA NextRInv ==
  ASSUME RInv, Exist, [Next]_vars
  PROVE  RInv' /\ Exist'
<1>0. Types /\ \A t \in Trans : Phase(t)
  BY DEF RInv
<1>1. CASE UNCHANGED vars
  <2>1. /\ UNCHANGED <<scene, public, data, ent, arena, pc, at, pass, outcome, told>>
        /\ UNCHANGED <<made, saves>>
    BY <1>1 DEF vars
  <2>2. Types' /\ Known' = Known
    BY <1>0, <2>1, KnownStays DEF Types
  <2> QED BY <1>0, <2>1, <2>2, OutsideKeeps, StayExist DEF Exist
<1>2. ASSUME NEW t \in Trans, Step(t)
      PROVE  RInv' /\ Exist'
  <2>0. Phase(t)
    BY <1>0
  <2>1. CASE Open(t)
    BY <1>0, <2>0, <2>1, OpenFine, FineKeeps, PrepareExist
  <2>2. CASE Record(t)
    BY <1>0, <2>0, <2>2, RecordKeeps, PrepareExist
  <2>3. CASE Produce(t)
    BY <1>0, <2>0, <2>3, ProduceFine, FineKeeps, PrepareExist
  <2>4. CASE Cancelled(t)
    BY <1>0, <2>0, <2>4, CancelledFine, FineKeeps, CommitExist
  <2>5. CASE Validate(t)
    BY <1>0, <2>0, <2>5, ValidateFine, FineKeeps, CommitExist
  <2>6. CASE Capture(t)
    BY <1>0, <2>0, <2>6, CaptureFine, FineKeeps, CommitExist
  <2>7. CASE Install(t)
    BY <1>0, <2>0, <2>7, InstallFine, FineKeeps, CommitExist
  <2>8. CASE Decide(t)
    BY <1>0, <2>0, <2>8, DecideFine, FineKeeps, CommitExist
  <2>9. CASE RollbackCapture(t)
    BY <1>0, <2>0, <2>9, RollbackCaptureFine, FineKeeps, RestoreExist
  <2>10. CASE RollbackCheck(t)
    BY <1>0, <2>0, <2>10, RollbackCheckFine, FineKeeps, RestoreExist
  <2>11. CASE RestorePrevious(t)
    BY <1>0, <2>0, <2>11, RestorePreviousFine, FineKeeps, RestoreExist
  <2>12. CASE FinishEntry(t)
    <3>1. /\ pc[t] \in {"discard", "publish"}
          /\ UNCHANGED <<scene, public, data, made, saves>>
          /\ FinishFails(t) \/ FinishSucceeds(t)
      BY <2>12 DEF FinishEntry
    <3>2. RInv'
      BY <1>0, <2>0, <3>1, FinishFailsFine, FineKeeps, FinishSucceedsKeeps
    <3> QED BY <1>0, <2>0, <2>12, <3>2, FinishExist
  <2> QED
    BY <1>2, <2>1, <2>2, <2>3, <2>4, <2>5, <2>6, <2>7, <2>8, <2>9, <2>10, <2>11,
       <2>12 DEF Step
<1>3. ASSUME NEW p \in Procs, Cancel(p)
      PROVE  RInv' /\ Exist'
  <2>1. /\ UNCHANGED <<scene, public, data, ent, arena, pc, at, pass, outcome, told>>
        /\ UNCHANGED <<made, saves>>
    BY <1>3 DEF Cancel
  <2>2. Types' /\ Known' = Known
    BY <1>0, <2>1, KnownStays DEF Types
  <2> QED BY <1>0, <2>1, <2>2, OutsideKeeps, StayExist DEF Exist
<1>4. ASSUME NEW p \in Procs, Crash(p)
      PROVE  RInv' /\ Exist'
  BY <1>0, <1>4, CrashKeeps, CrashExist
<1> QED BY <1>1, <1>2, <1>3, <1>4, EditorsKeep DEF Next

\* Whatever was taken from a public name, the directory that holds it is still
\* there and its sealed record says where it belongs, through every failure,
\* rollback, finish and crash of every invocation.
THEOREM RecoveryIsRecorded == Spec => []RecoveryRecorded
<1>1. RInv => RecoveryRecorded
  BY DEF RInv
<1> QED BY <1>1, InitRInv, NextRInv, PTL DEF Spec

-----------------------------------------------------------------------------
\* What the flags of an entry say at each place of its transaction.

\* Nothing of the entry is in the public name or away from it.
Bare(e) == ~e.captured /\ ~e.installed /\ ~e.rollback_pending

\* Nor was it ever.
Clean(e) == Bare(e) /\ ~e.capture_valid

\* What is captured is the expected version, unchanged, and no input.
Good(e) ==
    e.captured => /\ e.capture_valid /\ e.expected # None
                  /\ e.previous = e.expected
                  /\ \A n \in Inputs : e.previous # OldOf(n)

\* Through action 1.
Taken(e) == /\ ~e.installed /\ ~e.rollback_pending /\ Good(e)
            /\ e.captured \/ e.expected = None

\* Through action 2.
Settled(t, e) ==
    /\ ~e.rollback_pending /\ Good(e)
    /\ IF e.unchanged THEN ~e.captured /\ ~e.installed
       ELSE /\ e.captured \/ e.expected = None
            /\ e.installed <=> e.name \notin DeleteOnly[t]

\* At every place.
Stat(t, e) ==
    /\ e.stage \in {None, FreshOf(t, e.name)}
    /\ e.unchanged => e.expected # None /\ e.name \notin DeleteOnly[t]
    /\ e.expected = None => e.bytes = None

\* Entry i of t, which is e, when t is at place c, works on entry k and has
\* ended as r.
Flag(t, i, e, c, k, r) ==
    /\ Stat(t, e)
    /\ c \in {"open", "record", "produce", "validate"} => Clean(e)
    /\ c = "capture" => IF i < k THEN Taken(e) ELSE Clean(e)
    /\ c = "install" => IF i < k THEN Settled(t, e) ELSE Taken(e)
    /\ c = "committed" => Settled(t, e)
    /\ r = "published" => /\ ~e.rollback_pending /\ Good(e)
                          /\ e.unchanged => ~e.captured
    /\ c \in Aborting => (e.finished => Bare(e))
    /\ c = "check" /\ i = k => e.installed /\ e.rollback_pending
    /\ c = "discard" /\ i = k => Bare(e)
    /\ r = "aborted" => Bare(e)

\* How the end is recorded.
Ends(c, r) ==
    /\ c = "publish" => r = "published"
    /\ r # "none" => c \in {"publish", "ended", "crashed"}

\* What t has ended as, and every entry of it, agree with where it is.
Flags(t) ==
    /\ Ends(pc[t], outcome[t])
    /\ \A i \in 1..Len(ent[t]) : Flag(t, i, ent[t][i], pc[t], at[t], outcome[t])

\* The same after a step.
Flagged(t) ==
    /\ Ends(pc'[t], outcome'[t])
    /\ \A i \in 1..Len(ent'[t]) : Flag(t, i, ent'[t][i], pc'[t], at'[t], outcome'[t])

\* Two entries differ at most in how their record and their finish went.
Like(a, b) ==
    /\ a.name = b.name /\ a.expected = b.expected /\ a.bytes = b.bytes
    /\ a.fresh = b.fresh /\ a.tree = b.tree /\ a.stage = b.stage
    /\ a.unchanged = b.unchanged
    /\ a.captured = b.captured /\ a.capture_valid = b.capture_valid
    /\ a.previous = b.previous /\ a.installed = b.installed
    /\ a.rollback_pending = b.rollback_pending /\ a.rollback = b.rollback
    /\ a.finished = b.finished

\* Only the entry t works on changes.
Others(t) ==
    /\ ent' \in [Trans -> Seq(Entry)]
    /\ \A u \in Trans : Len(ent'[u]) = Len(ent[u])
    /\ \A u \in Trans : \A i \in 1..Len(ent[u]) :
         u # t \/ i # at[t] => Like(ent'[u][i], ent[u][i])

\* An entry like another has its flags.
LEMMA LikeFlag ==
  ASSUME NEW a \in Entry, NEW b \in Entry, Like(a, b), NEW t \in Trans,
         NEW i, NEW c, NEW k, NEW r
  PROVE  /\ Stat(t, a) <=> Stat(t, b)
         /\ Bare(a) <=> Bare(b)
         /\ Clean(a) <=> Clean(b)
         /\ Taken(a) <=> Taken(b)
         /\ Settled(t, a) <=> Settled(t, b)
         /\ Flag(t, i, a, c, k, r) <=> Flag(t, i, b, c, k, r)
<1>1. Good(a) <=> Good(b)
  BY DEF Like, Good
<1>2. Stat(t, a) <=> Stat(t, b)
  BY DEF Like, Stat
<1>3. Bare(a) <=> Bare(b)
  BY DEF Like, Bare
<1>7. Clean(a) <=> Clean(b)
  BY <1>3 DEF Like, Clean
<1>4. Taken(a) <=> Taken(b)
  BY <1>1 DEF Like, Taken
<1>5. Settled(t, a) <=> Settled(t, b)
  BY <1>1 DEF Like, Settled
<1>6. Flag(t, i, a, c, k, r) <=> Flag(t, i, b, c, k, r)
  BY <1>1, <1>2, <1>3, <1>4, <1>5, <1>7 DEF Like, Flag
<1> QED BY <1>2, <1>3, <1>4, <1>5, <1>6, <1>7

\* Whoever does not move keeps its flags.
LEMMA FlagsStay ==
  ASSUME Types, NEW t \in Trans, ent'[t] \in Seq(Entry), Flags(t),
         pc'[t] = pc[t], at'[t] = at[t], outcome'[t] = outcome[t],
         Len(ent'[t]) = Len(ent[t]),
         \A i \in 1..Len(ent[t]) : Like(ent'[t][i], ent[t][i])
  PROVE  Flagged(t)
<1>1. ASSUME NEW i \in 1..Len(ent'[t])
      PROVE  Flag(t, i, ent'[t][i], pc[t], at[t], outcome[t])
  <2>1. ent'[t][i] \in Entry /\ ent[t][i] \in Entry /\ i \in 1..Len(ent[t])
    BY LenIs
  <2>2. Flag(t, i, ent[t][i], pc[t], at[t], outcome[t])
    BY <2>1 DEF Flags
  <2> QED BY <2>1, <2>2, LikeFlag
<1> QED BY <1>1 DEF Flags, Flagged

\* An abort: nothing is finished yet.
LEMMA FlagsAbort ==
  ASSUME Types, NEW t \in Trans, ent'[t] \in Seq(Entry), Abort(t),
         \A i \in 1..Len(ent'[t]) :
           ~ent'[t][i].finished /\ Stat(t, ent'[t][i])
  PROVE  Flagged(t)
<1>1. /\ pc'[t] = IF ent'[t] = <<>> THEN "ended" ELSE "restore"
      /\ outcome'[t] = IF ent'[t] = <<>> THEN "aborted" ELSE "none"
  BY DEF Types, Abort
<1>2. Ends(pc'[t], outcome'[t])
  BY <1>1 DEF Ends
<1>3. CASE ent'[t] = <<>>
  <2>1. Len(ent'[t]) = 0
    BY <1>3
  <2> QED BY <1>2, <2>1 DEF Flagged
<1>4. CASE ent'[t] # <<>>
  BY <1>1, <1>2, <1>4 DEF Flagged, Flag, Aborting
<1> QED BY <1>3, <1>4

\* The next entry, or the next action of the commit.
LEMMA FlagsAdvance ==
  ASSUME Types, NEW t \in Trans, Phase(t), Flags(t), Others(t),
         pc[t] \in {"validate", "capture", "install"}, Advance(t),
         NEW x, x = ent'[t][at[t]], Stat(t, x), ~x.finished,
         pc[t] = "validate" => Clean(x), pc[t] = "capture" => Taken(x),
         pc[t] = "install" => Settled(t, x)
  PROVE  Flagged(t)
<1> DEFINE c == pc[t]
           k == at[t]
           l == Len(ent[t])
           last == k = l
<1>1. k \in 1..l /\ l \in Nat /\ Len(ent'[t]) = l /\ outcome[t] = "none"
      /\ k \in Nat
  BY DEF Phase, Types, Working, Others, Flags, Ends
<1>2. /\ pc'[t] = IF last THEN After(c) ELSE c
      /\ at'[t] = IF last THEN 1 ELSE k + 1
      /\ outcome'[t] = "none"
  BY <1>1 DEF Types, Advance
<1>3. ASSUME NEW i \in 1..l
      PROVE  /\ Stat(t, ent'[t][i])
             /\ c = "validate" => Clean(ent'[t][i])
             /\ c = "capture" => IF i <= k THEN Taken(ent'[t][i]) ELSE Clean(ent'[t][i])
             /\ c = "install" => IF i <= k THEN Settled(t, ent'[t][i])
                                 ELSE Taken(ent'[t][i])
  <2>1. CASE i = k
    BY <2>1
  <2>2. CASE i # k
    <3>1. /\ Like(ent'[t][i], ent[t][i]) /\ ent[t][i] \in Entry
          /\ ent'[t][i] \in Entry
      BY <2>2, LenIs DEF Others
    <3>2. Flag(t, i, ent[t][i], c, k, "none")
      BY <1>1 DEF Flags
    <3>3. i < k <=> i <= k
      BY <1>1, <2>2
    <3> HIDE DEF c, k, l
    <3> QED BY <3>1, <3>2, <3>3, LikeFlag DEF Flag
  <2> QED BY <2>1, <2>2
<1>4. c \in {"validate", "capture", "install"}
  OBVIOUS
<1> HIDE DEF c, k, l
<1>5. CASE ~last
  <2>1. pc'[t] = c /\ at'[t] = k + 1
    BY <1>2, <1>5
  <2>2. \A i \in 1..l : i < k + 1 <=> i <= k
    BY <1>1
  <2> QED BY <1>1, <1>2, <1>3, <1>4, <2>1, <2>2 DEF Flagged, Ends, Flag, Aborting
<1>6. CASE last
  <2>1. /\ at'[t] = 1
        /\ pc'[t] = CASE c = "validate" -> "capture" [] c = "capture" -> "install"
                      [] c = "install" -> "committed"
    BY <1>2, <1>6 DEF After
  <2>2. \A i \in 1..l : i <= k /\ ~(i < 1)
    BY <1>1, <1>6
  <2>3. CASE c = "validate"
    BY <1>1, <1>2, <1>3, <2>1, <2>2, <2>3 DEF Flagged, Ends, Flag, Aborting
  <2>4. CASE c = "capture"
    BY <1>1, <1>2, <1>3, <2>1, <2>2, <2>4 DEF Flagged, Ends, Flag, Aborting
  <2>5. CASE c = "install"
    BY <1>1, <1>2, <1>3, <2>1, <2>2, <2>5 DEF Flagged, Ends, Flag, Aborting
  <2> QED BY <1>4, <2>3, <2>4, <2>5
<1> QED BY <1>5, <1>6

\* What an entry of an aborting transaction has for certain.
AbortFlags(t, e) == Stat(t, e) /\ (e.finished => Bare(e))

\* An abort that leaves one entry as it should be leaves all of them so.
LEMMA AbortFlagsKept ==
  ASSUME Types, NEW t \in Trans, Flags(t), Others(t), pc[t] \in Aborting,
         AbortFlags(t, ent'[t][at[t]])
  PROVE  \A i \in 1..Len(ent[t]) : AbortFlags(t, ent'[t][i])
<1> SUFFICES ASSUME NEW i \in 1..Len(ent[t]), i # at[t]
             PROVE  AbortFlags(t, ent'[t][i])
  OBVIOUS
<1>1. /\ Like(ent'[t][i], ent[t][i]) /\ ent[t][i] \in Entry /\ ent'[t][i] \in Entry
      /\ ent'[t][i].finished = ent[t][i].finished
  BY LenIs DEF Others, Like
<1>2. Stat(t, ent[t][i]) /\ (ent[t][i].finished => Bare(ent[t][i]))
  BY DEF Flags, Flag
<1> QED BY <1>1, <1>2, LikeFlag DEF AbortFlags

\* The abort's loop: a pass without failure has finished every entry.
LEMMA FlagsNextEntry ==
  ASSUME Types, NEW t \in Trans, Phase(t), Flags(t), Others(t),
         pc[t] \in Aborting, NEW failed \in BOOLEAN, NextEntry(t, failed),
         failed \/ ent'[t][at[t]].finished, AbortFlags(t, ent'[t][at[t]])
  PROVE  Flagged(t)
<1> DEFINE bad == pass[t].failed \/ failed
           over == at[t] = 1
           again == over /\ bad /\ pass[t].number < MaxPasses
<1>1. at[t] \in 1..Len(ent[t]) /\ Len(ent[t]) \in Nat /\ Len(ent'[t]) = Len(ent[t])
      /\ outcome[t] = "none"
  BY DEF Phase, Types, Working, Others, Flags, Ends, Aborting
<1>2. /\ pc'[t] = IF over /\ ~again THEN "ended" ELSE "restore"
      /\ outcome'[t] = IF ~over \/ again THEN "none" ELSE IF bad THEN "kept" ELSE "aborted"
  BY <1>1 DEF NextEntry, Types
<1>3. \A i \in 1..Len(ent[t]) : AbortFlags(t, ent'[t][i])
  BY AbortFlagsKept
<1>4. over /\ ~bad => \A i \in 1..Len(ent[t]) : ent'[t][i].finished
  <2> SUFFICES ASSUME over, ~bad, NEW i \in 1..Len(ent[t])
               PROVE  ent'[t][i].finished
    OBVIOUS
  <2>1. CASE i = at[t]
    BY <2>1
  <2>2. CASE i # at[t]
    <3>1. i > at[t]
      BY <1>1, <2>2
    <3>2. ent[t][i].finished
      BY <3>1 DEF Phase
    <3> QED BY <2>2, <3>2 DEF Others, Like
  <2> QED BY <2>1, <2>2
<1> HIDE DEF bad
<1>5. CASE ~over \/ again
  BY <1>1, <1>2, <1>3, <1>5 DEF Flagged, Ends, Flag, AbortFlags, Aborting
<1>6. CASE over /\ ~again /\ bad
  BY <1>1, <1>2, <1>3, <1>6 DEF Flagged, Ends, Flag, AbortFlags, Aborting
<1>7. CASE over /\ ~again /\ ~bad
  BY <1>1, <1>2, <1>3, <1>4, <1>7 DEF Flagged, Ends, Flag, AbortFlags, Aborting
<1> QED BY <1>5, <1>6, <1>7

\* From one step of the abort to the next on the same entry.
LEMMA FlagsGo ==
  ASSUME Types, NEW t \in Trans, Phase(t), Flags(t), Others(t),
         pc[t] \in Aborting, NEW where \in Aborting, Go(t, where),
         NEW x, x = ent'[t][at[t]], AbortFlags(t, x),
         where = "check" => x.installed /\ x.rollback_pending,
         where = "discard" => Bare(x)
  PROVE  Flagged(t)
<1>1. Len(ent'[t]) = Len(ent[t]) /\ outcome[t] = "none"
  BY DEF Others, Flags, Ends, Aborting
<1>2. pc'[t] = where /\ outcome'[t] = "none" /\ at'[t] = at[t]
  BY <1>1 DEF Go, Types
<1>3. \A i \in 1..Len(ent[t]) : AbortFlags(t, ent'[t][i])
  BY AbortFlagsKept
<1> QED BY <1>1, <1>2, <1>3 DEF Flagged, Ends, Flag, AbortFlags, Aborting

\* What an entry of a published group has for certain.
OverFlags(t, e) ==
    /\ Stat(t, e) /\ ~e.rollback_pending /\ Good(e)
    /\ e.unchanged => ~e.captured

\* Finish of a committed group.
LEMMA FlagsPublished ==
  ASSUME Types, NEW t \in Trans, Flags(t), Others(t),
         pc[t] = "publish", NEW failed \in BOOLEAN, NextPublished(t, failed),
         OverFlags(t, ent'[t][at[t]])
  PROVE  Flagged(t)
<1>1. Len(ent'[t]) = Len(ent[t]) /\ outcome[t] = "published"
  BY DEF Others, Flags, Ends
<1>2. pc'[t] \in {"publish", "ended"} /\ outcome'[t] = "published"
  BY <1>1 DEF NextPublished, Types
<1>3. ASSUME NEW i \in 1..Len(ent[t]), i # at[t]
      PROVE  OverFlags(t, ent'[t][i])
  <2>1. /\ Like(ent'[t][i], ent[t][i]) /\ ent[t][i] \in Entry /\ ent'[t][i] \in Entry
    BY <1>3, LenIs DEF Others
  <2>2. OverFlags(t, ent[t][i])
    BY <1>1 DEF Flags, Flag, OverFlags
  <2>3. Good(ent'[t][i]) <=> Good(ent[t][i])
    BY <2>1 DEF Like, Good
  <2> QED BY <2>1, <2>2, <2>3, LikeFlag DEF OverFlags, Like
<1>4. \A i \in 1..Len(ent[t]) : OverFlags(t, ent'[t][i])
  BY <1>3
<1> QED BY <1>1, <1>2, <1>4 DEF Flagged, Ends, Flag, OverFlags, Aborting

\* The verdict on a committed group.
LEMMA FlagsDecide ==
  ASSUME Types, NEW t \in Trans, Phase(t), Flags(t), Decide(t)
  PROVE  Flagged(t)
<1>1. pc[t] = "committed" /\ ent' = ent /\ outcome[t] = "none"
      /\ \A i \in 1..Len(ent[t]) : ~ent[t][i].finished
  BY DEF Decide, Flags, Ends, Phase, Forward
<1>2. \A i \in 1..Len(ent[t]) : Stat(t, ent[t][i]) /\ Settled(t, ent[t][i])
  BY <1>1 DEF Flags, Flag
<1>3. CASE Abort(t)
  BY <1>1, <1>2, <1>3, FlagsAbort DEF Types
<1>4. CASE ~Abort(t)
  <2>1. pc'[t] = "publish" /\ outcome'[t] = "published"
    BY <1>1, <1>4 DEF Decide, Types
  <2> QED BY <1>1, <1>2, <2>1 DEF Flagged, Ends, Flag, Settled, Aborting
<1> QED BY <1>3, <1>4

\* Where the scene stays, what is so after a step is the invariant.
LEMMA FlagsThen ==
  ASSUME scene' = scene, NEW t \in Trans, Flagged(t)
  PROVE  Flags(t)'
<1>1. DeleteOnly' = DeleteOnly /\ Inputs' = Inputs
  BY DEF DeleteOnly, Inputs
<1>2. Ends(pc[t], outcome[t])'
  BY DEF Flagged, Ends
<1>3. ASSUME NEW i \in 1..Len(ent'[t])
      PROVE  Flag(t, i, ent[t][i], pc[t], at[t], outcome[t])'
  <2> DEFINE e == ent'[t][i]
  <2>1. Flag(t, i, e, pc'[t], at'[t], outcome'[t])
    BY DEF Flagged
  <2>2. /\ Stat(t, e) <=> Stat(t, ent[t][i])'
        /\ Settled(t, e) <=> Settled(t, ent[t][i])'
        /\ Taken(e) <=> Taken(ent[t][i])'
        /\ Good(e) <=> Good(ent[t][i])'
    BY <1>1 DEF Stat, Settled, Taken, Good, FreshOf, OldOf
  <2> QED BY <2>1, <2>2 DEF Flag, Bare, Clean
<1> QED BY <1>2, <1>3 DEF Flags

-----------------------------------------------------------------------------
\* What a step of t does to the entry e it works on, which becomes x, and to
\* the public name.

\* Who the entry is for, and what it saw.
Core(e, x) == x.name = e.name /\ x.expected = e.expected /\ x.bytes = e.bytes
Judged(e, x) == x.fresh = e.fresh /\ x.tree = e.tree /\ x.unchanged = e.unchanged

\* What it holds.
Held(e, x) == x.captured = e.captured /\ x.capture_valid = e.capture_valid
              /\ x.previous = e.previous
Rolled(e, x) == x.installed = e.installed /\ x.rollback_pending = e.rollback_pending
                /\ x.rollback = e.rollback

\* The step is not seen in the public names, or is there alone.
Unseen == UNCHANGED <<public, hands, doubled>>
Shows(t, n, o) ==
    public' = [public EXCEPT ![n] = o] /\ Touch(t, n) /\ doubled' = doubled

\* What a step of t may do to the entry it works on, e, which becomes x.

\* Nothing of it is seen.
Rests(t, e, x) == Judged(e, x) /\ Held(e, x) /\ Rolled(e, x) /\ x.stage = e.stage /\ Unseen

\* Validation finds what the tools wrote.
Judges(t, e, x) ==
    /\ pc[t] = "validate"
    /\ Held(e, x) /\ Rolled(e, x) /\ x.stage = e.stage /\ Unseen /\ Clean(e)

\* Action 1 takes the old version away from its name.
Takes(t, e, x) ==
    /\ Judged(e, x) /\ Rolled(e, x) /\ x.stage = e.stage /\ Clean(e)
    /\ public[e.name] # None /\ Shows(t, e.name, None)
    /\ x.captured /\ x.previous = public[e.name]
    /\ x.capture_valid => x.expected = x.previous /\ data[x.previous] = x.bytes

\* The old version is put back, by the capture that regrets it or by restore.
GivesBack(t, e, x) ==
    /\ Judged(e, x) /\ Rolled(e, x) /\ x.stage = e.stage
    /\ e.captured /\ ~e.installed /\ ~e.rollback_pending
    /\ public[e.name] = None /\ Shows(t, e.name, e.previous)
    /\ ~x.captured /\ x.capture_valid = e.capture_valid
    /\ x.previous \in {None, e.previous}

\* Action 2 installs the staged version.
Puts(t, e, x) ==
    /\ Judged(e, x) /\ Held(e, x)
    /\ pc[t] = "install" /\ ~e.unchanged /\ e.name \notin DeleteOnly[t]
    /\ e.captured \/ e.expected = None
    /\ ~e.installed /\ ~e.rollback_pending
    /\ public[e.name] = None /\ Shows(t, e.name, e.stage)
    /\ x.installed /\ ~x.rollback_pending /\ x.rollback = e.rollback
    /\ x.stage \in {None, e.stage}

\* A rollback finds the name empty.
Vanishes(t, e, x) ==
    /\ Judged(e, x) /\ Held(e, x) /\ x.stage = e.stage
    /\ e.installed /\ ~e.rollback_pending /\ public[e.name] = None /\ Unseen
    /\ ~x.installed /\ ~x.rollback_pending /\ x.rollback = e.rollback

\* A rollback takes what the name shows.
Catches(t, e, x) ==
    /\ Judged(e, x) /\ Held(e, x) /\ x.stage = e.stage
    /\ e.installed /\ ~e.rollback_pending /\ public[e.name] # None
    /\ x.installed /\ x.rollback_pending /\ x.rollback = public[e.name]
    /\ doubled' = doubled \cup ({public[e.name]} \cap {e.rollback})
    /\ public' = [public EXCEPT ![e.name] = IF e.rollback = @ THEN @ ELSE None]
    /\ Touch(t, e.name)

\* What it took is the staged version and is discarded,
Tosses(t, e, x) ==
    /\ pc[t] = "check" /\ Judged(e, x) /\ Held(e, x) /\ x.stage = e.stage /\ Unseen
    /\ e.installed /\ e.rollback_pending /\ RollbackOurs(e)
    /\ ~x.installed /\ ~x.rollback_pending /\ x.rollback = None

\* or is somebody else's and is put back.
Returns(t, e, x) ==
    /\ pc[t] = "check" /\ Judged(e, x) /\ Held(e, x) /\ x.stage = e.stage
    /\ e.installed /\ e.rollback_pending /\ e.rollback # e.fresh
    /\ public[e.name] = None /\ Shows(t, e.name, e.rollback)
    /\ x.installed /\ ~x.rollback_pending /\ x.rollback \in {None, e.rollback}

\* The entry is finished: what it still holds in its directory is removed.
Drops(t, e, x) ==
    /\ pc[t] \in {"discard", "publish"}
    /\ Judged(e, x) /\ Rolled(e, x) /\ Unseen
    /\ ~e.rollback_pending /\ x.capture_valid = e.capture_valid
    /\ Published(t) \/ Bare(e)
    /\ ~x.captured
    /\ x.previous = IF e.captured THEN None ELSE e.previous
    /\ x.stage \in {None, e.stage}
    /\ Discardable(e)

\* The moves of an active transaction.
Moved(t, e, x) ==
    \/ Judges(t, e, x) \/ Takes(t, e, x) \/ GivesBack(t, e, x) \/ Puts(t, e, x)
    \/ Vanishes(t, e, x) \/ Catches(t, e, x) \/ Tosses(t, e, x) \/ Returns(t, e, x)

\* Nothing is installed yet; the fresh version of entry i is not.
Early == {"open", "record", "produce", "validate", "capture"}
Ahead(t, i) ==
    \/ pc[t] \in Early
    \/ pc[t] = "install" /\ i >= at[t]

\* The tools have written entry i, and validation has seen it.
Produced(t, i) ==
    \/ pc[t] = "produce" /\ i < at[t]
    \/ pc[t] \in {"validate", "capture"}
    \/ pc[t] = "install" /\ i >= at[t]
Validated(t, i) ==
    \/ pc[t] = "validate" /\ i < at[t]
    \/ pc[t] = "capture"
    \/ pc[t] = "install" /\ i >= at[t]

\* What is installed has been produced.
LEMMA PutsProduced ==
  ASSUME NEW t, NEW e, NEW x, Puts(t, e, x), at[t] \in 1..Len(ent[t])
  PROVE  pc[t] = "install" /\ Produced(t, at[t])
<1>1. pc[t] = "install"
  BY DEF Puts
<1>2. at[t] >= at[t]
  OBVIOUS
<1> QED BY <1>1, <1>2 DEF Produced

\* Where the transactions go when one of them moves.
Control(t) ==
    /\ \A u \in Trans \ {t} :
         pc'[u] = pc[u] /\ at'[u] = at[u] /\ outcome'[u] = outcome[u]
    /\ outcome'[t] = "published" <=> outcome[t] = "published"
    /\ pc[t] # "crashed" /\ pc'[t] # "crashed"
    /\ pc'[t] \in Forward \cup Aborting => pc[t] \in Forward \cup Aborting
    /\ pc'[t] \in Early => pc[t] \in Early
    /\ pc'[t] = "record" =>
         pc[t] = "open" /\ at'[t] = at[t] /\ ~Reserved(t, Outputs[t][at[t]])
    /\ \A i \in 1..Len(ent[t]) :
         /\ Ahead(t, i)' => Ahead(t, i) /\ (pc[t] = "install" => i # at[t])
         /\ Produced(t, i)' => Produced(t, i) \/ (pc[t] = "produce" /\ i = at[t])
         /\ Validated(t, i)' => Validated(t, i) \/ (pc[t] = "validate" /\ i = at[t])

Moves(t) ==
    /\ at[t] \in 1..Len(ent[t]) /\ Now(t) \in Entry /\ ent'[t][at[t]] \in Entry
    /\ pc[t] # "produce"
    /\ Others(t) /\ Control(t) /\ UNCHANGED <<scene, data, made, dropped, saves>>
    /\ Core(Now(t), ent'[t][at[t]])
    /\ \/ Rests(t, Now(t), ent'[t][at[t]]) \/ Drops(t, Now(t), ent'[t][at[t]])
       \/ outcome[t] = "none" /\ Moved(t, Now(t), ent'[t][at[t]])

\* What is left of an abort.
LEMMA AbortControl ==
  ASSUME Types, NEW t \in Trans, Flags(t), pc[t] \in Forward, Abort(t)
  PROVE  Control(t)
<1>1. outcome[t] = "none"
  BY DEF Flags, Ends, Forward
<1>2. /\ pc'[t] \in {"ended", "restore"} /\ outcome'[t] # "published"
      /\ \A u \in Trans \ {t} :
           pc'[u] = pc[u] /\ at'[u] = at[u] /\ outcome'[u] = outcome[u]
  BY DEF Types, Abort
<1> QED BY <1>1, <1>2 DEF Control, Ahead, Early, Produced, Validated, Forward, Aborting

\* Each way of going on takes the places in their order.
LEMMA AdvanceControl ==
  ASSUME Types, NEW t \in Trans, Phase(t),
         pc[t] \in {"validate", "capture", "install"}, Advance(t)
  PROVE  Control(t)
<1> DEFINE last == at[t] = Len(ent[t])
<1>1. at[t] \in 1..Len(ent[t]) /\ Len(ent[t]) \in Nat
  BY LenIs DEF Phase, Working
<1>2. /\ pc'[t] = IF last THEN After(pc[t]) ELSE pc[t]
      /\ at'[t] = IF last THEN 1 ELSE at[t] + 1
      /\ outcome' = outcome
      /\ \A u \in Trans \ {t} : pc'[u] = pc[u] /\ at'[u] = at[u]
  BY DEF Types, Advance
<1>3. /\ pc'[t] \in {"validate", "capture", "install", "committed"}
      /\ pc[t] = "install" => pc'[t] = "committed" \/ at'[t] = at[t] + 1
  BY <1>2 DEF After
<1> QED BY <1>1, <1>2, <1>3 DEF Control, Ahead, Early, Produced, Validated, Forward, Aborting

LEMMA NextEntryControl ==
  ASSUME Types, NEW t \in Trans, Flags(t), pc[t] \in Aborting,
         NEW failed, NextEntry(t, failed)
  PROVE  Control(t)
<1>1. outcome[t] = "none"
  BY DEF Flags, Ends, Aborting
<1>2. /\ pc'[t] \in {"ended", "restore"} /\ outcome'[t] # "published"
      /\ \A u \in Trans \ {t} :
           pc'[u] = pc[u] /\ at'[u] = at[u] /\ outcome'[u] = outcome[u]
  BY <1>1 DEF Types, NextEntry
<1> QED BY <1>1, <1>2 DEF Control, Ahead, Early, Produced, Validated, Forward, Aborting

LEMMA NextPublishedControl ==
  ASSUME Types, NEW t \in Trans, pc[t] = "publish",
         NEW failed, NextPublished(t, failed)
  PROVE  Control(t)
<1>1. /\ pc'[t] \in {"ended", "publish"} /\ outcome' = outcome
      /\ \A u \in Trans \ {t} : pc'[u] = pc[u] /\ at'[u] = at[u]
  BY DEF Types, NextPublished
<1> QED BY <1>1 DEF Control, Ahead, Early, Produced, Validated, Forward, Aborting

LEMMA GoControl ==
  ASSUME Types, NEW t \in Trans, pc[t] \in Aborting, NEW where \in Aborting, Go(t, where)
  PROVE  Control(t)
<1>1. /\ pc'[t] = where /\ outcome' = outcome /\ at' = at
      /\ \A u \in Trans \ {t} : pc'[u] = pc[u]
  BY DEF Types, Go
<1> QED BY <1>1 DEF Control, Ahead, Early, Produced, Validated, Forward, Aborting

\* An update touches one entry, and so does leaving them.
LEMMA OneChanges ==
  ASSUME Types, NEW t \in Trans, at[t] \in 1..Len(ent[t]),
         NEW e, (e = Now(t) /\ ent' = ent) \/ (e \in Entry /\ Update(t, e))
  PROVE  Others(t) /\ ent'[t][at[t]] = e /\ e \in Entry /\ Now(t) \in Entry
         /\ ent'[t] \in Seq(Entry)
<1>1. \A u \in Trans : \A i \in 1..Len(ent[u]) : Like(ent[u][i], ent[u][i])
  BY DEF Like
<1>2. Now(t) \in Entry
  BY LenIs DEF Now
<1>3. CASE e = Now(t) /\ ent' = ent
  BY <1>1, <1>2, <1>3 DEF Others, Types, Now
<1>4. CASE e \in Entry /\ Update(t, e)
  <2>1. Updated(t, e)
    BY <1>4, UpdateStep DEF Types
  <2>2. \A u \in Trans : \A i \in 1..Len(ent[u]) :
          u # t \/ i # at[t] => ent'[u][i] = ent[u][i]
    BY <2>1 DEF Updated
  <2> QED BY <1>1, <1>2, <1>4, <2>1, <2>2 DEF Others, Updated
<1> QED BY <1>3, <1>4

\* An abort of a transaction that works on an entry.
LEMMA AbortFlagged ==
  ASSUME Types, NEW t \in Trans, Phase(t), Flags(t), pc[t] \in Forward \cap Working,
         Others(t), Abort(t), Stat(t, ent'[t][at[t]]), ~ent'[t][at[t]].finished
  PROVE  Flagged(t)
<1>1. ASSUME NEW i \in 1..Len(ent'[t])
      PROVE  ~ent'[t][i].finished /\ Stat(t, ent'[t][i])
  <2>1. i \in 1..Len(ent[t])
    BY DEF Others
  <2>2. CASE i = at[t]
    BY <2>2
  <2>3. CASE i # at[t]
    <3>1. Like(ent'[t][i], ent[t][i]) /\ ent'[t][i] \in Entry /\ ent[t][i] \in Entry
      BY <2>1, <2>3, LenIs DEF Others
    <3>2. Stat(t, ent[t][i]) /\ ~ent[t][i].finished
      BY <2>1 DEF Flags, Flag, Phase
    <3>3. ent'[t][i].finished = ent[t][i].finished
      BY <3>1 DEF Like
    <3> QED BY <3>1, <3>2, <3>3, LikeFlag
  <2> QED BY <2>2, <2>3
<1> QED BY <1>1, FlagsAbort DEF Others

\* Nothing but the place of t changes.
LEMMA RestsIs ==
  ASSUME Types, NEW t \in Trans, Unseen
  PROVE  Rests(t, Now(t), Now(t)) /\ Core(Now(t), Now(t))
BY DEF Rests, Judged, Held, Rolled, Core

\* A cancelled step.
LEMMA CancelledMoves ==
  ASSUME Types, NEW t \in Trans, Phase(t), Flags(t), Cancelled(t)
  PROVE  Moves(t) /\ Flagged(t)
<1>1. /\ pc[t] \in {"validate", "capture", "install"} /\ ent' = ent /\ Abort(t)
      /\ Unseen /\ UNCHANGED <<scene, data, made, dropped, saves>>
  BY DEF Cancelled, Unseen
<1>2. pc[t] \in Forward /\ pc[t] \in Working
  BY <1>1 DEF Forward, Working
<1>3. at[t] \in 1..Len(ent[t]) /\ ~Now(t).finished /\ Now(t) \in Entry
  BY <1>2, NowIs
<1>4. Others(t) /\ ent'[t][at[t]] = Now(t)
  BY <1>1, <1>3, OneChanges
<1>5. Control(t)
  BY <1>1, <1>2, AbortControl
<1>6. Stat(t, Now(t))
  BY <1>3 DEF Flags, Flag, Now
<1>7. Flagged(t)
  BY <1>1, <1>2, <1>3, <1>4, <1>6, AbortFlagged
<1> QED BY <1>1, <1>3, <1>4, <1>5, <1>7, RestsIs DEF Moves

\* What a validated entry is.
LEMMA SeenIs ==
  ASSUME NEW e \in Entry, NEW x \in Entry, NEW t \in Trans, Stat(t, e), Clean(e),
         ~e.finished, x.finished = e.finished, x.stage = e.stage,
         Core(e, x), Held(e, x), Rolled(e, x),
         x.unchanged => e.unchanged \/ (e.expected # None /\ e.name \notin DeleteOnly[t])
  PROVE  Stat(t, x) /\ Clean(x) /\ ~x.finished
BY DEF Core, Held, Rolled, Stat, Clean, Bare

\* Validation.
LEMMA ValidateMoves ==
  ASSUME Types, NEW t \in Trans, Phase(t), Flags(t), Validate(t)
  PROVE  Moves(t) /\ Flagged(t)
<1> DEFINE e == Now(t)
           d == IF e.stage = None THEN None ELSE data[e.stage]
           tree == IF d # None /\ d.kind = "dir" THEN d ELSE None
           b == e.bytes # None /\ e.bytes = d
<1>1. /\ pc[t] = "validate" /\ pc[t] \in Forward /\ pc[t] \in Working
      /\ Unseen /\ UNCHANGED <<scene, data, made, dropped, saves>>
  BY DEF Validate, Going, Unseen, Forward, Working
<1>2. at[t] \in 1..Len(ent[t]) /\ ~e.finished /\ e \in Entry
  BY <1>1, NowIs
<1>3. Stat(t, e) /\ Clean(e) /\ outcome[t] = "none"
  BY <1>1, <1>2 DEF Flags, Flag, Now, Ends
<1>4. e.stage \in Place /\ d \in Data \cup {None} /\ tree \in Data \cup {None} /\ b \in BOOLEAN
  BY <1>2 DEF Entry, Types, Place
<1>5. b => e.expected # None
  BY <1>3 DEF Stat
<1>6. \/ ent' = ent /\ (Abort(t) \/ Advance(t))
      \/ /\ e.name \notin DeleteOnly[t]
         /\ Update(t, [e EXCEPT !.fresh = e.stage, !.tree = tree, !.unchanged = b])
         /\ Advance(t)
      \/ Update(t, [e EXCEPT !.fresh = e.stage, !.tree = tree]) /\ Abort(t)
      \/ Update(t, [e EXCEPT !.fresh = e.stage]) /\ Abort(t)
  BY DEF Validate
<1> HIDE DEF e, d, tree, b
<1>7. PICK x : /\ Others(t) /\ x = ent'[t][at[t]] /\ x \in Entry
               /\ Stat(t, x) /\ Clean(x) /\ ~x.finished
               /\ Core(e, x) /\ Held(e, x) /\ Rolled(e, x) /\ x.stage = e.stage
               /\ Abort(t) \/ Advance(t)
  <2>1. CASE ent' = ent /\ (Abort(t) \/ Advance(t))
    <3>1. Others(t) /\ ent'[t][at[t]] = Now(t)
      BY <1>2, <2>1, OneChanges
    <3> QED BY <1>2, <1>3, <2>1, <3>1 DEF e, Core, Held, Rolled
  <2>2. CASE /\ e.name \notin DeleteOnly[t]
             /\ Update(t, [e EXCEPT !.fresh = e.stage, !.tree = tree, !.unchanged = b])
             /\ Advance(t)
    <3> DEFINE x == [e EXCEPT !.fresh = e.stage, !.tree = tree, !.unchanged = b]
    <3>2. Update(t, x)
      BY <2>2
    <3>5. x \in Entry
      BY <1>2, <1>4 DEF Entry
    <3>4. /\ x \in Entry /\ x.finished = e.finished /\ x.stage = e.stage
          /\ Core(e, x) /\ Held(e, x) /\ Rolled(e, x)
          /\ x.unchanged => e.unchanged \/ (e.expected # None /\ e.name \notin DeleteOnly[t])
      BY <1>2, <1>4, <3>5, <1>5, <2>2 DEF Entry, Core, Held, Rolled
    <3> HIDE DEF x
    <3>1. Stat(t, x) /\ Clean(x) /\ ~x.finished
      BY <1>2, <1>3, <3>4, SeenIs
    <3>3. Others(t) /\ ent'[t][at[t]] = x
      BY <1>2, <3>4, <3>2, OneChanges
    <3> QED BY <2>2, <3>1, <3>3, <3>4
  <2>3. CASE Update(t, [e EXCEPT !.fresh = e.stage, !.tree = tree]) /\ Abort(t)
    <3> DEFINE x == [e EXCEPT !.fresh = e.stage, !.tree = tree]
    <3>2. Update(t, x)
      BY <2>3
    <3>5. x \in Entry
      BY <1>2, <1>4 DEF Entry
    <3>4. /\ x \in Entry /\ x.finished = e.finished /\ x.stage = e.stage
          /\ Core(e, x) /\ Held(e, x) /\ Rolled(e, x)
          /\ x.unchanged => e.unchanged \/ (e.expected # None /\ e.name \notin DeleteOnly[t])
      BY <1>2, <1>4, <3>5 DEF Entry, Core, Held, Rolled
    <3> HIDE DEF x
    <3>1. Stat(t, x) /\ Clean(x) /\ ~x.finished
      BY <1>2, <1>3, <3>4, SeenIs
    <3>3. Others(t) /\ ent'[t][at[t]] = x
      BY <1>2, <3>4, <3>2, OneChanges
    <3> QED BY <2>3, <3>1, <3>3, <3>4
  <2>4. CASE Update(t, [e EXCEPT !.fresh = e.stage]) /\ Abort(t)
    <3> DEFINE x == [e EXCEPT !.fresh = e.stage]
    <3>2. Update(t, x)
      BY <2>4
    <3>5. x \in Entry
      BY <1>2, <1>4 DEF Entry
    <3>4. /\ x \in Entry /\ x.finished = e.finished /\ x.stage = e.stage
          /\ Core(e, x) /\ Held(e, x) /\ Rolled(e, x)
          /\ x.unchanged => e.unchanged \/ (e.expected # None /\ e.name \notin DeleteOnly[t])
      BY <1>2, <1>4, <3>5 DEF Entry, Core, Held, Rolled
    <3> HIDE DEF x
    <3>1. Stat(t, x) /\ Clean(x) /\ ~x.finished
      BY <1>2, <1>3, <3>4, SeenIs
    <3>3. Others(t) /\ ent'[t][at[t]] = x
      BY <1>2, <3>4, <3>2, OneChanges
    <3> QED BY <2>4, <3>1, <3>3, <3>4
  <2> QED BY <1>6, <2>1, <2>2, <2>3, <2>4
<1>8. CASE Abort(t)
  <2>1. Control(t)
    BY <1>1, <1>8, AbortControl
  <2>2. Flagged(t)
    BY <1>1, <1>7, <1>8, AbortFlagged
  <2> QED BY <1>1, <1>2, <1>3, <1>7, <2>1, <2>2 DEF Moves, Moved, Judges, e
<1>9. CASE Advance(t)
  <2>1. Control(t)
    BY <1>1, <1>9, AdvanceControl
  <2>2. Flagged(t)
    BY <1>1, <1>7, <1>9, FlagsAdvance
  <2> QED BY <1>1, <1>2, <1>3, <1>7, <2>1, <2>2 DEF Moves, Moved, Judges, e
<1> QED BY <1>7, <1>8, <1>9

\* The capture.
LEMMA CaptureMoves ==
  ASSUME Types, NEW t \in Trans, Phase(t), Flags(t), Capture(t)
  PROVE  Moves(t) /\ Flagged(t)
<1> DEFINE e == Now(t)
           n == e.name
           caught == [e EXCEPT !.captured = TRUE, !.previous = public[n]]
           good == [caught EXCEPT !.capture_valid = TRUE]
<1>1. /\ pc[t] = "capture" /\ pc[t] \in Forward /\ pc[t] \in Working
      /\ doubled' = doubled /\ UNCHANGED <<scene, data, made, dropped, saves>>
  BY DEF Capture, Going, Forward, Working
<1>2. at[t] \in 1..Len(ent[t]) /\ ~e.finished /\ e \in Entry /\ n \in Names
  BY <1>1, NowIs
<1>3. Stat(t, e) /\ Clean(e) /\ outcome[t] = "none"
  BY <1>1, <1>2, LenIs DEF Flags, Flag, Now, Ends
<1>4. public[n] \in Place /\ public[n] = public[e.name]
  BY <1>2 DEF Types
<1>5. \/ /\ UNCHANGED <<public, ent, hands>>
         /\ Abort(t) \/ (e.expected = None /\ Advance(t))
      \/ /\ public[n] # None /\ public' = [public EXCEPT ![n] = None] /\ Touch(t, n)
         /\ \/ CaptureGood(caught) /\ Update(t, good) /\ Advance(t)
            \/ ~CaptureGood(caught) /\ Update(t, caught) /\ Abort(t)
  BY DEF Capture
<1> HIDE DEF n, e
<1>6. CASE /\ UNCHANGED <<public, ent, hands>>
           /\ Abort(t) \/ (e.expected = None /\ Advance(t))
  <2>1. Others(t) /\ ent'[t][at[t]] = e
    BY <1>2, <1>6, OneChanges DEF e
  <2>2. Rests(t, Now(t), e) /\ Core(Now(t), e)
    BY <1>1, <1>6, RestsIs DEF Unseen, e
  <2>3. CASE Abort(t)
    <3>1. Flagged(t)
      BY <1>1, <1>2, <1>3, <2>1, <2>3, AbortFlagged
    <3>2. Control(t)
      BY <1>1, <2>3, AbortControl
    <3> QED BY <1>1, <1>2, <2>1, <2>2, <3>1, <3>2 DEF Moves, e
  <2>4. CASE e.expected = None /\ Advance(t)
    <3>1. Taken(e)
      BY <1>3, <2>4 DEF Taken, Clean, Bare, Good
    <3>2. Flagged(t)
      BY <1>1, <1>2, <1>3, <2>1, <2>4, <3>1, FlagsAdvance
    <3>3. Control(t)
      BY <1>1, <2>4, AdvanceControl
    <3> QED BY <1>1, <1>2, <2>1, <2>2, <3>2, <3>3 DEF Moves, e
  <2> QED BY <1>6, <2>3, <2>4
<1>7. CASE /\ public[n] # None /\ public' = [public EXCEPT ![n] = None] /\ Touch(t, n)
           /\ \/ CaptureGood(caught) /\ Update(t, good) /\ Advance(t)
              \/ ~CaptureGood(caught) /\ Update(t, caught) /\ Abort(t)
  <2>1. \A x \in {caught, good} :
          /\ x \in Entry /\ x.name = e.name /\ x.expected = e.expected
          /\ x.bytes = e.bytes /\ x.fresh = e.fresh /\ x.tree = e.tree
          /\ x.unchanged = e.unchanged /\ x.stage = e.stage
          /\ x.installed = e.installed /\ x.rollback_pending = e.rollback_pending
          /\ x.rollback = e.rollback /\ x.finished = e.finished
          /\ x.captured /\ x.previous = public[n]
    BY ZenonT(120), <1>2, <1>4 DEF Entry
  <2>2. ~caught.capture_valid /\ good.capture_valid
    BY <1>2, <1>3 DEF Entry, Clean
  <2>3. CaptureGood(caught) => /\ e.expected # None /\ public[n] = e.expected
                               /\ data[public[n]] = e.bytes
                               /\ \A m \in Inputs : public[n] # OldOf(m)
    BY <2>1 DEF CaptureGood
  <2> HIDE DEF caught, good
  <2>4. PICK x : /\ x \in {caught, good} /\ Update(t, x)
                 /\ x.capture_valid => CaptureGood(caught)
                 /\ Abort(t) \/ (x.capture_valid /\ Advance(t))
    BY <1>7, <2>2
  <2>5. Others(t) /\ ent'[t][at[t]] = x /\ x \in Entry
    BY <1>2, <2>1, <2>4, OneChanges
  <2>6. Core(e, x) /\ Takes(t, e, x)
    BY <1>1, <1>3, <1>4, <1>7, <2>1, <2>2, <2>3, <2>4
       DEF Core, Takes, Judged, Rolled, Shows, n
  <2>7. Stat(t, x) /\ ~x.finished
    BY <1>2, <1>3, <2>1, <2>4 DEF Stat
  <2>8. CASE Abort(t)
    <3>1. Flagged(t)
      BY <1>1, <1>2, <2>5, <2>7, <2>8, AbortFlagged
    <3>2. Control(t)
      BY <1>1, <2>8, AbortControl
    <3> QED BY <1>1, <1>2, <1>3, <2>5, <2>6, <3>1, <3>2 DEF Moves, Moved, e
  <2>9. CASE x.capture_valid /\ Advance(t)
    <3>1. Taken(x)
      BY <1>3, <2>1, <2>3, <2>4, <2>9 DEF Taken, Clean, Bare, Good
    <3>2. Flagged(t)
      BY <1>1, <1>2, <2>5, <2>7, <2>9, <3>1, FlagsAdvance
    <3>3. Control(t)
      BY <1>1, <2>9, AdvanceControl
    <3> QED BY <1>1, <1>2, <1>3, <2>5, <2>6, <3>2, <3>3 DEF Moves, Moved, e
  <2> QED BY <2>4, <2>8, <2>9
<1> QED BY <1>5, <1>6, <1>7

\* What is not refused finds the name free.
LEMMA NoReplaceIs ==
  ASSUME NEW n \in Names, NEW o, NEW how \in NoReplace(n, o), how # "failed"
  PROVE  public[n] = None /\ Left(how, o) \in {None, o}
BY SMTT(60) DEF NoReplace, Left

\* The installation.
LEMMA InstallMoves ==
  ASSUME Types, NEW t \in Trans, Phase(t), Flags(t), Install(t)
  PROVE  Moves(t) /\ Flagged(t)
<1> DEFINE e == Now(t)
           n == e.name
           o == IF e.unchanged THEN e.previous ELSE e.stage
           back(how) == [e EXCEPT !.captured = FALSE, !.previous = Left(how, o)]
           put(how) == [e EXCEPT !.installed = TRUE, !.stage = Left(how, o)]
<1>1. /\ pc[t] = "install" /\ pc[t] \in Forward /\ pc[t] \in Working
      /\ doubled' = doubled /\ UNCHANGED <<scene, data, made, dropped, saves>>
  BY DEF Install, Going, Forward, Working
<1>2. at[t] \in 1..Len(ent[t]) /\ ~e.finished /\ e \in Entry /\ n \in Names
  BY <1>1, NowIs
<1>3. Stat(t, e) /\ Taken(e) /\ outcome[t] = "none"
  BY <1>1, <1>2, LenIs DEF Flags, Flag, Now, Ends
<1>4. o \in Place
  BY SMTT(60), <1>2 DEF Entry
<1>5. \/ /\ UNCHANGED <<public, ent, hands>>
         /\ Abort(t) \/ (n \in DeleteOnly[t] /\ Advance(t))
      \/ /\ n \notin DeleteOnly[t]
         /\ \E how \in NoReplace(n, o) :
              /\ how # "failed" /\ public' = [public EXCEPT ![n] = o] /\ Touch(t, n)
              /\ \/ e.unchanged /\ Update(t, back(how)) /\ Advance(t)
                 \/ ~e.unchanged /\ Update(t, put(how)) /\ (Advance(t) \/ Abort(t))
  BY ZenonT(120) DEF Install
<1> HIDE DEF n, e
<1>6. CASE /\ UNCHANGED <<public, ent, hands>>
           /\ Abort(t) \/ (n \in DeleteOnly[t] /\ Advance(t))
  <2>1. Others(t) /\ ent'[t][at[t]] = e
    BY <1>2, <1>6, OneChanges DEF e
  <2>2. Rests(t, Now(t), e) /\ Core(Now(t), e)
    BY <1>1, <1>6, RestsIs DEF Unseen, e
  <2>3. CASE Abort(t)
    <3>1. Flagged(t)
      BY <1>1, <1>2, <1>3, <2>1, <2>3, AbortFlagged
    <3>2. Control(t)
      BY <1>1, <2>3, AbortControl
    <3> QED BY <1>1, <1>2, <2>1, <2>2, <3>1, <3>2 DEF Moves, e
  <2>4. CASE n \in DeleteOnly[t] /\ Advance(t)
    <3>1. Settled(t, e)
      BY <1>3, <2>4 DEF Taken, Settled, Stat, n
    <3>2. Flagged(t)
      BY <1>1, <1>2, <1>3, <2>1, <2>4, <3>1, FlagsAdvance
    <3>3. Control(t)
      BY <1>1, <2>4, AdvanceControl
    <3> QED BY <1>1, <1>2, <2>1, <2>2, <3>2, <3>3 DEF Moves, e
  <2> QED BY <1>6, <2>3, <2>4
<1>7. ASSUME n \notin DeleteOnly[t], NEW how \in NoReplace(n, o), how # "failed",
             public' = [public EXCEPT ![n] = o], Touch(t, n),
             \/ e.unchanged /\ Update(t, back(how)) /\ Advance(t)
             \/ ~e.unchanged /\ Update(t, put(how)) /\ (Advance(t) \/ Abort(t))
      PROVE  Moves(t) /\ Flagged(t)
  <2>1. public[n] = None /\ Left(how, o) \in {None, o} /\ Left(how, o) \in Place
    BY <1>2, <1>4, <1>7, NoReplaceIs DEF Place
  <2> DEFINE left == Left(how, o)
  <2> HIDE DEF left
  <2>2. CASE e.unchanged /\ Update(t, back(how)) /\ Advance(t)
    <3> DEFINE x == back(how)
    <3>1. /\ x \in Entry /\ x.name = e.name /\ x.expected = e.expected
          /\ x.bytes = e.bytes /\ x.fresh = e.fresh /\ x.tree = e.tree
          /\ x.unchanged = e.unchanged /\ x.stage = e.stage
          /\ x.installed = e.installed /\ x.rollback_pending = e.rollback_pending
          /\ x.rollback = e.rollback /\ x.finished = e.finished
          /\ ~x.captured /\ x.previous \in {None, o} /\ x.capture_valid = e.capture_valid
      BY <1>2, <2>1 DEF Entry
    <3>2. Update(t, x) /\ o = e.previous
      BY <2>2
    <3> HIDE DEF x, back, put, o
    <3>3. Others(t) /\ ent'[t][at[t]] = x
      BY <1>2, <3>1, <3>2, OneChanges
    <3>4. e.captured /\ e.expected # None
      BY <1>3, <2>2 DEF Taken, Stat
    <3>5. Core(e, x) /\ GivesBack(t, e, x)
      BY <1>1, <1>3, <1>7, <2>1, <3>1, <3>2, <3>4
         DEF Core, GivesBack, Judged, Rolled, Shows, n, Taken
    <3>6. Stat(t, x) /\ Settled(t, x) /\ ~x.finished
      BY <1>2, <1>3, <2>2, <3>1 DEF Stat, Settled, Taken, Good
    <3>7. Flagged(t)
      BY <1>1, <1>2, <2>2, <3>3, <3>6, FlagsAdvance
    <3>8. Control(t)
      BY <1>1, <2>2, AdvanceControl
    <3> QED BY <1>1, <1>2, <1>3, <3>1, <3>3, <3>5, <3>7, <3>8 DEF Moves, Moved, e
  <2>3. CASE ~e.unchanged /\ Update(t, put(how)) /\ (Advance(t) \/ Abort(t))
    <3> DEFINE x == put(how)
    <3>1. /\ x \in Entry /\ x.name = e.name /\ x.expected = e.expected
          /\ x.bytes = e.bytes /\ x.fresh = e.fresh /\ x.tree = e.tree
          /\ x.unchanged = e.unchanged /\ x.stage \in {None, o}
          /\ x.installed /\ x.rollback_pending = e.rollback_pending
          /\ x.rollback = e.rollback /\ x.finished = e.finished
          /\ x.captured = e.captured /\ x.previous = e.previous
          /\ x.capture_valid = e.capture_valid
      BY <1>2, <2>1 DEF Entry
    <3>2. Update(t, x) /\ o = e.stage
      BY <2>3
    <3> HIDE DEF x, back, put, o
    <3>3. Others(t) /\ ent'[t][at[t]] = x
      BY <1>2, <3>1, <3>2, OneChanges
    <3>5. Core(e, x) /\ Puts(t, e, x)
      BY <1>1, <1>3, <1>7, <2>1, <2>3, <3>1, <3>2
         DEF Core, Puts, Judged, Held, Shows, n, Taken
    <3>6. Stat(t, x) /\ Settled(t, x) /\ ~x.finished
      BY <1>2, <1>3, <1>7, <2>3, <3>1, <3>2 DEF Stat, Settled, Taken, Good, n
    <3>7. CASE Advance(t)
      <4>1. Flagged(t)
        BY <1>1, <1>2, <3>7, <3>3, <3>6, FlagsAdvance
      <4>2. Control(t)
        BY <1>1, <3>7, AdvanceControl
      <4> QED BY <1>1, <1>2, <1>3, <3>1, <3>3, <3>5, <4>1, <4>2 DEF Moves, Moved, e
    <3>8. CASE Abort(t)
      <4>1. Flagged(t)
        BY <1>1, <1>2, <3>8, <3>3, <3>6, AbortFlagged
      <4>2. Control(t)
        BY <1>1, <3>8, AbortControl
      <4> QED BY <1>1, <1>2, <1>3, <3>1, <3>3, <3>5, <4>1, <4>2 DEF Moves, Moved, e
    <3> QED BY <2>3, <3>7, <3>8
  <2> QED BY <1>7, <2>2, <2>3
<1> QED BY ZenonT(120), <1>5, <1>6, <1>7

\* A failing restoration.
LEMMA FailsFlagged ==
  ASSUME Types, NEW t \in Trans, Phase(t), Flags(t), Others(t),
         pc[t] \in Aborting, RestoreFails(t), AbortFlags(t, ent'[t][at[t]])
  PROVE  Flagged(t) /\ Control(t)
<1>1. NextEntry(t, TRUE)
  BY DEF RestoreFails
<1>2. Flagged(t)
  BY <1>1, FlagsNextEntry
<1>3. Control(t)
  BY <1>1, NextEntryControl
<1> QED BY <1>2, <1>3

\* What is at the public name is caught.
LEMMA RollbackCaptureMoves ==
  ASSUME Types, NEW t \in Trans, Phase(t), Flags(t), RollbackCapture(t)
  PROVE  Moves(t) /\ Flagged(t)
<1> DEFINE e == Now(t)
           n == e.name
           gone == [e EXCEPT !.installed = FALSE]
           caught == [e EXCEPT !.rollback = public[n], !.rollback_pending = TRUE]
<1>1. /\ pc[t] = "restore" /\ pc[t] \in Aborting /\ pc[t] \in Working
      /\ UNCHANGED <<scene, data, made, dropped, saves>>
  BY DEF RollbackCapture, Aborting, Working
<1>2. at[t] \in 1..Len(ent[t]) /\ e \in Entry /\ n \in Names
  BY <1>1, NowIs
<1>3. Stat(t, e) /\ outcome[t] = "none"
  BY <1>1, <1>2, LenIs DEF Flags, Flag, Now, Ends
<1>4. public[n] \in Place
  BY <1>2 DEF Types
<1>5. e.installed /\ ~e.rollback_pending /\ ~e.finished
  BY DEF RollbackCapture
<1>6. \/ /\ public[n] = None /\ Update(t, gone) /\ Unseen /\ Go(t, "restore")
      \/ /\ public[n] # None /\ Update(t, caught) /\ Touch(t, n) /\ Go(t, "check")
         /\ doubled' = doubled \cup ({public[n]} \cap {e.rollback})
         /\ public' = [public EXCEPT ![n] = IF e.rollback = @ THEN @ ELSE None]
      \/ ent' = ent /\ Unseen /\ RestoreFails(t)
  BY DEF RollbackCapture, Unseen
<1>7. /\ gone \in Entry /\ caught \in Entry
      /\ ~gone.installed /\ ~gone.rollback_pending /\ gone.rollback = e.rollback
      /\ caught.installed /\ caught.rollback_pending /\ caught.rollback = public[n]
      /\ \A x \in {gone, caught} :
           /\ x.name = e.name /\ x.expected = e.expected
           /\ x.bytes = e.bytes /\ x.fresh = e.fresh /\ x.tree = e.tree
           /\ x.unchanged = e.unchanged /\ x.stage = e.stage
           /\ x.captured = e.captured /\ x.previous = e.previous
           /\ x.capture_valid = e.capture_valid /\ x.finished = e.finished
  BY <1>2, <1>4, <1>5 DEF Entry
<1> HIDE DEF n, e, gone, caught
<1>8. AbortFlags(t, e) /\ AbortFlags(t, gone) /\ AbortFlags(t, caught)
  BY <1>3, <1>5, <1>7 DEF AbortFlags, Stat
<1>9. CASE public[n] = None /\ Update(t, gone) /\ Unseen /\ Go(t, "restore")
  <2>1. Others(t) /\ ent'[t][at[t]] = gone
    BY <1>2, <1>7, <1>9, OneChanges
  <2>2. Core(e, gone) /\ Vanishes(t, e, gone)
    BY <1>5, <1>7, <1>9 DEF Core, Vanishes, Judged, Held, n
  <2>3. Control(t) /\ Flagged(t)
    BY <1>1, <1>8, <1>9, <2>1, GoControl, FlagsGo DEF Aborting
  <2> QED BY <1>1, <1>2, <1>3, <1>7, <2>1, <2>2, <2>3 DEF Moves, Moved, e
<1>10. CASE /\ public[n] # None /\ Update(t, caught) /\ Touch(t, n) /\ Go(t, "check")
            /\ doubled' = doubled \cup ({public[n]} \cap {e.rollback})
            /\ public' = [public EXCEPT ![n] = IF e.rollback = @ THEN @ ELSE None]
  <2>1. Others(t) /\ ent'[t][at[t]] = caught
    BY <1>2, <1>7, <1>10, OneChanges
  <2>2. Core(e, caught) /\ Catches(t, e, caught)
    BY <1>5, <1>7, <1>10 DEF Core, Catches, Judged, Held, n
  <2>3. Control(t) /\ Flagged(t)
    BY <1>1, <1>7, <1>8, <1>10, <2>1, GoControl, FlagsGo DEF Aborting
  <2> QED BY <1>1, <1>2, <1>3, <1>7, <2>1, <2>2, <2>3 DEF Moves, Moved, e
<1>11. CASE ent' = ent /\ Unseen /\ RestoreFails(t)
  <2>1. Others(t) /\ ent'[t][at[t]] = e
    BY <1>2, <1>11, OneChanges DEF e
  <2>2. Rests(t, Now(t), e) /\ Core(Now(t), e)
    BY <1>1, <1>11, RestsIs DEF e
  <2>3. Control(t) /\ Flagged(t)
    BY <1>1, <1>8, <1>11, <2>1, FailsFlagged
  <2> QED BY <1>1, <1>2, <1>3, <2>1, <2>2, <2>3 DEF Moves, e
<1> QED BY <1>6, <1>9, <1>10, <1>11

\* What was caught is judged.
LEMMA RollbackCheckMoves ==
  ASSUME Types, NEW t \in Trans, Phase(t), Flags(t), RollbackCheck(t)
  PROVE  Moves(t) /\ Flagged(t)
<1> DEFINE e == Now(t)
           n == e.name
           toss == [e EXCEPT !.rollback = None, !.rollback_pending = FALSE,
                             !.installed = FALSE]
           ret(how) == [e EXCEPT !.rollback_pending = FALSE,
                                 !.rollback = Left(how, e.rollback)]
<1>1. /\ pc[t] = "check" /\ pc[t] \in Aborting /\ pc[t] \in Working
      /\ doubled' = doubled /\ UNCHANGED <<scene, data, made, dropped, saves>>
  BY DEF RollbackCheck, Aborting, Working
<1>2. at[t] \in 1..Len(ent[t]) /\ e \in Entry /\ n \in Names
  BY <1>1, NowIs
<1>3. Stat(t, e) /\ outcome[t] = "none" /\ e.installed /\ e.rollback_pending
      /\ ~e.finished
  BY <1>1, <1>2, LenIs DEF Flags, Flag, Now, Ends, Bare
<1>6. \/ RollbackOurs(e) /\ Update(t, toss) /\ Unseen /\ Go(t, "restore")
      \/ ent' = ent /\ Unseen /\ RestoreFails(t)
      \/ /\ e.rollback # e.fresh /\ RestoreFails(t)
         /\ \E how \in NoReplace(n, e.rollback) :
              /\ how # "failed" /\ public' = [public EXCEPT ![n] = e.rollback]
              /\ Touch(t, n) /\ Update(t, ret(how))
  BY DEF RollbackCheck, Unseen
<1>7. /\ toss \in Entry
      /\ toss.name = e.name /\ toss.expected = e.expected
      /\ toss.bytes = e.bytes /\ toss.fresh = e.fresh /\ toss.tree = e.tree
      /\ toss.unchanged = e.unchanged /\ toss.stage = e.stage
      /\ toss.captured = e.captured /\ toss.previous = e.previous
      /\ toss.capture_valid = e.capture_valid /\ toss.finished = e.finished
      /\ ~toss.installed /\ ~toss.rollback_pending /\ toss.rollback = None
  BY ZenonT(120), <1>2 DEF Entry, Place
<1> HIDE DEF n, e, toss
<1>8. AbortFlags(t, e) /\ AbortFlags(t, toss)
  BY <1>3, <1>7 DEF AbortFlags, Stat
<1>9. CASE RollbackOurs(e) /\ Update(t, toss) /\ Unseen /\ Go(t, "restore")
  <2>1. Others(t) /\ ent'[t][at[t]] = toss
    BY <1>2, <1>7, <1>9, OneChanges
  <2>2. Core(e, toss) /\ Tosses(t, e, toss)
    BY <1>1, <1>3, <1>7, <1>9 DEF Core, Tosses, Judged, Held
  <2>3. Control(t) /\ Flagged(t)
    BY <1>1, <1>8, <1>9, <2>1, GoControl, FlagsGo DEF Aborting
  <2> QED BY <1>1, <1>2, <1>3, <1>7, <2>1, <2>2, <2>3 DEF Moves, Moved, e
<1>10. ASSUME e.rollback # e.fresh, RestoreFails(t), NEW how \in NoReplace(n, e.rollback),
              how # "failed", public' = [public EXCEPT ![n] = e.rollback],
              Touch(t, n), Update(t, ret(how))
       PROVE  Moves(t) /\ Flagged(t)
  <2>1. public[n] = None /\ Left(how, e.rollback) \in {None, e.rollback}
        /\ Left(how, e.rollback) \in Place
    BY <1>2, <1>10, NoReplaceIs DEF Place, Entry
  <2> DEFINE x == ret(how)
  <2>2. /\ x \in Entry /\ x.name = e.name /\ x.expected = e.expected
        /\ x.bytes = e.bytes /\ x.fresh = e.fresh /\ x.tree = e.tree
        /\ x.unchanged = e.unchanged /\ x.stage = e.stage
        /\ x.installed = e.installed /\ ~x.rollback_pending
        /\ x.rollback \in {None, e.rollback} /\ x.finished = e.finished
        /\ x.captured = e.captured /\ x.previous = e.previous
        /\ x.capture_valid = e.capture_valid
    BY <1>2, <2>1 DEF Entry
  <2>3. Update(t, x)
    BY <1>10
  <2> HIDE DEF x, ret
  <2>4. Others(t) /\ ent'[t][at[t]] = x
    BY <1>2, <2>2, <2>3, OneChanges
  <2>5. Core(e, x) /\ Returns(t, e, x)
    BY <1>1, <1>3, <1>10, <2>1, <2>2 DEF Core, Returns, Judged, Held, Shows, n
  <2>6. AbortFlags(t, x)
    BY <1>3, <2>2 DEF AbortFlags, Stat
  <2>7. Control(t) /\ Flagged(t)
    BY <1>1, <1>10, <2>4, <2>6, FailsFlagged
  <2> QED BY <1>1, <1>2, <1>3, <2>2, <2>4, <2>5, <2>7 DEF Moves, Moved, e
<1>11. CASE ent' = ent /\ Unseen /\ RestoreFails(t)
  <2>1. Others(t) /\ ent'[t][at[t]] = e
    BY <1>2, <1>11, OneChanges DEF e
  <2>2. Rests(t, Now(t), e) /\ Core(Now(t), e)
    BY <1>1, <1>11, RestsIs DEF e
  <2>3. Control(t) /\ Flagged(t)
    BY <1>1, <1>8, <1>11, <2>1, FailsFlagged
  <2> QED BY <1>1, <1>2, <1>3, <2>1, <2>2, <2>3 DEF Moves, e
<1> QED BY <1>6, <1>9, <1>10, <1>11

\* The previous entry is put back.
LEMMA RestorePreviousMoves ==
  ASSUME Types, NEW t \in Trans, Phase(t), Flags(t), RestorePrevious(t)
  PROVE  Moves(t) /\ Flagged(t)
<1> DEFINE e == Now(t)
           n == e.name
           back(how) == [e EXCEPT !.captured = FALSE, !.previous = Left(how, e.previous)]
<1>1. /\ pc[t] = "restore" /\ pc[t] \in Aborting /\ pc[t] \in Working
      /\ doubled' = doubled /\ UNCHANGED <<scene, data, made, dropped, saves>>
  BY DEF RestorePrevious, Aborting, Working
<1>2. at[t] \in 1..Len(ent[t]) /\ e \in Entry /\ n \in Names
  BY <1>1, NowIs
<1>3. Stat(t, e) /\ outcome[t] = "none" /\ (e.finished => Bare(e)) /\ AbortFlags(t, e)
  BY <1>1, <1>2, LenIs DEF Flags, Flag, Now, Ends, AbortFlags
<1>6. \/ /\ ent' = ent /\ Unseen
         /\ \/ RestoreFails(t)
            \/ e.finished /\ NextEntry(t, e.finish_failed)
            \/ /\ ~e.finished /\ ~e.rollback_pending /\ ~e.captured /\ ~e.installed
               /\ Go(t, "discard")
      \/ /\ ~e.finished /\ ~e.rollback_pending /\ e.captured /\ ~e.installed
         /\ \E how \in NoReplace(n, e.previous) :
              /\ how # "failed" /\ public' = [public EXCEPT ![n] = e.previous]
              /\ Touch(t, n) /\ Update(t, back(how)) /\ Go(t, "discard")
  BY <1>1 DEF RestorePrevious, Unseen
<1> HIDE DEF n, e
<1>10. ASSUME ~e.finished, ~e.rollback_pending, e.captured, ~e.installed,
              NEW how \in NoReplace(n, e.previous),
              how # "failed", public' = [public EXCEPT ![n] = e.previous],
              Touch(t, n), Update(t, back(how)), Go(t, "discard")
       PROVE  Moves(t) /\ Flagged(t)
  <2>1. public[n] = None /\ Left(how, e.previous) \in {None, e.previous}
        /\ Left(how, e.previous) \in Place
    BY <1>2, <1>10, NoReplaceIs DEF Place, Entry
  <2> DEFINE x == back(how)
  <2>2. /\ x \in Entry /\ x.name = e.name /\ x.expected = e.expected
        /\ x.bytes = e.bytes /\ x.fresh = e.fresh /\ x.tree = e.tree
        /\ x.unchanged = e.unchanged /\ x.stage = e.stage
        /\ x.installed = e.installed /\ x.rollback_pending = e.rollback_pending
        /\ x.rollback = e.rollback /\ x.finished = e.finished
        /\ ~x.captured /\ x.previous \in {None, e.previous}
        /\ x.capture_valid = e.capture_valid
    BY <1>2, <2>1 DEF Entry
  <2>3. Update(t, x)
    BY <1>10
  <2> HIDE DEF x, back
  <2>4. Others(t) /\ ent'[t][at[t]] = x
    BY <1>2, <2>2, <2>3, OneChanges
  <2>5. Core(e, x) /\ GivesBack(t, e, x)
    BY <1>1, <1>10, <2>1, <2>2 DEF Core, GivesBack, Judged, Rolled, Shows, n
  <2>6. AbortFlags(t, x) /\ Bare(x)
    BY <1>3, <1>10, <2>2 DEF AbortFlags, Stat, Bare
  <2>7. Control(t) /\ Flagged(t)
    BY <1>1, <1>10, <2>4, <2>6, GoControl, FlagsGo DEF Aborting
  <2> QED BY <1>1, <1>2, <1>3, <2>2, <2>4, <2>5, <2>7 DEF Moves, Moved, e
<1>11. CASE /\ ent' = ent /\ Unseen
            /\ \/ RestoreFails(t)
               \/ e.finished /\ NextEntry(t, e.finish_failed)
               \/ /\ ~e.finished /\ ~e.rollback_pending /\ ~e.captured /\ ~e.installed
                  /\ Go(t, "discard")
  <2>1. Others(t) /\ ent'[t][at[t]] = e
    BY <1>2, <1>11, OneChanges DEF e
  <2>2. Rests(t, Now(t), e) /\ Core(Now(t), e)
    BY <1>1, <1>11, RestsIs DEF e
  <2>3. CASE RestoreFails(t)
    <3>1. Control(t) /\ Flagged(t)
      BY <1>1, <1>3, <2>3, <2>1, FailsFlagged
    <3> QED BY <1>1, <1>2, <1>3, <2>1, <2>2, <3>1 DEF Moves, e
  <2>4. CASE e.finished /\ NextEntry(t, e.finish_failed)
    <3>1. e.finish_failed \in BOOLEAN
      BY <1>2 DEF Entry
    <3>2. Control(t)
      BY <1>1, <2>4, NextEntryControl
    <3>3. Flagged(t)
      BY <1>1, <1>3, <2>1, <2>4, <3>1, FlagsNextEntry
    <3> QED BY <1>1, <1>2, <1>3, <2>1, <2>2, <3>2, <3>3 DEF Moves, e
  <2>5. CASE /\ ~e.finished /\ ~e.rollback_pending /\ ~e.captured /\ ~e.installed
             /\ Go(t, "discard")
    <3>1. Bare(e)
      BY <2>5 DEF Bare
    <3>2. Control(t) /\ Flagged(t)
      BY <1>1, <1>3, <2>1, <2>5, <3>1, GoControl, FlagsGo DEF Aborting
    <3> QED BY <1>1, <1>2, <1>3, <2>1, <2>2, <3>2 DEF Moves, e
  <2> QED BY <1>11, <2>3, <2>4, <2>5
<1> QED BY <1>6, <1>10, <1>11

\* The entries FinishSucceeds may leave, but for their records: one is done.
LEMMA DoneIs ==
  ASSUME Types, NEW t \in Trans, at[t] \in 1..Len(ent[t]), NEW e, e = Now(t),
         NEW es, es = [ent EXCEPT ![t][at[t]] = Finished(e)],
         NEW x \in {es, [es EXCEPT ![t][at[t]].finish_failed = TRUE]}
  PROVE  \E f \in {Finished(e), [Finished(e) EXCEPT !.finish_failed = TRUE]} :
           x = [ent EXCEPT ![t] = [ent[t] EXCEPT ![at[t]] = f]]
<1> DEFINE g == Finished(e)
           f == [g EXCEPT !.finish_failed = TRUE]
           kept == [es EXCEPT ![t][at[t]].finish_failed = TRUE]
           fs == {g, f}
<1>1. ent[t] \in Seq(Entry) /\ DOMAIN ent[t] = 1..Len(ent[t])
      /\ ent \in [Trans -> Seq(Entry)]
  BY DEF Types
<1>2. es = [ent EXCEPT ![t] = [ent[t] EXCEPT ![at[t]] = g]]
  OBVIOUS
<1>3. es[t] = [ent[t] EXCEPT ![at[t]] = g] /\ es[t][at[t]] = g
  BY <1>1, <1>2
<1>4. kept = [es EXCEPT ![t] = [es[t] EXCEPT ![at[t]] = f]]
  BY <1>3
<1>5. g \in fs /\ f \in fs /\ x \in {es, kept}
  OBVIOUS
<1>8. fs = {Finished(e), [Finished(e) EXCEPT !.finish_failed = TRUE]}
  OBVIOUS
<1> HIDE DEF kept, f, g, fs
<1>6. [es[t] EXCEPT ![at[t]] = f] = [ent[t] EXCEPT ![at[t]] = f]
  BY <1>3
<1>7. kept = [ent EXCEPT ![t] = [ent[t] EXCEPT ![at[t]] = f]]
  BY <1>1, <1>2, <1>4, <1>6
<1>9. \E y \in fs : x = [ent EXCEPT ![t] = [ent[t] EXCEPT ![at[t]] = y]]
  BY <1>2, <1>5, <1>7
<1> QED BY <1>8, <1>9

\* Where only records are dropped besides, one entry changes.
LEMMA DoneOthers ==
  ASSUME Types, NEW t \in Trans, at[t] \in 1..Len(ent[t]), NEW f \in Entry,
         NEW es, es = [ent EXCEPT ![t] = [ent[t] EXCEPT ![at[t]] = f]],
         ent' = es \/ ent' = Unseal(t, es)
  PROVE  Others(t) /\ ent'[t][at[t]] \in Entry /\ Like(ent'[t][at[t]], f)
<1>1. /\ ent[t] \in Seq(Entry) /\ Len(ent[t]) \in Nat /\ DOMAIN ent[t] = 1..Len(ent[t])
      /\ ent \in [Trans -> Seq(Entry)]
  BY DEF Types
<1>2. [ent[t] EXCEPT ![at[t]] = f] \in Seq(Entry)
      /\ Len([ent[t] EXCEPT ![at[t]] = f]) = Len(ent[t])
  BY <1>1, ExceptSeq
<1>3. /\ es \in [Trans -> Seq(Entry)]
      /\ \A u \in Trans : Len(es[u]) = Len(ent[u])
      /\ es[t][at[t]] = f
      /\ \A u \in Trans : \A i \in 1..Len(ent[u]) :
           u # t \/ i # at[t] => es[u][i] = ent[u][i]
  BY <1>1, <1>2
<1>4. \A a : Like(a, a)
  BY DEF Like
<1>5. CASE ent' = es
  BY <1>3, <1>4, <1>5 DEF Others
<1>6. CASE ent' = Unseal(t, es)
  <2>1. Unsealed(t, es, Unseal(t, es))
    BY <1>3, UnsealIs
  <2>2. Unsealed(t, es, ent')
    BY <1>6, <2>1, Zenon
  <2>3. /\ ent' \in [Trans -> Seq(Entry)]
        /\ \A u \in Trans : Len(ent'[u]) = Len(ent[u])
    BY <1>3, <2>2 DEF Unsealed
  <2>4. ASSUME NEW u \in Trans, NEW i \in 1..Len(ent[u])
        PROVE  Like(ent'[u][i], es[u][i]) /\ ent'[u][i] \in Entry
    <3>1. es[u][i] \in Entry /\ i \in 1..Len(es[u]) /\ ent'[u][i] \in Entry
      BY <1>3, <2>3
    <3>2. ent'[u][i] = es[u][i] \/ ent'[u][i] = [es[u][i] EXCEPT !.sealed = FALSE]
      BY <2>2, <3>1 DEF Unsealed
    <3> QED BY <3>1, <3>2 DEF Like, Entry
  <2>5. ASSUME NEW u \in Trans, NEW i \in 1..Len(ent[u]), u # t \/ i # at[t]
        PROVE  Like(ent'[u][i], ent[u][i])
    <3>1. es[u][i] = ent[u][i]
      BY <1>3, <2>5
    <3> QED BY <2>4, <3>1
  <2>6. Like(ent'[t][at[t]], f) /\ ent'[t][at[t]] \in Entry
    BY <1>3, <2>4
  <2> QED BY <2>3, <2>5, <2>6 DEF Others
<1> QED BY <1>5, <1>6

\* What a done entry keeps.
LEMMA DoneEntry ==
  ASSUME NEW e \in Entry,
         NEW f \in {Finished(e), [Finished(e) EXCEPT !.finish_failed = TRUE]}
  PROVE  /\ f \in Entry /\ f.name = e.name /\ f.expected = e.expected
         /\ f.bytes = e.bytes /\ f.fresh = e.fresh /\ f.tree = e.tree
         /\ f.unchanged = e.unchanged /\ f.stage = None
         /\ f.installed = e.installed /\ f.rollback_pending = e.rollback_pending
         /\ f.rollback = e.rollback /\ f.finished
         /\ ~f.captured /\ f.capture_valid = e.capture_valid
         /\ f.previous = IF e.captured THEN None ELSE e.previous
<1> DEFINE g == Finished(e)
           x == IF e.captured THEN None ELSE e.previous
<1>1. g \in Entry /\ g.finished /\ ~g.captured /\ g.stage = None
      /\ g.previous = x
  BY FinishedIs
<1>2. g = [e EXCEPT !.finished = TRUE, !.captured = FALSE,
                    !.stage = None, !.previous = x]
  BY DEF Finished, Entry
<1>5. f = g \/ f = [g EXCEPT !.finish_failed = TRUE]
  OBVIOUS
<1> HIDE DEF g
<1>3. /\ g.name = e.name /\ g.expected = e.expected
      /\ g.bytes = e.bytes /\ g.fresh = e.fresh /\ g.tree = e.tree
      /\ g.unchanged = e.unchanged
      /\ g.installed = e.installed /\ g.rollback_pending = e.rollback_pending
      /\ g.rollback = e.rollback /\ g.capture_valid = e.capture_valid
  BY <1>2 DEF Entry
<1> HIDE DEF x
<1>4. f \in Entry
  <2>1. CASE f = g
    BY <1>1, <2>1
  <2>2. CASE f = [g EXCEPT !.finish_failed = TRUE]
    BY ZenonT(120), <1>1, <2>2 DEF Entry
  <2> QED BY <1>5, <2>1, <2>2
<1>6. /\ f.name = g.name /\ f.expected = g.expected
      /\ f.bytes = g.bytes /\ f.fresh = g.fresh /\ f.tree = g.tree
      /\ f.unchanged = g.unchanged /\ f.stage = g.stage
      /\ f.installed = g.installed /\ f.rollback_pending = g.rollback_pending
      /\ f.rollback = g.rollback /\ f.capture_valid = g.capture_valid
      /\ f.finished = g.finished /\ f.captured = g.captured /\ f.previous = g.previous
  BY <1>1, <1>5 DEF Entry
<1> QED BY <1>1, <1>3, <1>4, <1>6 DEF x

\* An entry that is finished with, or fails to be.
LEMMA DropMoves ==
  ASSUME Types, NEW t \in Trans, Phase(t), Flags(t),
         pc[t] \in {"discard", "publish"}, NEW failed \in BOOLEAN, NextResult(t, failed),
         UNCHANGED <<scene, data, made, dropped, saves>>, Unseen,
         Others(t), ent'[t][at[t]] \in Entry,
         failed \/ ent'[t][at[t]].finished,
         NEW x, x = ent'[t][at[t]], Core(Now(t), x),
         \/ Rests(t, Now(t), x) /\ x.finished = Now(t).finished
         \/ /\ Discardable(Now(t)) /\ Judged(Now(t), x) /\ Rolled(Now(t), x)
            /\ ~x.captured /\ x.capture_valid = Now(t).capture_valid
            /\ x.previous = IF Now(t).captured THEN None ELSE Now(t).previous
            /\ x.stage \in {None, Now(t).stage}
  PROVE  Moves(t) /\ Flagged(t)
<1> DEFINE e == Now(t)
<1>1. pc[t] \in Working
  BY DEF Working, Aborting
<1>2. at[t] \in 1..Len(ent[t]) /\ e \in Entry
  BY <1>1, NowIs
<1>3. Flag(t, at[t], e, pc[t], at[t], outcome[t]) /\ Ends(pc[t], outcome[t])
  BY <1>2 DEF Flags, Now
<1>4. Stat(t, e) /\ (pc[t] = "discard" => Bare(e) /\ outcome[t] = "none")
      /\ (pc[t] = "publish" => OverFlags(t, e) /\ Published(t))
  BY <1>3 DEF Flag, Ends, OverFlags, Published
<1> HIDE DEF e
<1>5. ~e.rollback_pending /\ (Published(t) \/ Bare(e))
  BY <1>4 DEF Bare, OverFlags
<1>6. Rests(t, e, x) \/ Drops(t, e, x)
  BY <1>5 DEF Drops, e
<1>7. Stat(t, x)
  BY <1>4 DEF Stat, Core, Rests, Judged, e
<1>8. CASE pc[t] = "discard"
  <2>1. NextEntry(t, failed)
    BY <1>8 DEF NextResult
  <2>2. AbortFlags(t, x)
    BY <1>4, <1>7, <1>8 DEF AbortFlags, Bare, Rests, Held, Rolled, e
  <2>3. Flagged(t) /\ Control(t)
    BY <1>8, <2>1, <2>2, FlagsNextEntry, NextEntryControl DEF Aborting
  <2> QED BY <1>2, <1>6, <2>3 DEF Moves, e
<1>9. CASE pc[t] = "publish"
  <2>1. NextPublished(t, failed)
    BY <1>9 DEF NextResult
  <2>2. OverFlags(t, x)
    BY <1>4, <1>7, <1>9
       DEF OverFlags, Good, Rests, Drops, Held, Rolled, Core, Judged, e
  <2>3. Flagged(t) /\ Control(t)
    BY <1>9, <2>1, <2>2, FlagsPublished, NextPublishedControl
  <2> QED BY <1>2, <1>6, <2>3 DEF Moves, e
<1> QED BY <1>8, <1>9

\* The finish of one entry.
LEMMA FinishMoves ==
  ASSUME Types, NEW t \in Trans, Phase(t), Flags(t), FinishEntry(t)
  PROVE  Moves(t) /\ Flagged(t)
<1> DEFINE e == Now(t)
<1>0. /\ pc[t] \in {"discard", "publish"} /\ pc[t] \in Working
      /\ Unseen /\ UNCHANGED <<scene, data, made, dropped, saves>>
  BY DEF FinishEntry, Working, Aborting, Unseen
<1>1. at[t] \in 1..Len(ent[t]) /\ e \in Entry
  BY <1>0, NowIs
<1>2. CASE FinishFails(t)
  <2> DEFINE x == IF e.captured THEN None ELSE e.previous
             less == [e EXCEPT !.captured = FALSE, !.previous = x]
  <2>1. NextResult(t, TRUE)
    BY <1>2 DEF FinishFails
  <2>2. ent' = ent \/ (Discardable(e) /\ Update(t, less))
    BY <1>2, <1>1 DEF FinishFails, Entry
  <2>3. CASE ent' = ent
    <3>1. Others(t) /\ ent'[t][at[t]] = Now(t)
      BY <1>1, <2>3, OneChanges
    <3>2. Rests(t, Now(t), Now(t)) /\ Core(Now(t), Now(t))
      BY <1>0, RestsIs
    <3> QED BY <1>0, <1>1, <2>1, <3>1, <3>2, DropMoves
  <2>4. CASE Discardable(e) /\ Update(t, less)
    <3>1. x \in Place
      BY <1>1 DEF Entry, Place
    <3>2. Update(t, less)
      BY <2>4
    <3> HIDE DEF x
    <3>3. /\ less \in Entry /\ less.name = e.name /\ less.expected = e.expected
          /\ less.bytes = e.bytes /\ less.fresh = e.fresh /\ less.tree = e.tree
          /\ less.unchanged = e.unchanged /\ less.stage = e.stage
          /\ less.installed = e.installed /\ less.rollback_pending = e.rollback_pending
          /\ less.rollback = e.rollback /\ less.capture_valid = e.capture_valid
          /\ ~less.captured /\ less.previous = x
      BY <1>1, <3>1 DEF Entry
    <3> HIDE DEF less
    <3>4. Others(t) /\ ent'[t][at[t]] = less
      BY <1>1, <3>2, <3>3, OneChanges
    <3>5. Core(e, less) /\ Judged(e, less) /\ Rolled(e, less) /\ less.stage \in {None, e.stage}
      BY <3>3 DEF Core, Judged, Rolled
    <3>6. less.previous = IF e.captured THEN None ELSE e.previous
      BY <3>3 DEF x
    <3> QED BY <1>0, <1>1, <2>1, <2>4, <3>3, <3>4, <3>5, <3>6, DropMoves
  <2> QED BY <2>2, <2>3, <2>4
<1>3. CASE FinishSucceeds(t)
  <2> DEFINE es == [ent EXCEPT ![t][at[t]] = Finished(e)]
             kept == [es EXCEPT ![t][at[t]].finish_failed = TRUE]
             fs == {Finished(e), [Finished(e) EXCEPT !.finish_failed = TRUE]}
  <2>1. /\ \E x \in {es, kept} : ent' = x \/ ent' = Unseal(t, x)
        /\ \E b \in BOOLEAN : NextResult(t, b)
        /\ Discardable(e)
    BY <1>3, Zenon DEF FinishSucceeds
  <2>2. PICK x \in {es, kept} : ent' = x \/ ent' = Unseal(t, x)
    BY <2>1
  <2>3. PICK f \in fs : x = [ent EXCEPT ![t] = [ent[t] EXCEPT ![at[t]] = f]]
    BY <1>1, DoneIs
  <2>4. PICK b \in BOOLEAN : NextResult(t, b)
    BY <2>1
  <2>5. /\ f \in Entry /\ f.name = e.name /\ f.expected = e.expected
        /\ f.bytes = e.bytes /\ f.fresh = e.fresh /\ f.tree = e.tree
        /\ f.unchanged = e.unchanged /\ f.stage = None
        /\ f.installed = e.installed /\ f.rollback_pending = e.rollback_pending
        /\ f.rollback = e.rollback /\ f.finished
        /\ ~f.captured /\ f.capture_valid = e.capture_valid
        /\ f.previous = IF e.captured THEN None ELSE e.previous
    BY <1>1, DoneEntry
  <2> HIDE DEF es, kept, fs
  <2>6. Others(t) /\ ent'[t][at[t]] \in Entry /\ Like(ent'[t][at[t]], f)
    BY <1>1, <2>2, <2>3, <2>5, DoneOthers
  <2> HIDE DEF e
  <2>7. PICK y : y = ent'[t][at[t]]
    OBVIOUS
  <2>8. /\ Core(e, y) /\ Judged(e, y) /\ Rolled(e, y)
        /\ ~y.captured /\ y.capture_valid = e.capture_valid
        /\ y.previous = IF e.captured THEN None ELSE e.previous
        /\ y.stage \in {None, e.stage} /\ y.finished
    BY <2>5, <2>6, <2>7 DEF Like, Core, Judged, Rolled
  <2> QED BY <1>0, <1>1, <2>1, <2>4, <2>6, <2>7, <2>8, DropMoves DEF e
<1> QED BY <1>2, <1>3 DEF FinishEntry

-----------------------------------------------------------------------------
\* The steps that prepare and produce, and the verdict.

\* Only the place of t changes.
Waits(t) ==
    /\ ent' = ent /\ Unseen /\ UNCHANGED <<scene, data, made, dropped, saves>>
    /\ Control(t) /\ pc[t] # "validate"
    /\ pc[t] = "produce" => pc'[t] \in {"restore", "ended"}

\* An entry is added, for the version that is there.
Appends(t) ==
    /\ pc[t] = "record" /\ outcome[t] = "none"
    /\ ent' \in [Trans -> Seq(Entry)] /\ Len(ent'[t]) = Len(ent[t]) + 1
    /\ \A i \in 1..Len(ent[t]) : ent'[t][i] = ent[t][i]
    /\ \A u \in Trans : u # t => ent'[u] = ent[u]
    /\ Unseen /\ UNCHANGED <<scene, data, made, dropped, saves>>
    /\ Control(t) /\ pc'[t] # "record"
    /\ Outputs[t][at[t]] \in Names
    /\ \A i \in 1..Len(ent'[t]) : ~Produced(t, i)' /\ ~Validated(t, i)'
    /\ LET n == Outputs[t][at[t]]
           e == ent'[t][Len(ent[t]) + 1]
       IN  /\ e.name = n /\ e.expected = public[n] /\ Clean(e)
           /\ e.stage = None /\ e.rollback = None
           /\ e.expected = None => e.bytes = None
           /\ ~e.unchanged /\ ~e.finished

\* The stage is written.
Stages(t) ==
    LET e == Now(t)
        x == ent'[t][at[t]]
        f == FreshOf(t, e.name)
    IN  /\ pc[t] = "produce" /\ outcome[t] = "none"
        /\ at[t] \in 1..Len(ent[t]) /\ e \in Entry /\ x \in Entry
        /\ Others(t) /\ Control(t) /\ Core(e, x) /\ Judged(e, x) /\ Held(e, x)
        /\ Rolled(e, x) /\ Clean(e) /\ Unseen /\ UNCHANGED <<scene, dropped, saves>>
        /\ f \in Objects /\ made' = [made EXCEPT ![f] = data'[f]]
        /\ \/ e.name \in DeleteOnly[t] /\ x.stage = e.stage /\ data' = data
           \/ /\ e.name \notin DeleteOnly[t] /\ x.stage = f
              /\ \E d \in Data : data' = [data EXCEPT ![f] = d]

\* A committed group is made final.
Publishes(t) ==
    /\ ent' = ent /\ Unseen /\ UNCHANGED <<scene, data, made, dropped, saves>>
    /\ pc[t] = "committed" /\ pc'[t] = "publish"
    /\ outcome[t] = "none" /\ outcome'[t] = "published"
    /\ \A u \in Trans \ {t} :
         pc'[u] = pc[u] /\ at'[u] = at[u] /\ outcome'[u] = outcome[u]

\* The scan of a preparation.
LEMMA OpenWaits ==
  ASSUME Types, NEW t \in Trans, Phase(t), Flags(t), Open(t)
  PROVE  Waits(t) /\ Flagged(t)
<1>1. /\ pc[t] = "open" /\ ent' = ent /\ Unseen
      /\ UNCHANGED <<scene, data, made, dropped, saves>>
  BY DEF Open, Unseen
<1>2. outcome[t] = "none" /\ \A i \in 1..Len(ent[t]) :
        Stat(t, ent[t][i]) /\ Clean(ent[t][i]) /\ ~ent[t][i].finished
  BY <1>1 DEF Flags, Flag, Ends, Phase, Forward
<1>3. CASE Abort(t)
  <2>1. Flagged(t)
    BY <1>1, <1>2, <1>3, FlagsAbort DEF Types
  <2>2. Control(t)
    BY <1>1, <1>3, AbortControl DEF Forward
  <2> QED BY <1>1, <2>1, <2>2 DEF Waits
<1>4. CASE ~Abort(t)
  <2>1. /\ pc' = [pc EXCEPT ![t] = "record"] /\ UNCHANGED <<at, pass, outcome>>
        /\ ~Reserved(t, Outputs[t][at[t]])
    BY <1>4 DEF Open
  <2>2. /\ pc'[t] = "record" /\ at' = at /\ outcome' = outcome
        /\ \A u \in Trans \ {t} : pc'[u] = pc[u]
    BY <2>1 DEF Types
  <2>3. Control(t)
    BY <1>1, <2>1, <2>2 DEF Control, Ahead, Early, Produced, Validated, Forward, Aborting
  <2>4. Flagged(t)
    BY <1>1, <1>2, <2>2 DEF Flagged, Flag, Ends, Aborting
  <2> QED BY <1>1, <2>3, <2>4 DEF Waits
<1> QED BY <1>3, <1>4

\* The rest of the preparation.
LEMMA RecordAppends ==
  ASSUME Types, NEW t \in Trans, Phase(t), Flags(t), Record(t)
  PROVE  (Waits(t) \/ Appends(t)) /\ Flagged(t)
<1> DEFINE n == Outputs[t][at[t]]
           o == public[n]
           e == NewEntry(n, o)
           l == Len(ent[t])
           last == at[t] = Len(Outputs[t])
<1>1. /\ pc[t] = "record" /\ Unseen
      /\ UNCHANGED <<scene, data, made, dropped, saves>>
  BY DEF Record, Unseen
<1>2. outcome[t] = "none" /\ \A i \in 1..Len(ent[t]) :
        Stat(t, ent[t][i]) /\ Clean(ent[t][i]) /\ ~ent[t][i].finished
  BY <1>1 DEF Flags, Flag, Ends, Phase, Forward
<1>3. n \in Names /\ o \in Place
  <2>1. Outputs[t] \in Seq(Names)
    BY <1>1 DEF Types, SceneType, Outputs
  <2>2. at[t] \in 1..Len(Outputs[t])
    BY <1>1, LenIs DEF Phase
  <2> QED BY <1>1, <2>1, <2>2 DEF Types
<1>4. \/ UNCHANGED ent /\ Abort(t)
      \/ /\ ent' = [ent EXCEPT ![t] = Append(@, e)]
         /\ \/ Abort(t)
            \/ /\ pc' = [pc EXCEPT ![t] = IF last THEN "produce" ELSE "open"]
               /\ at' = [at EXCEPT ![t] = IF last THEN 1 ELSE @ + 1]
               /\ UNCHANGED <<pass, outcome>>
  BY DEF Record
<1>5. CASE UNCHANGED ent /\ Abort(t)
  <2>1. Flagged(t)
    BY <1>1, <1>2, <1>5, FlagsAbort DEF Types
  <2>2. Control(t)
    BY <1>1, <1>5, AbortControl DEF Forward
  <2> QED BY <1>1, <1>5, <2>1, <2>2 DEF Waits
<1>6. CASE /\ ent' = [ent EXCEPT ![t] = Append(@, e)]
           /\ \/ Abort(t)
              \/ /\ pc' = [pc EXCEPT ![t] = IF last THEN "produce" ELSE "open"]
                 /\ at' = [at EXCEPT ![t] = IF last THEN 1 ELSE @ + 1]
                 /\ UNCHANGED <<pass, outcome>>
  <2>1. e \in Entry
    BY <1>3, NewEntryIs
  <2>2. /\ e.name = n /\ e.expected = o /\ Clean(e) /\ e.stage = None
        /\ e.rollback = None /\ (o = None => e.bytes = None)
        /\ ~e.unchanged /\ ~e.finished
    BY DEF NewEntry, Clean, Bare
  <2> HIDE DEF e
  <2>3. /\ ent' \in [Trans -> Seq(Entry)] /\ Len(ent'[t]) = l + 1
        /\ \A i \in 1..l : ent'[t][i] = ent[t][i]
        /\ ent'[t][l + 1] = e
        /\ \A u \in Trans : u # t => ent'[u] = ent[u]
    <3>1. ent \in [Trans -> Seq(Entry)] /\ ent[t] \in Seq(Entry)
      BY DEF Types
    <3> QED BY <1>6, <2>1, <3>1, AppendProperties
  <2>4. Stat(t, e)
    BY <2>2 DEF Stat
  <2>5. \A i \in 1..Len(ent'[t]) :
          Stat(t, ent'[t][i]) /\ Clean(ent'[t][i]) /\ ~ent'[t][i].finished
    <3> SUFFICES ASSUME NEW i \in 1..Len(ent'[t])
                 PROVE  Stat(t, ent'[t][i]) /\ Clean(ent'[t][i]) /\ ~ent'[t][i].finished
      OBVIOUS
    <3>1. i \in 1..l \/ i = l + 1
      BY <2>3, LenIs
    <3> QED BY <1>2, <2>2, <2>3, <2>4, <3>1
  <2>6. CASE Abort(t)
    <3>1. Flagged(t)
      BY <2>3, <2>5, <2>6, FlagsAbort
    <3>2. Control(t)
      BY <1>1, <2>6, AbortControl DEF Forward
    <3>3. pc'[t] \in {"ended", "restore"}
      BY <2>6 DEF Types, Abort
    <3> QED BY <1>1, <1>2, <1>3, <2>2, <2>3, <3>1, <3>2, <3>3 DEF Appends, Produced, Validated
  <2>7. CASE ~Abort(t)
    <3>1. /\ pc'[t] = IF last THEN "produce" ELSE "open"
          /\ at'[t] = IF last THEN 1 ELSE at[t] + 1
          /\ outcome' = outcome
          /\ \A u \in Trans \ {t} : pc'[u] = pc[u] /\ at'[u] = at[u]
      BY <1>6, <2>7 DEF Types
    <3>2. /\ pc'[t] = "open" \/ (pc'[t] = "produce" /\ at'[t] = 1)
          /\ l \in Nat
      BY <3>1, LenIs
    <3>3. Control(t)
      BY <1>1, <3>1, <3>2 DEF Control, Ahead, Early, Produced, Validated, Forward, Aborting
    <3>4. Flagged(t)
      BY <1>2, <2>5, <3>1, <3>2 DEF Flagged, Flag, Ends, Aborting
    <3> QED BY <1>1, <1>2, <1>3, <2>2, <2>3, <3>2, <3>3, <3>4 DEF Appends, Produced, Validated
  <2> QED BY <2>6, <2>7
<1> QED BY <1>4, <1>5, <1>6

\* The tools' output.
LEMMA ProduceStages ==
  ASSUME Types, NEW t \in Trans, Phase(t), Flags(t), Produce(t)
  PROVE  (Waits(t) \/ Stages(t)) /\ Flagged(t)
<1> DEFINE e == Now(t)
           n == e.name
           f == FreshOf(t, n)
           y == [e EXCEPT !.stage = f]
           last == at[t] = Len(ent[t])
<1>1. /\ pc[t] = "produce" /\ Unseen /\ UNCHANGED <<scene, dropped, saves>>
      /\ pc[t] \in Forward /\ pc[t] \in Working
  BY DEF Produce, Unseen, Forward, Working
<1>2. at[t] \in 1..Len(ent[t]) /\ e \in Entry /\ n \in Names /\ Len(ent[t]) \in Nat
  BY <1>1, NowIs, LenIs
<1>3. outcome[t] = "none" /\ \A i \in 1..Len(ent[t]) :
        Stat(t, ent[t][i]) /\ Clean(ent[t][i]) /\ ~ent[t][i].finished
  BY <1>1 DEF Flags, Flag, Ends, Phase, Forward
<1>4. Stat(t, e) /\ Clean(e) /\ ~e.finished
  BY <1>2, <1>3 DEF Now
<1>5. \/ UNCHANGED <<data, ent, made>> /\ Abort(t)
      \/ /\ \/ n \in DeleteOnly[t] /\ UNCHANGED <<data, ent>>
            \/ /\ n \notin DeleteOnly[t] /\ Update(t, y)
               /\ \E b \in Bytes : data' = [data EXCEPT ![f] =
                       [kind |-> IF n \in Trees THEN "dir" ELSE "file", bytes |-> b]]
         /\ made' = [made EXCEPT ![f] = data'[f]]
         /\ pc' = [pc EXCEPT ![t] = IF last THEN "validate" ELSE "produce"]
         /\ at' = [at EXCEPT ![t] = IF last THEN 1 ELSE @ + 1]
         /\ UNCHANGED <<pass, outcome>>
  BY Zenon DEF Produce
<1>6. CASE UNCHANGED <<data, ent, made>> /\ Abort(t)
  <2>1. Flagged(t)
    BY <1>1, <1>3, <1>6, FlagsAbort DEF Types
  <2>2. Control(t)
    BY <1>1, <1>6, AbortControl
  <2>3. pc'[t] \in {"restore", "ended"}
    BY <1>6 DEF Abort, Types
  <2> QED BY <1>1, <1>6, <2>1, <2>2, <2>3 DEF Waits
<1>7. CASE /\ \/ n \in DeleteOnly[t] /\ UNCHANGED <<data, ent>>
              \/ /\ n \notin DeleteOnly[t] /\ Update(t, y)
                 /\ \E b \in Bytes : data' = [data EXCEPT ![f] =
                       [kind |-> IF n \in Trees THEN "dir" ELSE "file", bytes |-> b]]
           /\ made' = [made EXCEPT ![f] = data'[f]]
           /\ pc' = [pc EXCEPT ![t] = IF last THEN "validate" ELSE "produce"]
           /\ at' = [at EXCEPT ![t] = IF last THEN 1 ELSE @ + 1]
           /\ UNCHANGED <<pass, outcome>>
  <2>1. f \in Objects /\ f \in Place
    BY <1>2, FreshIs DEF Place
  <2> HIDE DEF f
  <2>2. /\ y \in Entry /\ Core(e, y) /\ Judged(e, y) /\ Held(e, y) /\ Rolled(e, y)
        /\ y.stage = f /\ y.finished = e.finished
    BY <1>2, <2>1 DEF Entry, Core, Judged, Held, Rolled
  <2>3. Core(e, e) /\ Judged(e, e) /\ Held(e, e) /\ Rolled(e, e)
    BY DEF Core, Judged, Held, Rolled
  <2>4. \A b \in Bytes : [kind |-> IF n \in Trees THEN "dir" ELSE "file", bytes |-> b] \in Data
    BY DEF Data, Kinds
  <2> HIDE DEF y
  <2>5. PICK x : /\ (x = e /\ ent' = ent) \/ (x = y /\ Update(t, y))
                 /\ \/ n \in DeleteOnly[t] /\ x = e /\ data' = data
                    \/ /\ n \notin DeleteOnly[t] /\ x = y
                       /\ \E d \in Data : data' = [data EXCEPT ![f] = d]
    BY <1>7, <2>4
  <2>6. Others(t) /\ ent'[t][at[t]] = x /\ x \in Entry /\ ent'[t] \in Seq(Entry)
    BY <1>2, <2>2, <2>5, OneChanges
  <2>7. Core(e, x) /\ Judged(e, x) /\ Held(e, x) /\ Rolled(e, x) /\ x.finished = e.finished
    BY <2>2, <2>3, <2>5
  <2>8. (n \in DeleteOnly[t] /\ x.stage = e.stage) \/ (n \notin DeleteOnly[t] /\ x.stage = f)
    BY <2>2, <2>5
  <2>9. /\ pc'[t] = IF last THEN "validate" ELSE "produce"
        /\ at'[t] = IF last THEN 1 ELSE at[t] + 1
        /\ outcome' = outcome
        /\ \A u \in Trans \ {t} : pc'[u] = pc[u] /\ at'[u] = at[u]
    BY <1>7 DEF Types
  <2>10. Stat(t, x) /\ Clean(x)
    BY <1>4, <2>1, <2>7, <2>8 DEF Stat, Clean, Bare, Core, Judged, Held, Rolled, f
  <2>11. \A i \in 1..Len(ent[t]) : Stat(t, ent'[t][i]) /\ Clean(ent'[t][i])
    <3> SUFFICES ASSUME NEW i \in 1..Len(ent[t]), i # at[t]
                 PROVE  Stat(t, ent'[t][i]) /\ Clean(ent'[t][i])
      BY <2>6, <2>10
    <3>1. Like(ent'[t][i], ent[t][i]) /\ ent[t][i] \in Entry /\ ent'[t][i] \in Entry
      BY <2>6, LenIs DEF Others
    <3> QED BY <1>3, <3>1, LikeFlag
  <2>12. Flagged(t)
    <3>1. Len(ent'[t]) = Len(ent[t])
      BY <2>6 DEF Others
    <3> QED BY <1>3, <2>9, <2>11, <3>1 DEF Flagged, Flag, Ends, Aborting
  <2>13. Control(t)
    <3>1. pc'[t] = "validate" => \A i \in 1..Len(ent[t]) : i < at[t] \/ i = at[t]
      BY <1>2, <2>9
    <3>2. pc'[t] = "produce" => at'[t] = at[t] + 1
      BY <1>2, <2>9
    <3>3. pc'[t] = "validate" => at'[t] = 1
      BY <2>9
    <3>4. pc'[t] \in {"produce", "validate"}
      BY <2>9
    <3> QED BY <1>1, <1>2, <2>9, <3>1, <3>2, <3>3, <3>4
            DEF Control, Ahead, Early, Produced, Validated, Forward, Aborting
  <2>14. made' = [made EXCEPT ![f] = data'[f]]
    BY <1>7
  <2> QED BY <1>1, <1>2, <1>3, <1>4, <2>1, <2>5, <2>6, <2>7, <2>8, <2>12, <2>13, <2>14
          DEF Stages, f
<1> QED BY <1>5, <1>6, <1>7

\* The verdict on a committed group.
LEMMA DecideWaits ==
  ASSUME Types, NEW t \in Trans, Phase(t), Flags(t), Decide(t)
  PROVE  (Waits(t) \/ Publishes(t)) /\ Flagged(t)
<1>1. /\ pc[t] = "committed" /\ ent' = ent /\ Unseen
      /\ UNCHANGED <<scene, data, made, dropped, saves>>
  BY DEF Decide, Unseen
<1>2. outcome[t] = "none"
  BY <1>1 DEF Flags, Ends
<1>3. Flagged(t)
  BY FlagsDecide
<1>4. CASE Abort(t)
  <2>1. Control(t)
    BY <1>1, <1>4, AbortControl DEF Forward
  <2> QED BY <1>1, <1>3, <2>1 DEF Waits
<1>5. CASE ~Abort(t)
  <2>1. /\ pc'[t] = "publish" /\ outcome'[t] = "published"
        /\ \A u \in Trans \ {t} :
             pc'[u] = pc[u] /\ at'[u] = at[u] /\ outcome'[u] = outcome[u]
    BY <1>5 DEF Decide, Types
  <2> QED BY <1>1, <1>2, <1>3, <2>1 DEF Publishes
<1> QED BY <1>4, <1>5

-----------------------------------------------------------------------------
\* The others.

\* What a crash leaves of an entry.
Ruin(e, x) ==
    /\ x.name = e.name /\ x.stage = e.stage
    /\ x.previous = e.previous /\ x.rollback = e.rollback
    /\ x.expected = None /\ x.bytes = None /\ ~x.unchanged /\ Clean(x)

\* The process dies.
Crashes(p) ==
    /\ Unseen /\ UNCHANGED <<scene, data, made, dropped, saves, outcome>>
    /\ ent' \in [Trans -> Seq(Entry)]
    /\ \A u \in Trans : Len(ent'[u]) = Len(ent[u])
    /\ \A u \in Trans : Owner[u] # p =>
         ent'[u] = ent[u] /\ pc'[u] = pc[u] /\ at'[u] = at[u]
    /\ \A u \in Trans : Owner[u] = p =>
         /\ pc'[u] = "crashed"
         /\ \A i \in 1..Len(ent[u]) :
              IF outcome[u] # "none" THEN ent'[u][i] = ent[u][i]
              ELSE Ruin(ent[u][i], ent'[u][i])

\* No transaction moves.
Rest == UNCHANGED <<scene, ent, pc, at, outcome, made, doubled>>
\* A step of somebody else, or none at all.
Edits(n) ==
    /\ n \in Names /\ Rest /\ Touch("editor", n) /\ saves' = saves + 1
    /\ \/ /\ \E d \in Data : data' = [data EXCEPT ![SaveOf(saves + 1)] = d]
          /\ public' = [public EXCEPT ![n] = SaveOf(saves + 1)]
          /\ dropped' = dropped \cup ({public[n]} \ {None})
          /\ SaveOf(saves + 1) \in Objects
       \/ /\ public[n] # None /\ public' = [public EXCEPT ![n] = None]
          /\ dropped' = dropped \cup {public[n]} /\ data' = data
       \/ /\ public[n] # None /\ public' = public /\ dropped' = dropped
          /\ data[public[n]].kind = "file" =>
               \A t \in Trans : ~Dead(t) /\ ~Published(t) =>
                 \A i \in 1..Len(ent[t]) :
                   ~(ent[t][i].installed /\ ent[t][i].fresh = public[n])
          /\ \E b \in Bytes : data' = [data EXCEPT ![public[n]].bytes = b]
Nothing == Rest /\ UNCHANGED <<public, data, dropped, hands, saves>>

\* A step, as the invariants see it.
Stride ==
    \/ \E t \in Trans : Moves(t) \/ Waits(t) \/ Appends(t) \/ Stages(t) \/ Publishes(t)
    \/ \E p \in Procs : Crashes(p)
    \/ \E n \in Names : Edits(n)
    \/ Nothing

AllFlags == \A t \in Trans : Flags(t)

\* The entries a crash leaves.
LEMMA RuinIs ==
  ASSUME Types, NEW t \in Trans, NEW e \in Entry, outcome[t] = "none"
  PROVE  Ruin(e, Remains(t, e))
<1> DEFINE n == NewEntry(e.name, None)
           r == [n EXCEPT !.stage = e.stage, !.previous = e.previous,
                          !.rollback = e.rollback, !.sealed = e.sealed]
<1>1. n \in Entry /\ e.name \in Names
  BY NewEntryIs DEF Entry, Place
<1>2. Remains(t, e) = r
  BY DEF Remains
<1>3. /\ n.name = e.name /\ n.expected = None /\ n.bytes = None /\ ~n.unchanged
      /\ Clean(n)
  BY DEF NewEntry, Clean, Bare
<1> HIDE DEF n
<1>4. /\ r.name = n.name /\ r.expected = n.expected /\ r.bytes = n.bytes
      /\ r.unchanged = n.unchanged /\ r.captured = n.captured
      /\ r.capture_valid = n.capture_valid /\ r.installed = n.installed
      /\ r.rollback_pending = n.rollback_pending
      /\ r.stage = e.stage /\ r.previous = e.previous /\ r.rollback = e.rollback
  BY <1>1 DEF Entry
<1> QED BY <1>2, <1>3, <1>4 DEF Ruin, Clean, Bare

\* A crash, as the invariants see it.
LEMMA CrashIs ==
  ASSUME Types, NEW p \in Procs, Crash(p)
  PROVE  Crashes(p)
<1>1. Unseen /\ UNCHANGED <<scene, data, made, dropped, saves, outcome>>
  BY DEF Crash, Unseen
<1>2. ASSUME NEW u \in Trans
      PROVE  /\ ent'[u] \in Seq(Entry) /\ Len(ent'[u]) = Len(ent[u])
             /\ Owner[u] # p => ent'[u] = ent[u] /\ pc'[u] = pc[u] /\ at'[u] = at[u]
             /\ Owner[u] = p =>
                  /\ pc'[u] = "crashed"
                  /\ \A i \in 1..Len(ent[u]) :
                       IF outcome[u] # "none" THEN ent'[u][i] = ent[u][i]
                       ELSE Ruin(ent[u][i], ent'[u][i])
  <2>1. /\ Len(ent[u]) \in Nat /\ DOMAIN ent[u] = 1..Len(ent[u])
        /\ \A i \in 1..Len(ent[u]) : ent[u][i] \in Entry
        /\ ent[u] \in Seq(Entry)
    BY LenIs DEF Types
  <2>0. /\ pc'[u] = IF Owner[u] = p THEN "crashed" ELSE pc[u]
        /\ Owner[u] # p => at'[u] = at[u]
    BY DEF Crash
  <2>2. CASE Owner[u] # p
    <3>1. ent'[u] = ent[u]
      BY <2>2 DEF Crash
    <3> QED BY <2>0, <2>1, <2>2, <3>1
  <2>3. CASE Owner[u] = p
    <3> DEFINE r(i) == Remains(u, ent[u][i])
               s == [i \in 1..Len(ent[u]) |-> r(i)]
    <3>1. ent'[u] = s
      BY <2>1, <2>3 DEF Crash
    <3>2. \A i \in 1..Len(ent[u]) : r(i) \in Entry
      BY <2>1, RemainsIs
    <3>4. outcome[u] # "none" => \A i \in 1..Len(ent[u]) : r(i) = ent[u][i]
      BY DEF Remains
    <3>5. outcome[u] = "none" => \A i \in 1..Len(ent[u]) : Ruin(ent[u][i], r(i))
      BY <2>1, RuinIs
    <3> HIDE DEF r
    <3>3. s \in Seq(Entry) /\ Len(s) = Len(ent[u])
      BY <2>1, <3>2
    <3> QED BY <2>0, <2>3, <3>1, <3>3, <3>4, <3>5
  <2> QED BY <2>2, <2>3
<1>3. ent' \in [Trans -> Seq(Entry)]
  <2>1. ent' = [u \in Trans |-> ent'[u]]
    BY DEF Crash
  <2> QED BY <1>2, <2>1
<1> QED BY <1>1, <1>2, <1>3 DEF Crashes

\* The editors, as the invariants see them.
LEMMA EditIs ==
  ASSUME Types, Exist, NEW n \in Names, Save(n) \/ Remove(n) \/ EditInPlace(n)
  PROVE  Edits(n)
<1>1. CASE Save(n)
  <2> DEFINE k == IF public[n] = None THEN "file" ELSE data[public[n]].kind
             s == SaveOf(saves + 1)
  <2>1. PICK b \in Bytes : data' = [data EXCEPT ![s] = [kind |-> k, bytes |-> b]]
    BY <1>1 DEF Save
  <2>2. /\ Rest /\ Touch("editor", n) /\ saves' = saves + 1
        /\ public' = [public EXCEPT ![n] = s]
        /\ dropped' = dropped \cup ({public[n]} \ {None})
        /\ saves < MaxSaves
    BY <1>1 DEF Save, Rest
  <2>3. s \in Objects
    <3>1. saves + 1 \in 1..MaxSaves
      BY <2>2, PublicationAssumption DEF Types
    <3> QED BY <3>1 DEF Objects
  <2>4. k \in Kinds
    <3>1. public[n] # None => data[public[n]] \in Data
      BY DEF Exist, Known, Types
    <3> QED BY <3>1 DEF Data, Kinds
  <2> HIDE DEF s, k
  <2>5. PICK d \in Data : data' = [data EXCEPT ![s] = d]
    BY <2>1, <2>4 DEF Data
  <2> QED BY <2>2, <2>3, <2>5 DEF Edits, s
<1>2. CASE Remove(n)
  BY <1>2 DEF Remove, Edits, Rest
<1>3. CASE EditInPlace(n)
  <2>1. /\ Rest /\ Touch("editor", n) /\ public[n] # None /\ public' = public
        /\ dropped' = dropped /\ saves' = saves + 1
        /\ data[public[n]].kind = "file" =>
             \A t \in Trans : ~Dead(t) /\ ~Published(t) =>
               \A i \in DOMAIN ent[t] :
                 ~(ent[t][i].installed /\ ent[t][i].fresh = public[n])
        /\ \E b \in Bytes : data' = [data EXCEPT ![public[n]].bytes = b]
    BY <1>3 DEF EditInPlace, Rest
  <2>2. \A t \in Trans : DOMAIN ent[t] = 1..Len(ent[t])
    BY LenIs
  <2> QED BY <2>1, <2>2 DEF Edits
<1> QED BY <1>1, <1>2, <1>3

-----------------------------------------------------------------------------
\* The flags are invariant, and every step is a stride.

\* The others keep their flags.
LEMMA OthersFlagged ==
  ASSUME Types, NEW t \in Trans, Others(t), NEW u \in Trans, u # t, Flags(u),
         pc'[u] = pc[u], at'[u] = at[u], outcome'[u] = outcome[u]
  PROVE  Flagged(u)
BY FlagsStay DEF Others

\* A transaction that does not move at all keeps its flags.
LEMMA StillFlagged ==
  ASSUME Types, NEW u \in Trans, Flags(u), ent'[u] = ent[u],
         pc'[u] = pc[u], at'[u] = at[u], outcome'[u] = outcome[u]
  PROVE  Flagged(u)
<1>1. \A i \in 1..Len(ent[u]) : Like(ent[u][i], ent[u][i])
  BY DEF Like
<1> QED BY <1>1, FlagsStay DEF Types

\* Each step of a transaction.
LEMMA StepStrides ==
  ASSUME Types, AllFlags, NEW t \in Trans, Phase(t), Step(t)
  PROVE  /\ Moves(t) \/ Waits(t) \/ Appends(t) \/ Stages(t) \/ Publishes(t)
         /\ Flagged(t)
<1>1. Flags(t)
  BY DEF AllFlags
<1>2. CASE Open(t)
  BY <1>1, <1>2, OpenWaits
<1>3. CASE Record(t)
  BY <1>1, <1>3, RecordAppends
<1>4. CASE Produce(t)
  BY <1>1, <1>4, ProduceStages
<1>5. CASE Cancelled(t)
  BY <1>1, <1>5, CancelledMoves
<1>6. CASE Validate(t)
  BY <1>1, <1>6, ValidateMoves
<1>7. CASE Capture(t)
  BY <1>1, <1>7, CaptureMoves
<1>8. CASE Install(t)
  BY <1>1, <1>8, InstallMoves
<1>9. CASE Decide(t)
  BY <1>1, <1>9, DecideWaits
<1>10. CASE RollbackCapture(t)
  BY <1>1, <1>10, RollbackCaptureMoves
<1>11. CASE RollbackCheck(t)
  BY <1>1, <1>11, RollbackCheckMoves
<1>12. CASE RestorePrevious(t)
  BY <1>1, <1>12, RestorePreviousMoves
<1>13. CASE FinishEntry(t)
  BY <1>1, <1>13, FinishMoves
<1> QED BY <1>2, <1>3, <1>4, <1>5, <1>6, <1>7, <1>8, <1>9, <1>10, <1>11,
           <1>12, <1>13 DEF Step

\* A transaction of another invocation, and one that dies.
LEMMA CrashFlagged ==
  ASSUME Types, AllFlags, NEW p \in Procs, Crashes(p), NEW t \in Trans
  PROVE  Flagged(t)
<1>1. Flags(t)
  BY DEF AllFlags
<1>2. CASE Owner[t] # p
  BY <1>1, <1>2, StillFlagged DEF Crashes
<1>3. CASE Owner[t] = p
  <2>1. /\ pc'[t] = "crashed" /\ outcome'[t] = outcome[t] /\ Len(ent'[t]) = Len(ent[t])
    BY <1>3 DEF Crashes
  <2>2. Ends("crashed", outcome[t])
    BY DEF Ends
  <2>3. ASSUME NEW i \in 1..Len(ent[t])
        PROVE  Flag(t, i, ent'[t][i], "crashed", at'[t], outcome[t])
    <3>1. Flag(t, i, ent[t][i], pc[t], at[t], outcome[t])
      BY <1>1 DEF Flags
    <3>2. CASE outcome[t] # "none"
      <4>1. ent'[t][i] = ent[t][i]
        BY <1>3, <3>2 DEF Crashes
      <4> QED BY <3>1, <4>1 DEF Flag, Aborting
    <3>3. CASE outcome[t] = "none"
      <4>1. Ruin(ent[t][i], ent'[t][i])
        BY <1>3, <3>3 DEF Crashes
      <4>2. Stat(t, ent'[t][i])
        BY <3>1, <4>1 DEF Flag, Stat, Ruin
      <4> QED BY <3>3, <4>2 DEF Flag, Aborting
    <3> QED BY <3>2, <3>3
  <2> QED BY <2>1, <2>2, <2>3 DEF Flagged
<1> QED BY <1>2, <1>3

\* Every step is one of these, and the flags are invariant.
LEMMA Strides ==
  ASSUME RInv, Exist, AllFlags, [Next]_vars
  PROVE  Stride /\ AllFlags'
<1>0. Types /\ \A t \in Trans : Phase(t)
  BY DEF RInv
<1>1. ASSUME NEW t \in Trans, Step(t)
      PROVE  Stride /\ AllFlags'
  <2>1. /\ Moves(t) \/ Waits(t) \/ Appends(t) \/ Stages(t) \/ Publishes(t)
        /\ Flagged(t)
    BY <1>0, <1>1, StepStrides
  <2>2. scene' = scene
    BY <2>1 DEF Moves, Waits, Appends, Stages, Publishes
  <2>3. ASSUME NEW u \in Trans, u # t
        PROVE  Flagged(u)
    <3>1. Flags(u)
      BY DEF AllFlags
    <3>2. CASE Moves(t)
      BY <1>0, <2>3, <3>1, <3>2, OthersFlagged DEF Moves, Control
    <3>3. CASE Waits(t)
      BY <1>0, <2>3, <3>1, <3>3, StillFlagged DEF Waits, Control
    <3>4. CASE Appends(t)
      BY <1>0, <2>3, <3>1, <3>4, StillFlagged DEF Appends, Control
    <3>5. CASE Stages(t)
      BY <1>0, <2>3, <3>1, <3>5, OthersFlagged DEF Stages, Control
    <3>6. CASE Publishes(t)
      BY <1>0, <2>3, <3>1, <3>6, StillFlagged DEF Publishes
    <3> QED BY <2>1, <3>2, <3>3, <3>4, <3>5, <3>6
  <2>4. AllFlags'
    BY <2>1, <2>2, <2>3, FlagsThen DEF AllFlags
  <2> QED BY <2>1, <2>4 DEF Stride
<1>2. ASSUME Rest PROVE AllFlags'
  <2>1. \A u \in Trans : Flagged(u)
    BY <1>0, <1>2, StillFlagged DEF Rest, AllFlags
  <2> QED BY <1>2, <2>1, FlagsThen DEF Rest, AllFlags
<1>3. ASSUME NEW n \in Names, Save(n) \/ Remove(n) \/ EditInPlace(n)
      PROVE  Stride /\ AllFlags'
  <2>1. Edits(n)
    BY <1>0, <1>3, EditIs
  <2> QED BY <1>2, <2>1 DEF Stride, Edits
<1>4. ASSUME NEW p \in Procs, Crash(p)
      PROVE  Stride /\ AllFlags'
  <2>1. Crashes(p)
    BY <1>0, <1>4, CrashIs
  <2>2. scene' = scene /\ \A u \in Trans : Flagged(u)
    BY <1>0, <2>1, CrashFlagged DEF Crashes
  <2> QED BY <2>1, <2>2, FlagsThen DEF Stride, AllFlags
<1>5. ASSUME NEW p \in Procs, Cancel(p)
      PROVE  Stride /\ AllFlags'
  <2>1. Nothing
    BY <1>5 DEF Cancel, Nothing, Rest
  <2> QED BY <1>2, <2>1 DEF Stride, Nothing
<1>6. CASE UNCHANGED vars
  <2>1. Nothing
    BY <1>6 DEF vars, Nothing, Rest
  <2> QED BY <1>2, <2>1 DEF Stride, Nothing
<1> QED BY <1>1, <1>3, <1>4, <1>5, <1>6 DEF Next

-----------------------------------------------------------------------------
\* A transaction prepares a name once: the scan refuses a name one of its own
\* sealed records holds.
Distinct(t) ==
    /\ \A i, j \in 1..Len(ent[t]) : i # j => ent[t][i].name # ent[t][j].name
    /\ pc[t] = "record" =>
         \A i \in 1..Len(ent[t]) : ent[t][i].name # Outputs[t][at[t]]

AllDistinct == \A t \in Trans : Distinct(t)

\* Every step but an append keeps the entries' names.
LEMMA NamesStay ==
  ASSUME Types, Stride, NEW u \in Trans, ~Appends(u)
  PROVE  /\ Len(ent'[u]) = Len(ent[u])
         /\ \A i \in 1..Len(ent[u]) : ent'[u][i].name = ent[u][i].name
<1>1. ASSUME NEW t \in Trans, Moves(t) \/ Stages(t)
      PROVE  /\ Len(ent'[u]) = Len(ent[u])
             /\ \A i \in 1..Len(ent[u]) : ent'[u][i].name = ent[u][i].name
  <2>1. Others(t) /\ ent'[t][at[t]].name = ent[t][at[t]].name
    BY <1>1 DEF Moves, Stages, Core, Now
  <2> QED BY <2>1 DEF Others, Like
<1>2. ASSUME NEW t \in Trans, Appends(t)
      PROVE  ent'[u] = ent[u]
  BY <1>2 DEF Appends
<1>3. ASSUME NEW t \in Trans, Waits(t) \/ Publishes(t)
      PROVE  ent'[u] = ent[u]
  BY <1>3 DEF Waits, Publishes
<1>4. ASSUME NEW p \in Procs, Crashes(p)
      PROVE  /\ Len(ent'[u]) = Len(ent[u])
             /\ \A i \in 1..Len(ent[u]) : ent'[u][i].name = ent[u][i].name
  BY <1>4 DEF Crashes, Ruin
<1>5. ASSUME Rest PROVE ent'[u] = ent[u]
  BY <1>5 DEF Rest
<1> QED BY <1>1, <1>2, <1>3, <1>4, <1>5 DEF Stride, Edits, Nothing

\* Only the scan makes a transaction record.
LEMMA ScannedFirst ==
  ASSUME Types, Stride, NEW u \in Trans, pc'[u] = "record"
  PROVE  /\ scene' = scene /\ at'[u] = at[u] /\ ~Appends(u)
         /\ pc[u] # "record" => ~Reserved(u, Outputs[u][at[u]]) /\ pc[u] = "open"
<1>1. scene' = scene
  BY DEF Stride, Moves, Waits, Appends, Stages, Publishes, Crashes, Edits, Nothing, Rest
<1>2. ASSUME NEW t \in Trans,
             Moves(t) \/ Waits(t) \/ Appends(t) \/ Stages(t) \/ Publishes(t)
      PROVE  /\ at'[u] = at[u]
             /\ pc[u] # "record" => ~Reserved(u, Outputs[u][at[u]]) /\ pc[u] = "open"
  <2>1. Control(t) \/ Publishes(t)
    BY <1>2 DEF Moves, Waits, Appends, Stages
  <2> QED BY <2>1 DEF Control, Publishes
<1>3. ASSUME NEW p \in Procs, Crashes(p)
      PROVE  at'[u] = at[u] /\ pc[u] = "record"
  BY <1>3 DEF Crashes
<1>4. ASSUME Rest PROVE at'[u] = at[u] /\ pc[u] = "record"
  BY <1>4 DEF Rest
<1>5. ~Appends(u)
  BY DEF Appends
<1> QED BY <1>1, <1>2, <1>3, <1>4, <1>5 DEF Stride, Edits, Nothing

\* The names stay distinct.
LEMMA DistinctKept ==
  ASSUME RInv, AllDistinct, Stride
  PROVE  AllDistinct'
<1> SUFFICES ASSUME NEW t \in Trans PROVE Distinct(t)'
  BY DEF AllDistinct
<1>0. Types /\ Phase(t) /\ Distinct(t) /\ Len(ent[t]) \in Nat
  BY LenIs DEF RInv, AllDistinct
<1>1. pc'[t] = "record" /\ pc[t] # "record" =>
        \A i \in 1..Len(ent[t]) : ent[t][i].name # Outputs[t][at[t]]
  <2> SUFFICES ASSUME pc'[t] = "record", pc[t] # "record", NEW i \in 1..Len(ent[t])
               PROVE  ent[t][i].name # Outputs[t][at[t]]
    OBVIOUS
  <2>1. ~Reserved(t, Outputs[t][at[t]]) /\ pc[t] = "open"
    BY <1>0, ScannedFirst
  <2>2. ~ent[t][i].finished
    BY <1>0, <2>1 DEF Phase, Forward
  <2>3. ent[t][i].sealed /\ arena[Owner[t]].refs > 0
    BY <2>1, <2>2, OwedKept
  <2>4. i \in DOMAIN ent[t]
    BY <1>0, LenIs
  <2> QED BY <2>1, <2>3, <2>4 DEF Reserved, Mine
<1>2. CASE Appends(t)
  <2> DEFINE l == Len(ent[t])
  <2>1. /\ Len(ent'[t]) = l + 1 /\ \A i \in 1..l : ent'[t][i] = ent[t][i]
        /\ ent'[t][l + 1].name = Outputs[t][at[t]] /\ pc[t] = "record" /\ pc'[t] # "record"
    BY <1>2 DEF Appends
  <2>2. ASSUME NEW i \in 1..l + 1, NEW j \in 1..l + 1, i # j
        PROVE  ent'[t][i].name # ent'[t][j].name
    <3>1. (i \in 1..l \/ i = l + 1) /\ (j \in 1..l \/ j = l + 1)
      BY <1>0
    <3>2. \A k \in 1..l : /\ ent'[t][k] = ent[t][k]
                          /\ ent[t][k].name # ent'[t][l + 1].name
      BY <1>0, <2>1 DEF Distinct
    <3>3. CASE i = l + 1 \/ j = l + 1
      BY <2>2, <3>1, <3>2, <3>3
    <3>4. CASE i \in 1..l /\ j \in 1..l
      BY <1>0, <2>2, <3>2, <3>4 DEF Distinct
    <3> QED BY <3>1, <3>3, <3>4
  <2> QED BY <2>1, <2>2 DEF Distinct
<1>3. CASE ~Appends(t)
  <2>1. /\ Len(ent'[t]) = Len(ent[t])
        /\ \A i \in 1..Len(ent[t]) : ent'[t][i].name = ent[t][i].name
    BY <1>0, <1>3, NamesStay
  <2>2. pc'[t] = "record" => Outputs' = Outputs /\ at'[t] = at[t]
    BY <1>0, ScannedFirst DEF Outputs
  <2> QED BY <1>0, <1>1, <2>1, <2>2 DEF Distinct
<1> QED BY <1>2, <1>3

-----------------------------------------------------------------------------
\* What a transaction stages is nobody else's before it is installed.

\* The old entry, and what a rollback has taken.
Prev(e) == IF e.captured THEN e.previous ELSE None
Roll(e) == IF e.rollback_pending THEN e.rollback ELSE None

\* The object is at a public name, or was caught or expected there.
Visible(o) ==
    \/ \E m \in Names : public[m] = o
    \/ \E u \in Trans : \E j \in 1..Len(ent[u]) :
         o \in {Prev(ent[u][j]), Roll(ent[u][j]), ent[u][j].expected}

\* t may still write, or has yet to install, what it stages for n.
Unshown(t, n) ==
    \/ pc[t] \in Early
    \/ pc[t] = "install" /\ \E i \in 1..Len(ent[t]) : i >= at[t] /\ ent[t][i].name = n

Private ==
    \A t \in Trans, n \in Names : Unshown(t, n) =>
      ~Visible(FreshOf(t, n)) /\ data[FreshOf(t, n)] = made[FreshOf(t, n)]

\* Which objects a move touches.
LEMMA MoveTokens ==
  ASSUME Types, NEW t \in Trans, Moves(t), NEW e, e = Now(t),
         NEW x, x = ent'[t][at[t]], NEW n, n = e.name
  PROVE  /\ {Prev(x), Roll(x), x.expected} \subseteq
              {None, public[n], Prev(e), Roll(e), e.expected}
         /\ \A m \in Names : m # n => public'[m] = public[m]
         /\ \/ public'[n] \in {None, public[n], Prev(e), Roll(e)}
            \/ Puts(t, e, x) /\ public'[n] = e.stage
<1>0. n \in Names /\ public \in [Names -> Place] /\ Core(e, x) /\ x.expected = e.expected
  BY DEF Moves, Entry, Types, Core
<1>1. CASE Rests(t, e, x) \/ Judges(t, e, x)
  <2>1. Held(e, x) /\ Rolled(e, x) /\ public' = public
    BY <1>1 DEF Rests, Judges, Unseen
  <2> QED BY <1>0, <2>1 DEF Held, Rolled, Prev, Roll
<1>2. CASE Drops(t, e, x)
  BY <1>0, <1>2 DEF Drops, Rolled, Prev, Roll, Unseen
<1>3. CASE Takes(t, e, x)
  BY <1>0, <1>3 DEF Takes, Rolled, Prev, Roll, Shows
<1>4. CASE GivesBack(t, e, x)
  BY <1>0, <1>4 DEF GivesBack, Rolled, Prev, Roll, Shows
<1>5. CASE Puts(t, e, x)
  BY <1>0, <1>5 DEF Puts, Held, Prev, Roll, Shows
<1>6. CASE Vanishes(t, e, x) \/ Tosses(t, e, x)
  BY <1>0, <1>6 DEF Vanishes, Tosses, Held, Prev, Roll, Unseen
<1>7. CASE Catches(t, e, x)
  <2>1. public' = [public EXCEPT ![n] = IF e.rollback = @ THEN @ ELSE None]
    BY <1>7 DEF Catches
  <2>2. public'[n] \in {None, public[n]} /\ \A m \in Names : m # n => public'[m] = public[m]
    BY <1>0, <2>1
  <2> QED BY <1>0, <1>7, <2>2 DEF Catches, Held, Prev, Roll
<1>8. CASE Returns(t, e, x)
  BY <1>0, <1>8 DEF Returns, Held, Prev, Roll, Shows
<1> QED BY <1>1, <1>2, <1>3, <1>4, <1>5, <1>6, <1>7, <1>8 DEF Moves, Moved

\* Only an installation and a save make an object visible.
LEMMA VisibleBefore ==
  ASSUME Types, Stride, NEW o, o # None, Visible(o)'
  PROVE  \/ Visible(o)
         \/ \E t \in Trans : Moves(t) /\ Puts(t, Now(t), ent'[t][at[t]]) /\ o = Now(t).stage
         \/ o = SaveOf(saves + 1) /\ saves' = saves + 1
<1>1. ASSUME NEW t \in Trans, Moves(t)
      PROVE  Visible(o) \/ (Puts(t, Now(t), ent'[t][at[t]]) /\ o = Now(t).stage)
  <2> DEFINE e == Now(t)
             x == ent'[t][at[t]]
             n == e.name
  <2>1. /\ {Prev(x), Roll(x), x.expected} \subseteq
             {None, public[n], Prev(e), Roll(e), e.expected}
        /\ \A m \in Names : m # n => public'[m] = public[m]
        /\ \/ public'[n] \in {None, public[n], Prev(e), Roll(e)}
           \/ Puts(t, e, x) /\ public'[n] = e.stage
    BY <1>1, MoveTokens
  <2>2. n \in Names /\ at[t] \in 1..Len(ent[t]) /\ Others(t) /\ e = ent[t][at[t]]
    BY <1>1 DEF Moves, Entry, Now
  <2>3. o \in {public[n], Prev(e), Roll(e), e.expected} => Visible(o)
    BY <2>2 DEF Visible
  <2>4. ASSUME NEW m \in Names, public'[m] = o
        PROVE  Visible(o) \/ (Puts(t, e, x) /\ o = e.stage)
    <3>1. CASE m = n
      BY <2>1, <2>3, <2>4, <3>1
    <3>2. CASE m # n
      BY <2>1, <2>4, <3>2 DEF Visible
    <3> QED BY <3>1, <3>2
  <2>5. ASSUME NEW u \in Trans, NEW j \in 1..Len(ent'[u]),
               o \in {Prev(ent'[u][j]), Roll(ent'[u][j]), ent'[u][j].expected}
        PROVE  Visible(o)
    <3>1. j \in 1..Len(ent[u])
      BY <2>2 DEF Others
    <3>2. CASE u = t /\ j = at[t]
      BY <2>1, <2>3, <2>5, <3>2
    <3>3. CASE ~(u = t /\ j = at[t])
      <4>1. Like(ent'[u][j], ent[u][j])
        BY <2>2, <3>1, <3>3 DEF Others
      <4>2. o \in {Prev(ent[u][j]), Roll(ent[u][j]), ent[u][j].expected}
        BY <2>5, <4>1 DEF Like, Prev, Roll
      <4> QED BY <3>1, <4>2 DEF Visible
    <3> QED BY <3>2, <3>3
  <2> HIDE DEF e, x, n
  <2> QED BY <2>4, <2>5 DEF Visible, e, x
<1>2. ASSUME NEW t \in Trans, Waits(t) \/ Publishes(t)
      PROVE  Visible(o)
  BY <1>2 DEF Visible, Waits, Publishes, Unseen, Prev, Roll
<1>3. ASSUME NEW t \in Trans, Appends(t)
      PROVE  Visible(o)
  <2> DEFINE l == Len(ent[t])
  <2>1. /\ public' = public /\ Len(ent'[t]) = l + 1 /\ l \in Nat
        /\ \A i \in 1..l : ent'[t][i] = ent[t][i]
        /\ \A u \in Trans : u # t => ent'[u] = ent[u]
        /\ Outputs[t][at[t]] \in Names
        /\ ent'[t][l + 1].expected = public[Outputs[t][at[t]]]
        /\ Clean(ent'[t][l + 1])
    BY <1>3, LenIs DEF Appends, Unseen
  <2>2. ASSUME NEW u \in Trans, NEW j \in 1..Len(ent'[u]),
               o \in {Prev(ent'[u][j]), Roll(ent'[u][j]), ent'[u][j].expected}
        PROVE  Visible(o)
    <3>1. CASE u = t /\ j = l + 1
      BY <2>1, <2>2, <3>1 DEF Visible, Prev, Roll, Clean, Bare
    <3>2. CASE ~(u = t /\ j = l + 1)
      <4>1. j \in 1..Len(ent[u]) /\ ent'[u][j] = ent[u][j]
        BY <2>1, <3>2
      <4> QED BY <2>2, <4>1 DEF Visible
    <3> QED BY <3>1, <3>2
  <2> QED BY <2>1, <2>2 DEF Visible
<1>4. ASSUME NEW t \in Trans, Stages(t)
      PROVE  Visible(o)
  <2>1. /\ public' = public /\ Others(t) /\ at[t] \in 1..Len(ent[t])
        /\ Core(ent[t][at[t]], ent'[t][at[t]]) /\ Held(ent[t][at[t]], ent'[t][at[t]])
        /\ Rolled(ent[t][at[t]], ent'[t][at[t]])
    BY <1>4 DEF Stages, Unseen, Now
  <2>2. ASSUME NEW u \in Trans, NEW j \in 1..Len(ent'[u]),
               o \in {Prev(ent'[u][j]), Roll(ent'[u][j]), ent'[u][j].expected}
        PROVE  Visible(o)
    <3>1. j \in 1..Len(ent[u])
      BY <2>1 DEF Others
    <3>2. o \in {Prev(ent[u][j]), Roll(ent[u][j]), ent[u][j].expected}
      <4>1. CASE u = t /\ j = at[t]
        BY <2>1, <2>2, <4>1 DEF Core, Held, Rolled, Prev, Roll
      <4>2. CASE ~(u = t /\ j = at[t])
        <5>1. Like(ent'[u][j], ent[u][j])
          BY <2>1, <3>1, <4>2 DEF Others
        <5> QED BY <2>2, <5>1 DEF Like, Prev, Roll
      <4> QED BY <4>1, <4>2
    <3> QED BY <3>1, <3>2 DEF Visible
  <2> QED BY <2>1, <2>2 DEF Visible
<1>5. ASSUME NEW p \in Procs, Crashes(p)
      PROVE  Visible(o)
  <2>1. /\ public' = public /\ \A u \in Trans : Len(ent'[u]) = Len(ent[u])
    BY <1>5 DEF Crashes, Unseen
  <2>2. ASSUME NEW u \in Trans, NEW j \in 1..Len(ent'[u]),
               o \in {Prev(ent'[u][j]), Roll(ent'[u][j]), ent'[u][j].expected}
        PROVE  Visible(o)
    <3>1. j \in 1..Len(ent[u]) /\ (ent'[u][j] = ent[u][j] \/ Ruin(ent[u][j], ent'[u][j]))
      BY <1>5, <2>1 DEF Crashes
    <3>2. ent'[u][j] = ent[u][j]
      BY <2>2, <3>1 DEF Ruin, Prev, Roll, Clean, Bare
    <3> QED BY <2>2, <3>1, <3>2 DEF Visible
  <2> QED BY <2>1, <2>2 DEF Visible
<1>6. ASSUME NEW n \in Names, Edits(n)
      PROVE  Visible(o) \/ (o = SaveOf(saves + 1) /\ saves' = saves + 1)
  <2>1. /\ ent' = ent /\ saves' = saves + 1
        /\ \A m \in Names : public'[m] \in {public[m], None, SaveOf(saves + 1)}
    BY <1>6 DEF Edits, Rest, Types
  <2> QED BY <2>1 DEF Visible, Prev, Roll
<1>7. ASSUME Nothing PROVE Visible(o)
  BY <1>7 DEF Nothing, Rest, Visible, Prev, Roll
<1> QED BY <1>1, <1>2, <1>3, <1>4, <1>5, <1>6, <1>7 DEF Stride

-----------------------------------------------------------------------------
\* A transaction that does not act stays as it is, or its process dies.
Acts(t) == Moves(t) \/ Waits(t) \/ Appends(t) \/ Stages(t) \/ Publishes(t)
Still(u) ==
    /\ pc'[u] = pc[u] /\ at'[u] = at[u] /\ outcome'[u] = outcome[u]
    /\ Len(ent'[u]) = Len(ent[u])
    /\ \A i \in 1..Len(ent[u]) : Like(ent'[u][i], ent[u][i])
Ruined(u) ==
    /\ pc'[u] = "crashed" /\ outcome'[u] = outcome[u]
    /\ Len(ent'[u]) = Len(ent[u])
    /\ \A i \in 1..Len(ent[u]) : IF outcome[u] # "none" THEN ent'[u][i] = ent[u][i]
                                 ELSE Ruin(ent[u][i], ent'[u][i])

\* The scene never changes.
LEMMA SceneStays ==
  ASSUME Stride
  PROVE  scene' = scene
BY DEF Stride, Moves, Waits, Appends, Stages, Publishes, Crashes, Edits, Nothing, Rest

\* What a step is for one transaction.
LEMMA EachActs ==
  ASSUME Types, Stride, NEW u \in Trans
  PROVE  Acts(u) \/ Still(u) \/ Ruined(u)
<1> SUFFICES ASSUME ~Acts(u) PROVE Still(u) \/ Ruined(u)
  OBVIOUS
<1>1. ASSUME NEW t \in Trans, Moves(t) \/ Waits(t) \/ Appends(t) \/ Stages(t) \/ Publishes(t)
      PROVE  Still(u)
  <2>1. u # t
    BY <1>1 DEF Acts
  <2>2. Control(t) \/ Publishes(t)
    BY <1>1 DEF Moves, Waits, Appends, Stages
  <2>3. pc'[u] = pc[u] /\ at'[u] = at[u] /\ outcome'[u] = outcome[u]
    BY <2>1, <2>2 DEF Control, Publishes
  <2>4. CASE Moves(t) \/ Stages(t)
    <3>1. Others(t)
      BY <2>4 DEF Moves, Stages
    <3> QED BY <2>1, <2>3, <3>1 DEF Others, Still
  <2>5. CASE Waits(t) \/ Appends(t) \/ Publishes(t)
    <3>1. ent'[u] = ent[u]
      BY <2>1, <2>5 DEF Waits, Appends, Publishes
    <3> QED BY <2>3, <3>1 DEF Still, Like
  <2> QED BY <1>1, <2>4, <2>5
<1>2. ASSUME NEW p \in Procs, Crashes(p)
      PROVE  Still(u) \/ Ruined(u)
  <2>1. CASE Owner[u] = p
    BY <1>2, <2>1 DEF Crashes, Ruined
  <2>2. CASE Owner[u] # p
    BY <1>2, <2>2 DEF Crashes, Still, Like
  <2> QED BY <2>1, <2>2
<1>3. ASSUME Rest PROVE Still(u)
  BY <1>3 DEF Rest, Still, Like
<1> QED BY <1>1, <1>2, <1>3 DEF Stride, Edits, Nothing

\* What a transaction has yet to install it always had, and a move that
\* installs is over with its entry.
LEMMA UnshownBefore ==
  ASSUME Types, Stride, AllDistinct, NEW t \in Trans, NEW n \in Names, Unshown(t, n)'
  PROVE  Unshown(t, n) /\ (Moves(t) /\ pc[t] = "install" => n # Now(t).name)
<1>1. CASE Still(t)
  <2>1. Unshown(t, n)
    BY <1>1 DEF Still, Unshown, Like
  <2>2. ASSUME Moves(t), pc[t] = "install", n = Now(t).name
        PROVE  FALSE
    <3>1. Control(t) /\ at[t] \in 1..Len(ent[t]) /\ Now(t) = ent[t][at[t]]
      BY <2>2 DEF Moves, Now
    <3>2. pc'[t] = "install" /\ at'[t] = at[t]
      BY <1>1, <2>2 DEF Still
    <3>4. PICK i \in 1..Len(ent[t]) : i >= at[t] /\ ent[t][i].name = n
      BY <1>1, <2>2, <3>2 DEF Unshown, Early, Still, Like
    <3>5. i # at[t]
      BY <2>2, <3>1, <3>2, <3>4 DEF Control, Ahead
    <3> QED BY <2>2, <3>1, <3>4, <3>5 DEF AllDistinct, Distinct
  <2> QED BY <2>1, <2>2
<1>2. CASE Ruined(t)
  BY <1>2 DEF Ruined, Unshown, Early
<1>3. CASE Appends(t) \/ Stages(t)
  BY <1>3 DEF Appends, Stages, Unshown, Early
<1>4. CASE Publishes(t)
  BY <1>4 DEF Publishes, Unshown, Early
<1>5. CASE Moves(t) \/ Waits(t)
  <2>1. Control(t) /\ Len(ent'[t]) = Len(ent[t])
        /\ \A i \in 1..Len(ent[t]) : ent'[t][i].name = ent[t][i].name
    <3>1. ~Appends(t)
      BY <1>5 DEF Appends, Moves, Waits, Others
    <3> QED BY <1>5, <3>1, NamesStay DEF Moves, Waits
  <2>2. CASE pc'[t] \in Early
    BY <2>1, <2>2 DEF Control, Unshown, Early
  <2>3. CASE pc'[t] \notin Early
    <3>1. PICK i \in 1..Len(ent[t]) : /\ pc'[t] = "install" /\ i >= at'[t]
                                      /\ ent[t][i].name = n
      BY <2>1, <2>3 DEF Unshown
    <3>2. Ahead(t, i) /\ (pc[t] = "install" => i # at[t])
      BY <2>1, <3>1 DEF Control, Ahead
    <3>3. Unshown(t, n)
      BY <3>1, <3>2 DEF Unshown, Ahead
    <3>4. ASSUME Moves(t), pc[t] = "install" PROVE n # Now(t).name
      <4>1. at[t] \in 1..Len(ent[t]) /\ Now(t) = ent[t][at[t]]
        BY <3>4 DEF Moves, Now
      <4> QED BY <3>1, <3>2, <3>4, <4>1 DEF AllDistinct, Distinct
    <3> QED BY <3>3, <3>4
  <2> QED BY <2>2, <2>3
<1> QED BY <1>1, <1>2, <1>3, <1>4, <1>5, EachActs DEF Acts

\* Staged objects are told apart, and from the editors'.
LEMMA FreshApart ==
  ASSUME NEW t \in Trans, NEW n, NEW u \in Trans, NEW m, NEW k
  PROVE  /\ FreshOf(t, n) = FreshOf(u, m) => t = u /\ n = m
         /\ FreshOf(t, n) # SaveOf(k)
         /\ FreshOf(t, n) # OldOf(m)
         /\ n \in Names => FreshOf(t, n) \in Objects /\ FreshOf(t, n) # None
<1>1. t # "save" /\ t # "old"
  BY MarksAssumption
<1>2. n \in Names => FreshOf(t, n) \in Objects
  BY DEF Objects
<1>3. n \in Names => FreshOf(t, n) # None
  BY <1>2, MarksAssumption
<1> QED BY <1>1, <1>2, <1>3 DEF FreshOf, SaveOf, OldOf

\* What is in the stage.
LEMMA StageIs ==
  ASSUME AllFlags, NEW t \in Trans, NEW i \in 1..Len(ent[t])
  PROVE  ent[t][i].stage \in {None, FreshOf(t, ent[t][i].name)}
BY DEF AllFlags, Flags, Flag, Stat

\* Every step keeps what is not yet installed private.
LEMMA PrivateKept ==
  ASSUME Types, AllFlags, AllDistinct, Private, Stride
  PROVE  Private'
<1> SUFFICES ASSUME NEW t \in Trans, NEW n \in Names, Unshown(t, n)'
             PROVE  ~Visible(FreshOf(t, n))' /\ data'[FreshOf(t, n)] = made'[FreshOf(t, n)]
  BY DEF Private, FreshOf
<1> DEFINE f == FreshOf(t, n)
<1>1. Unshown(t, n) /\ (Moves(t) /\ pc[t] = "install" => n # Now(t).name)
  BY UnshownBefore
<1>2. ~Visible(f) /\ data[f] = made[f] /\ f # None /\ f \in Objects
  BY <1>1, FreshApart DEF Private
<1>3. ~Visible(f)'
  <2> SUFFICES ASSUME Visible(f)' PROVE FALSE
    OBVIOUS
  <2>1. f # SaveOf(saves + 1)
    BY FreshApart
  <2> HIDE DEF f
  <2>2. PICK u \in Trans : /\ Moves(u) /\ Puts(u, Now(u), ent'[u][at[u]])
                           /\ f = Now(u).stage
    BY <1>2, <2>1, VisibleBefore
  <2>3. pc[u] = "install" /\ at[u] \in 1..Len(ent[u]) /\ Now(u) = ent[u][at[u]]
    BY <2>2 DEF Moves, Puts, Now
  <2>4. f = FreshOf(u, Now(u).name)
    BY <1>2, <2>2, <2>3, StageIs
  <2>5. u = t /\ n = Now(u).name
    BY <2>4 DEF f, FreshOf
  <2> QED BY <1>1, <2>2, <2>3, <2>5
<1>4. data'[f] = made'[f]
  <2>1. CASE UNCHANGED <<data, made>>
    BY <1>2, <2>1
  <2>2. ASSUME NEW u \in Trans, Stages(u)
        PROVE  data'[f] = made'[f]
    <3> DEFINE g == FreshOf(u, Now(u).name)
    <3>1. /\ g \in Objects /\ made' = [made EXCEPT ![g] = data'[g]]
          /\ data' = data \/ \E d \in Data : data' = [data EXCEPT ![g] = d]
      BY <2>2 DEF Stages
    <3> HIDE DEF f, g
    <3> QED BY <1>2, <3>1 DEF Types
  <2>3. ASSUME NEW m \in Names, Edits(m)
        PROVE  data'[f] = made'[f]
    <3>1. made' = made
      BY <2>3 DEF Edits, Rest
    <3>2. f # SaveOf(saves + 1)
      BY FreshApart
    <3>3. public[m] # f
      BY <1>2 DEF Visible
    <3>4. \/ \E d \in Data : data' = [data EXCEPT ![SaveOf(saves + 1)] = d]
          \/ data' = data
          \/ \E b \in Bytes : data' = [data EXCEPT ![public[m]].bytes = b]
      BY <2>3 DEF Edits
    <3> HIDE DEF f
    <3> QED BY <1>2, <3>1, <3>2, <3>3, <3>4 DEF Types
  <2> QED BY <2>1, <2>2, <2>3
          DEF Stride, Moves, Waits, Appends, Publishes, Crashes, Nothing, Rest
<1> QED BY <1>3, <1>4

-----------------------------------------------------------------------------
\* What validation has seen is what the tools put there.

\* A validation that succeeds remembers the stage.
Seen(e, x) ==
    /\ x.fresh = e.stage
    /\ e.stage # None /\ data[e.stage] # None /\ data[e.stage].kind = "dir" =>
         x.tree = data[e.stage]
Sees(t) ==
    \A i \in 1..Len(ent[t]) :
      pc[t] = "validate" /\ i = at[t] /\ Validated(t, i)'
        /\ ent[t][i].name \notin DeleteOnly[t] => Seen(ent[t][i], ent'[t][i])

\* Validation itself.
LEMMA ValidateSees ==
  ASSUME Types, NEW t \in Trans, Phase(t), Validate(t),
         pc'[t] \notin {"restore", "ended"}, Now(t).name \notin DeleteOnly[t]
  PROVE  Seen(Now(t), ent'[t][at[t]])
<1> DEFINE e == Now(t)
           d == IF e.stage = None THEN None ELSE data[e.stage]
           tree == IF d # None /\ d.kind = "dir" THEN d ELSE None
           b == e.bytes # None /\ e.bytes = d
           x == [e EXCEPT !.fresh = e.stage, !.tree = tree, !.unchanged = b]
<1>1. ~Abort(t)
  BY DEF Abort, Types
<1>2. Update(t, x)
  BY <1>1 DEF Validate
<1>3. at[t] \in 1..Len(ent[t]) /\ e \in Entry
  BY NowIs DEF Validate, Going, Working
<1>4. e.stage \in Place /\ d \in Data \cup {None} /\ tree \in Data \cup {None} /\ b \in BOOLEAN
  BY <1>3 DEF Entry, Types, Place
<1> HIDE DEF e, d, b
<1>5. x \in Entry
  BY <1>3, <1>4 DEF Entry
<1>6. x.fresh = e.stage /\ x.tree = tree
  BY <1>3, <1>5 DEF Entry
<1> HIDE DEF x
<1>7. ent'[t][at[t]] = x
  BY <1>2, <1>3, <1>5, UpdateStep DEF Types, Updated
<1> QED BY <1>6, <1>7 DEF Seen, d, e

\* Every step sees.
LEMMA StepSees ==
  ASSUME RInv, AllFlags, [Next]_vars, NEW t \in Trans
  PROVE  Sees(t)
<1>0. Types /\ \A u \in Trans : Phase(u)
  BY DEF RInv
<1> SUFFICES ASSUME NEW i \in 1..Len(ent[t]), pc[t] = "validate", i = at[t],
                    Validated(t, i)', ent[t][i].name \notin DeleteOnly[t]
             PROVE  Seen(ent[t][i], ent'[t][i])
  BY DEF Sees
<1>1. /\ ~(pc'[t] = pc[t] /\ at'[t] = at[t])
      /\ pc'[t] \notin {"restore", "ended", "crashed"}
  BY DEF Validated
<1>2. ASSUME NEW u \in Trans, Step(u)
      PROVE  Seen(ent[t][i], ent'[t][i])
  <2>1. Moves(u) \/ Waits(u) \/ Appends(u) \/ Stages(u) \/ Publishes(u)
    BY <1>0, <1>2, StepStrides
  <2>2. Control(u) \/ Publishes(u)
    BY <2>1 DEF Moves, Waits, Appends, Stages
  <2>3. u = t
    BY SMTT(60), <1>1, <2>2 DEF Control, Publishes
  <2>4. Validate(t) \/ Cancelled(t)
    BY ZenonT(120), <1>2, <2>3
    DEF Step, Open, Record, Produce, Capture, Going, Install, Decide,
       RollbackCapture, RollbackCheck, RestorePrevious, FinishEntry
  <2>5. ~Cancelled(t)
    BY <1>0, <1>1 DEF Cancelled, Abort, Types
  <2> QED BY <1>0, <1>1, <2>4, <2>5, ValidateSees DEF Now
<1>3. \A p \in Procs : Crash(p) => /\ pc'[t] \in {pc[t], "crashed"}
                                 /\ (pc'[t] = pc[t] => at'[t] = at[t])
  <2> SUFFICES ASSUME NEW p \in Procs, Crash(p)
               PROVE  pc'[t] \in {pc[t], "crashed"} /\ (pc'[t] = pc[t] => at'[t] = at[t])
    OBVIOUS
  <2> QED BY DEF Crash
<1>4. \A p \in Procs : Cancel(p) => pc' = pc /\ at' = at
  BY DEF Cancel
<1>5. \A n \in Names : Save(n) \/ Remove(n) \/ EditInPlace(n) => pc' = pc /\ at' = at
  BY DEF Save, Remove, EditInPlace
<1>6. ~UNCHANGED vars
  BY <1>1 DEF vars
<1> QED BY <1>1, <1>2, <1>3, <1>4, <1>5, <1>6 DEF Next

\* What becomes of a staged object: only its tools write it, and an editor may
\* write in place to a file no running transaction has installed.
LEMMA FreshData ==
  ASSUME Types, Exist, Stride, NEW t \in Trans, NEW n \in Names,
         NEW f, f = FreshOf(t, n), ~(Stages(t) /\ Now(t).name = n), data[f] # None
  PROVE  /\ made'[f] = made[f] /\ data'[f] # None /\ data'[f].kind = data[f].kind
         /\ \/ data'[f] = data[f]
            \/ data[f].kind = "file" =>
                 \A u \in Trans : ~Dead(u) /\ ~Published(u) =>
                   \A i \in 1..Len(ent[u]) :
                     ~(ent[u][i].installed /\ ent[u][i].fresh = f)
<1>0. f \in Objects /\ f # SaveOf(saves + 1)
  BY FreshApart
<1>1. CASE UNCHANGED <<data, made>>
  BY <1>1
<1>2. ASSUME NEW u \in Trans, Stages(u)
      PROVE  made'[f] = made[f] /\ data'[f] = data[f]
  <2> DEFINE g == FreshOf(u, Now(u).name)
  <2>1. /\ g \in Objects /\ made' = [made EXCEPT ![g] = data'[g]]
        /\ data' = data \/ \E d \in Data : data' = [data EXCEPT ![g] = d]
    BY <1>2 DEF Stages
  <2>2. g # f
    BY <1>2 DEF FreshOf
  <2> HIDE DEF g
  <2> QED BY <1>0, <2>1, <2>2 DEF Types
<1>3. ASSUME NEW m \in Names, Edits(m)
      PROVE  /\ made'[f] = made[f] /\ data'[f] # None /\ data'[f].kind = data[f].kind
             /\ \/ data'[f] = data[f]
                \/ data[f].kind = "file" =>
                     \A u \in Trans : ~Dead(u) /\ ~Published(u) =>
                       \A i \in 1..Len(ent[u]) :
                         ~(ent[u][i].installed /\ ent[u][i].fresh = f)
  <2>1. made' = made
    BY <1>3 DEF Edits, Rest
  <2>2. CASE \/ data' = data
             \/ \E d \in Data : data' = [data EXCEPT ![SaveOf(saves + 1)] = d]
    BY <1>0, <2>1, <2>2 DEF Types
  <2>3. ASSUME NEW b \in Bytes, data' = [data EXCEPT ![public[m]].bytes = b], public[m] # None,
               data[public[m]].kind = "file" =>
                 \A u \in Trans : ~Dead(u) /\ ~Published(u) =>
                   \A i \in 1..Len(ent[u]) :
                     ~(ent[u][i].installed /\ ent[u][i].fresh = public[m])
        PROVE  /\ data'[f] # None /\ data'[f].kind = data[f].kind
               /\ \/ data'[f] = data[f]
                  \/ data[f].kind = "file" =>
                       \A u \in Trans : ~Dead(u) /\ ~Published(u) =>
                         \A i \in 1..Len(ent[u]) :
                           ~(ent[u][i].installed /\ ent[u][i].fresh = f)
    <3>1. CASE public[m] # f
      BY <1>0, <2>3, <3>1 DEF Types
    <3>2. CASE public[m] = f
      <4>1. data'[f] = [data[f] EXCEPT !.bytes = b] /\ data[f] \in Data
        BY <1>0, <2>3, <3>2 DEF Types
      <4>2. data'[f] \in Data /\ data'[f].kind = data[f].kind
        BY <4>1 DEF Data
      <4>3. data'[f] # None
        BY <4>2, MarksAssumption
      <4> QED BY <2>3, <3>2, <4>2, <4>3
    <3> QED BY <3>1, <3>2
  <2> QED BY <1>3, <2>1, <2>2, <2>3 DEF Edits
<1> QED BY <1>1, <1>2, <1>3
        DEF Stride, Moves, Waits, Appends, Publishes, Crashes, Nothing, Rest

\* Entry i of t: what it stages is what the tools made, and while it is
\* installed or about to be, it knows that as its own.
Gate(t, i) ==
    LET e == ent[t][i]
        f == FreshOf(t, e.name)
    IN  /\ e.name \notin DeleteOnly[t] =>
             /\ Produced(t, i) => e.stage = f /\ data[f] # None
             /\ Validated(t, i) =>
                  e.fresh = f /\ (made[f].kind = "dir" => e.tree = made[f])
        /\ e.installed /\ pc[t] \in Forward \cup Aborting =>
             /\ e.fresh = f /\ data[f] # None /\ data[f].kind = made[f].kind
             /\ made[f].kind = "file" => data[f] = made[f]
             /\ made[f].kind = "dir" => e.tree = made[f]
Gates == \A t \in Trans : \A i \in 1..Len(ent[t]) : Gate(t, i)

\* An entry that stays as it is.
LEMMA GateStays ==
  ASSUME Types, Exist, AllFlags, Stride, NEW t \in Trans, NEW i \in 1..Len(ent[t]),
         Gate(t, i), ~(Stages(t) /\ Now(t).name = ent[t][i].name),
         Produced(t, i)' => Produced(t, i), Validated(t, i)' => Validated(t, i),
         pc'[t] \in Forward \cup Aborting => pc[t] \in Forward \cup Aborting,
         ent'[t][i].name = ent[t][i].name,
         Produced(t, i)' => ent'[t][i].stage = ent[t][i].stage,
         ent'[t][i].fresh = ent[t][i].fresh, ent'[t][i].tree = ent[t][i].tree,
         ent'[t][i].installed => ent[t][i].installed
  PROVE  Gate(t, i)'
<1> DEFINE e == ent[t][i]
           x == ent'[t][i]
           f == FreshOf(t, e.name)
<1>1. DeleteOnly' = DeleteOnly /\ e.name \in Names /\ e \in Entry
  BY SceneStays, LenIs DEF DeleteOnly, Entry
<1>2. data[f] # None =>
        /\ made'[f] = made[f] /\ data'[f] # None /\ data'[f].kind = data[f].kind
        /\ \/ data'[f] = data[f]
           \/ data[f].kind = "file" =>
                \A u \in Trans : ~Dead(u) /\ ~Published(u) =>
                  \A j \in 1..Len(ent[u]) :
                    ~(ent[u][j].installed /\ ent[u][j].fresh = f)
  BY <1>1, FreshData
<1>3. x.name \notin DeleteOnly'[t] /\ Produced(t, i)' => x.stage = f /\ data'[f] # None
  BY <1>1, <1>2 DEF Gate
<1>4. Validated(t, i) => Produced(t, i) \/ pc[t] = "validate"
  BY DEF Validated, Produced
<1>5. Validated(t, i) => Produced(t, i)
  BY DEF Validated, Produced
<1>6. x.name \notin DeleteOnly'[t] /\ Validated(t, i)' =>
        x.fresh = f /\ (made'[f].kind = "dir" => x.tree = made'[f])
  BY <1>1, <1>2, <1>5 DEF Gate
<1>7. ASSUME x.installed, pc'[t] \in Forward \cup Aborting
      PROVE  /\ x.fresh = f /\ data'[f] # None /\ data'[f].kind = made'[f].kind
             /\ made'[f].kind = "file" => data'[f] = made'[f]
             /\ made'[f].kind = "dir" => x.tree = made'[f]
  <2>1. /\ e.installed /\ e.fresh = f /\ data[f] # None /\ data[f].kind = made[f].kind
        /\ made[f].kind = "file" => data[f] = made[f]
        /\ made[f].kind = "dir" => e.tree = made[f]
        /\ pc[t] \in Forward \cup Aborting
    BY <1>7 DEF Gate
  <2>2. ~Dead(t) /\ ~Published(t)
    BY <2>1 DEF Dead, Published, Forward, Aborting, AllFlags, Flags, Ends
  <2>3. made[f].kind = "file" => data'[f] = data[f]
    BY <1>2, <2>1, <2>2
  <2> QED BY <1>2, <2>1, <2>3
<1> QED BY <1>1, <1>3, <1>6, <1>7 DEF Gate

\* The entry a transaction moves.
LEMMA GateMoves ==
  ASSUME Types, Exist, AllFlags, Private, Stride, NEW t \in Trans,
         Sees(t), Moves(t), Gate(t, at[t])
  PROVE  \A i \in 1..Len(ent[t]) : i = at[t] => Gate(t, i)'
<1> SUFFICES ASSUME NEW i \in 1..Len(ent[t]), i = at[t]
             PROVE  Gate(t, i)'
  OBVIOUS
<1> DEFINE e == ent[t][i]
           x == ent'[t][i]
           f == FreshOf(t, e.name)
           n == e.name
<1>1. /\ e = Now(t) /\ e \in Entry /\ n \in Names /\ Core(e, x) /\ Control(t)
      /\ UNCHANGED <<data, made, scene>> /\ pc[t] # "produce"
  BY DEF Moves, Now, Entry
<1>2. ~Stages(t) /\ x.name = n /\ DeleteOnly' = DeleteOnly
  BY <1>1 DEF Stages, Core, DeleteOnly
<1>3. Produced(t, i)' => Produced(t, i) /\ Ahead(t, i)'
  BY <1>1 DEF Control, Produced, Ahead, Early
<1>4. Produced(t, i)' => pc[t] # "install"
  BY <1>1, <1>3 DEF Control
<1>5. pc'[t] \in Forward \cup Aborting => pc[t] \in Forward \cup Aborting
  BY <1>1 DEF Control
<1>6. Validated(t, i)' => Validated(t, i) \/ pc[t] = "validate"
  BY <1>1 DEF Control
<1>7. ASSUME x.installed => e.installed, x.fresh = e.fresh, x.tree = e.tree,
             Produced(t, i)' => x.stage = e.stage, pc[t] # "validate"
      PROVE  Gate(t, i)'
  BY <1>1, <1>2, <1>3, <1>5, <1>6, <1>7, GateStays
<1>8. ASSUME pc[t] = "validate", x.installed => e.installed, x.stage = e.stage
      PROVE  Gate(t, i)'
  <2>1. Clean(e)
    BY <1>8 DEF AllFlags, Flags, Flag
  <2>2. Unshown(t, n)
    BY <1>8 DEF Unshown, Early
  <2>3. data[f] = made[f] /\ f # None
    <3>1. data[f] = made[f]
      BY <1>1, <2>2 DEF Private
    <3>2. f # None
      BY <1>1, FreshApart
    <3> QED BY <3>1, <3>2
  <2>4. ASSUME n \notin DeleteOnly[t]
        PROVE  e.stage = f /\ data[f] # None
    BY <1>8, <2>4 DEF Gate, Produced
  <2>5. ASSUME n \notin DeleteOnly[t], Validated(t, i)'
        PROVE  x.fresh = f /\ (made[f].kind = "dir" => x.tree = made[f])
    <3>1. Seen(e, x)
      BY <1>8, <2>5 DEF Sees
    <3> QED BY <2>3, <2>4, <2>5, <3>1 DEF Seen
  <2> QED BY <1>1, <1>2, <1>8, <2>1, <2>4, <2>5 DEF Gate, Clean, Bare
<1>9. CASE Judges(t, e, x)
  BY <1>8, <1>9 DEF Judges, Rolled
<1>10. CASE Puts(t, e, x)
  <2>1. pc[t] = "install" /\ n \notin DeleteOnly[t] /\ x.fresh = e.fresh /\ x.tree = e.tree
    BY <1>10 DEF Puts, Judged
  <2>2. Produced(t, i) /\ Validated(t, i) /\ Unshown(t, n)
    BY <2>1 DEF Produced, Validated, Unshown
  <2>3. data[f] = made[f] /\ e.fresh = f /\ data[f] # None
        /\ (made[f].kind = "dir" => e.tree = made[f])
    BY <1>1, <2>1, <2>2 DEF Gate, Private
  <2>4. ~Produced(t, i)' /\ ~Validated(t, i)'
    BY <1>3, <1>4, <1>6, <2>1 DEF Validated, Produced
  <2> QED BY <1>1, <1>2, <2>1, <2>3, <2>4 DEF Gate
<1>11. CASE Drops(t, e, x)
  BY <1>3, <1>7, <1>11 DEF Drops, Judged, Rolled, Produced
<1>12. CASE Takes(t, e, x) \/ GivesBack(t, e, x) \/ Vanishes(t, e, x) \/ Catches(t, e, x)
            \/ Tosses(t, e, x) \/ Returns(t, e, x) \/ Rests(t, e, x)
  <2>1. x.fresh = e.fresh /\ x.tree = e.tree /\ x.stage = e.stage
        /\ (x.installed => e.installed)
    BY <1>12 DEF Takes, GivesBack, Vanishes, Catches, Tosses, Returns, Rests, Judged, Rolled
  <2> QED BY SMTT(60), <1>7, <1>8, <2>1
<1> QED BY <1>1, <1>9, <1>10, <1>11, <1>12 DEF Moves, Moved

\* Every step keeps the gate.
LEMMA GatesKept ==
  ASSUME RInv, Exist, AllFlags, AllDistinct, Private, Gates, Stride,
         \A t \in Trans : Sees(t)
  PROVE  Gates'
<1> SUFFICES ASSUME NEW t \in Trans, NEW i \in 1..Len(ent'[t])
             PROVE  Gate(t, i)'
  BY DEF Gates
<1>0. Types /\ Len(ent[t]) \in Nat
  BY LenIs DEF RInv
<1>1. CASE Appends(t) /\ i = Len(ent[t]) + 1
  BY <1>1 DEF Appends, Gate, Clean, Bare
<1>2. CASE Appends(t) /\ i # Len(ent[t]) + 1
  <2>1. i \in 1..Len(ent[t]) /\ ent'[t][i] = ent[t][i] /\ Control(t) /\ pc[t] = "record"
    BY <1>0, <1>2 DEF Appends
  <2>2. Gate(t, i) /\ ~Stages(t)
    BY <2>1 DEF Gates, Stages
  <2> QED BY <1>0, <2>1, <2>2, GateStays DEF Control
<1>3. CASE Stages(t)
  <2>1. /\ Others(t) /\ Control(t) /\ pc[t] = "produce" /\ i \in 1..Len(ent[t])
        /\ Core(Now(t), ent'[t][at[t]]) /\ Now(t) = ent[t][at[t]]
        /\ Rolled(Now(t), ent'[t][at[t]]) /\ at[t] \in 1..Len(ent[t])
    BY <1>3 DEF Stages, Others, Now
  <2>2. ~Validated(t, i)'
    BY <2>1 DEF Control, Validated
  <2>3. CASE i = at[t]
    <3> DEFINE n == Now(t).name
               f == FreshOf(t, n)
    <3>1. Clean(Now(t)) /\ ~ent'[t][i].installed /\ ent'[t][i].name = n
          /\ n \in Names /\ DeleteOnly' = DeleteOnly
      BY <1>3, <2>1, <2>3 DEF Stages, Clean, Bare, Rolled, Core, Entry, DeleteOnly
    <3>2. n \notin DeleteOnly[t] => ent'[t][i].stage = f /\ data'[f] # None
      <4> SUFFICES ASSUME n \notin DeleteOnly[t]
                   PROVE  ent'[t][i].stage = f /\ data'[f] # None
        OBVIOUS
      <4>1. ent'[t][i].stage = f /\ f \in Objects
            /\ \E d \in Data : data' = [data EXCEPT ![f] = d]
        BY <1>3, <2>3 DEF Stages
      <4> HIDE DEF f
      <4> QED BY <1>0, <4>1, MarksAssumption DEF Types
    <3> QED BY <2>2, <3>1, <3>2 DEF Gate
  <2>4. CASE i # at[t]
    <3>1. Like(ent'[t][i], ent[t][i]) /\ Gate(t, i)
      BY <2>1, <2>4 DEF Others, Gates
    <3>2. Now(t).name # ent[t][i].name
      BY <2>1, <2>4 DEF AllDistinct, Distinct
    <3> QED BY <1>0, <2>1, <2>2, <2>4, <3>1, <3>2, GateStays DEF Control, Like
  <2> QED BY <2>3, <2>4
<1>4. CASE ~Stages(t) /\ Waits(t)
  <2>1. /\ ent' = ent /\ Gate(t, i) /\ i \in 1..Len(ent[t])
    BY <1>4 DEF Waits, Gates
  <2>2. Control(t) /\ pc[t] # "validate" /\ (pc[t] = "produce" => pc'[t] \in {"restore", "ended"})
    BY <1>4 DEF Waits
  <2>3. /\ Produced(t, i)' => Produced(t, i)
        /\ Validated(t, i)' => Validated(t, i)
        /\ pc'[t] \in Forward \cup Aborting => pc[t] \in Forward \cup Aborting
    BY <2>1, <2>2 DEF Control, Produced
  <2> QED BY <1>0, <1>4, <2>1, <2>3, GateStays
<1>5. CASE ~Stages(t) /\ Publishes(t)
  <2>1. /\ ent' = ent /\ Gate(t, i) /\ i \in 1..Len(ent[t]) /\ pc'[t] = "publish"
    BY <1>5 DEF Publishes, Gates
  <2>2. ~Produced(t, i)' /\ ~Validated(t, i)' /\ pc'[t] \notin Forward \cup Aborting
    BY <2>1 DEF Produced, Validated, Forward, Aborting
  <2> QED BY <1>0, <1>5, <2>1, <2>2, GateStays
<1>6. CASE Moves(t)
  <2>1. /\ Others(t) /\ Control(t) /\ pc[t] # "produce" /\ i \in 1..Len(ent[t])
        /\ at[t] \in 1..Len(ent[t]) /\ ~Stages(t)
    BY <1>6 DEF Moves, Others, Stages
  <2>2. Gate(t, i)
    BY <2>1 DEF Gates
  <2>3. CASE i = at[t]
    BY <1>0, <1>6, <2>1, <2>2, <2>3, GateMoves
  <2>4. CASE i # at[t]
    <3>1. Like(ent'[t][i], ent[t][i])
      BY <2>1, <2>4 DEF Others
    <3> QED BY <1>0, <2>1, <2>2, <2>4, <3>1, GateStays DEF Control, Like
  <2> QED BY <2>3, <2>4
<1>7. CASE ~Stages(t) /\ Still(t)
  <2>1. /\ i \in 1..Len(ent[t]) /\ Like(ent'[t][i], ent[t][i]) /\ Gate(t, i)
        /\ pc'[t] = pc[t] /\ at'[t] = at[t]
    BY <1>7 DEF Still, Gates
  <2>2. Produced(t, i)' = Produced(t, i) /\ Validated(t, i)' = Validated(t, i)
    BY <2>1 DEF Produced, Validated
  <2> QED BY <1>0, <1>7, <2>1, <2>2, GateStays DEF Like
<1>8. CASE Ruined(t)
  <2>1. pc'[t] = "crashed"
    BY <1>8 DEF Ruined
  <2>2. ~Produced(t, i)' /\ ~Validated(t, i)' /\ pc'[t] \notin Forward \cup Aborting
    BY <2>1 DEF Produced, Validated, Forward, Aborting
  <2> QED BY <2>2 DEF Gate
<1> QED BY <1>0, <1>1, <1>2, <1>3, <1>4, <1>5, <1>6, <1>7, <1>8, EachActs DEF Acts

-----------------------------------------------------------------------------
\* A group whose names nobody else touches.

\* What the public name shows in the end.
Final(t, e) == IF e.name \in DeleteOnly[t] THEN None
               ELSE IF e.unchanged THEN e.expected ELSE FreshOf(t, e.name)

\* The public name shows o, what nobody but t has made it show; r is whether
\* the group is published.
Calm(t, e, o, r) ==
    IF r THEN o = Final(t, e)
    ELSE /\ o = IF e.installed
                  THEN IF e.rollback_pending THEN None ELSE FreshOf(t, e.name)
                  ELSE IF e.captured THEN None ELSE e.expected
         /\ e.captured => e.previous = e.expected
         /\ e.installed => e.captured \/ e.expected = None
         /\ e.rollback = IF e.rollback_pending THEN FreshOf(t, e.name) ELSE None

\* Nobody else has touched the name, and t remembers what it did.
Ours(t, n) == hands[n] \in {None, t} /\ ~(pc[t] = "crashed" /\ outcome[t] = "none")

Undisturbed ==
    /\ hands \in [Names -> Trans \cup {None, "editor", "several"}]
    /\ \A t \in Trans : \A i \in 1..Len(ent[t]) :
         Ours(t, ent[t][i].name) =>
           Calm(t, ent[t][i], public[ent[t][i].name], Published(t))

\* Entries alike are alike in this.
LEMMA CalmLike ==
  ASSUME NEW a, NEW b, Like(a, b), NEW t, NEW o, NEW r
  PROVE  Calm(t, a, o, r) <=> Calm(t, b, o, r)
BY DEF Calm, Like, Final

\* Whoever touches a name is known to have.
LEMMA TouchIs ==
  ASSUME hands \in [Names -> Trans \cup {None, "editor", "several"}],
         NEW t \in Trans \cup {"editor"}, NEW n \in Names, Touch(t, n)
  PROVE  /\ hands' \in [Names -> Trans \cup {None, "editor", "several"}]
         /\ \A m \in Names : m # n => hands'[m] = hands[m]
         /\ hands'[n] # None
         /\ t \in Trans /\ hands'[n] = t => hands[n] \in {None, t}
         /\ \A u \in Trans : u # t => hands'[n] # u
<1>1. {"editor", "several"} \cap (Trans \cup {None}) = {} /\ None \notin Trans
  BY MarksAssumption
<1>2. hands'[n] = IF hands[n] \in {None, t} THEN t ELSE "several"
  BY DEF Touch
<1>3. t # None /\ t # "several"
  BY <1>1
<1> QED BY <1>1, <1>2, <1>3 DEF Touch

\* A move touches one name at most.
LEMMA MoveTouches ==
  ASSUME Types, NEW t \in Trans, Moves(t), NEW n, n = Now(t).name
  PROVE  /\ n \in Names
         /\ \A m \in Names : m # n => public'[m] = public[m]
         /\ (hands' = hands /\ public' = public) \/ Touch(t, n)
<1>1. /\ n \in Names
      /\ \A m \in Names : m # n => public'[m] = public[m]
  <2>1. n \in Names
    BY DEF Moves, Entry
  <2> QED BY <2>1, MoveTokens
<1>2. (hands' = hands /\ public' = public) \/ Touch(t, n)
  BY DEF Moves, Moved, Rests, Judges, Takes, GivesBack, Puts, Vanishes, Catches, Tosses,
         Returns, Drops, Unseen, Shows
<1> QED BY <1>1, <1>2

\* The entry a transaction moves stays calm.
LEMMA CalmMoves ==
  ASSUME Types, AllFlags, Gates, NEW t \in Trans, Moves(t),
         NEW e, e = Now(t), NEW x, x = ent'[t][at[t]], NEW n, n = e.name,
         Calm(t, e, public[n], Published(t))
  PROVE  Calm(t, x, public'[n], Published(t))
<1>1. /\ Core(e, x) /\ n \in Names /\ public \in [Names -> Place] /\ e = ent[t][at[t]]
      /\ at[t] \in 1..Len(ent[t]) /\ e \in Entry
  <2>1. public \in [Names -> Place]
    BY DEF Types
  <2>2. e = ent[t][at[t]]
    BY DEF Now
  <2>3. at[t] \in 1..Len(ent[t]) /\ e \in Entry /\ Core(e, x)
    BY DEF Moves
  <2>4. n \in Names
    BY <2>3 DEF Entry
  <2> QED BY <2>1, <2>2, <2>3, <2>4
<1>2. Gate(t, at[t]) /\ FreshOf(t, n) # None
  BY <1>1, FreshApart DEF Gates
<1>3. CASE Rests(t, e, x)
  BY <1>1, <1>3 DEF Rests, Judged, Held, Rolled, Unseen, Core, Calm, Final
<1>4. CASE Drops(t, e, x)
  <2>1. CASE Published(t)
    BY <1>1, <1>4, <2>1 DEF Drops, Judged, Unseen, Core, Calm, Final
  <2>2. CASE ~Published(t)
    BY <1>1, <1>4, <2>2 DEF Drops, Judged, Rolled, Unseen, Core, Calm, Bare
  <2> QED BY <2>1, <2>2
<1>5. ASSUME outcome[t] = "none", Moved(t, e, x)
      PROVE  Calm(t, x, public'[n], Published(t))
  <2>0. ~Published(t)
    BY <1>5 DEF Published
  <2>1. CASE Judges(t, e, x)
    BY <1>1, <2>0, <2>1 DEF Judges, Held, Rolled, Unseen, Core, Calm
  <2>2. CASE Takes(t, e, x)
    BY <1>1, <2>0, <2>2 DEF Takes, Judged, Rolled, Shows, Core, Calm, Clean, Bare
  <2>3. CASE GivesBack(t, e, x)
    BY <1>1, <2>0, <2>3 DEF GivesBack, Judged, Rolled, Shows, Core, Calm
  <2>4. CASE Puts(t, e, x)
    <3>1. Produced(t, at[t])
      BY <1>1, <2>4, PutsProduced
    <3>2. e.stage = FreshOf(t, n)
      BY <1>1, <1>2, <2>4, <3>1 DEF Gate, Puts
    <3> QED BY <1>1, <2>0, <2>4, <3>2 DEF Puts, Judged, Held, Shows, Core, Calm
  <2>5. CASE Vanishes(t, e, x)
    BY <1>1, <1>2, <2>0, <2>5 DEF Vanishes, Calm
  <2>6. CASE Catches(t, e, x)
    <3>1. e.rollback = None /\ public[n] = FreshOf(t, n)
      BY <1>2, <2>0, <2>6 DEF Catches, Calm
    <3>2. public'[n] = None
      BY <1>1, <1>2, <2>6, <3>1 DEF Catches
    <3> QED BY <1>1, <2>0, <2>6, <3>1, <3>2 DEF Catches, Held, Core, Calm
  <2>7. CASE Tosses(t, e, x)
    BY <1>1, <2>0, <2>7 DEF Tosses, Judged, Held, Unseen, Core, Calm
  <2>8. CASE Returns(t, e, x)
    <3>1. e.fresh = FreshOf(t, n)
      BY <1>1, <1>2, <2>8 DEF Gate, Returns, Aborting
    <3>2. e.rollback = FreshOf(t, n)
      BY <2>0, <2>8 DEF Returns, Calm
    <3> QED BY SMTT(60), <2>8, <3>1, <3>2 DEF Returns
  <2> QED BY <1>5, <2>1, <2>2, <2>3, <2>4, <2>5, <2>6, <2>7, <2>8 DEF Moved
<1> QED BY <1>3, <1>4, <1>5 DEF Moves

\* Where the scene stays, what is calm after a step is the invariant.
LEMMA CalmThen ==
  ASSUME scene' = scene, NEW t \in Trans, NEW i,
         Calm(t, ent'[t][i], public'[ent'[t][i].name], Published(t)')
  PROVE  Calm(t, ent[t][i], public[ent[t][i].name], Published(t))'
<1>1. DeleteOnly' = DeleteOnly
  BY DEF DeleteOnly
<1> QED BY <1>1 DEF Calm, Final, FreshOf

\* An entry that stays as it is stays calm where its name is not touched.
LEMMA CalmStays ==
  ASSUME Undisturbed, scene' = scene, NEW t \in Trans, NEW i \in 1..Len(ent[t]),
         Like(ent'[t][i], ent[t][i]), Published(t)' <=> Published(t),
         pc[t] = "crashed" => pc'[t] = "crashed" /\ outcome'[t] = outcome[t],
         hands'[ent[t][i].name] = hands[ent[t][i].name],
         public'[ent[t][i].name] = public[ent[t][i].name],
         Ours(t, ent[t][i].name)'
  PROVE  Calm(t, ent[t][i], public[ent[t][i].name], Published(t))'
<1> DEFINE e == ent[t][i]
           x == ent'[t][i]
           n == e.name
<1>1. x.name = n
  BY DEF Like
<1>2. Ours(t, n)
  BY <1>1 DEF Ours
<1>3. Calm(t, e, public[n], Published(t))
  BY <1>2 DEF Undisturbed
<1>4. Calm(t, x, public'[x.name], Published(t))
  BY <1>1, <1>3, CalmLike
<1>5. Calm(t, x, public'[x.name], Published(t)')
  BY <1>4 DEF Calm, Published
<1> QED BY <1>5, CalmThen

\* A move keeps every entry calm that is still its transaction's own.
LEMMA MoveCalm ==
  ASSUME RInv, AllFlags, AllDistinct, Gates, Undisturbed, scene' = scene,
         NEW t \in Trans, Moves(t), NEW u \in Trans, NEW i \in 1..Len(ent[u]),
         Ours(u, ent[u][i].name)'
  PROVE  Calm(u, ent[u][i], public[ent[u][i].name], Published(u))'
<1>0. Types
  BY DEF RInv
<1> DEFINE H == [Names -> Trans \cup {None, "editor", "several"}]
           n == Now(t).name
<1>1. /\ n \in Names /\ \A m \in Names : m # n => public'[m] = public[m]
      /\ (hands' = hands /\ public' = public) \/ Touch(t, n)
  BY <1>0, MoveTouches
<1>2. /\ \A m \in Names : m # n => hands'[m] = hands[m]
      /\ hands'[n] = t => hands[n] \in {None, t}
      /\ Touch(t, n) => /\ hands'[n] # None
                        /\ \A v \in Trans : v # t => hands'[n] # v
  BY <1>1, TouchIs DEF Undisturbed
<1>3. /\ Others(t) /\ Control(t) /\ at[t] \in 1..Len(ent[t])
      /\ Now(t) = ent[t][at[t]] /\ Core(Now(t), ent'[t][at[t]])
  BY DEF Moves, Now
<1>4. \A v \in Trans : /\ Published(v)' <=> Published(v)
                       /\ pc[v] = "crashed" => pc'[v] = "crashed" /\ outcome'[v] = outcome[v]
  BY <1>3 DEF Control, Published
<1> HIDE DEF n
<1>5. CASE u # t \/ i # at[t]
  <2>1. Like(ent'[u][i], ent[u][i]) /\ ent[u][i].name \in Names
        /\ ent'[u][i].name = ent[u][i].name
    BY <1>0, <1>3, <1>5, LenIs DEF Others, Entry, Like
  <2>2. ent[u][i].name = n => u # t
    BY <1>3, <1>5 DEF AllDistinct, Distinct, n
  <2>3. /\ hands'[ent[u][i].name] = hands[ent[u][i].name]
        /\ public'[ent[u][i].name] = public[ent[u][i].name]
    <3>1. CASE hands' = hands /\ public' = public
      BY <3>1
    <3>2. CASE Touch(t, n)
      <4>1. hands'[ent[u][i].name] \in {None, u}
        BY <2>1 DEF Ours
      <4> QED BY <1>1, <1>2, <2>1, <2>2, <3>2, <4>1
    <3> QED BY <1>1, <3>1, <3>2
  <2> QED BY <1>4, <2>1, <2>3, CalmStays
<1>6. CASE u = t /\ i = at[t]
  <2> DEFINE e == ent[t][i]
             x == ent'[t][i]
  <2>1. x.name = n /\ e.name = n
    BY <1>3, <1>6 DEF Core, n
  <2>2. hands'[n] \in {None, t}
    BY <1>6, <2>1 DEF Ours
  <2>3. hands[n] \in {None, t}
    BY <1>1, <1>2, <2>2
  <2>4. pc[t] # "crashed"
    BY <1>3 DEF Control
  <2>5. Calm(t, e, public[n], Published(t))
    BY <1>6, <2>1, <2>3, <2>4 DEF Undisturbed, Ours
  <2>6. Calm(t, x, public'[n], Published(t))
    BY <1>0, <1>3, <1>6, <2>1, <2>5, CalmMoves
  <2>7. Calm(t, x, public'[x.name], Published(t)')
    BY <1>4, <2>1, <2>6 DEF Calm, Published
  <2> QED BY <1>6, <2>7, CalmThen
<1> QED BY <1>5, <1>6

\* Where no name is touched, every entry stays calm.
LEMMA UnseenCalm ==
  ASSUME RInv, AllFlags, Undisturbed, scene' = scene, Unseen,
         NEW u \in Trans, Acts(u) \/ Still(u) \/ Ruined(u), ~Moves(u),
         NEW i \in 1..Len(ent'[u]), Ours(u, ent[u][i].name)'
  PROVE  Calm(u, ent[u][i], public[ent[u][i].name], Published(u))'
<1>0. Types /\ Len(ent[u]) \in Nat
  BY LenIs DEF RInv
<1>1. public' = public /\ hands' = hands
  BY DEF Unseen
<1>2. CASE Waits(u) \/ Still(u)
  <2>1. /\ i \in 1..Len(ent[u]) /\ Like(ent'[u][i], ent[u][i])
        /\ Published(u)' <=> Published(u)
        /\ pc[u] = "crashed" => pc'[u] = "crashed" /\ outcome'[u] = outcome[u]
    BY <1>2 DEF Waits, Still, Control, Like, Published
  <2> QED BY <1>1, <2>1, CalmStays
<1>3. CASE Ruined(u)
  <2>1. outcome[u] # "none" /\ outcome'[u] = outcome[u] /\ i \in 1..Len(ent[u])
        /\ ent'[u][i] = ent[u][i] /\ pc'[u] = "crashed"
    BY <1>3 DEF Ours, Ruined
  <2>2. Like(ent'[u][i], ent[u][i])
    BY <2>1 DEF Like
  <2> QED BY <1>1, <2>1, <2>2, CalmStays DEF Published
<1>4. CASE Appends(u)
  <2>1. Control(u) /\ outcome[u] = "none" /\ ~Published(u)'
    BY <1>4 DEF Appends, Control, Published
  <2>2. CASE i = Len(ent[u]) + 1
    <3>1. Calm(u, ent'[u][i], public'[ent'[u][i].name], FALSE)
      BY <1>1, <1>4, <2>2 DEF Appends, Calm, Clean, Bare
    <3>2. Calm(u, ent'[u][i], public'[ent'[u][i].name], Published(u)')
      BY <2>1, <3>1 DEF Calm
    <3> QED BY <3>2, CalmThen
  <2>3. CASE i # Len(ent[u]) + 1
    <3>1. i \in 1..Len(ent[u]) /\ ent'[u][i] = ent[u][i]
      BY <1>0, <1>4, <2>3 DEF Appends
    <3>2. Like(ent'[u][i], ent[u][i])
      BY <3>1 DEF Like
    <3> QED BY <1>1, <2>1, <3>1, <3>2, CalmStays DEF Control, Published
  <2> QED BY <2>2, <2>3
<1>5. CASE Stages(u)
  <2>1. /\ Control(u) /\ Others(u) /\ outcome[u] = "none" /\ ~Published(u)' /\ ~Published(u)
        /\ i \in 1..Len(ent[u])
        /\ pc[u] # "crashed"
    BY <1>5 DEF Stages, Control, Published, Others
  <2>2. CASE i = at[u]
    <3>1. /\ Core(ent[u][i], ent'[u][i]) /\ Held(ent[u][i], ent'[u][i])
          /\ Rolled(ent[u][i], ent'[u][i]) /\ Judged(ent[u][i], ent'[u][i])
      BY <1>5, <2>2 DEF Stages, Now
    <3>2. ent'[u][i].name = ent[u][i].name /\ Ours(u, ent[u][i].name)
      BY <1>1, <2>1, <3>1 DEF Core, Ours
    <3>3. Calm(u, ent[u][i], public[ent[u][i].name], FALSE)
      BY <2>1, <3>2 DEF Undisturbed, Calm
    <3>4. Calm(u, ent'[u][i], public'[ent'[u][i].name], FALSE)
      BY <1>1, <3>1, <3>2, <3>3 DEF Core, Held, Rolled, Calm
    <3>5. Calm(u, ent'[u][i], public'[ent'[u][i].name], Published(u)')
      BY <2>1, <3>4 DEF Calm
    <3> QED BY <3>5, CalmThen
  <2>3. CASE i # at[u]
    <3>1. Like(ent'[u][i], ent[u][i])
      BY <2>1, <2>3 DEF Others
    <3> QED BY <1>1, <2>1, <3>1, CalmStays DEF Control
  <2> QED BY <2>2, <2>3
<1>6. CASE Publishes(u)
  <2>1. /\ ent' = ent /\ pc[u] = "committed" /\ outcome[u] = "none" /\ Published(u)'
        /\ i \in 1..Len(ent[u])
    BY <1>6 DEF Publishes, Published
  <2> DEFINE e == ent[u][i]
  <2>2. Settled(u, e) /\ (e.unchanged => e.expected # None /\ e.name \notin DeleteOnly[u])
    BY <2>1 DEF AllFlags, Flags, Flag, Stat
  <2>3. Ours(u, e.name)
    BY <1>1, <2>1 DEF Ours
  <2>4. Calm(u, e, public[e.name], FALSE)
    BY <2>1, <2>3 DEF Undisturbed, Published
  <2>5. Calm(u, e, public[e.name], TRUE)
    BY <2>2, <2>4 DEF Calm, Settled, Final
  <2> QED BY <1>1, <2>1, <2>5, CalmThen
<1> QED BY <1>2, <1>3, <1>4, <1>5, <1>6 DEF Acts

\* Every step leaves undisturbed what it does not touch.
LEMMA UndisturbedKept ==
  ASSUME RInv, AllFlags, AllDistinct, Gates, Undisturbed, Stride
  PROVE  Undisturbed'
<1>0. Types /\ scene' = scene
  BY SceneStays DEF RInv
<1> DEFINE H == [Names -> Trans \cup {None, "editor", "several"}]
<1>1. hands \in H
  BY DEF Undisturbed
<1>2. ASSUME NEW t \in Trans, Moves(t)
      PROVE  Undisturbed'
  <2>1. hands' \in H
    BY <1>0, <1>1, <1>2, MoveTouches, TouchIs
  <2>2. \A u \in Trans : Len(ent'[u]) = Len(ent[u])
    BY <1>2 DEF Moves, Others
  <2> QED BY <1>0, <1>2, <2>1, <2>2, MoveCalm DEF Undisturbed
<1>3. CASE Unseen /\ \A t \in Trans : ~Moves(t)
  <2>1. hands' = hands
    BY <1>3 DEF Unseen
  <2>2. \A u \in Trans : Acts(u) \/ Still(u) \/ Ruined(u)
    BY <1>0, EachActs
  <2> QED BY <1>0, <1>1, <1>3, <2>1, <2>2, UnseenCalm DEF Undisturbed
<1>4. ASSUME NEW n \in Names, Edits(n)
      PROVE  Undisturbed'
  <2>1. /\ hands' \in H /\ \A m \in Names : m # n => hands'[m] = hands[m]
        /\ hands'[n] # None /\ \A u \in Trans : u # "editor" => hands'[n] # u
    BY <1>1, <1>4, TouchIs DEF Edits
  <2>2. \A u \in Trans : hands'[n] \notin {None, u}
    BY <2>1, MarksAssumption
  <2>3. \A m \in Names : m # n => public'[m] = public[m]
    BY <1>0, <1>4 DEF Edits, Types
  <2>4. UNCHANGED <<ent, pc, outcome>>
    BY <1>4 DEF Edits, Rest
  <2>5. ASSUME NEW u \in Trans, NEW i \in 1..Len(ent[u]), Ours(u, ent[u][i].name)'
        PROVE  Calm(u, ent[u][i], public[ent[u][i].name], Published(u))'
    <3>1. ent[u][i].name \in Names /\ ent[u][i].name # n
      BY <1>0, <2>2, <2>4, <2>5, LenIs DEF Entry, Ours
    <3>2. Like(ent'[u][i], ent[u][i])
      BY <2>4 DEF Like
    <3> QED BY <1>0, <2>1, <2>3, <2>4, <2>5, <3>1, <3>2, CalmStays DEF Published
  <2> QED BY <2>1, <2>4, <2>5 DEF Undisturbed
<1> QED BY <1>2, <1>3, <1>4
        DEF Stride, Waits, Appends, Stages, Publishes, Crashes, Nothing, Unseen, Rest

-----------------------------------------------------------------------------
\* What the three theorems below share.
Base == RInv /\ Exist /\ AllFlags /\ AllDistinct /\ Private /\ Gates

\* They hold at first,
LEMMA InitBase ==
  ASSUME Init
  PROVE  Base
<1>1. RInv /\ Exist
  BY InitRInv
<1>2. \A t \in Trans : ent[t] = <<>> /\ pc[t] = "open" /\ outcome[t] = "none" /\ Len(ent[t]) = 0
  BY DEF Init
<1>3. AllFlags
  BY <1>2 DEF AllFlags, Flags, Ends
<1>4. AllDistinct
  BY <1>2 DEF AllDistinct, Distinct
<1>5. Gates
  BY <1>2 DEF Gates
<1>6. Private
  <2> SUFFICES ASSUME NEW t \in Trans, NEW n \in Names
               PROVE  /\ ~Visible(FreshOf(t, n))
                      /\ data[FreshOf(t, n)] = made[FreshOf(t, n)]
    BY DEF Private
  <2> DEFINE f == FreshOf(t, n)
  <2>1. f \in Objects /\ f # None /\ \A m : f # OldOf(m)
    BY FreshApart
  <2> HIDE DEF f
  <2>2. \A m \in Names : public[m] \in {None, OldOf(m)}
    BY DEF Init
  <2>3. ~Visible(f)
    BY <1>2, <2>1, <2>2 DEF Visible
  <2>4. data[f] = None /\ made[f] = None
    BY <2>1 DEF Init
  <2> QED BY <2>3, <2>4 DEF f
<1> QED BY <1>1, <1>3, <1>4, <1>5, <1>6 DEF Base

\* and every step keeps them.
LEMMA NextBase ==
  ASSUME Base, [Next]_vars
  PROVE  Base' /\ Stride
<1>1. RInv' /\ Exist' /\ Stride /\ AllFlags' /\ \A t \in Trans : Sees(t)
  BY NextRInv, Strides, StepSees DEF Base
<1>2. Types
  BY DEF Base, RInv
<1>3. AllDistinct'
  BY <1>1, DistinctKept DEF Base
<1>4. Private'
  BY <1>1, <1>2, PrivateKept DEF Base
<1>5. Gates'
  BY <1>1, GatesKept DEF Base
<1> QED BY <1>1, <1>3, <1>4, <1>5 DEF Base

-----------------------------------------------------------------------------
\* An invocation that left a directory which nobody names has not succeeded: a
\* transaction of it has gone back, and does not come forward again.
Back == Aborting \cup {"ended", "crashed"}
Failing(t, p) == Owner[t] = p /\ ~Published(t) /\ pc[t] \in Back
StrayAborts == \A p \in stray : \E t \in Trans : Failing(t, p)

\* Only a preparation that fails leaves one.
LEMMA StrayMoves ==
  ASSUME [Next]_vars
  PROVE  \/ stray' = stray
         \/ \E t \in Trans : Record(t) /\ Abort(t) /\ stray' = stray \cup {Owner[t]}
<1>1. ASSUME NEW t \in Trans, Step(t)
      PROVE  stray' = stray \/ (Record(t) /\ Abort(t) /\ stray' = stray \cup {Owner[t]})
  <2>1. CASE Record(t)
    BY <2>1 DEF Record
  <2>2. CASE ~Record(t)
    BY <1>1, <2>2 DEF Step, Open, Produce, Cancelled, Validate, Capture, Install, Decide,
       RollbackCapture, RollbackCheck, RestorePrevious, FinishEntry
  <2> QED BY <2>1, <2>2
<1>2. ASSUME NEW n \in Names, Save(n) \/ Remove(n) \/ EditInPlace(n)
      PROVE  stray' = stray
  BY <1>2 DEF Save, Remove, EditInPlace
<1>3. ASSUME NEW p \in Procs, Cancel(p) \/ Crash(p)
      PROVE  stray' = stray
  BY <1>3 DEF Cancel, Crash
<1>4. CASE UNCHANGED vars
  BY <1>4 DEF vars
<1> QED BY <1>1, <1>2, <1>3, <1>4 DEF Next

\* A transaction that goes back stays there.
LEMMA BackStays ==
  ASSUME Types, NEW t \in Trans, pc[t] \in Back, Step(t)
  PROVE  pc'[t] \in Back
<1>1. ASSUME NEW failed, NextEntry(t, failed)
      PROVE  pc'[t] \in Back
  BY <1>1 DEF NextEntry, Types, Back, Aborting
<1>2. ASSUME NEW where \in {"restore", "check", "discard"}, Go(t, where)
      PROVE  pc'[t] \in Back
  BY <1>2 DEF Go, Types, Back, Aborting
<1>3. RestoreFails(t) => pc'[t] \in Back
  BY <1>1 DEF RestoreFails
<1>4. CASE RollbackCapture(t)
  BY <1>2, <1>3, <1>4 DEF RollbackCapture
<1>5. CASE RollbackCheck(t)
  BY <1>2, <1>3, <1>5 DEF RollbackCheck
<1>6. CASE RestorePrevious(t)
  BY <1>1, <1>2, <1>3, <1>6 DEF RestorePrevious
<1>7. CASE FinishEntry(t)
  <2>1. pc[t] = "discard"
    BY <1>7 DEF FinishEntry, Back, Aborting
  <2>2. \E failed : NextResult(t, failed)
    BY <1>7 DEF FinishEntry, FinishFails, FinishSucceeds
  <2> QED BY <1>1, <2>1, <2>2 DEF NextResult
<1>8. CASE \/ Open(t) \/ Record(t) \/ Produce(t) \/ Cancelled(t) \/ Validate(t)
           \/ Capture(t) \/ Install(t) \/ Decide(t)
  BY <1>8 DEF Open, Record, Produce, Cancelled, Validate, Capture, Install, Going, Decide,
     Back, Aborting
<1> QED BY <1>4, <1>5, <1>6, <1>7, <1>8 DEF Step

\* Who has failed stays so, whoever moves.
LEMMA FailingStays ==
  ASSUME Base, [Next]_vars, NEW t \in Trans, NEW p, Failing(t, p)
  PROVE  Failing(t, p)'
<1>0. Types /\ scene' = scene
  <2>1. Stride
    BY NextBase
  <2> QED BY <2>1 DEF Base, RInv, Stride, Moves, Waits, Appends, Stages, Publishes,
          Crashes, Edits, Nothing, Rest
<1>1. ASSUME NEW u \in Trans, Step(u)
      PROVE  pc'[t] \in Back /\ ~(outcome'[t] = "published")
  <2>1. Moves(u) \/ Waits(u) \/ Appends(u) \/ Stages(u) \/ Publishes(u)
    BY <1>1, StepStrides DEF Base, RInv
  <2>2. Control(u) \/ Publishes(u)
    BY <2>1 DEF Moves, Waits, Appends, Stages
  <2>3. CASE u # t
    BY <2>2, <2>3 DEF Control, Publishes, Failing, Published
  <2>4. CASE u = t
    <3>1. pc'[t] \in Back
      BY <1>0, <1>1, <2>4, BackStays DEF Failing
    <3>2. pc[t] # "committed"
      BY DEF Failing, Back, Aborting
    <3> QED BY <2>2, <2>4, <3>1, <3>2 DEF Control, Publishes, Failing, Published
  <2> QED BY <2>3, <2>4
<1>2. ASSUME NEW q \in Procs, Crash(q)
      PROVE  pc'[t] \in Back /\ outcome' = outcome
  BY <1>2 DEF Crash, Failing, Back
<1>3. ASSUME NEW q \in Procs, Cancel(q)
      PROVE  pc' = pc /\ outcome' = outcome
  BY <1>3 DEF Cancel
<1>4. ASSUME NEW n \in Names, Save(n) \/ Remove(n) \/ EditInPlace(n)
      PROVE  pc' = pc /\ outcome' = outcome
  BY <1>4 DEF Save, Remove, EditInPlace
<1>5. UNCHANGED vars => pc' = pc /\ outcome' = outcome
  BY DEF vars
<1>6. pc'[t] \in Back /\ ~(outcome'[t] = "published")
  BY <1>1, <1>2, <1>3, <1>4, <1>5 DEF Next, Failing, Published
<1> QED BY <1>0, <1>6 DEF Failing, Published, Owner

\* So every step keeps what such directories say.
LEMMA StrayKept ==
  ASSUME Base, StrayAborts, [Next]_vars
  PROVE  StrayAborts'
<1>1. ASSUME NEW p \in stray
      PROVE  \E t \in Trans : Failing(t, p)'
  BY <1>1, FailingStays DEF StrayAborts
<1>2. ASSUME NEW t \in Trans, Record(t), Abort(t), NEW q, q = Owner[t]
      PROVE  Failing(t, q)'
  <2>1. pc'[t] \in {"ended", "restore"} /\ outcome'[t] \in {"aborted", "none"}
    BY <1>2 DEF Abort, Base, RInv, Types
  <2>2. scene' = scene
    BY <1>2 DEF Record
  <2>3. Owner'[t] = q
    BY <1>2, <2>2 DEF Owner
  <2>4. ~Published(t)'
    BY <2>1 DEF Published
  <2>5. pc'[t] \in Back
    BY <2>1 DEF Back, Aborting
  <2> QED BY <2>3, <2>4, <2>5 DEF Failing
<1> SUFFICES ASSUME NEW p \in stray' PROVE \E t \in Trans : Failing(t, p)'
  BY DEF StrayAborts
<1>3. CASE p \in stray
  BY <1>1, <1>3
<1>4. CASE p \notin stray
  <2>1. PICK t \in Trans : Record(t) /\ Abort(t) /\ stray' = stray \cup {Owner[t]}
    BY <1>4, StrayMoves
  <2>2. p = Owner[t]
    BY <1>4, <2>1
  <2> QED BY <1>2, <2>1, <2>2
<1> QED BY <1>3, <1>4

\* What an invocation leaves behind it has reported: when its transactions have
\* all ended and none named anything retained, its directory is gone. And one
\* that left a directory nobody names has had a transaction fail.
THEOREM LitterIsReported == Spec => []LitterReported
<1>1. ASSUME RInv, NEW p \in Procs, arena[p].disk,
             \A t \in Trans : Owner[t] = p => pc[t] = "ended",
             \A t \in Trans : Owner[t] = p => ~told[t]
      PROVE  FALSE
  <2>1. ~Spoken(p)
    BY <1>1 DEF Spoken
  <2>2. Owed(p) = {}
    <3> SUFFICES ASSUME NEW x \in Owed(p)
                 PROVE  FALSE
      OBVIOUS
    <3>1. /\ x[1] \in Trans /\ Owner[x[1]] = p
          /\ x[2] \in 1..Len(ent[x[1]]) /\ ~ent[x[1]][x[2]].finished
      BY DEF Owed
    <3> QED BY <1>1, <3>1 DEF RInv, Phase
  <2>3. arena[p].refs = 0
    BY <1>1, <2>1, <2>2, FS_EmptySet DEF RInv, Refs
  <2> QED BY <1>1, <2>1, <2>3 DEF RInv, Refs
<1>2. RInv /\ StrayAborts => LitterReported
  BY <1>1 DEF LitterReported, StrayAborts, Failing
<1>3. Base => RInv
  BY DEF Base
<1>4. Init => StrayAborts
  BY DEF Init, StrayAborts
<1>5. Base /\ StrayAborts /\ [Next]_vars => Base' /\ StrayAborts'
  BY NextBase, StrayKept
<1> QED BY <1>2, <1>3, <1>4, <1>5, InitBase, PTL DEF Spec

\* A group is published or rolled back as a whole: where nobody else touched a
\* name, a finished commit shows the new version of it and a finished abort the
\* old one, whatever failed and was retried on the way.
THEOREM GroupsAreAtomic == Spec => []GroupAtomic
<1>1. Init => Undisturbed
  <2> SUFFICES ASSUME Init PROVE Undisturbed
    OBVIOUS
  <2>1. hands \in [Names -> Trans \cup {None, "editor", "several"}]
        /\ \A t \in Trans : Len(ent[t]) = 0
    BY DEF Init
  <2> QED BY <2>1 DEF Undisturbed
<1>2. Base /\ Undisturbed /\ [Next]_vars => Undisturbed'
  BY NextBase, UndisturbedKept DEF Base
<1>3. Base /\ Undisturbed => GroupAtomic
  <2> SUFFICES ASSUME Base, Undisturbed, NEW t \in Trans, NEW i \in DOMAIN ent[t],
                      hands[ent[t][i].name] \in {None, t}
               PROVE  LET e == ent[t][i]
                      IN  /\ outcome[t] = "aborted" => public[e.name] = e.expected
                          /\ outcome[t] = "published" =>
                               public[e.name] = IF e.name \in DeleteOnly[t] THEN None
                                                ELSE IF e.unchanged THEN e.expected
                                                ELSE FreshOf(t, e.name)
    BY DEF GroupAtomic
  <2>1. i \in 1..Len(ent[t])
    BY LenIs DEF Base, RInv
  <2>2. outcome[t] # "none" => Calm(t, ent[t][i], public[ent[t][i].name], Published(t))
    BY <2>1 DEF Undisturbed, Ours
  <2>3. outcome[t] = "aborted" => Bare(ent[t][i])
    BY <2>1 DEF Base, AllFlags, Flags, Flag
  <2> QED BY <2>2, <2>3 DEF Calm, Published, Final, Bare
<1> QED BY <1>1, <1>2, <1>3, InitBase, NextBase, PTL DEF Spec

-----------------------------------------------------------------------------
\* An object the transactions have not doubled is in one place at a time.

\* No editor's save is anywhere before it is made.
Unsaved == \A k \in 1..MaxSaves : k > saves => ~Visible(SaveOf(k))

\* A save appears when it is made, not before.
LEMMA UnsavedKept ==
  ASSUME Types, AllFlags, Unsaved, Stride
  PROVE  Unsaved'
<1>1. saves' \in {saves, saves + 1} /\ saves \in Nat
  BY DEF Stride, Moves, Waits, Appends, Stages, Publishes, Crashes, Edits, Nothing, Types
<1> SUFFICES ASSUME NEW k \in 1..MaxSaves, k > saves', Visible(SaveOf(k))'
             PROVE  FALSE
  BY DEF Unsaved, SaveOf
<1> DEFINE o == SaveOf(k)
<1>2. k > saves
  BY <1>1
<1>3. \A t \in Trans, n \in Names : o # FreshOf(t, n)
  BY FreshApart
<1>4. ASSUME NEW t \in Trans, Moves(t), o = Now(t).stage, o # None
      PROVE  FALSE
  <2>1. at[t] \in 1..Len(ent[t]) /\ Now(t) = ent[t][at[t]] /\ Now(t).name \in Names
    BY <1>4 DEF Moves, Now, Entry
  <2> QED BY <1>3, <1>4, <2>1, StageIs
<1>5. o = SaveOf(saves + 1) /\ saves' = saves + 1 => FALSE
  BY DEF SaveOf
<1>6. ~Visible(o)
  BY <1>2 DEF Unsaved
<1>7. o # None
  BY MarksAssumption DEF Objects
<1> HIDE DEF o
<1> QED BY SMTT(60), <1>4, <1>5, <1>6, <1>7, VisibleBefore DEF o

\* The old version a published output replaces is kept as if it were still
\* away from its name.
Replaces(t, e, o) == Published(t) /\ ~e.unchanged /\ e.expected = o
PrevClaim(t, e, o) == Prev(e) = o \/ Replaces(t, e, o)
Claim(t, e, o) == PrevClaim(t, e, o) \/ Roll(e) = o
Both(t, e, o) == PrevClaim(t, e, o) /\ Roll(e) = o

\* At most one name shows o, one entry has it, and not both.
Single(o) ==
    /\ \A m, n \in Names : public[m] = o /\ public[n] = o => m = n
    /\ \A m \in Names : public[m] = o =>
         \A t \in Trans : \A i \in 1..Len(ent[t]) : ~Claim(t, ent[t][i], o)
    /\ \A t, u \in Trans : \A i \in 1..Len(ent[t]), j \in 1..Len(ent[u]) :
         Claim(t, ent[t][i], o) /\ Claim(u, ent[u][j], o) => t = u /\ i = j
    /\ \A t \in Trans : \A i \in 1..Len(ent[t]) : ~Both(t, ent[t][i], o)
Once == \A o \in Objects \ doubled : Single(o)

\* Claims that only get fewer leave an object single.
LEMMA FewerClaims ==
  ASSUME NEW o, Single(o),
         \A m \in Names : public'[m] = o => public[m] = o,
         \A t \in Trans : \A i \in 1..Len(ent'[t]) :
           Claim(t, ent[t][i], o)' =>
             /\ i \in 1..Len(ent[t]) /\ Claim(t, ent[t][i], o)
             /\ Both(t, ent[t][i], o)' => Both(t, ent[t][i], o)
  PROVE  Single(o)'
<1>1. \A t \in Trans : \A i \in 1..Len(ent'[t]) :
        Both(t, ent[t][i], o)' => Claim(t, ent[t][i], o)'
  BY DEF Both, Claim
<1> QED BY <1>1 DEF Single

\* Entries alike claim the same.
LEMMA ClaimLike ==
  ASSUME NEW u \in Trans, NEW i \in 1..Len(ent[u]), Like(ent'[u][i], ent[u][i]), NEW o,
         Published(u)' <=> Published(u)
  PROVE  /\ Claim(u, ent[u][i], o)' <=> Claim(u, ent[u][i], o)
         /\ Both(u, ent[u][i], o)' <=> Both(u, ent[u][i], o)
<1>1. PrevClaim(u, ent[u][i], o)' <=> PrevClaim(u, ent[u][i], o)
  BY DEF Like, PrevClaim, Prev, Replaces
<1>2. (Roll(ent[u][i]) = o)' <=> (Roll(ent[u][i]) = o)
  BY DEF Like, Roll
<1> QED BY <1>1, <1>2 DEF Claim, Both

\* Only a move makes a transaction claim what it did not.
LEMMA ClaimLess ==
  ASSUME Types, AllFlags, NEW u \in Trans, Acts(u) \/ Still(u) \/ Ruined(u), ~Moves(u),
         NEW o \in Objects, NEW i \in 1..Len(ent'[u]), Claim(u, ent[u][i], o)'
  PROVE  /\ i \in 1..Len(ent[u]) /\ Claim(u, ent[u][i], o)
         /\ Both(u, ent[u][i], o)' => Both(u, ent[u][i], o)
<1>0. o # None /\ Len(ent[u]) \in Nat
  BY LenIs, MarksAssumption
<1>1. CASE Waits(u) \/ Still(u)
  <2>1. /\ i \in 1..Len(ent[u]) /\ Like(ent'[u][i], ent[u][i])
        /\ Published(u)' <=> Published(u)
    BY <1>1 DEF Waits, Still, Control, Like, Published
  <2> QED BY <2>1, ClaimLike
<1>2. CASE Ruined(u)
  <2>1. i \in 1..Len(ent[u]) /\ outcome'[u] = outcome[u]
    BY <1>2 DEF Ruined
  <2>2. CASE outcome[u] = "none"
    <3>1. Clean(ent'[u][i]) /\ ~Published(u)'
      BY <1>2, <2>1, <2>2 DEF Ruined, Ruin, Published
    <3> QED BY <1>0, <3>1 DEF Claim, PrevClaim, Prev, Roll, Replaces, Clean, Bare
  <2>3. CASE outcome[u] # "none"
    <3>1. Like(ent'[u][i], ent[u][i]) /\ (Published(u)' <=> Published(u))
      BY <1>2, <2>1, <2>3 DEF Ruined, Like, Published
    <3> QED BY <2>1, <3>1, ClaimLike
  <2> QED BY <2>2, <2>3
<1>3. CASE Appends(u)
  <2>1. Control(u) /\ outcome[u] = "none" /\ ~Published(u)' /\ ~Published(u)
    BY <1>3 DEF Appends, Control, Published
  <2>2. CASE i = Len(ent[u]) + 1
    <3>1. Clean(ent'[u][i])
      BY <1>3, <2>2 DEF Appends
    <3> QED BY <1>0, <2>1, <3>1 DEF Claim, PrevClaim, Prev, Roll, Replaces, Clean, Bare
  <2>3. CASE i # Len(ent[u]) + 1
    <3>1. i \in 1..Len(ent[u]) /\ Like(ent'[u][i], ent[u][i])
      BY <1>0, <1>3, <2>3 DEF Appends, Like
    <3> QED BY <2>1, <3>1, ClaimLike
  <2> QED BY <2>2, <2>3
<1>4. CASE Stages(u)
  <2>1. /\ Control(u) /\ Others(u) /\ ~Published(u)' /\ ~Published(u)
        /\ i \in 1..Len(ent[u])
    BY <1>4 DEF Stages, Control, Published, Others
  <2>2. CASE i = at[u]
    <3>1. /\ Held(ent[u][i], ent'[u][i]) /\ Rolled(ent[u][i], ent'[u][i])
      BY <1>4, <2>2 DEF Stages, Now
    <3> QED BY <2>1, <3>1 DEF Held, Rolled, Claim, Both, PrevClaim, Prev, Roll, Replaces
  <2>3. CASE i # at[u]
    <3>1. Like(ent'[u][i], ent[u][i])
      BY <2>1, <2>3 DEF Others
    <3> QED BY <2>1, <3>1, ClaimLike
  <2> QED BY <2>2, <2>3
<1>5. CASE Publishes(u)
  <2>1. /\ ent' = ent /\ pc[u] = "committed" /\ i \in 1..Len(ent[u])
    BY <1>5 DEF Publishes
  <2> DEFINE e == ent[u][i]
  <2>2. Settled(u, e)
    BY <2>1 DEF AllFlags, Flags, Flag
  <2>3. ~e.unchanged /\ e.expected = o => Prev(e) = o
    BY <1>0, <2>2 DEF Settled, Good, Prev
  <2> QED BY <2>1, <2>3 DEF Claim, Both, PrevClaim, Replaces
<1> QED BY <1>1, <1>2, <1>3, <1>4, <1>5 DEF Acts

\* What a move does with one object: it goes from one of the places the entry
\* has it in to another, unless it comes out of the stage.
LEMMA MoveOnce ==
  ASSUME Types, NEW t \in Trans, Moves(t), NEW o \in Objects \ doubled',
         NEW e, e = Now(t), NEW x, x = ent'[t][at[t]], NEW n, n = e.name,
         ~(public[n] = o /\ Claim(t, e, o)), ~Both(t, e, o),
         Puts(t, e, x) /\ o = e.stage => ~Claim(t, e, o)
  PROVE  /\ ~(public'[n] = o /\ Claim(t, x, o)) /\ ~Both(t, x, o)
         /\ public'[n] = o \/ Claim(t, x, o) =>
              \/ public[n] = o \/ Claim(t, e, o)
              \/ Puts(t, e, x) /\ o = e.stage
<1>1. /\ Core(e, x) /\ n \in Names /\ public \in [Names -> Place] /\ o # None
  BY MarksAssumption DEF Moves, Entry, Types
<1>2. CASE Rests(t, e, x)
  BY <1>1, <1>2 DEF Rests, Judged, Held, Rolled, Unseen, Core, Claim, Both, PrevClaim,
     Replaces, Prev, Roll
<1>3. CASE Drops(t, e, x)
  <2>1. (Roll(x) = o <=> Roll(e) = o) /\ (PrevClaim(t, x, o) => PrevClaim(t, e, o))
        /\ public'[n] = public[n]
    BY <1>1, <1>3 DEF Drops, Judged, Rolled, Unseen, Core, PrevClaim, Replaces, Prev, Roll
  <2> QED BY <2>1 DEF Claim, Both
<1>4. ASSUME outcome[t] = "none", Moved(t, e, x)
      PROVE  /\ ~(public'[n] = o /\ Claim(t, x, o)) /\ ~Both(t, x, o)
             /\ public'[n] = o \/ Claim(t, x, o) =>
                  \/ public[n] = o \/ Claim(t, e, o)
                  \/ Puts(t, e, x) /\ o = e.stage
  <2>0. /\ PrevClaim(t, x, o) <=> Prev(x) = o
        /\ PrevClaim(t, e, o) <=> Prev(e) = o
    BY <1>4 DEF PrevClaim, Replaces, Published
  <2>1. CASE Judges(t, e, x)
    BY <1>1, <2>0, <2>1 DEF Judges, Held, Rolled, Unseen, Claim, Both, Prev, Roll
  <2>2. CASE Takes(t, e, x)
    BY <1>1, <2>0, <2>2 DEF Takes, Rolled, Shows, Claim, Both, Prev, Roll, Clean, Bare
  <2>3. CASE GivesBack(t, e, x)
    BY <1>1, <2>0, <2>3 DEF GivesBack, Rolled, Shows, Claim, Both, Prev, Roll
  <2>4. CASE Puts(t, e, x)
    BY <1>1, <2>0, <2>4 DEF Puts, Held, Shows, Claim, Both, Prev, Roll
  <2>5. CASE Vanishes(t, e, x) \/ Tosses(t, e, x)
    BY <1>1, <2>0, <2>5 DEF Vanishes, Tosses, Held, Unseen, Claim, Both, Prev, Roll
  <2>6. CASE Catches(t, e, x)
    <3>1. doubled' = doubled \cup ({public[n]} \cap {e.rollback})
          /\ public'[n] = IF e.rollback = public[n] THEN public[n] ELSE None
      BY <1>1, <2>6 DEF Catches
    <3>2. public'[n] # o
      BY <1>1, <3>1
    <3>3. (Roll(x) = o <=> public[n] = o) /\ Roll(e) # o /\ Prev(x) = Prev(e)
      BY <1>1, <2>6 DEF Catches, Held, Prev, Roll
    <3> QED BY <2>0, <3>2, <3>3 DEF Claim, Both
  <2>7. CASE Returns(t, e, x)
    BY <1>1, <2>0, <2>7 DEF Returns, Held, Shows, Claim, Both, Prev, Roll
  <2> QED BY <1>4, <2>1, <2>2, <2>3, <2>4, <2>5, <2>6, <2>7 DEF Moved
<1> QED BY <1>2, <1>3, <1>4 DEF Moves

\* A move keeps an object single.
LEMMA MoveSingle ==
  ASSUME Types, AllFlags, Gates, Private, NEW t \in Trans, Moves(t),
         NEW o \in Objects \ doubled', Single(o)
  PROVE  Single(o)'
<1> DEFINE e == Now(t)
           x == ent'[t][at[t]]
           n == e.name
           Local == public[n] = o \/ Claim(t, e, o)
           Then == public'[n] = o \/ Claim(t, x, o)
           Outside == \/ \E m \in Names : m # n /\ public[m] = o
                      \/ \E u \in Trans : \E i \in 1..Len(ent[u]) :
                           (u # t \/ i # at[t]) /\ Claim(u, ent[u][i], o)
<1>1. /\ n \in Names /\ at[t] \in 1..Len(ent[t]) /\ e = ent[t][at[t]] /\ Control(t)
      /\ Others(t) /\ o # None
  BY MarksAssumption DEF Moves, Now, Entry
<1>2. ~(Local /\ Outside)
  BY <1>1 DEF Single
<1>3. ~(public[n] = o /\ Claim(t, e, o)) /\ ~Both(t, e, o)
  BY <1>1 DEF Single
<1>4. ASSUME Puts(t, e, x), o = e.stage
      PROVE  ~Outside /\ ~Claim(t, e, o)
  <2>1. o = FreshOf(t, n)
    BY <1>1, <1>4, StageIs
  <2>2. Unshown(t, n)
    <3>1. pc[t] = "install"
      BY <1>1, <1>4, PutsProduced
    <3>2. at[t] \in 1..Len(ent[t]) /\ at[t] >= at[t] /\ ent[t][at[t]].name = n
      BY <1>1
    <3> QED BY <3>1, <3>2 DEF Unshown
  <2>3. ~Visible(o)
    BY <1>1, <2>1, <2>2 DEF Private
  <2> QED BY <1>1, <2>3 DEF Visible, Claim, PrevClaim, Replaces
<1>5. ~(public'[n] = o /\ Claim(t, x, o)) /\ ~Both(t, x, o)
      /\ (Then => Local \/ (Puts(t, e, x) /\ o = e.stage))
  BY <1>3, <1>4, MoveOnce
<1>6. ~(Then /\ Outside)
  BY <1>2, <1>4, <1>5
<1>7. \A m \in Names : m # n => public'[m] = public[m]
  BY <1>1, MoveTouches
<1>8. \A u \in Trans : Published(u)' <=> Published(u)
  BY <1>1 DEF Control, Published
<1>9. ASSUME NEW u \in Trans, NEW i \in 1..Len(ent[u]), u # t \/ i # at[t]
      PROVE  /\ Claim(u, ent[u][i], o)' <=> Claim(u, ent[u][i], o)
             /\ Both(u, ent[u][i], o)' <=> Both(u, ent[u][i], o)
  BY <1>1, <1>8, <1>9, ClaimLike DEF Others
<1>10. ASSUME NEW i \in 1..Len(ent[t]), i = at[t]
       PROVE  /\ Claim(t, ent[t][i], o)' <=> Claim(t, x, o)
              /\ Both(t, ent[t][i], o)' <=> Both(t, x, o)
  BY <1>8, <1>10 DEF Claim, Both, PrevClaim, Replaces
<1>11. \A u \in Trans : Len(ent'[u]) = Len(ent[u])
  BY <1>1 DEF Others
<1> HIDE DEF e, x, n
<1>12. \A m, k \in Names : public'[m] = o /\ public'[k] = o => m = k
  BY <1>6, <1>7 DEF Single
<1>13. \A m \in Names : public'[m] = o =>
         \A u \in Trans : \A i \in 1..Len(ent[u]) : ~Claim(u, ent[u][i], o)'
  <2> SUFFICES ASSUME NEW m \in Names, public'[m] = o, NEW u \in Trans,
                      NEW i \in 1..Len(ent[u]), Claim(u, ent[u][i], o)'
               PROVE  FALSE
    OBVIOUS
  <2>1. CASE u = t /\ i = at[t]
    BY <1>5, <1>6, <1>7, <1>10, <2>1
  <2>2. CASE u # t \/ i # at[t]
    BY <1>6, <1>7, <1>9, <2>2 DEF Single
  <2> QED BY <2>1, <2>2
<1>14. \A u, v \in Trans : \A i \in 1..Len(ent[u]), j \in 1..Len(ent[v]) :
         Claim(u, ent[u][i], o)' /\ Claim(v, ent[v][j], o)' => u = v /\ i = j
  <2> SUFFICES ASSUME NEW u \in Trans, NEW v \in Trans, NEW i \in 1..Len(ent[u]),
                      NEW j \in 1..Len(ent[v]),
                      Claim(u, ent[u][i], o)', Claim(v, ent[v][j], o)'
               PROVE  u = v /\ i = j
    OBVIOUS
  <2>1. CASE u = t /\ i = at[t]
    BY <1>6, <1>9, <1>10, <2>1
  <2>2. CASE v = t /\ j = at[t]
    BY <1>6, <1>9, <1>10, <2>2
  <2>3. CASE (u # t \/ i # at[t]) /\ (v # t \/ j # at[t])
    BY <1>9, <2>3 DEF Single
  <2> QED BY <2>1, <2>2, <2>3
<1>15. \A u \in Trans : \A i \in 1..Len(ent[u]) : ~Both(u, ent[u][i], o)'
  <2> SUFFICES ASSUME NEW u \in Trans, NEW i \in 1..Len(ent[u])
               PROVE  ~Both(u, ent[u][i], o)'
    OBVIOUS
  <2>1. CASE u = t /\ i = at[t]
    BY <1>5, <1>10, <2>1
  <2>2. CASE u # t \/ i # at[t]
    BY <1>9, <2>2 DEF Single
  <2> QED BY <2>1, <2>2
<1> QED BY <1>11, <1>12, <1>13, <1>14, <1>15 DEF Single

\* A save is an object when its number is within the bound.
LEMMA SaveIs ==
  ASSUME NEW k, SaveOf(k) \in Objects
  PROVE  k \in 1..MaxSaves
<1>1. \A t \in Trans : t # "save"
  BY MarksAssumption
<1>2. \A m : OldOf(m) # SaveOf(k)
  BY DEF OldOf, SaveOf
<1>3. \A t \in Trans, n \in Names : FreshOf(t, n) # SaveOf(k)
  BY <1>1 DEF FreshOf, SaveOf
<1>4. PICK j \in 1..MaxSaves : SaveOf(j) = SaveOf(k)
  BY <1>2, <1>3 DEF Objects
<1> QED BY <1>4 DEF SaveOf

\* Every step keeps every object single.
LEMMA OnceKept ==
  ASSUME RInv, AllFlags, Gates, Private, Unsaved, Once, Stride
  PROVE  Once'
<1>0. Types
  BY DEF RInv
<1>1. doubled \subseteq doubled'
  <2>1. \A t \in Trans : Moves(t) => doubled \subseteq doubled'
    <3> SUFFICES ASSUME NEW t \in Trans, Moves(t)
                 PROVE  doubled \subseteq doubled'
      OBVIOUS
    <3> DEFINE e == Now(t)
               x == ent'[t][at[t]]
    <3>1. Rests(t, e, x) \/ Drops(t, e, x) \/ Moved(t, e, x)
      BY DEF Moves
    <3> HIDE DEF e, x
    <3>2. CASE Rests(t, e, x) \/ Drops(t, e, x)
      BY <3>2 DEF Rests, Drops, Unseen
    <3>3. CASE Judges(t, e, x) \/ Vanishes(t, e, x) \/ Tosses(t, e, x)
      BY <3>3 DEF Judges, Vanishes, Tosses, Unseen
    <3>4. CASE Takes(t, e, x) \/ GivesBack(t, e, x)
      BY <3>4 DEF Takes, GivesBack, Shows
    <3>5. CASE Puts(t, e, x) \/ Returns(t, e, x)
      BY <3>5 DEF Puts, Returns, Shows
    <3>6. CASE Catches(t, e, x)
      BY <3>6 DEF Catches
    <3> QED BY <3>1, <3>2, <3>3, <3>4, <3>5, <3>6 DEF Moved
  <2> QED BY <2>1 DEF Stride, Waits, Appends, Stages, Publishes, Crashes, Edits, Nothing,
                      Rest, Unseen
<1> SUFFICES ASSUME NEW o \in Objects \ doubled'
             PROVE  Single(o)'
  BY DEF Once, Objects, OldOf, SaveOf, FreshOf
<1>2. Single(o) /\ o # None
  BY <1>1, MarksAssumption DEF Once
<1>3. ASSUME NEW t \in Trans, Moves(t)
      PROVE  Single(o)'
  BY <1>0, <1>2, <1>3, MoveSingle
<1>4. ASSUME \A t \in Trans : ~Moves(t), \A m \in Names : public'[m] = o => public[m] = o
      PROVE  Single(o)'
  <2>1. \A u \in Trans : Acts(u) \/ Still(u) \/ Ruined(u)
    BY <1>0, EachActs
  <2> QED BY <1>0, <1>2, <1>4, <2>1, ClaimLess, FewerClaims
<1>5. ASSUME NEW n \in Names, Edits(n), \A t \in Trans : ~Moves(t)
      PROVE  Single(o)'
  <2> DEFINE s == SaveOf(saves + 1)
  <2>1. \/ s \in Objects /\ public' = [public EXCEPT ![n] = s]
        \/ public' \in {public, [public EXCEPT ![n] = None]}
    BY <1>5 DEF Edits
  <2>2. CASE o = s
    <3>1. saves + 1 \in 1..MaxSaves /\ saves \in Nat
      BY <1>0, <2>2, SaveIs DEF Types
    <3>2. ~Visible(o)
      BY <2>2, <3>1 DEF Unsaved
    <3>3. \A m \in Names : public[m] # o
      BY <3>2 DEF Visible
    <3>4. \A u \in Trans : \A i \in 1..Len(ent[u]) : ~Claim(u, ent[u][i], o)
      BY <3>2 DEF Visible, Claim, PrevClaim, Replaces
    <3>5. ent' = ent /\ outcome' = outcome
      BY <1>5 DEF Edits, Rest
    <3>6. \A u \in Trans : \A i \in 1..Len(ent'[u]) :
            ~Claim(u, ent[u][i], o)' /\ ~Both(u, ent[u][i], o)'
      BY <3>4, <3>5 DEF Claim, Both, PrevClaim, Replaces, Published
    <3>7. \A m \in Names : public'[m] = o => m = n
      BY <1>0, <1>2, <2>1, <3>3 DEF Types
    <3> QED BY <3>6, <3>7 DEF Single
  <2>3. CASE o # s
    <3> HIDE DEF s
    <3>1. \A m \in Names : public'[m] = o => public[m] = o
      BY <1>0, <1>2, <2>1, <2>3 DEF Types
    <3> QED BY <1>4, <1>5, <3>1
  <2> QED BY <2>2, <2>3
<1>6. ASSUME public' = public, \A t \in Trans : ~Moves(t)
      PROVE  Single(o)'
  BY <1>4, <1>6
<1> QED BY <1>3, <1>5, <1>6
        DEF Stride, Waits, Appends, Stages, Publishes, Crashes, Nothing, Unseen

\* A version is replaced at most once: of two invocations that prepared against
\* the same object, scans having missed each other, at most one publishes.
THEOREM OneSucceeds == Spec => []OneSuccessor
<1>1. Init => Unsaved /\ Once
  <2> SUFFICES ASSUME Init PROVE Unsaved /\ Once
    OBVIOUS
  <2>1. \A t \in Trans : Len(ent[t]) = 0
    BY DEF Init
  <2>2. \A m \in Names : public[m] \in {None, OldOf(m)}
    BY DEF Init
  <2>3. Unsaved
    <3> SUFFICES ASSUME NEW k \in 1..MaxSaves PROVE ~Visible(SaveOf(k))
      BY DEF Unsaved
    <3>1. SaveOf(k) # None
      BY MarksAssumption DEF Objects
    <3>2. \A m \in Names : OldOf(m) # SaveOf(k)
      BY DEF OldOf, SaveOf
    <3> QED BY <2>1, <2>2, <3>1, <3>2 DEF Visible
  <2>4. ASSUME NEW o \in Objects
        PROVE  Single(o)
    <3>1. o # None
      BY MarksAssumption
    <3>2. \A m, n \in Names : OldOf(m) = OldOf(n) => m = n
      BY DEF OldOf
    <3> QED BY <2>1, <2>2, <3>1, <3>2 DEF Single
  <2> QED BY <2>3, <2>4 DEF Once
<1>2. Base /\ Unsaved /\ Once /\ [Next]_vars => Unsaved' /\ Once'
  BY NextBase, UnsavedKept, OnceKept DEF Base, RInv
<1>3. Base /\ Once => OneSuccessor
  <2> SUFFICES ASSUME Base, Once, NEW t \in Trans, NEW u \in Trans, t # u,
                      Published(t), Published(u),
                      NEW i \in DOMAIN ent[t], NEW j \in DOMAIN ent[u],
                      ent[t][i].expected \notin doubled \cup {None},
                      ent[t][i].expected = ent[u][j].expected,
                      ~ent[t][i].unchanged, ~ent[u][j].unchanged
               PROVE  FALSE
    BY DEF OneSuccessor
  <2> DEFINE o == ent[t][i].expected
  <2>1. i \in 1..Len(ent[t]) /\ j \in 1..Len(ent[u]) /\ ent[t][i] \in Entry
    BY LenIs DEF Base, RInv
  <2>2. o \in Objects \ doubled
    BY <2>1 DEF Entry, Place
  <2>3. Claim(t, ent[t][i], o) /\ Claim(u, ent[u][j], o)
    BY DEF Claim, PrevClaim, Replaces
  <2> QED BY <2>1, <2>2, <2>3 DEF Once, Single
<1> QED BY <1>1, <1>2, <1>3, InitBase, NextBase, PTL DEF Spec

-----------------------------------------------------------------------------
\* Every object that exists is accounted for.

\* A deleted name has no stage.
DelNone == \A t \in Trans : \A n \in DeleteOnly[t] \cap Names : data[FreshOf(t, n)] = None

\* Nothing ever stages for such a name.
LEMMA DelNoneKept ==
  ASSUME Types, Exist, DelNone, Stride
  PROVE  DelNone'
<1>1. DeleteOnly' = DeleteOnly
  BY SceneStays DEF DeleteOnly
<1> SUFFICES ASSUME NEW t \in Trans, NEW n \in DeleteOnly[t] \cap Names
             PROVE  data'[FreshOf(t, n)] = None
  BY <1>1 DEF DelNone, FreshOf
<1> DEFINE f == FreshOf(t, n)
<1>2. f \in Objects /\ f # None /\ data[f] = None /\ f # SaveOf(saves + 1)
  BY FreshApart DEF DelNone
<1>3. ASSUME NEW u \in Trans, Stages(u)
      PROVE  data'[f] = None
  <2> DEFINE g == FreshOf(u, Now(u).name)
  <2>1. \/ data' = data
        \/ /\ Now(u).name \notin DeleteOnly[u] /\ g \in Objects
           /\ \E d \in Data : data' = [data EXCEPT ![g] = d]
    BY <1>3 DEF Stages
  <2>2. Now(u).name \notin DeleteOnly[u] => g # f
    BY DEF FreshOf
  <2> HIDE DEF f, g
  <2> QED BY <1>2, <2>1, <2>2 DEF Types
<1>4. ASSUME NEW m \in Names, Edits(m)
      PROVE  data'[f] = None
  <2>1. public[m] # f
    BY <1>2 DEF Exist, Known
  <2>2. \/ \E d \in Data : data' = [data EXCEPT ![SaveOf(saves + 1)] = d]
        \/ data' = data
        \/ \E b \in Bytes : data' = [data EXCEPT ![public[m]].bytes = b]
    BY <1>4 DEF Edits
  <2> HIDE DEF f
  <2> QED BY <1>2, <2>1, <2>2 DEF Types
<1> QED BY <1>2, <1>3, <1>4
        DEF Stride, Moves, Waits, Appends, Publishes, Crashes, Nothing, Rest

\* The object is the untouched output of a transaction that did not publish it.
Given(t, e, o) ==
    /\ o = FreshOf(t, e.name) /\ data[o] = made[o] /\ ~e.installed
    /\ Published(t) => e.unchanged

\* How an entry accounts for an object: it has it, has left it in its
\* directory, or was right to let it go.
Cov(t, e, o) ==
    \/ Prev(e) = o /\ (e.capture_valid => data[o] = e.bytes)
    \/ Roll(e) = o
    \/ pc[t] = "crashed" /\ o \in {e.previous, e.rollback}
    \/ Given(t, e, o)
    \/ Replaces(t, e, o) /\ e.bytes = data[o] /\ \A n \in Inputs : o # OldOf(n)

Solid(o) ==
    \/ \E n \in Names : public[n] = o
    \/ o \in dropped
    \/ \E t \in Trans : \E i \in 1..Len(ent[t]) : Cov(t, ent[t][i], o)

AllSolid == \A o \in Objects : data[o] # None => Solid(o)

\* Entries alike account for the same.
LEMMA CovLike ==
  ASSUME NEW u \in Trans, NEW i \in 1..Len(ent[u]), Like(ent'[u][i], ent[u][i]), NEW o,
         Published(u)' <=> Published(u), pc[u] = "crashed" => pc'[u] = "crashed",
         scene' = scene, data'[o] = data[o], made'[o] = made[o], Cov(u, ent[u][i], o)
  PROVE  Cov(u, ent[u][i], o)'
<1>1. Inputs' = Inputs
  BY DEF Inputs
<1>2. CASE Prev(ent[u][i]) = o /\ (ent[u][i].capture_valid => data[o] = ent[u][i].bytes)
  BY <1>2 DEF Like, Cov, Prev
<1>3. CASE Roll(ent[u][i]) = o
  BY <1>3 DEF Like, Cov, Roll
<1>4. CASE pc[u] = "crashed" /\ o \in {ent[u][i].previous, ent[u][i].rollback}
  BY <1>4 DEF Like, Cov
<1>5. CASE Given(u, ent[u][i], o)
  <2>1. Given(u, ent[u][i], o)'
    BY <1>5 DEF Like, Given, FreshOf
  <2> QED BY <2>1 DEF Cov
<1>6. CASE /\ Replaces(u, ent[u][i], o) /\ ent[u][i].bytes = data[o]
           /\ \A n \in Inputs : o # OldOf(n)
  <2>1. Replaces(u, ent[u][i], o)' /\ ent'[u][i].bytes = data'[o]
    BY <1>6 DEF Like, Replaces
  <2> QED BY <1>1, <1>6, <2>1 DEF Cov, OldOf
<1> QED BY <1>2, <1>3, <1>4, <1>5, <1>6 DEF Cov

\* A step that is no move leaves an entry accounting for what it did.
LEMMA CovStays ==
  ASSUME Types, AllFlags, DelNone, scene' = scene,
         NEW u \in Trans, Acts(u) \/ Still(u) \/ Ruined(u), ~Moves(u),
         NEW o \in Objects, data[o] # None, data'[o] = data[o], made'[o] = made[o],
         NEW i \in 1..Len(ent[u]), Cov(u, ent[u][i], o)
  PROVE  i \in 1..Len(ent'[u]) /\ Cov(u, ent[u][i], o)'
<1>0. o # None /\ Len(ent[u]) \in Nat /\ Inputs' = Inputs
  BY LenIs, MarksAssumption DEF Inputs
<1>1. CASE Waits(u) \/ Still(u) \/ Appends(u)
  <2>1. /\ i \in 1..Len(ent'[u]) /\ Like(ent'[u][i], ent[u][i])
        /\ Published(u)' <=> Published(u)
        /\ pc[u] = "crashed" => pc'[u] = "crashed"
    <3>1. CASE Waits(u)
      BY <1>0, <3>1 DEF Waits, Control, Like, Published
    <3>2. CASE Still(u)
      BY <1>0, <3>2 DEF Still, Like, Published
    <3>3. CASE Appends(u)
      BY <1>0, <3>3 DEF Appends, Control, Like, Published
    <3> QED BY <1>1, <3>1, <3>2, <3>3
  <2> QED BY SMTT(60), <2>1, CovLike
<1>2. CASE Ruined(u)
  <2>1. i \in 1..Len(ent'[u]) /\ outcome'[u] = outcome[u] /\ pc'[u] = "crashed"
    BY <1>2 DEF Ruined
  <2>2. CASE outcome[u] = "none"
    <3> DEFINE e == ent[u][i]
               x == ent'[u][i]
    <3>1. Ruin(e, x) /\ ~Published(u) /\ ~Published(u)'
      BY <1>2, <2>1, <2>2 DEF Ruined, Published
    <3>2. CASE o \in {e.previous, e.rollback}
      BY <2>1, <3>1, <3>2 DEF Cov, Ruin
    <3>3. CASE Given(u, e, o)
      <4>1. Given(u, ent[u][i], o)'
        BY <3>1, <3>3 DEF Given, Ruin, Clean, Bare, FreshOf
      <4> QED BY <2>1, <4>1 DEF Cov
    <3> QED BY <1>0, <3>1, <3>2, <3>3 DEF Cov, Prev, Roll, Replaces
  <2>3. CASE outcome[u] # "none"
    <3>1. Like(ent'[u][i], ent[u][i]) /\ (Published(u)' <=> Published(u))
      BY <1>2, <2>1, <2>3 DEF Ruined, Like, Published
    <3> QED BY <2>1, <3>1, CovLike
  <2> QED BY <2>2, <2>3
<1>3. CASE Stages(u)
  <2>1. /\ Control(u) /\ Others(u) /\ outcome[u] = "none" /\ ~Published(u)' /\ ~Published(u)
        /\ i \in 1..Len(ent'[u])
        /\ pc[u] # "crashed"
    BY <1>3 DEF Stages, Control, Published, Others
  <2>2. CASE i = at[u]
    <3> DEFINE e == ent[u][i]
               x == ent'[u][i]
    <3>1. /\ Core(e, x) /\ Held(e, x) /\ Rolled(e, x)
      BY <1>3, <2>2 DEF Stages, Now
    <3>2. Given(u, e, o) => Given(u, ent[u][i], o)'
      BY <2>1, <3>1 DEF Core, Rolled, Given, FreshOf
    <3> QED BY <2>1, <3>1, <3>2 DEF Core, Held, Rolled, Cov, Prev, Roll, Replaces
  <2>3. CASE i # at[u]
    <3>1. Like(ent'[u][i], ent[u][i])
      BY <2>1, <2>3 DEF Others
    <3> QED BY <2>1, <3>1, CovLike
  <2> QED BY <2>2, <2>3
<1>4. CASE Publishes(u)
  <2> DEFINE e == ent[u][i]
  <2>1. /\ ent' = ent /\ pc[u] = "committed" /\ i \in 1..Len(ent'[u]) /\ ~Published(u)
    BY <1>4 DEF Publishes, Published
  <2>2. Settled(u, e) /\ e.name \in Names
    BY <2>1, LenIs DEF AllFlags, Flags, Flag, Entry
  <2>3. CASE Given(u, e, o)
    <3>1. e.unchanged
      BY <2>2, <2>3 DEF Settled, Given, DelNone
    <3>2. Given(u, ent[u][i], o)'
      BY <2>1, <2>3, <3>1 DEF Given, FreshOf
    <3> QED BY <2>1, <3>2 DEF Cov
  <2>4. CASE ~Given(u, e, o)
    BY <2>1, <2>4 DEF Cov, Prev, Roll, Replaces
  <2> QED BY <2>3, <2>4
<1> QED BY <1>1, <1>2, <1>3, <1>4 DEF Acts

\* The entry a transaction moves accounts for what it and its name did.
LEMMA CovMoves ==
  ASSUME Types, AllFlags, Gates, NEW t \in Trans, Moves(t),
         NEW o \in Objects, data[o] # None,
         NEW e, e = Now(t), NEW x, x = ent'[t][at[t]], NEW n, n = e.name,
         public[n] = o \/ Cov(t, e, o)
  PROVE  public'[n] = o \/ Cov(t, x, o)
<1>1. /\ Core(e, x) /\ n \in Names /\ public \in [Names -> Place] /\ o # None
      /\ e = ent[t][at[t]] /\ at[t] \in 1..Len(ent[t]) /\ e \in Entry /\ pc[t] # "crashed"
  BY MarksAssumption DEF Moves, Now, Entry, Types, Control
<1>2. Gate(t, at[t]) /\ Flag(t, at[t], e, pc[t], at[t], outcome[t])
  BY <1>1 DEF Gates, AllFlags, Flags
<1>3. CASE Rests(t, e, x)
  BY <1>1, <1>3 DEF Rests, Judged, Held, Rolled, Unseen, Core, Cov, Prev, Roll, Given, Replaces
<1>4. CASE Drops(t, e, x)
  <2>1. CASE Prev(e) = o /\ (e.capture_valid => data[o] = e.bytes)
    <3>1. e.captured /\ e.previous = o /\ Published(t)
      BY <1>1, <1>4, <2>1 DEF Prev, Drops, Bare
    <3>2. e.capture_valid /\ e.expected = o /\ data[o] = e.bytes
      BY <1>4, <2>1, <3>1 DEF Drops, Discardable
    <3>3. ~e.unchanged /\ Good(e)
      BY <1>2, <3>1 DEF Flag, Published
    <3>4. \A m \in Inputs : o # OldOf(m)
      BY <3>1, <3>3 DEF Good
    <3>5. x.expected = o /\ x.bytes = data[o] /\ ~x.unchanged
      BY <1>1, <1>4, <3>2, <3>3 DEF Core, Drops, Judged
    <3> QED BY <3>1, <3>4, <3>5 DEF Cov, Replaces
  <2>2. CASE public[n] = o \/ Roll(e) = o \/ Given(t, e, o)
    BY <1>1, <1>4, <2>2 DEF Drops, Judged, Rolled, Unseen, Core, Cov, Roll, Given
  <2>3. CASE Replaces(t, e, o) /\ e.bytes = data[o] /\ \A m \in Inputs : o # OldOf(m)
    BY <1>1, <1>4, <2>3 DEF Drops, Judged, Core, Cov, Replaces
  <2> QED BY <1>1, <2>1, <2>2, <2>3 DEF Cov
<1>5. ASSUME outcome[t] = "none", Moved(t, e, x)
      PROVE  public'[n] = o \/ Cov(t, x, o)
  <2>0. ~Published(t) /\ ~Replaces(t, e, o)
    BY <1>5 DEF Published, Replaces
  <2>9. \/ public[n] = o
        \/ Prev(e) = o /\ (e.capture_valid => data[o] = e.bytes)
        \/ Roll(e) = o \/ Given(t, e, o)
    BY <1>1, <2>0 DEF Cov
  <2>1. CASE Judges(t, e, x)
    BY <1>1, <2>0, <2>1, <2>9 DEF Judges, Held, Rolled, Unseen, Core, Cov, Prev, Roll, Given
  <2>2. CASE Takes(t, e, x)
    BY <1>1, <2>0, <2>2, <2>9 DEF Takes, Rolled, Core, Cov, Prev, Roll, Given, Clean, Bare
  <2>3. CASE GivesBack(t, e, x)
    BY <1>1, <2>0, <2>3, <2>9 DEF GivesBack, Rolled, Shows, Core, Cov, Prev, Roll, Given
  <2>4. CASE Puts(t, e, x)
    <3>1. Produced(t, at[t])
      BY <1>1, <2>4, PutsProduced
    <3>2. e.stage = FreshOf(t, n)
      BY <1>1, <1>2, <2>4, <3>1 DEF Gate, Puts
    <3> QED BY <1>1, <2>4, <2>9, <3>2 DEF Puts, Held, Shows, Core, Cov, Prev, Roll, Given
  <2>5. CASE Vanishes(t, e, x)
    BY <1>1, <2>5, <2>9 DEF Vanishes, Held, Core, Cov, Prev, Roll, Given
  <2>6. CASE Catches(t, e, x)
    BY <1>1, <2>6, <2>9 DEF Catches, Held, Core, Cov, Prev, Roll, Given
  <2>7. CASE Tosses(t, e, x)
    <3>1. CASE Roll(e) = o
      <4>1. /\ e.rollback = o /\ e.fresh = o /\ e.installed /\ x.name = n /\ ~x.installed
            /\ data[o].kind = "dir" => e.tree = data[o]
        <5>1. /\ e.installed /\ e.rollback_pending /\ ~x.installed
              /\ e.rollback = e.fresh
              /\ data[e.rollback].kind = "dir" => e.tree = data[e.rollback]
          BY <2>7 DEF Tosses, RollbackOurs
        <5>2. e.rollback = o
          BY <3>1, <5>1 DEF Roll
        <5>3. x.name = n
          BY <1>1 DEF Core
        <5> QED BY <5>1, <5>2, <5>3
      <4>2. /\ o = FreshOf(t, n) /\ data[o].kind = made[o].kind
            /\ made[o].kind = "file" => data[o] = made[o]
            /\ made[o].kind = "dir" => e.tree = made[o]
        BY <1>1, <1>2, <2>7, <4>1 DEF Gate, Tosses, Aborting
      <4>3. data[o].kind \in {"file", "dir"}
        BY DEF Types, Data, Kinds
      <4>4. Given(t, x, o)
        BY <2>0, <4>1, <4>2, <4>3 DEF Given
      <4> QED BY <4>4 DEF Cov
    <3>2. CASE Roll(e) # o
      BY <1>1, <2>7, <2>9, <3>2 DEF Tosses, Held, Unseen, Core, Cov, Prev, Given
    <3> QED BY <3>1, <3>2
  <2>8. CASE Returns(t, e, x)
    BY <1>1, <2>8, <2>9 DEF Returns, Held, Shows, Core, Cov, Prev, Roll, Given
  <2> QED BY <1>5, <2>1, <2>2, <2>3, <2>4, <2>5, <2>6, <2>7, <2>8 DEF Moved
<1> QED BY <1>3, <1>4, <1>5 DEF Moves

\* A move keeps every object accounted for.
LEMMA MoveSolid ==
  ASSUME Types, AllFlags, Gates, scene' = scene, NEW t \in Trans, Moves(t),
         NEW o \in Objects, data[o] # None, Solid(o)
  PROVE  Solid(o)'
<1> DEFINE n == Now(t).name
<1>1. /\ n \in Names /\ at[t] \in 1..Len(ent[t]) /\ Now(t) = ent[t][at[t]] /\ Control(t)
      /\ Others(t) /\ UNCHANGED <<data, made, dropped>>
  BY DEF Moves, Now, Entry
<1>2. \A m \in Names : m # n => public'[m] = public[m]
  BY <1>1, MoveTouches
<1>3. /\ \A u \in Trans : Published(u)' <=> Published(u)
      /\ \A u \in Trans : pc[u] = "crashed" => pc'[u] = "crashed"
      /\ Inputs' = Inputs
  BY <1>1 DEF Control, Published, Inputs
<1>4. CASE o \in dropped \/ \E m \in Names : m # n /\ public[m] = o
  BY <1>1, <1>2, <1>4 DEF Solid
<1>5. ASSUME NEW u \in Trans, NEW i \in 1..Len(ent[u]), u # t \/ i # at[t],
             Cov(u, ent[u][i], o)
      PROVE  Solid(o)'
  <2>1. Like(ent'[u][i], ent[u][i]) /\ i \in 1..Len(ent'[u])
    BY <1>1, <1>5 DEF Others
  <2>2. Cov(u, ent[u][i], o)'
    BY <1>1, <1>3, <1>5, <2>1, CovLike
  <2> QED BY <2>1, <2>2 DEF Solid
<1>6. ASSUME public[n] = o \/ Cov(t, Now(t), o)
      PROVE  Solid(o)'
  <2>1. public'[n] = o \/ Cov(t, ent'[t][at[t]], o)
    BY <1>6, CovMoves
  <2>2. ASSUME NEW i \in 1..Len(ent[t]), i = at[t], Cov(t, ent'[t][at[t]], o)
        PROVE  Cov(t, ent[t][i], o)' /\ i \in 1..Len(ent'[t])
    <3>1. i \in 1..Len(ent'[t]) /\ pc[t] # "crashed"
      BY <1>1 DEF Others, Control
    <3>2. Given(t, ent'[t][i], o) => Given(t, ent[t][i], o)'
      BY <1>1, <1>3 DEF Given, FreshOf
    <3>3. Replaces(t, ent'[t][i], o) => Replaces(t, ent[t][i], o)'
      BY <1>3 DEF Replaces
    <3> QED BY <1>1, <1>3, <2>2, <3>1, <3>2, <3>3 DEF Cov, Prev, Roll, OldOf
  <2> QED BY <1>1, <2>1, <2>2 DEF Solid
<1> QED BY <1>1, <1>4, <1>5, <1>6 DEF Solid

\* Every step keeps every object accounted for.
LEMMA SolidKept ==
  ASSUME RInv, Exist, AllFlags, Gates, Private, DelNone, AllSolid, Stride
  PROVE  AllSolid'
<1>0. Types /\ scene' = scene
  BY SceneStays DEF RInv
<1> SUFFICES ASSUME NEW o \in Objects, data'[o] # None
             PROVE  Solid(o)'
  BY DEF AllSolid
<1>1. o # None
  BY MarksAssumption
<1>2. ASSUME NEW t \in Trans, Moves(t)
      PROVE  Solid(o)'
  <2>1. data' = data /\ data[o] # None /\ Solid(o)
    BY <1>2 DEF Moves, AllSolid
  <2> QED BY <1>0, <1>2, <2>1, MoveSolid
<1>3. ASSUME \A t \in Trans : ~Moves(t), data'[o] = data[o], made'[o] = made[o],
             dropped \subseteq dropped',
             \A m \in Names : public[m] = o => public'[m] = o \/ o \in dropped'
      PROVE  Solid(o)'
  <2>1. Solid(o) /\ data[o] # None
    BY <1>3 DEF AllSolid
  <2>2. \A u \in Trans : Acts(u) \/ Still(u) \/ Ruined(u)
    BY <1>0, EachActs
  <2>3. \A u \in Trans : \A i \in 1..Len(ent[u]) : Cov(u, ent[u][i], o) =>
          i \in 1..Len(ent'[u]) /\ Cov(u, ent[u][i], o)'
    BY <1>0, <1>3, <2>1, <2>2, CovStays
  <2> QED BY <1>3, <2>1, <2>3 DEF Solid
<1>4. ASSUME NEW t \in Trans, Stages(t), \A u \in Trans : ~Moves(u)
      PROVE  Solid(o)'
  <2> DEFINE f == FreshOf(t, Now(t).name)
  <2>1. /\ f \in Objects /\ made' = [made EXCEPT ![f] = data'[f]]
        /\ data' = data \/ \E d \in Data : data' = [data EXCEPT ![f] = d]
        /\ Unseen /\ dropped' = dropped
    BY <1>4 DEF Stages
  <2>2. CASE o = f
    <3>1. made'[o] = data'[o]
      BY <1>0, <2>1, <2>2 DEF Types
    <3>2. /\ at[t] \in 1..Len(ent[t]) /\ Others(t) /\ Control(t) /\ outcome[t] = "none"
          /\ Core(Now(t), ent'[t][at[t]]) /\ Rolled(Now(t), ent'[t][at[t]]) /\ Clean(Now(t))
      BY <1>4 DEF Stages
    <3>3. ASSUME NEW i \in 1..Len(ent[t]), i = at[t]
          PROVE  i \in 1..Len(ent'[t]) /\ Given(t, ent[t][i], o)'
      <4>1. ~Published(t)' /\ ent'[t][i].name = Now(t).name /\ ~ent'[t][i].installed
        BY <3>2, <3>3 DEF Control, Published, Core, Rolled, Clean, Bare
      <4>2. i \in 1..Len(ent'[t])
        BY <3>2, <3>3 DEF Others
      <4> QED BY <2>2, <3>1, <4>1, <4>2 DEF Given, FreshOf
    <3> QED BY <3>2, <3>3 DEF Solid, Cov
  <2>3. CASE o # f
    <3> HIDE DEF f
    <3>1. data'[o] = data[o] /\ made'[o] = made[o]
      BY <1>0, <2>1, <2>3 DEF Types
    <3> QED BY <1>3, <1>4, <2>1, <3>1 DEF Unseen
  <2> QED BY <2>2, <2>3
<1>5. ASSUME NEW n \in Names, Edits(n), \A u \in Trans : ~Moves(u)
      PROVE  Solid(o)'
  <2> DEFINE s == SaveOf(saves + 1)
  <2>1. made' = made /\ public \in [Names -> Place] /\ data \in [Objects -> Data \cup {None}]
    BY <1>0, <1>5 DEF Edits, Rest, Types
  <2>2. CASE /\ public' = [public EXCEPT ![n] = s]
             /\ \E d \in Data : data' = [data EXCEPT ![s] = d]
             /\ dropped' = dropped \cup ({public[n]} \ {None})
    <3> HIDE DEF s
    <3>1. CASE o = s
      <4>1. public'[n] = o
        BY <2>1, <2>2, <3>1
      <4> QED BY <4>1 DEF Solid
    <3>2. CASE o # s
      <4>1. data'[o] = data[o]
        BY <2>1, <2>2, <3>2
      <4>2. \A m \in Names : public[m] = o => public'[m] = o \/ o \in dropped'
        BY <1>1, <2>1, <2>2
      <4> QED BY <1>3, <1>5, <2>1, <2>2, <4>1, <4>2
    <3> QED BY <3>1, <3>2
  <2>3. CASE /\ public' = [public EXCEPT ![n] = None] /\ data' = data
             /\ dropped' = dropped \cup {public[n]}
    <3>1. \A m \in Names : public[m] = o => public'[m] = o \/ o \in dropped'
      BY <2>1, <2>3
    <3> QED BY <1>3, <1>5, <2>1, <2>3, <3>1
  <2>4. CASE /\ public' = public /\ dropped' = dropped
             /\ \E b \in Bytes : data' = [data EXCEPT ![public[n]].bytes = b]
    <3>1. CASE o = public[n]
      BY <2>4, <3>1 DEF Solid
    <3>2. CASE o # public[n]
      <4>1. data'[o] = data[o]
        BY <2>1, <2>4, <3>2
      <4> QED BY <1>3, <1>5, <2>1, <2>4, <4>1
    <3> QED BY <3>1, <3>2
  <2> QED BY <1>5, <2>2, <2>3, <2>4 DEF Edits
<1>6. ASSUME UNCHANGED <<public, data, made, dropped>>, \A u \in Trans : ~Moves(u)
      PROVE  Solid(o)'
  BY <1>3, <1>6
<1> QED BY <1>2, <1>4, <1>5, <1>6
        DEF Stride, Waits, Appends, Publishes, Crashes, Nothing, Rest, Unseen

\* Nothing is destroyed that is not the transaction's to destroy, whoever
\* renames, removes, writes, crashes or fails in between: an object in no place
\* any more was given up by its owner, is the untouched output of a transaction
\* that did not publish it, or is the version a published output replaces, with
\* the very bytes its preparation saw.
THEOREM NothingIsLost == Spec => []NothingLost
<1>1. Init => DelNone /\ AllSolid
  <2> SUFFICES ASSUME Init PROVE DelNone /\ AllSolid
    OBVIOUS
  <2>1. PICK first \in Bytes :
          \E found \in [Names -> [kind : scene.first, bytes : {first}] \cup {None}] :
            /\ public = [n \in Names |-> IF found[n] = None THEN None ELSE OldOf(n)]
            /\ data = [o \in Objects |-> IF \E n \in Names : o = OldOf(n)
                                           THEN found[CHOOSE n \in Names : o = OldOf(n)]
                                           ELSE None]
    BY DEF Init
  <2>2. PICK found \in [Names -> [kind : scene.first, bytes : {first}] \cup {None}] :
            /\ public = [n \in Names |-> IF found[n] = None THEN None ELSE OldOf(n)]
            /\ data = [o \in Objects |-> IF \E n \in Names : o = OldOf(n)
                                           THEN found[CHOOSE n \in Names : o = OldOf(n)]
                                           ELSE None]
    BY <2>1
  <2>3. DelNone
    <3> SUFFICES ASSUME NEW t \in Trans, NEW n \in Names
                 PROVE  data[FreshOf(t, n)] = None
      BY DEF DelNone
    <3>1. FreshOf(t, n) \in Objects /\ \A m \in Names : FreshOf(t, n) # OldOf(m)
      BY FreshApart
    <3> QED BY <2>2, <3>1
  <2>4. ASSUME NEW o \in Objects, data[o] # None
        PROVE  Solid(o)
    <3>1. PICK m \in Names : o = OldOf(m)
      BY <2>2, <2>4
    <3>2. \A k \in Names : o = OldOf(k) => k = m
      BY <3>1 DEF OldOf
    <3>3. (CHOOSE k \in Names : o = OldOf(k)) = m
      BY <3>1, <3>2
    <3>4. found[m] # None
      BY <2>2, <2>4, <3>1, <3>3
    <3>5. public[m] = o
      BY <2>2, <3>1, <3>4
    <3> QED BY <3>5 DEF Solid
  <2> QED BY <2>3, <2>4 DEF AllSolid
<1>2. Base /\ DelNone /\ AllSolid /\ [Next]_vars => DelNone' /\ AllSolid'
  BY NextBase, DelNoneKept, SolidKept DEF Base, RInv
<1>3. Base /\ AllSolid => NothingLost
  <2> SUFFICES ASSUME Base, AllSolid, NEW o \in Objects, data[o] # None, ~Present(o)
               PROVE  \/ o \in dropped
                      \/ \E t \in Trans, n \in Names :
                           /\ o = FreshOf(t, n) /\ data[o] = made[o]
                           /\ Published(t) => \E i \in DOMAIN ent[t] :
                                ent[t][i].name = n /\ ent[t][i].unchanged
                      \/ \E t \in Trans : \E i \in DOMAIN ent[t] :
                           /\ Published(t) /\ ~ent[t][i].unchanged
                           /\ ent[t][i].expected = o /\ ent[t][i].bytes = data[o]
                           /\ \A n \in Inputs : o # OldOf(n)
    BY DEF NothingLost
  <2>1. Solid(o) /\ o # None /\ ~\E n \in Names : public[n] = o
    BY MarksAssumption DEF AllSolid, Present
  <2>2. CASE o \in dropped
    BY <2>2
  <2>3. ASSUME NEW t \in Trans, NEW i \in 1..Len(ent[t]), Cov(t, ent[t][i], o)
        PROVE  \/ \E n \in Names :
                    /\ o = FreshOf(t, n) /\ data[o] = made[o]
                    /\ Published(t) => \E j \in DOMAIN ent[t] :
                         ent[t][j].name = n /\ ent[t][j].unchanged
               \/ \E j \in DOMAIN ent[t] :
                    /\ Published(t) /\ ~ent[t][j].unchanged
                    /\ ent[t][j].expected = o /\ ent[t][j].bytes = data[o]
                    /\ \A n \in Inputs : o # OldOf(n)
    <3>1. i \in DOMAIN ent[t] /\ ent[t][i].name \in Names
      BY LenIs DEF Base, RInv, Entry
    <3>2. o \notin {ent[t][i].previous, ent[t][i].rollback}
      BY <3>1 DEF Present, Slots
    <3>3. Prev(ent[t][i]) # o /\ Roll(ent[t][i]) # o
      BY <2>1, <3>2 DEF Prev, Roll
    <3>4. CASE Given(t, ent[t][i], o)
      BY <3>1, <3>4 DEF Given
    <3>5. CASE /\ Replaces(t, ent[t][i], o) /\ ent[t][i].bytes = data[o]
               /\ \A n \in Inputs : o # OldOf(n)
      BY <3>1, <3>5 DEF Replaces
    <3> QED BY <2>3, <3>2, <3>3, <3>4, <3>5 DEF Cov
  <2> QED BY <2>1, <2>2, <2>3 DEF Solid
<1> QED BY <1>1, <1>2, <1>3, InitBase, NextBase, PTL DEF Spec
=============================================================================
