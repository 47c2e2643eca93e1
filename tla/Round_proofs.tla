---------------------------- MODULE Round_proofs ----------------------------
(***************************************************************************)
(* Proofs about Round, for any fibres and any capacity, over a table that  *)
(* holds no record when the round is made.                                 *)
(*                                                                         *)
(* CurrentRuns is not inductive: a fibre's end resumes Home without        *)
(* writing `current`, so it rests on Home being suspended in its own       *)
(* round_yield with its entry in `was`, and that on the sweep never        *)
(* emptying an unfinished process's entry.                                 *)
(*                                                                         *)
(* The last part is about `quiet`, the count of yields in a row: it counts *)
(* the entries of a set Y of processes that have yielded since something   *)
(* happened, who come before everybody else in the order of turns, so that *)
(* the idler is called when Y is everyone.  Fibre_proofs and               *)
(* EventLoop_proofs build on it.                                           *)
(***************************************************************************)
EXTENDS Round, FiniteSetTheorems, TLAPS

Table == 0 .. Capacity - 1

(* The table: Home at entry 0 and nowhere else, nobody twice, nobody       *)
(* beyond the count, and everybody unfinished somewhere.                   *)
TableKept ==
  /\ entries[0] = Home
  /\ \A i \in Table : i >= count => entries[i] = NoFibre
  /\ \A i, j \in Table : entries[i] = entries[j] /\ entries[i] # NoFibre
                           => i = j
  /\ \A p \in Everyone : status[p] # 0 => \E i \in Table : entries[i] = p

(* Who is where: an ended process nowhere, the running one in its code or  *)
(* the round's, and every other suspended by a switch or not yet run.      *)
PlacesKept ==
  /\ status[Home] # 0 /\ pc[Home] # "new"
  /\ \A p \in Everyone : status[p] = 0 <=> pc[p] = "ended"
  /\ status[running] # 0 /\ pc[running] # "new"
  /\ \A p \in Everyone : p = running \/ pc[p] \in {"ended", "new", "away"}

(* A suspended process knows its own entry.                                *)
WasKept == \A p \in Everyone : pc[p] = "away" => entries[was[p]] = p

IInv == TypeOK /\ TableKept /\ PlacesKept /\ WasKept /\ CurrentRuns

USE RoundAssumption DEF RoundAssumption, Everyone

-----------------------------------------------------------------------------
(* What sweep leaves: the entries of the unfinished, and no others.        *)
LEMMA SweepTable ==
  ASSUME IInv
  PROVE  /\ Swept \in [Table -> Everyone \cup {NoFibre}]
         /\ \A i \in Table : Swept[i] = entries[i] \/ Swept[i] = NoFibre
         /\ \A i \in Table : entries[i] \in Everyone /\ status[entries[i]] # 0
                               => Swept[i] = entries[i]
  BY DEF IInv, TypeOK, Swept, Emptied, Table

(* A step that sweeps, counts and leaves the running process running       *)
(* keeps the invariant.                                                    *)
LEMMA SweepStep ==
  ASSUME IInv, NEW p \in Everyone,
         running = p, pc[p] \in {"body", "look"},
         entries' = Swept, quiet' \in Nat,
         count' \in 1 .. Capacity, count <= count', current \in 0 .. count' - 1,
         UNCHANGED <<current, status, running, was>>,
         waiting' \in [Everyone -> BOOLEAN], since' \in [Everyone -> BOOLEAN],
         NEW place \in {"body", "idle", "turn"},
         pc' = [pc EXCEPT ![p] = place]
  PROVE  IInv'
<1>1. TypeOK'
  <2>1. entries' \in [0 .. Capacity - 1 -> Everyone \cup {NoFibre}]
    BY SweepTable DEF Table
  <2>2. current' \in 0 .. count' - 1
    OBVIOUS
  <2>3. pc' \in [Everyone -> Places]
    BY DEF IInv, TypeOK, Places
  <2> QED BY <2>1, <2>2, <2>3 DEF IInv, TypeOK
<1>2. TableKept'
  <2>1. Swept[0] = Home
    BY SweepTable DEF IInv, TypeOK, TableKept, PlacesKept, Table
  <2>2. \A i \in Table : i >= count' => Swept[i] = NoFibre
    BY SweepTable DEF IInv, TypeOK, TableKept, Table
  <2>3. \A i, j \in Table : Swept[i] = Swept[j] /\ Swept[i] # NoFibre => i = j
    BY SweepTable DEF IInv, TableKept
  <2>4. \A q \in Everyone : status[q] # 0 => \E i \in Table : Swept[i] = q
    BY SweepTable DEF IInv, TableKept
  <2> QED BY <2>1, <2>2, <2>3, <2>4 DEF TableKept
<1>3. PlacesKept'
  BY DEF IInv, TypeOK, PlacesKept
<1>4. WasKept'
  BY SweepTable DEF IInv, TypeOK, PlacesKept, WasKept, Table
<1>5. CurrentRuns'
  <2>1. current \in Table /\ entries[current] = p
    BY DEF IInv, TypeOK, CurrentRuns, Table
  <2>2. Swept[current] = p
    BY <2>1, SweepTable DEF IInv, PlacesKept
  <2> QED BY <2>2 DEF CurrentRuns
<1> QED
  BY <1>1, <1>2, <1>3, <1>4, <1>5 DEF IInv

-----------------------------------------------------------------------------
(* quiet and the comparisons keep their types through a sweep.             *)
LEMMA SweepTypes ==
  ASSUME IInv
  PROVE  /\ Counted \in Nat
         /\ Noticed \in [Everyone -> BOOLEAN]
         /\ \A p \in Everyone :
              [Noticed EXCEPT ![p] = FALSE] \in [Everyone -> BOOLEAN]
<1>1. Counted \in Nat
  BY DEF IInv, TypeOK, Counted
<1>2. Noticed \in [Everyone -> BOOLEAN]
  BY DEF Noticed
<1> QED
  BY <1>1, <1>2

(* round_yield's part of a step counts and goes to the idler or on.        *)
LEMMA YieldingPlace ==
  ASSUME IInv, NEW p \in Everyone, Yielding(p)
  PROVE  /\ entries' = Swept /\ quiet' \in Nat
         /\ \E place \in {"body", "idle", "turn"} :
              pc' = [pc EXCEPT ![p] = place]
  BY SweepTypes DEF Yielding, Goes

(* Every operation that sweeps and starts nothing.                         *)
LEMMA SweepingStep ==
  ASSUME IInv, NEW p \in Everyone,
         \/ StartTooSmall(p) \/ StartFull(p) \/ Yield(p)
         \/ WaitForNobody(p) \/ Wait(p) \/ WaitReturns(p) \/ WaitOn(p)
  PROVE  IInv'
<1>1. CASE StartTooSmall(p)
  <2>1. /\ count' \in 1 .. Capacity /\ count <= count'
        /\ current \in 0 .. count' - 1
    BY <1>1 DEF StartTooSmall, HasRoom, FreeEntries, Counting, IInv, TypeOK
  <2>2. pc' = [pc EXCEPT ![p] = "body"]
    BY <1>1 DEF StartTooSmall, InBody, IInv, TypeOK
  <2> QED
    BY <1>1, <2>1, <2>2, SweepTypes, SweepStep
    DEF StartTooSmall, InBody, IInv, TypeOK
<1>2. CASE StartFull(p) \/ WaitForNobody(p)
  <2>1. pc' = [pc EXCEPT ![p] = "body"]
    BY <1>2 DEF StartFull, WaitForNobody, InBody, IInv, TypeOK
  <2>2. /\ count' \in 1 .. Capacity /\ count <= count'
        /\ current \in 0 .. count' - 1
    BY <1>2 DEF StartFull, WaitForNobody, IInv, TypeOK
  <2> QED
    BY ZenonT(60), <1>2, <2>1, <2>2, SweepTypes, SweepStep
    DEF StartFull, WaitForNobody, InBody, IInv, TypeOK
<1>3. CASE Yield(p) \/ Wait(p) \/ WaitOn(p)
  <2>1. Yielding(p) /\ running = p /\ pc[p] \in {"body", "look"}
    BY <1>3 DEF Yield, Wait, WaitOn, InBody
  <2>2. PICK place \in {"body", "idle", "turn"} :
          pc' = [pc EXCEPT ![p] = place]
    BY <2>1, YieldingPlace
  <2>3. /\ count' \in 1 .. Capacity /\ count <= count'
        /\ current \in 0 .. count' - 1
    BY <1>3 DEF Yield, Wait, WaitOn, IInv, TypeOK
  <2>4. since' \in [Everyone -> BOOLEAN]
    BY <1>3, SweepTypes DEF Yield, Wait, WaitOn
  <2>5. waiting' \in [Everyone -> BOOLEAN]
    BY <1>3 DEF Yield, Wait, WaitOn, IInv, TypeOK
  <2>6. UNCHANGED <<current, status, running, was>>
    BY <1>3 DEF Yield, Wait, WaitOn
  <2> QED
    BY <2>1, <2>2, <2>3, <2>4, <2>5, <2>6, YieldingPlace, SweepStep
<1>4. CASE WaitReturns(p)
  <2>1. /\ count' \in 1 .. Capacity /\ count <= count'
        /\ current \in 0 .. count' - 1
        /\ waiting' \in [Everyone -> BOOLEAN]
    BY <1>4 DEF WaitReturns, IInv, TypeOK
  <2> QED
    BY <1>4, <2>1, SweepTypes, SweepStep DEF WaitReturns, Goes
<1> QED
  BY <1>1, <1>2, <1>3, <1>4

(* round_start puts the record into an entry nobody has.                   *)
LEMMA StartStep ==
  ASSUME IInv, NEW p \in Everyone, NEW r \in Fibres, Start(p, r)
  PROVE  IInv'
<1>1. PICK i \in 1 .. Capacity - 1 :
        StartsAt(i) /\ entries' = [Swept EXCEPT ![i] = r]
  BY DEF Start
<1>2. Swept[i] = NoFibre /\ i < Counting /\ Counting \in count .. Capacity
  <2>1. CASE FreeEntries = {}
    BY <1>1, <2>1, SweepTable
    DEF StartsAt, Counting, IInv, TypeOK, TableKept, Table
  <2>2. CASE FreeEntries # {}
    BY <1>1, <2>2 DEF StartsAt, Counting, FreeEntries, IInv, TypeOK
  <2> QED BY <2>1, <2>2
<1>3. /\ running = p /\ pc[p] = "body" /\ status[r] = 0
      /\ count' = Counting /\ status' = [status EXCEPT ![r] = 1]
      /\ pc' = [pc EXCEPT ![r] = "new"] /\ quiet' = 0 /\ since' = Noticed
      /\ UNCHANGED <<current, running, was, waiting>>
  BY DEF Start, InBody, Goes
<1>4. r # p /\ r # Home /\ pc[r] = "ended" /\ \A j \in Table : Swept[j] # r
  <2>1. r # p /\ r # Home /\ pc[r] = "ended"
    BY <1>3 DEF IInv, PlacesKept
  <2>2. ASSUME NEW j \in Table, Swept[j] = r PROVE FALSE
    <3>1. entries[j] = r /\ j # 0 /\ j < count
      BY <2>1, <2>2, SweepTable DEF IInv, TypeOK, TableKept, Table
    <3>2. j \in Emptied
      BY <1>3, <3>1 DEF Emptied, Table, IInv, TypeOK
    <3> QED BY <2>2, <3>2 DEF Swept, Table
  <2> QED BY <2>1, <2>2
<1>5. TypeOK'
  <2>1. entries' \in [0 .. Capacity - 1 -> Everyone \cup {NoFibre}]
    BY <1>1, SweepTable DEF Table
  <2>2. count' \in 1 .. Capacity /\ current' \in 0 .. count' - 1
    BY <1>2, <1>3 DEF IInv, TypeOK
  <2>3. pc' \in [Everyone -> Places] /\ status' \in [Everyone -> {0, 1}]
    BY <1>3 DEF IInv, TypeOK, Places
  <2>4. since' \in [Everyone -> BOOLEAN]
    BY <1>3, SweepTypes
  <2> QED BY <1>3, <2>1, <2>2, <2>3, <2>4 DEF IInv, TypeOK
<1>6. TableKept'
  <2>1. entries'[0] = Home
    BY <1>1, SweepTable DEF IInv, TypeOK, TableKept, PlacesKept, Table
  <2>2. \A j \in Table : j >= count' => entries'[j] = NoFibre
    BY <1>1, <1>2, <1>3, SweepTable DEF IInv, TypeOK, TableKept, Table
  <2>3. \A j, k \in Table :
          entries'[j] = entries'[k] /\ entries'[j] # NoFibre => j = k
    BY <1>1, <1>4, SweepTable DEF IInv, TableKept, Table
  <2>4. \A q \in Everyone : status'[q] # 0 => \E j \in Table : entries'[j] = q
    <3>1. ASSUME NEW q \in Everyone, status'[q] # 0
          PROVE  \E j \in Table : entries'[j] = q
      <4>1. CASE q = r
        BY <1>1, <4>1, SweepTable DEF Table
      <4>2. CASE q # r
        <5>1. status[q] # 0
          BY <1>3, <3>1, <4>2 DEF IInv, TypeOK
        <5>2. PICK j \in Table : entries[j] = q
          BY <5>1 DEF IInv, TableKept
        <5>3. Swept[j] = q
          BY <5>1, <5>2, SweepTable
        <5> QED BY <1>1, <1>2, <5>3, SweepTable DEF Table
      <4> QED BY <4>1, <4>2
    <3> QED BY <3>1
  <2> QED BY <2>1, <2>2, <2>3, <2>4 DEF TableKept
<1>7. PlacesKept'
  BY <1>3, <1>4 DEF IInv, TypeOK, PlacesKept
<1>8. WasKept'
  <2>1. ASSUME NEW q \in Everyone, pc'[q] = "away" PROVE entries'[was[q]] = q
    <3>1. pc[q] = "away" /\ q # r
      BY <1>3, <2>1 DEF IInv, TypeOK
    <3>2. was[q] \in Table /\ Swept[was[q]] = q
      BY <3>1, SweepTable DEF IInv, TypeOK, WasKept, PlacesKept, Table
    <3> QED BY <1>1, <1>2, <3>2, SweepTable DEF Table
  <2> QED BY <1>3, <2>1 DEF WasKept
<1>9. CurrentRuns'
  <2>1. current \in Table /\ Swept[current] = p
    BY <1>3, SweepTable DEF IInv, TypeOK, CurrentRuns, PlacesKept, Table
  <2> QED BY <1>1, <1>2, <1>3, <2>1, SweepTable DEF CurrentRuns, Table
<1> QED
  BY <1>5, <1>6, <1>7, <1>8, <1>9 DEF IInv

-----------------------------------------------------------------------------
(* The steps inside round_yield that switch to nobody.                     *)
LEMMA StayStep ==
  ASSUME IInv, NEW p \in Everyone, Idled(p) \/ KeepTurn(p)
  PROVE  IInv'
<1>1. PICK place \in {"turn", "look", "body"} : pc' = [pc EXCEPT ![p] = place]
  BY DEF Idled, KeepTurn, Goes, Returned
<1>2. /\ running = p /\ pc[p] \in {"idle", "turn"}
      /\ UNCHANGED <<entries, count, current, quiet, status, running, was,
                     waiting, since>>
  BY DEF Idled, KeepTurn
<1>3. TypeOK'
  BY <1>1, <1>2 DEF IInv, TypeOK, Places
<1>4. TableKept'
  BY <1>2 DEF IInv, TableKept
<1>5. PlacesKept' /\ WasKept' /\ CurrentRuns'
  BY <1>1, <1>2 DEF IInv, TypeOK, PlacesKept, WasKept, CurrentRuns
<1> QED
  BY <1>3, <1>4, <1>5 DEF IInv

(* The switch goes to another process, suspended or new.                   *)
LEMMA TurnStep ==
  ASSUME IInv, NEW p \in Everyone, Turn(p)
  PROVE  IInv'
<1>1. PICK i \in 0 .. count - 1 :
        /\ TurnsTo(i) /\ i # current
        /\ current' = i
        /\ running' = entries[i]
        /\ pc' = [pc EXCEPT ![p] = "away",
                            ![entries[i]] = IF @ = "new" THEN "body" ELSE @]
  BY DEF Turn
<1>2. /\ running = p /\ pc[p] = "turn"
      /\ was' = [was EXCEPT ![p] = current]
      /\ UNCHANGED <<entries, count, quiet, status, waiting, since>>
  BY DEF Turn
<1> DEFINE next == entries[i]
<1>3. entries[current] = p /\ current \in Table /\ i \in Table
  BY <1>2 DEF IInv, TypeOK, CurrentRuns, Table
<1>4. next \in Everyone /\ status[next] # 0
  BY <1>1, <1>3 DEF TurnsTo, Later, IInv, TypeOK, TableKept, PlacesKept, Table
<1>5. next # p
  BY <1>1, <1>3 DEF IInv, TableKept
<1>6. pc[next] \in {"new", "away"}
  BY <1>2, <1>4, <1>5 DEF IInv, PlacesKept
<1>7. /\ pc'[p] = "away" /\ pc'[next] \in {"body", "away"}
      /\ (pc[next] = "away" <=> pc'[next] = "away")
      /\ \A q \in Everyone : q # p /\ q # next => pc'[q] = pc[q]
      /\ pc' \in [Everyone -> Places]
  BY <1>1, <1>4, <1>5, <1>6 DEF IInv, TypeOK, Places
<1>8. TypeOK'
  BY <1>1, <1>2, <1>3, <1>4, <1>7 DEF IInv, TypeOK, Table
<1>9. TableKept'
  BY <1>2 DEF IInv, TableKept
<1>10. PlacesKept'
  BY <1>1, <1>2, <1>4, <1>6, <1>7 DEF IInv, PlacesKept
<1>11. WasKept'
  BY <1>2, <1>3, <1>4, <1>5, <1>7 DEF IInv, TypeOK, WasKept
<1>12. CurrentRuns'
  BY <1>1, <1>2 DEF CurrentRuns
<1> QED
  BY <1>8, <1>9, <1>10, <1>11, <1>12 DEF IInv

(* A resumed process puts its own entry back into `current`.               *)
LEMMA ResumeStep ==
  ASSUME IInv, NEW p \in Everyone, Resume(p)
  PROVE  IInv'
<1>1. PICK place \in {"look", "body"} : pc' = [pc EXCEPT ![p] = place]
  BY DEF Resume, Goes, Returned
<1>2. /\ running = p /\ pc[p] = "away" /\ current' = was[p]
      /\ was' = [was EXCEPT ![p] = 0]
      /\ UNCHANGED <<entries, count, quiet, status, running, waiting, since>>
  BY DEF Resume
<1>3. was[p] \in Table /\ entries[was[p]] = p /\ was[p] < count
  BY <1>2 DEF IInv, TypeOK, TableKept, WasKept, Table
<1>4. TypeOK'
  BY <1>1, <1>2, <1>3 DEF IInv, TypeOK, Places, Table
<1>5. TableKept'
  BY <1>2 DEF IInv, TableKept
<1>6. PlacesKept' /\ WasKept'
  BY <1>1, <1>2 DEF IInv, TypeOK, PlacesKept, WasKept
<1>7. CurrentRuns'
  BY <1>2, <1>3 DEF CurrentRuns
<1> QED
  BY <1>4, <1>5, <1>6, <1>7 DEF IInv

(* A fibre that ends resumes Home, which a switch of its own suspended.    *)
LEMMA EndStep ==
  ASSUME IInv, NEW f \in Fibres, End(f)
  PROVE  IInv'
<1>1. /\ running = f /\ pc[f] = "body"
      /\ status' = [status EXCEPT ![f] = 0]
      /\ pc' = [pc EXCEPT ![f] = "ended"]
      /\ running' = Home
      /\ UNCHANGED <<entries, count, current, quiet, was, waiting, since>>
  BY DEF End, InBody, Goes
<1>2. f # Home /\ pc[Home] = "away"
  BY <1>1 DEF IInv, PlacesKept
<1>3. TypeOK'
  BY <1>1 DEF IInv, TypeOK, Places
<1>4. TableKept'
  BY <1>1 DEF IInv, TypeOK, TableKept
<1>5. PlacesKept' /\ WasKept' /\ CurrentRuns'
  BY <1>1, <1>2 DEF IInv, TypeOK, PlacesKept, WasKept, CurrentRuns
<1> QED
  BY <1>3, <1>4, <1>5 DEF IInv

(* Made over a table that holds no record, the round keeps the invariant.  *)
LEMMA Invariance == TableWas = {NoFibre} /\ Spec => []IInv
<1>1. TableWas = {NoFibre} /\ Init => IInv
  <2> SUFFICES ASSUME TableWas = {NoFibre}, Init PROVE IInv
    OBVIOUS
  <2>1. \A i \in Table : entries[i] = IF i = 0 THEN Home ELSE NoFibre
    BY DEF Init, Table
  <2>2. TypeOK
    BY <2>1 DEF Init, TypeOK, Places, Table
  <2>3. TableKept
    BY <2>1 DEF Init, TableKept, Table
  <2>4. PlacesKept /\ WasKept /\ CurrentRuns
    BY <2>1 DEF Init, PlacesKept, WasKept, CurrentRuns, Table
  <2> QED BY <2>2, <2>3, <2>4 DEF IInv
<1>2. IInv /\ [Next]_vars => IInv'
  <2> SUFFICES ASSUME IInv, [Next]_vars PROVE IInv'
    OBVIOUS
  <2>1. CASE UNCHANGED vars
    BY <2>1 DEF vars, IInv, TypeOK, TableKept, PlacesKept, WasKept,
                CurrentRuns
  <2>2. CASE Next
    BY <2>2, StartStep, SweepingStep, StayStep, TurnStep, ResumeStep, EndStep
    DEF Next
  <2> QED BY <2>1, <2>2
<1> QED
  BY <1>1, <1>2, PTL DEF Spec

(* Whenever the round's code reads it, `current` names the entry whose     *)
(* stack the core is on, for any fibres and any capacity.                  *)
THEOREM CurrentIsRunning == TableWas = {NoFibre} /\ Spec => []CurrentRuns
<1> QED
  BY Invariance, PTL DEF IInv

(* No unfinished process ever loses its place in the round, and none has   *)
(* two.                                                                    *)
THEOREM EverybodyKept == TableWas = {NoFibre} /\ Spec => []NobodyLost
<1>1. IInv => NobodyLost
  <2> SUFFICES ASSUME IInv PROVE NobodyLost
    OBVIOUS
  <2>1. ASSUME NEW p \in Unfinished PROVE EntryOf(p) # {}
    <3>1. PICK i \in Table : entries[i] = p
      BY <2>1 DEF Unfinished, IInv, TableKept
    <3>2. i < count
      BY <2>1, <3>1 DEF Unfinished, IInv, TypeOK, TableKept, Table
    <3>3. i \in 0 .. count - 1
      BY <3>1, <3>2 DEF IInv, TypeOK, Table
    <3> QED BY <3>1, <3>3 DEF EntryOf
  <2>2. \A i, j \in 0 .. count - 1 :
          entries[i] = entries[j] /\ entries[i] # NoFibre => i = j
    BY DEF IInv, TypeOK, TableKept, Table
  <2> QED BY <2>1, <2>2 DEF NobodyLost
<1> QED
  BY <1>1, Invariance, PTL

(* The core only ever goes on with a stack that a switch left or that has  *)
(* not run, and a fibre that ends finds Home suspended.                    *)
THEOREM ResumesAreSafe == TableWas = {NoFibre} /\ Spec => []OnlySuspendedResumed
<1>1. IInv => OnlySuspendedResumed
  BY DEF IInv, TypeOK, PlacesKept, OnlySuspendedResumed, Unfinished
<1> QED
  BY <1>1, Invariance, PTL

-----------------------------------------------------------------------------
(***************************************************************************)
(* What `quiet` counts.  Whoever has yielded since anything last started,  *)
(* ended or idled sits in the entries just before the running one, in the  *)
(* order of the turns, so none is counted twice: that, and not the count   *)
(* alone, is why a full count means that everybody has yielded.            *)
(***************************************************************************)

LiveEntries == {i \in Table : Swept[i] # NoFibre}

(* The entries of a set of processes.                                      *)
EntriesOf(Y) == {i \in Table : entries[i] \in Y}

(* j's turn comes after i's and before c's, where c has yielded already or *)
(* is still to.                                                            *)
Between(i, j, c, done) ==
  IF done THEN IF i <= c THEN i < j /\ j <= c ELSE j > i \/ j <= c
          ELSE IF i < c  THEN i < j /\ j < c  ELSE j > i \/ j < c

(* Nobody outside Y is passed over between one of Y and the running entry. *)
InOrder(Y) ==
  \A c, i, j \in Table :
    /\ entries[c] = running /\ entries[i] \in Y
    /\ entries[j] \in Unfinished \ Y
    => ~Between(i, j, c, pc[running] = "turn")

(* The count of yields in a row is that of Y's entries.                    *)
QuietKept(Y) ==
  /\ Y \subseteq Unfinished
  /\ Emptied # {} => Y = {}
  /\ pc[running] = "idle" => Unfinished \subseteq Y /\ quiet = 0
  /\ pc[running] # "idle" /\ Emptied = {}
       => quiet = Cardinality(EntriesOf(Y)) /\ quiet < Live
  /\ pc[running] # "idle" => InOrder(Y)

(* sweep's count is that of the entries it leaves.                         *)
LEMMA LiveIs ==
  IInv => /\ IsFiniteSet(LiveEntries)
          /\ Live = Cardinality(LiveEntries)
          /\ Live \in Nat \ {0}
<1> SUFFICES ASSUME IInv
             PROVE  /\ IsFiniteSet(LiveEntries)
                    /\ Live = Cardinality(LiveEntries)
                    /\ Live \in Nat \ {0}
  OBVIOUS
<1> DEFINE S == {i \in 1 .. count - 1 : Swept[i] # NoFibre}
<1>1. count \in 1 .. Capacity
  BY DEF IInv, TypeOK
<1>2. IsFiniteSet(1 .. count - 1)
  BY <1>1, FS_Interval
<1>3. IsFiniteSet(S)
  BY <1>2, FS_Subset
<1>4. 0 \notin S
  OBVIOUS
<1>5. LiveEntries = S \cup {0}
  <2>1. Swept[0] # NoFibre
    BY SweepTable DEF IInv, TypeOK, TableKept, PlacesKept, Table
  <2>2. \A i \in Table : i >= count => Swept[i] = NoFibre
    BY SweepTable DEF IInv, TableKept
  <2> QED BY <1>1, <2>1, <2>2 DEF LiveEntries, Table
<1>6. Live = 1 + Cardinality(S)
  BY DEF Live
<1> HIDE DEF S
<1>7. Cardinality(S) \in Nat
  BY <1>3, FS_CardinalityType
<1>8. IsFiniteSet(S \cup {0}) /\ Cardinality(S \cup {0}) = Cardinality(S) + 1
  BY <1>3, <1>4, FS_AddElement
<1> QED BY <1>5, <1>6, <1>7, <1>8

(* The same of the next state.                                             *)
LEMMA LiveNext ==
  IInv' => /\ IsFiniteSet(LiveEntries')
           /\ Live' = Cardinality(LiveEntries')
           /\ Live' \in Nat \ {0}
<1> DEFINE Is == /\ IsFiniteSet(LiveEntries)
                 /\ Live = Cardinality(LiveEntries)
                 /\ Live \in Nat \ {0}
<1>1. IInv => Is
  BY LiveIs
<1>2. IInv' => Is'
  BY <1>1, PTL
<1> QED BY <1>2

(* The live entries are those of the unfinished.                           *)
LEMMA LiveUnfinished ==
  ASSUME IInv
  PROVE  /\ LiveEntries = EntriesOf(Unfinished)
         /\ \A p \in Unfinished : \E i \in LiveEntries : entries[i] = p
<1>1. LiveEntries = EntriesOf(Unfinished)
  <2>1. ASSUME NEW i \in Table, Swept[i] # NoFibre
        PROVE  entries[i] \in Unfinished
    <3>1. entries[i] = Swept[i] /\ entries[i] \in Everyone
      BY <2>1, SweepTable
    <3>2. i < count
      BY <2>1, <3>1 DEF IInv, TypeOK, TableKept, Table
    <3>3. i \notin Emptied
      BY <2>1 DEF Swept, Table
    <3>4. status[entries[i]] # 0
      <4>1. CASE i = 0
        BY <4>1 DEF IInv, TableKept, PlacesKept
      <4>2. CASE i # 0
        BY <2>1, <3>1, <3>2, <3>3, <4>2 DEF Emptied, IInv, TypeOK, Table
      <4> QED BY <4>1, <4>2
    <3> QED BY <3>1, <3>4 DEF Unfinished
  <2>2. ASSUME NEW i \in Table, entries[i] \in Unfinished
        PROVE  Swept[i] # NoFibre
    BY <2>2, SweepTable DEF Unfinished
  <2> QED BY <2>1, <2>2 DEF LiveEntries, EntriesOf
<1>2. \A p \in Unfinished : \E i \in Table : entries[i] = p
  BY DEF IInv, TableKept, Unfinished
<1> QED BY <1>1, <1>2 DEF EntriesOf

(* What a sweep that starts nothing leaves: nothing to empty, and as many  *)
(* live as it counted, in the entries they had.                            *)
LEMMA SweptNext ==
  ASSUME IInv, IInv', entries' = Swept, status' = status
  PROVE  /\ Emptied' = {}
         /\ Unfinished' = Unfinished
         /\ LiveEntries' = LiveEntries
         /\ Live' = Live
         /\ \A Y \in SUBSET Unfinished : EntriesOf(Y)' = EntriesOf(Y)
<1>1. Unfinished' = Unfinished
  BY DEF Unfinished
<1>2. ASSUME NEW Y \in SUBSET Unfinished PROVE EntriesOf(Y)' = EntriesOf(Y)
  <2>1. \A i \in Table : Swept[i] \in Y <=> entries[i] \in Y
    BY SweepTable DEF Unfinished
  <2> QED BY <2>1 DEF EntriesOf, Table
<1>3. Emptied' = {}
  <2>1. ASSUME NEW i \in Table, Swept[i] # NoFibre PROVE status[Swept[i]] # 0
    <3>1. entries[i] \in Unfinished /\ entries[i] = Swept[i]
      BY <2>1, LiveUnfinished, SweepTable DEF LiveEntries, EntriesOf
    <3> QED BY <3>1 DEF Unfinished
  <2>2. count' \in 1 .. Capacity
    BY DEF IInv, TypeOK
  <2>3. 1 .. count' - 1 \subseteq Table
    <3>1. ASSUME NEW n \in 1 .. Capacity PROVE 1 .. n - 1 \subseteq Table
      BY DEF Table
    <3> QED BY <2>2, <3>1
  <2> QED BY <2>1, <2>3 DEF Emptied
<1>4. Swept' = Swept
  <2>1. Swept' = [i \in Table |-> entries'[i]]
    BY <1>3 DEF Swept, Table
  <2>2. DOMAIN entries' = Table
    BY SweepTable
  <2> QED BY <2>1, <2>2, SweepTable
<1>5. LiveEntries' = LiveEntries
  BY <1>4 DEF LiveEntries, Table
<1>6. Live' = Live
  BY <1>5, LiveIs, LiveNext
<1> QED BY <1>1, <1>2, <1>3, <1>5, <1>6

(* What a yield starts from counts those who have yielded.                 *)
LEMMA CountedIs ==
  ASSUME IInv, NEW Y, QuietKept(Y), pc[running] # "idle"
  PROVE  Counted = Cardinality(EntriesOf(Y)) /\ Counted < Live
<1>1. CASE Emptied = {}
  BY <1>1 DEF QuietKept, Counted
<1>2. CASE Emptied # {}
  <2>1. EntriesOf(Y) = {}
    BY <1>2 DEF QuietKept, EntriesOf
  <2>2. Cardinality(EntriesOf(Y)) = 0
    BY <2>1, FS_EmptySet
  <2> QED BY <1>2, <2>2, LiveIs DEF Counted
<1> QED BY <1>1, <1>2

(* An order that a step with the same runner, doing the same, keeps: it is *)
(* about the entries of the unfinished alone.                              *)
LEMMA OrderKept ==
  ASSUME IInv, NEW Y \in SUBSET Unfinished, InOrder(Y),
         \/ entries' = entries
         \/ entries' = Swept,
         status' = status, running' = running,
         pc'[running] = "turn" <=> pc[running] = "turn"
  PROVE  InOrder(Y)'
<1>1. Unfinished' = Unfinished /\ running \in Unfinished
  BY DEF Unfinished, IInv, TypeOK, PlacesKept
<1>2. \A i \in Table : entries'[i] \in Unfinished <=> entries[i] \in Unfinished
  BY LiveUnfinished, SweepTable DEF LiveEntries, EntriesOf
<1>3. \A i \in Table : entries'[i] \in Unfinished => entries'[i] = entries[i]
  BY LiveUnfinished, SweepTable DEF LiveEntries, EntriesOf, Unfinished
<1> SUFFICES ASSUME NEW c \in Table, NEW i \in Table, NEW j \in Table,
                    entries'[c] = running, entries'[i] \in Y,
                    entries'[j] \in Unfinished \ Y
             PROVE  ~Between(i, j, c, pc'[running] = "turn")
  BY <1>1 DEF InOrder, Table
<1>4. entries[c] = running /\ entries[i] \in Y /\ entries[j] \in Unfinished \ Y
  BY <1>1, <1>2, <1>3
<1>5. ~Between(i, j, c, pc[running] = "turn")
  BY <1>4 DEF InOrder
<1> QED BY <1>5

(* With nobody to have yielded there is nothing to order.                  *)
LEMMA NobodyYielded ==
  ASSUME IInv', Emptied' = {} => quiet' = 0, pc'[running'] # "idle"
  PROVE  QuietKept({})'
<1>1. EntriesOf({})' = {}
  BY DEF EntriesOf
<1>2. Cardinality(EntriesOf({})') = 0
  BY <1>1, FS_EmptySet
<1>3. Emptied' = {} => quiet' = Cardinality(EntriesOf({})') /\ quiet' < Live'
  BY <1>2, LiveNext
<1>4. InOrder({})'
  BY DEF InOrder
<1> QED BY <1>3, <1>4 DEF QuietKept

(* A sweep that neither starts nor yields.                                 *)
LEMMA QuietSweep ==
  ASSUME IInv, IInv', NEW Y, QuietKept(Y), NEW p \in Everyone,
         \/ StartTooSmall(p) \/ StartFull(p)
         \/ WaitForNobody(p) \/ WaitReturns(p)
  PROVE  QuietKept(Y)'
<1>1. /\ entries' = Swept /\ quiet' = Counted /\ running = p
      /\ status' = status /\ running' = running
      /\ pc[p] \in {"body", "look"} /\ pc'[p] = "body"
  BY DEF StartTooSmall, StartFull, WaitForNobody, WaitReturns, InBody, Goes,
         IInv, TypeOK
<1>2. Y \in SUBSET Unfinished
  BY DEF QuietKept
<1>3. /\ Emptied' = {} /\ Unfinished' = Unfinished /\ Live' = Live
      /\ EntriesOf(Y)' = EntriesOf(Y)
  BY <1>1, <1>2, SweptNext
<1>4. Counted = Cardinality(EntriesOf(Y)) /\ Counted < Live
  BY <1>1, CountedIs
<1>5. InOrder(Y)
  BY <1>1 DEF QuietKept
<1>6. InOrder(Y)'
  BY <1>1, <1>2, <1>5, OrderKept
<1> QED BY <1>1, <1>2, <1>3, <1>4, <1>6 DEF QuietKept

(* A yield.                                                                *)
LEMMA QuietYield ==
  ASSUME IInv, IInv', NEW Y, QuietKept(Y), NEW p \in Everyone,
         Yield(p) \/ Wait(p) \/ WaitOn(p)
  PROVE  QuietKept(Y \cup {p})'
<1>1. /\ entries' = Swept /\ running = p
      /\ status' = status /\ running' = running
      /\ pc[p] \in {"body", "look"}
  BY DEF Yield, Wait, WaitOn, Yielding, InBody
<1>2. \/ Counted + 1 >= Live /\ quiet' = 0 /\ pc'[p] = "idle"
      \/ Counted + 1 < Live /\ quiet' = Counted + 1 /\ pc'[p] = "turn"
  BY DEF Yield, Wait, WaitOn, Yielding, Goes, IInv, TypeOK
<1> DEFINE Z == Y \cup {p}
<1>3. p \in Unfinished /\ Y \in SUBSET Unfinished /\ Z \in SUBSET Unfinished
  BY <1>1 DEF QuietKept, IInv, PlacesKept, Unfinished
<1>4. /\ Emptied' = {} /\ Unfinished' = Unfinished /\ Live' = Live
      /\ EntriesOf(Z)' = EntriesOf(Z)
  BY <1>1, <1>3, SweptNext
<1>5. Counted = Cardinality(EntriesOf(Y)) /\ Counted < Live
  BY <1>1, CountedIs
<1>6. current \in Table /\ entries[current] = p
  BY <1>1 DEF IInv, TypeOK, CurrentRuns, Table
<1>7. IsFiniteSet(LiveEntries) /\ Live = Cardinality(LiveEntries)
  BY LiveIs
<1>8. EntriesOf(Z) \subseteq LiveEntries /\ EntriesOf(Y) \subseteq LiveEntries
  BY <1>3, LiveUnfinished DEF EntriesOf
<1>9. InOrder(Y)
  BY <1>1 DEF QuietKept
<1>10. p \notin Y
  <2> SUFFICES ASSUME p \in Y PROVE FALSE
    OBVIOUS
  <2>1. ASSUME NEW j \in Table, entries[j] \in Unfinished
        PROVE  entries[j] \in Y
    <3>1. CASE j = current
      BY <1>6, <3>1
    <3>2. CASE j # current
      <4>1. pc[running] # "turn" /\ entries[current] = running
        BY <1>1, <1>6
      <4>2. Between(current, j, current, FALSE)
        BY <1>6, <3>2 DEF Between, Table
      <4> QED BY <1>1, <1>6, <1>9, <2>1, <4>1, <4>2 DEF InOrder
    <3> QED BY <3>1, <3>2
  <2>2. EntriesOf(Y) = LiveEntries
    BY <1>8, <2>1, LiveUnfinished DEF EntriesOf
  <2> QED BY <1>5, <1>7, <2>2, LiveIs
<1>11. EntriesOf(Z) = EntriesOf(Y) \cup {current} /\ current \notin EntriesOf(Y)
  <2>1. \A i \in Table : entries[i] = p => i = current
    BY <1>6 DEF IInv, TableKept
  <2> QED BY <1>6, <1>10, <2>1 DEF EntriesOf
<1>12. IsFiniteSet(EntriesOf(Y)) /\ IsFiniteSet(EntriesOf(Z))
  BY <1>7, <1>8, FS_Subset
<1>13. Cardinality(EntriesOf(Z)) = Counted + 1
  BY <1>5, <1>11, <1>12, FS_AddElement
<1>14. CASE pc'[p] = "idle"
  <2>1. Cardinality(EntriesOf(Z)) >= Live /\ quiet' = 0
    BY <1>2, <1>13, <1>14
  <2>2. EntriesOf(Z) = LiveEntries
    <3>1. Cardinality(EntriesOf(Z)) \in Nat /\ Live \in Nat
      BY <1>12, FS_CardinalityType, LiveIs
    <3>2. Cardinality(EntriesOf(Z)) <= Cardinality(LiveEntries)
      BY <1>7, <1>8, FS_Subset
    <3>3. Cardinality(EntriesOf(Z)) = Cardinality(LiveEntries)
      BY <1>7, <2>1, <3>1, <3>2
    <3> QED BY <1>7, <1>8, <3>3, FS_Subset
  <2>3. Unfinished \subseteq Z
    <3> SUFFICES ASSUME NEW q \in Unfinished PROVE q \in Z
      OBVIOUS
    <3>1. PICK i \in LiveEntries : entries[i] = q
      BY LiveUnfinished
    <3> QED BY <2>2, <3>1 DEF EntriesOf
  <2> HIDE DEF Z
  <2>4. QuietKept(Z)'
    BY <1>1, <1>3, <1>4, <1>14, <2>1, <2>3 DEF QuietKept
  <2> QED BY <2>4 DEF Z
<1>15. CASE pc'[p] = "turn"
  <2>1. quiet' = Cardinality(EntriesOf(Z)) /\ quiet' < Live
    BY <1>2, <1>13, <1>15
  <2>2. InOrder(Z)'
    <3>1. \A i \in Table : entries'[i] \in Unfinished => entries'[i] = entries[i]
      BY <1>1, LiveUnfinished, SweepTable DEF LiveEntries, EntriesOf, Unfinished
    <3>2. \A i \in Table : entries[i] = p => i = current
      BY <1>6 DEF IInv, TableKept
    <3> SUFFICES ASSUME NEW c \in Table, NEW i \in Table, NEW j \in Table,
                        entries'[c] = p, entries'[i] \in Z,
                        entries'[j] \in Unfinished \ Z
                 PROVE  ~Between(i, j, c, TRUE)
      BY <1>1, <1>4, <1>15 DEF InOrder, Table
    <3>3. /\ c = current /\ entries[i] \in Z /\ entries[j] \in Unfinished \ Z
          /\ j # current
      BY <1>3, <1>6, <3>1, <3>2
    <3>4. CASE i = current
      BY <3>3, <3>4 DEF Between, Table
    <3>5. CASE i # current
      <4>1. entries[i] \in Y /\ entries[j] \in Unfinished \ Y
        BY <3>2, <3>3, <3>5
      <4>2. pc[running] # "turn" /\ entries[current] = running
        BY <1>1, <1>6
      <4>3. ~Between(i, j, current, FALSE)
        BY <1>6, <1>9, <4>1, <4>2 DEF InOrder
      <4> QED BY <3>3, <3>5, <4>3 DEF Between, Table
    <3> QED BY <3>4, <3>5
  <2> HIDE DEF Z
  <2>3. QuietKept(Z)'
    BY <1>1, <1>3, <1>4, <1>15, <2>1, <2>2 DEF QuietKept
  <2> QED BY <2>3 DEF Z
<1> QED BY <1>2, <1>14, <1>15

(* Where a turn goes no unfinished process is passed over.                 *)
LEMMA NobodyPassed ==
  ASSUME IInv, NEW i, TurnsTo(i)
  PROVE  /\ i \in Table
         /\ \/ i = 0 /\ \A j \in Table : entries[j] \in Unfinished => j <= current
            \/ /\ i > current
               /\ \A j \in Table : entries[j] \in Unfinished /\ j > current
                                     => j >= i
<1>1. /\ count \in 1 .. Capacity /\ current \in 0 .. count - 1
      /\ \A j \in Table : j >= count => entries[j] = NoFibre
  BY DEF IInv, TypeOK, TableKept
<1>2. \A j \in Table : entries[j] \in Unfinished /\ j > current => j \in Later
  BY <1>1 DEF Later, Unfinished, Table
<1>3. Later \subseteq Table /\ \A j \in Later : j > current
  BY <1>1 DEF Later, Table
<1>4. CASE Later = {} /\ i = 0
  BY <1>1, <1>2, <1>4 DEF Table
<1>5. CASE i \in Later /\ \A j \in Later : i <= j
  BY <1>2, <1>3, <1>5 DEF Table
<1> QED BY <1>4, <1>5 DEF TurnsTo

(* The turn passes on, and the order with it.                              *)
LEMMA QuietTurn ==
  ASSUME IInv, IInv', NEW Y, QuietKept(Y), NEW p \in Everyone, Turn(p)
  PROVE  QuietKept(Y)'
<1>1. PICK n \in 0 .. count - 1 :
        /\ TurnsTo(n) /\ n # current
        /\ running' = entries[n]
        /\ pc' = [pc EXCEPT ![p] = "away",
                            ![entries[n]] = IF @ = "new" THEN "body" ELSE @]
  BY DEF Turn
<1>2. /\ running = p /\ pc[p] = "turn"
      /\ UNCHANGED <<entries, count, quiet, status>>
  BY DEF Turn
<1>3. entries[current] = p /\ current \in Table /\ n \in Table
  BY <1>2 DEF IInv, TypeOK, CurrentRuns, Table
<1>4. entries[n] # p
  BY <1>1, <1>3 DEF IInv, TypeOK, TableKept
<1>5. pc'[running'] \notin {"idle", "turn"}
  <2>1. running' \in Everyone
    BY DEF IInv, TypeOK
  <2>2. pc[running'] \in {"ended", "new", "away"}
    BY <1>1, <1>2, <1>4, <2>1 DEF IInv, PlacesKept
  <2>3. pc'[running'] \in {"ended", "body", "away"}
    BY <1>1, <1>4, <2>1, <2>2 DEF IInv, TypeOK
  <2> QED BY <2>3
<1>6. Swept' = Swept /\ Emptied' = Emptied /\ Live' = Live
  BY <1>2 DEF Swept, Emptied, Live
<1>7. EntriesOf(Y)' = EntriesOf(Y) /\ Unfinished' = Unfinished
  BY <1>2 DEF EntriesOf, Unfinished, Table
<1>8. InOrder(Y)'
  <2> SUFFICES ASSUME NEW c \in Table, NEW i \in Table, NEW j \in Table,
                      entries[c] = entries[n], entries[i] \in Y,
                      entries[j] \in Unfinished \ Y
               PROVE  ~Between(i, j, c, FALSE)
    BY <1>1, <1>2, <1>5, <1>7 DEF InOrder, Table
  <2>1. c = n
    BY <1>1, <1>3 DEF IInv, TypeOK, TableKept
  <2>2. ~Between(i, j, current, TRUE)
    BY <1>2, <1>3 DEF QuietKept, InOrder
  <2>3. entries[i] \in Unfinished
    BY DEF QuietKept
  <2>4. current \in Nat /\ i \in Nat /\ j \in Nat /\ n \in Nat
    BY <1>3 DEF Table
  <2>5. CASE n = 0
    <3>1. i <= current /\ j <= current
      BY <1>1, <2>3, <2>4, <2>5, NobodyPassed
    <3> QED BY <2>1, <2>2, <2>4, <2>5, <3>1 DEF Between
  <2>6. CASE n > current
    <3>1. /\ i > current => i >= n
          /\ j > current => j >= n
      BY <1>1, <2>3, <2>4, <2>6, NobodyPassed
    <3> QED BY <2>1, <2>2, <2>4, <2>6, <3>1 DEF Between
  <2> QED BY <1>1, <2>5, <2>6, NobodyPassed
<1> QED BY <1>2, <1>5, <1>6, <1>7, <1>8 DEF QuietKept

(* The turn stays, which it does only when nobody else is unfinished, and  *)
(* a process that was switched back to goes on.                            *)
LEMMA QuietStay ==
  ASSUME IInv, IInv', NEW Y, QuietKept(Y), NEW p \in Everyone,
         KeepTurn(p) \/ Resume(p)
  PROVE  QuietKept(Y)'
<1>1. /\ running = p /\ pc[p] \in {"turn", "away"}
      /\ UNCHANGED <<entries, count, quiet, status, running>>
      /\ pc'[p] \in {"body", "look"}
  BY DEF KeepTurn, Resume, Goes, Returned, IInv, TypeOK
<1>2. Swept' = Swept /\ Emptied' = Emptied /\ Live' = Live
  BY <1>1 DEF Swept, Emptied, Live
<1>3. EntriesOf(Y)' = EntriesOf(Y) /\ Unfinished' = Unfinished
  BY <1>1 DEF EntriesOf, Unfinished, Table
<1>4. InOrder(Y) /\ Y \in SUBSET Unfinished
  BY <1>1 DEF QuietKept
<1>5. InOrder(Y)'
  <2>1. CASE Resume(p)
    <3>1. pc[running] = "away"
      BY <2>1 DEF Resume
    <3> QED BY <1>1, <1>4, <3>1, OrderKept
  <2>2. CASE KeepTurn(p)
    <3>1. TurnsTo(current)
      BY <2>2 DEF KeepTurn
    <3>2. current \in Nat
      BY DEF IInv, TypeOK
    <3>3. current = 0 /\ \A j \in Table : entries[j] \in Unfinished => j <= 0
      BY <3>1, <3>2, NobodyPassed
    <3> SUFFICES ASSUME NEW c \in Table, NEW i \in Table, NEW j \in Table,
                        entries[i] \in Y, entries[j] \in Unfinished \ Y
                 PROVE  FALSE
      BY <1>1, <1>3 DEF InOrder, Table
    <3>4. i = 0 /\ j = 0
      BY <1>4, <3>3 DEF Table
    <3> QED BY <3>4
  <2> QED BY <2>1, <2>2
<1> QED BY <1>1, <1>2, <1>3, <1>4, <1>5 DEF QuietKept

(* What starts, ends or comes back from the idler begins the count again.  *)
LEMMA QuietAnew ==
  ASSUME IInv, IInv', NEW Y, QuietKept(Y),
         \/ \E p \in Everyone :
              Idled(p) \/ \E r \in Fibres : Start(p, r)
         \/ \E f \in Fibres : End(f)
  PROVE  QuietKept({})'
<1>1. ASSUME NEW p \in Everyone, Idled(p) PROVE QuietKept({})'
  <2>1. running' = p /\ pc'[p] = "turn" /\ pc[running] = "idle" /\ quiet' = quiet
    BY <1>1 DEF Idled, Goes, IInv, TypeOK
  <2>2. quiet = 0
    BY <2>1 DEF QuietKept
  <2> QED BY <2>1, <2>2, NobodyYielded
<1>2. ASSUME NEW p \in Everyone, NEW r \in Fibres, Start(p, r)
      PROVE  QuietKept({})'
  <2>1. running' = p /\ pc'[p] \in {"body", "new"} /\ quiet' = 0
    BY <1>2 DEF Start, InBody, Goes, IInv, TypeOK
  <2> QED BY <2>1, NobodyYielded
<1>3. ASSUME NEW f \in Fibres, End(f) PROVE QuietKept({})'
  <2>1. /\ running = f /\ running' = Home /\ pc[f] = "body"
        /\ pc' = [pc EXCEPT ![f] = "ended"]
        /\ status' = [status EXCEPT ![f] = 0]
        /\ UNCHANGED <<entries, count>>
    BY <1>3 DEF End, InBody, Goes
  <2>2. pc'[running'] # "idle"
    BY <2>1 DEF IInv, TypeOK, PlacesKept
  <2>3. PICK i \in Table : entries[i] = f
    BY <2>1 DEF IInv, PlacesKept, TableKept
  <2>4. i # 0 /\ i < count
    BY <2>3 DEF IInv, TypeOK, TableKept, Table
  <2>5. i \in 1 .. count - 1
    BY <2>3, <2>4 DEF IInv, TypeOK, Table
  <2>6. i \in Emptied'
    BY <2>1, <2>3, <2>5 DEF Emptied, IInv, TypeOK
  <2> QED BY <2>2, <2>6, NobodyYielded
<1> QED BY <1>1, <1>2, <1>3

(* It begins with nobody.                                                  *)
LEMMA QuietInit == ASSUME TableWas = {NoFibre}, Init, IInv PROVE QuietKept({})
<1>1. pc[running] = "body" /\ quiet = 0
  BY DEF Init
<1>2. EntriesOf({}) = {}
  BY DEF EntriesOf
<1>3. Cardinality(EntriesOf({})) = 0
  BY <1>2, FS_EmptySet
<1>4. InOrder({})
  BY DEF InOrder
<1> QED BY <1>1, <1>3, <1>4, LiveIs DEF QuietKept

-----------------------------------------------------------------------------
(* A process in its own code, or that has ended or not begun, is not in    *)
(* round_wait, and one whose round_yield has just returned to it is.       *)
WaitPlaces ==
  \A p \in Everyone :
    /\ pc[p] \in {"ended", "new", "body"} => ~waiting[p]
    /\ pc[p] = "look" => waiting[p]

(* Every step keeps the places of those who wait.                          *)
LEMMA WaitPlacesStep == IInv /\ WaitPlaces /\ [Next]_vars => WaitPlaces'
<1> SUFFICES ASSUME IInv, WaitPlaces, [Next]_vars PROVE WaitPlaces'
  OBVIOUS
<1>0. /\ pc \in [Everyone -> Places] /\ waiting \in [Everyone -> BOOLEAN]
      /\ entries \in [Table -> Everyone \cup {NoFibre}]
      /\ count \in 1 .. Capacity
  BY DEF IInv, TypeOK, Table
<1>1. ASSUME NEW p \in Everyone, NEW r \in Fibres, Start(p, r)
      PROVE  WaitPlaces'
  <2>1. /\ status[r] = 0 /\ pc' = [pc EXCEPT ![r] = "new"]
        /\ waiting' = waiting
    BY <1>1 DEF Start, Goes
  <2>2. pc[r] = "ended"
    BY <2>1 DEF IInv, PlacesKept
  <2> QED BY <1>0, <2>1, <2>2 DEF WaitPlaces
<1>2. ASSUME NEW p \in Everyone,
             StartTooSmall(p) \/ StartFull(p) \/ WaitForNobody(p)
      PROVE  WaitPlaces'
  BY <1>2 DEF StartTooSmall, StartFull, WaitForNobody, WaitPlaces
<1>3. ASSUME NEW p \in Everyone, Yield(p) \/ WaitOn(p) \/ Idled(p)
      PROVE  WaitPlaces'
  <2>1. PICK place \in {"idle", "turn"} : pc' = [pc EXCEPT ![p] = place]
    BY <1>3 DEF Yield, WaitOn, Idled, Yielding, Goes
  <2>2. waiting' = waiting
    BY <1>3 DEF Yield, WaitOn, Idled
  <2> QED BY <1>0, <2>1, <2>2 DEF WaitPlaces
<1>4. ASSUME NEW p \in Everyone, Wait(p) PROVE WaitPlaces'
  <2>1. PICK place \in {"idle", "turn"} : pc' = [pc EXCEPT ![p] = place]
    BY <1>4 DEF Wait, Yielding, Goes
  <2>2. waiting' = [waiting EXCEPT ![p] = TRUE]
    BY <1>4 DEF Wait
  <2> QED BY <1>0, <2>1, <2>2 DEF WaitPlaces
<1>5. ASSUME NEW p \in Everyone, KeepTurn(p) \/ Resume(p) PROVE WaitPlaces'
  <2>1. pc' = [pc EXCEPT ![p] = Returned(p)] /\ waiting' = waiting
    BY <1>5 DEF KeepTurn, Resume, Goes
  <2> QED BY <1>0, <2>1 DEF Returned, WaitPlaces
<1>6. ASSUME NEW p \in Everyone, WaitReturns(p) PROVE WaitPlaces'
  BY <1>0, <1>6 DEF WaitReturns, Goes, WaitPlaces
<1>7. ASSUME NEW p \in Everyone, Turn(p) PROVE WaitPlaces'
  <2>1. PICK i \in 0 .. count - 1 :
          pc' = [pc EXCEPT ![p] = "away",
                           ![entries[i]] = IF @ = "new" THEN "body" ELSE @]
    BY <1>7 DEF Turn
  <2>2. waiting' = waiting
    BY <1>7 DEF Turn
  <2>3. \A q \in Everyone : \/ pc'[q] = "away" \/ pc'[q] = pc[q]
                            \/ pc[q] = "new" /\ pc'[q] = "body"
    BY <1>0, <2>1
  <2> QED BY <2>2, <2>3 DEF WaitPlaces
<1>8. ASSUME NEW f \in Fibres, End(f) PROVE WaitPlaces'
  BY <1>0, <1>8 DEF End, InBody, Goes, WaitPlaces
<1>9. CASE UNCHANGED vars
  BY <1>9 DEF vars, WaitPlaces
<1> QED
  BY <1>1, <1>2, <1>3, <1>4, <1>5, <1>6, <1>7, <1>8, <1>9 DEF Next

(* At first nobody waits.                                                  *)
LEMMA WaitPlacesInit == Init => WaitPlaces
  BY DEF Init, WaitPlaces
=============================================================================
