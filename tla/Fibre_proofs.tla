---------------------------- MODULE Fibre_proofs ----------------------------
(***************************************************************************)
(* Proofs about core/fibre on top of its round: what the round promises    *)
(* about time, and the groups that run on it; for any fibres, any groups   *)
(* and any capacity.                                                       *)
(*                                                                         *)
(* The promises are over a table that holds no record when the round is    *)
(* made.  That the idler is called only when everybody has yielded rests   *)
(* on what Round_proofs shows of `quiet`; that nobody resumes before his   *)
(* turn, on the others he owes a turn to being still ahead of the running  *)
(* entry; and that no end is missed, on an end being either still in the   *)
(* table, for the next sweep, or noticed for everyone who waits.           *)
(*                                                                         *)
(* The groups implement AbstractGroup whatever the table holds at first:   *)
(* a stack is handed to a task when its record says ended, which the round *)
(* writes in one place, and a join has found every stack before its index  *)
(* ended, where only the process inside that join could start another.     *)
(***************************************************************************)
EXTENDS RoundPromises, FibreGroup, Round_proofs

USE RoundAssumption DEF RoundAssumption, Everyone

-----------------------------------------------------------------------------
(* What kind of step each action is.                                       *)

(* The step starts nothing, ends nothing and calls no idler.               *)
NoNews == /\ ~AnyEnds
          /\ \A q \in Everyone : ~Starts(q) /\ ~Idles(q)

(* The steps that are no news and no yield.                                *)
LEMMA PlainKind ==
  ASSUME IInv, NEW p \in Everyone,
         \/ StartTooSmall(p) \/ StartFull(p) \/ WaitForNobody(p)
         \/ WaitReturns(p) \/ KeepTurn(p) \/ Turn(p) \/ Resume(p)
  PROVE  NoNews /\ \A q \in Everyone : ~Yields(q)
<1>1. status' = status
  BY DEF StartTooSmall, StartFull, WaitForNobody, WaitReturns, KeepTurn, Turn,
         Resume
<1>2. ~AnyEnds /\ \A q \in Everyone : ~Starts(q)
  BY <1>1 DEF AnyEnds, Ends, Starts
<1>3. pc \in [Everyone -> Places] /\ entries \in [Table -> Everyone \cup {NoFibre}]
  BY DEF IInv, TypeOK, Table
<1>4. CASE StartTooSmall(p) \/ StartFull(p) \/ WaitForNobody(p)
  <2>1. pc' = pc
    BY <1>4 DEF StartTooSmall, StartFull, WaitForNobody
  <2> QED BY <1>2, <2>1 DEF NoNews, Idles, Yields
<1>5. CASE WaitReturns(p) \/ KeepTurn(p) \/ Resume(p)
  <2>1. /\ pc[p] \in {"look", "turn", "away"}
        /\ \E place \in {"body", "look"} : pc' = [pc EXCEPT ![p] = place]
    BY <1>5 DEF WaitReturns, KeepTurn, Resume, Goes, Returned
  <2> QED BY <1>2, <1>3, <2>1 DEF NoNews, Idles, Yields
<1>6. CASE Turn(p)
  <2>1. PICK i \in 0 .. count - 1 :
          pc' = [pc EXCEPT ![p] = "away",
                           ![entries[i]] = IF @ = "new" THEN "body" ELSE @]
    BY <1>6 DEF Turn
  <2>2. pc[p] = "turn"
    BY <1>6 DEF Turn
  <2>3. \A q \in Everyone : \/ q = p /\ pc'[q] \in {"away", "body"}
                            \/ q # p /\ pc'[q] = pc[q]
                            \/ pc[q] = "new" /\ pc'[q] = "body"
    BY <1>3, <2>1
  <2> QED BY <1>2, <2>2, <2>3 DEF NoNews, Idles, Yields
<1> QED BY <1>4, <1>5, <1>6

(* The yields.                                                             *)
LEMMA YieldKind ==
  ASSUME IInv, NEW p \in Everyone, Yield(p) \/ Wait(p) \/ WaitOn(p)
  PROVE  NoNews /\ \A q \in Everyone : Yields(q) <=> q = p
<1>1. status' = status
  BY DEF Yield, Wait, WaitOn
<1>2. ~AnyEnds /\ \A q \in Everyone : ~Starts(q)
  BY <1>1 DEF AnyEnds, Ends, Starts
<1>3. pc \in [Everyone -> Places]
  BY DEF IInv, TypeOK
<1>4. /\ pc[p] \in {"body", "look"}
      /\ \E place \in {"idle", "turn"} : pc' = [pc EXCEPT ![p] = place]
  BY DEF Yield, Wait, WaitOn, Yielding, Goes, InBody
<1>5. \A q \in Everyone : Yields(q) <=> q = p
  BY <1>3, <1>4 DEF Yields
<1>6. \A q \in Everyone : ~Idles(q)
  BY <1>3, <1>4 DEF Idles
<1> QED BY <1>2, <1>5, <1>6 DEF NoNews

(* A start, and the idler's return.                                        *)
LEMMA StartKind ==
  ASSUME IInv, NEW p \in Everyone, NEW r \in Fibres, Start(p, r)
  PROVE  Starts(r) /\ ~AnyEnds /\ \A q \in Everyone : ~Yields(q)
<1>1. /\ status[r] = 0 /\ status' = [status EXCEPT ![r] = 1]
      /\ pc' = [pc EXCEPT ![r] = "new"]
  BY DEF Start, Goes
<1>2. ~AnyEnds
  BY <1>1 DEF AnyEnds, Ends, IInv, TypeOK
<1>3. Starts(r)
  BY <1>1 DEF Starts, IInv, TypeOK
<1>4. \A q \in Everyone : ~Yields(q)
  BY <1>1 DEF Yields, IInv, TypeOK
<1> QED BY <1>2, <1>3, <1>4

(* The idler's return.                                                     *)
LEMMA IdledKind ==
  ASSUME IInv, NEW p \in Everyone, Idled(p)
  PROVE  Idles(p) /\ ~AnyEnds /\ \A q \in Everyone : ~Yields(q) /\ ~Starts(q)
<1>1. status' = status /\ pc[p] = "idle" /\ pc' = [pc EXCEPT ![p] = "turn"]
  BY DEF Idled, Goes
<1>2. ~AnyEnds /\ \A q \in Everyone : ~Starts(q)
  BY <1>1 DEF AnyEnds, Ends, Starts
<1>3. Idles(p) /\ \A q \in Everyone : ~Yields(q)
  BY <1>1 DEF Idles, Yields, IInv, TypeOK
<1> QED BY <1>2, <1>3

(* An end, which leaves an entry to empty.                                 *)
LEMMA EndKind ==
  ASSUME IInv, NEW f \in Fibres, End(f)
  PROVE  /\ AnyEnds /\ Emptied' # {}
         /\ \A q \in Everyone : ~Yields(q) /\ ~Starts(q)
<1>1. /\ running = f /\ pc[f] = "body" /\ status' = [status EXCEPT ![f] = 0]
      /\ pc' = [pc EXCEPT ![f] = "ended"]
      /\ UNCHANGED <<entries, count>>
  BY DEF End, InBody, Goes
<1>2. status[f] # 0
  BY <1>1 DEF IInv, PlacesKept
<1>3. AnyEnds
  BY <1>1, <1>2 DEF AnyEnds, Ends, IInv, TypeOK
<1>4. \A q \in Everyone : ~Yields(q) /\ ~Starts(q)
  BY <1>1 DEF Yields, Starts, IInv, TypeOK
<1>5. PICK i \in Table : entries[i] = f
  BY <1>2 DEF IInv, TableKept
<1>6. i # 0 /\ i < count
  BY <1>5 DEF IInv, TypeOK, TableKept, Table
<1>7. i \in 1 .. count - 1
  BY <1>5, <1>6 DEF IInv, TypeOK, Table
<1>8. i \in Emptied'
  BY <1>1, <1>5, <1>7 DEF Emptied, IInv, TypeOK
<1> QED BY <1>3, <1>4, <1>8

-----------------------------------------------------------------------------
(* The set of those who have yielded is what `quiet` counts.               *)
LEMMA YieldedStep ==
  ASSUME IInv, IInv', QuietKept(yielded), Next, HistoryStep
  PROVE  QuietKept(yielded)'
<1>1. PICK Y : Y = yielded
  OBVIOUS
<1>2. PICK Z : Z = yielded'
  OBVIOUS
<1>3. QuietKept(Y)
  BY <1>1
<1>4. Z = IF AnyEnds \/ \E p \in Everyone : Starts(p) \/ Idles(p)
          THEN {} ELSE Y \cup {p \in Everyone : Yields(p)}
  BY <1>1, <1>2 DEF HistoryStep
<1>5. ASSUME NEW p \in Everyone,
             \/ StartTooSmall(p) \/ StartFull(p) \/ WaitForNobody(p)
             \/ WaitReturns(p) \/ KeepTurn(p) \/ Turn(p) \/ Resume(p)
      PROVE  QuietKept(Z)'
  <2>1. Z = Y
    BY <1>4, <1>5, PlainKind DEF NoNews
  <2>2. QuietKept(Y)'
    BY <1>3, <1>5, QuietSweep, QuietStay, QuietTurn
  <2> QED BY <2>1, <2>2
<1>6. ASSUME NEW p \in Everyone, Yield(p) \/ Wait(p) \/ WaitOn(p)
      PROVE  QuietKept(Z)'
  <2>1. Z = Y \cup {p}
    BY <1>4, <1>6, YieldKind DEF NoNews
  <2>2. QuietKept(Y \cup {p})'
    BY <1>3, <1>6, QuietYield
  <2> QED BY <2>1, <2>2
<1>7. ASSUME \/ \E p \in Everyone :
                  Idled(p) \/ \E r \in Fibres : Start(p, r)
             \/ \E f \in Fibres : End(f)
      PROVE  QuietKept(Z)'
  <2>1. Z = {}
    BY <1>4, <1>7, StartKind, IdledKind, EndKind
  <2>2. QuietKept({})'
    BY <1>3, <1>7, QuietAnew
  <2> QED BY <2>1, <2>2
<1>8. QuietKept(Z)'
  BY <1>5, <1>6, <1>7 DEF Next
<1> QED
  BY <1>2, <1>8 DEF QuietKept, InOrder, EntriesOf

-----------------------------------------------------------------------------
(* The ends a waiting process has seen happen are those it can notice: in  *)
(* the table, for the next sweep, or counted by a sweep since its call.    *)
MissedKept ==
  /\ NoEndMissed
  /\ \A p \in Everyone : waiting[p] /\ (since[p] \/ Emptied # {}) => missed[p]
  /\ missed \in [Everyone -> BOOLEAN]

(* A step that leaves the table, the ends and the comparisons alone.       *)
LEMMA MissedStays ==
  ASSUME IInv, MissedKept, HistoryStep, ~AnyEnds,
         UNCHANGED <<entries, count, status, waiting, since>>
  PROVE  MissedKept'
<1>1. Emptied' = Emptied
  BY DEF Emptied
<1>2. \A q \in Everyone : ~Calls(q)
  BY DEF Calls, IInv, TypeOK
<1>3. missed' = missed
  BY <1>2 DEF HistoryStep, MissedKept
<1> QED BY <1>1, <1>3 DEF MissedKept, NoEndMissed

(* A step that sweeps: what it empties it notices for whoever waits.       *)
LEMMA MissedSweep ==
  ASSUME IInv, MissedKept, HistoryStep, ~AnyEnds, Emptied' = {},
         since' = Noticed, waiting' = waiting
  PROVE  MissedKept'
<1>1. \A q \in Everyone : ~Calls(q)
  BY DEF Calls, IInv, TypeOK
<1>2. missed' = missed
  BY <1>1 DEF HistoryStep, MissedKept
<1>3. \A q \in Everyone :
        waiting[q] => (since'[q] <=> since[q] \/ Emptied # {})
  BY DEF Noticed, IInv, TypeOK
<1> QED BY <1>2, <1>3 DEF MissedKept, NoEndMissed

(* A step of a process into, in or out of round_wait.                      *)
LEMMA MissedWait ==
  ASSUME IInv, WaitPlaces, MissedKept, HistoryStep, ~AnyEnds, Emptied' = {},
         NEW p \in Everyone, since' = [Noticed EXCEPT ![p] = FALSE],
         \/ pc[p] = "body" /\ waiting' = [waiting EXCEPT ![p] = TRUE]
         \/ ~missed[p] /\ waiting' = waiting
         \/ waiting' = [waiting EXCEPT ![p] = FALSE]
  PROVE  MissedKept'
<1>0. /\ since \in [Everyone -> BOOLEAN] /\ waiting \in [Everyone -> BOOLEAN]
      /\ Noticed \in [Everyone -> BOOLEAN] /\ missed \in [Everyone -> BOOLEAN]
  BY SweepTypes DEF IInv, TypeOK, MissedKept
<1>1. \A q \in Everyone : q # p => ~Calls(q) /\ waiting'[q] = waiting[q]
  BY <1>0 DEF Calls
<1>2. \A q \in Everyone : q # p => missed'[q] = missed[q]
  BY <1>0, <1>1 DEF HistoryStep
<1>3. missed' \in [Everyone -> BOOLEAN]
  BY <1>0 DEF HistoryStep
<1>4. \A q \in Everyone : q # p /\ waiting[q]
        => (since'[q] <=> since[q] \/ Emptied # {})
  BY <1>0 DEF Noticed
<1>5. since'[p] = FALSE
  BY <1>0
<1>6. waiting'[p] => ~missed'[p]
  <2>1. CASE pc[p] = "body" /\ waiting' = [waiting EXCEPT ![p] = TRUE]
    <3>1. Calls(p)
      BY <1>0, <2>1 DEF Calls, WaitPlaces
    <3> QED BY <3>1 DEF HistoryStep
  <2>2. CASE ~missed[p] /\ waiting' = waiting
    BY <1>0, <2>2 DEF HistoryStep
  <2>3. CASE waiting' = [waiting EXCEPT ![p] = FALSE]
    BY <1>0, <2>3
  <2> QED BY <2>1, <2>2, <2>3
<1>7. NoEndMissed'
  BY <1>1, <1>2, <1>4, <1>6 DEF MissedKept, NoEndMissed
<1>8. \A q \in Everyone : waiting'[q] /\ (since'[q] \/ Emptied' # {})
        => missed'[q]
  BY <1>1, <1>2, <1>4, <1>5 DEF MissedKept
<1> QED BY <1>3, <1>7, <1>8 DEF MissedKept

(* What a start leaves: nothing to empty.                                  *)
LEMMA StartEmpties ==
  ASSUME IInv, IInv', NEW p \in Everyone, NEW r \in Fibres, Start(p, r)
  PROVE  Emptied' = {}
<1>1. PICK i \in 1 .. Capacity - 1 : entries' = [Swept EXCEPT ![i] = r]
  BY DEF Start
<1>2. status' = [status EXCEPT ![r] = 1]
  BY DEF Start
<1>3. ASSUME NEW j \in Table, entries'[j] # NoFibre
      PROVE  status'[entries'[j]] # 0
  <2>1. CASE j = i
    BY <1>1, <1>2, <2>1, SweepTable DEF IInv, TypeOK
  <2>2. CASE j # i
    <3>1. entries'[j] = Swept[j] /\ Swept[j] # NoFibre
      BY <1>1, <1>3, <2>2, SweepTable
    <3>2. entries[j] \in Unfinished /\ entries[j] = Swept[j]
      BY <3>1, LiveUnfinished, SweepTable DEF LiveEntries, EntriesOf
    <3> QED BY <1>2, <3>1, <3>2 DEF Unfinished, IInv, TypeOK
  <2> QED BY <2>1, <2>2
<1>4. count' \in 1 .. Capacity
  BY DEF IInv, TypeOK
<1>5. ASSUME NEW n \in 1 .. Capacity PROVE 1 .. n - 1 \subseteq Table
  BY DEF Table
<1>6. 1 .. count' - 1 \subseteq Table
  BY <1>4, <1>5
<1> QED BY <1>3, <1>6 DEF Emptied

(* Every step keeps the ends and what is noticed of them together.         *)
LEMMA MissedStep ==
  ASSUME IInv, IInv', WaitPlaces, MissedKept, Next, HistoryStep
  PROVE  MissedKept'
<1>1. ASSUME NEW p \in Everyone, KeepTurn(p) \/ Turn(p) \/ Resume(p)
      PROVE  MissedKept'
  <2>1. UNCHANGED <<entries, count, status, waiting, since>>
    BY <1>1 DEF KeepTurn, Turn, Resume
  <2> QED BY <1>1, <2>1, PlainKind, MissedStays DEF NoNews
<1>2. ASSUME NEW p \in Everyone, Idled(p) PROVE MissedKept'
  <2>1. UNCHANGED <<entries, count, status, waiting, since>>
    BY <1>2 DEF Idled
  <2> QED BY <1>2, <2>1, IdledKind, MissedStays
<1>3. ASSUME NEW p \in Everyone,
             StartTooSmall(p) \/ StartFull(p) \/ WaitForNobody(p)
      PROVE  MissedKept'
  <2>1. /\ entries' = Swept /\ status' = status /\ since' = Noticed
        /\ waiting' = waiting
    BY <1>3 DEF StartTooSmall, StartFull, WaitForNobody
  <2>2. Emptied' = {}
    BY <2>1, SweptNext
  <2> QED BY <1>3, <2>1, <2>2, PlainKind, MissedSweep DEF NoNews
<1>4. ASSUME NEW p \in Everyone, Yield(p) PROVE MissedKept'
  <2>1. /\ entries' = Swept /\ status' = status /\ since' = Noticed
        /\ waiting' = waiting
    BY <1>4 DEF Yield, Yielding
  <2>2. Emptied' = {}
    BY <2>1, SweptNext
  <2> QED BY <1>4, <2>1, <2>2, YieldKind, MissedSweep DEF NoNews
<1>5. ASSUME NEW p \in Everyone, NEW r \in Fibres, Start(p, r)
      PROVE  MissedKept'
  <2>1. since' = Noticed /\ waiting' = waiting
    BY <1>5 DEF Start
  <2> QED BY <1>5, <2>1, StartEmpties, StartKind, MissedSweep
<1>6. ASSUME NEW p \in Everyone, Wait(p) \/ WaitOn(p) \/ WaitReturns(p)
      PROVE  MissedKept'
  <2>1. /\ entries' = Swept /\ status' = status
        /\ since' = [Noticed EXCEPT ![p] = FALSE]
    BY <1>6 DEF Wait, WaitOn, WaitReturns, Yielding
  <2>2. Emptied' = {}
    BY <2>1, SweptNext
  <2>3. ~AnyEnds
    BY <1>6, YieldKind, PlainKind DEF NoNews
  <2>4. CASE Wait(p)
    <3>1. pc[p] = "body" /\ waiting' = [waiting EXCEPT ![p] = TRUE]
      BY <2>4 DEF Wait, InBody
    <3> QED BY <2>1, <2>2, <2>3, <3>1, MissedWait
  <2>5. CASE WaitOn(p)
    <3>1. /\ pc[p] = "look" /\ ~since[p] /\ Emptied = {}
          /\ waiting' = waiting
      BY <2>5 DEF WaitOn, WaitDone
    <3>2. ~missed[p]
      BY <3>1 DEF WaitPlaces, MissedKept, NoEndMissed
    <3> QED BY <2>1, <2>2, <2>3, <3>1, <3>2, MissedWait
  <2>6. CASE WaitReturns(p)
    <3>1. waiting' = [waiting EXCEPT ![p] = FALSE]
      BY <2>6 DEF WaitReturns
    <3> QED BY <2>1, <2>2, <2>3, <3>1, MissedWait
  <2> QED BY <1>6, <2>4, <2>5, <2>6
<1>7. ASSUME NEW f \in Fibres, End(f) PROVE MissedKept'
  <2>1. AnyEnds /\ Emptied' # {}
    BY <1>7, EndKind
  <2>2. waiting' = waiting
    BY <1>7 DEF End
  <2>3. \A q \in Everyone : ~Calls(q)
    BY <2>2 DEF Calls
  <2>4. missed' = [q \in Everyone |-> TRUE]
    BY <2>1, <2>3 DEF HistoryStep
  <2> QED BY <2>1, <2>4 DEF MissedKept, NoEndMissed
<1> QED
  BY <1>1, <1>2, <1>3, <1>4, <1>5, <1>6, <1>7 DEF Next

(* A wait that is over has seen an end, or has nobody left to wait for.    *)
LEMMA WaitOverIs ==
  ASSUME IInv, MissedKept, NEW p \in Everyone, running = p, pc[p] = "look",
         waiting[p], WaitDone(p)
  PROVE  missed[p] \/ Unfinished \subseteq {p, Home}
<1>1. CASE since[p] \/ Emptied # {}
  BY <1>1 DEF MissedKept
<1>2. CASE Others = 0
  <2>1. current \in Table /\ entries[current] = p /\ entries[0] = Home /\ 0 \in Table
    BY DEF IInv, TypeOK, CurrentRuns, TableKept, Table
  <2>2. {0, current} \subseteq LiveEntries
    <3>1. p \in Unfinished /\ Home \in Unfinished
      BY DEF IInv, PlacesKept, Unfinished
    <3> QED BY <2>1, <3>1, LiveUnfinished DEF EntriesOf
  <2>3. IsFiniteSet(LiveEntries) /\ Live = Cardinality(LiveEntries) /\ Live \in Nat
    BY LiveIs
  <2>4. Cardinality({0, current}) = Live
    <3>1. CASE current # 0
      <4>1. Live = 2
        BY <1>2, <2>3, <3>1 DEF Others
      <4>2. IsFiniteSet({0}) /\ Cardinality({0}) = 1
        BY FS_Singleton
      <4>3. Cardinality({0} \cup {current}) = 2
        <5>1. current \notin {0}
          BY <3>1
        <5>2. Cardinality({0} \cup {current}) = Cardinality({0}) + 1
          BY <4>2, <5>1, FS_AddElement
        <5> QED BY <4>2, <5>2
      <4>4. {0, current} = {0} \cup {current}
        OBVIOUS
      <4> QED BY <4>1, <4>3, <4>4
    <3>2. CASE current = 0
      <4>1. Live = 1
        BY <1>2, <2>3, <3>2 DEF Others
      <4>2. Cardinality({0}) = 1
        BY FS_Singleton
      <4>3. {0, current} = {0}
        BY <3>2
      <4> QED BY <4>1, <4>2, <4>3
    <3> QED BY <3>1, <3>2
  <2>5. {0, current} = LiveEntries
    BY <2>2, <2>3, <2>4, FS_Subset
  <2>6. ASSUME NEW q \in Unfinished PROVE q \in {p, Home}
    <3>1. PICK i \in LiveEntries : entries[i] = q
      BY LiveUnfinished
    <3> QED BY <2>1, <2>5, <3>1
  <2> QED BY <2>6
<1> QED BY <1>1, <1>2 DEF WaitDone

-----------------------------------------------------------------------------
(* The turn of entry j comes after that of c and before that of k.         *)
AheadOf(c, k, j) == IF c < k THEN c < j /\ j < k ELSE j > c \/ j < k

(* As long as no fibre ends, those a process has still to let run are      *)
(* unfinished, and their turns come before its own.                        *)
OwedKept ==
  /\ owed \in [Everyone -> SUBSET Everyone]
  /\ cutShort \in [Everyone -> BOOLEAN]
  /\ \A p \in Everyone : ~cutShort[p] =>
       /\ owed[p] \subseteq Unfinished
       /\ status[p] = 0 => owed[p] = {}
       /\ p = running /\ pc[p] \notin {"idle", "turn"} => owed[p] = {}
       /\ \A c, k, j \in Table :
            entries[c] = running /\ entries[k] = p /\ entries[j] \in owed[p]
              => AheadOf(c, k, j)

(* A step that goes on with the same process, who does not yield.          *)
LEMMA OwedStays ==
  ASSUME IInv, OwedKept, HistoryStep, ~AnyEnds, \A q \in Everyone : ~Yields(q),
         running' = running,
         \A q \in Everyone : status[q] # 0 => status'[q] # 0,
         \A i \in Table : entries'[i] \in Unfinished => entries'[i] = entries[i],
         \/ pc[running] \notin {"idle", "turn"}
         \/ pc'[running] \in {"idle", "turn"}
         \/ Unfinished \subseteq {running}
  PROVE  OwedKept'
<1>1. /\ owed' = [q \in Everyone |-> owed[q] \ {running}]
      /\ \A q \in Everyone : cutShort'[q] = cutShort[q]
      /\ cutShort' \in [Everyone -> BOOLEAN]
  BY DEF HistoryStep, OwedKept
<1>2. owed' \in [Everyone -> SUBSET Everyone]
  BY <1>1 DEF OwedKept
<1>3. running \in Unfinished
  BY DEF IInv, TypeOK, PlacesKept, Unfinished
<1>4. ASSUME NEW q \in Everyone, ~cutShort'[q]
      PROVE  /\ owed'[q] \subseteq Unfinished'
             /\ status'[q] = 0 => owed'[q] = {}
             /\ q = running' /\ pc'[q] \notin {"idle", "turn"}
                  => owed'[q] = {}
             /\ \A c, k, j \in Table :
                  /\ entries'[c] = running' /\ entries'[k] = q
                  /\ entries'[j] \in owed'[q]
                  => AheadOf(c, k, j)
  <2>1. /\ owed[q] \subseteq Unfinished
        /\ status[q] = 0 => owed[q] = {}
        /\ q = running /\ pc[q] \notin {"idle", "turn"} => owed[q] = {}
        /\ \A c, k, j \in Table :
             entries[c] = running /\ entries[k] = q /\ entries[j] \in owed[q]
               => AheadOf(c, k, j)
    BY <1>1, <1>4 DEF OwedKept
  <2>2. owed'[q] = owed[q] \ {running}
    BY <1>1
  <2>3. owed'[q] \subseteq Unfinished'
    BY <2>1, <2>2 DEF Unfinished
  <2>4. status'[q] = 0 => owed'[q] = {}
    BY <2>1, <2>2
  <2>5. q = running' /\ pc'[q] \notin {"idle", "turn"} => owed'[q] = {}
    BY <2>1, <2>2
  <2>6. ASSUME NEW c \in Table, NEW k \in Table, NEW j \in Table,
               entries'[c] = running', entries'[k] = q,
               entries'[j] \in owed'[q]
        PROVE  AheadOf(c, k, j)
    <3>1. q \in Unfinished
      BY <2>1, <2>2, <2>6 DEF Unfinished
    <3>2. entries[c] = running /\ entries[k] = q /\ entries[j] \in owed[q]
      BY <1>3, <2>1, <2>2, <2>6, <3>1
    <3> QED BY <2>1, <3>2
  <2> QED BY <2>3, <2>4, <2>5, <2>6
<1> QED BY <1>1, <1>2, <1>4 DEF OwedKept

(* A yield owes everybody else a turn.                                     *)
LEMMA OwedYield ==
  ASSUME IInv, IInv', OwedKept, HistoryStep, NEW p \in Everyone,
         Yield(p) \/ Wait(p) \/ WaitOn(p)
  PROVE  OwedKept'
<1>1. NoNews /\ \A q \in Everyone : Yields(q) <=> q = p
  BY YieldKind
<1>2. /\ running = p /\ running' = p /\ status' = status /\ entries' = Swept
      /\ pc'[p] \in {"idle", "turn"}
  BY DEF Yield, Wait, WaitOn, InBody, Yielding, Goes, IInv, TypeOK
<1>3. /\ owed' = [q \in Everyone |-> IF q = p THEN Unfinished \ {p}
                                     ELSE owed[q] \ {p}]
      /\ \A q \in Everyone : q # p => cutShort'[q] = cutShort[q]
      /\ cutShort' \in [Everyone -> BOOLEAN]
  BY <1>1, <1>2 DEF HistoryStep, OwedKept, NoNews
<1>4. owed' \in [Everyone -> SUBSET Everyone]
  BY <1>3 DEF OwedKept, Unfinished
<1>5. Unfinished' = Unfinished /\ p \in Unfinished
  BY <1>2 DEF IInv, TypeOK, PlacesKept, Unfinished
<1>6. \A i \in Table : entries'[i] \in Unfinished => entries'[i] = entries[i]
  BY <1>2, LiveUnfinished, SweepTable DEF LiveEntries, EntriesOf, Unfinished
<1>7. \A i, j \in Table : entries'[i] = entries'[j] /\ entries'[i] # NoFibre
                            => i = j
  BY DEF IInv, TableKept
<1>8. ASSUME NEW q \in Everyone, ~cutShort'[q]
      PROVE  /\ owed'[q] \subseteq Unfinished'
             /\ status'[q] = 0 => owed'[q] = {}
             /\ q = running' /\ pc'[q] \notin {"idle", "turn"}
                  => owed'[q] = {}
             /\ \A c, k, j \in Table :
                  /\ entries'[c] = running' /\ entries'[k] = q
                  /\ entries'[j] \in owed'[q]
                  => AheadOf(c, k, j)
  <2>1. CASE q = p
    <3>1. owed'[q] = Unfinished \ {p} /\ status[p] # 0
      BY <1>3, <1>5, <2>1 DEF Unfinished
    <3>2. ASSUME NEW c \in Table, NEW k \in Table, NEW j \in Table,
                 entries'[c] = p, entries'[k] = p, entries'[j] # p
          PROVE  AheadOf(c, k, j)
      <4>1. c = k /\ j # c
        BY <1>7, <3>2
      <4> QED BY <4>1 DEF AheadOf, Table
    <3> QED BY <1>2, <1>5, <2>1, <3>1, <3>2
  <2>2. CASE q # p
    <3>1. /\ owed[q] \subseteq Unfinished
          /\ status[q] = 0 => owed[q] = {}
          /\ \A c, k, j \in Table :
               entries[c] = p /\ entries[k] = q /\ entries[j] \in owed[q]
                 => AheadOf(c, k, j)
      BY <1>2, <1>3, <1>8, <2>2 DEF OwedKept
    <3>2. owed'[q] = owed[q] \ {p}
      BY <1>3, <2>2
    <3>3. ASSUME NEW c \in Table, NEW k \in Table, NEW j \in Table,
                 entries'[c] = p, entries'[k] = q, entries'[j] \in owed'[q]
          PROVE  AheadOf(c, k, j)
      <4>1. q \in Unfinished
        BY <3>1, <3>2, <3>3 DEF Unfinished
      <4>2. entries[c] = p /\ entries[k] = q /\ entries[j] \in owed[q]
        BY <1>5, <1>6, <3>1, <3>2, <3>3, <4>1
      <4> QED BY <3>1, <4>2
    <3> QED BY <1>2, <1>5, <2>2, <3>1, <3>2, <3>3
  <2> QED BY <2>1, <2>2
<1> QED BY <1>3, <1>4, <1>8 DEF OwedKept

(* The turn goes to the nearest of those ahead, and is then no more owed.  *)
LEMMA OwedTurn ==
  ASSUME IInv, IInv', OwedKept, HistoryStep, NEW p \in Everyone, Turn(p)
  PROVE  OwedKept'
<1>1. NoNews /\ \A q \in Everyone : ~Yields(q)
  BY PlainKind
<1>2. PICK n \in 0 .. count - 1 : TurnsTo(n) /\ n # current /\ running' = entries[n]
  BY DEF Turn
<1>3. running = p /\ pc[p] = "turn" /\ UNCHANGED <<entries, count, status>>
  BY DEF Turn
<1>4. entries[current] = p /\ current \in Table /\ n \in Table
  BY <1>3 DEF IInv, TypeOK, CurrentRuns, Table
<1>5. /\ owed' = [q \in Everyone |-> owed[q] \ {entries[n]}]
      /\ \A q \in Everyone : cutShort'[q] = cutShort[q]
      /\ cutShort' \in [Everyone -> BOOLEAN]
  BY <1>1, <1>2 DEF HistoryStep, OwedKept, NoNews
<1>6. owed' \in [Everyone -> SUBSET Everyone]
  BY <1>5 DEF OwedKept
<1>7. Unfinished' = Unfinished
  BY <1>3 DEF Unfinished
<1>8. \A i, j \in Table : entries[i] = entries[j] /\ entries[i] # NoFibre => i = j
  BY DEF IInv, TableKept
<1>9. entries[n] \in Everyone /\ entries[n] # p
  BY <1>2, <1>4, <1>8 DEF IInv, TypeOK
<1>10. ASSUME NEW q \in Everyone, ~cutShort'[q]
       PROVE  /\ owed'[q] \subseteq Unfinished
              /\ status[q] = 0 => owed'[q] = {}
              /\ q = running' => owed'[q] = {}
              /\ \A c, k, j \in Table :
                   /\ entries[c] = running' /\ entries[k] = q
                   /\ entries[j] \in owed'[q]
                   => AheadOf(c, k, j)
  <2>1. /\ owed[q] \subseteq Unfinished
        /\ status[q] = 0 => owed[q] = {}
        /\ \A c, k, j \in Table :
             entries[c] = p /\ entries[k] = q /\ entries[j] \in owed[q]
               => AheadOf(c, k, j)
    BY <1>3, <1>5, <1>10 DEF OwedKept
  <2>2. owed'[q] = owed[q] \ {entries[n]}
    BY <1>5
  <2>3. ASSUME NEW k \in Table, NEW j \in Table,
               entries[k] = q, entries[j] \in owed[q], j # n
        PROVE  AheadOf(n, k, j) /\ k # n
    <3>1. AheadOf(current, k, j)
      BY <1>4, <2>1, <2>3
    <3>2. entries[j] \in Unfinished /\ entries[k] \in Unfinished
      BY <2>1, <2>3 DEF Unfinished
    <3>3. current \in Nat /\ j \in Nat /\ k \in Nat /\ n \in Nat
      BY <1>4 DEF Table
    <3>4. CASE n = 0
      <4>1. j <= current /\ k <= current
        BY <1>2, <3>2, <3>3, <3>4, NobodyPassed
      <4> QED BY <2>3, <3>1, <3>3, <3>4, <4>1 DEF AheadOf
    <3>5. CASE n > current
      <4>1. (j > current => j >= n) /\ (k > current => k >= n)
        BY <1>2, <3>2, <3>3, <3>5, NobodyPassed
      <4> QED BY <2>3, <3>1, <3>3, <3>5, <4>1 DEF AheadOf
    <3> QED BY <1>2, <3>4, <3>5, NobodyPassed
  <2>4. q = running' => owed'[q] = {}
    <3> SUFFICES ASSUME q = entries[n], NEW o \in owed[q], o # entries[n]
                 PROVE  FALSE
      BY <1>2, <2>2
    <3>1. PICK j \in Table : entries[j] = o
      BY <2>1 DEF Unfinished, IInv, TableKept
    <3> QED BY <1>4, <2>3, <3>1
  <2>5. ASSUME NEW c \in Table, NEW k \in Table, NEW j \in Table,
               entries[c] = running', entries[k] = q, entries[j] \in owed'[q]
        PROVE  AheadOf(c, k, j)
    <3>1. c = n /\ j # n /\ entries[j] \in owed[q]
      BY <1>2, <1>4, <1>8, <1>9, <2>2, <2>5
    <3> QED BY <2>3, <2>5, <3>1
  <2> QED BY <2>1, <2>2, <2>4, <2>5
<1> QED BY <1>3, <1>5, <1>6, <1>7, <1>10 DEF OwedKept

(* An end cuts every round short.                                          *)
LEMMA OwedEnd ==
  ASSUME IInv, OwedKept, HistoryStep, NEW f \in Fibres, End(f)
  PROVE  OwedKept'
<1>1. AnyEnds /\ \A q \in Everyone : ~Yields(q)
  BY EndKind
<1>2. cutShort' = [q \in Everyone |-> TRUE]
  BY <1>1 DEF HistoryStep
<1>3. owed' \in [Everyone -> SUBSET Everyone]
  BY <1>1 DEF HistoryStep, OwedKept
<1> QED BY <1>2, <1>3 DEF OwedKept

(* Every step keeps the owed ahead.                                        *)
LEMMA OwedStep ==
  ASSUME IInv, IInv', OwedKept, Next, HistoryStep
  PROVE  OwedKept'
<1>1. ASSUME NEW p \in Everyone,
             \/ StartTooSmall(p) \/ StartFull(p) \/ WaitForNobody(p)
             \/ WaitReturns(p)
      PROVE  OwedKept'
  <2>1. /\ entries' = Swept /\ status' = status /\ running' = running
        /\ pc[running] \in {"body", "look"}
    BY <1>1 DEF StartTooSmall, StartFull, WaitForNobody, WaitReturns, InBody
  <2>2. \A i \in Table : entries'[i] \in Unfinished => entries'[i] = entries[i]
    BY <2>1, LiveUnfinished, SweepTable DEF LiveEntries, EntriesOf, Unfinished
  <2>3. ~AnyEnds /\ \A q \in Everyone : ~Yields(q)
    BY <1>1, PlainKind DEF NoNews
  <2> QED BY <2>1, <2>2, <2>3, OwedStays
<1>2. ASSUME NEW p \in Everyone, Resume(p) \/ KeepTurn(p) PROVE OwedKept'
  <2>1. /\ entries' = entries /\ status' = status /\ running' = running
        /\ running = p
    BY <1>2 DEF Resume, KeepTurn
  <2>2. ~AnyEnds /\ \A q \in Everyone : ~Yields(q)
    BY <1>2, PlainKind DEF NoNews
  <2>3. CASE Resume(p)
    <3>1. pc[running] = "away"
      BY <2>3 DEF Resume
    <3> QED BY <2>1, <2>2, <3>1, OwedStays
  <2>4. CASE KeepTurn(p)
    <3>1. TurnsTo(current) /\ pc[p] = "turn"
      BY <2>4 DEF KeepTurn
    <3>2. current \in Nat /\ current \in Table /\ entries[current] = p
      BY <2>1, <3>1 DEF IInv, TypeOK, CurrentRuns, Table
    <3>3. \A j \in Table : entries[j] \in Unfinished => j = current
      BY <3>1, <3>2, NobodyPassed DEF Table
    <3>4. ASSUME NEW q \in Unfinished PROVE q = running
      <4>1. PICK j \in Table : entries[j] = q
        BY DEF IInv, TableKept, Unfinished
      <4> QED BY <2>1, <3>2, <3>3, <4>1
    <3> QED BY <2>1, <2>2, <3>4, OwedStays
  <2> QED BY <1>2, <2>3, <2>4
<1>3. ASSUME NEW p \in Everyone, Idled(p) PROVE OwedKept'
  <2>1. /\ entries' = entries /\ status' = status /\ running' = running
        /\ running = p /\ pc'[p] = "turn"
    BY <1>3 DEF Idled, Goes, IInv, TypeOK
  <2> QED BY <1>3, <2>1, IdledKind, OwedStays
<1>4. ASSUME NEW p \in Everyone, NEW r \in Fibres, Start(p, r)
      PROVE  OwedKept'
  <2>1. /\ status[r] = 0 /\ status' = [status EXCEPT ![r] = 1]
        /\ running' = running /\ pc[running] = "body"
    BY <1>4 DEF Start, InBody
  <2>2. PICK i \in 1 .. Capacity - 1 : entries' = [Swept EXCEPT ![i] = r]
    BY <1>4 DEF Start
  <2>3. \A q \in Everyone : status[q] # 0 => status'[q] # 0
    BY <2>1 DEF IInv, TypeOK
  <2>4. r \notin Unfinished
    BY <2>1 DEF Unfinished
  <2>5. ASSUME NEW j \in Table, entries'[j] \in Unfinished
        PROVE  entries'[j] = entries[j]
    <3>1. entries'[j] = Swept[j]
      BY <2>2, <2>4, <2>5, SweepTable
    <3> QED BY <2>5, <3>1, LiveUnfinished, SweepTable
            DEF LiveEntries, EntriesOf, Unfinished
  <2> QED BY <1>4, <2>1, <2>3, <2>5, StartKind, OwedStays
<1> QED
  BY <1>1, <1>2, <1>3, <1>4, OwedYield, OwedTurn, OwedEnd DEF Next

-----------------------------------------------------------------------------
(* The inductive invariant: the round's, and one part for each promise.    *)
PInv == IInv /\ WaitPlaces /\ QuietKept(yielded) /\ MissedKept /\ OwedKept

(* Made over a table that holds no record, the round keeps all of it.      *)
LEMMA PromiseInvariance == TableWas = {NoFibre} /\ PromiseSpec => []PInv
<1>1. PromiseSpec => Spec
  <2>1. PromiseInit => Init
    BY DEF PromiseInit
  <2>2. [PromiseNext]_allVars => [Next]_vars
    BY DEF PromiseNext, allVars
  <2> QED BY <2>1, <2>2, PTL DEF PromiseSpec, Spec
<1>2. TableWas = {NoFibre} /\ PromiseInit /\ IInv => PInv
  <2> SUFFICES ASSUME TableWas = {NoFibre}, PromiseInit, IInv PROVE PInv
    OBVIOUS
  <2>1. Init /\ HistoryInit
    BY DEF PromiseInit
  <2>2. QuietKept({}) /\ WaitPlaces
    BY <2>1, QuietInit, WaitPlacesInit
  <2>3. QuietKept(yielded)
    BY <2>1, <2>2 DEF HistoryInit
  <2>4. MissedKept
    BY <2>1 DEF Init, HistoryInit, MissedKept, NoEndMissed
  <2>5. OwedKept
    BY <2>1 DEF HistoryInit, OwedKept
  <2> QED BY <2>2, <2>3, <2>4, <2>5 DEF PInv
<1>3. PInv /\ IInv' /\ [PromiseNext]_allVars => PInv'
  <2> SUFFICES ASSUME PInv, IInv', [PromiseNext]_allVars PROVE PInv'
    OBVIOUS
  <2>1. CASE PromiseNext
    <3>1. Next /\ HistoryStep
      BY <2>1 DEF PromiseNext
    <3> QED
      BY <3>1, YieldedStep, MissedStep, OwedStep, WaitPlacesStep DEF PInv
  <2>2. CASE UNCHANGED allVars
    <3>1. UNCHANGED vars /\ UNCHANGED history
      BY <2>2 DEF allVars
    <3>2. WaitPlaces'
      BY <3>1, WaitPlacesStep DEF PInv
    <3>3. Emptied' = Emptied /\ Unfinished' = Unfinished /\ Swept' = Swept
      BY <3>1 DEF vars, Emptied, Unfinished, Swept
    <3>4. Live' = Live
      BY <3>1, <3>3 DEF vars, Live
    <3>5. QuietKept(yielded)'
      BY <3>1, <3>3, <3>4
      DEF PInv, QuietKept, InOrder, EntriesOf, Between, vars, history
    <3>6. MissedKept'
      BY <3>1, <3>3 DEF PInv, MissedKept, NoEndMissed, vars, history
    <3>7. OwedKept'
      BY <3>1, <3>3 DEF PInv, OwedKept, vars, history
    <3> QED BY <3>2, <3>5, <3>6, <3>7 DEF PInv
  <2> QED BY <2>1, <2>2
<1> QED
  BY <1>1, <1>2, <1>3, Invariance, PTL DEF PromiseSpec

(* The idler is called only when every unfinished process has yielded and  *)
(* nothing has started or ended since, for any fibres and any capacity.    *)
THEOREM IdlesOnlyWhenQuiet ==
  TableWas = {NoFibre} /\ PromiseSpec => []IdleOnlyWhenQuiet
<1>1. PInv => IdleOnlyWhenQuiet
  <2> SUFFICES ASSUME PInv, NEW p \in Everyone, pc[p] = "idle"
               PROVE  Unfinished \subseteq yielded
    BY DEF IdleOnlyWhenQuiet
  <2>1. p = running
    BY DEF PInv, IInv, PlacesKept
  <2> QED BY <2>1 DEF PInv, QuietKept
<1> QED BY <1>1, PromiseInvariance, PTL

(* A process that yields resumes after everyone who was unfinished then,   *)
(* as long as no fibre ends.                                               *)
THEOREM EverybodyGetsATurn ==
  TableWas = {NoFibre} /\ PromiseSpec => []TurnsUnlessEnded
<1>1. PInv => TurnsUnlessEnded
  BY DEF PInv, OwedKept, TurnsUnlessEnded
<1> QED BY <1>1, PromiseInvariance, PTL

(* No end is lost between the sweeps of the processes that share the       *)
(* round: whoever waits is going to notice it.                             *)
THEOREM EndsAreNoticed ==
  TableWas = {NoFibre} /\ PromiseSpec => []NoEndMissed
<1>1. PInv => NoEndMissed
  BY DEF PInv, MissedKept
<1> QED BY <1>1, PromiseInvariance, PTL

(* round_wait goes back to its caller only when a fibre has ended since    *)
(* the call, or nobody is left to wait for.                                *)
THEOREM WaitsAreKept == TableWas = {NoFibre} /\ PromiseSpec => WaitKept
<1> DEFINE Kept ==
      \A p \in Everyone :
        waiting[p] /\ ~waiting'[p] => missed[p] \/ Unfinished \subseteq {p, Home}
<1>1. PInv /\ [PromiseNext]_allVars => [Kept]_allVars
  <2> SUFFICES ASSUME PInv, PromiseNext, NEW p \in Everyone,
                      waiting[p], ~waiting'[p]
               PROVE  missed[p] \/ Unfinished \subseteq {p, Home}
    BY DEF PromiseNext
  <2>1. waiting \in [Everyone -> BOOLEAN]
    BY DEF PInv, IInv, TypeOK
  <2>2. WaitReturns(p)
    BY <2>1 DEF PromiseNext, Next, Start, StartTooSmall, StartFull, Yield,
                Idled, KeepTurn, Turn, Resume, WaitForNobody, Wait,
                WaitReturns, WaitOn, End
  <2>3. running = p /\ pc[p] = "look" /\ WaitDone(p)
    BY <2>2 DEF WaitReturns
  <2> QED BY <2>3, WaitOverIs DEF PInv
<1> QED BY <1>1, PromiseInvariance, PTL DEF PromiseSpec, WaitKept

-----------------------------------------------------------------------------
(* Groups over the round.                                                  *)

(* What the groups need of the round: a process is in its code only while  *)
(* its record says that it has not ended.                                  *)
Alive ==
  /\ status \in [Everyone -> {0, 1}] /\ pc \in [Everyone -> Places]
  /\ \A p \in Everyone : pc[p] # "ended" => status[p] # 0

(* Only Start makes a record alive and only End ends one, and in that step *)
(* the process leaves its code.                                            *)
LEMMA AliveStep == Alive /\ [Next]_vars => Alive'
<1> SUFFICES ASSUME Alive, [Next]_vars PROVE Alive'
  OBVIOUS
<1>1. ASSUME NEW p \in Everyone, NEW r \in Fibres, Start(p, r)
      PROVE  Alive'
  <2>1. status' = [status EXCEPT ![r] = 1] /\ pc' = [pc EXCEPT ![r] = "new"]
    BY <1>1 DEF Start, Goes
  <2> QED BY <2>1 DEF Places, Alive
<1>2. ASSUME NEW p \in Everyone, NEW place \in Places, pc[p] # "ended",
             pc' = [pc EXCEPT ![p] = place], status' = status
      PROVE  Alive'
  BY <1>2 DEF Alive
<1>3. ASSUME NEW p \in Everyone,
             \/ Yield(p) \/ Idled(p) \/ KeepTurn(p) \/ Resume(p) \/ Wait(p)
             \/ WaitReturns(p) \/ WaitOn(p)
      PROVE  Alive'
  <2>1. status' = status /\ pc[p] # "ended"
    BY <1>3 DEF Yield, Idled, KeepTurn, Resume, Wait, WaitReturns, WaitOn, InBody
  <2>2. \E place \in Places : pc' = [pc EXCEPT ![p] = place]
    BY <1>3 DEF Yield, Idled, KeepTurn, Resume, Wait, WaitReturns, WaitOn,
                Yielding, Goes, Returned, Places
  <2> QED BY <1>2, <2>1, <2>2
<1>4. ASSUME NEW p \in Everyone, StartTooSmall(p) \/ StartFull(p) \/ WaitForNobody(p)
      PROVE  Alive'
  BY <1>4 DEF StartTooSmall, StartFull, WaitForNobody, Alive
<1>5. ASSUME NEW p \in Everyone, Turn(p)
      PROVE  Alive'
  <2>1. PICK i \in 0 .. count - 1 :
          pc' = [pc EXCEPT ![p] = "away",
                           ![entries[i]] = IF @ = "new" THEN "body" ELSE @]
    BY <1>5 DEF Turn
  <2>2. status' = status /\ pc[p] = "turn"
    BY <1>5 DEF Turn
  <2> HIDE DEF Alive
  <2>3. /\ pc' \in [Everyone -> Places]
        /\ \A q \in Everyone : pc'[q] # "ended" => pc[q] # "ended"
    BY <2>1, <2>2 DEF Alive, Places
  <2> QED BY <2>2, <2>3 DEF Alive
<1>6. ASSUME NEW f \in Fibres, End(f)
      PROVE  Alive'
  BY <1>6 DEF End, Goes, Places, Alive
<1>7. CASE UNCHANGED vars
  BY <1>7 DEF vars, Alive
<1> QED BY <1>1, <1>3, <1>4, <1>5, <1>6, <1>7 DEF Next

(* Every step of the groups is one of the round, or none of it.            *)
LEMMA GroupIsRound == [GroupNext]_wholeVars => [Next]_vars
<1> SUFFICES ASSUME [GroupNext]_wholeVars PROVE [Next]_vars
  OBVIOUS
<1> USE GroupAssumption DEF GroupAssumption
<1>1. ASSUME NEW g \in Groups,
             \/ CallAdmit(g) \/ AdmitFails(g) \/ AdmitWaits(g)
             \/ CallJoin(g) \/ JoinWaits(g) \/ JoinReturns(g)
      PROVE  [Next]_vars
  BY <1>1 DEF CallAdmit, AdmitFails, AdmitWaits, CallJoin, JoinWaits, JoinReturns, Next
<1>2. ASSUME NEW g \in Groups, AdmitStarts(g)
      PROVE  [Next]_vars
  <2>1. PICK i \in 1 .. Len(StacksOf[g]) : Start(Owner[g], StacksOf[g][i])
    BY <1>2 DEF AdmitStarts, First, FreeStack
  <2>2. StacksOf[g][i] \in Fibres /\ Owner[g] \in Everyone
    OBVIOUS
  <2> QED BY <2>1, <2>2 DEF Next
<1>3. ASSUME NEW p \in Everyone, TaskYields(p) \/ RoundStep(p)
      PROVE  [Next]_vars
  BY <1>3 DEF TaskYields, RoundStep, Next
<1>4. ASSUME NEW f \in Fibres,
             TaskSucceeds(f) \/ TaskEnds(f) \/ \E x \in Reasons[f] : TaskFails(f, x)
      PROVE  [Next]_vars
  BY <1>4 DEF TaskSucceeds, TaskEnds, TaskFails, Next
<1>5. CASE UNCHANGED wholeVars
  BY <1>5 DEF wholeVars
<1> QED BY <1>1, <1>2, <1>3, <1>4, <1>5 DEF GroupNext

(* Types of what the groups keep.                                          *)
GroupTypes ==
  /\ ledger \in [Groups -> Problems \cup {NoProblem}]
  /\ handed \in [Groups -> Problems \cup {NoProblem}]
  /\ call \in [Everyone -> InCall] /\ index \in [Everyone -> Nat]
  /\ failing \subseteq returned /\ returned \subseteq Fibres

(* Only the groups start tasks.                                            *)
OnlyMembers == \A f \in Fibres : status[f] # 0 => \E g \in Groups : f \in Members(g)

(* A join has found every stack before its index ended, and nobody but the *)
(* process in it could start another task there.                           *)
SeenEnded ==
  \A g \in Groups : call[Owner[g]] = <<"join", g>> =>
    /\ index[Owner[g]] \in 1 .. Len(StacksOf[g])
    /\ \A i \in 1 .. Len(StacksOf[g]) : i < index[Owner[g]] => Ended(g, i)

(* The inductive invariant of the groups.                                  *)
GroupInv == Alive /\ GroupTypes /\ OnlyMembers /\ SeenEnded

(* What a step of the groups does to what AbstractGroup sees: nothing.     *)
Unseen == UNCHANGED <<status, ledger, handed, failing>>

(* A task is started on the free stack s of g.                             *)
Admits(g, s) ==
  /\ s \in Members(g) /\ status[s] = 0 /\ status' = [status EXCEPT ![s] = 1]
  /\ UNCHANGED <<ledger, handed, failing>>

(* The routine of the task on s fails with x.                              *)
Fails(g, s, x) ==
  /\ s \in Members(g) \ failing /\ status[s] # 0
  /\ failing' = failing \cup {s}
  /\ ledger' = [ledger EXCEPT ![g] = IF @ = NoProblem THEN x ELSE @]
  /\ UNCHANGED <<status, handed>>

(* The task on s ends.                                                     *)
Leaves(g, s) ==
  /\ s \in Members(g) /\ status[s] # 0 /\ status' = [status EXCEPT ![s] = 0]
  /\ failing' = failing \ {s}
  /\ UNCHANGED <<ledger, handed>>

(* A join of g returns.                                                    *)
Joins(g) ==
  /\ \A s \in Members(g) : status[s] = 0
  /\ handed' = [handed EXCEPT ![g] = ledger[g]]
  /\ ledger' = [ledger EXCEPT ![g] = NoProblem]
  /\ UNCHANGED <<status, failing>>

(* The steps that start and end nothing leave every record as it is.       *)
LEMMA StatusStays ==
  ASSUME NEW p,
         \/ StartTooSmall(p) \/ StartFull(p) \/ Yield(p) \/ Wait(p)
         \/ WaitForNobody(p) \/ RoundStep(p)
  PROVE  status' = status
BY DEF StartTooSmall, StartFull, Yield, Wait, WaitForNobody, RoundStep, Idled,
       KeepTurn, Turn, Resume, WaitReturns, WaitOn

(* Members are told apart by their groups.                                 *)
LEMMA MembersApart ==
  ASSUME NEW g \in Groups, NEW s \in Members(g)
  PROVE  s \in Fibres /\ GroupOf(s) = g /\ \A h \in Groups : s \in Members(h) => h = g
<1> USE GroupAssumption DEF GroupAssumption
<1>1. s \in Fibres
  BY DEF Members
<1>2. \A h \in Groups : s \in Members(h) => h = g
  OBVIOUS
<1> QED BY <1>1, <1>2 DEF GroupOf

(* Each action is one of these.                                            *)
LEMMA GroupSees ==
  ASSUME GroupInv, GroupNext
  PROVE  \/ Unseen
         \/ \E g \in Groups :
              \/ Joins(g)
              \/ \E s \in Members(g) :
                   Admits(g, s) \/ Leaves(g, s) \/ \E x \in Problems : Fails(g, s, x)
<1> USE GroupAssumption DEF GroupAssumption
<1>1. ASSUME NEW g \in Groups, AdmitStarts(g)
      PROVE  \E s \in Members(g) : Admits(g, s)
  <2>1. PICK i \in 1 .. Len(StacksOf[g]) : Start(Owner[g], StacksOf[g][i])
    BY <1>1 DEF AdmitStarts, First, FreeStack
  <2>2. StacksOf[g][i] \in Members(g)
    BY DEF Members
  <2>3. Admits(g, StacksOf[g][i])
    BY <1>1, <2>1, <2>2 DEF AdmitStarts, Start, Admits
  <2> QED BY <2>2, <2>3
<1>2. ASSUME NEW g \in Groups, CallAdmit(g) \/ AdmitFails(g) \/ AdmitWaits(g)
      PROVE  Unseen
  BY <1>2, StatusStays DEF CallAdmit, AdmitFails, AdmitWaits, Unseen, groupVars, vars
<1>3. ASSUME NEW g \in Groups, CallJoin(g) \/ JoinWaits(g)
      PROVE  Unseen
  BY <1>3, StatusStays DEF CallJoin, JoinWaits, Unseen, vars
<1>4. ASSUME NEW g \in Groups, JoinReturns(g)
      PROVE  Joins(g)
  <2>1. \A i \in 1 .. Len(StacksOf[g]) : Ended(g, i)
    <3>1. call[Owner[g]] = <<"join", g>> /\ Remaining(g) = {}
      BY <1>4 DEF JoinReturns, Joining
    <3>2. index[Owner[g]] \in Nat
      BY DEF GroupInv, GroupTypes
    <3> SUFFICES ASSUME NEW i \in 1 .. Len(StacksOf[g])
                 PROVE  Ended(g, i)
      OBVIOUS
    <3>3. CASE i < index[Owner[g]]
      BY <3>1, <3>3 DEF GroupInv, SeenEnded
    <3>4. CASE i >= index[Owner[g]]
      BY <3>1, <3>4 DEF Remaining, Unended
    <3> QED BY <3>2, <3>3, <3>4
  <2>2. \A s \in Members(g) : status[s] = 0
    BY <2>1 DEF Members, Ended
  <2> QED BY <1>4, <2>2 DEF JoinReturns, Joins, vars
<1>5. ASSUME NEW p \in Everyone, TaskYields(p) \/ RoundStep(p)
      PROVE  Unseen
  <2>1. status' = status
    BY <1>5, StatusStays DEF TaskYields
  <2> QED BY <1>5, <2>1 DEF TaskYields, RoundStep, Unseen, groupVars
<1>6. ASSUME NEW f \in Fibres, TaskSucceeds(f)
      PROVE  Unseen
  BY <1>6 DEF TaskSucceeds, Unseen, vars
<1>7. ASSUME NEW f \in Fibres, InBody(f)
      PROVE  /\ status[f] # 0
             /\ \E g \in Groups : f \in Members(g) /\ g = GroupOf(f)
  <2>1. status[f] # 0
    BY <1>7 DEF InBody, GroupInv, Alive
  <2>2. PICK g \in Groups : f \in Members(g)
    BY <2>1 DEF GroupInv, OnlyMembers
  <2> QED BY <2>1, <2>2, MembersApart
<1>8. ASSUME NEW f \in Fibres, NEW x \in Reasons[f], TaskFails(f, x)
      PROVE  \E g \in Groups : \E s \in Members(g) : \E y \in Problems : Fails(g, s, y)
  <2>1. InBody(f) /\ f \notin returned
    BY <1>8 DEF TaskFails, AtWork
  <2>2. PICK g \in Groups : f \in Members(g) /\ g = GroupOf(f)
    BY <1>7, <2>1
  <2>3. status[f] # 0 /\ f \notin failing
    BY <1>7, <2>1 DEF GroupInv, GroupTypes
  <2>4. ledger' = [ledger EXCEPT ![g] = IF @ = NoProblem THEN x ELSE @]
    BY <1>8, <2>2 DEF TaskFails, Keeps, GroupInv, GroupTypes
  <2>5. failing' = failing \cup {f} /\ status' = status /\ handed' = handed
    BY <1>8 DEF TaskFails, vars
  <2>6. Fails(g, f, x) /\ x \in Problems
    BY <2>2, <2>3, <2>4, <2>5 DEF Fails
  <2> QED BY <2>2, <2>6
<1>9. ASSUME NEW f \in Fibres, TaskEnds(f)
      PROVE  \E g \in Groups : \E s \in Members(g) : Leaves(g, s)
  <2>1. /\ InBody(f) /\ status' = [status EXCEPT ![f] = 0]
        /\ failing' = failing \ {f} /\ UNCHANGED <<ledger, handed>>
    BY <1>9 DEF TaskEnds, End
  <2>2. PICK g \in Groups : f \in Members(g) /\ status[f] # 0
    BY <1>7, <2>1
  <2>3. Leaves(g, f)
    BY <2>1, <2>2 DEF Leaves
  <2> QED BY <2>2, <2>3
<1> QED BY <1>1, <1>2, <1>3, <1>4, <1>5, <1>6, <1>8, <1>9 DEF GroupNext

(* GroupInv holds at first.                                                *)
LEMMA GroupInvInit == GroupInit => GroupInv
<1> USE GroupAssumption DEF GroupAssumption
<1>1. GroupInit => Alive
  BY DEF GroupInit, Init, Alive, Places
<1>2. GroupInit => GroupTypes /\ OnlyMembers
  BY DEF GroupInit, Init, GroupTypes, OnlyMembers, InCall
<1>3. GroupInit => SeenEnded
  BY DEF GroupInit, SeenEnded, NoCall
<1> QED BY <1>1, <1>2, <1>3 DEF GroupInv

(* The calls and their locals, action by action.                           *)
LEMMA GroupTypesStep ==
  ASSUME GroupInv, GroupNext
  PROVE  GroupTypes'
<1> USE GroupAssumption DEF GroupAssumption
<1>1. ASSUME NEW g \in Groups,
             CallAdmit(g) \/ AdmitStarts(g) \/ AdmitFails(g) \/ AdmitWaits(g)
      PROVE  GroupTypes'
  <2>1. /\ UNCHANGED <<ledger, handed, index, returned, failing>>
        /\ \/ call' = call
           \/ \E c \in {NoCall, <<"admit", g>>} : call' = [call EXCEPT ![Owner[g]] = c]
    BY <1>1 DEF CallAdmit, AdmitStarts, AdmitFails, AdmitWaits, groupVars
  <2>2. NoCall \in InCall /\ <<"admit", g>> \in InCall
    BY DEF InCall
  <2>3. call \in [Everyone -> InCall]
    BY DEF GroupInv, GroupTypes
  <2>4. ASSUME NEW c \in InCall, call' = [call EXCEPT ![Owner[g]] = c]
        PROVE  call' \in [Everyone -> InCall]
    BY <2>3, <2>4
  <2>5. call' \in [Everyone -> InCall]
    BY <2>1, <2>2, <2>3, <2>4
  <2> QED BY <2>1, <2>5 DEF GroupInv, GroupTypes
<1>2. ASSUME NEW g \in Groups, CallJoin(g)
      PROVE  GroupTypes'
  BY <1>2 DEF GroupInv, GroupTypes, CallJoin, InCall
<1>3. ASSUME NEW g \in Groups, JoinWaits(g)
      PROVE  GroupTypes'
  <2>1. PICK i \in Nat : index' = [index EXCEPT ![Owner[g]] = i]
    <3>1. PICK i \in First(Remaining(g)) : index' = [index EXCEPT ![Owner[g]] = i]
      BY <1>3 DEF JoinWaits
    <3>2. i \in 1 .. Len(StacksOf[g])
      BY <3>1 DEF First, Remaining, Unended
    <3>3. Len(StacksOf[g]) \in Nat
      BY GroupAssumption DEF GroupAssumption
    <3>4. i \in Nat
      BY <3>2, <3>3
    <3> QED BY <3>1, <3>4
  <2> QED BY <1>3, <2>1 DEF GroupInv, GroupTypes, JoinWaits
<1>4. ASSUME NEW g \in Groups, JoinReturns(g)
      PROVE  GroupTypes'
  BY <1>4 DEF GroupInv, GroupTypes, JoinReturns, InCall
<1>5. ASSUME NEW p \in Everyone, TaskYields(p) \/ RoundStep(p)
      PROVE  GroupTypes'
  BY <1>5 DEF GroupInv, GroupTypes, TaskYields, RoundStep, groupVars
<1>6. ASSUME NEW f \in Fibres, TaskSucceeds(f) \/ TaskEnds(f)
      PROVE  GroupTypes'
  BY <1>6 DEF GroupInv, GroupTypes, TaskSucceeds, TaskEnds
<1>7. ASSUME NEW f \in Fibres, NEW x \in Reasons[f], TaskFails(f, x)
      PROVE  GroupTypes'
  BY <1>7 DEF GroupInv, GroupTypes, TaskFails, Keeps
<1> QED BY <1>1, <1>2, <1>3, <1>4, <1>5, <1>6, <1>7 DEF GroupNext

(* A task is started on a member.                                          *)
LEMMA OnlyMembersStep ==
  ASSUME GroupInv, GroupNext
  PROVE  OnlyMembers'
<1>1. ASSUME NEW g \in Groups, NEW s \in Members(g), Admits(g, s)
      PROVE  OnlyMembers'
  BY <1>1 DEF Admits, OnlyMembers, GroupInv, Alive, Members
<1>2. ASSUME NEW s, \/ status' = status
                    \/ status' = [status EXCEPT ![s] = 0]
      PROVE  OnlyMembers'
  BY <1>2 DEF OnlyMembers, GroupInv, Alive, Members
<1> QED BY <1>1, <1>2, GroupSees DEF Unseen, Joins, Fails, Leaves

(* While a join is under way its stacks only end.                          *)
LEMMA SeenEndedStep ==
  ASSUME GroupInv, GroupNext
  PROVE  SeenEnded'
<1> USE GroupAssumption DEF GroupAssumption
<1> SUFFICES ASSUME NEW h \in Groups, call'[Owner[h]] = <<"join", h>>
             PROVE  /\ index'[Owner[h]] \in 1 .. Len(StacksOf[h])
                    /\ \A i \in 1 .. Len(StacksOf[h]) :
                         i < index'[Owner[h]] => Ended(h, i)'
  BY DEF SeenEnded
<1> DEFINE Mine == call[Owner[h]] = <<"join", h>> /\ index'[Owner[h]] = index[Owner[h]]
<1>a. /\ Len(StacksOf[h]) \in Nat \ {0}
      /\ \A i \in 1 .. Len(StacksOf[h]) : StacksOf[h][i] \in Members(h)
  BY DEF Members
<1>t. /\ call \in [Everyone -> InCall] /\ index \in [Everyone -> Nat]
      /\ status \in [Everyone -> {0, 1}]
  BY DEF GroupInv, GroupTypes, Alive
<1>0. ASSUME Mine, \A s \in Members(h) : status[s] = 0 => status'[s] = 0
      PROVE  /\ index'[Owner[h]] \in 1 .. Len(StacksOf[h])
             /\ \A i \in 1 .. Len(StacksOf[h]) :
                  i < index'[Owner[h]] => Ended(h, i)'
  BY <1>0, <1>a DEF GroupInv, SeenEnded, Ended
<1>1. ASSUME NEW g \in Groups, AdmitStarts(g)
      PROVE  Mine /\ \A s \in Members(h) : status[s] = 0 => status'[s] = 0
  <2>1. call[Owner[g]] = <<"admit", g>> /\ call' = [call EXCEPT ![Owner[g]] = NoCall]
        /\ index' = index
    BY <1>1 DEF AdmitStarts, Admitting
  <2>2. Owner[h] # Owner[g] /\ Mine
    BY <2>1, <1>t DEF NoCall
  <2>3. PICK i \in 1 .. Len(StacksOf[g]) : status' = [status EXCEPT ![StacksOf[g][i]] = 1]
    BY <1>1 DEF AdmitStarts, First, FreeStack, Start
  <2>4. StacksOf[g][i] \in Members(g) /\ g # h
    BY <2>2 DEF Members
  <2>5. StacksOf[g][i] \notin Members(h)
    BY <2>4, MembersApart
  <2>6. ASSUME NEW s \in Members(h), status[s] = 0
        PROVE  status'[s] = 0
    <3>1. s # StacksOf[g][i]
      BY <2>5, <2>6
    <3>2. s \in Everyone
      BY <2>6 DEF Members, GroupAssumption
    <3> QED BY <1>t, <2>3, <2>6, <3>1, <3>2
  <2> QED BY <2>2, <2>6
<1>2. ASSUME NEW g \in Groups,
             CallAdmit(g) \/ AdmitFails(g) \/ AdmitWaits(g) \/ JoinReturns(g)
      PROVE  Mine /\ status' = status
  <2>1. status' = status
    BY <1>2, StatusStays DEF CallAdmit, AdmitFails, AdmitWaits, JoinReturns, vars
  <2>2. /\ index' = index
        /\ \/ call' = call
           \/ \E c \in {NoCall, <<"admit", g>>} : call' = [call EXCEPT ![Owner[g]] = c]
    BY <1>2 DEF CallAdmit, AdmitFails, AdmitWaits, JoinReturns, groupVars
  <2>3. ASSUME NEW c \in {NoCall, <<"admit", g>>}, call' = [call EXCEPT ![Owner[g]] = c]
        PROVE  call[Owner[h]] = <<"join", h>>
    <3>1. c # <<"join", h>>
      BY DEF NoCall
    <3>2. Owner[h] # Owner[g]
      BY <1>t, <2>3, <3>1
    <3> QED BY <1>t, <2>3, <3>2
  <2> QED BY <2>1, <2>2, <2>3
<1>3. ASSUME NEW g \in Groups, CallJoin(g)
      PROVE  /\ index'[Owner[h]] \in 1 .. Len(StacksOf[h])
             /\ \A i \in 1 .. Len(StacksOf[h]) :
                  i < index'[Owner[h]] => Ended(h, i)'
  <2>1. /\ status' = status /\ call' = [call EXCEPT ![Owner[g]] = <<"join", g>>]
        /\ index' = [index EXCEPT ![Owner[g]] = 1]
    BY <1>3 DEF CallJoin, vars
  <2>2. CASE Owner[h] = Owner[g]
    BY <1>a, <1>t, <2>1, <2>2
  <2>3. CASE Owner[h] # Owner[g]
    BY <1>0, <1>t, <2>1, <2>3
  <2> QED BY <2>2, <2>3
<1>4. ASSUME NEW g \in Groups, JoinWaits(g)
      PROVE  /\ index'[Owner[h]] \in 1 .. Len(StacksOf[h])
             /\ \A i \in 1 .. Len(StacksOf[h]) :
                  i < index'[Owner[h]] => Ended(h, i)'
  <2>1. PICK k \in First(Remaining(g)) : index' = [index EXCEPT ![Owner[g]] = k]
    BY <1>4 DEF JoinWaits
  <2>2. status' = status /\ call' = call /\ call[Owner[g]] = <<"join", g>>
    BY <1>4, StatusStays DEF JoinWaits, Joining
  <2>3. CASE Owner[h] = Owner[g]
    <3>1. h = g /\ index'[Owner[h]] = k
      BY <1>t, <2>1, <2>2, <2>3
    <3>2. k \in 1 .. Len(StacksOf[h]) /\ \A j \in Remaining(h) : k <= j
      BY <2>1, <3>1 DEF First, Remaining, Unended
    <3>3. ASSUME NEW i \in 1 .. Len(StacksOf[h]), i < k
          PROVE  Ended(h, i)
      <4>1. i \notin Remaining(h)
        BY <1>a, <3>2, <3>3
      <4>2. CASE i < index[Owner[h]]
        BY <2>2, <3>1, <4>2 DEF GroupInv, SeenEnded
      <4>3. CASE ~(i < index[Owner[h]])
        BY <1>a, <1>t, <4>1, <4>3 DEF Remaining, Unended
      <4> QED BY <4>2, <4>3
    <3> QED BY <2>2, <3>1, <3>2, <3>3 DEF Ended
  <2>4. CASE Owner[h] # Owner[g]
    BY <1>0, <1>t, <2>1, <2>2, <2>4
  <2> QED BY <2>3, <2>4
<1>5. ASSUME NEW p \in Everyone, TaskYields(p) \/ RoundStep(p)
      PROVE  Mine /\ status' = status
  <2>1. status' = status
    BY <1>5, StatusStays DEF TaskYields
  <2> QED BY <1>5, <2>1 DEF TaskYields, RoundStep, groupVars
<1>6. ASSUME NEW f \in Fibres, TaskSucceeds(f) \/ \E x \in Reasons[f] : TaskFails(f, x)
      PROVE  Mine /\ status' = status
  BY <1>6 DEF TaskSucceeds, TaskFails, vars
<1>7. ASSUME NEW f \in Fibres, TaskEnds(f)
      PROVE  Mine /\ \A s \in Members(h) : status[s] = 0 => status'[s] = 0
  <2>1. status' = [status EXCEPT ![f] = 0] /\ call' = call /\ index' = index
    BY <1>7 DEF TaskEnds, End
  <2> QED BY <1>t, <2>1 DEF Members
<1> QED BY <1>0, <1>1, <1>2, <1>3, <1>4, <1>5, <1>6, <1>7 DEF GroupNext

(* GroupInv holds throughout: nothing outside a join under way can start   *)
(* a task on the stacks the join has found ended.                          *)
LEMMA GroupInvariance == GroupSpec => []GroupInv
<1>1. GroupInv /\ [GroupNext]_wholeVars => GroupInv'
  <2> SUFFICES ASSUME GroupInv, [GroupNext]_wholeVars PROVE GroupInv'
    OBVIOUS
  <2>1. CASE GroupNext
    BY <2>1, AliveStep, GroupIsRound, GroupTypesStep, OnlyMembersStep, SeenEndedStep
    DEF GroupInv
  <2>2. CASE UNCHANGED wholeVars
    BY <2>2 DEF wholeVars, vars, groupVars, GroupInv, Alive, GroupTypes, OnlyMembers,
                SeenEnded, Ended
  <2> QED BY <2>1, <2>2
<1> QED BY <1>1, GroupInvInit, PTL DEF GroupSpec

(* For any groups of any stacks over a round, whatever its table holds at  *)
(* first, the groups implement the abstract group: a task is started only  *)
(* on a stack whose last task has ended, join returns only when no task is *)
(* left, and the first failure is kept and handed on once.                 *)
THEOREM FibreGroupRefinement == GroupSpec => ImplementsGroup
<1> USE GroupAssumption DEF GroupAssumption
<1>1. GroupInit => Abstract!Init
  <2> SUFFICES ASSUME GroupInit PROVE Abstract!Init
    OBVIOUS
  <2>1. \A g \in Groups : Active[g] = {} /\ Doomed[g] = {}
    BY DEF GroupInit, Init, Active, Doomed, Members
  <2>2. Active = [g \in Groups |-> {}] /\ Doomed = [g \in Groups |-> {}]
    BY <2>1 DEF Active, Doomed
  <2> QED BY <2>2 DEF GroupInit, Abstract!Init
<1>2. GroupInv /\ [GroupNext]_wholeVars => [Abstract!Next]_(Abstract!gvars)
  <2> SUFFICES ASSUME GroupInv, [GroupNext]_wholeVars
               PROVE  [Abstract!Next]_(Abstract!gvars)
    OBVIOUS
  <2>0. status \in [Everyone -> {0, 1}]
    BY DEF GroupInv, Alive
  <2>1. CASE Unseen \/ UNCHANGED wholeVars
    BY <2>1 DEF Unseen, wholeVars, vars, groupVars, Active, Doomed, Abstract!gvars
  <2>2. ASSUME NEW g \in Groups, NEW s \in Members(g), Admits(g, s)
        PROVE  Abstract!Next
    <3>1. Active' = [Active EXCEPT ![g] = @ \cup {s}] /\ s \notin Active[g]
      <4>1. \A h \in Groups : Active'[h] = IF h = g THEN Active[h] \cup {s} ELSE Active[h]
        BY <2>0, <2>2, MembersApart DEF Admits, Active, Members
      <4> QED BY <2>2, <4>1 DEF Active, Admits
    <3>2. Doomed' = Doomed
      BY <2>2 DEF Admits, Doomed
    <3> QED BY <2>2, <3>1, <3>2 DEF Admits, Abstract!Next, Abstract!Admit
  <2>3. ASSUME NEW g \in Groups, NEW s \in Members(g), NEW x \in Problems, Fails(g, s, x)
        PROVE  Abstract!Next
    <3>1. Doomed' = [Doomed EXCEPT ![g] = @ \cup {s}]
      <4>1. \A h \in Groups : Doomed'[h] = IF h = g THEN Doomed[h] \cup {s} ELSE Doomed[h]
        BY <2>3, MembersApart DEF Fails, Doomed
      <4> QED BY <4>1 DEF Doomed
    <3>2. Active' = Active /\ s \in Active[g] \ Doomed[g]
      BY <2>3 DEF Fails, Active, Doomed
    <3> QED BY <2>3, <3>1, <3>2 DEF Fails, Abstract!Next, Abstract!Fail
  <2>4. ASSUME NEW g \in Groups, NEW s \in Members(g), Leaves(g, s)
        PROVE  Abstract!Next
    <3>1. Active' = [Active EXCEPT ![g] = @ \ {s}] /\ s \in Active[g]
      <4>1. \A h \in Groups : Active'[h] = IF h = g THEN Active[h] \ {s} ELSE Active[h]
        BY <2>0, <2>4, MembersApart DEF Leaves, Active, Members
      <4> QED BY <2>4, <4>1 DEF Active, Leaves
    <3>2. Doomed' = [Doomed EXCEPT ![g] = @ \ {s}]
      <4>1. \A h \in Groups : Doomed'[h] = IF h = g THEN Doomed[h] \ {s} ELSE Doomed[h]
        BY <2>4, MembersApart DEF Leaves, Doomed
      <4> QED BY <4>1 DEF Doomed
    <3> QED BY <2>4, <3>1, <3>2 DEF Leaves, Abstract!Next, Abstract!End
  <2>5. ASSUME NEW g \in Groups, Joins(g)
        PROVE  Abstract!Next
    <3>1. Active[g] = {} /\ Active' = Active /\ Doomed' = Doomed
      BY <2>5 DEF Joins, Active, Doomed
    <3> QED BY <2>5, <3>1 DEF Joins, Abstract!Next, Abstract!Join
  <2> QED BY <2>1, <2>2, <2>3, <2>4, <2>5, GroupSees
<1> QED BY <1>1, <1>2, GroupInvariance, PTL DEF GroupSpec, ImplementsGroup, Abstract!Spec

(* A round that groups run on is a round, so all that is proved of Round   *)
(* holds of it.                                                            *)
THEOREM GroupsKeepRound == GroupSpec => Spec
<1>1. GroupInit => Init
  BY DEF GroupInit
<1> QED BY <1>1, GroupIsRound, PTL DEF GroupSpec, Spec

(* The groups' types, and the round's over a table that is empty at first: *)
(* in particular the index of a join stays on a stack of its group.        *)
THEOREM GroupTypesKept == TableWas = {NoFibre} /\ GroupSpec => []GroupTypeOK
<1>1. IInv /\ GroupInv => GroupTypeOK
  BY DEF IInv, GroupInv, GroupTypes, SeenEnded, GroupTypeOK
<1> QED BY <1>1, GroupsKeepRound, Invariance, GroupInvariance, PTL
=============================================================================
