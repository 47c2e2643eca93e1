------------------------------- MODULE Round -------------------------------
(***************************************************************************)
(* The round of core/fibre/stacks: fibres that take turns on one core.     *)
(* Entry 0 of the caller's table is the stack the round was made on, Home, *)
(* and the others are the records of the fibres it was given.              *)
(*                                                                         *)
(* Exactly one process, running, executes at a time, so an action is what  *)
(* it does up to its next call of the idler, its next switch of stacks or  *)
(* its next return to the code that called the round.  What a suspended    *)
(* process keeps on its stack is its place in the code, pc, and the local  *)
(* `was` of its round_yield; a local out of scope has its first value      *)
(* again.  The counter `ended` is only ever compared with an earlier value *)
(* of itself, `before` in round_wait, so the model keeps for each process  *)
(* whether the two differ.                                                 *)
(***************************************************************************)
EXTENDS Integers, FiniteSets

CONSTANTS
  Fibres,     \* the records fibres are started on
  Home,       \* the record of the stack the round was made on
  NoFibre,    \* an entry that holds no record, 0 in the code
  Capacity,   \* lenof entries
  TableWas    \* what the caller's table may hold when the round is made

Everyone == Fibres \cup {Home}

ASSUME RoundAssumption ==
  /\ IsFiniteSet(Fibres)
  /\ Home \notin Fibres
  /\ NoFibre \notin Everyone
  /\ Capacity \in Nat /\ Capacity >= 2
  /\ TableWas \subseteq Fibres \cup {NoFibre}

VARIABLES
  entries,    \* the caller's table
  count,      \* how many of its entries are in use
  current,    \* which entry runs
  quiet,      \* yields since anything started or ended
  status,     \* each record's status: 0 once its task has ended
  running,    \* the process whose stack the core is on
  pc,         \* where each process is
  was,        \* the entry each process had when it last switched away
  waiting,    \* whether a process's round_yield is round_wait's
  since       \* whether `ended` differs from the `before` of round_wait

vars == <<entries, count, current, quiet, status, running, pc, was,
          waiting, since>>

(***************************************************************************)
(* ended  has no task, or its task has run to its end                      *)
(* new    prepared, and not yet run                                        *)
(* body   in its own code                                                  *)
(* idle   in round_yield, calling the idler                                *)
(* turn   in round_yield, about to look for the next entry                 *)
(* away   in round_yield's switch                                          *)
(* look   in round_wait, its round_yield having returned                   *)
(***************************************************************************)
Places == {"ended", "new", "body", "idle", "turn", "away", "look"}

Goes(p, place) == pc' = [pc EXCEPT ![p] = place]

(* round_over, on a table with room for Home and one fibre at least.       *)
Init ==
  /\ entries \in [0 .. Capacity - 1 -> TableWas \cup {Home}]
  /\ entries[0] = Home
  /\ \A i \in 1 .. Capacity - 1 : entries[i] \in TableWas
  /\ count = 1
  /\ current = 0
  /\ quiet = 0
  /\ status = [p \in Everyone |-> IF p = Home THEN 1 ELSE 0]
  /\ running = Home
  /\ pc = [p \in Everyone |-> IF p = Home THEN "body" ELSE "ended"]
  /\ was = [p \in Everyone |-> 0]
  /\ waiting = [p \in Everyone |-> FALSE]
  /\ since = [p \in Everyone |-> FALSE]

-----------------------------------------------------------------------------
(* sweep: what it leaves in the table, how many entries it finds live,     *)
(* and what becomes of `quiet` and of the comparisons with `ended`.        *)

Emptied == {i \in 1 .. count - 1 :
              entries[i] # NoFibre /\ status[entries[i]] = 0}
Swept   == [i \in 0 .. Capacity - 1 |->
              IF i \in Emptied THEN NoFibre ELSE entries[i]]
Live    == 1 + Cardinality({i \in 1 .. count - 1 : Swept[i] # NoFibre})

(* An end that does not count as news: the round may go idle before those  *)
(* who wait for it have had a turn.                                        *)
Bug_Counted == quiet

Counted == IF Emptied = {} THEN quiet ELSE 0

(* A sweep whose count of ended fibres only its caller sees.               *)
Bug_Noticed == since

Noticed == [p \in Everyone |-> waiting[p] /\ (since[p] \/ Emptied # {})]

-----------------------------------------------------------------------------
(* round_start.  The caller gives it a record whose task has ended.        *)

FreeEntries == {i \in 1 .. count - 1 : Swept[i] = NoFibre}

HasRoom == FreeEntries # {} \/ count < Capacity

(* An entry beyond those in use, taken without counting it.                *)
Bug_Counting == count

Counting == IF FreeEntries = {} THEN count + 1 ELSE count

(* The first free entry, or else the one after those in use.               *)
StartsAt(i) ==
  \/ FreeEntries = {} /\ i = count
  \/ i \in FreeEntries /\ \A j \in FreeEntries : i <= j

InBody(p) == running = p /\ pc[p] = "body"

Start(p, r) ==
  /\ InBody(p)
  /\ status[r] = 0
  /\ \E i \in 1 .. Capacity - 1 :
       StartsAt(i) /\ entries' = [Swept EXCEPT ![i] = r]
  /\ count' = Counting
  /\ status' = [status EXCEPT ![r] = 1]
  /\ Goes(r, "new")
  /\ quiet' = 0
  /\ since' = Noticed
  /\ UNCHANGED <<current, running, was, waiting>>

(* `prepare` refuses a stack smaller than its least, after the count.      *)
StartTooSmall(p) ==
  /\ InBody(p)
  /\ HasRoom
  /\ entries' = Swept
  /\ count' = Counting
  /\ quiet' = Counted
  /\ since' = Noticed
  /\ UNCHANGED <<current, status, running, pc, was, waiting>>

(* A full table.                                                           *)
StartFull(p) ==
  /\ InBody(p)
  /\ ~HasRoom
  /\ entries' = Swept
  /\ quiet' = Counted
  /\ since' = Noticed
  /\ UNCHANGED <<count, current, status, running, pc, was, waiting>>

-----------------------------------------------------------------------------
(* round_yield.                                                            *)

(* A yield that goes on counting after it has called the idler.            *)
Bug_Yielding(p) ==
  /\ entries' = Swept
  /\ quiet' = Counted + 1
  /\ Goes(p, IF Counted + 1 >= Live THEN "idle" ELSE "turn")

(* Its sweep and its count, up to the idler or to the search.              *)
Yielding(p) ==
  /\ entries' = Swept
  /\ \/ /\ Counted + 1 >= Live
        /\ quiet' = 0
        /\ Goes(p, "idle")
     \/ /\ Counted + 1 < Live
        /\ quiet' = Counted + 1
        /\ Goes(p, "turn")

Yield(p) ==
  /\ InBody(p)
  /\ Yielding(p)
  /\ since' = Noticed
  /\ UNCHANGED <<count, current, status, running, was, waiting>>

(* The idler's call has come back.                                         *)
Idled(p) ==
  /\ running = p
  /\ pc[p] = "idle"
  /\ Goes(p, "turn")
  /\ UNCHANGED <<entries, count, current, quiet, status, running, was,
                 waiting, since>>

(* The search: the first entry after this one whose fibre has not ended,   *)
(* or else entry 0.                                                        *)
Later == {i \in current + 1 .. count - 1 :
            entries[i] # NoFibre /\ status[entries[i]] # 0}

(* A search that always begins at the table's first fibre.                 *)
Bug_TurnsTo(i) ==
  LET able == {j \in 1 .. count - 1 :
                 j # current /\ entries[j] # NoFibre
                   /\ status[entries[j]] # 0}
  IN  \/ able = {} /\ i = 0
      \/ i \in able /\ \A j \in able : i <= j

TurnsTo(i) == \/ Later = {} /\ i = 0
              \/ i \in Later /\ \A j \in Later : i <= j

Returned(p) == IF waiting[p] THEN "look" ELSE "body"

(* Nobody else to run: round_yield returns.                                *)
KeepTurn(p) ==
  /\ running = p
  /\ pc[p] = "turn"
  /\ TurnsTo(current)
  /\ Goes(p, Returned(p))
  /\ UNCHANGED <<entries, count, current, quiet, status, running, was,
                 waiting, since>>

(* The switch.  A fibre that has not run begins its task there.            *)
Turn(p) ==
  /\ running = p
  /\ pc[p] = "turn"
  /\ \E i \in 0 .. count - 1 :
       /\ TurnsTo(i) /\ i # current
       /\ current' = i
       /\ running' = entries[i]
       /\ pc' = [pc EXCEPT ![p] = "away",
                           ![entries[i]] = IF @ = "new" THEN "body" ELSE @]
  /\ was' = [was EXCEPT ![p] = current]
  /\ UNCHANGED <<entries, count, quiet, status, waiting, since>>

(* A resumed process that leaves `current` as it finds it.                 *)
Bug_Resume(p) ==
  /\ running = p
  /\ pc[p] = "away"
  /\ Goes(p, Returned(p))
  /\ UNCHANGED <<entries, count, current, quiet, status, running, was,
                 waiting, since>>

(* After the switch: whoever switched back, this entry runs again.         *)
Resume(p) ==
  /\ running = p
  /\ pc[p] = "away"
  /\ current' = was[p]
  /\ was' = [was EXCEPT ![p] = 0]
  /\ Goes(p, Returned(p))
  /\ UNCHANGED <<entries, count, quiet, status, running, waiting, since>>

-----------------------------------------------------------------------------
(* round_wait.                                                             *)

Others == IF current # 0 THEN Live - 2 ELSE Live - 1

(* Nobody to wait for.                                                     *)
WaitForNobody(p) ==
  /\ InBody(p)
  /\ Others = 0
  /\ entries' = Swept
  /\ quiet' = Counted
  /\ since' = Noticed
  /\ UNCHANGED <<count, current, status, running, pc, was, waiting>>

(* The first yield of a wait.                                              *)
Wait(p) ==
  /\ InBody(p)
  /\ Others # 0
  /\ Yielding(p)
  /\ since' = [Noticed EXCEPT ![p] = FALSE]
  /\ waiting' = [waiting EXCEPT ![p] = TRUE]
  /\ UNCHANGED <<count, current, status, running, was>>

(* A wait that is over after one yield.                                    *)
Bug_WaitDone(p) == TRUE

WaitDone(p) == since[p] \/ Emptied # {} \/ Others = 0

(* The yield returned, and the count of ended fibres has moved.            *)
WaitReturns(p) ==
  /\ running = p
  /\ pc[p] = "look"
  /\ WaitDone(p)
  /\ entries' = Swept
  /\ quiet' = Counted
  /\ since' = [Noticed EXCEPT ![p] = FALSE]
  /\ waiting' = [waiting EXCEPT ![p] = FALSE]
  /\ Goes(p, "body")
  /\ UNCHANGED <<count, current, status, running, was>>

(* It has not: another yield.                                              *)
WaitOn(p) ==
  /\ running = p
  /\ pc[p] = "look"
  /\ ~WaitDone(p)
  /\ Yielding(p)
  /\ since' = [Noticed EXCEPT ![p] = FALSE]
  /\ UNCHANGED <<count, current, status, running, was, waiting>>

-----------------------------------------------------------------------------
(* A first frame that ends without marking its record.                     *)
Bug_End(f) ==
  /\ InBody(f)
  /\ Goes(f, "ended")
  /\ running' = Home
  /\ UNCHANGED <<entries, count, current, quiet, status, was, waiting,
                 since>>

(* first_frame, once the task has run: the record is marked and the stack  *)
(* the round was made on is resumed, whoever's turn is next.               *)
End(f) ==
  /\ InBody(f)
  /\ status' = [status EXCEPT ![f] = 0]
  /\ Goes(f, "ended")
  /\ running' = Home
  /\ UNCHANGED <<entries, count, current, quiet, was, waiting, since>>

Next ==
  \/ \E p \in Everyone :
       \/ \E r \in Fibres : Start(p, r)
       \/ StartTooSmall(p)
       \/ StartFull(p)
       \/ Yield(p)
       \/ Idled(p)
       \/ KeepTurn(p)
       \/ Turn(p)
       \/ Resume(p)
       \/ WaitForNobody(p)
       \/ Wait(p)
       \/ WaitReturns(p)
       \/ WaitOn(p)
  \/ \E f \in Fibres : End(f)

Spec == Init /\ [][Next]_vars

-----------------------------------------------------------------------------
(* The count never passes the table, which the caller sized, and `current` *)
(* and `was` stay within it.                                               *)
TypeOK ==
  /\ entries \in [0 .. Capacity - 1 -> Everyone \cup {NoFibre}]
  /\ count \in 1 .. Capacity
  /\ current \in 0 .. count - 1
  /\ quiet \in Nat
  /\ status \in [Everyone -> {0, 1}]
  /\ running \in Everyone
  /\ pc \in [Everyone -> Places]
  /\ was \in [Everyone -> 0 .. Capacity - 1]
  /\ waiting \in [Everyone -> BOOLEAN]
  /\ since \in [Everyone -> BOOLEAN]

Unfinished == {p \in Everyone : status[p] # 0}

(* The entries the round looks at that hold this record.                   *)
EntryOf(p) == {i \in 0 .. count - 1 : entries[i] = p}

(* Every unfinished process, and no process twice, has an entry the round  *)
(* looks at, so that its turn comes: what start, sweep and the reuse of    *)
(* emptied entries preserve between them.                                  *)
NobodyLost ==
  /\ \A p \in Unfinished : EntryOf(p) # {}
  /\ \A i, j \in 0 .. count - 1 :
       entries[i] = entries[j] /\ entries[i] # NoFibre => i = j

(* `current` names the entry whose stack the core is on whenever the       *)
(* round's code reads it, although a fibre that ends resumes Home without  *)
(* writing it.                                                             *)
CurrentRuns == pc[running] # "away" => entries[current] = running

(* A fibre only ever ends into a Home that is suspended in its own         *)
(* round_yield, and a switch only ever resumes a stack that was left by a  *)
(* switch or has not run: `prepare`'s demand that the provider keep        *)
(* `after` unfinished, and first_frame's "Nothing resumes it again".       *)
OnlySuspendedResumed ==
  /\ running \in Unfinished /\ pc[running] # "new"
  /\ \A p \in Unfinished \ {running} : pc[p] \in {"new", "away"}
  /\ pc[Home] # "new"
=============================================================================
