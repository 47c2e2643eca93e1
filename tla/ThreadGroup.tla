---------------------------- MODULE ThreadGroup ----------------------------
(***************************************************************************)
(* A group of hosted/thread: the process that made it, the owner, starts   *)
(* a thread for each task on one of the group's stacks and joins them,     *)
(* over platform/posix's start_thread and join_thread.                     *)
(*                                                                         *)
(* A thread's action is one access to what it shares with the owner and    *)
(* the other threads: the ledger's claim, problem and failed, its record's *)
(* `ended`, and the word the system clears when it ends.  The owner's      *)
(* `running`, `order` and `admitted` are its own, so an action of the      *)
(* owner goes on to the next read of `ended`, join or start of a thread.   *)
(***************************************************************************)
EXTENDS Integers

CONSTANTS
  N,          \* how many stacks the group has
  Problems,   \* the reasons a task may fail for
  NoProblem,  \* no failure
  MaxTasks    \* a bound on the tasks admitted

ASSUME ThreadGroupAssumption ==
  /\ N \in Nat \ {0}
  /\ NoProblem \notin Problems
  /\ MaxTasks \in Nat

Stacks == 1 .. N

VARIABLES
  owner,      \* where the owner is
  joining,    \* whether its finish is join's, not free_stack's
  at,         \* its local `index`
  oldest,     \* free_stack's local
  running,    \* slot.running: a thread was started and not yet joined
  order,      \* slot.order
  admitted,   \* ledger.admitted
  ended,      \* slot.ended
  claimed,    \* ledger.claimed
  failed,     \* ledger.failed
  problem,    \* ledger.problem
  started,    \* hosted/thread/lock's: a thread was ever started
  thread,     \* where each stack's thread is
  why,        \* the failure of each stack's task
  word,       \* the word the system clears when the thread ends
  handed      \* what the last join failed with

ownerVars  == <<owner, joining, at, oldest, running, order, admitted, started,
                handed>>
threadVars == <<thread, why, word>>
ledgerVars == <<claimed, failed, problem>>
vars == <<ownerVars, threadVars, ledgerVars, ended>>

(***************************************************************************)
(* body    in its own code                                                 *)
(* scan    in free_stack, about to read the `ended` of stack `at`          *)
(* finish  in join_thread for stack `at`                                   *)
(* start   in admit, with stack `at`                                       *)
(* create  in admit, about to start a thread on stack `at`                 *)
(* join    in join, about to look at stack `at`                            *)
(***************************************************************************)
OwnerPlaces == {"body", "scan", "finish", "start", "create", "join"}

(***************************************************************************)
(* none    no thread                                                       *)
(* task    in the task                                                     *)
(* claim   the task has failed: about to claim the ledger                  *)
(* write   has the claim: about to write the problem                       *)
(* mark    about to write `failed`                                         *)
(* return  launch_run has returned: about to switch back and store `ended` *)
(* exit    about to end, on the area at the top of its stack               *)
(***************************************************************************)
ThreadPlaces == {"none", "task", "claim", "write", "mark", "return", "exit"}

(* group_over.                                                             *)
Init ==
  /\ owner = "body" /\ joining = FALSE /\ at = 1 /\ oldest = 1
  /\ running = [s \in Stacks |-> 0]
  /\ order = [s \in Stacks |-> 0]
  /\ admitted = 0
  /\ ended = [s \in Stacks |-> 0]
  /\ claimed = 0 /\ failed = FALSE /\ problem = NoProblem
  /\ started \in {0, 1}
  /\ thread = [s \in Stacks |-> "none"]
  /\ why = [s \in Stacks |-> NoProblem]
  /\ word = [s \in Stacks |-> 0]
  /\ handed = NoProblem

-----------------------------------------------------------------------------
(* admit, free_stack: a stack no thread was started on, if there is one.   *)

Free == {s \in Stacks : running[s] = 0}

(* What a loop over the stacks that stops at the first of these finds.     *)
IsFirst(s, S) == s \in S /\ \A t \in S : s <= t

Admit ==
  /\ owner = "body"
  /\ joining' = FALSE
  /\ \/ /\ \E s \in Free : IsFirst(s, Free) /\ at' = s
        /\ owner' = "start"
        /\ UNCHANGED oldest
     \/ /\ Free = {}
        /\ at' = 1
        /\ oldest' = 1
        /\ owner' = "scan"
  /\ UNCHANGED <<running, order, admitted, started, handed, threadVars,
                 ledgerVars, ended>>

(* Its second loop finds a task that has ended.                            *)
ScanEnded ==
  /\ owner = "scan"
  /\ ended[at] # 0
  /\ owner' = "finish"
  /\ UNCHANGED <<joining, at, oldest, running, order, admitted, started,
                 handed, threadVars, ledgerVars, ended>>

Older == IF order[at] < order[oldest] THEN at ELSE oldest

(* It goes on, and after the last stack settles for the oldest task.       *)
ScanNext ==
  /\ owner = "scan"
  /\ ended[at] = 0
  /\ oldest' = Older
  /\ \/ at < N /\ at' = at + 1 /\ UNCHANGED owner
     \/ at = N /\ at' = Older /\ owner' = "finish"
  /\ UNCHANGED <<joining, running, order, admitted, started, handed,
                 threadVars, ledgerVars, ended>>

(* A join of the thread that only looks at whether its task has ended.     *)
Bug_Joined(s) == ended[s] # 0

(* join_thread: the system has cleared the word.                           *)
Joined(s) == word[s] = 0

(* finish, for free_stack and for join.                                    *)
Finish ==
  /\ owner = "finish"
  /\ Joined(at)
  /\ running' = [running EXCEPT ![at] = 0]
  /\ owner' = IF joining THEN "join" ELSE "start"
  /\ UNCHANGED <<joining, at, oldest, order, admitted, started, handed,
                 threadVars, ledgerVars, ended>>

(* The state leaves the stack too little room: admit fails.                *)
AdmitTooLarge ==
  /\ owner = "start"
  /\ owner' = "body"
  /\ UNCHANGED <<joining, at, oldest, running, order, admitted, started,
                 handed, threadVars, ledgerVars, ended>>

(* hosted/thread/lock's note_start.                                        *)
NoteStart == started' = 1

(* The task is laid out on its stack, the record filled and the start      *)
(* noted, all of it before the system is asked for a thread.               *)
LayOut ==
  /\ owner = "start"
  /\ ended' = [ended EXCEPT ![at] = 0]
  /\ NoteStart
  /\ owner' = "create"
  /\ UNCHANGED <<joining, at, oldest, running, order, admitted, handed,
                 threadVars, ledgerVars>>

(* The system starts the thread, and the owner remembers it.               *)
Start ==
  /\ owner = "create"
  /\ admitted < MaxTasks
  /\ thread' = [thread EXCEPT ![at] = "task"]
  /\ word' = [word EXCEPT ![at] = 1]
  /\ admitted' = admitted + 1
  /\ order' = [order EXCEPT ![at] = admitted + 1]
  /\ running' = [running EXCEPT ![at] = 1]
  /\ owner' = "body"
  /\ UNCHANGED <<joining, at, oldest, started, handed, why, ledgerVars, ended>>

(* The system refuses the thread: the stack stays free.                    *)
StartRefused ==
  /\ owner = "create"
  /\ owner' = "body"
  /\ UNCHANGED <<joining, at, oldest, running, order, admitted, started,
                 handed, threadVars, ledgerVars, ended>>

-----------------------------------------------------------------------------
(* join.                                                                   *)

CallJoin ==
  /\ owner = "body"
  /\ owner' = "join"
  /\ joining' = TRUE
  /\ at' = 1
  /\ UNCHANGED <<oldest, running, order, admitted, started, handed,
                 threadVars, ledgerVars, ended>>

(* The stacks from `at` on that a thread was started on.                   *)
Remaining == {s \in Stacks : s >= at /\ running[s] # 0}

JoinNext ==
  /\ owner = "join"
  /\ \E s \in Remaining : IsFirst(s, Remaining) /\ at' = s
  /\ owner' = "finish"
  /\ UNCHANGED <<joining, oldest, running, order, admitted, started, handed,
                 threadVars, ledgerVars, ended>>

(* A claim that is not given back with the failure it was for.             *)
Bug_Reclaimed == claimed

Reclaimed == IF failed THEN 0 ELSE claimed

(* Every thread is joined: a kept failure is handed on and its claim given *)
(* back.                                                                   *)
JoinReturns ==
  /\ owner = "join"
  /\ Remaining = {}
  /\ handed' = IF failed THEN problem ELSE NoProblem
  /\ failed' = FALSE
  /\ claimed' = Reclaimed
  /\ owner' = "body"
  /\ UNCHANGED <<joining, at, oldest, running, order, admitted, started,
                 threadVars, problem, ended>>

-----------------------------------------------------------------------------
(* The threads.                                                            *)

Goes(s, place) == thread' = [thread EXCEPT ![s] = place]

TaskSucceeds(s) ==
  /\ thread[s] = "task"
  /\ Goes(s, "return")
  /\ UNCHANGED <<ownerVars, why, word, ledgerVars, ended>>

TaskFails(s, x) ==
  /\ thread[s] = "task"
  /\ why' = [why EXCEPT ![s] = x]
  /\ Goes(s, "claim")
  /\ UNCHANGED <<ownerVars, word, ledgerVars, ended>>

(* A claim that is looked at and taken in two steps.                       *)
Bug_Claim(s) ==
  /\ thread[s] = "claim"
  /\ Goes(s, IF failed THEN "return" ELSE "write")
  /\ claimed' = 1
  /\ UNCHANGED <<ownerVars, why, word, failed, problem, ended>>

(* launch_run's compare_exchange of the claim: the first failure has it.   *)
Claim(s) ==
  /\ thread[s] = "claim"
  /\ Goes(s, IF claimed = 0 THEN "write" ELSE "return")
  /\ claimed' = 1
  /\ UNCHANGED <<ownerVars, why, word, failed, problem, ended>>

WriteProblem(s) ==
  /\ thread[s] = "write"
  /\ problem' = why[s]
  /\ Goes(s, "mark")
  /\ UNCHANGED <<ownerVars, why, word, claimed, failed, ended>>

MarkFailed(s) ==
  /\ thread[s] = "mark"
  /\ failed' = TRUE
  /\ Goes(s, "return")
  /\ UNCHANGED <<ownerVars, why, word, claimed, problem, ended>>

(* begin_thread, back on its area: the store of `ended`.                   *)
StoreEnded(s) ==
  /\ thread[s] = "return"
  /\ ended' = [ended EXCEPT ![s] = 1]
  /\ Goes(s, "exit")
  /\ UNCHANGED <<ownerVars, why, word, ledgerVars>>

(* A thread that never ends.                                               *)
Bug_Exit(s) ==
  /\ thread[s] = "exit"
  /\ UNCHANGED vars

(* The thread ends and the system clears its word.                         *)
Exit(s) ==
  /\ thread[s] = "exit"
  /\ word' = [word EXCEPT ![s] = 0]
  /\ why' = [why EXCEPT ![s] = NoProblem]
  /\ Goes(s, "none")
  /\ UNCHANGED <<ownerVars, ledgerVars, ended>>

OwnerStep ==
  \/ ScanEnded
  \/ ScanNext
  \/ Finish
  \/ AdmitTooLarge
  \/ LayOut
  \/ Start
  \/ StartRefused
  \/ JoinNext
  \/ JoinReturns

ThreadStep(s) ==
  \/ TaskSucceeds(s)
  \/ \E x \in Problems : TaskFails(s, x)
  \/ Claim(s)
  \/ WriteProblem(s)
  \/ MarkFailed(s)
  \/ StoreEnded(s)
  \/ Exit(s)

Next ==
  \/ Admit
  \/ CallJoin
  \/ OwnerStep
  \/ \E s \in Stacks : ThreadStep(s)

(***************************************************************************)
(* The system runs the owner and every thread, and every task ends.  The   *)
(* owner's code between two calls may do as it likes.                      *)
(***************************************************************************)
Fairness == WF_vars(OwnerStep) /\ \A s \in Stacks : WF_vars(ThreadStep(s))

Spec     == Init /\ [][Next]_vars
FairSpec == Spec /\ Fairness

-----------------------------------------------------------------------------
(* The owner's locals stay on a stack of the group through both loops of   *)
(* free_stack, and the cells keep their types.                             *)
TypeOK ==
  /\ owner \in OwnerPlaces
  /\ joining \in BOOLEAN
  /\ at \in Stacks /\ oldest \in Stacks
  /\ running \in [Stacks -> {0, 1}]
  /\ order \in [Stacks -> Nat]
  /\ admitted \in Nat
  /\ ended \in [Stacks -> {0, 1}]
  /\ claimed \in {0, 1}
  /\ failed \in BOOLEAN
  /\ problem \in Problems \cup {NoProblem}
  /\ started \in {0, 1}
  /\ thread \in [Stacks -> ThreadPlaces]
  /\ why \in [Stacks -> Problems \cup {NoProblem}]
  /\ word \in [Stacks -> {0, 1}]
  /\ handed \in Problems \cup {NoProblem}

(* From when admit lays a task out on a stack until its thread is started  *)
(* no thread runs there, not even one that has stored `ended` and is still *)
(* on the area at the stack's top; a thread the owner has not joined is    *)
(* one it remembers.                                                       *)
StackFree ==
  /\ owner \in {"start", "create"} => thread[at] = "none"
  /\ \A s \in Stacks : thread[s] # "none" => running[s] = 1

(* launch_run's comment: "only it writes the failure", and "The failure is *)
(* read only after `join` has waited for every thread".                    *)
LedgerUnraced ==
  /\ \A s, t \in Stacks : thread[s] \in {"write", "mark"}
                            /\ thread[t] \in {"write", "mark"} => s = t
  /\ owner = "join" /\ Remaining = {} => \A s \in Stacks : thread[s] = "none"

(* note_start is before the thread it is for, not after: the heap and the  *)
(* host, which lock only once a thread was started, never run unlocked     *)
(* beside one, not even beside the first one's first action.               *)
StartNoted == (\E s \in Stacks : thread[s] # "none") => started = 1

(* The failure the group keeps: the one whose thread has the claim, from   *)
(* the moment it has it.                                                   *)
Writers == {s \in Stacks : thread[s] \in {"write", "mark"}}
Kept == IF Writers # {} THEN why[CHOOSE s \in Writers : TRUE]
        ELSE IF failed THEN problem ELSE NoProblem

(* The tasks that have failed and put in their claim.                      *)
Doomed == {s \in Stacks : why[s] # NoProblem /\ thread[s] # "claim"}

Abstract == INSTANCE AbstractGroup
  WITH Groups <- {"g"},
       Stacks <- [g \in {"g"} |-> Stacks],
       active <- [g \in {"g"} |-> {s \in Stacks : thread[s] # "none"}],
       doomed <- [g \in {"g"} |-> Doomed],
       kept <- [g \in {"g"} |-> Kept],
       handed <- [g \in {"g"} |-> handed]

(* A group over threads implements the same abstract group as one over     *)
(* fibres: the order of the claims is the order of the failures, whatever  *)
(* the order of the writes, and no failure is handed on twice or lost.     *)
ImplementsGroup == Abstract!Spec

(* admit and join return once the tasks they wait for have ended.          *)
CallsReturn == owner # "body" ~> owner = "body"
=============================================================================
