----------------------------- MODULE FibreGroup -----------------------------
(***************************************************************************)
(* The groups of core/fibre over one provider of turns, the round of       *)
(* core/fibre/stacks.  A group's stacks are records the round runs; the    *)
(* process that made a group admits tasks to it and joins it, and a task   *)
(* of one group may make a group of its own over the same round.           *)
(*                                                                         *)
(* An action is an action of Round together with what the group's code     *)
(* around it does.                                                         *)
(***************************************************************************)
EXTENDS Round, Sequences

CONSTANTS
  Groups,       \* the groups
  StacksOf,     \* StacksOf[g]: the records of g's stacks, in their order
  Owner,        \* Owner[g]: the process that made g
  Problems,     \* the reasons a task may fail for
  Reasons,      \* of these, the reasons of the tasks on each stack
  NoProblem     \* a ledger that keeps no failure

Members(g) == {StacksOf[g][i] : i \in 1 .. Len(StacksOf[g])}

ASSUME GroupAssumption ==
  /\ StacksOf \in [Groups -> Seq(Fibres)]
  /\ Owner \in [Groups -> Everyone]
  /\ \A g \in Groups : Members(g) # {} /\ Owner[g] \notin Members(g)
  /\ \A g, h \in Groups : g # h => Members(g) \cap Members(h) = {}
  /\ NoProblem \notin Problems
  /\ Reasons \in [Fibres -> SUBSET Problems]

VARIABLES
  ledger,       \* ledger[g]: the failure its tasks have left
  handed,       \* handed[g]: what g's last join failed with
  call,         \* the call on a group each process is in
  index,        \* the local of join: the stacks before it have been seen ended
  returned,     \* the fibres whose task's routine has returned
  failing       \* those of them whose routine failed

groupVars == <<ledger, handed, call, index, returned, failing>>
wholeVars == <<vars, groupVars>>

NoCall == <<"none">>
InCall == {NoCall} \cup {"admit", "join"} \X Groups

Ended(g, i)  == status[StacksOf[g][i]] = 0
Unended(g)   == {i \in 1 .. Len(StacksOf[g]) : ~Ended(g, i)}
FreeStack(g) == 1 .. Len(StacksOf[g]) \ Unended(g)

(* Where a search that goes up through these indices stops.                *)
First(S) == {i \in S : \A j \in S : i <= j}

(* The code of a process is between two calls of the library.              *)
AtWork(p) == InBody(p) /\ call[p] = NoCall /\ p \notin returned

(* cut: the ledger and the records of every group are laid out.            *)
GroupInit ==
  /\ Init
  /\ ledger = [g \in Groups |-> NoProblem]
  /\ handed = [g \in Groups |-> NoProblem]
  /\ call = [p \in Everyone |-> NoCall]
  /\ index = [p \in Everyone |-> 1]
  /\ returned = {}
  /\ failing = {}

-----------------------------------------------------------------------------
(* admit.                                                                  *)

CallAdmit(g) ==
  /\ AtWork(Owner[g])
  /\ call' = [call EXCEPT ![Owner[g]] = <<"admit", g>>]
  /\ UNCHANGED <<vars, ledger, handed, index, returned, failing>>

Admitting(g) == InBody(Owner[g]) /\ call[Owner[g]] = <<"admit", g>>

(* free_stack's search ends at the first stack whose task has ended, and   *)
(* the new task is started on it.                                          *)
AdmitStarts(g) ==
  /\ Admitting(g)
  /\ \E i \in First(FreeStack(g)) : Start(Owner[g], StacksOf[g][i])
  /\ call' = [call EXCEPT ![Owner[g]] = NoCall]
  /\ UNCHANGED <<ledger, handed, index, returned, failing>>

(* A stack is free and admit fails out_of_memory: the state is too large   *)
(* for it, or the provider refuses to start.                               *)
AdmitFails(g) ==
  /\ Admitting(g)
  /\ FreeStack(g) # {}
  /\ \/ UNCHANGED vars
     \/ StartTooSmall(Owner[g])
     \/ StartFull(Owner[g])
  /\ call' = [call EXCEPT ![Owner[g]] = NoCall]
  /\ UNCHANGED <<ledger, handed, index, returned, failing>>

(* No stack is free: free_stack waits and looks again.                     *)
AdmitWaits(g) ==
  /\ Admitting(g)
  /\ FreeStack(g) = {}
  /\ Wait(Owner[g]) \/ WaitForNobody(Owner[g])
  /\ UNCHANGED groupVars

-----------------------------------------------------------------------------
(* join.                                                                   *)

CallJoin(g) ==
  /\ AtWork(Owner[g])
  /\ call' = [call EXCEPT ![Owner[g]] = <<"join", g>>]
  /\ index' = [index EXCEPT ![Owner[g]] = 1]
  /\ UNCHANGED <<vars, ledger, handed, returned, failing>>

Joining(g) == InBody(Owner[g]) /\ call[Owner[g]] = <<"join", g>>

(* The stacks from `index` on whose tasks join still finds unended.        *)
Remaining(g) == {i \in Unended(g) : i >= index[Owner[g]]}

(* The while of join goes past the ended stacks and waits at the next.     *)
JoinWaits(g) ==
  /\ Joining(g)
  /\ \E i \in First(Remaining(g)) : index' = [index EXCEPT ![Owner[g]] = i]
  /\ Wait(Owner[g]) \/ WaitForNobody(Owner[g])
  /\ UNCHANGED <<ledger, handed, call, returned, failing>>

(* Every stack has been seen ended: the kept failure is handed on, once.   *)
JoinReturns(g) ==
  /\ Joining(g)
  /\ Remaining(g) = {}
  /\ handed' = [handed EXCEPT ![g] = ledger[g]]
  /\ ledger' = [ledger EXCEPT ![g] = NoProblem]
  /\ call' = [call EXCEPT ![Owner[g]] = NoCall]
  /\ UNCHANGED <<vars, index, returned, failing>>

-----------------------------------------------------------------------------
(* Tasks.  A routine that makes a group joins it before it returns, which  *)
(* is its part of the contract; a group made again starts as cut leaves it.*)

Settled(f) == \A g \in Groups :
                Owner[g] = f => Unended(g) = {} /\ ledger[g] = NoProblem

GroupOf(f) == CHOOSE g \in Groups : f \in Members(g)

TaskYields(p) ==
  /\ AtWork(p)
  /\ Yield(p)
  /\ UNCHANGED groupVars

TaskSucceeds(f) ==
  /\ AtWork(f)
  /\ Settled(f)
  /\ returned' = returned \cup {f}
  /\ UNCHANGED <<vars, ledger, handed, call, index, failing>>

(* A ledger in which a later failure replaces the first.                   *)
Bug_Keeps(g, x) == x

Keeps(g, x) == IF ledger[g] = NoProblem THEN x ELSE ledger[g]

(* launch_run: the first failure of the group's tasks is kept.             *)
TaskFails(f, x) ==
  /\ AtWork(f)
  /\ Settled(f)
  /\ ledger' = [ledger EXCEPT ![GroupOf(f)] = Keeps(GroupOf(f), x)]
  /\ returned' = returned \cup {f}
  /\ failing' = failing \cup {f}
  /\ UNCHANGED <<vars, handed, call, index>>

TaskEnds(f) ==
  /\ f \in returned
  /\ End(f)
  /\ returned' = returned \ {f}
  /\ failing' = failing \ {f}
  /\ UNCHANGED <<ledger, handed, call, index>>

(* The round's own steps, in whichever call it is in.                      *)
RoundStep(p) ==
  /\ Idled(p) \/ KeepTurn(p) \/ Turn(p) \/ Resume(p) \/ WaitReturns(p)
       \/ WaitOn(p)
  /\ UNCHANGED groupVars

GroupNext ==
  \/ \E g \in Groups :
       \/ CallAdmit(g)
       \/ AdmitStarts(g)
       \/ AdmitFails(g)
       \/ AdmitWaits(g)
       \/ CallJoin(g)
       \/ JoinWaits(g)
       \/ JoinReturns(g)
  \/ \E p \in Everyone : TaskYields(p) \/ RoundStep(p)
  \/ \E f \in Fibres :
       \/ TaskSucceeds(f)
       \/ \E x \in Reasons[f] : TaskFails(f, x)
       \/ TaskEnds(f)

GroupSpec == GroupInit /\ [][GroupNext]_wholeVars

(***************************************************************************)
(* The process on the core goes on with the library's code, and a task     *)
(* that keeps getting its turns returns in the end.                        *)
(***************************************************************************)
GroupFairness ==
  /\ \A p \in Everyone : WF_wholeVars(RoundStep(p))
  /\ \A g \in Groups : /\ WF_wholeVars(AdmitStarts(g) \/ AdmitFails(g))
                       /\ WF_wholeVars(AdmitWaits(g))
                       /\ WF_wholeVars(JoinWaits(g))
                       /\ WF_wholeVars(JoinReturns(g))
                       /\ SF_wholeVars(CallJoin(g))
  /\ \A f \in Fibres : /\ SF_wholeVars(TaskSucceeds(f))
                       /\ WF_wholeVars(TaskEnds(f))

FairGroupSpec == GroupSpec /\ GroupFairness

-----------------------------------------------------------------------------
(* Ledgers, calls and locals keep their types; in particular the index of  *)
(* a join stays on a stack of its group, whatever ends while it waits.     *)
GroupTypeOK ==
  /\ TypeOK
  /\ ledger \in [Groups -> Problems \cup {NoProblem}]
  /\ handed \in [Groups -> Problems \cup {NoProblem}]
  /\ call \in [Everyone -> InCall]
  /\ \A g \in Groups : call[Owner[g]] = <<"join", g>>
                        => index[Owner[g]] \in 1 .. Len(StacksOf[g])
  /\ failing \subseteq returned /\ returned \subseteq Fibres

(* The stacks a task is on, and those whose task has failed.               *)
Active == [g \in Groups |-> {f \in Members(g) : status[f] # 0}]
Doomed == [g \in Groups |-> failing \cap Members(g)]

Abstract == INSTANCE AbstractGroup
  WITH Stacks <- [g \in Groups |-> Members(g)],
       active <- Active, doomed <- Doomed, kept <- ledger

(* The groups over a round implement the abstract group: a task starts     *)
(* only on a stack whose last task has ended, although the round may not   *)
(* have swept it; join returns only when every task has ended; the first   *)
(* failure is kept and handed on once.                                     *)
ImplementsGroup == Abstract!Spec

(* A join in progress returns: ends are not lost between the nested waits  *)
(* of the processes that share the round.                                  *)
JoinTerminates ==
  \A g \in Groups :
    call[Owner[g]] = <<"join", g>> ~> call[Owner[g]] # <<"join", g>>
=============================================================================
