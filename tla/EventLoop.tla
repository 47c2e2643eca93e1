----------------------------- MODULE EventLoop -----------------------------
(***************************************************************************)
(* The event-driven host of hosted/events on Linux: fibres of a round      *)
(* whose idler is the wait for events.  A call that would wait parks its   *)
(* fibre: it links a record on the fibre's stack into the loop's list,     *)
(* arms the descriptor with epoll and yields until the record is answered, *)
(* by the loop, or by another fibre that closes what it waits on.          *)
(*                                                                         *)
(* The list's order decides nothing, since every walk of it answers each   *)
(* record by itself, so it is the set of the processes whose record is in  *)
(* it.  The system (readiness, signals, the clock) acts between any two    *)
(* steps.                                                                  *)
(***************************************************************************)
EXTENDS Round, SequencesExt

CONSTANTS
  Descriptors,   \* descriptor numbers
  NoDescriptor,  \* a record that waits on none
  Signals,       \* the kinds of signal
  MaxFiles,      \* a bound on the files opened, numbered in their order
  Timed,         \* the kinds of call made: with a deadline, without
  Callers        \* the processes whose code makes calls that may wait

ASSUME LoopAssumption ==
  /\ NoDescriptor \notin Descriptors
  /\ IsFiniteSet(Signals)
  /\ MaxFiles \in Nat
  /\ Timed \subseteq BOOLEAN
  /\ Callers \subseteq Everyone

VARIABLES
  file,       \* file[d]: the file the number d names, 0 for none
  files,      \* how many files have been opened
  ready,      \* ready[d]: the directions the system would not block in
  armed,      \* armed[d]: the directions epoll will report, once
  listed,     \* the processes whose record is on the loop's list
  answer,     \* the answer in each process's record
  deadline,   \* whether its deadline is none, ahead or passed
  call,       \* the call of the host each process is in
  parked,     \* the processes in park
  turned,     \* a fibre took a turn of its own since the last wait
  pending,    \* the watched signals the signalfd holds
  arrived,    \* the arrivals not yet read, in their order
  watched,    \* the watched signals
  stopped     \* whether watching was stopped

fileVars   == <<file, files, ready>>
recordVars == <<armed, listed, answer, deadline, call, parked>>
signalVars == <<pending, arrived, watched, stopped>>
loopVars   == <<fileVars, recordVars, turned, signalVars>>
allVars    == <<vars, loopVars>>

Directions == {"in", "out"}
NoCall == [op |-> "none", d |-> NoDescriptor, dir |-> "in", file |-> 0]

AtWork(p) == p \in Callers /\ InBody(p) /\ call[p] = NoCall
In(p, op) == InBody(p) /\ call[p].op = op /\ p \notin parked

(* A call is over; its record and its locals are gone.                     *)
Done(p) == /\ call' = [call EXCEPT ![p] = NoCall]
           /\ deadline' = [deadline EXCEPT ![p] = "none"]

(* new, over a process that has no files open.                             *)
LoopInit ==
  /\ Init
  /\ file = [d \in Descriptors |-> 0]
  /\ files = 0
  /\ ready = [d \in Descriptors |-> {}]
  /\ armed = [d \in Descriptors |-> {}]
  /\ listed = {}
  /\ answer = [p \in Everyone |-> "none"]
  /\ deadline = [p \in Everyone |-> "none"]
  /\ call = [p \in Everyone |-> NoCall]
  /\ parked = {}
  /\ turned = FALSE
  /\ pending = {} /\ arrived = <<>> /\ watched = {} /\ stopped = FALSE

-----------------------------------------------------------------------------
(* The list.                                                               *)

(* The listed records that wait on d in one of these directions.           *)
WaitingOn(d, dirs) == {p \in listed : call[p].d = d /\ call[p].dir \in dirs}
Signalled == {p \in listed : call[p].op = "signal"}

(* What the records of these processes, waiting on d, want.                *)
WantedOn(d, S) == {call[p].dir : p \in {q \in S : call[q].d = d}}

Answered(S, how) == [p \in Everyone |-> IF p \in S THEN how ELSE answer[p]]

(* A settle that leaves the record on the list.                            *)
Bug_Settle(S, how) ==
  /\ UNCHANGED listed
  /\ answer' = Answered(S, how)

(* settle, for every record of S.                                          *)
Settle(S, how) ==
  /\ listed' = listed \ S
  /\ answer' = Answered(S, how)

-----------------------------------------------------------------------------
(* Calls on descriptors: read, accept, receive, send and the like.         *)

Open(p) ==
  /\ AtWork(p)
  /\ files < MaxFiles
  /\ \E d \in Descriptors :
       /\ file[d] = 0
       /\ file' = [file EXCEPT ![d] = files + 1]
       /\ ready' = [ready EXCEPT ![d] = {}]
  /\ files' = files + 1
  /\ UNCHANGED <<vars, recordVars, turned, signalVars>>

Begin(p, d, dir, timed) ==
  /\ AtWork(p)
  /\ file[d] # 0
  /\ call' = [call EXCEPT ![p] =
                [op |-> "io", d |-> d, dir |-> dir, file |-> file[d]]]
  /\ deadline' = [deadline EXCEPT ![p] = IF timed THEN "ahead" ELSE "none"]
  /\ UNCHANGED <<vars, fileVars, armed, listed, answer, parked, turned,
                 signalVars>>

(* The system's call goes through, and may leave nothing for the next.     *)
Transfer(p) ==
  /\ In(p, "io")
  /\ LET d == call[p].d
     IN  /\ file[d] # 0
         /\ call[p].dir \in ready[d]
         /\ \/ ready' = [ready EXCEPT ![d] = @ \ {call[p].dir}]
            \/ UNCHANGED ready
  /\ Done(p)
  /\ UNCHANGED <<vars, file, files, armed, listed, answer, parked, turned,
                 signalVars>>

(* The number names no file any more: the system refuses.                  *)
Refused(p) ==
  /\ In(p, "io")
  /\ file[call[p].d] = 0
  /\ Done(p)
  /\ UNCHANGED <<vars, fileVars, armed, listed, answer, parked, turned,
                 signalVars>>

Arms(p) == WantedOn(call[p].d, listed \cup {p})

(* It would wait: the record is linked, and its descriptor armed for what  *)
(* every record on it wants.  send takes its limit anew at each wait.      *)
Park(p) ==
  /\ In(p, "io")
  /\ LET d == call[p].d
     IN  /\ file[d] # 0
         /\ call[p].dir \notin ready[d]
         /\ armed' = [armed EXCEPT ![d] = Arms(p)]
  /\ listed' = listed \cup {p}
  /\ answer' = [answer EXCEPT ![p] = "pending"]
  /\ parked' = parked \cup {p}
  /\ \/ UNCHANGED deadline
     \/ /\ call[p].dir = "out" /\ deadline[p] = "passed"
        /\ deadline' = [deadline EXCEPT ![p] = "ahead"]
  /\ UNCHANGED <<vars, fileVars, call, turned, signalVars>>

(* epoll refuses the arming: the record is unlinked and the call fails.    *)
ParkRefused(p) ==
  /\ In(p, "io")
  /\ file[call[p].d] # 0
  /\ call[p].dir \notin ready[call[p].d]
  /\ Done(p)
  /\ UNCHANGED <<vars, fileVars, armed, listed, answer, parked, turned,
                 signalVars>>

(* sleep: a record with a deadline alone.                                  *)
Sleep(p) ==
  /\ AtWork(p)
  /\ call' = [call EXCEPT ![p] = [NoCall EXCEPT !.op = "sleep"]]
  /\ deadline' = [deadline EXCEPT ![p] = "ahead"]
  /\ listed' = listed \cup {p}
  /\ answer' = [answer EXCEPT ![p] = "pending"]
  /\ parked' = parked \cup {p}
  /\ UNCHANGED <<vars, fileVars, armed, turned, signalVars>>

(* park's loop: a turn, while nothing is answered.                         *)
ParkTurns(p) ==
  /\ InBody(p)
  /\ p \in parked
  /\ answer[p] = "pending"
  /\ Yield(p)
  /\ UNCHANGED loopVars

(* park returns: what is ready is tried again, a sleeper's deadline has    *)
(* passed, and otherwise the call fails.                                   *)
Unpark(p) ==
  /\ InBody(p)
  /\ p \in parked
  /\ answer[p] # "pending"
  /\ parked' = parked \ {p}
  /\ answer' = [answer EXCEPT ![p] = "none"]
  /\ \/ answer[p] = "ready" /\ UNCHANGED <<call, deadline>>
     \/ answer[p] # "ready" /\ Done(p)
  /\ UNCHANGED <<vars, fileVars, armed, listed, turned, signalVars>>

(* close: forget answers every waiter `failed` and withdraws the           *)
(* descriptor, and the system's close gives its number back.               *)
Close(p, d) ==
  /\ AtWork(p)
  /\ file[d] # 0
  /\ Settle(WaitingOn(d, Directions), "failed")
  /\ armed' = [armed EXCEPT ![d] = {}]
  /\ file' = [file EXCEPT ![d] = 0]
  /\ ready' = [ready EXCEPT ![d] = {}]
  /\ UNCHANGED <<vars, files, deadline, call, parked, turned, signalVars>>

(* shutdown of some directions: from then on they do not block.            *)
Shutdown(p, d, dirs) ==
  /\ AtWork(p)
  /\ file[d] # 0
  /\ Settle(WaitingOn(d, dirs), "failed")
  /\ ready' = [ready EXCEPT ![d] = @ \cup dirs]
  /\ UNCHANGED <<vars, file, files, armed, deadline, call, parked, turned,
                 signalVars>>

-----------------------------------------------------------------------------
(* Signals.                                                                *)

(* Arrivals kept twice overrun the room for one of each kind.              *)
Bug_Collected == {arrived \o a : a \in SetToSeqs(pending)}

(* collect: what the signalfd holds joins the arrivals, each kind once.    *)
Collected == {arrived \o a : a \in SetToSeqs(pending \ ToSet(arrived))}

Watch(p, s) ==
  /\ AtWork(p)
  /\ stopped' = FALSE
  /\ watched' = watched \cup {s}
  /\ UNCHANGED <<vars, fileVars, recordVars, turned, pending, arrived>>

(* The system refuses: watching counts as begun all the same.              *)
WatchFails(p, s) ==
  /\ AtWork(p)
  /\ s \notin watched
  /\ stopped' = FALSE
  /\ UNCHANGED <<vars, fileVars, recordVars, turned, pending, arrived,
                 watched>>

CallNextSignal(p) ==
  /\ AtWork(p)
  /\ call' = [call EXCEPT ![p] = [NoCall EXCEPT !.op = "signal"]]
  /\ deadline' = [deadline EXCEPT ![p] = "none"]
  /\ UNCHANGED <<vars, fileVars, armed, listed, answer, parked, turned,
                 signalVars>>

NextSignalFails(p) ==
  /\ In(p, "signal")
  /\ stopped
  /\ Done(p)
  /\ UNCHANGED <<vars, fileVars, armed, listed, answer, parked, turned,
                 signalVars>>

(* An arrival is there to be read, once those of the signalfd are.         *)
NextSignalReads(p) ==
  /\ In(p, "signal")
  /\ ~stopped
  /\ \E a \in Collected : a # <<>> /\ arrived' = Tail(a)
  /\ pending' = {}
  /\ Done(p)
  /\ UNCHANGED <<vars, fileVars, armed, listed, answer, parked, turned,
                 watched, stopped>>

(* None is: the fibre waits for one.                                       *)
NextSignalParks(p) ==
  /\ In(p, "signal")
  /\ ~stopped
  /\ arrived = <<>> /\ pending = {}
  /\ listed' = listed \cup {p}
  /\ answer' = [answer EXCEPT ![p] = "pending"]
  /\ parked' = parked \cup {p}
  /\ UNCHANGED <<vars, fileVars, armed, deadline, call, turned, signalVars>>

(* A stop that does not wake the fibres in next_signal.                    *)
Bug_StopWatching(p) ==
  /\ AtWork(p)
  /\ pending' = {} /\ arrived' = <<>> /\ watched' = {} /\ stopped' = TRUE
  /\ UNCHANGED <<vars, fileVars, recordVars, turned>>

(* give_signals reads the signalfd so that nothing watched is delivered    *)
(* with its default, and everything is forgotten.                          *)
StopWatching(p) ==
  /\ AtWork(p)
  /\ pending' = {} /\ arrived' = <<>> /\ watched' = {} /\ stopped' = TRUE
  /\ Settle(Signalled, "failed")
  /\ UNCHANGED <<vars, fileVars, armed, deadline, call, parked, turned>>

-----------------------------------------------------------------------------
(* The round's entries, through the host.                                  *)

EventsStart(p, r) ==
  /\ InBody(p) /\ call[p] = NoCall
  /\ Start(p, r) \/ StartTooSmall(p) \/ StartFull(p)
  /\ UNCHANGED loopVars
EventsWait(p) ==
  /\ InBody(p) /\ call[p] = NoCall
  /\ Wait(p) \/ WaitForNobody(p)
  /\ UNCHANGED loopVars
EventsEnd(f) ==
  /\ InBody(f) /\ call[f] = NoCall
  /\ End(f)
  /\ UNCHANGED loopVars

EventsYield(p) ==
  /\ AtWork(p)
  /\ turned' = TRUE
  /\ Yield(p)
  /\ UNCHANGED <<fileVars, recordVars, signalVars>>

RoundStep(p) ==
  /\ KeepTurn(p) \/ Turn(p) \/ Resume(p) \/ WaitReturns(p) \/ WaitOn(p)
  /\ UNCHANGED loopVars

-----------------------------------------------------------------------------
(* loop_idle.                                                              *)

(* Nothing waits and nobody took a turn of its own.                        *)
IdleReturns(p) ==
  /\ Idled(p)
  /\ listed = {} /\ ~turned
  /\ UNCHANGED loopVars

(* The descriptors epoll has a report of, and the deadlines that passed.   *)
Reports == {d \in Descriptors : armed[d] \cap ready[d] # {}}
Expired == {p \in listed : deadline[p] = "passed"}

(* The wait may come back: it has no time to wait, or there is something.  *)
WaitOver == turned \/ Reports # {} \/ pending # {} \/ Expired # {}

(* The records the reports answer: each descriptor's in the directions     *)
(* reported, and those waiting for a signal; and every one on a descriptor *)
(* that epoll then refuses to arm again.                                   *)
Reported == {p \in listed : call[p].d \in Reports
                           /\ call[p].dir \in ready[call[p].d] \cap
                                              armed[call[p].d]}
              \cup (IF pending # {} THEN Signalled ELSE {})

Ready(refused) == Reported \cup {p \in listed : call[p].d \in refused}

(* A dispatch that forgets that one report disarms a descriptor for all.   *)
Bug_Rearmed(refused) ==
  [d \in Descriptors |-> IF d \in Reports THEN {} ELSE armed[d]]

(* dispatch arms a reported descriptor again for those still waiting.      *)
Rearmed(refused) ==
  [d \in Descriptors |->
     IF d \in Reports THEN WantedOn(d, listed \ Ready(refused)) ELSE armed[d]]

(* The wait's reports are dispatched and the passed deadlines answered.    *)
WaitEvents(p) ==
  /\ Idled(p)
  /\ ~(listed = {} /\ ~turned)
  /\ WaitOver
  /\ turned' = FALSE
  /\ \E refused \in SUBSET Reports :
       /\ armed' = Rearmed(refused)
       /\ listed' = listed \ (Ready(refused) \cup Expired)
       /\ answer' = [q \in Everyone |->
                       IF q \in Ready(refused) THEN "ready"
                       ELSE IF q \in Expired THEN "expired" ELSE answer[q]]
  /\ \/ pending # {} /\ arrived' \in Collected /\ pending' = {}
     \/ pending = {} /\ UNCHANGED <<arrived, pending>>
  /\ UNCHANGED <<fileVars, deadline, call, parked, watched, stopped>>

(* EINTR: the loop looks again.                                            *)
Interrupted(p) ==
  /\ Idled(p)
  /\ ~(listed = {} /\ ~turned)
  /\ turned' = FALSE
  /\ Settle(Expired, "expired")
  /\ UNCHANGED <<fileVars, armed, deadline, call, parked, signalVars>>

-----------------------------------------------------------------------------
(* The system.                                                             *)

BecomesReady(d, dir) ==
  /\ file[d] # 0
  /\ ready' = [ready EXCEPT ![d] = @ \cup {dir}]
  /\ UNCHANGED <<vars, file, files, recordVars, turned, signalVars>>

SignalSent(s) ==
  /\ s \in watched
  /\ pending' = pending \cup {s}
  /\ UNCHANGED <<vars, fileVars, recordVars, turned, arrived, watched,
                 stopped>>

TimePasses(p) ==
  /\ deadline[p] = "ahead"
  /\ deadline' = [deadline EXCEPT ![p] = "passed"]
  /\ UNCHANGED <<vars, fileVars, armed, listed, answer, call, parked, turned,
                 signalVars>>

ProcessStep(p) ==
  \/ Open(p)
  \/ \E d \in Descriptors :
       \/ \E dir \in Directions, timed \in Timed : Begin(p, d, dir, timed)
       \/ Close(p, d)
       \/ \E dirs \in SUBSET Directions \ {{}} : Shutdown(p, d, dirs)
  \/ Transfer(p)
  \/ Refused(p)
  \/ Park(p)
  \/ ParkRefused(p)
  \/ TRUE \in Timed /\ Sleep(p)
  \/ ParkTurns(p)
  \/ Unpark(p)
  \/ \E s \in Signals : Watch(p, s) \/ WatchFails(p, s)
  \/ Signals # {} /\ CallNextSignal(p)
  \/ NextSignalFails(p)
  \/ NextSignalReads(p)
  \/ NextSignalParks(p)
  \/ Signals # {} /\ StopWatching(p)
  \/ \E r \in Fibres : EventsStart(p, r)
  \/ EventsWait(p)
  \/ EventsYield(p)
  \/ RoundStep(p)
  \/ IdleReturns(p)
  \/ WaitEvents(p)
  \/ Interrupted(p)

LoopNext ==
  \/ \E p \in Everyone : ProcessStep(p)
  \/ \E f \in Fibres : EventsEnd(f)
  \/ \E d \in Descriptors, dir \in Directions : BecomesReady(d, dir)
  \/ \E s \in Signals : SignalSent(s)
  \/ \E p \in Everyone : TimePasses(p)

LoopSpec == LoopInit /\ [][LoopNext]_allVars

-----------------------------------------------------------------------------
(* The arrivals not yet read never outgrow the loop's room for one of each *)
(* kind of signal, and the records keep their types.                       *)
LoopTypeOK ==
  /\ TypeOK
  /\ file \in [Descriptors -> 0 .. MaxFiles] /\ files \in 0 .. MaxFiles
  /\ ready \in [Descriptors -> SUBSET Directions]
  /\ armed \in [Descriptors -> SUBSET Directions]
  /\ listed \subseteq Everyone /\ parked \subseteq Everyone
  /\ answer \in [Everyone -> {"none", "pending", "ready", "expired", "failed"}]
  /\ deadline \in [Everyone -> {"none", "ahead", "passed"}]
  /\ \A p \in Everyone :
       /\ call[p].op \in {"none", "io", "sleep", "signal"}
       /\ call[p].d \in Descriptors \cup {NoDescriptor}
  /\ turned \in BOOLEAN /\ stopped \in BOOLEAN
  /\ pending \subseteq Signals /\ watched \subseteq Signals
  /\ arrived \in Seq(Signals) /\ Len(arrived) <= Cardinality(Signals)

(* entry_at's comment: "a list entry is the address of a record on the     *)
(* stack of a fibre that waits in it".  A record is on the list exactly    *)
(* while its fibre is in park and it is unanswered, whoever answers it.    *)
ListHoldsWaiters ==
  listed = {p \in parked : status[p] # 0 /\ answer[p] = "pending"}

(* A report disarms a descriptor for every record waiting on it, and an    *)
(* arming replaces the one before it: between the loop's steps every       *)
(* listed record's direction is armed, on a descriptor still open, so no   *)
(* waiter is deaf.                                                         *)
EveryWaiterArmed ==
  \A p \in listed :
    call[p].op = "io" => /\ call[p].dir \in armed[call[p].d]
                         /\ file[call[p].d] # 0

(* The wait for events that has neither a limit nor anything to return.    *)
Sleeping == /\ pc[running] = "idle" /\ ~turned /\ listed # {}
            /\ \A p \in listed : deadline[p] = "none"
            /\ ~WaitOver

(* loop_idle's comment: the wait is "with no limit when every fibre waits  *)
(* on the loop and none has a deadline".  A fibre that was answered, and   *)
(* has not had its turn, does not wait on the loop.                        *)
SleepsOnlyOverWaiters ==
  Sleeping => \A p \in parked : answer[p] = "pending"

(* What the loop keeps of that: a record it answered itself, ready or      *)
(* expired, has its fibre's turn before the next wait with no limit.       *)
LoopAnswersRun ==
  Sleeping => \A p \in parked : answer[p] \notin {"ready", "expired"}

(* signal.signals: stop_watching "wakes every fibre waiting in             *)
(* `next_signal`", and none begins to wait until watch is called again.    *)
NobodyWaitsStopped == stopped => Signalled = {}

(* D449: a fibre waiting on a descriptor that is closed through the        *)
(* provider is woken "and the woken call fails io_failed": no call goes    *)
(* through on another file than the one it was made on.                    *)
CallKeepsItsFile ==
  [][\A p \in Everyone :
       Transfer(p) => file[call[p].d] = call[p].file]_allVars
=============================================================================
