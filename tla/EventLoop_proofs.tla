-------------------------- MODULE EventLoop_proofs --------------------------
(***************************************************************************)
(* Proofs about EventLoop, for any fibres, descriptors and signals.        *)
(*                                                                         *)
(* The list is a set of records on stacks, so what is proved first is that *)
(* a record is on it exactly while its fibre waits in park: a fibre in     *)
(* park is in a call, and neither ends nor makes another one.  That every  *)
(* waiter is armed is then inductive with it, since arming takes what all  *)
(* the records on a descriptor want; and that whoever was answered runs    *)
(* before the loop waits again follows from the round's count of yields.   *)
(***************************************************************************)
EXTENDS EventLoop, Round_proofs, FiniteSetTheorems, SequenceTheorems

Answers == {"none", "pending", "ready", "expired", "failed"}

(* The types of what the loop and the system keep, but for the arrivals.   *)
LTypes ==
  /\ file \in [Descriptors -> 0 .. MaxFiles] /\ files \in 0 .. MaxFiles
  /\ ready \in [Descriptors -> SUBSET Directions]
  /\ armed \in [Descriptors -> SUBSET Directions]
  /\ listed \subseteq Everyone /\ parked \subseteq Everyone
  /\ answer \in [Everyone -> Answers]
  /\ deadline \in [Everyone -> {"none", "ahead", "passed"}]
  /\ call \in [Everyone -> [op : {"none", "io", "sleep", "signal"},
                            d : Descriptors \cup {NoDescriptor},
                            dir : Directions, file : Nat]]
  /\ turned \in BOOLEAN /\ stopped \in BOOLEAN
  /\ pending \subseteq Signals /\ watched \subseteq Signals

(* A call on a descriptor has one.                                         *)
CallsKept == \A p \in Everyone : call[p].op = "io" => call[p].d \in Descriptors

(* A fibre in park is in a call, and has not ended.                        *)
ParkedKept == \A p \in parked : call[p].op # "none" /\ status[p] # 0

(* Its record is on the list while it is unanswered.                       *)
ListKept == listed = {p \in parked : answer[p] = "pending"}

(* The inductive invariant of the list.                                    *)
LInv == /\ LTypes /\ CallsKept /\ ParkedKept /\ ListKept
        /\ EveryWaiterArmed /\ NobodyWaitsStopped

-----------------------------------------------------------------------------
(* A step of the round in a call of the host ends nobody who is parked.    *)
LEMMA RoundStatus ==
  ASSUME status \in [Everyone -> {0, 1}], NEW p \in Everyone,
         \/ \E r \in Fibres : EventsStart(p, r)
         \/ EventsWait(p) \/ RoundStep(p) \/ ParkTurns(p)
  PROVE  UNCHANGED loopVars /\ \A q \in Everyone : status[q] # 0 => status'[q] # 0
  BY DEF EventsStart, EventsWait, RoundStep, ParkTurns, Start, StartTooSmall,
         StartFull, Wait, WaitForNobody, Yield, KeepTurn, Turn, Resume,
         WaitReturns, WaitOn

(* What the loop's invariant says of itself depends on the round only in   *)
(* that nobody parked has ended.                                           *)
LEMMA LoopStays ==
  ASSUME LInv, UNCHANGED loopVars, \A q \in parked : status'[q] # 0
  PROVE  LInv'
<1> USE DEF loopVars, fileVars, recordVars, signalVars
<1>1. LTypes' /\ CallsKept' /\ ParkedKept' /\ ListKept'
  BY DEF LInv, LTypes, CallsKept, ParkedKept, ListKept
<1>2. EveryWaiterArmed' /\ NobodyWaitsStopped'
  BY DEF LInv, EveryWaiterArmed, NobodyWaitsStopped, Signalled
<1> QED BY <1>1, <1>2 DEF LInv

(* Whoever is between calls, or in one and not parked, is not on the list. *)
LEMMA NotListed ==
  ASSUME LInv, NEW p \in Everyone,
         call[p] = NoCall \/ p \notin parked
  PROVE  p \notin parked /\ p \notin listed
  BY DEF LInv, ParkedKept, ListKept, NoCall

(* A call that is over leaves the record's invariants alone.               *)
LEMMA DoneStep ==
  ASSUME LInv, NEW p \in Everyone, p \notin parked, Done(p),
         ready' \in [Descriptors -> SUBSET Directions], pending' \subseteq Signals,
         UNCHANGED <<file, files, armed, listed, answer, parked, turned, watched,
                     stopped, status>>
  PROVE  LInv'
<1> USE DEF Done
<1>1. p \notin listed
  BY NotListed
<1>2. LTypes'
  <2>1. NoCall \in [op : {"none", "io", "sleep", "signal"},
                    d : Descriptors \cup {NoDescriptor},
                    dir : Directions, file : Nat]
    BY DEF NoCall, Directions
  <2> QED BY <2>1 DEF LInv, LTypes
<1>3. \A q \in Everyone : q # p => call'[q] = call[q]
  BY DEF LInv, LTypes
<1>4. call'[p] = NoCall
  BY DEF LInv, LTypes
<1>5. CallsKept'
  BY <1>3, <1>4 DEF LInv, LTypes, CallsKept, NoCall
<1>6. ParkedKept' /\ ListKept'
  BY <1>3 DEF LInv, LTypes, ParkedKept, ListKept
<1>7. EveryWaiterArmed'
  BY <1>1, <1>3 DEF LInv, LTypes, EveryWaiterArmed
<1>8. NobodyWaitsStopped'
  BY <1>1, <1>3 DEF LInv, LTypes, NobodyWaitsStopped, Signalled
<1> QED BY <1>2, <1>5, <1>6, <1>7, <1>8 DEF LInv

(* A call that begins, likewise.                                           *)
LEMMA BeginStep ==
  ASSUME LInv, NEW p \in Everyone, p \notin parked,
         NEW new \in [op : {"io", "signal"}, d : Descriptors \cup {NoDescriptor},
                      dir : Directions, file : Nat],
         new.op = "io" => new.d \in Descriptors,
         call' = [call EXCEPT ![p] = new],
         deadline' \in [Everyone -> {"none", "ahead", "passed"}],
         UNCHANGED <<fileVars, armed, listed, answer, parked, turned, signalVars,
                     status>>
  PROVE  LInv'
<1> USE DEF fileVars, signalVars
<1>1. p \notin listed
  BY NotListed
<1>2. LTypes'
  BY DEF LInv, LTypes
<1>3. \A q \in Everyone : q # p => call'[q] = call[q]
  BY DEF LInv, LTypes
<1>4. call'[p] = new
  BY DEF LInv, LTypes
<1>5. CallsKept'
  BY <1>3, <1>4 DEF LInv, LTypes, CallsKept
<1>6. ParkedKept' /\ ListKept'
  BY <1>3 DEF LInv, LTypes, ParkedKept, ListKept
<1>7. EveryWaiterArmed'
  BY <1>1, <1>3 DEF LInv, LTypes, EveryWaiterArmed
<1>8. NobodyWaitsStopped'
  BY <1>1, <1>3 DEF LInv, LTypes, NobodyWaitsStopped, Signalled
<1> QED BY <1>2, <1>5, <1>6, <1>7, <1>8 DEF LInv

(* Records are answered, and taken off the list as they are: what is still *)
(* listed was listed before, and is armed.                                 *)
LEMMA AnswerStep ==
  ASSUME LInv, NEW S \in SUBSET listed,
         listed' = listed \ S,
         answer' \in [Everyone -> Answers],
         \A q \in S : answer'[q] # "pending",
         \A q \in Everyone \ S : answer'[q] = answer[q],
         file' \in [Descriptors -> 0 .. MaxFiles],
         ready' \in [Descriptors -> SUBSET Directions],
         armed' \in [Descriptors -> SUBSET Directions],
         \A q \in listed' : call[q].op = "io" =>
           /\ call[q].dir \in armed'[call[q].d]
           /\ file'[call[q].d] # 0,
         turned' \in BOOLEAN, stopped' \in BOOLEAN,
         pending' \subseteq Signals, watched' \subseteq Signals,
         stopped' => stopped \/ Signalled \subseteq S,
         UNCHANGED <<files, deadline, call, parked, status>>
  PROVE  LInv'
<1>1. LTypes'
  BY DEF LInv, LTypes
<1>2. CallsKept' /\ ParkedKept'
  BY DEF LInv, CallsKept, ParkedKept
<1>3. ListKept'
  BY DEF LInv, LTypes, ListKept
<1>4. EveryWaiterArmed'
  BY DEF EveryWaiterArmed
<1>5. NobodyWaitsStopped'
  BY DEF LInv, NobodyWaitsStopped, Signalled
<1> QED BY <1>1, <1>2, <1>3, <1>4, <1>5 DEF LInv

(* A fibre parks: its record joins the list, unanswered and, when it waits *)
(* on a descriptor, armed with those beside it.                            *)
LEMMA ParkStep ==
  ASSUME LInv, NEW p \in Everyone, p \notin parked, status[p] # 0,
         listed' = listed \cup {p},
         answer' = [answer EXCEPT ![p] = "pending"],
         parked' = parked \cup {p},
         NEW new \in [op : {"io", "sleep", "signal"},
                      d : Descriptors \cup {NoDescriptor},
                      dir : Directions, file : Nat],
         new.op = "io" => new.d \in Descriptors,
         new.op = "signal" => ~stopped,
         call' = [call EXCEPT ![p] = new],
         deadline' \in [Everyone -> {"none", "ahead", "passed"}],
         armed' \in [Descriptors -> SUBSET Directions],
         \A q \in listed : call[q].op = "io" =>
           call[q].dir \in armed'[call[q].d],
         new.op = "io" => new.dir \in armed'[new.d] /\ file[new.d] # 0,
         UNCHANGED <<fileVars, turned, signalVars, status>>
  PROVE  LInv'
<1> USE DEF fileVars, signalVars
<1>1. p \notin listed
  BY NotListed
<1>2. LTypes'
  BY DEF LInv, LTypes, Answers
<1>3. \A q \in Everyone : q # p => call'[q] = call[q] /\ answer'[q] = answer[q]
  BY DEF LInv, LTypes
<1>4. call'[p] = new /\ answer'[p] = "pending"
  BY DEF LInv, LTypes
<1>5. CallsKept'
  BY <1>3, <1>4 DEF LInv, LTypes, CallsKept
<1>6. ParkedKept'
  BY <1>3, <1>4 DEF LInv, LTypes, ParkedKept
<1>7. ListKept'
  BY <1>3, <1>4 DEF LInv, LTypes, ListKept
<1>8. EveryWaiterArmed'
  BY <1>1, <1>3, <1>4 DEF LInv, LTypes, EveryWaiterArmed
<1>9. NobodyWaitsStopped'
  BY <1>1, <1>3, <1>4 DEF LInv, LTypes, NobodyWaitsStopped, Signalled
<1> QED BY <1>2, <1>5, <1>6, <1>7, <1>8, <1>9 DEF LInv

-----------------------------------------------------------------------------
(* The actions of a process in its calls.                                  *)

(* Whoever runs has not ended.                                             *)
LEMMA RunnerUnended ==
  ASSUME IInv, NEW p \in Everyone, running = p
  PROVE  status[p] # 0
  BY DEF IInv, PlacesKept

(* A file is opened on a number nobody waits on.                           *)
LEMMA OpenStep ==
  ASSUME LInv, NEW p \in Everyone, Open(p)
  PROVE  LInv'
<1>1. PICK d \in Descriptors :
        /\ file[d] = 0
        /\ file' = [file EXCEPT ![d] = files + 1]
        /\ ready' = [ready EXCEPT ![d] = {}]
  BY DEF Open
<1>2. /\ files < MaxFiles /\ files' = files + 1
      /\ UNCHANGED <<vars, recordVars, turned, signalVars>>
  BY DEF Open
<1>3. files + 1 \in 1 .. MaxFiles
  BY <1>2, LoopAssumption DEF LInv, LTypes, LoopAssumption
<1>4. LTypes'
  BY <1>1, <1>2, <1>3 DEF LInv, LTypes, recordVars, signalVars
<1>5. CallsKept' /\ ParkedKept' /\ ListKept'
  BY <1>2 DEF LInv, CallsKept, ParkedKept, ListKept, recordVars, vars
<1>6. EveryWaiterArmed'
  BY <1>1, <1>2, <1>3 DEF LInv, LTypes, EveryWaiterArmed, recordVars
<1>7. NobodyWaitsStopped'
  BY <1>2 DEF LInv, NobodyWaitsStopped, Signalled, recordVars, signalVars
<1> QED BY <1>4, <1>5, <1>6, <1>7 DEF LInv

(* The calls that begin, and those that end without waiting.               *)
LEMMA CallStep ==
  ASSUME LInv, NEW p \in Everyone,
         \/ \E d \in Descriptors, dir \in Directions, timed \in Timed :
              Begin(p, d, dir, timed)
         \/ Transfer(p) \/ Refused(p) \/ ParkRefused(p)
         \/ CallNextSignal(p) \/ NextSignalFails(p) \/ NextSignalReads(p)
  PROVE  LInv'
<1>1. ASSUME NEW d \in Descriptors, NEW dir \in Directions, NEW timed \in Timed,
             Begin(p, d, dir, timed)
      PROVE  LInv'
  <2> DEFINE new == [op |-> "io", d |-> d, dir |-> dir, file |-> file[d]]
  <2>1. p \notin parked
    BY <1>1, NotListed DEF Begin, AtWork
  <2>2. /\ new \in [op : {"io", "signal"}, d : Descriptors \cup {NoDescriptor},
                    dir : Directions, file : Nat]
        /\ new.op = "io" /\ new.d = d
    BY DEF LInv, LTypes
  <2>3. deadline' \in [Everyone -> {"none", "ahead", "passed"}]
    BY <1>1 DEF Begin, LInv, LTypes
  <2>4. /\ call' = [call EXCEPT ![p] = new]
        /\ UNCHANGED <<fileVars, armed, listed, answer, parked, turned,
                       signalVars, status>>
    BY <1>1 DEF Begin, vars
  <2> HIDE DEF new
  <2> QED BY <2>1, <2>2, <2>3, <2>4, BeginStep
<1>2. CASE CallNextSignal(p)
  <2> DEFINE new == [NoCall EXCEPT !.op = "signal"]
  <2>1. p \notin parked
    BY <1>2, NotListed DEF CallNextSignal, AtWork
  <2>2. /\ new \in [op : {"io", "signal"}, d : Descriptors \cup {NoDescriptor},
                    dir : Directions, file : Nat]
        /\ new.op = "signal"
    BY DEF NoCall, Directions
  <2>3. deadline' \in [Everyone -> {"none", "ahead", "passed"}]
    BY <1>2 DEF CallNextSignal, LInv, LTypes
  <2>4. /\ call' = [call EXCEPT ![p] = new]
        /\ UNCHANGED <<fileVars, armed, listed, answer, parked, turned,
                       signalVars, status>>
    BY <1>2 DEF CallNextSignal, vars
  <2> HIDE DEF new
  <2> QED BY <2>1, <2>2, <2>3, <2>4, BeginStep
<1>3. CASE Transfer(p)
  <2>1. p \notin parked /\ Done(p)
    BY <1>3 DEF Transfer, In
  <2>2. ready' \in [Descriptors -> SUBSET Directions]
    BY <1>3 DEF Transfer, LInv, LTypes
  <2>3. /\ pending' \subseteq Signals
        /\ UNCHANGED <<file, files, armed, listed, answer, parked, turned,
                       watched, stopped, status>>
    BY <1>3 DEF Transfer, vars, signalVars, LInv, LTypes
  <2> QED BY <2>1, <2>2, <2>3, DoneStep
<1>4. CASE Refused(p) \/ ParkRefused(p) \/ NextSignalFails(p)
             \/ NextSignalReads(p)
  <2>1. p \notin parked /\ Done(p)
    BY <1>4 DEF Refused, ParkRefused, NextSignalFails, NextSignalReads, In
  <2>2. /\ ready' \in [Descriptors -> SUBSET Directions]
        /\ pending' \subseteq Signals
    BY <1>4 DEF Refused, ParkRefused, NextSignalFails, NextSignalReads,
                fileVars, signalVars, LInv, LTypes
  <2>3. UNCHANGED <<file, files, armed, listed, answer, parked, turned,
                    watched, stopped, status>>
    BY <1>4 DEF Refused, ParkRefused, NextSignalFails, NextSignalReads,
                fileVars, signalVars, vars
  <2> QED BY <2>1, <2>2, <2>3, DoneStep
<1> QED BY <1>1, <1>2, <1>3, <1>4

(* The three ways into park.                                               *)
LEMMA ParkingStep ==
  ASSUME IInv, LInv, NEW p \in Everyone,
         Park(p) \/ Sleep(p) \/ NextSignalParks(p)
  PROVE  LInv'
<1> DEFINE Records == [op : {"io", "sleep", "signal"},
                       d : Descriptors \cup {NoDescriptor},
                       dir : Directions, file : Nat]
<1>0. status[p] # 0
  BY RunnerUnended DEF Park, Sleep, NextSignalParks, In, AtWork, InBody
<1>1. CASE Park(p)
  <2>1. /\ p \notin parked /\ call[p].op = "io"
        /\ call[p] \in Records /\ call' = [call EXCEPT ![p] = call[p]]
    BY <1>1 DEF Park, In, LInv, LTypes
  <2>2. call[p].d \in Descriptors /\ file[call[p].d] # 0
    BY <1>1, <2>1 DEF Park, LInv, CallsKept
  <2>3. /\ armed' = [armed EXCEPT ![call[p].d] = Arms(p)]
        /\ Arms(p) \subseteq Directions
    BY <1>1 DEF Park, Arms, WantedOn, LInv, LTypes
  <2>4. armed' \in [Descriptors -> SUBSET Directions]
    BY <2>2, <2>3 DEF LInv, LTypes
  <2>5. call[p].dir \in armed'[call[p].d]
    BY <2>2, <2>3 DEF Arms, WantedOn, LInv, LTypes
  <2>6. ASSUME NEW q \in listed, call[q].op = "io"
        PROVE  call[q].dir \in armed'[call[q].d]
    BY <2>2, <2>3, <2>6 DEF Arms, WantedOn, LInv, LTypes, EveryWaiterArmed
  <2>7. deadline' \in [Everyone -> {"none", "ahead", "passed"}]
    BY <1>1 DEF Park, LInv, LTypes
  <2>8. /\ listed' = listed \cup {p}
        /\ answer' = [answer EXCEPT ![p] = "pending"]
        /\ parked' = parked \cup {p}
        /\ UNCHANGED <<fileVars, turned, signalVars, status>>
    BY <1>1 DEF Park, vars
  <2> QED BY <1>0, <2>1, <2>2, <2>4, <2>5, <2>6, <2>7, <2>8, ParkStep
<1>2. CASE Sleep(p)
  <2> DEFINE new == [NoCall EXCEPT !.op = "sleep"]
  <2>1. p \notin parked
    BY <1>2, NotListed DEF Sleep, AtWork
  <2>2. new \in Records /\ new.op = "sleep"
    BY DEF NoCall, Directions
  <2>3. deadline' \in [Everyone -> {"none", "ahead", "passed"}]
    BY <1>2 DEF Sleep, LInv, LTypes
  <2>4. /\ armed' \in [Descriptors -> SUBSET Directions]
        /\ \A q \in listed : call[q].op = "io" =>
             call[q].dir \in armed'[call[q].d]
    BY <1>2 DEF Sleep, LInv, LTypes, EveryWaiterArmed
  <2>5. /\ listed' = listed \cup {p}
        /\ answer' = [answer EXCEPT ![p] = "pending"]
        /\ parked' = parked \cup {p}
        /\ call' = [call EXCEPT ![p] = new]
        /\ UNCHANGED <<fileVars, turned, signalVars, status>>
    BY <1>2 DEF Sleep, vars
  <2> HIDE DEF new
  <2> QED BY <1>0, <2>1, <2>2, <2>3, <2>4, <2>5, ParkStep
<1>3. CASE NextSignalParks(p)
  <2>1. /\ p \notin parked /\ call[p].op = "signal" /\ ~stopped
        /\ call[p] \in Records /\ call' = [call EXCEPT ![p] = call[p]]
    BY <1>3 DEF NextSignalParks, In, LInv, LTypes
  <2>2. deadline' \in [Everyone -> {"none", "ahead", "passed"}]
    BY <1>3 DEF NextSignalParks, LInv, LTypes
  <2>3. /\ armed' \in [Descriptors -> SUBSET Directions]
        /\ \A q \in listed : call[q].op = "io" =>
             call[q].dir \in armed'[call[q].d]
    BY <1>3 DEF NextSignalParks, LInv, LTypes, EveryWaiterArmed
  <2>4. /\ listed' = listed \cup {p}
        /\ answer' = [answer EXCEPT ![p] = "pending"]
        /\ parked' = parked \cup {p}
        /\ UNCHANGED <<fileVars, turned, signalVars, status>>
    BY <1>3 DEF NextSignalParks, vars
  <2> QED BY <1>0, <2>1, <2>2, <2>3, <2>4, ParkStep
<1> QED BY <1>1, <1>2, <1>3

(* The way out of it: the record was off the list already.                 *)
LEMMA UnparkStep ==
  ASSUME LInv, NEW p \in Everyone, Unpark(p)
  PROVE  LInv'
<1>1. /\ p \in parked /\ answer[p] # "pending"
      /\ parked' = parked \ {p}
      /\ answer' = [answer EXCEPT ![p] = "none"]
      /\ UNCHANGED <<file, files, ready, armed, listed, turned, pending,
                     watched, stopped, status>>
  BY DEF Unpark, fileVars, signalVars, vars
<1>2. p \notin listed
  BY <1>1 DEF LInv, ListKept
<1>3. /\ \A q \in Everyone : q # p => call'[q] = call[q]
      /\ call'[p] = call[p] \/ call'[p] = NoCall
      /\ call' \in [Everyone -> [op : {"none", "io", "sleep", "signal"},
                                 d : Descriptors \cup {NoDescriptor},
                                 dir : Directions, file : Nat]]
  <2>1. NoCall \in [op : {"none", "io", "sleep", "signal"},
                    d : Descriptors \cup {NoDescriptor},
                    dir : Directions, file : Nat]
    BY DEF NoCall, Directions
  <2> QED BY <2>1 DEF Unpark, Done, LInv, LTypes
<1>4. deadline' \in [Everyone -> {"none", "ahead", "passed"}]
  BY DEF Unpark, Done, LInv, LTypes
<1>5. LTypes'
  BY <1>1, <1>3, <1>4 DEF LInv, LTypes, Answers
<1>6. CallsKept'
  BY <1>3 DEF LInv, CallsKept, NoCall
<1>7. ParkedKept' /\ ListKept'
  BY <1>1, <1>3 DEF LInv, LTypes, ParkedKept, ListKept
<1>8. EveryWaiterArmed'
  BY <1>1, <1>2, <1>3 DEF LInv, LTypes, EveryWaiterArmed
<1>9. NobodyWaitsStopped'
  BY <1>1, <1>2, <1>3 DEF LInv, LTypes, NobodyWaitsStopped, Signalled
<1> QED BY <1>5, <1>6, <1>7, <1>8, <1>9 DEF LInv

-----------------------------------------------------------------------------
(* The actions that answer records.                                        *)

(* close, shutdown and stop_watching answer whom they must.                *)
LEMMA SettleStep ==
  ASSUME LInv, NEW p \in Everyone,
         \/ \E d \in Descriptors : Close(p, d)
         \/ \E d \in Descriptors, dirs \in SUBSET Directions \ {{}} :
              Shutdown(p, d, dirs)
         \/ StopWatching(p)
  PROVE  LInv'
<1>0. ASSUME NEW S \in SUBSET listed
      PROVE  /\ Answered(S, "failed") \in [Everyone -> Answers]
             /\ \A q \in S : Answered(S, "failed")[q] = "failed"
             /\ \A q \in Everyone \ S : Answered(S, "failed")[q] = answer[q]
  <2>1. S \subseteq Everyone
    BY <1>0 DEF LInv, LTypes
  <2> QED BY <2>1 DEF Answered, Answers, LInv, LTypes
<1>1. ASSUME NEW d \in Descriptors, Close(p, d) PROVE LInv'
  <2> DEFINE S == WaitingOn(d, Directions)
  <2>1. S \in SUBSET listed
    BY DEF WaitingOn
  <2>2. /\ listed' = listed \ S /\ answer' = Answered(S, "failed")
        /\ armed' = [armed EXCEPT ![d] = {}]
        /\ file' = [file EXCEPT ![d] = 0]
        /\ ready' = [ready EXCEPT ![d] = {}]
        /\ UNCHANGED <<files, deadline, call, parked, status, turned, pending,
                       watched, stopped>>
    BY <1>1 DEF Close, Settle, vars, signalVars
  <2>3. \A q \in listed' : call[q].op = "io" =>
          /\ call[q].dir \in armed'[call[q].d]
          /\ file'[call[q].d] # 0
    <3> SUFFICES ASSUME NEW q \in listed, q \notin S, call[q].op = "io"
                 PROVE  /\ call[q].dir \in armed'[call[q].d]
                        /\ file'[call[q].d] # 0
      BY <2>2
    <3>1. call[q].dir \in Directions /\ call[q].d \in Descriptors
      BY DEF LInv, LTypes, CallsKept
    <3>2. call[q].d # d
      BY <3>1 DEF WaitingOn
    <3> QED BY <2>2, <3>1, <3>2 DEF LInv, LTypes, EveryWaiterArmed
  <2>4. /\ file' \in [Descriptors -> 0 .. MaxFiles]
        /\ ready' \in [Descriptors -> SUBSET Directions]
        /\ armed' \in [Descriptors -> SUBSET Directions]
    BY <2>2, LoopAssumption DEF LInv, LTypes, LoopAssumption
  <2>5. /\ turned' \in BOOLEAN /\ stopped' \in BOOLEAN
        /\ pending' \subseteq Signals /\ watched' \subseteq Signals
        /\ stopped' => stopped
    BY <2>2 DEF LInv, LTypes
  <2> HIDE DEF S
  <2>6. /\ answer' \in [Everyone -> Answers]
        /\ \A q \in S : answer'[q] # "pending"
        /\ \A q \in Everyone \ S : answer'[q] = answer[q]
    BY <1>0, <2>1, <2>2
  <2> QED BY <2>1, <2>2, <2>3, <2>4, <2>5, <2>6, AnswerStep
<1>2. ASSUME NEW d \in Descriptors, NEW dirs \in SUBSET Directions,
             Shutdown(p, d, dirs)
      PROVE  LInv'
  <2> DEFINE S == WaitingOn(d, dirs)
  <2>1. S \in SUBSET listed
    BY DEF WaitingOn
  <2>2. /\ listed' = listed \ S /\ answer' = Answered(S, "failed")
        /\ ready' = [ready EXCEPT ![d] = @ \cup dirs]
        /\ UNCHANGED <<file, files, armed, deadline, call, parked, status,
                       turned, pending, watched, stopped>>
    BY <1>2 DEF Shutdown, Settle, vars, signalVars
  <2>3. \A q \in listed' : call[q].op = "io" =>
          /\ call[q].dir \in armed'[call[q].d]
          /\ file'[call[q].d] # 0
    BY <2>2 DEF LInv, EveryWaiterArmed
  <2>4. /\ file' \in [Descriptors -> 0 .. MaxFiles]
        /\ ready' \in [Descriptors -> SUBSET Directions]
        /\ armed' \in [Descriptors -> SUBSET Directions]
    BY <2>2 DEF LInv, LTypes
  <2>5. /\ turned' \in BOOLEAN /\ stopped' \in BOOLEAN
        /\ pending' \subseteq Signals /\ watched' \subseteq Signals
        /\ stopped' => stopped
    BY <2>2 DEF LInv, LTypes
  <2> HIDE DEF S
  <2>6. /\ answer' \in [Everyone -> Answers]
        /\ \A q \in S : answer'[q] # "pending"
        /\ \A q \in Everyone \ S : answer'[q] = answer[q]
    BY <1>0, <2>1, <2>2
  <2> QED BY <2>1, <2>2, <2>3, <2>4, <2>5, <2>6, AnswerStep
<1>3. CASE StopWatching(p)
  <2> DEFINE S == Signalled
  <2>1. S \in SUBSET listed
    BY DEF Signalled
  <2>2. /\ listed' = listed \ S /\ answer' = Answered(S, "failed")
        /\ pending' = {} /\ watched' = {} /\ stopped' = TRUE
        /\ UNCHANGED <<file, files, ready, armed, deadline, call, parked,
                       status, turned>>
    BY <1>3 DEF StopWatching, Settle, vars, fileVars
  <2>3. \A q \in listed' : call[q].op = "io" =>
          /\ call[q].dir \in armed'[call[q].d]
          /\ file'[call[q].d] # 0
    BY <2>2 DEF LInv, EveryWaiterArmed
  <2>4. /\ file' \in [Descriptors -> 0 .. MaxFiles]
        /\ ready' \in [Descriptors -> SUBSET Directions]
        /\ armed' \in [Descriptors -> SUBSET Directions]
    BY <2>2 DEF LInv, LTypes
  <2>5. /\ turned' \in BOOLEAN /\ stopped' \in BOOLEAN
        /\ pending' \subseteq Signals /\ watched' \subseteq Signals
        /\ Signalled \subseteq S
    BY <2>2 DEF LInv, LTypes
  <2> HIDE DEF S
  <2>6. /\ answer' \in [Everyone -> Answers]
        /\ \A q \in S : answer'[q] # "pending"
        /\ \A q \in Everyone \ S : answer'[q] = answer[q]
    BY <1>0, <2>1, <2>2
  <2> QED BY <2>1, <2>2, <2>3, <2>4, <2>5, <2>6, AnswerStep
<1> QED BY <1>1, <1>2, <1>3

(* The wait for events, and one that is interrupted.                       *)
LEMMA LoopStep ==
  ASSUME LInv, NEW p \in Everyone, WaitEvents(p) \/ Interrupted(p)
  PROVE  LInv'
<1>1. CASE WaitEvents(p)
  <2>1. PICK refused \in SUBSET Reports :
          /\ armed' = Rearmed(refused)
          /\ listed' = listed \ (Ready(refused) \cup Expired)
          /\ answer' = [q \in Everyone |->
                          IF q \in Ready(refused) THEN "ready"
                          ELSE IF q \in Expired THEN "expired" ELSE answer[q]]
    BY <1>1 DEF WaitEvents
  <2> DEFINE S == Ready(refused) \cup Expired
  <2>2. S \in SUBSET listed
    BY DEF Ready, Reported, Expired, Signalled
  <2>3. /\ answer' \in [Everyone -> Answers]
        /\ \A q \in S : answer'[q] # "pending"
        /\ \A q \in Everyone \ S : answer'[q] = answer[q]
    BY <2>1, <2>2 DEF Answers, LInv, LTypes
  <2>4. armed' \in [Descriptors -> SUBSET Directions]
    <3>1. \A d \in Descriptors : WantedOn(d, listed \ Ready(refused)) \subseteq Directions
      BY DEF WantedOn, LInv, LTypes
    <3> QED BY <2>1, <3>1 DEF Rearmed, LInv, LTypes
  <2>5. /\ UNCHANGED <<file, files, ready, deadline, call, parked, status,
                       watched, stopped>>
        /\ turned' = FALSE
        /\ pending' \subseteq Signals
    BY <1>1 DEF WaitEvents, Idled, fileVars, LInv, LTypes
  <2>6. \A q \in listed' : call[q].op = "io" =>
          /\ call[q].dir \in armed'[call[q].d]
          /\ file'[call[q].d] # 0
    <3> SUFFICES ASSUME NEW q \in listed, q \notin Ready(refused),
                        call[q].op = "io"
                 PROVE  /\ call[q].dir \in armed'[call[q].d]
                        /\ file'[call[q].d] # 0
      BY <2>1
    <3>1. call[q].d \in Descriptors
      BY DEF LInv, LTypes, CallsKept
    <3>2. call[q].dir \in armed[call[q].d] /\ file[call[q].d] # 0
      BY DEF LInv, EveryWaiterArmed
    <3>3. call[q].dir \in WantedOn(call[q].d, listed \ Ready(refused))
      BY DEF WantedOn
    <3> QED BY <2>1, <2>5, <3>1, <3>2, <3>3 DEF Rearmed
  <2>7. /\ file' \in [Descriptors -> 0 .. MaxFiles]
        /\ ready' \in [Descriptors -> SUBSET Directions]
        /\ turned' \in BOOLEAN /\ stopped' \in BOOLEAN
        /\ watched' \subseteq Signals
        /\ stopped' => stopped
    BY <2>5 DEF LInv, LTypes
  <2>8. listed' = listed \ S
    BY <2>1
  <2> HIDE DEF S
  <2> QED BY <2>2, <2>3, <2>4, <2>5, <2>6, <2>7, <2>8, AnswerStep
<1>2. CASE Interrupted(p)
  <2>1. Expired \in SUBSET listed
    BY DEF Expired
  <2>2. /\ listed' = listed \ Expired
        /\ answer' = [q \in Everyone |->
                        IF q \in Expired THEN "expired" ELSE answer[q]]
        /\ turned' = FALSE
        /\ UNCHANGED <<file, files, ready, armed, deadline, call, parked,
                       status, pending, watched, stopped>>
    BY <1>2 DEF Interrupted, Settle, Answered, Idled, fileVars, signalVars
  <2>3. /\ answer' \in [Everyone -> Answers]
        /\ \A q \in Expired : answer'[q] # "pending"
        /\ \A q \in Everyone \ Expired : answer'[q] = answer[q]
    BY <2>1, <2>2 DEF Answers, LInv, LTypes
  <2>4. \A q \in listed' : call[q].op = "io" =>
          /\ call[q].dir \in armed'[call[q].d]
          /\ file'[call[q].d] # 0
    BY <2>2 DEF LInv, EveryWaiterArmed
  <2>5. /\ file' \in [Descriptors -> 0 .. MaxFiles]
        /\ ready' \in [Descriptors -> SUBSET Directions]
        /\ armed' \in [Descriptors -> SUBSET Directions]
    BY <2>2 DEF LInv, LTypes
  <2>6. /\ turned' \in BOOLEAN /\ stopped' \in BOOLEAN
        /\ pending' \subseteq Signals /\ watched' \subseteq Signals
        /\ stopped' => stopped
    BY <2>2 DEF LInv, LTypes
  <2> QED BY <2>1, <2>2, <2>3, <2>4, <2>5, <2>6, AnswerStep
<1> QED BY <1>1, <1>2

-----------------------------------------------------------------------------
(* What leaves the records alone: the watch of a signal, turns, the idler  *)
(* that does not wait, and the system.                                     *)
LEMMA AsideStep ==
  ASSUME LInv,
         \/ \E p \in Everyone :
              \/ \E s \in Signals : Watch(p, s) \/ WatchFails(p, s)
              \/ EventsYield(p) \/ IdleReturns(p) \/ TimePasses(p)
         \/ \E d \in Descriptors, dir \in Directions : BecomesReady(d, dir)
         \/ \E s \in Signals : SignalSent(s)
  PROVE  LInv'
<1>1. ASSUME NEW p \in Everyone, NEW s \in Signals,
             Watch(p, s) \/ WatchFails(p, s)
      PROVE  LInv'
  <2>1. /\ stopped' = FALSE /\ watched' \subseteq Signals
        /\ UNCHANGED <<vars, fileVars, recordVars, turned, pending>>
    BY <1>1 DEF Watch, WatchFails, LInv, LTypes
  <2>2. LTypes' /\ CallsKept' /\ ParkedKept' /\ ListKept'
    BY <2>1 DEF LInv, LTypes, CallsKept, ParkedKept, ListKept, vars, fileVars,
                recordVars
  <2>3. EveryWaiterArmed' /\ NobodyWaitsStopped'
    BY <2>1 DEF LInv, EveryWaiterArmed, NobodyWaitsStopped, vars, fileVars,
                recordVars
  <2> QED BY <2>2, <2>3 DEF LInv
<1>2. ASSUME NEW p \in Everyone, EventsYield(p) \/ IdleReturns(p)
      PROVE  LInv'
  <2>1. /\ turned' \in BOOLEAN
        /\ UNCHANGED <<fileVars, recordVars, signalVars, status>>
    BY <1>2 DEF EventsYield, IdleReturns, Yield, Idled, loopVars, LInv, LTypes
  <2>2. LTypes' /\ CallsKept' /\ ParkedKept' /\ ListKept'
    BY <2>1 DEF LInv, LTypes, CallsKept, ParkedKept, ListKept, fileVars,
                recordVars, signalVars
  <2>3. EveryWaiterArmed' /\ NobodyWaitsStopped'
    BY <2>1 DEF LInv, EveryWaiterArmed, NobodyWaitsStopped, Signalled,
                fileVars, recordVars, signalVars
  <2> QED BY <2>2, <2>3 DEF LInv
<1>3. ASSUME NEW p \in Everyone, TimePasses(p) PROVE LInv'
  <2>1. /\ deadline' \in [Everyone -> {"none", "ahead", "passed"}]
        /\ UNCHANGED <<vars, fileVars, armed, listed, answer, call, parked,
                       turned, signalVars>>
    BY <1>3 DEF TimePasses, LInv, LTypes
  <2>2. LTypes' /\ CallsKept' /\ ParkedKept' /\ ListKept'
    BY <2>1 DEF LInv, LTypes, CallsKept, ParkedKept, ListKept, vars, fileVars,
                signalVars
  <2>3. EveryWaiterArmed' /\ NobodyWaitsStopped'
    BY <2>1 DEF LInv, EveryWaiterArmed, NobodyWaitsStopped, Signalled, vars,
                fileVars, signalVars
  <2> QED BY <2>2, <2>3 DEF LInv
<1>4. ASSUME NEW d \in Descriptors, NEW dir \in Directions,
             BecomesReady(d, dir)
      PROVE  LInv'
  <2>1. /\ ready' \in [Descriptors -> SUBSET Directions]
        /\ UNCHANGED <<vars, file, files, recordVars, turned, signalVars>>
    BY <1>4 DEF BecomesReady, LInv, LTypes
  <2>2. LTypes' /\ CallsKept' /\ ParkedKept' /\ ListKept'
    BY <2>1 DEF LInv, LTypes, CallsKept, ParkedKept, ListKept, vars,
                recordVars, signalVars
  <2>3. EveryWaiterArmed' /\ NobodyWaitsStopped'
    BY <2>1 DEF LInv, EveryWaiterArmed, NobodyWaitsStopped, Signalled, vars,
                recordVars, signalVars
  <2> QED BY <2>2, <2>3 DEF LInv
<1>5. ASSUME NEW s \in Signals, SignalSent(s) PROVE LInv'
  <2>1. /\ pending' \subseteq Signals
        /\ UNCHANGED <<vars, fileVars, recordVars, turned, watched, stopped>>
    BY <1>5 DEF SignalSent, LInv, LTypes
  <2>2. LTypes' /\ CallsKept' /\ ParkedKept' /\ ListKept'
    BY <2>1 DEF LInv, LTypes, CallsKept, ParkedKept, ListKept, vars, fileVars,
                recordVars
  <2>3. EveryWaiterArmed' /\ NobodyWaitsStopped'
    BY <2>1 DEF LInv, EveryWaiterArmed, NobodyWaitsStopped, Signalled, vars,
                fileVars, recordVars
  <2> QED BY <2>2, <2>3 DEF LInv
<1> QED BY <1>1, <1>2, <1>3, <1>4, <1>5

-----------------------------------------------------------------------------
(* The arrivals: each kind of signal at most once, so that the loop's room *)
(* for one of each is enough.                                              *)

Distinct(s) == \A i, j \in 1 .. Len(s) : s[i] = s[j] => i = j

ArrivedOnce == arrived \in Seq(Signals) /\ Distinct(arrived)

(* collect adds what is not there yet, each once.                          *)
LEMMA CollectedOnce ==
  ASSUME LTypes, ArrivedOnce, NEW c \in Collected
  PROVE  c \in Seq(Signals) /\ Distinct(c)
<1> DEFINE new == pending \ ToSet(arrived)
<1>1. PICK a \in SetToSeqs(new) : c = arrived \o a
  BY DEF Collected
<1>2. IsFiniteSet(new)
  BY FS_Subset, LoopAssumption DEF LoopAssumption, LTypes
<1>3. Cardinality(new) \in Nat
  BY <1>2, FS_CardinalityType
<1>4. /\ a \in [1 .. Cardinality(new) -> new]
      /\ \A i, j \in 1 .. Cardinality(new) : i # j => a[i] # a[j]
  BY DEF SetToSeqs
<1>5. new \subseteq Signals
  BY DEF LTypes
<1>6. a \in Seq(Signals) /\ Len(a) = Cardinality(new)
  <2> DEFINE n == Cardinality(new)
  <2>1. n \in Nat /\ a \in [1 .. n -> new]
    BY <1>3, <1>4
  <2> HIDE DEF n, new
  <2>2. a \in Seq(new)
    BY <2>1, SeqDef
  <2>3. Len(a) = n
    BY <2>1, <2>2, LenProperties
  <2>4. a \in Seq(Signals)
    BY <1>5, <2>2, SeqMonotonic
  <2> QED BY <2>3, <2>4 DEF n
<1>7. \A i \in 1 .. Len(arrived) : arrived[i] \in ToSet(arrived)
  BY DEF ToSet, ArrivedOnce
<1>8. \A i \in 1 .. Len(a) : a[i] \notin ToSet(arrived)
  BY <1>4, <1>6
<1> HIDE DEF new
<1>9. /\ c \in Seq(Signals) /\ Len(c) = Len(arrived) + Len(a)
      /\ \A i \in 1 .. Len(c) : c[i] = IF i <= Len(arrived) THEN arrived[i]
                                       ELSE a[i - Len(arrived)]
  <2>1. arrived \in Seq(Signals)
    BY DEF ArrivedOnce
  <2>2. arrived \o a \in Seq(Signals) /\ Len(arrived \o a) = Len(arrived) + Len(a)
    BY <2>1, <1>6, ConcatProperties
  <2>3. \A i \in 1 .. Len(arrived) + Len(a) : (arrived \o a)[i] =
          IF i <= Len(arrived) THEN arrived[i] ELSE a[i - Len(arrived)]
    BY <2>1, <1>6, ConcatProperties
  <2> QED BY <1>1, <2>2, <2>3
<1>10. Len(arrived) \in Nat /\ Len(a) \in Nat
  BY <1>6 DEF ArrivedOnce
<1>11. ASSUME NEW i \in 1 .. Len(c), NEW j \in 1 .. Len(c), c[i] = c[j]
       PROVE  i = j
  <2>1. CASE i <= Len(arrived) /\ j <= Len(arrived)
    BY <1>9, <1>10, <1>11, <2>1 DEF ArrivedOnce, Distinct
  <2>2. CASE i > Len(arrived) /\ j > Len(arrived)
    <3>1. i - Len(arrived) \in 1 .. Len(a) /\ j - Len(arrived) \in 1 .. Len(a)
      BY <1>9, <1>10, <2>2
    <3>2. a[i - Len(arrived)] = a[j - Len(arrived)]
      BY <1>9, <1>10, <1>11, <2>2
    <3>3. i - Len(arrived) = j - Len(arrived)
      BY <1>4, <1>6, <3>1, <3>2
    <3> QED BY <1>9, <1>10, <3>3
  <2>3. CASE i <= Len(arrived) /\ j > Len(arrived)
    <3>1. j - Len(arrived) \in 1 .. Len(a) /\ i \in 1 .. Len(arrived)
      BY <1>9, <1>10, <2>3
    <3> QED BY <1>7, <1>8, <1>9, <1>10, <1>11, <2>3, <3>1
  <2>4. CASE i > Len(arrived) /\ j <= Len(arrived)
    <3>1. i - Len(arrived) \in 1 .. Len(a) /\ j \in 1 .. Len(arrived)
      BY <1>9, <1>10, <2>4
    <3> QED BY <1>7, <1>8, <1>9, <1>10, <1>11, <2>4, <3>1
  <2> QED BY <1>9, <1>10, <2>1, <2>2, <2>3, <2>4
<1> QED BY <1>9, <1>11 DEF Distinct

(* Taking the first away leaves the others distinct.                       *)
LEMMA TailDistinct ==
  ASSUME NEW c \in Seq(Signals), c # <<>>, Distinct(c)
  PROVE  Tail(c) \in Seq(Signals) /\ Distinct(Tail(c))
<1>1. /\ Tail(c) \in Seq(Signals) /\ Len(c) \in Nat /\ Len(c) > 0
      /\ Len(Tail(c)) = Len(c) - 1
      /\ \A i \in 1 .. Len(Tail(c)) : Tail(c)[i] = c[i + 1]
  OBVIOUS
<1>2. ASSUME NEW i \in 1 .. Len(Tail(c)), NEW j \in 1 .. Len(Tail(c)),
             Tail(c)[i] = Tail(c)[j]
      PROVE  i = j
  <2>1. c[i + 1] = c[j + 1] /\ i + 1 \in 1 .. Len(c) /\ j + 1 \in 1 .. Len(c)
    BY <1>1, <1>2
  <2>2. i + 1 = j + 1
    BY <2>1 DEF Distinct
  <2> QED BY <1>1, <2>2
<1> QED BY <1>1, <1>2 DEF Distinct

(* No step puts a kind of signal among the arrivals twice.                 *)
LEMMA ArrivedStep ==
  ASSUME LTypes, ArrivedOnce, [LoopNext]_allVars
  PROVE  ArrivedOnce'
<1>1. CASE UNCHANGED arrived
  BY <1>1 DEF ArrivedOnce
<1>2. ASSUME NEW p \in Everyone, NextSignalReads(p) PROVE ArrivedOnce'
  <2>1. PICK c \in Collected : c # <<>> /\ arrived' = Tail(c)
    BY <1>2 DEF NextSignalReads
  <2> QED BY <2>1, CollectedOnce, TailDistinct DEF ArrivedOnce
<1>3. ASSUME NEW p \in Everyone, StopWatching(p) PROVE ArrivedOnce'
  <2>1. arrived' = <<>>
    BY <1>3 DEF StopWatching
  <2> QED BY <2>1 DEF ArrivedOnce, Distinct
<1>4. ASSUME NEW p \in Everyone, WaitEvents(p) PROVE ArrivedOnce'
  <2>1. arrived' \in Collected \/ arrived' = arrived
    BY <1>4 DEF WaitEvents
  <2> QED BY <2>1, CollectedOnce DEF ArrivedOnce
<1>5. CASE UNCHANGED allVars
  BY <1>5, <1>1 DEF allVars, loopVars, signalVars
<1>6. ASSUME NEW p \in Everyone, ProcessStep(p) PROVE ArrivedOnce'
  <2>1. ASSUME ~NextSignalReads(p), ~StopWatching(p), ~WaitEvents(p)
        PROVE  UNCHANGED arrived
    BY <1>6, <2>1
    DEF ProcessStep, Open, Begin, Close, Shutdown, Transfer, Refused, Park,
        ParkRefused, Sleep, ParkTurns, Unpark, Watch, WatchFails,
        CallNextSignal, NextSignalFails, NextSignalParks, EventsStart,
        EventsWait, EventsYield, RoundStep, IdleReturns, Interrupted,
        loopVars, signalVars
  <2> QED BY <1>1, <1>2, <1>3, <1>4, <2>1
<1>7. ASSUME NEW f \in Fibres, EventsEnd(f) PROVE UNCHANGED arrived
  BY <1>7 DEF EventsEnd, loopVars, signalVars
<1>8. ASSUME \/ \E d \in Descriptors, dir \in Directions : BecomesReady(d, dir)
             \/ \E s \in Signals : SignalSent(s)
             \/ \E p \in Everyone : TimePasses(p)
      PROVE  UNCHANGED arrived
  BY <1>8 DEF BecomesReady, SignalSent, TimePasses, signalVars
<1> QED BY <1>1, <1>5, <1>6, <1>7, <1>8 DEF LoopNext

(* There is room for them.                                                 *)
LEMMA ArrivedFits ==
  ASSUME ArrivedOnce
  PROVE  Len(arrived) <= Cardinality(Signals)
<1>1. arrived \in [1 .. Len(arrived) -> Signals] /\ Len(arrived) \in Nat
  BY DEF ArrivedOnce
<1>2. arrived \in Injection(1 .. Len(arrived), Signals)
  BY <1>1 DEF ArrivedOnce, Distinct, Injection, IsInjective
<1>3. Cardinality(1 .. Len(arrived)) <= Cardinality(Signals)
  BY <1>2, FS_Injection, LoopAssumption DEF LoopAssumption, ExistsInjection
<1>4. Cardinality(1 .. Len(arrived)) = Len(arrived)
  <2> DEFINE n == Len(arrived)
  <2>1. n \in Nat
    BY <1>1
  <2> HIDE DEF n
  <2>2. Cardinality(1 .. n) = n
    BY <2>1, FS_Interval
  <2> QED BY <2>2 DEF n
<1> QED BY <1>3, <1>4

-----------------------------------------------------------------------------
(* What the host does to the round is a step of the round or none.         *)
LEMMA HostSteps == [LoopNext]_allVars => [Next]_vars
<1> SUFFICES ASSUME [LoopNext]_allVars PROVE [Next]_vars
  OBVIOUS
<1>1. ASSUME NEW p \in Everyone, ProcessStep(p) PROVE Next \/ UNCHANGED vars
  <2>1. ASSUME \/ \E r \in Fibres : EventsStart(p, r)
               \/ EventsWait(p) \/ EventsYield(p) \/ ParkTurns(p)
               \/ RoundStep(p) \/ IdleReturns(p) \/ WaitEvents(p)
               \/ Interrupted(p)
        PROVE  \/ \E r \in Fibres : Start(p, r)
               \/ StartTooSmall(p) \/ StartFull(p) \/ Yield(p) \/ Idled(p)
               \/ KeepTurn(p) \/ Turn(p) \/ Resume(p) \/ WaitForNobody(p)
               \/ Wait(p) \/ WaitReturns(p) \/ WaitOn(p)
    BY <2>1 DEF EventsStart, EventsWait, EventsYield, ParkTurns, RoundStep,
                IdleReturns, WaitEvents, Interrupted
  <2>2. ASSUME ~ \/ \E r \in Fibres : EventsStart(p, r)
                 \/ EventsWait(p) \/ EventsYield(p) \/ ParkTurns(p)
                 \/ RoundStep(p) \/ IdleReturns(p) \/ WaitEvents(p)
                 \/ Interrupted(p)
        PROVE  UNCHANGED vars
    BY <1>1, <2>2
    DEF ProcessStep, Open, Begin, Close, Shutdown, Transfer, Refused, Park,
        ParkRefused, Sleep, Unpark, Watch, WatchFails, CallNextSignal,
        NextSignalFails, NextSignalReads, NextSignalParks, StopWatching
  <2> QED BY <2>1, <2>2 DEF Next
<1>2. ASSUME NEW f \in Fibres, EventsEnd(f) PROVE Next
  BY <1>2 DEF EventsEnd, Next
<1>3. ASSUME \/ \E d \in Descriptors, dir \in Directions : BecomesReady(d, dir)
             \/ \E s \in Signals : SignalSent(s)
             \/ \E p \in Everyone : TimePasses(p)
             \/ UNCHANGED allVars
      PROVE  UNCHANGED vars
  BY <1>3 DEF BecomesReady, SignalSent, TimePasses, allVars
<1> QED BY <1>1, <1>2, <1>3 DEF LoopNext

(* A fibre that ends is in no call, and so not parked.                     *)
LEMMA EndingStep ==
  ASSUME IInv, LInv, NEW f \in Fibres, EventsEnd(f)
  PROVE  LInv'
<1>1. f \notin parked
  BY NotListed DEF EventsEnd, Everyone
<1>2. \A q \in parked : status'[q] # 0
  BY <1>1 DEF EventsEnd, End, IInv, TypeOK, LInv, LTypes, ParkedKept
<1>3. UNCHANGED loopVars
  BY DEF EventsEnd
<1> QED BY <1>2, <1>3, LoopStays

(* One step keeps the loop's invariant.                                    *)
LEMMA LInvStep == IInv /\ LInv /\ [LoopNext]_allVars => LInv'
<1> SUFFICES ASSUME IInv, LInv, [LoopNext]_allVars PROVE LInv'
  OBVIOUS
<1>1. ASSUME NEW p \in Everyone,
             \/ \E r \in Fibres : EventsStart(p, r)
             \/ EventsWait(p) \/ RoundStep(p) \/ ParkTurns(p)
      PROVE  LInv'
  <2>1. /\ UNCHANGED loopVars
        /\ \A q \in Everyone : status[q] # 0 => status'[q] # 0
    BY <1>1, RoundStatus DEF IInv, TypeOK
  <2>2. \A q \in parked : status'[q] # 0
    BY <2>1 DEF LInv, LTypes, ParkedKept
  <2> QED BY <2>1, <2>2, LoopStays
<1>2. CASE UNCHANGED allVars
  <2>1. UNCHANGED loopVars /\ \A q \in parked : status'[q] # 0
    BY <1>2 DEF allVars, vars, LInv, LTypes, ParkedKept
  <2> QED BY <2>1, LoopStays
<1>3. ASSUME NEW p \in Everyone, ProcessStep(p) PROVE LInv'
  BY <1>1, <1>3, OpenStep, CallStep, ParkingStep, UnparkStep, SettleStep,
     LoopStep, AsideStep DEF ProcessStep
<1> QED
  BY <1>2, <1>3, EndingStep, AsideStep DEF LoopNext

(* Made over a table that holds no record, the round and the loop over it  *)
(* keep their invariants.                                                  *)
LEMMA LoopInvariance ==
  TableWas = {NoFibre} /\ LoopSpec => [](IInv /\ LInv /\ ArrivedOnce)
<1>1. LoopInit => Init /\ LInv /\ ArrivedOnce
  <2> SUFFICES ASSUME LoopInit PROVE LInv /\ ArrivedOnce
    BY DEF LoopInit
  <2>1. NoCall \in [op : {"none", "io", "sleep", "signal"},
                    d : Descriptors \cup {NoDescriptor},
                    dir : Directions, file : Nat] /\ NoCall.op = "none"
    BY DEF NoCall, Directions
  <2>2. LTypes
    <3>1. 0 \in 0 .. MaxFiles
      BY LoopAssumption DEF LoopAssumption
    <3>2. turned \in BOOLEAN /\ stopped \in BOOLEAN
      BY DEF LoopInit
    <3>3. call \in [Everyone -> [op : {"none", "io", "sleep", "signal"},
                                d : Descriptors \cup {NoDescriptor},
                                dir : Directions, file : Nat]]
      BY <2>1 DEF LoopInit
    <3> QED BY <3>1, <3>2, <3>3 DEF LoopInit, LTypes, Answers
  <2>3. CallsKept
    BY <2>1 DEF LoopInit, CallsKept
  <2>4. ParkedKept /\ ListKept /\ EveryWaiterArmed /\ NobodyWaitsStopped
    BY DEF LoopInit, ParkedKept, ListKept, EveryWaiterArmed,
           NobodyWaitsStopped
  <2>5. ArrivedOnce
    BY DEF LoopInit, ArrivedOnce, Distinct
  <2> QED BY <2>2, <2>3, <2>4, <2>5 DEF LInv
<1>2. LoopSpec => Spec
  BY <1>1, HostSteps, PTL DEF LoopSpec, Spec
<1>3. LInv => LTypes
  BY DEF LInv
<1>4. LInv /\ ArrivedOnce /\ [LoopNext]_allVars => ArrivedOnce'
  BY <1>3, ArrivedStep
<1> QED
  BY <1>1, <1>2, <1>4, Invariance, LInvStep, PTL DEF LoopSpec

(* For any fibres, descriptors and signals, a record is on the loop's list *)
(* exactly while its fibre waits in park and nobody has answered it.       *)
THEOREM ListIsWaiters ==
  TableWas = {NoFibre} /\ LoopSpec => []ListHoldsWaiters
<1>1. LInv => ListHoldsWaiters
  BY DEF LInv, ParkedKept, ListKept, ListHoldsWaiters
<1> QED BY <1>1, LoopInvariance, PTL

(* No listed record is left deaf by a report, an arming or a close.        *)
THEOREM WaitersAreArmed ==
  TableWas = {NoFibre} /\ LoopSpec => []EveryWaiterArmed
<1>1. LInv => EveryWaiterArmed
  BY DEF LInv
<1> QED BY <1>1, LoopInvariance, PTL

(* After stop_watching nobody waits for a signal until watch is called.    *)
THEOREM StoppedIsEmpty ==
  TableWas = {NoFibre} /\ LoopSpec => []NobodyWaitsStopped
<1>1. LInv => NobodyWaitsStopped
  BY DEF LInv
<1> QED BY <1>1, LoopInvariance, PTL

(* The arrivals never outgrow the room for one of each kind of signal, and *)
(* every other variable keeps its type.                                    *)
THEOREM LoopTypes == TableWas = {NoFibre} /\ LoopSpec => []LoopTypeOK
<1>1. IInv /\ LInv /\ ArrivedOnce => LoopTypeOK
  <2> SUFFICES ASSUME IInv, LInv, ArrivedOnce PROVE LoopTypeOK
    OBVIOUS
  <2>1. Len(arrived) <= Cardinality(Signals) /\ arrived \in Seq(Signals)
    BY ArrivedFits DEF ArrivedOnce
  <2>2. \A p \in Everyone :
          /\ call[p].op \in {"none", "io", "sleep", "signal"}
          /\ call[p].d \in Descriptors \cup {NoDescriptor}
    BY DEF LInv, LTypes
  <2> QED BY <2>1, <2>2 DEF IInv, LInv, LTypes, Answers, LoopTypeOK
<1> QED BY <1>1, LoopInvariance, PTL

-----------------------------------------------------------------------------
(***************************************************************************)
(* The wait with no limit.  A fibre the loop has answered takes its answer *)
(* before it yields again, so it is none of those `quiet` counts, and the  *)
(* idler is called only when everybody is.                                 *)
(***************************************************************************)

(* Who waits for a fibre's end is in no call that could park it.           *)
WaitsAlone == \A p \in Everyone : waiting[p] => call[p] = NoCall

(* Those the loop has answered and who have not yet run to see it.         *)
Told == {p \in parked : answer[p] \in {"ready", "expired"}}

(* None of them is among those counted as having yielded in a row.         *)
AnsweredRun == \E Y \in SUBSET Everyone : QuietKept(Y) /\ Y \cap Told = {}

(* What the round counts does not depend on the loop.                      *)
LEMMA QuietSame ==
  ASSUME NEW Y, QuietKept(Y), UNCHANGED vars
  PROVE  QuietKept(Y)'
<1>1. Emptied' = Emptied /\ Unfinished' = Unfinished /\ Swept' = Swept
  BY DEF vars, Emptied, Unfinished, Swept
<1>2. Live' = Live
  BY <1>1 DEF vars, Live
<1> QED
  BY <1>1, <1>2 DEF QuietKept, InOrder, EntriesOf, Between, vars

(* A step of a process in its own code.                                    *)
OwnStep(p) ==
  \/ Open(p)
  \/ \E d \in Descriptors :
       \/ \E dir \in Directions, timed \in Timed : Begin(p, d, dir, timed)
       \/ Close(p, d)
       \/ \E dirs \in SUBSET Directions \ {{}} : Shutdown(p, d, dirs)
  \/ Transfer(p) \/ Refused(p) \/ Park(p) \/ ParkRefused(p) \/ Sleep(p)
  \/ Unpark(p)
  \/ \E s \in Signals : Watch(p, s) \/ WatchFails(p, s)
  \/ CallNextSignal(p) \/ NextSignalFails(p) \/ NextSignalReads(p)
  \/ NextSignalParks(p) \/ StopWatching(p)

(* It leaves the round alone, changes no call but its own, and tells       *)
(* nobody that it is ready or expired.                                     *)
LEMMA OwnStepTells ==
  ASSUME LInv, NEW p \in Everyone, OwnStep(p)
  PROVE  /\ UNCHANGED vars
         /\ InBody(p)
         /\ \A q \in Everyone : q # p => call'[q] = call[q]
         /\ Told' \subseteq Told
<1>0. /\ answer \in [Everyone -> Answers] /\ parked \subseteq Everyone
      /\ listed \subseteq Everyone
      /\ DOMAIN call = Everyone /\ DOMAIN answer = Everyone
  BY DEF LInv, LTypes
<1>1. CASE Open(p) \/ (\E s \in Signals : Watch(p, s) \/ WatchFails(p, s))
  BY <1>1 DEF Open, Watch, WatchFails, AtWork, recordVars, Told
<1>2. CASE \/ \E d \in Descriptors, dir \in Directions, timed \in Timed :
                Begin(p, d, dir, timed)
           \/ Transfer(p) \/ Refused(p) \/ ParkRefused(p)
           \/ CallNextSignal(p) \/ NextSignalFails(p) \/ NextSignalReads(p)
  <2>1. UNCHANGED vars /\ InBody(p) /\ UNCHANGED <<answer, parked>>
    BY <1>2 DEF Begin, Transfer, Refused, ParkRefused, CallNextSignal,
                NextSignalFails, NextSignalReads, AtWork, In
  <2>2. \A q \in Everyone : q # p => call'[q] = call[q]
    BY <1>0, <1>2 DEF Begin, Transfer, Refused, ParkRefused, CallNextSignal,
                      NextSignalFails, NextSignalReads, Done
  <2> QED BY <2>1, <2>2 DEF Told
<1>3. CASE Park(p) \/ Sleep(p) \/ NextSignalParks(p)
  <2>1. /\ UNCHANGED vars /\ InBody(p)
        /\ answer' = [answer EXCEPT ![p] = "pending"]
        /\ parked' = parked \cup {p}
    BY <1>3 DEF Park, Sleep, NextSignalParks, AtWork, In
  <2>2. \A q \in Everyone : q # p => call'[q] = call[q]
    BY <1>0, <1>3 DEF Park, Sleep, NextSignalParks
  <2>3. Told' \subseteq Told
    BY <1>0, <2>1 DEF Told
  <2> QED BY <2>1, <2>2, <2>3
<1>4. CASE Unpark(p)
  <2>1. /\ UNCHANGED vars /\ InBody(p)
        /\ answer' = [answer EXCEPT ![p] = "none"]
        /\ parked' = parked \ {p}
    BY <1>4 DEF Unpark
  <2>2. \A q \in Everyone : q # p => call'[q] = call[q]
    BY <1>0, <1>4 DEF Unpark, Done
  <2>3. Told' \subseteq Told
    BY <1>0, <2>1 DEF Told
  <2> QED BY <2>1, <2>2, <2>3
<1>5. ASSUME \/ \E d \in Descriptors :
                  \/ Close(p, d)
                  \/ \E dirs \in SUBSET Directions \ {{}} : Shutdown(p, d, dirs)
             \/ StopWatching(p)
      PROVE  /\ UNCHANGED vars /\ InBody(p) /\ call' = call
             /\ Told' \subseteq Told
  <2>1. UNCHANGED vars /\ InBody(p) /\ call' = call /\ parked' = parked
    BY <1>5 DEF Close, Shutdown, StopWatching, AtWork
  <2>2. PICK S \in SUBSET listed : answer' = Answered(S, "failed")
    <3>1. \A d, dirs : WaitingOn(d, dirs) \in SUBSET listed
      BY DEF WaitingOn
    <3>2. Signalled \in SUBSET listed
      BY DEF Signalled
    <3> QED BY <1>5, <3>1, <3>2 DEF Close, Shutdown, StopWatching, Settle
  <2>3. Told' \subseteq Told
    BY <1>0, <2>1, <2>2 DEF Told, Answered
  <2> QED BY <2>1, <2>3
<1> QED
  BY <1>1, <1>2, <1>3, <1>4, <1>5 DEF OwnStep

(* Who waits for an end stays out of every call.                           *)
LEMMA WaitsAloneStep ==
  IInv /\ WaitPlaces /\ LInv /\ WaitsAlone /\ [LoopNext]_allVars => WaitsAlone'
<1> SUFFICES ASSUME IInv, WaitPlaces, LInv, WaitsAlone, [LoopNext]_allVars
             PROVE  WaitsAlone'
  OBVIOUS
<1>0. waiting \in [Everyone -> BOOLEAN]
  BY DEF IInv, TypeOK
<1>1. ASSUME NEW p \in Everyone, OwnStep(p) PROVE WaitsAlone'
  <2>1. ~waiting[p] /\ waiting' = waiting
    BY <1>1, OwnStepTells DEF InBody, WaitPlaces, vars
  <2> QED BY <1>1, <2>1, OwnStepTells DEF WaitsAlone
<1>2. ASSUME UNCHANGED call, \A q \in Everyone : waiting'[q] => waiting[q]
      PROVE  WaitsAlone'
  BY <1>2 DEF WaitsAlone
<1>3. ASSUME NEW p \in Everyone, EventsWait(p) PROVE WaitsAlone'
  <2>1. call[p] = NoCall /\ call' = call
    BY <1>3 DEF EventsWait, loopVars, recordVars
  <2>2. \A q \in Everyone : q # p => waiting'[q] = waiting[q]
    BY <1>0, <1>3 DEF EventsWait, Wait, WaitForNobody
  <2> QED BY <2>1, <2>2 DEF WaitsAlone
<1>4. ASSUME NEW p \in Everyone,
             \/ \E r \in Fibres : EventsStart(p, r)
             \/ EventsYield(p) \/ ParkTurns(p) \/ RoundStep(p)
             \/ IdleReturns(p) \/ WaitEvents(p) \/ Interrupted(p)
             \/ TimePasses(p)
      PROVE  UNCHANGED call /\ \A q \in Everyone : waiting'[q] => waiting[q]
  <2>1. UNCHANGED call
    BY <1>4 DEF EventsStart, EventsYield, ParkTurns, RoundStep, IdleReturns,
                WaitEvents, Interrupted, TimePasses, loopVars, recordVars
  <2>2. CASE RoundStep(p)
    <3>1. CASE WaitReturns(p)
      BY <1>0, <2>1, <3>1 DEF WaitReturns
    <3>2. CASE ~WaitReturns(p)
      <4>1. waiting' = waiting
        BY <2>2, <3>2 DEF RoundStep, KeepTurn, Turn, Resume, WaitOn
      <4> QED BY <2>1, <4>1
    <3> QED BY <3>1, <3>2
  <2>3. CASE ~RoundStep(p)
    <3>1. CASE \E r \in Fibres : EventsStart(p, r)
      BY <2>1, <3>1 DEF EventsStart, Start, StartTooSmall, StartFull, vars
    <3>2. CASE EventsYield(p) \/ ParkTurns(p)
      BY <2>1, <3>2 DEF EventsYield, ParkTurns, Yield
    <3>3. CASE IdleReturns(p) \/ WaitEvents(p) \/ Interrupted(p)
      BY <2>1, <3>3 DEF IdleReturns, WaitEvents, Interrupted, Idled
    <3>4. CASE TimePasses(p)
      BY <2>1, <3>4 DEF TimePasses, vars
    <3> QED BY <1>4, <2>3, <3>1, <3>2, <3>3, <3>4
  <2> QED BY <2>1, <2>2, <2>3
<1>5. ASSUME \/ \E f \in Fibres : EventsEnd(f)
             \/ \E d \in Descriptors, dir \in Directions : BecomesReady(d, dir)
             \/ \E s \in Signals : SignalSent(s)
             \/ UNCHANGED allVars
      PROVE  UNCHANGED call /\ waiting' = waiting
  BY <1>5 DEF EventsEnd, End, BecomesReady, SignalSent, allVars, loopVars,
              recordVars, vars
<1>6. ASSUME NEW p \in Everyone, ProcessStep(p) PROVE WaitsAlone'
  BY <1>1, <1>2, <1>3, <1>4, <1>6 DEF ProcessStep, OwnStep
<1> QED
  BY <1>2, <1>4, <1>5, <1>6 DEF LoopNext

(* Nobody told is ever among those who have yielded.                       *)
LEMMA AnsweredRunStep ==
  ASSUME IInv, IInv', LInv, WaitPlaces, WaitsAlone, AnsweredRun,
         [LoopNext]_allVars
  PROVE  AnsweredRun'
<1>0. PICK Y \in SUBSET Everyone : QuietKept(Y) /\ Y \cap Told = {}
  BY DEF AnsweredRun
<1>1. ASSUME NEW Z \in SUBSET Everyone, QuietKept(Z)', Z \cap Told' = {}
      PROVE  AnsweredRun'
  BY <1>1 DEF AnsweredRun
<1>2. ASSUME UNCHANGED vars, Told' \subseteq Told PROVE AnsweredRun'
  <2>1. QuietKept(Y)' /\ Y \cap Told' = {}
    BY <1>0, <1>2, QuietSame
  <2> QED BY <1>1, <2>1
<1>3. ASSUME UNCHANGED loopVars PROVE Told' = Told
  BY <1>3 DEF loopVars, recordVars, Told
<1>4. ASSUME QuietKept({})' PROVE AnsweredRun'
  BY <1>1, <1>4
<1>5. ASSUME NEW p \in Everyone, OwnStep(p) PROVE AnsweredRun'
  BY <1>2, <1>5, OwnStepTells
<1>6. ASSUME NEW p \in Everyone, NEW r \in Fibres, EventsStart(p, r)
      PROVE  AnsweredRun'
  <2>1. CASE Start(p, r)
    BY <1>0, <1>4, <2>1, QuietAnew
  <2>2. CASE StartTooSmall(p) \/ StartFull(p)
    <3>1. QuietKept(Y)' /\ Told' = Told
      BY <1>0, <1>3, <1>6, <2>2, QuietSweep DEF EventsStart
    <3> QED BY <1>0, <1>1, <3>1
  <2> QED BY <1>6, <2>1, <2>2 DEF EventsStart
<1>7. ASSUME NEW p \in Everyone, Yield(p) \/ Wait(p) \/ WaitOn(p),
             Told' \subseteq Told, p \notin Told
      PROVE  AnsweredRun'
  <2>1. QuietKept(Y \cup {p})'
    BY <1>0, <1>7, QuietYield
  <2> QED BY <1>0, <1>1, <1>7, <2>1
<1>8. ASSUME NEW p \in Everyone, EventsYield(p) \/ ParkTurns(p)
      PROVE  AnsweredRun'
  <2>1. Yield(p) /\ Told' \subseteq Told
    BY <1>8 DEF EventsYield, ParkTurns, loopVars, recordVars, Told
  <2>2. p \notin Told
    <3>1. CASE EventsYield(p)
      BY <3>1, NotListed DEF EventsYield, AtWork, Told
    <3>2. CASE ParkTurns(p)
      BY <3>2 DEF ParkTurns, Told
    <3> QED BY <1>8, <3>1, <3>2
  <2> QED BY <1>7, <2>1, <2>2
<1>9. ASSUME NEW p \in Everyone, EventsWait(p) PROVE AnsweredRun'
  <2>1. Told' = Told /\ p \notin Told
    BY <1>3, <1>9, NotListed DEF EventsWait, Told
  <2>2. CASE Wait(p)
    BY <1>7, <2>1, <2>2
  <2>3. CASE WaitForNobody(p)
    BY <1>0, <1>1, <2>1, <2>3, QuietSweep
  <2> QED BY <1>9, <2>2, <2>3 DEF EventsWait
<1>10. ASSUME NEW p \in Everyone, RoundStep(p) PROVE AnsweredRun'
  <2>1. Told' = Told
    BY <1>3, <1>10 DEF RoundStep
  <2>2. CASE KeepTurn(p) \/ Turn(p) \/ Resume(p) \/ WaitReturns(p)
    <3>1. QuietKept(Y)'
      BY <1>0, <2>2, QuietStay, QuietTurn, QuietSweep
    <3> QED BY <1>0, <1>1, <2>1, <3>1
  <2>3. CASE WaitOn(p)
    <3>1. call[p] = NoCall
      BY <2>3 DEF WaitOn, WaitPlaces, WaitsAlone
    <3>2. p \notin Told
      BY <3>1, NotListed DEF Told
    <3> QED BY <1>7, <2>1, <2>3, <3>2
  <2> QED BY <1>10, <2>2, <2>3 DEF RoundStep
<1>11. ASSUME NEW p \in Everyone,
              IdleReturns(p) \/ WaitEvents(p) \/ Interrupted(p)
       PROVE  AnsweredRun'
  <2>1. Idled(p)
    BY <1>11 DEF IdleReturns, WaitEvents, Interrupted
  <2> QED BY <1>0, <1>4, <2>1, QuietAnew
<1>12. ASSUME NEW f \in Fibres, EventsEnd(f) PROVE AnsweredRun'
  <2>1. End(f)
    BY <1>12 DEF EventsEnd
  <2> QED BY <1>0, <1>4, <2>1, QuietAnew
<1>13. ASSUME \/ \E p \in Everyone : TimePasses(p)
              \/ \E d \in Descriptors, dir \in Directions : BecomesReady(d, dir)
              \/ \E s \in Signals : SignalSent(s)
              \/ UNCHANGED allVars
       PROVE  AnsweredRun'
  <2>1. UNCHANGED vars /\ Told' = Told
    BY <1>13 DEF TimePasses, BecomesReady, SignalSent, allVars, loopVars,
                 recordVars, Told
  <2> QED BY <1>2, <2>1
<1>14. ASSUME NEW p \in Everyone, ProcessStep(p) PROVE AnsweredRun'
  BY <1>5, <1>6, <1>8, <1>9, <1>10, <1>11, <1>14 DEF ProcessStep, OwnStep
<1> QED
  BY <1>12, <1>13, <1>14 DEF LoopNext

(* A record the loop has answered has its fibre's turn before the next     *)
(* wait with no limit, for any fibres, descriptors and signals.            *)
THEOREM AnswersAreRun == TableWas = {NoFibre} /\ LoopSpec => []LoopAnswersRun
<1> DEFINE Inv == IInv /\ LInv /\ WaitPlaces /\ WaitsAlone /\ AnsweredRun
<1>1. TableWas = {NoFibre} /\ LoopInit /\ IInv /\ LInv => Inv
  <2> SUFFICES ASSUME TableWas = {NoFibre}, LoopInit, IInv, LInv PROVE Inv
    OBVIOUS
  <2>1. Init
    BY DEF LoopInit
  <2>2. WaitPlaces /\ QuietKept({})
    BY <2>1, WaitPlacesInit, QuietInit
  <2>3. WaitsAlone
    BY DEF LoopInit, WaitsAlone
  <2> QED BY <2>2, <2>3 DEF AnsweredRun
<1>2. Inv /\ IInv' /\ LInv' /\ [LoopNext]_allVars => Inv'
  BY HostSteps, WaitPlacesStep, WaitsAloneStep, AnsweredRunStep
<1>3. Inv => LoopAnswersRun
  <2> SUFFICES ASSUME Inv, Sleeping, NEW p \in parked
               PROVE  answer[p] \notin {"ready", "expired"}
    BY DEF LoopAnswersRun
  <2>1. PICK Y \in SUBSET Everyone : QuietKept(Y) /\ Y \cap Told = {}
    BY DEF AnsweredRun
  <2>2. pc[running] = "idle"
    BY DEF Sleeping
  <2>3. p \in Unfinished
    BY DEF LInv, LTypes, ParkedKept, Unfinished
  <2>4. p \in Y
    BY <2>1, <2>2, <2>3 DEF QuietKept
  <2> QED BY <2>1, <2>4 DEF Told
<1> HIDE DEF Inv
<1>4. Inv => IInv /\ LInv
  BY DEF Inv
<1> QED
  BY <1>1, <1>2, <1>3, <1>4, LoopInvariance, PTL DEF LoopSpec
=============================================================================
