--------------------------- MODULE RoundPromises ---------------------------
(***************************************************************************)
(* What the round of core/fibre/stacks promises about time: who has run,   *)
(* yielded or ended since an earlier moment.  The history variables below  *)
(* record it; they follow from each step of Round and constrain none.      *)
(***************************************************************************)
EXTENDS Round

VARIABLES
  yielded,    \* who has yielded since anything last started, ended or idled
  owed,       \* who was unfinished at a process's yield and has not run since
  cutShort,   \* whether a fibre has ended since a process's yield
  missed      \* whether a fibre has ended since a process called wait

history == <<yielded, owed, cutShort, missed>>
allVars == <<vars, history>>

HistoryInit ==
  /\ yielded = {}
  /\ owed = [p \in Everyone |-> {}]
  /\ cutShort = [p \in Everyone |-> FALSE]
  /\ missed = [p \in Everyone |-> FALSE]

(* What kind of step this is, told from the variables of Round.            *)
Starts(r) == status[r] = 0 /\ status'[r] # 0
Ends(f)   == status[f] # 0 /\ status'[f] = 0
Yields(p) == pc[p] \in {"body", "look"} /\ pc'[p] \in {"idle", "turn"}
Calls(p)  == ~waiting[p] /\ waiting'[p]
Idles(p)  == pc[p] = "idle" /\ pc'[p] # "idle"

AnyEnds == \E f \in Fibres : Ends(f)

HistoryStep ==
  /\ yielded' = IF AnyEnds \/ \E p \in Everyone : Starts(p) \/ Idles(p)
                THEN {}
                ELSE yielded \cup {p \in Everyone : Yields(p)}
  /\ owed' = [p \in Everyone |->
                IF Yields(p) THEN Unfinished \ {p} ELSE owed[p] \ {running'}]
  /\ cutShort' = [p \in Everyone |-> ~Yields(p) /\ (cutShort[p] \/ AnyEnds)]
  /\ missed' = [p \in Everyone |-> ~Calls(p) /\ (missed[p] \/ AnyEnds)]

PromiseInit == Init /\ HistoryInit
PromiseNext == Next /\ HistoryStep
PromiseSpec == PromiseInit /\ [][PromiseNext]_allVars

-----------------------------------------------------------------------------
(* The comment of `idler` and of `round`: the idler is called only after   *)
(* every unfinished fibre has yielded and nothing has started or ended     *)
(* since.  A round that idled earlier would sleep over a fibre with work.  *)
IdleOnlyWhenQuiet ==
  \A p \in Everyone : pc[p] = "idle" => Unfinished \subseteq yielded

(* `turns` (core/fibre/fibre.ldn): "a fibre that yields lets every other   *)
(* unfinished fibre of the provider run before it resumes".                *)
TurnsPromise ==
  \A f \in Fibres : InBody(f) => owed[f] \cap Fibres = {}

(* What the round does keep of that promise: as long as no fibre ends, a   *)
(* process that yields resumes after everyone who was unfinished then.     *)
TurnsUnlessEnded ==
  \A p \in Everyone :
    running = p /\ pc[p] \in {"body", "look"} => cutShort[p] \/ owed[p] = {}

(* round_wait never sleeps through an end: while a process waits, a fibre  *)
(* that has ended since the call is one it, or another's sweep on its      *)
(* behalf, is still going to notice.                                       *)
NoEndMissed ==
  \A p \in Everyone :
    waiting[p] /\ missed[p] => since[p] \/ Emptied # {}

(* `wait` (core/fibre/fibre.ldn): "Wait until one of the provider's fibres *)
(* has finished".  round_wait goes back to its caller only then, or when   *)
(* nobody is left but the caller and Home.                                 *)
WaitKept ==
  [][\A p \in Everyone :
       waiting[p] /\ ~waiting'[p]
         => missed[p] \/ Unfinished \subseteq {p, Home}]_allVars
=============================================================================
