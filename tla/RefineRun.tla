------------------------------ MODULE RefineRun ------------------------------
(* The command `refine run`: a private directory is made, a tool builds the  *)
(* program in it, the program runs attached to the terminal and the          *)
(* directory is removed (main/refine.adb, Finish_Run and Launch of           *)
(* driver/landin-commands.adb, landin_program_run of landin_tool_process.c). *)
(* It composes the supervised tool and the owned directories with the        *)
(* signals that arrive in between. refine is single-threaded, so a signal    *)
(* runs its handler between two of its steps.                                *)
EXTENDS ToolRun

CONSTANTS
  Terminal,  \* the signals a terminal sends to the program itself (SIGINT)
  Inherited, \* the sets of signals refine may be started with ignored
  MaxSent    \* bound: signals sent to refine

ASSUME CommandAssumption ==
  /\ Terminal \subseteq Signals
  /\ Inherited \subseteq SUBSET Signals
  /\ MaxSent \in Nat

VARIABLES
  ignored,  \* the signals refine was started with ignored
  handler,  \* what each signal does: "notify", "forward" or "ignore"
  masked,   \* landin_program_run has blocked the signals it forwards
  waiting,  \* the blocked signals the system holds
  sent,     \* signals sent so far
  launch,   \* Result.Launch_Program names a program
  prog,     \* the program: "none", "running", "zombie" or "reaped"
  known,    \* landin_program_child is set
  since,    \* signals not ignored, sent from the block on
  passed,   \* signals the running program was sent
  astray    \* signals sent to its identifier after it was reaped

signalVars == <<ignored, handler, masked, waiting, sent>>
programVars == <<launch, prog, known, since, passed, astray>>
commandVars == <<signalVars, programVars>>
vars == <<pc, commandVars, toolVars, ownedVars>>

CommandSteps == {"prepare", "prepare_open", "unprepare", "check", "report",
                 "launch", "mask", "catch", "spawn", "unmask", "wait", "uncatch", "clean", "finish", "exit"}

TypeOK ==
  /\ OwnedTypeOK
  /\ ToolTypeOK
  /\ pc \in CommandSteps \cup ToolSteps
  /\ ignored \subseteq Signals
  /\ handler \in [Signals -> {"notify", "forward", "ignore"}]
  /\ waiting \subseteq Signals
  /\ sent \in 0 .. MaxSent
  /\ prog \in {"none", "running", "zombie", "reaped"}
  /\ since \subseteq Signals /\ passed \subseteq Signals
  /\ astray \subseteq Signals
  /\ {masked, launch, known} \subseteq BOOLEAN

(* The disposition landin_cancellation_begin gives a signal, and the one     *)
(* landin_program_run puts back.                                             *)
Usual(s) == IF s \in ignored THEN "ignore" ELSE "notify"

(* Begin_Invocation has been called: landin_cancellation_begin catches every *)
(* signal that was not inherited ignored.                                    *)
Init ==
  /\ OwnedInit
  /\ ToolInit
  /\ pc = "prepare"
  /\ ignored \in Inherited
  /\ handler = [s \in Signals |-> Usual(s)]
  /\ masked = FALSE
  /\ waiting = {}
  /\ sent = 0
  /\ launch = FALSE
  /\ prog = "none"
  /\ known = FALSE
  /\ since = {}
  /\ passed = {}
  /\ astray = {}

-----------------------------------------------------------------------------
(* Signals. landin_cancel_notify keeps the first; landin_program_forward     *)
(* sends its signal to the program's identifier while that is known: to the  *)
(* program, and once refine has reaped it to whatever has been given the     *)
(* identifier.                                                               *)
Notified(set) ==
  IF cancel = NoSignal /\ set # {} THEN set ELSE {cancel}

Handle(set) ==
  LET forward == IF known THEN {s \in set : handler[s] = "forward"} ELSE {}
  IN  /\ cancel' \in Notified({s \in set : handler[s] = "notify"})
      /\ passed' = IF prog = "running" THEN passed \cup forward ELSE passed
      /\ astray' = IF prog = "reaped" THEN astray \cup forward ELSE astray

(* A signal that is ignored does nothing.                                    *)
Signal(s) ==
  /\ sent < MaxSent /\ sent' = sent + 1
  /\ pc # "exit"
  /\ handler[s] # "ignore"
  /\ since' = IF s \notin Terminal
                 /\ (masked \/ known) /\ prog \in {"none", "running"}
              THEN since \cup {s} ELSE since
  /\ IF masked /\ s \notin Terminal
     THEN waiting' = waiting \cup {s} /\ UNCHANGED <<cancel, passed, astray>>
     ELSE Handle({s}) /\ UNCHANGED waiting
  /\ UNCHANGED <<pc, ignored, handler, masked, launch, prog, known, discards,
                 family, locals, effects, ownedVars>>

ProgramExits ==
  /\ prog = "running"
  /\ prog' = "zombie"
  /\ UNCHANGED <<pc, signalVars, launch, known, since, passed, astray, toolVars,
                 ownedVars>>

-----------------------------------------------------------------------------
(* Prepare_Run makes the directory; without it there is nothing to run, and  *)
(* the report says that much and no name.                                    *)
Prepare ==
  /\ \/ Goto("prepare", "prepare_open") /\ MakeDirectory(Workspace)
        /\ UNCHANGED faults
     \/ Goto("prepare", "check") /\ Fault /\ UNCHANGED dirVars
  /\ UNCHANGED <<commandVars, toolVars>>

(* landin_private_directory: a path too long for its caller's buffer cannot  *)
(* be handed out, and its directory is removed again.                        *)
OpenPrepared ==
  /\ \/ /\ Goto("prepare_open", "tool")
        /\ OpenDirectory(Workspace, "live")
        /\ UNCHANGED <<full, faults>>
     \/ /\ Goto("prepare_open", "check")
        /\ LoseDirectory(Workspace)
     \/ /\ Goto("prepare_open", "unprepare") /\ Fault
        /\ OpenDirectory(Workspace, "opened")
        /\ UNCHANGED full
  /\ UNCHANGED <<commandVars, toolVars>>

Unprepare ==
  /\ Goto("unprepare", "check")
  /\ Remove(Workspace)
  /\ UNCHANGED <<commandVars, toolVars>>

(* Finish_Run: a compiled program is launched once the report is written; on *)
(* every other way out its directory goes now. Run_Tool's locals are gone.   *)
FinishRun ==
  /\ Goto("tool_done", "check")
  /\ \/ ended = "exited" /\ launch' = TRUE /\ UNCHANGED ownedVars
     \/ launch' = FALSE /\ Remove(Workspace)
  /\ pid' = FALSE
  /\ grace' = 0
  /\ why' = "none"
  /\ ended' = "none"
  /\ notes' = {}
  /\ UNCHANGED <<signalVars, prog, known, since, passed, astray, outside,
                 family, effects>>

(* Mutant: the cancelled run keeps its directory.                            *)
Bug_CheckCancelled ==
  /\ Goto("check", "report")
  /\ launch' = (launch /\ cancel = NoSignal)
  /\ UNCHANGED <<signalVars, prog, known, since, passed, astray, toolVars,
                 ownedVars>>

(* A command cancelled by now does not launch and removes the directory.     *)
CheckCancelled ==
  /\ Goto("check", "report")
  /\ IF cancel # NoSignal /\ launch
     THEN Remove(Workspace) /\ launch' = FALSE
     ELSE UNCHANGED <<launch, ownedVars>>
  /\ UNCHANGED <<signalVars, prog, known, since, passed, astray, toolVars>>

(* The report is written out, and the program launched if there is one.      *)
Report ==
  /\ Goto("report", IF launch THEN "launch" ELSE "finish")
  /\ UNCHANGED <<commandVars, toolVars, ownedVars>>

(* Run_Attached refuses a directory that has been moved or replaced.         *)
Launch ==
  /\ Goto("launch", IF PathCurrent(Workspace) THEN "mask" ELSE "clean")
  /\ UNCHANGED <<commandVars, toolVars, ownedVars>>

(* landin_program_run, from its look at the SIGCHLD policy to the block.     *)
Mask ==
  /\ Goto("mask", IF Startable THEN "catch" ELSE "clean")
  /\ masked' = Startable
  /\ UNCHANGED <<ignored, handler, waiting, sent, programVars, toolVars,
                 ownedVars>>

Catching(s) ==
  CASE s \in Terminal -> "ignore"
    [] handler[s] = "ignore" -> "ignore"
    [] OTHER -> "forward"

Catch ==
  /\ Goto("catch", "spawn")
  /\ handler' = [s \in Signals |-> Catching(s)]
  /\ UNCHANGED <<ignored, masked, waiting, sent, programVars, toolVars,
                 ownedVars>>
(* Mutant: the handler is never told the program's identifier.               *)
Bug_Learn == UNCHANGED known

(* landin_program_child is set while the signals are still blocked.          *)
Learn == known' = TRUE

(* posix_spawn. When it fails, what was blocked is refine's again.           *)
Forwarded == Signals \ Terminal
Spawn ==
  /\ \/ /\ Goto("spawn", "unmask")
        /\ prog' = "running"
        /\ Learn
        /\ UNCHANGED <<handler, faults>>
     \/ /\ Goto("spawn", "unmask") /\ Fault
        /\ handler' = [s \in Signals |->
                          IF s \in Forwarded THEN Usual(s) ELSE handler[s]]
        /\ UNCHANGED <<prog, known>>
  /\ UNCHANGED <<ignored, masked, waiting, sent, launch, since, passed, astray,
                 toolVars, dirVars>>

(* The mask is put back: the signals the system held are handled here.       *)
Unmask ==
  /\ Goto("unmask", IF prog # "none" THEN "wait" ELSE "uncatch")
  /\ masked' = FALSE
  /\ waiting' = {}
  /\ Handle(waiting)
  /\ UNCHANGED <<ignored, handler, sent, launch, prog, known, since, discards,
                 family, locals, effects, ownedVars>>

Wait ==
  /\ prog = "zombie"
  /\ Goto("wait", "uncatch")
  /\ prog' = "reaped"
  /\ UNCHANGED <<signalVars, launch, known, since, passed, astray, toolVars,
                 ownedVars>>

Uncatch ==
  /\ Goto("uncatch", "clean")
  /\ handler' = [s \in Signals |-> Usual(s)]
  /\ known' = FALSE
  /\ UNCHANGED <<ignored, masked, waiting, sent, launch, prog, since, passed,
                 astray, toolVars, ownedVars>>

(* Launch removes the directory however the program fared.                   *)
Clean ==
  /\ Goto("clean", "finish")
  /\ Remove(Workspace)
  /\ UNCHANGED <<commandVars, toolVars>>

(* Finish_Command: the status is 128 and the recorded signal, if there is    *)
(* one.                                                                      *)
Finish ==
  /\ Goto("finish", "exit")
  /\ UNCHANGED <<commandVars, toolVars, ownedVars>>

(* A caller that was given the path may call landin_remove_tree again.       *)
RemoveAgain ==
  /\ Goto("exit", "exit")
  /\ life[Workspace] \in Handed
  /\ Remove(Workspace)
  /\ UNCHANGED <<commandVars, toolVars>>

CommandStep ==
  \/ Prepare \/ OpenPrepared \/ Unprepare
  \/ FinishRun \/ CheckCancelled \/ Report \/ Launch
  \/ Mask \/ Catch \/ Spawn \/ Unmask \/ Wait \/ Uncatch \/ Clean \/ Finish

Supervisor ==
  \/ CommandStep
  \/ ToolStep /\ UNCHANGED commandVars
  \/ RemovalStep /\ UNCHANGED <<pc, commandVars, toolVars>>

Next ==
  \/ Supervisor
  \/ RemoveAgain
  \/ \E s \in Signals : Signal(s)
  \/ ProgramExits
  \/ Family /\ UNCHANGED commandVars
  \/ OtherProcess /\ UNCHANGED <<pc, commandVars, toolVars>>

(* refine keeps running, and the deadline of a tool it polls is reached.     *)
Spec == Init /\ [][Next]_vars /\ WF_vars(Supervisor)

-----------------------------------------------------------------------------
(* The tool about to be started will have the streams it was given, whatever *)
(* numbers they are open at (landin_tool_start_in_directory). It is a fact   *)
(* of the call alone, looked at once, before the tool is started.            *)
StreamsReachTool == pc = "prepare" => StreamsRight

(* A termination or hangup sent from the block on has reached the program    *)
(* once refine waits for it, also when it was sent while the program started *)
(* (landin_program_run; D730).                                               *)
PassedOn == pc = "wait" /\ prog = "running" => since \subseteq passed

(* When the command ends, the directory it was given is gone or a reason has *)
(* named where something was left (D526: on every way out). A directory      *)
(* whose creation failed may be left without a name; then nothing was ever   *)
(* written into it and neither a tool nor a program has run.                 *)
LeftUnused ==
  /\ life[Workspace] = "lost"
  /\ Workspace \notin full
  /\ leader = "none" /\ prog = "none"
DirectoryAccounted ==
  pc = "exit" /\ Resting /\ life[Workspace] # "unmade"
    => root[Workspace] \in gone \/ told[Workspace] # {} \/ LeftUnused

(* The build always ends: the command reaches its program or its end whatever *)
(* the tool and its family do (Run_Tool's limit, the bounded cancellation).  *)
BuildEnds == pc = "prepare" ~> pc \in {"wait", "exit"}

(* "A pending run ... must not launch a program" once a cancellation has     *)
(* arrived (main/refine.adb).                                                *)
CancelledNeverLaunches == pc = "wait" => cancel = NoSignal
=============================================================================
