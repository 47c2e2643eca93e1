------------------------------- MODULE ToolRun -------------------------------
(* One external tool run and supervised: Run_Tool of                         *)
(* compiler/ada/src/platform/landin-platform-native-tools.adb over the       *)
(* process operations of landin_tool_process.c. The tool leads a process     *)
(* group of its own; its deadline, a cancellation and a failure anywhere     *)
(* stop the group and reap the tool before the capture is released. The      *)
(* supervisor's steps are its system calls; the tool, its descendants and    *)
(* the system's reuse of process identifiers run beside it.                  *)
EXTENDS OwnedDirectory, SpawnDescriptors

CONSTANTS
  Kin,        \* descendants the tool may start in its group
  Signals,    \* the signals that cancel a command
  NoSignal,   \* none was recorded
  Capture,    \* the capture directory of this tool
  Workspace,  \* the private directory the tool runs in
  MaxGrace    \* bound: looks at a cancelled tool before it is stopped (50)

ASSUME ToolAssumption ==
  /\ NoSignal \notin Signals
  /\ Capture \in Captures /\ Workspace \in PrivateRoots
  /\ MaxGrace \in Nat \ {0}

VARIABLES
  pc,        \* the supervisor's next step
  cancel,    \* landin_cancel_signal
  discards,  \* the inherited SIGCHLD policy reaps children by itself
  leader,    \* the tool: "none", "running", "zombie" or "reaped"
  grouped,   \* the tool is still in the group it was started in
  kin,       \* its descendants alive in that group
  born,      \* the descendants ever started
  pid,       \* Run_Tool's Pid is not 0
  reused,    \* the system has given the tool's identifier to another process
  struck,    \* that other process was signalled
  lost,      \* another waiter of this process has reaped the tool
  heard,     \* cancellations delivered to the running tool
  grace,     \* looks taken since the cancellation was forwarded
  why,       \* what the tool is stopped for
  ended,     \* how the run ended, as Result.Ended or the exception says
  notes      \* what the raised message says was left behind

family == <<leader, grouped, kin, born, reused, lost>>
effects == <<struck, heard>>
locals == <<pid, grace, why, ended, notes>>
outside == <<cancel, discards>>
toolVars == <<family, effects, locals, outside>>
dirVars == <<name, slot, full, gone, root, life, told, job, answer, moves>>

ToolSteps == {"tool", "capture", "open_capture", "start", "poll", "forward",
              "observe", "direct", "grace", "stop", "stop_child", "reap", "read",
              "release", "released", "unwind", "unmake", "tool_done"}

ToolTypeOK ==
  /\ cancel \in Signals \cup {NoSignal}
  /\ leader \in {"none", "running", "zombie", "reaped"}
  /\ kin \subseteq born /\ born \subseteq Kin
  /\ heard \in Nat
  /\ grace \in 0 .. MaxGrace
  /\ why \in {"none", "cancelled", "limit", "unwind"}
  /\ ended \in {"none", "exited", "signaled", "timed_out", "not_started", "failed"}
  /\ notes \subseteq {"tool", "capture"}
  /\ {discards, grouped, pid, reused, struck, lost} \subseteq BOOLEAN

ToolInit ==
  /\ cancel = NoSignal
  /\ discards \in BOOLEAN
  /\ leader = "none"
  /\ grouped = TRUE
  /\ kin = {}
  /\ born = {}
  /\ pid = FALSE
  /\ reused = FALSE
  /\ struck = FALSE
  /\ lost = FALSE
  /\ heard = 0
  /\ grace = 0
  /\ why = "none"
  /\ ended = "none"
  /\ notes = {}

Goto(from, to) == pc = from /\ Resting /\ pc' = to

-----------------------------------------------------------------------------
(* The tool and its family.                                                  *)

(* The tool exits. A discarding policy would let the system reap it at once. *)
LeaderExits ==
  /\ leader = "running"
  /\ leader' = IF discards THEN "reaped" ELSE "zombie"
  /\ UNCHANGED <<pc, outside, lost, grouped, kin, born, locals, reused,
                 effects, ownedVars>>

(* A member of the group starts a descendant, which stays in the group.      *)
Fork ==
  /\ (leader = "running" /\ grouped) \/ kin # {}
  /\ \E k \in Kin \ born : kin' = kin \cup {k} /\ born' = born \cup {k}
  /\ UNCHANGED <<pc, outside, lost, leader, grouped, locals, reused, effects,
                 ownedVars>>

KinExits ==
  /\ \E k \in kin : kin' = kin \ {k}
  /\ UNCHANGED <<pc, outside, lost, leader, grouped, born, locals, reused,
                 effects, ownedVars>>

(* The tool moves to another group; it does not come back.                   *)
LeavesGroup ==
  /\ leader = "running" /\ grouped
  /\ grouped' = FALSE
  /\ UNCHANGED <<pc, outside, lost, leader, kin, born, locals, reused, effects,
                 ownedVars>>

(* The tool or a descendant writes into the directory it runs in.            *)
FamilyWrites ==
  /\ leader = "running" \/ kin # {}
  /\ WriteInto(Workspace)
  /\ UNCHANGED <<pc, toolVars>>

(* Once the tool is reaped and nobody is in its group, the system may give   *)
(* its identifier to another process.                                        *)
Reuse ==
  /\ leader = "reaped" /\ kin = {} /\ ~reused
  /\ reused' = TRUE
  /\ UNCHANGED <<pc, outside, lost, leader, grouped, kin, born, locals,
                 effects, ownedVars>>

(* Outside the contract: another waiter in the process takes the status.     *)
Competitor ==
  /\ leader = "zombie"
  /\ leader' = "reaped"
  /\ lost' = TRUE
  /\ UNCHANGED <<pc, outside, grouped, kin, born, locals, reused, effects,
                 ownedVars>>

Family == LeaderExits \/ Fork \/ KinExits \/ LeavesGroup \/ FamilyWrites \/ Reuse
          \/ Competitor

-----------------------------------------------------------------------------
(* kill. The group holds the tool, a zombie too, while it has not left it.   *)
InGroup == leader \in {"running", "zombie"} /\ grouped
NoGroup == ~InGroup /\ kin = {} /\ ~reused

Strike == struck' = (struck \/ reused)

(* kill (-child, number): a catchable signal.                                *)
SignalGroup ==
  /\ Strike
  /\ heard' = heard + (IF leader = "running" /\ grouped THEN 1 ELSE 0)

(* Mutant: the tool alone is killed.                                         *)
Bug_KillGroup ==
  /\ Strike
  /\ leader' = IF leader = "running" THEN "zombie" ELSE leader
  /\ UNCHANGED kin

(* kill (-child, SIGKILL).                                                   *)
KillGroup ==
  /\ Strike
  /\ kin' = {}
  /\ leader' = IF leader = "running" /\ grouped THEN "zombie" ELSE leader

(* Mutant: only the group is killed.                                         *)
Bug_KillLeader == UNCHANGED <<struck, leader>>

(* kill (child, SIGKILL).                                                    *)
KillLeader ==
  /\ Strike
  /\ leader' = IF leader = "running" THEN "zombie" ELSE leader

-----------------------------------------------------------------------------
(* Run_Tool up to the started tool. A command already cancelled starts none. *)
Begin ==
  /\ IF cancel # NoSignal
     THEN Goto("tool", "tool_done") /\ ended' = "not_started"
     ELSE Goto("tool", "capture") /\ UNCHANGED ended
  /\ UNCHANGED <<outside, family, pid, effects, grace, why, notes, ownedVars>>

(* landin_tool_capture: its directory is made, opened, and a capture file    *)
(* created and unlinked in it, so that the directory stays empty.            *)
MakeCapture ==
  /\ \/ Goto("capture", "open_capture") /\ MakeDirectory(Capture)
        /\ UNCHANGED faults
     \/ Goto("capture", "unwind") /\ Fault /\ UNCHANGED dirVars
  /\ UNCHANGED toolVars

(* When the file cannot be made, or not be unlinked, the directory is        *)
(* removed again.                                                            *)
OpenCapture ==
  /\ \/ /\ Goto("open_capture", "start")
        /\ OpenDirectory(Capture, "live")
        /\ UNCHANGED <<full, faults>>
     \/ /\ Goto("open_capture", "unwind")
        /\ LoseDirectory(Capture)
     \/ /\ Goto("open_capture", "unmake") /\ Fault
        /\ OpenDirectory(Capture, "opened")
        /\ full' \in {full, full \cup {root'[Capture]}}
  /\ UNCHANGED toolVars

UnmakeCapture ==
  /\ Goto("unmake", "unwind")
  /\ Remove(Capture)
  /\ UNCHANGED toolVars

(* Mutant: the policy is not looked at.                                      *)
Bug_Startable == TRUE

(* landin_child_wait_policy.                                                 *)
Startable == ~discards

(* landin_tool_start: refused under a policy that would reap the tool        *)
(* itself; the group exists before the tool's first instruction.             *)
StartTool ==
  /\ \/ /\ Startable
        /\ Goto("start", "poll")
        /\ leader' = "running"
        /\ pid' = TRUE
        /\ UNCHANGED ownedVars
     \/ /\ ~Startable \/ faults < MaxFaults
        /\ Goto("start", "unwind")
        /\ faults' = faults + (IF Startable THEN 1 ELSE 0)
        /\ UNCHANGED <<leader, pid, dirVars>>
  /\ UNCHANGED <<outside, lost, grouped, kin, born, reused, effects, grace,
                 why, ended, notes>>

(* The polling loop: a cancellation goes first, then waitpid, then the       *)
(* deadline, which may have passed at any turn.                              *)
PollCancelled ==
  /\ cancel # NoSignal
  /\ Goto("poll", "forward")
  /\ UNCHANGED <<toolVars, ownedVars>>

(* landin_tool_wait_reserved: *owned is cleared when the child is reaped     *)
(* here, and when it turns out to be no child any more.                      *)
StillOwned == leader \in {"running", "zombie"}
PollReaped ==
  /\ cancel = NoSignal
  /\ \/ /\ leader = "zombie"
        /\ Goto("poll", "read")
        /\ leader' = "reaped"
     \/ /\ ~StillOwned
        /\ Goto("poll", "unwind")
        /\ UNCHANGED leader
  /\ pid' = FALSE
  /\ UNCHANGED <<outside, lost, grouped, kin, born, reused, effects, grace,
                 why, ended, notes, ownedVars>>

PollLate ==
  /\ cancel = NoSignal /\ leader = "running"
  /\ Goto("poll", "stop")
  /\ why' = "limit"
  /\ UNCHANGED <<outside, family, pid, effects, grace, ended, notes,
                 ownedVars>>

-----------------------------------------------------------------------------
(* Mutant: the tool is told again after its group was.                       *)
Bug_AfterGroup == "direct"

(* landin_tool_cancel_reserved. A delivery to the group that succeeded is    *)
(* not repeated to the tool.                                                 *)
AfterGroup == "grace"
Forward ==
  /\ \/ ~NoGroup /\ Goto("forward", AfterGroup) /\ SignalGroup
     \/ NoGroup /\ Goto("forward", "observe") /\ UNCHANGED effects
  /\ UNCHANGED <<outside, family, locals, ownedVars>>

(* waitid with WNOWAIT tells a tool that left its group from one that ended. *)
Observe ==
  /\ \/ leader = "running" /\ Goto("observe", "direct") /\ UNCHANGED pid
     \/ leader = "zombie" /\ Goto("observe", "grace") /\ UNCHANGED pid
     \/ ~StillOwned /\ Goto("observe", "unwind") /\ pid' = FALSE
  /\ UNCHANGED <<outside, family, effects, grace, why, ended, notes,
                 ownedVars>>

Direct ==
  /\ Goto("direct", "grace")
  /\ Strike
  /\ heard' = heard + (IF leader = "running" THEN 1 ELSE 0)
  /\ UNCHANGED <<outside, family, locals, ownedVars>>

(* The bounded wait for an ordinary shutdown.                                *)
GraceLeft == grace < MaxGrace
Grace ==
  /\ \/ /\ leader = "running" /\ GraceLeft
        /\ Goto("grace", "grace")
        /\ grace' = grace + 1
        /\ UNCHANGED <<pid, why>>
     \/ /\ leader = "zombie" \/ ~GraceLeft
        /\ Goto("grace", "stop")
        /\ why' = "cancelled"
        /\ UNCHANGED <<pid, grace>>
     \/ /\ ~StillOwned /\ GraceLeft
        /\ Goto("grace", "unwind")
        /\ pid' = FALSE
        /\ UNCHANGED <<grace, why>>
  /\ UNCHANGED <<outside, family, effects, ended, notes, ownedVars>>

(* A kill the system refuses fails the cancellation or the stop; the child   *)
(* is still owned, so the exception's cleanup tries to stop it once more and *)
(* says so when that is refused as well.                                     *)
Refused ==
  /\ \/ pc \in {"forward", "stop"} /\ ~NoGroup
     \/ pc \in {"direct", "stop_child"} /\ StillOwned
  /\ Fault
  /\ IF why = "unwind"
     THEN Goto(pc, "release") /\ notes' = notes \cup {"tool"}
     ELSE Goto(pc, "unwind") /\ UNCHANGED notes
  /\ UNCHANGED <<outside, family, pid, effects, grace, why, ended, dirVars>>

(* landin_tool_stop: the group, then the tool wherever it is, then waitpid.  *)
StopGroup ==
  /\ Goto("stop", "stop_child")
  /\ KillGroup
  /\ UNCHANGED <<outside, lost, grouped, born, locals, reused, heard,
                 ownedVars>>

StopLeader ==
  /\ Goto("stop_child", "reap")
  /\ KillLeader
  /\ UNCHANGED <<outside, lost, grouped, kin, born, locals, reused, heard,
                 ownedVars>>

(* The tool is reaped last, so its identifier stays reserved until then. A   *)
(* status taken by another waiter fails the stop: a cancellation then gives  *)
(* the identifier up, Stop_Child keeps it.                                   *)
Reap ==
  /\ \/ /\ leader = "zombie"
        /\ Goto("reap", IF why = "unwind" THEN "release" ELSE "read")
        /\ leader' = "reaped"
        /\ pid' = FALSE
        /\ UNCHANGED notes
     \/ /\ leader = "reaped"
        /\ Goto("reap", IF why = "unwind" THEN "release" ELSE "unwind")
        /\ notes' = IF why = "unwind" THEN notes \cup {"tool"} ELSE notes
        /\ pid' = (pid /\ why # "cancelled")
        /\ UNCHANGED leader
  /\ UNCHANGED <<outside, lost, grouped, kin, born, reused, effects, grace,
                 why, ended, ownedVars>>

-----------------------------------------------------------------------------
(* The capture is read through its descriptor and the outcome decided: the   *)
(* limit and the cancellation go before what waitpid said.                   *)
Outcome ==
  CASE why = "limit" -> {"timed_out"}
    [] why = "cancelled" -> {"signaled"}
    [] OTHER -> {"exited", "signaled"}

ReadCapture ==
  /\ \/ /\ Goto("read", "release")
        /\ ended' \in Outcome
        /\ UNCHANGED faults
     \/ /\ Goto("read", "unwind")
        /\ Fault
        /\ UNCHANGED ended
  /\ UNCHANGED <<outside, family, pid, effects, grace, why, notes, dirVars>>

(* Cleanup_Capture, in the ordinary flow and in the exception's.             *)
Release ==
  /\ IF life[Capture] = "live"
     THEN Goto("release", "released") /\ Remove(Capture) /\ UNCHANGED ended
     ELSE /\ Goto("release", "tool_done")
          /\ UNCHANGED ownedVars
          /\ ended' = IF ended = "none" THEN "failed" ELSE ended
  /\ UNCHANGED <<outside, family, pid, effects, grace, why, notes>>

Released ==
  /\ Goto("released", "tool_done")
  /\ ended' = IF answer = "refused" \/ ended = "none" THEN "failed" ELSE ended
  /\ notes' = IF answer = "refused" THEN notes \cup {"capture"} ELSE notes
  /\ UNCHANGED <<outside, family, pid, effects, grace, why, ownedVars>>

(* The exception handler: Stop_Child while Pid is not 0, then the capture.   *)
Unwind ==
  /\ IF pid THEN Goto("unwind", "stop") /\ why' = "unwind"
            ELSE Goto("unwind", "release") /\ UNCHANGED why
  /\ UNCHANGED <<outside, family, pid, effects, grace, ended, notes,
                 ownedVars>>

ToolStep ==
  \/ Begin \/ MakeCapture \/ OpenCapture \/ UnmakeCapture \/ StartTool
  \/ PollCancelled \/ PollReaped \/ PollLate
  \/ Forward \/ Observe \/ Direct \/ Grace \/ Refused
  \/ StopGroup \/ StopLeader \/ Reap
  \/ ReadCapture \/ Release \/ Released \/ Unwind

-----------------------------------------------------------------------------
(* No signal of the supervisor reaches a process that was given the tool's   *)
(* identifier: while nobody else reaps the tool, it is unreaped whenever a   *)
(* signal is sent (landin_tool_stop, landin_tool_cancel_reserved).           *)
OnlyOursSignalled == struck => lost

(* A cancellation is delivered to the tool at most once: "a catchable        *)
(* handler may already be running by the time kill returns".                 *)
HeardOnce == heard <= 1

(* A tool stopped for its limit or a cancellation leaves no member of its    *)
(* group and no zombie; a run that fails leaves no tool unless it says so.   *)
NothingLeftRunning ==
  pc = "tool_done" =>
    /\ why \in {"limit", "cancelled"} => leader = "reaped" /\ kin = {}
    /\ leader \in {"none", "reaped"} \/ (ended = "failed" /\ "tool" \in notes)
=============================================================================
