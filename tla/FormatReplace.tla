--------------------------- MODULE FormatReplace ---------------------------
(***************************************************************************)
(* `refine fmt` writes a formatted source into the file it read:           *)
(* src/compiler/ada/src/platform/landin_format_replace.c, as the driver    *)
(* calls it.                                                               *)
(*                                                                         *)
(* The file keeps its inode, so the write is not atomic: before the first  *)
(* byte changes the text is copied into a sibling file and the copy, then  *)
(* the directory that names it, are synced.  Power can fail between any    *)
(* two calls.  What an object holds after that is any of the contents it   *)
(* has had since it was last synced (`may`), and an entry of the directory *)
(* that was not synced may or may not be there.                            *)
(*                                                                         *)
(* A content is a version of the user's text and the form it is in: plain  *)
(* as the user wrote it, formatted, or torn (part of a write).             *)
(***************************************************************************)
EXTENDS Naturals, FiniteSets

CONSTANTS
    Objects,        \* the inodes the source's name may show
    First,          \* the one it shows at first
    Copies,         \* names .fmt-original-<pid>-<n>, n \in 1..Copies
    MaxAttempts,    \* names tried for a copy (100 in the code)
    MaxRuns,        \* invocations, one after the other, of one process id
    MaxFaults,      \* failing system calls
    MaxEdits,       \* what editors do
    DirSync         \* whether the file system can sync a directory

ASSUME FormatAssumption ==
    /\ First \in Objects
    /\ Copies \in Nat /\ MaxAttempts \in Nat \ {0} /\ MaxRuns \in Nat
    /\ MaxFaults \in Nat /\ MaxEdits \in Nat
    /\ DirSync \in BOOLEAN

VARIABLES
    name,       \* the object the source's name shows
    names,      \* the objects it may show after a power failure
    mem,        \* what each object holds
    may,        \* what it may hold after a power failure
    latest,     \* the version of the text its user last wrote
    special,    \* whether it has its set-user-ID or set-group-ID bit
    copies,     \* the copies in the directory
    pc, run,
    lease,      \* the object read, and the version read from it
    counter,    \* recovery_counter of this process
    report,     \* what the last replacement said
    cancelled, faults, edits

vars == <<name, names, mem, may, latest, special, copies, pc, run, lease,
          counter, report, cancelled, faults, edits>>

Versions == 1..MaxEdits + 1
Forms == {"plain", "formatted", "torn"}
Content == [text : Versions, form : Forms]
Plain(v) == [text |-> v, form |-> "plain"]
Formatted(v) == [text |-> v, form |-> "formatted"]
Torn(v) == [text |-> v, form |-> "torn"]

\* A copy: what it may hold, and whether its name is certain to last.
NoCopy == [there |-> FALSE, may |-> {}, lasts |-> FALSE]
Copy == [there : BOOLEAN, may : SUBSET Content, lasts : BOOLEAN]

Init ==
    /\ name = First /\ names = {First}
    /\ mem = [o \in Objects |-> Plain(1)]
    /\ may = [o \in Objects |-> {Plain(1)}]
    /\ latest = [o \in Objects |-> 1]
    /\ special \in [Objects -> BOOLEAN]
    /\ copies = [k \in 1..Copies |-> NoCopy]
    /\ pc = "start" /\ run = 1
    /\ lease = [object |-> First, text |-> 1, writable |-> TRUE, bit |-> FALSE]
    /\ counter = 0
    /\ report = "none"
    /\ cancelled = FALSE
    /\ faults = 0 /\ edits = 0

-----------------------------------------------------------------------------
Held == lease.object
Fault == faults < MaxFaults /\ faults' = faults + 1
NoFault == faults' = faults

World == <<name, names, latest, edits>>     \* what others change

\* landin_open_update: the lease keeps the descriptor the text is read from,
\* read-only where writing is refused.  The driver formats what was read; a
\* text that is formatted already, or torn beyond parsing, has no edits.
OpenUpdate ==
    /\ pc = "start"
    /\ report' = "none"
    /\ \/ /\ mem[name].form = "plain"
          /\ \E w \in BOOLEAN :
               /\ lease' = [object |-> name, text |-> mem[name].text,
                            writable |-> w, bit |-> FALSE]
               /\ IF w THEN NoFault ELSE Fault
          /\ pc' = "leased"
       \/ /\ mem[name].form # "plain"
          /\ NoFault
          /\ pc' = "closed"
          /\ UNCHANGED lease
    /\ UNCHANGED <<World, mem, may, special, copies, run, counter, cancelled>>

\* A plausible bug: the bytes are not compared with those that were read.
Bug_Refusal == cancelled \/ ~lease.writable

\* landin_replace_update up to the copy: cancelled, read-only, a special bit
\* the caller could not set again (or another attribute a write would take,
\* which is one more reason to refuse), or bytes that are no longer those
\* the lease read.
Refusal ==
    \/ cancelled
    \/ ~lease.writable
    \/ mem[Held] # Plain(lease.text)

Refuse(why) == report' = why /\ pc' = "closed"

Check ==
    /\ pc = "leased"
    /\ \/ Refusal /\ Refuse("refused") /\ UNCHANGED lease
       \/ special[Held] /\ Refuse("refused") /\ UNCHANGED lease
       \/ /\ ~Refusal
          /\ lease' = [lease EXCEPT !.bit = special[Held]]
          /\ pc' = "copy" /\ UNCHANGED report
    /\ UNCHANGED <<World, mem, may, special, copies, run, counter, cancelled, faults>>

\* The copy gets the first free name among the next MaxAttempts; O_EXCL
\* leaves a copy of an earlier process with this identifier alone.
Tried(k) == k \in counter + 1 .. counter + MaxAttempts /\ k <= Copies
FirstFree(k) ==
    /\ Tried(k) /\ ~copies[k].there
    /\ \A j \in counter + 1 .. k - 1 : copies[j].there

MakeCopy ==
    /\ pc = "copy"
    /\ \/ \E k \in 1..Copies :
            /\ FirstFree(k)
            /\ counter' = k
            /\ copies' = [copies EXCEPT ![k] =
                 [there |-> TRUE, may |-> {Torn(lease.text)}, lasts |-> FALSE]]
            /\ pc' = "keep" /\ NoFault /\ UNCHANGED report
       \/ /\ \A k \in 1..Copies : ~FirstFree(k)
          /\ counter' = counter + MaxAttempts
          /\ NoFault /\ Refuse("refused") /\ UNCHANGED copies
       \/ Fault /\ Refuse("refused") /\ UNCHANGED <<copies, counter>>
    /\ UNCHANGED <<World, mem, may, special, run, lease, cancelled>>

Mine == counter

\* Its bytes are written and synced, then its directory, which a file system
\* may be unable to do (EINVAL); any other failure gives up.
KeepCopy ==
    /\ pc = "keep"
    /\ \/ /\ NoFault /\ pc' = "named" /\ UNCHANGED report
          /\ copies' = [copies EXCEPT ![Mine].may = {Plain(lease.text)}]
       \/ /\ Fault /\ pc' = "remove" /\ report' = "refused"
          /\ UNCHANGED copies
    /\ UNCHANGED <<World, mem, may, special, run, lease, counter, cancelled>>

\* A plausible bug: the directory is not synced.
Bug_SyncDirectory == UNCHANGED copies

SyncDirectory == copies' = [copies EXCEPT ![Mine].lasts = DirSync]

SyncName ==
    /\ pc = "named"
    /\ \/ NoFault /\ pc' = "look" /\ SyncDirectory /\ UNCHANGED report
       \/ Fault /\ pc' = "remove" /\ report' = "refused" /\ UNCHANGED copies
    /\ UNCHANGED <<World, mem, may, special, run, lease, counter, cancelled>>

\* A save that was renamed onto the name, or an interruption, stops the
\* replacement before the first byte is written.
LookAtName ==
    /\ pc = "look"
    /\ IF name = Held THEN pc' = "ready" /\ UNCHANGED report
                      ELSE pc' = "remove" /\ report' = "refused"
    /\ UNCHANGED <<World, mem, may, special, copies, run, lease, counter,
                   cancelled, faults>>

\* The write, whole or torn.  Writing may clear a special bit.
Write ==
    /\ pc = "ready"
    /\ \/ /\ cancelled
          /\ pc' = "remove" /\ report' = "refused"
          /\ NoFault /\ UNCHANGED <<mem, may, special>>
       \/ /\ ~cancelled
          /\ may' = [may EXCEPT ![Held] =
                       @ \cup {Torn(lease.text), Formatted(lease.text)}]
          /\ special' = [special EXCEPT ![Held] = FALSE]
          /\ \/ /\ NoFault /\ pc' = "sync"
                /\ mem' = [mem EXCEPT ![Held] = Formatted(lease.text)]
             \/ /\ Fault /\ pc' = "undo"
                /\ mem' = [mem EXCEPT ![Held] = Torn(lease.text)]
          /\ UNCHANGED report
    /\ UNCHANGED <<World, copies, run, lease, counter, cancelled>>

Sync ==
    /\ pc = "sync"
    /\ \/ /\ NoFault /\ pc' = "mode"
          /\ may' = [may EXCEPT ![Held] = {mem[Held]}]
       \/ Fault /\ pc' = "undo" /\ UNCHANGED may
    /\ UNCHANGED <<World, mem, special, copies, run, lease, counter, report, cancelled>>

\* The original bytes are written back from memory and synced.  When that
\* fails too the copy stays and the report names it.
Undo ==
    /\ pc = "undo"
    /\ \/ /\ NoFault /\ pc' = "remove" /\ report' = "restored"
          /\ mem' = [mem EXCEPT ![Held] = Plain(lease.text)]
          /\ may' = [may EXCEPT ![Held] = {Plain(lease.text)}]
       \/ /\ Fault /\ Refuse("kept")
          /\ \E c \in {Torn(lease.text), Plain(lease.text)} :
               mem' = [mem EXCEPT ![Held] = c]
          /\ may' = [may EXCEPT ![Held] = @ \cup {Plain(lease.text)}]
    /\ UNCHANGED <<World, special, copies, run, lease, counter, cancelled>>

\* The bits a write cleared are set again, read back and synced.
RestoreMode ==
    /\ pc = "mode"
    /\ \/ /\ NoFault /\ pc' = "written" /\ UNCHANGED report
          /\ special' = [special EXCEPT ![Held] = lease.bit]
       \/ /\ Fault /\ pc' = "remove" /\ report' = "mode lost"
          /\ UNCHANGED special
    /\ UNCHANGED <<World, mem, may, copies, run, lease, counter, cancelled>>

\* A name that changed meanwhile keeps the copy and says so.
LookAgain ==
    /\ pc = "written"
    /\ IF name = Held THEN pc' = "remove" /\ report' = "formatted"
                      ELSE Refuse("renamed")
    /\ UNCHANGED <<World, mem, may, special, copies, run, lease, counter,
                   cancelled, faults>>

\* The copy goes.  The removal is not synced; when it fails only a success
\* turns into a report that names the copy.
RemoveCopy ==
    /\ pc = "remove" /\ pc' = "closed"
    /\ \/ /\ NoFault /\ UNCHANGED report
          /\ copies' = [copies EXCEPT ![Mine] = NoCopy]
       \/ /\ Fault /\ UNCHANGED copies
          /\ report' = IF report = "formatted" THEN "copy left" ELSE report
    /\ UNCHANGED <<World, mem, may, special, run, lease, counter, cancelled>>

-----------------------------------------------------------------------------
\* The next path of the command line, or the next command.
Again ==
    /\ pc = "closed" /\ run < MaxRuns
    /\ run' = run + 1
    /\ counter' \in {counter, 0}
    /\ pc' = "start" /\ report' = "none" /\ cancelled' = FALSE
    /\ UNCHANGED <<World, mem, may, special, copies, lease, faults>>

Cancel ==
    /\ ~cancelled /\ pc # "closed"
    /\ cancelled' = TRUE
    /\ UNCHANGED <<World, mem, may, special, copies, pc, run, lease, counter,
                   report, faults>>

\* An editor saves by renaming another object onto the name.
SaveByRename ==
    /\ edits < MaxEdits /\ edits' = edits + 1
    /\ \E o \in Objects \ {name} :
         /\ o # Held
         /\ name' = o /\ names' = names \cup {o}
         /\ latest' = [latest EXCEPT ![o] = edits + 2]
         /\ mem' = [mem EXCEPT ![o] = Plain(edits + 2)]
         /\ may' = [may EXCEPT ![o] = {Plain(edits + 2)}]
    /\ UNCHANGED <<special, copies, pc, run, lease, counter, report, cancelled, faults>>

\* Or writes to the file in place.  From the comparison of the bytes on,
\* another writer of the same inode is what D358 does not support.
SaveInPlace ==
    /\ edits < MaxEdits /\ edits' = edits + 1
    /\ pc \in {"start", "leased"}
    /\ latest' = [latest EXCEPT ![name] = edits + 2]
    /\ mem' = [mem EXCEPT ![name] = Plain(edits + 2)]
    /\ may' = [may EXCEPT ![name] = {Plain(edits + 2)}]
    /\ UNCHANGED <<name, names, special, copies, pc, run, lease, counter, report,
                   cancelled, faults>>

\* Power fails: every object keeps one of the contents it may hold, a copy
\* whose name was not synced may be gone.
PowerFails ==
    /\ run < MaxRuns /\ run' = run + 1
    /\ name' \in names /\ names' = {name'}
    /\ mem' \in {m \in [Objects -> UNION {may[o] : o \in Objects}] :
                   \A o \in Objects : m[o] \in may[o]}
    /\ may' = [o \in Objects |-> {mem'[o]}]
    /\ copies' \in {c \in [1..Copies -> {copies[k] : k \in 1..Copies} \cup {NoCopy}] :
                      \A k \in 1..Copies :
                        c[k] = copies[k] \/ (~copies[k].lasts /\ c[k] = NoCopy)}
    /\ pc' = "start" /\ counter' = 0 /\ report' = "none" /\ cancelled' = FALSE
    /\ UNCHANGED <<latest, special, lease, faults, edits>>

Replace ==
    Check \/ MakeCopy \/ KeepCopy \/ SyncName \/ LookAtName \/ Write \/ Sync
    \/ Undo \/ RestoreMode \/ LookAgain \/ RemoveCopy

Next ==
    \/ OpenUpdate \/ Replace \/ Again \/ Cancel
    \/ SaveByRename \/ SaveInPlace \/ PowerFails

Spec == Init /\ [][Next]_vars

-----------------------------------------------------------------------------
\* Every variable has its type; a step on a copy has one.
TypeOK ==
    /\ name \in Objects /\ names \subseteq Objects
    /\ \A o \in Objects : mem[o] \in Content /\ may[o] \subseteq Content
    /\ latest \in [Objects -> Versions] /\ special \in [Objects -> BOOLEAN]
    /\ \A k \in 1..Copies : copies[k] \in Copy
    /\ pc \in {"keep", "named", "look", "ready", "sync", "undo", "mode", "written",
               "remove"} => counter \in 1..Copies /\ copies[counter].there

\* A copy that is certain to be found holding the user's version v.
SafeCopy(k, v) ==
    copies[k].there /\ copies[k].lasts /\ copies[k].may = {Plain(v)}

\* The user's text outlives a power failure at any moment, of this and of
\* the runs before it: what an object may hold is the version last written
\* to it, plain or formatted, or else a lasting copy holds that version.
TextSurvives ==
    DirSync =>
      \A o \in Objects : \A c \in may[o] :
        \/ c \in {Plain(latest[o]), Formatted(latest[o])}
        \/ \E k \in 1..Copies : SafeCopy(k, latest[o])

\* A report is true of the file and of the copy: after `formatted` (or a lost
\* mode) the formatted text is on disk, after `restored` the user's is,
\* after `refused` the file was left alone, and after `kept` and `renamed` the copy is there for the user.
ReportTrue ==
    LET v == latest[Held]
        gone == ~copies[Mine].there
        safe == copies[Mine].there /\ copies[Mine].may = {Plain(v)}
    IN  pc = "closed" =>
        /\ report = "formatted" => may[Held] = {Formatted(v)} /\ gone
        /\ report \in {"mode lost", "copy left", "renamed"} =>
             may[Held] = {Formatted(v)}
        /\ report = "restored" => may[Held] = {Plain(v)}
        /\ report = "refused" => mem[Held] = Plain(v)
        /\ report \in {"kept", "renamed"} => safe
=============================================================================
