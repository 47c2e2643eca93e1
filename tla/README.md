# A verification of Landin's library and of the compiler's file operations

Landin is a systems language with its compiler, `refine`, and a standard
library. Two parts of it are hard to test. The library lets a program do
several things at once: the lock threads share, the round that gives fibres
their turns, the groups of tasks over fibres and over threads, the
event-driven host. The compiler is sequential, but it works on a file system
and beside processes that are not: it publishes outputs other programs write
too, rewrites the user's source in place, supervises tools, and runs the
program it built. This project models both, checks them with TLC and proves
the central invariants with TLAPS.

## 1. Inventory

| part | where | state it keeps | operations |
|---|---|---|---|
| thread lock | `hosted/thread/lock`, over `platform/posix/waits.ldn` | one `u32` cell: free, taken, contended; the process-wide `started` | `take`, `take_if_free`, `give`, `note_start`, `threads_started` |
| round of fibres | `core/fibre/stacks` | the caller's table of records, `count`, `current`, `quiet`, `ended` | `start`, `finished`, `wait`, `yield`, the first frame's end, the idler's call |
| fibre groups | `core/fibre` | a ledger (`failed`, `problem`) and one record per stack | `admit`, `join`, over any provider of turns |
| thread groups | `hosted/thread` | a ledger with a claim, per stack `running`, `order`, `ended`, the system's word | `admit`, `join` |
| event-driven host | `hosted/events` | the list of waiting records, `turned`, the epoll queue, the signalfd, watched and arrived signals | reads, writes, accept, send, receive, close, shutdown, sleep, `watch`, `next_signal`, `stop_watching`, the idler |
| heap | `hosted/heap` | size classes and their free lists behind one thread lock | allocate, resize, free |
| blocking host, host services | `hosted/blocking`, `hosted/system` | the last errno | one system call per operation |
| containers | `core/map`, `vec`, `pool`, `region`, `arena`, `spill`, `tree`, `sort` | their elements | insertion, removal, lookup |
| I/O protocols, text, time | `core/io`, `core/net`, `core/text`, `core/time` | buffers | formatting, parsing, buffering |
| output publication | `compiler/ada/src/platform/landin_publication.c`, `landin-platform-publication.adb` | per invocation an arena (stage, recovery, records, lease) and its publications; the public names | prepare, stage, commit (validate, capture, install), abort, finish |
| file identity | `platform/landin_file_identity.c` | none | may two output paths be one file? |
| formatter update | `platform/landin_format_replace.c` | a lease on the file that was read, the copy, the copy's counter | open, replace, close |
| private directories | `platform/landin_owned_directory.h`, the registry of `landin_file_identity.c` | the registered directories, their descriptors, names and retirement slots | create, write into, remove |
| supervised tools | `platform/landin_tool_process.c`, `landin-platform-native-tools.adb` | the tool's identifier, its capture, the recorded signal | start, poll, cancel, stop, reap, read and release the capture |
| `refine run` | `main/refine.adb`, `driver/landin-commands.adb` | the signal dispositions, the program, its directory | prepare, build, launch, forward signals, clean up |
| compiler passes | `compiler/ada/src` | trees and tables of one compilation | passes |
| language server | `compiler/ada/src/server` | sessions, documents and their versions | requests and notifications |
| platforms, devices, bindings | `platform`, `devices`, `bindings` | none | system calls, registers, generated tables |

How they interact. A *fibre group* calls its provider's `start`, `wait` and
`finished`; a *round* is such a provider, and so is the event-driven host,
which passes those calls to a round of its own. The round calls an *idler*
when everybody has yielded and nothing has happened; the host's idler is the
wait for events, so the loop runs on the stack of whichever fibre yielded
last. A call of the host that would wait links a record, on its own stack,
into the loop's list and yields until the record is answered, by the loop or
by another fibre that closes or shuts what it waits on. A *thread group*
starts system threads; from its first start on (`note_start`) the heap and
the host take a *thread lock* around their shared state.

A command of the compiler stages its outputs and runs its tools in *private
directories* and arenas, asks *file identity* whether outputs, inputs and one
another are separate, and *publishes* the outputs as a group when everything
succeeded. `refine run` has a *supervised tool* build the program into a
private directory, launches it, and removes the directory. `refine fmt`
*updates* each file through a lease on the very file it read.

What is hard. Threads interleave at every access to a shared cell (the lock,
the ledger's claim, `ended`). Fibres interleave only at yields, but there
everything may happen: a fibre may end, start others, or close what a
suspended one was just told is ready. One report of epoll disarms a
descriptor for all its waiters. Starts are refused half way. Deadlines pass
while a record is being answered. A sleep with no limit entered one moment
too early never ends. The compiler holds no lock on anything public: between
any two of its system calls an editor saves, another invocation publishes the
same names, a directory is renamed away, power fails, a signal arrives, or
the tool forks, leaves its group or exits; and any call may be refused half
way through a group. `PROJECT.json` lists these hazards at their lines.

What makes each part correct:

* lock: one holder; no sleeper nobody will wake; no lost wake-up;
* round: every unfinished process keeps exactly one entry; `current` is the
  running one's; only a suspended or new stack is switched to; it idles only
  after everybody yielded; a wait ends exactly when a fibre has;
* groups: a stack is reused only when its task has ended *and* nothing runs
  on it; the first failure is kept, and handed on once; `join` returns, after
  every task;
* event-driven host: the list is exactly the unanswered waiters; each of them
  is armed; nobody sleeps beside what it waits for;
* publication: a group is published or rolled back as a whole; nothing of
  anybody else's is ever destroyed; what is taken from a public name is
  recorded before it is taken; what stays behind is reported, or is left by
  an invocation that failed;
* formatter update: at every moment, power failures included, the user's text
  is in the file or in a copy that lasts, and the report says which;
* private directories: only our own directory is emptied and removed;
* tools and `refine run`: a build tool is signalled only while it is ours, and told to end at most once;
  nothing is left running; what a command used is removed or reported; the
  command ends.

## 2. Modules

| module | models | extends |
|---|---|---|
| `AbstractLock` | what a lock promises: a set of holders, at most one | |
| `ThreadLock` | `lock.ldn`: one action per atomic access or system call | |
| `ThreadLock_proofs` | theorems about `ThreadLock` | `ThreadLock` |
| `Round` | `stacks.ldn`: one action per stretch between calls of the idler, switches and returns | |
| `RoundPromises` | history variables and the round's promises about time | `Round` |
| `Round_proofs` | theorems about `Round` | `Round` |
| `AbstractGroup` | what a group promises, over fibres or threads | |
| `FibreGroup` | `fibre.ldn`, composed with the round; groups may be nested | `Round` |
| `Fibre_proofs` | theorems about the round's promises and the groups on it | `RoundPromises`, `FibreGroup`, `Round_proofs` |
| `ThreadGroup` | `thread.ldn`: the owner's loops and each thread's accesses to what it shares | |
| `ThreadGroup_proofs` | theorems about `ThreadGroup` | `ThreadGroup` |
| `EventLoop` | `events.ldn`, `network.ldn`, `signals.ldn`, `time.ldn` on Linux, composed with the round | `Round` |
| `EventLoop_proofs` | theorems about `EventLoop` | `EventLoop`, `Round_proofs` |
| `Publication` | `landin_publication.c` and its transactions: one action per system call on a public name, per step elsewhere | |
| `Publication_proofs` | theorems about `Publication` | `Publication` |
| `FileIdentity` | `landin_file_identity.c`: when two names are one file, as operators | |
| `FormatReplace` | `landin_format_replace.c`: one action per call that can fail | |
| `FormatReplace_proofs` | theorems about `FormatReplace` | `FormatReplace` |
| `OwnedDirectory` | `landin_owned_directory.h`: one action per system call on the name space | |
| `SpawnDescriptors` | the file actions a tool is started with, as operators | |
| `ToolRun` | `Run_Tool` over `landin_tool_process.c`: one action per system call | `OwnedDirectory`, `SpawnDescriptors` |
| `RefineRun` | `refine run`: composes the tool, the directories, signals and the program | `ToolRun` |
| `RefineRun_proofs` | theorems about `RefineRun` | `RefineRun` |
| `MC...` | the instances TLC checks | |

The operators named `Bug_...` are single mistakes a change to the code could
make. No specification uses them; each stands before the definition it is a
mistaken form of, and replacing the one by the other makes the property named
in `PROJECT.json` fail. They show that the property depends on that line.

### How state and actions correspond to the code

**ThreadLock.** `word` is the cell. `take`'s local `seen` is folded into the
thread's place: a thread that saw `contended` goes to `wait`, one that saw
`taken` exchanges first (`swap`). `WaitOn` compares and sleeps in one step, as
the system does, and `Return` lets any sleeper come back for no reason.

**Round.** `entries`, `count`, `current`, `quiet` and the records' `status`
are the code's. Only the running process executes, so an action is everything
it does up to the next point at which another could. `was` is the local of
`round_yield` that survives its switch. The counter `ended` is only compared
with its value before a yield, so the model keeps, per waiting process,
whether the two differ (`since`) and needs no unbounded counter. `sweep` is
part of every action that calls it. The failing starts are actions: a full
table (`StartFull`) and a stack `prepare` refuses after the count was raised
(`StartTooSmall`).

**FibreGroup.** Each action is the round's action together with what the
group's code does around it. A task that makes a group joins it before it
returns, which is what the ownership rules ask of it. The bytes of the layout
are abstracted to whether they suffice.

**ThreadGroup.** The owner's `running`, `order` and `admitted` are read by
nobody else, so its actions run from one read of `ended`, join, note or start
to the next: a task is laid out and the start noted (`LayOut`) before the
system is asked for a thread (`Start`, `StartRefused`), and the threads that
run already may act in between. A thread's actions are the claim's
compare-exchange, the two plain
writes of the ledger, the store of `ended` and the end, at which the system
clears the word the join waits for.

**EventLoop.** A descriptor number names a file, and a close gives the number
back; files are numbered in the order they are opened so that a call can
remember which one it was made on. The list of records is the set of the
processes whose record is on it: every walk treats each record by itself, so
the order decides nothing. `deadline` is none, ahead or passed, and time may
pass between any two steps. The system's side (readiness, signals, the clock,
interruptions, a refused arming) acts freely. `WaitEvents` takes every report
at once: epoll returns up to sixteen, more than an instance has descriptors.

**Publication.** An object is an inode, and the publication holds the expected
one open, so identities are not reused. `ent[t]` is the list of a
transaction's `struct publication`s; `arena` the invocation's directory with
its reference count, its producer lease and whether it is retained; `stage`,
`previous` and `rollback` are the private entries on disk. A commit goes
through the entries action by action, as `Commit` does; each capture,
installation and restoration is one step, and the rollback's rename and the
look at what it caught are two. `landin_publication_step` holds the registry
mutex, which only excludes transactions of the same invocation (`Registry`).
`NoReplace` is the rename that replaces nothing, with the hard-link fallback
whose unlink may fail. A scene says which transactions an instance has, with
which outputs, deletions, required absences, trees and protected inputs.
A crash keeps what is on disk and forgets the rest. `made`, `dropped`,
`doubled` and `hands` are history: what the tools staged, what its owner gave
up, what a rollback met twice, and who moved each name's entry. A preparation
(`Record`) may fail in three ways: with nothing made; in `arena_for` after its
`mkdirat`, which leaves a directory that no arena holds, no message names and,
as its stage and recovery are missing or empty, no later invocation is stopped
by (`stray`); and after the arena was made, which quarantines and names it.

**FileIdentity.** A volume may fold case, equate Unicode forms, drop trailing
dots or give short names; `name_rules` leaves a set of volumes possible.
`names_alias` and `destination` are the code's; `OneEntry` and `Opened` say
what such a volume does. The model's names have one or two characters, one
for each class the code tells apart.

**FormatReplace.** `mem` is what a file holds now, `may` what it may hold after
a power failure: a write adds to it, a sync reduces it to one. A copy has the
same and `lasts`, whether its name is on disk. Texts are versions, each plain,
formatted or torn.

**OwnedDirectory.** `name[r]` is what the public name of a scratch directory
holds, `slot[r]` what was moved into its retirement slot, `root[r]` the entry
its descriptor is open on and its identity was taken of, `life[r]` how far the
directory and its record have come. Making one is two calls
(`MakeDirectory`, `OpenDirectory`), and other processes move entries between
them as between any two others, so `root[r]` may be an entry of theirs. The
second call may fail (`LoseDirectory`), and a caller that cannot put the
record into its registry removes the directory again and drops the record with
whatever the removal had to say (`"opened"` to `"lost"` in `Return`).

**ToolRun, RefineRun.** `pc` is the supervisor's next system call. The tool is
running, a zombie or reaped, in its group or not; `kin` are its descendants in
the group; `reused` says that the system has given its identifier to another
process, which `struck` catches being signalled. A signal's handler runs
between any two steps of refine, which has one thread: so
`landin_program_pending` is never seen set. `masked` is the block of
`landin_program_run`, `waiting` what the system holds meanwhile; `passed` is
what the running program was sent, `astray` what was sent to its identifier
after it was reaped. The private directory of the command is made in two steps
(`Prepare`, `OpenPrepared`) and removed again when its path does not fit
(`Unprepare`); the command's own buffer is long enough for every path, but the
function is not the command's. A capture is made in the same way. The file
actions are evaluated once, before the tool is started.

## 3. Runs

| run | instance | shows |
|---|---|---|
| `thread_lock` | 4 threads | `MutualExclusion`, `SleepersAwaited`, `ImplementsLock`; with fairness `NoLostWake` |
| `round` | 3 fibres, a table for all | `NobodyLost`, `CurrentRuns`, `OnlySuspendedResumed`, `IdleOnlyWhenQuiet`, `TurnsUnlessEnded`, `NoEndMissed`, `WaitKept` |
| `round_turns` | the same | **fails** `TurnsPromise` |
| `fibre_group` | an outer group of 2 stacks, an inner of 1, 2 failures | `ImplementsGroup`; with fairness `JoinTerminates` |
| `thread_group` | 3 stacks, 4 tasks, 2 failures | `StackFree`, `LedgerUnraced`, `ImplementsGroup`; with fairness `CallsReturn` |
| `events` | 2 fibres, 1 number, 2 files, 1 signal, deadlines | `LoopTypeOK`, `ListHoldsWaiters`, `EveryWaiterArmed`, `LoopAnswersRun`, `NobodyWaitsStopped` |
| `events_close` | the same, no deadlines or signals | **fails** `SleepsOnlyOverWaiters` |
| `events_reuse` | the same | **fails** `CallKeepsItsFile` |
| `publication` | 2 transactions, of two invocations or of one, over 2 names; 2 contents; 1 edit; 1 trouble | `NothingLost`, `RecoveryRecorded`, `OneSuccessor`, `GroupAtomic`, `LitterReported`, `PreflightSeparates` |
| `format_replace` | 2 inodes, 3 commands, 2 copies, 2 faults, 1 edit | `TextSurvives`, `ReportTrue` |
| `refine_run` | a tool with 1 descendant, 2 signals of which 1 is sent, 2 renames by others, 1 refused call | `StreamsReachTool`, `ForeignUntouched`, `StrandedTold`, `RemovedMeansGone`, `OnlyOursSignalled`, `HeardOnce`, `NothingLeftRunning`, `PassedOn`, `DirectoryAccounted`; with fairness `BuildEnds` |
| `refine_launch` | the same | **fails** `CancelledNeverLaunches` |

Every module states its type invariant. `LoopTypeOK`, which has the round's in
it, is checked because it holds the room for arrivals; those of `ThreadLock`,
`Round` and `ThreadGroup` are conjuncts of the proved inductive invariants, as
are `HeldIsMarked` and `StartNoted`, and `GroupTypeOK` is proved
(`GroupTypesKept`). The `TypeOK` of `Publication`, `FormatReplace` and
`RefineRun` holds in the same instances; the runs leave these out and spend
their time on the rest.

**Bounds.** Four threads are a holder, a waker and two sleepers, the least in
which one wake-up can leave a sleeper behind. Three fibres are one that
yields, one that ends and one behind it in the table; the table has room for
them and the first stack, and no more, so it is also full at times. The outer
group's first task makes the inner group, so that two processes wait in the
round at once and a fibre's end may be swept by the wrong one. Three stacks
and four tasks make `admit` find a free stack, an ended task behind a running
one, and none. `MaxTasks` and `MaxFiles` cap the only unbounded counters; two
files on one number are a reuse. One signal suffices for its arriving again
before it is read. Symmetry is used for interchangeable fibres, and in no run
that checks liveness.

Publication's troubles are failing calls, tools' litter, cancellations and
crashes together: one of them at any place, beside one edit at any place, is
what a failure path has to meet, and a second one of a kind adds an error
path on top of an error path, which `MaxPasses` allows for the repeated abort.
One scene has two invocations that prepare the same name, the other two
transactions that share an arena, with a tree, a required absence and a
protected input. Two inodes, one edit and three commands let `refine fmt`
meet a save by renaming, and the copy of a command that power ended. Two
renames are a replacement and its own replacement. The real grace is fifty
looks and real descriptors are any number; one look, and numbers on both
sides of the standard three, take the same branches.


**Fairness.** The system schedules every thread and every thread in the
lock's code goes on, and a holder gives the lock back, which is the caller's
part of the contract; nothing makes a thread take the lock and no sleep has
to end by itself. The one process on the core goes on with the library's code
(weak fairness of the round's and the group's steps); a task that keeps
getting its turns returns in the end, and an owner that can keep calling
`join` does in the end (strong fairness, as the turn is not continuously
theirs). Threads' tasks end. Nothing is assumed of the order in which the
system runs them.

`refine_run` assumes that refine itself keeps running (weak fairness of its
steps) and, as part of that, that the deadline of a tool it polls is reached;
the tool, its family, signals and other processes are free to do nothing.
`BuildEnds` stops at the wait for the program, which has no limit.

**Deadlock** is checked in the library's runs: no state is without a step,
since every process's own code may go on. The runs of the compiler's commands
do not check it: a command ends, and its bounded environment with it.

### What the failing runs say

* `round_turns`. `core/fibre/fibre.ldn` promises that a fibre that yields
  lets every other unfinished fibre run before it resumes. A fibre that ends
  resumes the first stack, whose turn it may not be, and the entries behind
  the ended one are passed over for that round. `TurnsUnlessEnded` is what
  does hold: the promise, as long as no fibre ends meanwhile.
* `events_close`. The loop's comment says it waits with no limit when every
  fibre waits on the loop. A fibre answered by another's close, shutdown or
  `stop_watching` no longer does, but nothing tells the round, and the wait
  may begin before that fibre's turn. `LoopAnswersRun` is what does hold:
  fibres the loop itself answered run first.
* `events_reuse`. D449 says a call waiting on a descriptor that is closed
  through the provider fails. A fibre the loop answered `ready` just before
  the close is not on the list any more; it goes on with the number, which
  may name another file by then.
* `refine_launch`. `main/refine.adb` says a run cancelled just as its
  compilation finishes must not launch a program. It looks once, writes the
  report, and launches; a signal in between is recorded and the program is
  started all the same, without being told.

## 4. Proofs

All theorems are for every value of the constants that satisfies the named
assumptions.

* `ThreadLock_proofs`: `LockExcludes`, `NobodySleepsUnseen` and `Refinement`
  (`ThreadLock` implements `AbstractLock`), for any set of threads. The
  inductive invariant is `IInv`: the types, mutual exclusion, and
  `HeldIsMarked`, which relates the cell to the holder; mutual exclusion alone
  is not inductive. `SleepersAwaited` is inductive given the types alone.
* `Round_proofs`: `CurrentIsRunning`, `EverybodyKept` and `ResumesAreSafe`,
  for any fibres and any table, under `RoundAssumption` and a table that holds
  no record when the round is made. `round_over` neither clears the table
  nor asks for it to be clear, and a refused start raises the count over an
  entry it does not write, so the assumption is needed. `CurrentRuns` is not
  inductive: a fibre's end switches to the first stack without writing
  `current`. The invariant adds the table (`TableKept`: the first stack at
  entry 0, nobody twice, nobody beyond the count, everybody unfinished
  somewhere), the places (`PlacesKept`: all but the running process suspended
  by a switch, new or ended) and `WasKept`: a suspended process's `was` is its
  own entry, which no sweep empties while it is unfinished. Operations that
  sweep and start nothing share one lemma, `SweepStep`.
* `Fibre_proofs`, of the round: `IdlesOnlyWhenQuiet`, `EverybodyGetsATurn`,
  `EndsAreNoticed` and the action property `WaitsAreKept`, for any fibres and
  any table, under the same hypothesis on the table. Why a full count of
  yields means that everybody has yielded is not in the count: `QuietKept`
  (in `Round_proofs`, as the event loop needs it too) says that `quiet` is the
  number of entries of a set of processes that sit, in the order of turns,
  just before the running one, with nobody else between, so nobody is counted
  twice before everybody is counted once. A turn skips empty entries and an
  end empties one, so every case is about an interval of a ring.
  `MissedKept`: an end is still in the table, for the next sweep, or noted
  for everyone who waits. `OwedKept`: whoever is owed a turn by a suspended
  process is ahead of the running entry.
* `Fibre_proofs`, of the groups: `FibreGroupRefinement` (`FibreGroup`
  implements `AbstractGroup`), `GroupsKeepRound` and `GroupTypesKept`, for any
  groups of any stacks, nested in each other or not, under `GroupAssumption`.
  The refinement needs no hypothesis on the table: a start and an end write
  the record's status whatever the table holds, and the status is all that a
  group reads. `GroupInv` is its invariant. `Alive`: a process is in its code
  only while its record says so, hence a task that fails is one that has not
  ended. `OnlyMembers`: every fibre that runs is on a stack of a group.
  `SeenEnded` is why a join may return: the stacks before its index have
  ended and stay so, as their group's maker, the only one who could start a
  task there, is the process inside the join, through all its waits and
  whatever the nested groups do meanwhile. Each action is then an admission,
  a failure, an end or a return of a join, or nothing the abstract group sees
  (`GroupSees`). By `GroupsKeepRound` what is proved of `Round` holds under
  the groups; `GroupTypesKept` uses it.
* `EventLoop_proofs`: `ListIsWaiters`, `WaitersAreArmed`, `StoppedIsEmpty`,
  `LoopTypes` and `AnswersAreRun`, for any fibres, descriptors and signals of
  finitely many kinds (`LoopAssumption`; the code has room for one arrival of
  each). The list's invariant `LInv` adds that a parked fibre is in a call and
  has not ended, so no step of the round takes a listed record's stack away.
  `AnswersAreRun` uses the round's `QuietKept` with a set that nobody the loop
  has answered belongs to: whoever was answered has run since, or has not
  been counted as yielding.
* `ThreadGroup_proofs`: `StacksAreFree`, `LedgerIsUnraced` and
  `StartsAreNoted`, for any number of stacks and any bound on the tasks. The
  invariant ties a thread's presence to the owner's `running` and the
  system's word, so that a join that sees the word cleared leaves the stack
  empty; says that `join` has left no thread on the stacks behind its index,
  so that the ledger is read when no thread is left (`AllJoined`); and that
  whoever writes the ledger has the claim, alone. `StartsAreNoted` is about
  an order of two of the owner's steps, between which the threads it started
  before go on: the note is made (`NotedFirst`) when the thread is asked for.
  `GroupRefinement`: `ThreadGroup` implements `AbstractGroup`, action by
  action, with one more invariant (`Failing`): the claim, the two writes of
  the ledger and the reasons of the failed tasks tell the same story at every
  step.
* `FormatReplace_proofs`: `TextsSurvive` and `ReportsAreTrue`, for any
  inodes, commands, copies, edits and faults. `IInv` says what the file and
  the copy hold at each step of a replacement (`AtStep`), that an object
  never holds anything but forms of its last text (`Texts`), and that the
  copy a torn object is recovered from is not the one this command is about
  to remove (`Recoverable`).
* `Publication_proofs`: `RecoveryIsRecorded`, `LitterIsReported`,
  `GroupsAreAtomic`, `OneSucceeds` and `NothingIsLost`, for any scenes,
  names, contents, invocations, transactions and bounds, under
  `PublicationAssumption` and `MarksAssumption` (the marks are distinct from
  what they mark). For the first two, that the directory of a captured object
  is still there is a matter of counting: `Refs` says that an arena has at
  least one reference for each entry its invocation has not finished, and
  that a reference more, or a directory without one, has been named or its
  owner is dead. To keep the count `Phase` says what is finished at each
  place of a transaction, through aborts repeated after a failure. `Exist`:
  nothing is in a place that was never made. An invocation that left a
  directory unnamed has a transaction that goes back and stays so
  (`StrayAborts`), though its other transactions may succeed.

  The other three follow the objects. `Stride` says all that a step can be:
  one transaction moves one entry, in one of ten ways that say what becomes
  of the public name and of the entry's flags and private places (`Rests`,
  `Judges`, `Takes`, `GivesBack`, `Puts`, `Vanishes`, `Catches`, `Tosses`,
  `Returns`, `Drops`), or it waits, appends an entry, stages, publishes; or a
  process dies, or an editor acts. The lemma `Strides` shows it of every
  action of `Next`, once, and what follows is proved of strides. `Base`,
  which the three share: an entry's flags agree with its transaction's place,
  through repeated aborts (`AllFlags`); a group's entries have distinct names
  (`AllDistinct`), as the registry refuses a second; what is staged is at no
  public name, in nobody else's entry and as the tools wrote it until it is
  installed (`Private`); past validation it is what validation saw (`Gates`).
  Then one invariant each. `Undisturbed`: a name that nobody but its
  transaction has touched shows what the flags of the entry say, and what is
  missing there the entry has. `Once`: an object that no rollback met twice
  is shown at one name or claimed by one entry, where a published output
  claims the version it replaced for good; two successors would be two
  claims. `AllSolid`: every object that exists is shown, was given up, or is
  accounted for by some entry (`Cov`), which either has it, has left it in a
  dead process's directory, or was right to let it go.
* `RefineRun_proofs`: about the whole composition, for any directories,
  strangers, signals, descendants and bounds, under `OwnedAssumption`,
  `ToolAssumption` and `CommandAssumption`. `StrangersAreSafe` and
  `RemovalIsTrue`: that cleanup touches only what is ours is not inductive,
  as the rename captures whatever is under the name, and only the comparison
  after it tells. `DirInv` remembers it (`SlotOwned`: from the comparison to
  the removal the slot holds the retained root) and adds that a record marked
  finished is of a directory that is gone (`FinishedGone`). `SlotOwned` and
  the rest speak of the entry the record opened (`root`), which may have been
  a stranger's when it was opened: that much cleanup cannot tell.
  `StrandedIsTold` adds what each step of a removal will still say
  (`TellInv`), which depends on where an entry can be (`Places`: in one place
  at most, under its own name or in its own slot if it is ours) and on what
  each stage of a record says of its entry (`Recorded`).
  `DirectoryIsAccounted` adds that no way out of the command passes the
  directory by (`OnTheWayOut`), and of one that a failed creation left
  unnamed that it was never written into and that neither a tool nor a
  program was started (`Untouched`). `SignalsStayOurs` needs `Held`: while
  `Run_Tool` holds the identifier the tool is unreaped unless a competitor
  took its status, no tool runs under a policy that discards statuses, and an
  identifier is reused only after the reaping. `ToldOnce`: nobody has told
  the tool anything before the grace period. `NothingIsLeft` adds why the
  supervision is stopping and what of the group is gone at each of its steps
  (`Cleared`). `SignalsArePassedOn`: what was sent since the block is passed,
  held by the system until the unblocking, or recorded for a forwarding still
  to come (`Passing`). `StreamsReach`: the file actions of a start are right
  for every numbering of the descriptors.

Searches for the first free entry or stack are written as "an index none of
whose kind is smaller", which needs no induction to reason about.

**Only model-checked:** the liveness properties (`NoLostWake`,
`JoinTerminates`, `CallsReturn`, `BuildEnds`), which need fairness and
`ENABLED`; what `FileIdentity`'s recursive operators answer (`PreflightSeparates`), which
is a matter of induction over names.

## 5. What is not modelled

* `whole`, the provider of `core/fibre` that runs a task inside `start`, and
  the blocking host: they keep nothing between calls.
* kqueue, and children of the event-driven host (`programs.ldn`,
  `park_either`).
* Two readers of one descriptor that blocks (a terminal, say): the model
  treats an empty descriptor as one that would wait.
* Memory order below sequential consistency. The lock's accesses are
  exchanges; the relaxed accesses (`started`, `ended` before a start) are
  ordered by the thread's creation and its join.
* Layouts and alignment of stacks, records and ledgers.
* Of publication: the walk to a destination's parent and the anchoring of
  output roots (`parent_for`), the wording of records and reasons, and what a
  tree holds beyond being equal or not.
* Other processes inside a retirement slot, or replacing one: the header puts
  access inside the private helpers outside its contract
  (`landin_owned_directory.h:7`).
* Darwin's EPERM for a group of zombies, and the QUIT signal, which is treated
  as the interrupt is.
* The compiler's passes, the freestanding platforms, generated tables and
  text formatting.
* The language server: one thread that answers messages in order.
* `highlight/tree-sitter`: `parser.c` is 257 000 lines of generated tables,
  nearly all the C of the repository by lines; `scanner.c` keeps nothing
  between calls. `landin_channel.c`, `landin_executable.c` and
  `landin_resource_usage.c` are single system calls.

### Behaviour the models reach and no property judges

Nothing in the repository says what these should do, or they lose nothing:

* a program that starts or ends a fibre in every round keeps the idler from
  being called (`stacks.ldn:225`);
* a `watch` that fails has cleared `stopped` (`signals.ldn:56`), and a fibre can
  sleep in `next_signal` beside an arrival another reader collected
  (`signals.ldn:77`);
* an output another invocation installed and then rolled back comes back when
  the one that captured it aborts (`landin_publication.c:1304`); a write in place
  to an output installed by a running transaction is left out
  (`landin_publication.c:1310`);
* a rollback that met the same object at the public name and in its own slot
  (put back by the hard-link fallback, whose unlink failed) leaves two links;
  when another invocation captures and replaces the one at the name, a
  repeated abort puts the other back, and a third invocation that prepared
  against it may replace it once more (`landin_publication.c:1302`).
  `OneSuccessor` leaves such objects out (`doubled`); it takes three
  invocations;
* a failed write may have cleared the set-ID bits, and only the bytes are
  written back (`landin_format_replace.c:428`); the removal of a copy after a
  refusal may fail unsaid (`landin_format_replace.c:479`);
* a creation that fails after its `mkdirat` leaves what it made, and nobody
  names it: a private directory (`landin_owned_directory.h:81`), a capture's,
  whose removal's reason is freed with its record (`landin_tool_process.c:195`),
  a directory whose path does not fit (`landin_file_identity.c:260`, which
  writes a reason that `Prepare_Run` does not ask for), a retirement slot, and
  a publication's arena (`landin_publication.c:657`). `StrandedTold`,
  `DirectoryAccounted` and `LitterReported` say of each where it may be and
  that it goes with a failure, not that it is reported. A refused removal of
  an empty slot is not looked at either (`landin_owned_directory.h:290`);
* a directory that is moved away between `mkdirat` and `openat`, with another
  put in its place, is lost, and the other is taken for the command's own,
  written into and emptied in the end (`landin_owned_directory.h:81`).
  `ForeignUntouched` leaves out what was opened in this way (`Adopted`); the
  name is random and a moment old by then;
* a termination that arrives between the program's reaping and the handlers'
  return is sent to the program's identifier all the same, which the system
  may have given to another process (`landin_tool_process.c:540`, from `:645`
  to `:655`): `astray`. `OnlyOursSignalled` is about the tool.

## 6. Plan

1. *Heap*: allocate, resize and free over size classes, behind `AbstractLock`
   once a thread was started; no block given twice, across threads.
2. *Event loop*: children and `park_either`; liveness of a parked call.
3. *Language server*: sessions, documents and versions.
4. *Containers*: the map's probing, the pool's free list, the tree, against
   reference definitions over small inputs.
