------------------------ MODULE FormatReplace_proofs ------------------------
(***************************************************************************)
(* `refine fmt` loses no text and reports what is on disk: TextSurvives    *)
(* and ReportTrue of FormatReplace, for any number of objects, names for   *)
(* copies, runs, failing calls, saves and power failures.                  *)
(*                                                                         *)
(* The induction needs three things the two properties do not say: what    *)
(* the file and the copy hold at each step of a replacement (AtStep), that *)
(* nothing but the last text is ever in an object (Texts), and that the    *)
(* copy a torn object is recovered from is not the one this run is about   *)
(* to remove (Recoverable).                                                *)
(***************************************************************************)
EXTENDS FormatReplace, TLAPS

\* The steps between the copy's creation and its removal.
CopySteps == {"keep", "named", "look", "ready", "sync", "undo", "mode",
              "written", "remove"}
Unwritten == {"copy", "keep", "named", "look", "ready"}
Steps == {"start", "leased", "copy", "closed"} \cup CopySteps
Reports == {"none", "refused", "restored", "formatted", "mode lost",
            "kept", "renamed", "copy left"}

\* Every variable has its type.
Shape ==
    /\ name \in Objects /\ names \in SUBSET Objects
    /\ DOMAIN mem = Objects /\ DOMAIN may = Objects
    /\ mem = [o \in Objects |-> mem[o]] /\ may = [o \in Objects |-> may[o]]
    /\ latest \in [Objects -> Versions] /\ special \in [Objects -> BOOLEAN]
    /\ copies \in [1..Copies -> Copy]
    /\ pc \in Steps /\ report \in Reports
    /\ lease \in [object : Objects, text : Versions, writable : BOOLEAN, bit : BOOLEAN]
    /\ counter \in Nat /\ edits \in 0..MaxEdits
    /\ cancelled \in BOOLEAN
    /\ pc \in CopySteps => counter \in 1..Copies /\ copies[counter].there

\* An object holds the text its user last wrote to it, in some form, and
\* what it holds is among what it may hold.
Texts ==
    \A o \in Objects :
      /\ mem[o] \in may[o]
      /\ may[o] \subseteq {Plain(latest[o]), Formatted(latest[o]), Torn(latest[o])}

\* What a step of a replacement finds in the file it holds, and in the copy.
AtStep ==
    /\ pc = "leased" => mem[Held] = Plain(latest[Held])
    /\ pc \in CopySteps \cup {"copy"} => latest[Held] = lease.text
    /\ pc \in Unwritten => mem[Held] = Plain(lease.text)
    /\ pc \in CopySteps \ {"keep", "remove"} => copies[Mine].may = {Plain(lease.text)}
    /\ pc \in CopySteps \ {"keep", "named", "remove"} => copies[Mine].lasts = DirSync
    /\ pc = "sync" => mem[Held] = Formatted(lease.text)
    /\ pc \in {"sync", "undo"} => Torn(lease.text) \in may[Held]
    /\ pc \in {"mode", "written"} => may[Held] = {Formatted(lease.text)}
    /\ pc = "remove" =>
         \/ report = "refused" /\ mem[Held] = Plain(lease.text)
         \/ report = "restored" /\ may[Held] = {Plain(lease.text)}
         \/ report \in {"formatted", "mode lost"} /\ may[Held] = {Formatted(lease.text)}

\* A copy the run will not remove while object o needs it.
Spared(k, o) ==
    pc \in CopySteps => k # Mine \/ (o = Held /\ pc \in {"sync", "undo"})

Recoverable ==
    DirSync =>
      \A o \in Objects :
        Torn(latest[o]) \in may[o] =>
          \E k \in 1..Copies : SafeCopy(k, latest[o]) /\ Spared(k, o)

IInv == Shape /\ Texts /\ AtStep /\ Recoverable /\ ReportTrue
-----------------------------------------------------------------------------

\* The three forms of a text are different contents, and each says what it is.
LEMMA FormsDiffer ==
    \A v, w :
      /\ Plain(v) = Plain(w) => v = w
      /\ Plain(v) # Formatted(w) /\ Plain(v) # Torn(w) /\ Formatted(v) # Torn(w)
      /\ Plain(v).form = "plain" /\ Plain(v).text = v
      /\ Formatted(v).form # "plain" /\ Torn(v).form # "plain"
  BY DEF Plain, Formatted, Torn

\* They are contents when the text is a version.
LEMMA FormsTyped ==
    \A v \in Versions : {Plain(v)} \in SUBSET Content /\ {Torn(v)} \in SUBSET Content
  BY DEF Plain, Torn, Content, Forms

\* Object o still may hold a torn text and its copy is still spared.
StillSpared(o) ==
    /\ latest'[o] = latest[o] /\ Torn(latest[o]) \in may[o]
    /\ \A k \in 1..Copies :
         SafeCopy(k, latest[o]) /\ Spared(k, o) => copies'[k] = copies[k] /\ Spared(k, o)'

\* A step after which each torn object is one that was torn before and whose
\* copy the step left alone, or has a spared copy now, keeps Recoverable.
LEMMA RecoverableKept ==
    ASSUME Recoverable,
           \A o \in Objects :
             DirSync /\ Torn(latest'[o]) \in may'[o] =>
               \/ StillSpared(o)
               \/ \E k \in 1..Copies : SafeCopy(k, latest[o])' /\ Spared(k, o)'
    PROVE  Recoverable'
  <1> SUFFICES ASSUME DirSync, NEW o \in Objects, Torn(latest'[o]) \in may'[o]
               PROVE  \E k \in 1..Copies : SafeCopy(k, latest[o])' /\ Spared(k, o)'
    BY DEF Recoverable
  <1>1. CASE StillSpared(o)
    <2>1. PICK k \in 1..Copies : SafeCopy(k, latest[o]) /\ Spared(k, o)
      BY <1>1 DEF StillSpared, Recoverable
    <2>2. copies'[k] = copies[k] /\ Spared(k, o)' /\ latest'[o] = latest[o]
      BY <1>1, <2>1 DEF StillSpared
    <2>3. SafeCopy(k, latest[o])'
      BY <2>1, <2>2 DEF SafeCopy
    <2> QED
      BY <2>2, <2>3
  <1> QED
    BY <1>1

\* A step that leaves the files, the copies and the lease alone and stays
\* clear of the steps between the write and its sync keeps it too.
LEMMA RecoverableFrame ==
    ASSUME Recoverable, pc \in Steps,
           UNCHANGED <<latest, may, copies, counter, lease>>,
           pc' \in CopySteps => pc \in CopySteps \ {"sync", "undo"}
    PROVE  Recoverable'
  <1>1. \A k, o : Spared(k, o) => Spared(k, o)'
    BY DEF Spared, CopySteps, Mine, Held
  <1> QED
    BY <1>1, RecoverableKept DEF StillSpared

\* Replacing one copy by a record of the right fields keeps the type.
LEMMA CopiesTyped ==
    ASSUME copies \in [1..Copies -> Copy], NEW k \in 1..Copies, NEW c \in Copy,
           copies' = [copies EXCEPT ![k] = c]
    PROVE  /\ copies' \in [1..Copies -> Copy]
           /\ copies'[k] = c
           /\ \A j \in 1..Copies : j # k => copies'[j] = copies[j]
  OBVIOUS

\* At first every object holds the first text, synced.
LEMMA InitEstablishes == Init => IInv
  <1> SUFFICES ASSUME Init PROVE IInv
    OBVIOUS
  <1> USE FormatAssumption DEF Init
  <1>1. Shape
    <2>1. 1 \in Versions /\ NoCopy \in Copy
      BY DEF Versions, NoCopy, Copy
    <2>2. copies \in [1..Copies -> Copy] /\ latest \in [Objects -> Versions]
      BY <2>1
    <2>3. lease \in [object : Objects, text : Versions, writable : BOOLEAN, bit : BOOLEAN]
      BY <2>1
    <2>4. cancelled \in BOOLEAN
      OBVIOUS
    <2> QED
      BY <2>2, <2>3, <2>4 DEF Shape, Steps, CopySteps, Reports
  <1>2. Texts
    BY DEF Texts
  <1>3. AtStep
    BY DEF AtStep, CopySteps, Unwritten
  <1>4. Recoverable
    BY FormsDiffer DEF Recoverable
  <1>5. ReportTrue
    BY DEF ReportTrue
  <1> QED
    BY <1>1, <1>2, <1>3, <1>4, <1>5 DEF IInv

\* Opening reads the text its user last wrote, or stops.
LEMMA OpenUpdateKeeps ==
    ASSUME IInv, OpenUpdate
    PROVE  IInv'
  <1> USE FormatAssumption, FormsDiffer
      DEF IInv, OpenUpdate, World, Held, Mine, NoFault, Fault, Refuse, CopySteps, Unwritten
  <1>1. Shape'
    <2>0. mem[name] \in {Plain(latest[name]), Formatted(latest[name]), Torn(latest[name])}
      BY DEF Texts, Shape
    <2>1. mem[name].form = "plain" => mem[name].text \in Versions
      <3>1. latest[name] \in Versions
        BY DEF Shape
      <3>2. mem[name] = Plain(latest[name]) => mem[name].text = latest[name]
        BY FormsDiffer
      <3>3. mem[name] # Plain(latest[name]) => mem[name].form # "plain"
        BY <2>0, FormsDiffer
      <3> QED
        BY <3>1, <3>2, <3>3
    <2>2. lease' \in [object : Objects, text : Versions, writable : BOOLEAN, bit : BOOLEAN]
      <3>1. CASE lease' = lease
        BY <3>1 DEF Shape
      <3>2. CASE lease' # lease
        <4>1. PICK w \in BOOLEAN : lease' = [object |-> name, text |-> mem[name].text,
                                             writable |-> w, bit |-> FALSE]
          BY <3>2
        <4>2. name \in Objects /\ mem[name].text \in Versions
          BY <3>2, <2>1 DEF Shape
        <4> QED
          BY <4>1, <4>2
      <3> QED
        BY <3>1, <3>2
    <2> QED
      BY <2>2 DEF Shape, Steps, Reports
  <1>2. Texts'
    BY DEF Texts, Shape, AtStep
  <1>3. AtStep'
    <2>1. CASE mem[name].form = "plain"
      <3>1. mem[name] = Plain(latest[name])
        BY <2>1 DEF Texts, Shape
      <3>2. mem' = mem /\ latest' = latest /\ pc' = "leased" /\ lease'.object = name
        BY <2>1
      <3> QED
        BY <3>1, <3>2 DEF AtStep
    <2>2. CASE mem[name].form # "plain"
      BY <2>2 DEF AtStep
    <2> QED
      BY <2>1, <2>2
  <1>4. Recoverable'
    <2>1. pc' \notin CopySteps
      OBVIOUS
    <2> QED
      BY <2>1, RecoverableKept DEF StillSpared, Spared
  <1>5. ReportTrue'
    BY DEF ReportTrue, AtStep, Texts, Shape
  <1> QED
    BY <1>1, <1>2, <1>3, <1>4, <1>5

\* The comparison of the bytes lets a replacement go on only when the file
\* holds the text that was read.
LEMMA CheckKeeps ==
    ASSUME IInv, Check
    PROVE  IInv'
  <1> USE FormatAssumption, FormsDiffer
      DEF IInv, Check, World, Held, Mine, NoFault, Fault, Refuse, CopySteps, Unwritten
  <1>0. \/ report' = "refused" /\ pc' = "closed" /\ lease' = lease
        \/ /\ report' = report /\ pc' = "copy"
           /\ mem[lease.object] = Plain(lease.text)
           /\ lease' = [lease EXCEPT !.bit = special[lease.object]]
    BY DEF Refusal
  <1>1. Shape'
    <2>1. lease' \in [object : Objects, text : Versions, writable : BOOLEAN, bit : BOOLEAN]
      <3>1. CASE lease' = lease
        BY <3>1 DEF Shape
      <3>2. CASE lease' = [lease EXCEPT !.bit = special[lease.object]]
        BY <3>2 DEF Shape
      <3> QED
        BY <1>0, <3>1, <3>2
    <2> QED
      BY <1>0, <2>1 DEF Shape, Steps, Reports
  <1>2. Texts'
    BY DEF Texts, Shape, AtStep
  <1>3. AtStep'
    <2>1. mem' = mem /\ latest' = latest /\ lease'.object = lease.object /\ lease'.text = lease.text
      BY <1>0 DEF Shape
    <2>2. mem[lease.object] = Plain(latest[lease.object])
      BY DEF AtStep
    <2>3. CASE pc' = "closed"
      BY <2>3 DEF AtStep
    <2>4. CASE pc' = "copy"
      BY <1>0, <2>1, <2>2, <2>4 DEF AtStep
    <2> QED
      BY <1>0, <2>3, <2>4
  <1>4. Recoverable'
    <2>1. pc' \notin CopySteps
      BY <1>0
    <2> QED
      BY <2>1, RecoverableKept DEF StillSpared, Spared
  <1>5. ReportTrue'
    BY DEF ReportTrue, AtStep, Texts, Shape
  <1> QED
    BY <1>1, <1>2, <1>3, <1>4, <1>5

\* A copy takes a free name, so no copy of an earlier run is lost.
LEMMA MakeCopyKeeps ==
    ASSUME IInv, MakeCopy
    PROVE  IInv'
  <1> USE FormatAssumption, FormsDiffer
      DEF IInv, MakeCopy, World, Held, Mine, NoFault, Fault, Refuse, CopySteps, Unwritten
  <1>a. CASE copies' = copies
    <2>1. pc' = "closed" /\ report' = "refused" /\ counter' \in Nat
      BY <1>a DEF Shape, FirstFree, Copy
    <2>2. Shape'
      BY <2>1, <1>a DEF Shape, Steps, Reports
    <2>3. Recoverable'
      BY <1>a, <2>1, RecoverableKept DEF StillSpared, Spared
    <2>4. Texts' /\ AtStep' /\ ReportTrue'
      BY <2>1 DEF Texts, AtStep, ReportTrue
    <2> QED
      BY <2>2, <2>3, <2>4
  <1> SUFFICES ASSUME copies' # copies PROVE IInv'
    BY <1>a
  <1> DEFINE c == [there |-> TRUE, may |-> {Torn(lease.text)}, lasts |-> FALSE]
  <1>b. PICK k \in 1..Copies :
           /\ ~copies[k].there /\ counter' = k /\ pc' = "keep"
           /\ copies' = [copies EXCEPT ![k] = c] /\ report' = report
    BY DEF FirstFree
  <1>c. c \in Copy
    BY FormsTyped DEF Shape, Copy
  <1>d. /\ copies' \in [1..Copies -> Copy] /\ copies'[k] = c
        /\ \A j \in 1..Copies : j # k => copies'[j] = copies[j]
    BY <1>b, <1>c, CopiesTyped DEF Shape
  <1>1. Shape'
    BY <1>b, <1>d DEF Shape, Steps
  <1>2. Texts'
    BY DEF Texts, Shape, AtStep
  <1>3. AtStep'
    BY <1>b DEF AtStep
  <1>4. Recoverable'
    <2>1. \A j \in 1..Copies : SafeCopy(j, latest[j]) => j # k
      BY <1>b DEF SafeCopy
    <2>2. \A o \in Objects : Torn(latest[o]) \in may[o] => StillSpared(o)
      BY <1>b, <1>d DEF StillSpared, SafeCopy, Spared
    <2> QED
      BY <2>2, RecoverableKept
  <1>5. ReportTrue'
    BY <1>b DEF ReportTrue
  <1> QED
    BY <1>1, <1>2, <1>3, <1>4, <1>5

\* A replacement that gives up before its write leaves the file as it was.
LEMMA GivingUpKeeps ==
    ASSUME IInv, pc \in {"keep", "named", "look", "ready"},
           pc' = "remove", report' = "refused",
           UNCHANGED <<name, names, mem, may, latest, special, copies, lease, counter,
                       edits, cancelled>>
    PROVE  IInv'
  <1> USE DEF IInv, CopySteps, Unwritten, Held, Mine
  <1>1. Shape'
    BY DEF Shape, Steps, Reports
  <1>2. Texts'
    BY DEF Texts
  <1>3. AtStep'
    BY DEF AtStep
  <1>4. Recoverable'
    BY RecoverableFrame DEF Shape
  <1>5. ReportTrue'
    BY DEF ReportTrue
  <1> QED
    BY <1>1, <1>2, <1>3, <1>4, <1>5

\* The copy is whole and synced, or the replacement gives up.
LEMMA KeepCopyKeeps ==
    ASSUME IInv, KeepCopy
    PROVE  IInv'
  <1> USE FormatAssumption, FormsDiffer
      DEF IInv, KeepCopy, World, Held, Mine, NoFault, Fault, Refuse, CopySteps, Unwritten
  <1>a. counter \in 1..Copies /\ copies[counter] \in Copy /\ copies[counter].there
    BY DEF Shape
  <1>b. CASE copies' = copies /\ pc' = "remove" /\ report' = "refused"
    BY <1>b, GivingUpKeeps
  <1> DEFINE c == [copies[counter] EXCEPT !.may = {Plain(lease.text)}]
  <1> SUFFICES ASSUME copies' = [copies EXCEPT ![counter] = c],
                      pc' = "named", report' = report
               PROVE  IInv'
    BY <1>b
  <1>c. c \in Copy /\ c.there /\ c.may = {Plain(lease.text)}
    BY <1>a, FormsTyped DEF Shape, Copy
  <1>d. /\ copies' \in [1..Copies -> Copy] /\ copies'[counter] = c
        /\ \A j \in 1..Copies : j # counter => copies'[j] = copies[j]
    BY <1>a, <1>c, CopiesTyped DEF Shape
  <1>1. Shape'
    BY <1>c, <1>d DEF Shape, Steps
  <1>2. Texts'
    BY DEF Texts, Shape, AtStep
  <1>3. AtStep'
    BY <1>c, <1>d DEF AtStep
  <1>4. Recoverable'
    <2>1. \A o \in Objects : Torn(latest[o]) \in may[o] => StillSpared(o)
      BY <1>a, <1>d DEF StillSpared, Spared
    <2> QED
      BY <2>1, RecoverableKept
  <1>5. ReportTrue'
    BY DEF ReportTrue
  <1> QED
    BY <1>1, <1>2, <1>3, <1>4, <1>5

\* The name of the copy lasts from here on where directories can be synced.
LEMMA SyncNameKeeps ==
    ASSUME IInv, SyncName
    PROVE  IInv'
  <1> USE FormatAssumption, FormsDiffer
      DEF IInv, SyncName, World, Held, Mine, NoFault, Fault, Refuse, CopySteps, Unwritten
  <1>a. counter \in 1..Copies /\ copies[counter] \in Copy /\ copies[counter].there
    BY DEF Shape
  <1>b. CASE copies' = copies /\ pc' = "remove" /\ report' = "refused"
    BY <1>b, GivingUpKeeps
  <1> DEFINE c == [copies[counter] EXCEPT !.lasts = DirSync]
  <1> SUFFICES ASSUME copies' = [copies EXCEPT ![counter] = c],
                      pc' = "look", report' = report
               PROVE  IInv'
    BY <1>b DEF SyncDirectory
  <1>c. c \in Copy /\ c.there /\ c.lasts = DirSync /\ c.may = copies[counter].may
    BY <1>a DEF Copy
  <1>d. /\ copies' \in [1..Copies -> Copy] /\ copies'[counter] = c
        /\ \A j \in 1..Copies : j # counter => copies'[j] = copies[j]
    BY <1>a, <1>c, CopiesTyped DEF Shape
  <1>1. Shape'
    BY <1>c, <1>d DEF Shape, Steps
  <1>2. Texts'
    BY DEF Texts, Shape, AtStep
  <1>3. AtStep'
    BY <1>c, <1>d DEF AtStep
  <1>4. Recoverable'
    <2>1. \A o \in Objects : Torn(latest[o]) \in may[o] => StillSpared(o)
      BY <1>a, <1>d DEF StillSpared, Spared
    <2> QED
      BY <2>1, RecoverableKept
  <1>5. ReportTrue'
    BY DEF ReportTrue
  <1> QED
    BY <1>1, <1>2, <1>3, <1>4, <1>5

\* A name that was changed stops the replacement.
LEMMA LookAtNameKeeps ==
    ASSUME IInv, LookAtName
    PROVE  IInv'
  <1> USE FormatAssumption, FormsDiffer
      DEF IInv, LookAtName, World, Held, Mine, NoFault, Fault, Refuse, CopySteps, Unwritten
  <1>b. CASE pc' = "remove"
    BY <1>b, GivingUpKeeps
  <1> SUFFICES ASSUME pc' = "ready", report' = report PROVE IInv'
    BY <1>b
  <1>1. Shape'
    BY FormsTyped DEF Shape, Steps, Reports
  <1>2. Texts'
    BY DEF Texts, Shape, AtStep
  <1>3. AtStep'
    BY DEF AtStep, Texts, Shape
  <1>4. Recoverable'
    BY RecoverableFrame DEF Shape
  <1>5. ReportTrue'
    BY DEF ReportTrue, AtStep, Texts, Shape
  <1> QED
    BY <1>1, <1>2, <1>3, <1>4, <1>5

\* The write tears the file only while a synced copy is there, which no
\* earlier run relies on.
LEMMA WriteKeeps ==
    ASSUME IInv, Write
    PROVE  IInv'
  <1> USE FormatAssumption, FormsDiffer
      DEF IInv, Write, World, Held, Mine, NoFault, Fault, Refuse, CopySteps, Unwritten
  <1>b. CASE cancelled
    BY <1>b, GivingUpKeeps
  <1> SUFFICES ASSUME ~cancelled PROVE IInv'
    BY <1>b
  <1> DEFINE h == lease.object
  <1>c. /\ h \in Objects /\ counter \in 1..Copies /\ copies[counter].there
        /\ latest[h] = lease.text
    BY DEF Shape, AtStep
  <1>d. /\ pc' \in {"sync", "undo"} /\ report' = report
        /\ may' = [may EXCEPT ![h] = @ \cup {Torn(lease.text), Formatted(lease.text)}]
    OBVIOUS
  <1>1. Shape'
    BY FormsTyped DEF Shape, Steps, Reports
  <1>2. Texts'
    BY DEF Texts, Shape, AtStep
  <1>3. AtStep'
    <2>1. Torn(lease.text) \in may'[h]
      BY <1>c, <1>d DEF Shape
    <2>2. pc' = "sync" => mem'[h] = Formatted(lease.text)
      BY <1>c, <1>d DEF Shape
    <2>3. /\ copies[counter].may = {Plain(lease.text)} /\ copies[counter].lasts = DirSync
          /\ latest[h] = lease.text
      BY DEF AtStep
    <2> QED
      BY <1>d, <2>1, <2>2, <2>3 DEF AtStep
  <1>4. Recoverable'
    <2>1. DirSync => SafeCopy(counter, latest[h])' /\ Spared(counter, h)'
      BY <1>c, <1>d DEF SafeCopy, Spared, AtStep
    <2>2. \A o \in Objects \ {h} : Torn(latest[o]) \in may[o] => StillSpared(o)
      BY <1>c, <1>d DEF StillSpared, Spared
    <2>3. \A o \in Objects \ {h} : may'[o] = may[o]
      BY <1>d DEF Shape
    <2> QED
      BY <1>c, <2>1, <2>2, <2>3, RecoverableKept
  <1>5. ReportTrue'
    BY DEF ReportTrue, AtStep, Texts, Shape
  <1> QED
    BY <1>1, <1>2, <1>3, <1>4, <1>5

\* After the sync the formatted text is all the file may hold.
LEMMA SyncKeeps ==
    ASSUME IInv, Sync
    PROVE  IInv'
  <1> USE FormatAssumption, FormsDiffer
      DEF IInv, Sync, World, Held, Mine, NoFault, Fault, Refuse, CopySteps, Unwritten
  <1>1. Shape'
    BY FormsTyped DEF Shape, Steps, Reports
  <1>2. Texts'
    BY DEF Texts, Shape, AtStep
  <1>3. AtStep'
    BY DEF AtStep, Texts, Shape
  <1>4. Recoverable'
    <2>a. CASE pc' = "undo"
      <3>1. may' = may
        BY <2>a
      <3>2. \A o \in Objects : Torn(latest[o]) \in may[o] => StillSpared(o)
        BY <2>a DEF StillSpared, Spared
      <3> QED
        BY <3>1, <3>2, RecoverableKept
    <2>b. CASE pc' = "mode"
      <3>1. \A o \in Objects : o # lease.object /\ Torn(latest[o]) \in may[o] => StillSpared(o)
        BY <2>b DEF StillSpared, Spared
      <3>2. may'[lease.object] = {Formatted(lease.text)}
        BY <2>b DEF AtStep, Shape
      <3>3. \A o \in Objects \ {lease.object} : may'[o] = may[o]
        BY <2>b DEF Shape
      <3> QED
        BY <3>1, <3>2, <3>3, RecoverableKept
    <2> QED
      BY <2>a, <2>b
  <1>5. ReportTrue'
    BY DEF ReportTrue, AtStep, Texts, Shape
  <1> QED
    BY <1>1, <1>2, <1>3, <1>4, <1>5

\* The original is written back and synced, or the copy stays.
LEMMA UndoKeeps ==
    ASSUME IInv, Undo
    PROVE  IInv'
  <1> USE FormatAssumption, FormsDiffer
      DEF IInv, Undo, World, Held, Mine, NoFault, Fault, Refuse, CopySteps, Unwritten
  <1>1. Shape'
    BY FormsTyped DEF Shape, Steps, Reports
  <1>2. Texts'
    <2>1. lease.object \in Objects /\ latest[lease.object] = lease.text
      BY DEF Shape, AtStep
    <2>2. CASE pc' = "remove"
      BY <2>1, <2>2 DEF Texts, Shape
    <2>3. CASE pc' = "closed"
      <3>1. may' = [may EXCEPT ![lease.object] = @ \cup {Plain(lease.text)}]
        BY <2>3
      <3>2. PICK c \in {Torn(lease.text), Plain(lease.text)} :
               mem' = [mem EXCEPT ![lease.object] = c]
        BY <2>3
      <3>3. Torn(lease.text) \in may[lease.object]
        BY DEF AtStep
      <3>4. ASSUME NEW o \in Objects
            PROVE  /\ mem'[o] \in may'[o]
                   /\ may'[o] \subseteq {Plain(latest[o]), Formatted(latest[o]), Torn(latest[o])}
        <4>1. CASE o = lease.object
          BY <2>1, <3>1, <3>2, <3>3, <4>1 DEF Texts, Shape
        <4>2. CASE o # lease.object
          BY <3>1, <3>2, <4>2 DEF Texts, Shape
        <4> QED
          BY <4>1, <4>2
      <3> QED
        BY <3>4 DEF Texts
    <2> QED
      BY <2>2, <2>3
  <1>3. AtStep'
    BY DEF AtStep, Texts, Shape
  <1>4. Recoverable'
    <2> DEFINE h == lease.object
    <2>0. h \in Objects
      BY DEF Shape
    <2>1. \A o \in Objects : o # h => may'[o] = may[o]
      BY DEF Shape
    <2>2. \A o \in Objects : o # h /\ Torn(latest[o]) \in may[o] => StillSpared(o)
      BY DEF StillSpared, Spared
    <2>3. CASE pc' = "remove"
      <3>1. Torn(latest'[h]) \notin may'[h]
        BY <2>0, <2>3 DEF Shape
      <3> QED
        BY <2>0, <2>1, <2>2, <3>1, RecoverableKept
    <2>4. CASE pc' = "closed"
      <3>1. DirSync => SafeCopy(counter, latest[h])' /\ Spared(counter, h)'
        BY <2>4 DEF SafeCopy, Spared, AtStep, Shape
      <3> QED
        BY <2>0, <2>1, <2>2, <3>1, RecoverableKept DEF Shape
    <2> QED
      BY <2>3, <2>4
  <1>5. ReportTrue'
    BY DEF ReportTrue, AtStep, Texts, Shape
  <1> QED
    BY <1>1, <1>2, <1>3, <1>4, <1>5

\* The mode is restored or the report says that it is lost.
LEMMA RestoreModeKeeps ==
    ASSUME IInv, RestoreMode
    PROVE  IInv'
  <1> USE FormatAssumption, FormsDiffer
      DEF IInv, RestoreMode, World, Held, Mine, NoFault, Fault, Refuse, CopySteps, Unwritten
  <1>1. Shape'
    BY FormsTyped DEF Shape, Steps, Reports
  <1>2. Texts'
    BY DEF Texts, Shape, AtStep
  <1>3. AtStep'
    BY DEF AtStep, Texts, Shape
  <1>4. Recoverable'
    BY RecoverableFrame DEF Shape
  <1>5. ReportTrue'
    BY DEF ReportTrue, AtStep, Texts, Shape
  <1> QED
    BY <1>1, <1>2, <1>3, <1>4, <1>5

\* A name that changed meanwhile keeps the copy.
LEMMA LookAgainKeeps ==
    ASSUME IInv, LookAgain
    PROVE  IInv'
  <1> USE FormatAssumption, FormsDiffer
      DEF IInv, LookAgain, World, Held, Mine, NoFault, Fault, Refuse, CopySteps, Unwritten
  <1>1. Shape'
    BY FormsTyped DEF Shape, Steps, Reports
  <1>2. Texts'
    BY DEF Texts, Shape, AtStep
  <1>3. AtStep'
    BY DEF AtStep, Texts, Shape
  <1>4. Recoverable'
    BY RecoverableFrame DEF Shape
  <1>5. ReportTrue'
    BY DEF ReportTrue, AtStep, Texts, Shape
  <1> QED
    BY <1>1, <1>2, <1>3, <1>4, <1>5

\* The copy that goes is one no object needs.
LEMMA RemoveCopyKeeps ==
    ASSUME IInv, RemoveCopy
    PROVE  IInv'
  <1> USE FormatAssumption, FormsDiffer
      DEF IInv, RemoveCopy, World, Held, Mine, NoFault, Fault, Refuse, CopySteps, Unwritten
  <1>a. counter \in 1..Copies /\ copies[counter] \in Copy /\ NoCopy \in Copy
    BY DEF Shape, NoCopy, Copy
  <1>b. /\ copies' \in [1..Copies -> Copy]
        /\ \A j \in 1..Copies : j # counter => copies'[j] = copies[j]
    BY <1>a, CopiesTyped DEF Shape
  <1>c. report' = report \/ (report = "formatted" /\ report' = "copy left" /\ copies' = copies)
    OBVIOUS
  <1>1. Shape'
    BY <1>b, <1>c DEF Shape, Steps, Reports
  <1>2. Texts'
    BY DEF Texts, Shape, AtStep
  <1>3. AtStep'
    BY DEF AtStep, Texts, Shape
  <1>4. Recoverable'
    <2>1. \A o \in Objects : Torn(latest[o]) \in may[o] => StillSpared(o)
      BY <1>b DEF StillSpared, Spared
    <2> QED
      BY <2>1, RecoverableKept
  <1>5. ReportTrue'
    <2>1. CASE copies' = [copies EXCEPT ![counter] = NoCopy] /\ report' = report
      <3>1. ~copies'[counter].there
        BY <2>1, <1>a DEF Shape, NoCopy
      <3> QED
        BY <2>1, <3>1 DEF ReportTrue, AtStep, Texts, Shape
    <2>2. CASE copies' = copies /\ report' = (IF report = "formatted" THEN "copy left" ELSE report)
      BY <2>2 DEF ReportTrue, AtStep, Texts, Shape
    <2> QED
      BY <2>1, <2>2
  <1> QED
    BY <1>1, <1>2, <1>3, <1>4, <1>5

\* The next run starts with the files as they are.
LEMMA AgainKeeps ==
    ASSUME IInv, Again
    PROVE  IInv'
  <1> USE FormatAssumption, FormsDiffer
      DEF IInv, Again, World, Held, Mine, NoFault, Fault, Refuse, CopySteps, Unwritten
  <1>1. Shape'
    <2>1. counter' \in Nat
      BY DEF Shape
    <2>2. cancelled' = FALSE
      OBVIOUS
    <2> QED
      BY <2>1, <2>2 DEF Shape, Steps, Reports
  <1>2. Texts'
    BY DEF Texts, Shape, AtStep
  <1>3. AtStep'
    BY DEF AtStep, Texts, Shape
  <1>4. Recoverable'
    <2>1. \A o \in Objects : Torn(latest[o]) \in may[o] => StillSpared(o)
      BY DEF StillSpared, Spared
    <2> QED
      BY <2>1, RecoverableKept
  <1>5. ReportTrue'
    BY DEF ReportTrue, AtStep, Texts, Shape
  <1> QED
    BY <1>1, <1>2, <1>3, <1>4, <1>5

\* An interruption changes no file.
LEMMA CancelKeeps ==
    ASSUME IInv, Cancel
    PROVE  IInv'
  <1> USE FormatAssumption, FormsDiffer
      DEF IInv, Cancel, World, Held, Mine, NoFault, Fault, Refuse, CopySteps, Unwritten
  <1>1. Shape'
    BY FormsTyped DEF Shape, Steps, Reports
  <1>2. Texts'
    BY DEF Texts, Shape, AtStep
  <1>3. AtStep'
    BY DEF AtStep, Texts, Shape
  <1>4. Recoverable'
    <2>1. \A o \in Objects : Torn(latest[o]) \in may[o] => StillSpared(o)
      BY DEF StillSpared, Spared
    <2> QED
      BY <2>1, RecoverableKept
  <1>5. ReportTrue'
    BY DEF ReportTrue, AtStep, Texts, Shape
  <1> QED
    BY <1>1, <1>2, <1>3, <1>4, <1>5

\* A save by rename puts a whole new text under the name.
LEMMA SaveByRenameKeeps ==
    ASSUME IInv, SaveByRename
    PROVE  IInv'
  <1> USE FormatAssumption, FormsDiffer
      DEF IInv, SaveByRename, World, Held, Mine, NoFault, Fault, Refuse, CopySteps, Unwritten
  <1>b. edits' \in 0..MaxEdits /\ edits + 2 \in Versions
    BY SMTT(60) DEF Shape, Versions
  <1>a. PICK o \in Objects :
           /\ o # lease.object
           /\ name' = o /\ names' = names \cup {o}
           /\ latest' = [latest EXCEPT ![o] = edits + 2]
           /\ mem' = [mem EXCEPT ![o] = Plain(edits + 2)]
           /\ may' = [may EXCEPT ![o] = {Plain(edits + 2)}]
    OBVIOUS
  <1>1. Shape'
    BY ZenonT(120), <1>a, <1>b DEF Shape
  <1>2. Texts'
    BY <1>a, <1>b DEF Texts, Shape
  <1>3. AtStep'
    BY <1>a DEF AtStep, Shape
  <1>4. Recoverable'
    <2>1. Torn(latest'[o]) \notin may'[o]
      BY <1>a DEF Shape
    <2>2. \A p \in Objects \ {o} : may'[p] = may[p] /\ latest'[p] = latest[p]
      BY <1>a DEF Shape
    <2>3. \A p \in Objects \ {o} : Torn(latest[p]) \in may[p] => StillSpared(p)
      BY <2>2 DEF StillSpared, Spared
    <2> QED
      BY <2>1, <2>2, <2>3, RecoverableKept
  <1>5. ReportTrue'
    BY <1>a DEF ReportTrue, Shape
  <1> QED
    BY <1>1, <1>2, <1>3, <1>4, <1>5

\* A save in place comes before the bytes are compared.
LEMMA SaveInPlaceKeeps ==
    ASSUME IInv, SaveInPlace
    PROVE  IInv'
  <1> USE FormatAssumption, FormsDiffer
      DEF IInv, SaveInPlace, World, Held, Mine, NoFault, Fault, Refuse, CopySteps, Unwritten
  <1>b. edits' \in 0..MaxEdits /\ edits + 2 \in Versions
    BY DEF Shape, Versions
  <1>1. Shape'
    BY <1>b DEF Shape
  <1>2. Texts'
    BY <1>b DEF Texts, Shape
  <1>3. AtStep'
    BY DEF AtStep, Texts, Shape
  <1>4. Recoverable'
    <2>1. Torn(latest'[name]) \notin may'[name]
      BY DEF Shape
    <2>2. \A p \in Objects \ {name} : may'[p] = may[p] /\ latest'[p] = latest[p]
      BY DEF Shape
    <2>3. \A p \in Objects \ {name} : Torn(latest[p]) \in may[p] => StillSpared(p)
      BY <2>2 DEF StillSpared, Spared
    <2> QED
      BY <2>1, <2>2, <2>3, RecoverableKept
  <1>5. ReportTrue'
    BY DEF ReportTrue, AtStep, Texts, Shape
  <1> QED
    BY <1>1, <1>2, <1>3, <1>4, <1>5

\* After a power failure an object holds what it might, and a lasting copy is
\* there.
LEMMA PowerFailsKeeps ==
    ASSUME IInv, PowerFails
    PROVE  IInv'
  <1> USE FormatAssumption, FormsDiffer
      DEF IInv, PowerFails, World, Held, Mine, NoFault, Fault, Refuse, CopySteps, Unwritten
  <1>a. /\ DOMAIN mem' = Objects /\ \A o \in Objects : mem'[o] \in may[o]
        /\ mem' = [o \in Objects |-> mem'[o]]
        /\ may' = [o \in Objects |-> {mem'[o]}] /\ DOMAIN may' = Objects
    OBVIOUS
  <1>b. /\ DOMAIN copies' = 1..Copies
        /\ copies' = [k \in 1..Copies |-> copies'[k]]
        /\ \A k \in 1..Copies :
             copies'[k] = copies[k] \/ (~copies[k].lasts /\ copies'[k] = NoCopy)
    OBVIOUS
  <1>1. Shape'
    <2>1. NoCopy \in Copy /\ \A k \in 1..Copies : copies[k] \in Copy
      BY DEF NoCopy, Copy, Shape
    <2>2. copies' \in [1..Copies -> Copy]
      BY <1>b, <2>1
    <2>3. name' \in Objects /\ names' \in SUBSET Objects
      BY DEF Shape
    <2>4. /\ pc' = "start" /\ report' = "none" /\ counter' = 0
          /\ cancelled' = FALSE /\ UNCHANGED <<latest, special, lease, edits>>
      OBVIOUS
    <2>5. latest' \in [Objects -> Versions] /\ special' \in [Objects -> BOOLEAN]
      BY <2>4 DEF Shape
    <2>6. /\ lease' \in [object : Objects, text : Versions, writable : BOOLEAN, bit : BOOLEAN]
          /\ counter' \in Nat /\ edits' \in 0..MaxEdits
      BY <2>4 DEF Shape
    <2>7. pc' \in Steps /\ report' \in Reports /\ pc' \notin CopySteps
      BY <2>4 DEF Steps, Reports
    <2>8. /\ DOMAIN mem' = Objects /\ DOMAIN may' = Objects
          /\ mem' = [o \in Objects |-> mem'[o]] /\ may' = [o \in Objects |-> may'[o]]
      BY <1>a
    <2>9. cancelled' \in BOOLEAN
      BY <2>4
    <2> QED
      BY <2>2, <2>3, <2>5, <2>6, <2>7, <2>8, <2>9 DEF Shape
  <1>2. Texts'
    BY <1>a DEF Texts
  <1>3. AtStep'
    BY DEF AtStep, Texts, Shape
  <1>4. Recoverable'
    <2>1. \A o \in Objects : Torn(latest'[o]) \in may'[o] => Torn(latest[o]) \in may[o]
      BY <1>a
    <2>2. \A o \in Objects : Torn(latest[o]) \in may[o] => StillSpared(o)
      BY <1>b DEF StillSpared, Spared, SafeCopy
    <2> QED
      BY <2>1, <2>2, RecoverableKept
  <1>5. ReportTrue'
    BY DEF ReportTrue, AtStep, Texts, Shape
  <1> QED
    BY <1>1, <1>2, <1>3, <1>4, <1>5

\* A step that changes nothing keeps the invariant.
LEMMA StutterKeeps == IInv /\ UNCHANGED vars => IInv'
  <1> SUFFICES ASSUME IInv, UNCHANGED vars PROVE IInv'
    OBVIOUS
  <1> USE DEF IInv, vars, Held, Mine
  <1>1. Shape'
    BY DEF Shape
  <1>2. Texts' /\ ReportTrue'
    BY DEF Texts, ReportTrue
  <1>3. AtStep'
    BY DEF AtStep
  <1>4. Recoverable'
    BY DEF Recoverable, SafeCopy, Spared
  <1> QED
    BY <1>1, <1>2, <1>3, <1>4

\* The invariant holds in every state.
THEOREM FormatInvariant == Spec => []IInv
  <1>1. IInv /\ [Next]_vars => IInv'
    <2> SUFFICES ASSUME IInv, [Next]_vars PROVE IInv'
      OBVIOUS
    <2>1. CASE Replace
      BY <2>1, CheckKeeps, MakeCopyKeeps, KeepCopyKeeps, SyncNameKeeps, LookAtNameKeeps,
         WriteKeeps, SyncKeeps, UndoKeeps, RestoreModeKeeps, LookAgainKeeps,
         RemoveCopyKeeps DEF Replace
    <2> QED
      BY <2>1, OpenUpdateKeeps, AgainKeeps, CancelKeeps, SaveByRenameKeeps,
         SaveInPlaceKeeps, PowerFailsKeeps, StutterKeeps DEF Next
  <1> QED
    BY InitEstablishes, <1>1, PTL DEF Spec

\* The user's text outlives a power failure at any moment: what a file may
\* hold is the last text, plain or formatted, or a copy that lasts holds it.
THEOREM TextsSurvive == Spec => []TextSurvives
  <1>1. IInv => TextSurvives
    <2> SUFFICES ASSUME IInv, DirSync, NEW o \in Objects, NEW c \in may[o],
                        c \notin {Plain(latest[o]), Formatted(latest[o])}
                 PROVE  \E k \in 1..Copies : SafeCopy(k, latest[o])
      BY DEF TextSurvives
    <2>1. c = Torn(latest[o])
      BY DEF IInv, Texts
    <2> QED
      BY <2>1 DEF IInv, Recoverable
  <1> QED
    BY FormatInvariant, <1>1, PTL

\* Every report of a replacement is true of the file and of the copy.
THEOREM ReportsAreTrue == Spec => []ReportTrue
  <1>1. IInv => ReportTrue
    BY DEF IInv
  <1> QED
    BY FormatInvariant, <1>1, PTL
=============================================================================
