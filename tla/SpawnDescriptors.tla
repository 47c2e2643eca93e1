-------------------------- MODULE SpawnDescriptors --------------------------
(* The file actions of landin_tool_start_in_directory                        *)
(* (compiler/ada/src/platform/landin_tool_process.c): which open file each   *)
(* descriptor number names in the tool. A caller whose standard descriptors  *)
(* are closed has its captures opened at 0 to 2, where one action would      *)
(* overwrite the source of a later one; every such source is moved first.    *)
EXTENDS Integers

CONSTANT MaxFd   \* bound: the largest number a source is opened at

ASSUME FdAssumption == MaxFd \in Nat /\ MaxFd >= 2

(* Numbers: the caller's, and one more for each source that may be moved.    *)
Numbers == 0 .. MaxFd + 4
NoFd == -1
Closed == "closed"

(* A call: the numbers its sources are open at, or none. The capture is      *)
(* always given; two sources never share a number.                           *)
Sources == {"input", "capture", "errors", "directory"}
Given(call) == {x \in Sources : call[x] # NoFd}
SpawnCalls == {call \in [Sources -> {NoFd} \cup 0 .. MaxFd] :
                /\ call["capture"] # NoFd
                /\ \A x, y \in Given(call) : call[x] = call[y] => x = y}

(* The caller's descriptors: its sources where they are, its own standard    *)
(* files at the other numbers up to 2 it has not closed.                     *)
Own == <<"stdin", "stdout", "stderr">>
Caller(call, closed) ==
  [n \in Numbers |->
     IF \E x \in Given(call) : call[x] = n
     THEN CHOOSE x \in Given(call) : call[x] = n
     ELSE IF n \in 0 .. 2 \ closed THEN Own[n + 1] ELSE Closed]

(* Mutant: a source among the standard numbers is used where it is.          *)
Bug_Moved(call, x) == call[x]

(* landin_tool_source: F_DUPFD_CLOEXEC finds a free number above 2.          *)
Above(x) == MaxFd + (CASE x = "input" -> 1 [] x = "capture" -> 2
                       [] x = "errors" -> 3 [] x = "directory" -> 4)
Moved(call, x) == IF call[x] \in 0 .. 2 THEN Above(x) ELSE call[x]

Move(table, call, x) ==
  IF call[x] = NoFd THEN table ELSE [table EXCEPT ![Moved(call, x)] = table[call[x]]]

Dup2(table, from, to) == [table EXCEPT ![to] = table[from]]
Close(table, n) == [table EXCEPT ![n] = Closed]
CloseSource(table, call, x) ==
  IF call[x] = NoFd THEN table ELSE Close(table, Moved(call, x))

(* The child's table when the tool begins, and the directory it is in. The   *)
(* moved copies and the caller's sources are closed by then, by an action or *)
(* on exec.                                                                  *)
NoInput(call) == call["input"] = NoFd /\ \E x \in Sources \ {"input"} : call[x] = 0

Started(call, closed) ==
  LET t0 == Caller(call, closed)
      t1 == Move(Move(Move(Move(t0, call, "input"), call, "capture"),
                      call, "errors"), call, "directory")
      in == IF call["input"] = NoFd THEN t1
            ELSE Dup2(t1, Moved(call, "input"), 0)
      out == Dup2(in, Moved(call, "capture"), 1)
      err == Dup2(out, IF call["errors"] = NoFd THEN 1
                       ELSE Moved(call, "errors"), 2)
      none == IF NoInput(call) THEN Close(err, 0) ELSE err
      t2 == CloseSource(CloseSource(CloseSource(CloseSource(
              none, call, "input"), call, "capture"), call, "errors"),
              call, "directory")
  IN  [files |-> t2,
       cwd |-> IF call["directory"] = NoFd THEN "caller"
               ELSE t1[Moved(call, "directory")]]

(* What the comment of landin_tool_start_in_directory promises.              *)
Right(call, closed) ==
  LET tool == Started(call, closed) IN
  /\ tool.files[0] = IF call["input"] # NoFd THEN "input"
                     ELSE IF 0 \in closed \/ NoInput(call) THEN Closed ELSE "stdin"
  /\ tool.files[1] = "capture"
  /\ tool.files[2] = IF call["errors"] = NoFd THEN "capture" ELSE "errors"
  /\ \A n \in Numbers \ 0 .. 2 : tool.files[n] = Closed
  /\ tool.cwd = IF call["directory"] = NoFd THEN "caller" ELSE "directory"

(* Whatever numbers the sources are open at and whichever standard           *)
(* descriptors the caller has closed, the tool reads its input or nothing of *)
(* the caller's, writes into its captures and holds no other source.         *)
StreamsRight ==
  \A closed \in SUBSET (0 .. 2), call \in SpawnCalls : Right(call, closed)
=============================================================================
