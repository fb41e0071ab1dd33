------------------------------- MODULE ShRun -------------------------------
(***************************************************************************)
(* The shell's runcmd() (user/sh.c): the processes that a command tree     *)
(* becomes, and their file descriptors.  A node of the tree is named by    *)
(* the path that leads to it, and a process by the node it was forked for. *)
(* A step is one system call of runcmd(), except that the close() and      *)
(* dup() calls with which a child sets up its descriptors are one step.    *)
(* A program that was exec()ed reads its standard input to the end when    *)
(* that is a pipe; any fork(), open() or exec() may fail.                  *)
(***************************************************************************)
EXTENDS Integers, Sequences, FiniteSets, FiniteSetsExt

CONSTANTS Trees,   \* the command trees that are run
          NOFILE,
          Nil

VARIABLES tree,
          proc,    \* the processes forked so far, by node
          prompt,  \* main() is back at getcmd()
          oops     \* a system call has failed

vars == <<tree, proc, prompt, oops>>

FD == 0..NOFILE-1
Std == [d \in FD |-> IF d <= 2 THEN <<"console">> ELSE Nil]

RECURSIVE Sub(_, _)
Sub(t, n) == IF n = <<>> THEN t
             ELSE Sub(IF t.type \in {"REDIR", "BACK"} THEN t.cmd
                      ELSE IF Head(n) = 1 THEN t.left ELSE t.right, Tail(n))

Started(n, fd) == [pc |-> "run", node |-> n, fd |-> fd, kids |-> {}, p |-> <<>>]

Init ==
  /\ tree \in Trees
  /\ proc = [q \in {<<>>} |-> Started(<<>>, Std)]
  /\ prompt = FALSE /\ oops = FALSE

Node(q) == Sub(tree, proc[q].node)
Runs(q, type) == proc[q].pc = "run" /\ Node(q).type = type
Child(q, k) == Append(proc[q].node, k)

(* close(), and the lowest free descriptor that open(), dup() and pipe()   *)
(* give.                                                                   *)
Close(fd, D) == [d \in FD |-> IF d \in D THEN Nil ELSE fd[d]]
Lowest(fd) == Min({d \in FD : fd[d] = Nil})
Open(fd, x) == [fd EXCEPT ![Lowest(fd)] = x]

Gone == [pc |-> "exit", node |-> <<>>, fd |-> [d \in FD |-> Nil], kids |-> {}, p |-> <<>>]

(* exit(): the descriptors are closed, the children go to init.            *)
Exit(q) == proc' = [proc EXCEPT ![q] = Gone]
Fork(q, n, r, fd) == [x \in DOMAIN proc \cup {n} |->
                        IF x = n THEN Started(n, fd) ELSE IF x = q THEN r ELSE proc[x]]
Fails(q) == Exit(q) /\ oops' = TRUE /\ UNCHANGED <<tree, prompt>>
-----------------------------------------------------------------------------
RunExec(q) ==
  /\ Runs(q, "EXEC")
  /\ IF Node(q).argv = <<>> THEN Exit(q) ELSE proc' = [proc EXCEPT ![q].pc = "program"]
  /\ UNCHANGED <<tree, prompt, oops>>

RunRedir(q) ==
  LET c == Node(q)
      d == IF c.op = "<" THEN 0 ELSE 1
  IN
  /\ Runs(q, "REDIR")
  /\ proc' = [proc EXCEPT ![q].fd = Open(Close(@, {d}), c.file), ![q].node = Append(@, 1)]
  /\ UNCHANGED <<tree, prompt, oops>>

(* LIST: a child for the left side; after wait() the right side is run in  *)
(* this process.                                                           *)
RunList(q) ==
  LET n == Child(q, 1) IN
  /\ Runs(q, "LIST")
  /\ proc' = Fork(q, n, [proc[q] EXCEPT !.pc = "wait", !.kids = {n}], proc[q].fd)
  /\ UNCHANGED <<tree, prompt, oops>>

WaitList(q) ==
  /\ proc[q].pc = "wait" /\ Node(q).type = "LIST"
  /\ \E k \in proc[q].kids : proc[k].pc = "exit"
  /\ proc' = [proc EXCEPT ![q].pc = "run", ![q].node = Append(@, 2), ![q].kids = {}]
  /\ UNCHANGED <<tree, prompt, oops>>

RunBack(q) ==
  LET n == Child(q, 1) IN
  /\ Runs(q, "BACK")
  /\ proc' = Fork(q, n, Gone, proc[q].fd)
  /\ UNCHANGED <<tree, prompt, oops>>

(* PIPE: pipe(p), ...                                                      *)
RunPipe(q) ==
  LET r == Lowest(proc[q].fd)
      fd1 == Open(proc[q].fd, <<"r", proc[q].node>>)
      w == Lowest(fd1)
  IN
  /\ Runs(q, "PIPE")
  /\ proc' = [proc EXCEPT ![q].pc = "left", ![q].fd = Open(fd1, <<"w", proc[q].node>>),
                          ![q].p = <<r, w>>]
  /\ UNCHANGED <<tree, prompt, oops>>

(* Mutant: the children keep the descriptors of pipe(). *)
SideKeeps(fd, p, std, k) == Open(Close(fd, {std}), fd[p[k]])

(* ... the descriptors of a child: close(std), dup(p[k]), close both, ...  *)
Side(fd, p, std, k) == Close(Open(Close(fd, {std}), fd[p[k]]), {p[1], p[2]})

ForkLeft(q) ==
  LET n == Child(q, 1)  r == proc[q] IN
  /\ r.pc = "left"
  /\ proc' = Fork(q, n, [r EXCEPT !.pc = "right", !.kids = {n}], Side(r.fd, r.p, 1, 2))
  /\ UNCHANGED <<tree, prompt, oops>>

ForkRight(q) ==
  LET n == Child(q, 2)  r == proc[q] IN
  /\ r.pc = "right"
  /\ proc' = Fork(q, n, [r EXCEPT !.pc = "close", !.kids = @ \cup {n}], Side(r.fd, r.p, 0, 1))
  /\ UNCHANGED <<tree, prompt, oops>>

(* Mutant: the shell waits with the pipe still open. *)
PipeKept(q) == proc[q].fd

(* ... and what the shell itself closes before it waits for both.          *)
PipeClosed(q) == Close(proc[q].fd, {proc[q].p[1], proc[q].p[2]})

ClosePipe(q) ==
  /\ proc[q].pc = "close"
  /\ proc' = [proc EXCEPT ![q].fd = PipeClosed(q), ![q].pc = "wait", ![q].p = <<>>]
  /\ UNCHANGED <<tree, prompt, oops>>

WaitPipe(q) ==
  /\ proc[q].pc = "wait" /\ Node(q).type = "PIPE"
  /\ \A k \in proc[q].kids : proc[k].pc = "exit"
  /\ Exit(q)
  /\ UNCHANGED <<tree, prompt, oops>>

(* fork1(), pipe(), open() or exec() fails: the process exits.  One call   *)
(* at most fails in a behaviour.                                           *)
RunFails(q) ==
  /\ proc[q].pc \in {"run", "left", "right"}
  /\ ~oops
  /\ Fails(q)

(* A program ends; one that reads a pipe, when no one can write to it.     *)
Ends(q) ==
  LET in == proc[q].fd[0] IN
  /\ proc[q].pc = "program"
  /\ \A x \in DOMAIN proc, d \in FD : in[1] = "r" => proc[x].fd[d] # <<"w", in[2]>>
  /\ Exit(q)
  /\ UNCHANGED <<tree, prompt, oops>>

(* main(): wait(0), then the next command.                                 *)
Main ==
  /\ proc[<<>>].pc = "exit"
  /\ prompt' = TRUE
  /\ UNCHANGED <<tree, proc, oops>>

Next ==
  \/ \E q \in DOMAIN proc :
       \/ RunExec(q) \/ RunRedir(q) \/ RunList(q) \/ WaitList(q) \/ RunBack(q)
       \/ RunPipe(q) \/ ForkLeft(q) \/ ForkRight(q) \/ ClosePipe(q) \/ WaitPipe(q)
       \/ RunFails(q) \/ Ends(q)
  \/ Main

Spec == Init /\ [][Next]_vars

(* Programs end once their input has, and processes get the CPU.           *)
Fairness == WF_vars(Next)
-----------------------------------------------------------------------------
(* Where the command at node n should read and write, from the tree alone. *)
RECURSIVE Plumb(_, _, _)
Plumb(n, k, io) ==     \* walk from the root to node n, k steps done
  LET t == Sub(tree, SubSeq(n, 1, k))
      node == SubSeq(n, 1, k)
  IN IF k = Len(n) THEN io
     ELSE Plumb(n, k + 1,
            CASE t.type = "REDIR" -> [io EXCEPT ![IF t.op = "<" THEN 0 ELSE 1] = t.file]
              [] t.type = "PIPE" /\ n[k + 1] = 1 -> [io EXCEPT ![1] = <<"w", node>>]
              [] t.type = "PIPE" /\ n[k + 1] = 2 -> [io EXCEPT ![0] = <<"r", node>>]
              [] OTHER -> io)

(* Every program starts with exactly the descriptors its place in the      *)
(* command calls for: input and output are the innermost redirection or    *)
(* pipe around it, 2 is the console, and no other descriptor is open, so   *)
(* that a pipe ends when its writers do.                                   *)
StdioExact ==
  \A q \in DOMAIN proc : proc[q].pc = "program" => proc[q].fd = Plumb(proc[q].node, 0, Std)

(* The shell comes back to its prompt: no reader of a pipeline waits for   *)
(* an end of file that a descriptor left open keeps from it.               *)
PromptReturns == <>prompt
=============================================================================
