------------------------------ MODULE ShellProofs ------------------------------
(***************************************************************************)
(* Proofs about Shell, for any number of processes, descriptors and pipes, *)
(* every set of lines and all programs: its types, that it never leaves a  *)
(* command of the foreground behind, that its terminal stays, and that a   *)
(* pipe is written by nobody but the programs it was made for.             *)
(***************************************************************************)
EXTENDS Shell, FiniteSetTheorems, WellFoundedInduction, TLAPS

(* The variables of a shell and of a program are records with these fields,
   whatever is in them. *)
ShellFields == {"at", "rest", "argv", "input_fd", "output_fd", "pipe_fd", "type", "child"}
JobFields == {"left", "reading", "type"}

Shaped ==
  /\ DOMAIN sh = Pid /\ \A p \in Pid : DOMAIN sh[p] = ShellFields
  /\ DOMAIN job = Pid /\ \A p \in Pid : DOMAIN job[p] = JobFields

(* A command that ends a line exists only while its parent waits for it. *)
Waited ==
  \A p, c \in Pid : c \in Children(p) /\ job[c].type = "NEWLINE" =>
    InShell(p, "wait") /\ sh[p].child = c

(* A process that is a shell or was forked by one has the terminal at its
   standard descriptors, and the end of a pipe it is about to close is none of
   them. *)
OnTerminal(p) == \A f \in 0 .. 2 : fds[p][f] = Terminal
PipeApart(p) ==
  sh[p].at \in {"command", "wait", "ran"} /\ sh[p].type = "PIPE" =>
    sh[p].pipe_fd[2] \notin 0 .. 2
Kept ==
  Normal => \A p \in Pid :
    /\ mode[p] \in {"shell", "forked"} => OnTerminal(p)
    /\ mode[p] = "shell" => PipeApart(p)

-------------------------------------------------------------------------------
(* Lemmas about system calls. *)

(* The lowest of a nonempty set of numbers is in it. *)
LEMMA LowestIsMember ==
  ASSUME NEW S \in SUBSET Nat, S # {}
  PROVE  Lowest(S) \in S
<1> DEFINE Less == {ss \in Nat \X Nat : ss[1] < ss[2]}
<1>1. IsWellFoundedOn(Less, Nat)
  BY NatLessThanWellFounded DEF OpToRel
<1>2. PICK k \in S : \A j \in S : <<j, k>> \notin Less
  <2> HIDE DEF Less
  <2> QED BY <1>1, WFMin
<1>3. \A j \in S : k <= j
  <2> TAKE j \in S
  <2>1. j \in Nat /\ k \in Nat
    OBVIOUS
  <2>2. ~(j < k)
    BY <1>2, <2>1
  <2> QED BY <2>1, <2>2
<1>4. QED
  BY <1>3 DEF Lowest

LEMMA FreePidTaken ==
  ASSUME FreePids # {}
  PROVE  Lowest(FreePids) \in Pid /\ mode[Lowest(FreePids)] = "free"
<1>1. FreePids \in SUBSET Nat
  BY ProcessAssumption DEF FreePids
<1>2. Lowest(FreePids) \in FreePids
  BY <1>1, LowestIsMember
<1>3. QED
  BY <1>2 DEF FreePids

LEMMA FreeFdTaken ==
  ASSUME NEW p \in Pid, NEW S \in SUBSET FreeFds(p), S # {}
  PROVE  Lowest(S) \in S /\ Lowest(S) \in Fd /\ fds[p][Lowest(S)] = Closed
<1>1. Fd \subseteq Nat
  BY ProcessAssumption DEF Fd
<1>2. S \in SUBSET Nat
  BY <1>1 DEF FreeFds
<1>3. Lowest(S) \in S
  BY <1>2, LowestIsMember
<1>4. QED
  BY <1>3 DEF FreeFds

LEMMA FreeFdsFinite ==
  ASSUME NEW p
  PROVE  IsFiniteSet(FreeFds(p))
<1>1. IsFiniteSet(Fd)
  BY ProcessAssumption, FS_Interval DEF Fd
<1>2. QED
  BY <1>1, FS_Subset DEF FreeFds

(* Two descriptors are free where more than one is. *)
LEMMA TwoAreFree ==
  ASSUME NEW p \in Pid, Cardinality(FreeFds(p)) > 1
  PROVE  FreeFds(p) # {} /\ FreeFds(p) \ {Lowest(FreeFds(p))} # {}
<1>1. Cardinality(FreeFds(p)) # 0
  OBVIOUS
<1>2. FreeFds(p) # {}
  BY <1>1, FS_EmptySet
<1>3. ASSUME FreeFds(p) \ {Lowest(FreeFds(p))} = {} PROVE FALSE
  <2>1. FreeFds(p) = {Lowest(FreeFds(p))}
    BY <1>2, <1>3
  <2>2. Cardinality({Lowest(FreeFds(p))}) = 1
    BY FS_Singleton
  <2>3. QED
    BY <2>1, <2>2
<1>4. QED
  BY <1>2, <1>3

(* dup2 and close keep a table of descriptors one. *)
LEMMA Dup2Typed ==
  ASSUME NEW S, NEW t \in [Fd -> S], NEW old, NEW new
  PROVE  dup2(t, old, new) \in [Fd -> S]
BY DEF dup2

LEMMA CloseTyped ==
  ASSUME NEW t \in [Fd -> Open \cup {Closed}], NEW f
  PROVE  close(t, f) \in [Fd -> Open \cup {Closed}]
BY DEF close

LEMMA TerminalOpen == Terminal # Closed
BY DEF Terminal, Closed

LEMMA StandardFds == 0 .. 2 \subseteq Fd
BY ProcessAssumption DEF Fd

-------------------------------------------------------------------------------
(* Steps. *)

(* What a step of the shell in p can do: give its variables the values r.  It
   neither starts to wait nor stops waiting. *)
Moves(p, r) ==
  /\ mode[p] = "shell" /\ sh[p].at # "wait"
  /\ DOMAIN r = ShellFields /\ r.at # "wait"
  /\ sh' = [sh EXCEPT ![p] = r]
  /\ UNCHANGED <<mode, parent, job>>

LEMMA MovesPreserve ==
  ASSUME TypeOK, Shaped, Waited, NEW p \in Pid, NEW r, Moves(p, r)
  PROVE  /\ Shaped'
         /\ Waited'
         /\ \A q \in Pid : sh'[q].at # "prompt" => mode'[q] \in {"shell", "forked"}
<1>1. \A q \in Pid : sh'[q] = IF q = p THEN r ELSE sh[q]
  BY DEF Shaped, Moves
<1>2. Shaped'
  BY <1>1 DEF Shaped, Moves
<1>3. Waited'
  BY <1>1 DEF Waited, Moves, Children, InShell
<1>4. \A q \in Pid : sh'[q].at # "prompt" => mode'[q] \in {"shell", "forked"}
  BY <1>1 DEF TypeOK, Moves
<1>5. QED
  BY <1>2, <1>3, <1>4

(* The parser's actions. *)
Parses(p) ==
  \/ \E line \in Line : FetchLine(p, line)
  \/ Argument(p) \/ NoFileName(p) \/ OpenFile(p) \/ Separator(p)
  \/ MakePipe(p) \/ PipeFails(p) \/ NoCommand(p) \/ ChangeDirectory(p)

LEMMA AtPromptShape == DOMAIN AtPrompt = ShellFields /\ AtPrompt.at = "prompt"
BY DEF AtPrompt, ShellFields

(* A pipe that is to be closed was just made, unless making it failed, or is
   the one of the command before the builtin. *)
LowestTwo(p) == <<Lowest(FreeFds(p)), Lowest(FreeFds(p) \ {Lowest(FreeFds(p))})>>
PipeKnown(p, r) ==
  r.at \in {"command", "wait", "ran"} /\ r.type = "PIPE" =>
    \/ MakePipe(p) /\ r.pipe_fd = LowestTwo(p)
    \/ PipeFails(p)
    \/ ChangeDirectory(p) /\ r.pipe_fd = sh[p].pipe_fd /\ sh[p].type = "PIPE"

LEMMA ParsesMove ==
  ASSUME Shaped, NEW p \in Pid, Parses(p)
  PROVE  \E r : Moves(p, r) /\ PipeKnown(p, r)
<1> DEFINE s == sh[p]
           Known(r) == Moves(p, r) /\ PipeKnown(p, r)
<1>0. DOMAIN s = ShellFields /\ DOMAIN sh = Pid
  BY DEF Shaped
<1>1. ASSUME NEW line \in Line, FetchLine(p, line)
      PROVE  Known([AtPrompt EXCEPT !.at = "parse", !.rest = line])
  BY <1>0, <1>1, AtPromptShape DEF FetchLine, Moves, PipeKnown, InShell, kernel, ShellFields
<1>2. ASSUME Argument(p)
      PROVE  Known([s EXCEPT !.argv = Append(@, Token(p).text), !.rest = Token(p).rest])
  BY <1>0, <1>2 DEF Argument, Moves, PipeKnown, InShell, kernel, ShellFields
<1>3. ASSUME NoFileName(p) \/ NoCommand(p) PROVE Known(AtPrompt)
  BY <1>0, <1>3, AtPromptShape
  DEF NoFileName, NoCommand, Redirection, Moves, PipeKnown, InShell, kernel, ShellFields
<1>4. ASSUME OpenFile(p) PROVE \E fd : Known(Redirected(p, fd))
  BY <1>0, <1>4
  DEF OpenFile, Redirection, Redirected, Moves, PipeKnown, InShell, ShellFields
<1>5. ASSUME Separator(p) PROVE Known(Complete(p, Token(p).type))
  BY <1>0, <1>5 DEF Separator, Complete, Moves, PipeKnown, InShell, kernel, ShellFields
<1>6. ASSUME MakePipe(p)
      PROVE  Known([Complete(p, "PIPE") EXCEPT !.pipe_fd = LowestTwo(p), !.output_fd = LowestTwo(p)[2]])
  BY <1>0, <1>6 DEF MakePipe, LowestTwo, Complete, Moves, PipeKnown, InShell, ShellFields
<1>7. ASSUME PipeFails(p) PROVE \E r : Known(r)
  <2> DEFINE q(v, w) == [Complete(p, "PIPE") EXCEPT !.pipe_fd = <<v, w>>, !.output_fd = w]
  <2>1. /\ mode[p] = "shell" /\ sh[p].at = "parse" /\ UNCHANGED <<mode, parent, job>>
        /\ \E v, w : sh' = [sh EXCEPT ![p] = q(v, w)]
    BY <1>7 DEF PipeFails, InShell, kernel
  <2>2. PICK v, w : sh' = [sh EXCEPT ![p] = q(v, w)]
    BY <2>1
  <2>3. DOMAIN q(v, w) = ShellFields /\ q(v, w).at = "command"
    BY <1>0 DEF Complete, ShellFields
  <2> HIDE DEF q
  <2>4. Moves(p, q(v, w)) /\ PipeKnown(p, q(v, w))
    BY <1>7, <2>1, <2>2, <2>3 DEF Moves, PipeKnown
  <2>5. QED
    BY <2>4
<1>8. ASSUME ChangeDirectory(p) PROVE Known([s EXCEPT !.at = "ran"])
  BY <1>0, <1>8 DEF ChangeDirectory, Runs, Moves, PipeKnown, InShell, kernel, ShellFields
<1>9. QED
  BY <1>1, <1>2, <1>3, <1>4, <1>5, <1>6, <1>7, <1>8 DEF Parses

(* The tables of processes and of descriptors agree. *)
Tables ==
  /\ fds \in [Pid -> [Fd -> Open \cup {Closed}]]
  /\ \A p \in Pid : mode[p] \in {"free", "zombie"} => \A f \in Fd : fds[p][f] = Closed

(* A new table for a process that is neither free nor a zombie. *)
LEMMA TableReplaced ==
  ASSUME TypeOK, NEW p \in Pid, mode'[p] \notin {"free", "zombie"},
         NEW t \in [Fd -> Open \cup {Closed}], fds' = [fds EXCEPT ![p] = t],
         \A q \in Pid \ {p} : mode'[q] \in {"free", "zombie"} => mode[q] \in {"free", "zombie"}
  PROVE  Tables'
BY DEF TypeOK, Tables

LEMMA ParsesTyped ==
  ASSUME TypeOK, Shaped, Waited, NEW p \in Pid, Parses(p)
  PROVE  TypeOK'
<1>1. PICK r : Moves(p, r)
  BY ParsesMove
<1>2. mode' = mode /\ parent' = parent /\ mode[p] = "shell"
  BY <1>1 DEF Moves
<1>3. \A q \in Pid : sh'[q].at # "prompt" => mode'[q] \in {"shell", "forked"}
  BY <1>1, MovesPreserve
<1>4. ASSUME UNCHANGED fds PROVE Tables'
  BY <1>2, <1>4 DEF TypeOK, Tables
<1>5. ASSUME UNCHANGED <<fds, buffer, cwd, old_dir>> PROVE TypeOK'
  BY <1>2, <1>3, <1>4, <1>5 DEF TypeOK, Tables
<1>6. CASE OpenFile(p)
  <2>1. Tables'
    <3>1. CASE UNCHANGED fds
      BY <1>4, <3>1
    <3>2. ASSUME NEW fd, fds' = [fds EXCEPT ![p][fd] = File] PROVE Tables'
      <4>1. [fds[p] EXCEPT ![fd] = File] \in [Fd -> Open \cup {Closed}]
        BY DEF TypeOK, Open
      <4>2. fds' = [fds EXCEPT ![p] = [fds[p] EXCEPT ![fd] = File]]
        BY <3>2
      <4>3. QED
        BY <1>2, <4>1, <4>2, TableReplaced
    <3>3. QED
      BY <1>6, <3>1, <3>2 DEF OpenFile
  <2>2. UNCHANGED <<buffer, cwd, old_dir>>
    BY <1>6 DEF OpenFile
  <2>3. QED
    BY <1>2, <1>3, <2>1, <2>2 DEF TypeOK, Tables
<1>7. CASE MakePipe(p)
  <2> DEFINE v == Lowest(FreeFds(p))
             w == Lowest(FreeFds(p) \ {v})
  <2>1. PICK k \in Pipe :
           /\ fds' = [fds EXCEPT ![p][v] = ReadEnd(k), ![p][w] = WriteEnd(k)]
           /\ buffer' = [buffer EXCEPT ![k] = 0]
    BY <1>7, Zenon DEF MakePipe
  <2> HIDE DEF v, w
  <2> DEFINE t == [fds[p] EXCEPT ![v] = ReadEnd(k), ![w] = WriteEnd(k)]
  <2>2. t \in [Fd -> Open \cup {Closed}]
    BY DEF TypeOK, Open
  <2>3. fds' = [fds EXCEPT ![p] = t]
    BY <2>1 DEF TypeOK
  <2>4. Tables'
    <3> HIDE DEF t
    <3> QED BY <1>2, <2>2, <2>3, TableReplaced
  <2>5. buffer' \in [Pipe -> 0 .. PipeCapacity]
    BY <2>1, PipeAssumption DEF TypeOK
  <2>6. UNCHANGED <<cwd, old_dir>>
    BY <1>7 DEF MakePipe
  <2>7. QED
    BY <1>2, <1>3, <2>4, <2>5, <2>6 DEF TypeOK, Tables
<1>8. CASE ChangeDirectory(p)
  <2>1. Tables'
    BY <1>4, <1>8 DEF ChangeDirectory, kernel
  <2>2. Destinations(p) \subseteq Dir
    BY NameAssumption DEF TypeOK, Destinations
  <2>3. cwd' \in [Pid -> Dir] /\ old_dir' \in [Pid -> Dir \cup {NULL}]
    BY <1>8, <2>2 DEF ChangeDirectory, TypeOK
  <2>4. UNCHANGED buffer
    BY <1>8 DEF ChangeDirectory, kernel
  <2>5. QED
    BY <1>2, <1>3, <2>1, <2>3, <2>4 DEF TypeOK, Tables
<1>9. QED
  BY <1>5, <1>6, <1>7, <1>8 DEF Parses, FetchLine, Argument, NoFileName, Separator, PipeFails, NoCommand, kernel

(* What does not depend on the terminal. *)
Base == TypeOK /\ Shaped /\ Waited

(* A process ends; its children are init's then, which is no process of ours. *)
LEMMA ExitPreserves ==
  ASSUME Base, NEW p \in Pid, mode[p] # "free", exit(p),
         UNCHANGED <<job, buffer, cwd, old_dir>>
  PROVE  Base'
<1>1. init \notin Pid
  BY ProcessAssumption
<1>2. /\ mode' = [q \in Pid |->
           IF q = p THEN IF parent[p] = init THEN "free" ELSE "zombie"
           ELSE IF q \in Children(p) /\ mode[q] = "zombie" THEN "free" ELSE mode[q]]
      /\ parent' = [q \in Pid |-> IF q \in Children(p) THEN init ELSE parent[q]]
      /\ fds' = [fds EXCEPT ![p] = [f \in Fd |-> Closed]]
      /\ sh' = [sh EXCEPT ![p] = AtPrompt]
  BY DEF exit
<1>3. \A q \in Pid : sh'[q] = IF q = p THEN AtPrompt ELSE sh[q]
  BY <1>2 DEF Base, Shaped
<1>4. \A q \in Pid \ {p} :
        \/ mode'[q] = mode[q]
        \/ mode[q] = "zombie" /\ mode'[q] = "free"
  BY <1>2
<1>5. mode'[p] \in {"free", "zombie"}
  BY <1>2
<1>6. TypeOK'
  <2>1. mode' \in [Pid -> {"free", "shell", "forked", "running", "zombie"}]
    BY <1>2 DEF Base, TypeOK
  <2>2. parent' \in [Pid -> Pid \cup {init}]
    BY <1>2 DEF Base, TypeOK
  <2>3. fds' \in [Pid -> [Fd -> Open \cup {Closed}]]
    BY <1>2 DEF Base, TypeOK
  <2>4. \A q \in Pid : mode'[q] \in {"free", "zombie"} => \A f \in Fd : fds'[q][f] = Closed
    BY <1>2, <1>4 DEF Base, TypeOK
  <2>5. \A q \in Pid : sh'[q].at # "prompt" => mode'[q] \in {"shell", "forked"}
    BY <1>3, <1>4, AtPromptShape DEF Base, TypeOK
  <2>6. QED
    BY <2>1, <2>2, <2>3, <2>4, <2>5 DEF Base, TypeOK
<1>7. Shaped'
  <2>1. DOMAIN sh' = Pid
    BY <1>2 DEF Base, Shaped
  <2>2. \A q \in Pid : DOMAIN sh'[q] = ShellFields
    BY <1>3, AtPromptShape DEF Base, Shaped
  <2>3. QED
    BY <2>1, <2>2 DEF Base, Shaped
<1>8. Waited'
  <2> SUFFICES ASSUME NEW q \in Pid, NEW c \in Pid,
                      c \in Children(q)', job'[c].type = "NEWLINE"
               PROVE  InShell(q, "wait")' /\ sh'[q].child = c
    BY DEF Waited
  <2>1. parent'[c] = q /\ mode'[c] # "free"
    BY DEF Children
  <2>2. c \notin Children(p) /\ parent[c] = q
    BY <1>1, <1>2, <2>1
  <2>3. mode[c] # "free"
    BY <1>4, <2>1
  <2>4. c \in Children(q)
    BY <2>2, <2>3 DEF Children
  <2>5. InShell(q, "wait") /\ sh[q].child = c
    BY <2>4 DEF Base, Waited
  <2>6. q # p
    BY <2>2, <2>4
  <2>7. QED
    BY <1>3, <1>4, <2>5, <2>6 DEF InShell
<1>9. QED
  BY <1>6, <1>7, <1>8 DEF Base

(* A command is started. *)
LEMMA ForkPreserves ==
  ASSUME Base, NEW p \in Pid, Fork(p)
  PROVE  Base'
<1> DEFINE c == Lowest(FreePids)
           r == [sh[p] EXCEPT !.at = "ran"]
<1>1. c \in Pid /\ mode[c] = "free"
  BY FreePidTaken DEF Fork
<1>2. mode[p] = "shell" /\ sh[p].at = "command" /\ p # c
  BY <1>1 DEF Fork, Forks, InShell
<1>3. /\ mode' = [mode EXCEPT ![c] = "forked"]
      /\ parent' = [parent EXCEPT ![c] = p]
      /\ fds' = [fds EXCEPT ![c] = fds[p]]
      /\ sh' = [sh EXCEPT ![p] = Started(p, c), ![c] = r]
      /\ cwd' = [cwd EXCEPT ![c] = cwd[p]]
      /\ old_dir' = [old_dir EXCEPT ![c] = old_dir[p]]
      /\ job' = [job EXCEPT ![c] = [NoJob EXCEPT !.type = sh[p].type]]
      /\ UNCHANGED buffer
  BY DEF Fork
<1> HIDE DEF c
<1>4. /\ DOMAIN Started(p, c) = ShellFields
      /\ Started(p, c).at = IF sh[p].type = "NEWLINE" THEN "wait" ELSE "ran"
      /\ Started(p, c).child = c
  BY DEF Base, Shaped, ShellFields, Started, InForeground
<1>5. DOMAIN r = ShellFields /\ r.at = "ran"
  BY DEF Base, Shaped, ShellFields
<1>6. \A q \in Pid : sh'[q] = IF q = c THEN r ELSE IF q = p THEN Started(p, c) ELSE sh[q]
  BY <1>1, <1>2, <1>3 DEF Base, Shaped
<1> HIDE DEF r
<1>7. \A q \in Pid : job'[q].type = IF q = c THEN sh[p].type ELSE job[q].type
  BY <1>1, <1>3 DEF Base, Shaped, NoJob
<1>8. TypeOK'
  <2>1. Tables'
    BY <1>1, <1>3, TableReplaced DEF Base, TypeOK
  <2>2. \A q \in Pid : sh'[q].at # "prompt" => mode'[q] \in {"shell", "forked"}
    BY <1>1, <1>2, <1>3, <1>6 DEF Base, TypeOK
  <2>3. QED
    BY <1>3, <2>1, <2>2 DEF Base, TypeOK, Tables
<1>9. Shaped'
  <2>1. DOMAIN job' = Pid /\ \A q \in Pid : DOMAIN job'[q] = JobFields
    BY <1>3 DEF Base, Shaped, NoJob, JobFields
  <2>2. DOMAIN sh' = Pid /\ \A q \in Pid : DOMAIN sh'[q] = ShellFields
    BY <1>3, <1>4, <1>5, <1>6 DEF Base, Shaped
  <2>3. QED
    BY <2>1, <2>2 DEF Shaped
<1>10. Waited'
  <2> SUFFICES ASSUME NEW q \in Pid, NEW d \in Pid,
                      d \in Children(q)', job'[d].type = "NEWLINE"
               PROVE  InShell(q, "wait")' /\ sh'[q].child = d
    BY DEF Waited
  <2>1. CASE d = c
    <3>1. q = p
      BY <1>1, <1>3, <2>1 DEF Children, Base, TypeOK
    <3>2. sh[p].type = "NEWLINE"
      BY <1>7, <2>1
    <3>3. QED
      BY <1>1, <1>2, <1>3, <1>4, <1>6, <2>1, <3>1, <3>2 DEF InShell, Base, TypeOK
  <2>2. CASE d # c
    <3>1. d \in Children(q) /\ job[d].type = "NEWLINE"
      BY <1>3, <1>7, <2>2 DEF Children, Base, TypeOK
    <3>2. InShell(q, "wait") /\ sh[q].child = d
      BY <3>1 DEF Base, Waited
    <3>3. q # p /\ q # c
      BY <1>1, <1>2, <3>2 DEF InShell
    <3>4. QED
      BY <1>3, <1>6, <3>2, <3>3 DEF InShell, Base, TypeOK
  <2>3. QED
    BY <2>1, <2>2
<1>11. QED
  BY <1>8, <1>9, <1>10 DEF Base

(* fork fails: the command is waited for all the same, or the shell exits. *)
LEMMA ForkFailsPreserves ==
  ASSUME Base, NEW p \in Pid, ForkFails(p)
  PROVE  Base'
<1>1. CASE InForeground(p)
  <2>1. /\ sh' = [sh EXCEPT ![p] = Started(p, ANY)]
        /\ UNCHANGED <<mode, parent, fds, buffer, job, cwd, old_dir>>
        /\ mode[p] = "shell" /\ sh[p].at = "command"
    BY <1>1 DEF ForkFails, Forks, InShell
  <2>2. DOMAIN Started(p, ANY) = ShellFields /\ Started(p, ANY).at = "wait"
    BY <1>1 DEF Base, Shaped, ShellFields, Started
  <2>3. \A q \in Pid : sh'[q] = IF q = p THEN Started(p, ANY) ELSE sh[q]
    BY <2>1 DEF Base, Shaped
  <2>4. TypeOK'
    BY <2>1, <2>3 DEF Base, TypeOK
  <2>5. Shaped'
    BY <2>1, <2>2, <2>3 DEF Base, Shaped
  <2>6. Waited'
    BY <2>1, <2>3 DEF Base, Waited, Children, InShell
  <2>7. QED
    BY <2>4, <2>5, <2>6 DEF Base
<1>2. CASE ~InForeground(p)
  <2>1. mode[p] # "free" /\ exit(p) /\ UNCHANGED <<job, buffer, cwd, old_dir>>
    BY <1>2 DEF ForkFails, Forks, InShell
  <2>2. QED
    BY <2>1, ExitPreserves
<1>3. QED
  BY <1>1, <1>2

(* The child's descriptors after redirection. *)
LEMMA ChildTableTyped ==
  ASSUME TypeOK, NEW c \in Pid
  PROVE  ChildTable(c) \in [Fd -> Open \cup {Closed}]
<1>1. fds[c] \in [Fd -> Open \cup {Closed}]
  BY DEF TypeOK
<1>2. InputTable(c) \in [Fd -> Open \cup {Closed}]
  BY <1>1, Dup2Typed DEF InputTable
<1>3. QED
  BY <1>2, Dup2Typed DEF ChildTable

(* The child executes its program, or goes on as a shell. *)
LEMMA ExecPreserves ==
  ASSUME Base, NEW c \in Pid, Exec(c)
  PROVE  Base'
<1>1. mode[c] = "forked" /\ UNCHANGED <<parent, buffer, cwd, old_dir>>
  BY DEF Exec
<1>2. PICK m \in {"running", "shell"} : mode' = [mode EXCEPT ![c] = m]
  BY DEF Exec
<1>3. \A q \in Pid : mode'[q] = IF q = c THEN m ELSE mode[q]
  BY <1>2 DEF Base, TypeOK
<1>4. \/ sh' = [sh EXCEPT ![c] = AtPrompt]
      \/ m = "shell" /\ UNCHANGED sh
  BY <1>3 DEF Exec, Base, TypeOK
<1>5. \A q \in Pid : sh'[q] = sh[q] \/ (q = c /\ sh'[q] = AtPrompt)
  BY <1>4 DEF Base, Shaped
<1>6. /\ DOMAIN job' = Pid
      /\ \A q \in Pid : DOMAIN job'[q] = JobFields /\ job'[q].type = job[q].type
  BY DEF Exec, Base, Shaped, JobFields
<1>7. TypeOK'
  <2>1. Tables'
    BY <1>2, <1>3, ChildTableTyped, TableReplaced DEF Exec, Base
  <2>2. \A q \in Pid : sh'[q].at # "prompt" => mode'[q] \in {"shell", "forked"}
    BY <1>3, <1>4, <1>5, AtPromptShape DEF Base, TypeOK, Shaped
  <2>3. QED
    BY <1>1, <1>2, <2>1, <2>2 DEF Base, TypeOK, Tables
<1>8. Shaped'
  <2>1. DOMAIN sh' = Pid /\ \A q \in Pid : DOMAIN sh'[q] = ShellFields
    BY <1>4, <1>5, AtPromptShape DEF Base, Shaped
  <2>2. QED
    BY <1>6, <2>1 DEF Shaped
<1>9. Waited'
  <2> SUFFICES ASSUME NEW q \in Pid, NEW d \in Pid,
                      d \in Children(q)', job'[d].type = "NEWLINE"
               PROVE  InShell(q, "wait")' /\ sh'[q].child = d
    BY DEF Waited
  <2>1. d \in Children(q) /\ job[d].type = "NEWLINE"
    BY <1>1, <1>3, <1>6 DEF Children
  <2>2. InShell(q, "wait") /\ sh[q].child = d
    BY <2>1 DEF Base, Waited
  <2>3. q # c
    BY <1>1, <2>2 DEF InShell
  <2>4. QED
    BY <1>3, <1>5, <2>2, <2>3 DEF InShell
<1>10. QED
  BY <1>7, <1>8, <1>9 DEF Base

(* The shell has seen the end of a child. *)
LEMMA WaitPreserves ==
  ASSUME Base, NEW p \in Pid, Wait(p)
  PROVE  Base'
<1> DEFINE r == [sh[p] EXCEPT !.at = "ran"]
<1>1. /\ mode[p] = "shell" /\ sh[p].at = "wait"
      /\ sh' = [sh EXCEPT ![p] = r]
      /\ UNCHANGED <<parent, fds, buffer, job, cwd, old_dir>>
  BY DEF Wait, InShell
<1>2. DOMAIN r = ShellFields /\ r.at = "ran"
  BY DEF Base, Shaped, ShellFields
<1>3. \A q \in Pid : sh'[q] = IF q = p THEN r ELSE sh[q]
  BY <1>1 DEF Base, Shaped
<1>4. mode' \in [Pid -> {"free", "shell", "forked", "running", "zombie"}]
  BY DEF Wait, Base, TypeOK
<1>5. \A q \in Pid : mode'[q] = mode[q] \/ (mode[q] = "zombie" /\ mode'[q] = "free")
  BY DEF Wait, Base, TypeOK
<1> HIDE DEF r
<1>6. TypeOK'
  BY <1>1, <1>3, <1>4, <1>5 DEF Base, TypeOK
<1>7. Shaped'
  BY <1>1, <1>2, <1>3 DEF Base, Shaped
<1>8. Waited'
  <2> SUFFICES ASSUME NEW q \in Pid, NEW d \in Pid,
                      d \in Children(q)', job'[d].type = "NEWLINE"
               PROVE  InShell(q, "wait")' /\ sh'[q].child = d
    BY DEF Waited
  <2>1. d \in Children(q) /\ job[d].type = "NEWLINE" /\ mode'[d] # "free"
    BY <1>1, <1>5 DEF Children
  <2>2. InShell(q, "wait") /\ sh[q].child = d
    BY <2>1 DEF Base, Waited
  <2>3. ASSUME q = p PROVE FALSE
    <3>1. d # ANY
      BY ProcessAssumption DEF ANY
    <3>2. Awaited(p) = {d}
      BY <2>2, <2>3, <3>1 DEF Awaited
    <3>3. mode' = [mode EXCEPT ![d] = "free"]
      BY <3>2 DEF Wait
    <3>4. QED
      BY <2>1, <3>3 DEF Base, TypeOK
  <2>4. QED
    BY <1>3, <1>5, <2>2, <2>3 DEF InShell
<1>9. QED
  BY <1>6, <1>7, <1>8 DEF Base

(* The shell goes on with the line, or asks for the next one. *)
LEMMA NextCommandPreserves ==
  ASSUME Base, NEW p \in Pid, NextCommand(p)
  PROVE  Base'
<1> DEFINE t == [sh[p] EXCEPT !.at = "parse", !.argv = <<>>, !.output_fd = 1,
                   !.input_fd = IF sh[p].type = "PIPE" THEN sh[p].pipe_fd[1] ELSE 0]
           r == IF sh[p].type = "NEWLINE" THEN AtPrompt ELSE t
<1>1. mode[p] = "shell" /\ sh[p].at = "ran" /\ UNCHANGED <<mode, parent, buffer, job, cwd, old_dir>>
  BY DEF NextCommand, InShell
<1>2. sh' = [sh EXCEPT ![p] = r]
  BY DEF NextCommand
<1>3. DOMAIN r = ShellFields /\ r.at # "wait"
  BY AtPromptShape DEF Base, Shaped, ShellFields
<1> HIDE DEF r
<1>4. Moves(p, r)
  BY <1>1, <1>2, <1>3 DEF Moves
<1>5. AfterPipe(p) \in [Fd -> Open \cup {Closed}]
  BY CloseTyped DEF AfterPipe, Base, TypeOK
<1>6. Tables'
  BY <1>1, <1>5, TableReplaced DEF NextCommand, Base
<1>7. /\ Shaped'
      /\ Waited'
      /\ \A q \in Pid : sh'[q].at # "prompt" => mode'[q] \in {"shell", "forked"}
  BY <1>4, MovesPreserve DEF Base
<1>8. QED
  BY <1>1, <1>6, <1>7 DEF Base, TypeOK, Tables

(* A writing end is that of a pipe. *)
LEMMA WritesPipe ==
  ASSUME NEW e \in Open \cup {Closed}, e.kind = "write end"
  PROVE  e.pipe \in Pipe
<1>1. Terminal.kind # "write end" /\ File.kind # "write end" /\ Closed.kind # "write end"
  BY DEF Terminal, File, Closed
<1>2. \A k \in Pipe : ReadEnd(k).kind # "write end"
  BY DEF ReadEnd
<1>3. \A k \in Pipe : WriteEnd(k).pipe = k
  BY DEF WriteEnd
<1>4. e = Terminal \/ e = File \/ e = Closed \/ \E k \in Pipe : e = ReadEnd(k) \/ e = WriteEnd(k)
  BY Zenon DEF Open
<1>5. QED
  BY <1>1, <1>2, <1>3, <1>4, Zenon

(* Bytes go into a pipe and out of it. *)
LEMMA TransferPreserves ==
  ASSUME Base, NEW p \in Pid, FetchFromPipe(p) \/ Write(p) \/ Read(p) \/ ReadEnds(p)
  PROVE  Base'
<1>1. UNCHANGED <<mode, parent, fds, sh, cwd, old_dir>>
  BY DEF FetchFromPipe, Write, Read, ReadEnds, kernel
<1> DEFINE JobKept ==
      /\ DOMAIN job' = Pid
      /\ \A q \in Pid : DOMAIN job'[q] = JobFields /\ job'[q].type = job[q].type
<1>2. JobKept
  <2>1. CASE UNCHANGED job
    BY <2>1 DEF Base, Shaped
  <2>2. ASSUME NEW n, job' = [job EXCEPT ![p].left = n] PROVE  JobKept
    BY <2>2 DEF Base, Shaped, JobFields
  <2>3. ASSUME job' = [job EXCEPT ![p].reading = FALSE] PROVE  JobKept
    BY <2>3 DEF Base, Shaped, JobFields
  <2>4. ASSUME job' = [job EXCEPT ![p].left = @ - 1] PROVE  JobKept
    BY <2>4 DEF Base, Shaped, JobFields
  <2>5. QED
    BY <2>1, <2>2, <2>3, <2>4 DEF FetchFromPipe, Write, Read, ReadEnds
<1>3. buffer' \in [Pipe -> 0 .. PipeCapacity]
  <2>1. ASSUME NEW k \in Pipe, buffer[k] > 0, buffer' = [buffer EXCEPT ![k] = @ - 1]
        PROVE  buffer' \in [Pipe -> 0 .. PipeCapacity]
    BY <2>1, PipeAssumption DEF Base, TypeOK
  <2>2. CASE Write(p)
    <3> DEFINE out == fds[p][1]
    <3>1. out \in Open \cup {Closed}
      BY StandardFds DEF Base, TypeOK
    <3>2. CASE out.kind # "write end"
      BY <2>2, <3>2 DEF Write, Base, TypeOK
    <3>3. CASE out.kind = "write end"
      <4>1. out.pipe \in Pipe
        BY <3>1, <3>3, WritesPipe
      <4>2. buffer[out.pipe] < PipeCapacity /\ buffer' = [buffer EXCEPT ![out.pipe] = @ + 1]
        BY <2>2, <3>3 DEF Write
      <4>3. QED
        BY <4>1, <4>2, PipeAssumption DEF Base, TypeOK
    <3>4. QED
      BY <3>2, <3>3
  <2>3. QED
    BY <2>1, <2>2 DEF FetchFromPipe, Read, ReadEnds, kernel, Base, TypeOK
<1>4. TypeOK'
  BY <1>1, <1>3 DEF Base, TypeOK
<1>5. Shaped'
  BY <1>1, <1>2 DEF Base, Shaped
<1>6. Waited'
  BY <1>1, <1>2 DEF Base, Waited, Children, InShell
<1>7. QED
  BY <1>4, <1>5, <1>6 DEF Base

LEMMA InitBase == Init => Base
<1> SUFFICES ASSUME Init PROVE Base
  OBVIOUS
<1>1. fds \in [Pid -> [Fd -> Open \cup {Closed}]]
  BY DEF Init, Open
<1>2. mode \in [Pid -> {"free", "shell", "forked", "running", "zombie"}]
  BY DEF Init
<1>3. \A p \in Pid : mode[p] \in {"free", "zombie"} => \A f \in Fd : fds[p][f] = Closed
  BY DEF Init
<1>4. TypeOK
  BY <1>1, <1>2, <1>3, AtPromptShape, PipeAssumption, NameAssumption DEF Init, TypeOK
<1>5. Shaped
  BY AtPromptShape DEF Init, Shaped, NoJob, JobFields
<1>6. Waited
  BY ProcessAssumption DEF Init, Waited, Children
<1>7. QED
  BY <1>4, <1>5, <1>6 DEF Base

LEMMA StepBase == Base /\ [Next]_vars => Base'
<1> SUFFICES ASSUME Base, [Next]_vars PROVE Base'
  OBVIOUS
<1>1. CASE UNCHANGED vars
  BY <1>1 DEF Base, TypeOK, Shaped, Waited, Children, InShell, vars, kernel
<1>2. ASSUME NEW p \in Pid, Parses(p) PROVE Base'
  <2>1. PICK r : Moves(p, r)
    BY <1>2, ParsesMove DEF Base
  <2>2. QED
    BY <1>2, <2>1, MovesPreserve, ParsesTyped DEF Base
<1>3. ASSUME NEW p \in Pid, EndOfInput(p) \/ Exit(p) \/ ProgramEnds(p) PROVE Base'
  <2>1. mode[p] # "free" /\ exit(p) /\ UNCHANGED <<job, buffer, cwd, old_dir>>
    BY <1>3 DEF EndOfInput, Exit, ProgramEnds, Runs, InShell, Done
  <2>2. QED
    BY <2>1, ExitPreserves
<1>4. ASSUME NEW p \in Pid, Fork(p) \/ ForkFails(p) \/ Exec(p) \/ Wait(p) \/ NextCommand(p)
      PROVE  Base'
  BY <1>4, ForkPreserves, ForkFailsPreserves, ExecPreserves, WaitPreserves, NextCommandPreserves
<1>5. ASSUME NEW p \in Pid, FetchFromPipe(p) \/ Write(p) \/ Read(p) \/ ReadEnds(p) PROVE Base'
  BY <1>5, TransferPreserves
<1>6. QED
  BY <1>1, <1>2, <1>3, <1>4, <1>5 DEF Next, ShellStep, ProgramStep, Parses

-------------------------------------------------------------------------------
(* The terminal.  A step that leaves the shells and the children to be as they
   are, or ends some of them. *)
LEMMA KeptIfSame ==
  ASSUME Kept, lost' = lost, exhausted' = exhausted,
         \A q \in Pid : mode'[q] \in {"shell", "forked"} =>
           mode'[q] = mode[q] /\ fds'[q] = fds[q] /\ sh'[q] = sh[q]
  PROVE  Kept'
BY DEF Kept, Normal, OnTerminal, PipeApart

(* A step of the shell in p, in its variables and its descriptors. *)
LEMMA KeptByMove ==
  ASSUME Base, Kept, NEW p \in Pid, NEW r, Moves(p, r), UNCHANGED lost,
         Normal' => /\ ~exhausted
                    /\ r.at \in {"command", "wait", "ran"} /\ r.type = "PIPE" =>
                         r.pipe_fd[2] \notin 0 .. 2,
         NEW t, fds' = [fds EXCEPT ![p] = t],
         Normal => \A f \in 0 .. 2 : t[f] = fds[p][f]
  PROVE  Kept'
<1> SUFFICES ASSUME Normal' PROVE Kept'
  BY DEF Kept
<1>1. Normal
  BY DEF Normal
<1>2. \A q \in Pid : sh'[q] = IF q = p THEN r ELSE sh[q]
  BY DEF Base, Shaped, Moves
<1>3. \A q \in Pid : fds'[q] = IF q = p THEN t ELSE fds[q]
  BY DEF Base, TypeOK
<1>4. mode' = mode
  BY DEF Moves
<1>5. \A q \in Pid : mode'[q] \in {"shell", "forked"} => OnTerminal(q)'
  BY <1>1, <1>3, <1>4 DEF Kept, OnTerminal, Moves
<1>6. \A q \in Pid : mode'[q] = "shell" => PipeApart(q)'
  BY <1>1, <1>2, <1>4 DEF Kept, PipeApart
<1>7. QED
  BY <1>5, <1>6 DEF Kept

(* A descriptor that is free is none of those of the terminal. *)
LEMMA FreeIsApart ==
  ASSUME NEW p \in Pid, OnTerminal(p), NEW f, fds[p][f] = Closed
  PROVE  f \notin 0 .. 2
BY TerminalOpen DEF OnTerminal

LEMMA KeptByParser ==
  ASSUME Base, Kept, NEW p \in Pid, Parses(p)
  PROVE  Kept'
<1>1. PICK r : Moves(p, r) /\ PipeKnown(p, r)
  BY ParsesMove DEF Base
<1>2. UNCHANGED lost /\ (~exhausted' => ~exhausted)
  <2>1. CASE OpenFile(p)
    <3>1. UNCHANGED lost /\ \E failed : exhausted' = (exhausted \/ failed)
      BY <2>1, Zenon DEF OpenFile
    <3>2. QED
      BY <3>1
  <2>2. CASE PipeFails(p)
    BY <2>2 DEF PipeFails
  <2>3. ASSUME NEW line \in Line, FetchLine(p, line) PROVE UNCHANGED <<lost, exhausted>>
    BY <2>3 DEF FetchLine
  <2>4. CASE MakePipe(p)
    BY <2>4 DEF MakePipe
  <2>5. CASE Argument(p) \/ NoFileName(p) \/ Separator(p) \/ NoCommand(p) \/ ChangeDirectory(p)
    BY <2>5 DEF Argument, NoFileName, Separator, NoCommand, ChangeDirectory
  <2>6. QED
    BY <2>1, <2>2, <2>3, <2>4, <2>5 DEF Parses
<1>3. Normal' => Normal
  BY <1>2 DEF Normal
<1>4. mode[p] = "shell"
  BY <1>1 DEF Moves
<1>5. Normal => OnTerminal(p) /\ PipeApart(p)
  BY <1>4 DEF Kept
<1>6. fds = [fds EXCEPT ![p] = fds[p]]
  BY DEF Base, TypeOK
<1>7. ASSUME NEW t, fds' = [fds EXCEPT ![p] = t],
             Normal => \A f \in 0 .. 2 : t[f] = fds[p][f],
             Normal' => (r.at \in {"command", "wait", "ran"} /\ r.type = "PIPE" =>
                           r.pipe_fd[2] \notin 0 .. 2)
      PROVE  Kept'
  BY <1>1, <1>2, <1>7, KeptByMove DEF Normal
<1>8. CASE MakePipe(p)
  <2> DEFINE v == Lowest(FreeFds(p))
             w == Lowest(FreeFds(p) \ {v})
             k == LowestTwo(p)
  <2>1. FreeFds(p) # {} /\ FreeFds(p) \ {v} # {}
    BY <1>8, TwoAreFree DEF MakePipe
  <2>2. fds[p][v] = Closed /\ fds[p][w] = Closed
    BY <2>1, FreeFdTaken
  <2>3. PICK a, b : fds' = [fds EXCEPT ![p][v] = a, ![p][w] = b]
    BY <1>8, Zenon DEF MakePipe
  <2>4. LowestTwo(p)[2] = w
    BY DEF LowestTwo
  <2> HIDE DEF v, w
  <2> DEFINE t == [fds[p] EXCEPT ![v] = a, ![w] = b]
  <2>5. fds' = [fds EXCEPT ![p] = t]
    BY <2>3 DEF Base, TypeOK
  <2>6. Normal => v \notin 0 .. 2 /\ w \notin 0 .. 2
    BY <1>5, <2>2, FreeIsApart
  <2>7. Normal => \A f \in 0 .. 2 : t[f] = fds[p][f]
    BY <2>6, StandardFds DEF Base, TypeOK
  <2>8. ~PipeFails(p) /\ ~ChangeDirectory(p)
    <3>1. Cardinality(FreeFds(p)) \in Nat
      BY FreeFdsFinite, FS_CardinalityType
    <3>2. sh[p].at = "parse" /\ Cardinality(FreeFds(p)) > 1
      BY <1>8 DEF MakePipe, InShell
    <3>3. PipeFails(p) => Cardinality(FreeFds(p)) <= 1
      BY DEF PipeFails
    <3>4. ChangeDirectory(p) => sh[p].at = "command"
      BY DEF ChangeDirectory, Runs, InShell
    <3>5. QED
      BY <3>1, <3>2, <3>3, <3>4
  <2>9. Normal' => (r.at \in {"command", "wait", "ran"} /\ r.type = "PIPE" =>
                      r.pipe_fd[2] \notin 0 .. 2)
    BY <1>1, <1>3, <2>4, <2>6, <2>8 DEF PipeKnown
  <2>10. QED
    <3> HIDE DEF t
    <3> QED BY <1>7, <2>5, <2>7, <2>9
<1>9. CASE ~MakePipe(p)
  <2>1. Normal' => ~PipeFails(p)
    BY DEF PipeFails, Normal
  <2>2. ASSUME ChangeDirectory(p), Normal, sh[p].type = "PIPE" PROVE sh[p].pipe_fd[2] \notin 0 .. 2
    BY <1>5, <2>2 DEF ChangeDirectory, Runs, InShell, PipeApart
  <2>3. Normal' => (r.at \in {"command", "wait", "ran"} /\ r.type = "PIPE" =>
                      r.pipe_fd[2] \notin 0 .. 2)
    BY <1>1, <1>3, <1>9, <2>1, <2>2 DEF PipeKnown
  <2>4. CASE UNCHANGED fds
    BY <1>6, <1>7, <2>3, <2>4
  <2>5. CASE OpenFile(p) /\ ~UNCHANGED fds
    <3> DEFINE fd == Lowest(FreeFds(p))
               t == [fds[p] EXCEPT ![fd] = File]
    <3>1. FreeFds(p) # {} /\ fds' = [fds EXCEPT ![p][fd] = File]
      BY <2>5 DEF OpenFile
    <3>2. fds[p][fd] = Closed
      BY <3>1, FreeFdTaken
    <3> HIDE DEF fd
    <3>3. Normal => \A f \in 0 .. 2 : t[f] = fds[p][f]
      BY <1>5, <3>2, FreeIsApart, StandardFds DEF Base, TypeOK
    <3>4. fds' = [fds EXCEPT ![p] = t]
      BY <3>1 DEF Base, TypeOK
    <3>5. QED
      <4> HIDE DEF t
      <4> QED BY <1>7, <2>3, <3>3, <3>4
  <2>6. QED
    BY <1>9, <2>4, <2>5
    DEF Parses, FetchLine, Argument, NoFileName, Separator, PipeFails, NoCommand,
        ChangeDirectory, kernel
<1>10. QED
  BY <1>8, <1>9

LEMMA KeptByNextCommand ==
  ASSUME Base, Kept, NEW p \in Pid, NextCommand(p)
  PROVE  Kept'
<1> DEFINE t == [sh[p] EXCEPT !.at = "parse", !.argv = <<>>, !.output_fd = 1,
                   !.input_fd = IF sh[p].type = "PIPE" THEN sh[p].pipe_fd[1] ELSE 0]
           r == IF sh[p].type = "NEWLINE" THEN AtPrompt ELSE t
<1>1. /\ mode[p] = "shell" /\ sh[p].at = "ran" /\ sh' = [sh EXCEPT ![p] = r]
      /\ UNCHANGED <<mode, parent, job, lost, exhausted>>
      /\ fds' = [fds EXCEPT ![p] = AfterPipe(p)]
  BY DEF NextCommand, InShell
<1>2. DOMAIN r = ShellFields /\ r.at \in {"prompt", "parse"}
  BY AtPromptShape DEF Base, Shaped, ShellFields
<1> HIDE DEF r
<1>3. Moves(p, r)
  BY <1>1, <1>2 DEF Moves
<1>4. Normal => (sh[p].type = "PIPE" => sh[p].pipe_fd[2] \notin 0 .. 2)
  BY <1>1 DEF Kept, PipeApart
<1>5. Normal => \A f \in 0 .. 2 : AfterPipe(p)[f] = fds[p][f]
  BY <1>4, StandardFds DEF AfterPipe, close, Base, TypeOK
<1>6. QED
  BY <1>1, <1>2, <1>3, <1>5, KeptByMove DEF Normal

LEMMA KeptByFork ==
  ASSUME Base, Kept, NEW p \in Pid, Fork(p)
  PROVE  Kept'
<1> DEFINE c == Lowest(FreePids)
           s == [sh[p] EXCEPT !.at = "ran"]
<1>1. c \in Pid /\ mode[c] = "free"
  BY FreePidTaken DEF Fork
<1>2. mode[p] = "shell" /\ sh[p].at = "command" /\ p # c
  BY <1>1 DEF Fork, Forks, InShell
<1>3. /\ mode' = [mode EXCEPT ![c] = "forked"]
      /\ fds' = [fds EXCEPT ![c] = fds[p]]
      /\ sh' = [sh EXCEPT ![p] = Started(p, c), ![c] = s]
      /\ UNCHANGED <<lost, exhausted>>
  BY DEF Fork
<1> HIDE DEF c, s
<1>4. Started(p, c).type = sh[p].type /\ Started(p, c).pipe_fd = sh[p].pipe_fd
  BY DEF Base, Shaped, ShellFields, Started
<1>5. \A q \in Pid \ {c} : sh'[q] = IF q = p THEN Started(p, c) ELSE sh[q]
  BY <1>1, <1>2, <1>3 DEF Base, Shaped
<1>6. \A q \in Pid : fds'[q] = IF q = c THEN fds[p] ELSE fds[q]
  BY <1>3 DEF Base, TypeOK
<1>7. \A q \in Pid : mode'[q] = IF q = c THEN "forked" ELSE mode[q]
  BY <1>3 DEF Base, TypeOK
<1> SUFFICES ASSUME Normal' PROVE Kept'
  BY DEF Kept
<1>8. Normal
  BY <1>3 DEF Normal
<1>9. \A q \in Pid : mode'[q] \in {"shell", "forked"} => OnTerminal(q)'
  BY <1>2, <1>6, <1>7, <1>8 DEF Kept, OnTerminal
<1>10. ASSUME NEW q \in Pid, mode'[q] = "shell" PROVE PipeApart(q)'
  <2>1. q # c /\ mode[q] = "shell"
    BY <1>7, <1>10
  <2>2. PipeApart(q)
    BY <1>8, <2>1 DEF Kept
  <2>3. QED
    BY <1>2, <1>4, <1>5, <2>1, <2>2 DEF PipeApart
<1>11. QED
  BY <1>9, <1>10 DEF Kept

LEMMA StepKept == Base /\ Kept /\ [Next]_vars => Kept'
<1> SUFFICES ASSUME Base, Kept, [Next]_vars PROVE Kept'
  OBVIOUS
<1>1. CASE UNCHANGED vars
  BY <1>1, KeptIfSame DEF vars, kernel
<1>2. ASSUME NEW p \in Pid, Parses(p) PROVE Kept'
  BY <1>2, KeptByParser
<1>3. ASSUME NEW p \in Pid, exit(p), UNCHANGED <<lost, exhausted>> PROVE Kept'
  <2>1. \A q \in Pid : mode'[q] \in {"shell", "forked"} => q # p /\ mode'[q] = mode[q]
    BY <1>3 DEF exit
  <2>2. \A q \in Pid \ {p} : fds'[q] = fds[q] /\ sh'[q] = sh[q]
    BY <1>3 DEF exit, Base, TypeOK, Shaped
  <2>3. QED
    BY <1>3, <2>1, <2>2, KeptIfSame
<1>4. ASSUME NEW p \in Pid, ForkFails(p) PROVE Kept'
  <2>1. CASE InForeground(p)
    <3> DEFINE r == Started(p, ANY)
    <3>1. /\ mode[p] = "shell" /\ sh[p].at = "command"
          /\ sh' = [sh EXCEPT ![p] = r]
          /\ UNCHANGED <<mode, fds, lost, exhausted>>
      BY <1>4, <2>1 DEF ForkFails, Forks, InShell
    <3>2. r.type = sh[p].type /\ sh[p].type = "NEWLINE"
      BY <2>1 DEF Base, Shaped, ShellFields, Started, InForeground
    <3>3. \A q \in Pid : sh'[q] = IF q = p THEN r ELSE sh[q]
      BY <3>1 DEF Base, Shaped
    <3> HIDE DEF r
    <3>4. QED
      BY <3>1, <3>2, <3>3 DEF Kept, Normal, OnTerminal, PipeApart
  <2>2. CASE ~InForeground(p)
    BY <1>3, <1>4, <2>2 DEF ForkFails
  <2>3. QED
    BY <2>1, <2>2
<1>5. ASSUME NEW c \in Pid, Exec(c) PROVE Kept'
  <2>1. CASE UNCHANGED lost
    <3>1. lost' = lost /\ exhausted' = exhausted
      BY <1>5, <2>1 DEF Exec
    <3>2. \/ mode' = [mode EXCEPT ![c] = "running"] /\ sh' = [sh EXCEPT ![c] = AtPrompt]
          \/ lost
      BY <1>5, <2>1 DEF Exec
    <3>3. ASSUME mode' = [mode EXCEPT ![c] = "running"], sh' = [sh EXCEPT ![c] = AtPrompt]
          PROVE  Kept'
      <4>1. \A q \in Pid : mode'[q] \in {"shell", "forked"} => q # c /\ mode'[q] = mode[q]
        BY <3>3 DEF Base, TypeOK
      <4>2. \A q \in Pid \ {c} : fds'[q] = fds[q] /\ sh'[q] = sh[q]
        BY <1>5, <3>3 DEF Exec, Base, TypeOK, Shaped
      <4>3. QED
        BY <3>1, <4>1, <4>2, KeptIfSame
    <3>4. CASE lost
      BY <3>1, <3>4 DEF Kept, Normal
    <3>5. QED
      BY <3>2, <3>3, <3>4
  <2>2. CASE lost'
    BY <2>2 DEF Kept, Normal
  <2>3. QED
    BY <1>5, <2>1, <2>2 DEF Exec
<1>6. ASSUME NEW p \in Pid, Wait(p) PROVE Kept'
  <2> DEFINE r == [sh[p] EXCEPT !.at = "ran"]
  <2>1. /\ mode[p] = "shell" /\ sh[p].at = "wait"
        /\ sh' = [sh EXCEPT ![p] = r]
        /\ UNCHANGED <<fds, lost, exhausted>>
    BY <1>6 DEF Wait, InShell
  <2>2. r.type = sh[p].type /\ r.pipe_fd = sh[p].pipe_fd
    BY DEF Base, Shaped, ShellFields
  <2>3. \A q \in Pid : sh'[q] = IF q = p THEN r ELSE sh[q]
    BY <2>1 DEF Base, Shaped
  <2>4. \A q \in Pid : mode'[q] \in {"shell", "forked"} => mode'[q] = mode[q]
    BY <1>6 DEF Wait, Base, TypeOK
  <2> HIDE DEF r
  <2>5. QED
    BY <2>1, <2>2, <2>3, <2>4 DEF Kept, Normal, OnTerminal, PipeApart
<1>7. ASSUME NEW p \in Pid, FetchFromPipe(p) \/ Write(p) \/ Read(p) \/ ReadEnds(p) PROVE Kept'
  <2>1. UNCHANGED <<mode, fds, sh, lost, exhausted>>
    BY <1>7 DEF FetchFromPipe, Write, Read, ReadEnds, kernel
  <2>2. QED
    BY <2>1, KeptIfSame
<1>8. QED
  BY <1>1, <1>2, <1>3, <1>4, <1>5, <1>6, <1>7, KeptByNextCommand, KeptByFork
  DEF Next, ShellStep, ProgramStep, Parses, EndOfInput, Exit, ProgramEnds

-------------------------------------------------------------------------------
(* Pipes.  While nothing has failed there is one shell, and it has closed the
   writing end of every pipe that something reads or is about to. *)
OnlyPrograms(k) == \A p \in Writers(k) : p \in Programs /\ Stdout(p) = WriteEnd(k)

OneShell == \A p \in Pid : mode[p] = "shell" => p = 1

Consumers ==
  \A c \in Programs, k \in Pipe :
    Stdin(c) = ReadEnd(k) => c \notin Writers(k) /\ OnlyPrograms(k)

(* the pipe that the next command of the line is to read *)
NextInput ==
  mode[1] = "shell" /\ sh[1].at # "prompt" =>
    \A f \in Fd : f = sh[1].input_fd =>
      fds[1][f] # Closed /\ \A k \in Pipe : fds[1][f] = ReadEnd(k) => OnlyPrograms(k)

(* the pipe just made: the shell is to close its writing end, where it alone
   knows of it, and the command to write it is the only one that gets it *)
Connected(r, w, k) ==
  /\ fds[1][r] = ReadEnd(k) /\ fds[1][w] = WriteEnd(k)
  /\ \A f \in Fd : fds[1][f] = WriteEnd(k) => f = w
  /\ \A p \in Writers(k) \ {1} : p \in Programs /\ Stdout(p) = WriteEnd(k)
PipeMade(s) == s.at \in {"command", "wait", "ran"} /\ s.type = "PIPE"
NewPipe ==
  mode[1] = "shell" /\ PipeMade(sh[1]) =>
    /\ sh[1].pipe_fd[1] \in Fd /\ sh[1].pipe_fd[2] \in Fd
    /\ sh[1].at = "command" => sh[1].output_fd = sh[1].pipe_fd[2]
    /\ \E k \in Pipe : Connected(sh[1].pipe_fd[1], sh[1].pipe_fd[2], k)

Plumbing == OneShell /\ Consumers /\ NextInput /\ NewPipe

LEMMA EndsDiffer ==
  ASSUME NEW j \in Pipe, NEW k \in Pipe
  PROVE  /\ ReadEnd(j) = ReadEnd(k) => j = k
         /\ WriteEnd(j) = WriteEnd(k) => j = k
         /\ ReadEnd(j) # WriteEnd(k)
         /\ ReadEnd(j) \notin {Terminal, File, Closed}
         /\ WriteEnd(j) \notin {Terminal, File, Closed}
<1>1. ReadEnd(j).kind = "read end" /\ ReadEnd(j).pipe = j /\ ReadEnd(k).pipe = k
  BY DEF ReadEnd
<1>2. WriteEnd(j).kind = "write end" /\ WriteEnd(k).kind = "write end"
      /\ WriteEnd(j).pipe = j /\ WriteEnd(k).pipe = k
  BY DEF WriteEnd
<1>3. Terminal.kind = "terminal" /\ File.kind = "file" /\ Closed.kind = "closed"
  BY DEF Terminal, File, Closed
<1>4. QED
  BY <1>1, <1>2, <1>3

(* A redirected descriptor refers to what another one did. *)
LEMMA Dup2Copies ==
  ASSUME NEW t \in [Fd -> Open \cup {Closed}], NEW old, NEW new \in Fd, NEW f \in Fd
  PROVE  /\ f # new => dup2(t, old, new)[f] = t[f]
         /\ dup2(t, old, new)[new] =
              IF old \in Fd /\ t[old] # Closed THEN t[old] ELSE t[new]
         /\ \E g \in Fd : dup2(t, old, new)[f] = t[g]
BY DEF dup2

LEMMA StdioForked ==
  ASSUME TypeOK, NEW c \in Pid
  PROVE  /\ \A f \in Fd : \E g \in Fd : ChildTable(c)[f] = fds[c][g]
         /\ InputTable(c)[0] = ChildTable(c)[0]
         /\ InputTable(c)[0] =
              IF sh[c].input_fd \in Fd /\ sh[c].input_fd # 0 /\ fds[c][sh[c].input_fd] # Closed
                THEN fds[c][sh[c].input_fd] ELSE fds[c][0]
<1>1. fds[c] \in [Fd -> Open \cup {Closed}] /\ 0 \in Fd /\ 1 \in Fd
  BY StandardFds DEF TypeOK
<1>2. InputTable(c) \in [Fd -> Open \cup {Closed}]
  BY <1>1, Dup2Typed DEF InputTable
<1>3. /\ \A f \in Fd : \E g \in Fd : InputTable(c)[f] = fds[c][g]
      /\ InputTable(c)[0] =
           IF sh[c].input_fd \in Fd /\ sh[c].input_fd # 0 /\ fds[c][sh[c].input_fd] # Closed
             THEN fds[c][sh[c].input_fd] ELSE fds[c][0]
  BY <1>1, Dup2Copies DEF InputTable
<1>4. /\ \A f \in Fd : \E g \in Fd : ChildTable(c)[f] = InputTable(c)[g]
      /\ InputTable(c)[0] = ChildTable(c)[0]
  BY <1>1, <1>2, Dup2Copies DEF ChildTable
<1>5. \A f \in Fd : \E g \in Fd : ChildTable(c)[f] = fds[c][g]
  BY <1>3, <1>4
<1>6. QED
  BY <1>3, <1>4, <1>5

(* What a program reads or will read is open, so it is no new pipe. *)
LEMMA StdinUsed ==
  ASSUME TypeOK, NEW c \in Programs, NEW k \in Pipe, Stdin(c) = ReadEnd(k)
  PROVE  Used(k)
<1>1. c \in Pid /\ 0 \in Fd
  BY StandardFds DEF Programs
<1>2. \E f \in Fd : Stdin(c) = fds[c][f]
  BY <1>1, StdioForked DEF Stdin
<1>3. QED
  BY <1>1, <1>2 DEF Used, Holds

(* Nothing that matters of process q changes. *)
Idle == {"zombie", "free"}
Same(q) ==
  /\ mode'[q] = mode[q] \/ (mode[q] \in Idle /\ mode'[q] \in Idle)
  /\ fds'[q] = fds[q] /\ sh'[q] = sh[q]

LEMMA SameStdio ==
  ASSUME NEW q \in Pid, Same(q)
  PROVE  /\ q \in Programs' <=> q \in Programs
         /\ q \in Programs => Stdin(q)' = Stdin(q) /\ Stdout(q)' = Stdout(q)
         /\ \A k : q \in Writers(k)' <=> q \in Writers(k)
<1>1. InputTable(q)' = InputTable(q) /\ ChildTable(q)' = ChildTable(q)
  BY DEF Same, InputTable, ChildTable, dup2
<1>2. q \in Programs' <=> q \in Programs
  BY DEF Same, Idle, Programs
<1>3. q \in Programs => mode'[q] = mode[q]
  BY DEF Same, Idle, Programs
<1>4. q \in Programs => Stdin(q)' = Stdin(q) /\ Stdout(q)' = Stdout(q)
  BY <1>1, <1>3 DEF Same, Stdin, Stdout
<1>5. \A k : q \in Writers(k)' <=> q \in Writers(k)
  BY DEF Same, Writers, Holds
<1>6. QED
  BY <1>2, <1>4, <1>5

(* No program starts, and nobody becomes a writer of a pipe in use. *)
LEMMA ConsumersKept ==
  ASSUME TypeOK,
         \A q \in Programs' : q \in Programs /\ Stdin(q)' = Stdin(q),
         \A q \in Pid, k \in Pipe : Used(k) /\ q \in Writers(k)' =>
           q \in Writers(k) /\ (q \in Programs => q \in Programs' /\ Stdout(q)' = Stdout(q))
  PROVE  /\ \A k \in Pipe : Used(k) /\ OnlyPrograms(k) => OnlyPrograms(k)'
         /\ Consumers => Consumers'
<1>1. ASSUME NEW k \in Pipe, Used(k), OnlyPrograms(k)
      PROVE  OnlyPrograms(k)'
  <2> SUFFICES ASSUME NEW q \in Writers(k)'
               PROVE  q \in Programs' /\ Stdout(q)' = WriteEnd(k)
    BY DEF OnlyPrograms
  <2>1. q \in Pid
    BY DEF Writers
  <2>2. q \in Writers(k) /\ (q \in Programs => q \in Programs' /\ Stdout(q)' = Stdout(q))
    BY <1>1, <2>1
  <2>3. QED
    BY <1>1, <2>2 DEF OnlyPrograms
<1>2. ASSUME Consumers, NEW c \in Programs', NEW k \in Pipe, Stdin(c)' = ReadEnd(k)
      PROVE  c \notin Writers(k)' /\ OnlyPrograms(k)'
  <2>1. c \in Programs /\ Stdin(c) = ReadEnd(k) /\ c \in Pid
    BY <1>2 DEF Programs
  <2>2. Used(k)
    BY <2>1, StdinUsed
  <2>3. c \notin Writers(k) /\ OnlyPrograms(k)
    BY <1>2, <2>1 DEF Consumers
  <2>4. QED
    BY <1>1, <2>1, <2>2, <2>3
<1>3. QED
  BY <1>1, <1>2 DEF Consumers

(* A step of the shell that starts no program. *)
LEMMA ShellAlone ==
  ASSUME Base, OneShell, mode[1] = "shell", mode'[1] = "shell",
         \A q \in Pid \ {1} : Same(q),
         \A k \in Pipe : Used(k) /\ 1 \in Writers(k)' => 1 \in Writers(k)
  PROVE  /\ OneShell'
         /\ \A k \in Pipe : Used(k) /\ OnlyPrograms(k) => OnlyPrograms(k)'
         /\ Consumers => Consumers'
<1>1. OneShell'
  BY DEF OneShell, Same, Idle
<1>2. 1 \notin Programs /\ 1 \notin Programs'
  BY DEF Programs
<1>3. \A q \in Programs' : q \in Programs /\ Stdin(q)' = Stdin(q)
  <2> TAKE q \in Programs'
  <2>1. q \in Pid \ {1}
    BY <1>2 DEF Programs
  <2>2. QED
    BY <2>1, SameStdio
<1>4. \A q \in Pid, k \in Pipe : Used(k) /\ q \in Writers(k)' =>
        q \in Writers(k) /\ (q \in Programs => q \in Programs' /\ Stdout(q)' = Stdout(q))
  BY <1>2, SameStdio
<1>5. QED
  BY <1>1, <1>3, <1>4, ConsumersKept DEF Base

(* What is at the shell's next input is in use. *)
LEMMA InputUsed ==
  ASSUME NEW p \in Pid, NEW f \in Fd, NEW k \in Pipe,
         fds[p][f] = ReadEnd(k) \/ fds[p][f] = WriteEnd(k)
  PROVE  Used(k)
BY DEF Used, Holds

(* The shell goes on with its variables, and opens and closes nothing. *)
LEMMA PlumbingByWords ==
  ASSUME Base, Kept, Normal, Plumbing, mode[1] = "shell", mode'[1] = "shell",
         \A q \in Pid \ {1} : Same(q), fds'[1] = fds[1],
         \/ sh'[1].at = "prompt"
         \/ sh'[1].input_fd = 0
         \/ sh'[1].input_fd = sh[1].input_fd /\ sh[1].at # "prompt",
         PipeMade(sh'[1]) =>
           PipeMade(sh[1]) /\ sh'[1].pipe_fd = sh[1].pipe_fd /\ sh'[1].at # "command"
  PROVE  Plumbing'
<1>1. 1 \in Pid
  BY ProcessAssumption
<1>2. \A k : 1 \in Writers(k)' <=> 1 \in Writers(k)
  BY <1>1 DEF Writers, Holds
<1>3. /\ OneShell'
      /\ \A k \in Pipe : Used(k) /\ OnlyPrograms(k) => OnlyPrograms(k)'
      /\ Consumers'
  BY <1>2, ShellAlone DEF Plumbing
<1>4. NextInput'
  <2> SUFFICES ASSUME sh'[1].at # "prompt", NEW f \in Fd, f = sh'[1].input_fd
               PROVE  /\ fds'[1][f] # Closed
                      /\ \A k \in Pipe : fds'[1][f] = ReadEnd(k) => OnlyPrograms(k)'
    BY DEF NextInput
  <2>1. CASE f = 0
    BY <1>1, <2>1, EndsDiffer, TerminalOpen DEF Kept, OnTerminal
  <2>2. CASE f # 0
    <3>1. fds[1][f] # Closed /\ \A k \in Pipe : fds[1][f] = ReadEnd(k) => OnlyPrograms(k)
      BY <2>2 DEF Plumbing, NextInput
    <3>2. QED
      BY <1>1, <1>3, <3>1, InputUsed
  <2>3. QED
    BY <2>1, <2>2
<1>5. NewPipe'
  <2> SUFFICES ASSUME PipeMade(sh'[1])
               PROVE  /\ sh'[1].pipe_fd[1] \in Fd /\ sh'[1].pipe_fd[2] \in Fd
                      /\ sh'[1].at = "command" => sh'[1].output_fd = sh'[1].pipe_fd[2]
                      /\ \E k \in Pipe : Connected(sh[1].pipe_fd[1], sh[1].pipe_fd[2], k)'
    BY DEF NewPipe, PipeMade
  <2> DEFINE r == sh[1].pipe_fd[1]  w == sh[1].pipe_fd[2]
  <2>1. r \in Fd /\ w \in Fd /\ \E k \in Pipe : Connected(r, w, k)
    BY DEF Plumbing, NewPipe
  <2>2. PICK k \in Pipe : Connected(r, w, k)
    BY <2>1
  <2>3. \A p \in Writers(k)' \ {1} : p \in Programs' /\ Stdout(p)' = WriteEnd(k)
    <3> TAKE p \in Writers(k)' \ {1}
    <3>1. p \in Pid \ {1}
      BY DEF Writers
    <3>2. QED
      BY <2>2, <3>1, SameStdio DEF Connected
  <2>4. sh'[1].pipe_fd = sh[1].pipe_fd /\ sh'[1].at # "command"
    OBVIOUS
  <2>5. \E j \in Pipe : Connected(sh[1].pipe_fd[1], sh[1].pipe_fd[2], j)'
    BY <2>2, <2>3, <2>4 DEF Connected
  <2>6. QED
    BY <2>1, <2>4, <2>5
<1>6. QED
  BY <1>3, <1>4, <1>5 DEF Plumbing

(* What is not the shell's goes on or ends, and starts no program. *)
LEMMA PlumbingOfOthers ==
  ASSUME Base, Plumbing, OneShell',
         mode'[1] = "shell" => mode[1] = "shell" /\ fds'[1] = fds[1] /\ sh'[1] = sh[1],
         \A q \in Programs' : q \in Programs /\ Stdin(q)' = Stdin(q),
         \A q \in Pid, k \in Pipe : Used(k) /\ q \in Writers(k)' =>
           q \in Writers(k) /\ (q \in Programs => q \in Programs' /\ Stdout(q)' = Stdout(q))
  PROVE  Plumbing'
<1>1. /\ \A k \in Pipe : Used(k) /\ OnlyPrograms(k) => OnlyPrograms(k)'
      /\ Consumers'
  BY ConsumersKept DEF Plumbing, Base
<1>2. 1 \in Pid
  BY ProcessAssumption
<1>3. NextInput'
  <2> SUFFICES ASSUME mode'[1] = "shell", sh'[1].at # "prompt", NEW f \in Fd, f = sh'[1].input_fd
               PROVE  /\ fds'[1][f] # Closed
                      /\ \A k \in Pipe : fds'[1][f] = ReadEnd(k) => OnlyPrograms(k)'
    BY DEF NextInput
  <2>1. fds[1][f] # Closed /\ \A k \in Pipe : fds[1][f] = ReadEnd(k) => OnlyPrograms(k)
    BY DEF Plumbing, NextInput
  <2>2. QED
    BY <1>1, <1>2, <2>1, InputUsed
<1>4. NewPipe'
  <2> SUFFICES ASSUME mode'[1] = "shell", PipeMade(sh'[1])
               PROVE  /\ sh'[1].pipe_fd[1] \in Fd /\ sh'[1].pipe_fd[2] \in Fd
                      /\ sh'[1].at = "command" => sh'[1].output_fd = sh'[1].pipe_fd[2]
                      /\ \E k \in Pipe : Connected(sh[1].pipe_fd[1], sh[1].pipe_fd[2], k)'
    BY DEF NewPipe, PipeMade
  <2> DEFINE r == sh[1].pipe_fd[1]  w == sh[1].pipe_fd[2]
  <2>1. /\ r \in Fd /\ w \in Fd
        /\ sh[1].at = "command" => sh[1].output_fd = w
        /\ \E k \in Pipe : Connected(r, w, k)
    BY DEF Plumbing, NewPipe
  <2>2. PICK k \in Pipe : Connected(r, w, k)
    BY <2>1
  <2>3. Used(k)
    BY <1>2, <2>1, <2>2, InputUsed DEF Connected
  <2>4. \A q \in Writers(k)' \ {1} : q \in Programs' /\ Stdout(q)' = WriteEnd(k)
    <3> TAKE q \in Writers(k)' \ {1}
    <3>1. q \in Pid
      BY DEF Writers
    <3>2. q \in Writers(k) /\ (q \in Programs => q \in Programs' /\ Stdout(q)' = Stdout(q))
      BY <2>3, <3>1
    <3>3. QED
      BY <2>2, <3>2 DEF Connected
  <2>5. \E j \in Pipe : Connected(sh[1].pipe_fd[1], sh[1].pipe_fd[2], j)'
    BY <2>2, <2>4 DEF Connected
  <2>6. QED
    BY <2>1, <2>5
<1>5. QED
  BY <1>1, <1>3, <1>4 DEF Plumbing

LEMMA PlumbingIfSame ==
  ASSUME Base, Plumbing, \A q \in Pid : Same(q)
  PROVE  Plumbing'
<1>1. 1 \in Pid
  BY ProcessAssumption
<1>2. OneShell'
  BY DEF Plumbing, OneShell, Same, Idle
<1>3. mode'[1] = "shell" => mode[1] = "shell" /\ fds'[1] = fds[1] /\ sh'[1] = sh[1]
  BY <1>1 DEF Same, Idle
<1>4. \A q \in Programs' : q \in Programs /\ Stdin(q)' = Stdin(q)
  <2> TAKE q \in Programs'
  <2>1. q \in Pid
    BY DEF Programs
  <2>2. QED
    BY <2>1, SameStdio
<1>5. \A q \in Pid, k \in Pipe : Used(k) /\ q \in Writers(k)' =>
        q \in Writers(k) /\ (q \in Programs => q \in Programs' /\ Stdout(q)' = Stdout(q))
  BY SameStdio
<1>6. QED
  BY <1>2, <1>3, <1>4, <1>5, PlumbingOfOthers

LEMMA PlumbingByExit ==
  ASSUME Base, Plumbing, NEW p \in Pid, exit(p)
  PROVE  Plumbing'
<1>1. mode'[p] \in Idle /\ \A f \in Fd : fds'[p][f] = Closed
  BY DEF exit, Base, TypeOK, Idle
<1>2. \A q \in Pid \ {p} : Same(q)
  BY DEF exit, Base, TypeOK, Shaped, Same, Idle
<1>3. OneShell'
  BY <1>1, <1>2 DEF Plumbing, OneShell, Same, Idle
<1>4. mode'[1] = "shell" => mode[1] = "shell" /\ fds'[1] = fds[1] /\ sh'[1] = sh[1]
  BY <1>1, <1>2, ProcessAssumption DEF Same, Idle
<1>5. p \notin Programs'
  BY <1>1 DEF Programs, Idle
<1>6. \A k \in Pipe : p \notin Writers(k)'
  BY <1>1, EndsDiffer DEF Writers, Holds
<1>7. \A q \in Programs' : q \in Programs /\ Stdin(q)' = Stdin(q)
  <2> TAKE q \in Programs'
  <2>1. q \in Pid \ {p}
    BY <1>5 DEF Programs
  <2>2. QED
    BY <1>2, <2>1, SameStdio
<1>8. \A q \in Pid, k \in Pipe : Used(k) /\ q \in Writers(k)' =>
        q \in Writers(k) /\ (q \in Programs => q \in Programs' /\ Stdout(q)' = Stdout(q))
  BY <1>2, <1>6, SameStdio
<1>9. QED
  BY <1>3, <1>4, <1>7, <1>8, PlumbingOfOthers

(* A child becomes its program with the descriptors it was given. *)
LEMMA PlumbingByExec ==
  ASSUME Base, Plumbing, NEW c \in Pid, Exec(c), mode' = [mode EXCEPT ![c] = "running"]
  PROVE  Plumbing'
<1>1. mode[c] = "forked" /\ fds' = [fds EXCEPT ![c] = ChildTable(c)]
  BY DEF Exec
<1>2. \A q \in Pid : mode'[q] = IF q = c THEN "running" ELSE mode[q]
  BY DEF Base, TypeOK
<1>3. \A q \in Pid : fds'[q] = IF q = c THEN ChildTable(c) ELSE fds[q]
  BY <1>1 DEF Base, TypeOK
<1>4. \A q \in Pid \ {c} : sh'[q] = sh[q]
  BY <1>2 DEF Exec, Base, TypeOK, Shaped
<1>5. \A q \in Pid \ {c} : Same(q)
  BY <1>2, <1>3, <1>4 DEF Same
<1>6. c \in Programs /\ c \in Programs'
  BY <1>1, <1>2 DEF Programs
<1>7. Stdin(c)' = Stdin(c) /\ Stdout(c)' = Stdout(c)
  <2>1. InputTable(c)[0] = ChildTable(c)[0]
    BY StdioForked DEF Base
  <2>2. Stdin(c)' = fds'[c][0] /\ Stdout(c)' = fds'[c][1]
    BY <1>2 DEF Stdin, Stdout
  <2>3. QED
    BY <1>1, <1>3, <2>1, <2>2 DEF Stdin, Stdout
<1>8. \A k : c \in Writers(k)' => c \in Writers(k)
  <2>1. \A f \in Fd : \E g \in Fd : ChildTable(c)[f] = fds[c][g]
    BY StdioForked DEF Base
  <2>2. QED
    BY <1>3, <2>1 DEF Writers, Holds
<1>9. OneShell'
  BY <1>2 DEF Plumbing, OneShell
<1>10. mode'[1] = "shell" => mode[1] = "shell" /\ fds'[1] = fds[1] /\ sh'[1] = sh[1]
  BY <1>2, <1>3, <1>4, ProcessAssumption
<1>11. \A q \in Programs' : q \in Programs /\ Stdin(q)' = Stdin(q)
  <2> TAKE q \in Programs'
  <2>1. q \in Pid
    BY DEF Programs
  <2>2. QED
    BY <1>5, <1>6, <1>7, <2>1, SameStdio
<1>12. \A q \in Pid, k \in Pipe : Used(k) /\ q \in Writers(k)' =>
        q \in Writers(k) /\ (q \in Programs => q \in Programs' /\ Stdout(q)' = Stdout(q))
  BY <1>5, <1>6, <1>7, <1>8, SameStdio
<1>13. QED
  BY <1>9, <1>10, <1>11, <1>12, PlumbingOfOthers

(* The shell reads its line, or waits. *)
Words(p) ==
  \/ \E line \in Line : FetchLine(p, line)
  \/ Argument(p) \/ NoFileName(p) \/ Separator(p) \/ NoCommand(p) \/ ChangeDirectory(p)
  \/ ForkFails(p) /\ InForeground(p)
  \/ Wait(p)

LEMMA PlumbingByItsWords ==
  ASSUME Base, Kept, Normal, Plumbing, NEW p \in Pid, Words(p)
  PROVE  Plumbing'
<1> DEFINE Goes(r) ==
      /\ \/ r.at = "prompt"
         \/ r.input_fd = 0
         \/ r.input_fd = sh[1].input_fd /\ sh[1].at # "prompt"
      /\ PipeMade(r) => PipeMade(sh[1]) /\ r.pipe_fd = sh[1].pipe_fd /\ r.at # "command"
<1>1. mode[p] = "shell" /\ UNCHANGED fds
  BY DEF Words, FetchLine, Argument, NoFileName, Redirection, Separator, NoCommand, ChangeDirectory,
         Runs, ForkFails, Forks, Wait, InShell, kernel
<1>2. p = 1
  BY <1>1 DEF Plumbing, OneShell
<1>3. DOMAIN sh = Pid /\ DOMAIN sh[1] = ShellFields
  BY <1>2 DEF Base, Shaped
<1>4. \E r : sh' = [sh EXCEPT ![1] = r] /\ Goes(r)
  <2>1. ASSUME NEW line \in Line, FetchLine(p, line) PROVE \E r : sh' = [sh EXCEPT ![1] = r] /\ Goes(r)
    <3> DEFINE r == [AtPrompt EXCEPT !.at = "parse", !.rest = line]
    <3>1. sh' = [sh EXCEPT ![1] = r]
      BY <1>2, <2>1 DEF FetchLine
    <3>2. r.input_fd = 0 /\ r.at = "parse"
      BY DEF AtPrompt
    <3>3. Goes(r)
      BY <3>2 DEF PipeMade
    <3>4. QED
      BY <3>1, <3>3
  <2>2. CASE Argument(p)
    <3> DEFINE r == [sh[1] EXCEPT !.argv = Append(@, Token(1).text), !.rest = Token(1).rest]
    <3>1. sh' = [sh EXCEPT ![1] = r] /\ sh[1].at = "parse"
      BY <1>2, <1>3, <2>2 DEF Argument, InShell
    <3>2. r.input_fd = sh[1].input_fd /\ r.at = "parse"
      BY <1>3, <3>1 DEF ShellFields
    <3> HIDE DEF r
    <3>3. Goes(r)
      BY <3>1, <3>2 DEF PipeMade
    <3>4. QED
      BY <3>1, <3>3
  <2>3. CASE NoFileName(p) \/ NoCommand(p)
    <3>1. sh' = [sh EXCEPT ![1] = AtPrompt]
      BY <1>2, <2>3 DEF NoFileName, NoCommand
    <3>2. Goes(AtPrompt)
      BY AtPromptShape DEF PipeMade
    <3>3. QED
      BY <3>1, <3>2
  <2>4. CASE Separator(p)
    <3> DEFINE r == Complete(1, Token(1).type)
    <3>1. /\ sh' = [sh EXCEPT ![1] = r] /\ sh[1].at = "parse"
          /\ Token(1).type \in {"NEWLINE", "AMPERSAND"}
      BY <1>2, <2>4 DEF Separator, InShell
    <3>2. r.input_fd = sh[1].input_fd /\ r.type = Token(1).type
      BY <1>3 DEF Complete, ShellFields
    <3> HIDE DEF r
    <3>3. Goes(r)
      BY <3>1, <3>2 DEF PipeMade
    <3>4. QED
      BY <3>1, <3>3
  <2>5. CASE ChangeDirectory(p) \/ Wait(p)
    <3> DEFINE r == [sh[1] EXCEPT !.at = "ran"]
    <3>1. sh' = [sh EXCEPT ![1] = r] /\ sh[1].at \in {"command", "wait"}
      BY <1>2, <1>3, <2>5 DEF ChangeDirectory, Runs, Wait, InShell
    <3>2. r.input_fd = sh[1].input_fd /\ r.at = "ran" /\ r.type = sh[1].type /\ r.pipe_fd = sh[1].pipe_fd
      BY <1>3 DEF ShellFields
    <3> HIDE DEF r
    <3>3. Goes(r)
      BY <3>1, <3>2 DEF PipeMade
    <3>4. QED
      BY <3>1, <3>3
  <2>6. CASE ForkFails(p) /\ InForeground(p)
    <3> DEFINE r == Started(1, ANY)
    <3>1. sh' = [sh EXCEPT ![1] = r] /\ sh[1].at = "command" /\ sh[1].type = "NEWLINE"
      BY <1>2, <2>6 DEF ForkFails, Forks, InShell, InForeground
    <3>2. r.input_fd = sh[1].input_fd /\ r.type = sh[1].type
      BY <1>3 DEF Started, ShellFields
    <3> HIDE DEF r
    <3>3. Goes(r)
      BY <3>1, <3>2 DEF PipeMade
    <3>4. QED
      BY <3>1, <3>3
  <2>7. QED
    BY <2>1, <2>2, <2>3, <2>4, <2>5, <2>6 DEF Words
<1>5. PICK r : sh' = [sh EXCEPT ![1] = r] /\ Goes(r)
  BY <1>4
<1>6. sh'[1] = r
  BY <1>2, <1>3, <1>5
<1>7. \A q \in Pid : mode'[q] = mode[q] \/ (mode[q] = "zombie" /\ mode'[q] = "free")
  BY DEF Words, FetchLine, Argument, NoFileName, Separator, NoCommand, ChangeDirectory,
         ForkFails, Wait, kernel, Base, TypeOK
<1>8. \A q \in Pid \ {1} : Same(q)
  BY <1>1, <1>3, <1>5, <1>7 DEF Same, Idle
<1>9. mode[1] = "shell" /\ mode'[1] = "shell"
  BY <1>1, <1>2, <1>7
<1>10. QED
  BY <1>1, <1>5, <1>6, <1>8, <1>9, PlumbingByWords

(* A file is opened at a descriptor that was free. *)
LEMMA PlumbingByOpen ==
  ASSUME Base, Kept, Normal, Plumbing, NEW p \in Pid, OpenFile(p)
  PROVE  Plumbing'
<1>1. mode[p] = "shell" /\ sh[p].at = "parse" /\ UNCHANGED mode
  BY DEF OpenFile, Redirection, InShell
<1>2. p = 1 /\ 1 \in Pid
  BY <1>1 DEF Plumbing, OneShell
<1>3. PICK fd :
        /\ \/ fd = -1 /\ fds' = fds
           \/ FreeFds(p) # {} /\ fd = Lowest(FreeFds(p)) /\ fds' = [fds EXCEPT ![p][fd] = File]
        /\ sh' = [sh EXCEPT ![p] = Redirected(p, fd)]
  BY DEF OpenFile
<1>4. \/ fd = -1 /\ fds' = fds
      \/ fd \in Fd /\ fds[1][fd] = Closed /\ fds' = [fds EXCEPT ![1][fd] = File]
  BY <1>2, <1>3, FreeFdTaken
<1>5. /\ Redirected(p, fd).at = "parse"
      /\ Redirected(p, fd).input_fd \in {fd, sh[p].input_fd}
  BY <1>1, <1>2 DEF Redirected, Base, Shaped, ShellFields
<1>6. sh'[1].at = "parse" /\ sh'[1].input_fd \in {fd, sh[1].input_fd}
  BY <1>2, <1>3, <1>5 DEF Base, Shaped
<1>7. /\ \A q \in Pid \ {1} : fds'[q] = fds[q] /\ sh'[q] = sh[q]
      /\ \A f \in Fd : fds'[1][f] = fds[1][f] \/ (f = fd /\ fds'[1][f] = File)
  BY <1>2, <1>3, <1>4 DEF Base, TypeOK, Shaped
<1>8. \A k \in Pipe : 1 \in Writers(k)' => 1 \in Writers(k)
  BY <1>7, EndsDiffer DEF Writers, Holds
<1>9. \A q \in Pid \ {1} : Same(q)
  BY <1>1, <1>7 DEF Same
<1>10. /\ OneShell'
       /\ \A k \in Pipe : Used(k) /\ OnlyPrograms(k) => OnlyPrograms(k)'
       /\ Consumers'
  BY <1>1, <1>2, <1>8, <1>9, ShellAlone DEF Plumbing
<1>11. NextInput'
  <2> SUFFICES ASSUME NEW f \in Fd, f = sh'[1].input_fd
               PROVE  /\ fds'[1][f] # Closed
                      /\ \A k \in Pipe : fds'[1][f] = ReadEnd(k) => OnlyPrograms(k)'
    BY DEF NextInput
  <2>0. fd = -1 => fd \notin Fd
    BY ProcessAssumption DEF Fd
  <2>1. CASE f = fd
    <3>1. fds'[1][f] = File
      BY <1>2, <1>4, <2>0, <2>1 DEF Base, TypeOK
    <3>2. File # Closed
      BY DEF File, Closed
    <3>3. QED
      BY <3>1, <3>2, EndsDiffer
  <2>2. CASE f # fd
    <3>1. fds'[1][f] = fds[1][f] /\ f = sh[1].input_fd
      BY <1>6, <1>7, <2>2
    <3>2. fds[1][f] # Closed /\ \A k \in Pipe : fds[1][f] = ReadEnd(k) => OnlyPrograms(k)
      BY <1>1, <1>2, <3>1 DEF Plumbing, NextInput
    <3>3. QED
      BY <1>2, <1>10, <3>1, <3>2, InputUsed
  <2>3. QED
    BY <2>1, <2>2
<1>12. NewPipe'
  BY <1>6 DEF NewPipe, PipeMade
<1>13. QED
  BY <1>10, <1>11, <1>12 DEF Plumbing

(* A pipe nobody used is made, at two descriptors that were free. *)
LEMMA PlumbingByPipe ==
  ASSUME Base, Kept, Normal, Plumbing, NEW p \in Pid, MakePipe(p)
  PROVE  Plumbing'
<1> DEFINE r == Lowest(FreeFds(1))
           w == Lowest(FreeFds(1) \ {r})
<1>1. mode[p] = "shell" /\ sh[p].at = "parse" /\ UNCHANGED mode
  BY DEF MakePipe, InShell
<1>2. p = 1 /\ 1 \in Pid
  BY <1>1 DEF Plumbing, OneShell
<1>3. PICK k \in Pipe :
        /\ ~Used(k)
        /\ fds' = [fds EXCEPT ![1][r] = ReadEnd(k), ![1][w] = WriteEnd(k)]
        /\ sh' = [sh EXCEPT ![1] =
             [Complete(1, "PIPE") EXCEPT !.pipe_fd = <<r, w>>, !.output_fd = w]]
  <2>1. MakePipe(1)
    BY <1>2
  <2>2. QED
    BY <2>1, Zenon DEF MakePipe
<1>4. /\ r \in Fd /\ w \in Fd /\ r # w
      /\ fds[1][r] = Closed /\ fds[1][w] = Closed
  <2>1. FreeFds(1) # {} /\ FreeFds(1) \ {r} # {}
    BY <1>2, TwoAreFree DEF MakePipe
  <2>2. r \in Fd /\ fds[1][r] = Closed
    BY <1>2, <2>1, FreeFdTaken
  <2>3. w \in FreeFds(1) \ {r} /\ w \in Fd /\ fds[1][w] = Closed
    BY <1>2, <2>1, FreeFdTaken
  <2>4. QED
    BY <2>2, <2>3
<1> HIDE DEF r, w
<1> DEFINE s == [Complete(1, "PIPE") EXCEPT !.pipe_fd = <<r, w>>, !.output_fd = w]
<1>5. /\ s.at = "command" /\ s.type = "PIPE" /\ s.input_fd = sh[1].input_fd
      /\ s.pipe_fd[1] = r /\ s.pipe_fd[2] = w /\ s.output_fd = w
  BY <1>2 DEF Complete, Base, Shaped, ShellFields
<1>6. sh'[1] = s
  BY <1>2, <1>3 DEF Base, Shaped
<1> HIDE DEF s
<1>7. /\ \A q \in Pid \ {1} : fds'[q] = fds[q] /\ sh'[q] = sh[q]
      /\ fds'[1][r] = ReadEnd(k) /\ fds'[1][w] = WriteEnd(k)
      /\ \A f \in Fd \ {r, w} : fds'[1][f] = fds[1][f]
  BY <1>2, <1>3, <1>4 DEF Base, TypeOK, Shaped
<1>8. \A j \in Pipe : Used(j) /\ 1 \in Writers(j)' => 1 \in Writers(j)
  <2> SUFFICES ASSUME NEW j \in Pipe, Used(j), NEW f \in Fd, fds'[1][f] = WriteEnd(j)
               PROVE  1 \in Writers(j)
    BY DEF Writers, Holds
  <2>1. j # k
    BY <1>3
  <2>2. f # r /\ f # w
    BY <1>7, <2>1, EndsDiffer
  <2>3. QED
    BY <1>2, <1>7, <2>2 DEF Writers, Holds
<1>9. \A q \in Pid \ {1} : Same(q)
  BY <1>1, <1>7 DEF Same
<1>10. /\ OneShell'
       /\ \A j \in Pipe : Used(j) /\ OnlyPrograms(j) => OnlyPrograms(j)'
       /\ Consumers'
  BY <1>1, <1>2, <1>8, <1>9, ShellAlone DEF Plumbing
<1>11. NextInput'
  <2> SUFFICES ASSUME NEW f \in Fd, f = sh[1].input_fd
               PROVE  /\ fds'[1][f] # Closed
                      /\ \A j \in Pipe : fds'[1][f] = ReadEnd(j) => OnlyPrograms(j)'
    BY <1>5, <1>6 DEF NextInput
  <2>1. fds[1][f] # Closed /\ \A j \in Pipe : fds[1][f] = ReadEnd(j) => OnlyPrograms(j)
    BY <1>1, <1>2 DEF Plumbing, NextInput
  <2>2. fds'[1][f] = fds[1][f]
    BY <1>4, <1>7, <2>1
  <2>3. QED
    BY <1>2, <1>10, <2>1, <2>2, InputUsed
<1>12. NewPipe'
  <2>1. \A f \in Fd : fds'[1][f] = WriteEnd(k) => f = w
    <3> TAKE f \in Fd
    <3>1. f = r => fds'[1][f] # WriteEnd(k)
      BY <1>7, EndsDiffer
    <3>2. f \notin {r, w} => fds'[1][f] # WriteEnd(k)
      <4>1. fds[1][f] # WriteEnd(k)
        BY <1>2, <1>3, InputUsed
      <4>2. QED
        BY <1>7, <4>1
    <3>3. QED
      BY <3>1, <3>2
  <2>2. \A q \in Writers(k)' : q = 1
    <3> TAKE q \in Writers(k)'
    <3>1. q \in Pid
      BY DEF Writers
    <3>2. q # 1 => q \in Writers(k)
      BY <1>9, <3>1, SameStdio
    <3>3. QED
      BY <1>3, <3>1, <3>2 DEF Used, Writers
  <2>3. sh'[1].pipe_fd[1] = r /\ sh'[1].pipe_fd[2] = w /\ sh'[1].output_fd = w
    BY <1>5, <1>6
  <2>4. \E j \in Pipe : Connected(sh[1].pipe_fd[1], sh[1].pipe_fd[2], j)'
    BY <1>7, <2>1, <2>2, <2>3 DEF Connected
  <2>5. QED
    BY <1>4, <2>3, <2>4 DEF NewPipe
<1>13. QED
  BY <1>10, <1>11, <1>12 DEF Plumbing

(* A line goes on after its pipe: the shell closes the writing end. *)
LEMMA PlumbingByPipeline ==
  ASSUME Base, Kept, Normal, Plumbing, 1 \in Pid, NextCommand(1), sh[1].type = "PIPE"
  PROVE  Plumbing'
<1> DEFINE r == sh[1].pipe_fd[1]
           w == sh[1].pipe_fd[2]
           s == [sh[1] EXCEPT !.at = "parse", !.argv = <<>>, !.output_fd = 1, !.input_fd = r]
<1>1. /\ mode[1] = "shell" /\ sh[1].at = "ran" /\ UNCHANGED mode
      /\ fds' = [fds EXCEPT ![1] = close(fds[1], w)]
      /\ sh' = [sh EXCEPT ![1] = s]
  BY DEF NextCommand, InShell, AfterPipe
<1>2. /\ r \in Fd /\ w \in Fd
      /\ \E k \in Pipe : Connected(r, w, k)
  BY <1>1 DEF Plumbing, NewPipe, PipeMade
<1>3. PICK k \in Pipe : Connected(r, w, k)
  BY <1>2
<1>4. s.at = "parse" /\ s.input_fd = r
  BY DEF Base, Shaped, ShellFields
<1> HIDE DEF s
<1>5. sh'[1] = s
  BY <1>1 DEF Base, Shaped
<1>6. /\ \A q \in Pid \ {1} : fds'[q] = fds[q] /\ sh'[q] = sh[q]
      /\ \A f \in Fd : fds'[1][f] = IF f = w THEN Closed ELSE fds[1][f]
  BY <1>1, <1>2 DEF Base, TypeOK, Shaped, close
<1>7. \A j \in Pipe : 1 \in Writers(j)' => 1 \in Writers(j)
  BY <1>6, EndsDiffer DEF Writers, Holds
<1>8. \A q \in Pid \ {1} : Same(q)
  BY <1>1, <1>6 DEF Same
<1>9. /\ OneShell'
      /\ Consumers'
  BY <1>1, <1>7, <1>8, ShellAlone DEF Plumbing
<1>10. OnlyPrograms(k)'
  <2> SUFFICES ASSUME NEW q \in Writers(k)'
               PROVE  q \in Programs' /\ Stdout(q)' = WriteEnd(k)
    BY DEF OnlyPrograms
  <2>1. q \in Pid
    BY DEF Writers
  <2>2. q # 1
    BY <1>3, <1>6, EndsDiffer DEF Connected, Writers, Holds
  <2>3. QED
    BY <1>3, <1>8, <2>1, <2>2, SameStdio DEF Connected
<1>11. NextInput'
  <2> SUFFICES ASSUME NEW f \in Fd, f = r
               PROVE  /\ fds'[1][f] # Closed
                      /\ \A j \in Pipe : fds'[1][f] = ReadEnd(j) => OnlyPrograms(j)'
    BY <1>4, <1>5 DEF NextInput
  <2>1. fds'[1][f] = ReadEnd(k)
    BY <1>3, <1>6, EndsDiffer DEF Connected
  <2>2. QED
    BY <1>10, <2>1, EndsDiffer
<1>12. NewPipe'
  BY <1>4, <1>5 DEF NewPipe, PipeMade
<1>13. QED
  BY <1>9, <1>11, <1>12 DEF Plumbing

LEMMA PlumbingByNextCommand ==
  ASSUME Base, Kept, Normal, Plumbing, NEW p \in Pid, NextCommand(p)
  PROVE  Plumbing'
<1>1. mode[p] = "shell" /\ sh[p].at = "ran" /\ UNCHANGED mode
  BY DEF NextCommand, InShell
<1>2. p = 1 /\ 1 \in Pid
  BY <1>1 DEF Plumbing, OneShell
<1>3. CASE sh[1].type = "PIPE"
  BY <1>2, <1>3, PlumbingByPipeline
<1>4. CASE sh[1].type # "PIPE"
  <2> DEFINE s == [sh[1] EXCEPT !.at = "parse", !.argv = <<>>, !.output_fd = 1, !.input_fd = 0]
             r == IF sh[1].type = "NEWLINE" THEN AtPrompt ELSE s
  <2>1. fds' = fds /\ sh' = [sh EXCEPT ![1] = r]
    BY <1>2, <1>4 DEF NextCommand, AfterPipe, Base, TypeOK
  <2>2. r.input_fd = 0 /\ r.at \in {"prompt", "parse"}
    BY <1>2 DEF AtPrompt, Base, Shaped, ShellFields
  <2> HIDE DEF r
  <2>3. sh'[1] = r /\ \A q \in Pid \ {1} : sh'[q] = sh[q]
    BY <1>2, <2>1 DEF Base, Shaped
  <2>4. \A q \in Pid \ {1} : Same(q)
    BY <1>1, <2>1, <2>3 DEF Same
  <2>5. QED
    BY <1>1, <1>2, <2>1, <2>2, <2>3, <2>4, PlumbingByWords DEF PipeMade
<1>5. QED
  BY <1>3, <1>4

(* What a new child reads and writes, from the descriptors it inherits. *)
LEMMA ChildStdio ==
  ASSUME NEW t \in [Fd -> Open \cup {Closed}], NEW i, NEW o,
         NEW in, in = (IF i = 0 THEN t ELSE dup2(t, i, 0)),
         NEW out, out = (IF o = 1 THEN in ELSE dup2(in, o, 1))
  PROVE  /\ in[0] = t[0] \/ \E f \in Fd : f = i /\ in[0] = t[f]
         /\ o \in Fd \ {0, 1} /\ t[o] # Closed => out[1] = t[o]
<1>1. 0 \in Fd /\ 1 \in Fd
  BY StandardFds
<1>2. in \in [Fd -> Open \cup {Closed}]
  BY <1>1, Dup2Typed
<1>3. in[0] = t[0] \/ \E f \in Fd : f = i /\ in[0] = t[f]
  BY <1>1, Dup2Copies
<1>4. \A f \in Fd \ {0} : in[f] = t[f]
  BY <1>1, Dup2Copies
<1>5. o \in Fd \ {0, 1} /\ t[o] # Closed => out[1] = t[o]
  BY <1>1, <1>2, <1>4, Dup2Copies
<1>6. QED
  BY <1>3, <1>5

(* A command is started: it gets every descriptor of the shell, so the pipe it
   is to read must be one that the shell no longer writes. *)
LEMMA PlumbingByFork ==
  ASSUME Base, Kept, Normal, Plumbing, NEW p \in Pid, Fork(p)
  PROVE  Plumbing'
<1> DEFINE low == Lowest(FreePids)
<1>1. mode[p] = "shell" /\ sh[p].at = "command"
  BY DEF Fork, Forks, InShell
<1>2. p = 1 /\ 1 \in Pid
  BY <1>1 DEF Plumbing, OneShell
<1>3. PICK c \in Pid : c = low
  BY FreePidTaken DEF Fork
<1>4. mode[c] = "free" /\ c # 1
  BY <1>1, <1>2, <1>3, FreePidTaken DEF Fork
<1> DEFINE child == [sh[1] EXCEPT !.at = "ran"]
           s == Started(1, c)
<1>5. /\ mode' = [mode EXCEPT ![c] = "forked"]
      /\ fds' = [fds EXCEPT ![c] = fds[1]]
      /\ sh' = [sh EXCEPT ![1] = s, ![c] = child]
  BY <1>2, <1>3 DEF Fork
<1>6. child.input_fd = sh[1].input_fd /\ child.output_fd = sh[1].output_fd
  BY <1>2 DEF Base, Shaped, ShellFields
<1>7. /\ s.at \in {"wait", "ran"} /\ s.input_fd = sh[1].input_fd
      /\ s.type = sh[1].type /\ s.pipe_fd = sh[1].pipe_fd
  BY <1>2 DEF Base, Shaped, ShellFields, Started
<1>8. sh'[1] = s /\ sh'[c] = child
  BY <1>2, <1>4, <1>5 DEF Base, Shaped
<1> HIDE DEF child, s, low
<1>9. /\ \A q \in Pid \ {1, c} : sh'[q] = sh[q]
      /\ \A q \in Pid \ {c} : fds'[q] = fds[q] /\ mode'[q] = mode[q]
      /\ mode'[c] = "forked" /\ fds'[c] = fds[1]
  BY <1>2, <1>4, <1>5 DEF Base, Shaped, TypeOK
<1>10. \A q \in Pid \ {1, c} : Same(q)
  BY <1>9 DEF Same
<1>11. OneShell'
  BY <1>9 DEF Plumbing, OneShell
<1>12. /\ c \in Programs' /\ c \notin Programs
       /\ 1 \notin Programs /\ 1 \notin Programs'
  BY <1>1, <1>2, <1>4, <1>9 DEF Programs
<1>13. \A k \in Pipe : (1 \in Writers(k)' <=> 1 \in Writers(k)) /\ (c \in Writers(k)' <=> 1 \in Writers(k))
  BY <1>2, <1>4, <1>9 DEF Writers, Holds
<1>14. ASSUME NEW k \in Pipe, OnlyPrograms(k)
       PROVE  c \notin Writers(k)' /\ OnlyPrograms(k)'
  <2>1. 1 \notin Writers(k)
    BY <1>12, <1>14 DEF OnlyPrograms
  <2>2. ASSUME NEW q \in Writers(k)' PROVE q \in Programs' /\ Stdout(q)' = WriteEnd(k)
    <3>1. q \in Pid \ {1, c}
      BY <1>13, <2>1, <2>2 DEF Writers
    <3>2. QED
      BY <1>10, <1>14, <2>2, <3>1, SameStdio DEF OnlyPrograms
  <2>3. QED
    BY <1>13, <2>1, <2>2 DEF OnlyPrograms
<1>15. PICK in : in = InputTable(c)'
  OBVIOUS
<1>16. PICK out : out = ChildTable(c)'
  OBVIOUS
<1>17. /\ in = (IF sh[1].input_fd = 0 THEN fds[1] ELSE dup2(fds[1], sh[1].input_fd, 0))
       /\ out = (IF sh[1].output_fd = 1 THEN in ELSE dup2(in, sh[1].output_fd, 1))
  BY <1>6, <1>8, <1>9, <1>15, <1>16 DEF InputTable, ChildTable
<1>18. Stdin(c)' = in[0] /\ Stdout(c)' = out[1]
  BY <1>9, <1>15, <1>16 DEF Stdin, Stdout
<1>19. fds[1] \in [Fd -> Open \cup {Closed}] /\ OnTerminal(1)
  BY <1>1, <1>2 DEF Base, TypeOK, Kept
<1>20. /\ in[0] = fds[1][0] \/ \E f \in Fd : f = sh[1].input_fd /\ in[0] = fds[1][f]
       /\ sh[1].output_fd \in Fd \ {0, 1} /\ fds[1][sh[1].output_fd] # Closed =>
            out[1] = fds[1][sh[1].output_fd]
  <2> DEFINE Stdio(t, i, o, a, b) ==
        (/\ a = (IF i = 0 THEN t ELSE dup2(t, i, 0))
         /\ b = (IF o = 1 THEN a ELSE dup2(a, o, 1)))
        => /\ a[0] = t[0] \/ \E f \in Fd : f = i /\ a[0] = t[f]
           /\ o \in Fd \ {0, 1} /\ t[o] # Closed => b[1] = t[o]
  <2>1. \A t \in [Fd -> Open \cup {Closed}] : \A i, o, a, b : Stdio(t, i, o, a, b)
    BY ChildStdio
  <2>2. Stdio(fds[1], sh[1].input_fd, sh[1].output_fd, in, out)
    <3> HIDE DEF Stdio
    <3> QED BY <1>19, <2>1
  <2>3. QED
    BY <1>17, <2>2
<1>21. Consumers'
  <2> SUFFICES ASSUME NEW d \in Programs', NEW k \in Pipe, Stdin(d)' = ReadEnd(k)
               PROVE  d \notin Writers(k)' /\ OnlyPrograms(k)'
    BY DEF Consumers
  <2>0. d \in Pid
    BY DEF Programs
  <2>1. CASE d = c
    <3>1. in[0] # fds[1][0]
      BY <1>18, <1>19, <2>1, EndsDiffer DEF OnTerminal
    <3>2. PICK f \in Fd : f = sh[1].input_fd /\ in[0] = fds[1][f]
      BY <1>20, <3>1
    <3>3. OnlyPrograms(k)
      BY <1>1, <1>2, <1>18, <2>1, <3>2 DEF Plumbing, NextInput
    <3>4. QED
      BY <1>14, <2>1, <3>3
  <2>2. CASE d # c
    <3>1. d \in Pid \ {1, c}
      BY <1>12, <2>0, <2>2
    <3>2. d \in Programs /\ Stdin(d) = ReadEnd(k)
      BY <1>10, <3>1, SameStdio
    <3>3. d \notin Writers(k) /\ OnlyPrograms(k)
      BY <3>2 DEF Plumbing, Consumers
    <3>4. QED
      BY <1>10, <1>14, <3>1, <3>3, SameStdio
  <2>3. QED
    BY <2>1, <2>2
<1>22. NextInput'
  <2> SUFFICES ASSUME NEW f \in Fd, f = sh[1].input_fd
               PROVE  /\ fds'[1][f] # Closed
                      /\ \A k \in Pipe : fds'[1][f] = ReadEnd(k) => OnlyPrograms(k)'
    BY <1>7, <1>8 DEF NextInput
  <2>1. fds[1][f] # Closed /\ \A k \in Pipe : fds[1][f] = ReadEnd(k) => OnlyPrograms(k)
    BY <1>1, <1>2 DEF Plumbing, NextInput
  <2>2. fds'[1] = fds[1]
    BY <1>2, <1>4, <1>9
  <2>3. QED
    BY <1>14, <2>1, <2>2
<1>23. NewPipe'
  <2> SUFFICES ASSUME sh[1].type = "PIPE"
               PROVE  /\ sh[1].pipe_fd[1] \in Fd /\ sh[1].pipe_fd[2] \in Fd
                      /\ \E k \in Pipe : Connected(sh[1].pipe_fd[1], sh[1].pipe_fd[2], k)'
    BY <1>7, <1>8 DEF NewPipe, PipeMade
  <2> DEFINE r == sh[1].pipe_fd[1]  w == sh[1].pipe_fd[2]
  <2>1. /\ r \in Fd /\ w \in Fd /\ sh[1].output_fd = w
        /\ \E k \in Pipe : Connected(r, w, k)
    BY <1>1, <1>2 DEF Plumbing, NewPipe, PipeMade
  <2>2. PICK k \in Pipe : Connected(r, w, k)
    BY <2>1
  <2>3. w \notin 0 .. 2
    BY <1>1, <1>2 DEF Kept, PipeApart
  <2>4. Stdout(c)' = WriteEnd(k)
    <3>1. w \in Fd \ {0, 1} /\ fds[1][w] = WriteEnd(k)
      BY <2>1, <2>2, <2>3 DEF Connected
    <3>2. fds[1][w] # Closed
      BY <3>1, EndsDiffer
    <3>3. QED
      BY <1>18, <1>20, <2>1, <3>1, <3>2
  <2>5. \A q \in Writers(k)' \ {1} : q \in Programs' /\ Stdout(q)' = WriteEnd(k)
    <3> TAKE q \in Writers(k)' \ {1}
    <3>1. q \in Pid
      BY DEF Writers
    <3>2. q # c => q \in Programs' /\ Stdout(q)' = WriteEnd(k)
      BY <1>10, <2>2, <3>1, SameStdio DEF Connected
    <3>3. QED
      BY <1>12, <2>4, <3>2
  <2>6. fds'[1] = fds[1] /\ sh'[1].pipe_fd = sh[1].pipe_fd
    BY <1>2, <1>4, <1>7, <1>8, <1>9
  <2>7. \E j \in Pipe : Connected(sh[1].pipe_fd[1], sh[1].pipe_fd[2], j)'
    BY <2>2, <2>5, <2>6 DEF Connected
  <2>8. QED
    BY <2>1, <2>7
<1>24. QED
  BY <1>11, <1>21, <1>22, <1>23 DEF Plumbing

(* What has failed once stays so. *)
LEMMA NormalBefore ==
  ASSUME [Next]_vars, Normal'
  PROVE  Normal
<1>1. ASSUME NEW p \in Pid, OpenFile(p) PROVE Normal
  <2>1. UNCHANGED lost /\ \E failed : exhausted' = (exhausted \/ failed)
    BY <1>1, Zenon DEF OpenFile
  <2>2. QED
    BY <2>1 DEF Normal
<1>2. ASSUME NEW p \in Pid, PipeFails(p) \/ Exec(p) PROVE Normal
  <2>1. ~PipeFails(p)
    BY DEF PipeFails, Normal
  <2>2. exhausted' = exhausted /\ (lost' = lost \/ lost')
    BY <1>2, <2>1 DEF Exec
  <2>3. QED
    BY <2>2 DEF Normal
<1>3. ASSUME NEW p \in Pid,
             \/ \E line \in Line : FetchLine(p, line)
             \/ FetchFromPipe(p) \/ EndOfInput(p) \/ Argument(p) \/ NoFileName(p) \/ Separator(p)
             \/ MakePipe(p) \/ NoCommand(p) \/ Exit(p) \/ ChangeDirectory(p) \/ Fork(p)
             \/ ForkFails(p) \/ Wait(p) \/ NextCommand(p)
             \/ Write(p) \/ Read(p) \/ ReadEnds(p) \/ ProgramEnds(p)
      PROVE  UNCHANGED <<lost, exhausted>>
  BY <1>3 DEF FetchLine, FetchFromPipe, EndOfInput, Argument, NoFileName, Separator, MakePipe,
     NoCommand, Exit, ChangeDirectory, Fork, ForkFails, Wait, NextCommand, Write, Read,
     ReadEnds, ProgramEnds
<1>4. CASE UNCHANGED vars
  BY <1>4 DEF Normal, vars
<1>5. QED
  BY <1>1, <1>2, <1>3, <1>4 DEF Next, ShellStep, ProgramStep, Normal

LEMMA InitPlumbing == Init => Plumbing
<1> SUFFICES ASSUME Init PROVE Plumbing
  OBVIOUS
<1>1. \A p \in Pid : p \notin Programs
  BY DEF Init, Programs
<1>2. OneShell
  BY DEF Init, OneShell
<1>3. sh[1].at = "prompt"
  BY AtPromptShape, ProcessAssumption DEF Init
<1>4. Consumers
  BY <1>1 DEF Consumers, Programs
<1>5. QED
  BY <1>2, <1>3, <1>4 DEF Plumbing, NextInput, NewPipe, PipeMade

LEMMA StepPlumbing ==
  ASSUME Base, Kept, Normal => Plumbing, [Next]_vars, Normal'
  PROVE  Plumbing'
<1>0. Normal
  BY NormalBefore
<1>1. Normal /\ Plumbing
  BY <1>0
<1>2. CASE UNCHANGED vars
  BY <1>1, <1>2, PlumbingIfSame DEF vars, kernel, Same
<1>3. ASSUME NEW p \in Pid, Words(p) PROVE Plumbing'
  BY <1>1, <1>3, PlumbingByItsWords
<1>4. ASSUME NEW p \in Pid, exit(p) PROVE Plumbing'
  BY <1>1, <1>4, PlumbingByExit
<1>5. ASSUME NEW p \in Pid, Exec(p) PROVE Plumbing'
  <2>1. mode' = [mode EXCEPT ![p] = "running"]
    BY <1>5 DEF Exec, Normal
  <2>2. QED
    BY <1>1, <1>5, <2>1, PlumbingByExec
<1>6. ASSUME NEW p \in Pid, FetchFromPipe(p) \/ Write(p) \/ Read(p) \/ ReadEnds(p)
      PROVE  Plumbing'
  <2>1. \A q \in Pid : Same(q)
    BY <1>6 DEF FetchFromPipe, Write, Read, ReadEnds, kernel, Same
  <2>2. QED
    BY <1>1, <2>1, PlumbingIfSame
<1>7. ASSUME NEW p \in Pid, PipeFails(p) PROVE FALSE
  BY <1>7 DEF PipeFails, Normal
<1>8. ASSUME NEW p \in Pid, OpenFile(p) \/ MakePipe(p) \/ NextCommand(p) \/ Fork(p)
      PROVE  Plumbing'
  BY <1>1, <1>8, PlumbingByOpen, PlumbingByPipe, PlumbingByNextCommand, PlumbingByFork
<1>9. ASSUME NEW p \in Pid, EndOfInput(p) \/ Exit(p) \/ ProgramEnds(p) \/ ForkFails(p)
      PROVE  exit(p) \/ Words(p)
  BY <1>9 DEF EndOfInput, Exit, ProgramEnds, ForkFails, Words
<1>10. QED
  BY <1>2, <1>3, <1>4, <1>5, <1>6, <1>7, <1>8, <1>9 DEF Next, ShellStep, ProgramStep, Words

-------------------------------------------------------------------------------
(* Theorems. *)

LEMMA InitKept == Init => Kept
<1> SUFFICES ASSUME Init PROVE Kept
  OBVIOUS
<1>1. \A p \in Pid : mode[p] \in {"shell", "forked"} => OnTerminal(p)
  BY StandardFds DEF Init, OnTerminal
<1>2. \A p \in Pid : PipeApart(p)
  BY AtPromptShape DEF Init, PipeApart
<1>3. QED
  BY <1>1, <1>2 DEF Kept

(* The inductive invariant: types, and what the two properties below need of
   the states in between (sh.c:195-336). *)
IInv == Base /\ Kept

THEOREM ShellInvariant == Spec => []IInv
<1>1. Init => IInv
  BY InitBase, InitKept DEF IInv
<1>2. IInv /\ [Next]_vars => IInv'
  BY StepBase, StepKept DEF IInv
<1>3. QED
  BY <1>1, <1>2, PTL DEF Spec

(* Type correctness: descriptors refer to something open, no pipe holds more
   than it can, and a process that has ended holds no descriptor
   (sh.c:195-244). *)
THEOREM ShellTypeCorrect == Spec => []TypeOK
<1>1. IInv => TypeOK
  BY DEF IInv, Base
<1>2. QED
  BY <1>1, ShellInvariant, PTL

(* When the shell asks for the next line, it has waited for the command that
   ended the line before, for any number of processes and whatever ends in
   between (sh.c:233-235). *)
THEOREM ForegroundAlwaysReaped == Spec => []ForegroundReaped
<1>1. IInv => ForegroundReaped
  <2> SUFFICES ASSUME IInv, NEW p \in Pid, InShell(p, "prompt"), NEW c \in Children(p)
               PROVE  job[c].type # "NEWLINE"
    BY DEF ForegroundReaped
  <2>1. c \in Pid /\ sh[p].at = "prompt"
    BY DEF Children, InShell
  <2>2. QED
    BY <2>1 DEF IInv, Base, Waited, InShell
<1>2. QED
  BY <1>1, ShellInvariant, PTL

(* Whatever a shell opens, duplicates and closes for its children, its own
   standard descriptors stay the terminal (sh.c:225-230,298-320). *)
THEOREM TerminalStays == Spec => []ShellKeepsTerminal
<1>1. IInv => ShellKeepsTerminal
  BY DEF IInv, Kept, OnTerminal, ShellKeepsTerminal
<1>2. QED
  BY <1>1, ShellInvariant, PTL

(* While nothing has failed, whoever holds the writing end of a pipe that a
   program reads is another program whose output it is: neither the shell, nor
   the reader, nor a later command of the line (sh.c:225-230,298-320). *)
THEOREM OnlyProducersAlwaysWrite == Spec => []OnlyProducersWrite
<1> DEFINE Plumbed == Normal => Plumbing
<1>1. Init => Plumbed
  BY InitPlumbing
<1>2. IInv /\ Plumbed /\ [Next]_vars => Plumbed'
  BY StepPlumbing DEF IInv
<1>3. Plumbed => OnlyProducersWrite
  <2> SUFFICES ASSUME Plumbing, NEW c \in Programs, NEW k \in Pipe, Stdin(c) = ReadEnd(k),
                      NEW p \in Writers(k)
               PROVE  p \in Programs \ {c} /\ Stdout(p) = WriteEnd(k)
    BY DEF OnlyProducersWrite
  <2>1. c \notin Writers(k) /\ OnlyPrograms(k)
    BY DEF Plumbing, Consumers
  <2>2. QED
    BY <2>1 DEF OnlyPrograms
<1> HIDE DEF Plumbed
<1>4. QED
  BY <1>1, <1>2, <1>3, ShellInvariant, PTL DEF Spec
===============================================================================
