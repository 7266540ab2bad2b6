-------------------------------- MODULE Shell --------------------------------
(***************************************************************************)
(* The shell of lab1/sh.c and the processes it starts.  A line is read as  *)
(* tokens; each command is forked, its descriptors are redirected and its  *)
(* program executed; the shell waits for a command that ends a line and    *)
(* for no other.  Descriptors and pipes are those of the kernel, so that   *)
(* what a process forgets to close is visible to the others.  A child      *)
(* whose execv fails goes on as a shell, so every process may be one.      *)
(***************************************************************************)
EXTENDS Integers, Sequences, FiniteSets

CONSTANTS
  Pid,           \* process numbers; fork fails when none is free
  MaxFd,         \* descriptors a process can have open
  Pipe,          \* bound: pipes made in a behaviour
  PipeCapacity,  \* bytes a pipe holds
  Command,       \* names found along the search path
  Job,           \* Job[c]: bytes program c writes, and whether it reads its input
  OldFile,       \* names of files that exist
  Dir,           \* directories one can change to
  HOME,          \* the one cd without an argument goes to
  NULL,          \* old_dir before the first cd
  Line,          \* the lines a user may type
  MaxLines       \* bound: lines typed in a behaviour

Fd == 0 .. MaxFd - 1
init == 0
ANY == -1        \* what fork returns when it fails, and what waitpid takes for any child

ASSUME ProcessAssumption == Pid \subseteq Nat \ {init} /\ 1 \in Pid /\ MaxFd \in Nat /\ MaxFd > 2
ASSUME PipeAssumption == PipeCapacity \in Nat
ASSUME NameAssumption == HOME \in Dir /\ NULL \notin Dir /\ MaxLines \in Nat

(* what a descriptor refers to *)
Closed == [kind |-> "closed", pipe |-> NULL]
Terminal == [kind |-> "terminal", pipe |-> NULL]
File == [kind |-> "file", pipe |-> NULL]
ReadEnd(k) == [kind |-> "read end", pipe |-> k]
WriteEnd(k) == [kind |-> "write end", pipe |-> k]
Open == {Terminal, File} \cup {ReadEnd(k) : k \in Pipe} \cup {WriteEnd(k) : k \in Pipe}

VARIABLES
  mode,      \* mode[p]: free, shell, forked (child before execv), running or zombie
  parent,    \* parent[p]
  fds,       \* fds[p][f]: what descriptor f of p refers to
  sh,        \* sh[p]: the variables of the shell in process p
  job,       \* job[p]: what the program in p has still to do, and how it was started
  buffer,    \* buffer[k]: bytes in pipe k
  cwd,       \* cwd[p]: working directory
  old_dir,   \* old_dir[p]
  typed,     \* lines typed so far
  lost,      \* history: an execv has failed
  exhausted  \* history: an open or a pipe has failed for lack of descriptors

kernel == <<mode, parent, fds, buffer>>
vars == <<kernel, sh, job, cwd, old_dir, typed, lost, exhausted>>

(* between lines none of the variables of parse_line has a meaning *)
AtPrompt == [at |-> "prompt", rest |-> <<>>, argv |-> <<>>, input_fd |-> 0, output_fd |-> 1,
             pipe_fd |-> <<>>, type |-> "NEWLINE", child |-> ANY]
NoJob == [left |-> 0, reading |-> FALSE, type |-> "NEWLINE"]

Init ==
  /\ mode = [p \in Pid |-> IF p = 1 THEN "shell" ELSE "free"]
  /\ parent = [p \in Pid |-> init]
  /\ fds = [p \in Pid |-> [f \in Fd |-> IF p = 1 /\ f <= 2 THEN Terminal ELSE Closed]]
  /\ sh = [p \in Pid |-> AtPrompt]
  /\ job = [p \in Pid |-> NoJob]
  /\ buffer = [k \in Pipe |-> 0]
  /\ cwd = [p \in Pid |-> HOME]
  /\ old_dir = [p \in Pid |-> NULL]
  /\ typed = 0
  /\ lost = FALSE
  /\ exhausted = FALSE

-------------------------------------------------------------------------------
(* Tokens.  A line is a sequence of words, blanks and special characters and *)
(* ends in a newline.                                                         *)

end_of_token == {" ", "\n", ";", "|", "&", "<", ">"}

TokenType(c) ==
  CASE c = "\n" -> "NEWLINE" [] c = "<" -> "INPUT" [] c = ">" -> "OUTPUT"
    [] c = "&" -> "AMPERSAND" [] c = "|" -> "PIPE" [] OTHER -> "NORMAL"

(* the first place from i on whose character satisfies the test of the set *)
FirstAt(s, i, set) ==
  CHOOSE j \in i .. Len(s) : s[j] \in set /\ \A k \in i .. j - 1 : s[k] \notin set

(* a semicolon is no token of its own: it starts a word *)
gettoken(s) ==
  LET b == CHOOSE j \in 1 .. Len(s) : s[j] # " " /\ \A k \in 1 .. j - 1 : s[k] = " "
      e == IF TokenType(s[b]) = "NORMAL" THEN FirstAt(s, b + 1, end_of_token) ELSE b + 1
  IN  [type |-> TokenType(s[b]), text |-> SubSeq(s, b, e - 1), rest |-> SubSeq(s, e, Len(s))]

-------------------------------------------------------------------------------
(* System calls. *)

Holds(p, file) == \E f \in Fd : fds[p][f] = file
Writers(k) == {p \in Pid : Holds(p, WriteEnd(k))}
Readers(k) == {p \in Pid : Holds(p, ReadEnd(k))}
Used(k) == \E p \in Pid : Holds(p, ReadEnd(k)) \/ Holds(p, WriteEnd(k))

FreeFds(p) == {f \in Fd : fds[p][f] = Closed}
Lowest(S) == CHOOSE f \in S : \A g \in S : f <= g

dup2(table, old, new) ==
  IF old \in Fd /\ table[old] # Closed THEN [table EXCEPT ![new] = table[old]] ELSE table

close(table, f) == IF f \in Fd THEN [table EXCEPT ![f] = Closed] ELSE table

Children(p) == {c \in Pid : parent[c] = p /\ mode[c] # "free"}

(* p ends: its descriptors are closed, its children become those of init,
   which waits for all of its own *)
exit(p) ==
  /\ mode' = [q \in Pid |->
       IF q = p THEN IF parent[p] = init THEN "free" ELSE "zombie"
       ELSE IF q \in Children(p) /\ mode[q] = "zombie" THEN "free" ELSE mode[q]]
  /\ parent' = [q \in Pid |-> IF q \in Children(p) THEN init ELSE parent[q]]
  /\ fds' = [fds EXCEPT ![p] = [f \in Fd |-> Closed]]
  /\ sh' = [sh EXCEPT ![p] = AtPrompt]

-------------------------------------------------------------------------------
(* fetch_line and parse_line. *)

InShell(p, at) == mode[p] = "shell" /\ sh[p].at = at

FetchLine(p, line) ==
  /\ InShell(p, "prompt")
  /\ fds[p][0] = Terminal
  /\ typed < MaxLines
  /\ typed' = typed + 1
  /\ sh' = [sh EXCEPT ![p] = [AtPrompt EXCEPT !.at = "parse", !.rest = line]]
  /\ UNCHANGED <<kernel, job, cwd, old_dir, lost, exhausted>>

(* a shell whose input is a pipe takes what it finds there for a line that
   has no end *)
FetchFromPipe(p) ==
  /\ InShell(p, "prompt")
  /\ \E k \in Pipe :
       /\ fds[p][0] = ReadEnd(k)
       /\ buffer[k] > 0
       /\ buffer' = [buffer EXCEPT ![k] = @ - 1]
  /\ UNCHANGED <<mode, parent, fds, sh, job, cwd, old_dir, typed, lost, exhausted>>

EndOfFile(p) ==
  \A k \in Pipe : fds[p][0] = ReadEnd(k) => buffer[k] = 0 /\ Writers(k) = {}

EndOfInput(p) ==
  /\ InShell(p, "prompt")
  /\ EndOfFile(p)
  /\ exit(p)
  /\ UNCHANGED <<job, buffer, cwd, old_dir, typed, lost, exhausted>>

Token(p) == gettoken(sh[p].rest)

Argument(p) ==
  /\ InShell(p, "parse")
  /\ Token(p).type = "NORMAL"
  /\ sh' = [sh EXCEPT ![p].argv = Append(@, Token(p).text), ![p].rest = Token(p).rest]
  /\ UNCHANGED <<kernel, job, cwd, old_dir, typed, lost, exhausted>>

Redirection(p) == InShell(p, "parse") /\ Token(p).type \in {"INPUT", "OUTPUT"}
FileName(p) == gettoken(Token(p).rest)

(* the rest of the line is dropped; what was opened for it stays open *)
NoFileName(p) ==
  /\ Redirection(p)
  /\ FileName(p).type # "NORMAL"
  /\ sh' = [sh EXCEPT ![p] = AtPrompt]
  /\ UNCHANGED <<kernel, job, cwd, old_dir, typed, lost, exhausted>>

Redirected(p, fd) ==
  LET s == [sh[p] EXCEPT !.rest = FileName(p).rest]
  IN  IF Token(p).type = "INPUT" THEN [s EXCEPT !.input_fd = fd] ELSE [s EXCEPT !.output_fd = fd]

OpenFile(p) ==
  /\ Redirection(p)
  /\ FileName(p).type = "NORMAL"
  /\ LET exists == Token(p).type = "OUTPUT" \/ FileName(p).text \in OldFile
         opens == exists /\ FreeFds(p) # {}
         fd == IF opens THEN Lowest(FreeFds(p)) ELSE -1
     IN  /\ fds' = IF opens THEN [fds EXCEPT ![p][fd] = File] ELSE fds
         /\ sh' = [sh EXCEPT ![p] = Redirected(p, fd)]
         /\ exhausted' = (exhausted \/ (exists /\ ~opens))
  /\ UNCHANGED <<mode, parent, buffer, job, cwd, old_dir, typed, lost>>

(* A command is complete. *)
Complete(p, type) == [sh[p] EXCEPT !.at = "command", !.type = type, !.rest = Token(p).rest]

Separator(p) ==
  /\ InShell(p, "parse")
  /\ Token(p).type \in {"NEWLINE", "AMPERSAND"}
  /\ sh' = [sh EXCEPT ![p] = Complete(p, Token(p).type)]
  /\ UNCHANGED <<kernel, job, cwd, old_dir, typed, lost, exhausted>>

MakePipe(p) ==
  /\ InShell(p, "parse")
  /\ Token(p).type = "PIPE"
  /\ Cardinality(FreeFds(p)) > 1
  /\ LET r == Lowest(FreeFds(p))
         w == Lowest(FreeFds(p) \ {r})
     IN  \E k \in {k \in Pipe : ~Used(k)} :
           /\ \A i \in {i \in Pipe : ~Used(i)} : k <= i
           /\ fds' = [fds EXCEPT ![p][r] = ReadEnd(k), ![p][w] = WriteEnd(k)]
           /\ buffer' = [buffer EXCEPT ![k] = 0]
           /\ sh' = [sh EXCEPT ![p] =
                [Complete(p, "PIPE") EXCEPT !.pipe_fd = <<r, w>>, !.output_fd = w]]
  /\ UNCHANGED <<mode, parent, job, cwd, old_dir, typed, lost, exhausted>>

(* pipe() fails and nobody looks: pipe_fd keeps the numbers of the pipe
   before, or was never written and holds anything *)
PipeFails(p) ==
  /\ InShell(p, "parse")
  /\ Token(p).type = "PIPE"
  /\ Cardinality(FreeFds(p)) <= 1
  /\ \E r, w \in Fd \cup {-1} :
       /\ sh[p].pipe_fd # <<>> => <<r, w>> = sh[p].pipe_fd
       /\ sh' = [sh EXCEPT ![p] =
            [Complete(p, "PIPE") EXCEPT !.pipe_fd = <<r, w>>, !.output_fd = w]]
  /\ exhausted' = TRUE
  /\ UNCHANGED <<kernel, job, cwd, old_dir, typed, lost>>

NoCommand(p) ==
  /\ InShell(p, "command")
  /\ sh[p].argv = <<>>
  /\ sh' = [sh EXCEPT ![p] = AtPrompt]
  /\ UNCHANGED <<kernel, job, cwd, old_dir, typed, lost, exhausted>>

-------------------------------------------------------------------------------
(* run_program. *)

Runs(p, program) == InShell(p, "command") /\ sh[p].argv # <<>> /\ sh[p].argv[1] = program
Builtin == {<<"exit">>, <<"cd">>}

Exit(p) ==
  /\ Runs(p, <<"exit">>)
  /\ exit(p)
  /\ UNCHANGED <<job, buffer, cwd, old_dir, typed, lost, exhausted>>

(* where cd leads: a failing chdir leads nowhere, and with old_dir still
   unset cd - passes a buffer that was never written *)
Destinations(p) ==
  IF Len(sh[p].argv) = 1 THEN {HOME}
  ELSE IF sh[p].argv[2] = <<"-">> THEN IF old_dir[p] = NULL THEN Dir ELSE {old_dir[p]}
  ELSE IF sh[p].argv[2][1] \in Dir THEN {sh[p].argv[2][1]} ELSE {cwd[p]}

ChangeDirectory(p) ==
  /\ Runs(p, <<"cd">>)
  /\ \E d \in Destinations(p) : cwd' = [cwd EXCEPT ![p] = d]
  /\ old_dir' = IF Len(sh[p].argv) = 1 THEN old_dir ELSE [old_dir EXCEPT ![p] = cwd[p]]
  /\ sh' = [sh EXCEPT ![p].at = "ran"]
  /\ UNCHANGED <<kernel, job, typed, lost, exhausted>>

FreePids == {p \in Pid : mode[p] = "free"}
Forks(p) == InShell(p, "command") /\ sh[p].argv # <<>> /\ sh[p].argv[1] \notin Builtin
InForeground_Always(p) == TRUE
InForeground(p) == sh[p].type = "NEWLINE"

(* after fork: wait for the child, or go on *)
Started(p, child) ==
  [sh[p] EXCEPT !.at = IF InForeground(p) THEN "wait" ELSE "ran", !.child = child]

Fork(p) ==
  /\ Forks(p)
  /\ FreePids # {}
  /\ LET c == Lowest(FreePids)
     IN  /\ mode' = [mode EXCEPT ![c] = "forked"]
         /\ parent' = [parent EXCEPT ![c] = p]
         /\ fds' = [fds EXCEPT ![c] = fds[p]]
         /\ sh' = [sh EXCEPT ![p] = Started(p, c), ![c] = [sh[p] EXCEPT !.at = "ran"]]
         /\ cwd' = [cwd EXCEPT ![c] = cwd[p]]
         /\ old_dir' = [old_dir EXCEPT ![c] = old_dir[p]]
         /\ job' = [job EXCEPT ![c] = [NoJob EXCEPT !.type = sh[p].type]]
  /\ UNCHANGED <<buffer, typed, lost, exhausted>>

(* the result of fork is tested for an error only when nothing is waited for *)
ForkFails(p) ==
  /\ Forks(p)
  /\ FreePids = {}
  /\ IF InForeground(p)
       THEN sh' = [sh EXCEPT ![p] = Started(p, ANY)] /\ UNCHANGED <<mode, parent, fds>>
       ELSE exit(p)
  /\ UNCHANGED <<buffer, job, cwd, old_dir, typed, lost, exhausted>>

(* the child: search, redirection, execv; if that fails it returns from
   run_program as its parent does *)
InputTable(c) ==
  IF sh[c].input_fd = 0 THEN fds[c] ELSE dup2(fds[c], sh[c].input_fd, 0)
ChildTable(c) ==
  IF sh[c].output_fd = 1 THEN InputTable(c) ELSE dup2(InputTable(c), sh[c].output_fd, 1)

Exec(c) ==
  /\ mode[c] = "forked"
  /\ fds' = [fds EXCEPT ![c] = ChildTable(c)]
  /\ LET program == sh[c].argv[1]
     IN  IF program \in Command
           THEN /\ mode' = [mode EXCEPT ![c] = "running"]
                /\ job' = [job EXCEPT ![c].left = Job[program].left,
                                      ![c].reading = Job[program].reading]
                /\ sh' = [sh EXCEPT ![c] = AtPrompt]
                /\ UNCHANGED lost
           ELSE /\ mode' = [mode EXCEPT ![c] = "shell"]
                /\ lost' = TRUE
                /\ UNCHANGED <<job, sh>>
  /\ UNCHANGED <<parent, buffer, cwd, old_dir, typed, exhausted>>

Awaited_Any(p) == Children(p)
Awaited(p) == IF sh[p].child = ANY THEN Children(p) ELSE {sh[p].child}

Wait(p) ==
  /\ InShell(p, "wait")
  /\ \/ \E c \in Awaited(p) : mode[c] = "zombie" /\ mode' = [mode EXCEPT ![c] = "free"]
     \/ Awaited(p) = {} /\ UNCHANGED mode
  /\ sh' = [sh EXCEPT ![p].at = "ran"]
  /\ UNCHANGED <<parent, fds, buffer, job, cwd, old_dir, typed, lost, exhausted>>

(* parse_line after run_program *)
AfterPipe_NotClosed(p) == fds[p]
AfterPipe_OutputClosed(p) == close(fds[p], sh[p].output_fd)
AfterPipe(p) == IF sh[p].type = "PIPE" THEN close(fds[p], sh[p].pipe_fd[2]) ELSE fds[p]

NextCommand(p) ==
  /\ InShell(p, "ran")
  /\ fds' = [fds EXCEPT ![p] = AfterPipe(p)]
  /\ sh' = [sh EXCEPT ![p] =
       IF sh[p].type = "NEWLINE" THEN AtPrompt
       ELSE [@ EXCEPT !.at = "parse", !.argv = <<>>, !.output_fd = 1,
                      !.input_fd = IF sh[p].type = "PIPE" THEN sh[p].pipe_fd[1] ELSE 0]]
  /\ UNCHANGED <<mode, parent, buffer, job, cwd, old_dir, typed, lost, exhausted>>

-------------------------------------------------------------------------------
(* The programs: each writes some bytes, or copies its input until the end.  *)

(* it is done, or SIGPIPE ends it: nobody can read what it writes *)
Done(p) ==
  /\ mode[p] = "running"
  /\ IF job[p].left = 0 THEN ~job[p].reading
     ELSE \E k \in Pipe : fds[p][1] = WriteEnd(k) /\ Readers(k) = {}

Writing(p) == mode[p] = "running" /\ job[p].left > 0 /\ ~Done(p)

(* a write to anything but a pipe ends at once, if only by failing *)
Write(p) ==
  /\ Writing(p)
  /\ LET out == fds[p][1]
     IN  IF out.kind # "write end" THEN UNCHANGED buffer
         ELSE buffer[out.pipe] < PipeCapacity /\ buffer' = [buffer EXCEPT ![out.pipe] = @ + 1]
  /\ job' = [job EXCEPT ![p].left = @ - 1]
  /\ UNCHANGED <<mode, parent, fds, sh, cwd, old_dir, typed, lost, exhausted>>

Reading(p) == mode[p] = "running" /\ job[p].left = 0 /\ job[p].reading

Read(p) ==
  /\ Reading(p)
  /\ \E k \in Pipe :
       /\ fds[p][0] = ReadEnd(k)
       /\ buffer[k] > 0
       /\ buffer' = [buffer EXCEPT ![k] = @ - 1]
  /\ job' = [job EXCEPT ![p].left = 1]
  /\ UNCHANGED <<mode, parent, fds, sh, cwd, old_dir, typed, lost, exhausted>>

ReadEnds(p) ==
  /\ Reading(p)
  /\ EndOfFile(p)
  /\ job' = [job EXCEPT ![p].reading = FALSE]
  /\ UNCHANGED <<kernel, sh, cwd, old_dir, typed, lost, exhausted>>

ProgramEnds(p) ==
  /\ Done(p)
  /\ exit(p)
  /\ UNCHANGED <<buffer, job, cwd, old_dir, typed, lost, exhausted>>

-------------------------------------------------------------------------------
(* what p does without the user: it is scheduled and goes on *)
ShellStep(p) ==
  \/ Argument(p) \/ NoFileName(p) \/ OpenFile(p) \/ Separator(p)
  \/ MakePipe(p) \/ PipeFails(p) \/ NoCommand(p)
  \/ Exit(p) \/ ChangeDirectory(p) \/ Fork(p) \/ ForkFails(p)
  \/ Wait(p) \/ NextCommand(p)

ProgramStep(p) == Exec(p) \/ Write(p) \/ Read(p) \/ ReadEnds(p) \/ ProgramEnds(p)

Next ==
  \E p \in Pid :
    \/ \E line \in Line : FetchLine(p, line)
    \/ FetchFromPipe(p)
    \/ EndOfInput(p)
    \/ ShellStep(p)
    \/ ProgramStep(p)

Spec ==
  /\ Init /\ [][Next]_vars
  /\ \A p \in Pid : WF_vars(ShellStep(p)) /\ WF_vars(ProgramStep(p))
-------------------------------------------------------------------------------
(* Properties. *)

TypeOK ==
  /\ mode \in [Pid -> {"free", "shell", "forked", "running", "zombie"}]
  /\ parent \in [Pid -> Pid \cup {init}]
  /\ fds \in [Pid -> [Fd -> Open \cup {Closed}]]
  /\ buffer \in [Pipe -> 0 .. PipeCapacity]
  /\ cwd \in [Pid -> Dir] /\ old_dir \in [Pid -> Dir \cup {NULL}]
  /\ \A p \in Pid : mode[p] \in {"free", "zombie"} => \A f \in Fd : fds[p][f] = Closed
  /\ \A p \in Pid : sh[p].at # "prompt" => mode[p] \in {"shell", "forked"}

(* What will be, or is, the standard input and output of a child *)
Stdin(c) == IF mode[c] = "forked" THEN InputTable(c)[0] ELSE fds[c][0]
Stdout(c) == IF mode[c] = "forked" THEN ChildTable(c)[1] ELSE fds[c][1]
Programs == {c \in Pid : mode[c] \in {"forked", "running"}}

Normal == ~lost /\ ~exhausted

(* A program that reads a pipe comes to its end once those that write it have
   ended: nobody else holds the writing end, neither the shell (sh.c:318) nor
   the reader itself nor a later command, to which fork would hand it on. *)
OnlyProducersWrite ==
  Normal =>
    \A c \in Programs, k \in Pipe :
      Stdin(c) = ReadEnd(k) =>
        \A p \in Writers(k) : p \in Programs \ {c} /\ Stdout(p) = WriteEnd(k)

(* The shell's own input and output stay the terminal, whatever it opened for
   its children (sh.c:225-230 redirects in the child only). *)
ShellKeepsTerminal ==
  Normal => \A p \in Pid : mode[p] = "shell" => \A f \in 0 .. 2 : fds[p][f] = Terminal

(* When the shell asks for the next line, the command that ended a line is
   gone, and so is its entry in the process table (sh.c:233-235). *)
ForegroundReaped ==
  \A p \in Pid : InShell(p, "prompt") =>
    \A c \in Children(p) : job[c].type # "NEWLINE"

(* Every line is finished: the foreground command ends, the shell sees it and
   asks for the next line or ends (sh.c:233-235).  Only a wait for no child in
   particular, after a failed fork, need not end. *)
PromptReturns ==
  (mode[1] = "shell" /\ sh[1].at # "prompt") ~>
    (mode[1] # "shell" \/ sh[1].at = "prompt" \/ ~Normal
      \/ (sh[1].at = "wait" /\ sh[1].child = ANY))

(* A program that reads a pipe reads it to the end and goes on, because the
   shell has closed the writing end (sh.c:318). *)
ReadersEnd ==
  \A c \in Pid : (Reading(c) /\ Normal) ~> (~Reading(c) \/ ~Normal)

(* "1 for producer and 0 for consumer" (sh.c:246): once nobody can consume
   what a program writes, the program ends. *)
Unheard(p) ==
  \E k \in Pipe :
    /\ mode[p] = "running" /\ fds[p][1] = WriteEnd(k)
    /\ \A c \in Programs \ {p} : Stdin(c) # ReadEnd(k)
    /\ \A q \in Pid : mode[q] = "shell" => sh[q].at = "prompt"
ProducerEnds ==
  \A p \in Pid : (Unheard(p) /\ Normal) ~> (~Unheard(p) \/ ~Normal)
===============================================================================
