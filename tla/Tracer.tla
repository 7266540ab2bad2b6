-------------------------------- MODULE Tracer --------------------------------
(***************************************************************************)
(* The divide counter of lab4/main.c.  The tracer replaces every divw of   *)
(* the program it traces with an illegal word.  When the program stops     *)
(* there, the tracer puts the divw back, counts it, lets the program       *)
(* execute this one instruction and replaces it again.  Both processes,    *)
(* the signals the program is sent from outside and its death are actions. *)
(***************************************************************************)
EXTENDS Integers, FiniteSets, FiniteSetsExt

CONSTANTS
  Last,              \* instructions of the traced program: addresses 1 .. Last
  Kind,              \* kinds of instruction it may contain
  Operand,           \* values of the denominator register
  MAX_DENOMINATOR,   \* largest denominator with a row of its own
  MaxSteps,          \* bound: instructions the program executes
  MaxSignals         \* bound: signals sent to the program

(* "lookalike": the ten bits of the extended opcode are those of divw, as in
   a load with displacement 982, but the primary opcode is another one. *)
ASSUME KindAssumption == Kind \subseteq {"divw", "lookalike", "other"}
ASSUME BoundAssumption ==
  /\ Last \in Nat \ {0} /\ MAX_DENOMINATOR \in Nat /\ MaxSteps \in Nat /\ MaxSignals \in Nat
  /\ Operand \subseteq Int /\ IsFiniteSet(Operand)

Code == 1 .. Last
Word == Kind \cup {"zero"}

VARIABLES
  (* the traced program *)
  child,       \* running, stopped, exited, or killed by a signal
  stepping,    \* was it resumed for one instruction?
  text,        \* its code
  nip,         \* its instruction pointer
  rb,          \* its denominator register
  pending,     \* has it a signal it has not seen yet?
  sent,        \* signals sent to it
  steps,       \* instructions executed
  performed,   \* divw executed with each denominator
  (* the tracer *)
  tpc,         \* where it is
  addr,        \* address it rewrites, then the one it steps over
  table,       \* addresses of the replaced divw
  ndivw,       \* executed divw, as it counts them
  hist,        \* and with each small denominator
  over         \* what it prints for the larger ones

program == <<stepping, text, nip, rb, steps, performed>>
counts == <<ndivw, hist, over>>
vars == <<child, program, pending, sent, tpc, addr, table, counts>>

(* over is a difference; EachCounted says what it is *)
TypeOK ==
  /\ child \in {"running", "stopped", "exited", "killed"}
  /\ stepping \in BOOLEAN
  /\ text \in [Code -> Word]
  /\ nip \in Code
  /\ rb \in Operand
  /\ pending \in BOOLEAN
  /\ sent \in 0 .. MaxSignals
  /\ steps \in 0 .. MaxSteps
  /\ performed \in [Operand -> 0 .. MaxSteps]
  /\ tpc \in {"start", "rewrite", "cont", "wait", "inspect", "stepwait",
              "done", "error", "not_in_table"}
  /\ addr \in 1 .. Last + 1
  /\ table \subseteq Code
  /\ ndivw \in Nat
  /\ hist \in [0 .. MAX_DENOMINATOR -> Nat]

(* The child asked to be traced: it is stopped by its execve, or the execve
   failed and it has exited. *)
Init ==
  /\ child \in {"stopped", "exited"}
  /\ stepping = FALSE
  /\ text \in [Code -> Kind]
  /\ nip = 1
  /\ rb \in Operand
  /\ pending = FALSE
  /\ sent = 0
  /\ steps = 0
  /\ performed = [d \in Operand |-> 0]
  /\ tpc = "start"
  /\ addr = 1
  /\ table = {}
  /\ ndivw = 0
  /\ hist = [d \in 0 .. MAX_DENOMINATOR |-> 0]
  /\ over = 0

-------------------------------------------------------------------------------
(* The tracer. *)

(* Every ptrace on a child that is gone fails, and error() ends the tracer
   without a report; so does a waitpid that finds it killed, and a child that
   exited before it ran the program. *)
ChildLost_ExecOnly ==
  /\ tpc = "start"
  /\ child # "stopped"
  /\ tpc' = "error"
  /\ UNCHANGED <<child, program, pending, sent, addr, table, counts>>

ChildLost ==
  /\ tpc \notin {"done", "error", "not_in_table"}
  /\ child = "killed" \/ (child = "exited" /\ tpc = "start")
  /\ tpc' = "error"
  /\ UNCHANGED <<child, program, pending, sent, addr, table, counts>>

FoundStopped ==
  /\ tpc = "start"
  /\ child = "stopped"
  /\ tpc' = "rewrite"
  /\ UNCHANGED <<child, program, pending, sent, addr, table, counts>>

(* rewrite_instr, one round of the loop.  The word is zeroed before the
   primary opcode is looked at. *)
Zeroed(word) == word \in {"divw", "lookalike"}

RewriteInstr ==
  /\ tpc = "rewrite"
  /\ child = "stopped"
  /\ addr \in Code
  /\ text' = [text EXCEPT ![addr] = IF Zeroed(@) THEN "zero" ELSE @]
  /\ table' = IF text[addr] = "divw" THEN table \cup {addr} ELSE table
  /\ addr' = addr + 1
  /\ UNCHANGED <<child, stepping, nip, rb, steps, performed, pending, sent, tpc, counts>>

RewriteDone ==
  /\ tpc = "rewrite"
  /\ child = "stopped"
  /\ addr \notin Code
  /\ tpc' = "cont"
  /\ UNCHANGED <<child, program, pending, sent, addr, table, counts>>

(* PTRACE_CONT with signal 0: the signal that stopped the child is dropped *)
Continue ==
  /\ tpc = "cont"
  /\ child = "stopped"
  /\ child' = "running"
  /\ stepping' = FALSE
  /\ tpc' = "wait"
  /\ UNCHANGED <<text, nip, rb, steps, performed, pending, sent, addr, table, counts>>

WaitStopped ==
  /\ tpc = "wait"
  /\ child = "stopped"
  /\ tpc' = "inspect"
  /\ UNCHANGED <<child, program, pending, sent, addr, table, counts>>

(* a stop somewhere else than on a zeroed word: the child is just continued *)
OtherStop_WaitsAgain ==
  /\ tpc = "inspect"
  /\ child = "stopped"
  /\ text[nip] # "zero"
  /\ tpc' = "wait"
  /\ UNCHANGED <<child, program, pending, sent, addr, table, counts>>

OtherStop ==
  /\ tpc = "inspect"
  /\ child = "stopped"
  /\ text[nip] # "zero"
  /\ tpc' = "cont"
  /\ UNCHANGED <<child, program, pending, sent, addr, table, counts>>

(* lookup_instr calls error() *)
NotInTable ==
  /\ tpc = "inspect"
  /\ child = "stopped"
  /\ text[nip] = "zero"
  /\ nip \notin table
  /\ tpc' = "not_in_table"
  /\ UNCHANGED <<child, program, pending, sent, addr, table, counts>>

labs(x) == IF x < 0 THEN -x ELSE x

Recorded_OffByOne(h) ==
  IF labs(rb) < MAX_DENOMINATOR THEN [h EXCEPT ![labs(rb)] = @ + 1] ELSE h
Recorded(h) ==
  IF labs(rb) <= MAX_DENOMINATOR THEN [h EXCEPT ![labs(rb)] = @ + 1] ELSE h

Count == hist' = Recorded(hist) /\ ndivw' = ndivw + 1

(* put the divw back, count it, PTRACE_SINGLESTEP *)
StepOver ==
  /\ tpc = "inspect"
  /\ child = "stopped"
  /\ text[nip] = "zero"
  /\ nip \in table
  /\ text' = [text EXCEPT ![nip] = "divw"]
  /\ Count
  /\ child' = "running"
  /\ stepping' = TRUE
  /\ addr' = nip
  /\ tpc' = "stepwait"
  /\ UNCHANGED <<nip, rb, steps, performed, pending, sent, table, over>>

(* whatever the child stopped for: the status of this waitpid is not looked at *)
AfterStep_NotReplaced == "divw"
AfterStep == "zero"

StepWait ==
  /\ tpc = "stepwait"
  /\ child = "stopped"
  /\ text' = [text EXCEPT ![addr] = AfterStep]
  /\ tpc' = "cont"
  /\ UNCHANGED <<child, stepping, nip, rb, steps, performed, pending, sent,
                 addr, table, counts>>

(* the report: the last row is what the rows from 1 on leave of ndivw *)
Report ==
  /\ tpc = "wait"
  /\ child = "exited"
  /\ over' = ndivw - MapThenSumSet(LAMBDA d : hist[d], 1 .. MAX_DENOMINATOR)
  /\ tpc' = "done"
  /\ UNCHANGED <<child, program, pending, sent, addr, table, ndivw, hist>>

Tracer ==
  \/ ChildLost \/ FoundStopped \/ RewriteInstr \/ RewriteDone \/ Continue
  \/ WaitStopped \/ OtherStop \/ NotInTable \/ StepOver \/ StepWait \/ Report

-------------------------------------------------------------------------------
(* The traced program and its environment. *)

(* one instruction: any successor and any register contents; a program ends
   by a system call *)
Execute ==
  /\ child = "running"
  /\ ~pending
  /\ text[nip] # "zero"
  /\ steps < MaxSteps
  /\ steps' = steps + 1
  /\ performed' = [performed EXCEPT ![rb] = IF text[nip] = "divw" THEN @ + 1 ELSE @]
  /\ nip' \in Code
  /\ rb' \in Operand
  /\ child' \in IF stepping THEN {"stopped"}
                ELSE IF text[nip] = "other" THEN {"running", "exited"} ELSE {"running"}
  /\ UNCHANGED <<stepping, text, pending, sent, tpc, addr, table, counts>>

(* an illegal word: SIGILL, and the instruction pointer stays *)
Trap ==
  /\ child = "running"
  /\ ~pending
  /\ text[nip] = "zero"
  /\ child' = "stopped"
  /\ UNCHANGED <<program, pending, sent, tpc, addr, table, counts>>

(* a signal is seen before the next instruction, also before the one of a
   single step, and stops a traced process *)
Interrupted ==
  /\ child = "running"
  /\ pending
  /\ child' = "stopped"
  /\ pending' = FALSE
  /\ UNCHANGED <<program, sent, tpc, addr, table, counts>>

Child == Execute \/ Trap \/ Interrupted

Signal ==
  /\ child \in {"running", "stopped"}
  /\ sent < MaxSignals
  /\ sent' = sent + 1
  /\ pending' = TRUE
  /\ UNCHANGED <<child, program, tpc, addr, table, counts>>

Kill ==
  /\ child \in {"running", "stopped"}
  /\ child' = "killed"
  /\ UNCHANGED <<program, pending, sent, tpc, addr, table, counts>>

Next == Tracer \/ Child \/ Signal \/ Kill

(* Both processes are scheduled; nobody has to send a signal. *)
Spec == Init /\ [][Next]_vars /\ WF_vars(Tracer) /\ WF_vars(Child)
-------------------------------------------------------------------------------
(* Properties. *)

Executed(D) == MapThenSumSet(LAMBDA d : performed[d], D)

(* Whenever the program runs at full speed, each divw is replaced, so none
   escapes the count; while it steps over one, only that one is in place
   (main.c:199-226). *)
TrapsInPlace ==
  tpc \in {"wait", "stepwait"} =>
    \A x \in table : text[x] = "zero" \/ (stepping /\ x = addr)

(* the divw put back for a single step is counted before it is executed *)
InStep == tpc = "stepwait" /\ child = "running"

(* No divw is executed without being counted, whatever signals arrive; and
   without signals each is counted once, in the row of its denominator; the
   last row of the report has the large denominators, and zero, whose row is
   not printed (main.c:201-241). *)
EachCounted ==
  /\ Executed(Operand) <= ndivw
  /\ sent = 0 /\ child # "killed" =>
       /\ ndivw = Executed(Operand) + (IF InStep THEN 1 ELSE 0)
       /\ \A d \in 0 .. MAX_DENOMINATOR :
            hist[d] = Executed({x \in Operand : labs(x) = d})
                        + (IF InStep /\ labs(rb) = d THEN 1 ELSE 0)
       /\ tpc = "done" =>
            over = Executed({x \in Operand : x = 0 \/ labs(x) > MAX_DENOMINATOR})

(* The two processes never wait for each other: a stopped child is resumed
   unless the tracer gives up, and a child that ended is noticed
   (main.c:176-190,222). *)
AlwaysResumed == child = "stopped" ~> child # "stopped" \/ tpc = "not_in_table"
EndNoticed == child \in {"exited", "killed"} ~> tpc \in {"done", "error", "not_in_table"}
================================================================================
