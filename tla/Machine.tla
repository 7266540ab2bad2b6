------------------------------- MODULE Machine -------------------------------
(***************************************************************************)
(* The processor of lab2/machine.c on top of its paged memory: read_program *)
(* stores the encoded lines of a program, run fetches, decodes and executes *)
(* them.  Every access of either is one action of Paging.  The widths of a  *)
(* word and of its fields are constants, so that small ones can be checked. *)
(***************************************************************************)
EXTENDS Paging, Sequences

CONSTANTS
  NPAGES,    \* virtual pages
  NREG,      \* registers
  IMM,       \* values of an instruction's constant
  WORD,      \* values of a word
  Program,   \* programs: sequences of lines, each with op, dest, s1 and s2
  Garbage    \* what registers may hold before the program writes them

ASSUME MachineAssumption ==
  /\ NPAGES \in Nat /\ VPage = 0 .. NPAGES - 1
  /\ NREG \in Nat \ {0} /\ IMM \in Nat \ {0}
  /\ WORD \in Nat \ {0} /\ Word = 0 .. WORD - 1
  /\ Garbage \subseteq Word
  /\ \A p \in Program : p \in Seq([op : STRING, dest : Int, s1 : Int, s2 : Int]) /\ p # <<>>

VARIABLES
  program,   \* the file that is run
  loaded,    \* lines of it that read_program has stored
  pc,
  reg,
  status     \* what the machine does next, or why it has stopped

cpu == <<program, loaded, pc, reg, status>>

Reg == 0 .. NREG - 1

MachineTypeOK ==
  /\ program \in Program
  /\ loaded \in 0 .. Len(program)
  /\ pc \in Word
  /\ reg \in [Reg -> Word]
  /\ reg[0] = 0
  /\ status \in {"load", "fetch", "execute", "halted", "error", "wild"}
  /\ status = "load" => loaded < Len(program)

(* run does not initialise the registers, except the first *)
MachineInit ==
  /\ Init
  /\ program \in Program
  /\ loaded = 0
  /\ pc = 0
  /\ reg \in {[r \in Reg |-> IF r = 0 THEN 0 ELSE g[r]] : g \in [Reg \ {0} -> Garbage]}
  /\ status = "load"

-------------------------------------------------------------------------------
(* Encoding and decoding. *)

mnemonics ==
  <<"add", "addi", "sub", "subi", "sge", "sgt", "seq", "bt", "bf", "ba", "st",
    "ld", "call", "jmp", "mul", "seqi", "halt">>

Known(text) == \E i \in DOMAIN mnemonics : mnemonics[i] = text

opcode(text) == (CHOOSE i \in DOMAIN mnemonics : mnemonics[i] = text) - 1

make_instr(line) ==
  (((opcode(line.op) * NREG + line.dest) * NREG + line.s1) * IMM + (line.s2 % IMM)) % WORD

(* data holds the word fetched last, which is the instruction executed *)
extract_dest == (data \div (NREG * IMM)) % NREG
extract_source1 == (data \div IMM) % NREG

(* the cast to short extends the sign *)
Extended_Unsigned(c) == c
Extended(c) == IF 2 * c < IMM THEN c ELSE c - IMM
extract_constant == Extended(data % IMM)

Op ==
  LET i == (data \div (NREG * NREG * IMM)) + 1
  IN  IF i \in DOMAIN mnemonics THEN mnemonics[i] ELSE "illegal"

(* registers are unsigned, the operands signed *)
Signed(w) == IF 2 * w < WORD THEN w ELSE w - WORD

source1 == Signed(reg[extract_source1])
source2 == Signed(reg[extract_constant % NREG])

Flag(b) == IF b THEN 1 ELSE 0

(* instructions that only compute; sums and products wrap around *)
Result ==
  CASE Op = "add"  -> source1 + source2
    [] Op = "addi" -> source1 + extract_constant
    [] Op = "sub"  -> source1 - source2
    [] Op = "subi" -> source1 - extract_constant
    [] Op = "mul"  -> source1 * source2
    [] Op = "sge"  -> Flag(source1 >= source2)
    [] Op = "sgt"  -> Flag(source1 > source2)
    [] Op = "seq"  -> Flag(source1 = source2)
    [] Op = "seqi" -> Flag(source1 = extract_constant)

Computing == {"add", "addi", "sub", "subi", "mul", "sge", "sgt", "seq", "seqi"}

Taken ==
  CASE Op = "bt" -> source1 # 0
    [] Op = "bf" -> source1 = 0
    [] Op = "ba" -> TRUE
    [] Op = "jmp" -> TRUE

Target == IF Op = "jmp" THEN source1 ELSE extract_constant

-------------------------------------------------------------------------------
(* Memory accesses. *)

PageOf(a) == a \div PAGESIZE
OffsetOf(a) == a % PAGESIZE

Address == (source1 + extract_constant) % WORD

(* the address the machine accesses next, when it does *)
NextAddress ==
  CASE status = "load" -> loaded
    [] status = "fetch" -> pc
    [] status = "execute" -> Address

Accessing ==
  \/ status = "load" /\ Known(program[loaded + 1].op)
  \/ status = "fetch"
  \/ status = "execute" /\ Op \in {"ld", "st"}

Read(a) == PageOf(a) \in VPage /\ ReadMemory(PageOf(a), OffsetOf(a))
Write(a, w) == PageOf(a) \in VPage /\ WriteMemory(PageOf(a), OffsetOf(a), w)

SetReg(r, w) == IF r = 0 THEN reg ELSE [reg EXCEPT ![r] = w]

Continue(target) ==
  /\ pc' = target % WORD
  /\ status' = "fetch"

(* read_program, for one line *)
LoadLine ==
  /\ status = "load" /\ Known(program[loaded + 1].op)
  /\ Write(loaded, make_instr(program[loaded + 1]))
  /\ loaded' = loaded + 1
  /\ status' = IF loaded + 1 = Len(program) THEN "fetch" ELSE "load"
  /\ UNCHANGED <<program, pc, reg>>

SyntaxError ==
  /\ status = "load" /\ ~Known(program[loaded + 1].op)
  /\ status' = "error"
  /\ UNCHANGED <<program, loaded, pc, reg, vars>>

Fetch ==
  /\ status = "fetch"
  /\ Read(pc)
  /\ status' = "execute"
  /\ UNCHANGED <<program, loaded, pc, reg>>

Compute ==
  /\ status = "execute" /\ Op \in Computing
  /\ reg' = SetReg(extract_dest, Result % WORD)
  /\ Continue(pc + 1)
  /\ UNCHANGED <<program, loaded, vars>>

Branch ==
  /\ status = "execute" /\ Op \in {"bt", "bf", "ba", "jmp"}
  /\ Continue(IF Taken THEN Target ELSE pc + 1)
  /\ UNCHANGED <<program, loaded, reg, vars>>

(* the return address is in the last register *)
Call ==
  /\ status = "execute" /\ Op = "call"
  /\ reg' = SetReg(NREG - 1, (pc + 1) % WORD)
  /\ Continue(extract_constant)
  /\ UNCHANGED <<program, loaded, vars>>

LoadWord ==
  /\ status = "execute" /\ Op = "ld"
  /\ Read(Address)
  /\ reg' = SetReg(extract_dest, data')
  /\ Continue(pc + 1)
  /\ UNCHANGED <<program, loaded>>

StoreWord ==
  /\ status = "execute" /\ Op = "st"
  /\ Write(Address, reg[extract_dest])
  /\ Continue(pc + 1)
  /\ UNCHANGED <<program, loaded, reg>>

AfterHalt_Proceeds == "fetch"
AfterHalt == "halted"

Stop ==
  /\ status = "execute" /\ Op \in {"halt", "illegal"}
  /\ status' = IF Op = "halt" THEN AfterHalt ELSE "error"
  /\ UNCHANGED <<program, loaded, pc, reg, vars>>

(* translate does not compare the page with NPAGES: what happens then is
   undefined and not followed *)
WildAccess ==
  /\ Accessing /\ PageOf(NextAddress) \notin VPage
  /\ status' = "wild"
  /\ UNCHANGED <<program, loaded, pc, reg, vars>>

Abort ==
  /\ Accessing /\ PageOf(NextAddress) \in VPage
  /\ SwapExhausted(PageOf(NextAddress))
  /\ UNCHANGED cpu

MachineNext ==
  \/ LoadLine \/ SyntaxError \/ Fetch
  \/ Compute \/ Branch \/ Call \/ LoadWord \/ StoreWord \/ Stop
  \/ WildAccess \/ Abort

(* One process runs the machine, so it takes its next step. *)
MachineSpec ==
  MachineInit /\ [][MachineNext]_<<cpu, vars>> /\ WF_<<cpu, vars>>(MachineNext)
-------------------------------------------------------------------------------
(* Properties. *)

(* The instruction executed is, field by field, the line of the file that pc
   points to, whatever was paged out and in since read_program encoded it
   (machine.c:76-86,278,321-327).  It is not said of a program that stores over
   its own lines. *)
RunsProgram ==
  status = "execute" /\ pc < Len(program) =>
    LET line == program[pc + 1]
    IN  /\ Op = line.op
        /\ extract_dest = line.dest
        /\ extract_source1 = line.s1
        /\ extract_constant = line.s2

(* The machine stops, by halt or by an error, for programs that end: fac.s
   returns through every address it saved in paged memory (machine.c:318-443). *)
Ends == <>(aborted \/ status \in {"halted", "error", "wild"})
================================================================================
