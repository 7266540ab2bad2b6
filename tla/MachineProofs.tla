----------------------------- MODULE MachineProofs -----------------------------
(***************************************************************************)
(* Proofs about Machine, for every program, number of registers, width of  *)
(* the fields and size of the memory: what is proved of Paging holds under *)
(* the processor.  Then about the programs of MCMachine, for every machine *)
(* that has room for them: what they compute.                              *)
(***************************************************************************)
EXTENDS MCMachine, PagingProofs

-------------------------------------------------------------------------------
(* Lemmas about the operators. *)

(* Unsigned arithmetic stays in a word. *)
LEMMA WrapsToWord ==
  ASSUME NEW n \in Int
  PROVE  n % WORD \in Word
  BY MachineAssumption

(* An address splits into a page and an offset within it. *)
LEMMA OffsetTyped ==
  ASSUME NEW a \in Int
  PROVE  OffsetOf(a) \in Offset
  BY SizeAssumption DEF OffsetOf, Offset

(* A mnemonic has a number. *)
LEMMA OpcodeTyped ==
  ASSUME NEW text, Known(text)
  PROVE  opcode(text) \in Int
<1>1. DOMAIN mnemonics = 1 .. 17
  BY DEF mnemonics
<1>2. PICK i \in DOMAIN mnemonics : mnemonics[i] = text
  BY DEF Known
<1>3. (CHOOSE j \in DOMAIN mnemonics : mnemonics[j] = text) \in DOMAIN mnemonics
  BY <1>2
<1> DEFINE j == CHOOSE j \in DOMAIN mnemonics : mnemonics[j] = text
<1>4. j \in 1 .. 17
  BY <1>1, <1>3
<1>5. opcode(text) = j - 1
  BY DEF opcode
<1> HIDE DEF j
<1>6. QED
  BY <1>4, <1>5

(* Every line that read_program accepts is encoded in a word. *)
LEMMA InstrTyped ==
  ASSUME MachineTypeOK, status = "load", Known(program[loaded + 1].op)
  PROVE  make_instr(program[loaded + 1]) \in Word
<1> DEFINE line == program[loaded + 1]
<1>1. line \in [op : STRING, dest : Int, s1 : Int, s2 : Int]
  <2> DEFINE Line == [op : STRING, dest : Int, s1 : Int, s2 : Int]
  <2>1. program \in Seq(Line)
    BY MachineAssumption DEF MachineTypeOK
  <2>2. loaded + 1 \in 1 .. Len(program)
    BY <2>1 DEF MachineTypeOK
  <2> HIDE DEF Line
  <2>3. program[loaded + 1] \in Line
    BY <2>1, <2>2
  <2>4. QED
    BY <2>3 DEF Line
<1> DEFINE code == opcode(line.op)
<1>2. code \in Int
  BY OpcodeTyped
<1>3. line.dest \in Int /\ line.s1 \in Int /\ line.s2 % IMM \in Int
  BY <1>1, MachineAssumption
<1> HIDE DEF code, line
<1>4. (code * NREG) + line.dest \in Int
  BY <1>2, <1>3, MachineAssumption
<1>5. (((code * NREG) + line.dest) * NREG) + line.s1 \in Int
  BY <1>3, <1>4, MachineAssumption
<1>6. (((((code * NREG) + line.dest) * NREG) + line.s1) * IMM) + (line.s2 % IMM) \in Int
  BY <1>3, <1>5, MachineAssumption
<1>7. QED
  BY <1>6, WrapsToWord DEF make_instr, code, line

(* The fields of any word name registers and signed constants. *)
LEMMA FieldsTyped ==
  ASSUME TypeOK, MachineTypeOK
  PROVE  /\ extract_dest \in Reg
         /\ extract_constant \in Int
         /\ source1 \in Int
         /\ source2 \in Int
<1>1. data \in Int /\ NREG * IMM \in Nat \ {0}
  BY MachineAssumption DEF TypeOK
<1> DEFINE d == data \div (NREG * IMM)  s == data \div IMM
<1>2. d \in Int /\ s \in Int
  <2> HIDE MachineAssumption
  <2>1. NREG * IMM \in Nat /\ NREG * IMM > 0
    BY <1>1
  <2> DEFINE m == NREG * IMM
  <2>2. m \in Nat /\ m > 0
    BY <2>1
  <2> HIDE DEF m
  <2>3. data \div m \in Int
    BY <1>1, <2>2
  <2>4. s \in Int
    BY <1>1, MachineAssumption
  <2>5. QED
    BY <2>3, <2>4 DEF m
<1> HIDE DEF d, s
<1>3. d % NREG \in Reg /\ s % NREG \in Reg
  BY <1>2, MachineAssumption DEF Reg
<1>4. extract_dest \in Reg /\ extract_source1 \in Reg
  BY <1>3 DEF extract_dest, extract_source1, d, s
<1>5. data % IMM \in Int
  BY <1>1, MachineAssumption
<1>6. extract_constant \in Int
  BY <1>5, MachineAssumption DEF extract_constant, Extended
<1>7. extract_constant % NREG \in Reg
  BY <1>6, MachineAssumption DEF Reg
<1>8. \A w \in Word : Signed(w) \in Int
  BY MachineAssumption DEF Signed
<1>9. QED
  BY <1>4, <1>6, <1>7, <1>8 DEF source1, source2, MachineTypeOK

(* What an instruction computes is an integer. *)
LEMMA ResultTyped ==
  ASSUME TypeOK, MachineTypeOK, Op \in Computing
  PROVE  Result \in Int
<1> DEFINE a == source1  b == source2  c == extract_constant
<1>1. a \in Int /\ b \in Int /\ c \in Int
  BY FieldsTyped
<1>2. Result \in {a + b, a + c, a - b, a - c, a * b,
                  Flag(a >= b), Flag(a > b), Flag(a = b), Flag(a = c)}
  BY DEF Result, Computing
<1> HIDE DEF a, b, c
<1>3. a + b \in Int /\ a + c \in Int /\ a - b \in Int /\ a - c \in Int /\ a * b \in Int
  BY <1>1
<1>4. /\ Flag(a >= b) \in Int /\ Flag(a > b) \in Int
      /\ Flag(a = b) \in Int /\ Flag(a = c) \in Int
  BY DEF Flag
<1>5. QED
  BY <1>2, <1>3, <1>4

(* Writing a register changes no other, and never the first. *)
LEMMA RegistersTyped ==
  ASSUME MachineTypeOK, NEW r \in Reg, NEW w \in Word
  PROVE  SetReg(r, w) \in [Reg -> Word] /\ SetReg(r, w)[0] = 0
  BY DEF MachineTypeOK, SetReg

(* Jumps go to a word too. *)
LEMMA TargetTyped ==
  ASSUME TypeOK, MachineTypeOK
  PROVE  /\ (pc + 1) % WORD \in Word
         /\ Target % WORD \in Word
         /\ extract_constant % WORD \in Word
         /\ Address \in Word
<1>1. pc + 1 \in Int
  BY MachineAssumption DEF MachineTypeOK
<1>2. extract_constant \in Int /\ source1 \in Int
  BY FieldsTyped
<1>3. Target \in Int /\ source1 + extract_constant \in Int
  BY <1>2 DEF Target
<1>4. QED
  BY <1>1, <1>2, <1>3, WrapsToWord DEF Address

-------------------------------------------------------------------------------
(* Every step of the machine is a step of its memory or leaves it alone. *)

LEMMA ReadIsPaging ==
  ASSUME NEW a \in Int, Read(a)
  PROVE  Next
  BY OffsetTyped DEF Read, Next

LEMMA WriteIsPaging ==
  ASSUME NEW a \in Int, NEW w \in Word, Write(a, w)
  PROVE  Next
  BY OffsetTyped DEF Write, Next

LEMMA MachineStepIsPaging ==
  ASSUME TypeOK, MachineTypeOK, [MachineNext]_<<cpu, vars>>
  PROVE  [Next]_vars
<1>1. pc \in Int /\ loaded \in Int /\ Address \in Int
  BY TargetTyped, MachineAssumption DEF MachineTypeOK
<1>2. CASE LoadLine
  BY <1>1, <1>2, InstrTyped, WriteIsPaging DEF LoadLine
<1>3. CASE Fetch
  BY <1>1, <1>3, ReadIsPaging DEF Fetch
<1>4. CASE LoadWord
  BY <1>1, <1>4, ReadIsPaging DEF LoadWord
<1>5. CASE StoreWord
  <2>1. reg[extract_dest] \in Word
    BY FieldsTyped DEF MachineTypeOK
  <2>2. QED
    BY <1>1, <1>5, <2>1, WriteIsPaging DEF StoreWord
<1>6. CASE Abort
  BY <1>6 DEF Abort, Next
<1>7. CASE SyntaxError \/ Compute \/ Branch \/ Call \/ Stop \/ WildAccess
  BY <1>7 DEF SyntaxError, Compute, Branch, Call, Stop, WildAccess, vars, stats
<1>8. CASE UNCHANGED <<cpu, vars>>
  BY <1>8
<1>9. QED
  BY <1>2, <1>3, <1>4, <1>5, <1>6, <1>7, <1>8 DEF MachineNext

-------------------------------------------------------------------------------
(* The invariant of the machine, on top of the one of its memory. *)

MInv == IInv /\ MachineTypeOK

LEMMA MachineInitInvariant == MachineInit => MInv
<1> SUFFICES ASSUME MachineInit
             PROVE  MInv
  OBVIOUS
<1>1. IInv
  BY InitInvariant DEF MachineInit
<1>2. program \in Program /\ Len(program) \in Nat \ {0}
  BY MachineAssumption DEF MachineInit
<1>3. PICK g \in [Reg \ {0} -> Garbage] : reg = [r \in Reg |-> IF r = 0 THEN 0 ELSE g[r]]
  BY DEF MachineInit
<1>4. 0 \in Reg /\ 0 \in Word
  BY MachineAssumption DEF Reg
<1>5. reg \in [Reg -> Word] /\ reg[0] = 0
  BY <1>3, <1>4, MachineAssumption
<1>6. QED
  BY <1>1, <1>2, <1>4, <1>5 DEF MachineInit, MInv, MachineTypeOK

LEMMA MachineStepTyped ==
  ASSUME TypeOK, TypeOK', MachineTypeOK, MachineNext
  PROVE  MachineTypeOK'
<1> USE DEF MachineTypeOK
<1>1. CASE LoadLine
  BY <1>1, MachineAssumption DEF LoadLine
<1>2. CASE SyntaxError \/ Fetch \/ Stop \/ WildAccess
  BY <1>2 DEF SyntaxError, Fetch, Stop, AfterHalt, WildAccess
<1>3. CASE Compute
  <2>1. reg' \in [Reg -> Word] /\ reg'[0] = 0
    BY <1>3, FieldsTyped, ResultTyped, WrapsToWord, RegistersTyped DEF Compute
  <2>2. QED
    BY <1>3, <2>1, TargetTyped DEF Compute, Continue
<1>4. CASE Branch
  BY <1>4, TargetTyped DEF Branch, Continue
<1>5. CASE Call
  <2>1. NREG - 1 \in Reg
    BY MachineAssumption DEF Reg
  <2>2. reg' \in [Reg -> Word] /\ reg'[0] = 0
    BY <1>5, <2>1, TargetTyped, RegistersTyped DEF Call
  <2>3. QED
    BY <1>5, <2>2, TargetTyped DEF Call, Continue
<1>6. CASE LoadWord
  <2>1. reg' \in [Reg -> Word] /\ reg'[0] = 0
    BY <1>6, FieldsTyped, RegistersTyped DEF LoadWord, TypeOK
  <2>2. QED
    BY <1>6, <2>1, TargetTyped DEF LoadWord, Continue
<1>7. CASE StoreWord
  BY <1>7, TargetTyped DEF StoreWord, Continue
<1>8. CASE Abort
  BY <1>8 DEF Abort, cpu
<1>9. QED
  BY <1>1, <1>2, <1>3, <1>4, <1>5, <1>6, <1>7, <1>8 DEF MachineNext

LEMMA MachineStepInvariant == MInv /\ [MachineNext]_<<cpu, vars>> => MInv' /\ [Next]_vars
<1> SUFFICES ASSUME MInv, [MachineNext]_<<cpu, vars>>
             PROVE  MInv' /\ [Next]_vars
  OBVIOUS
<1>1. TypeOK /\ MachineTypeOK /\ IInv
  BY DEF MInv, IInv
<1>2. [Next]_vars
  BY <1>1, MachineStepIsPaging
<1>3. IInv' /\ TypeOK'
  BY <1>1, <1>2, StepInvariant DEF IInv
<1>4. MachineTypeOK'
  <2>1. CASE UNCHANGED <<cpu, vars>>
    BY <1>1, <2>1 DEF cpu, MachineTypeOK
  <2>2. QED
    BY <1>1, <1>3, <2>1, MachineStepTyped
<1>5. QED
  BY <1>2, <1>3, <1>4 DEF MInv

THEOREM MachineInvariant == MachineSpec => []MInv
  BY MachineInitInvariant, MachineStepInvariant, PTL DEF MachineSpec

(* Registers, program counter and lines stay within their ranges, and no
   instruction writes the first register (machine.c:449). *)
THEOREM MachineTypeCorrect == MachineSpec => []MachineTypeOK
<1>1. MInv => MachineTypeOK
  BY DEF MInv
<1>2. QED
  BY <1>1, MachineInvariant, PTL

(* Whatever program the machine runs, it uses its memory as Paging says, so
   everything proved of Paging holds while it runs. *)
THEOREM MachineUsesPaging == MachineSpec => Spec
<1>1. MachineInit => Init
  BY DEF MachineInit
<1>2. QED
  BY <1>1, MachineInitInvariant, MachineStepInvariant, PTL DEF MachineSpec, Spec

(* Every program sees a flat memory: fetches, loads and stores behave as if
   nothing was ever paged out (machine.c:278,321,412,419). *)
THEOREM ProgramsSeeMemory == MachineSpec => PagesAreMemory
  BY MachineUsesPaging, PagedIsFlat, PTL

-------------------------------------------------------------------------------
(* What the machine executes is its program. *)

(* Division undoes the packing of a field. *)
LEMMA Unpacked ==
  ASSUME NEW m \in Nat \ {0}, NEW q \in Nat, NEW r \in 0 .. m - 1
  PROVE  ((q * m) + r) \div m = q /\ ((q * m) + r) % m = r
<1> DEFINE x == (q * m) + r
<1>1. x \in Nat /\ m \in Nat /\ m > 0 /\ r \in Nat /\ r < m
  OBVIOUS
<1>2. x = (m * (x \div m)) + (x % m) /\ x \div m \in Int /\ x % m \in 0 .. m - 1
  <2> HIDE DEF x
  <2> QED BY <1>1
<1> DEFINE d == x \div m  e == x % m
<1>3. (q * m) + r = (m * d) + e /\ d \in Int /\ e \in 0 .. m - 1
  BY <1>2
<1> HIDE DEF x, d, e
<1>4. m * (q - d) = e - r
  BY <1>1, <1>3
<1>5. e - r < m /\ r - e < m
  BY <1>1, <1>3
<1>6. q - d = 0
  <2> DEFINE k == q - d
  <2>1. k \in Int /\ m * k = e - r
    BY <1>3, <1>4
  <2> HIDE DEF k
  <2>2. ~(k >= 1)
    BY <1>1, <1>3, <1>5, <2>1
  <2>3. ~(k <= -1)
    BY <1>1, <1>3, <1>5, <2>1
  <2>4. k = 0
    BY <2>1, <2>2, <2>3
  <2>5. QED
    BY <2>4 DEF k
<1>7. q = d /\ e = r
  BY <1>1, <1>3, <1>4, <1>6
<1>8. QED
  BY <1>7 DEF x, d, e

(* Lines whose registers and constants fit in their fields, and a word wide
   enough for every mnemonic. *)
Fits(line) ==
  /\ line.dest \in Reg /\ line.s1 \in Reg
  /\ line.s2 \in Int /\ -IMM <= 2 * line.s2 /\ 2 * line.s2 < IMM
Encodable ==
  /\ \A p \in Program : \A i \in 1 .. Len(p) : Fits(p[i])
  /\ Len(mnemonics) * (NREG * (NREG * IMM)) <= WORD

(* the instruction that the word d stands for, as Op and the extracts read it *)
Decodes(line) ==
  Op = line.op /\ extract_dest = line.dest /\ extract_source1 = line.s1
    /\ extract_constant = line.s2

(* The cast to short restores the sign of a constant that fits. *)
LEMMA ConstantRestored ==
  ASSUME NEW imm \in Int, -IMM <= 2 * imm, 2 * imm < IMM
  PROVE  imm % IMM \in 0 .. IMM - 1 /\ Extended(imm % IMM) = imm
<1>1. IMM \in Nat /\ IMM > 0
  BY MachineAssumption
<1>2. CASE imm >= 0
  <2>1. imm % IMM = imm
    BY <1>1, <1>2
  <2>2. QED
    BY <1>1, <1>2, <2>1 DEF Extended
<1>3. CASE imm < 0
  <2>1. imm % IMM = imm + IMM
    BY <1>1, <1>3
  <2>2. QED
    BY <1>1, <1>3, <2>1 DEF Extended
<1>4. QED
  BY <1>2, <1>3

(* Decoding returns the line that was encoded. *)
LEMMA DecodeInverts ==
  ASSUME NEW line, Fits(line), Known(line.op),
         Len(mnemonics) * (NREG * (NREG * IMM)) <= WORD,
         data = make_instr(line)
  PROVE  Decodes(line)
<1> DEFINE code == opcode(line.op)  c == line.s2 % IMM
           dest == line.dest  s1 == line.s1  imm == line.s2
           regs == (code * NREG) + dest
           word == (((regs * NREG) + s1) * IMM) + c
<1>1. NREG \in Nat \ {0} /\ IMM \in Nat \ {0} /\ WORD \in Nat \ {0}
  BY MachineAssumption
<1>2. DOMAIN mnemonics = 1 .. 17 /\ Len(mnemonics) = 17
  BY DEF mnemonics
<1>3. code + 1 \in 1 .. 17 /\ code \in 0 .. 16 /\ mnemonics[code + 1] = line.op
  <2> DEFINE j == CHOOSE i \in DOMAIN mnemonics : mnemonics[i] = line.op
  <2>1. PICK i \in DOMAIN mnemonics : mnemonics[i] = line.op
    BY DEF Known
  <2>2. j \in DOMAIN mnemonics /\ mnemonics[j] = line.op
    BY <2>1
  <2>3. code = j - 1
    BY DEF opcode
  <2> HIDE DEF j
  <2>4. j \in 1 .. 17 /\ code + 1 = j
    BY <1>2, <2>2, <2>3
  <2>5. QED
    BY <2>2, <2>3, <2>4
<1>4. dest \in 0 .. NREG - 1 /\ s1 \in 0 .. NREG - 1 /\ imm \in Int
      /\ -IMM <= 2 * imm /\ 2 * imm < IMM
  BY DEF Fits, Reg
<1>5. c \in 0 .. IMM - 1 /\ Extended(c) = imm
  BY <1>4, ConstantRestored
<1>6. data = word % WORD
  BY DEF make_instr
<1> HIDE DEF code, c, dest, s1, imm
<1> DEFINE upper == (regs * NREG) + s1
<1>7. regs \in Nat /\ regs + 1 <= 17 * NREG
  <2>1. code * NREG \in Nat /\ code * NREG <= 16 * NREG
    BY <1>1, <1>3
  <2>2. QED
    BY <1>1, <1>4, <2>1
<1> HIDE DEF regs
<1>8. upper \in Nat /\ upper + 1 <= 17 * (NREG * NREG)
  <2>1. regs * NREG \in Nat /\ (regs + 1) * NREG <= (17 * NREG) * NREG
    BY <1>1, <1>7
  <2>2. (regs + 1) * NREG = (regs * NREG) + NREG /\ (17 * NREG) * NREG = 17 * (NREG * NREG)
    BY <1>1, <1>7
  <2>3. NREG * NREG \in Nat
    BY <1>1
  <2>4. QED
    BY <1>1, <1>4, <2>1, <2>2, <2>3
<1>9. word = (upper * IMM) + c
  OBVIOUS
<1> HIDE DEF upper, word
<1>10. word \in Nat /\ word < WORD
  <2> DEFINE squared == NREG * NREG
  <2>1. squared \in Nat /\ NREG * (NREG * IMM) = squared * IMM
    BY <1>1
  <2>2. 17 * (squared * IMM) <= WORD
    BY <1>2, <2>1
  <2>3. upper + 1 <= 17 * squared
    BY <1>8
  <2> HIDE DEF squared
  <2>4. (upper + 1) * IMM <= (17 * squared) * IMM
    BY <1>1, <1>8, <2>1, <2>3
  <2>5. (upper + 1) * IMM = (upper * IMM) + IMM /\ (17 * squared) * IMM = 17 * (squared * IMM)
    BY <1>1, <1>8, <2>1
  <2>6. upper * IMM \in Nat /\ squared * IMM \in Nat
    BY <1>1, <1>8, <2>1
  <2>7. QED
    BY <1>1, <1>5, <1>9, <2>2, <2>4, <2>5, <2>6
<1>11. data = word
  BY <1>1, <1>6, <1>10
<1>12. data \div IMM = upper /\ data % IMM = c
  BY <1>1, <1>5, <1>8, <1>9, <1>11, Unpacked
<1>13. upper % NREG = s1
  <2>1. ((regs * NREG) + s1) % NREG = s1
    BY <1>1, <1>4, <1>7, Unpacked
  <2>2. QED
    BY <2>1 DEF upper
<1>14. data \div (NREG * IMM) = regs
  <2> DEFINE m == NREG * IMM  low == (s1 * IMM) + c
  <2>1. m \in Nat \ {0}
    BY <1>1
  <2>2. low \in 0 .. m - 1
    <3>1. s1 * IMM \in Nat /\ (s1 + 1) * IMM <= NREG * IMM
      BY <1>1, <1>4
    <3>2. (s1 + 1) * IMM = (s1 * IMM) + IMM
      BY <1>1, <1>4
    <3>3. QED
      BY <1>1, <1>5, <2>1, <3>1, <3>2
  <2>3. data = (regs * m) + low
    <3>1. upper * IMM = (regs * (NREG * IMM)) + (s1 * IMM)
      BY <1>1, <1>4, <1>7 DEF upper
    <3>2. regs * (NREG * IMM) \in Nat /\ s1 * IMM \in Nat
      BY <1>1, <1>4, <1>7
    <3>3. QED
      BY <1>5, <1>9, <1>11, <3>1, <3>2
  <2> HIDE DEF m, low
  <2>4. data \div m = regs
    BY <1>7, <2>1, <2>2, <2>3, Unpacked
  <2>5. QED
    BY <2>4 DEF m
<1>15. regs % NREG = dest
  <2>1. code \in Nat /\ regs = (code * NREG) + dest
    BY <1>3 DEF regs
  <2>2. ((code * NREG) + dest) % NREG = dest
    BY <1>1, <1>4, <2>1, Unpacked
  <2>3. QED
    BY <2>1, <2>2
<1>16. data \div (NREG * NREG * IMM) = code
  <2> DEFINE m == NREG * NREG * IMM  low == (dest * (NREG * IMM)) + ((s1 * IMM) + c)
  <2>1. m \in Nat \ {0} /\ m = NREG * (NREG * IMM)
    BY <1>1
  <2> DEFINE half == NREG * IMM  small == (s1 * IMM) + c
  <2>2. half \in Nat
    BY <1>1
  <2>3. small \in 0 .. half - 1
    <3>1. s1 * IMM \in Nat /\ (s1 + 1) * IMM <= NREG * IMM
      BY <1>1, <1>4
    <3>2. (s1 + 1) * IMM = (s1 * IMM) + IMM
      BY <1>1, <1>4
    <3>3. QED
      BY <1>1, <1>5, <2>2, <3>1, <3>2
  <2>4. word = (code * m) + low
    <3>1. upper * IMM = (regs * (NREG * IMM)) + (s1 * IMM)
      BY <1>1, <1>4, <1>7 DEF upper
    <3>2. regs * (NREG * IMM) = (code * (NREG * (NREG * IMM))) + (dest * (NREG * IMM))
      BY <1>1, <1>3, <1>4 DEF regs
    <3>3. /\ code * (NREG * (NREG * IMM)) \in Int /\ dest * (NREG * IMM) \in Int
          /\ s1 * IMM \in Int /\ c \in Int
      BY <1>1, <1>3, <1>4, <1>5
    <3>4. QED
      BY <1>9, <2>1, <3>1, <3>2, <3>3
  <2>5. low \in 0 .. m - 1
    <3>1. low = (dest * half) + small /\ m = NREG * half
      BY <2>1
    <3> HIDE DEF half, small, low, m
    <3>2. dest * half \in Nat /\ (dest + 1) * half <= NREG * half
      BY <1>1, <1>4, <2>2
    <3>3. (dest + 1) * half = (dest * half) + half
      BY <1>1, <1>4, <2>2
    <3>4. QED
      BY <1>1, <2>2, <2>3, <3>1, <3>2, <3>3
  <2> HIDE DEF m, low
  <2>6. word \div m = code
    <3>1. code \in Nat /\ m \in Nat \ {0}
      BY <1>3, <2>1
    <3>2. ((code * m) + low) \div m = code
      BY <2>5, <3>1, Unpacked
    <3>3. QED
      BY <2>4, <3>2
  <2>7. QED
    BY <1>11, <2>6 DEF m
<1>17. Op = line.op
  BY <1>2, <1>3, <1>16 DEF Op
<1>18. extract_dest = dest /\ extract_source1 = s1 /\ extract_constant = imm
  BY <1>5, <1>12, <1>13, <1>14, <1>15 DEF extract_dest, extract_source1, extract_constant
<1>19. QED
  BY <1>17, <1>18 DEF Decodes, dest, s1, imm

(* the word at address a, and whether it has been accessed yet *)
WordAt(a) == StoreOf(PageOf(a))[OffsetOf(a)]
Used(a) == PageOf(a) \in VPage /\ StoreOf(PageOf(a)) # NULL

(* Page and offset tell addresses apart. *)
LEMMA AddressesDiffer ==
  ASSUME NEW a \in Nat, NEW b \in Nat, PageOf(a) = PageOf(b), OffsetOf(a) = OffsetOf(b)
  PROVE  a = b
<1>1. PAGESIZE \in Nat /\ PAGESIZE > 0
  BY SizeAssumption
<1>2. \A n \in Nat : n = (PAGESIZE * (n \div PAGESIZE)) + (n % PAGESIZE)
  BY <1>1
<1>3. QED
  BY <1>2 DEF PageOf, OffsetOf

(* An access leaves every word as it is, except the one it stores. *)
LEMMA ReadKeepsWords ==
  ASSUME IInv, NEW a \in Nat, Read(a)
  PROVE  /\ \A b \in Nat : Used(b) => Used(b)' /\ WordAt(b)' = WordAt(b)
         /\ Used(a) => data' = WordAt(a)
<1> DEFINE v == PageOf(a)  o == OffsetOf(a)
<1>1. v \in VPage /\ o \in Offset /\ ReadMemory(v, o)
  BY OffsetTyped DEF Read
<1>2. /\ Translate(v, FALSE)
      /\ memory' = [memory EXCEPT ![FrameOf(v)] = Contents(v)]
      /\ data' = Contents(v)[o]
  BY <1>1 DEF ReadMemory
<1> HIDE DEF v, o
<1>3. Contents(v) \in PageContents /\ Contents(v) # NULL
  BY <1>1, <1>2, TranslateTyped, ValueAssumption
<1>4. /\ StoreOf(v) \in {NULL, Contents(v)} /\ StoreOf(v)' = Contents(v)
      /\ \A w \in VPage \ {v} : StoreOf(w)' = StoreOf(w)
  BY <1>1, <1>2, <1>3, AccessIsLocal
<1>5. \A w \in VPage : StoreOf(w) # NULL => StoreOf(w)' = StoreOf(w)
  BY <1>3, <1>4
<1>6. QED
  BY <1>2, <1>4, <1>5 DEF Used, WordAt, v, o

LEMMA WriteKeepsWords ==
  ASSUME IInv, NEW a \in Nat, NEW d \in Word, Write(a, d)
  PROVE  /\ \A b \in Nat \ {a} : Used(b) => Used(b)' /\ WordAt(b)' = WordAt(b)
         /\ Used(a)' /\ WordAt(a)' = d
<1> DEFINE v == PageOf(a)  o == OffsetOf(a)  c == [Contents(v) EXCEPT ![o] = d]
<1>1. v \in VPage /\ o \in Offset /\ WriteMemory(v, o, d)
  BY OffsetTyped DEF Write
<1>2. Translate(v, TRUE) /\ memory' = [memory EXCEPT ![FrameOf(v)] = c]
  BY <1>1 DEF WriteMemory
<1>3. Contents(v) \in PageContents /\ c \in PageContents /\ c # NULL
  <2> HIDE DEF v, o
  <2>1. Contents(v) \in PageContents
    BY <1>1, <1>2, TranslateTyped
  <2>2. QED
    BY <1>1, <2>1, StoredContents, ValueAssumption
<1>4. c[o] = d /\ \A p \in Offset \ {o} : c[p] = Contents(v)[p]
  BY <1>1, <1>3 DEF PageContents
<1>5. /\ StoreOf(v) \in {NULL, Contents(v)} /\ StoreOf(v)' = c
      /\ \A w \in VPage \ {v} : StoreOf(w)' = StoreOf(w)
  <2> HIDE DEF v, o, c
  <2>1. QED
    BY <1>1, <1>2, <1>3, AccessIsLocal
<1>6. ASSUME NEW b \in Nat \ {a}, Used(b)
      PROVE  Used(b)' /\ WordAt(b)' = WordAt(b)
  <2>1. PageOf(b) \in VPage /\ StoreOf(PageOf(b)) # NULL
    BY <1>6 DEF Used
  <2>2. CASE PageOf(b) = v
    <3>1. OffsetOf(b) \in Offset \ {o}
      BY <1>6, <2>2, OffsetTyped, AddressesDiffer
    <3>2. StoreOf(v) = Contents(v)
      BY <1>5, <2>1, <2>2
    <3> HIDE DEF v, o, c
    <3>3. WordAt(b) = Contents(v)[OffsetOf(b)] /\ WordAt(b)' = c[OffsetOf(b)] /\ Used(b)'
      BY <1>3, <1>5, <2>1, <2>2, <3>2 DEF WordAt, Used
    <3>4. QED
      BY <1>4, <3>1, <3>3
  <2>3. CASE PageOf(b) # v
    <3>1. StoreOf(PageOf(b))' = StoreOf(PageOf(b))
      BY <1>5, <2>1, <2>3
    <3>2. QED
      BY <2>1, <3>1 DEF WordAt, Used
  <2>4. QED
    BY <2>2, <2>3
<1>7. Used(a)' /\ WordAt(a)' = d
  <2> HIDE DEF c
  <2>1. QED
    BY <1>1, <1>3, <1>4, <1>5 DEF Used, WordAt
<1>8. QED
  BY <1>6, <1>7

(* The lines stored so far are in memory, encoded, and the instruction being
   executed is the one that pc points to. *)
LinesStored ==
  /\ \A i \in 0 .. loaded - 1 :
       Known(program[i + 1].op) /\ Used(i) /\ WordAt(i) = make_instr(program[i + 1])
  /\ status \in {"fetch", "execute"} => loaded = Len(program)
  /\ status = "execute" /\ pc < Len(program) => data = make_instr(program[pc + 1])

(* The program stores nothing over its own lines. *)
KeepsOwnLines == status = "execute" /\ Op = "st" => Address >= Len(program)

LEMMA LinesKept ==
  ASSUME MInv, LinesStored, KeepsOwnLines, [MachineNext]_<<cpu, vars>>
  PROVE  LinesStored'
<1>1. IInv /\ MachineTypeOK /\ TypeOK
  BY DEF MInv, IInv
<1>2. /\ program \in Program /\ Len(program) \in Nat /\ loaded \in Nat /\ loaded <= Len(program)
      /\ pc \in Nat /\ Address \in Nat /\ 0 .. loaded - 1 \subseteq Nat
  <2>1. Len(program) \in Nat
    BY <1>1, MachineAssumption DEF MachineTypeOK
  <2>2. QED
    BY <1>1, <2>1, TargetTyped, MachineAssumption DEF MachineTypeOK
<1>3. ASSUME UNCHANGED <<program, loaded, vars>>, status' # "execute" \/ status' = status,
             status' = "execute" => pc' = pc,
             status' \in {"fetch", "execute"} => loaded = Len(program)
      PROVE  LinesStored'
  <2>1. \A i \in 0 .. loaded - 1 : Used(i)' = Used(i) /\ WordAt(i)' = WordAt(i)
    BY <1>3 DEF vars, Used, WordAt, StoreOf
  <2>2. data' = data
    BY <1>3 DEF vars
  <2>3. QED
    BY <1>3, <2>1, <2>2 DEF LinesStored
<1>4. CASE LoadLine
  <2>1. /\ status = "load" /\ Known(program[loaded + 1].op) /\ loaded < Len(program)
        /\ Write(loaded, make_instr(program[loaded + 1]))
        /\ loaded' = loaded + 1 /\ program' = program
        /\ status' = IF loaded + 1 = Len(program) THEN "fetch" ELSE "load"
    BY <1>1, <1>4 DEF LoadLine, MachineTypeOK
  <2> DEFINE w == make_instr(program[loaded + 1])
  <2>2. PICK a \in Nat, d \in Word : a = loaded /\ d = w
    BY <1>1, <1>2, <2>1, InstrTyped
  <2>3. /\ \A b \in Nat \ {a} : Used(b) => Used(b)' /\ WordAt(b)' = WordAt(b)
        /\ Used(a)' /\ WordAt(a)' = d
    <3>1. Write(a, d)
      BY <2>1, <2>2
    <3>2. QED
      BY <1>1, <3>1, WriteKeepsWords
  <2> HIDE DEF w
  <2>4. ASSUME NEW i \in 0 .. loaded' - 1
        PROVE  Known(program'[i + 1].op) /\ Used(i)' /\ WordAt(i)' = make_instr(program'[i + 1])
    <3>1. CASE i = loaded
      <4>1. i = a
        BY <2>2, <3>1
      <4>2. QED
        BY <2>1, <2>2, <2>3, <3>1, <4>1 DEF w
    <3>2. CASE i # loaded
      <4>1. i \in 0 .. loaded - 1 /\ i \in Nat \ {a}
        BY <1>2, <2>1, <2>2, <3>2
      <4>2. Known(program[i + 1].op) /\ Used(i) /\ WordAt(i) = make_instr(program[i + 1])
        BY <4>1 DEF LinesStored
      <4>3. QED
        BY <2>1, <2>3, <4>1, <4>2
    <3>3. QED
      BY <3>1, <3>2
  <2>5. QED
    BY <2>1, <2>4 DEF LinesStored
<1>5. ASSUME NEW a \in Nat, Read(a), UNCHANGED <<program, loaded>>
      PROVE  \A i \in 0 .. loaded' - 1 :
               Known(program'[i + 1].op) /\ Used(i)' /\ WordAt(i)' = make_instr(program'[i + 1])
  <2>1. \A b \in Nat : Used(b) => Used(b)' /\ WordAt(b)' = WordAt(b)
    BY <1>1, <1>5, ReadKeepsWords
  <2>2. QED
    BY <1>2, <1>5, <2>1 DEF LinesStored
<1>6. CASE Fetch
  <2>1. status = "fetch" /\ Read(pc) /\ status' = "execute"
        /\ program' = program /\ loaded' = loaded /\ pc' = pc
    BY <1>6 DEF Fetch
  <2>2. loaded = Len(program)
    BY <2>1 DEF LinesStored
  <2>3. ASSUME pc < Len(program)
        PROVE  data' = make_instr(program[pc + 1])
    <3>1. pc \in 0 .. loaded - 1
      BY <1>2, <2>2, <2>3
    <3>2. Used(pc) /\ WordAt(pc) = make_instr(program[pc + 1])
      BY <3>1 DEF LinesStored
    <3>3. QED
      BY <1>1, <1>2, <2>1, <3>2, ReadKeepsWords
  <2>4. QED
    BY <1>2, <1>5, <2>1, <2>2, <2>3 DEF LinesStored
<1>7. CASE LoadWord
  <2>1. status = "execute" /\ Read(Address) /\ status' = "fetch"
        /\ program' = program /\ loaded' = loaded
    BY <1>7 DEF LoadWord, Continue
  <2>2. QED
    BY <1>2, <1>5, <2>1 DEF LinesStored
<1>8. CASE StoreWord
  <2>1. status = "execute" /\ Op = "st" /\ Write(Address, reg[extract_dest]) /\ status' = "fetch"
        /\ program' = program /\ loaded' = loaded
    BY <1>8 DEF StoreWord, Continue
  <2>2. reg[extract_dest] \in Word
    BY <1>1, FieldsTyped DEF MachineTypeOK
  <2>3. \A b \in Nat \ {Address} : Used(b) => Used(b)' /\ WordAt(b)' = WordAt(b)
    BY <1>1, <1>2, <2>1, <2>2, WriteKeepsWords
  <2>4. Address >= Len(program) /\ loaded = Len(program)
    BY <2>1 DEF KeepsOwnLines, LinesStored
  <2>5. \A i \in 0 .. loaded - 1 : i \in Nat \ {Address}
    BY <1>2, <2>4
  <2>6. QED
    BY <1>2, <2>1, <2>3, <2>4, <2>5 DEF LinesStored
<1>9. CASE Compute \/ Branch \/ Call
  BY <1>3, <1>9 DEF Compute, Branch, Call, Continue, LinesStored
<1>10. CASE SyntaxError \/ Stop \/ WildAccess
  BY <1>3, <1>10 DEF SyntaxError, Stop, AfterHalt, WildAccess
<1>11. CASE Abort
  <2>1. UNCHANGED <<page_table, memory, swap, data, program, loaded, pc, status>>
    BY <1>11 DEF Abort, SwapExhausted, cpu
  <2>2. \A i \in 0 .. loaded - 1 : Used(i)' = Used(i) /\ WordAt(i)' = WordAt(i)
    BY <2>1 DEF Used, WordAt, StoreOf
  <2>3. QED
    BY <2>1, <2>2 DEF LinesStored
<1>12. CASE UNCHANGED <<cpu, vars>>
  BY <1>3, <1>12 DEF cpu, LinesStored
<1>13. QED
  BY <1>4, <1>6, <1>7, <1>8, <1>9, <1>10, <1>11, <1>12 DEF MachineNext

(* A program that does not store over its own lines executes the lines of
   its file, whatever was paged out and in since they were stored. *)
THEOREM MachineRunsProgram ==
  ASSUME Encodable
  PROVE  MachineSpec /\ []KeepsOwnLines => []RunsProgram
<1>1. MachineInit => LinesStored
  BY DEF MachineInit, LinesStored
<1>2. MInv /\ LinesStored /\ KeepsOwnLines /\ [MachineNext]_<<cpu, vars>> => LinesStored'
  BY LinesKept
<1>3. MInv /\ LinesStored => RunsProgram
  <2> SUFFICES ASSUME MInv, LinesStored, status = "execute", pc < Len(program)
               PROVE  Decodes(program[pc + 1])
    BY DEF RunsProgram, Decodes
  <2>1. loaded = Len(program) /\ data = make_instr(program[pc + 1])
    BY DEF LinesStored
  <2>2. Len(program) \in Nat /\ pc \in Nat /\ program \in Program
    BY MachineAssumption DEF MInv, MachineTypeOK
  <2>3. pc \in 0 .. loaded - 1 /\ pc + 1 \in 1 .. Len(program)
    BY <2>1, <2>2
  <2>4. Known(program[pc + 1].op)
    BY <2>3 DEF LinesStored
  <2>5. Fits(program[pc + 1]) /\ Len(mnemonics) * (NREG * (NREG * IMM)) <= WORD
    BY <2>2, <2>3 DEF Encodable
  <2>6. QED
    BY <2>1, <2>4, <2>5, DecodeInverts
<1>4. QED
  BY <1>1, <1>2, <1>3, MachineInvariant, PTL DEF MachineSpec

-------------------------------------------------------------------------------
(* The results of the programs.  First that the recursive function Factorial  *)
(* exists: every initial part of it does, and two of them agree.              *)

LEMMA LeastMember ==
  ASSUME NEW S \in SUBSET Nat, S # {}
  PROVE  \E k \in S : \A j \in S : k <= j
<1>1. PICK k \in S : \A j \in S : <<j, k>> \notin OpToRel(<, Nat)
  BY NatLessThanWellFounded, WFMin
<1>2. \A j \in S : ~(j < k)
  BY <1>1 DEF OpToRel
<1>3. QED
  BY <1>2

Products(f, n) ==
  /\ f[0] = 1
  /\ \A i \in 1 .. n : f[i] = i * f[i - 1]

LEMMA ProductsAgree ==
  ASSUME NEW f, NEW g, NEW n \in Nat, NEW m \in Nat, Products(f, n), Products(g, m)
  PROVE  \A i \in 0 .. n : i <= m => f[i] = g[i]
<1> DEFINE Differ == {i \in Nat : i <= n /\ i <= m /\ f[i] # g[i]}
<1>1. Differ = {}
  <2> SUFFICES ASSUME Differ # {} PROVE FALSE
    OBVIOUS
  <2>1. PICK i \in Differ : \A j \in Differ : i <= j
    <3>1. Differ \in SUBSET Nat
      OBVIOUS
    <3> HIDE DEF Differ
    <3> QED BY <3>1, LeastMember
  <2>2. i \in Nat /\ i <= n /\ i <= m /\ f[i] # g[i]
    BY <2>1
  <2>3. i # 0
    BY <2>2 DEF Products
  <2>4. i - 1 \in Nat /\ i - 1 <= n /\ i - 1 <= m /\ i - 1 \notin Differ /\ i \in 1 .. n /\ i \in 1 .. m
    <3>1. i - 1 \in Nat /\ i - 1 <= n /\ i - 1 <= m /\ ~(i <= i - 1) /\ i \in 1 .. n /\ i \in 1 .. m
      BY <2>2, <2>3
    <3> HIDE DEF Differ
    <3> QED BY <2>1, <3>1
  <2>5. f[i - 1] = g[i - 1]
    BY <2>4
  <2>6. f[i] = i * f[i - 1] /\ g[i] = i * g[i - 1]
    BY <2>4 DEF Products
  <2> QED BY <2>2, <2>5, <2>6
<1>2. QED
  BY <1>1

LEMMA ProductsExist ==
  ASSUME NEW n \in Nat
  PROVE  \E f : Products(f, n)
<1> DEFINE Missing == {i \in Nat : ~\E f : Products(f, i)}
<1>1. Missing = {}
  <2> SUFFICES ASSUME Missing # {} PROVE FALSE
    OBVIOUS
  <2>1. PICK i \in Missing : \A j \in Missing : i <= j
    <3>1. Missing \in SUBSET Nat
      OBVIOUS
    <3> HIDE DEF Missing
    <3> QED BY <3>1, LeastMember
  <2>2. i \in Nat /\ ~\E f : Products(f, i)
    BY <2>1
  <2>3. i # 0
    <3>1. PICK f : f = [k \in {0} |-> 1]
      OBVIOUS
    <3>2. Products(f, 0)
      BY <3>1 DEF Products
    <3> QED BY <2>2, <3>2
  <2>4. i - 1 \in Nat /\ ~(i <= i - 1)
    BY <2>2, <2>3
  <2>5. PICK f : Products(f, i - 1)
    <3>1. i - 1 \notin Missing
      <4> HIDE DEF Missing
      <4> QED BY <2>1, <2>4
    <3> QED BY <2>4, <3>1
  <2>6. PICK g : g = [k \in 0 .. i |-> IF k = i THEN i * f[i - 1] ELSE f[k]]
    OBVIOUS
  <2>7. Products(g, i)
    <3>1. g[0] = 1
      BY <2>2, <2>3, <2>5, <2>6 DEF Products
    <3>2. ASSUME NEW k \in 1 .. i
          PROVE  g[k] = k * g[k - 1]
      <4>1. k \in 0 .. i /\ k - 1 \in 0 .. i /\ k - 1 # i
        BY <2>2
      <4>2. g[k - 1] = f[k - 1]
        BY <2>6, <4>1
      <4>3. CASE k = i
        BY <2>6, <4>1, <4>2, <4>3
      <4>4. CASE k # i
        <5>1. k \in 1 .. i - 1
          BY <2>2, <4>4
        <5>2. f[k] = k * f[k - 1]
          BY <2>5, <5>1 DEF Products
        <5> QED BY <2>6, <4>1, <4>2, <4>4, <5>2
      <4> QED BY <4>3, <4>4
    <3> QED BY <3>1, <3>2 DEF Products
  <2> QED BY <2>2, <2>7
<1>2. QED
  BY <1>1

Chosen(n) == CHOOSE f : Products(f, n)

LEMMA FactorialUnrolled ==
  /\ Factorial[0] = 1
  /\ \A n \in Nat \ {0} : Factorial[n] = n * Factorial[n - 1]
<1>1. \A n \in Nat : Products(Chosen(n), n)
  BY ProductsExist DEF Chosen
<1>2. PICK F : F = [n \in Nat |-> Chosen(n)[n]]
  OBVIOUS
<1>3. F[0] = 1
  BY <1>1, <1>2 DEF Products
<1>4. ASSUME NEW n \in Nat \ {0}
      PROVE  F[n] = n * F[n - 1]
  <2>1. n - 1 \in Nat /\ n - 1 \in 0 .. n - 1 /\ n - 1 <= n /\ n \in 1 .. n
    OBVIOUS
  <2>2. Chosen(n)[n] = n * Chosen(n)[n - 1]
    BY <1>1, <2>1 DEF Products
  <2>3. Chosen(n - 1)[n - 1] = Chosen(n)[n - 1]
    BY <1>1, <2>1, ProductsAgree
  <2> QED BY <1>2, <2>1, <2>2, <2>3
<1>5. F = [n \in Nat |-> IF n = 0 THEN 1 ELSE n * F[n - 1]]
  BY <1>2, <1>3, <1>4
<1>6. Factorial = [n \in Nat |-> IF n = 0 THEN 1 ELSE n * Factorial[n - 1]]
  BY <1>5, Zenon DEF Factorial
<1>7. QED
  BY <1>6

(* It is positive and never decreases. *)
LEMMA FactorialGrows ==
  ASSUME NEW n \in Nat
  PROVE  \A k \in 0 .. n : Factorial[k] \in Nat \ {0} /\ Factorial[k] <= Factorial[n]
<1> DEFINE Fails == {m \in Nat : ~\A k \in 0 .. m : Factorial[k] \in Nat \ {0} /\ Factorial[k] <= Factorial[m]}
<1>1. Fails = {}
  <2> SUFFICES ASSUME Fails # {} PROVE FALSE
    OBVIOUS
  <2>1. PICK m \in Fails : \A j \in Fails : m <= j
    <3>1. Fails \in SUBSET Nat
      OBVIOUS
    <3> HIDE DEF Fails
    <3> QED BY <3>1, LeastMember
  <2>2. m \in Nat /\ ~\A k \in 0 .. m : Factorial[k] \in Nat \ {0} /\ Factorial[k] <= Factorial[m]
    BY <2>1
  <2>3. m # 0
    <3>1. \A k \in 0 .. 0 : k = 0
      OBVIOUS
    <3> QED BY <2>2, <3>1, FactorialUnrolled
  <2>4. m - 1 \in Nat /\ ~(m <= m - 1)
    BY <2>2, <2>3
  <2>5. \A k \in 0 .. m - 1 : Factorial[k] \in Nat \ {0} /\ Factorial[k] <= Factorial[m - 1]
    <3>1. m - 1 \notin Fails
      <4> HIDE DEF Fails
      <4> QED BY <2>1, <2>4
    <3> QED BY <2>4, <3>1
  <2>6. PICK x, y : x = Factorial[m - 1] /\ y = Factorial[m]
    OBVIOUS
  <2>7. x \in Nat \ {0} /\ y = m * x
    BY <2>2, <2>3, <2>4, <2>5, <2>6, FactorialUnrolled
  <2>8. y \in Nat \ {0} /\ x <= y
    BY <2>2, <2>3, <2>7
  <2>9. \A k \in 0 .. m : k = m \/ k \in 0 .. m - 1
    BY <2>2
  <2>10. \A k \in 0 .. m : Factorial[k] \in Nat \ {0} /\ Factorial[k] <= Factorial[m]
    <3> SUFFICES ASSUME NEW k \in 0 .. m
                 PROVE  Factorial[k] \in Nat \ {0} /\ Factorial[k] <= Factorial[m]
      OBVIOUS
    <3>1. CASE k = m
      BY <2>6, <2>8, <3>1
    <3>2. CASE k \in 0 .. m - 1
      <4>1. PICK z : z = Factorial[k]
        OBVIOUS
      <4>2. z \in Nat \ {0} /\ z <= x
        BY <2>5, <2>6, <3>2, <4>1
      <4> QED BY <2>6, <2>7, <2>8, <4>1, <4>2
    <3> QED BY <2>9, <3>1, <3>2
  <2> QED BY <2>2, <2>10
<1>2. QED
  BY <1>1

-------------------------------------------------------------------------------
(* A program that is run as its text says.  In this part p, r and m are a     *)
(* program counter, registers and words of memory, and q, s and l the ones    *)
(* after a step.                                                              *)

(* the words in memory, where there are any *)
Mem == [a \in Nat |-> IF Used(a) THEN WordAt(a) ELSE -1]

KeepsBut(b, m, l) == \A x \in Nat \ {b} : m[x] \in Nat => l[x] = m[x]
Same(m, l) == \A a \in Nat : m[a] \in Nat => l[a] = m[a]
Sets(r, s, d, w) == s = [r EXCEPT ![d] = w]

Operand1(line, r) == Signed(r[line.s1])
Operand2(line, r) == Signed(r[line.s2 % NREG])
AddressIn(line, r) == (Operand1(line, r) + line.s2) % WORD

ValueOf(line, r) ==
  CASE line.op = "add"  -> Operand1(line, r) + Operand2(line, r)
    [] line.op = "addi" -> Operand1(line, r) + line.s2
    [] line.op = "sub"  -> Operand1(line, r) - Operand2(line, r)
    [] line.op = "subi" -> Operand1(line, r) - line.s2
    [] line.op = "mul"  -> Operand1(line, r) * Operand2(line, r)
    [] line.op = "sge"  -> Flag(Operand1(line, r) >= Operand2(line, r))
    [] line.op = "sgt"  -> Flag(Operand1(line, r) > Operand2(line, r))
    [] line.op = "seq"  -> Flag(Operand1(line, r) = Operand2(line, r))
    [] line.op = "seqi" -> Flag(Operand1(line, r) = line.s2)

(* What the instruction of a line does, as the text of the program says it. *)
Executes(line, p, r, m, q, s, l) ==
  /\ line.op \in Computing =>
       /\ q = (p + 1) % WORD
       /\ line.dest # 0 => Sets(r, s, line.dest, ValueOf(line, r) % WORD)
       /\ Same(m, l)
  /\ line.op = "bt" =>
       q = (IF Operand1(line, r) # 0 THEN line.s2 ELSE p + 1) % WORD /\ s = r /\ Same(m, l)
  /\ line.op = "bf" =>
       q = (IF Operand1(line, r) = 0 THEN line.s2 ELSE p + 1) % WORD /\ s = r /\ Same(m, l)
  /\ line.op = "ba" => q = line.s2 % WORD /\ s = r /\ Same(m, l)
  /\ line.op = "jmp" => q = Operand1(line, r) % WORD /\ s = r /\ Same(m, l)
  /\ line.op = "call" =>
       q = line.s2 % WORD /\ (Link # 0 => Sets(r, s, Link, (p + 1) % WORD)) /\ Same(m, l)
  /\ line.op = "ld" =>
       /\ q = (p + 1) % WORD
       /\ LET a == AddressIn(line, r)
          IN  line.dest # 0 /\ m[a] \in Nat => Sets(r, s, line.dest, m[a])
       /\ Same(m, l)
  /\ line.op = "st" =>
       /\ q = (p + 1) % WORD
       /\ s = r
       /\ LET a == AddressIn(line, r)
          IN  l[a] = r[line.dest] /\ KeepsBut(a, m, l)

(* Nothing that a program can see changes, and the machine halts only at halt. *)
Waits == pc' = pc /\ reg' = reg /\ (status = "load" \/ Same(Mem, Mem'))
Proceeds(line) == Executes(line, pc, reg, Mem, pc', reg', Mem')

LEMMA MemKept ==
  ASSUME \A b \in Nat : Used(b) => Used(b)' /\ WordAt(b)' = WordAt(b)
  PROVE  Same(Mem, Mem')
<1>1. ASSUME NEW b \in Nat, Mem[b] \in Nat
      PROVE  Mem'[b] = Mem[b]
  <2>1. Used(b)
    BY <1>1 DEF Mem
  <2>2. Used(b)' /\ WordAt(b)' = WordAt(b)
    BY <2>1
  <2>3. Mem[b] = WordAt(b) /\ Mem'[b] = WordAt(b)'
    BY <2>1, <2>2 DEF Mem
  <2> QED BY <2>2, <2>3
<1> QED BY <1>1 DEF Same

(* An instruction in memory does what its line says. *)
LEMMA ExecutesItsLine ==
  ASSUME MInv, MachineNext, status = "execute", NEW line, Decodes(line)
  PROVE  /\ program' = program /\ status' # "load"
         /\ \/ Waits /\ status' # "halted"
            \/ Waits /\ line.op = "halt"
            \/ Proceeds(line) /\ line.op # "halt" /\ status' = "fetch"
<1>1. IInv /\ TypeOK /\ MachineTypeOK
  BY DEF MInv, IInv
<1>2. /\ Op = line.op /\ extract_dest = line.dest /\ extract_source1 = line.s1
      /\ extract_constant = line.s2
  BY DEF Decodes
<1>3. source1 = Operand1(line, reg) /\ source2 = Operand2(line, reg) /\ Address = AddressIn(line, reg)
  BY <1>2 DEF source1, source2, Operand1, Operand2, Address, AddressIn
<1>4. UNCHANGED vars => Same(Mem, Mem')
  <2>1. ASSUME UNCHANGED vars, NEW b \in Nat
        PROVE  Used(b)' = Used(b) /\ WordAt(b)' = WordAt(b)
    BY <2>1 DEF vars, Used, WordAt, StoreOf
  <2> QED BY <2>1, MemKept
<1>5. CASE Compute
  <2>1. Result = ValueOf(line, reg)
    BY <1>2, <1>3 DEF Result, ValueOf
  <2>2. /\ program' = program /\ status' = "fetch" /\ pc' = (pc + 1) % WORD
        /\ reg' = SetReg(line.dest, ValueOf(line, reg) % WORD) /\ UNCHANGED vars
        /\ line.op \in Computing
    BY <1>2, <1>5, <2>1 DEF Compute, Continue
  <2>3. line.dest # 0 => Sets(reg, reg', line.dest, ValueOf(line, reg) % WORD)
    BY <2>2 DEF SetReg, Sets
  <2>4. line.op \notin {"bt", "bf", "ba", "jmp", "call", "ld", "st", "halt"}
    BY <2>2 DEF Computing
  <2> QED BY <1>4, <2>2, <2>3, <2>4 DEF Proceeds, Executes
<1>6. CASE Branch
  <2>1. /\ program' = program /\ status' = "fetch" /\ reg' = reg /\ UNCHANGED vars
        /\ pc' = (IF Taken THEN Target ELSE pc + 1) % WORD
        /\ line.op \in {"bt", "bf", "ba", "jmp"}
    BY <1>2, <1>6 DEF Branch, Continue
  <2>2. line.op \notin Computing /\ line.op \notin {"call", "ld", "st", "halt"}
    BY <2>1 DEF Computing
  <2>3. Same(Mem, Mem')
    BY <1>4, <2>1
  <2>4. /\ line.op = "bt" => pc' = (IF Operand1(line, reg) # 0 THEN line.s2 ELSE pc + 1) % WORD
        /\ line.op = "bf" => pc' = (IF Operand1(line, reg) = 0 THEN line.s2 ELSE pc + 1) % WORD
        /\ line.op = "ba" => pc' = line.s2 % WORD
        /\ line.op = "jmp" => pc' = Operand1(line, reg) % WORD
    BY <1>2, <1>3, <2>1 DEF Taken, Target
  <2> QED BY <2>1, <2>2, <2>3, <2>4 DEF Proceeds, Executes
<1>7. CASE Call
  <2>1. /\ program' = program /\ status' = "fetch" /\ UNCHANGED vars
        /\ reg' = SetReg(Link, (pc + 1) % WORD)
        /\ pc' = line.s2 % WORD
        /\ line.op = "call"
    BY <1>2, <1>7 DEF Call, Continue, Link
  <2>2. Link # 0 => Sets(reg, reg', Link, (pc + 1) % WORD)
    BY <2>1 DEF SetReg, Sets
  <2>3. line.op \notin Computing
    BY <2>1 DEF Computing
  <2> QED BY <1>4, <2>1, <2>2, <2>3 DEF Proceeds, Executes
<1>8. PICK a \in Nat : a = AddressIn(line, reg)
  BY <1>1, <1>3, TargetTyped, MachineAssumption
<1>9. CASE LoadWord
  <2>1. /\ program' = program /\ status' = "fetch" /\ line.op = "ld"
        /\ Read(a) /\ reg' = SetReg(line.dest, data') /\ pc' = (pc + 1) % WORD
    BY <1>2, <1>3, <1>8, <1>9 DEF LoadWord, Continue
  <2>2. /\ \A b \in Nat : Used(b) => Used(b)' /\ WordAt(b)' = WordAt(b)
        /\ Used(a) => data' = WordAt(a)
    BY <1>1, <2>1, ReadKeepsWords
  <2>3. Same(Mem, Mem')
    BY <2>2, MemKept
  <2>4. Mem[a] \in Nat => data' = Mem[a]
    BY <2>2 DEF Mem
  <2>5. line.dest # 0 /\ Mem[a] \in Nat => Sets(reg, reg', line.dest, Mem[a])
    BY <2>1, <2>4 DEF SetReg, Sets
  <2>6. line.op \notin Computing
    BY <2>1 DEF Computing
  <2> QED BY <1>8, <2>1, <2>3, <2>5, <2>6 DEF Proceeds, Executes
<1>10. CASE StoreWord
  <2>1. /\ program' = program /\ status' = "fetch" /\ line.op = "st" /\ reg' = reg
        /\ Write(a, reg[line.dest]) /\ pc' = (pc + 1) % WORD
    BY <1>2, <1>3, <1>8, <1>10 DEF StoreWord, Continue
  <2>2. PICK w \in Word : w = reg[line.dest]
    BY <1>1, <1>2, FieldsTyped DEF MachineTypeOK
  <2>3. /\ \A b \in Nat \ {a} : Used(b) => Used(b)' /\ WordAt(b)' = WordAt(b)
        /\ Used(a)' /\ WordAt(a)' = w
    <3>1. Write(a, w)
      BY <2>1, <2>2
    <3> QED BY <1>1, <3>1, WriteKeepsWords
  <2>4. Mem'[a] = reg[line.dest]
    BY <2>2, <2>3 DEF Mem
  <2>5. ASSUME NEW b \in Nat \ {a}, Mem[b] \in Nat
        PROVE  Mem'[b] = Mem[b]
    <3>1. Used(b)
      BY <2>5 DEF Mem
    <3>2. Used(b)' /\ WordAt(b)' = WordAt(b)
      BY <2>3, <3>1
    <3>3. Mem[b] = WordAt(b) /\ Mem'[b] = WordAt(b)'
      BY <3>1, <3>2 DEF Mem
    <3> QED BY <3>2, <3>3
  <2>6. line.op \notin Computing
    BY <2>1 DEF Computing
  <2> QED BY <1>8, <2>1, <2>4, <2>5, <2>6 DEF Proceeds, Executes, KeepsBut
<1>11. CASE Stop
  <2>1. /\ program' = program /\ pc' = pc /\ reg' = reg /\ UNCHANGED vars
        /\ status' = IF line.op = "halt" THEN "halted" ELSE "error"
    BY <1>2, <1>11 DEF Stop, AfterHalt
  <2> QED BY <1>4, <2>1 DEF Waits
<1>12. CASE WildAccess
  <2>1. program' = program /\ pc' = pc /\ reg' = reg /\ UNCHANGED vars /\ status' = "wild"
    BY <1>12 DEF WildAccess
  <2> QED BY <1>4, <2>1 DEF Waits
<1>13. CASE Abort
  <2>1. UNCHANGED <<page_table, memory, swap, program, pc, reg, status>>
    BY <1>13 DEF Abort, SwapExhausted, cpu
  <2>2. \A b \in Nat : Used(b)' = Used(b) /\ WordAt(b)' = WordAt(b)
    BY <2>1 DEF Used, WordAt, StoreOf
  <2> QED BY <2>1, <2>2, MemKept DEF Waits
<1>14. ~LoadLine /\ ~SyntaxError /\ ~Fetch
  BY DEF LoadLine, SyntaxError, Fetch
<1> QED BY <1>5, <1>6, <1>7, <1>9, <1>10, <1>11, <1>12, <1>13, <1>14 DEF MachineNext

(* The steps in between change nothing that a program can see: while its lines
   are stored, and when one is fetched. *)
LEMMA OtherStepsWait ==
  ASSUME MInv, [MachineNext]_<<cpu, vars>>, status # "execute"
  PROVE  /\ program' = program /\ Waits
         /\ status' = "load" => status = "load"
         /\ status' = "halted" => status = "halted"
<1>1. IInv /\ TypeOK /\ MachineTypeOK
  BY DEF MInv, IInv
<1>2. UNCHANGED vars => Same(Mem, Mem')
  <2>1. ASSUME UNCHANGED vars, NEW b \in Nat
        PROVE  Used(b)' = Used(b) /\ WordAt(b)' = WordAt(b)
    BY <2>1 DEF vars, Used, WordAt, StoreOf
  <2> QED BY <2>1, MemKept
<1>3. CASE LoadLine
  BY <1>3 DEF LoadLine, Waits
<1>4. CASE SyntaxError
  BY <1>4 DEF SyntaxError, Waits
<1>5. CASE Fetch
  <2>1. program' = program /\ pc' = pc /\ reg' = reg /\ status' = "execute" /\ Read(pc)
    BY <1>5 DEF Fetch
  <2>2. PICK a \in Nat : a = pc
    BY <1>1, MachineAssumption DEF MachineTypeOK
  <2>3. \A b \in Nat : Used(b) => Used(b)' /\ WordAt(b)' = WordAt(b)
    BY <1>1, <2>1, <2>2, ReadKeepsWords
  <2> QED BY <2>1, <2>3, MemKept DEF Waits
<1>6. CASE WildAccess
  BY <1>2, <1>6 DEF WildAccess, Waits
<1>7. CASE Abort
  <2>1. UNCHANGED <<page_table, memory, swap, program, pc, reg, status>>
    BY <1>7 DEF Abort, SwapExhausted, cpu
  <2>2. \A b \in Nat : Used(b)' = Used(b) /\ WordAt(b)' = WordAt(b)
    BY <2>1 DEF Used, WordAt, StoreOf
  <2> QED BY <2>1, <2>2, MemKept DEF Waits
<1>8. CASE UNCHANGED <<cpu, vars>>
  BY <1>2, <1>8 DEF cpu, Waits
<1>9. ~Compute /\ ~Branch /\ ~Call /\ ~LoadWord /\ ~StoreWord /\ ~Stop
  BY DEF Compute, Branch, Call, LoadWord, StoreWord, Stop
<1> QED BY <1>3, <1>4, <1>5, <1>6, <1>7, <1>8, <1>9 DEF MachineNext

-------------------------------------------------------------------------------
(* The sizes for which the programs are written: registers 0 to 6, constants  *)
(* up to 60, results that are one word, and a stack above the program.        *)

Wide ==
  /\ NREG > 6 /\ IMM > 120
  /\ Len(mnemonics) * (NREG * (NREG * IMM)) <= WORD

Roomy ==
  /\ Wide
  /\ \A n \in FacN : n \in 1 .. 16 /\ Factorial[n] < WORD
  /\ \A a \in GcdN : a \in Nat \ {0} /\ 2 * a < IMM
  /\ \A a \in FillFrom : a \in 21 .. 60 /\ a % 4 = 0

LEMMA WordIsWide ==
  ASSUME Wide
  PROVE  /\ WORD \in Nat /\ WORD > 100000 /\ WORD > 2 * IMM
         /\ NREG \in Nat /\ IMM \in Nat /\ Link \in 6 .. NREG - 1
<1>1. Len(mnemonics) = 17
  BY DEF mnemonics
<1>2. NREG \in Nat /\ IMM \in Nat /\ WORD \in Nat /\ NREG > 6 /\ IMM > 120
  BY MachineAssumption DEF Wide
<1>3. NREG * IMM \in Nat /\ NREG * IMM >= 7 * IMM
  BY <1>2
<1> DEFINE row == NREG * IMM
<1>4. row \in Nat /\ row >= 7 * IMM
  BY <1>3
<1> HIDE DEF row
<1>5. NREG * row \in Nat /\ NREG * row >= 7 * row
  BY <1>2, <1>4
<1>6. 17 * (NREG * row) <= WORD
  BY <1>1 DEF Wide, row
<1>7. Link \in 6 .. NREG - 1
  BY <1>2 DEF Link
<1> QED BY <1>2, <1>4, <1>5, <1>6, <1>7

(* What single instructions do, when their operands are small. *)

Registers(r) == r \in [Reg -> Word] /\ r[0] = 0
Small(w) == w \in Nat /\ 2 * w < WORD

(* register d becomes w, and the next line is next *)
Assigns(p, r, m, q, s, l, d, w) ==
  q = p + 1 /\ s[d] = w /\ (\A x \in Reg : x # d => s[x] = r[x]) /\ Same(m, l)
Jumps(r, m, q, s, l, target) == q = target /\ s = r /\ Same(m, l)
Links(p, r, m, q, s, l, target) ==
  q = target /\ s[Link] = p + 1 /\ (\A x \in Reg : x # Link => s[x] = r[x]) /\ Same(m, l)
(* the word at address a becomes w *)
Puts(p, r, m, q, s, l, a, w) ==
  q = p + 1 /\ s = r /\ l[a] = w /\ KeepsBut(a, m, l)

LEMMA SmallIsSigned ==
  ASSUME NEW w, Small(w)
  PROVE  Signed(w) = w
  BY DEF Small, Signed

LEMMA ComputeRule ==
  ASSUME Wide, NEW p \in 0 .. 99, NEW r, NEW m, NEW q, NEW s, NEW l, NEW line,
         Registers(r), line.op \in Computing, line.dest \in Reg \ {0},
         Executes(line, p, r, m, q, s, l), NEW w \in Nat, w < WORD, ValueOf(line, r) = w
  PROVE  Assigns(p, r, m, q, s, l, line.dest, w)
<1>1. WORD \in Nat /\ WORD > 100000
  BY WordIsWide
<1>2. w % WORD = w /\ (p + 1) % WORD = p + 1
  BY <1>1
<1>3. q = p + 1 /\ Sets(r, s, line.dest, w) /\ Same(m, l)
  BY <1>2 DEF Executes
<1> QED BY <1>3 DEF Assigns, Sets, Registers

LEMMA Addi ==
  ASSUME Wide, NEW p \in 0 .. 99, NEW r, NEW m, NEW q, NEW s, NEW l, Registers(r),
         NEW d \in Reg \ {0}, NEW a \in Reg, NEW c \in Int, Small(r[a]),
         r[a] + c \in 0 .. WORD - 1, Executes(I("addi", d, a, c), p, r, m, q, s, l)
  PROVE  Assigns(p, r, m, q, s, l, d, r[a] + c)
<1>1. PICK line, w : line = I("addi", d, a, c) /\ w = r[a] + c
  OBVIOUS
<1>2. line.op = "addi" /\ line.dest = d /\ line.s1 = a /\ line.s2 = c
  BY <1>1 DEF I
<1>3. ValueOf(line, r) = w
  BY <1>1, <1>2, SmallIsSigned DEF ValueOf, Operand1
<1>4. w \in Nat /\ w < WORD
  BY <1>1, WordIsWide
<1> QED BY <1>1, <1>2, <1>3, <1>4, ComputeRule DEF Computing

LEMMA Subi ==
  ASSUME Wide, NEW p \in 0 .. 99, NEW r, NEW m, NEW q, NEW s, NEW l, Registers(r),
         NEW d \in Reg \ {0}, NEW a \in Reg, NEW c \in Int, Small(r[a]),
         r[a] - c \in 0 .. WORD - 1, Executes(I("subi", d, a, c), p, r, m, q, s, l)
  PROVE  Assigns(p, r, m, q, s, l, d, r[a] - c)
<1>1. PICK line, w : line = I("subi", d, a, c) /\ w = r[a] - c
  OBVIOUS
<1>2. line.op = "subi" /\ line.dest = d /\ line.s1 = a /\ line.s2 = c
  BY <1>1 DEF I
<1>3. ValueOf(line, r) = w
  BY <1>1, <1>2, SmallIsSigned DEF ValueOf, Operand1
<1>4. w \in Nat /\ w < WORD
  BY <1>1, WordIsWide
<1> QED BY <1>1, <1>2, <1>3, <1>4, ComputeRule DEF Computing

LEMMA Seqi ==
  ASSUME Wide, NEW p \in 0 .. 99, NEW r, NEW m, NEW q, NEW s, NEW l, Registers(r),
         NEW d \in Reg \ {0}, NEW a \in Reg, NEW c \in Int, Small(r[a]),
         Executes(I("seqi", d, a, c), p, r, m, q, s, l)
  PROVE  Assigns(p, r, m, q, s, l, d, Flag(r[a] = c))
<1>1. PICK line, w : line = I("seqi", d, a, c) /\ w = Flag(r[a] = c)
  OBVIOUS
<1>2. line.op = "seqi" /\ line.dest = d /\ line.s1 = a /\ line.s2 = c
  BY <1>1 DEF I
<1>3. ValueOf(line, r) = w
  BY <1>1, <1>2, SmallIsSigned DEF ValueOf, Operand1
<1>4. w \in Nat /\ w < WORD
  BY <1>1, WordIsWide DEF Flag
<1> QED BY <1>1, <1>2, <1>3, <1>4, ComputeRule DEF Computing

(* of two registers *)
LEMMA Operands ==
  ASSUME Wide, NEW r, NEW line, NEW a \in Reg, NEW b \in Reg, Small(r[a]), Small(r[b]),
         line.s1 = a, line.s2 = b
  PROVE  Operand1(line, r) = r[a] /\ Operand2(line, r) = r[b]
<1>1. b % NREG = b
  BY WordIsWide DEF Reg
<1> QED BY <1>1, SmallIsSigned DEF Operand1, Operand2

LEMMA Add ==
  ASSUME Wide, NEW p \in 0 .. 99, NEW r, NEW m, NEW q, NEW s, NEW l, Registers(r),
         NEW d \in Reg \ {0}, NEW a \in Reg, NEW b \in Reg, Small(r[a]), Small(r[b]),
         r[a] + r[b] < WORD, Executes(I("add", d, a, b), p, r, m, q, s, l)
  PROVE  Assigns(p, r, m, q, s, l, d, r[a] + r[b])
<1>1. PICK line, w : line = I("add", d, a, b) /\ w = r[a] + r[b]
  OBVIOUS
<1>2. line.op = "add" /\ line.dest = d /\ line.s1 = a /\ line.s2 = b
  BY <1>1 DEF I
<1>3. ValueOf(line, r) = w
  BY <1>1, <1>2, Operands DEF ValueOf
<1>4. w \in Nat /\ w < WORD
  BY <1>1 DEF Small
<1> QED BY <1>1, <1>2, <1>3, <1>4, ComputeRule DEF Computing

LEMMA Sub ==
  ASSUME Wide, NEW p \in 0 .. 99, NEW r, NEW m, NEW q, NEW s, NEW l, Registers(r),
         NEW d \in Reg \ {0}, NEW a \in Reg, NEW b \in Reg, Small(r[a]), Small(r[b]),
         r[a] >= r[b], Executes(I("sub", d, a, b), p, r, m, q, s, l)
  PROVE  Assigns(p, r, m, q, s, l, d, r[a] - r[b])
<1>1. PICK line, w : line = I("sub", d, a, b) /\ w = r[a] - r[b]
  OBVIOUS
<1>2. line.op = "sub" /\ line.dest = d /\ line.s1 = a /\ line.s2 = b
  BY <1>1 DEF I
<1>3. ValueOf(line, r) = w
  BY <1>1, <1>2, Operands DEF ValueOf
<1>4. w \in Nat /\ w < WORD
  BY <1>1, WordIsWide DEF Small
<1> QED BY <1>1, <1>2, <1>3, <1>4, ComputeRule DEF Computing

LEMMA Mul ==
  ASSUME Wide, NEW p \in 0 .. 99, NEW r, NEW m, NEW q, NEW s, NEW l, Registers(r),
         NEW d \in Reg \ {0}, NEW a \in Reg, NEW b \in Reg, Small(r[a]), Small(r[b]),
         r[a] * r[b] < WORD, Executes(I("mul", d, a, b), p, r, m, q, s, l)
  PROVE  Assigns(p, r, m, q, s, l, d, r[a] * r[b])
<1>1. PICK line, w : line = I("mul", d, a, b) /\ w = r[a] * r[b]
  OBVIOUS
<1>2. line.op = "mul" /\ line.dest = d /\ line.s1 = a /\ line.s2 = b
  BY <1>1 DEF I
<1>3. ValueOf(line, r) = w
  BY <1>1, <1>2, Operands DEF ValueOf
<1>4. w \in Nat /\ w < WORD
  BY <1>1 DEF Small
<1> QED BY <1>1, <1>2, <1>3, <1>4, ComputeRule DEF Computing

LEMMA Seqs ==
  ASSUME Wide, NEW p \in 0 .. 99, NEW r, NEW m, NEW q, NEW s, NEW l, Registers(r),
         NEW d \in Reg \ {0}, NEW a \in Reg, NEW b \in Reg, Small(r[a]), Small(r[b]),
         Executes(I("seq", d, a, b), p, r, m, q, s, l),
         NEW w, r[a] = r[b] => w = 1, r[a] # r[b] => w = 0
  PROVE  Assigns(p, r, m, q, s, l, d, w)
<1>1. PICK line : line = I("seq", d, a, b)
  OBVIOUS
<1>2. line.op = "seq" /\ line.dest = d /\ line.s1 = a /\ line.s2 = b
  BY <1>1 DEF I
<1>3. Operand1(line, r) = r[a] /\ Operand2(line, r) = r[b] /\ r[a] \in Nat /\ r[b] \in Nat
  BY <1>2, Operands DEF Small
<1>4. w = Flag(r[a] = r[b])
  BY <1>3 DEF Flag
<1>5. ValueOf(line, r) = w
  BY <1>2, <1>3, <1>4 DEF ValueOf
<1>6. w \in Nat /\ w < WORD
  BY <1>3, WordIsWide
<1> QED BY <1>1, <1>2, <1>5, <1>6, ComputeRule DEF Computing

LEMMA Sgt ==
  ASSUME Wide, NEW p \in 0 .. 99, NEW r, NEW m, NEW q, NEW s, NEW l, Registers(r),
         NEW d \in Reg \ {0}, NEW a \in Reg, NEW b \in Reg, Small(r[a]), Small(r[b]),
         Executes(I("sgt", d, a, b), p, r, m, q, s, l),
         NEW w, r[a] > r[b] => w = 1, r[a] <= r[b] => w = 0
  PROVE  Assigns(p, r, m, q, s, l, d, w)
<1>1. PICK line : line = I("sgt", d, a, b)
  OBVIOUS
<1>2. line.op = "sgt" /\ line.dest = d /\ line.s1 = a /\ line.s2 = b
  BY <1>1 DEF I
<1>3. Operand1(line, r) = r[a] /\ Operand2(line, r) = r[b] /\ r[a] \in Nat /\ r[b] \in Nat
  BY <1>2, Operands DEF Small
<1>4. w = Flag(r[a] > r[b])
  BY <1>3 DEF Flag
<1>5. ValueOf(line, r) = w
  BY <1>2, <1>3, <1>4 DEF ValueOf
<1>6. w \in Nat /\ w < WORD
  BY <1>3, WordIsWide
<1> QED BY <1>1, <1>2, <1>5, <1>6, ComputeRule DEF Computing

LEMMA Sge ==
  ASSUME Wide, NEW p \in 0 .. 99, NEW r, NEW m, NEW q, NEW s, NEW l, Registers(r),
         NEW d \in Reg \ {0}, NEW a \in Reg, NEW b \in Reg, Small(r[a]), Small(r[b]),
         Executes(I("sge", d, a, b), p, r, m, q, s, l),
         NEW w, r[a] >= r[b] => w = 1, r[a] < r[b] => w = 0
  PROVE  Assigns(p, r, m, q, s, l, d, w)
<1>1. PICK line : line = I("sge", d, a, b)
  OBVIOUS
<1>2. line.op = "sge" /\ line.dest = d /\ line.s1 = a /\ line.s2 = b
  BY <1>1 DEF I
<1>3. Operand1(line, r) = r[a] /\ Operand2(line, r) = r[b] /\ r[a] \in Nat /\ r[b] \in Nat
  BY <1>2, Operands DEF Small
<1>4. w = Flag(r[a] >= r[b])
  BY <1>3 DEF Flag
<1>5. ValueOf(line, r) = w
  BY <1>2, <1>3, <1>4 DEF ValueOf
<1>6. w \in Nat /\ w < WORD
  BY <1>3, WordIsWide
<1> QED BY <1>1, <1>2, <1>5, <1>6, ComputeRule DEF Computing

LEMMA Bt ==
  ASSUME Wide, NEW p \in 0 .. 99, NEW r, NEW m, NEW q, NEW s, NEW l,
         NEW a \in Reg, Small(r[a]), NEW c \in 0 .. 99,
         Executes(I("bt", 0, a, c), p, r, m, q, s, l),
         NEW g, r[a] # 0 => g = c, r[a] = 0 => g = p + 1
  PROVE  Jumps(r, m, q, s, l, g)
<1>1. PICK line : line = I("bt", 0, a, c)
  OBVIOUS
<1>2. line.op = "bt" /\ line.s1 = a /\ line.s2 = c
  BY <1>1 DEF I
<1>3. Operand1(line, r) = r[a]
  BY <1>2, SmallIsSigned DEF Operand1
<1>4. c % WORD = c /\ (p + 1) % WORD = p + 1
  BY WordIsWide
<1> QED BY <1>1, <1>2, <1>3, <1>4 DEF Executes, Jumps

LEMMA Bf ==
  ASSUME Wide, NEW p \in 0 .. 99, NEW r, NEW m, NEW q, NEW s, NEW l,
         NEW a \in Reg, Small(r[a]), NEW c \in 0 .. 99,
         Executes(I("bf", 0, a, c), p, r, m, q, s, l),
         NEW g, r[a] = 0 => g = c, r[a] # 0 => g = p + 1
  PROVE  Jumps(r, m, q, s, l, g)
<1>1. PICK line : line = I("bf", 0, a, c)
  OBVIOUS
<1>2. line.op = "bf" /\ line.s1 = a /\ line.s2 = c
  BY <1>1 DEF I
<1>3. Operand1(line, r) = r[a]
  BY <1>2, SmallIsSigned DEF Operand1
<1>4. c % WORD = c /\ (p + 1) % WORD = p + 1
  BY WordIsWide
<1> QED BY <1>1, <1>2, <1>3, <1>4 DEF Executes, Jumps

LEMMA Ba ==
  ASSUME Wide, NEW p, NEW r, NEW m, NEW q, NEW s, NEW l, NEW c \in 0 .. 99,
         Executes(I("ba", 0, 0, c), p, r, m, q, s, l)
  PROVE  Jumps(r, m, q, s, l, c)
<1>1. PICK line : line = I("ba", 0, 0, c)
  OBVIOUS
<1>2. line.op = "ba" /\ line.s2 = c
  BY <1>1 DEF I
<1>3. c % WORD = c
  BY WordIsWide
<1> QED BY <1>1, <1>2, <1>3 DEF Executes, Jumps

LEMMA Jmp ==
  ASSUME Wide, NEW p, NEW r, NEW m, NEW q, NEW s, NEW l,
         NEW a \in Reg, r[a] \in 0 .. 99, Executes(I("jmp", 0, a, 0), p, r, m, q, s, l)
  PROVE  Jumps(r, m, q, s, l, r[a])
<1>1. PICK line, w : line = I("jmp", 0, a, 0) /\ w = r[a]
  OBVIOUS
<1>2. line.op = "jmp" /\ line.s1 = a
  BY <1>1 DEF I
<1>3. Small(w) /\ w % WORD = w
  BY <1>1, WordIsWide DEF Small
<1>4. Operand1(line, r) = w
  BY <1>1, <1>2, <1>3, SmallIsSigned DEF Operand1
<1> QED BY <1>1, <1>2, <1>3, <1>4 DEF Executes, Jumps

LEMMA Calls ==
  ASSUME Wide, NEW p \in 0 .. 99, NEW r, NEW m, NEW q, NEW s, NEW l, Registers(r),
         NEW c \in 0 .. 99, Executes(I("call", 0, 0, c), p, r, m, q, s, l)
  PROVE  Links(p, r, m, q, s, l, c)
<1>1. PICK line : line = I("call", 0, 0, c)
  OBVIOUS
<1>2. line.op = "call" /\ line.s2 = c
  BY <1>1 DEF I
<1>3. c % WORD = c /\ (p + 1) % WORD = p + 1 /\ Link \in Reg \ {0}
  BY WordIsWide DEF Reg
<1>4. q = c /\ Sets(r, s, Link, p + 1) /\ Same(m, l)
  BY <1>1, <1>2, <1>3 DEF Executes
<1> QED BY <1>3, <1>4 DEF Sets, Registers, Links

LEMMA Addresses ==
  ASSUME Wide, NEW r, NEW line, NEW a \in Reg, Small(r[a]), line.s1 = a, line.s2 \in Int,
         NEW b \in Nat, b = r[a] + line.s2, b < WORD
  PROVE  AddressIn(line, r) = b
<1>1. Operand1(line, r) = r[a] /\ b % WORD = b
  BY SmallIsSigned, WordIsWide DEF Operand1
<1> QED BY <1>1 DEF AddressIn

LEMMA Loads ==
  ASSUME Wide, NEW p \in 0 .. 99, NEW r, NEW m, NEW q, NEW s, NEW l, Registers(r),
         NEW d \in Reg \ {0}, NEW a \in Reg, NEW c \in Int, Small(r[a]),
         NEW b \in Nat, b = r[a] + c, b < WORD, m[b] \in Nat,
         Executes(I("ld", d, a, c), p, r, m, q, s, l)
  PROVE  Assigns(p, r, m, q, s, l, d, m[b])
<1>1. PICK line : line = I("ld", d, a, c)
  OBVIOUS
<1>2. line.op = "ld" /\ line.dest = d /\ line.s1 = a /\ line.s2 = c
  BY <1>1 DEF I
<1>3. AddressIn(line, r) = b
  BY <1>2, Addresses
<1>4. (p + 1) % WORD = p + 1
  BY WordIsWide
<1>5. q = p + 1 /\ Sets(r, s, d, m[b]) /\ Same(m, l)
  BY <1>1, <1>2, <1>3, <1>4 DEF Executes
<1> QED BY <1>5 DEF Assigns, Sets, Registers

LEMMA Stores ==
  ASSUME Wide, NEW p \in 0 .. 99, NEW r, NEW m, NEW q, NEW s, NEW l,
         NEW d \in Reg, NEW a \in Reg, NEW c \in Int, Small(r[a]),
         NEW b \in Nat, b = r[a] + c, b < WORD,
         Executes(I("st", d, a, c), p, r, m, q, s, l)
  PROVE  Puts(p, r, m, q, s, l, b, r[d])
<1>1. PICK line : line = I("st", d, a, c)
  OBVIOUS
<1>2. line.op = "st" /\ line.dest = d /\ line.s1 = a /\ line.s2 = c
  BY <1>1 DEF I
<1>3. AddressIn(line, r) = b
  BY <1>2, Addresses
<1>4. (p + 1) % WORD = p + 1
  BY WordIsWide
<1> QED BY <1>1, <1>2, <1>3, <1>4 DEF Executes, Puts

-------------------------------------------------------------------------------
(* fac.s.  The call for k has its frame at Base(n, k): k, and above it the    *)
(* line to return to.                                                         *)

Base(n, k) == 57 - 2 * (n - k)
Return(n, k) == IF k = n THEN 22 ELSE 13

(* the frames of the calls for k to n, and of the first one *)
Frames(n, k, m) ==
  /\ m[59] = 2
  /\ \A j \in k .. n : m[Base(n, j)] = j /\ m[Base(n, j) + 1] = Return(n, j)

FacMain(n, p, r, m) ==
  \/ p = 0
  \/ p = 1 /\ r[1] = 60
  \/ p = 18 /\ r[1] = 60 /\ r[Link] = 2
  \/ p = 19 /\ r[1] = 60 /\ m[59] = 2
  \/ p = 20 /\ r[1] = 59 /\ m[59] = 2
  \/ p = 21 /\ r[1] = 59 /\ m[59] = 2 /\ r[3] = n
  \/ p = 22 /\ r[1] = 59 /\ m[59] = 2 /\ r[3] = Factorial[n]
  \/ p = 23 /\ r[1] = 59 /\ r[5] = 2 /\ r[3] = Factorial[n]
  \/ p = 24 /\ r[1] = 60 /\ r[5] = 2 /\ r[3] = Factorial[n]
  \/ p \in {2, 25} /\ r[1] = 60 /\ r[3] = Factorial[n]

FacEnters(n, k, p, r, m) ==
  /\ r[3] = k /\ r[Link] = Return(n, k) /\ Frames(n, k + 1, m)
  /\ \/ p = 3 /\ r[1] = Base(n, k) + 2
     \/ p = 4 /\ r[1] = Base(n, k) + 2 /\ m[Base(n, k) + 1] = Return(n, k)
     \/ p = 5 /\ r[1] = Base(n, k) + 2 /\ Frames(n, k, m)
     \/ p = 6 /\ r[1] = Base(n, k) /\ Frames(n, k, m)
     \/ p = 7 /\ r[1] = Base(n, k) /\ Frames(n, k, m) /\ r[4] = Flag(k = 1)

FacOfOne(n, k, p, r, m) ==
  /\ k = 1 /\ r[Link] = Return(n, k) /\ Frames(n, k + 1, m)
  /\ \/ p = 8 /\ r[1] = Base(n, k)
     \/ p = 9 /\ r[1] = Base(n, k) /\ r[3] = 1
     \/ p = 10 /\ r[1] = Base(n, k) + 2 /\ r[3] = 1

FacRecurs(n, k, p, r, m) ==
  /\ k > 1 /\ r[1] = Base(n, k) /\ Frames(n, k, m)
  /\ \/ p = 11 /\ r[3] = k
     \/ p = 12 /\ r[3] = k - 1

FacReturns(n, k, p, r, m) ==
  /\ k > 1 /\ Frames(n, k, m)
  /\ \/ p = 13 /\ r[1] = Base(n, k) /\ r[3] = Factorial[k - 1]
     \/ p = 14 /\ r[1] = Base(n, k) /\ r[3] = Factorial[k - 1] /\ r[4] = k
     \/ p = 15 /\ r[1] = Base(n, k) /\ r[3] = Factorial[k]
     \/ p = 16 /\ r[1] = Base(n, k) /\ r[3] = Factorial[k] /\ r[5] = Return(n, k)
     \/ p = 17 /\ r[1] = Base(n, k) + 2 /\ r[3] = Factorial[k] /\ r[5] = Return(n, k)

FacAt(n, p, r, m) ==
  \/ FacMain(n, p, r, m)
  \/ \E k \in 1 .. n : \/ FacEnters(n, k, p, r, m) \/ FacOfOne(n, k, p, r, m)
                       \/ FacRecurs(n, k, p, r, m) \/ FacReturns(n, k, p, r, m)

LEMMA FacLines ==
  ASSUME NEW n, NEW P, P = Fac(n)
  PROVE  /\ Len(P) = 26
         /\ P[1] = I("addi", 1, 0, 60) /\ P[2] = I("call", 0, 0, 18)
         /\ P[3] = I("call", 0, 0, 25) /\ P[4] = I("st", Link, 1, -1)
         /\ P[5] = I("st", 3, 1, -2) /\ P[6] = I("subi", 1, 1, 2)
         /\ P[7] = I("seqi", 4, 3, 1) /\ P[8] = I("bf", 0, 4, 11)
         /\ P[9] = I("addi", 3, 0, 1) /\ P[10] = I("addi", 1, 1, 2)
         /\ P[11] = I("jmp", 0, Link, 0) /\ P[12] = I("subi", 3, 3, 1)
         /\ P[13] = I("call", 0, 0, 3) /\ P[14] = I("ld", 4, 1, 0)
         /\ P[15] = I("mul", 3, 3, 4) /\ P[16] = I("ld", 5, 1, 1)
         /\ P[17] = I("addi", 1, 1, 2) /\ P[18] = I("jmp", 0, 5, 0)
         /\ P[19] = I("st", Link, 1, -1) /\ P[20] = I("subi", 1, 1, 1)
         /\ P[21] = I("addi", 3, 0, n) /\ P[22] = I("call", 0, 0, 3)
         /\ P[23] = I("ld", 5, 1, 0) /\ P[24] = I("addi", 1, 1, 1)
         /\ P[25] = I("jmp", 0, 5, 0) /\ P[26] = I("halt", 0, 0, 0)
  BY DEF Fac, Stack

LEMMA Bases ==
  ASSUME NEW n \in 1 .. 16, NEW k \in 1 .. n
  PROVE  /\ Base(n, k) \in 27 .. 57 /\ Base(n, k + 1) = Base(n, k) + 2
         /\ Base(n, k - 1) + 2 = Base(n, k)
         /\ Base(n, n) = 57
         /\ \A j \in k + 1 .. n : Base(n, j) >= Base(n, k) + 2 /\ Base(n, j) <= 57
         /\ Return(n, k) \in {13, 22}
  BY DEF Base, Return

LEMMA SmallNumbers ==
  ASSUME Wide, NEW w \in 0 .. 100
  PROVE  Small(w) /\ w < WORD
  BY WordIsWide DEF Small

LEMMA RegisterNumbers ==
  ASSUME Wide
  PROVE  /\ 0 \in Reg /\ 1 \in Reg /\ 2 \in Reg /\ 3 \in Reg /\ 4 \in Reg /\ 5 \in Reg /\ 6 \in Reg
         /\ Link \in Reg /\ Link \in Nat /\ Link > 5
  BY WordIsWide DEF Reg

(* Frames are kept by instructions that store nothing, and by a store below them. *)
LEMMA FramesKept ==
  ASSUME NEW n \in 1 .. 16, NEW k \in 1 .. n + 1, NEW m, NEW l, NEW b \in Nat,
         Frames(n, k, m), k <= n => b < Base(n, k), b < 59,
         KeepsBut(b, m, l)
  PROVE  Frames(n, k, l)
<1>1. l[59] = 2
  BY DEF Frames, KeepsBut
<1>2. ASSUME NEW j \in k .. n
      PROVE  l[Base(n, j)] = j /\ l[Base(n, j) + 1] = Return(n, j)
  <2>1. PICK x : x = Base(n, j)
    OBVIOUS
  <2>2. x \in Nat /\ b < x /\ j \in Nat /\ Return(n, j) \in Nat
    BY <2>1 DEF Base, Return
  <2>3. m[x] = j /\ m[x + 1] = Return(n, j)
    BY <2>1 DEF Frames
  <2>4. x \in Nat \ {b} /\ x + 1 \in Nat \ {b}
    BY <2>2
  <2>5. l[x] = m[x] /\ l[x + 1] = m[x + 1]
    BY <2>2, <2>3, <2>4 DEF KeepsBut
  <2> QED BY <2>1, <2>3, <2>5
<1> QED BY <1>1, <1>2 DEF Frames

LEMMA FramesSame ==
  ASSUME NEW n \in 1 .. 16, NEW k \in 1 .. n + 1, NEW m, NEW l, Frames(n, k, m), Same(m, l)
  PROVE  Frames(n, k, l)
<1>1. 0 \in Nat /\ (k <= n => 0 < Base(n, k)) /\ 0 < 59
  BY DEF Base
<1>2. KeepsBut(0, m, l)
  BY DEF Same, KeepsBut
<1> QED BY <1>1, <1>2, FramesKept

LEMMA Factorials ==
  ASSUME Roomy, NEW n \in FacN, NEW k \in 1 .. n
  PROVE  /\ n \in 1 .. 16
         /\ Factorial[k] \in Nat \ {0} /\ Factorial[k] < WORD /\ Factorial[1] = 1
         /\ k > 1 => Factorial[k] = Factorial[k - 1] * k /\ Small(Factorial[k - 1])
<1>1. n \in 1 .. 16 /\ n \in Nat /\ Factorial[n] < WORD /\ WORD \in Nat
  BY WordIsWide DEF Roomy
<1>2. \A i \in 0 .. n : Factorial[i] \in Nat \ {0} /\ Factorial[i] <= Factorial[n]
  BY <1>1, FactorialGrows
<1>3. PICK x, y, z : x = Factorial[k - 1] /\ y = Factorial[k] /\ z = Factorial[n]
  OBVIOUS
<1>4. k - 1 \in 0 .. n /\ k \in 0 .. n /\ n \in 0 .. n /\ k \in Nat \ {0}
  BY <1>1
<1>5. x \in Nat \ {0} /\ y \in Nat \ {0} /\ y <= z /\ z \in Nat /\ z < WORD
  BY <1>1, <1>2, <1>3, <1>4
<1>6. y = k * x
  BY <1>3, <1>4, FactorialUnrolled
<1>7. k > 1 => Small(x) /\ y = x * k
  BY <1>1, <1>4, <1>5, <1>6 DEF Small
<1>8. Factorial[1] = 1
  BY FactorialUnrolled
<1> QED BY <1>1, <1>3, <1>5, <1>7, <1>8

(* from one line of fac.s to the next, outside the recursive calls *)
LEMMA FacMainStep ==
  ASSUME Roomy, NEW n \in FacN, NEW P, P = Fac(n), NEW p \in 0 .. 24,
         NEW r, NEW m, NEW q, NEW s, NEW l, Registers(r), Registers(s),
         FacMain(n, p, r, m), Executes(P[p + 1], p, r, m, q, s, l)
  PROVE  FacMain(n, q, s, l) \/ FacEnters(n, n, q, s, l)
<1>1. Wide /\ n \in 1 .. 16 /\ p \in 0 .. 99 /\ n \in 1 .. n /\ WORD \in Nat /\ WORD > 100
  BY WordIsWide DEF Roomy
<1>2. r[0] = 0 /\ \A x \in Reg : r[x] \in Nat /\ s[x] \in Nat
  BY WordIsWide, MachineAssumption DEF Registers
<1>s. Small(0) /\ Small(2) /\ Small(59) /\ Small(60) /\ 60 \in 0 .. WORD - 1 /\ 59 \in 0 .. WORD - 1
       /\ n \in 0 .. WORD - 1 /\ 59 < WORD
  BY <1>1, SmallNumbers
<1>r. /\ 0 \in Reg /\ 1 \in Reg \ {0} /\ 3 \in Reg \ {0} /\ 5 \in Reg \ {0}
      /\ 1 \in Reg /\ 3 \in Reg /\ 5 \in Reg /\ Link \in Reg
      /\ 0 # Link /\ 1 # Link /\ 3 # Link /\ 5 # Link
  BY <1>1, RegisterNumbers
<1>3. CASE p = 0
  <2>1. Executes(I("addi", 1, 0, 60), p, r, m, q, s, l)
    BY FacLines, <1>3
  <2>2. r[0] + 60 = 60
    BY <1>2
  <2>3. Assigns(p, r, m, q, s, l, 1, r[0] + 60)
    BY <1>s, <1>r, <1>1, <1>2, <2>1, <2>2, Addi
  <2> QED BY <1>r, <1>3, <2>2, <2>3 DEF Assigns, FacMain
<1>4. CASE p = 1 \/ p = 2
  <2>1. CASE p = 1
    <3>1. Executes(I("call", 0, 0, 18), p, r, m, q, s, l)
      BY FacLines, <2>1
    <3>2. Links(p, r, m, q, s, l, 18)
      <4>1. PICK c \in 0 .. 99 : c = 18 /\ Executes(I("call", 0, 0, c), p, r, m, q, s, l)
        BY <3>1
      <4>2. Links(p, r, m, q, s, l, c)
        BY <1>1, <4>1, Calls
      <4> QED BY <4>1, <4>2
    <3> QED BY <1>r, <1>1, <2>1, <3>2 DEF Links, FacMain
  <2>2. CASE p = 2
    <3>1. Executes(I("call", 0, 0, 25), p, r, m, q, s, l) /\ r[1] = 60 /\ r[3] = Factorial[n]
      BY FacLines, <2>2 DEF FacMain
    <3>2. Links(p, r, m, q, s, l, 25)
      <4>1. PICK c \in 0 .. 99 : c = 25 /\ Executes(I("call", 0, 0, c), p, r, m, q, s, l)
        BY <3>1
      <4>2. Links(p, r, m, q, s, l, c)
        BY <1>1, <4>1, Calls
      <4> QED BY <4>1, <4>2
    <3> QED BY <1>r, <1>1, <2>2, <3>1, <3>2 DEF Links, FacMain
  <2> QED BY <1>4, <2>1, <2>2
<1>5. CASE p = 18
  <2>1. Executes(I("st", Link, 1, -1), p, r, m, q, s, l) /\ r[1] = 60 /\ r[Link] = 2
    BY FacLines, <1>5 DEF FacMain
  <2>2. 59 = r[1] + -1 /\ 59 \in Nat /\ -1 \in Int
    BY <2>1
  <2>3. Puts(p, r, m, q, s, l, 59, r[Link])
    BY <1>s, <1>r, <1>1, <1>5, <2>1, <2>2, Stores
  <2> QED BY <1>5, <2>1, <2>3 DEF Puts, FacMain
<1>6. CASE p = 19
  <2>1. Executes(I("subi", 1, 1, 1), p, r, m, q, s, l) /\ r[1] = 60 /\ m[59] = 2
    BY FacLines, <1>6 DEF FacMain
  <2>2. r[1] - 1 = 59
    BY <2>1
  <2>3. Assigns(p, r, m, q, s, l, 1, r[1] - 1)
    BY <1>s, <1>r, <1>1, <2>1, <2>2, Subi
  <2> QED BY <1>r, <1>6, <2>1, <2>2, <2>3 DEF Assigns, Same, FacMain
<1>7. CASE p = 20
  <2>1. Executes(I("addi", 3, 0, n), p, r, m, q, s, l) /\ r[1] = 59 /\ m[59] = 2
    BY FacLines, <1>7 DEF FacMain
  <2>2. r[0] + n = n
    BY <1>1, <1>2
  <2>3. Assigns(p, r, m, q, s, l, 3, r[0] + n)
    BY <1>s, <1>r, <1>1, <1>2, <2>1, <2>2, Addi
  <2>4. q = 21 /\ s[1] = 59 /\ s[3] = n
    BY <1>r, <1>7, <2>1, <2>2, <2>3 DEF Assigns
  <2>5. l[59] = 2
    BY <1>r, <2>1, <2>3 DEF Assigns, Same
  <2> QED BY <2>4, <2>5 DEF FacMain
<1>8. CASE p = 21
  <2>1. Executes(I("call", 0, 0, 3), p, r, m, q, s, l) /\ r[1] = 59 /\ m[59] = 2 /\ r[3] = n
    BY FacLines, <1>8 DEF FacMain
  <2>4. Links(p, r, m, q, s, l, 3)
    <3>1. PICK c \in 0 .. 99 : c = 3 /\ Executes(I("call", 0, 0, c), p, r, m, q, s, l)
      BY <2>1
    <3>2. Links(p, r, m, q, s, l, c)
      BY <1>1, <3>1, Calls
    <3> QED BY <3>1, <3>2
  <2>5. l[59] = 2
    BY <1>r, <2>1, <2>4 DEF Links, Same
  <2>2. q = 3 /\ s[Link] = 22 /\ s[1] = 59 /\ s[3] = n /\ l[59] = 2
    BY <1>r, <1>8, <2>1, <2>4, <2>5 DEF Links
  <2>3. Return(n, n) = 22 /\ Base(n, n) + 2 = 59 /\ Frames(n, n + 1, l)
    BY <1>1, <2>2 DEF Return, Base, Frames
  <2> QED BY <2>2, <2>3 DEF FacEnters
<1>9. CASE p = 22
  <2>1. /\ Executes(I("ld", 5, 1, 0), p, r, m, q, s, l)
        /\ r[1] = 59 /\ m[59] = 2 /\ r[3] = Factorial[n]
    BY FacLines, <1>9 DEF FacMain
  <2>2. 59 = r[1] + 0 /\ m[59] \in Nat
    BY <2>1
  <2>3. Assigns(p, r, m, q, s, l, 5, m[59])
    <3>1. PICK b \in Nat : b = r[1] + 0 /\ b = 59
      BY <2>2
    <3>2. m[b] \in Nat /\ b < WORD /\ Small(r[1]) /\ 0 \in Int
      BY <1>s, <2>1, <3>1
    <3>3. Assigns(p, r, m, q, s, l, 5, m[b])
      <4>1. PICK d \in Reg \ {0}, a \in Reg, c \in Int : d = 5 /\ a = 1 /\ c = 0
        BY <1>r
      <4>2. Executes(I("ld", d, a, c), p, r, m, q, s, l) /\ b = r[a] + c /\ Small(r[a])
        BY <2>1, <3>1, <3>2, <4>1
      <4>3. Assigns(p, r, m, q, s, l, d, m[b])
        BY <1>1, <3>2, <4>2, Loads
      <4> QED BY <4>1, <4>3
    <3> QED BY <3>1, <3>3
  <2>4. q = 23 /\ s[1] = 59 /\ s[3] = Factorial[n] /\ s[5] = 2
    BY <1>r, <1>9, <2>1, <2>3 DEF Assigns
  <2> QED BY <2>4 DEF FacMain
<1>10. CASE p = 23
  <2>1. Executes(I("addi", 1, 1, 1), p, r, m, q, s, l) /\ r[1] = 59 /\ r[5] = 2 /\ r[3] = Factorial[n]
    BY FacLines, <1>10 DEF FacMain
  <2>2. r[1] + 1 = 60
    BY <2>1
  <2>3. Assigns(p, r, m, q, s, l, 1, r[1] + 1)
    BY <1>s, <1>r, <1>1, <2>1, <2>2, Addi
  <2>4. q = 24 /\ s[1] = 60 /\ s[3] = Factorial[n] /\ s[5] = 2
    BY <1>r, <1>10, <2>1, <2>2, <2>3 DEF Assigns
  <2> QED BY <2>4 DEF FacMain
<1>11. CASE p = 24
  <2>1. Executes(I("jmp", 0, 5, 0), p, r, m, q, s, l) /\ r[1] = 60 /\ r[5] = 2 /\ r[3] = Factorial[n]
    BY FacLines, <1>11 DEF FacMain
  <2>2. Jumps(r, m, q, s, l, r[5])
    BY <1>s, <1>r, <1>1, <2>1, Jmp
  <2> QED BY <2>1, <2>2 DEF Jumps, FacMain
<1>12. p \in {0, 1, 2} \cup 18 .. 24
  BY DEF FacMain
<1> QED BY <1>3, <1>4, <1>5, <1>6, <1>7, <1>8, <1>9, <1>10, <1>11, <1>12

(* The call for k, up to the test whether k is 1. *)
LEMMA FacEntersStep ==
  ASSUME Roomy, NEW n \in FacN, NEW P, P = Fac(n), NEW k \in 1 .. n, NEW p \in 0 .. 24,
         NEW r, NEW m, NEW q, NEW s, NEW l, Registers(r), Registers(s),
         FacEnters(n, k, p, r, m), Executes(P[p + 1], p, r, m, q, s, l)
  PROVE  FacEnters(n, k, q, s, l) \/ FacOfOne(n, k, q, s, l) \/ FacRecurs(n, k, q, s, l)
<1>1. /\ Wide /\ n \in 1 .. 16 /\ p \in 0 .. 99 /\ k \in Nat /\ k > 0 /\ k <= 16
      /\ k \in 1 .. n + 1 /\ k + 1 \in 1 .. n + 1
  BY DEF Roomy
<1>r. /\ 1 \in Reg \ {0} /\ 4 \in Reg \ {0} /\ 1 \in Reg /\ 3 \in Reg /\ 4 \in Reg /\ Link \in Reg
      /\ 1 # Link /\ 3 # Link /\ 4 # Link
  BY <1>1, RegisterNumbers
<1>2. PICK b, t : b = Base(n, k) /\ t = Return(n, k)
  OBVIOUS
<1>3. /\ b \in 27 .. 57 /\ b \in Nat /\ b + 1 \in Nat /\ b + 2 \in Nat /\ t \in {13, 22}
      /\ Base(n, k + 1) = b + 2
  BY <1>1, <1>2, Bases
<1>s. /\ Small(b) /\ Small(b + 2) /\ b < WORD /\ b + 1 < WORD /\ Small(k) /\ Small(0) /\ Small(1)
      /\ b \in 0 .. WORD - 1
  <2>1. b \in 0 .. 100 /\ b + 1 \in 0 .. 100 /\ b + 2 \in 0 .. 100 /\ k \in 0 .. 100
    BY <1>1, <1>3
  <2>2. WORD \in Nat
    BY <1>1, WordIsWide
  <2> QED BY <1>1, <2>1, <2>2, SmallNumbers
<1>4. r[3] = k /\ r[Link] = t /\ Frames(n, k + 1, m)
  BY <1>2 DEF FacEnters
<1>5. Same(m, l) => Frames(n, k + 1, l) /\ (Frames(n, k, m) => Frames(n, k, l))
  BY <1>1, <1>4, FramesSame
<1>6. CASE p = 3
  <2>1. Executes(I("st", Link, 1, -1), p, r, m, q, s, l) /\ r[1] = b + 2
    BY FacLines, <1>2, <1>6 DEF FacEnters
  <2>2. PICK c \in Nat : c = r[1] + -1 /\ c = b + 1 /\ c < WORD
    BY <1>3, <1>s, <2>1
  <2>3. Puts(p, r, m, q, s, l, c, r[Link])
    BY <1>s, <1>r, <1>1, <2>1, <2>2, Stores
  <2>4. Frames(n, k + 1, l)
    <3>1. c < 59 /\ (k + 1 <= n => c < Base(n, k + 1))
      BY <1>3, <2>2
    <3>2. KeepsBut(c, m, l)
      BY <2>3 DEF Puts
    <3> QED BY <1>1, <1>4, <3>1, <3>2, FramesKept
  <2>5. q = 4 /\ s = r /\ l[b + 1] = t
    BY <1>4, <1>6, <2>2, <2>3 DEF Puts
  <2> QED BY <1>2, <1>4, <2>1, <2>4, <2>5 DEF FacEnters
<1>7. CASE p = 4
  <2>1. Executes(I("st", 3, 1, -2), p, r, m, q, s, l) /\ r[1] = b + 2 /\ m[b + 1] = t
    BY FacLines, <1>2, <1>7 DEF FacEnters
  <2>2. b = r[1] + -2
    BY <1>3, <2>1
  <2>3. Puts(p, r, m, q, s, l, b, r[3])
    BY <1>s, <1>r, <1>1, <1>3, <2>1, <2>2, Stores
  <2>4. KeepsBut(b, m, l)
    BY <2>3 DEF Puts
  <2>5. Frames(n, k + 1, l)
    <3>1. b < 59 /\ (k + 1 <= n => b < Base(n, k + 1))
      BY <1>3
    <3> QED BY <1>1, <1>3, <1>4, <2>4, <3>1, FramesKept
  <2>6. q = 5 /\ s = r /\ l[b] = k
    BY <1>4, <1>7, <2>3 DEF Puts
  <2>7. l[b + 1] = t
    <3>1. b + 1 \in Nat \ {b} /\ t \in Nat
      BY <1>3
    <3> QED BY <2>1, <2>4, <3>1 DEF KeepsBut
  <2>8. Frames(n, k, l)
    <3>1. \A j \in k .. n : j = k \/ j \in k + 1 .. n
      BY <1>1
    <3> QED BY <1>2, <2>5, <2>6, <2>7, <3>1 DEF Frames
  <2> QED BY <1>2, <1>4, <2>1, <2>5, <2>6, <2>8 DEF FacEnters
<1>8. CASE p = 5
  <2>1. Executes(I("subi", 1, 1, 2), p, r, m, q, s, l) /\ r[1] = b + 2 /\ Frames(n, k, m)
    BY FacLines, <1>2, <1>8 DEF FacEnters
  <2>2. r[1] - 2 = b
    BY <1>3, <2>1
  <2>3. Assigns(p, r, m, q, s, l, 1, r[1] - 2)
    BY <1>s, <1>r, <1>1, <2>1, <2>2, Subi
  <2>4. q = 6 /\ s[1] = b /\ s[3] = k /\ s[Link] = t /\ Same(m, l)
    BY <1>r, <1>4, <1>8, <2>2, <2>3 DEF Assigns
  <2> QED BY <1>2, <1>5, <2>1, <2>4 DEF FacEnters
<1>9. CASE p = 6
  <2>1. Executes(I("seqi", 4, 3, 1), p, r, m, q, s, l) /\ r[1] = b /\ Frames(n, k, m)
    BY FacLines, <1>2, <1>9 DEF FacEnters
  <2>2. Assigns(p, r, m, q, s, l, 4, Flag(r[3] = 1))
    BY <1>s, <1>r, <1>1, <1>4, <2>1, Seqi
  <2>3. q = 7 /\ s[1] = b /\ s[3] = k /\ s[Link] = t /\ s[4] = Flag(k = 1) /\ Same(m, l)
    BY <1>r, <1>4, <1>9, <2>1, <2>2 DEF Assigns
  <2> QED BY <1>2, <1>5, <2>1, <2>3 DEF FacEnters
<1>10. CASE p = 7
  <2>0. Executes(I("bf", 0, 4, 11), p, r, m, q, s, l)
    BY FacLines, <1>10
  <2>1. r[1] = b /\ Frames(n, k, m) /\ r[4] = Flag(k = 1)
    BY <1>2, <1>10 DEF FacEnters
  <2>2. Small(r[4])
    BY <1>s, <2>1 DEF Flag
  <2>3. PICK g : (r[4] = 0 => g = 11) /\ (r[4] # 0 => g = p + 1)
    OBVIOUS
  <2>4. Jumps(r, m, q, s, l, g)
    <3>1. 4 \in Reg /\ p \in 0 .. 99 /\ Wide /\ 11 \in 0 .. 99
      BY <1>r, <1>1
    <3> QED BY <3>1, <2>0, <2>2, <2>3, Bf
  <2>5. s = r /\ Same(m, l) /\ q = IF k = 1 THEN 8 ELSE 11
    <3>1. r[4] = 0 <=> k # 1
      BY <2>1 DEF Flag
    <3>2. g = IF k = 1 THEN 8 ELSE 11
      BY <1>10, <2>3, <3>1
    <3> QED BY <2>4, <3>2 DEF Jumps
  <2>6. CASE k = 1
    BY <1>2, <1>4, <1>5, <2>1, <2>5, <2>6 DEF FacOfOne
  <2>7. CASE k > 1
    BY <1>2, <1>4, <1>5, <2>1, <2>5, <2>7 DEF FacRecurs
  <2> QED BY <1>1, <2>6, <2>7
<1>11. p \in 3 .. 7
  BY DEF FacEnters
<1> QED BY <1>6, <1>7, <1>8, <1>9, <1>10, <1>11

(* Where the call for k returns to, its result is used. *)
LEMMA FacReturned ==
  ASSUME Roomy, NEW n \in FacN, NEW k \in 1 .. n, NEW q, NEW s, NEW l,
         q = Return(n, k), s[3] = Factorial[k], s[1] = Base(n, k) + 2, Frames(n, k + 1, l)
  PROVE  FacAt(n, q, s, l)
<1>1. n \in 1 .. 16 /\ k \in Nat /\ k >= 1 /\ k <= n /\ n \in Nat
  BY DEF Roomy
<1>2. CASE k = n
  <2>1. q = 22 /\ s[1] = 59 /\ l[59] = 2 /\ s[3] = Factorial[n]
    BY <1>1, <1>2 DEF Return, Base, Frames
  <2> QED BY <2>1 DEF FacMain, FacAt
<1>3. CASE k < n
  <2>1. PICK i \in 1 .. n : i = k + 1
    BY <1>1, <1>3
  <2>2. q = 13 /\ i > 1 /\ i - 1 = k /\ Base(n, i) = Base(n, k) + 2
    BY <1>1, <1>3, <2>1 DEF Return, Base
  <2>3. FacReturns(n, i, q, s, l)
    BY <2>1, <2>2 DEF FacReturns
  <2> QED BY <2>3 DEF FacAt
<1> QED BY <1>1, <1>2, <1>3

LEMMA FacOfOneStep ==
  ASSUME Roomy, NEW n \in FacN, NEW P, P = Fac(n), NEW k \in 1 .. n, NEW p \in 0 .. 24,
         NEW r, NEW m, NEW q, NEW s, NEW l, Registers(r), Registers(s),
         FacOfOne(n, k, p, r, m), Executes(P[p + 1], p, r, m, q, s, l)
  PROVE  FacAt(n, q, s, l)
<1>1. Wide /\ n \in 1 .. 16 /\ p \in 0 .. 99 /\ k + 1 \in 1 .. n + 1
  BY DEF Roomy
<1>r. /\ 0 \in Reg /\ 1 \in Reg \ {0} /\ 3 \in Reg \ {0} /\ 1 \in Reg /\ 3 \in Reg /\ Link \in Reg
      /\ 1 # Link /\ 3 # Link
  BY <1>1, RegisterNumbers
<1>2. PICK b, t : b = Base(n, k) /\ t = Return(n, k)
  OBVIOUS
<1>3. b \in 27 .. 57 /\ b \in Nat /\ b + 2 \in Nat /\ t \in {13, 22}
  BY <1>1, <1>2, Bases
<1>s. /\ Small(b) /\ Small(0) /\ b + 2 \in 0 .. WORD - 1 /\ 1 \in 0 .. WORD - 1
  <2>1. b \in 0 .. 100 /\ b + 2 \in 0 .. 100 /\ 1 \in 0 .. 100 /\ 0 \in 0 .. 100
    BY <1>3
  <2>2. WORD \in Nat
    BY <1>1, WordIsWide
  <2> QED BY <1>1, <2>1, <2>2, SmallNumbers
<1>4. k = 1 /\ r[Link] = t /\ Frames(n, k + 1, m)
  BY <1>2 DEF FacOfOne
<1>5. Same(m, l) => Frames(n, k + 1, l)
  BY <1>1, <1>4, FramesSame
<1>6. CASE p = 8
  <2>1. Executes(I("addi", 3, 0, 1), p, r, m, q, s, l) /\ r[1] = b
    BY FacLines, <1>2, <1>6 DEF FacOfOne
  <2>2. r[0] = 0 /\ r[0] + 1 = 1
    BY DEF Registers
  <2>3. Assigns(p, r, m, q, s, l, 3, r[0] + 1)
    BY <1>s, <1>r, <1>1, <2>1, <2>2, Addi
  <2>4. q = 9 /\ s[1] = b /\ s[3] = 1 /\ s[Link] = t /\ Same(m, l)
    BY <1>r, <1>4, <1>6, <2>1, <2>2, <2>3 DEF Assigns
  <2>5. FacOfOne(n, k, q, s, l)
    BY <1>2, <1>4, <1>5, <2>4 DEF FacOfOne
  <2> QED BY <2>5 DEF FacAt
<1>7. CASE p = 9
  <2>1. Executes(I("addi", 1, 1, 2), p, r, m, q, s, l) /\ r[1] = b /\ r[3] = 1
    BY FacLines, <1>2, <1>7 DEF FacOfOne
  <2>2. Assigns(p, r, m, q, s, l, 1, r[1] + 2)
    BY <1>s, <1>r, <1>1, <2>1, Addi
  <2>3. q = 10 /\ s[1] = b + 2 /\ s[3] = 1 /\ s[Link] = t /\ Same(m, l)
    BY <1>r, <1>4, <1>7, <2>1, <2>2 DEF Assigns
  <2>4. FacOfOne(n, k, q, s, l)
    BY <1>2, <1>4, <1>5, <2>3 DEF FacOfOne
  <2> QED BY <2>4 DEF FacAt
<1>8. CASE p = 10
  <2>1. Executes(I("jmp", 0, Link, 0), p, r, m, q, s, l) /\ r[1] = b + 2 /\ r[3] = 1
    BY FacLines, <1>2, <1>8 DEF FacOfOne
  <2>2. r[Link] \in 0 .. 99
    BY <1>3, <1>4
  <2>3. Jumps(r, m, q, s, l, r[Link])
    BY <1>r, <1>1, <2>1, <2>2, Jmp
  <2>4. q = t /\ s[1] = b + 2 /\ s[3] = Factorial[k] /\ Frames(n, k + 1, l)
    BY <1>4, <1>5, <2>1, <2>3, FactorialUnrolled DEF Jumps
  <2> QED BY <1>2, <2>4, FacReturned
<1>9. p \in 8 .. 10
  BY DEF FacOfOne
<1> QED BY <1>6, <1>7, <1>8, <1>9

LEMMA FacRecursStep ==
  ASSUME Roomy, NEW n \in FacN, NEW P, P = Fac(n), NEW k \in 1 .. n, NEW p \in 0 .. 24,
         NEW r, NEW m, NEW q, NEW s, NEW l, Registers(r), Registers(s),
         FacRecurs(n, k, p, r, m), Executes(P[p + 1], p, r, m, q, s, l)
  PROVE  FacAt(n, q, s, l)
<1>1. Wide /\ n \in 1 .. 16 /\ p \in 0 .. 99 /\ k \in 1 .. n + 1 /\ k \in Nat /\ k <= 16
  BY DEF Roomy
<1>r. 0 \in Reg /\ 3 \in Reg \ {0} /\ 1 \in Reg /\ 3 \in Reg /\ Link \in Reg /\ 1 # Link /\ 3 # Link
  BY <1>1, RegisterNumbers
<1>2. PICK b : b = Base(n, k)
  OBVIOUS
<1>3. k > 1 /\ r[1] = b /\ Frames(n, k, m)
  BY <1>2 DEF FacRecurs
<1>4. Same(m, l) => Frames(n, k, l)
  BY <1>1, <1>3, FramesSame
<1>s. Small(k) /\ k - 1 \in 0 .. WORD - 1
  <2>1. k \in 0 .. 100 /\ k - 1 \in 0 .. 100
    BY <1>1, <1>3
  <2>2. WORD \in Nat
    BY <1>1, WordIsWide
  <2> QED BY <1>1, <2>1, <2>2, SmallNumbers
<1>5. CASE p = 11
  <2>1. Executes(I("subi", 3, 3, 1), p, r, m, q, s, l) /\ r[3] = k
    BY FacLines, <1>5 DEF FacRecurs
  <2>2. Assigns(p, r, m, q, s, l, 3, r[3] - 1)
    BY <1>s, <1>r, <1>1, <2>1, Subi
  <2>3. q = 12 /\ s[1] = b /\ s[3] = k - 1 /\ Same(m, l)
    BY <1>r, <1>3, <1>5, <2>1, <2>2 DEF Assigns
  <2>4. FacRecurs(n, k, q, s, l)
    BY <1>2, <1>3, <1>4, <2>3 DEF FacRecurs
  <2> QED BY <2>4 DEF FacAt
<1>6. CASE p = 12
  <2>1. Executes(I("call", 0, 0, 3), p, r, m, q, s, l) /\ r[3] = k - 1
    BY FacLines, <1>6 DEF FacRecurs
  <2>2. Links(p, r, m, q, s, l, 3)
    <3>1. PICK c \in 0 .. 99 : c = 3 /\ Executes(I("call", 0, 0, c), p, r, m, q, s, l)
      BY <2>1
    <3>2. Links(p, r, m, q, s, l, c)
      BY <1>1, <3>1, Calls
    <3> QED BY <3>1, <3>2
  <2>3. q = 3 /\ s[Link] = 13 /\ s[1] = b /\ s[3] = k - 1 /\ Same(m, l)
    BY <1>r, <1>3, <1>6, <2>1, <2>2 DEF Links
  <2>4. PICK i \in 1 .. n : i = k - 1
    BY <1>1, <1>3
  <2>5. i + 1 = k /\ Base(n, i) + 2 = b /\ Return(n, i) = 13
    BY <1>1, <1>2, <1>3, <2>4 DEF Base, Return
  <2>6. FacEnters(n, i, q, s, l)
    BY <1>4, <2>3, <2>4, <2>5 DEF FacEnters
  <2> QED BY <2>6 DEF FacAt
<1>7. p \in {11, 12}
  BY DEF FacRecurs
<1> QED BY <1>5, <1>6, <1>7

LEMMA FacReturnsStep ==
  ASSUME Roomy, NEW n \in FacN, NEW P, P = Fac(n), NEW k \in 1 .. n, NEW p \in 0 .. 24,
         NEW r, NEW m, NEW q, NEW s, NEW l, Registers(r), Registers(s),
         FacReturns(n, k, p, r, m), Executes(P[p + 1], p, r, m, q, s, l)
  PROVE  FacAt(n, q, s, l)
<1>1. Wide /\ n \in 1 .. 16 /\ p \in 0 .. 99 /\ k \in 1 .. n + 1 /\ k \in Nat /\ k <= 16
  BY DEF Roomy
<1>r. /\ 1 \in Reg \ {0} /\ 3 \in Reg \ {0} /\ 4 \in Reg \ {0} /\ 5 \in Reg \ {0}
      /\ 1 \in Reg /\ 3 \in Reg /\ 4 \in Reg /\ 5 \in Reg
  BY <1>1, RegisterNumbers
<1>2. PICK b, t, x, y : b = Base(n, k) /\ t = Return(n, k) /\ x = Factorial[k - 1] /\ y = Factorial[k]
  OBVIOUS
<1>3. /\ b \in 27 .. 57 /\ b \in Nat /\ b + 1 \in Nat /\ b + 2 \in Nat /\ t \in {13, 22} /\ t \in Nat
  BY <1>1, <1>2, Bases
<1>4. k > 1 /\ Frames(n, k, m)
  BY DEF FacReturns
<1>5. y \in Nat /\ y < WORD /\ Small(x) /\ y = x * k /\ x \in Nat
  BY <1>2, <1>4, Factorials DEF Small
<1>6. m[b] = k /\ m[b + 1] = t
  BY <1>1, <1>2, <1>4 DEF Frames
<1>7. Same(m, l) => Frames(n, k, l)
  BY <1>1, <1>4, FramesSame
<1>s. Small(b) /\ b < WORD /\ b + 1 < WORD /\ b + 2 \in 0 .. WORD - 1 /\ Small(k)
  <2>1. b \in 0 .. 100 /\ b + 1 \in 0 .. 100 /\ b + 2 \in 0 .. 100 /\ k \in 0 .. 100
    BY <1>1, <1>3
  <2>2. WORD \in Nat
    BY <1>1, WordIsWide
  <2> QED BY <1>1, <2>1, <2>2, SmallNumbers
<1>8. CASE p = 13
  <2>1. Executes(I("ld", 4, 1, 0), p, r, m, q, s, l) /\ r[1] = b /\ r[3] = x
    BY FacLines, <1>2, <1>8 DEF FacReturns
  <2>2. Assigns(p, r, m, q, s, l, 4, m[b])
    <3>1. b = r[1] + 0 /\ m[b] \in Nat /\ Small(r[1]) /\ 0 \in Int
      BY <1>s, <1>1, <1>3, <1>6, <2>1
    <3> QED BY <1>s, <1>r, <1>1, <1>3, <2>1, <3>1, Loads
  <2>3. q = 14 /\ s[1] = b /\ s[3] = x /\ s[4] = k /\ Same(m, l)
    BY <1>r, <1>6, <1>8, <2>1, <2>2 DEF Assigns
  <2>4. FacReturns(n, k, q, s, l)
    BY <1>2, <1>4, <1>7, <2>3 DEF FacReturns
  <2> QED BY <2>4 DEF FacAt
<1>9. CASE p = 14
  <2>1. Executes(I("mul", 3, 3, 4), p, r, m, q, s, l) /\ r[1] = b /\ r[3] = x /\ r[4] = k
    BY FacLines, <1>2, <1>9 DEF FacReturns
  <2>2. r[3] * r[4] = y /\ Small(r[3]) /\ Small(r[4]) /\ r[3] * r[4] < WORD
    BY <1>s, <1>5, <2>1
  <2>3. Assigns(p, r, m, q, s, l, 3, r[3] * r[4])
    BY <1>r, <1>1, <2>1, <2>2, Mul
  <2>4. q = 15 /\ s[1] = b /\ s[3] = y /\ Same(m, l)
    BY <1>r, <1>9, <2>1, <2>2, <2>3 DEF Assigns
  <2>5. FacReturns(n, k, q, s, l)
    BY <1>2, <1>4, <1>7, <2>4 DEF FacReturns
  <2> QED BY <2>5 DEF FacAt
<1>10. CASE p = 15
  <2>1. Executes(I("ld", 5, 1, 1), p, r, m, q, s, l) /\ r[1] = b /\ r[3] = y
    BY FacLines, <1>2, <1>10 DEF FacReturns
  <2>2. PICK c \in Nat : c = r[1] + 1 /\ c = b + 1
    BY <1>3, <2>1
  <2>3. Assigns(p, r, m, q, s, l, 5, m[c])
    <3>1. m[c] \in Nat /\ Small(r[1]) /\ c < WORD /\ 1 \in Int
      BY <1>s, <1>3, <1>6, <2>1, <2>2
    <3> QED BY <1>r, <1>1, <2>1, <2>2, <3>1, Loads
  <2>4. q = 16 /\ s[1] = b /\ s[3] = y /\ s[5] = t /\ Same(m, l)
    BY <1>r, <1>6, <1>10, <2>1, <2>2, <2>3 DEF Assigns
  <2>5. FacReturns(n, k, q, s, l)
    BY <1>2, <1>4, <1>7, <2>4 DEF FacReturns
  <2> QED BY <2>5 DEF FacAt
<1>11. CASE p = 16
  <2>1. Executes(I("addi", 1, 1, 2), p, r, m, q, s, l) /\ r[1] = b /\ r[3] = y /\ r[5] = t
    BY FacLines, <1>2, <1>11 DEF FacReturns
  <2>2. Assigns(p, r, m, q, s, l, 1, r[1] + 2)
    BY <1>s, <1>r, <1>1, <2>1, Addi
  <2>3. q = 17 /\ s[1] = b + 2 /\ s[3] = y /\ s[5] = t /\ Same(m, l)
    BY <1>r, <1>11, <2>1, <2>2 DEF Assigns
  <2>4. FacReturns(n, k, q, s, l)
    BY <1>2, <1>4, <1>7, <2>3 DEF FacReturns
  <2> QED BY <2>4 DEF FacAt
<1>12. CASE p = 17
  <2>1. Executes(I("jmp", 0, 5, 0), p, r, m, q, s, l) /\ r[1] = b + 2 /\ r[3] = y /\ r[5] = t
    BY FacLines, <1>2, <1>12 DEF FacReturns
  <2>2. r[5] \in 0 .. 99
    BY <1>3, <2>1
  <2>3. Jumps(r, m, q, s, l, r[5])
    BY <1>r, <1>1, <2>1, <2>2, Jmp
  <2>4. q = t /\ s[1] = b + 2 /\ s[3] = y /\ Frames(n, k, l)
    BY <1>7, <2>1, <2>3 DEF Jumps
  <2>5. Frames(n, k + 1, l)
    <3>1. k + 1 .. n \subseteq k .. n
      BY <1>1
    <3> QED BY <2>4, <3>1 DEF Frames
  <2> QED BY <1>2, <2>4, <2>5, FacReturned
<1>13. p \in 13 .. 17
  BY DEF FacReturns
<1> QED BY <1>8, <1>9, <1>10, <1>11, <1>12, <1>13

(* One line of fac.s after the other. *)
LEMMA FacStep ==
  ASSUME Roomy, NEW n \in FacN, NEW P, P = Fac(n), NEW p, p # 25,
         NEW r, NEW m, NEW q, NEW s, NEW l, Registers(r), Registers(s),
         FacAt(n, p, r, m), Executes(P[p + 1], p, r, m, q, s, l)
  PROVE  FacAt(n, q, s, l)
<1>1. n \in 1 .. n
  BY DEF Roomy
<1>2. CASE FacMain(n, p, r, m)
  <2>1. p \in 0 .. 24
    BY <1>2 DEF FacMain
  <2>2. FacMain(n, q, s, l) \/ FacEnters(n, n, q, s, l)
    BY <1>2, <2>1, FacMainStep
  <2> QED BY <1>1, <2>2 DEF FacAt
<1>3. ASSUME NEW k \in 1 .. n,
             FacEnters(n, k, p, r, m) \/ FacOfOne(n, k, p, r, m)
               \/ FacRecurs(n, k, p, r, m) \/ FacReturns(n, k, p, r, m)
      PROVE  FacAt(n, q, s, l)
  <2>1. p \in 0 .. 24
    BY <1>3 DEF FacEnters, FacOfOne, FacRecurs, FacReturns
  <2>2. CASE FacEnters(n, k, p, r, m)
    <3>1. FacEnters(n, k, q, s, l) \/ FacOfOne(n, k, q, s, l) \/ FacRecurs(n, k, q, s, l)
      BY <2>1, <2>2, FacEntersStep
    <3> QED BY <3>1 DEF FacAt
  <2>3. CASE FacOfOne(n, k, p, r, m)
    BY <2>1, <2>3, FacOfOneStep
  <2>4. CASE FacRecurs(n, k, p, r, m)
    BY <2>1, <2>4, FacRecursStep
  <2>5. CASE FacReturns(n, k, p, r, m)
    BY <2>1, <2>5, FacReturnsStep
  <2> QED BY <1>3, <2>2, <2>3, <2>4, <2>5
<1> QED BY <1>2, <1>3 DEF FacAt

(* Its lines fit in a word, it stores above them, and it ends with its result. *)
LEMMA FacFits ==
  ASSUME Roomy, NEW n \in FacN, NEW P, P = Fac(n), NEW p \in 0 .. 25
  PROVE  Fits(P[p + 1])
<1>1. Wide /\ n \in 1 .. 16 /\ IMM \in Nat /\ IMM > 120
  BY WordIsWide DEF Roomy, Wide
<1>2. /\ 0 \in Reg /\ 1 \in Reg /\ 2 \in Reg /\ 3 \in Reg /\ 4 \in Reg /\ 5 \in Reg /\ Link \in Reg
  BY <1>1, RegisterNumbers
<1>3. \A op : \A d \in Reg, a \in Reg, c \in -60 .. 60 : Fits(I(op, d, a, c))
  BY <1>1 DEF Fits, I
<1>4. /\ Fits(P[1]) /\ Fits(P[2]) /\ Fits(P[3]) /\ Fits(P[4]) /\ Fits(P[5]) /\ Fits(P[6])
      /\ Fits(P[7])
  BY <1>2, <1>3, FacLines
<1>5. /\ Fits(P[8]) /\ Fits(P[9]) /\ Fits(P[10]) /\ Fits(P[11]) /\ Fits(P[12]) /\ Fits(P[13])
      /\ Fits(P[14])
  BY <1>2, <1>3, FacLines
<1>6. /\ Fits(P[15]) /\ Fits(P[16]) /\ Fits(P[17]) /\ Fits(P[18]) /\ Fits(P[19])
      /\ Fits(P[20])
  BY <1>2, <1>3, FacLines
<1>7. Fits(P[21])
  BY <1>1, <1>2, <1>3, FacLines
<1>8. /\ Fits(P[22]) /\ Fits(P[23]) /\ Fits(P[24]) /\ Fits(P[25]) /\ Fits(P[26])
  BY <1>2, <1>3, FacLines
<1> QED BY <1>4, <1>5, <1>6, <1>7, <1>8

LEMMA FacEnds ==
  ASSUME NEW n, NEW p, NEW r, NEW m, FacAt(n, p, r, m)
  PROVE  p \in 0 .. 25 /\ (p = 25 => r[3] = Factorial[n] /\ r[1] = 60)
<1>1. CASE FacMain(n, p, r, m)
  BY <1>1 DEF FacMain
<1>2. ASSUME NEW k \in 1 .. n,
             FacEnters(n, k, p, r, m) \/ FacOfOne(n, k, p, r, m)
               \/ FacRecurs(n, k, p, r, m) \/ FacReturns(n, k, p, r, m)
      PROVE  p \in 3 .. 17
  BY <1>2 DEF FacEnters, FacOfOne, FacRecurs, FacReturns
<1> QED BY <1>1, <1>2 DEF FacAt

LEMMA FacStoreLines ==
  ASSUME NEW n, NEW P, P = Fac(n), NEW p \in 0 .. 25, P[p + 1].op = "st"
  PROVE  /\ p \in {3, 4, 18}
         /\ P[p + 1].s1 = 1
         /\ P[p + 1].s2 = IF p = 4 THEN -2 ELSE -1
<1>0. \A op, d, a, c : I(op, d, a, c).op = op /\ I(op, d, a, c).s1 = a /\ I(op, d, a, c).s2 = c
  BY DEF I
<1>1. /\ P[1].op = "addi" /\ P[2].op = "call" /\ P[3].op = "call" /\ P[6].op = "subi"
      /\ P[7].op = "seqi" /\ P[8].op = "bf" /\ P[9].op = "addi" /\ P[10].op = "addi"
      /\ P[11].op = "jmp" /\ P[12].op = "subi" /\ P[13].op = "call" /\ P[14].op = "ld"
  BY <1>0, FacLines
<1>2. /\ P[15].op = "mul" /\ P[16].op = "ld" /\ P[17].op = "addi" /\ P[18].op = "jmp"
      /\ P[20].op = "subi" /\ P[21].op = "addi" /\ P[22].op = "call" /\ P[23].op = "ld"
      /\ P[24].op = "addi" /\ P[25].op = "jmp" /\ P[26].op = "halt"
  BY <1>0, FacLines
<1>3. p \in {3, 4, 18}
  BY <1>1, <1>2
<1>4. /\ P[4].s1 = 1 /\ P[4].s2 = -1 /\ P[5].s1 = 1 /\ P[5].s2 = -2
      /\ P[19].s1 = 1 /\ P[19].s2 = -1
  BY <1>0, FacLines
<1> QED BY <1>3, <1>4

LEMMA FacStores ==
  ASSUME Roomy, NEW n \in FacN, NEW P, P = Fac(n), NEW p, NEW r, NEW m, Registers(r),
         FacAt(n, p, r, m), P[p + 1].op = "st"
  PROVE  AddressIn(P[p + 1], r) >= 26
<1>1. Wide /\ n \in 1 .. 16
  BY DEF Roomy
<1>r. 1 \in Reg
  BY <1>1, RegisterNumbers
<1>2. ASSUME NEW b \in 26 .. 59, NEW c \in {-1, -2}, r[1] = b - c, P[p + 1].s1 = 1, P[p + 1].s2 = c
      PROVE  AddressIn(P[p + 1], r) >= 26
  <2>1. b \in Nat /\ b = r[1] + P[p + 1].s2 /\ P[p + 1].s2 \in Int /\ r[1] \in 0 .. 100
    BY <1>2
  <2>2. Small(r[1]) /\ b < WORD
    BY <1>1, <2>1, SmallNumbers
  <2>3. PICK line : line = P[p + 1]
    OBVIOUS
  <2>4. AddressIn(line, r) = b
    BY <1>1, <1>r, <1>2, <2>1, <2>2, <2>3, Addresses
  <2> QED BY <1>2, <2>3, <2>4
<1>3. p \in {3, 4, 18} /\ P[p + 1].s1 = 1 /\ P[p + 1].s2 = IF p = 4 THEN -2 ELSE -1
  BY FacEnds, FacStoreLines
<1>4. CASE FacMain(n, p, r, m)
  <2>1. p = 18
    BY <1>3, <1>4 DEF FacMain
  <2>2. r[1] = 59 - -1
    BY <1>4, <2>1 DEF FacMain
  <2> QED BY <1>2, <1>3, <2>1, <2>2
<1>5. ASSUME NEW k \in 1 .. n, FacEnters(n, k, p, r, m)
      PROVE  AddressIn(P[p + 1], r) >= 26
  <2>1. p \in {3, 4}
    BY <1>3, <1>5 DEF FacEnters
  <2>2. PICK b \in 27 .. 57 : b = Base(n, k)
    BY <1>1, Bases
  <2>3. r[1] = b + 2
    BY <1>5, <2>1, <2>2 DEF FacEnters
  <2>4. CASE p = 3
    <3>1. b + 1 \in 26 .. 59 /\ r[1] = (b + 1) - -1
      BY <2>3
    <3> QED BY <1>2, <1>3, <2>4, <3>1
  <2>5. CASE p = 4
    <3>1. b \in 26 .. 59 /\ r[1] = b - -2
      BY <2>3
    <3> QED BY <1>2, <1>3, <2>5, <3>1
  <2> QED BY <2>1, <2>4, <2>5
<1>6. ASSUME NEW k \in 1 .. n,
             FacOfOne(n, k, p, r, m) \/ FacRecurs(n, k, p, r, m) \/ FacReturns(n, k, p, r, m)
      PROVE  FALSE
  <2>1. p \in 8 .. 17
    BY <1>6 DEF FacOfOne, FacRecurs, FacReturns
  <2> QED BY <1>3, <2>1
<1> QED BY <1>4, <1>5, <1>6 DEF FacAt

-------------------------------------------------------------------------------
(* The loop of Gcd.  Subtraction keeps the common divisors of its operands.   *)

LEMMA DividesMeans ==
  ASSUME NEW d \in Nat \ {0}, NEW n \in Nat
  PROVE  Divides(d, n) <=> \E i \in Nat : n = d * i
<1>1. ASSUME Divides(d, n)
      PROVE  \E i \in Nat : n = d * i
  <2>1. n % d = 0 /\ n = (d * (n \div d)) + (n % d) /\ n \div d \in Nat
    BY <1>1 DEF Divides
  <2> QED BY <2>1
<1>2. ASSUME NEW i \in Nat, n = d * i
      PROVE  Divides(d, n)
  <2>1. ((i * d) + 0) % d = 0
    BY Unpacked
  <2>2. (i * d) + 0 = n
    BY <1>2
  <2> QED BY <2>1, <2>2 DEF Divides
<1> QED BY <1>1, <1>2

LEMMA DividesDifference ==
  ASSUME NEW d \in Nat \ {0}, NEW x \in Nat, NEW y \in Nat, x >= y, Divides(d, y)
  PROVE  Divides(d, x) <=> Divides(d, x - y)
<1>1. PICK j \in Nat : y = d * j
  BY DividesMeans
<1>2. ASSUME Divides(d, x)
      PROVE  Divides(d, x - y)
  <2>1. PICK i \in Nat : x = d * i
    BY <1>2, DividesMeans
  <2>2. PICK z \in Nat : z = x - y
    OBVIOUS
  <2>3. d * (i - j) = z
    BY <1>1, <2>1, <2>2
  <2>4. i - j \in Nat
    <3>1. ~(i < j)
      <4>1. ASSUME i < j
            PROVE  FALSE
        <5>1. d * i < d * j
          BY <4>1
        <5> QED BY <1>1, <2>1, <5>1
      <4> QED BY <4>1
    <3> QED BY <3>1
  <2>5. Divides(d, z)
    BY <2>3, <2>4, DividesMeans
  <2> QED BY <2>2, <2>5
<1>3. ASSUME Divides(d, x - y)
      PROVE  Divides(d, x)
  <2>1. PICK z \in Nat : z = x - y
    OBVIOUS
  <2>2. PICK i \in Nat : z = d * i
    BY <1>3, <2>1, DividesMeans
  <2>3. x = d * (i + j) /\ i + j \in Nat
    BY <1>1, <2>1, <2>2
  <2> QED BY <2>3, DividesMeans
<1> QED BY <1>2, <1>3

(* x and y have the common divisors of a and b *)
SameDivisors(x, y, a, b) ==
  \A d \in Nat \ {0} : Divides(d, x) /\ Divides(d, y) <=> Divides(d, a) /\ Divides(d, b)

LEMMA SubtractKeepsDivisors ==
  ASSUME NEW x \in Nat, NEW y \in Nat, NEW a, NEW b, SameDivisors(x, y, a, b)
  PROVE  /\ x >= y => SameDivisors(x - y, y, a, b)
         /\ y >= x => SameDivisors(x, y - x, a, b)
<1>1. ASSUME x >= y, NEW d \in Nat \ {0}
      PROVE  Divides(d, x - y) /\ Divides(d, y) <=> Divides(d, x) /\ Divides(d, y)
  BY <1>1, DividesDifference
<1>2. ASSUME y >= x, NEW d \in Nat \ {0}
      PROVE  Divides(d, x) /\ Divides(d, y - x) <=> Divides(d, x) /\ Divides(d, y)
  BY <1>2, DividesDifference
<1> QED BY <1>1, <1>2 DEF SameDivisors

(* What two equal numbers have in common is their greatest common divisor. *)
LEMMA EqualIsGreatest ==
  ASSUME NEW x \in Nat \ {0}, NEW a \in Nat, NEW b \in Nat, SameDivisors(x, x, a, b)
  PROVE  /\ Divides(x, a) /\ Divides(x, b)
         /\ \A d \in 1 .. a : Divides(d, a) /\ Divides(d, b) => d <= x
<1>1. Divides(x, x)
  <2>1. 1 \in Nat /\ x = x * 1
    OBVIOUS
  <2> QED BY <2>1, DividesMeans
<1>2. Divides(x, a) /\ Divides(x, b)
  BY <1>1 DEF SameDivisors
<1>3. ASSUME NEW d \in 1 .. a, Divides(d, a), Divides(d, b)
      PROVE  d <= x
  <2>1. d \in Nat \ {0}
    OBVIOUS
  <2>2. Divides(d, x)
    BY <1>3, <2>1 DEF SameDivisors
  <2>3. PICK i \in Nat : x = d * i
    BY <2>1, <2>2, DividesMeans
  <2>4. i # 0
    BY <2>1, <2>3
  <2>5. d * i >= d * 1
    BY <2>1, <2>3, <2>4
  <2> QED BY <2>1, <2>3, <2>5
<1> QED BY <1>2, <1>3

GcdAt(a, b, p, r) ==
  \/ p = 0
  \/ p = 1 /\ r[3] = a
  \/ /\ r[3] \in 1 .. a /\ r[4] \in 1 .. b /\ SameDivisors(r[3], r[4], a, b)
     /\ \/ p \in {2, 7, 9}
        \/ p = 3 /\ r[5] \in {0, 1} /\ (r[5] = 1 <=> r[3] = r[4])
        \/ p = 4 /\ r[3] # r[4]
        \/ p = 5 /\ r[3] # r[4] /\ r[5] \in {0, 1} /\ (r[5] = 1 <=> r[3] > r[4])
        \/ p = 6 /\ r[3] > r[4]
        \/ p = 8 /\ r[3] < r[4]
        \/ p = 10 /\ r[3] = r[4]

LEMMA GcdLines ==
  ASSUME NEW a, NEW b, NEW P, P = Gcd(a, b)
  PROVE  /\ Len(P) = 11
         /\ P[1] = I("addi", 3, 0, a) /\ P[2] = I("addi", 4, 0, b)
         /\ P[3] = I("seq", 5, 3, 4) /\ P[4] = I("bt", 0, 5, 10)
         /\ P[5] = I("sgt", 5, 3, 4) /\ P[6] = I("bf", 0, 5, 8)
         /\ P[7] = I("sub", 3, 3, 4) /\ P[8] = I("ba", 0, 0, 2)
         /\ P[9] = I("sub", 4, 4, 3) /\ P[10] = I("ba", 0, 0, 2)
         /\ P[11] = I("halt", 0, 0, 0)
  BY DEF Gcd

(* One line of Gcd after the other. *)
LEMMA GcdStep ==
  ASSUME Roomy, NEW a \in GcdN, NEW b \in GcdN, NEW P, P = Gcd(a, b), NEW p, p # 10,
         NEW r, NEW m, NEW q, NEW s, NEW l, Registers(r), Registers(s),
         GcdAt(a, b, p, r), Executes(P[p + 1], p, r, m, q, s, l)
  PROVE  GcdAt(a, b, q, s)
<1>1. /\ Wide /\ a \in Nat /\ a > 0 /\ b \in Nat /\ b > 0
      /\ Small(a) /\ Small(b) /\ a \in 0 .. WORD - 1 /\ b \in 0 .. WORD - 1 /\ Small(0)
  BY WordIsWide DEF Roomy, Small
<1>w. Wide
  BY <1>1
<1>r. /\ 0 \in Reg /\ 3 \in Reg \ {0} /\ 4 \in Reg \ {0} /\ 5 \in Reg \ {0}
      /\ 3 \in Reg /\ 4 \in Reg /\ 5 \in Reg
  BY <1>1, RegisterNumbers
<1>p. p \in 0 .. 9 /\ p \in 0 .. 99
  BY DEF GcdAt
<1>2. r[0] = 0 /\ r[0] + a = a /\ r[0] + b = b
  BY <1>1 DEF Registers
<1>3. CASE p = 0
  <2>1. Executes(I("addi", 3, 0, a), p, r, m, q, s, l)
    BY GcdLines, <1>3
  <2>2. Assigns(p, r, m, q, s, l, 3, r[0] + a)
    BY <1>r, <1>p, <1>1, <1>2, <2>1, Addi
  <2> QED BY <1>3, <1>2, <2>2 DEF Assigns, GcdAt
<1>4. CASE p = 1
  <2>1. Executes(I("addi", 4, 0, b), p, r, m, q, s, l) /\ r[3] = a
    BY GcdLines, <1>4 DEF GcdAt
  <2>2. Assigns(p, r, m, q, s, l, 4, r[0] + b)
    BY <1>r, <1>p, <1>1, <1>2, <2>1, Addi
  <2>3. q = 2 /\ s[3] = a /\ s[4] = b
    BY <1>r, <1>4, <1>2, <2>1, <2>2 DEF Assigns
  <2>4. s[3] \in 1 .. a /\ s[4] \in 1 .. b /\ SameDivisors(s[3], s[4], a, b)
    BY <1>1, <2>3 DEF SameDivisors
  <2> QED BY <2>3, <2>4 DEF GcdAt
<1>5. ASSUME p > 1
      PROVE  r[3] \in 1 .. a /\ r[4] \in 1 .. b /\ SameDivisors(r[3], r[4], a, b)
  BY <1>5 DEF GcdAt
<1>6. PICK x, y : x = r[3] /\ y = r[4]
  OBVIOUS
<1>7. ASSUME p > 1
      PROVE  /\ x \in 1 .. a /\ y \in 1 .. b /\ x \in Nat /\ y \in Nat
             /\ Small(r[3]) /\ Small(r[4]) /\ SameDivisors(x, y, a, b)
  <2>1. x \in 1 .. a /\ y \in 1 .. b /\ SameDivisors(x, y, a, b)
    BY <1>5, <1>6, <1>7
  <2>2. 2 * a < WORD /\ 2 * b < WORD /\ a \in Nat /\ b \in Nat
    BY <1>1 DEF Small
  <2>3. Small(x) /\ Small(y)
    BY <1>w, <2>1, <2>2, WordIsWide DEF Small
  <2> QED BY <1>6, <2>1, <2>3
<1>8. CASE p = 2
  <2>1. Executes(I("seq", 5, 3, 4), p, r, m, q, s, l)
    BY GcdLines, <1>8
  <2>2. PICK w : (r[3] = r[4] => w = 1) /\ (r[3] # r[4] => w = 0)
    OBVIOUS
  <2>3. Assigns(p, r, m, q, s, l, 5, w)
    BY <1>r, <1>p, <1>w, <1>7, <1>8, <2>1, <2>2, Seqs
  <2>4. q = 3 /\ s[3] = x /\ s[4] = y /\ s[5] = w
    BY <1>r, <1>6, <1>8, <2>3 DEF Assigns
  <2>5. w \in {0, 1} /\ (w = 1 <=> x = y)
    BY <1>6, <2>2
  <2> QED BY <1>7, <1>8, <2>4, <2>5 DEF GcdAt
<1>9. CASE p = 3
  <2>1. Executes(I("bt", 0, 5, 10), p, r, m, q, s, l)
    BY GcdLines, <1>9
  <2>2. r[5] \in {0, 1} /\ (r[5] = 1 <=> x = y)
    BY <1>6, <1>9 DEF GcdAt
  <2>3. Small(r[5]) /\ 10 \in 0 .. 99
    BY <1>w, <2>2, SmallNumbers
  <2>4. PICK g : (r[5] # 0 => g = 10) /\ (r[5] = 0 => g = p + 1)
    OBVIOUS
  <2>5. Jumps(r, m, q, s, l, g)
    BY <1>r, <1>p, <1>w, <2>1, <2>3, <2>4, Bt
  <2>6. q = g /\ s = r
    BY <2>5 DEF Jumps
  <2>7. CASE x = y
    <3>1. q = 10
      BY <2>2, <2>4, <2>6, <2>7
    <3> QED BY <1>6, <1>7, <1>9, <2>6, <2>7, <3>1 DEF GcdAt
  <2>8. CASE x # y
    <3>1. q = 4
      BY <1>9, <2>2, <2>4, <2>6, <2>8
    <3> QED BY <1>6, <1>7, <1>9, <2>6, <2>8, <3>1 DEF GcdAt
  <2> QED BY <2>7, <2>8
<1>10. CASE p = 4
  <2>1. Executes(I("sgt", 5, 3, 4), p, r, m, q, s, l) /\ x # y
    BY GcdLines, <1>6, <1>10 DEF GcdAt
  <2>2. PICK w : (r[3] > r[4] => w = 1) /\ (r[3] <= r[4] => w = 0)
    <3>1. (x > y) = ~(x <= y)
      BY <1>7, <1>10
    <3>2. PICK w : (x > y => w = 1) /\ (x <= y => w = 0)
      BY <3>1
    <3> QED BY <1>6, <3>2
  <2>3. Assigns(p, r, m, q, s, l, 5, w)
    BY <1>r, <1>p, <1>w, <1>7, <1>10, <2>1, <2>2, Sgt
  <2>4. q = 5 /\ s[3] = x /\ s[4] = y /\ s[5] = w
    BY <1>r, <1>6, <1>10, <2>3 DEF Assigns
  <2>5. w \in {0, 1} /\ (w = 1 <=> x > y)
    BY <1>6, <1>7, <1>10, <2>2
  <2> QED BY <1>7, <1>10, <2>1, <2>4, <2>5 DEF GcdAt
<1>11. CASE p = 5
  <2>1. Executes(I("bf", 0, 5, 8), p, r, m, q, s, l)
    BY GcdLines, <1>11
  <2>2. r[5] \in {0, 1} /\ (r[5] = 1 <=> x > y) /\ x # y
    BY <1>6, <1>11 DEF GcdAt
  <2>3. Small(r[5]) /\ 8 \in 0 .. 99
    BY <1>w, <2>2, SmallNumbers
  <2>4. PICK g : (r[5] = 0 => g = 8) /\ (r[5] # 0 => g = p + 1)
    OBVIOUS
  <2>5. Jumps(r, m, q, s, l, g)
    BY <1>r, <1>p, <1>w, <2>1, <2>3, <2>4, Bf
  <2>6. q = g /\ s = r
    BY <2>5 DEF Jumps
  <2>7. CASE x > y
    <3>1. q = 6
      BY <1>11, <2>2, <2>4, <2>6, <2>7
    <3> QED BY <1>6, <1>7, <1>11, <2>6, <2>7, <3>1 DEF GcdAt
  <2>8. CASE ~(x > y)
    <3>1. q = 8 /\ x < y
      BY <1>7, <1>11, <2>2, <2>4, <2>6, <2>8
    <3> QED BY <1>6, <1>7, <1>11, <2>6, <3>1 DEF GcdAt
  <2> QED BY <2>7, <2>8
<1>12. CASE p = 6
  <2>1. Executes(I("sub", 3, 3, 4), p, r, m, q, s, l) /\ x > y
    BY GcdLines, <1>6, <1>12 DEF GcdAt
  <2>2. r[3] >= r[4]
    BY <1>6, <1>7, <1>12, <2>1
  <2>3. Assigns(p, r, m, q, s, l, 3, r[3] - r[4])
    BY <1>r, <1>p, <1>w, <1>7, <1>12, <2>1, <2>2, Sub
  <2>4. q = 7 /\ s[3] = x - y /\ s[4] = y
    BY <1>r, <1>6, <1>12, <2>3 DEF Assigns
  <2>5. x - y \in 1 .. a /\ SameDivisors(x - y, y, a, b)
    BY <1>1, <1>7, <1>12, <2>1, SubtractKeepsDivisors
  <2> QED BY <1>7, <1>12, <2>4, <2>5 DEF GcdAt
<1>13. CASE p = 8
  <2>1. Executes(I("sub", 4, 4, 3), p, r, m, q, s, l) /\ x < y
    BY GcdLines, <1>6, <1>13 DEF GcdAt
  <2>2. r[4] >= r[3]
    BY <1>6, <1>7, <1>13, <2>1
  <2>3. Assigns(p, r, m, q, s, l, 4, r[4] - r[3])
    BY <1>r, <1>p, <1>w, <1>7, <1>13, <2>1, <2>2, Sub
  <2>4. q = 9 /\ s[4] = y - x /\ s[3] = x
    BY <1>r, <1>6, <1>13, <2>3 DEF Assigns
  <2>5. y - x \in 1 .. b /\ SameDivisors(x, y - x, a, b)
    BY <1>1, <1>7, <1>13, <2>1, SubtractKeepsDivisors
  <2> QED BY <1>7, <1>13, <2>4, <2>5 DEF GcdAt
<1>14. CASE p \in {7, 9}
  <2>1. Executes(I("ba", 0, 0, 2), p, r, m, q, s, l) /\ 2 \in 0 .. 99
    BY GcdLines, <1>14
  <2>2. Jumps(r, m, q, s, l, 2)
    BY <1>w, <2>1, Ba
  <2> QED BY <1>5, <1>14, <2>2 DEF Jumps, GcdAt
<1> QED BY <1>p, <1>3, <1>4, <1>8, <1>9, <1>10, <1>11, <1>12, <1>13, <1>14

(* Its lines fit in a word, it stores nothing, and it ends with its result. *)
LEMMA GcdFits ==
  ASSUME Roomy, NEW a \in GcdN, NEW b \in GcdN, NEW P, P = Gcd(a, b), NEW p \in 0 .. 10
  PROVE  Fits(P[p + 1]) /\ P[p + 1].op # "st"
<1>1. /\ Wide /\ IMM \in Nat /\ IMM > 120
      /\ a \in Nat /\ b \in Nat /\ 2 * a < IMM /\ 2 * b < IMM
  BY WordIsWide DEF Roomy, Wide
<1>2. 0 \in Reg /\ 3 \in Reg /\ 4 \in Reg /\ 5 \in Reg
  BY <1>1, RegisterNumbers
<1>3. \A op : \A d \in {0, 3, 4, 5}, i \in {0, 3, 4, 5}, c \in 0 .. 60 : Fits(I(op, d, i, c))
  BY <1>1, <1>2 DEF Fits, I
<1>4. Fits(I("addi", 3, 0, a)) /\ Fits(I("addi", 4, 0, b))
  BY <1>1, <1>2 DEF Fits, I
<1>5. \A op, d, i, c : I(op, d, i, c).op = op
  BY DEF I
<1>6. /\ Fits(P[1]) /\ Fits(P[2]) /\ Fits(P[3]) /\ Fits(P[4]) /\ Fits(P[5]) /\ Fits(P[6])
      /\ Fits(P[7]) /\ Fits(P[8]) /\ Fits(P[9]) /\ Fits(P[10]) /\ Fits(P[11])
  BY <1>3, <1>4, GcdLines
<1>7. /\ P[1].op = "addi" /\ P[2].op = "addi" /\ P[3].op = "seq" /\ P[4].op = "bt"
      /\ P[5].op = "sgt" /\ P[6].op = "bf" /\ P[7].op = "sub" /\ P[8].op = "ba"
      /\ P[9].op = "sub" /\ P[10].op = "ba" /\ P[11].op = "halt"
  BY <1>5, GcdLines
<1> QED BY <1>6, <1>7

LEMMA GcdEnds ==
  ASSUME Roomy, NEW a \in GcdN, NEW b \in GcdN, NEW p, NEW r, GcdAt(a, b, p, r)
  PROVE  /\ p \in 0 .. 10
         /\ p = 10 => /\ Divides(r[3], a) /\ Divides(r[3], b)
                      /\ \A d \in 1 .. a : Divides(d, a) /\ Divides(d, b) => d <= r[3]
<1>1. p \in 0 .. 10
  BY DEF GcdAt
<1>2. ASSUME p = 10
      PROVE  /\ Divides(r[3], a) /\ Divides(r[3], b)
             /\ \A d \in 1 .. a : Divides(d, a) /\ Divides(d, b) => d <= r[3]
  <2>1. r[3] = r[4] /\ r[3] \in 1 .. a /\ SameDivisors(r[3], r[4], a, b)
    BY <1>2 DEF GcdAt
  <2>2. PICK x : x = r[3]
    OBVIOUS
  <2>3. x \in Nat \ {0} /\ SameDivisors(x, x, a, b) /\ a \in Nat /\ b \in Nat
    BY <2>1, <2>2 DEF Roomy
  <2>4. /\ Divides(x, a) /\ Divides(x, b)
        /\ \A d \in 1 .. a : Divides(d, a) /\ Divides(d, b) => d <= x
    BY <2>3, EqualIsGreatest
  <2> QED BY <2>2, <2>4
<1> QED BY <1>1, <1>2

-------------------------------------------------------------------------------
(* The three loops of Fill: the words at every fourth address from lo to hi   *)
(* are c times their address.                                                 *)

Cells(lo, hi, c, m) == \A y \in lo .. hi : y % 4 = 0 => m[y] = c * y

LEMMA CellsKept ==
  ASSUME NEW lo \in Nat, NEW hi \in Int, NEW c \in {1, 2}, NEW m, NEW l, Cells(lo, hi, c, m),
         NEW b \in Nat, b \notin lo .. hi, KeepsBut(b, m, l)
  PROVE  Cells(lo, hi, c, l)
<1>1. ASSUME NEW y \in lo .. hi, y % 4 = 0
      PROVE  l[y] = c * y
  <2>1. m[y] = c * y /\ y \in Nat \ {b}
    BY <1>1 DEF Cells
  <2>2. c * y \in Nat
    BY <2>1
  <2> QED BY <2>1, <2>2 DEF KeepsBut
<1> QED BY <1>1 DEF Cells

LEMMA CellsSame ==
  ASSUME NEW lo \in Nat, NEW hi \in Int, NEW c \in {1, 2}, NEW m, NEW l, Cells(lo, hi, c, m),
         Same(m, l)
  PROVE  Cells(lo, hi, c, l)
<1>1. ASSUME NEW y \in lo .. hi, y % 4 = 0
      PROVE  l[y] = c * y
  <2>1. m[y] = c * y /\ y \in Nat
    BY <1>1 DEF Cells
  <2>2. c * y \in Nat
    BY <2>1
  <2> QED BY <2>1, <2>2 DEF Same
<1> QED BY <1>1 DEF Cells

LEMMA CellsExtended ==
  ASSUME NEW lo \in Nat, NEW x \in Nat, x % 4 = 0, NEW c \in {1, 2}, NEW m,
         Cells(lo, x - 1, c, m), m[x] = c * x
  PROVE  Cells(lo, (x + 4) - 1, c, m)
<1>1. ASSUME NEW y \in lo .. (x + 4) - 1, y % 4 = 0
      PROVE  m[y] = c * y
  <2>1. y = x \/ y \in lo .. x - 1
    <3>1. y \in Nat /\ y < x + 4
      OBVIOUS
    <3>2. ~(y = x + 1) /\ ~(y = x + 2) /\ ~(y = x + 3)
      BY <1>1
    <3> QED BY <3>1, <3>2
  <2> QED BY <1>1, <2>1 DEF Cells
<1> QED BY <1>1 DEF Cells

LEMMA CellsShrunk ==
  ASSUME NEW lo \in Nat, NEW x \in Nat, NEW y \in Nat, NEW hi \in Int, NEW c \in {1, 2}, NEW m,
         Cells(lo, hi, c, m), lo <= x, y <= hi
  PROVE  Cells(x, y, c, m)
  BY DEF Cells

(* an address of the loops, and what they find when they test it *)
InLoop(a, x, last) == x \in a .. last /\ x % 4 = 0
Tested(x, w) == w \in {0, 1} /\ (w = 1 <=> 60 >= x)
(* what is added up below x *)
SumBelow(a, x, w) == 4 * w = (x - a) * ((x + a) - 4)

FillStarts(p, r) ==
  \/ p = 0
  \/ p = 1 /\ r[3] = 0
  \/ p = 2 /\ r[3] = 0 /\ r[5] = 60

FillStores(a, x, p, r, m) ==
  /\ r[3] = 0 /\ r[5] = 60 /\ Cells(a, x - 1, 1, m)
  /\ \/ p = 3 /\ r[4] = x /\ InLoop(a, x, 60)
     \/ p = 4 /\ r[4] = x /\ InLoop(a, x, 60) /\ m[x] = x
     \/ p = 5 /\ r[4] = x /\ InLoop(a, x, 64)
     \/ p = 6 /\ r[4] = x /\ InLoop(a, x, 64) /\ Tested(x, r[6])
     \/ p = 7 /\ x = 64

FillDoubles(a, x, p, r, m) ==
  /\ r[3] = 0 /\ r[5] = 60 /\ Cells(a, x - 1, 2, m) /\ Cells(x + 1, 60, 1, m)
  /\ \/ p = 8 /\ r[4] = x /\ InLoop(a, x, 60) /\ m[x] = x
     \/ p = 9 /\ r[4] = x /\ InLoop(a, x, 60) /\ m[x] = x /\ r[6] = x
     \/ p = 10 /\ r[4] = x /\ InLoop(a, x, 60) /\ m[x] = x /\ r[6] = 2 * x
     \/ p = 11 /\ r[4] = x /\ InLoop(a, x, 60) /\ m[x] = 2 * x
     \/ p = 12 /\ r[4] = x /\ InLoop(a, x, 64) /\ (x <= 60 => m[x] = x)
     \/ p = 13 /\ r[4] = x /\ InLoop(a, x, 64) /\ (x <= 60 => m[x] = x) /\ Tested(x, r[6])
     \/ p = 14 /\ x = 64

FillAdds(a, x, p, r, m) ==
  /\ r[5] = 60 /\ Cells(a, 63, 2, m)
  /\ \/ p = 15 /\ r[4] = x /\ InLoop(a, x, 60) /\ SumBelow(a, x, r[3])
     \/ p = 16 /\ r[4] = x /\ InLoop(a, x, 60) /\ SumBelow(a, x, r[3]) /\ r[6] = 2 * x
     \/ p = 17 /\ r[4] = x /\ InLoop(a, x, 60) /\ SumBelow(a, x + 4, r[3])
     \/ p = 18 /\ r[4] = x /\ InLoop(a, x, 64) /\ SumBelow(a, x, r[3])
     \/ p = 19 /\ r[4] = x /\ InLoop(a, x, 64) /\ SumBelow(a, x, r[3]) /\ Tested(x, r[6])
     \/ p = 20 /\ SumBelow(a, 64, r[3])

FillAt(a, p, r, m) ==
  \/ FillStarts(p, r)
  \/ \E x \in Nat : FillStores(a, x, p, r, m) \/ FillDoubles(a, x, p, r, m)
                      \/ FillAdds(a, x, p, r, m)

LEMMA FillLines ==
  ASSUME NEW a, NEW P, P = Fill(a)
  PROVE  /\ Len(P) = 21
         /\ P[1] = I("addi", 3, 0, 0) /\ P[2] = I("addi", 5, 0, 60) /\ P[3] = I("addi", 4, 0, a)
         /\ P[4] = I("st", 4, 4, 0) /\ P[5] = I("addi", 4, 4, 4)
         /\ P[6] = I("sge", 6, 5, 4) /\ P[7] = I("bt", 0, 6, 3)
         /\ P[8] = I("addi", 4, 0, a)
         /\ P[9] = I("ld", 6, 4, 0) /\ P[10] = I("add", 6, 6, 6)
         /\ P[11] = I("st", 6, 4, 0) /\ P[12] = I("addi", 4, 4, 4)
         /\ P[13] = I("sge", 6, 5, 4) /\ P[14] = I("bt", 0, 6, 8)
         /\ P[15] = I("addi", 4, 0, a)
         /\ P[16] = I("ld", 6, 4, 0) /\ P[17] = I("add", 3, 3, 6)
         /\ P[18] = I("addi", 4, 4, 4)
         /\ P[19] = I("sge", 6, 5, 4) /\ P[20] = I("bt", 0, 6, 15)
         /\ P[21] = I("halt", 0, 0, 0)
  BY DEF Fill

(* The end of each loop: the next address is tested, and tried if it is one. *)
Tests(x, p, r, m, q, s, l) ==
  q = p + 1 /\ s[3] = r[3] /\ s[4] = x /\ s[5] = 60 /\ Tested(x, s[6]) /\ Same(m, l)
Loops(a, x, c, p, r, m, q, s, l) ==
  /\ s = r /\ Same(m, l)
  /\ \/ q = c /\ InLoop(a, x, 60)
     \/ q = p + 1 /\ x = 64

LEMMA FillTests ==
  ASSUME Wide, NEW a \in 21 .. 60, NEW x, NEW p \in 0 .. 99, NEW r, NEW m, NEW q, NEW s, NEW l,
         Registers(r), r[5] = 60, r[4] = x, InLoop(a, x, 64),
         Executes(I("sge", 6, 5, 4), p, r, m, q, s, l)
  PROVE  Tests(x, p, r, m, q, s, l)
<1>1. x \in 0 .. 100 /\ x \in Nat
  BY DEF InLoop
<1>2. Small(r[4]) /\ Small(r[5])
  BY <1>1, SmallNumbers
<1>3. /\ 6 \in Reg \ {0} /\ 3 \in Reg /\ 4 \in Reg /\ 5 \in Reg /\ 6 \in Reg
  BY RegisterNumbers
<1>4. PICK w : (60 >= x => w = 1) /\ (60 < x => w = 0)
  <2>1. (60 >= x) = ~(60 < x)
    BY <1>1
  <2> QED BY <2>1
<1>5. (r[5] >= r[4] => w = 1) /\ (r[5] < r[4] => w = 0)
  BY <1>4
<1>6. Assigns(p, r, m, q, s, l, 6, w)
  BY <1>2, <1>3, <1>5, Sge
<1>7. q = p + 1 /\ s[3] = r[3] /\ s[4] = x /\ s[5] = 60 /\ s[6] = w /\ Same(m, l)
  BY <1>3, <1>6 DEF Assigns
<1>8. Tested(x, w)
  BY <1>1, <1>4 DEF Tested
<1> QED BY <1>7, <1>8 DEF Tests

LEMMA FillLoops ==
  ASSUME Wide, NEW a \in 21 .. 60, NEW x, NEW p \in 0 .. 99, NEW r, NEW m, NEW q, NEW s, NEW l,
         InLoop(a, x, 64), Tested(x, r[6]), NEW c \in 0 .. 99,
         Executes(I("bt", 0, 6, c), p, r, m, q, s, l)
  PROVE  Loops(a, x, c, p, r, m, q, s, l)
<1>1. x \in a .. 64 /\ x % 4 = 0
  BY DEF InLoop
<1>2. r[6] \in {0, 1} /\ (r[6] = 1 <=> 60 >= x)
  BY DEF Tested
<1>3. Small(r[6]) /\ 6 \in Reg
  BY <1>2, SmallNumbers, RegisterNumbers
<1>4. PICK g : (r[6] # 0 => g = c) /\ (r[6] = 0 => g = p + 1)
  OBVIOUS
<1>5. Jumps(r, m, q, s, l, g)
  BY <1>3, <1>4, Bt
<1>6. CASE x <= 60
  <2>1. g = c
    BY <1>1, <1>2, <1>4, <1>6
  <2> QED BY <1>1, <1>5, <1>6, <2>1 DEF Jumps, InLoop, Loops
<1>7. CASE ~(x <= 60)
  <2>1. g = p + 1
    BY <1>1, <1>2, <1>4, <1>7
  <2>2. x = 64
    BY <1>1, <1>7
  <2> QED BY <1>5, <2>1, <2>2 DEF Jumps, Loops
<1> QED BY <1>6, <1>7

LEMMA FillStartsStep ==
  ASSUME Roomy, NEW a \in FillFrom, NEW P, P = Fill(a), NEW p,
         NEW r, NEW m, NEW q, NEW s, NEW l, Registers(r), Registers(s),
         FillStarts(p, r), Executes(P[p + 1], p, r, m, q, s, l)
  PROVE  FillStarts(q, s) \/ FillStores(a, a, q, s, l)
<1>1. Wide /\ a \in 21 .. 60 /\ a \in Nat /\ a % 4 = 0
  BY DEF Roomy
<1>w. Wide
  BY <1>1
<1>r. 0 \in Reg /\ 3 \in Reg \ {0} /\ 4 \in Reg \ {0} /\ 5 \in Reg \ {0} /\ 3 \in Reg /\ 4 \in Reg /\ 5 \in Reg
  BY <1>1, RegisterNumbers
<1>2. r[0] = 0 /\ r[0] + 0 = 0 /\ r[0] + 60 = 60 /\ r[0] + a = a
  BY <1>1 DEF Registers
<1>p. p \in 0 .. 2 /\ p \in 0 .. 99
  BY DEF FillStarts
<1>s. Small(0) /\ 0 \in 0 .. WORD - 1 /\ 60 \in 0 .. WORD - 1 /\ a \in 0 .. WORD - 1
  <2>1. WORD \in Nat /\ WORD > 100
    BY <1>1, WordIsWide
  <2> QED BY <1>1, <2>1, SmallNumbers
<1>3. CASE p = 0
  <2>1. Executes(I("addi", 3, 0, 0), p, r, m, q, s, l)
    BY <1>3, FillLines
  <2>2. Assigns(p, r, m, q, s, l, 3, r[0] + 0)
    BY <1>s, <1>r, <1>p, <1>w, <1>2, <2>1, Addi
  <2>3. q = 1 /\ s[3] = 0
    BY <1>2, <1>3, <2>2 DEF Assigns
  <2> QED BY <2>3 DEF FillStarts
<1>4. CASE p = 1
  <2>1. Executes(I("addi", 5, 0, 60), p, r, m, q, s, l) /\ r[3] = 0
    BY <1>4, FillLines DEF FillStarts
  <2>2. Assigns(p, r, m, q, s, l, 5, r[0] + 60)
    BY <1>s, <1>r, <1>p, <1>w, <1>2, <2>1, Addi
  <2>3. q = 2 /\ s[3] = 0 /\ s[5] = 60
    BY <1>r, <1>2, <1>4, <2>1, <2>2 DEF Assigns
  <2> QED BY <2>3 DEF FillStarts
<1>5. CASE p = 2
  <2>1. Executes(I("addi", 4, 0, a), p, r, m, q, s, l) /\ r[3] = 0 /\ r[5] = 60
    BY <1>5, FillLines DEF FillStarts
  <2>2. Assigns(p, r, m, q, s, l, 4, r[0] + a)
    BY <1>s, <1>r, <1>p, <1>w, <1>1, <1>2, <2>1, Addi
  <2>3. q = 3 /\ s[3] = 0 /\ s[5] = 60 /\ s[4] = a
    BY <1>r, <1>2, <1>5, <2>1, <2>2 DEF Assigns
  <2>4. Cells(a, a - 1, 1, l) /\ InLoop(a, a, 60)
    BY <1>1 DEF Cells, InLoop
  <2> QED BY <2>3, <2>4 DEF FillStores
<1> QED BY <1>p, <1>3, <1>4, <1>5

LEMMA FillStoresStep ==
  ASSUME Roomy, NEW a \in FillFrom, NEW P, P = Fill(a), NEW p, NEW x \in Nat,
         NEW r, NEW m, NEW q, NEW s, NEW l, Registers(r), Registers(s),
         FillStores(a, x, p, r, m), Executes(P[p + 1], p, r, m, q, s, l)
  PROVE  FillStores(a, x, q, s, l) \/ FillStores(a, x + 4, q, s, l) \/ FillDoubles(a, a, q, s, l)
<1>1. Wide /\ a \in 21 .. 60 /\ a \in Nat /\ a % 4 = 0
  BY DEF Roomy
<1>w. Wide
  BY <1>1
<1>r. 0 \in Reg /\ 3 \in Reg /\ 4 \in Reg \ {0} /\ 4 \in Reg /\ 5 \in Reg /\ 6 \in Reg
  BY <1>1, RegisterNumbers
<1>p. p \in 3 .. 7 /\ p \in 0 .. 99
  BY DEF FillStores
<1>2. r[3] = 0 /\ r[5] = 60 /\ Cells(a, x - 1, 1, m) /\ 1 \in {1, 2} /\ x - 1 \in Int
  BY DEF FillStores
<1>3. Same(m, l) => Cells(a, x - 1, 1, l)
  BY <1>1, <1>2, CellsSame
<1>s. x <= 64 => Small(x) /\ x < WORD /\ x + 4 \in 0 .. WORD - 1
  <2>1. WORD \in Nat /\ WORD > 100
    BY <1>1, WordIsWide
  <2>2. x <= 64 => x \in 0 .. 100
    OBVIOUS
  <2> QED BY <1>1, <2>1, <2>2, SmallNumbers
<1>4. CASE p = 3
  <2>1. Executes(I("st", 4, 4, 0), p, r, m, q, s, l) /\ r[4] = x /\ InLoop(a, x, 60)
    BY <1>4, FillLines DEF FillStores
  <2>2. x <= 64 /\ x = r[4] + 0 /\ 0 \in Int
    BY <1>1, <2>1 DEF InLoop
  <2>3. Small(r[4]) /\ x < WORD
    BY <1>s, <2>1, <2>2
  <2>4. Puts(p, r, m, q, s, l, x, r[4])
    BY <1>r, <1>p, <1>w, <2>1, <2>2, <2>3, Stores
  <2>5. KeepsBut(x, m, l)
    BY <2>4 DEF Puts
  <2>6. x \notin a .. x - 1
    BY <1>1
  <2>7. Cells(a, x - 1, 1, l)
    BY <1>1, <1>2, <2>5, <2>6, CellsKept
  <2>8. q = 4 /\ s = r /\ l[x] = x
    BY <1>4, <2>1, <2>4 DEF Puts
  <2> QED BY <1>2, <2>1, <2>7, <2>8 DEF FillStores
<1>5. CASE p = 4
  <2>1. Executes(I("addi", 4, 4, 4), p, r, m, q, s, l) /\ r[4] = x /\ InLoop(a, x, 60) /\ m[x] = x
    BY <1>5, FillLines DEF FillStores
  <2>2. x <= 64 /\ x % 4 = 0 /\ x >= a /\ x <= 60
    BY <1>1, <2>1 DEF InLoop
  <2>3. Assigns(p, r, m, q, s, l, 4, r[4] + 4)
    BY <1>s, <1>r, <1>p, <1>w, <2>1, <2>2, Addi
  <2>4. q = 5 /\ s[3] = 0 /\ s[5] = 60 /\ s[4] = x + 4 /\ Same(m, l)
    BY <1>r, <1>2, <1>5, <2>1, <2>3 DEF Assigns
  <2>5. Cells(a, x - 1, 1, l) /\ l[x] = 1 * x
    BY <1>3, <2>1, <2>4 DEF Same
  <2>6. Cells(a, (x + 4) - 1, 1, l)
    BY <1>1, <1>2, <2>2, <2>5, CellsExtended
  <2>7. InLoop(a, x + 4, 64)
    BY <1>1, <2>2 DEF InLoop
  <2> QED BY <2>4, <2>6, <2>7 DEF FillStores
<1>6. CASE p = 5
  <2>1. Executes(I("sge", 6, 5, 4), p, r, m, q, s, l) /\ r[4] = x /\ InLoop(a, x, 64)
    BY <1>6, FillLines DEF FillStores
  <2>2. Tests(x, p, r, m, q, s, l)
    BY <1>p, <1>w, <1>1, <1>2, <2>1, FillTests
  <2>3. q = 6 /\ s[3] = 0 /\ s[4] = x /\ s[5] = 60 /\ Tested(x, s[6]) /\ Same(m, l)
    BY <1>2, <1>6, <2>2 DEF Tests
  <2>4. Cells(a, x - 1, 1, l)
    BY <1>3, <2>3
  <2> QED BY <2>1, <2>3, <2>4 DEF FillStores
<1>7. CASE p = 6
  <2>1. /\ Executes(I("bt", 0, 6, 3), p, r, m, q, s, l) /\ 3 \in 0 .. 99
        /\ r[4] = x /\ InLoop(a, x, 64) /\ Tested(x, r[6])
    BY <1>7, FillLines DEF FillStores
  <2>2. Loops(a, x, 3, p, r, m, q, s, l)
    BY <1>p, <1>w, <1>1, <2>1, FillLoops
  <2> QED BY <1>2, <1>3, <1>7, <2>1, <2>2 DEF Loops, FillStores
<1>8. CASE p = 7
  <2>1. Executes(I("addi", 4, 0, a), p, r, m, q, s, l) /\ x = 64
    BY <1>8, FillLines DEF FillStores
  <2>2. r[0] = 0 /\ r[0] + a = a /\ Small(0) /\ a \in 0 .. WORD - 1
    <3>1. WORD \in Nat /\ WORD > 100
      BY <1>1, WordIsWide
    <3> QED BY <1>1, <3>1, SmallNumbers DEF Registers
  <2>3. Assigns(p, r, m, q, s, l, 4, r[0] + a)
    BY <1>r, <1>p, <1>w, <1>1, <2>1, <2>2, Addi
  <2>4. q = 8 /\ s[3] = 0 /\ s[5] = 60 /\ s[4] = a /\ Same(m, l)
    BY <1>r, <1>2, <1>8, <2>2, <2>3 DEF Assigns
  <2>5. Cells(a, 63, 1, l)
    BY <1>3, <2>1, <2>4
  <2>6. /\ Cells(a, a - 1, 2, l) /\ Cells(a + 1, 60, 1, l) /\ l[a] = a /\ InLoop(a, a, 60)
    <3>1. a \in a .. 63 /\ 1 * a = a
      BY <1>1
    <3>2. l[a] = a
      BY <1>1, <2>5, <3>1 DEF Cells
    <3>3. Cells(a + 1, 60, 1, l) /\ Cells(a, a - 1, 2, l)
      BY <1>1, <2>5 DEF Cells
    <3> QED BY <1>1, <3>2, <3>3 DEF InLoop
  <2> QED BY <2>4, <2>6 DEF FillDoubles
<1> QED BY <1>p, <1>4, <1>5, <1>6, <1>7, <1>8

LEMMA FillDoublesStep ==
  ASSUME Roomy, NEW a \in FillFrom, NEW P, P = Fill(a), NEW p, NEW x \in Nat,
         NEW r, NEW m, NEW q, NEW s, NEW l, Registers(r), Registers(s),
         FillDoubles(a, x, p, r, m), Executes(P[p + 1], p, r, m, q, s, l)
  PROVE  FillDoubles(a, x, q, s, l) \/ FillDoubles(a, x + 4, q, s, l) \/ FillAdds(a, a, q, s, l)
<1>1. Wide /\ a \in 21 .. 60 /\ a \in Nat /\ a % 4 = 0
  BY DEF Roomy
<1>w. Wide
  BY <1>1
<1>r. /\ 0 \in Reg /\ 3 \in Reg /\ 4 \in Reg \ {0} /\ 4 \in Reg /\ 5 \in Reg
      /\ 6 \in Reg \ {0} /\ 6 \in Reg
  BY <1>1, RegisterNumbers
<1>p. p \in 8 .. 14 /\ p \in 0 .. 99
  BY DEF FillDoubles
<1>2. /\ r[3] = 0 /\ r[5] = 60 /\ Cells(a, x - 1, 2, m) /\ Cells(x + 1, 60, 1, m)
      /\ 1 \in {1, 2} /\ 2 \in {1, 2} /\ x - 1 \in Int /\ x + 1 \in Nat /\ 60 \in Int
  BY DEF FillDoubles
<1>3. Same(m, l) => Cells(a, x - 1, 2, l) /\ Cells(x + 1, 60, 1, l)
  BY <1>1, <1>2, CellsSame
<1>s. x <= 64 => /\ Small(x) /\ x < WORD /\ x + 4 \in 0 .. WORD - 1 /\ 2 * x < WORD
                 /\ Small(2 * x) /\ 2 * x \in Nat
  <2>1. WORD \in Nat /\ WORD > 1000
    BY <1>1, WordIsWide
  <2> QED BY <2>1 DEF Small
<1>4. CASE p = 8
  <2>1. Executes(I("ld", 6, 4, 0), p, r, m, q, s, l) /\ r[4] = x /\ InLoop(a, x, 60) /\ m[x] = x
    BY <1>4, FillLines DEF FillDoubles
  <2>2. x <= 64 /\ x = r[4] + 0 /\ 0 \in Int /\ m[x] \in Nat
    BY <1>1, <2>1 DEF InLoop
  <2>3. Small(r[4]) /\ x < WORD
    BY <1>s, <2>1, <2>2
  <2>4. Assigns(p, r, m, q, s, l, 6, m[x])
    BY <1>r, <1>p, <1>w, <2>1, <2>2, <2>3, Loads
  <2>5. q = 9 /\ s[3] = 0 /\ s[4] = x /\ s[5] = 60 /\ s[6] = x /\ Same(m, l)
    BY <1>r, <1>2, <1>4, <2>1, <2>4 DEF Assigns
  <2>6. l[x] = x
    BY <2>1, <2>5 DEF Same
  <2> QED BY <1>3, <2>1, <2>5, <2>6 DEF FillDoubles
<1>5. CASE p = 9
  <2>1. /\ Executes(I("add", 6, 6, 6), p, r, m, q, s, l)
        /\ r[4] = x /\ InLoop(a, x, 60) /\ m[x] = x /\ r[6] = x
    BY <1>5, FillLines DEF FillDoubles
  <2>2. x <= 64 /\ r[6] + r[6] = 2 * x
    BY <1>1, <2>1 DEF InLoop
  <2>3. Small(r[6]) /\ r[6] + r[6] < WORD
    BY <1>s, <2>1, <2>2
  <2>4. Assigns(p, r, m, q, s, l, 6, r[6] + r[6])
    BY <1>r, <1>p, <1>w, <2>1, <2>3, Add
  <2>5. q = 10 /\ s[3] = 0 /\ s[4] = x /\ s[5] = 60 /\ s[6] = 2 * x /\ Same(m, l)
    BY <1>r, <1>2, <1>5, <2>1, <2>2, <2>4 DEF Assigns
  <2>6. l[x] = x
    BY <2>1, <2>5 DEF Same
  <2> QED BY <1>3, <2>1, <2>5, <2>6 DEF FillDoubles
<1>6. CASE p = 10
  <2>1. /\ Executes(I("st", 6, 4, 0), p, r, m, q, s, l)
        /\ r[4] = x /\ InLoop(a, x, 60) /\ r[6] = 2 * x
    BY <1>6, FillLines DEF FillDoubles
  <2>2. x <= 64 /\ x = r[4] + 0 /\ 0 \in Int
    BY <1>1, <2>1 DEF InLoop
  <2>3. Small(r[4]) /\ x < WORD
    BY <1>s, <2>1, <2>2
  <2>4. Puts(p, r, m, q, s, l, x, r[6])
    BY <1>r, <1>p, <1>w, <2>1, <2>2, <2>3, Stores
  <2>5. KeepsBut(x, m, l)
    BY <2>4 DEF Puts
  <2>6. x \notin a .. x - 1 /\ x \notin x + 1 .. 60
    BY <1>1
  <2>7. Cells(a, x - 1, 2, l) /\ Cells(x + 1, 60, 1, l)
    <3>1. Cells(a, x - 1, 2, l)
      BY <1>1, <1>2, <2>5, <2>6, CellsKept
    <3>2. Cells(x + 1, 60, 1, l)
      BY <1>2, <2>5, <2>6, CellsKept
    <3> QED BY <3>1, <3>2
  <2>8. q = 11 /\ s = r /\ l[x] = 2 * x
    BY <1>6, <2>1, <2>4 DEF Puts
  <2> QED BY <1>2, <2>1, <2>7, <2>8 DEF FillDoubles
<1>7. CASE p = 11
  <2>1. /\ Executes(I("addi", 4, 4, 4), p, r, m, q, s, l)
        /\ r[4] = x /\ InLoop(a, x, 60) /\ m[x] = 2 * x
    BY <1>7, FillLines DEF FillDoubles
  <2>2. x <= 64 /\ x % 4 = 0 /\ x >= a /\ x <= 60
    BY <1>1, <2>1 DEF InLoop
  <2>3. Assigns(p, r, m, q, s, l, 4, r[4] + 4)
    BY <1>s, <1>r, <1>p, <1>w, <2>1, <2>2, Addi
  <2>4. q = 12 /\ s[3] = 0 /\ s[5] = 60 /\ s[4] = x + 4 /\ Same(m, l)
    BY <1>r, <1>2, <1>7, <2>1, <2>3 DEF Assigns
  <2>5. Cells(a, x - 1, 2, l) /\ l[x] = 2 * x /\ Cells(x + 1, 60, 1, l)
    BY <1>3, <2>1, <2>4 DEF Same
  <2>6. Cells(a, (x + 4) - 1, 2, l)
    BY <1>1, <1>2, <2>2, <2>5, CellsExtended
  <2>7. InLoop(a, x + 4, 64)
    BY <1>1, <2>2 DEF InLoop
  <2>8. Cells((x + 4) + 1, 60, 1, l)
    BY <2>5 DEF Cells
  <2>9. x + 4 <= 60 => l[x + 4] = x + 4
    <3>1. PICK y : y = x + 4
      OBVIOUS
    <3>2. ASSUME y <= 60
          PROVE  l[y] = y
      <4>1. y \in x + 1 .. 60 /\ y % 4 = 0 /\ 1 * y = y
        BY <2>2, <3>1, <3>2
      <4> QED BY <2>5, <4>1 DEF Cells
    <3> QED BY <3>1, <3>2
  <2> QED BY <2>4, <2>6, <2>7, <2>8, <2>9 DEF FillDoubles
<1>8. CASE p = 12
  <2>1. /\ Executes(I("sge", 6, 5, 4), p, r, m, q, s, l)
        /\ r[4] = x /\ InLoop(a, x, 64) /\ (x <= 60 => m[x] = x)
    BY <1>8, FillLines DEF FillDoubles
  <2>2. Tests(x, p, r, m, q, s, l)
    BY <1>p, <1>w, <1>1, <1>2, <2>1, FillTests
  <2>3. x <= 60 => l[x] = x
    BY <2>1, <2>2 DEF Tests, Same
  <2> QED BY <1>2, <1>3, <1>8, <2>1, <2>2, <2>3 DEF Tests, FillDoubles
<1>9. CASE p = 13
  <2>1. /\ Executes(I("bt", 0, 6, 8), p, r, m, q, s, l) /\ 8 \in 0 .. 99
        /\ r[4] = x /\ InLoop(a, x, 64) /\ Tested(x, r[6]) /\ (x <= 60 => m[x] = x)
    BY <1>9, FillLines DEF FillDoubles
  <2>2. Loops(a, x, 8, p, r, m, q, s, l)
    BY <1>p, <1>w, <1>1, <2>1, FillLoops
  <2>3. x <= 60 => l[x] = x
    BY <2>1, <2>2 DEF Loops, Same
  <2>4. InLoop(a, x, 60) => x <= 60
    BY <1>1 DEF InLoop
  <2> QED BY <1>2, <1>3, <1>9, <2>1, <2>2, <2>3, <2>4 DEF Loops, FillDoubles
<1>10. CASE p = 14
  <2>1. Executes(I("addi", 4, 0, a), p, r, m, q, s, l) /\ x = 64
    BY <1>10, FillLines DEF FillDoubles
  <2>2. r[0] = 0 /\ r[0] + a = a /\ Small(0) /\ a \in 0 .. WORD - 1
    <3>1. WORD \in Nat /\ WORD > 100
      BY <1>1, WordIsWide
    <3> QED BY <1>1, <3>1, SmallNumbers DEF Registers
  <2>3. Assigns(p, r, m, q, s, l, 4, r[0] + a)
    BY <1>r, <1>p, <1>w, <1>1, <2>1, <2>2, Addi
  <2>4. q = 15 /\ s[3] = 0 /\ s[5] = 60 /\ s[4] = a /\ Same(m, l)
    BY <1>r, <1>2, <1>10, <2>2, <2>3 DEF Assigns
  <2>5. Cells(a, 63, 2, l)
    BY <1>3, <2>1, <2>4
  <2>6. InLoop(a, a, 60) /\ SumBelow(a, a, s[3])
    BY <1>1, <2>4 DEF InLoop, SumBelow
  <2> QED BY <2>4, <2>5, <2>6 DEF FillAdds
<1> QED BY <1>p, <1>4, <1>5, <1>6, <1>7, <1>8, <1>9, <1>10

LEMMA FillAddsStep ==
  ASSUME Roomy, NEW a \in FillFrom, NEW P, P = Fill(a), NEW p, p # 20, NEW x \in Nat,
         NEW r, NEW m, NEW q, NEW s, NEW l, Registers(r), Registers(s),
         FillAdds(a, x, p, r, m), Executes(P[p + 1], p, r, m, q, s, l)
  PROVE  FillAdds(a, x, q, s, l) \/ FillAdds(a, x + 4, q, s, l)
<1>1. Wide /\ a \in 21 .. 60 /\ a \in Nat /\ a % 4 = 0
  BY DEF Roomy
<1>w. Wide
  BY <1>1
<1>r. /\ 0 \in Reg /\ 3 \in Reg \ {0} /\ 3 \in Reg /\ 4 \in Reg \ {0} /\ 4 \in Reg /\ 5 \in Reg
      /\ 6 \in Reg \ {0} /\ 6 \in Reg
  BY <1>1, RegisterNumbers
<1>p. p \in 15 .. 19 /\ p \in 0 .. 99
  BY DEF FillAdds
<1>2. r[5] = 60 /\ Cells(a, 63, 2, m) /\ 2 \in {1, 2} /\ 63 \in Int
  BY DEF FillAdds
<1>3. Same(m, l) => Cells(a, 63, 2, l)
  BY <1>1, <1>2, CellsSame
<1>n. r[3] \in Nat
  BY <1>r, <1>w, WordIsWide, MachineAssumption DEF Registers
<1>s. x <= 64 => /\ Small(x) /\ x < WORD /\ x + 4 \in 0 .. WORD - 1
                 /\ Small(2 * x) /\ 2 * x \in Nat
  <2>1. WORD \in Nat /\ WORD > 1000
    BY <1>1, WordIsWide
  <2> QED BY <2>1 DEF Small
<1>4. CASE p = 15
  <2>1. /\ Executes(I("ld", 6, 4, 0), p, r, m, q, s, l)
        /\ r[4] = x /\ InLoop(a, x, 60) /\ SumBelow(a, x, r[3])
    BY <1>4, FillLines DEF FillAdds
  <2>2. x <= 64 /\ x = r[4] + 0 /\ 0 \in Int /\ x \in a .. 63 /\ x % 4 = 0
    BY <1>1, <2>1 DEF InLoop
  <2>3. m[x] = 2 * x /\ m[x] \in Nat
    BY <1>2, <2>2 DEF Cells
  <2>4. Small(r[4]) /\ x < WORD
    BY <1>s, <2>1, <2>2
  <2>5. Assigns(p, r, m, q, s, l, 6, m[x])
    BY <1>r, <1>p, <1>w, <2>1, <2>2, <2>3, <2>4, Loads
  <2>6. q = 16 /\ s[3] = r[3] /\ s[4] = x /\ s[5] = 60 /\ s[6] = 2 * x /\ Same(m, l)
    BY <1>r, <1>2, <1>4, <2>1, <2>3, <2>5 DEF Assigns
  <2> QED BY <1>3, <2>1, <2>6 DEF FillAdds
<1>5. CASE p = 16
  <2>1. /\ Executes(I("add", 3, 3, 6), p, r, m, q, s, l)
        /\ r[4] = x /\ InLoop(a, x, 60) /\ SumBelow(a, x, r[3]) /\ r[6] = 2 * x
    BY <1>5, FillLines DEF FillAdds
  <2>2. x \in a .. 60 /\ x <= 64
    BY <1>1, <2>1 DEF InLoop
  <2>3. PICK w : w = r[3]
    OBVIOUS
  <2>4. w \in Nat /\ 4 * w = (x - a) * ((x + a) - 4)
    BY <1>n, <2>1, <2>3 DEF SumBelow
  <2>5. 4 * w <= 40 * 120
    <3>1. PICK u \in 0 .. 40, v \in 0 .. 120 : u = x - a /\ v = (x + a) - 4
      BY <1>1, <2>2
    <3>2. u * v <= 40 * v /\ 4 * w = u * v
      BY <2>4, <3>1
    <3> QED BY <3>1, <3>2
  <2>6. Small(r[3]) /\ Small(r[6]) /\ r[3] + r[6] < WORD
    <3>1. WORD \in Nat /\ WORD > 100000
      BY <1>1, WordIsWide
    <3> QED BY <2>1, <2>2, <2>3, <2>4, <2>5, <3>1 DEF Small
  <2>7. Assigns(p, r, m, q, s, l, 3, r[3] + r[6])
    BY <1>r, <1>p, <1>w, <2>1, <2>6, Add
  <2>8. q = 17 /\ s[3] = w + (2 * x) /\ s[4] = x /\ s[5] = 60 /\ Same(m, l)
    BY <1>r, <1>2, <1>5, <2>1, <2>3, <2>7 DEF Assigns
  <2>9. SumBelow(a, x + 4, w + (2 * x))
    <3>1. ((x + 4) - a) * (((x + 4) + a) - 4) = ((x - a) * ((x + a) - 4)) + (8 * x)
      BY <1>1
    <3> QED BY <2>4, <3>1 DEF SumBelow
  <2> QED BY <1>3, <2>1, <2>8, <2>9 DEF FillAdds
<1>6. CASE p = 17
  <2>1. /\ Executes(I("addi", 4, 4, 4), p, r, m, q, s, l)
        /\ r[4] = x /\ InLoop(a, x, 60) /\ SumBelow(a, x + 4, r[3])
    BY <1>6, FillLines DEF FillAdds
  <2>2. x <= 64 /\ x % 4 = 0 /\ x >= a /\ x <= 60
    BY <1>1, <2>1 DEF InLoop
  <2>3. Assigns(p, r, m, q, s, l, 4, r[4] + 4)
    BY <1>s, <1>r, <1>p, <1>w, <2>1, <2>2, Addi
  <2>4. q = 18 /\ s[3] = r[3] /\ s[5] = 60 /\ s[4] = x + 4 /\ Same(m, l)
    BY <1>r, <1>2, <1>6, <2>1, <2>3 DEF Assigns
  <2>5. InLoop(a, x + 4, 64)
    BY <1>1, <2>2 DEF InLoop
  <2> QED BY <1>3, <2>1, <2>4, <2>5 DEF FillAdds
<1>7. CASE p = 18
  <2>1. /\ Executes(I("sge", 6, 5, 4), p, r, m, q, s, l)
        /\ r[4] = x /\ InLoop(a, x, 64) /\ SumBelow(a, x, r[3])
    BY <1>7, FillLines DEF FillAdds
  <2>2. Tests(x, p, r, m, q, s, l)
    BY <1>p, <1>w, <1>1, <1>2, <2>1, FillTests
  <2>3. q = 19 /\ s[3] = r[3] /\ s[4] = x /\ s[5] = 60 /\ Tested(x, s[6]) /\ Same(m, l)
    BY <1>7, <2>2 DEF Tests
  <2>4. Cells(a, 63, 2, l)
    BY <1>3, <2>3
  <2> QED BY <2>1, <2>3, <2>4 DEF FillAdds
<1>8. CASE p = 19
  <2>1. /\ Executes(I("bt", 0, 6, 15), p, r, m, q, s, l) /\ 15 \in 0 .. 99
        /\ r[4] = x /\ InLoop(a, x, 64) /\ Tested(x, r[6]) /\ SumBelow(a, x, r[3])
    BY <1>8, FillLines DEF FillAdds
  <2>2. Loops(a, x, 15, p, r, m, q, s, l)
    BY <1>p, <1>w, <1>1, <2>1, FillLoops
  <2> QED BY <1>2, <1>3, <1>8, <2>1, <2>2 DEF Loops, FillAdds
<1> QED BY <1>p, <1>4, <1>5, <1>6, <1>7, <1>8

(* One line of Fill after the other. *)
LEMMA FillStep ==
  ASSUME Roomy, NEW a \in FillFrom, NEW P, P = Fill(a), NEW p, p # 20,
         NEW r, NEW m, NEW q, NEW s, NEW l, Registers(r), Registers(s),
         FillAt(a, p, r, m), Executes(P[p + 1], p, r, m, q, s, l)
  PROVE  FillAt(a, q, s, l)
<1>1. a \in Nat
  BY DEF Roomy
<1>2. CASE FillStarts(p, r)
  <2>1. FillStarts(q, s) \/ FillStores(a, a, q, s, l)
    BY <1>2, FillStartsStep
  <2> QED BY <1>1, <2>1 DEF FillAt
<1>3. ASSUME NEW x \in Nat,
             FillStores(a, x, p, r, m) \/ FillDoubles(a, x, p, r, m) \/ FillAdds(a, x, p, r, m)
      PROVE  FillAt(a, q, s, l)
  <2>1. PICK y \in Nat : y = x + 4
    OBVIOUS
  <2>2. CASE FillStores(a, x, p, r, m)
    <3>1. FillStores(a, x, q, s, l) \/ FillStores(a, y, q, s, l) \/ FillDoubles(a, a, q, s, l)
      BY <2>1, <2>2, FillStoresStep
    <3> QED BY <1>1, <3>1 DEF FillAt
  <2>3. CASE FillDoubles(a, x, p, r, m)
    <3>1. FillDoubles(a, x, q, s, l) \/ FillDoubles(a, y, q, s, l) \/ FillAdds(a, a, q, s, l)
      BY <2>1, <2>3, FillDoublesStep
    <3> QED BY <1>1, <3>1 DEF FillAt
  <2>4. CASE FillAdds(a, x, p, r, m)
    <3>1. FillAdds(a, x, q, s, l) \/ FillAdds(a, y, q, s, l)
      BY <2>1, <2>4, FillAddsStep
    <3> QED BY <3>1 DEF FillAt
  <2> QED BY <1>3, <2>2, <2>3, <2>4
<1> QED BY <1>2, <1>3 DEF FillAt

(* Its lines fit in a word, it stores above them, and it ends with its result. *)
LEMMA FillFits ==
  ASSUME Roomy, NEW a \in FillFrom, NEW P, P = Fill(a), NEW p \in 0 .. 20
  PROVE  Fits(P[p + 1])
<1>1. Wide /\ a \in 21 .. 60 /\ IMM \in Nat /\ IMM > 120
  BY WordIsWide DEF Roomy, Wide
<1>2. 0 \in Reg /\ 3 \in Reg /\ 4 \in Reg /\ 5 \in Reg /\ 6 \in Reg
  BY <1>1, RegisterNumbers
<1>3. \A op : \A d \in Reg, i \in Reg, c \in 0 .. 60 : Fits(I(op, d, i, c))
  BY <1>1 DEF Fits, I
<1>4. Fits(I("addi", 4, 0, a))
  BY <1>1, <1>2, <1>3
<1>5. /\ Fits(P[1]) /\ Fits(P[2]) /\ Fits(P[3]) /\ Fits(P[4]) /\ Fits(P[5]) /\ Fits(P[6])
      /\ Fits(P[7]) /\ Fits(P[8])
  BY <1>2, <1>3, <1>4, FillLines
<1>6. /\ Fits(P[9]) /\ Fits(P[10]) /\ Fits(P[11]) /\ Fits(P[12]) /\ Fits(P[13]) /\ Fits(P[14])
      /\ Fits(P[15])
  BY <1>2, <1>3, <1>4, FillLines
<1>7. /\ Fits(P[16]) /\ Fits(P[17]) /\ Fits(P[18]) /\ Fits(P[19]) /\ Fits(P[20]) /\ Fits(P[21])
  BY <1>2, <1>3, FillLines
<1> QED BY <1>5, <1>6, <1>7

LEMMA FillEnds ==
  ASSUME Roomy, NEW a \in FillFrom, NEW p, NEW r, NEW m, FillAt(a, p, r, m)
  PROVE  /\ p \in 0 .. 20
         /\ p = 20 => 4 * r[3] = (60 + a) * (64 - a)
<1>1. CASE FillStarts(p, r)
  BY <1>1 DEF FillStarts
<1>2. ASSUME NEW x \in Nat,
             FillStores(a, x, p, r, m) \/ FillDoubles(a, x, p, r, m) \/ FillAdds(a, x, p, r, m)
      PROVE  p \in 3 .. 20 /\ (p = 20 => SumBelow(a, 64, r[3]))
  BY <1>2 DEF FillStores, FillDoubles, FillAdds
<1>3. a \in 21 .. 60
  BY DEF Roomy
<1>4. (64 - a) * ((64 + a) - 4) = (60 + a) * (64 - a)
  BY <1>3
<1> QED BY <1>1, <1>2, <1>4 DEF FillAt, SumBelow

LEMMA FillStoresAbove ==
  ASSUME Roomy, NEW a \in FillFrom, NEW P, P = Fill(a), NEW p, NEW r, NEW m, Registers(r),
         FillAt(a, p, r, m), P[p + 1].op = "st"
  PROVE  AddressIn(P[p + 1], r) >= 21
<1>1. Wide /\ a \in 21 .. 60
  BY DEF Roomy
<1>r. 4 \in Reg
  BY <1>1, RegisterNumbers
<1>0. \A op, d, i, c : I(op, d, i, c).op = op /\ I(op, d, i, c).s1 = i /\ I(op, d, i, c).s2 = c
  BY DEF I
<1>2. /\ P[1].op = "addi" /\ P[2].op = "addi" /\ P[3].op = "addi" /\ P[5].op = "addi"
      /\ P[6].op = "sge" /\ P[7].op = "bt" /\ P[8].op = "addi" /\ P[9].op = "ld"
      /\ P[10].op = "add" /\ P[12].op = "addi" /\ P[13].op = "sge" /\ P[14].op = "bt"
  BY <1>0, FillLines
<1>3. /\ P[15].op = "addi" /\ P[16].op = "ld" /\ P[17].op = "add" /\ P[18].op = "addi"
      /\ P[19].op = "sge" /\ P[20].op = "bt" /\ P[21].op = "halt"
  BY <1>0, FillLines
<1>4. p \in {3, 10}
  <2>1. p \in 0 .. 20
    BY FillEnds
  <2> QED BY <1>2, <1>3, <2>1
<1>5. P[p + 1].s1 = 4 /\ P[p + 1].s2 = 0
  <2>1. P[4].s1 = 4 /\ P[4].s2 = 0 /\ P[11].s1 = 4 /\ P[11].s2 = 0
    BY <1>0, FillLines
  <2> QED BY <1>4, <2>1
<1>6. PICK x \in Nat : r[4] = x /\ InLoop(a, x, 60)
  BY <1>4 DEF FillAt, FillStarts, FillStores, FillDoubles, FillAdds
<1>7. x \in 21 .. 60 /\ x \in 0 .. 100
  BY <1>1, <1>6 DEF InLoop
<1>8. Small(r[4]) /\ x < WORD /\ x = r[4] + 0 /\ 0 \in Int
  BY <1>1, <1>6, <1>7, SmallNumbers
<1>9. PICK line : line = P[p + 1]
  OBVIOUS
<1>10. AddressIn(line, r) = x
  BY <1>1, <1>r, <1>5, <1>8, <1>9, Addresses
<1> QED BY <1>7, <1>9, <1>10

-------------------------------------------------------------------------------
(* The programs on the machine. *)

IsFac(P) == \E n \in FacN : P = Fac(n)
IsGcd(P) == \E a, b \in GcdN : P = Gcd(a, b)
IsFill(P) == \E a \in FillFrom : P = Fill(a)
Computes(P) == IsFac(P) \/ IsGcd(P) \/ IsFill(P)

ProgramAt(P, p, r, m) ==
  /\ \A n \in FacN : P = Fac(n) => FacAt(n, p, r, m)
  /\ \A a, b \in GcdN : P = Gcd(a, b) => GcdAt(a, b, p, r)
  /\ \A a \in FillFrom : P = Fill(a) => FillAt(a, p, r, m)

(* Each halts at its last line and nowhere else. *)
LEMMA FacHalts ==
  ASSUME NEW n, NEW P, P = Fac(n), NEW p \in 0 .. 25
  PROVE  Len(P) = 26 /\ (P[p + 1].op = "halt" <=> p = 25)
<1>0. \A op, d, a, c : I(op, d, a, c).op = op
  BY DEF I
<1>1. /\ P[1].op = "addi" /\ P[2].op = "call" /\ P[3].op = "call" /\ P[4].op = "st"
      /\ P[5].op = "st" /\ P[6].op = "subi" /\ P[7].op = "seqi" /\ P[8].op = "bf"
      /\ P[9].op = "addi" /\ P[10].op = "addi" /\ P[11].op = "jmp" /\ P[12].op = "subi"
      /\ P[13].op = "call" /\ P[14].op = "ld"
  BY <1>0, FacLines
<1>2. /\ P[15].op = "mul" /\ P[16].op = "ld" /\ P[17].op = "addi" /\ P[18].op = "jmp"
      /\ P[19].op = "st" /\ P[20].op = "subi" /\ P[21].op = "addi" /\ P[22].op = "call"
      /\ P[23].op = "ld" /\ P[24].op = "addi" /\ P[25].op = "jmp" /\ P[26].op = "halt"
  BY <1>0, FacLines
<1>3. Len(P) = 26
  BY FacLines
<1> QED BY <1>1, <1>2, <1>3

LEMMA GcdHalts ==
  ASSUME NEW a, NEW b, NEW P, P = Gcd(a, b), NEW p \in 0 .. 10
  PROVE  Len(P) = 11 /\ (P[p + 1].op = "halt" <=> p = 10)
<1>0. \A op, d, i, c : I(op, d, i, c).op = op
  BY DEF I
<1>1. /\ P[1].op = "addi" /\ P[2].op = "addi" /\ P[3].op = "seq" /\ P[4].op = "bt"
      /\ P[5].op = "sgt" /\ P[6].op = "bf" /\ P[7].op = "sub" /\ P[8].op = "ba"
      /\ P[9].op = "sub" /\ P[10].op = "ba" /\ P[11].op = "halt"
  BY <1>0, GcdLines
<1>2. Len(P) = 11
  BY GcdLines
<1> QED BY <1>1, <1>2

LEMMA FillHalts ==
  ASSUME NEW a, NEW P, P = Fill(a), NEW p \in 0 .. 20
  PROVE  Len(P) = 21 /\ (P[p + 1].op = "halt" <=> p = 20)
<1>0. \A op, d, i, c : I(op, d, i, c).op = op
  BY DEF I
<1>1. /\ P[1].op = "addi" /\ P[2].op = "addi" /\ P[3].op = "addi" /\ P[4].op = "st"
      /\ P[5].op = "addi" /\ P[6].op = "sge" /\ P[7].op = "bt" /\ P[8].op = "addi"
      /\ P[9].op = "ld" /\ P[10].op = "add" /\ P[11].op = "st" /\ P[12].op = "addi"
  BY <1>0, FillLines
<1>2. /\ P[13].op = "sge" /\ P[14].op = "bt" /\ P[15].op = "addi" /\ P[16].op = "ld"
      /\ P[17].op = "add" /\ P[18].op = "addi" /\ P[19].op = "sge" /\ P[20].op = "bt"
      /\ P[21].op = "halt"
  BY <1>0, FillLines
<1>3. Len(P) = 21
  BY FillLines
<1> QED BY <1>1, <1>2, <1>3

(* Wherever one of the programs is, the line fits, and a store goes above it. *)
LineFits(P, p, r) ==
  /\ p \in 0 .. Len(P) - 1 /\ Fits(P[p + 1])
  /\ P[p + 1].op = "st" => AddressIn(P[p + 1], r) >= Len(P)
  /\ P[p + 1].op = "halt" => p = Len(P) - 1

LEMMA ProgramLines ==
  ASSUME Roomy, NEW P, Computes(P), NEW p, NEW r, NEW m, Registers(r), ProgramAt(P, p, r, m)
  PROVE  LineFits(P, p, r)
<1>1. ASSUME NEW n \in FacN, P = Fac(n)
      PROVE  LineFits(P, p, r)
  <2>1. FacAt(n, p, r, m)
    BY <1>1 DEF ProgramAt
  <2>2. p \in 0 .. 25
    BY <2>1, FacEnds
  <2>3. Len(P) = 26 /\ (P[p + 1].op = "halt" <=> p = 25)
    BY <1>1, <2>2, FacHalts
  <2>4. Fits(P[p + 1])
    BY <1>1, <2>2, FacFits
  <2>5. P[p + 1].op = "st" => AddressIn(P[p + 1], r) >= 26
    BY <1>1, <2>1, FacStores
  <2> QED BY <2>2, <2>3, <2>4, <2>5 DEF LineFits
<1>2. ASSUME NEW a \in GcdN, NEW b \in GcdN, P = Gcd(a, b)
      PROVE  LineFits(P, p, r)
  <2>1. GcdAt(a, b, p, r)
    BY <1>2 DEF ProgramAt
  <2>2. p \in 0 .. 10
    BY <2>1, GcdEnds
  <2>3. Len(P) = 11 /\ (P[p + 1].op = "halt" <=> p = 10)
    BY <1>2, <2>2, GcdHalts
  <2>4. Fits(P[p + 1]) /\ P[p + 1].op # "st"
    BY <1>2, <2>2, GcdFits
  <2> QED BY <2>2, <2>3, <2>4 DEF LineFits
<1>3. ASSUME NEW a \in FillFrom, P = Fill(a)
      PROVE  LineFits(P, p, r)
  <2>1. FillAt(a, p, r, m)
    BY <1>3 DEF ProgramAt
  <2>2. p \in 0 .. 20
    BY <2>1, FillEnds
  <2>3. Len(P) = 21 /\ (P[p + 1].op = "halt" <=> p = 20)
    BY <1>3, <2>2, FillHalts
  <2>4. Fits(P[p + 1])
    BY <1>3, <2>2, FillFits
  <2>5. P[p + 1].op = "st" => AddressIn(P[p + 1], r) >= 21
    BY <1>3, <2>1, FillStoresAbove
  <2> QED BY <2>2, <2>3, <2>4, <2>5 DEF LineFits
<1> QED BY <1>1, <1>2, <1>3 DEF Computes, IsFac, IsGcd, IsFill

LEMMA ProgramStep ==
  ASSUME Roomy, NEW P, Computes(P), NEW p, NEW r, NEW m, NEW q, NEW s, NEW l,
         Registers(r), Registers(s), ProgramAt(P, p, r, m), P[p + 1].op # "halt",
         Executes(P[p + 1], p, r, m, q, s, l)
  PROVE  ProgramAt(P, q, s, l)
<1>1. ASSUME NEW n \in FacN, P = Fac(n)
      PROVE  FacAt(n, q, s, l)
  <2>1. FacAt(n, p, r, m)
    BY <1>1 DEF ProgramAt
  <2>2. p \in 0 .. 25
    BY <2>1, FacEnds
  <2>3. p # 25
    BY <1>1, <2>2, FacHalts
  <2> QED BY <1>1, <2>1, <2>3, FacStep
<1>2. ASSUME NEW a \in GcdN, NEW b \in GcdN, P = Gcd(a, b)
      PROVE  GcdAt(a, b, q, s)
  <2>1. GcdAt(a, b, p, r)
    BY <1>2 DEF ProgramAt
  <2>2. p \in 0 .. 10
    BY <2>1, GcdEnds
  <2>3. p # 10
    BY <1>2, <2>2, GcdHalts
  <2> QED BY <1>2, <2>1, <2>3, GcdStep
<1>3. ASSUME NEW a \in FillFrom, P = Fill(a)
      PROVE  FillAt(a, q, s, l)
  <2>1. FillAt(a, p, r, m)
    BY <1>3 DEF ProgramAt
  <2>2. p \in 0 .. 20
    BY <2>1, FillEnds
  <2>3. p # 20
    BY <1>3, <2>2, FillHalts
  <2> QED BY <1>3, <2>1, <2>3, FillStep
<1> QED BY <1>1, <1>2, <1>3 DEF ProgramAt

(* Paging an unrelated word in or out changes nothing for a program. *)
LEMMA ProgramSame ==
  ASSUME Roomy, NEW P, NEW p, NEW r, NEW m, NEW l, ProgramAt(P, p, r, m), Same(m, l)
  PROVE  ProgramAt(P, p, r, l)
<1>1. ASSUME NEW n \in FacN, FacAt(n, p, r, m)
      PROVE  FacAt(n, p, r, l)
  <2>1. n \in 1 .. 16
    BY DEF Roomy
  <2>2. CASE FacMain(n, p, r, m)
    <3>1. m[59] = 2 => l[59] = 2
      BY DEF Same
    <3>2. FacMain(n, p, r, l)
      BY <2>2, <3>1 DEF FacMain
    <3> QED BY <3>2 DEF FacAt
  <2>3. ASSUME NEW k \in 1 .. n,
               FacEnters(n, k, p, r, m) \/ FacOfOne(n, k, p, r, m)
                 \/ FacRecurs(n, k, p, r, m) \/ FacReturns(n, k, p, r, m)
        PROVE  FacAt(n, p, r, l)
    <3>1. /\ Frames(n, k, m) => Frames(n, k, l)
          /\ Frames(n, k + 1, m) => Frames(n, k + 1, l)
      <4>1. k \in 1 .. n + 1 /\ k + 1 \in 1 .. n + 1
        BY <2>1
      <4> QED BY <2>1, <4>1, FramesSame
    <3>2. m[Base(n, k) + 1] = Return(n, k) => l[Base(n, k) + 1] = Return(n, k)
      <4>1. PICK b \in Nat : b = Base(n, k) + 1
        BY <2>1 DEF Base
      <4>2. Return(n, k) \in Nat
        BY DEF Return
      <4> QED BY <4>1, <4>2 DEF Same
    <3>3. /\ FacEnters(n, k, p, r, m) => FacEnters(n, k, p, r, l)
          /\ FacOfOne(n, k, p, r, m) => FacOfOne(n, k, p, r, l)
          /\ FacRecurs(n, k, p, r, m) => FacRecurs(n, k, p, r, l)
          /\ FacReturns(n, k, p, r, m) => FacReturns(n, k, p, r, l)
      <4>1. FacEnters(n, k, p, r, m) => FacEnters(n, k, p, r, l)
        BY <3>1, <3>2 DEF FacEnters
      <4>2. FacOfOne(n, k, p, r, m) => FacOfOne(n, k, p, r, l)
        BY <3>1 DEF FacOfOne
      <4>3. FacRecurs(n, k, p, r, m) => FacRecurs(n, k, p, r, l)
        BY <3>1 DEF FacRecurs
      <4>4. FacReturns(n, k, p, r, m) => FacReturns(n, k, p, r, l)
        BY <3>1 DEF FacReturns
      <4> QED BY <4>1, <4>2, <4>3, <4>4
    <3> QED BY <2>3, <3>3 DEF FacAt
  <2> QED BY <1>1, <2>2, <2>3 DEF FacAt
<1>2. ASSUME NEW a \in FillFrom, FillAt(a, p, r, m)
      PROVE  FillAt(a, p, r, l)
  <2>1. a \in Nat /\ 1 \in {1, 2} /\ 2 \in {1, 2}
    BY DEF Roomy
  <2>2. CASE FillStarts(p, r)
    BY <2>2 DEF FillAt
  <2>3. ASSUME NEW x \in Nat,
               FillStores(a, x, p, r, m) \/ FillDoubles(a, x, p, r, m) \/ FillAdds(a, x, p, r, m)
        PROVE  FillAt(a, p, r, l)
    <3>1. x - 1 \in Int /\ x + 1 \in Nat /\ 60 \in Int /\ 63 \in Int
      OBVIOUS
    <3>2. /\ Cells(a, x - 1, 1, m) => Cells(a, x - 1, 1, l)
          /\ Cells(a, x - 1, 2, m) => Cells(a, x - 1, 2, l)
          /\ Cells(x + 1, 60, 1, m) => Cells(x + 1, 60, 1, l)
          /\ Cells(a, 63, 2, m) => Cells(a, 63, 2, l)
      BY <2>1, <3>1, CellsSame
    <3>3. (m[x] = x => l[x] = x) /\ (m[x] = 2 * x => l[x] = 2 * x)
      BY DEF Same
    <3>4. FillStores(a, x, p, r, m) => FillStores(a, x, p, r, l)
      BY <3>2, <3>3 DEF FillStores
    <3>5. FillDoubles(a, x, p, r, m) => FillDoubles(a, x, p, r, l)
      BY <3>2, <3>3 DEF FillDoubles
    <3>6. FillAdds(a, x, p, r, m) => FillAdds(a, x, p, r, l)
      BY <3>2 DEF FillAdds
    <3> QED BY <2>3, <3>4, <3>5, <3>6 DEF FillAt
  <2> QED BY <1>2, <2>2, <2>3 DEF FillAt
<1> QED BY <1>1, <1>2 DEF ProgramAt

(* One of the programs is in memory, line for line, and where the machine is   *)
(* in it, with what the registers and memory hold, is as ProgramAt says.       *)
ProgramInv ==
  Computes(program) =>
    /\ LinesStored /\ ProgramAt(program, pc, reg, Mem)
    /\ status = "load" => pc = 0
    /\ status = "halted" => pc = Len(program) - 1

LEMMA ProgramStarts ==
  ASSUME NEW P, NEW r, NEW m
  PROVE  ProgramAt(P, 0, r, m)
<1>1. \A n : FacAt(n, 0, r, m)
  BY DEF FacAt, FacMain
<1>2. \A a, b : GcdAt(a, b, 0, r)
  BY DEF GcdAt
<1>3. \A a : FillAt(a, 0, r, m)
  BY DEF FillAt, FillStarts
<1> QED BY <1>1, <1>2, <1>3 DEF ProgramAt

LEMMA ProgramInit == MachineInit => ProgramInv
<1> SUFFICES ASSUME MachineInit
             PROVE  ProgramInv
  OBVIOUS
<1>1. loaded = 0 /\ status = "load" /\ pc = 0
  BY DEF MachineInit
<1>2. LinesStored
  BY <1>1 DEF LinesStored
<1>3. ProgramAt(program, pc, reg, Mem)
  BY <1>1, ProgramStarts
<1> QED BY <1>1, <1>2, <1>3 DEF ProgramInv

(* While one of the programs runs, the instruction executed is its line. *)
LEMMA ProgramExecutes ==
  ASSUME Roomy, MInv, ProgramInv, Computes(program), status = "execute"
  PROVE  /\ Decodes(program[pc + 1]) /\ KeepsOwnLines
         /\ program[pc + 1].op = "halt" => pc = Len(program) - 1
<1>1. TypeOK /\ MachineTypeOK /\ Wide
  BY DEF MInv, IInv, Roomy
<1>2. LinesStored /\ ProgramAt(program, pc, reg, Mem)
  BY DEF ProgramInv
<1>3. Registers(reg)
  BY <1>1 DEF MachineTypeOK, Registers
<1>4. LineFits(program, pc, reg)
  BY <1>2, <1>3, ProgramLines
<1>5. PICK line : line = program[pc + 1]
  OBVIOUS
<1>6. /\ pc \in 0 .. Len(program) - 1 /\ Fits(line)
      /\ line.op = "st" => AddressIn(line, reg) >= Len(program)
      /\ line.op = "halt" => pc = Len(program) - 1
  BY <1>4, <1>5 DEF LineFits
<1>7. Len(program) \in Nat
  BY <1>1, MachineAssumption DEF MachineTypeOK
<1>8. loaded = Len(program) /\ data = make_instr(line) /\ Known(line.op)
  <2>1. loaded = Len(program)
    BY <1>2 DEF LinesStored
  <2>2. pc \in 0 .. loaded - 1 /\ pc < Len(program)
    BY <1>6, <1>7, <2>1
  <2> QED BY <1>2, <1>5, <2>1, <2>2 DEF LinesStored
<1>9. Decodes(line)
  <2>1. Len(mnemonics) * (NREG * (NREG * IMM)) <= WORD
    BY <1>1 DEF Wide
  <2> QED BY <1>6, <1>8, <2>1, DecodeInverts
<1>10. Op = line.op /\ Address = AddressIn(line, reg)
  BY <1>9 DEF Decodes, Address, AddressIn, source1, Operand1
<1>11. KeepsOwnLines
  BY <1>6, <1>10 DEF KeepsOwnLines
<1> QED BY <1>5, <1>6, <1>9, <1>11

LEMMA ProgramInvStep ==
  Roomy /\ MInv /\ MInv' /\ ProgramInv /\ [MachineNext]_<<cpu, vars>> => ProgramInv'
<1> SUFFICES ASSUME Roomy, MInv, MInv', ProgramInv, [MachineNext]_<<cpu, vars>>, Computes(program')
             PROVE  /\ LinesStored' /\ ProgramAt(program', pc', reg', Mem')
                    /\ status' = "load" => pc' = 0
                    /\ status' = "halted" => pc' = Len(program') - 1
  BY DEF ProgramInv
<1>1. Registers(reg) /\ Registers(reg')
  BY DEF MInv, MachineTypeOK, Registers
<1>2. CASE status # "execute"
  <2>1. /\ program' = program /\ Waits
        /\ status' = "load" => status = "load"
        /\ status' = "halted" => status = "halted"
    BY <1>2, OtherStepsWait
  <2>2. Computes(program)
    BY <2>1
  <2>3. /\ LinesStored /\ ProgramAt(program, pc, reg, Mem)
        /\ status = "load" => pc = 0
        /\ status = "halted" => pc = Len(program) - 1
    BY <2>2 DEF ProgramInv
  <2>4. LinesStored'
    BY <1>2, <2>3, LinesKept DEF KeepsOwnLines
  <2>5. pc' = pc /\ reg' = reg /\ (status = "load" \/ Same(Mem, Mem'))
    BY <2>1 DEF Waits
  <2>6. PICK l : l = Mem'
    OBVIOUS
  <2>7. ProgramAt(program, pc, reg, l)
    <3>1. CASE status = "load"
      BY <2>3, <3>1, ProgramStarts
    <3>2. CASE Same(Mem, l)
      BY <2>3, <3>2, ProgramSame
    <3> QED BY <2>5, <2>6, <3>1, <3>2
  <2> QED BY <2>1, <2>3, <2>4, <2>5, <2>6, <2>7
<1>3. CASE status = "execute" /\ MachineNext
  <2>1. PICK line : line = program[pc + 1]
    OBVIOUS
  <2>2. program' = program
    BY <1>3 DEF MachineNext, LoadLine, SyntaxError, Fetch, Compute, Branch, Call, LoadWord,
                StoreWord, Stop, WildAccess, Abort, cpu
  <2>3. Computes(program)
    BY <2>2
  <2>4. LinesStored /\ ProgramAt(program, pc, reg, Mem)
    BY <2>3 DEF ProgramInv
  <2>5. /\ Decodes(line) /\ KeepsOwnLines
        /\ line.op = "halt" => pc = Len(program) - 1
    BY <1>3, <2>1, <2>3, ProgramExecutes
  <2>6. LinesStored'
    BY <2>4, <2>5, LinesKept
  <2>7. /\ status' # "load"
        /\ \/ Waits /\ status' # "halted"
           \/ Waits /\ line.op = "halt"
           \/ Proceeds(line) /\ line.op # "halt" /\ status' = "fetch"
    BY <1>3, <2>5, ExecutesItsLine
  <2>8. PICK q, s, l : q = pc' /\ s = reg' /\ l = Mem'
    OBVIOUS
  <2>9. CASE Waits
    <3>1. q = pc /\ s = reg /\ Same(Mem, l)
      BY <1>3, <2>8, <2>9 DEF Waits
    <3>2. ProgramAt(program, q, s, l)
      BY <2>4, <3>1, ProgramSame
    <3>3. status' = "halted" => pc = Len(program) - 1
      BY <2>5, <2>7
    <3> QED BY <2>2, <2>6, <2>7, <2>8, <3>1, <3>2, <3>3
  <2>10. CASE Proceeds(line) /\ line.op # "halt" /\ status' = "fetch"
    <3>1. Executes(program[pc + 1], pc, reg, Mem, q, s, l) /\ program[pc + 1].op # "halt"
      BY <2>1, <2>8, <2>10 DEF Proceeds
    <3>2. Registers(s)
      BY <1>1, <2>8
    <3>3. ProgramAt(program, q, s, l)
      BY <1>1, <2>3, <2>4, <3>1, <3>2, ProgramStep
    <3> QED BY <2>2, <2>6, <2>8, <2>10, <3>3
  <2> QED BY <2>7, <2>9, <2>10
<1>4. CASE UNCHANGED <<cpu, vars>>
  <2>1. /\ program' = program /\ pc' = pc /\ reg' = reg /\ status' = status
        /\ loaded' = loaded /\ data' = data
    BY <1>4 DEF cpu, vars
  <2>2. \A a : Used(a)' = Used(a) /\ WordAt(a)' = WordAt(a)
    BY <1>4 DEF vars, Used, WordAt, StoreOf
  <2>3. Mem' = Mem
    BY <2>2 DEF Mem
  <2>4. Computes(program)
    BY <2>1
  <2>5. /\ LinesStored /\ ProgramAt(program, pc, reg, Mem)
        /\ status = "load" => pc = 0
        /\ status = "halted" => pc = Len(program) - 1
    BY <2>4 DEF ProgramInv
  <2>6. LinesStored'
    BY <2>1, <2>2, <2>5 DEF LinesStored
  <2> QED BY <2>1, <2>3, <2>5, <2>6
<1> QED BY <1>2, <1>3, <1>4

LEMMA ProgramInvComputes == Roomy /\ ProgramInv => ProgramsCompute
<1> SUFFICES ASSUME Roomy, ProgramInv, status = "halted"
             PROVE  /\ \A n \in FacN : program = Fac(n) => reg[3] = Factorial[n] /\ reg[1] = Stack
                    /\ \A a, b \in GcdN : program = Gcd(a, b) =>
                         /\ Divides(reg[3], a) /\ Divides(reg[3], b)
                         /\ \A d \in 1 .. a : Divides(d, a) /\ Divides(d, b) => d <= reg[3]
                    /\ \A a \in FillFrom : program = Fill(a) =>
                         4 * reg[3] = (60 + a) * (64 - a)
  BY DEF ProgramsCompute
<1>1. Computes(program) => ProgramAt(program, pc, reg, Mem) /\ pc = Len(program) - 1
  BY DEF ProgramInv
<1>2. ASSUME NEW n \in FacN, program = Fac(n)
      PROVE  reg[3] = Factorial[n] /\ reg[1] = Stack
  <2>1. Computes(program)
    BY <1>2 DEF Computes, IsFac
  <2>2. FacAt(n, pc, reg, Mem)
    BY <1>1, <1>2, <2>1 DEF ProgramAt
  <2>3. pc = 25
    BY <1>1, <1>2, <2>1, FacLines
  <2> QED BY <2>2, <2>3, FacEnds DEF Stack
<1>3. ASSUME NEW a \in GcdN, NEW b \in GcdN, program = Gcd(a, b)
      PROVE  /\ Divides(reg[3], a) /\ Divides(reg[3], b)
             /\ \A d \in 1 .. a : Divides(d, a) /\ Divides(d, b) => d <= reg[3]
  <2>1. Computes(program)
    BY <1>3 DEF Computes, IsGcd
  <2>2. GcdAt(a, b, pc, reg)
    BY <1>1, <1>3, <2>1 DEF ProgramAt
  <2>3. pc = 10
    BY <1>1, <1>3, <2>1, GcdLines
  <2> QED BY <2>2, <2>3, GcdEnds
<1>4. ASSUME NEW a \in FillFrom, program = Fill(a)
      PROVE  4 * reg[3] = (60 + a) * (64 - a)
  <2>1. Computes(program)
    BY <1>4 DEF Computes, IsFill
  <2>2. FillAt(a, pc, reg, Mem)
    BY <1>1, <1>4, <2>1 DEF ProgramAt
  <2>3. pc = 20
    BY <1>1, <1>4, <2>1, FillLines
  <2> QED BY <2>2, <2>3, FillEnds
<1> QED BY <1>2, <1>3, <1>4

(* A program that halts has computed what it is for: fac.s the factorial, with
   the stack pointer where it was and through every return address it saved in
   memory, however the pages of its stack and of its lines were replaced and
   whatever the registers held at the start (machine.c:338-453). *)
THEOREM ProgramsAlwaysCompute ==
  ASSUME Roomy
  PROVE  MachineSpec => []ProgramsCompute
<1>1. MachineInit => ProgramInv
  BY ProgramInit
<1>2. MInv /\ MInv' /\ ProgramInv /\ [MachineNext]_<<cpu, vars>> => ProgramInv'
  BY ProgramInvStep
<1>3. ProgramInv => ProgramsCompute
  BY ProgramInvComputes
<1> QED BY <1>1, <1>2, <1>3, MachineInvariant, PTL DEF MachineSpec
================================================================================
