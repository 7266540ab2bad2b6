------------------------------ MODULE MCMachine ------------------------------
(***************************************************************************)
(* Programs for Machine: lab2/fac.s with its last register and its stack   *)
(* moved into the small machine, two loops that use the other              *)
(* instructions, and programs that end in each of the other ways.          *)
(***************************************************************************)
EXTENDS Machine

CONSTANTS FacN, GcdN, FillFrom

I(op, dest, s1, s2) == [op |-> op, dest |-> dest, s1 |-> s1, s2 |-> s2]

Stack == 60
Link == NREG - 1

(* lab2/fac.s, for N = n *)
Fac(n) ==
  << I("addi", 1, 0, Stack), I("call", 0, 0, 18), I("call", 0, 0, 25),
     I("st", Link, 1, -1), I("st", 3, 1, -2), I("subi", 1, 1, 2),
     I("seqi", 4, 3, 1), I("bf", 0, 4, 11),
     I("addi", 3, 0, 1), I("addi", 1, 1, 2), I("jmp", 0, Link, 0),
     I("subi", 3, 3, 1), I("call", 0, 0, 3), I("ld", 4, 1, 0), I("mul", 3, 3, 4),
     I("ld", 5, 1, 1), I("addi", 1, 1, 2), I("jmp", 0, 5, 0),
     I("st", Link, 1, -1), I("subi", 1, 1, 1), I("addi", 3, 0, n), I("call", 0, 0, 3),
     I("ld", 5, 1, 0), I("addi", 1, 1, 1), I("jmp", 0, 5, 0),
     I("halt", 0, 0, 0) >>

(* the greatest common divisor of a and b, by subtraction *)
Gcd(a, b) ==
  << I("addi", 3, 0, a), I("addi", 4, 0, b),
     I("seq", 5, 3, 4), I("bt", 0, 5, 10), I("sgt", 5, 3, 4), I("bf", 0, 5, 8),
     I("sub", 3, 3, 4), I("ba", 0, 0, 2), I("sub", 4, 4, 3), I("ba", 0, 0, 2),
     I("halt", 0, 0, 0) >>

(* store every fourth address from a to 60 at itself, double each, add them up *)
Fill(a) ==
  << I("addi", 3, 0, 0), I("addi", 5, 0, 60), I("addi", 4, 0, a),
     I("st", 4, 4, 0), I("addi", 4, 4, 4), I("sge", 6, 5, 4), I("bt", 0, 6, 3),
     I("addi", 4, 0, a),
     I("ld", 6, 4, 0), I("add", 6, 6, 6), I("st", 6, 4, 0), I("addi", 4, 4, 4),
     I("sge", 6, 5, 4), I("bt", 0, 6, 8),
     I("addi", 4, 0, a),
     I("ld", 6, 4, 0), I("add", 3, 3, 6), I("addi", 4, 4, 4), I("sge", 6, 5, 4),
     I("bt", 0, 6, 15),
     I("halt", 0, 0, 0) >>

(* a word with no instruction's code; a write to register 0, then an address
   behind the last page; a name that is not in mnemonics *)
Illegal == << I("addi", 3, 0, -1), I("st", 3, 0, 20), I("ba", 0, 0, 20) >>
Wild == << I("addi", 0, 0, 1), I("addi", 3, 0, 63), I("ld", 3, 3, 1) >>
Misspelt == << I("addi", 3, 0, 1), I("stop", 0, 0, 0) >>

Programs ==
  {Fac(n) : n \in FacN} \cup {Gcd(a, b) : a, b \in GcdN} \cup {Fill(a) : a \in FillFrom}
    \cup {Illegal, Wild, Misspelt}

Words == 0 .. WORD - 1
Pages == 0 .. NPAGES - 1

Factorial[n \in Nat] == IF n = 0 THEN 1 ELSE n * Factorial[n - 1]

Divides(d, n) == n % d = 0

(* A program that halts has computed what it is for: fac.s the factorial, with
   the stack pointer where it was and through every return address it saved
   (machine.c:338-453), whatever the registers held at the start. *)
ProgramsCompute ==
  status = "halted" =>
    /\ \A n \in FacN : program = Fac(n) => reg[3] = Factorial[n] /\ reg[1] = Stack
    /\ \A a, b \in GcdN : program = Gcd(a, b) =>
         /\ Divides(reg[3], a) /\ Divides(reg[3], b)
         /\ \A d \in 1 .. a : Divides(d, a) /\ Divides(d, b) => d <= reg[3]
    /\ \A a \in FillFrom : program = Fill(a) =>
         4 * reg[3] = (60 + a) * (64 - a)
===============================================================================
