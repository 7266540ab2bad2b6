----------------------------- MODULE TracerProofs ------------------------------
(***************************************************************************)
(* Proofs about Tracer, for every program, finite set of operands and      *)
(* number of signals: while the program runs, every divw in it is replaced, *)
(* one is executed only in a single step that was counted before, and the   *)
(* counts of the tracer are those of the divisions the program executed.    *)
(***************************************************************************)
EXTENDS Tracer, FiniteSetTheorems, WellFoundedInduction, TLAPS

(* A denominator has been divided by at most once per instruction. *)
Bounded == \A d \in Operand : performed[d] <= steps

(* Only a divw is entered in the table. *)
Entered == table # {} => "divw" \in Kind

(* Between stops every replaced divw is a zero word; during a single step all
   but one are. *)
Replaced ==
  /\ tpc \in {"start", "rewrite", "cont", "wait", "inspect"} =>
       \A x \in table : text[x] = "zero"
  /\ tpc = "stepwait" =>
       /\ stepping
       /\ addr \in Code
       /\ \A x \in table : x # addr => text[x] = "zero"

(* Where a divw is still in place: ahead of the rewriting, in a single step, or
   the tracer has finished. *)
InPlace(x) ==
  \/ tpc \in {"start", "rewrite"} /\ addr <= x
  \/ tpc = "stepwait" /\ addr = x
  \/ tpc \in {"done", "error", "not_in_table"}

Divisions ==
  /\ child = "running" => tpc \in {"wait", "stepwait"}
  /\ \A x \in Code : text[x] = "divw" => InPlace(x)

IInv == TypeOK /\ Bounded /\ Entered /\ Replaced /\ Divisions

(* A program divides only in a single step: the tracer has put the divw back
   and counted it (main.c:217,221). *)
DividesInStep == performed' # performed => tpc = "stepwait" /\ stepping

-------------------------------------------------------------------------------
LEMMA InitInvariant == Init => IInv
<1> SUFFICES ASSUME Init PROVE IInv
  OBVIOUS
<1>1. TypeOK
  <2>1. text \in [Code -> Word]
    BY DEF Init, Word
  <2>2. nip \in Code /\ addr \in 1 .. Last + 1
    BY BoundAssumption DEF Init, Code
  <2>3. sent \in 0 .. MaxSignals /\ steps \in 0 .. MaxSteps
    BY BoundAssumption DEF Init
  <2>4. performed \in [Operand -> 0 .. MaxSteps]
    BY BoundAssumption DEF Init
  <2>5. QED
    BY <2>1, <2>2, <2>3, <2>4 DEF Init, TypeOK
<1>2. Bounded
  BY DEF Init, Bounded
<1>3. Entered /\ Replaced
  BY DEF Init, Entered, Replaced
<1>4. Divisions
  BY DEF Init, Divisions, InPlace, Code
<1>5. QED
  BY <1>1, <1>2, <1>3, <1>4 DEF IInv

(* The counts stay typed: a row of the histogram is counted up only if there
   is one. *)
LEMMA CountTyped ==
  ASSUME TypeOK, Count
  PROVE  ndivw' \in Nat /\ hist' \in [0 .. MAX_DENOMINATOR -> Nat]
<1>1. rb \in Int
  BY BoundAssumption DEF TypeOK
<1>2. labs(rb) \in Nat
  BY <1>1 DEF labs
<1>3. Recorded(hist) \in [0 .. MAX_DENOMINATOR -> Nat]
  BY <1>2, BoundAssumption DEF Recorded, TypeOK
<1>4. QED
  BY <1>3 DEF Count, TypeOK

LEMMA TypeStep ==
  ASSUME IInv, [Next]_vars
  PROVE  TypeOK'
<1> USE BoundAssumption DEF IInv
<1>1. CASE ChildLost
  BY <1>1 DEF ChildLost, TypeOK, program, counts
<1>2. CASE FoundStopped
  BY <1>2 DEF FoundStopped, TypeOK, program, counts
<1>3. CASE RewriteInstr
  <2>1. text' \in [Code -> Word]
    BY <1>3 DEF RewriteInstr, TypeOK, Word
  <2>2. addr' \in 1 .. Last + 1 /\ table' \subseteq Code
    BY <1>3 DEF RewriteInstr, TypeOK, Code
  <2>3. QED
    BY <1>3, <2>1, <2>2 DEF RewriteInstr, TypeOK, counts
<1>4. CASE RewriteDone
  BY <1>4 DEF RewriteDone, TypeOK, program, counts
<1>5. CASE Continue
  BY <1>5 DEF Continue, TypeOK, counts
<1>6. CASE WaitStopped
  BY <1>6 DEF WaitStopped, TypeOK, program, counts
<1>7. CASE OtherStop
  BY <1>7 DEF OtherStop, TypeOK, program, counts
<1>8. CASE NotInTable
  BY <1>8 DEF NotInTable, TypeOK, program, counts
<1>9. CASE StepOver
  <2>1. "divw" \in Word
    BY <1>9 DEF StepOver, Entered, Word
  <2>2. text' \in [Code -> Word]
    BY <1>9, <2>1 DEF StepOver, TypeOK
  <2>3. ndivw' \in Nat /\ hist' \in [0 .. MAX_DENOMINATOR -> Nat]
    BY <1>9, CountTyped DEF StepOver
  <2>4. addr' \in 1 .. Last + 1
    BY <1>9 DEF StepOver, TypeOK, Code
  <2>5. QED
    BY <1>9, <2>2, <2>3, <2>4 DEF StepOver, TypeOK
<1>10. CASE StepWait
  <2>1. text' \in [Code -> Word]
    BY <1>10 DEF StepWait, AfterStep, TypeOK, Word
  <2>2. QED
    BY <1>10, <2>1 DEF StepWait, TypeOK, counts
<1>11. CASE Report
  BY <1>11 DEF Report, TypeOK, program
<1>12. CASE Execute
  <2>1. steps' \in 0 .. MaxSteps
    BY <1>12 DEF Execute, TypeOK
  <2>2. performed[rb] \in 0 .. MaxSteps /\ performed[rb] <= steps
    BY DEF TypeOK, Bounded
  <2>3. performed' \in [Operand -> 0 .. MaxSteps]
    BY <1>12, <2>2 DEF Execute, TypeOK
  <2>4. child' \in {"running", "stopped", "exited"}
    BY <1>12 DEF Execute
  <2>5. QED
    BY <1>12, <2>1, <2>3, <2>4 DEF Execute, TypeOK, counts
<1>13. CASE Trap
  BY <1>13 DEF Trap, TypeOK, program, counts
<1>14. CASE Interrupted
  BY <1>14 DEF Interrupted, TypeOK, program, counts
<1>15. CASE Signal
  BY <1>15 DEF Signal, TypeOK, program, counts
<1>16. CASE Kill
  BY <1>16 DEF Kill, TypeOK, program, counts
<1>17. CASE UNCHANGED vars
  BY <1>17 DEF vars, TypeOK, program, counts
<1>18. QED
  BY <1>1, <1>2, <1>3, <1>4, <1>5, <1>6, <1>7, <1>8, <1>9, <1>10, <1>11, <1>12, <1>13,
     <1>14, <1>15, <1>16, <1>17 DEF Next, Tracer, Child

(* Only Execute and RewriteInstr disturb these two. *)
LEMMA CountedStep ==
  ASSUME IInv, [Next]_vars
  PROVE  Bounded' /\ Entered'
<1> USE DEF IInv
<1>1. CASE Execute
  <2>1. performed[rb] \in Int /\ rb \in Operand /\ steps \in Int
    BY DEF TypeOK
  <2>2. ASSUME NEW d \in Operand PROVE performed'[d] <= steps'
    BY <1>1, <2>1 DEF Execute, TypeOK, Bounded
  <2>3. QED
    BY <1>1, <2>2 DEF Execute, Bounded, Entered
<1>2. CASE RewriteInstr
  <2>1. text[addr] \in Kind \cup {"zero"}
    BY <1>2 DEF RewriteInstr, TypeOK, Word
  <2>2. Entered'
    BY <1>2, <2>1 DEF RewriteInstr, Entered
  <2>3. QED
    BY <1>2, <2>2 DEF RewriteInstr, Bounded
<1>3. CASE UNCHANGED <<performed, steps, table>>
  BY <1>3 DEF Bounded, Entered
<1>4. QED
  BY <1>1, <1>2, <1>3 DEF Next, Tracer, Child, vars, program, counts, ChildLost, FoundStopped,
     RewriteDone, Continue, WaitStopped, OtherStop, NotInTable, StepOver, StepWait, Report,
     Trap, Interrupted, Signal, Kill

LEMMA TrapStep ==
  ASSUME IInv, [Next]_vars
  PROVE  Replaced' /\ Divisions'
<1> USE DEF IInv
<1>1. CASE ChildLost
  BY <1>1 DEF ChildLost, Replaced, Divisions, InPlace, program
<1>2. CASE FoundStopped
  BY <1>2 DEF FoundStopped, Replaced, Divisions, InPlace, program
<1>3. CASE RewriteInstr
  <2>1. addr \in Code /\ addr \in Int /\ Code \subseteq Int
    BY <1>3 DEF RewriteInstr, Code
  <2>2. ASSUME NEW x \in table' PROVE text'[x] = "zero"
    <3>1. CASE x = addr
      BY <1>3, <2>1, <2>2, <3>1 DEF RewriteInstr, TypeOK, Replaced, Zeroed
    <3>2. CASE x # addr
      BY <1>3, <2>1, <2>2, <3>2 DEF RewriteInstr, TypeOK, Replaced
    <3>3. QED
      BY <3>1, <3>2
  <2>3. ASSUME NEW x \in Code, text'[x] = "divw" PROVE addr + 1 <= x
    <3>1. x # addr /\ text[x] = "divw"
      BY <1>3, <2>1, <2>3 DEF RewriteInstr, TypeOK, Zeroed
    <3>2. addr <= x
      BY <1>3, <3>1 DEF RewriteInstr, Divisions, InPlace
    <3>3. QED
      BY <2>1, <3>1, <3>2
  <2>4. Replaced'
    BY <1>3, <2>2 DEF RewriteInstr, Replaced
  <2>5. Divisions'
    BY <1>3, <2>3 DEF RewriteInstr, Divisions, InPlace
  <2>6. QED
    BY <2>4, <2>5
<1>4. CASE RewriteDone
  <2>1. ASSUME NEW x \in Code PROVE ~(addr <= x)
    BY <1>4, BoundAssumption DEF RewriteDone, TypeOK, Code
  <2>2. \A x \in Code : text[x] # "divw"
    BY <1>4, <2>1 DEF RewriteDone, Divisions, InPlace
  <2>3. QED
    BY <1>4, <2>2 DEF RewriteDone, Replaced, Divisions, program
<1>5. CASE Continue
  BY <1>5 DEF Continue, Replaced, Divisions, InPlace
<1>6. CASE WaitStopped
  BY <1>6 DEF WaitStopped, Replaced, Divisions, InPlace, program
<1>7. CASE OtherStop
  BY <1>7 DEF OtherStop, Replaced, Divisions, InPlace, program
<1>8. CASE NotInTable
  BY <1>8 DEF NotInTable, Replaced, Divisions, InPlace, program
<1>9. CASE StepOver
  <2>1. nip \in Code
    BY DEF TypeOK
  <2>2. Replaced'
    BY <1>9, <2>1 DEF StepOver, Replaced, TypeOK
  <2>3. ASSUME NEW x \in Code, text'[x] = "divw" PROVE x = nip
    <3>1. CASE x # nip
      <4>1. text[x] = "divw"
        BY <1>9, <2>1, <2>3, <3>1 DEF StepOver, TypeOK
      <4>2. QED
        BY <1>9, <4>1 DEF StepOver, Divisions, InPlace
    <3>2. QED
      BY <3>1
  <2>4. Divisions'
    BY <1>9, <2>3 DEF StepOver, Divisions, InPlace
  <2>5. QED
    BY <2>2, <2>4
<1>10. CASE StepWait
  <2>1. addr \in Code
    BY <1>10 DEF StepWait, Replaced
  <2>2. Replaced'
    BY <1>10, <2>1 DEF StepWait, AfterStep, Replaced, TypeOK
  <2>3. ASSUME NEW x \in Code PROVE text'[x] # "divw"
    BY <1>10, <2>1 DEF StepWait, AfterStep, Divisions, InPlace, TypeOK
  <2>4. Divisions'
    BY <1>10, <2>3 DEF StepWait, Divisions
  <2>5. QED
    BY <2>2, <2>4
<1>11. CASE Report
  BY <1>11 DEF Report, Replaced, Divisions, InPlace, program
<1>12. CASE Execute
  BY <1>12 DEF Execute, Replaced, Divisions, InPlace
<1>13. CASE Trap
  BY <1>13 DEF Trap, Replaced, Divisions, InPlace, program
<1>14. CASE Interrupted
  BY <1>14 DEF Interrupted, Replaced, Divisions, InPlace, program
<1>15. CASE Signal
  BY <1>15 DEF Signal, Replaced, Divisions, InPlace, program
<1>16. CASE Kill
  BY <1>16 DEF Kill, Replaced, Divisions, InPlace, program
<1>17. CASE UNCHANGED vars
  BY <1>17 DEF vars, Replaced, Divisions, InPlace, program
<1>18. QED
  BY <1>1, <1>2, <1>3, <1>4, <1>5, <1>6, <1>7, <1>8, <1>9, <1>10, <1>11, <1>12, <1>13,
     <1>14, <1>15, <1>16, <1>17 DEF Next, Tracer, Child

LEMMA StepInvariant == IInv /\ [Next]_vars => IInv'
  BY TypeStep, CountedStep, TrapStep DEF IInv

-------------------------------------------------------------------------------
(* The invariant the following theorems rest on. *)
THEOREM TracerInvariant == Spec => []IInv
<1>1. QED
  BY InitInvariant, StepInvariant, PTL DEF Spec

(* Type correctness of the tracer and the program it traces (main.c:113-249). *)
THEOREM TracerTypeCorrect == Spec => []TypeOK
<1>1. IInv => TypeOK
  BY DEF IInv
<1>2. QED
  BY <1>1, TracerInvariant, PTL

(* Whenever the program runs, every replaced divw is a trap, but for the one
   being stepped over (main.c:199-226). *)
THEOREM TrapsStayInPlace == Spec => []TrapsInPlace
<1>1. IInv => TrapsInPlace
  BY DEF IInv, Replaced, TrapsInPlace
<1>2. QED
  BY <1>1, TracerInvariant, PTL

(* No program executes a divw the tracer has not just counted: not before a
   trap, nor after a signal (main.c:199-226). *)
THEOREM DividesOnlyInStep == Spec => [][DividesInStep]_vars
<1>1. IInv /\ [Next]_vars => [DividesInStep]_vars
  <2> SUFFICES ASSUME IInv, Next, performed' # performed
               PROVE  tpc = "stepwait" /\ stepping
    BY DEF DividesInStep
  <2>1. Execute
    BY DEF Next, Tracer, Child, program, counts, ChildLost, FoundStopped, RewriteInstr,
       RewriteDone, Continue, WaitStopped, OtherStop, NotInTable, StepOver, StepWait, Report,
       Trap, Interrupted, Signal, Kill
  <2>2. text[nip] = "divw"
    BY <2>1 DEF Execute, IInv, TypeOK
  <2>3. tpc \in {"wait", "stepwait"} /\ nip \in Code
    BY <2>1 DEF Execute, IInv, Divisions, TypeOK
  <2>4. tpc = "stepwait"
    BY <2>2, <2>3 DEF IInv, Divisions, InPlace
  <2>5. QED
    BY <2>4 DEF IInv, Replaced
<1>2. QED
  BY <1>1, TracerInvariant, PTL DEF Spec

-------------------------------------------------------------------------------
(* Sums over a finite set, as cardinalities. *)

(* The sum of f over S, and the elements of P with a key in D. *)
SumOver(f, S) == MapThenSumSet(LAMBDA d : f[d], S)
Part(P, key, D) == {p \in P : key[p] \in D}

(* A sum over S of the sizes of disjoint parts is the size of their union: the
   fold of the community modules, by induction on the subsets of S. *)
LEMMA SumOfParts ==
  ASSUME NEW S, IsFiniteSet(S), NEW P, IsFiniteSet(P), NEW key, NEW f,
         \A d \in S : f[d] = Cardinality(Part(P, key, {d}))
  PROVE  SumOver(f, S) = Cardinality(Part(P, key, S))
<1> DEFINE pick(s) == CHOOSE x \in s : TRUE
           Step(w) == [s \in SUBSET S |-> IF s = {} THEN 0 ELSE f[pick(s)] + w[s \ {pick(s)}]]
           count == [s \in SUBSET S |-> Cardinality(Part(P, key, s))]
           iter == CHOOSE w : w = Step(w)
<1>1. SumOver(f, S) = iter[S]
  BY Zenon DEF SumOver, MapThenSumSet, MapThenFoldSet
<1>2. \A s \in SUBSET S : s # {} => pick(s) \in s
  OBVIOUS
<1> HIDE DEF pick
<1>3. ASSUME NEW s \in SUBSET S, s # {}
      PROVE  Cardinality(Part(P, key, s)) = f[pick(s)] + Cardinality(Part(P, key, s \ {pick(s)}))
  <2> DEFINE x == pick(s)
             A == Part(P, key, {x})
             B == Part(P, key, s \ {x})
  <2>1. x \in s /\ x \in S
    BY <1>2, <1>3
  <2> HIDE DEF x
  <2>2. A \cup B = Part(P, key, s) /\ A \cap B = {}
    BY <2>1 DEF Part
  <2>3. IsFiniteSet(A) /\ IsFiniteSet(B)
    BY FS_Subset DEF Part
  <2> HIDE DEF A, B
  <2>4. Cardinality(A \cup B) = Cardinality(A) + Cardinality(B) - 0
    BY <2>2, <2>3, FS_Union, FS_EmptySet
  <2>5. Cardinality(A) \in Nat /\ Cardinality(B) \in Nat
    BY <2>3, FS_CardinalityType
  <2>6. f[x] = Cardinality(A)
    BY <2>1 DEF A
  <2>7. Cardinality(Part(P, key, s)) = f[x] + Cardinality(B)
    <3>1. Cardinality(Part(P, key, s)) = Cardinality(A \cup B)
      BY <2>2, Zenon
    <3> QED BY <2>4, <2>5, <2>6, <3>1
  <2> QED BY <2>7 DEF x, B
<1>4. Cardinality(Part(P, key, {})) = 0
  <2>1. Part(P, key, {}) = {}
    BY DEF Part
  <2> QED BY <2>1, FS_EmptySet
<1>5. count = Step(count)
  <2>1. ASSUME NEW s \in SUBSET S PROVE count[s] = Step(count)[s]
    <3>1. CASE s = {}
      BY <1>4, <3>1
    <3>2. CASE s # {}
      <4>1. count[s \ {pick(s)}] = Cardinality(Part(P, key, s \ {pick(s)}))
        OBVIOUS
      <4>2. count[s] = f[pick(s)] + count[s \ {pick(s)}]
        BY <1>3, <3>2, <4>1
      <4> HIDE DEF count
      <4> QED BY <3>2, <4>2
    <3> QED BY <3>1, <3>2
  <2> QED BY <2>1
<1>6. iter = Step(iter)
  <2> HIDE DEF count, Step
  <2> QED BY <1>5
<1>7. iter[S] = count[S]
  <2> DEFINE Wrong == {s \in SUBSET S : iter[s] # count[s]}
  <2> HIDE DEF iter, count
  <2> SUFFICES ASSUME Wrong # {} PROVE FALSE
    OBVIOUS
  <2>1. IsWellFoundedOn(StrictSubsetOrdering(S), SUBSET S)
    BY FS_StrictSubsetOrderingWellFounded, FS_FiniteSubsetsOfFinite
  <2>2. PICK s \in Wrong : \A r \in Wrong : <<r, s>> \notin StrictSubsetOrdering(S)
    <3> HIDE DEF Wrong
    <3>1. Wrong \subseteq SUBSET S
      BY DEF Wrong
    <3> QED BY <2>1, <3>1, WFMin
  <2>3. s \in SUBSET S /\ iter[s] # count[s]
    OBVIOUS
  <2>4. s # {}
    BY <1>5, <1>6, <2>3
  <2>5. s \ {pick(s)} \in SUBSET S /\ <<s \ {pick(s)}, s>> \in StrictSubsetOrdering(S)
    BY <1>2, <2>3, <2>4 DEF StrictSubsetOrdering
  <2>6. iter[s \ {pick(s)}] = count[s \ {pick(s)}]
    BY <2>2, <2>5
  <2>7. iter[s] = Step(iter)[s] /\ count[s] = Step(count)[s]
    BY <1>5, <1>6
  <2> QED BY <2>3, <2>4, <2>6, <2>7
<1>8. QED
  BY <1>1, <1>7

-------------------------------------------------------------------------------

(* The divisions executed so far, numbered for each denominator. *)
Divs(f) == {p \in Operand \X (1 .. MaxSteps) : p[2] <= f[p[1]]}
Done(f, D) == Cardinality({p \in Divs(f) : p[1] \in D})

(* There are finitely many divisions. *)
LEMMA DivsFinite ==
  ASSUME NEW f
  PROVE  IsFiniteSet(Divs(f))
<1>1. IsFiniteSet(1 .. MaxSteps)
  BY BoundAssumption, FS_Interval
<1>2. IsFiniteSet(Operand \X (1 .. MaxSteps))
  BY <1>1, BoundAssumption, FS_Product
<1>3. QED
  BY <1>2, FS_Subset DEF Divs

(* As many of them are by d as the program's count says. *)
LEMMA DoneOne ==
  ASSUME NEW f \in [Operand -> 0 .. MaxSteps], NEW d \in Operand
  PROVE  Done(f, {d}) = f[d]
<1>1. f[d] \in Int /\ f[d] <= MaxSteps /\ 0 <= f[d] /\ MaxSteps \in Int
  BY BoundAssumption
<1>2. {p \in Divs(f) : p[1] \in {d}} = {d} \X (1 .. f[d])
  <2>1. ASSUME NEW p \in Divs(f), p[1] = d PROVE p \in {d} \X (1 .. f[d])
    BY <1>1, <2>1 DEF Divs
  <2>2. ASSUME NEW p \in {d} \X (1 .. f[d]) PROVE p \in Divs(f) /\ p[1] = d
    BY <1>1 DEF Divs
  <2> QED BY <2>1, <2>2
<1>3. IsFiniteSet({d}) /\ Cardinality({d}) = 1
  BY FS_Singleton
<1>4. IsFiniteSet(1 .. f[d]) /\ Cardinality(1 .. f[d]) = f[d]
  BY <1>1, FS_Interval
<1>5. Cardinality({d} \X (1 .. f[d])) = 1 * f[d]
  <2>1. Cardinality({d} \X (1 .. f[d])) = Cardinality({d}) * Cardinality(1 .. f[d])
    BY <1>3, <1>4, FS_Product, Zenon
  <2> QED BY <1>3, <1>4, <2>1, Zenon
<1>6. Done(f, {d}) = Cardinality({d} \X (1 .. f[d]))
  BY <1>2, Zenon DEF Done
<1>7. QED
  BY <1>1, <1>5, <1>6

(* The sum EachCounted is stated with is the number of divisions by D. *)
LEMMA SumIsDone ==
  ASSUME NEW f \in [Operand -> 0 .. MaxSteps], NEW D \in SUBSET Operand
  PROVE  SumOver(f, D) = Done(f, D)
<1> DEFINE key == [p \in Divs(f) |-> p[1]]
<1>1. \A E : Part(Divs(f), key, E) = {p \in Divs(f) : p[1] \in E}
  BY DEF Part
<1>2. \A d \in D : f[d] = Cardinality(Part(Divs(f), key, {d}))
  BY <1>1, DoneOne DEF Done
<1>3. IsFiniteSet(D)
  BY BoundAssumption, FS_Subset
<1> HIDE DEF key
<1>4. SumOver(f, D) = Cardinality(Part(Divs(f), key, D))
  BY <1>2, <1>3, DivsFinite, SumOfParts
<1>5. QED
  BY <1>1, <1>4 DEF Done

(* Divisions by two disjoint sets of denominators. *)
LEMMA DoneSplits ==
  ASSUME NEW f, NEW D, NEW E, D \cap E = {}
  PROVE  /\ Done(f, D \cup E) = Done(f, D) + Done(f, E)
         /\ Done(f, D) \in Nat /\ Done(f, E) \in Nat
<1> DEFINE A == {p \in Divs(f) : p[1] \in D}
           B == {p \in Divs(f) : p[1] \in E}
<1>1. A \cup B = {p \in Divs(f) : p[1] \in D \cup E} /\ A \cap B = {}
  OBVIOUS
<1>2. IsFiniteSet(A) /\ IsFiniteSet(B)
  BY DivsFinite, FS_Subset
<1> HIDE DEF A, B
<1>3. Cardinality(A \cup B) = Cardinality(A) + Cardinality(B) - 0
  BY <1>1, <1>2, FS_Union, FS_EmptySet
<1>4. Cardinality(A) \in Nat /\ Cardinality(B) \in Nat
  BY <1>2, FS_CardinalityType
<1>5. Cardinality({p \in Divs(f) : p[1] \in D \cup E}) = Cardinality(A \cup B)
  BY <1>1, Zenon
<1>6. Cardinality({p \in Divs(f) : p[1] \in D \cup E}) = Cardinality(A) + Cardinality(B)
  BY <1>3, <1>4, <1>5
<1>7. QED
  BY <1>4, <1>6 DEF Done, A, B

(* One more division by b. *)
Divided(f, b) == [f EXCEPT ![b] = @ + 1]

LEMMA DividedDone ==
  ASSUME NEW f \in [Operand -> 0 .. MaxSteps], NEW b \in Operand, f[b] + 1 <= MaxSteps, NEW D
  PROVE  Done(Divided(f, b), D) = Done(f, D) + (IF b \in D THEN 1 ELSE 0)
<1>0. PICK new : new = Divided(f, b)
  OBVIOUS
<1> DEFINE A == {p \in Divs(f) : p[1] \in D}
           B == {p \in Divs(new) : p[1] \in D}
           x == <<b, f[b] + 1>>
<1>1. f[b] \in Int /\ 0 <= f[b] /\ MaxSteps \in Int
  BY BoundAssumption
<1>2. new[b] = f[b] + 1 /\ \A d \in Operand \ {b} : new[d] = f[d]
  BY <1>0 DEF Divided
<1>3. x \notin A
  BY <1>1 DEF Divs
<1>4. Divs(new) = Divs(f) \cup {x}
  <2>1. x \in Divs(new)
    BY <1>1, <1>2 DEF Divs
  <2>2. ASSUME NEW p \in Divs(f) PROVE p \in Divs(new)
    <3>1. p \in Operand \X (1 .. MaxSteps) /\ p[2] <= f[p[1]]
      BY DEF Divs
    <3>2. p[1] \in Operand /\ p[2] \in Int /\ f[p[1]] \in Int
      BY <3>1
    <3>3. p[2] <= new[p[1]]
      BY <1>1, <1>2, <3>1, <3>2
    <3> QED BY <3>1, <3>3 DEF Divs
  <2>3. ASSUME NEW p \in Divs(new), p \notin Divs(f) PROVE p = x
    <3>1. p \in Operand \X (1 .. MaxSteps) /\ p[2] <= new[p[1]] /\ ~(p[2] <= f[p[1]])
      BY <2>3 DEF Divs
    <3>2. p[1] = b /\ p[2] = f[b] + 1
      BY <1>1, <1>2, <3>1
    <3> QED BY <3>1, <3>2
  <2> QED BY <2>1, <2>2, <2>3
<1>5. IsFiniteSet(A)
  BY DivsFinite, FS_Subset
<1>6. Cardinality(A) \in Nat /\ Cardinality(A \cup {x}) = Cardinality(A) + 1
  BY <1>3, <1>5, FS_AddElement, FS_CardinalityType
<1>7. CASE b \in D
  <2>1. B = A \cup {x}
    <3> HIDE DEF x
    <3>1. x[1] = b
      BY DEF x
    <3> QED BY <1>4, <1>7, <3>1
  <2> HIDE DEF A, B, x
  <2>2. Cardinality(B) = Cardinality(A) + 1
    BY <1>6, <2>1
  <2> QED BY <1>0, <1>7, <2>2 DEF Done, A, B
<1>8. CASE b \notin D
  <2>1. B = A
    <3> HIDE DEF x
    <3>1. x[1] = b
      BY DEF x
    <3> QED BY <1>4, <1>8, <3>1
  <2> HIDE DEF A, B, x
  <2>2. Cardinality(B) = Cardinality(A) + 0
    BY <1>6, <2>1
  <2> QED BY <1>0, <1>8, <2>2 DEF Done, A, B
<1>9. QED
  BY <1>7, <1>8

(* The rows of the histogram together. *)
LEMMA RowsSum ==
  ASSUME NEW f \in [Operand -> 0 .. MaxSteps], NEW h,
         \A d \in 0 .. MAX_DENOMINATOR : h[d] = Done(f, {x \in Operand : labs(x) = d})
  PROVE  SumOver(h, 1 .. MAX_DENOMINATOR)
           = Done(f, {x \in Operand : labs(x) \in 1 .. MAX_DENOMINATOR})
<1> DEFINE key == [p \in Divs(f) |-> labs(p[1])]
           rows == 1 .. MAX_DENOMINATOR
<1>1. \A E : Part(Divs(f), key, E) = {p \in Divs(f) : p[1] \in {x \in Operand : labs(x) \in E}}
  BY DEF Part, Divs
<1>2. ASSUME NEW d \in rows PROVE h[d] = Cardinality(Part(Divs(f), key, {d}))
  <2>1. h[d] = Done(f, {x \in Operand : labs(x) = d})
    BY <1>2, BoundAssumption
  <2>2. {x \in Operand : labs(x) = d} = {x \in Operand : labs(x) \in {d}}
    OBVIOUS
  <2> QED BY <1>1, <2>1, <2>2 DEF Done
<1>3. IsFiniteSet(rows)
  BY BoundAssumption, FS_Interval
<1> HIDE DEF key, rows
<1>4. SumOver(h, rows) = Cardinality(Part(Divs(f), key, rows))
  BY <1>2, <1>3, DivsFinite, SumOfParts
<1>5. QED
  BY <1>1, <1>4 DEF Done, rows

-------------------------------------------------------------------------------

(* the operands of row d of the histogram, and of the last row of the report *)
Row(d) == {x \in Operand : labs(x) = d}
Large == {x \in Operand : x = 0 \/ labs(x) > MAX_DENOMINATOR}

(* divisions that are counted and not yet executed *)
Ahead == IF InStep THEN 1 ELSE 0

(* What the tracer has counted if f is what the program has done, and k more
   divisions by b are counted already. *)
Exact(f, k, b, n, h) ==
  /\ n = Done(f, Operand) + k
  /\ \A d \in 0 .. MAX_DENOMINATOR : h[d] = Done(f, Row(d)) + (IF labs(b) = d THEN k ELSE 0)

(* A divw being stepped over is counted already; no division escapes the count;
   and as long as no signal arrived, the counts are exact, also during a step. *)
Counted ==
  /\ InStep => text[nip] = "divw"
  /\ Done(performed, Operand) + Ahead <= ndivw
  /\ sent = 0 => ~pending
  /\ sent = 0 /\ child # "killed" =>
       /\ Exact(performed, Ahead, rb, ndivw, hist)
       /\ tpc = "done" => over = Done(performed, Large)

(* Numbers of divisions are natural. *)
LEMMA DoneTyped ==
  ASSUME NEW f, NEW D
  PROVE  Done(f, D) \in Nat
BY DivsFinite, FS_Subset, FS_CardinalityType DEF Done

(* At the start there are none. *)
LEMMA DoneNothing ==
  ASSUME NEW f, f = [d \in Operand |-> 0], NEW D
  PROVE  Done(f, D) = 0
<1>1. Divs(f) = {}
  BY BoundAssumption DEF Divs
<1>2. {p \in Divs(f) : p[1] \in D} = {}
  BY <1>1
<1>3. QED
  BY <1>2, FS_EmptySet DEF Done

(* Nothing is counted at the start. *)
LEMMA InitCounted == Init => Counted
<1> SUFFICES ASSUME Init PROVE Counted
  OBVIOUS
<1>1. \A D : Done(performed, D) = 0
  BY DoneNothing DEF Init
<1>2. tpc = "start" /\ ~InStep /\ ~pending /\ ndivw = 0
  BY DEF Init, InStep
<1>3. \A d \in 0 .. MAX_DENOMINATOR : hist[d] = 0
  BY DEF Init
<1>4. Ahead = 0 /\ Exact(performed, Ahead, rb, ndivw, hist)
  BY <1>1, <1>2, <1>3 DEF Exact, Ahead
<1>5. QED
  BY <1>1, <1>2, <1>4 DEF Counted

(* A step that neither divides nor counts. *)
LEMMA StillCounted ==
  ASSUME Counted, IInv,
         performed' = performed, ndivw' = ndivw, hist' = hist,
         sent' = sent, pending' = pending, InStep' = InStep,
         InStep => text' = text /\ nip' = nip /\ rb' = rb,
         child' # "killed" => child # "killed",
         tpc' = "done" => tpc = "done" /\ over' = over
  PROVE  Counted'
<1>0. Ahead' = Ahead /\ (rb' = rb \/ Ahead = 0)
  BY DEF Ahead
<1>1. ASSUME Exact(performed, Ahead, rb, ndivw, hist)
      PROVE  Exact(performed', Ahead', rb', ndivw', hist')
  BY <1>0, <1>1 DEF Exact
<1>2. /\ Done(performed', Operand) = Done(performed, Operand)
      /\ Done(performed', Large) = Done(performed, Large)
  OBVIOUS
<1>3. sent' = 0 /\ child' # "killed" =>
        /\ Exact(performed', Ahead', rb', ndivw', hist')
        /\ tpc' = "done" => over' = Done(performed', Large)
  BY <1>1, <1>2 DEF Counted
<1>4. QED
  BY <1>0, <1>2, <1>3 DEF Counted

(* The step over a divw counts a division ahead of its execution. *)
LEMMA StepOverCounted ==
  ASSUME Counted, IInv, StepOver
  PROVE  Counted'
<1>1. ~InStep /\ InStep' /\ Ahead = 0 /\ Ahead' = 1
  BY DEF StepOver, InStep, Ahead
<1>2. /\ performed' = performed /\ rb' = rb /\ nip' = nip /\ sent' = sent /\ pending' = pending
      /\ child # "killed" /\ tpc' # "done" /\ text' = [text EXCEPT ![nip] = "divw"]
      /\ ndivw' = ndivw + 1 /\ hist' = Recorded(hist)
  BY DEF StepOver, Count
<1>3. /\ rb \in Int /\ nip \in Code /\ ndivw \in Nat /\ DOMAIN text = Code
      /\ hist \in [0 .. MAX_DENOMINATOR -> Nat] /\ MAX_DENOMINATOR \in Nat
  BY BoundAssumption DEF IInv, TypeOK
<1>4. labs(rb) \in Nat
  BY <1>3 DEF labs
<1>5. text'[nip'] = "divw"
  BY <1>2, <1>3
<1>6. Done(performed, Operand) \in Nat /\ Done(performed, Operand) <= ndivw
  BY <1>1, <1>3, DoneTyped DEF Counted
<1>7. ASSUME Exact(performed, 0, rb, ndivw, hist)
      PROVE  Exact(performed, 1, rb, ndivw + 1, Recorded(hist))
  <2>1. ndivw + 1 = Done(performed, Operand) + 1
    BY <1>6, <1>7 DEF Exact
  <2>2. ASSUME NEW d \in 0 .. MAX_DENOMINATOR
        PROVE  Recorded(hist)[d] = Done(performed, Row(d)) + (IF labs(rb) = d THEN 1 ELSE 0)
    <3>1. hist[d] = Done(performed, Row(d)) /\ hist[d] \in Nat
      BY <1>3, <1>7, DoneTyped DEF Exact
    <3>2. Recorded(hist)[d] = hist[d] + (IF labs(rb) = d THEN 1 ELSE 0)
      BY <1>3, <1>4, <3>1 DEF Recorded
    <3> QED BY <3>1, <3>2
  <2> QED BY <2>1, <2>2 DEF Exact
<1>8. sent' = 0 /\ child' # "killed" => Exact(performed', 1, rb', ndivw', hist')
  BY <1>1, <1>2, <1>7 DEF Counted
<1>9. Done(performed', Operand) + 1 <= ndivw'
  BY <1>2, <1>3, <1>6
<1>10. QED
  BY <1>1, <1>2, <1>5, <1>8, <1>9 DEF Counted

(* The last row of the report. *)
LEMMA ReportCounted ==
  ASSUME Counted, IInv, Report
  PROVE  Counted'
<1>1. ~InStep /\ ~InStep' /\ tpc = "wait" /\ child = "exited" /\ Ahead = 0 /\ Ahead' = 0
  BY DEF Report, InStep, Ahead
<1>2. /\ performed' = performed /\ ndivw' = ndivw /\ hist' = hist /\ rb' = rb
      /\ sent' = sent /\ pending' = pending /\ child' = child
      /\ over' = ndivw - SumOver(hist, 1 .. MAX_DENOMINATOR)
  BY DEF Report, program, SumOver
<1> DEFINE Small == {x \in Operand : labs(x) \in 1 .. MAX_DENOMINATOR}
<1>3. Small \cup Large = Operand /\ Small \cap Large = {}
  <2>1. \A x \in Operand : x \in Int /\ labs(x) \in Nat /\ (labs(x) = 0 <=> x = 0)
    BY BoundAssumption DEF labs
  <2>2. \A x \in Operand : (x \in Small /\ x \notin Large) \/ (x \notin Small /\ x \in Large)
    BY <2>1, BoundAssumption DEF Large
  <2>3. Small \subseteq Operand /\ Large \subseteq Operand
    BY DEF Large
  <2> HIDE DEF Small
  <2> QED BY <2>2, <2>3
<1> HIDE DEF Small
<1>4. ASSUME Exact(performed, 0, rb, ndivw, hist)
      PROVE  ndivw - SumOver(hist, 1 .. MAX_DENOMINATOR) = Done(performed, Large)
  <2>1. performed \in [Operand -> 0 .. MaxSteps]
    BY DEF IInv, TypeOK
  <2>2. \A d \in 0 .. MAX_DENOMINATOR : hist[d] = Done(performed, {x \in Operand : labs(x) = d})
    BY <1>4, DoneTyped DEF Exact, Row
  <2>3. SumOver(hist, 1 .. MAX_DENOMINATOR) = Done(performed, Small)
    BY <2>1, <2>2, RowsSum DEF Small
  <2>4. ndivw = Done(performed, Operand)
    BY <1>4, DoneTyped DEF Exact
  <2>5. Done(performed, Operand) = Done(performed, Small) + Done(performed, Large)
    BY <1>3, DoneSplits
  <2>6. Done(performed, Small) \in Nat /\ Done(performed, Large) \in Nat
    BY DoneTyped
  <2> QED BY <2>3, <2>4, <2>5, <2>6
<1>5. sent' = 0 /\ child' # "killed" =>
        Exact(performed', 0, rb', ndivw', hist') /\ over' = Done(performed', Large)
  BY <1>1, <1>2, <1>4 DEF Counted
<1>6. QED
  BY <1>1, <1>2, <1>5 DEF Counted

(* An executed divw is the one that was counted ahead; nothing else divides. *)
LEMMA ExecuteCounted ==
  ASSUME Counted, IInv, Execute
  PROVE  Counted'
<1>1. /\ child = "running" /\ steps < MaxSteps
      /\ performed' = [performed EXCEPT ![rb] = IF text[nip] = "divw" THEN @ + 1 ELSE @]
      /\ ndivw' = ndivw /\ hist' = hist /\ sent' = sent /\ pending' = pending
      /\ tpc' = tpc /\ over' = over /\ text[nip] # "zero"
  BY DEF Execute, counts
<1>2. /\ performed \in [Operand -> 0 .. MaxSteps] /\ rb \in Operand /\ rb \in Int /\ nip \in Code
      /\ performed[rb] <= steps /\ steps \in Int /\ MaxSteps \in Int
  BY BoundAssumption DEF IInv, TypeOK, Bounded
<1>3. tpc \in {"wait", "stepwait"}
  BY <1>1 DEF IInv, Divisions
<1>4. ~InStep' /\ Ahead' = 0
  <2>1. CASE tpc = "stepwait"
    BY <2>1 DEF Execute, IInv, Replaced, InStep, Ahead
  <2>2. CASE tpc = "wait"
    BY <1>1, <2>2 DEF InStep, Ahead
  <2> QED BY <1>3, <2>1, <2>2
<1>5. CASE tpc = "wait"
  <2>1. ~InStep /\ text[nip] # "divw" /\ Ahead = 0
    BY <1>2, <1>5 DEF InStep, IInv, Divisions, InPlace, Ahead
  <2>2. performed' = performed
    BY <1>1, <1>2, <2>1
  <2>3. Exact(performed, 0, rb, ndivw, hist) => Exact(performed, 0, rb', ndivw, hist)
    BY DEF Exact
  <2>4. sent' = 0 /\ child' # "killed" => Exact(performed', 0, rb', ndivw', hist')
    BY <1>1, <2>1, <2>2, <2>3 DEF Counted
  <2> QED BY <1>1, <1>4, <1>5, <2>1, <2>2, <2>4 DEF Counted
<1>6. CASE tpc = "stepwait"
  <2>1. InStep /\ text[nip] = "divw" /\ Ahead = 1
    BY <1>1, <1>6 DEF InStep, Counted, Ahead
  <2>2. performed' = [performed EXCEPT ![rb] = @ + 1]
    BY <1>1, <2>1, Zenon
  <2>a. performed[rb] + 1 <= MaxSteps
    <3>1. performed[rb] \in Int
      BY <1>2
    <3> QED BY <1>1, <1>2, <3>1
  <2>3. ASSUME NEW D
        PROVE  Done(performed', D) = Done(performed, D) + (IF rb \in D THEN 1 ELSE 0)
    <3>1. Done(Divided(performed, rb), D) = Done(performed, D) + (IF rb \in D THEN 1 ELSE 0)
      BY <1>2, <2>a, DividedDone
    <3>2. performed' = Divided(performed, rb)
      BY <2>2 DEF Divided
    <3> QED BY <3>1, <3>2
  <2>4. Done(performed', Operand) + 0 <= ndivw' /\ Done(performed', Operand) \in Nat
    <3>1. Done(performed', Operand) = Done(performed, Operand) + 1
      BY <1>2, <2>3
    <3>2. Done(performed, Operand) + 1 <= ndivw /\ Done(performed, Operand) \in Nat
      BY <2>1, DoneTyped DEF Counted
    <3> QED BY <1>1, <3>1, <3>2
  <2>5. ASSUME Exact(performed, 1, rb, ndivw, hist)
        PROVE  Exact(performed', 0, rb', ndivw, hist)
    <3>1. ndivw = Done(performed', Operand) + 0
      BY <1>2, <2>3, <2>4, <2>5 DEF Exact
    <3>2. ASSUME NEW d \in 0 .. MAX_DENOMINATOR
          PROVE  hist[d] = Done(performed', Row(d)) + 0
      <4>1. hist[d] = Done(performed, Row(d)) + (IF labs(rb) = d THEN 1 ELSE 0)
        BY <2>5 DEF Exact
      <4>2. rb \in Row(d) <=> labs(rb) = d
        BY <1>2 DEF Row
      <4>3. hist[d] = Done(performed', Row(d)) /\ Done(performed', Row(d)) \in Nat
        BY <2>3, <4>1, <4>2, DoneTyped
      <4> QED BY <4>3
    <3> QED BY <3>1, <3>2 DEF Exact
  <2>6. sent' = 0 /\ child' # "killed" => Exact(performed', 0, rb', ndivw', hist')
    BY <1>1, <2>1, <2>5 DEF Counted
  <2> QED BY <1>1, <1>4, <1>6, <2>4, <2>6 DEF Counted
<1>7. QED
  BY <1>3, <1>5, <1>6

(* Every step keeps the counts; a signal or a kill ends their exactness. *)
LEMMA StepCounted ==
  ASSUME Counted, IInv, [Next]_vars
  PROVE  Counted'
<1>1. CASE UNCHANGED vars
  BY <1>1, StillCounted DEF vars, program, counts, InStep
<1>2. CASE ChildLost
  BY <1>2, StillCounted DEF ChildLost, program, counts, InStep, IInv, Divisions
<1>3. CASE FoundStopped
  BY <1>3, StillCounted DEF FoundStopped, program, counts, InStep
<1>4. CASE RewriteInstr
  BY <1>4, StillCounted DEF RewriteInstr, counts, InStep
<1>5. CASE RewriteDone
  BY <1>5, StillCounted DEF RewriteDone, program, counts, InStep
<1>6. CASE Continue
  BY <1>6, StillCounted DEF Continue, counts, InStep
<1>7. CASE WaitStopped
  BY <1>7, StillCounted DEF WaitStopped, program, counts, InStep
<1>8. CASE OtherStop
  BY <1>8, StillCounted DEF OtherStop, program, counts, InStep
<1>9. CASE NotInTable
  BY <1>9, StillCounted DEF NotInTable, program, counts, InStep
<1>10. CASE StepWait
  BY <1>10, StillCounted DEF StepWait, counts, InStep
<1>11. CASE Trap
  <2>1. ~InStep
    BY <1>11 DEF Trap, Counted
  <2> QED BY <1>11, <2>1, StillCounted DEF Trap, program, counts, InStep
<1>12. CASE Interrupted
  <2>1. /\ performed' = performed /\ ndivw' = ndivw /\ sent' = sent
        /\ pending' = FALSE /\ child' = "stopped"
    BY <1>12 DEF Interrupted, program, counts
  <2>2. sent' # 0 /\ ~InStep' /\ Ahead' = 0
    BY <1>12, <2>1 DEF Interrupted, Counted, InStep, Ahead
  <2>3. Done(performed, Operand) + 0 <= ndivw
    BY DoneTyped DEF Counted, Ahead, IInv, TypeOK
  <2> QED BY <2>1, <2>2, <2>3 DEF Counted
<1>13. CASE Signal
  <2>1. /\ performed' = performed /\ ndivw' = ndivw /\ text' = text /\ nip' = nip
        /\ InStep' = InStep /\ Ahead' = Ahead
    BY <1>13 DEF Signal, program, counts, InStep, Ahead
  <2>2. sent' # 0
    BY <1>13, BoundAssumption DEF Signal, IInv, TypeOK
  <2> QED BY <2>1, <2>2 DEF Counted
<1>14. CASE Kill
  <2>1. /\ performed' = performed /\ ndivw' = ndivw /\ sent' = sent
        /\ pending' = pending /\ child' = "killed"
    BY <1>14 DEF Kill, program, counts
  <2>2. ~InStep' /\ Ahead' = 0
    BY <2>1 DEF InStep, Ahead
  <2>3. Done(performed, Operand) + 0 <= ndivw
    BY DoneTyped DEF Counted, Ahead, IInv, TypeOK
  <2> QED BY <2>1, <2>2, <2>3 DEF Counted
<1>15. QED
  BY <1>1, <1>2, <1>3, <1>4, <1>5, <1>6, <1>7, <1>8, <1>9, <1>10, <1>11, <1>12, <1>13, <1>14,
     StepOverCounted, ReportCounted, ExecuteCounted DEF Next, Tracer, Child

(* The counts in the words of EachCounted. *)
LEMMA CountedImplies == IInv /\ Counted => EachCounted
<1> SUFFICES ASSUME IInv, Counted PROVE EachCounted
  OBVIOUS
<1>1. performed \in [Operand -> 0 .. MaxSteps] /\ ndivw \in Nat
  BY DEF IInv, TypeOK
<1>2. ASSUME NEW D \in SUBSET Operand
      PROVE  Executed(D) = Done(performed, D) /\ Executed(D) \in Nat
  <2>1. SumOver(performed, D) = Done(performed, D)
    BY <1>1, SumIsDone
  <2>2. Executed(D) = SumOver(performed, D)
    BY DEF Executed, SumOver
  <2> QED BY <2>1, <2>2, DoneTyped
<1>3. Ahead = (IF InStep THEN 1 ELSE 0) /\ Ahead \in {0, 1}
  BY DEF Ahead
<1>4. Executed(Operand) <= ndivw
  <2>1. Executed(Operand) = Done(performed, Operand) /\ Executed(Operand) \in Nat
    BY <1>2
  <2> QED BY <1>1, <1>3, <2>1 DEF Counted
<1>5. ASSUME sent = 0 /\ child # "killed"
      PROVE  ndivw = Executed(Operand) + (IF InStep THEN 1 ELSE 0)
  <2>1. Executed(Operand) = Done(performed, Operand)
    BY <1>2
  <2> QED BY <1>3, <1>5, <2>1 DEF Counted, Exact
<1>6. ASSUME sent = 0 /\ child # "killed", NEW d \in 0 .. MAX_DENOMINATOR
      PROVE  hist[d] = Executed({x \in Operand : labs(x) = d})
                         + (IF InStep /\ labs(rb) = d THEN 1 ELSE 0)
  <2>1. Executed(Row(d)) = Done(performed, Row(d))
    BY <1>2 DEF Row
  <2>2. hist[d] = Done(performed, Row(d)) + (IF labs(rb) = d THEN Ahead ELSE 0)
    BY <1>6 DEF Counted, Exact
  <2>3. (IF labs(rb) = d THEN Ahead ELSE 0) = (IF InStep /\ labs(rb) = d THEN 1 ELSE 0)
    BY <1>3
  <2>4. hist[d] = Executed(Row(d)) + (IF InStep /\ labs(rb) = d THEN 1 ELSE 0)
    BY <2>1, <2>2, <2>3
  <2> QED BY <2>4 DEF Row
<1>7. ASSUME sent = 0 /\ child # "killed", tpc = "done"
      PROVE  over = Executed({x \in Operand : x = 0 \/ labs(x) > MAX_DENOMINATOR})
  <2>1. Executed(Large) = Done(performed, Large)
    BY <1>2 DEF Large
  <2>2. over = Executed(Large)
    BY <1>7, <2>1 DEF Counted
  <2> QED BY <2>2 DEF Large
<1>8. QED
  BY <1>4, <1>5, <1>6, <1>7 DEF EachCounted

(* No divw is executed without being counted, and without signals each is
   counted once and reported in the row of its denominator (main.c:201-241). *)
THEOREM EachDivisionCounted == Spec => []EachCounted
<1>1. Init => IInv /\ Counted
  BY InitInvariant, InitCounted
<1>2. IInv /\ Counted /\ [Next]_vars => (IInv /\ Counted)'
  BY StepInvariant, StepCounted
<1>3. QED
  BY <1>1, <1>2, CountedImplies, PTL DEF Spec
================================================================================
