------------------------------ MODULE Emulator ------------------------------
(***************************************************************************)
(* The emulator of lifted functions (damsel-decomp/src/emulate.rs).        *)
(*                                                                         *)
(* A register that was never set has no entry; a result that is an error   *)
(* is the empty set.  A word of XLen bits is 8 bytes in memory.            *)
(***************************************************************************)
EXTENDS Lifting, Arm64Isa

CONSTANT StackTop   \* where sp and fp start

Nothing == [n \in {} |-> 0]
Put(f, key, v) == (key :> v) @@ f

\* Emulator::new with the caller's registers on top of the defaults.
New(registers) ==
  [regs |-> registers @@ ("sp" :> StackTop) @@ ("fp" :> StackTop) @@ ("lr" :> 0),
   mem |-> Nothing, block |-> 1, index |-> 1, steps |-> 0, outcome |-> "running"]

-----------------------------------------------------------------------------
(* Expressions.                                                            *)

\* The operations over the integers; the amount of a shift counts modulo 64.
Exact(op, a, b) ==
  CASE op = "Add" -> {a + b}
    [] op = "Sub" -> {a - b}
    [] op = "Mul" -> {a * b}
    [] op = "And" -> {And(a, b)}
    [] op = "Or" -> {Or(a, b)}
    [] op = "Xor" -> {Xor(a, b)}
    [] op = "Shl" -> {ShiftLeft(a, b % XLen)}
    [] op = "Shr" -> {ShiftRight(a, b % XLen)}
    [] op = "Asr" -> {ArithmeticShiftRight(a, XLen, b % XLen)}
    [] op = "Div" -> IF b = 0 THEN {} ELSE {a \div b}
    [] op = "CmpEq" -> {IF a = b THEN 1 ELSE 0}
    [] op = "CmpGt" -> {IF a > b THEN 1 ELSE 0}

\* ... and over 64-bit words.
Apply(op, a, b) == {Low(v, XLen) : v \in Exact(op, a, b)}

Get(regs, name) == IF name \in DOMAIN regs THEN {regs[name]} ELSE {}

RECURSIVE Eval(_, _)

\* eval_expr: conditions and segments are refused.
Eval(e, regs) ==
  CASE e.k = "const" -> {e.value}
    [] e.k = "reg" -> Get(regs, e.name)
    [] e.k = "binop" -> UNION {Apply(e.op, p[1], p[2]) : p \in Eval(e.lhs, regs) \X Eval(e.rhs, regs)}
    [] e.k = "addr" -> {Low(b + e.disp, XLen) : b \in Get(regs, e.base)}
    [] e.k = "indexed" ->
         {Low(p[1] + p[2] * e.scale + e.disp, XLen) : p \in Get(regs, e.base) \X Get(regs, e.index)}
    [] OTHER -> {}

-----------------------------------------------------------------------------
(* Statements.                                                             *)

WordBytes == XLen \div ByteLen

BytesOf(address, v) ==
  [b \in address .. address + WordBytes - 1 |-> ShiftRight(v, (b - address) * ByteLen) % 2^ByteLen]

\* read_bytes with from_le_bytes; an unwritten byte is an error.
ReadWord(mem, address) ==
  IF address .. address + WordBytes - 1 \subseteq DOMAIN mem
  THEN {NumOf[{k \in 0 .. XLen - 1 :
                 (mem[address + k \div ByteLen] \div 2^(k % ByteLen)) % 2 = 1}]}
  ELSE {}

\* exec_statement and exec_one_step, with their evaluator.
Exec(s, m, Value(_, _)) ==
  LET Valued(e) == Value(e, m.regs)
  IN CASE s.k = "assign" -> {[m EXCEPT !.regs = Put(@, s.dst, v)] : v \in Valued(s.e)}
       [] s.k = "load" ->
            {[m EXCEPT !.regs = Put(@, s.dst, v)] : v \in UNION {ReadWord(m.mem, a) : a \in Valued(s.e)}}
       [] s.k = "store" ->
            {[m EXCEPT !.mem = BytesOf(p[1], p[2]) @@ @] : p \in Valued(s.at) \X Valued(s.e)}
       [] OTHER -> {}

BlockAt(f, target) == {n \in DOMAIN f : f[n].start = target}

\* Mutant: a branch back does not start the block again.
EnterKeepsIndex(m, n) == [m EXCEPT !.block = n, !.index = IF n <= m.block THEN @ ELSE 1]

Enter(m, n) == [m EXCEPT !.block = n, !.index = 1]

\* The block was executed: what its terminator does.
EndBlock(f, m) ==
  LET t == f[m.block].terminator IN
  CASE t.k = "return" -> [m EXCEPT !.outcome = "returned"]
    [] t.k = "branch" -> IF BlockAt(f, t.target) = {} THEN [m EXCEPT !.outcome = "branched"]
                         ELSE Enter(m, CHOOSE n \in BlockAt(f, t.target) : TRUE)
    [] t.k = "window_end" -> Enter(m, m.block + 1)
    [] OTHER -> [m EXCEPT !.outcome = "unsupported"]

OutOfSteps(m, budget) == m.steps >= budget

\* One turn of the loops of Emulator::run: the next statement, or the
\* terminator.  A failed statement counts as a step.
Emulate(f, m, budget) ==
  IF m.block \notin DOMAIN f THEN [m EXCEPT !.outcome = "returned"]
  ELSE IF m.index > Len(f[m.block].statements) THEN EndBlock(f, m)
  ELSE IF OutOfSteps(m, budget) THEN [m EXCEPT !.outcome = "budget_exhausted"]
  ELSE LET next == Exec(f[m.block].statements[m.index], m, Eval)
       IN IF next = {} THEN [m EXCEPT !.steps = @ + 1, !.outcome = "unsupported"]
          ELSE [(CHOOSE n \in next : TRUE) EXCEPT !.index = @ + 1, !.steps = @ + 1]

RECURSIVE RunOut(_, _, _)

\* Emulator::run to its end.
RunOut(f, m, budget) ==
  IF m.outcome = "running" THEN RunOut(f, Emulate(f, m, budget), budget) ELSE m
=============================================================================
