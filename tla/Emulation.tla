----------------------------- MODULE Emulation -----------------------------
(***************************************************************************)
(* The time-travel recorder (damsel-decomp/src/ttd.rs, record_trace): the  *)
(* function is run once for its outcome, then a second emulator replays it *)
(* statement by statement and a trace of what each statement wrote is      *)
(* kept, which register_at, the timelines and state_at answer from.        *)
(***************************************************************************)
EXTENDS Emulator

CONSTANTS
  Windows,   \* the windows tried: [arch, code], code a sequence of instructions
  Starts,    \* the initial registers a caller may give
  Budget,    \* the step budget
  Misread    \* windows with an instruction whose lifting is a simplification

VARIABLES window, function, initial, phase, emu, rec, trace

vars == <<window, function, initial, phase, emu, rec, trace>>

Lifted == IF window.arch = "arm64" THEN LiftArm64(window.code) ELSE LiftX86(window.code)

RECURSIVE EvalSimple(_, _)

\* eval_simple, the recorder's second evaluator: it knows no indexed address.
EvalSimple(e, regs) ==
  CASE e.k = "const" -> {e.value}
    [] e.k = "reg" -> Get(regs, e.name)
    [] e.k = "binop" ->
         UNION {Apply(e.op, p[1], p[2]) : p \in EvalSimple(e.lhs, regs) \X EvalSimple(e.rhs, regs)}
    [] e.k = "addr" -> {Low(b + e.disp, XLen) : b \in Get(regs, e.base)}
    [] OTHER -> {}

-----------------------------------------------------------------------------
(* The recorder.                                                           *)

Init ==
  /\ window \in Windows /\ initial \in Starts /\ function = Lifted
  /\ phase = "run" /\ emu = New(initial)
  /\ rec = New(initial) /\ trace = <<>>

\* The first emulator runs to its outcome.
Run ==
  /\ phase = "run" /\ emu.outcome = "running"
  /\ emu' = Emulate(function, emu, Budget)
  /\ phase' = IF emu'.outcome = "running" THEN "run" ELSE "record"
  /\ UNCHANGED <<window, function, initial, rec, trace>>

\* The registers before the step; before the first one these are the caller's,
\* without the defaults.
Before == IF trace = <<>> THEN initial ELSE rec.regs

\* registers_written: those whose value changed.
Written(before, after) ==
  [r \in {n \in DOMAIN after : n \notin DOMAIN before \/ before[n] # after[n]} |-> after[r]]

\* memory_writes: the address of a store and its bytes.
Stored(s, regs) ==
  IF s.k # "store" THEN {}
  ELSE {BytesOf(p[1], p[2]) : p \in EvalSimple(s.at, regs) \X EvalSimple(s.e, regs)}

\* Replay one statement and keep what it wrote.
RecordStatement ==
  /\ phase = "record" /\ rec.block \in DOMAIN function
  /\ rec.index <= Len(function[rec.block].statements)
  /\ LET s == function[rec.block].statements[rec.index]
         next == Exec(s, rec, EvalSimple)
     IN IF OutOfSteps(rec, Budget) \/ next = {}
        THEN /\ phase' = "done" /\ UNCHANGED <<rec, trace>>
        ELSE /\ rec' = [(CHOOSE n \in next : TRUE) EXCEPT !.index = @ + 1, !.steps = @ + 1]
             /\ trace' = Append(trace, [pc |-> function[rec.block].start,
                                        registers |-> Written(Before, rec'.regs),
                                        memory |-> Stored(s, rec.regs)])
             /\ UNCHANGED phase
  /\ UNCHANGED <<window, function, initial, emu>>

\* The end of a block, or of the function.
RecordTerminator ==
  /\ phase = "record"
  /\ rec.block \in DOMAIN function => rec.index > Len(function[rec.block].statements)
  /\ rec' = IF rec.block \notin DOMAIN function THEN [rec EXCEPT !.outcome = "returned"]
            ELSE EndBlock(function, rec)
  /\ phase' = IF rec'.outcome = "running" THEN "record" ELSE "done"
  /\ UNCHANGED <<window, function, initial, emu, trace>>

Next == Run \/ RecordStatement \/ RecordTerminator

Spec == Init /\ [][Next]_vars

\* The command runs until it returns.
FairSpec == Spec /\ WF_vars(Next)

-----------------------------------------------------------------------------
(* Questions to a trace.  Steps count from 0.                              *)

\* Mutant: the first write instead of the last one.
RegisterAtFirst(t, r, n) ==
  LET steps == {k \in 1 .. n + 1 : k <= Len(t) /\ r \in DOMAIN t[k].registers}
  IN {t[k].registers[r] : k \in {j \in steps : \A i \in steps : j <= i}}

\* register_at: the last write up to step n.
RegisterAt(t, r, n) ==
  LET steps == {k \in 1 .. n + 1 : k <= Len(t) /\ r \in DOMAIN t[k].registers}
  IN {t[k].registers[r] : k \in {j \in steps : \A i \in steps : i <= j}}

\* state_at: a replay with a budget of n + 1 statements.
StateAt(n) == RunOut(function, New(initial), n + 1)

-----------------------------------------------------------------------------
(* The processor the window is for, over the same registers.               *)

\* The narrow registers of the instance, each the low bits of a wide one; writing
\* it clears the others.
WideOf == "w0" :> "x0" @@ "w1" :> "x1" @@ "eax" :> "rax" @@ "ebx" :> "rbx"
Wide(name) == IF name \in DOMAIN WideOf THEN WideOf[name] ELSE name
Bits(o) == IF o.k = "reg" /\ o.name \in DOMAIN WideOf THEN WLen ELSE XLen
Keeps(o, field) == field \in DOMAIN o

\* An operand; an immediate may be shifted (lsl).
OperandValue(o, regs) ==
  IF o.k = "reg" THEN Low(regs[Wide(o.name)], Bits(o))
  ELSE IF Keeps(o, "lsl") THEN o.value * 2^o.lsl ELSE o.value

CpuResult(op, a, b, w) ==
  CASE op \in {"add", "adds"} -> Low(a + b, w)
    [] op \in {"sub", "subs"} -> Low(a - b, w)
    [] op \in {"and", "ands"} -> IsaLogical("and", a, b, w)
    [] op \in {"or", "orr"} -> IsaLogical("orr", a, b, w)
    [] op \in {"xor", "eor"} -> IsaLogical("eor", a, b, w)
    [] op \in {"lsl", "shl"} -> IsaShift("lsl", a, b % w, w)
    [] op \in {"lsr", "shr"} -> IsaShift("lsr", a, b % w, w)
    [] op = "asr" -> IsaShift("asr", a, b % w, w)
    [] op \in {"mul", "imul"} -> Low(a * b, w)
    [] op = "udiv" -> IsaDivide(a, b, w)
    [] op = "sdiv" -> IsaDivide(Signed(a, w), Signed(b, w), w)

\* The low bits of a word, as they are stored; what is loaded from them.
PartOf(address, v, bits) == [b \in address .. address + (bits \div ByteLen) - 1 |-> BytesOf(address, v)[b]]
LoadedFrom(mem, address, bits) ==
  FoldSet(LAMBDA b, sum : sum + mem[b] * 2^((b - address) * ByteLen), 0, address .. address + (bits \div ByteLen) - 1)
LoadBits == [ldrb |-> ByteLen, ldrsb |-> ByteLen, ldrh |-> HalfLen, ldrsh |-> HalfLen, ldrsw |-> WLen]
StoreBits == [strb |-> ByteLen, strh |-> HalfLen]

\* One instruction of a state c = [pc, regs, mem]; pc is 0 after a return.
CpuStep(code, c) ==
  LET i == code[c.pc]
      Val(n) == OperandValue(i.operands[n], c.regs)
      width == IF i.operands = <<>> THEN XLen ELSE Bits(i.operands[1])
      Writes(values) == [c EXCEPT !.pc = @ + 1, !.regs = values @@ @]
      Set(n, v) == Writes(Wide(i.operands[n].name) :> Low(v, Bits(i.operands[n])))
      Place(n) == LET o == i.operands[n]
                  IN Low(c.regs[o.base] + o.disp + (IF o.index = "" THEN 0 ELSE c.regs[o.index] * o.scale), XLen)
      \* A memory operand with writeback leaves its address in its base.
      Moved(n) == IF Keeps(i.operands[n], "writeback") THEN i.operands[n].base :> Place(n) ELSE Nothing
      Loaded(n, bits) == LoadedFrom(c.mem, Place(n), bits)
      Store(a, v, bits) == [c EXCEPT !.pc = @ + 1, !.mem = PartOf(a, v, bits) @@ @]
      Write(n, v, bits) == [Store(Place(n), v, bits) EXCEPT !.regs = Moved(n) @@ @]
      Memory(n) == IF Keeps(i.operands[n], "size") THEN i.operands[n].size ELSE XLen
      three == window.arch = "arm64"
  IN CASE i.kind = "Return" -> [c EXCEPT !.pc = 0]
       [] i.kind = "Branch" -> [c EXCEPT !.pc = CHOOSE t \in i.to : TRUE]
       [] i.op \in {"nop", "paciasp", "cmp", "tst", "test"} -> [c EXCEPT !.pc = @ + 1]
       [] i.op \in {"adr", "lea"} /\ i.page # {} -> Set(1, CHOOSE p \in i.page : TRUE)
       [] i.op = "lea" -> Set(1, Place(2))
       [] i.op \in {"ldr", "mov"} /\ IsMemory(i, 2) -> [Set(1, Loaded(2, width)) EXCEPT !.regs = Moved(2) @@ @]
       [] i.op \in {"ldrb", "ldrh"} -> Set(1, Loaded(2, LoadBits[i.op]))
       [] i.op \in {"ldrsb", "ldrsh", "ldrsw"} -> Set(1, Signed(Loaded(2, LoadBits[i.op]), LoadBits[i.op]))
       [] i.op = "str" -> Write(2, Val(1), width)
       [] i.op \in DOMAIN StoreBits -> Write(2, Val(1), StoreBits[i.op])
       [] i.op = "mov" /\ IsMemory(i, 1) -> Write(1, Val(2), Memory(1))
       [] i.op = "mov" -> Set(1, Val(2))
       [] i.op = "movk" -> Set(1, c.regs[Wide(i.operands[1].name)] - Low(c.regs[Wide(i.operands[1].name)], HalfLen) + Val(2))
       [] i.op = "stp" -> [Write(3, Val(1), XLen) EXCEPT !.mem = BytesOf(Place(3) + PairSize, Val(2)) @@ @]
       [] i.op = "ldp" -> Writes(i.operands[2].name :> LoadedFrom(c.mem, Place(3) + PairSize, XLen)
                                 @@ i.operands[1].name :> Loaded(3, XLen))
       [] i.op \in {"madd", "msub"} ->
            Set(1, IF i.op = "madd" THEN Val(4) + Val(2) * Val(3) ELSE Val(4) - Val(2) * Val(3))
       [] i.op = "push" -> [Store(c.regs["rsp"] - PairSize, Val(1), XLen) EXCEPT !.regs = Put(@, "rsp", c.regs["rsp"] - PairSize)]
       [] i.op = "pop" -> Writes(i.operands[1].name :> LoadedFrom(c.mem, c.regs["rsp"], XLen) @@ "rsp" :> c.regs["rsp"] + PairSize)
       [] i.op = "cqo" -> Writes("rdx" :> IF Signed(c.regs["rax"], XLen) < 0 THEN 2^XLen - 1 ELSE 0)
       [] i.op = "mul" /\ ~ three -> Writes("rax" :> Low(c.regs["rax"] * Val(1), XLen) @@ "rdx" :> (c.regs["rax"] * Val(1)) \div 2^XLen)
       [] IsMemory(i, 1) -> Write(1, CpuResult(i.op, Loaded(1, XLen), Val(2), XLen), XLen)
       [] OTHER -> Set(1, IF three THEN CpuResult(i.op, Val(2), Val(3), width) ELSE CpuResult(i.op, Val(1), Val(2), width))

\* What the lifter models in part only, and the emulator does not refuse: it knows
\* no width (of a load, a store or a register, so that w0 is another register than
\* x0), no vectors, no signed division, no shift of an immediate, no writeback and,
\* on ARM, no index; movk and the widening and one-operand forms of x86 are moves;
\* push, pop and leave do not move the stack pointer (statement_for).
Simplified(i) ==
  \/ i.op \in {"movk", "sdiv", "stxr", "movi", "fmov", "fadd", "fadds", "fsub", "fsubs", "fmul", "fnmul", "fdiv",
               "push", "pop", "leave", "cdq", "cqo", "cdqe", "movs", "stos", "bsf", "pmovmskb", "movdqa", "movd", "movlpd",
               "pxor", "por", "pand", "pandn", "pcmpeqb", "pcmpgtb", "paddb", "psubb", "ptest", "pslldq", "psrldq"}
             \cup DOMAIN LoadBits \cup DOMAIN StoreBits
  \/ window.arch = "x86_64" /\ i.op \in {"mul", "imul"} /\ Len(i.operands) # 2
  \/ \E n \in DOMAIN i.operands : LET o == i.operands[n] IN
       \/ Keeps(o, "lsl") \/ Keeps(o, "writeback") \/ Keeps(o, "size")
       \/ o.k = "reg" /\ o.name \in DOMAIN WideOf
       \/ window.arch = "arm64" /\ o.k = "mem" /\ o.index # ""

\* The run, and whether it met such an instruction.
RECURSIVE CpuRun(_, _)
CpuRun(code, c) ==
  IF c.pc \in DOMAIN code
  THEN CpuRun(code, [CpuStep(code, c) EXCEPT !.simplified = @ \/ Simplified(code[c.pc])]) ELSE c

-----------------------------------------------------------------------------
(* Properties.                                                             *)

TypeOK ==
  /\ phase \in {"run", "record", "done"}
  /\ emu.steps <= Budget /\ rec.steps = Len(trace) /\ rec.steps <= emu.steps
  /\ \A m \in {emu, rec} :
       /\ \A r \in DOMAIN m.regs : m.regs[r] \in 0 .. 2^XLen - 1
       /\ m.outcome \in {"running", "returned", "branched", "budget_exhausted", "unsupported"}
  /\ phase # "run" <=> emu.outcome # "running"

\* The statement the recorder stands at, if any, and whether its value or address
\* is an indexed one.
Standing ==
  IF rec.block \notin DOMAIN function \/ OutOfSteps(rec, Budget) THEN {}
  ELSE {function[rec.block].statements[n] : n \in {rec.index} \cap DOMAIN function[rec.block].statements}
Indexed(s) ==
  \/ s.k \in {"assign", "load"} /\ s.e.k = "indexed"
  \/ s.k = "store" /\ s.at.k = "indexed"

\* The trace is of the run whose outcome it carries: although the recorder has
\* an evaluator of its own, it ends with the registers and memory of the run and
\* has every step, the one that failed excepted (record_trace).  It is so except
\* where the recorder comes to an indexed address of x86, which its evaluator
\* does not know and the emulator does: there the trace ends, and its outcome is
\* that of the longer run all the same.
TraceIsTheRun ==
  phase = "done" =>
    LET whole == /\ rec.regs = emu.regs /\ rec.mem = emu.mem
                 /\ Len(trace) \in {emu.steps, emu.steps - 1}
                 /\ Len(trace) < emu.steps => emu.outcome = "unsupported"
    IN whole = ~ \E s \in Standing : Indexed(s) /\ Exec(s, rec, Eval) # {}

\* Going back to a step by replaying from the start (state_at) gives the
\* registers and memory the recorder had there, and the timelines answer with
\* the same values: what no step wrote is what the caller gave.
AnswersMatchReplay ==
  trace # <<>> =>
    LET n == Len(trace) - 1
        then == StateAt(n)
    IN /\ then.regs = rec.regs /\ then.mem = rec.mem
       /\ \A r \in DOMAIN then.regs :
            \/ RegisterAt(trace, r, n) = {then.regs[r]}
            \/ RegisterAt(trace, r, n) = {} /\ r \in DOMAIN initial /\ initial[r] = then.regs[r]

\* Every byte of memory is the one the last store of the trace that covers it
\* put there, overlapping stores included.
MemoryIsTraced ==
  \A address \in DOMAIN rec.mem :
    LET stores == {k \in DOMAIN trace : \E bytes \in trace[k].memory : address \in DOMAIN bytes}
    IN /\ stores # {}
       /\ \A bytes \in trace[Max(stores)].memory : rec.mem[address] = bytes[address]

\* When the emulator says a lifted function returned, the registers and memory
\* are those of a processor that ran the instructions, if it met none that the
\* lifter models in part only (run).  "Honest by construction" (emulate.rs:8) does
\* not extend to those: each of a sample of them, a window long, returns with
\* other values than the processor's instead of being refused.
ReturnedRunMatchesProcessor ==
  /\ emu.outcome = "returned" =>
       \A c \in {CpuRun(window.code, [pc |-> 1, regs |-> New(initial).regs, mem |-> Nothing, simplified |-> FALSE])} :
         LET same == emu.mem = c.mem /\ \A r \in DOMAIN c.regs : r \in DOMAIN emu.regs /\ emu.regs[r] = c.regs[r]
         IN /\ ~ c.simplified => same
            /\ window \in Misread => c.simplified /\ ~ same
  /\ window \in Misread => emu.outcome \in {"running", "returned"}

\* The budget ends every run, loops included, and the trace is given back
\* (a loop with a statement in it; one without runs forever).
EmulationEnds == <>(phase = "done")

\* A recorded run can be gone back to: the trace is of the run, replaying it and
\* asking it give the values of the run, and memory is what its stores put there
\* (record_trace, state_at, register_at).
RecordIsTheRun == TypeOK /\ TraceIsTheRun /\ AnswersMatchReplay /\ MemoryIsTraced
=============================================================================
