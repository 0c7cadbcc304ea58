---------------------------- MODULE KnownValues ----------------------------
(***************************************************************************)
(* How the disassembler follows constants through one window               *)
(* (damsel-macho/src/disasm.rs, synthesize_analysis_references): one pass  *)
(* over the instructions with a map of registers whose value is known, the *)
(* condition flags when they are known, the table loads an indirect branch *)
(* may go through, and the relative slots a later add completes.           *)
(*                                                                         *)
(* `joins` are the addresses where it forgets everything on the way in,    *)
(* `facts` is what the pass wrote at each instruction.  After the pass a   *)
(* processor (Arm64Isa) runs the window from its first instruction with    *)
(* any register contents, any callee and any condition; the properties     *)
(* compare what it holds with what the pass wrote.  Memory keeps the bytes *)
(* of the file, which is what the pass assumes; an indirect branch leaves  *)
(* the window.                                                             *)
(*                                                                         *)
(* A register operand is [n, w], its number and width; n is "zr" for the   *)
(* zero register and "sp" for the stack pointer.  fp, lr, ip0 and ip1 are  *)
(* written as the X registers they name.                                   *)
(***************************************************************************)
EXTENDS BasicBlocks, Arm64Isa

CONSTANTS
  Windows,      \* the windows tried: sequences of instructions
  Registers,    \* register numbers
  Preserved,    \* those of them a callee preserves (x19 .. x29)
  Image,        \* the image's bytes, a function from addresses
  Executable,   \* the addresses of executable sections, a part of DOMAIN Image
  Named,        \* addresses of imports, stubs, exports, functions, Objective-C names
  Exported,     \* those of them that are exports
  IndexLimit,   \* the largest index a table is followed for
  Unresolved,   \* addresses of Objective-C references, never loaded through
  StartValues   \* what registers may hold at entry and after a call

\* What decoding gives: an instruction that transfers control has no value of its
\* own, only jumps and direct calls have a direct target, and an indirect one is in
\* a whole register.
IsInstruction(i) ==
  /\ i.kind \in Kinds
  /\ i.to # {} => i.kind \in {"Branch", "ConditionalBranch", "Call"}
  /\ i.op = "jump" <=> i.kind # "Fallthrough"
  /\ i.kind \in {"IndirectCall", "IndirectBranch"} => i.a.w = XLen
  /\ {i.d.n, i.d2.n, i.m.base.n, i.m.index.n} \subseteq Registers \cup {"zr", "sp"}

ASSUME WindowsAssumption ==
  /\ \A w \in Windows : /\ Len(w) \in Nat \ {0} /\ DOMAIN w = 1 .. Len(w)
                        /\ \A j \in DOMAIN w : IsInstruction(w[j])
  /\ Preserved \subseteq Registers /\ Registers \cap {"zr", "sp"} = {}
  /\ StartValues \subseteq Word(XLen)

VARIABLES window, joins, at, known, tables, slots, flags, facts, pc, ran, regs, nzcv

pass == <<joins, at, known, tables, slots, flags, facts>>
processor == <<pc, ran, regs, nzcv>>
vars == <<window, pass, processor>>

\* Flags are a set with the flags, empty when they are unknown.
NoFlags == {}
Nothing == [n \in {} |-> 0]

IsZero(r) == r.n = "zr"

\* canonical_state_key
HasKey(r) == r.n \notin {"zr", "sp"}

With(f, key, v) == [k \in {key} \cup DOMAIN f |-> IF k = key THEN v ELSE f[k]]
Without(f, key) == [k \in DOMAIN f \ {key} |-> f[k]]
WithoutAll(f, R) == [k \in DOMAIN f \ R |-> f[k]]
Updated(f, g) == [k \in DOMAIN f \cup DOMAIN g |-> IF k \in DOMAIN g THEN g[k] ELSE f[k]]

-----------------------------------------------------------------------------
(* Reading operands: a set with the value, empty when it is unknown.       *)

\* read_known_value: a W name reads the low half.
ReadKnown(m, r) == IF HasKey(r) /\ r.n \in DOMAIN m THEN {Low(m[r.n], r.w)} ELSE {}

\* read_simple_register_value
Read(m, r) == IF IsZero(r) THEN {0} ELSE ReadKnown(m, r)

\* read_width_checked_register_operand
ReadChecked(m, r, w) == IF r.w = w THEN Read(m, r) ELSE {}

\* logical_operand_value; a register operand carries a shift, "none" or lsl ...
LogicalOperand(m, o, w) ==
  IF o.kind = "imm" THEN {o.value}
  ELSE IF o.shift = "none" THEN Read(m, o.reg)
  ELSE UNION {ShiftedLogical(v, o.shift, o.by, o.reg.w) : v \in Read(m, o.reg)}

\* arithmetic_register_operand_value
ArithmeticOperand(m, o) ==
  IF o.kind = "imm" THEN {}
  ELSE UNION {ShiftedArithmetic(v, o.shift, o.by, o.reg.w) : v \in Read(m, o.reg)}

\* arithmetic_operand_known_value: for the flags, immediates count too.
FlagOperand(m, o, w) ==
  {Low(v, w) : v \in IF o.kind = "imm" THEN {o.value} ELSE ArithmeticOperand(m, o)}

-----------------------------------------------------------------------------
(* Values computed from known operands (synthesize_simple_register_value). *)

\* i.d is the destination, i.a, i.b and i.c the register sources, i.o the last
\* operand of logic and addition, i.cond a condition, i.imm, i.lsb numbers.
Select(i, m, f) ==
  LET w == i.d.w
      taken == {Low(v, w) : v \in Read(m, i.a)}
      other == {SelectOther(i.op, v, w) : v \in Read(m, i.b)}
  IN IF f = NoFlags THEN taken \cap other
     ELSE UNION {IF ConditionHolds(i.cond, g) THEN taken ELSE other : g \in f}

SelectAlias(i, m, f) ==
  LET Chosen(holds) ==
        CASE i.op = "cset"  -> {IF holds THEN 1 ELSE 0}
          [] i.op = "csetm" -> {IF holds THEN Mask(i.d.w) ELSE 0}
          [] OTHER -> {IF holds THEN SelectOther(i.op, v, i.d.w) ELSE v :
                         v \in ReadChecked(m, i.a, i.d.w)}
  IN UNION {Chosen(ConditionHolds(i.cond, g)) : g \in f}

\* ngc and ngcs subtract from zero.
CarryOperand(i, m) == IF i.op \in {"ngc", "ngcs"} THEN {0} ELSE ReadChecked(m, i.a, i.d.w)

\* The value the instruction leaves in its destination, when it is one this
\* pass evaluates and its operands are known.
Computed(i, m, f) ==
  LET w == i.d.w IN
  CASE i.op = "adr" -> {i.imm}
    [] i.op = "mov" -> IF i.o.kind = "imm" THEN {i.o.value} ELSE Read(m, i.o.reg)
    [] i.op \in {"movz", "movn"} -> {MoveWide(i.op, i.imm, i.lsb, 0)}
    [] i.op = "movk" -> {MoveWide(i.op, i.imm, i.lsb, v) : v \in ReadKnown(m, i.d)}
    [] i.op \in LogicalOps ->
         {LogicalResult(i.op, p[1], p[2]) : p \in Read(m, i.a) \X LogicalOperand(m, i.o, w)}
    [] i.op \in {"add", "adds"} /\ i.o.kind = "reg" ->
         UNION {AddChecked(p[1], p[2]) : p \in Read(m, i.a) \X ArithmeticOperand(m, i.o)}
    [] i.op \in {"sub", "subs"} /\ i.o.kind = "reg" ->
         UNION {SubChecked(p[1], p[2]) : p \in Read(m, i.a) \X ArithmeticOperand(m, i.o)}
    [] i.op \in {"add", "adds", "sub", "subs"} /\ i.o.kind = "imm" ->
         IF IsZero(i.d) THEN {}
         ELSE UNION {AddChecked(v, IF i.op \in {"add", "adds"} THEN i.o.value ELSE -i.o.value) :
                       v \in ReadKnown(m, i.a)}
    [] i.op \in CarryOps ->
         {CarryResult(i.op, p[2], p[3], IF p[1].c THEN 1 ELSE 0, w).value :
            p \in f \X CarryOperand(i, m) \X ReadChecked(m, i.b, w)}
    [] i.op \in MultiplyOps ->
         {MultiplyResult(i.op, p[1], p[2], p[3], w) :
            p \in Read(m, i.a) \X Read(m, i.b) \X Read(m, i.c)}
    [] i.op \in LongOps ->
         {LongResult(i.op, p[1], p[2], p[3]) :
            p \in ReadChecked(m, i.a, WLen) \X ReadChecked(m, i.b, WLen) \X ReadChecked(m, i.c, XLen)}
    [] i.op \in HighOps ->
         {HighResult(i.op, p[1], p[2]) : p \in ReadChecked(m, i.a, XLen) \X ReadChecked(m, i.b, XLen)}
    [] i.op \in DivideOps ->
         {DivideResult(i.op, p[1], p[2], w) : p \in Read(m, i.a) \X Read(m, i.b)}
    [] i.op = "clz" -> {LeadingZeros(v, w) : v \in Read(m, i.a)}
    [] i.op = "cls" -> {LeadingSignBits(v, w) : v \in Read(m, i.a)}
    [] i.op \in {"ubfx", "sbfx"} -> {FieldExtract(i.op, v, i.lsb, i.imm, w) : v \in Read(m, i.a)}
    [] i.op \in FieldOps ->
         {FieldInsert(i.op, p[1], p[2], i.lsb, i.imm, w) :
            p \in Read(m, i.a) \X (IF i.op \in {"ubfiz", "sbfiz"} THEN {0} ELSE Read(m, i.d))}
    [] i.op = "extr" -> {ExtractPair(p[1], p[2], w, i.imm) : p \in Read(m, i.a) \X Read(m, i.b)}
    [] i.op \in ReverseOps -> UNION {ReverseResult(i.op, v, w) : v \in Read(m, i.a)}
    [] i.op = "mvn" -> {Low(Not(v), w) : v \in LogicalOperand(m, i.o, w)}
    [] i.op \in {"neg", "negs"} -> {Low(-v, w) : v \in ArithmeticOperand(m, i.o)}
    [] i.op \in ExtendOps -> {Low(ExtendResult(i.op, v), w) : v \in Read(m, i.a)}
    [] i.op \in ShiftOps ->
         IF i.o.kind = "imm" THEN {ShiftResult(i.op, v, i.o.value, w) : v \in Read(m, i.a)}
         ELSE {ShiftResult(i.op, p[1], p[2] % w, w) :
                 p \in ReadChecked(m, i.a, w) \X ReadChecked(m, i.o.reg, w)}
    [] i.op \in SelectOps -> Select(i, m, f)
    [] i.op \in {"cset", "csetm", "cinc", "cinv", "cneg"} -> SelectAlias(i, m, f)
    [] OTHER -> {}

-----------------------------------------------------------------------------
(* Condition flags.                                                        *)

\* instruction_updates_condition_flags
UpdatesFlags(op) ==
  op \in {"adds", "adcs", "cmn", "subs", "sbcs", "cmp", "negs", "ngcs", "ands", "bics",
          "tst", "ccmp", "ccmn"}

\* synthesize_condition_flags, from the values before the instruction.  w is
\* the width of the destination, or of the first operand of a comparison.
NewFlags(i, m, f) ==
  LET w == IF i.op \in {"cmp", "cmn", "tst", "ccmp", "ccmn"} THEN i.a.w ELSE i.d.w
      lhs == {Low(v, w) : v \in Read(m, i.a)}
      Compared(op) == {IF op \in {"adds", "cmn", "ccmn"} THEN AdditionFlags(p[1], p[2], w)
                                                        ELSE SubtractionFlags(p[1], p[2], w) :
                         p \in lhs \X FlagOperand(m, i.o, w)}
  IN CASE i.op \in {"adds", "cmn", "subs", "cmp"} -> Compared(i.op)
       [] i.op = "negs" -> {SubtractionFlags(0, v, w) : v \in FlagOperand(m, i.o, w)}
       [] i.op \in {"ands", "bics", "tst"} ->
            {LogicalFlags(And(p[1], IF i.op = "bics" THEN Not(p[2]) ELSE p[2]), w) :
               p \in lhs \X LogicalOperand(m, i.o, w)}
       [] i.op \in {"adcs", "sbcs", "ngcs"} ->
            {CarryResult(i.op, p[2], p[3], IF p[1].c THEN 1 ELSE 0, w).flags :
               p \in f \X CarryOperand(i, m) \X ReadChecked(m, i.b, w)}
       [] i.op \in {"ccmp", "ccmn"} ->
            UNION {IF ConditionHolds(i.cond, g) THEN Compared(i.op) ELSE {i.nzcv} : g \in f}

-----------------------------------------------------------------------------
(* Memory.                                                                 *)

\* read_memory_value, little endian: n bytes of the image.
ReadImage(address, n, signed) ==
  IF \A k \in 0 .. n - 1 : address + k \in DOMAIN Image
  THEN LET raw == NumOf[{k \in 0 .. n * ByteLen - 1 :
                           HasBit(Image[address + k \div ByteLen], k % ByteLen)}]
       IN {IF signed THEN Low(Signed(raw, n * ByteLen), XLen) ELSE raw}
  ELSE {}

Loads == {"ldr", "ldrb", "ldrh", "ldrsb", "ldrsh", "ldrsw"}

\* The bytes a load reads and whether it extends their sign
\* (scalar_memory_load_width, jump_table_element_size).
LoadBytes(i) == CASE i.op \in {"ldr", "literal"} -> i.d.w \div ByteLen
                  [] i.op \in {"ldrb", "ldrsb"} -> 1
                  [] i.op \in {"ldrh", "ldrsh"} -> HalfLen \div ByteLen
                  [] i.op = "ldrsw" -> WLen \div ByteLen
LoadSigned(i) == i.op \in {"ldrsb", "ldrsh", "ldrsw"}

\* MemoryIndexTransform.apply
WithIndex(base, index, extension, shift) ==
  IF extension \in {"sxtw", "sxtx"}
  THEN AddChecked(base, Signed(index, ExtendLen(extension)) * 2^shift)
  ELSE AddChecked(base, ShiftLeft(Low(index, ExtendLen(extension)), shift))

\* The operand [base, index, ext, shift, disp, writeback]; index is the zero
\* register when there is none.
BaseAddress(i, m) == UNION {AddChecked(v, i.m.disp) : v \in ReadKnown(m, i.m.base)}
IsIndexed(i) == ~IsZero(i.m.index)
EffectiveAddress(i, m) ==
  IF IsIndexed(i)
  THEN UNION {WithIndex(p[1], p[2], i.m.ext, i.m.shift) :
                p \in BaseAddress(i, m) \X ReadKnown(m, i.m.index)}
  ELSE BaseAddress(i, m)

\* The element of a set that has one.
One(S) == CHOOSE x \in S : TRUE

\* recoverable_memory_load_range with read_memory_value.
LoadedFrom(address, n, signed) ==
  IF address \in Executable \cup Unresolved THEN {} ELSE ReadImage(address, n, signed)

\* resolve_table_slot_at_address: an absolute slot holds the address of code or of
\* something named, a relative one the distance of code or an export from the
\* table.
SlotTarget(base, address, n, relative) ==
  IF relative
  THEN UNION {AddChecked(base, Signed(v, WLen)) : v \in ReadImage(address, WLen \div ByteLen, FALSE)}
         \cap (Executable \cup Exported)
  ELSE IF n \notin {WLen \div ByteLen, XLen \div ByteLen} THEN {}
  ELSE (ReadImage(address, n, FALSE) \ {0}) \cap (Executable \cup Named)

-----------------------------------------------------------------------------
(* The registers an instruction writes.                                    *)

Atomics == {"swp", "ldadd"}

\* instruction_writes_destination
WritesDestination(i) ==
  /\ i.op \notin {"cmp", "cmn", "ccmp", "ccmn", "tst", "str", "stp", "fcmp"}
  /\ i.kind = "Fallthrough"

\* Mutant: the second register of a pair is not written.
FirstDestination(i) == IF WritesDestination(i) THEN {i.d} ELSE {}

\* written_destination_registers: an atomic writes its second operand, a pair
\* load and a pair compare-and-swap two.
Destinations(i) ==
  IF ~WritesDestination(i) THEN {}
  ELSE IF i.op \in {"ldp", "casp"} THEN {i.d, i.d2}
  ELSE IF i.op \in Atomics THEN {i.d2}
  ELSE {i.d}

-----------------------------------------------------------------------------
(* The pass.  Its state s is [known, tables, slots], and `done` tells that *)
(* the destination was accounted for.                                      *)

\* store_known_value_replacing_derived_state
Put(s, r, v) ==
  IF ~HasKey(r) THEN [s EXCEPT !.done = TRUE]
  ELSE [known |-> With(s.known, r.n, Low(v, r.w)), tables |-> Without(s.tables, r.n),
        slots |-> Without(s.slots, r.n), done |-> TRUE]

\* remove_register_analysis_state
Forget(s, R) ==
  [known |-> WithoutAll(s.known, R), tables |-> WithoutAll(s.tables, R),
   slots |-> WithoutAll(s.slots, R), done |-> s.done]

\* A relative slot loaded earlier and the table it is relative to, added
\* (synthesize_register_add_value).
RelativeAdd(i, s) ==
  IF i.op = "add" /\ i.o.kind = "reg" /\ i.o.shift \in {"none", "lsl", "sxtw", "sxtx"}
     /\ i.o.by = 0 /\ i.o.reg.n \in DOMAIN s.slots
  THEN {s.slots[i.o.reg.n].target :
          v \in {b \in ReadKnown(s.known, i.a) : b = s.slots[i.o.reg.n].base}}
  ELSE {}

\* ldr and its kin through a base register: the table an index selects from is
\* remembered, for a branch through the register.
TableLoad(i, m) ==
  [base |-> One(BaseAddress(i, m)), index |-> i.m.index, ext |-> i.m.ext, shift |-> i.m.shift,
   bytes |-> LoadBytes(i), relative |-> i.op = "ldrsw"]
Traced(i, s) ==
  IF IsIndexed(i) /\ HasKey(i.d)
  THEN [s EXCEPT !.tables = With(s.tables, i.d.n, TableLoad(i, s.known))] ELSE s

\* A value loaded through an index keeps the table it came from.
PutLoaded(i, s, v) ==
  IF IsIndexed(i) /\ HasKey(i.d)
  THEN [Put(s, i.d, v) EXCEPT !.tables = s.tables] ELSE Put(s, i.d, v)

PutSlot(s, r, slot) ==
  [known |-> Without(s.known, r.n), tables |-> Without(s.tables, r.n),
   slots |-> With(s.slots, r.n, slot), done |-> TRUE]

DropValue(s, r) ==
  [known |-> Without(s.known, r.n), tables |-> s.tables, slots |-> Without(s.slots, r.n), done |-> TRUE]

\* The code address in the slot that is loaded, and what is loaded otherwise.
SlotLoaded(i, m) ==
  UNION {SlotTarget(One(BaseAddress(i, m)), a, LoadBytes(i), i.op = "ldrsw") : a \in EffectiveAddress(i, m)}
ValueLoaded(i, m) == UNION {LoadedFrom(a, LoadBytes(i), LoadSigned(i)) : a \in EffectiveAddress(i, m)}

LoadStep(i, s) ==
  IF BaseAddress(i, s.known) = {} THEN s
  ELSE IF i.op = "ldrsw" /\ SlotLoaded(i, s.known) # {} /\ HasKey(i.d)
  THEN PutSlot(Traced(i, s), i.d, [base   |-> One(BaseAddress(i, s.known)),
                                   target |-> One(SlotLoaded(i, s.known))])
  ELSE IF i.op # "ldrsw" /\ SlotLoaded(i, s.known) # {}
  THEN PutLoaded(i, Traced(i, s), One(SlotLoaded(i, s.known)))
  ELSE IF i.op # "ldrsw" /\ IsIndexed(i) /\ HasKey(i.d) THEN DropValue(Traced(i, s), i.d)
  ELSE IF ValueLoaded(i, s.known) # {} THEN PutLoaded(i, Traced(i, s), One(ValueLoaded(i, s.known)))
  ELSE Traced(i, s)

\* ldr from a literal, ldp.
LiteralStep(i, s) ==
  LET v == ReadImage(i.imm, LoadBytes(i), LoadSigned(i))
  IN IF v = {} THEN s ELSE Put(s, i.d, One(v))

PairStep(i, s) ==
  LET n == i.d.w \div ByteLen
      pairs == UNION {LoadedFrom(a, n, FALSE) \X
                        UNION {LoadedFrom(b, n, FALSE) : b \in AddChecked(a, n)} :
                        a \in BaseAddress(i, s.known)}
  IN IF pairs = {} THEN s
     ELSE LET p == One(pairs) IN Put(Put(s, i.d, p[1]), i.d2, p[2])

\* An add that completes a relative slot makes its destination known.
PutIfKnown(s, d, value) == IF value = {} THEN s ELSE Put(s, d, One(value))
Completed(i, s) == PutIfKnown(s, i.d, RelativeAdd(i, s))

Synthesised(i, s, f) ==
  CASE i.op = "literal" -> LiteralStep(i, s)
    [] i.op = "ldp" -> PairStep(i, s)
    [] i.op \in Loads -> LoadStep(i, s)
    [] OTHER -> Completed(i, PutIfKnown(s, i.d, Computed(i, s.known, f)))

\* should_resolve_indirect_target: zero and sign-extended small negatives are
\* sentinels, unless they are code.
ShouldResolve(t) ==
  /\ t # 0
  /\ t \in Executable \/ ~(\/ t \div 2^WLen = Mask(WLen)
                           \/ t < 2^WLen /\ t \div 2^HalfLen = Mask(HalfLen))

\* MemoryIndexTransform.index_within_limit
WithinLimit(index, extension) ==
  (IF extension \in {"sxtw", "sxtx"} THEN Signed(index, ExtendLen(extension)) ELSE Low(index, ExtendLen(extension)))
    \in -IndexLimit .. IndexLimit

\* resolve_table_slot_target: what a table names for an index.
Through(t, index) ==
  IF WithinLimit(index, t.ext)
  THEN UNION {SlotTarget(t.base, address, t.bytes, t.relative) : address \in WithIndex(t.base, index, t.ext, t.shift)}
  ELSE {}

\* Where an indirect control goes: the slot its table names for the index
\* register, or else the register's value.
ResolvedTarget(i, s) ==
  LET direct == {v \in ReadKnown(s.known, i.a) : ShouldResolve(v)}
      t == s.tables[i.a.n]
      through == UNION {Through(t, v) : v \in ReadKnown(s.known, t.index)}
  IN IF i.kind \notin {"IndirectCall", "IndirectBranch"} THEN {}
     ELSE IF i.a.n \in DOMAIN s.tables /\ through # {} THEN through ELSE direct

\* clear_call_clobbered_state: x0 .. x18 and the link register.
Clobbered == Registers \ Preserved

\* What is forgotten after an instruction: what it writes unless its value is known,
\* and what its kind of control says nothing of.
Forgotten(i, s) == IF s.done THEN s ELSE Forget(s, {r.n : r \in Destinations(i)})
WrittenBack(i, s) == IF i.m.writeback THEN Forget(s, {i.m.base.n}) ELSE s
AfterControl(i, s) ==
  IF IsCall(i.kind) THEN Forget(s, Clobbered) ELSE IF IsBoundary(i.kind) THEN Forget(s, Registers) ELSE s

\* One instruction: the state and the flags after it, from those before it.
After(i, s, f) == AfterControl(i, WrittenBack(i, Forgotten(i, Synthesised(i, s, f))))
FlagsAfter(i, s, f) ==
  IF i.kind # "Fallthrough" THEN NoFlags
  ELSE IF UpdatesFlags(i.op) THEN NewFlags(i, s.known, f) ELSE f

\* One instruction of the window.
Step ==
  /\ at <= Len(window)
  /\ LET i  == window[at]
         joined == at \in joins
         s0 == [known |-> IF joined THEN Nothing ELSE known,
                tables |-> IF joined THEN Nothing ELSE tables,
                slots |-> IF joined THEN Nothing ELSE slots, done |-> FALSE]
         f0 == IF joined THEN NoFlags ELSE flags
         s1 == After(i, s0, f0)
         f1 == FlagsAfter(i, s0, f0)
     IN /\ known' = s1.known
        /\ tables' = s1.tables
        /\ slots' = s1.slots
        /\ flags' = f1
        /\ facts' = Append(facts, [known |-> s1.known, tables |-> s1.tables, slots |-> s1.slots, flags |-> f1,
                                  target |-> ResolvedTarget(i, Synthesised(i, s0, f0))])
  /\ at' = at + 1
  /\ UNCHANGED <<window, joins, processor>>
-----------------------------------------------------------------------------
(* The processor: any run of the window from its first instruction.  pc is *)
(* 0 before the run and after it has left the window; ran is the           *)
(* instruction executed last.                                              *)

\* The stack pointer holds some value the pass never knows.
Holds(rs, r) == IF IsZero(r) THEN 0 ELSE IF r.n = "sp" THEN 2^(XLen - 1) ELSE Low(rs[r.n], r.w)

FlagChoices ==
  {[n |-> ~b, z |-> b, c |-> b, v |-> FALSE] : b \in BOOLEAN}

\* A register operand with its shift or extension.
IsaOperand(rs, o) ==
  IF o.kind = "imm" THEN o.value
  ELSE IF o.shift = "none" THEN Holds(rs, o.reg)
  ELSE IF o.shift \in ShiftOps THEN IsaShift(o.shift, Holds(rs, o.reg), o.by, o.reg.w)
  ELSE LET len == ExtendLen(o.shift)
       IN Low((IF IsSigned(o.shift) THEN Signed(Holds(rs, o.reg), len) ELSE Low(Holds(rs, o.reg), len))
                * 2^o.by, XLen)

IsaLane(i, previous) ==
  Build(XLen, LAMBDA k : IF k \in i.lsb .. i.lsb + HalfLen - 1
                         THEN HasBit(i.imm, k - i.lsb) # (i.op = "movn")
                         ELSE IF i.op = "movk" THEN HasBit(previous, k) ELSE i.op = "movn")

CarryOf(fl) == IF fl.c THEN 1 ELSE 0

\* What the architecture puts in the destination.
IsaValue(i, rs, fl) ==
  LET w == i.d.w
      a == Holds(rs, i.a)
      b == Holds(rs, i.b)
      c == Holds(rs, i.c)
      o == IsaOperand(rs, i.o)
      holds == ConditionHolds(i.cond, fl)
      long(signed) == IF signed THEN Signed(a, WLen) * Signed(b, WLen) ELSE a * b
  IN CASE i.op = "adr" -> i.imm
       [] i.op = "mov" -> o
       [] i.op \in {"movz", "movn", "movk"} -> IsaLane(i, Holds(rs, i.d))
       [] i.op \in LogicalOps -> IsaLogical(i.op, a, o, w)
       [] i.op \in {"add", "adds"} -> IsaAdd(a, o, 0, w).value
       [] i.op \in {"sub", "subs"} -> IsaSubtract(a, o, 1, w).value
       [] i.op \in {"neg", "negs"} -> IsaSubtract(0, o, 1, w).value
       [] i.op \in {"adc", "adcs"} -> IsaAdd(a, b, CarryOf(fl), w).value
       [] i.op \in {"sbc", "sbcs"} -> IsaSubtract(a, b, CarryOf(fl), w).value
       [] i.op \in {"ngc", "ngcs"} -> IsaSubtract(0, b, CarryOf(fl), w).value
       [] i.op \in {"mul", "madd"} -> c + a * b
       [] i.op \in {"mneg", "msub"} -> c - a * b
       [] i.op \in {"umull", "umaddl", "smull", "smaddl"} -> c + long(i.op \in {"smull", "smaddl"})
       [] i.op \in {"umnegl", "umsubl", "smnegl", "smsubl"} -> c - long(i.op \in {"smnegl", "smsubl"})
       [] i.op = "umulh" -> (a * b) \div 2^XLen
       [] i.op = "smulh" -> (Signed(a, XLen) * Signed(b, XLen)) \div 2^XLen
       [] i.op = "udiv" -> IsaDivide(a, b, w)
       [] i.op = "sdiv" -> IsaDivide(Signed(a, w), Signed(b, w), w)
       [] i.op = "clz" -> IsaClz(a, w)
       [] i.op = "cls" -> IsaCls(a, w)
       [] i.op \in {"ubfx", "sbfx"} \cup FieldOps -> IsaField(i.op, a, Holds(rs, i.d), i.lsb, i.imm, w)
       [] i.op = "extr" -> IsaExtract(a, b, w, i.imm)
       [] i.op = "rbit" -> Build(w, LAMBDA k : HasBit(a, w - 1 - k))
       [] i.op \in {"rev", "rev16", "rev32"} ->
            IsaReverse(a, CASE i.op = "rev" -> w [] i.op = "rev16" -> HalfLen [] OTHER -> WLen, w)
       [] i.op = "mvn" -> Mask(w) - Low(o, w)
       [] i.op \in ExtendOps ->
            IF IsSigned(i.op) THEN Signed(a, ExtendLen(i.op)) ELSE Low(a, ExtendLen(i.op))
       [] i.op \in ShiftOps -> IsaShift(i.op, a, o % w, w)
       [] i.op \in SelectOps -> IF holds THEN a ELSE
            (CASE i.op = "csel" -> b [] i.op = "csinc" -> b + 1
               [] i.op = "csinv" -> Mask(w) - b [] i.op = "csneg" -> -b)
       [] i.op = "cset"  -> IF holds THEN 1 ELSE 0
       [] i.op = "csetm" -> IF holds THEN -1 ELSE 0
       [] i.op = "cinc"  -> IF holds THEN a + 1 ELSE a
       [] i.op = "cinv"  -> IF holds THEN Mask(w) - a ELSE a
       [] i.op = "cneg"  -> IF holds THEN -a ELSE a

\* The flags after the instruction.
IsaFlags(i, rs, fl) ==
  LET compares == i.op \in {"cmp", "cmn", "tst", "ccmp", "ccmn"}
      w == IF compares THEN i.a.w ELSE i.d.w
      a == Holds(rs, i.a)
      o == IsaOperand(rs, i.o)
  IN CASE i.op \in {"adds", "cmn"} -> IsaAdd(a, o, 0, w).flags
       [] i.op \in {"subs", "cmp"} -> IsaSubtract(a, o, 1, w).flags
       [] i.op = "negs" -> IsaSubtract(0, o, 1, w).flags
       [] i.op = "adcs" -> IsaAdd(a, Holds(rs, i.b), CarryOf(fl), w).flags
       [] i.op = "sbcs" -> IsaSubtract(a, Holds(rs, i.b), CarryOf(fl), w).flags
       [] i.op = "ngcs" -> IsaSubtract(0, Holds(rs, i.b), CarryOf(fl), w).flags
       [] i.op \in {"ands", "tst"} -> IsaLogicalFlags(IsaLogical("and", a, o, w), w)
       [] i.op = "bics" -> IsaLogicalFlags(IsaLogical("bic", a, o, w), w)
       [] i.op = "ccmp" -> IF ConditionHolds(i.cond, fl) THEN IsaSubtract(a, o, 1, w).flags ELSE i.nzcv
       [] i.op = "ccmn" -> IF ConditionHolds(i.cond, fl) THEN IsaAdd(a, o, 0, w).flags ELSE i.nzcv
       [] OTHER -> fl

\* The bytes at an address: those of the image, or anything.
InMemory(address, n, signed) ==
  LET v == ReadImage(address, n, signed) IN IF v = {} THEN StartValues ELSE v

IsaAddress(i, rs) ==
  Low(Holds(rs, i.m.base) + i.m.disp +
      (IF IsIndexed(i)
       THEN (IF i.m.ext \in {"sxtw", "sxtx"} THEN Signed(Holds(rs, i.m.index), ExtendLen(i.m.ext))
             ELSE Low(Holds(rs, i.m.index), ExtendLen(i.m.ext))) * 2^i.m.shift
       ELSE 0), XLen)

\* A value written to r, the write-back of the address, and one write after another.
Into(r, S) == IF HasKey(r) THEN {With(Nothing, r.n, Low(v, r.w)) : v \in S} ELSE {Nothing}
Back(i, rs) ==
  IF i.m.writeback /\ HasKey(i.m.base) THEN With(Nothing, i.m.base.n, IsaAddress(i, rs)) ELSE Nothing
Both(S, T) == {Updated(p[1], p[2]) : p \in S \X T}

\* The possible contents of the registers the instruction writes.
LoadedWrites(i, address, n) ==
  IF i.op = "ldp"
  THEN Both(Into(i.d, InMemory(address, n, FALSE)), Into(i.d2, InMemory(address + n, n, FALSE)))
  ELSE Into(i.d, InMemory(address, LoadBytes(i), LoadSigned(i)))
ComputedWrites(i, rs, fl) ==
  IF i.op = "literal" THEN Into(i.d, InMemory(i.imm, LoadBytes(i), FALSE))
  ELSE IF i.op = "casp" THEN Both(Into(i.d, StartValues), Into(i.d2, StartValues))
  ELSE IF i.op \in Atomics THEN Into(i.d2, StartValues)
  ELSE IF i.op = "other" THEN Into(i.d, StartValues)
  ELSE IF WritesDestination(i) THEN Into(i.d, {Low(IsaValue(i, rs, fl), XLen)})
  ELSE {Nothing}
IsaWrites(i, rs, fl) ==
  IF IsCall(i.kind) THEN [Clobbered -> StartValues]
  ELSE IF i.kind # "Fallthrough" THEN {Nothing}
  ELSE IF i.op \in {"str", "stp"} THEN {Back(i, rs)}
  ELSE IF i.op \in Loads \cup {"ldp"}
  THEN Both({Back(i, rs)}, LoadedWrites(i, IsaAddress(i, rs), i.d.w \div ByteLen))
  ELSE ComputedWrites(i, rs, fl)

\* The flags after an instruction: a callee's, those of a comparison of floating
\* point values, or computed.
IsaFlagChoices(i, rs, fl) ==
  IF IsCall(i.kind) \/ i.op = "fcmp" THEN FlagChoices ELSE {IsaFlags(i, rs, fl)}

\* The pass is over: the processor enters the window.
Enter ==
  /\ at > Len(window) /\ pc = 0 /\ ran = 0
  /\ pc' = 1
  /\ regs' \in [Registers -> StartValues]
  /\ nzcv' \in FlagChoices
  /\ UNCHANGED <<window, pass, ran>>

Execute ==
  /\ pc # 0
  /\ LET i == window[pc]
         next == IF pc + 1 \in DOMAIN window THEN {pc + 1} ELSE {0}
         jump == IF Inside(window, pc) = {} THEN {0} ELSE Inside(window, pc)
     IN /\ \E writes \in IsaWrites(i, regs, nzcv) : regs' = Updated(regs, writes)
        /\ nzcv' \in IsaFlagChoices(i, regs, nzcv)
        /\ pc' \in CASE i.kind = "Branch" -> jump
                     [] i.kind = "ConditionalBranch" -> jump \cup next
                     [] i.kind \in {"Return", "Trap", "IndirectBranch"} -> {0}
                     [] OTHER -> next
  /\ ran' = pc
  /\ UNCHANGED <<window, pass>>

\* A call into the window: the callee's code starts with the caller's registers.
CallInside ==
  /\ pc # 0 /\ window[pc].kind = "Call"
  /\ pc' \in Inside(window, pc)
  /\ ran' = 0
  /\ UNCHANGED <<window, pass, regs, nzcv>>

Init ==
  /\ window \in Windows
  /\ joins = JoinAddresses(window)
  /\ at = 1 /\ known = Nothing /\ tables = Nothing /\ slots = Nothing
  /\ flags = NoFlags /\ facts = <<>>
  /\ pc = 0 /\ ran = 0
  /\ regs = [n \in Registers |-> 0] /\ nzcv \in {[n |-> FALSE, z |-> FALSE, c |-> FALSE, v |-> FALSE]}

Next == Step \/ Enter \/ Execute \/ CallInside

Spec == Init /\ [][Next]_vars

-----------------------------------------------------------------------------
(* What is evaluated exactly.                                              *)

\* A relative slot holds a sign-extended distance of the target from the base.
SlotHolds(slot, v) ==
  /\ v = Low(Signed(v, WLen), XLen)
  /\ slot = [base |-> slot.base, target |-> (slot.base + v) % 2^XLen]

\* A table names for the index what register n, which was loaded through it, holds.
TableHolds(t, n, rs) ==
  HasKey(t.index) => Through(t, Low(rs[t.index.n], t.index.w)) \subseteq {Low(rs[n], XLen)}

\* A belief b (registers, slots and flags) agrees with the processor.
Agrees(b, rs, fl) ==
  /\ \A n \in DOMAIN b.known : b.known[n] = rs[n]
  /\ \A n \in DOMAIN b.slots : SlotHolds(b.slots[n], rs[n])
  /\ b.flags \subseteq {fl}

Instructions == UNION {{w[j] : j \in DOMAIN w} : w \in Windows}
FlagValues == [n : BOOLEAN, z : BOOLEAN, c : BOOLEAN, v : BOOLEAN]

\* A load through an index, which the pass remembers for its register.
IsTableLoad(i) == i.op \in Loads /\ IsIndexed(i) /\ HasKey(i.d)

\* Started from a belief that agrees with the processor, what one instruction
\* makes the pass believe of its destinations and flags is what they then hold, and
\* a table remembered names what was loaded, unless the load overwrote its index.
ExactAt(i, s, f, rs, fl) ==
  LET t == Synthesised(i, s, f)
  IN /\ \A writes \in IsaWrites(i, rs, fl) :
          /\ \A n \in DOMAIN writes : writes[n] \in Word(XLen)
          /\ t.done => \A n \in {r.n : r \in Destinations(i)} :
                          /\ n \in DOMAIN t.known => t.known[n] = Updated(rs, writes)[n]
                          /\ n \in DOMAIN t.slots => SlotHolds(t.slots[n], Updated(rs, writes)[n])
          /\ t.done /\ IsTableLoad(i) /\ i.d.n \in DOMAIN t.tables /\ i.m.index.n \notin DOMAIN writes =>
               TableHolds(t.tables[i.d.n], i.d.n, Updated(rs, writes))
     /\ IsaFlagChoices(i, rs, fl) \subseteq FlagValues
     /\ i.kind = "Fallthrough" => \A g \in IsaFlagChoices(i, rs, fl) : FlagsAfter(i, s, f) \subseteq {g}

\* For every instruction of a window and every belief: any of the registers, and
\* slots relative to any of `bases`.
EvaluationIsExactOn(registerFiles, flagValues, bases) ==
  \A i \in Instructions, rs \in registerFiles, fl \in flagValues :
    \A K \in SUBSET Registers, L \in SUBSET {n \in Registers : rs[n] = Low(Signed(rs[n], WLen), XLen)} :
      \A from \in [L -> bases], f \in {{}, {fl}} :
        ExactAt(i, [known  |-> [n \in K |-> rs[n]], tables |-> Nothing,
                    slots  |-> [n \in L |-> [base |-> from[n],
                                            target |-> (from[n] + rs[n]) % 2^XLen]],
                    done   |-> FALSE], f, rs, fl)

\* The registers an instruction may change.
Overwritten(i) ==
  IF IsCall(i.kind) THEN Clobbered
  ELSE {r.n : r \in Destinations(i)} \cup {n \in {i.m.base.n} : i.m.writeback}

\* Where the instruction at j goes through a register still as it was loaded from
\* a table, the index register is still as it was, too.
IndexIsKept(w, j) ==
  \A k \in 1 .. j - 1 :
    IsTableLoad(w[k]) /\ w[k].d.n = w[j].a.n /\ (\A l \in k + 1 .. j - 1 : w[j].a.n \notin Overwritten(w[l])) =>
      \A l \in k .. j - 1 : w[k].m.index.n \notin Overwritten(w[l])

-----------------------------------------------------------------------------
(* Properties.                                                             *)

TypeOK ==
  /\ joins \subseteq DOMAIN window
  /\ at \in 1 .. Len(window) + 1 /\ Len(facts) = at - 1
  /\ DOMAIN known \subseteq Registers /\ DOMAIN tables \subseteq Registers
  /\ DOMAIN slots \subseteq Registers
  /\ pc \in 0 .. Len(window) /\ ran \in 0 .. Len(window)
  /\ pc # 0 \/ ran # 0 => regs \in [Registers -> Word(XLen)] /\ nzcv \in FlagValues

\* Whatever the caller passed, the callees did and the branches decided, a
\* register the pass calls known holds that value after the instruction: no
\* write, write-back, second destination, clobber or join was missed.
KnownValuesSound ==
  ran # 0 => \A n \in DOMAIN facts[ran].known : regs[n] = facts[ran].known[n]

\* Flags called known are the processor's.
KnownFlagsSound ==
  ran # 0 => facts[ran].flags \subseteq {nzcv}

\* A resolved indirect call or branch names the address it really goes to (a
\* callee may have changed the register by the time a call has returned), through
\* a table too, unless the index register was overwritten since the load: the
\* table is read with what it holds at the branch (annotate_instructions).
ResolvedTargetSound ==
  pc # 0 /\ window[pc].kind \in {"IndirectCall", "IndirectBranch"} /\ IndexIsKept(window, pc) =>
    facts[pc].target \subseteq {Holds(regs, window[pc].a)}

\* Control enters a block only at its first instruction and leaves it only
\* after its last one.
BlocksAreStraightLine ==
  [][pc # 0 /\ pc' # 0 /\ ran' # 0 =>
       \/ pc' = pc + 1 /\ BlockOf(window, pc') = BlockOf(window, pc)
       \/ pc' \in Leaders(window) /\ pc = LastOf(window, BlockOf(window, pc))]_vars

\* Every step from one block to another, or back, is an edge of the graph, a
\* structural one unless it enters a callee; the block entered is not called an
\* entry of the window, and a jump that does not go forward is a back edge.
EveryTransferIsAnEdge ==
  [][pc # 0 /\ pc' # 0 /\ (pc' # pc + 1 \/ pc' \in Leaders(window)) =>
       /\ \E e \in Edges(window) : /\ e.source = pc /\ e.target = pc'
                                   /\ IsStructural(e.kind) \/ e.kind = "Call"
       /\ window[pc].kind # "Call" =>
            /\ pc' = 1 \/ pc' \notin EntryBlocks(window)
            /\ pc' <= pc => \E e \in BackEdges(window) : e.source = pc /\ e.target = pc']_vars

\* Unless calls enter the window, the processor only visits blocks counted as
\* reachable from the first; it only leaves the window from an exit block or by a
\* jump outside, never from a block said to fall through.
VisitsReachableBlocks ==
  /\ pc # 0 /\ (\A j \in DOMAIN window : window[j].kind = "Call" => Inside(window, j) = {}) =>
       BlockOf(window, pc) \in Reachable(window)
  /\ ran # 0 /\ pc = 0 =>
       LET l == BlockOf(window, ran)
       IN /\ Terminator(window, l) # "Fallthrough"
          /\ \/ l \in ExitBlocks(window)
             \/ window[LastOf(window, l)].to \ DOMAIN window # {}
             \/ window[LastOf(window, l)].kind = "ConditionalBranch"

\* Everything the pass says of a run of the window is true of every such run
\* (annotate_instructions): registers, flags and targets.
PassIsSound == TypeOK /\ KnownValuesSound /\ KnownFlagsSound /\ ResolvedTargetSound

\* Every run of the window is a walk over its blocks and edges, from the first
\* block through blocks that can be reached to an exit (build_basic_blocks).
RunsWalkTheGraph == []VisitsReachableBlocks /\ BlocksAreStraightLine /\ EveryTransferIsAnEdge
=============================================================================
