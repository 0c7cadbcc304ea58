------------------------------ MODULE Lifting ------------------------------
(***************************************************************************)
(* The decompiler's first representation of a window of instructions       *)
(* (damsel-decomp/src/ir.rs, lift_arm64 and lift_x86_64): blocks of        *)
(* statements that end in a terminator.                                    *)
(*                                                                         *)
(* An instruction has its mnemonic op, its kind and direct targets `to`    *)
(* (BasicBlocks), its operands and the address `page` its reference names  *)
(* (a set with at most one).  An operand is a register, an immediate, a    *)
(* memory operand or another one ("other": a shifted register, a           *)
(* condition).  Addresses are places in the window.                        *)
(***************************************************************************)
EXTENDS BasicBlocks, SequencesExt

-----------------------------------------------------------------------------
(* Expressions and statements.                                             *)

Const(v) == [k |-> "const", value |-> v]
Reg(name) == [k |-> "reg", name |-> name]
Unknown == [k |-> "unknown"]
BinOp(op, lhs, rhs) == [k |-> "binop", op |-> op, lhs |-> lhs, rhs |-> rhs]
SelectOf(taken, other) == [k |-> "select", taken |-> taken, other |-> other]
AddrOf(base, disp) == [k |-> "addr", base |-> base, disp |-> disp]
IndexedAddr(base, index, scale, disp) ==
  [k |-> "indexed", base |-> base, index |-> index, scale |-> scale, disp |-> disp]
SegmentAddr(base, disp) == [k |-> "segment", base |-> base, disp |-> disp]

Assign(dst, e) == [k |-> "assign", dst |-> dst, e |-> e]
LoadInto(dst, address) == [k |-> "load", dst |-> dst, e |-> address]
StoreAt(address, value) == [k |-> "store", at |-> address, e |-> value]
CallTo(targets) == [k |-> "call", targets |-> targets]
Opaque == [k |-> "unknown"]

\* register_of: a set with the name, empty when the operand is no register.
RegisterOf(i, n) ==
  IF n \in DOMAIN i.operands /\ i.operands[n].k = "reg" THEN {i.operands[n].name} ELSE {}

IsMemory(i, n) == n \in DOMAIN i.operands /\ i.operands[n].k = "mem"

\* operand_expr
Operand(i, n) ==
  IF n \notin DOMAIN i.operands THEN Unknown
  ELSE LET o == i.operands[n]
       IN CASE o.k = "reg" -> Reg(o.name)
            [] o.k = "imm" -> Const(o.value)
            [] OTHER       -> Unknown

\* memory_expr, of ARM: the base and displacement of the memory operand.
ArmAddress(i) ==
  {AddrOf(i.operands[n].base, i.operands[n].disp) :
     n \in {m \in DOMAIN i.operands : IsMemory(i, m)}}

\* memory_expr_from, of x86.  No index is "".
X86Address(i, n) ==
  IF ~IsMemory(i, n) THEN {}
  ELSE LET o == i.operands[n]
       IN {IF o.base \in {"fs", "gs"} THEN SegmentAddr(o.base, o.disp)
           ELSE IF o.index = "" THEN AddrOf(o.base, o.disp)
           ELSE IndexedAddr(o.base, o.index, o.scale, o.disp)}

\* The one statement built from a set with at most one; Opaque when there is none.
OrOpaque(S) == <<IF S = {} THEN Opaque ELSE CHOOSE s \in S : TRUE>>

\* ... or none at all.
OrNothing(S) == SetToSeq(S)

\* A read, the operation and a write back, through a register no program has.
ReadModifyWrite(op, address, value) ==
  <<LoadInto("_mem", address), StoreAt(address, BinOp(op, Reg("_mem"), value))>>

-----------------------------------------------------------------------------
(* ARM.                                                                    *)

ArmBinary ==
  [add |-> "Add", adds |-> "Add", sub |-> "Sub", subs |-> "Sub", and |-> "And", ands |-> "And",
   orr |-> "Or", eor |-> "Xor", lsl |-> "Shl", lsr |-> "Shr", asr |-> "Asr", sdiv |-> "Div",
   udiv |-> "Div", fdiv |-> "Div", mul |-> "Mul", fmul |-> "Mul", fnmul |-> "Mul",
   fadd |-> "Add", fadds |-> "Add", fsub |-> "Sub", fsubs |-> "Sub"]

ArmFlags == [cmp |-> "Sub", subs |-> "Sub", cmn |-> "Add", adds |-> "Add", tst |-> "And", ands |-> "And"]

\* Mutant: the operands of the flags taken for those of the result.
ArmCompareFirst(i) ==
  LET result == BinOp(ArmFlags[i.op], Operand(i, 1), Operand(i, 2))
      written == IF i.op \in DOMAIN ArmBinary THEN RegisterOf(i, 1) ELSE {}
  IN <<Assign("flags", result)>> \o OrNothing({Assign(d, result) : d \in written})

\* Compares set the register "flags"; subs, adds and ands write it before their
\* destination.
ArmCompare(i) ==
  LET written == IF i.op \in DOMAIN ArmBinary THEN RegisterOf(i, 1) ELSE {}
      first == IF written = {} THEN 1 ELSE 2
      result == BinOp(ArmFlags[i.op], Operand(i, first), Operand(i, first + 1))
  IN <<Assign("flags", result)>> \o OrNothing({Assign(d, result) : d \in written})

\* stp and ldp: two slots, one register wide each.
PairSize == 8
ArmPair(i, Slot(_, _)) ==
  IF ArmAddress(i) = {} THEN <<Opaque>>
  ELSE LET a == CHOOSE e \in ArmAddress(i) : TRUE
       IN FlattenSeq([n \in 1 .. 2 |->
            OrNothing({Slot(r, AddrOf(a.base, a.disp + PairSize * (n - 1))) : r \in RegisterOf(i, n)})])

ArmLoads == {"ldr", "ldur", "ldrb", "ldrsb", "ldrh", "ldrsh", "ldrsw", "ldar", "ldxr"}
ArmStores == {"str", "stur", "strb", "strh", "stlr", "stxr"}

\* Data movement and memory.
ArmMove(i) ==
  CASE i.op \in {"mov", "movz", "movk", "fmov"} ->
         OrNothing({Assign(d, Operand(i, 2)) : d \in RegisterOf(i, 1)})
    [] i.op = "stp" -> ArmPair(i, LAMBDA r, a : StoreAt(a, Reg(r)))
    [] i.op = "ldp" -> ArmPair(i, LAMBDA r, a : LoadInto(r, a))
    [] i.op \in {"adr", "adrp"} -> OrOpaque({Assign(d, Const(p)) : d \in RegisterOf(i, 1), p \in i.page})
    [] i.op \in ArmLoads ->
         IF RegisterOf(i, 1) = {} THEN <<>>
         ELSE OrOpaque({LoadInto(d, a) : d \in RegisterOf(i, 1), a \in ArmAddress(i)})
    [] i.op \in ArmStores -> OrOpaque({StoreAt(a, Operand(i, 1)) : a \in ArmAddress(i)})
    [] OTHER -> <<Opaque>>

\* Conditions are not decoded; multiply-accumulate, the pointer authentication
\* hints and calls.
ArmOther(i) ==
  CASE i.op \in {"cset", "cinc"} -> OrOpaque({Assign(d, Unknown) : d \in RegisterOf(i, 1)})
    [] i.op \in {"csel", "csinc", "csinv", "csneg"} ->
         OrOpaque({Assign(d, SelectOf(Operand(i, 2), Operand(i, 3))) : d \in RegisterOf(i, 1)})
    [] i.op \in {"madd", "msub"} ->
         OrNothing({Assign(d, BinOp(IF i.op = "madd" THEN "Add" ELSE "Sub", Operand(i, 4),
                                    BinOp("Mul", Operand(i, 2), Operand(i, 3)))) : d \in RegisterOf(i, 1)})
    [] i.op = "movi" ->
         OrOpaque({Assign(d, Operand(i, 2)) :
                     d \in {r \in RegisterOf(i, 1) : 2 \in DOMAIN i.operands /\ i.operands[2].k = "imm"}})
    [] i.op \in {"paciasp", "autiasp", "bti", "nop"} -> <<Assign("_nop", Const(0))>>
    [] i.op = "blr" -> OrOpaque({CallTo({}) : r \in RegisterOf(i, 1)})
    [] i.op = "bl" -> OrOpaque({CallTo({t}) : t \in i.to})
    [] OTHER -> ArmMove(i)

\* statement_for
ArmStatements(i) ==
  IF i.op \in DOMAIN ArmBinary /\ IsMemory(i, 1)
  THEN ReadModifyWrite(ArmBinary[i.op], CHOOSE a \in X86Address(i, 1) : TRUE, Operand(i, 2))
  ELSE IF i.op \in DOMAIN ArmFlags THEN ArmCompare(i)
  ELSE IF i.op \in DOMAIN ArmBinary /\ RegisterOf(i, 1) # {}
  THEN <<Assign(CHOOSE d \in RegisterOf(i, 1) : TRUE,
                BinOp(ArmBinary[i.op], Operand(i, 2), Operand(i, 3)))>>
  ELSE ArmOther(i)

-----------------------------------------------------------------------------
(* x86-64.                                                                 *)

X86Binary == [add |-> "Add", sub |-> "Sub", and |-> "And", or |-> "Or", xor |-> "Xor",
              shl |-> "Shl", shr |-> "Shr"]
X86Flags == [cmp |-> "Sub", test |-> "And"]

\* mov, movzx, movsx, lea and the vector moves.
X86Move(i) ==
  LET from == X86Address(i, 2) IN
  CASE i.op = "movzx" -> OrOpaque({Assign(d, Operand(i, 2)) : d \in RegisterOf(i, 1)})
    [] i.op \in {"movsx", "movsxd"} ->
         OrOpaque({Assign(d, BinOp("Sub", Operand(i, 2), Const(0))) : d \in RegisterOf(i, 1)})
    [] i.op \in {"mov", "movabs"} ->
         OrOpaque({LoadInto(d, a) : d \in RegisterOf(i, 1), a \in from}
                  \cup {Assign(d, Operand(i, 2)) : d \in {r \in RegisterOf(i, 1) : from = {}}}
                  \cup {StoreAt(a, Operand(i, 2)) : a \in X86Address(i, 1)})
    [] i.op = "lea" ->
         OrOpaque(IF i.page # {} THEN {Assign(d, Const(p)) : d \in RegisterOf(i, 1), p \in i.page}
                  ELSE {Assign(d, a) : d \in RegisterOf(i, 1), a \in from})
    [] i.op \in {"movdqa", "movd"} ->
         OrOpaque({LoadInto(d, a) : d \in RegisterOf(i, 1), a \in from}
                  \cup {Assign(d, Reg(s)) : d \in RegisterOf(i, 1), s \in RegisterOf(i, 2)}
                  \cup {StoreAt(a, IF RegisterOf(i, 2) = {} THEN Const(0) ELSE Operand(i, 2)) :
                          a \in X86Address(i, 1)})
    [] i.op = "movlpd" ->
         OrOpaque({LoadInto(d, a) : d \in RegisterOf(i, 1), a \in from}
                  \cup {StoreAt(a, IF RegisterOf(i, 2) = {} THEN Const(0) ELSE Operand(i, 2)) :
                          a \in X86Address(i, 1)})
    [] OTHER -> <<Opaque>>

\* The vector and bit-scan floor set, and the instructions with fixed registers.
X86Vector(i) ==
  LET Pair(e(_, _)) == OrOpaque({Assign(d, e(d, s)) : d \in RegisterOf(i, 1), s \in RegisterOf(i, 2)})
  IN CASE i.op = "pxor" -> Pair(LAMBDA d, s : IF d = s THEN Const(0) ELSE BinOp("Xor", Reg(d), Reg(s)))
       [] i.op = "pcmpeqb" -> Pair(LAMBDA d, s : BinOp("CmpEq", Reg(d), Reg(s)))
       [] i.op = "pcmpgtb" -> Pair(LAMBDA d, s : BinOp("CmpGt", Reg(d), Reg(s)))
       [] i.op = "paddb" -> Pair(LAMBDA d, s : BinOp("Add", Reg(d), Reg(s)))
       [] i.op = "psubb" -> Pair(LAMBDA d, s : BinOp("Sub", Reg(d), Reg(s)))
       [] i.op = "por" -> Pair(LAMBDA d, s : BinOp("Or", Reg(d), Reg(s)))
       [] i.op \in {"pand", "pandn"} -> Pair(LAMBDA d, s : BinOp("And", Reg(d), Reg(s)))
       [] i.op = "ptest" ->
            OrOpaque({Assign("flags", BinOp("And", Reg(l), Reg(r))) :
                        l \in RegisterOf(i, 1), r \in RegisterOf(i, 2)})
       [] i.op \in {"pslldq", "psrldq"} ->
            OrOpaque({Assign(d, BinOp(IF i.op = "pslldq" THEN "Shl" ELSE "Shr", Reg(d), Operand(i, 2))) :
                        d \in {r \in RegisterOf(i, 1) : 2 \in DOMAIN i.operands /\ i.operands[2].k = "imm"}})
       [] i.op \in {"pmovmskb", "bsf"} ->
            OrOpaque({LoadInto(d, AddrOf(s, 0)) : d \in RegisterOf(i, 1), s \in RegisterOf(i, 2)}
                     \cup {LoadInto(d, a) : d \in {r \in RegisterOf(i, 1) : i.op = "bsf"},
                                            a \in X86Address(i, 2)})
       [] OTHER -> X86Move(i)

X86Other(i) ==
  CASE i.op \in {"call", "lcall"} ->
         OrOpaque({CallTo({t}) : t \in i.to} \cup {CallTo({}) : k \in {i.kind} \cap {"IndirectCall"}})
    \* The swap through a temporary is followed by an unknown statement.
    [] i.op = "xchg" ->
         (IF RegisterOf(i, 1) = {} \/ RegisterOf(i, 2) = {} THEN <<>>
          ELSE <<Assign("_tmp", Operand(i, 1)), Assign(i.operands[1].name, Operand(i, 2)),
                 Assign(i.operands[2].name, Reg("_tmp"))>>) \o <<Opaque>>
    [] i.op \in {"imul", "mul"} ->
         OrOpaque({Assign(d, IF Len(i.operands) >= 2 THEN BinOp("Mul", Reg(d), Operand(i, 2))
                             ELSE Reg("rax")) : d \in RegisterOf(i, 1)})
    [] i.op \in {"cdq", "cqo", "cdqe"} ->
         <<CASE i.op = "cdq" -> Assign("edx", Reg("eax")) [] i.op = "cqo" -> Assign("rdx", Reg("rax"))
             [] i.op = "cdqe" -> Assign("rax", Reg("eax"))>>
    [] i.op = "leave" -> <<Assign("rsp", Reg("rbp"))>>
    [] i.op = "movs" -> <<Assign("rdi", Reg("rsi"))>>
    [] i.op = "stos" -> <<StoreAt(AddrOf("rdi", 0), Reg("rax"))>>
    [] i.op \in {"nop", "endbr64"} -> <<Assign("_nop", Const(0))>>
    [] i.op = "push" -> OrOpaque({StoreAt(AddrOf("sp", -PairSize), Reg(r)) : r \in RegisterOf(i, 1)})
    [] i.op = "pop" -> OrOpaque({LoadInto(r, AddrOf("sp", 0)) : r \in RegisterOf(i, 1)})
    [] OTHER -> X86Vector(i)

X86Statements(i) ==
  IF i.op \in DOMAIN X86Binary /\ IsMemory(i, 1)
  THEN ReadModifyWrite(X86Binary[i.op], CHOOSE a \in X86Address(i, 1) : TRUE, Operand(i, 2))
  ELSE IF i.op \in DOMAIN X86Flags
  THEN <<Assign("flags", BinOp(X86Flags[i.op], Operand(i, 1), Operand(i, 2)))>>
  ELSE IF i.op \in DOMAIN X86Binary /\ RegisterOf(i, 1) # {}
  THEN <<Assign(CHOOSE d \in RegisterOf(i, 1) : TRUE, BinOp(X86Binary[i.op], Operand(i, 1), Operand(i, 2)))>>
  ELSE X86Other(i)

-----------------------------------------------------------------------------
(* Blocks: only an instruction that ends one starts the next, a branch     *)
(* target does not.                                                        *)

WindowEnd == [k |-> "window_end"]

\* The terminator an instruction makes, the address below it included.
TerminatorOf(i, j) ==
  CASE i.kind = "Return" -> [k |-> "return"]
    [] i.kind = "Trap" -> [k |-> "trap"]
    [] i.kind \in {"Branch", "ConditionalBranch", "IndirectBranch"} /\ i.to # {} ->
         LET target == CHOOSE t \in i.to : TRUE
         IN IF i.kind = "ConditionalBranch" THEN [k |-> "cond", op |-> i.op, taken |-> target, below |-> j + 1]
            ELSE [k |-> "branch", target |-> target]
    [] OTHER -> [k |-> "unknown"]

LiftBlocks(window, Statements(_)) ==
  LET ends == SetToSortSeq({j \in DOMAIN window : IsBoundary(window[j].kind)}, <)
      Start(n) == IF n = 1 THEN 1 ELSE ends[n - 1] + 1
      Body(first, last) == FlattenSeq([n \in 1 .. last - first + 1 |-> Statements(window[first + n - 1])])
      closed == [n \in 1 .. Len(ends) |->
                   [start |-> Start(n), statements |-> Body(Start(n), ends[n] - 1),
                    terminator |-> TerminatorOf(window[ends[n]], ends[n])]]
      rest == Body(Start(Len(ends) + 1), Len(window))
  IN IF rest # <<>> \/ (ends = <<>> /\ window # <<>>)
     THEN Append(closed, [start |-> Start(Len(ends) + 1), statements |-> rest, terminator |-> WindowEnd])
     ELSE closed

LiftArm64(window) == LiftBlocks(window, ArmStatements)
LiftX86(window) == LiftBlocks(window, X86Statements)
=============================================================================
