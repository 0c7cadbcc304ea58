---------------------------- MODULE MCEmulation ----------------------------
(***************************************************************************)
(* Short windows of both architectures: data movement, arithmetic, pair    *)
(* and overlapping stores, jumps to and into blocks, loops, and the        *)
(* instructions the emulator refuses.                                      *)
(***************************************************************************)
EXTENDS Emulation

R(name) == [k |-> "reg", name |-> name]
N(v) == [k |-> "imm", value |-> v]
M(base, disp) == [k |-> "mem", base |-> base, index |-> "", scale |-> 1, disp |-> disp]
Shifted == [k |-> "other"]
Offset(base, index, disp) == [M(base, disp) EXCEPT !.index = index]

I(op, operands) ==
  [op |-> op, kind |-> "Fallthrough", to |-> {}, operands |-> operands, page |-> {}]
J(kind, to) == [I("jump", <<>>) EXCEPT !.kind = kind, !.to = to]

Jumps == {J("Branch", {t}) : t \in {1, 2, 3}} \cup {J("ConditionalBranch", {1}), J("Return", {}), J("Trap", {})}

ArmCode ==
  {I("mov", <<R("x0"), N(200)>>), I("mov", <<R("x1"), R("x0")>>), I("movn", <<R("x0"), N(1)>>),
   I("add", <<R("x0"), R("x0"), N(100)>>), I("subs", <<R("x0"), R("x0"), R("x1")>>),
   I("ands", <<R("x1"), R("x0"), N(15)>>), I("cmp", <<R("x0"), N(3)>>),
   I("add", <<R("x0"), R("x0"), Shifted>>),
   I("asr", <<R("x0"), R("x0"), N(9)>>), I("lsl", <<R("x1"), R("x0"), R("x1")>>),
   I("udiv", <<R("x0"), R("x1"), R("x0")>>), I("msub", <<R("x1"), R("x0"), R("x1"), R("x0")>>),
   [I("adr", <<R("x1")>>) EXCEPT !.page = {60}], I("csel", <<R("x0"), R("x0"), R("x1")>>),
   I("stp", <<R("x0"), R("x1"), M("sp", -4)>>), I("str", <<R("x1"), M("sp", 0)>>),
   I("ldp", <<R("x1"), R("x0"), M("sp", -4)>>), I("ldr", <<R("x1"), M("sp", 0)>>), I("nop", <<>>),
   [I("bl", <<>>) EXCEPT !.kind = "Call", !.to = {9}]} \cup Jumps

X86Code ==
  {I("mov", <<R("rax"), N(200)>>), I("mov", <<M("rsp", 4), R("rax")>>), I("mov", <<R("rbx"), M("rsp", 0)>>),
   I("add", <<M("rsp", 0), R("rax")>>), I("xor", <<R("rax"), R("rbx")>>), I("shr", <<R("rax"), N(3)>>),
   I("or", <<R("rbx"), R("rax")>>), I("imul", <<R("rbx"), R("rax")>>), I("lea", <<R("rax"), M("rsp", -8)>>),
   I("cmp", <<R("rax"), R("rbx")>>), I("xchg", <<R("rax"), R("rbx")>>),
   I("lea", <<R("rax"), Offset("rsp", "rbx", -7)>>), I("mov", <<R("rax"), Offset("rsp", "rbx", -7)>>),
   I("mov", <<Offset("rsp", "rax", 0), R("rbx")>>)} \cup Jumps

\* Instructions that are lifted in part only, one of a window each.
ArmMisread ==
  {I("movk", <<R("x0"), N(1)>>), I("mov", <<R("x0"), N(1) @@ [lsl |-> HalfLen]>>),
   I("add", <<R("x0"), R("x0"), N(1) @@ [lsl |-> WLen]>>), I("mov", <<R("w0"), N(3)>>), I("sdiv", <<R("x0"), R("x2"), R("x1")>>),
   I("ldrb", <<R("x0"), M("sp", -4)>>), I("ldrsw", <<R("x0"), M("sp", -4)>>), I("strb", <<R("x1"), M("sp", 0)>>),
   I("str", <<R("x1"), M("sp", -4) @@ [writeback |-> TRUE]>>), I("ldr", <<R("x0"), M("sp", -4) @@ [writeback |-> TRUE]>>),
   I("str", <<R("x1"), Offset("sp", "x1", 0)>>)}
X86Misread ==
  {I("push", <<R("rbx")>>), I("pop", <<R("rax")>>), I("cqo", <<>>), I("mul", <<R("rbx")>>), I("mov", <<R("eax"), N(3)>>),
   I("mov", <<M("rsp", 1) @@ [size |-> WLen], N(3)>>)}

\* A loop of jumps alone, which no budget ends.
SpinsForever(code) ==
  LET alone == {j \in DOMAIN code : code[j].kind = "Branch" /\ (j = 1 \/ IsBoundary(code[j - 1].kind))}
  IN \E S \in SUBSET alone : S # {} /\ \A j \in S : code[j].to \subseteq S

Of(arch, code) == [arch |-> arch, code |-> code]

Stops(code) == Append(code, J("Return", {}))
StoreBoth == I("stp", <<R("x0"), R("x1"), M("sp", -4)>>)
StoreOne == I("mov", <<M("rsp", 0), R("rbx")>>)
ArmFew == {I("add", <<R("x0"), R("x0"), N(100)>>), I("str", <<R("x1"), M("sp", 0)>>),
           I("ldr", <<R("x1"), M("sp", 0)>>), I("subs", <<R("x0"), R("x0"), R("x1")>>)} \cup Jumps

TheMisread ==
  {Of("arm64", <<StoreBoth, i, J("Return", {})>>) : i \in ArmMisread}
  \cup {Of("x86_64", <<StoreOne, i, J("Return", {})>>) : i \in X86Misread}

TheWindows ==
  TheMisread \cup
  {w \in {Of("arm64", Stops(<<a, b>>)) : a \in ArmCode, b \in ArmCode}
           \cup {Of("arm64", <<StoreBoth, a, b>>) : a \in ArmFew, b \in ArmFew}
           \cup {Of("x86_64", <<StoreOne>> \o c) : c \in [1 .. 2 -> X86Code]} :
     ~SpinsForever(w.code)}

TheStarts == {("x0" :> 9 @@ "x1" :> 3 @@ "x2" :> 251 @@ "rax" :> 250 @@ "rbx" :> 7 @@ "rsp" :> 100 @@ "lr" :> 5)}
=============================================================================
