--------------------------- MODULE MCKnownValues ---------------------------
(***************************************************************************)
(* Windows for KnownValues.  DataWindows make two registers known, apply   *)
(* one instruction of every family in every role and use the result;       *)
(* FlowWindows are all the short windows over jumps, calls and moves.      *)
(***************************************************************************)
EXTENDS KnownValues

X(n) == [n |-> n, w |-> XLen]
W(n) == [n |-> n, w |-> WLen]
Z == X("zr")

RegWith(r, shift, by) == [kind |-> "reg", reg |-> r, shift |-> shift, by |-> by]
Reg(r) == RegWith(r, "none", 0)
Imm(v) == [kind |-> "imm", value |-> v]
NoMemory == [base |-> Z, index |-> Z, ext |-> "uxtx", shift |-> 0, disp |-> 0, writeback |-> FALSE]
At(base, disp, writeback) == [NoMemory EXCEPT !.base = base, !.disp = disp, !.writeback = writeback]
Table(base, index, ext, shift) ==
  [NoMemory EXCEPT !.base = base, !.index = index, !.ext = ext, !.shift = shift]

I(op, d) ==
  [op |-> op, kind |-> "Fallthrough", to |-> {}, d |-> d, d2 |-> Z, a |-> Z, b |-> Z, c |-> Z,
   o |-> Imm(0), cond |-> "eq", nzcv |-> [n |-> TRUE, z |-> FALSE, c |-> TRUE, v |-> FALSE],
   imm |-> 0, lsb |-> 0, m |-> NoMemory]

Mov(r, v) == [I("mov", r) EXCEPT !.o = Imm(v)]
Op(op, d, a, o) == [I(op, d) EXCEPT !.a = a, !.o = o]
Op3(op, d, a, b, c) == [I(op, d) EXCEPT !.a = a, !.b = b, !.c = c]
Field(op, d, a, lsb, len) == [I(op, d) EXCEPT !.a = a, !.lsb = lsb, !.imm = len]
Cond(op, d, a, b, cond) == [I(op, d) EXCEPT !.a = a, !.b = b, !.cond = cond]
Load(op, d, m) == [I(op, d) EXCEPT !.m = m]
Jump(kind, to) == [I("jump", Z) EXCEPT !.kind = kind, !.to = to]
Via(kind, r) == [Jump(kind, {}) EXCEPT !.a = r]

\* Bytes 16..39 are data, a table of code addresses and distances; 64..79 code.
TheImage == [address \in (16 .. 39) \cup (64 .. 79) |->
               IF address \in 16 .. 23 THEN (68 \div 2^(address - 16)) % 2
               ELSE IF address \in 24 .. 31 THEN (IF address < 28 THEN 0 ELSE 1)
               ELSE address % 2]
TheCode == 64 .. 79
TheExports == {20}
TheNames == TheExports \cup {240}
TheRegisters == {"0", "1", "19"}

Setups == {<<Mov(X("0"), v), Mov(X("1"), 16)>> : v \in {9, 255}}
            \cup {<<Mov(X("19"), 0), Mov(X("1"), 16)>>,
                  <<[I("adr", X("1")) EXCEPT !.imm = 60], [I("movn", X("0")) EXCEPT !.imm = 2]>>}

Tested ==
     {Op(op, d, d, Reg(r)) : op \in {"ands", "bic", "eor", "adds", "sub", "subs"},
        d \in {X("1"), W("0")}, r \in {W("0"), W("1")}}
  \cup {Op(op, X("0"), X("1"), RegWith(W("0"), ext, 2)) : op \in {"add", "subs"},
        ext \in {"uxtb", "sxtw"}}
  \cup {Op(op, W("0"), W("1"), RegWith(W("0"), "asr", 1)) : op \in {"orr", "add", "cmp", "tst", "cmn"}}
  \cup {Op("ands", Z, X("1"), Reg(X("0"))), Op("sub", X("1"), X("1"), Imm(17)), Op("adds", W("1"), W("0"), Imm(15)),
        Op("mov", X("0"), Z, Reg(X("1"))), Op("mov", W("19"), Z, Reg(W("0"))),
        Op("mvn", W("0"), Z, Reg(W("1"))), Op("negs", X("1"), Z, Reg(X("0"))),
        Op("lsl", W("0"), W("1"), Reg(W("0"))), Op("ror", X("0"), X("1"), Reg(X("0"))),
        Op("asr", W("0"), W("0"), Imm(2)), Op("sxtw", X("0"), W("0"), Imm(0)),
        [I("movk", X("0")) EXCEPT !.imm = 1, !.lsb = 2], [I("movk", W("1")) EXCEPT !.imm = 2, !.lsb = 2]}
  \cup {Op3(op, d, d, d, Z) : op \in {"mul", "mneg", "udiv", "rev", "clz", "cls"}, d \in {X("0"), W("1")}}
  \cup {Op3(op, X("0"), W("0"), W("1"), X("1")) : op \in {"smaddl", "umsubl"}}
  \cup {Op3(op, X("0"), X("0"), X("1"), X("1")) : op \in {"smulh", "sdiv", "msub", "adc", "sbcs", "extr"}}
  \cup {Field(op, d, W("1"), 1, 3) : op \in {"sbfx", "bfi", "bfxil", "sbfiz"}, d \in {W("0"), W("1")}}
  \cup {Load(op, X("0"), Table(X("1"), index, ext, 0)) : op \in {"ldr", "ldrsw", "ldrb"},
        index \in {X("0"), X("19")}, ext \in {"uxtx", "sxtw"}}
  \cup {Load(op, r, At(X("1"), 8, wb)) : op \in {"ldr", "ldrsw", "ldrsh", "str"},
        r \in {X("0"), W("0")}, wb \in BOOLEAN}
  \cup {[Load(op, X("19"), At(X("1"), 0, wb)) EXCEPT !.d2 = X("0")] :
        op \in {"ldp", "casp", "swp", "stp"}, wb \in BOOLEAN}
  \cup {[I("literal", X("0")) EXCEPT !.imm = 16], I("other", W("0")),
        Op("ldr", X("19"), Z, Imm(0)), Via("IndirectCall", X("0"))}

Used == {<<Cond("cset", W("0"), Z, Z, "hi")>>, <<Cond("cinv", W("0"), W("1"), Z, "le")>>,
         <<Cond("csneg", X("1"), X("0"), X("1"), "lt")>>,
         <<Op("add", X("0"), X("1"), Reg(X("0"))), Via("IndirectBranch", X("0"))>>,
         <<Mov(X("0"), 70), Via("IndirectBranch", X("0"))>>,
         <<[Op("ccmp", Z, X("0"), Imm(3)) EXCEPT !.cond = "ge"], Cond("csetm", W("1"), Z, Z, "ne")>>}

DataWindows == {s \o <<t>> \o u : s \in Setups, t \in Tested, u \in Used}

Flow(targets) ==
  {Mov(X("0"), 3), Mov(X("19"), 3), Op("add", W("0"), X("19"), Imm(1))}
  \cup {Jump(kind, {t}) : kind \in {"ConditionalBranch", "Branch", "Call"}, t \in targets}
  \cup {Jump("Call", {9}), Jump("Return", {}), Jump("Trap", {}), Via("IndirectBranch", X("0"))}

FlowWindows == {<<Mov(X("19"), 3)>> \o w : w \in [1 .. 3 -> Flow({1, 3, 4})]}

\* Dispatches through a table: the index register is left alone until the branch
\* or overwritten, by the load or after it, and so is the register loaded.
TableWindows ==
  {<<index, Mov(X("1"), 16), Load(op, X("0"), Table(X("1"), X(by), "uxtx", shift))>> \o between \o <<Via(kind, X("0"))>> :
     index \in {Mov(X("19"), 0), Mov(X("19"), 1), I("other", X("19")), Mov(X("0"), 2)},
     op \in {"ldr", "ldrsw"}, by \in {"0", "19"}, shift \in {0, 3},
     between \in {<<>>} \cup {<<t>> : t \in {Mov(X("19"), 1), I("other", X("19")), I("other", X("0")), Mov(X("1"), 5),
                                        Op("add", X("0"), X("1"), Reg(X("0"))), Load("str", X("1"), At(X("19"), 1, TRUE)),
                                        Jump("Call", {9}), Jump("ConditionalBranch", {1})}},
     kind \in {"IndirectBranch", "IndirectCall"}}

TheWindows == DataWindows \cup FlowWindows \cup TableWindows

\* What KnownValues_proofs supposes of the evaluated instructions, on some of the
\* register contents.
ASSUME SampleIsExact ==
  EvaluationIsExactOn([Registers -> {16, 255}], FlagChoices, {16})
=============================================================================
