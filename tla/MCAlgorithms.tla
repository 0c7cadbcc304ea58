---------------------------- MODULE MCAlgorithms ----------------------------
(***************************************************************************)
(* The pure computations of the program compared with what they are meant  *)
(* to compute.  A state poses one problem: a kind and an input; each       *)
(* invariant answers the problems of its kind in both ways.                *)
(***************************************************************************)
EXTENDS Emulator, FunctionRecovery, CallGraph, ProjectDiff, FunctionMatching, MCCommands

vars == <<kind, input>>

\* Operands: every value of a small register, the ends of a wide one.
Few == {0, 1, 2, 7, 8, 9, 15, 16, 100, 127, 128, 129, 200, 254, 255}
Widths == {WLen, XLen}

\* Instructions, as in Lifting.
R(name) == [k |-> "reg", name |-> name]
N(v) == [k |-> "imm", value |-> v]
M(base, disp) == [k |-> "mem", base |-> base, index |-> "", scale |-> 1, disp |-> disp]
I(op, operands) ==
  [op |-> op, kind |-> "Fallthrough", to |-> {}, operands |-> operands, page |-> {}]
J(op, flow, to) == [I(op, <<>>) EXCEPT !.kind = flow, !.to = to]
Return == J("ret", "Return", {})

\* Straight code over two arguments and a scratch register.
Straight ==
  {I("mov", <<R("x0"), R("x1")>>), I("mov", <<R("x8"), R("w0")>>), I("mov", <<R("x0"), R("x8")>>),
   I("mov", <<R("w1"), N(3)>>), I("add", <<R("x0"), R("x0"), R("x1")>>), I("add", <<R("x8"), R("x1"), N(4)>>),
   I("str", <<R("x1"), M("sp", 0)>>), I("ldr", <<R("x8"), M("sp", 0)>>), I("str", <<R("x8"), M("sp", 8)>>),
   I("ldr", <<R("x0"), M("sp", 8)>>), I("str", <<R("x0"), M("x1", 0)>>), I("ldr", <<R("x0"), M("x1", 0)>>),
   I("subs", <<R("x8"), R("x0"), R("x1")>>)}

\* Code with jumps.
Jumping ==
  {I("add", <<R("x0"), R("x0"), N(1)>>), I("cmp", <<R("x0"), N(1)>>), J("b", "Branch", {1}), J("b", "Branch", {3}), Return}
  \cup {J("b.eq", "ConditionalBranch", {t}) : t \in 1 .. 4}

\* Calls: two at most from each of three functions, with or without taint.
Transfers == {<<>>} \cup {<<t>> : t \in [to : 1 .. 4, mask : {{}, {"x0"}}]}
             \cup {<<s, t>> : s \in [to : 1 .. 3, mask : {{}, {"x0"}}], t \in [to : 2 .. 3, mask : {{"x1"}}]}

\* Requests over two sections, the first of which ends inside a word; one word
\* at most does not decode.
WindowSections ==
  <<[name |-> "a", start |-> 2, size |-> 7, backed |-> TRUE], [name |-> "b", start |-> 10, size |-> 4, backed |-> TRUE]>>
WindowSymbols ==
  <<[name |-> "f", address |-> 2, size |-> 0, defined |-> TRUE], [name |-> "u", address |-> 4, size |-> 0, defined |-> FALSE],
    [name |-> "g", address |-> 6, size |-> 0, defined |-> TRUE], [name |-> "h", address |-> 10, size |-> 2, defined |-> TRUE],
    [name |-> "far", address |-> 30, size |-> 0, defined |-> TRUE]>>
WindowTargets ==
  [k : {"Section"}, name : {"a", "b", "none"}] \cup [k : {"Address"}, address : {2, 4, 5, 9, 12}]
  \cup [k : {"Symbol"}, name : {"f", "g", "h", "far", "none"}]
Limits == [k : {"Instructions"}, n : 0 .. 3] \cup [k : {"Bytes"}, n : 0 .. 7] \cup {Unlimited}
Ranges == {{}} \cup {{[from |-> p[1], to |-> p[2]]} : p \in {2, 4, 7} \X {2, 6, 8, 14}}

\* Images of five words in one section or two, where every function is a start
\* and the names of the first two are in the symbol table.
Sect(start, end, stub, backed) ==
  [name |-> "s", start |-> start, size |-> end - start, executable |-> TRUE, stub |-> stub, backed |-> backed]
Layouts == {<<Sect(2, 12, FALSE, TRUE)>>, <<Sect(2, 8, FALSE, TRUE), Sect(8, 12, FALSE, TRUE)>>,
            <<Sect(2, 8, FALSE, TRUE), Sect(8, 12, TRUE, TRUE)>>, <<Sect(2, 8, FALSE, TRUE), Sect(8, 12, FALSE, FALSE)>>}
Words == {[op |-> "nop", references |-> {}], [op |-> "ret", references |-> {}],
          [op |-> "bl", references |-> {[ref |-> "Call", to |-> 8]}], [op |-> "bad", references |-> {}]}
Undecoded == [op |-> "bad", references |-> {}]
ImageOf(sections, words, starts) ==
  LET kept == {n \in 1 .. 5 : words[n] # Undecoded}
  IN [sections |-> sections, code |-> [a \in {2 * n : n \in kept} |-> words[a \div 2]],
      symbols |-> <<[address |-> 2, defined |-> TRUE, text |-> TRUE, rank |-> 2],
                    [address |-> 2, defined |-> TRUE, text |-> 2 \in starts, rank |-> 1]>>,
      functionStarts |-> starts, methods |-> {0}, entry |-> {}]

\* Call graphs of four functions, or of three that may call themselves; bounds of
\* functions that may lie in each other.
Four == 1 .. 4

\* Versions of a program over a few addresses, names and shapes of code.
Versions(addresses, names, shapes) ==
  {{[address |-> a, name |-> v[a].name, shape |-> v[a].shape] : a \in {b \in addresses : v[b].there}} :
     v \in [addresses -> [there : {TRUE}, name : names, shape : shapes] \cup [there : {FALSE}, name : {0}, shape : {0}]]}

\* Codes of one or two tokens and more, and prints of functions.
Codes == Texts(1 .. 2, 2) \cup {<<1, 2, 1>>, <<1, 1, 2, 2>>}
RowsOf(codes) == [n \in DOMAIN codes |-> [address |-> n, tokens |-> codes[n]]]
Prints == [strings : {{}, {1}, {1, 2}}, constants : {{}, {1}, {2, 3}}, size : {0, 1, 4, 5, 6}, calls : {0, 1, 3}]
Known == {p \in Prints : p.calls # 3 /\ p.size \in {4, 5}}

Problems ==
  [value    |-> Few \cup Word(WLen + 1),
   straight |-> [1 .. 3 -> Straight],
   jumping  |-> [1 .. 4 -> Jumping],
   calls    |-> [1 .. 3 -> Transfers],
   window   |-> [target : WindowTargets, limit : Limits, range : Ranges, bad : {0, 2, 4, 6, 12}],
   image    |-> [sections : Layouts, words : [1 .. 5 -> Words], starts : SUBSET {2, 6, 8}],
   graph    |-> SUBSET {e \in Four \X Four : e[1] # e[2]} \cup SUBSET ((1 .. 3) \X (1 .. 3)),
   nesting  |-> {{p, q, r} : p, q, r \in (1 .. 3) \X (1 .. 5)},
   pair     |-> [left : Versions(1 .. 3, 0 .. 2, {1, 2}), right : Versions(2 .. 3, 0 .. 2, {1, 2})],
   lines    |-> [left : Texts(1 .. 3, 3), right : Texts(1 .. 3, 4)],
   versions |-> [of : [1 .. 3 -> Versions(1 .. 2, 0 .. 2, {0})],
                 changed : {{}, {<<1, 1>>}, {<<2, 1>>}, {<<2, 2>>}}],
   rows     |-> [left : Texts(Codes \ {<<>>}, 2), right : Texts(Codes \ {<<>>}, 2),
                 threshold : {[of |-> 7, over |-> 10], [of |-> 1, over |-> 2]}],
   print    |-> [of : Prints, corpus : {<<p>> : p \in Known} \cup {<<p, q>> : p \in Known, q \in {r \in Known : r.size = 4 /\ r.strings = {}}}]] @@ ImageProblems @@ CommandProblems

Init == kind = "start" /\ input = 0

\* Choose a kind of problem.
Choose == kind = "start" /\ kind' = "chosen" /\ input' \in DOMAIN Problems

\* Pose a problem of the kind.
Pose == kind = "chosen" /\ kind' = input /\ input' \in Problems[input]

\* Go back for the next one.
Done == kind \notin {"start", "chosen"} /\ kind' = "start" /\ input' = 0

Next == Choose \/ Pose \/ Done
Spec == Init /\ [][Next]_vars

\* After a comparison every condition the disassembler evaluates says what the
\* processor's would about the two operands, carries and overflows included
\* (flags_for_addition .. condition_holds).
FlagsDecideComparison ==
  kind = "value" => \A b \in Few, w \in Widths :
    LET a == input f == SubtractionFlags(a, b, w) IN
    /\ f = IsaSubtract(a, b, 1, w).flags
    /\ AdditionFlags(a, b, w) = IsaAdd(a, b, 0, w).flags
    /\ \A cond \in Conditions \ {"mi", "pl", "vs", "vc"} :
         ConditionHolds(cond, f) = IsaCondition(cond, a, b, w)
    /\ \A op \in CarryOps, c \in {0, 1} :
         CarryResult(op, a, b, c, w) =
           IF op \in {"adc", "adcs"} THEN IsaAdd(a, b, c, w) ELSE IsaSubtract(a, b, c, w)
    /\ \A op \in LogicalOps : Low(LogicalResult(op, a, b), w) = IsaLogical(op, a, b, w)

\* Shifts, rotates, lane moves and extensions put every bit where the
\* architecture puts it, in both register widths.
ShiftsMoveBits ==
  kind = "value" => \A w \in Widths, by \in 0 .. XLen - 1 :
    LET a == Low(input, w) IN
    /\ by < w => \A op \in ShiftOps :
         /\ ShiftResult(op, a, by, w) = IsaShift(op, a, by, w)
         /\ {Low(v, w) : v \in ShiftedLogical(input, op, by, w)} = {IsaShift(op, a, by, w)}
    /\ by < w => \A op \in {"lsl", "lsr", "asr"} : \A v \in ShiftedArithmetic(a, op, by, w) :
         Low(v, w) = IsaShift(op, a, by, w)
    /\ \A op \in ExtendOps :
         Low(ExtendResult(op, input), w) =
           Build(w, LAMBDA i : IF i < ExtendLen(op) THEN HasBit(input, i)
                               ELSE IsSigned(op) /\ HasBit(input, ExtendLen(op) - 1))
    /\ by % HalfLen = 0 /\ by < w => \A imm \in Word(HalfLen) :
         MoveWide("movk", imm, by, input) =
           Build(XLen, LAMBDA i : IF i \in by .. by + HalfLen - 1 THEN HasBit(imm, i - by)
                                  ELSE HasBit(input, i))

\* The bit field instructions and extr keep, move, clear and sign-extend
\* exactly the bits of the field, up to the last one of the register.
FieldsMoveBits ==
  kind = "value" => \A w \in Widths, b \in {0, 3, 9, 129, 255}, lsb \in 0 .. XLen - 1 :
    /\ \A len \in 1 .. XLen : FieldFits(lsb, len, w) =>
         /\ \A op \in {"ubfx", "sbfx"} :
              FieldExtract(op, input, lsb, len, w) = IsaField(op, input, b, lsb, len, w)
         /\ \A op \in FieldOps :
              FieldInsert(op, input, b, lsb, len, w) = IsaField(op, input, b, lsb, len, w)
    /\ lsb < w => ExtractPair(input, b, w, lsb) = IsaExtract(input, b, w, lsb)

\* Products keep the half the instruction asks for, with the right sign, and a
\* quotient is rounded towards zero; dividing by zero gives zero and the least
\* number divided by -1 wraps.
ProductsAndQuotients ==
  kind = "value" => \A b \in Few :
    LET a == input IN
    /\ \A w \in Widths :
         /\ DivideResult("udiv", a, b, w) = IsaDivide(Low(a, w), Low(b, w), w)
         /\ DivideResult("sdiv", a, b, w) = IsaDivide(Signed(a, w), Signed(b, w), w)
         /\ \A c \in {0, 5, 255} :
              /\ MultiplyResult("madd", a, b, c, w) = Low(c + a * b, w)
              /\ MultiplyResult("msub", a, b, c, w) = Low(c - a * b, w)
    /\ \A op \in HighOps :
         LET x == IF op = "umulh" THEN a ELSE Signed(a, XLen)
             y == IF op = "umulh" THEN b ELSE Signed(b, XLen)
         IN Low(x * y, 2 * XLen) = HighResult(op, a, b) * 2^XLen + Low(x * y, XLen)
    /\ Signed(LongProduct(TRUE, a, b), XLen) = Signed(a, WLen) * Signed(b, WLen)
    /\ LongProduct(FALSE, a, b) = Low(a, WLen) * Low(b, WLen)

\* Leading zeros, leading copies of the sign and the reversals agree with their
\* bit-by-bit definitions.
CountsAndReversals ==
  kind = "value" => \A w \in Widths :
    /\ LeadingZeros(input, w) = IsaClz(input, w)
    /\ LeadingSignBits(input, w) = IsaCls(input, w)
    /\ ReverseResult("rbit", input, w) = {Build(w, LAMBDA i : HasBit(input, w - 1 - i))}
    /\ ReverseResult("rev", input, w) = {IsaReverse(input, w, w)}
    /\ ReverseResult("rev16", input, w) = {IsaReverse(input, HalfLen, w)}
    /\ w = XLen => ReverseResult("rev32", input, w) = {IsaReverse(input, WLen, w)}

-----------------------------------------------------------------------------
(* Lifted functions.                                                       *)

Caller(x0, x1) == "x0" :> x0 @@ "x1" :> x1 @@ "w0" :> x0 @@ "w1" :> x1 @@ "x8" :> 0

Body(code) == LiftArm64(Append(code, Return))[1].statements

\* Whether block m runs after block n.
RunsNext(f, n, m) ==
  LET t == f[n].terminator IN
  CASE t.k = "branch" -> f[m].start = t.target
    [] t.k = "cond" -> f[m].start \in {t.taken, t.below}
    [] t.k = "window_end" -> m = n + 1
    [] OTHER -> FALSE

TransitiveClosureOf(edges) ==
  LET next(S) == S \cup {e \in {<<a[1], b[2]>> : a \in S, b \in S} : \E k \in {a[2] : a \in S} : <<e[1], k>> \in S /\ <<k, e[2]>> \in S}
  IN next(next(next(edges)))

\* The registers and memory after the statements of a block; none after an error.
AfterAll(statements, regs) ==
  FoldLeft(LAMBDA states, s : UNION {Exec(s, m, Eval) : m \in states},
           {[regs |-> regs, mem |-> Nothing]}, statements)

\* The versions of a block are one variable for each write, and reading them
\* gives what the registers held: the last version of each register ends with
\* its value and memory is the same (rename_registers, whose comment promises
\* that consecutive writes read correctly).  The code keeps that promise just
\* where no statement reads the register it writes: such a statement reads the
\* version it is about to make, which nothing has written yet, and the renamed
\* code cannot be run past it.
VersionsReadLastWrite ==
  kind = "straight" =>
    \A code \in {Body(input)} :
    LET start == New(Caller(9, 3)).regs
        selfRead == \E n \in DOMAIN code : StatementWrites(code[n]) \cap Range(StatementReads(code[n])) # {}
    IN \A renamed \in {RenameBlock(code)} :
       LET names == [n \in DOMAIN renamed.statements |-> StatementWrites(renamed.statements[n])] IN
         /\ \A n, k \in DOMAIN names : n # k => names[n] \cap names[k] = {}
         /\ (AfterAll(renamed.statements, start) = {}) = (selfRead \/ AfterAll(code, start) = {})
         /\ \A m \in AfterAll(code, start), v \in AfterAll(renamed.statements, start) :
              m.mem = v.mem /\ \A r \in DOMAIN m.regs : v.regs[Versioned(r, renamed.versions)] = m.regs[r]

\* An argument whose value changes what a run of straight code returns or
\* stores is reported to do so (summarize).  An argument register the code
\* overwrites is left out: the second walk forgets its seed.
TaintCoversInfluence ==
  kind = "straight" =>
    \A f \in {LiftArm64(Append(input, Return))}, code \in {Body(input)} :
       \A seed \in {"x0", "x1"} :
         (\A n \in DOMAIN code : \A r \in StatementWrites(code[n]) : Slot(r) # seed) =>
           \A m \in AfterAll(code, New(Caller(9, 3)).regs),
              v \in AfterAll(code, New(IF seed = "x0" THEN Caller(10, 3) ELSE Caller(9, 4)).regs) :
             /\ m.regs["x0"] # v.regs["x0"] => seed \in ReturnsTaint(f)
             /\ m.mem # v.mem => seed \in StoresTaint(f)

\* Where control can come to a block from two others that each wrote a
\* register the block reads, a merge of it is reported (build_ssa,
\* build_phi_nodes).  There is a report unless a register written more than
\* once, as the flags of two comparisons are, is read by no statement:
\* build_ssa panics on such a function.
MergesAreReported ==
  kind = "jumping" =>
    \A f \in {LiftArm64(input)} : \A report \in {SsaReport(f)} :
    LET writes(n) == UNION {StatementWrites(f[n].statements[k]) : k \in DOMAIN f[n].statements}
        reads(n) == UNION {Range(StatementReads(f[n].statements[k])) : k \in DOMAIN f[n].statements}
        times(r) == FoldSet(LAMBDA n, sum : sum + Cardinality({k \in DOMAIN f[n].statements : StatementWrites(f[n].statements[k]) = {r}}),
                            0, DOMAIN f)
        goes(n) == {m \in DOMAIN f : RunsNext(f, n, m)}
    IN /\ (report = {}) = \E r \in {"x0", "flags"} : times(r) >= 2 /\ \A n \in DOMAIN f : r \notin reads(n)
       /\ \A n \in DOMAIN f, a, b \in DOMAIN f :
         a # b /\ n \in goes(a) /\ n \in goes(b) =>
           \A r \in writes(a) \cap writes(b) :
             /\ r \in reads(n) => \A merges \in report : [block |-> n, register |-> r] \in merges
             /\ "window_end" \notin {f[a].terminator.k, f[b].terminator.k} =>
                  \E p \in PhiNodes(f) : p.block = n /\ p.register = r /\ {a, b} \subseteq p.incoming

\* Every cycle of a function has a jump reported as a loop (find_loops).
LoopsCutCycles ==
  kind = "jumping" =>
    \A f \in {LiftArm64(input)} :
    LET Kept(n, m) == RunsNext(f, n, m) /\ [from |-> n, to |-> f[m].start] \notin LoopEdges(f)
        once == {e \in (DOMAIN f) \X (DOMAIN f) : Kept(e[1], e[2])}
    IN \A closure \in {TransitiveClosureOf(once)}, n \in DOMAIN f : <<n, n>> \notin closure

\* The relation a branch is rendered with holds of the operands exactly when
\* the processor branches (resolve_condition); cmn is left out, whose b.eq is
\* rendered as equality.
ConditionIsTheBranch ==
  kind = "value" =>
    \A b \in Few, code \in DOMAIN AfterSubtraction, op \in {"cmp", "tst"} :
      \A c \in {ResolveCondition(f[1]) : f \in {LiftArm64(<<I(op, <<R("x0"), N(b)>>), J("b." \o code, "ConditionalBranch", {1})>>)}} :
      LET a == Low(input, XLen)
          v == Signed(a, XLen) w == Signed(b, XLen)
          taken == IF op = "cmp" THEN IsaCondition(code, a, b, XLen)
                   ELSE IF code = "eq" THEN And(a, b) = 0 ELSE And(a, b) # 0
      IN /\ op = "cmp" \/ code \in {"eq", "ne"} => c # Unresolved
         /\ c.k = "mask" => taken = ((And(a, b) # 0) = c.nonzero)
         /\ c.k = "rel" =>
              taken = CASE c.op = "==" -> a = b [] c.op = "!=" -> a # b
                        [] c.op = "<" -> v < w [] c.op = "<=" -> v <= w
                        [] c.op = ">" -> v > w [] c.op = ">=" -> v >= w
                        [] c.op = "<u" -> a < b [] c.op = "<=u" -> a <= b
                        [] c.op = ">u" -> a > b [] c.op = ">=u" -> a >= b

\* A path between two functions is found exactly when calls that carry taint
\* lead there; its hops follow such calls, and no shorter path exists (path).
PathFoundIffReachable ==
  kind = "calls" =>
    \A source, sink \in 1 .. 3 :
      LET carried == {e \in (1 .. 3) \X (1 .. 3) :
                        \E n \in DOMAIN input[e[1]] : input[e[1]][n].to = e[2] /\ input[e[1]][n].mask # {}}
          Reached(k) == IF k = 1 THEN {e[2] : e \in {c \in carried : c[1] = source}}
                        ELSE UNION {{d[2] : d \in {c \in carried : c[1] = e[2]}} :
                                      e \in {c \in carried : c[1] = source}}
          length == CASE source = sink -> {0} [] source # sink /\ sink \in Reached(1) -> {1}
                      [] source # sink /\ sink \notin Reached(1) /\ sink \in Reached(2) -> {2}
                      [] OTHER -> {}
      IN {Len(p) : p \in Path(input, source, sink)} = length
         /\ \A p \in Path(input, source, sink) :
              /\ Range(p) \subseteq carried
              /\ p # <<>> => p[1][1] = source /\ p[Len(p)][2] = sink
              /\ \A n \in 1 .. Len(p) - 1 : p[n][2] = p[n + 1][1]

-----------------------------------------------------------------------------
(* Images.                                                                 *)

WindowImage(bad) ==
  [sections |-> WindowSections, symbols |-> WindowSymbols, code |-> [a \in {2, 4, 6, 10, 12} \ {bad} |-> "word"]]

\* The addresses a request asks for, from `first` and before `last`.
Asked(request) ==
  LET t == request.target
      from == CASE t.k = "Section" -> IF t.name = "a" THEN 2 ELSE 10
                [] t.k = "Address" -> t.address
                [] t.k = "Symbol" -> CASE t.name = "f" -> 2 [] t.name = "g" -> 6 [] OTHER -> 10
      to == CASE t.k = "Section" -> IF t.name = "a" THEN 9 ELSE 14
              [] t.k = "Address" -> IF t.address < 9 THEN 9 ELSE 14
              [] t.k = "Symbol" -> CASE t.name = "f" -> 6 [] t.name = "g" -> 9 [] OTHER -> 12
  IN [first |-> Max({from} \cup {r.from : r \in request.range}),
      last |-> Min({to, from + Allowed(request.limit, to - from)} \cup {r.to : r \in request.range})]

\* A request decodes the words it asks for and nothing else: no word outside
\* the target's section, past the next symbol, the limit or the range, and
\* every word up to the first that does not decode; the limit counts from the
\* target's start (resolve_disassembly_target_v2).  Decoding on from where a
\* limited request ended gives what the unlimited one gives.
DecodesWhatWasAsked ==
  kind = "window" =>
    LET image == WindowImage(input.bad)
        a == Asked(input)
        whole(n) == (n - a.first) % WordSize = 0
    IN \A d \in Disassemble(image, input) :
         /\ Range(d.instructions) =
              {n \in a.first .. a.last - WordSize :
                 whole(n) /\ \A m \in a.first .. n : whole(m) => m \in DOMAIN image.code}
         /\ input.target.k = "Address" /\ input.range = {} =>
              \A all \in Disassemble(image, [input EXCEPT !.limit = Unlimited]),
                 rest \in Disassemble(image, [input EXCEPT !.limit = Unlimited, !.target.address = d.end]) :
                   all.instructions = d.instructions \o rest.instructions

\* The reason a request gives for stopping is what stopped it: a limit that was
\* used up, a word that does not decode or is not all there, the range, or the
\* target's end (determine_stop_reason).  It is another in these cases and no
\* other: with a byte limit, in a window cut short or given by a range, a word
\* that does not decode is called the limit; and the target's end is called the
\* range's whenever there is a range.
StopReasonIsTrue ==
  kind = "window" =>
    LET a == Asked(input)
        whole == Asked([input EXCEPT !.limit = Unlimited, !.range = {}])
        image == WindowImage(input.bad)
    IN \A d \in Disassemble(image, input) :
         LET Past(x) == d.end + WordSize > x
             halted == d.end < a.last /\ (d.end \notin DOMAIN image.code \/ Past(a.last))
             reasons == {r \in {"InstructionLimitReached", "ByteLimitReached", "WindowClipped",
                                "TargetRangeEnd", "DecodeHalt", "InputExhausted"} :
               CASE r = "InstructionLimitReached" -> input.limit.k = "Instructions" /\ Len(d.instructions) >= input.limit.n
                 [] r = "ByteLimitReached" -> input.limit.k = "Bytes" /\ Past(whole.first + input.limit.n)
                 [] r = "WindowClipped" -> Past(a.last) /\ a.last < whole.last
                 [] r = "TargetRangeEnd" -> Past(whole.last)
                 [] r = "DecodeHalt" -> halted
                 [] r = "InputExhausted" -> a.first >= a.last}
             misnamed == \/ /\ d.stop = "ByteLimitReached" /\ input.limit.k = "Bytes" /\ halted
                            /\ (a.last < whole.last \/ input.range # {}) /\ ~ Past(whole.first + input.limit.n)
                         \/ d.stop = "WindowClipped" /\ input.range # {} /\ a.last = whole.last
         IN (d.stop \in reasons) = ~ misnamed

Executable(image, a) == SectionEnd(image, a) # {}

\* The bounds of an image's functions are where its code says: from the function
\* to the first return or trap before the next function or the section's end; no
\* problem is reported (recover_functions).  The chunk a function was decoded
\* with shows in these cases and no other: behind a word of the chunk that does
\* not decode a return is not seen, so that the bound goes on to the next
\* function; a function that starts where the section of the chunk ends has an
\* empty bound, or none.
BoundsFollowTheCode ==
  kind = "image" =>
    LET image == ImageOf(input.sections, input.words, input.starts) IN
    \A facts \in Analyze(image) :
      LET bounds == {f \in facts : f.kind = "function_bound"}
          functions == {a \in {f.at : f \in {x \in facts : x.kind = "seed"}} : Executable(image, a)}
                       \cup CallTargets(image, facts)
          limit(a) == Min(SectionEnd(image, a) \cup {b \in functions : b > a})
          decodes(from, to) == \A n \in from \div 2 .. to \div 2 : 2 * n \in DOMAIN image.code
          stops(a) == {b \in DOMAIN image.code : /\ a <= b /\ b < limit(a) /\ image.code[b].op = "ret"
                                               /\ decodes(a, b)}
          end(a) == IF stops(a) = {} THEN limit(a) ELSE Min(stops(a)) + WordSize
          readable(a) == \A s \in Containing(image, a) : s.backed
          Expected(a, chunk) ==
            CASE ~ readable(chunk.start) -> {}
              [] readable(chunk.start) /\ chunk.hardEnd <= a -> {a}
              [] readable(chunk.start) /\ a < chunk.hardEnd ->
                   IF decodes(chunk.start, a) THEN {end(a)}
                   ELSE IF decodes(chunk.start, chunk.start) THEN {limit(a)}
                   ELSE IF decodes(a, a) THEN {end(a)} ELSE {}
          work == Ascending(functions)
      IN /\ \A chunk \in Range(Chunks(image, work)) : \A n \in chunk.first .. chunk.next - 1 :
               {b.to : b \in {c \in bounds : c.at = work[n]}} = Expected(work[n], chunk)
         /\ \A b \in bounds : b.at \in functions
         /\ \A b, c \in bounds : b.at < c.at => b.to <= c.at
         /\ \A f \in facts : f.kind # "function_problem"

\* A call in the code of a function is an edge of the call graph, from the
\* function it is in to the one it calls, and the graph has no other; its
\* functions are those that have code and those that are called
\* (harvest_xrefs, from_facts).  The calls found are those of the chunks of the
\* functions the image names: not those before the first such function of a
\* section, and none behind a chunk's first word that does not decode.
CallsAreEdges ==
  kind = "image" =>
    LET image == ImageOf(input.sections, input.words, input.starts) IN
    \A facts \in Analyze(image) :
      LET graph == FromFacts(facts)
          bounds == {f \in facts : f.kind = "function_bound"}
          named == {f.at : f \in {x \in facts : x.kind = "seed" /\ x.tag # "call_target"}}
          found == {a \in DOMAIN image.code :
                      /\ image.code[a].op = "bl"
                      /\ \E chunk \in Range(Chunks(image, Ascending(named))) :
                           /\ chunk.start <= a /\ a < chunk.end
                           /\ \A n \in chunk.start \div 2 .. a \div 2 : 2 * n \in DOMAIN image.code}
      IN /\ graph.edges = {<<b.at, 8>> : b \in {c \in bounds : \E a \in found : c.at <= a /\ a < c.to}}
         /\ graph.nodes = {b.at : b \in {c \in bounds : c.at < c.to}} \cup {e[2] : e \in graph.edges}

\* A call belongs to the function whose bound it lies in, the innermost where one
\* bound lies in another, and to none when it lies in none (from_facts).  It also
\* belongs to none when a bound that starts inside the innermost one has ended
\* before it.
CallersOwnTheirCalls ==
  kind = "nesting" =>
    LET facts == {[kind |-> "function_bound", at |-> b[1], to |-> b[2]] : b \in input}
                 \cup {[kind |-> "xref", ref |-> "call", at |-> a, to |-> 9] : a \in Four}
        around(a) == {b \in input : b[1] <= a /\ a < b[2]}
        ended(a) == {b \in input : b[1] < b[2] /\ b[2] <= a}
        inner(a) == Max({b[1] : b \in around(a)})
        owners == [a \in Four |-> IF around(a) = {} \/ \E b \in ended(a) : b[1] > inner(a) THEN {} ELSE {inner(a)}]
    IN FromFacts(facts).edges = UNION {owners[a] \X {9} : a \in Four}

\* The call path found is a path, is found when there is one and none is
\* shorter; what is reachable is what has a path of a call or more, but for the
\* function itself, which is never said to be reachable, even on a cycle (path,
\* reachable).
CallPathIsShortest ==
  kind = "graph" =>
    LET graph == [nodes |-> Four, edges |-> input] IN
    \A from, to \in Four :
      LET Within[n \in 0 .. 3] ==
            IF n = 0 THEN {from} ELSE LET S == Within[n - 1] IN S \cup UNION {Callees(graph, a) : a \in S}
          distance == {n \in 0 .. 3 : to \in Within[n]}
          called == \E a \in Within[3] : <<a, to>> \in input
      IN /\ {Len(p) - 1 : p \in CallPath(graph, from, to)} = (IF distance = {} THEN {} ELSE {Min(distance)})
         /\ \A p \in CallPath(graph, from, to) :
              p[1] = from /\ p[Len(p)] = to /\ \A n \in 1 .. Len(p) - 1 : <<p[n], p[n + 1]>> \in input
         /\ (to \in ReachableFrom(graph, from)) = (called /\ to # from)

-----------------------------------------------------------------------------
(* Versions.                                                               *)

NamesDiffer(version) == \A f, g \in version : f # g /\ f.name # 0 => f.name # g.name
ShapesDiffer(version) == \A f, g \in version : f # g => f.shape # g.shape

\* Comparing two versions leaves no pair out: nothing is both removed and added
\* at one address, under one name or, unless several have it, with one shape; a
\* shape several functions have is not guessed at; one function is matched to
\* one, and comparing the versions the other way round gives the same pairs
\* (diff_functions_with_shapes).  Versions in which two functions have a name, or
\* two of the older one have a shape, are left out where they give more pairs.
DiffAccountsForAll ==
  kind = "pair" =>
    LET left == input.left right == input.right
        d == DiffFunctions(left, right)
        shape(a) == {f.shape : f \in {g \in right : g.address = a}}
        back == DiffFunctions(right, left)
    IN /\ \A f \in d.removed, g \in d.added :
            /\ f.address # g.address
            /\ f.name = 0 \/ f.name # g.name \/ ~ NamesDiffer(left)
            /\ f.shape = g.shape => \E h \in d.added \ {g} : h.shape = g.shape
       /\ \A p \in {q \in d.matched : q.strategy = "Shape"} :
            \A g \in d.added : {g.shape} # shape(p.right)
       /\ NamesDiffer(left) /\ ShapesDiffer(left) => \A p, q \in d.matched : (p.left = q.left) = (p.right = q.right)
       /\ (\A v \in {left, right} : NamesDiffer(v) /\ ShapesDiffer(v)) =>
            {<<p.left, p.right>> : p \in d.matched} = {<<p.right, p.left>> : p \in back.matched}

Subsequences(s) == FoldLeft(LAMBDA found, x : found \cup {Append(t, x) : t \in found}, {<<>>}, s)
TextOf(diff, kinds) ==
  LET kept == SelectSeq(diff, LAMBDA l : l.kind \in kinds) IN [n \in DOMAIN kept |-> kept[n].text]

\* Without its added lines a difference is the older text and without its
\* removed lines the newer one, and no difference keeps more lines (diff_lines).
LineDiffReplays ==
  kind = "lines" =>
    LET diff == DiffLines(input.left, input.right) IN
    /\ TextOf(diff, {"same", "remove"}) = input.left
    /\ TextOf(diff, {"same", "add"}) = input.right
    /\ Len(TextOf(diff, {"same"})) =
         Max({Len(s) : s \in Subsequences(input.left) \cap Subsequences(input.right)})

\* Every function of every version is in one history, at its address there, and
\* the marks of a history say where it begins, changes and ends
\* (build_timeline, timeline_text).  Left out are the functions that only the
\* first version has, names that two functions have, that come back or that a
\* function gets or loses at its address, and the changes of a function that the
\* first version does not have, whose marks come a version late.
TimelineTracksVersions ==
  kind = "versions" =>
    LET v == input.of
        interval(n) == DiffFunctions(v[n], v[n + 1])
        histories == BuildTimeline([n \in 1 .. 2 |->
                       [matched |-> interval(n).matched, added |-> interval(n).added,
                        changed |-> {<<p.left, p.right>> : p \in {q \in interval(n).matched : <<n, q.left>> \in input.changed}}]])
        all == {histories[id] : id \in DOMAIN histories}
        known(n) == {Identity(f.name, f.address) : f \in v[n]}
        named(n) == \A f \in v[n], g \in v[n + 1] : f.address = g.address => (f.name = 0) = (g.name = 0)
    IN (\A n \in 1 .. 3 : NamesDiffer(v[n])) /\ named(1) /\ named(2) /\ known(1) \cap known(3) \subseteq known(2) =>
       /\ \A n \in 1 .. 3, f \in UNION Range(v) :
            f \in v[n] /\ (n = 1 => f.address \in Lefts(interval(1).matched)) =>
              Cardinality({h \in all : h.at[n] = f.address}) = 1
       /\ \A h \in all, n \in 1 .. 3 :
            LET here == h.at[n] # 0 before == n > 1 /\ h.at[n - 1] # 0 IN
            /\ (Marker(h, n) = "+") = (here /\ \A m \in 1 .. n - 1 : h.at[m] = 0)
            /\ (Marker(h, n) = "x") = (before /\ ~ here)
            /\ (Marker(h, n) = "-") = ~ (before \/ here)
            /\ h.first = 1 /\ before /\ here =>
                 (Marker(h, n) = "c") = (<<n - 1, h.at[n - 1]>> \in input.changed)

\* Functions are paired one to one; two programs share as many functions of a
\* code as the one with fewer has; no pair is less alike than the threshold, and
\* no two functions are more alike than both are to their partners, if any
\* (match_projects_tiered).
MatchesAreOneToOne ==
  kind = "rows" =>
    LET left == RowsOf(input.left) right == RowsOf(input.right)
        found == MatchTiered(left, right, input.threshold)
        pairs == {<<p.left, p.right>> : p \in found.exact \cup found.fuzzy}
        alike(i, j) == Similarity(input.left[i], input.right[j])
        better(i, j, p) == ~ AtLeast(alike(p[1], p[2]), alike(i, j))
    IN /\ \A p, q \in pairs : (p[1] = q[1]) = (p[2] = q[2])
       /\ Cardinality(found.exact) + Cardinality(found.fuzzy) = Cardinality(pairs)
       /\ \A c \in Codes \ {<<>>} :
            Cardinality({p \in pairs : input.left[p[1]] = c /\ input.right[p[2]] = c})
              = Min({Cardinality({i \in DOMAIN s : s[i] = c}) : s \in {input.left, input.right}})
       /\ \A p \in pairs : AtLeast(alike(p[1], p[2]), input.threshold)
       /\ \A i \in DOMAIN left, j \in DOMAIN right :
            AtLeast(alike(i, j), input.threshold) =>
              \E p \in pairs : (p[1] = i \/ p[2] = j) /\ ~ better(i, j, p)

\* At the threshold the command uses unless told otherwise, a function is named
\* after a known one only on evidence, and one that shares strings, constants and
\* size with a known function is (find_reuse_report, handle_identify).
ConfidentMatchesHaveEvidence ==
  kind = "print" =>
    \A report \in {FindReuseReport(input.of, input.corpus, Hundredths(70))} :
    LET corpus == input.corpus
    IN /\ \A n \in report.matches : report.evidence[n] # {}
       /\ report.matches \cap report.candidates = {}
       /\ \A n \in DOMAIN corpus :
            corpus[n].strings \cup corpus[n].constants # {} /\ corpus[n] = input.of => n \in report.matches

-----------------------------------------------------------------------------
(* What each part of the program promises.                                 *)

\* What the disassembler computes about values, flags and conditions is what the
\* processor would.
ValuesAreTheProcessors ==
  /\ FlagsDecideComparison
  /\ ShiftsMoveBits
  /\ FieldsMoveBits
  /\ ProductsAndQuotients
  /\ CountsAndReversals
  /\ ConditionIsTheBranch

\* What the decompiler says of versions, merges, loops and taint covers every run
\* of the function.
DecompiledCodeIsTheCode ==
  /\ VersionsReadLastWrite
  /\ TaintCoversInfluence
  /\ MergesAreReported
  /\ LoopsCutCycles
  /\ PathFoundIffReachable

\* Requests, functions, calls and call paths are where the code is.
FunctionsFollowTheCode ==
  /\ DecodesWhatWasAsked
  /\ StopReasonIsTrue
  /\ BoundsFollowTheCode
  /\ CallsAreEdges
  /\ CallersOwnTheirCalls
  /\ CallPathIsShortest
  /\ FramesAreFunctions
  /\ ElfBoundsFollowTheCode
  /\ CountsAddUp

\* Comparing versions, projects and corpora accounts for every function, once.
VersionsAreAccountedFor ==
  /\ DiffAccountsForAll
  /\ LineDiffReplays
  /\ TimelineTracksVersions
  /\ MatchesAreOneToOne
  /\ ConfidentMatchesHaveEvidence

\* Fixups, imports, stubs, symbols, relocations and classes are those of the file.
FilesAreRead ==
  /\ FixupsAreTheChains
  /\ ImportsAreRead
  /\ FunctionStartsAreDeltas
  /\ BestSliceIsRead
  /\ LoadingIsTheSlice
  /\ ImportsAreMerged
  /\ StubsNameTheirImport
  /\ DynamicSymbolsAreRead
  /\ RelocationsNameTheirSymbol
  /\ ClassesAreRead
  /\ CategoryMethodsAreKept
  /\ SwiftRecordsAreRead
  /\ SwiftFieldsAreRead
  /\ SwiftSymbolsReadBack
  /\ ImportsAreAttributed
  /\ ClassesAreRecognised
  /\ MovingChangesNothing

\* Commands read what they were asked to, name it as the file does, and say the
\* same as the other interfaces.
CommandsAnswerAlike ==
  /\ CommandReadsItsWindow
  /\ CommandsMeanOneFunction
  /\ AssertionsNameTheirFunction
  /\ BindingsAreDeclared
  /\ RefiningSettles
  /\ QueriesAgree
  /\ TransfersSettle
  /\ ExportedFunctionsAreKnown
  /\ ListsAgree
  /\ DyldViewKeepsLinks
  /\ OwnersAreShownWhole
  /\ PagesReadTheSection
  /\ SwiftNamesAreClear
  /\ MethodKindRefines
  /\ SearchShowsTheBest
  /\ InterfacesAgree
  /\ ReferencesNameTheirFunction
  /\ StringsAreListed
  /\ SummariesAgree
  /\ BatchKeepsTheLast

\* Lookups, imports, providers and links of a shared cache tell one story.
CacheAnswersAgree ==
  /\ LookupFindsTheNearest
  /\ SymbolsResolveBothWays
  /\ RelationsAgree
  /\ LinksNameAProvider
  /\ DependenciesAreCounted
  /\ SessionsFollowTheFiles
  /\ AddressesLeadBack
  /\ RelationsAreShownWhole
  /\ ImagesAnswerAlone
  /\ ProjectedImagesAreWhole
=============================================================================
