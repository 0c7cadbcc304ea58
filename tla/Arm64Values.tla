---------------------------- MODULE Arm64Values ----------------------------
(***************************************************************************)
(* The arithmetic by which the disassembler follows constants through      *)
(* registers (damsel-macho/src/disasm.rs, the synthesize_*_value family):  *)
(* what one ARM64 data-processing instruction computes from known          *)
(* operands.                                                               *)
(*                                                                         *)
(* A value is the number a u64 holds.  The widths are constants so that    *)
(* TLC can try every operand: XLen stands for 64, WLen for 32, HalfLen for *)
(* 16 and ByteLen for 8.  A result that may be unknown is a set with at    *)
(* most one element.                                                       *)
(***************************************************************************)
EXTENDS Integers, FiniteSets

CONSTANTS XLen, WLen, HalfLen, ByteLen

ASSUME WidthsAssumption ==
  /\ ByteLen \in Nat \ {0}
  /\ HalfLen = 2 * ByteLen /\ WLen = 2 * HalfLen /\ XLen = 2 * WLen

Word(w) == 0 .. 2^w - 1

\* normalize_value_for_width and normalize_value_for_write.
Low(v, w) == v % 2^w

\* The two's complement reading of the low w bits (signed_value_for_width).
Signed(v, w) == LET u == Low(v, w) IN IF u < 2^(w - 1) THEN u ELSE u - 2^w

\* low_bit_mask
Mask(w) == 2^w - 1

BitsOf == [v \in Word(XLen) |-> {i \in 0 .. XLen - 1 : (v \div 2^i) % 2 = 1}]
NumOf == [B \in SUBSET (0 .. XLen - 1) |-> CHOOSE v \in Word(XLen) : BitsOf[v] = B]

And(a, b) == NumOf[BitsOf[a] \cap BitsOf[b]]
Or(a, b) == NumOf[BitsOf[a] \cup BitsOf[b]]
Xor(a, b) == Or(a, b) - And(a, b)
Not(a) == Mask(XLen) - a
ShiftLeft(v, by) == Low(v * 2^by, XLen)
ShiftRight(v, by) == v \div 2^by
HasBit(v, i) == i \in BitsOf[v]

-----------------------------------------------------------------------------
(* Moves and logic.                                                        *)

\* movz, movn, movk: one 16-bit lane; movk keeps the others.
MoveWide(op, imm, shift, previous) ==
  LET lane == ShiftLeft(Mask(HalfLen), shift)
      put  == And(ShiftLeft(imm, shift), lane)
  IN CASE op = "movz" -> put
       [] op = "movn" -> Not(put)
       [] op = "movk" -> Or(And(previous, Not(lane)), put)

LogicalOps == {"and", "ands", "orr", "eor", "bic", "bics", "orn", "eon"}

LogicalResult(op, a, b) ==
  CASE op \in {"and", "ands"} -> And(a, b)
    [] op = "orr"             -> Or(a, b)
    [] op = "eor"             -> Xor(a, b)
    [] op \in {"bic", "bics"} -> And(a, Not(b))
    [] op = "orn"             -> Or(a, Not(b))
    [] op = "eon"             -> Xor(a, Not(b))

ArithmeticShiftRight(v, w, by) == Low(Signed(v, w) \div 2^by, XLen)

RotateRight(v, w, by) ==
  LET u == Low(v, w) IN Low(u \div 2^by + u * 2^(w - by), w)

ShiftOps == {"lsl", "lsr", "asr", "ror"}

\* lsl, lsr, asr and ror by a known amount, into a register of width w.
ShiftResult(op, v, by, w) ==
  Low(CASE op = "lsl" -> ShiftLeft(v, by)
        [] op = "lsr" -> ShiftRight(v, by)
        [] op = "asr" -> ArithmeticShiftRight(v, w, by)
        [] op = "ror" -> RotateRight(v, w, by), w)

\* The shifted operand of a logical instruction.
ShiftedLogical(v, op, by, w) ==
  IF by >= w THEN {}
  ELSE LET u == Low(v, w)
       IN {CASE op = "lsl" -> ShiftLeft(u, by)
             [] op = "lsr" -> ShiftRight(u, by)
             [] op = "asr" -> ArithmeticShiftRight(u, w, by)
             [] op = "ror" -> RotateRight(u, w, by)}

-----------------------------------------------------------------------------
(* Addition and subtraction.  Register forms use checked 64-bit            *)
(* arithmetic: a sum that leaves 0 .. 2^64-1 is unknown.                   *)

ExtendOps == {"uxtb", "uxth", "uxtw", "uxtx", "sxtb", "sxth", "sxtw", "sxtx"}

ExtendLen(op) == CASE op \in {"uxtb", "sxtb"} -> ByteLen
                   [] op \in {"uxth", "sxth"} -> HalfLen
                   [] op \in {"uxtw", "sxtw"} -> WLen
                   [] op \in {"uxtx", "sxtx"} -> XLen

IsSigned(op) == op \in {"sxtb", "sxth", "sxtw", "sxtx"}

\* uxtb .. sxtw as instructions (extend_register_alias_value).
ExtendResult(op, v) == IF IsSigned(op) THEN Low(Signed(v, ExtendLen(op)), XLen)
                                       ELSE Low(v, ExtendLen(op))

\* The operand of add or sub: an integer, negative for a negative i64.
ShiftedArithmetic(v, op, by, w) ==
  CASE op = "none" -> {v}
    [] op \in {"lsl", "lsr", "asr"} ->
         IF by >= w THEN {}
         ELSE {CASE op = "lsl" -> ShiftLeft(v, by)
                 [] op = "lsr" -> ShiftRight(v, by)
                 [] op = "asr" -> Signed(v, w) \div 2^by}
    [] op \in ExtendOps ->
         IF by > 4 THEN {}
         ELSE IF IsSigned(op)
              THEN {Signed(v, ExtendLen(op)) * 2^by}
                     \cap (-(2^(XLen - 1)) .. 2^(XLen - 1) - 1)
              ELSE {ShiftLeft(Low(v, ExtendLen(op)), by)}
    [] OTHER -> {}

\* add_signed and the checked additions.
AddChecked(base, delta) == {base + delta} \cap Word(XLen)

\* checked_neg refuses the least i64.
SubChecked(base, operand) ==
  IF operand = -(2^(XLen - 1)) THEN {} ELSE AddChecked(base, -operand)

\* Mutant: the overflow test of addition used for subtraction.
SubtractionFlagsAsAddition(lhs, rhs, w) ==
  LET result == Low(lhs - rhs, w)
  IN [n |-> HasBit(result, w - 1), z |-> result = 0, c |-> lhs >= rhs,
      v |-> HasBit(And(Xor(lhs, result), Xor(rhs, result)), w - 1)]

\* flags_for_result
ResultFlags(v, w, c, o) ==
  [n |-> HasBit(Low(v, w), w - 1), z |-> Low(v, w) = 0, c |-> c, v |-> o]

\* add_with_carry: the sum and its flags.
AddWithCarry(a, b, carry, w) ==
  LET lhs == Low(a, w)
      rhs == Low(b, w)
      sum == lhs + rhs + carry
      result == Low(sum, w)
  IN [value |-> result,
      flags |-> ResultFlags(result, w, sum > Mask(w),
                            HasBit(And(Xor(lhs, result), Xor(rhs, result)), w - 1))]

AdditionFlags(a, b, w) == AddWithCarry(a, b, 0, w).flags

SubtractionFlags(a, b, w) ==
  LET lhs == Low(a, w)
      rhs == Low(b, w)
      result == Low(lhs - rhs, w)
  IN ResultFlags(result, w, lhs >= rhs,
                 HasBit(And(Xor(lhs, rhs), Xor(lhs, result)), w - 1))

LogicalFlags(v, w) == ResultFlags(v, w, FALSE, FALSE)

\* adc adds rhs, sbc and ngc add its complement.
CarryOps == {"adc", "adcs", "sbc", "sbcs", "ngc", "ngcs"}
CarryResult(op, a, b, carry, w) ==
  IF op \in {"adc", "adcs"} THEN AddWithCarry(a, b, carry, w)
  ELSE AddWithCarry(a, And(Not(b), Mask(w)), carry, w)

Conditions == {"eq", "ne", "hs", "lo", "mi", "pl", "vs", "vc", "hi", "ls",
               "ge", "lt", "gt", "le", "al"}

ConditionHolds(cond, f) ==
  CASE cond = "eq" -> f.z
    [] cond = "ne" -> ~f.z
    [] cond = "hs" -> f.c
    [] cond = "lo" -> ~f.c
    [] cond = "mi" -> f.n
    [] cond = "pl" -> ~f.n
    [] cond = "vs" -> f.v
    [] cond = "vc" -> ~f.v
    [] cond = "hi" -> f.c /\ ~f.z
    [] cond = "ls" -> ~f.c \/ f.z
    [] cond = "ge" -> f.n = f.v
    [] cond = "lt" -> f.n # f.v
    [] cond = "gt" -> ~f.z /\ f.n = f.v
    [] cond = "le" -> f.z \/ f.n # f.v
    [] cond = "al" -> TRUE

\* The value csel, csinc, csinv and csneg take when the condition fails; cinc,
\* cinv and cneg take it when the condition holds.
SelectOps == {"csel", "csinc", "csinv", "csneg"}
SelectOther(op, v, w) ==
  Low(CASE op = "csel"             -> v
        [] op \in {"csinc", "cinc"} -> Low(v + 1, XLen)
        [] op \in {"csinv", "cinv"} -> Not(v)
        [] op \in {"csneg", "cneg"} -> Low(-v, XLen), w)

-----------------------------------------------------------------------------
(* Products and quotients.                                                 *)

MultiplyOps == {"mul", "madd", "msub", "mneg"}
MultiplyResult(op, a, b, addend, w) ==
  LET product == Low(a, w) * Low(b, w)
  IN Low(CASE op = "mul"  -> product
           [] op = "madd" -> product + Low(addend, w)
           [] op = "msub" -> Low(addend, w) - product
           [] op = "mneg" -> -product, w)

LongProduct(signed, a, b) ==
  Low(IF signed THEN Signed(a, WLen) * Signed(b, WLen)
                ELSE Low(a, WLen) * Low(b, WLen), XLen)

LongOps == {"umull", "smull", "umaddl", "smaddl", "umsubl", "smsubl", "umnegl", "smnegl"}
LongResult(op, a, b, addend) ==
  LET product == LongProduct(op \in {"smull", "smaddl", "smsubl", "smnegl"}, a, b)
  IN Low(CASE op \in {"umull", "smull"}   -> product
           [] op \in {"umaddl", "smaddl"} -> addend + product
           [] op \in {"umsubl", "smsubl"} -> addend - product
           [] op \in {"umnegl", "smnegl"} -> -product, XLen)

HighOps == {"umulh", "smulh"}
HighResult(op, a, b) ==
  Low((IF op = "umulh" THEN a * b ELSE Signed(a, XLen) * Signed(b, XLen)) \div 2^XLen,
      XLen)

\* Division truncates towards zero; by zero it gives zero.
Magnitude(x) == IF x < 0 THEN -x ELSE x

DivideOps == {"udiv", "sdiv"}
DivideResult(op, a, b, w) ==
  LET dividend == IF op = "udiv" THEN Low(a, w) ELSE Signed(a, w)
      divisor  == IF op = "udiv" THEN Low(b, w) ELSE Signed(b, w)
      size     == Magnitude(dividend) \div Magnitude(divisor)
  IN IF divisor = 0 THEN 0
     ELSE Low(IF (dividend < 0) = (divisor < 0) THEN size ELSE -size, w)

-----------------------------------------------------------------------------
(* Counts, fields and reversals.                                           *)

LeadingZeros(v, w) ==
  LET u == Low(v, w) IN CHOOSE n \in 0 .. w : u < 2^(w - n) /\ (n = w \/ u >= 2^(w - n - 1))

LeadingSignBits(v, w) ==
  LET u == Low(v, w)
      n == LeadingZeros(IF HasBit(u, w - 1) THEN And(Not(u), Mask(w)) ELSE u, w)
  IN IF n = 0 THEN 0 ELSE n - 1

\* extr: the low half of high:low shifted right.
ExtractPair(high, low, w, by) ==
  IF by = 0 THEN Low(low, w)
  ELSE And(Or(ShiftLeft(Low(high, w), w - by), ShiftRight(Low(low, w), by)), Mask(w))

\* bitfield_range_mask refuses an empty field and one that leaves the register.
FieldFits(lsb, len, w) == len > 0 /\ len <= w /\ lsb + len <= w

\* ubfx and sbfx
FieldExtract(op, v, lsb, len, w) ==
  LET field == And(ShiftRight(Low(v, w), lsb), Mask(len))
  IN Low(IF op = "sbfx" THEN Low(Signed(field, len), XLen) ELSE field, w)

FieldOps == {"ubfiz", "sbfiz", "bfi", "bfxil", "bfc"}
FieldInsert(op, v, previous, lsb, len, w) ==
  LET source == Low(v, w)
      field  == ShiftLeft(Mask(len), lsb)
      moved  == ShiftLeft(And(source, Mask(len)), lsb)
      fill   == IF HasBit(source, len - 1) /\ lsb + len < w
                THEN And(Mask(w), Not(Mask(lsb + len))) ELSE 0
  IN Low(CASE op = "ubfiz" -> moved
           [] op = "sbfiz" -> Or(moved, fill)
           [] op = "bfi"   -> Or(And(previous, Not(field)), moved)
           [] op = "bfxil" -> Or(And(previous, Not(Mask(len))),
                                 And(ShiftRight(source, lsb), Mask(len)))
           [] op = "bfc"   -> And(previous, Not(field)), w)

\* The bytes of the low w bits in the opposite order.
SwapBytes(v, w) ==
  NumOf[{i \in 0 .. w - 1 :
           HasBit(v, (w \div ByteLen - 1 - i \div ByteLen) * ByteLen + (i % ByteLen))}]

ReverseOps == {"rbit", "rev", "rev16", "rev32"}

\* rbit, rev, rev16 and rev32; rev32 exists for X registers only.
ReverseResult(op, v, w) ==
  LET u == Low(v, w)
      InPieces(n) == NumOf[{i \in 0 .. w - 1 :
                       HasBit(SwapBytes(Low(ShiftRight(u, (i \div n) * n), n), n), i % n)}]
  IN CASE op = "rbit"  -> {NumOf[{i \in 0 .. w - 1 : HasBit(u, w - 1 - i)}]}
       [] op = "rev"   -> {SwapBytes(u, w)}
       [] op = "rev16" -> {InPieces(HalfLen)}
       [] op = "rev32" -> IF w = XLen THEN {InPieces(WLen)} ELSE {}
=============================================================================
