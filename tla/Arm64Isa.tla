------------------------------ MODULE Arm64Isa ------------------------------
(***************************************************************************)
(* What the ARM architecture says the same instructions compute, bit by    *)
(* bit and over the integers: the reference that Arm64Values is compared   *)
(* with, and the processor that runs the windows of KnownValues.           *)
(***************************************************************************)
EXTENDS Arm64Values

\* The w-bit value whose bit i is Bit(i).
Build(w, Bit(_)) == NumOf[{i \in 0 .. w - 1 : Bit(i)}]

IsaLogical(op, a, b, w) ==
  Build(w, LAMBDA i :
    LET p == HasBit(a, i)
        q == IF op \in {"bic", "bics", "orn", "eon"} THEN ~HasBit(b, i) ELSE HasBit(b, i)
    IN CASE op \in {"and", "ands", "bic", "bics"} -> p /\ q
         [] op \in {"orr", "orn"} -> p \/ q
         [] op \in {"eor", "eon"} -> p # q)

IsaShift(op, v, by, w) ==
  Build(w, LAMBDA i :
    CASE op = "lsl" -> i >= by /\ HasBit(v, i - by)
      [] op = "lsr" -> i + by < w /\ HasBit(v, i + by)
      [] op = "asr" -> HasBit(v, IF i + by < w THEN i + by ELSE w - 1)
      [] op = "ror" -> HasBit(v, (i + by) % w))

\* AddWithCarry of the manual: the flags compare the result with the exact sum.
IsaAdd(a, b, carry, w) ==
  LET exact == Low(a, w) + Low(b, w) + carry
      signed == Signed(a, w) + Signed(b, w) + carry
      result == exact % 2^w
  IN [value |-> result,
      flags |-> [n |-> Signed(result, w) < 0, z |-> result = 0,
                 c |-> result # exact, v |-> Signed(result, w) # signed]]

IsaSubtract(a, b, carry, w) == IsaAdd(a, Mask(w) - Low(b, w), carry, w)

IsaLogicalFlags(v, w) == [n |-> Signed(v, w) < 0, z |-> Low(v, w) = 0, c |-> FALSE, v |-> FALSE]

\* What a condition means after a comparison of a with b.
IsaCondition(cond, a, b, w) ==
  CASE cond = "eq" -> Low(a, w) = Low(b, w)
    [] cond = "ne" -> Low(a, w) # Low(b, w)
    [] cond = "hs" -> Low(a, w) >= Low(b, w)
    [] cond = "lo" -> Low(a, w) < Low(b, w)
    [] cond = "hi" -> Low(a, w) > Low(b, w)
    [] cond = "ls" -> Low(a, w) <= Low(b, w)
    [] cond = "ge" -> Signed(a, w) >= Signed(b, w)
    [] cond = "lt" -> Signed(a, w) < Signed(b, w)
    [] cond = "gt" -> Signed(a, w) > Signed(b, w)
    [] cond = "le" -> Signed(a, w) <= Signed(b, w)
    [] cond = "al" -> TRUE

\* The quotient nearest to zero: dividend = divisor * q + r, r of the dividend's sign.
IsaDivide(dividend, divisor, w) ==
  IF divisor = 0 THEN 0
  ELSE Low(CHOOSE q \in -(2^w) .. 2^w :
             LET r == dividend - divisor * q
             IN /\ Magnitude(r) < Magnitude(divisor)
                /\ r = 0 \/ (r < 0) = (dividend < 0), w)

IsaClz(v, w) == Cardinality({i \in 0 .. w - 1 : \A j \in i .. w - 1 : ~HasBit(v, j)})
IsaCls(v, w) == Cardinality({i \in 0 .. w - 2 :
                   \A j \in i .. w - 1 : HasBit(v, j) = HasBit(v, w - 1)})

IsaExtract(high, low, w, by) == (Low(high, w) * 2^w + Low(low, w)) \div 2^by % 2^w

IsaField(op, v, previous, lsb, len, w) ==
  Build(w, LAMBDA i :
    CASE op = "ubfx"  -> i < len /\ HasBit(v, lsb + i)
      [] op = "sbfx"  -> HasBit(v, IF i < len THEN lsb + i ELSE lsb + len - 1)
      [] op = "ubfiz" -> i \in lsb .. lsb + len - 1 /\ HasBit(v, i - lsb)
      [] op = "sbfiz" -> i >= lsb /\ HasBit(v, IF i < lsb + len THEN i - lsb ELSE len - 1)
      [] op = "bfi"   -> IF i \in lsb .. lsb + len - 1 THEN HasBit(v, i - lsb) ELSE HasBit(previous, i)
      [] op = "bfxil" -> IF i < len THEN HasBit(v, lsb + i) ELSE HasBit(previous, i)
      [] op = "bfc"   -> i \notin lsb .. lsb + len - 1 /\ HasBit(previous, i))

\* Bytes swapped inside every container of `size` bits.
IsaReverse(v, size, w) ==
  Build(w, LAMBDA i : HasBit(v, (i \div size) * size
                                + (size \div ByteLen - 1 - (i % size) \div ByteLen) * ByteLen
                                + (i % ByteLen)))
=============================================================================
