------------------------ MODULE WorkbenchStore_proofs -----------------------
(***************************************************************************)
(* What WorkbenchStore guarantees for every number of calls, every set of  *)
(* gestures and offsets and every bound.                                   *)
(***************************************************************************)
EXTENDS WorkbenchStore, SequenceTheorems, TLAPS
-----------------------------------------------------------------------------
(* Route lists: what taking an address into one does, for every list,      *)
(* address and capacity.                                                   *)

\* Cutting a list keeps a prefix of it: nothing new, no repeat (the
\* removeSubrange of insertNavigationRoute).
LEMMA TruncateSound ==
  ASSUME NEW S, NEW s \in Seq(S), NEW max \in Nat
  PROVE  /\ Truncate(s, max) \in Seq(S)
         /\ Len(Truncate(s, max)) <= max
         /\ Range(Truncate(s, max)) \subseteq Range(s)
         /\ IsInjective(s) => IsInjective(Truncate(s, max))
         /\ Len(s) <= max => Truncate(s, max) = s
<1>1. Len(s) \in Nat /\ DOMAIN s = 1..Len(s) /\ \A i \in 1..Len(s) : s[i] \in S
  BY LenProperties, ElementOfSeq
<1>2. CASE Len(s) <= max
  <2>1. ~(Len(s) > max)
    BY <1>1, <1>2
  <2>2. Truncate(s, max) = s
    BY <2>1 DEF Truncate
  <2> QED BY <2>2, <1>2
<1>3. CASE Len(s) > max
  <2> DEFINE t == SubSeq(s, 1, max)
  <2>1. Truncate(s, max) = t
    BY <1>3 DEF Truncate
  <2>2. /\ t \in Seq(S) /\ Len(t) = max
        /\ \A i \in 1..max : t[i] = s[i]
    <3>1. \A i \in 1..max : s[i] \in S
      BY <1>1, <1>3
    <3>2. /\ t \in Seq(S)
          /\ Len(t) = IF 1 <= max THEN max - 1 + 1 ELSE 0
          /\ \A i \in 1 .. max - 1 + 1 : t[i] = s[1 + i - 1]
      BY <3>1, SubSeqProperties
    <3> QED BY <3>2
  <2>3. DOMAIN t = 1..max
    BY <2>2, LenProperties
  <2>4. Range(t) \subseteq Range(s)
    BY <2>2, <2>3, <1>1, <1>3 DEF Range
  <2>5. IsInjective(s) => IsInjective(t)
    BY <2>2, <2>3, <1>1, <1>3 DEF IsInjective
  <2> QED BY <1>1, <1>3, <2>1, <2>2, <2>4, <2>5
<1> QED BY <1>1, <1>2, <1>3

\* Taking an address out of a list keeps the others and adds no repeat (the
\* removeAll of insertNavigationRoute); when the list has no repeat, the
\* address is gone.
LEMMA WithoutSound ==
  ASSUME NEW S, NEW s \in Seq(S), NEW a
  PROVE  /\ Without(s, a) \in Seq(S)
         /\ Range(Without(s, a)) \subseteq Range(s)
         /\ IsInjective(s) => /\ IsInjective(Without(s, a))
                              /\ a \notin Range(Without(s, a))
         /\ Range(s) \ {a} \subseteq Range(Without(s, a))
         /\ Len(Without(s, a)) <= Len(s)
<1>1. Len(s) \in Nat /\ DOMAIN s = 1..Len(s) /\ \A i \in 1..Len(s) : s[i] \in S
  BY LenProperties, ElementOfSeq
<1>2. CASE a \notin Range(s)
  <2>1. Without(s, a) = s
    BY <1>2 DEF Without
  <2> QED BY <2>1, <1>1, <1>2
<1>3. CASE a \in Range(s)
  <2> DEFINE p == Position(s, a)
             u == SubSeq(s, 1, p - 1)
             v == SubSeq(s, p + 1, Len(s))
             w == u \o v
  <2>1. Without(s, a) = w
    BY <1>3 DEF Without
  <2>2. p \in 1..Len(s) /\ s[p] = a
    <3>1. \E i \in DOMAIN s : s[i] = a
      BY <1>3 DEF Range
    <3> QED BY <3>1, <1>1 DEF Position
  <2> HIDE DEF p
  <2>3. /\ u \in Seq(S) /\ Len(u) = p - 1
        /\ \A i \in 1 .. p - 1 : u[i] = s[i]
    <3>1. \A i \in 1 .. p - 1 : s[i] \in S
      BY <1>1, <2>2
    <3>2. /\ u \in Seq(S)
          /\ Len(u) = IF 1 <= p - 1 THEN (p - 1) - 1 + 1 ELSE 0
          /\ \A i \in 1 .. (p - 1) - 1 + 1 : u[i] = s[1 + i - 1]
      BY <3>1, <2>2, SubSeqProperties, p - 1 \in Int
    <3> QED BY <3>2, <2>2
  <2>4. /\ v \in Seq(S) /\ Len(v) = Len(s) - p
        /\ \A i \in 1 .. Len(s) - p : v[i] = s[p + i]
    <3>1. \A i \in p + 1 .. Len(s) : s[i] \in S
      BY <1>1, <2>2
    <3>2. /\ v \in Seq(S)
          /\ Len(v) = IF p + 1 <= Len(s) THEN Len(s) - (p + 1) + 1 ELSE 0
          /\ \A i \in 1 .. Len(s) - (p + 1) + 1 : v[i] = s[p + 1 + i - 1]
      BY <3>1, <2>2, <1>1, SubSeqProperties, p + 1 \in Int
    <3> HIDE DEF v
    <3>3. Len(v) = Len(s) - p
      <4>1. CASE p + 1 <= Len(s)
        BY <4>1, <3>2, <2>2, <1>1
      <4>2. CASE p = Len(s)
        BY <4>2, <3>2, <2>2, <1>1
      <4>3. p \in Int /\ Len(s) \in Int /\ p <= Len(s)
        BY <2>2, <1>1
      <4>4. p + 1 <= Len(s) \/ p = Len(s)
        BY <4>3
      <4> QED BY <4>1, <4>2, <4>4
    <3>4. ASSUME NEW i \in 1 .. Len(s) - p PROVE v[i] = s[p + i]
      <4>1. i \in 1 .. Len(s) - (p + 1) + 1 /\ p + 1 + i - 1 = p + i
        BY <2>2, <1>1
      <4> QED BY <4>1, <3>2
    <3> QED BY <3>2, <3>3, <3>4
  <2> HIDE DEF u, v, w
  <2>5. /\ w \in Seq(S) /\ Len(w) = Len(s) - 1
        /\ \A i \in 1 .. Len(s) - 1 : w[i] = IF i < p THEN s[i] ELSE s[i + 1]
    <3>1. /\ w \in Seq(S) /\ Len(w) = Len(u) + Len(v)
          /\ \A i \in 1 .. Len(u) + Len(v) :
               w[i] = IF i <= Len(u) THEN u[i] ELSE v[i - Len(u)]
      BY <2>3, <2>4, ConcatProperties DEF w
    <3>2. Len(w) = Len(s) - 1
      BY <3>1, <2>2, <2>3, <2>4, <1>1
    <3>3. ASSUME NEW i \in 1 .. Len(s) - 1
          PROVE  w[i] = IF i < p THEN s[i] ELSE s[i + 1]
      <4>1. w[i] = IF i <= p - 1 THEN u[i] ELSE v[i - (p - 1)]
        BY <3>1, <2>2, <2>3, <2>4, <1>1
      <4>2. CASE i < p
        BY <4>1, <4>2, <2>2, <2>3, <1>1
      <4>3. CASE i >= p
        <5>1. i - (p - 1) \in 1 .. Len(s) - p
          BY <4>3, <2>2, <1>1
        <5>2. v[i - (p - 1)] = s[p + (i - (p - 1))]
          BY <5>1, <2>4
        <5>3. p + (i - (p - 1)) = i + 1
          BY <2>2
        <5> QED BY <4>1, <4>3, <5>2, <5>3, <2>2
      <4> QED BY <4>2, <4>3, <2>2, <1>1
    <3> QED BY <3>1, <3>2, <3>3
  <2>6. DOMAIN w = 1 .. Len(s) - 1
    BY <2>5, LenProperties
  <2>7. Range(w) \subseteq Range(s)
    BY <2>5, <2>6, <1>1, <2>2 DEF Range
  <2>8. ASSUME IsInjective(s) PROVE IsInjective(w) /\ a \notin Range(w)
    <3>1. \A i, j \in 1..Len(s) : s[i] = s[j] => i = j
      BY <2>8, <1>1 DEF IsInjective
    <3>2. IsInjective(w)
      BY <3>1, <2>5, <2>6, <2>2, <1>1 DEF IsInjective
    <3>3. \A i \in 1 .. Len(s) - 1 : w[i] # a
      BY <3>1, <2>5, <2>2, <1>1
    <3> QED BY <3>2, <3>3, <2>6 DEF Range
  <2>9. ASSUME NEW i \in 1..Len(s), s[i] # a PROVE s[i] \in Range(w)
    <3>1. CASE i < p
      <4>1. i \in DOMAIN w /\ w[i] = s[i]
        BY <2>2, <2>5, <2>6, <3>1, <1>1
      <4> QED BY <4>1 DEF Range
    <3>2. CASE i > p
      <4>1. /\ i - 1 \in 1 .. Len(s) - 1 /\ ~(i - 1 < p)
            /\ (i - 1) + 1 = i
        BY <2>2, <3>2, <1>1
      <4>2. i - 1 \in DOMAIN w /\ w[i - 1] = s[i]
        BY <2>5, <2>6, <4>1
      <4> QED BY <4>2 DEF Range
    <3>3. i # p
      BY <2>2, <2>9
    <3> QED BY <2>2, <3>1, <3>2, <3>3, <1>1
  <2>10. Range(s) \ {a} \subseteq Range(w)
    BY <2>9, <1>1 DEF Range
  <2> QED BY <1>1, <2>1, <2>5, <2>7, <2>8, <2>10 DEF w
<1> QED BY <1>2, <1>3

\* Putting an address in front of a list shifts it by one place.
LEMMA ConsSound ==
  ASSUME NEW S, NEW s \in Seq(S), NEW a \in S
  PROVE  /\ <<a>> \o s \in Seq(S)
         /\ Range(<<a>> \o s) = Range(s) \cup {a}
         /\ IsInjective(s) /\ a \notin Range(s) => IsInjective(<<a>> \o s)
         /\ Len(<<a>> \o s) = Len(s) + 1
<1> DEFINE c == <<a>> \o s
<1>1. Len(s) \in Nat /\ DOMAIN s = 1..Len(s)
  BY LenProperties
<1>2. <<a>> \in Seq(S) /\ Len(<<a>>) = 1 /\ <<a>>[1] = a
  OBVIOUS
<1>3. /\ c \in Seq(S) /\ Len(c) = Len(s) + 1
      /\ \A i \in 1 .. Len(s) + 1 : c[i] = IF i = 1 THEN a ELSE s[i - 1]
  <2>1. /\ c \in Seq(S) /\ Len(c) = 1 + Len(s)
        /\ \A i \in 1 .. 1 + Len(s) :
             c[i] = IF i <= 1 THEN <<a>>[i] ELSE s[i - 1]
    BY <1>2, ConcatProperties
  <2> QED BY <2>1, <1>1, <1>2
<1> HIDE DEF c
<1>4. DOMAIN c = 1 .. Len(s) + 1
  BY <1>3, LenProperties
<1>5. Range(c) = Range(s) \cup {a}
  <2>1. Range(c) \subseteq Range(s) \cup {a}
    BY <1>1, <1>3, <1>4 DEF Range
  <2>2. a \in Range(c)
    <3>1. 1 \in DOMAIN c /\ c[1] = a
      BY <1>1, <1>3, <1>4
    <3> QED BY <3>1 DEF Range
  <2>3. ASSUME NEW i \in DOMAIN s PROVE s[i] \in Range(c)
    <3>1. i + 1 \in DOMAIN c /\ c[i + 1] = s[i]
      BY <1>1, <1>3, <1>4
    <3> QED BY <3>1 DEF Range
  <2> QED BY <2>1, <2>2, <2>3 DEF Range
<1>6. ASSUME IsInjective(s), a \notin Range(s) PROVE IsInjective(c)
  <2>1. \A i, j \in 1..Len(s) : s[i] = s[j] => i = j
    BY <1>6, <1>1 DEF IsInjective
  <2>2. \A i \in 1..Len(s) : s[i] # a
    BY <1>6, <1>1 DEF Range
  <2> QED BY <2>1, <2>2, <1>1, <1>3, <1>4 DEF IsInjective
<1> QED BY <1>3, <1>5, <1>6 DEF c

\* insertNavigationRoute: the list takes nothing but the address, stays
\* within its capacity, and stays free of repeats; below capacity it loses
\* nothing.
THEOREM PushFrontSound ==
  ASSUME NEW S, NEW s \in Seq(S), NEW a \in S, NEW max \in Nat
  PROVE  /\ PushFront(s, a, max) \in Seq(S)
         /\ Len(PushFront(s, a, max)) <= max
         /\ Range(PushFront(s, a, max)) \subseteq Range(s) \cup {a}
         /\ IsInjective(s) => IsInjective(PushFront(s, a, max))
         /\ Len(s) < max => Range(s) \cup {a} \subseteq Range(PushFront(s, a, max))
<1> DEFINE w == Without(s, a)
           c == <<a>> \o w
<1>1. /\ w \in Seq(S) /\ Range(w) \subseteq Range(s)
      /\ IsInjective(s) => IsInjective(w) /\ a \notin Range(w)
      /\ Range(s) \ {a} \subseteq Range(w) /\ Len(w) <= Len(s)
  BY WithoutSound
<1> HIDE DEF w
<1>2. /\ c \in Seq(S) /\ Range(c) = Range(w) \cup {a}
      /\ IsInjective(w) /\ a \notin Range(w) => IsInjective(c)
      /\ Len(c) = Len(w) + 1
  BY <1>1, ConsSound
<1> HIDE DEF c
<1>3. /\ Truncate(c, max) \in Seq(S) /\ Len(Truncate(c, max)) <= max
      /\ Range(Truncate(c, max)) \subseteq Range(c)
      /\ IsInjective(c) => IsInjective(Truncate(c, max))
      /\ Len(c) <= max => Truncate(c, max) = c
  BY <1>2, TruncateSound
<1>4. PushFront(s, a, max) = Truncate(c, max)
  BY DEF PushFront, c, w
<1>5. Len(s) < max => Len(c) <= max
  <2>1. Len(s) \in Nat /\ Len(w) \in Nat
    BY <1>1, LenProperties
  <2> QED BY <1>1, <1>2, <2>1
<1> QED BY <1>1, <1>2, <1>3, <1>4, <1>5
-----------------------------------------------------------------------------
(* Values.                                                                 *)

\* The empty listing, the empty request and the free call have their kinds.
LEMMA ConstantsTyped ==
  /\ NoRequest \in Request
  /\ NoResult \in [image : Nat, id : Nat, request : Request,
                   rows : SUBSET Address]
  /\ Idle \in CallRecord
<1>1. NoRequest \in Request
  BY DEF NoRequest, Request, TargetKind, MaybeAddress
<1>2. NoResult \in [image : Nat, id : Nat, request : Request,
                    rows : SUBSET Address]
  BY <1>1 DEF NoResult
<1>3. Idle \in CallRecord
  BY <1>1, EmptySeq DEF Idle, CallRecord, PC, Boots, Ops, Surfaces, MaybeAddress
<1> QED BY <1>1, <1>2, <1>3

\* What buildRequest makes of the controls is a request.
LEMMA RequestTyped ==
  ASSUME NEW f \in Form
  PROVE  RequestOf(f) \in Request
BY DEF RequestOf, Form, Request, MaybeAddress

\* The rows of an image are addresses.
LEMMA RowsTyped ==
  ASSUME NEW i \in Nat
  PROVE  RowsOf(i) \subseteq Address
BY DEF RowsOf, Address

\* A listing that has rows has a first one: offsets are well ordered.
LEMMA FirstRow ==
  ASSUME NEW rows \in SUBSET Address, rows # {}
  PROVE  First(rows) \in rows
<1> DEFINE S == {r[2] : r \in rows}
<1>1. S \in SUBSET Offsets /\ S # {}
  BY DEF Address
<1>2. PICK m \in S : \A n \in S : m <= n
  BY <1>1, OffsetsAssumption
<1>3. PICK r \in rows : r[2] = m
  BY <1>2
<1>4. \A s \in rows : r[2] <= s[2]
  BY <1>2, <1>3
<1> QED BY <1>4 DEF First

\* The reconciled selection is a row or nil.
LEMMA ReconcileTyped ==
  ASSUME NEW sel, NEW rows \in SUBSET Address, NEW f
  PROVE  Reconcile(sel, rows, f) \in rows \cup {NoAddress}
<1>1. Visible(rows, f) \subseteq rows
  BY DEF Visible
<1>2. Visible(rows, f) # {} => First(Visible(rows, f)) \in rows
  BY <1>1, FirstRow
<1> QED BY <1>1, <1>2 DEF Reconcile

\* Remembering where a navigation came from adds at most that address, and below
\* capacity adds it and loses nothing.
LEMMA PushSourceSound ==
  ASSUME NEW list \in Seq(Address), NEW source \in MaybeAddress, NEW dest
  PROVE  /\ PushSource(list, source, dest) \in Seq(Address)
         /\ Range(PushSource(list, source, dest)) \subseteq
              Range(list) \cup ({source} \ {NoAddress})
         /\ IsInjective(list) => IsInjective(PushSource(list, source, dest))
         /\ Len(list) <= MaxNavigation
              => Len(PushSource(list, source, dest)) <= MaxNavigation
         /\ Len(list) < MaxNavigation
              => Range(list) \cup ({source} \ {NoAddress, dest})
                   \subseteq Range(PushSource(list, source, dest))
<1>1. CASE source = NoAddress \/ source = dest
  <2>1. PushSource(list, source, dest) = list
    BY <1>1 DEF PushSource
  <2> QED BY <1>1, <2>1
<1>2. CASE ~(source = NoAddress \/ source = dest)
  <2>1. PushSource(list, source, dest) = PushFront(list, source, MaxNavigation)
    BY <1>2 DEF PushSource
  <2>2. source \in Address /\ MaxNavigation \in Nat
    BY <1>2, BoundsAssumption DEF MaybeAddress
  <2>3. /\ PushFront(list, source, MaxNavigation) \in Seq(Address)
        /\ Len(PushFront(list, source, MaxNavigation)) <= MaxNavigation
        /\ Range(PushFront(list, source, MaxNavigation)) \subseteq
             Range(list) \cup {source}
        /\ IsInjective(list)
             => IsInjective(PushFront(list, source, MaxNavigation))
        /\ Len(list) < MaxNavigation
             => Range(list) \cup {source}
                  \subseteq Range(PushFront(list, source, MaxNavigation))
    BY <2>2, PushFrontSound
  <2> DEFINE pushed == PushFront(list, source, MaxNavigation)
  <2> HIDE DEF pushed
  <2> QED BY <1>2, <2>1, <2>3 DEF pushed
<1> QED BY <1>1, <1>2

\* recordRecentAddressRoute adds at most the address it is given.
LEMMA RecordRecentSound ==
  ASSUME recent \in Seq(Address), active \in MaybeAddress,
         NEW a \in MaybeAddress, RecordRecent(a)
  PROVE  /\ active' \in MaybeAddress /\ active' \in {active, a}
         /\ recent' \in Seq(Address)
         /\ Range(recent') \subseteq Range(recent) \cup ({a} \ {NoAddress})
         /\ IsInjective(recent) => IsInjective(recent')
         /\ Len(recent) <= MaxRecent => Len(recent') <= MaxRecent
<1>1. CASE a = NoAddress
  <2>1. active' = active /\ recent' = recent
    BY <1>1 DEF RecordRecent
  <2> QED BY <2>1
<1>2. CASE a # NoAddress
  <2>1. active' = a /\ recent' = PushFront(recent, a, MaxRecent)
    BY <1>2 DEF RecordRecent
  <2>2. a \in Address /\ MaxRecent \in Nat
    BY <1>2, BoundsAssumption DEF MaybeAddress
  <2>3. /\ PushFront(recent, a, MaxRecent) \in Seq(Address)
        /\ Len(PushFront(recent, a, MaxRecent)) <= MaxRecent
        /\ Range(PushFront(recent, a, MaxRecent)) \subseteq
             Range(recent) \cup {a}
        /\ IsInjective(recent) => IsInjective(PushFront(recent, a, MaxRecent))
    BY <2>2, PushFrontSound
  <2> QED BY <1>2, <2>1, <2>3
<1> QED BY <1>1, <1>2
-----------------------------------------------------------------------------
(* Calls.                                                                  *)

\* What runDisassembly leaves of the call that enters it: it returned early,
\* waits for the server to start, or waits for its answer.
RunOutcome(c, call) ==
  \E new \in {Idle,
              [call EXCEPT !.pc = "bootRun"],
              [call EXCEPT !.image = image', !.request = RequestOf(form'),
                           !.pc = "decode"]} :
    calls' = [calls EXCEPT ![c] = new]

\* A call that runs on from the await on the server keeps that outcome.
LEMMA SendDecodeOutcome ==
  ASSUME NEW c \in Calls, NEW call, SendDecode(c, call), TypeOK
  PROVE  /\ RunOutcome(c, call)
         /\ busy' \in BOOLEAN
         /\ cancelled' \in SUBSET Calls
<1>1. CASE ~Builds(form') /\ ReturnFalse(c, call)
  BY <1>1 DEF ReturnFalse, Finish, RunOutcome, TypeOK
<1>2. CASE /\ busy' = TRUE
           /\ Suspend(c, [call EXCEPT !.image = image',
                                      !.request = RequestOf(form')], "decode")
           /\ UNCHANGED cancelled
  <2>1. calls' = [calls EXCEPT ![c] =
                    [call EXCEPT !.image = image', !.request = RequestOf(form'),
                                 !.pc = "decode"]]
    BY <1>2 DEF Suspend
  <2> QED BY <1>2, <2>1 DEF RunOutcome, TypeOK
<1> QED BY <1>1, <1>2 DEF SendDecode

\* runDisassembly takes the next request number and has that outcome.
LEMMA BeginRunOutcome ==
  ASSUME NEW c \in Calls, NEW call, BeginRun(c, call), TypeOK
  PROVE  /\ disasmID' = disasmID + 1
         /\ RunOutcome(c, [call EXCEPT !.dis = disasmID + 1])
         /\ busy' \in BOOLEAN
         /\ cancelled' \in SUBSET Calls
<1> DEFINE numbered == [call EXCEPT !.dis = disasmID + 1]
<1>1. /\ disasmID' = disasmID + 1
      /\ \/ image' = 0 /\ ReturnFalse(c, numbered)
         \/ Suspend(c, numbered, "bootRun") /\ UNCHANGED <<busy, cancelled>>
         \/ SendDecode(c, numbered)
  BY DEF BeginRun
<1> HIDE DEF numbered
<1>2. /\ RunOutcome(c, numbered)
      /\ busy' \in BOOLEAN
      /\ cancelled' \in SUBSET Calls
  <2>1. CASE image' = 0 /\ ReturnFalse(c, numbered)
    BY <2>1 DEF ReturnFalse, Finish, RunOutcome, TypeOK
  <2>2. CASE Suspend(c, numbered, "bootRun") /\ UNCHANGED <<busy, cancelled>>
    BY <2>2 DEF Suspend, RunOutcome, TypeOK
  <2>3. CASE SendDecode(c, numbered)
    BY <2>3, SendDecodeOutcome
  <2> QED BY <1>1, <2>1, <2>2, <2>3
<1> QED BY <1>1, <1>2 DEF numbered

\* Every outcome of runDisassembly is a call record.
LEMMA RunOutcomeTyped ==
  ASSUME NEW c \in Calls, NEW call \in CallRecord, TypeOK,
         image' \in Nat, form' \in Form, RunOutcome(c, call)
  PROVE  calls' \in [Calls -> CallRecord]
<1>1. PICK new \in {Idle,
                    [call EXCEPT !.pc = "bootRun"],
                    [call EXCEPT !.image = image', !.request = RequestOf(form'),
                                 !.pc = "decode"]} :
         calls' = [calls EXCEPT ![c] = new]
  BY DEF RunOutcome
<1>2. RequestOf(form') \in Request
  BY RequestTyped
<1>3. new \in CallRecord
  BY <1>2, ConstantsTyped DEF CallRecord, PC, Boots
<1> QED BY <1>1, <1>3 DEF TypeOK
-----------------------------------------------------------------------------
(* Type correctness.                                                       *)

\* Before anything happened every variable has its kind.
LEMMA InitTyped == Init => TypeOK
<1> SUFFICES ASSUME Init PROVE TypeOK
  OBVIOUS
<1>1. form \in Form
  BY DEF Init, Form, TargetKind, MaybeAddress
<1>2. calls \in [Calls -> CallRecord]
  BY ConstantsTyped DEF Init
<1>3. client \in BOOLEAN /\ busy \in BOOLEAN
  BY BoundsAssumption DEF Init
<1>4. /\ recent \in Seq(Address) /\ back \in Seq(Address)
      /\ forward \in Seq(Address)
  BY EmptySeq DEF Init
<1>5. /\ selected \in MaybeAddress /\ active \in MaybeAddress
      /\ surface \in [Surfaces -> Nat] /\ cancelled \in SUBSET Calls
      /\ loadID \in Nat /\ disasmID \in Nat /\ image \in Nat
      /\ filter \in SUBSET Offsets
  BY DEF Init, MaybeAddress
<1>6. disasm \in [image : Nat, id : Nat, request : Request,
                  rows : SUBSET Address]
  BY ConstantsTyped DEF Init
<1> QED BY <1>1, <1>2, <1>3, <1>4, <1>5, <1>6 DEF TypeOK

\* decodeAddressRoute, from any call record that carries a destination.
LEMMA DecodeAddressRouteTyped ==
  ASSUME TypeOK, NEW c \in Calls, NEW call \in CallRecord,
         DecodeAddressRoute(c, call)
  PROVE  TypeOK'
<1>1. form' \in Form /\ image' = image /\ disasmID \in Nat
  BY DEF DecodeAddressRoute, TypeOK, Form, TargetKind, CallRecord
<1>2. BeginRun(c, call)
  BY DEF DecodeAddressRoute
<1>3. /\ disasmID' = disasmID + 1
      /\ RunOutcome(c, [call EXCEPT !.dis = disasmID + 1])
      /\ busy' \in BOOLEAN /\ cancelled' \in SUBSET Calls
  BY <1>2, BeginRunOutcome
<1>4. [call EXCEPT !.dis = disasmID + 1] \in CallRecord
  BY <1>1 DEF CallRecord
<1>5. image' \in Nat
  BY <1>1 DEF TypeOK
<1>6. calls' \in [Calls -> CallRecord]
  BY <1>1, <1>3, <1>4, <1>5, RunOutcomeTyped
<1> QED BY <1>1, <1>3, <1>6 DEF DecodeAddressRoute, TypeOK, display

\* Every gesture that starts an async call keeps the kinds: its call record is
\* filled from typed controls.
LEMMA StartCallTyped ==
  ASSUME TypeOK, NEW c \in Calls, StartCall(c)
  PROVE  TypeOK'
<1> USE DEF PC, Boots, Ops, Surfaces, FunctionSurfaces
<1>1. CASE Bootstrap(c)
  <2>1. [Call("bootstrap") EXCEPT !.pc = "boot"] \in CallRecord
    BY ConstantsTyped DEF Call, CallRecord
  <2> QED BY <1>1, <2>1
           DEF Bootstrap, Suspend, TypeOK, requests, display
<1>2. CASE LoadFile(c)
  <2> DEFINE call == [Call("load") EXCEPT !.load = loadID + 1]
  <2>1. /\ [call EXCEPT !.pc = "upload"] \in CallRecord
        /\ [call EXCEPT !.pc = "bootLoad"] \in CallRecord
    <3>1. loadID + 1 \in Nat
      BY DEF TypeOK
    <3> QED BY <3>1, ConstantsTyped DEF Call, CallRecord
  <2>2. /\ busy' \in BOOLEAN
        /\ \/ calls' = [calls EXCEPT ![c] = [call EXCEPT !.pc = "upload"]]
           \/ calls' = [calls EXCEPT ![c] = [call EXCEPT !.pc = "bootLoad"]]
    BY <1>2 DEF LoadFile, Suspend, TypeOK
  <2>3. calls' \in [Calls -> CallRecord]
    BY <2>1, <2>2 DEF TypeOK
  <2> QED BY <1>2, <2>2, <2>3 DEF LoadFile, TypeOK, display
<1>3. CASE Run(c)
  <2>1. [Call("run") EXCEPT !.dis = disasmID + 1] \in CallRecord
    <3>1. disasmID + 1 \in Nat
      BY DEF TypeOK
    <3> QED BY <3>1, ConstantsTyped DEF Call, CallRecord
  <2>2. BeginRun(c, Call("run")) /\ form' = form /\ image' = image
    BY <1>3 DEF Run
  <2>3. /\ disasmID' = disasmID + 1
        /\ RunOutcome(c, [Call("run") EXCEPT !.dis = disasmID + 1])
        /\ busy' \in BOOLEAN /\ cancelled' \in SUBSET Calls
    BY <2>2, BeginRunOutcome
  <2>4. calls' \in [Calls -> CallRecord]
    BY <2>1, <2>2, <2>3, RunOutcomeTyped DEF TypeOK
  <2> QED BY <1>3, <2>3, <2>4 DEF Run, TypeOK, display
<1>4. CASE Jump(c)
  <2>1. PICK a \in RowsOf(image) :
          DecodeAddressRoute(c, [Call("jump") EXCEPT !.source = active,
                                                     !.dest = a])
    BY <1>4 DEF Jump
  <2>2. a \in MaybeAddress
    BY RowsTyped DEF MaybeAddress, TypeOK
  <2>3. [Call("jump") EXCEPT !.source = active, !.dest = a] \in CallRecord
    BY <2>2, ConstantsTyped DEF Call, CallRecord, TypeOK
  <2> QED BY <2>1, <2>3, DecodeAddressRouteTyped
<1>5. ASSUME NEW op \in {"back", "forward"}, NEW list \in Seq(Address),
             Navigate(c, op, list)
      PROVE  TypeOK'
  <2>1. Head(list) \in Address /\ Tail(list) \in Seq(Address)
    BY <1>5, HeadTailProperties DEF Navigate
  <2>2. [Call(op) EXCEPT !.source = active, !.dest = Head(list),
                         !.rest = Tail(list)] \in CallRecord
    BY <2>1, ConstantsTyped DEF Call, CallRecord, TypeOK, MaybeAddress
  <2> QED BY <1>5, <2>2, DecodeAddressRouteTyped DEF Navigate
<1>6. CASE NavigateBack(c)
  BY <1>5, <1>6 DEF NavigateBack, TypeOK
<1>7. CASE NavigateForward(c)
  BY <1>5, <1>7 DEF NavigateForward, TypeOK
<1>8. ASSUME NEW s \in Surfaces, LoadSurface(c, s) PROVE TypeOK'
  <2>1. /\ [Call(s) EXCEPT !.image = image, !.pc = "fetch"] \in CallRecord
        /\ [Call(s) EXCEPT !.pc = "bootSurface"] \in CallRecord
    BY ConstantsTyped DEF Call, CallRecord, TypeOK
  <2>2. /\ busy' \in BOOLEAN
        /\ \/ calls' = [calls EXCEPT ![c] =
                         [Call(s) EXCEPT !.image = image, !.pc = "fetch"]]
           \/ calls' = [calls EXCEPT ![c] =
                         [Call(s) EXCEPT !.pc = "bootSurface"]]
    BY <1>8 DEF LoadSurface, Suspend, TypeOK
  <2>3. calls' \in [Calls -> CallRecord]
    BY <2>1, <2>2 DEF TypeOK
  <2> QED BY <1>8, <2>2, <2>3 DEF LoadSurface, TypeOK, requests, display
<1> QED BY <1>1, <1>2, <1>3, <1>4, <1>6, <1>7, <1>8 DEF StartCall

\* So does every gesture that returns at once.
LEMMA GestureTyped ==
  ASSUME TypeOK, Gesture
  PROVE  TypeOK'
<1>0. loadID + 1 \in Nat /\ disasmID + 1 \in Nat
  BY DEF TypeOK
<1>1. CASE LoadBadFile
  BY <1>0, <1>1 DEF LoadBadFile, TypeOK, display
<1>2. CASE CancelCurrentOperation
  <2>1. cancelled' \in SUBSET Calls
    BY <1>2 DEF CancelCurrentOperation
  <2> QED BY <1>0, <1>2, <2>1 DEF CancelCurrentOperation, TypeOK, display
<1>3. CASE Shutdown
  BY <1>3 DEF Shutdown, TypeOK, requests, display
<1>4. ASSUME NEW a \in disasm.rows, NEW r \in BOOLEAN, SelectInstruction(a, r)
      PROVE  TypeOK'
  <2>1. a \in Address /\ a \in MaybeAddress
    BY DEF TypeOK, MaybeAddress
  <2>2. back' \in Seq(Address) /\ forward' \in Seq(Address)
    <3>1. PushSource(back, active, a) \in Seq(Address)
      BY PushSourceSound DEF TypeOK
    <3> QED BY <1>4, <3>1, EmptySeq DEF SelectInstruction, TypeOK
  <2>3. active' \in MaybeAddress /\ recent' \in Seq(Address)
    BY <1>4, <2>1, RecordRecentSound DEF SelectInstruction, TypeOK
  <2> QED BY <1>4, <2>1, <2>2, <2>3
           DEF SelectInstruction, TypeOK, requests
<1>5. ASSUME NEW k \in TargetKind, NEW a \in RowsOf(image) \cup {NoAddress},
             NEW n \in BOOLEAN, EditTarget(k, a, n)
      PROVE  TypeOK'
  <2>1. a \in MaybeAddress
    BY RowsTyped DEF MaybeAddress, TypeOK
  <2>2. form' \in Form
    BY <1>5, <2>1 DEF EditTarget, TypeOK, Form
  <2> QED BY <1>5, <2>2 DEF EditTarget, TypeOK, requests, display
<1>6. ASSUME NEW r \in BOOLEAN, NEW l \in BOOLEAN, EditWindow(r, l)
      PROVE  TypeOK'
  <2>1. form' \in Form
    BY <1>6 DEF EditWindow, TypeOK, Form
  <2> QED BY <1>6, <2>1 DEF EditWindow, TypeOK, requests, display
<1>7. ASSUME NEW f \in Filters, EditFilter(f)
      PROVE  TypeOK'
  <2>0. f \in SUBSET Offsets
    BY FiltersAssumption
  <2>1. selected' \in MaybeAddress
    BY <1>7, <2>0, ReconcileTyped DEF EditFilter, TypeOK, MaybeAddress
  <2> QED BY <1>7, <2>0, <2>1 DEF EditFilter, TypeOK, requests, routes
<1> QED BY <1>1, <1>2, <1>3, <1>4, <1>5, <1>6, <1>7 DEF Gesture

\* A call that returns is a free call record again.
LEMMA FinishTyped ==
  ASSUME TypeOK, NEW c \in Calls, Finish(c)
  PROVE  calls' \in [Calls -> CallRecord] /\ cancelled' \in SUBSET Calls
BY ConstantsTyped DEF Finish, TypeOK

\* The rows of an answer are rows of the image that was asked about.
LEMMA RowsForTyped ==
  ASSUME NEW i \in Nat, NEW request, NEW rows \in RowsFor(request, i)
  PROVE  rows \in SUBSET RowsOf(i) /\ rows \in SUBSET Address
BY RowsTyped DEF RowsFor

\* What a decode that succeeded does to selection, routes and history.
LEMMA DecodeShownTyped ==
  ASSUME TypeOK, NEW c \in Calls,
         NEW rows \in RowsFor(calls[c].request, calls[c].image),
         DecodeShown(c, rows)
  PROVE  TypeOK'
<1>1. calls[c] \in CallRecord
  BY DEF TypeOK
<1>2. rows \in SUBSET Address
  BY <1>1, RowsForTyped DEF CallRecord
<1>3. disasm' \in [image : Nat, id : Nat, request : Request,
                   rows : SUBSET Address]
  BY <1>1, <1>2 DEF DecodeShown, CallRecord
<1>4. selected' \in MaybeAddress
  BY <1>2, ReconcileTyped DEF DecodeShown, MaybeAddress
<1>5. active' \in MaybeAddress /\ recent' \in Seq(Address)
  <2> DEFINE a == IF calls[c].request.kind = "address"
                  THEN calls[c].request.at ELSE selected'
  <2>1. a \in MaybeAddress
    BY <1>1, <1>4 DEF CallRecord, Request
  <2>2. RecordRecent(a)
    BY DEF DecodeShown
  <2> HIDE DEF a
  <2> QED BY <2>1, <2>2, RecordRecentSound DEF TypeOK
<1>6. back' \in Seq(Address) /\ forward' \in Seq(Address)
  <2>1. calls[c].rest \in Seq(Address)
    BY <1>1 DEF CallRecord
  <2>2. /\ PushSource(back, calls[c].source, calls[c].dest) \in Seq(Address)
        /\ PushSource(forward, calls[c].source, calls[c].dest) \in Seq(Address)
    BY <1>1, PushSourceSound DEF CallRecord, TypeOK
  <2>3. CommitNavigation(calls[c])
    BY DEF DecodeShown
  <2> QED BY <2>1, <2>2, <2>3, EmptySeq DEF CommitNavigation, TypeOK
<1>7. busy' \in BOOLEAN
  BY DEF DecodeShown, BusyAfterDecode
<1>8. calls' \in [Calls -> CallRecord] /\ cancelled' \in SUBSET Calls
  BY FinishTyped DEF DecodeShown
<1>9. UNCHANGED <<client, requests, image, form, filter, surface>>
  BY DEF DecodeShown
<1> QED BY <1>3, <1>4, <1>5, <1>6, <1>7, <1>8, <1>9 DEF TypeOK, requests

\* Every answer keeps the kinds, whether it is used or dropped.
LEMMA ResumeTyped ==
  ASSUME TypeOK, NEW c \in Calls, Resume(c)
  PROVE  TypeOK'
<1>0. calls[c] \in CallRecord
  BY DEF TypeOK
<1>1. ASSUME NEW ok \in BOOLEAN, BootstrapReply(c, ok) PROVE TypeOK'
  <2>1. client' \in BOOLEAN
    BY <1>1 DEF BootstrapReply, TypeOK
  <2>2. image' \in Nat /\ form' \in Form
    BY <1>1 DEF BootstrapReply, TypeOK
  <2>3. /\ busy' \in BOOLEAN
        /\ calls' \in [Calls -> CallRecord] /\ cancelled' \in SUBSET Calls
    <3>1. CASE Finish(c) /\ UNCHANGED busy
      BY <3>1, FinishTyped DEF TypeOK
    <3>2. CASE ReturnFalse(c, calls[c])
      BY <3>2, FinishTyped DEF ReturnFalse
    <3>3. CASE SendDecode(c, calls[c])
      BY <3>3, <2>2, <1>0, SendDecodeOutcome, RunOutcomeTyped
    <3>4. CASE /\ busy' = TRUE
               /\ Suspend(c, calls[c], "upload")
               /\ UNCHANGED cancelled
      <4>1. [calls[c] EXCEPT !.pc = "upload"] \in CallRecord
        BY <1>0 DEF CallRecord, PC
      <4> QED BY <3>4, <4>1 DEF Suspend, TypeOK
    <3>5. CASE /\ busy' = TRUE
               /\ Suspend(c, [calls[c] EXCEPT !.image = image], "fetch")
               /\ UNCHANGED cancelled
      <4>1. [calls[c] EXCEPT !.image = image, !.pc = "fetch"] \in CallRecord
        BY <1>0 DEF CallRecord, PC, TypeOK
      <4>2. calls' = [calls EXCEPT ![c] =
                        [calls[c] EXCEPT !.image = image, !.pc = "fetch"]]
        BY <3>5 DEF Suspend
      <4> QED BY <3>5, <4>1, <4>2 DEF TypeOK
    <3> QED BY <1>1, <3>1, <3>2, <3>3, <3>4, <3>5 DEF BootstrapReply
  <2> QED BY <1>1, <2>1, <2>2, <2>3
           DEF BootstrapReply, TypeOK, requests, display
<1>2. ASSUME NEW ok \in BOOLEAN, UploadDropped(c, ok) PROVE TypeOK'
  <2>1. calls' \in [Calls -> CallRecord] /\ cancelled' \in SUBSET Calls
    BY <1>2, FinishTyped DEF UploadDropped
  <2>2. busy' \in BOOLEAN
    BY <1>2 DEF UploadDropped
  <2> QED BY <1>2, <2>1, <2>2 DEF UploadDropped, TypeOK, requests, display
<1>3. ASSUME NEW named \in BOOLEAN, UploadInstalled(c, named) PROVE TypeOK'
  <2>1. ResetForLoadedImage(calls[c].load, named) /\ BeginRun(c, calls[c])
    BY <1>3 DEF UploadInstalled
  <2>2. image' \in Nat /\ form' \in Form
    BY <2>1, <1>0 DEF ResetForLoadedImage, Form, TargetKind, MaybeAddress,
                      CallRecord
  <2>3. disasm' \in [image : Nat, id : Nat, request : Request,
                     rows : SUBSET Address]
    BY <2>1, ConstantsTyped DEF ResetForLoadedImage
  <2>4. /\ filter' \in SUBSET Offsets
        /\ selected' \in MaybeAddress /\ active' \in MaybeAddress
    BY <2>1 DEF ResetForLoadedImage, MaybeAddress
  <2>5. /\ recent' \in Seq(Address)
        /\ back' \in Seq(Address) /\ forward' \in Seq(Address)
    BY <2>1, EmptySeq DEF ResetForLoadedImage
  <2>6. /\ disasmID' = disasmID + 1
        /\ RunOutcome(c, [calls[c] EXCEPT !.dis = disasmID + 1])
        /\ busy' \in BOOLEAN /\ cancelled' \in SUBSET Calls
    BY <2>1, BeginRunOutcome
  <2>7. disasmID + 1 \in Nat
    BY DEF TypeOK
  <2>8. [calls[c] EXCEPT !.dis = disasmID + 1] \in CallRecord
    BY <1>0, <2>7 DEF CallRecord
  <2>9. calls' \in [Calls -> CallRecord]
    BY <2>2, <2>6, <2>8, RunOutcomeTyped
  <2>10. UNCHANGED <<client, loadID, surface>>
    BY <1>3 DEF UploadInstalled
  <2> QED BY <2>2, <2>3, <2>4, <2>5, <2>6, <2>7, <2>9, <2>10 DEF TypeOK
<1>4. ASSUME NEW ok \in BOOLEAN, DecodeDropped(c, ok) PROVE TypeOK'
  <2>1. calls' \in [Calls -> CallRecord] /\ cancelled' \in SUBSET Calls
    BY <1>4, FinishTyped DEF DecodeDropped
  <2>2. busy' \in BOOLEAN
    BY <1>4 DEF DecodeDropped, BusyAfterDecode
  <2> QED BY <1>4, <2>1, <2>2 DEF DecodeDropped, TypeOK, requests, display
<1>5. ASSUME NEW rows \in RowsFor(calls[c].request, calls[c].image),
             DecodeShown(c, rows)
      PROVE  TypeOK'
  BY <1>5, DecodeShownTyped
<1>6. ASSUME NEW ok \in BOOLEAN, SurfaceReply(c, ok) PROVE TypeOK'
  <2>1. calls' \in [Calls -> CallRecord] /\ cancelled' \in SUBSET Calls
    BY <1>6, FinishTyped DEF SurfaceReply
  <2>2. surface' \in [Surfaces -> Nat]
    BY <1>0, <1>6 DEF SurfaceReply, TypeOK, CallRecord
  <2> QED BY <1>6, <2>1, <2>2 DEF SurfaceReply, TypeOK, requests, display
<1> QED BY <1>1, <1>2, <1>3, <1>4, <1>5, <1>6 DEF Resume

\* Type correctness speaks of the variables alone.
LEMMA StutterTyped == TypeOK /\ UNCHANGED vars => TypeOK'
BY DEF TypeOK, vars

\* Every variable of the store keeps its kind, whatever the user does and in
\* whatever order the server answers.
THEOREM TypeCorrect == Spec => []TypeOK
<1>1. Init => TypeOK
  BY InitTyped
<1>2. TypeOK /\ [Next]_vars => TypeOK'
  BY GestureTyped, StartCallTyped, ResumeTyped, StutterTyped DEF Next
<1> QED BY <1>1, <1>2, PTL DEF Spec
-----------------------------------------------------------------------------
(* The inductive invariant.                                                *)

Running == {"bootRun", "decode"}
Loading == {"bootLoad", "upload"}
Navigations == {"jump", "back", "forward"}

\* Request numbers: none is ahead of the counter, a call that has one shares
\* it with no other call and not with the listing on screen.
RunsNumbered ==
  /\ disasm.id <= disasmID
  /\ \A c \in Calls : calls[c].dis <= disasmID
  /\ \A c \in Calls : calls[c].pc \in Running
       => 0 < calls[c].dis /\ calls[c].dis # disasm.id
  /\ \A c, d \in Calls :
       /\ calls[c].pc \in Running /\ calls[d].pc \in Running
       /\ calls[c].dis = calls[d].dis
       => c = d

\* Load numbers: the loaded image took one that no waiting load still has.
LoadsNumbered ==
  /\ image <= loadID
  /\ \A c \in Calls : calls[c].pc \in Loading
       => /\ calls[c].op = "load"
          /\ calls[c].load <= loadID /\ calls[c].load # image
  /\ \A c, d \in Calls :
       /\ calls[c].pc \in Loading /\ calls[d].pc \in Loading
       /\ calls[c].load = calls[d].load
       => c = d

\* The addresses of image i, and nil.
Of(i) == RowsOf(i) \cup {NoAddress}

\* What the controls hold, and what the call on the newest number captured
\* before its await, belongs to the loaded image.
FreshOfImage ==
  /\ form.at \in Of(image)
  /\ \A c \in Calls : calls[c].dis = disasmID /\ calls[c].op \in Navigations
       => /\ calls[c].source \in Of(image) /\ calls[c].dest \in Of(image)
          /\ Range(calls[c].rest) \subseteq RowsOf(image)
  /\ \A c \in Calls : calls[c].dis = disasmID /\ calls[c].pc = "decode"
       => calls[c].request.at \in Of(image)

IInv ==
  /\ TypeOK /\ RunsNumbered /\ LoadsNumbered /\ FreshOfImage
  /\ ResultOfLoadedImage /\ RoutesOfLoadedImage

\* A step moves the call c to a record whose numbers and captured addresses
\* respect the invariant.
RunOK(c, new) ==
  /\ new.dis <= disasmID'
  /\ new.pc \in Running
       => \/ disasmID' = disasmID + 1 /\ new.dis = disasmID'
          \/ calls[c].pc \in Running /\ new.dis = calls[c].dis
LoadOK(c, new) ==
  new.pc \in Loading
    => /\ new.op = "load"
       /\ \/ loadID' = loadID + 1 /\ new.load = loadID'
          \/ calls[c].pc \in Loading /\ new.load = calls[c].load
FreshOK(new) ==
  new.dis = disasmID'
    => /\ new.op \in Navigations
            => /\ new.source \in Of(image') /\ new.dest \in Of(image')
               /\ Range(new.rest) \subseteq RowsOf(image')
       /\ new.pc = "decode" => new.request.at \in Of(image')
Moves(c) ==
  \E new \in CallRecord :
    /\ calls' = [calls EXCEPT ![c] = new]
    /\ RunOK(c, new) /\ LoadOK(c, new) /\ FreshOK(new)
CallsOK == calls' = calls \/ \E c \in Calls : Moves(c)

\* A call that returns respects the invariant.
LEMMA FinishMoves ==
  ASSUME NEW c \in Calls, Finish(c), disasmID' \in Nat
  PROVE  Moves(c)
<1>1. /\ Idle.dis = 0 /\ Idle.pc = "idle" /\ Idle.op = "none"
      /\ Idle \in CallRecord
  BY ConstantsTyped DEF Idle
<1>2. RunOK(c, Idle) /\ LoadOK(c, Idle) /\ FreshOK(Idle)
  BY <1>1 DEF RunOK, LoadOK, FreshOK, Running, Loading, Navigations
<1> QED BY <1>1, <1>2 DEF Finish, Moves

\* So does one that enters runDisassembly with addresses of the loaded image.
LEMMA RunMoves ==
  ASSUME TypeOK, NEW c \in Calls, NEW call \in CallRecord, BeginRun(c, call),
         image' \in Nat, form' \in Form, form'.at \in Of(image'),
         call.op \in Navigations
           => /\ call.source \in Of(image') /\ call.dest \in Of(image')
              /\ Range(call.rest) \subseteq RowsOf(image')
  PROVE  Moves(c) /\ disasmID' = disasmID + 1
<1> DEFINE n == disasmID + 1
           numbered == [call EXCEPT !.dis = n]
<1>1. n \in Nat
  BY DEF TypeOK
<1>2. disasmID' = n /\ RunOutcome(c, numbered)
  BY BeginRunOutcome
<1> HIDE DEF n
<1>3. numbered \in CallRecord /\ numbered.dis = n
  BY <1>1 DEF CallRecord
<1>4. numbered.op \in Navigations
        => /\ numbered.source \in Of(image') /\ numbered.dest \in Of(image')
           /\ Range(numbered.rest) \subseteq RowsOf(image')
  BY DEF CallRecord
<1> HIDE DEF numbered
<1>5. CASE calls' = [calls EXCEPT ![c] = Idle]
  <2>1. /\ Idle.dis = 0 /\ Idle.pc = "idle" /\ Idle.op = "none"
        /\ Idle \in CallRecord
    BY ConstantsTyped DEF Idle
  <2>2. RunOK(c, Idle) /\ LoadOK(c, Idle) /\ FreshOK(Idle)
    BY <1>1, <1>2, <2>1 DEF RunOK, LoadOK, FreshOK, Running, Loading, Navigations
  <2> QED BY <1>2, <1>5, <2>1, <2>2 DEF Moves, n
<1>6. CASE calls' = [calls EXCEPT ![c] = [numbered EXCEPT !.pc = "bootRun"]]
  <2> DEFINE new == [numbered EXCEPT !.pc = "bootRun"]
  <2>1. /\ new \in CallRecord /\ new.dis = n /\ new.pc = "bootRun"
        /\ new.op = numbered.op /\ new.source = numbered.source
        /\ new.dest = numbered.dest /\ new.rest = numbered.rest
    BY <1>3 DEF CallRecord, PC, Boots
  <2> HIDE DEF new
  <2>2. RunOK(c, new) /\ LoadOK(c, new) /\ FreshOK(new)
    BY <1>1, <1>2, <1>4, <2>1 DEF RunOK, LoadOK, FreshOK, Running, Loading, n
  <2> QED BY <1>2, <1>6, <2>1, <2>2 DEF Moves, n, new
<1>7. CASE calls' = [calls EXCEPT ![c] =
                       [numbered EXCEPT !.image = image',
                                        !.request = RequestOf(form'),
                                        !.pc = "decode"]]
  <2> DEFINE new == [numbered EXCEPT !.image = image',
                                     !.request = RequestOf(form'),
                                     !.pc = "decode"]
  <2>1. RequestOf(form') \in Request /\ RequestOf(form').at \in Of(image')
    BY RequestTyped DEF RequestOf, Of
  <2>2. /\ new \in CallRecord /\ new.dis = n /\ new.pc = "decode"
        /\ new.op = numbered.op /\ new.source = numbered.source
        /\ new.dest = numbered.dest /\ new.rest = numbered.rest
        /\ new.request = RequestOf(form')
    BY <1>3, <2>1 DEF CallRecord, PC
  <2> HIDE DEF new
  <2>3. RunOK(c, new) /\ LoadOK(c, new) /\ FreshOK(new)
    BY <1>1, <1>2, <1>4, <2>1, <2>2
       DEF RunOK, LoadOK, FreshOK, Running, Loading, n
  <2> QED BY <1>2, <1>7, <2>2, <2>3 DEF Moves, n, new
<1> QED BY <1>2, <1>5, <1>6, <1>7 DEF RunOutcome, n

\* The numbering of requests survives any such move, and a listing that stays
\* or is cleared.
LEMMA RunsKept ==
  ASSUME TypeOK, TypeOK', RunsNumbered, CallsOK,
         disasmID' \in {disasmID, disasmID + 1},
         disasm'.id \in {disasm.id, 0}
  PROVE  RunsNumbered'
<1>1. /\ disasmID \in Nat /\ disasmID' \in Nat /\ disasmID <= disasmID'
      /\ disasm.id \in Nat
      /\ \A d \in Calls : calls[d].dis \in Nat
  BY DEF TypeOK, CallRecord
<1>2. CASE calls' = calls
  BY <1>1, <1>2 DEF RunsNumbered
<1>3. ASSUME NEW c \in Calls, Moves(c) PROVE RunsNumbered'
  <2>1. PICK new \in CallRecord :
          calls' = [calls EXCEPT ![c] = new] /\ RunOK(c, new)
    BY <1>3 DEF Moves
  <2>2. /\ calls'[c] = new /\ \A d \in Calls \ {c} : calls'[d] = calls[d]
        /\ new.dis \in Nat
    BY <2>1 DEF TypeOK, CallRecord
  <2>3. /\ disasm'.id <= disasmID'
        /\ \A d \in Calls : calls'[d].dis <= disasmID'
    BY <1>1, <2>1, <2>2 DEF RunsNumbered, RunOK
  <2>4. ASSUME NEW d \in Calls, calls'[d].pc \in Running
        PROVE  0 < calls'[d].dis /\ calls'[d].dis # disasm'.id
    <3>1. CASE d # c
      BY <1>1, <2>2, <2>4, <3>1 DEF RunsNumbered
    <3>2. CASE d = c /\ new.dis = disasmID' /\ disasmID' = disasmID + 1
      BY <1>1, <2>2, <3>2 DEF RunsNumbered
    <3>3. CASE d = c /\ calls[c].pc \in Running /\ new.dis = calls[c].dis
      BY <1>1, <2>2, <3>3 DEF RunsNumbered
    <3> QED BY <2>1, <2>2, <2>4, <3>1, <3>2, <3>3 DEF RunOK
  <2>5. ASSUME NEW d \in Calls, d # c, calls[d].pc \in Running,
               new.pc \in Running
        PROVE  calls[d].dis # new.dis
    <3>1. CASE new.dis = disasmID' /\ disasmID' = disasmID + 1
      BY <1>1, <3>1 DEF RunsNumbered
    <3>2. CASE calls[c].pc \in Running /\ new.dis = calls[c].dis
      BY <2>5, <3>2 DEF RunsNumbered
    <3> QED BY <2>1, <2>5, <3>1, <3>2 DEF RunOK
  <2>6. ASSUME NEW d \in Calls, NEW e \in Calls,
               calls'[d].pc \in Running, calls'[e].pc \in Running,
               calls'[d].dis = calls'[e].dis
        PROVE  d = e
    <3>1. CASE d # c /\ e # c
      BY <2>2, <2>6, <3>1 DEF RunsNumbered
    <3> QED BY <2>2, <2>5, <2>6, <3>1
  <2> QED BY <2>3, <2>4, <2>6 DEF RunsNumbered
<1> QED BY <1>2, <1>3 DEF CallsOK

\* The numbering of loads survives any such move.
LEMMA LoadsKept ==
  ASSUME TypeOK, TypeOK', LoadsNumbered, CallsOK,
         loadID' \in {loadID, loadID + 1}, image' = image
  PROVE  LoadsNumbered'
<1>1. /\ loadID \in Nat /\ loadID' \in Nat /\ loadID <= loadID'
      /\ image \in Nat
      /\ \A d \in Calls : calls[d].load \in Nat
  BY DEF TypeOK, CallRecord
<1>2. CASE calls' = calls
  BY <1>1, <1>2 DEF LoadsNumbered
<1>3. ASSUME NEW c \in Calls, Moves(c) PROVE LoadsNumbered'
  <2>1. PICK new \in CallRecord :
          calls' = [calls EXCEPT ![c] = new] /\ LoadOK(c, new)
    BY <1>3 DEF Moves
  <2>2. /\ calls'[c] = new /\ \A d \in Calls \ {c} : calls'[d] = calls[d]
        /\ new.load \in Nat
    BY <2>1 DEF TypeOK, CallRecord
  <2>3. ASSUME NEW d \in Calls, calls'[d].pc \in Loading
        PROVE  /\ calls'[d].op = "load"
               /\ calls'[d].load <= loadID' /\ calls'[d].load # image'
    <3>1. CASE d # c
      BY <1>1, <2>2, <2>3, <3>1 DEF LoadsNumbered
    <3>2. CASE d = c /\ new.load = loadID' /\ loadID' = loadID + 1
      BY <1>1, <2>1, <2>2, <2>3, <3>2 DEF LoadsNumbered, LoadOK
    <3>3. CASE d = c /\ calls[c].pc \in Loading /\ new.load = calls[c].load
      BY <1>1, <2>1, <2>2, <2>3, <3>3 DEF LoadsNumbered, LoadOK
    <3> QED BY <2>1, <2>2, <2>3, <3>1, <3>2, <3>3 DEF LoadOK
  <2>4. ASSUME NEW d \in Calls, d # c, calls[d].pc \in Loading,
               new.pc \in Loading
        PROVE  calls[d].load # new.load
    <3>1. CASE new.load = loadID' /\ loadID' = loadID + 1
      BY <1>1, <2>4, <3>1 DEF LoadsNumbered
    <3>2. CASE calls[c].pc \in Loading /\ new.load = calls[c].load
      BY <2>4, <3>2 DEF LoadsNumbered
    <3> QED BY <2>1, <2>4, <3>1, <3>2 DEF LoadOK
  <2>5. ASSUME NEW d \in Calls, NEW e \in Calls,
               calls'[d].pc \in Loading, calls'[e].pc \in Loading,
               calls'[d].load = calls'[e].load
        PROVE  d = e
    <3>1. CASE d # c /\ e # c
      BY <2>2, <2>5, <3>1 DEF LoadsNumbered
    <3> QED BY <2>2, <2>4, <2>5, <3>1
  <2>6. image' <= loadID'
    BY <1>1 DEF LoadsNumbered
  <2> QED BY <2>3, <2>5, <2>6 DEF LoadsNumbered
<1> QED BY <1>2, <1>3 DEF CallsOK

\* What the newest call captured stays of the loaded image: a step that loads
\* another image also makes every other call stale.
LEMMA FreshKept ==
  ASSUME TypeOK, TypeOK', RunsNumbered, FreshOfImage, CallsOK,
         disasmID' \in {disasmID, disasmID + 1},
         form'.at \in Of(image'),
         image' = image \/ (disasmID' = disasmID + 1 /\ \E c \in Calls : Moves(c))
  PROVE  FreshOfImage'
<1>1. /\ disasmID \in Nat /\ disasmID' \in Nat
      /\ \A d \in Calls : calls[d].dis \in Nat /\ calls[d].dis <= disasmID
  BY DEF TypeOK, CallRecord, RunsNumbered
<1>2. ASSUME NEW d \in Calls, calls'[d] = calls[d], calls'[d].dis = disasmID'
      PROVE  /\ calls'[d].op \in Navigations
                  => /\ calls'[d].source \in Of(image')
                     /\ calls'[d].dest \in Of(image')
                     /\ Range(calls'[d].rest) \subseteq RowsOf(image')
             /\ calls'[d].pc = "decode" => calls'[d].request.at \in Of(image')
  <2>1. disasmID' = disasmID
    BY <1>1, <1>2
  <2>2. image' = image
    BY <1>1, <2>1
  <2> QED BY <1>2, <2>1, <2>2 DEF FreshOfImage
<1>3. CASE calls' = calls
  BY <1>2, <1>3 DEF FreshOfImage
<1>4. ASSUME NEW c \in Calls, Moves(c) PROVE FreshOfImage'
  <2>1. PICK new \in CallRecord :
          calls' = [calls EXCEPT ![c] = new] /\ FreshOK(new)
    BY <1>4 DEF Moves
  <2>2. calls'[c] = new /\ \A d \in Calls \ {c} : calls'[d] = calls[d]
    BY <2>1 DEF TypeOK
  <2>3. ASSUME NEW d \in Calls, calls'[d].dis = disasmID'
        PROVE  /\ calls'[d].op \in Navigations
                    => /\ calls'[d].source \in Of(image')
                       /\ calls'[d].dest \in Of(image')
                       /\ Range(calls'[d].rest) \subseteq RowsOf(image')
               /\ calls'[d].pc = "decode" => calls'[d].request.at \in Of(image')
    <3>1. CASE d = c
      BY <2>1, <2>2, <2>3, <3>1 DEF FreshOK
    <3>2. CASE d # c
      BY <1>2, <2>2, <2>3, <3>2
    <3> QED BY <3>1, <3>2
  <2> QED BY <2>3 DEF FreshOfImage
<1> QED BY <1>3, <1>4 DEF CallsOK

\* A step that leaves image and listing alone and moves the counters forward.
Starts(c) ==
  /\ Moves(c)
  /\ disasmID' \in {disasmID, disasmID + 1}
  /\ loadID' \in {loadID, loadID + 1}
  /\ form'.at \in Of(image)
  /\ UNCHANGED <<image, display>>

\* decodeAddressRoute starts a request for an address of the loaded image.
LEMMA DecodeAddressRouteStarts ==
  ASSUME IInv, NEW c \in Calls, NEW call \in CallRecord,
         DecodeAddressRoute(c, call),
         call.source \in Of(image), call.dest \in Of(image),
         Range(call.rest) \subseteq RowsOf(image)
  PROVE  Starts(c)
<1>1. TypeOK /\ image' = image /\ image' \in Nat /\ loadID' = loadID
  BY DEF IInv, TypeOK, DecodeAddressRoute
<1>2. /\ form' \in Form /\ form'.at = call.dest
  BY <1>1 DEF DecodeAddressRoute, TypeOK, Form, TargetKind, CallRecord
<1>3. BeginRun(c, call) /\ UNCHANGED display
  BY DEF DecodeAddressRoute
<1>4. Moves(c) /\ disasmID' = disasmID + 1
  BY <1>1, <1>2, <1>3, RunMoves
<1> QED BY <1>1, <1>2, <1>3, <1>4 DEF Starts

\* What a new async call captures comes from the loaded image: the controls, the
\* active route and the lists.
LEMMA StartCallStarts ==
  ASSUME IInv, NEW c \in Calls, StartCall(c)
  PROVE  Starts(c)
<1>0. /\ TypeOK
      /\ loadID \in Nat /\ disasmID \in Nat /\ image \in Nat
      /\ form \in Form /\ form.at \in Of(image)
  BY DEF IInv, TypeOK, FreshOfImage
<1>1. /\ Idle \in CallRecord /\ Idle.dis = 0 /\ Idle.op = "none"
      /\ Idle.source = NoAddress /\ Idle.dest = NoAddress /\ Idle.rest = <<>>
  BY ConstantsTyped DEF Idle
<1>2. CASE Bootstrap(c)
  <2> DEFINE new == [Call("bootstrap") EXCEPT !.pc = "boot"]
  <2>1. /\ new \in CallRecord /\ new.pc = "boot" /\ new.op = "bootstrap"
        /\ new.dis = 0
    BY <1>1 DEF Call, CallRecord, PC, Boots, Ops
  <2>2. calls' = [calls EXCEPT ![c] = new] /\ UNCHANGED <<requests, image, form, display>>
    BY <1>2 DEF Bootstrap, Suspend
  <2> HIDE DEF new
  <2>3. RunOK(c, new) /\ LoadOK(c, new) /\ FreshOK(new)
    BY <1>0, <2>1, <2>2
       DEF RunOK, LoadOK, FreshOK, Running, Loading, Navigations, requests
  <2> QED BY <1>0, <2>1, <2>2, <2>3 DEF Moves, Starts, requests
<1>3. CASE LoadFile(c)
  <2> DEFINE m == loadID + 1
             call == [Call("load") EXCEPT !.load = m]
  <2>1. m \in Nat
    BY <1>0
  <2>2. /\ loadID' = m /\ disasmID' = disasmID + 1
        /\ UNCHANGED <<image, form, display>>
    BY <1>3 DEF LoadFile
  <2>3. PICK pc \in Loading : calls' = [calls EXCEPT ![c] = [call EXCEPT !.pc = pc]]
    BY <1>3 DEF LoadFile, Suspend, Loading
  <2> HIDE DEF m
  <2> DEFINE new == [call EXCEPT !.pc = pc]
  <2>4. /\ new \in CallRecord /\ new.pc \in Loading /\ new.op = "load"
        /\ new.dis = 0 /\ new.load = m
    BY <1>1, <2>1 DEF Call, CallRecord, PC, Boots, Ops, Loading
  <2> HIDE DEF new
  <2>5. RunOK(c, new) /\ LoadOK(c, new) /\ FreshOK(new)
    BY <1>0, <2>2, <2>4
       DEF RunOK, LoadOK, FreshOK, Running, Loading, Navigations, m
  <2>6. Moves(c)
    BY <2>3, <2>4, <2>5 DEF Moves, new
  <2> QED BY <1>0, <2>2, <2>6 DEF Starts, m
<1>4. CASE Run(c)
  <2>1. /\ BeginRun(c, Call("run"))
        /\ UNCHANGED <<loadID, image, form, display>>
    BY <1>4 DEF Run
  <2>2. Call("run") \in CallRecord /\ Call("run").op = "run"
    BY <1>1 DEF Call, CallRecord, Ops
  <2>3. Moves(c) /\ disasmID' = disasmID + 1
    BY <1>0, <2>1, <2>2, RunMoves DEF Navigations
  <2> QED BY <1>0, <2>1, <2>3 DEF Starts
<1>5. active \in Of(image)
  BY DEF IInv, RoutesOfLoadedImage, Of
<1>6. CASE Jump(c)
  <2>1. PICK a \in RowsOf(image) :
          DecodeAddressRoute(c, [Call("jump") EXCEPT !.source = active,
                                                     !.dest = a])
    BY <1>6 DEF Jump
  <2> DEFINE call == [Call("jump") EXCEPT !.source = active, !.dest = a]
  <2>2. a \in MaybeAddress /\ a \in Of(image) /\ active \in MaybeAddress
    BY <1>0, RowsTyped DEF MaybeAddress, TypeOK, Of
  <2>3. /\ call \in CallRecord /\ call.source = active /\ call.dest = a
        /\ call.rest = <<>>
    BY <1>1, <2>2 DEF Call, CallRecord, Ops
  <2>4. Range(call.rest) \subseteq RowsOf(image)
    BY <2>3 DEF Range
  <2> HIDE DEF call
  <2> QED BY <2>1, <2>2, <2>3, <2>4, <1>5, DecodeAddressRouteStarts DEF call
<1>7. ASSUME NEW op \in {"back", "forward"}, NEW list \in Seq(Address),
             Range(list) \subseteq RowsOf(image), Navigate(c, op, list)
      PROVE  Starts(c)
  <2> DEFINE call == [Call(op) EXCEPT !.source = active, !.dest = Head(list),
                                      !.rest = Tail(list)]
  <2>1. /\ Head(list) \in Address /\ Tail(list) \in Seq(Address)
        /\ Len(Tail(list)) = Len(list) - 1
        /\ \A i \in 1 .. Len(Tail(list)) : Tail(list)[i] = list[i + 1]
    BY <1>7, HeadTailProperties DEF Navigate
  <2>2. /\ Len(list) \in Nat \ {0} /\ DOMAIN list = 1..Len(list)
        /\ DOMAIN Tail(list) = 1 .. Len(Tail(list))
    BY <1>7, <2>1, LenProperties, EmptySeq DEF Navigate
  <2>3. Head(list) = list[1] /\ 1 \in DOMAIN list
    BY <1>7, <2>2 DEF Navigate
  <2>4. Head(list) \in Of(image)
    BY <1>7, <2>3 DEF Of, Range
  <2>5. Range(Tail(list)) \subseteq RowsOf(image)
    <3>1. \A i \in DOMAIN Tail(list) : Tail(list)[i] \in Range(list)
      BY <2>1, <2>2 DEF Range
    <3> QED BY <3>1, <1>7 DEF Range
  <2>6. /\ call \in CallRecord /\ call.source = active
        /\ call.dest = Head(list) /\ call.rest = Tail(list)
    BY <1>0, <1>1, <2>1 DEF Call, CallRecord, TypeOK, Ops, MaybeAddress
  <2>7. DecodeAddressRoute(c, call)
    BY <1>7 DEF Navigate
  <2> HIDE DEF call
  <2> QED BY <2>4, <2>5, <2>6, <2>7, <1>5, DecodeAddressRouteStarts
<1>8. /\ back \in Seq(Address) /\ forward \in Seq(Address)
      /\ Range(back) \subseteq RowsOf(image)
      /\ Range(forward) \subseteq RowsOf(image)
  <2>1. NoAddress \notin Range(back) /\ NoAddress \notin Range(forward)
    BY <1>0, RangeOfSeq, NoAddressAssumption DEF TypeOK
  <2> QED BY <1>0, <2>1 DEF IInv, TypeOK, RoutesOfLoadedImage
<1>9. CASE NavigateBack(c)
  BY <1>7, <1>8, <1>9 DEF NavigateBack
<1>10. CASE NavigateForward(c)
  BY <1>7, <1>8, <1>10 DEF NavigateForward
<1>11. ASSUME NEW s \in Surfaces, LoadSurface(c, s) PROVE Starts(c)
  <2>1. PICK new \in {[Call(s) EXCEPT !.image = image, !.pc = "fetch"],
                      [Call(s) EXCEPT !.pc = "bootSurface"]} :
          calls' = [calls EXCEPT ![c] = new]
    BY <1>11 DEF LoadSurface, Suspend
  <2>2. /\ new \in CallRecord /\ new.op \in Surfaces /\ new.dis = 0
        /\ new.pc \in {"fetch", "bootSurface"}
    BY <1>0, <1>1 DEF Call, CallRecord, PC, Boots, Ops
  <2>3. UNCHANGED <<requests, image, form, display>>
    BY <1>11 DEF LoadSurface
  <2>4. RunOK(c, new) /\ LoadOK(c, new) /\ FreshOK(new)
    BY <1>0, <2>2, <2>3
       DEF RunOK, LoadOK, FreshOK, Running, Loading, Navigations, requests,
           Surfaces, FunctionSurfaces
  <2> QED BY <1>0, <2>1, <2>2, <2>3, <2>4 DEF Moves, Starts, requests
<1> QED BY <1>2, <1>3, <1>4, <1>6, <1>9, <1>10, <1>11 DEF StartCall

\* With the same image, form and listing a step keeps all numbers and captured
\* addresses if it keeps the moves.
LEMMA StartsKeep ==
  ASSUME IInv, TypeOK', NEW c \in Calls, Starts(c)
  PROVE  IInv'
<1>1. /\ CallsOK /\ image' = image /\ UNCHANGED display
      /\ disasmID' \in {disasmID, disasmID + 1}
      /\ loadID' \in {loadID, loadID + 1}
      /\ form'.at \in Of(image')
  BY DEF Starts, CallsOK
<1>2. disasm' = disasm
  BY <1>1 DEF display
<1>3. RunsNumbered'
  BY <1>1, <1>2, RunsKept DEF IInv
<1>4. LoadsNumbered'
  BY <1>1, LoadsKept DEF IInv
<1>5. FreshOfImage'
  BY <1>1, FreshKept DEF IInv
<1>6. ResultOfLoadedImage' /\ RoutesOfLoadedImage'
  BY <1>1 DEF IInv, ResultOfLoadedImage, RoutesOfLoadedImage, display
<1> QED BY <1>3, <1>4, <1>5, <1>6 DEF IInv

\* The listing's rows are rows of the loaded image (none when there is none).
LEMMA RowsOfListing ==
  ASSUME ResultOfLoadedImage
  PROVE  disasm.rows \subseteq RowsOf(image)
<1>1. CASE disasm = NoResult
  BY <1>1 DEF NoResult
<1>2. CASE disasm # NoResult
  BY <1>2 DEF ResultOfLoadedImage
<1> QED BY <1>1, <1>2

\* Gestures that return at once keep the invariant: Cancel only makes requests
\* stale, edits and selections stay within the loaded image.
LEMMA GestureKeeps ==
  ASSUME IInv, TypeOK', Gesture
  PROVE  IInv'
<1>0. /\ TypeOK /\ loadID \in Nat /\ disasmID \in Nat /\ image \in Nat
      /\ form \in Form /\ form.at \in Of(image)
      /\ disasm.rows \subseteq RowsOf(image)
  BY RowsOfListing DEF IInv, TypeOK, FreshOfImage
<1>1. /\ calls' = calls /\ image' = image /\ disasm' = disasm
      /\ disasmID' \in {disasmID, disasmID + 1}
      /\ loadID' \in {loadID, loadID + 1}
  BY DEF Gesture, LoadBadFile, CancelCurrentOperation, Shutdown,
         SelectInstruction, EditTarget, EditWindow, EditFilter, display,
         requests
<1>2. form'.at \in Of(image')
  <2>1. ASSUME NEW k \in TargetKind, NEW a \in RowsOf(image) \cup {NoAddress},
               NEW n \in BOOLEAN, EditTarget(k, a, n)
        PROVE  form'.at \in Of(image)
    BY <1>0, <2>1 DEF EditTarget, Of, Form
  <2>2. ASSUME NEW r \in BOOLEAN, NEW l \in BOOLEAN, EditWindow(r, l)
        PROVE  form'.at \in Of(image)
    BY <1>0, <2>2 DEF EditWindow, Form
  <2>3. \/ form' = form
        \/ \E r, l \in BOOLEAN : EditWindow(r, l)
        \/ \E k \in TargetKind, a \in RowsOf(image) \cup {NoAddress},
              n \in BOOLEAN : EditTarget(k, a, n)
    BY DEF Gesture, LoadBadFile, CancelCurrentOperation, Shutdown,
           SelectInstruction, EditFilter
  <2> QED BY <1>0, <1>1, <2>1, <2>2, <2>3
<1>3. RunsNumbered' /\ LoadsNumbered' /\ FreshOfImage'
  BY <1>1, <1>2, RunsKept, LoadsKept, FreshKept DEF IInv, CallsOK
<1>4. ResultOfLoadedImage'
  BY <1>1 DEF IInv, ResultOfLoadedImage
<1>5. RoutesOfLoadedImage'
  <2>1. ASSUME NEW a \in disasm.rows, NEW r \in BOOLEAN, SelectInstruction(a, r)
        PROVE  RoutesOfLoadedImage'
    <3>1. a \in RowsOf(image) /\ a \in MaybeAddress /\ active \in MaybeAddress
      BY <1>0, RowsTyped DEF MaybeAddress, TypeOK
    <3>2. Range(back') \subseteq Of(image) /\ Range(forward') \subseteq Of(image)
      <4>1. Range(PushSource(back, active, a)) \subseteq Range(back) \cup {active}
        BY <1>0, <3>1, PushSourceSound DEF TypeOK
      <4>2. Range(<<>>) = {}
        BY DEF Range
      <4> QED BY <2>1, <4>1, <4>2
              DEF SelectInstruction, IInv, RoutesOfLoadedImage, Of
    <3>3. Range(recent') \subseteq Of(image) /\ active' \in Of(image)
      <4>1. active' \in {active, a} /\ Range(recent') \subseteq Range(recent) \cup {a}
        BY <1>0, <2>1, <3>1, RecordRecentSound DEF SelectInstruction, TypeOK
      <4> QED BY <3>1, <4>1 DEF IInv, RoutesOfLoadedImage, Of
    <3>4. selected' \in Of(image)
      BY <2>1, <3>1 DEF SelectInstruction, Of
    <3> QED BY <1>1, <3>2, <3>3, <3>4 DEF RoutesOfLoadedImage, Of
  <2>2. ASSUME NEW f \in Filters, EditFilter(f)
        PROVE  RoutesOfLoadedImage'
    <3>0. f \in SUBSET Offsets
      BY FiltersAssumption
    <3>1. selected' \in Of(image) /\ UNCHANGED routes
      BY <1>0, <2>2, <3>0, ReconcileTyped DEF EditFilter, Of, TypeOK
    <3> QED BY <1>1, <3>1 DEF IInv, RoutesOfLoadedImage, Of, routes
  <2>3. \/ UNCHANGED display
        \/ \E a \in disasm.rows, r \in BOOLEAN : SelectInstruction(a, r)
        \/ \E f \in Filters : EditFilter(f)
    BY DEF Gesture, LoadBadFile, CancelCurrentOperation, Shutdown, EditTarget,
           EditWindow
  <2>4. CASE UNCHANGED display
    BY <1>1, <2>4 DEF IInv, RoutesOfLoadedImage, display
  <2> QED BY <2>1, <2>2, <2>3, <2>4
<1> QED BY <1>3, <1>4, <1>5 DEF IInv

\* A step of call c that only changes the call, the client and the flag.
Quiet == UNCHANGED <<requests, image, form, display>>

\* A step that changes nothing but its own call, the client and the flag is a
\* special case of starting one.
LEMMA QuietStarts ==
  ASSUME IInv, NEW c \in Calls, Moves(c), Quiet
  PROVE  Starts(c)
BY DEF IInv, FreshOfImage, Quiet, Starts, requests

\* A call whose wait for the server ends either returns or goes on with what it
\* captured, under the newest number.
LEMMA BootstrapReplyMoves ==
  ASSUME IInv, NEW c \in Calls, NEW ok \in BOOLEAN, BootstrapReply(c, ok)
  PROVE  Moves(c) /\ Quiet
<1>1. /\ TypeOK /\ calls[c] \in CallRecord /\ disasmID \in Nat
      /\ calls[c].dis \in Nat /\ calls[c].dis <= disasmID
      /\ form \in Form /\ form.at \in Of(image) /\ image \in Nat
  BY DEF IInv, TypeOK, CallRecord, RunsNumbered, FreshOfImage
<1>2. Quiet /\ disasmID' = disasmID /\ image' = image /\ form' = form
  BY DEF BootstrapReply, Quiet, requests
<1>3. calls[c].dis = disasmID /\ calls[c].op \in Navigations
        => /\ calls[c].source \in Of(image) /\ calls[c].dest \in Of(image)
           /\ Range(calls[c].rest) \subseteq RowsOf(image)
  BY DEF IInv, FreshOfImage
<1>4. CASE Finish(c)
  BY <1>1, <1>2, <1>4, FinishMoves
<1>5. CASE calls[c].pc = "bootRun" /\ SendDecode(c, calls[c])
  <2>1. RunOutcome(c, calls[c])
    BY <1>1, <1>5, SendDecodeOutcome
  <2>2. CASE calls' = [calls EXCEPT ![c] = Idle]
    <3>1. /\ Idle.dis = 0 /\ Idle.pc = "idle" /\ Idle.op = "none"
          /\ Idle \in CallRecord
      BY ConstantsTyped DEF Idle
    <3>2. RunOK(c, Idle) /\ LoadOK(c, Idle) /\ FreshOK(Idle)
      BY <1>1, <1>2, <3>1
         DEF RunOK, LoadOK, FreshOK, Running, Loading, Navigations
    <3> QED BY <1>2, <2>2, <3>1, <3>2 DEF Moves
  <2>3. CASE calls' = [calls EXCEPT ![c] = [calls[c] EXCEPT !.pc = "bootRun"]]
    <3> DEFINE new == [calls[c] EXCEPT !.pc = "bootRun"]
    <3>1. new = calls[c]
      BY <1>1, <1>5 DEF CallRecord
    <3>2. RunOK(c, new) /\ LoadOK(c, new) /\ FreshOK(new)
      BY <1>1, <1>2, <1>3, <1>5, <3>1 DEF RunOK, LoadOK, FreshOK, Running, Loading
    <3> QED BY <1>1, <1>2, <2>3, <3>1, <3>2 DEF Moves
  <2>4. CASE calls' = [calls EXCEPT ![c] =
                         [calls[c] EXCEPT !.image = image',
                                          !.request = RequestOf(form'),
                                          !.pc = "decode"]]
    <3> DEFINE new == [calls[c] EXCEPT !.image = image',
                                       !.request = RequestOf(form'),
                                       !.pc = "decode"]
    <3>1. RequestOf(form') \in Request /\ RequestOf(form').at \in Of(image)
      BY <1>1, <1>2, RequestTyped DEF RequestOf, Of
    <3>2. /\ new \in CallRecord /\ new.dis = calls[c].dis /\ new.pc = "decode"
          /\ new.op = calls[c].op /\ new.source = calls[c].source
          /\ new.dest = calls[c].dest /\ new.rest = calls[c].rest
          /\ new.request = RequestOf(form')
      BY <1>1, <1>2, <3>1 DEF CallRecord, PC
    <3> HIDE DEF new
    <3>3. RunOK(c, new) /\ LoadOK(c, new) /\ FreshOK(new)
      BY <1>1, <1>2, <1>3, <1>5, <3>1, <3>2
         DEF RunOK, LoadOK, FreshOK, Running, Loading
    <3> QED BY <1>2, <2>4, <3>2, <3>3 DEF Moves, new
  <2> QED BY <2>1, <2>2, <2>3, <2>4 DEF RunOutcome
<1>6. CASE calls[c].pc = "bootLoad" /\ Suspend(c, calls[c], "upload")
  <2> DEFINE new == [calls[c] EXCEPT !.pc = "upload"]
  <2>1. /\ new \in CallRecord /\ new.pc = "upload" /\ new.dis = calls[c].dis
        /\ new.load = calls[c].load /\ new.op = "load"
    BY <1>1, <1>6 DEF CallRecord, PC, IInv, LoadsNumbered, Loading
  <2> HIDE DEF new
  <2>2. RunOK(c, new) /\ LoadOK(c, new) /\ FreshOK(new)
    BY <1>1, <1>2, <1>6, <2>1
       DEF RunOK, LoadOK, FreshOK, Running, Loading, Navigations
  <2> QED BY <1>2, <1>6, <2>1, <2>2 DEF Moves, Suspend, new
<1>7. CASE Suspend(c, [calls[c] EXCEPT !.image = image], "fetch")
  <2> DEFINE new == [calls[c] EXCEPT !.image = image, !.pc = "fetch"]
  <2>1. /\ new \in CallRecord /\ new.pc = "fetch" /\ new.dis = calls[c].dis
        /\ new.op = calls[c].op /\ new.source = calls[c].source
        /\ new.dest = calls[c].dest /\ new.rest = calls[c].rest
    BY <1>1 DEF CallRecord, PC
  <2>2. calls' = [calls EXCEPT ![c] = new]
    BY <1>7 DEF Suspend
  <2> HIDE DEF new
  <2>3. RunOK(c, new) /\ LoadOK(c, new) /\ FreshOK(new)
    BY <1>1, <1>2, <1>3, <2>1 DEF RunOK, LoadOK, FreshOK, Running, Loading
  <2> QED BY <1>2, <2>1, <2>2, <2>3 DEF Moves
<1> QED BY <1>2, <1>4, <1>5, <1>6, <1>7 DEF BootstrapReply, ReturnFalse

\* Installing an image empties what belonged to the old one.
LEMMA UploadInstalledKeeps ==
  ASSUME IInv, TypeOK', NEW c \in Calls, NEW named \in BOOLEAN,
         UploadInstalled(c, named)
  PROVE  IInv' /\ image' > image /\ disasmID' = disasmID + 1 /\ disasm' = NoResult
<1>1. /\ TypeOK /\ calls[c] \in CallRecord /\ calls[c].pc = "upload"
      /\ calls[c].load = loadID /\ calls[c].op = "load" /\ calls[c].load # image
      /\ image <= loadID /\ loadID \in Nat /\ image \in Nat /\ loadID' = loadID
  BY DEF IInv, TypeOK, UploadInstalled, FreshLoad, LoadsNumbered, Loading
<1>2. /\ image' = calls[c].load /\ disasm' = NoResult
      /\ form' = [kind |-> "section", at |-> NoAddress, name |-> named,
                  range |-> TRUE, limit |-> TRUE]
      /\ selected' = NoAddress /\ active' = NoAddress
      /\ recent' = <<>> /\ back' = <<>> /\ forward' = <<>>
  BY DEF UploadInstalled, ResetForLoadedImage
<1>3. /\ image' \in Nat /\ image' > image
      /\ form' \in Form /\ form'.at \in Of(image')
  BY <1>1, <1>2 DEF Form, TargetKind, MaybeAddress, Of
<1>4. Moves(c) /\ disasmID' = disasmID + 1
  BY <1>1, <1>3, RunMoves DEF UploadInstalled, Navigations
<1>5. disasm'.id = 0
  BY <1>2 DEF NoResult
<1>6. RunsNumbered'
  BY <1>1, <1>4, <1>5, RunsKept DEF IInv, CallsOK
<1>7. FreshOfImage'
  BY <1>1, <1>3, <1>4, FreshKept DEF IInv, CallsOK
<1>8. LoadsNumbered'
  <2>1. PICK new \in CallRecord :
          calls' = [calls EXCEPT ![c] = new] /\ new.pc \notin Loading
    <3> DEFINE numbered == [calls[c] EXCEPT !.dis = disasmID + 1]
    <3>0. numbered \in CallRecord
      <4>1. disasmID + 1 \in Nat
        BY <1>1 DEF TypeOK
      <4> QED BY <1>1, <4>1 DEF CallRecord
    <3>1. RunOutcome(c, numbered)
      BY <1>1, BeginRunOutcome DEF UploadInstalled
    <3> HIDE DEF numbered
    <3>2. PICK new \in CallRecord : calls' = [calls EXCEPT ![c] = new]
      BY <1>4 DEF Moves
    <3>3. calls'[c] = new
      BY <1>1, <3>2 DEF TypeOK
    <3>4. calls'[c].pc \in {"idle", "bootRun", "decode"}
      <4>1. PICK v \in {Idle, [numbered EXCEPT !.pc = "bootRun"],
                        [numbered EXCEPT !.image = image',
                                         !.request = RequestOf(form'),
                                         !.pc = "decode"]} :
              calls' = [calls EXCEPT ![c] = v]
        BY <3>1 DEF RunOutcome
      <4>2. v.pc \in {"idle", "bootRun", "decode"}
        <5>1. Idle.pc = "idle"
          BY DEF Idle
        <5>2. [numbered EXCEPT !.pc = "bootRun"].pc = "bootRun"
          BY <3>0 DEF CallRecord
        <5>3. [numbered EXCEPT !.image = image', !.request = RequestOf(form'),
                               !.pc = "decode"].pc = "decode"
          BY <3>0 DEF CallRecord
        <5> QED BY <5>1, <5>2, <5>3
      <4>3. calls'[c] = v
        BY <1>1, <4>1 DEF TypeOK
      <4> QED BY <4>2, <4>3
    <3> QED BY <3>2, <3>3, <3>4 DEF Loading
  <2>2. calls'[c].pc \notin Loading /\ \A d \in Calls \ {c} : calls'[d] = calls[d]
    BY <1>1, <2>1 DEF TypeOK
  <2>3. \A d \in Calls \ {c} : calls[d].pc \in Loading
          => calls[d].load # calls[c].load
    BY <1>1 DEF IInv, LoadsNumbered, Loading
  <2> QED BY <1>1, <1>2, <2>2, <2>3 DEF IInv, LoadsNumbered
<1>9. ResultOfLoadedImage'
  BY <1>2 DEF ResultOfLoadedImage
<1>10. RoutesOfLoadedImage'
  BY <1>2 DEF RoutesOfLoadedImage, Range
<1> QED BY <1>2, <1>3, <1>4, <1>6, <1>7, <1>8, <1>9, <1>10 DEF IInv

\* A decode that is shown belongs to the loaded image, and so does everything
\* the navigation that asked for it had captured.
LEMMA DecodeShownKeeps ==
  ASSUME IInv, TypeOK', NEW c \in Calls,
         NEW rows \in RowsFor(calls[c].request, calls[c].image),
         DecodeShown(c, rows)
  PROVE  /\ IInv' /\ image' = image /\ disasmID' = disasmID
         /\ disasm'.image = image /\ disasm'.id = disasmID
         /\ disasm.id < disasmID
<1>1. /\ TypeOK /\ calls[c] \in CallRecord
      /\ calls[c].pc = "decode" /\ calls[c].dis = disasmID
      /\ calls[c].image = image /\ image \in Nat /\ disasmID \in Nat
      /\ disasm.id \in Nat
  BY DEF IInv, TypeOK, DecodeShown, FreshDecode
<1>2. /\ disasmID' = disasmID /\ loadID' = loadID
      /\ image' = image /\ form' = form
  BY DEF DecodeShown, requests
<1>3. /\ disasm'.image = image /\ disasm'.id = disasmID /\ disasm'.rows = rows
  BY <1>1 DEF DecodeShown
<1>4. disasm.id < disasmID
  BY <1>1 DEF IInv, RunsNumbered, Running
<1>5. calls' = [calls EXCEPT ![c] = Idle] /\ Moves(c)
  BY <1>1, <1>2, FinishMoves DEF DecodeShown, Finish
<1>6. /\ calls'[c] = Idle /\ \A d \in Calls \ {c} : calls'[d] = calls[d]
      /\ Idle.pc \notin Running /\ Idle.dis = 0
  BY <1>1, <1>5 DEF TypeOK, Idle, Running
<1>7. RunsNumbered'
  <2>1. \A d \in Calls \ {c} :
          calls[d].pc \in Running => calls[d].dis # disasmID
    BY <1>1 DEF IInv, RunsNumbered, Running
  <2>2. \A d \in Calls : calls'[d].dis <= disasmID'
    BY <1>1, <1>2, <1>6 DEF IInv, RunsNumbered
  <2>3. disasm'.id <= disasmID'
    BY <1>1, <1>2, <1>3
  <2>4. \A d \in Calls : calls'[d].pc \in Running
          => 0 < calls'[d].dis /\ calls'[d].dis # disasm'.id
    BY <1>3, <1>6, <2>1 DEF IInv, RunsNumbered
  <2>5. \A d, e \in Calls :
          /\ calls'[d].pc \in Running /\ calls'[e].pc \in Running
          /\ calls'[d].dis = calls'[e].dis
          => d = e
    BY <1>6 DEF IInv, RunsNumbered
  <2> QED BY <2>2, <2>3, <2>4, <2>5 DEF RunsNumbered
<1>8. LoadsNumbered'
  BY <1>1, <1>2, <1>5, LoadsKept DEF IInv, CallsOK
<1>9. FreshOfImage'
  <2>1. form'.at \in Of(image')
    BY <1>2 DEF IInv, FreshOfImage
  <2> QED BY <1>1, <1>2, <1>5, <2>1, FreshKept DEF IInv, CallsOK
<1>10. rows \subseteq RowsOf(image) /\ rows \in SUBSET Address
  BY <1>1, RowsForTyped
<1>11. ResultOfLoadedImage'
  BY <1>2, <1>3, <1>10 DEF ResultOfLoadedImage
<1>12. selected' \in Of(image)
  BY <1>10, ReconcileTyped DEF DecodeShown, Of
<1>13. calls[c].request.at \in Of(image) /\ calls[c].request \in Request
  BY <1>1 DEF IInv, FreshOfImage, CallRecord
<1>14. active' \in Of(image) /\ Range(recent') \subseteq Of(image)
  <2> DEFINE a == IF calls[c].request.kind = "address"
                  THEN calls[c].request.at ELSE selected'
  <2>1. a \in MaybeAddress /\ a \in Of(image)
    BY <1>12, <1>13 DEF Request, TypeOK
  <2>2. RecordRecent(a)
    BY DEF DecodeShown
  <2> HIDE DEF a
  <2>3. active' \in {active, a} /\ Range(recent') \subseteq Range(recent) \cup {a}
    BY <1>1, <2>1, <2>2, RecordRecentSound DEF TypeOK
  <2> QED BY <2>1, <2>3 DEF IInv, RoutesOfLoadedImage, Of
<1>15. Range(back') \subseteq Of(image) /\ Range(forward') \subseteq Of(image)
  <2> DEFINE s == calls[c].source
             d == calls[c].dest
  <2>1. /\ Range(back) \subseteq Of(image) /\ Range(forward) \subseteq Of(image)
        /\ back \in Seq(Address) /\ forward \in Seq(Address)
        /\ s \in MaybeAddress
    BY <1>1 DEF IInv, RoutesOfLoadedImage, Of, TypeOK, CallRecord
  <2>2. calls[c].op \in Navigations
          => s \in Of(image) /\ Range(calls[c].rest) \subseteq Of(image)
    BY <1>1 DEF IInv, FreshOfImage, Of
  <2>3. /\ Range(PushSource(back, s, d)) \subseteq Range(back) \cup {s}
        /\ Range(PushSource(forward, s, d)) \subseteq Range(forward) \cup {s}
    BY <2>1, PushSourceSound
  <2>4. Range(<<>>) = {}
    BY DEF Range
  <2>5. CommitNavigation(calls[c])
    BY DEF DecodeShown
  <2> QED BY <2>1, <2>2, <2>3, <2>4, <2>5 DEF CommitNavigation, Navigations
<1>16. RoutesOfLoadedImage'
  BY <1>2, <1>12, <1>14, <1>15 DEF RoutesOfLoadedImage, Of
<1> QED BY <1>2, <1>3, <1>4, <1>7, <1>8, <1>9, <1>11, <1>16 DEF IInv

\* Answers that are dropped, and answers of the surfaces, only end their call.
LEMMA DroppedStarts ==
  ASSUME IInv, NEW c \in Calls, NEW ok \in BOOLEAN,
         \/ UploadDropped(c, ok) \/ DecodeDropped(c, ok) \/ SurfaceReply(c, ok)
  PROVE  Starts(c)
<1>1. Finish(c) /\ Quiet
  BY DEF UploadDropped, DecodeDropped, SurfaceReply, Quiet
<1>2. disasmID' \in Nat
  BY <1>1 DEF IInv, TypeOK, Quiet, requests
<1> QED BY <1>1, <1>2, FinishMoves, QuietStarts

\* Every answer keeps the invariant.
LEMMA ResumeKeeps ==
  ASSUME IInv, TypeOK', NEW c \in Calls, Resume(c)
  PROVE  IInv'
<1>1. ASSUME NEW ok \in BOOLEAN, BootstrapReply(c, ok) PROVE IInv'
  BY <1>1, BootstrapReplyMoves, QuietStarts, StartsKeep
<1>2. ASSUME NEW ok \in BOOLEAN,
             UploadDropped(c, ok) \/ DecodeDropped(c, ok) \/ SurfaceReply(c, ok)
      PROVE  IInv'
  BY <1>2, DroppedStarts, StartsKeep
<1>3. ASSUME NEW named \in BOOLEAN, UploadInstalled(c, named) PROVE IInv'
  BY <1>3, UploadInstalledKeeps
<1>4. ASSUME NEW rows \in RowsFor(calls[c].request, calls[c].image),
             DecodeShown(c, rows)
      PROVE  IInv'
  BY <1>4, DecodeShownKeeps
<1> QED BY <1>1, <1>2, <1>3, <1>4 DEF Resume

\* The invariant holds before anything happened.
LEMMA InitInv == Init => IInv
<1> SUFFICES ASSUME Init PROVE IInv
  OBVIOUS
<1>1. TypeOK
  BY InitTyped
<1>2. /\ disasm.id = 0 /\ disasmID = 0 /\ loadID = 0 /\ image = 0
      /\ form.at = NoAddress
      /\ \A c \in Calls : /\ calls[c].pc = "idle" /\ calls[c].op = "none"
                          /\ calls[c].dis = 0
  BY DEF Init, NoResult, Idle
<1>3. RunsNumbered /\ LoadsNumbered /\ FreshOfImage
  BY <1>2 DEF RunsNumbered, LoadsNumbered, FreshOfImage, Running, Loading,
              Navigations, Of
<1>4. ResultOfLoadedImage /\ RoutesOfLoadedImage
  BY DEF Init, ResultOfLoadedImage, RoutesOfLoadedImage, Range
<1> QED BY <1>1, <1>3, <1>4 DEF IInv

\* Every step keeps the invariant.
LEMMA NextInv == IInv /\ [Next]_vars => IInv'
<1> SUFFICES ASSUME IInv, [Next]_vars PROVE IInv'
  OBVIOUS
<1>1. TypeOK'
  BY GestureTyped, StartCallTyped, ResumeTyped, StutterTyped DEF Next, IInv
<1>2. CASE Gesture
  BY <1>1, <1>2, GestureKeeps
<1>3. ASSUME NEW c \in Calls, StartCall(c) PROVE IInv'
  BY <1>1, <1>3, StartCallStarts, StartsKeep
<1>4. ASSUME NEW c \in Calls, Resume(c) PROVE IInv'
  BY <1>1, <1>4, ResumeKeeps
<1>5. CASE UNCHANGED vars
  BY <1>1, <1>5 DEF vars, IInv, RunsNumbered, LoadsNumbered, FreshOfImage,
                    ResultOfLoadedImage, RoutesOfLoadedImage, Of
<1> QED BY <1>2, <1>3, <1>4, <1>5 DEF Next

\* The inductive invariant: numbers tell loads and requests apart, and what the
\* newest request captured belongs to the loaded image.
THEOREM Invariance == Spec => []IInv
<1> QED BY InitInv, NextInv, PTL DEF Spec
-----------------------------------------------------------------------------
(* What follows.                                                           *)

\* The listing on screen is always one of the loaded image: an answer that
\* arrives late, whatever happened meanwhile, never shows another image.
THEOREM ResultCorrect == Spec => []ResultOfLoadedImage
<1>1. IInv => ResultOfLoadedImage
  BY DEF IInv
<1> QED BY <1>1, Invariance, PTL

\* No address captured before an await outlives the image it was taken from.
THEOREM RoutesCorrect == Spec => []RoutesOfLoadedImage
<1>1. IInv => RoutesOfLoadedImage
  BY DEF IInv
<1> QED BY <1>1, Invariance, PTL

\* How any step looks to someone who only sees image, listing and counter.
LEMMA StepOnScreen ==
  ASSUME IInv, [Next]_vars
  PROVE  \/ UNCHANGED <<image, disasm>> /\ disasmID' \in {disasmID, disasmID + 1}
         \/ /\ image' \in Nat /\ image' > image
            /\ disasm' = NoResult /\ disasmID' = disasmID + 1
         \/ /\ disasm'.id = disasmID /\ disasm'.image = image
            /\ disasm.id < disasmID /\ UNCHANGED <<image, disasmID>>
<1>1. TypeOK'
  BY GestureTyped, StartCallTyped, ResumeTyped, StutterTyped DEF Next, IInv
<1>2. CASE Gesture
  BY <1>2 DEF Gesture, LoadBadFile, CancelCurrentOperation, Shutdown,
              SelectInstruction, EditTarget, EditWindow, EditFilter, display,
              requests
<1>3. ASSUME NEW c \in Calls, Starts(c)
      PROVE  /\ UNCHANGED <<image, disasm>>
             /\ disasmID' \in {disasmID, disasmID + 1}
  BY <1>3 DEF Starts, display
<1>4. ASSUME NEW c \in Calls, NEW named \in BOOLEAN, UploadInstalled(c, named)
      PROVE  /\ image' \in Nat /\ image' > image
             /\ disasm' = NoResult /\ disasmID' = disasmID + 1
  BY <1>1, <1>4, UploadInstalledKeeps DEF TypeOK
<1>5. ASSUME NEW c \in Calls,
             NEW rows \in RowsFor(calls[c].request, calls[c].image),
             DecodeShown(c, rows)
      PROVE  /\ disasm'.id = disasmID /\ disasm'.image = image
             /\ disasm.id < disasmID /\ UNCHANGED <<image, disasmID>>
  BY <1>1, <1>5, DecodeShownKeeps
<1>6. CASE UNCHANGED vars
  BY <1>6 DEF vars
<1>7. ASSUME NEW c \in Calls, StartCall(c) PROVE Starts(c)
  BY <1>7, StartCallStarts
<1>8. ASSUME NEW c \in Calls, NEW ok \in BOOLEAN,
             \/ BootstrapReply(c, ok) \/ UploadDropped(c, ok)
             \/ DecodeDropped(c, ok) \/ SurfaceReply(c, ok)
      PROVE  Starts(c)
  BY <1>8, BootstrapReplyMoves, QuietStarts, DroppedStarts
<1> QED BY <1>2, <1>3, <1>4, <1>5, <1>6, <1>7, <1>8 DEF Next, Resume

\* A listing is only ever replaced by the answer to a later request, the latest
\* one anybody made.
THEOREM NewestWins == Spec => NewestRequestWins
<1>1. ASSUME IInv, [Next]_vars, disasm' # disasm, disasm' # NoResult
      PROVE  /\ disasm'.id > disasm.id
             /\ \A c \in Calls : calls[c].dis <= disasm'.id
  <2>1. disasm'.id = disasmID /\ disasm.id < disasmID
    BY <1>1, StepOnScreen
  <2>2. disasm.id \in Nat /\ disasmID \in Nat
    BY <1>1 DEF IInv, TypeOK
  <2> QED BY <1>1, <2>1, <2>2 DEF IInv, RunsNumbered
<1>2. IInv /\ [Next]_vars
        => [disasm' # disasm /\ disasm' # NoResult
              => /\ disasm'.id > disasm.id
                 /\ \A c \in Calls : calls[c].dis <= disasm'.id]_vars
  BY <1>1
<1> QED BY <1>2, Invariance, PTL DEF Spec, NewestRequestWins

\* The store implements ListingScreen: a reader of the screen may reason with
\* its three actions instead of the store's twenty.
THEOREM Refinement == Spec => ScreenSpec
<1> DEFINE shown == [image |-> disasm.image, request |-> disasm.id]
<1>1. Init => Screen!Init
  BY DEF Init, Screen!Init, Screen!Nothing, NoResult
<1>2. IInv /\ [Next]_vars => [Screen!Next]_<<image, shown, disasmID>>
  <2> SUFFICES ASSUME IInv, [Next]_vars
               PROVE  [Screen!Next]_<<image, shown, disasmID>>
    OBVIOUS
  <2>1. disasm.id \in Nat /\ disasmID \in Nat /\ image \in Nat
    BY DEF IInv, TypeOK
  <2>2. CASE UNCHANGED <<image, disasm>> /\ disasmID' \in {disasmID, disasmID + 1}
    <3>1. shown' = shown /\ image' = image
      BY <2>2
    <3> QED BY <2>2, <3>1 DEF Screen!Next, Screen!Supersede
  <2>3. CASE /\ image' \in Nat /\ image' > image
             /\ disasm' = NoResult /\ disasmID' = disasmID + 1
    <3>1. shown' = Screen!Nothing
      BY <2>3 DEF NoResult, Screen!Nothing
    <3> QED BY <2>3, <3>1 DEF Screen!Next, Screen!Install
  <2>4. CASE /\ disasm'.id = disasmID /\ disasm'.image = image
             /\ disasm.id < disasmID /\ UNCHANGED <<image, disasmID>>
    <3>1. shown' = [image |-> image, request |-> disasmID]
      BY <2>4
    <3>2. shown.request # disasmID
      BY <2>1, <2>4
    <3> QED BY <2>4, <3>1, <3>2 DEF Screen!Next, Screen!Show
  <2> QED BY <2>2, <2>3, <2>4, StepOnScreen
<1> QED BY <1>1, <1>2, Invariance, PTL DEF Spec, ScreenSpec, Screen!Spec
=============================================================================
