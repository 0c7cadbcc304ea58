----------------------------- MODULE CodeWindow -----------------------------
(***************************************************************************)
(* Which bytes a disassembly request decodes, and why it stopped           *)
(* (damsel-macho/src/disasm.rs, resolve_disassembly_target_v2 ..           *)
(* determine_stop_reason; capstone decodes words until one is invalid).    *)
(*                                                                         *)
(* An image has `sections` (name, start, size in bytes, backed: it has     *)
(* bytes in the file), `symbols` (name, address, size, defined) and        *)
(* `code`: the instruction at every address where the bytes decode.  A     *)
(* section that is backed has a byte in the file for each of its           *)
(* addresses.                                                              *)
(***************************************************************************)
EXTENDS Integers, SequencesExt

CONSTANT WordSize    \* bytes of an instruction

ASSUME WordSizeAssumption == WordSize \in Nat \ {0}

EndOf(section) == section.start + section.size
Covers(section, address) == section.start <= address /\ address < EndOf(section)

\* The first item of a sequence with a property, if any.
FirstWith(seq, Test(_)) ==
  LET n == SelectInSeq(seq, Test) IN IF n = 0 THEN {} ELSE {seq[n]}

\* containing_section
Containing(image, address) == FirstWith(image.sections, LAMBDA s : Covers(s, address))

-----------------------------------------------------------------------------
(* The window.                                                             *)

\* The bytes a limit allows.
Allowed(limit, natural) ==
  CASE limit.k = "Instructions" -> limit.n * WordSize
    [] limit.k = "Bytes" -> limit.n
    [] limit.k = "Unlimited" -> natural

\* A window of `natural` bytes cut by the limit.
Clipped(start, natural, limit) ==
  LET size == Min({Allowed(limit, natural), natural})
  IN [start |-> start, size |-> size, limited |-> size < natural]

\* next_symbol_boundary
NextSymbol(image, symbol, section) ==
  LET later == {s.address : s \in {t \in Range(image.symbols) :
                  /\ t.defined /\ t.address > symbol.address
                  /\ \E c \in Containing(image, t.address) : c.name = section.name}}
  IN IF later = {} THEN {} ELSE {Min(later)}

\* The bytes of a symbol: its size, or up to the next symbol or the section's end.
SymbolSize(image, symbol, section) ==
  LET inferred == IF symbol.size > 0 THEN symbol.size
                  ELSE Min({EndOf(section)} \cup NextSymbol(image, symbol, section)) - symbol.address
  IN Min({inferred, EndOf(section) - symbol.address})

\* The section a target lies in; none when there is no such target.
SectionOf(image, target) ==
  CASE target.k = "Section" -> FirstWith(image.sections, LAMBDA s : s.name = target.name)
    [] target.k = "Address" -> Containing(image, target.address)
    [] target.k = "Symbol" ->
         UNION {Containing(image, s.address) : s \in FirstWith(image.symbols, LAMBDA t : t.name = target.name)}

\* The whole extent of a target, its start and its bytes.
Extent(image, target, section) ==
  CASE target.k = "Section" -> [start |-> section.start, size |-> section.size]
    [] target.k = "Address" -> [start |-> target.address, size |-> EndOf(section) - target.address]
    [] target.k = "Symbol" ->
         LET s == image.symbols[SelectInSeq(image.symbols, LAMBDA t : t.name = target.name)]
         IN [start |-> s.address, size |-> SymbolSize(image, s, section)]

\* clamp_target_window_to_range
ClampToRange(window, range) ==
  LET from == Max({range.from, window.start})
      to == Min({range.to, window.start + window.size})
  IN IF range.from < range.to /\ from < to
     THEN [start |-> from, size |-> to - from, limited |-> TRUE]
     ELSE [start |-> range.from, size |-> 0, limited |-> TRUE]

\* resolve_disassembly_target_v2: the extent cut to the limit, then to the range;
\* none where it reports an error.
Limited(extent, limit) == Clipped(extent.start, extent.size, limit)
Narrowed(window, range) == IF range = {} THEN window ELSE ClampToRange(window, CHOOSE r \in range : TRUE)
Windows(image, request) ==
  {Narrowed(Limited(Extent(image, request.target, section), request.limit), request.range) :
     section \in {s \in SectionOf(image, request.target) : s.backed}}

-----------------------------------------------------------------------------
(* Decoding.                                                               *)

\* The addresses of the instructions of a window: whole words, up to the first
\* that does not decode (decode_aarch64), no more than the limit.
Decoded(image, window, limit) ==
  LET words == window.size \div WordSize
      At(n) == window.start + (n - 1) * WordSize
      bad == {n \in 1 .. words : At(n) \notin DOMAIN image.code}
      count == IF bad = {} THEN words ELSE Min(bad) - 1
  IN [n \in 1 .. IF limit.k = "Instructions" THEN Min({count, limit.n}) ELSE count |-> At(n)]

\* image_limit_reached
LimitReached(limit, window, count, bytes) ==
  CASE limit.k = "Instructions" -> count >= limit.n
    [] limit.k = "Bytes" -> bytes >= Min({limit.n, window.size}) /\ limit.n <= window.size
    [] limit.k = "Unlimited" -> FALSE

\* determine_stop_reason
StopReason(limit, window, count) ==
  LET bytes == count * WordSize IN
  CASE window.size = 0 -> "InputExhausted"
    [] window.size > 0 /\ LimitReached(limit, window, count, bytes) ->
         IF limit.k = "Instructions" THEN "InstructionLimitReached" ELSE "ByteLimitReached"
    [] OTHER ->
         IF limit.k = "Bytes" /\ window.limited /\ count > 0 /\ bytes < window.size THEN "ByteLimitReached"
         ELSE IF bytes < window.size THEN "DecodeHalt"
         ELSE IF window.limited THEN "WindowClipped" ELSE "TargetRangeEnd"

\* disassemble_v2: where it started, the instructions, where it ended and why.
Disassemble(image, request) ==
  {LET code == Decoded(image, window, request.limit)
   IN [start |-> window.start, instructions |-> code,
       end |-> window.start + Len(code) * WordSize,
       stop |-> StopReason(request.limit, window, Len(code))] :
     window \in Windows(image, request)}

Unlimited == [k |-> "Unlimited", n |-> 0]

\* A request for the addresses from `from` up to `to`, as the analysis passes make.
RangeRequest(from, to) ==
  [target |-> [k |-> "Address", address |-> from], range |-> {[from |-> from, to |-> to]},
   limit |-> Unlimited]
=============================================================================
