--------------------------- MODULE ChainedFixups ----------------------------
(***************************************************************************)
(* The pointers dyld has to fix up, read from the chains of a file         *)
(* (damsel-macho/src/dyld.rs).                                             *)
(*                                                                         *)
(* A raw pointer is the set of its bits.  A table is                       *)
(*   [imports |-> sequence of imports,                                     *)
(*    segments |-> sequence of segments], a segment                        *)
(*   [start, file, size,   address, file offset and bytes in the file      *)
(*    format, page,        pointer format and page size                    *)
(*    pages |-> sequence of page starts, overflow |-> sequence of starts,  *)
(*    data |-> raw pointers by offset].                                    *)
(* A page start is [k |-> "none"], [k |-> "at", offset |-> n] or           *)
(* [k |-> "multi", index |-> n]; a start in the overflow list has an       *)
(* offset and says whether it is the last.  Reading a malformed file is an *)
(* error, of which the message is not modelled.                            *)
(***************************************************************************)
EXTENDS Integers, SequencesExt

Formats == {"arm64e", "userland24", "64", "32", "segmented"}

Field(raw, at, len) == FoldSet(LAMBDA k, sum : sum + 2^k, 0, {k \in 0 .. len - 1 : at + k \in raw})

DecodeChainedPointer(format, raw) ==
  LET bind == CASE format \in {"arm64e", "userland24"} -> 62 \in raw
                [] format = "64" -> 63 \in raw
                [] format = "32" -> 31 \in raw
                [] format = "segmented" -> FALSE
      next == CASE format \in {"arm64e", "userland24"} -> Field(raw, 51, 11)
                [] format \in {"64", "segmented"} -> Field(raw, 51, 12)
                [] format = "32" -> Field(raw, 26, 5)
      ordinal == CASE format = "arm64e" -> Field(raw, 0, 16)
                   [] format = "32" -> Field(raw, 0, 20)
                   [] OTHER -> Field(raw, 0, 24)
  IN [next |-> next, bind |-> bind, ordinal |-> IF bind THEN {ordinal} ELSE {}]

\* Mutant: pointers are a word apart in every format.
PointerStrideWord(format) == 8

PointerStride(format) == IF format \in {"arm64e", "userland24"} THEN 8 ELSE 4
PointerWidth(format) == IF format = "32" THEN 4 ELSE 8

\* Where an import comes from: its library's name by its ordinal, after the
\* image itself at 0 (resolve_chained_dylib_name).
ResolveChainedDylibName(libs, ordinal) ==
  CASE ordinal = 0 -> "self"
    [] ordinal = -1 -> "main-executable"
    [] ordinal = -2 -> "flat-lookup"
    [] ordinal = -3 -> "weak-lookup"
    [] ordinal > 0 -> IF ordinal < Len(libs) THEN libs[ordinal + 1] ELSE "<unknown-dylib>"
    [] OTHER -> "ordinal"

SignedField(raw, at, len) == Field(raw, at, len) - (IF at + len - 1 \in raw THEN 2^len ELSE 0)

\* parse_chained_imports: the imports of a table by their format and the names
\* at each offset; {} when the format is unknown or a name is missing.
ParseChainedImports(entries, format, names, libs) ==
  LET wide == format = "addend64"
      name(e) == IF wide THEN Field(e.raw, 32, 32) ELSE Field(e.raw, 9, 23)
      import(e) ==
        [name |-> names[name(e)],
         dylib |-> ResolveChainedDylibName(libs, IF wide THEN SignedField(e.raw, 0, 16) ELSE SignedField(e.raw, 0, 8)),
         weak |-> (IF wide THEN 16 ELSE 8) \in e.raw,
         addend |-> IF format = "import" THEN 0 ELSE e.addend]
  IN IF format \notin {"import", "addend", "addend64"} \/ \E e \in Range(entries) : name(e) \notin DOMAIN names THEN {}
     ELSE {[n \in DOMAIN entries |-> import(entries[n])]}

\* walk_fixup_chain: the fixups from an offset in a segment, and whether the
\* chain is well formed.  The code gives up a chain after 65536 steps, more than
\* a page has pointers.
WalkFixupChain(imports, segment, offset) ==
  LET step[at \in 0 .. segment.size + 2^12 * 8] ==
        IF at + PointerWidth(segment.format) > segment.size \/ at \notin DOMAIN segment.data
        THEN [fixups |-> {}, ok |-> FALSE]
        ELSE LET p == DecodeChainedPointer(segment.format, segment.data[at])
                 bound == {imports[n + 1] : n \in {m \in p.ordinal : m < Len(imports)}}
                 here == [address |-> segment.start + at, offset |-> segment.file + at, import |-> bound]
             IN IF p.bind /\ bound = {} THEN [fixups |-> {}, ok |-> FALSE]
                ELSE IF p.next = 0 THEN [fixups |-> {here}, ok |-> TRUE]
                ELSE LET rest == step[at + p.next * PointerStride(segment.format)]
                     IN [rest EXCEPT !.fixups = rest.fixups \cup {here}]
  IN step[offset]

\* The starts a page names in the overflow list, from an index to the next last
\* one; {} when the list ends before.
StartsFrom(overflow, index) ==
  LET last == {n \in index + 1 .. Len(overflow) : overflow[n].last}
  IN IF last = {} THEN {} ELSE {{overflow[n].offset : n \in index + 1 .. Min(last)}}

\* The sets of starts of a page: one, or none when the table is truncated.
StartsOf(segment, page) ==
  CASE page.k = "none" -> {{}}
    [] page.k = "at" -> {{page.offset}}
    [] page.k = "multi" -> StartsFrom(segment.overflow, page.index)

\* parse_chained_fixups: the fixups of a table; {} when it is malformed.
FixupsOf(table, walks) ==
  LET fixups == UNION {w.fixups : w \in walks}
  IN IF \E w \in walks : ~ w.ok THEN {}
     ELSE {[bindings |-> {f \in fixups : f.import # {}},
            binds |-> table.imports # <<>>,
            rebases |-> \E f \in fixups : f.import = {}]}
ParseChainedFixups(table) ==
  LET starts(s) == {<<n, s.pages[n]>> : n \in DOMAIN s.pages}
      chains(s) == UNION {{(p[1] - 1) * s.page + start : start \in UNION StartsOf(s, p[2])} : p \in starts(s)}
      whole == \A s \in Range(table.segments) : s.page > 0 /\ \A p \in Range(s.pages) : StartsOf(s, p) # {}
  IN IF ~ whole THEN {}
     ELSE FixupsOf(table, UNION {{WalkFixupChain(table.imports, s, at) : at \in chains(s)} : s \in Range(table.segments)})

\* read_uleb128: the value of the bytes from the i-th on and the bytes read; {}
\* when they end before it does.  A value of more bytes than a word holds is
\* left out.
ReadUleb128(bytes, i) ==
  LET ends == {n \in i .. Len(bytes) : bytes[n] < 128}
      value[n \in i .. Len(bytes)] == IF bytes[n] < 128 THEN bytes[n] ELSE (bytes[n] - 128) + (128 * value[n + 1])
  IN IF ends = {} THEN {} ELSE {[value |-> value[i], next |-> Min(ends) + 1]}

AddDelta(base, address, delta) == address + delta

\* parse_function_starts: the addresses of one command's payload.
ParseFunctionStarts(bytes, base) ==
  LET from[i \in 1 .. Len(bytes) + 1, address \in Nat] ==
        IF i > Len(bytes) THEN {}
        ELSE UNION {IF r.value = 0 THEN {}
                    ELSE LET a == AddDelta(base, address, r.value) IN {a} \cup from[r.next, a] :
                      r \in ReadUleb128(bytes, i)}
  IN from[1, base]
=============================================================================
