------------------------------ MODULE ElfSupport ------------------------------
(***************************************************************************)
(* What damsel-elf reads of an ELF file and what an analysis derives from  *)
(* it.                                                                     *)
(*                                                                         *)
(* First what the file tells the dynamic linker, read without section      *)
(* headers (walker.rs): symbols and their versions, relocations; the names *)
(* of the libraries and the build id are left out.  A file has loads       *)
(* (where a part of the file is in memory), a dynamic table of tags and    *)
(* values (empty if there is none), and cells at file offsets, size of     *)
(* them.  A cell is a 32 bit word of a hash table, a symbol, a version     *)
(* record or a relocation: one unit of address.  Strings are what the      *)
(* string table has at an offset; 0 is the empty one.  No version index is *)
(* given twice.                                                            *)
(*                                                                         *)
(* Then the facts of an image (loader.rs, eh_frame.rs, ingest.rs and       *)
(* analysis.rs): its functions, from symbols and unwind records, their     *)
(* bounds and their references.  An image has sections as in CodeWindow,   *)
(* symbols, loads with the size of the file behind them, and code: for     *)
(* every address where an instruction can be decoded its size, its         *)
(* operation and its references.  Whatever machine the image is for,       *)
(* x86-64 is what is decoded.                                              *)
(***************************************************************************)
EXTENDS FunctionRecovery

CONSTANTS NeedLimit, AuxLimit    \* libraries and versions of one: 64 and 256

ASSUME VersionLimits == NeedLimit \in Nat \ {0} /\ AuxLimit \in Nat \ {0}

NoName == ""

\* vaddr_to_offset: at most one file offset.
VaddrToOffset(file, v) ==
  LET covering == {n \in DOMAIN file.loads : file.loads[n].vaddr <= v /\ v < file.loads[n].vaddr + file.loads[n].size}
      l == file.loads[Min(covering)]
  IN IF covering = {} THEN {} ELSE {l.offset + (v - l.vaddr)}

\* The value of the first entry of a tag, before the one that ends the table.
Tag(file, tag) ==
  LET ends == {n \in DOMAIN file.dynamic : file.dynamic[n].tag = "null"}
      found == {n \in DOMAIN file.dynamic : /\ file.dynamic[n].tag = tag
                                            /\ \A e \in ends : n < e}
  IN IF found = {} THEN {} ELSE {file.dynamic[Min(found)].value}

\* The offset of the table a tag points at.
Table(file, tag) == UNION {VaddrToOffset(file, v) : v \in Tag(file, tag)}

Cell(file, at) == IF at \in 0 .. file.size - 1 THEN {file.cells[at]} ELSE {}

\* string_at: the table must be in the file.
StringAt(file, n) == IF n \in DOMAIN file.strings THEN {file.strings[n]} ELSE {}

-----------------------------------------------------------------------------
(* How many dynamic symbols there are.                                     *)

\* gnu_hash_symbol_count: the end of the chain of the highest bucket; the table
\* starts with the number of its buckets, the first symbol it has and the size
\* of its filter, of two words each.
GnuHashCount(file, base) ==
  LET word(n) == file.cells[base + n]
      buckets == base + 4 + 2 * word(2)
      highest == Max({0} \cup {file.cells[buckets + n] : n \in 0 .. word(0) - 1})
      chain(n) == buckets + word(0) + n - word(1)
      ends == {n \in highest .. highest + file.size : chain(n) < file.size /\ file.cells[chain(n)] % 2 = 1}
  IN IF base + 3 >= file.size \/ highest < word(1) \/ ends = {} THEN {} ELSE {Min(ends) + 1}

\* dynamic_symbol_count: as the hash table, the other hash table or the place of
\* the strings behind the symbols has it.
SymbolCount(file) ==
  LET hash == UNION {Cell(file, base + 1) : base \in Table(file, "hash")}
      gnu == UNION {GnuHashCount(file, base) : base \in Table(file, "gnu_hash")}
      gap == {s - t : s \in Tag(file, "strtab"), t \in Tag(file, "symtab")}
  IN CASE Tag(file, "symtab") = {} -> {}
       [] hash # {} -> hash
       [] hash = {} /\ gnu # {} -> gnu
       [] OTHER -> {n \in gap : n > 0}

-----------------------------------------------------------------------------
(* Versions, symbols, relocations.                                         *)

\* The records of a chain: where the first is and how far each next one.
Records(file, first, limit) ==
  LET at[n \in 1 .. limit] ==
        IF n = 1 THEN {first}
        ELSE UNION {{a + c.next : c \in {d \in Cell(file, a) : d.next # 0}} : a \in at[n - 1]}
  IN UNION {{a \in at[n] : Cell(file, a) # {}} : n \in 1 .. limit}

\* The names a version index has among the libraries needed.
VersionNames(file) ==
  LET needs == UNION {Records(file, base, NeedLimit) : base \in Table(file, "verneed")}
      versions == UNION {Records(file, a + file.cells[a].aux, AuxLimit) : a \in needs}
  IN UNION {{[index |-> file.cells[a].other, name |-> s] : s \in StringAt(file, file.cells[a].name)} : a \in versions}

\* resolve_versions of one symbol; indexes 0 and 1 mean none, and whether the
\* version is hidden does not matter.
VersionOf(file, n) ==
  LET given == UNION {Cell(file, base + n) : base \in Table(file, "versym")}
  IN {v.name : v \in {w \in VersionNames(file) : \E g \in given : g.index > 1 /\ w.index = g.index}}

\* walk_dynamic, the symbols in the order of their table without the null one and
\* those whose name is not there.
NamedSlots(file, base, counts) ==
  SelectSeq([n \in 1 .. (IF counts = {} THEN 0 ELSE CHOOSE c \in counts : TRUE) |-> n - 1],
            LAMBDA n : \E c \in Cell(file, base + n) :
              /\ [c EXCEPT !.defined = FALSE] # [name |-> 0, address |-> 0, size |-> 0, defined |-> FALSE]
              /\ StringAt(file, c.name) # {})
SymbolAt(file, n, c) ==
  [name |-> CHOOSE s \in StringAt(file, c.name) : TRUE, address |-> c.address, defined |-> c.defined,
   version |-> VersionOf(file, n)]
SymbolsFrom(file, base, read) == [k \in DOMAIN read |-> SymbolAt(file, read[k], file.cells[base + read[k]])]
OneTable(tables) == IF tables = {} THEN <<>> ELSE CHOOSE t \in tables : TRUE
DynamicSymbols(file) ==
  OneTable({SymbolsFrom(file, base, NamedSlots(file, base, SymbolCount(file))) :
              base \in {b \in Table(file, "symtab") : Table(file, "strtab") # {}}})

\* load_bytes, with section headers: the symbols that have a name.
NamedSymbols(symbols) == SelectSeq(symbols, LAMBDA s : s.name # NoName)

\* The names relocations mean by an index, which starts at the null symbol.
DynsymNames(symbols) ==
  <<[name |-> NoName, version |-> {}]>> \o [k \in DOMAIN symbols |-> [name |-> symbols[k].name, version |-> symbols[k].version]]

\* walk_relocations: first those of the procedure linkage table.
WalkRelocations(file, names) ==
  LET Of(tag, sizeTag) ==
        UNION {{<<base, size>> : size \in {s \in Tag(file, sizeTag) : base + s <= file.size}} : base \in Table(file, tag)}
      Read(c) == [at |-> c.at, kind |-> c.kind, addend |-> c.addend,
                  symbol |-> IF c.symbol > 0 /\ c.symbol + 1 \in DOMAIN names THEN {names[c.symbol + 1]} ELSE {}]
      Rows(table) == IF table = {} THEN <<>>
                     ELSE LET t == CHOOSE u \in table : TRUE
                          IN [k \in 1 .. t[2] |-> Read(file.cells[t[1] + k - 1])]
  IN Rows(Of("jmprel", "pltrelsz")) \o Rows(Of("rela", "relasz"))

-----------------------------------------------------------------------------
(* The image.                                                              *)

\* load_bytes: a symbol is text in an executable section.
IsText(image, symbol) ==
  symbol.defined /\ \E s \in Range(image.sections) : s.executable /\ Covers(s, symbol.address)

-----------------------------------------------------------------------------
(* Unwind records: their size in bytes after the length, which is 0 for    *)
(* the end and -1 for the escape to long lengths; what they are; and where *)
(* their function starts, relative to the field that says so, and its size.*)

\* Where the field is that the start is relative to.
FieldAt(at) == at + 8

\* parse_eh_frame
ParseEhFrame(records, section, length) ==
  LET at[n \in 1 .. Len(records) + 1] == IF n = 1 THEN 0 ELSE at[n - 1] + 4 + records[n - 1].size
      stops == {n \in DOMAIN records : records[n].size \in {0, -1} \/ at[n] + 4 + records[n].size > length}
      read == IF stops = {} THEN Len(records) ELSE Min(stops) - 1
      start(n) == section + FieldAt(at[n]) + records[n].start
  IN {[start |-> start(n), end |-> start(n) + records[n].range] :
        n \in {m \in 1 .. read : /\ ~ records[m].cie /\ records[m].size >= 12
                                 /\ records[m].range > 0 /\ start(m) # 0}}

-----------------------------------------------------------------------------
(* Facts.                                                                  *)

\* ingest_elf_image, the seeds.
ElfIngest(image) ==
  {Seed(s.address, "symbol_table", s.rank) :
     s \in {t \in Range(image.symbols) : IsText(image, t) /\ t.address # 0}}
  \cup {Seed(f.start, "eh_frame", 0) : f \in image.frames}

\* read_at_vaddr: whether so many bytes are in the file.
Readable(image, address, length) ==
  \E l \in FirstWith(image.loads, LAMBDA l : Covers(l, address)) : l.offset + (address - l.start) + length <= image.fileSize

\* decode_x86_64_with_limit: one instruction behind the other.
DecodeX86(image, from, to) ==
  LET run[a \in from .. to] ==
        IF a = to \/ a \notin DOMAIN image.code THEN <<>>
        ELSE IF a + image.code[a].size > to THEN <<>> ELSE <<a>> \o run[a + image.code[a].size]
  IN run[from]

\* The instruction that ends a function: the first return or trap.
FunctionEnd(image, code) ==
  LET ends == {n \in DOMAIN code : image.code[code[n]].op \in {"ret", "trap"}} IN IF ends = {} THEN {} ELSE {Min(ends)}

\* harvest_elf_xrefs: the facts of the functions of a set of addresses.
HarvestElf(image, functions) ==
  LET work == Ascending(functions)
      end(n) == CHOOSE e \in SectionEnd(image, work[n]) : TRUE
      window(n) == CodeEnd(work, n, work[n], end(n))
      Facts(n) ==
        LET code == DecodeX86(image, work[n], window(n))
            last == FunctionEnd(image, code)
            Bound(to, stop) == [kind |-> "function_bound", at |-> work[n], to |-> to, stop |-> stop]
        IN IF code = <<>> THEN {}
           ELSE UNION {{[kind |-> "xref", at |-> code[k], ref |-> r.ref, to |-> r.to] : r \in image.code[code[k]].references} : k \in DOMAIN code}
                \cup (IF last = {} THEN {Bound(window(n), IF window(n) = end(n) THEN "section_end" ELSE "seed_boundary")}
                      ELSE {Bound(code[k] + image.code[code[k]].size, IF image.code[code[k]].op = "ret" THEN "return" ELSE "trap") : k \in last})
  IN UNION {Facts(n) : n \in {m \in DOMAIN work : /\ SectionEnd(image, work[m]) # {}
                                                  /\ Readable(image, work[m], window(m) - work[m])}}

\* handle_analyze_elf: the facts of an image.
AnalyzeElf(image) ==
  LET seeds == ElfIngest(image) IN seeds \cup HarvestElf(image, {f.address : f \in Summaries(seeds)})
=============================================================================
