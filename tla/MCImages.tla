------------------------------ MODULE MCImages ------------------------------
(***************************************************************************)
(* The computations that read files, compared with what a linker wrote: a  *)
(* problem is the file as it was meant, the answer what is read of it.     *)
(***************************************************************************)
EXTENDS ChainedFixups, AnnotatedListing, ElfSupport, ObjcMetadata, SwiftMetadata

VARIABLES kind, input

Texts(alphabet, most) == UNION {[1 .. n -> alphabet] : n \in 0 .. most}

\* Fixups a linker wrote: what each place is, 0 for nothing and 4 for a pointer to
\* the image itself, the others bind an import; a segment has two pages of 24.
Slots(format) ==
  CASE format = "arm64e" -> {0, 16, 24, 40} [] format = "userland24" -> {0, 8, 24, 32}
    [] format = "32" -> {0, 4, 24, 44} [] OTHER -> {0, 12, 24, 40}
Bytes == {0, 1, 2, 127, 128, 130, 255}

\* Slices of a universal file of 9 bytes, imports and what fixups bind, symbols
\* and the slots and stubs a linker gave them.
Slices == [cpu : {"arm64"}, subtype : {"arm64", "arm64e", "v8"}, offset : {1}, size : {2}, parses : {TRUE}]
          \cup [cpu : {"arm64"}, subtype : {"arm64e"}, offset : {3}, size : {0, 4, 9}, parses : BOOLEAN]
          \cup [cpu : {"x86_64"}, subtype : {"v8"}, offset : {1, 9}, size : {2}, parses : {TRUE}]
Imports(addresses) == [name : {[base |-> 1, form |-> f] : f \in {1, 2}}, dylib : {"A", "B"}, address : addresses,
                       addend : {0}, weak : {FALSE}]
FileSymbols == [name : {1, 2}, address : {0, 8}, defined : BOOLEAN, global : BOOLEAN]
Symbols == [name : [base : {1, 2}, form : {1, 2}], ordinal : {{1}, {2}, {254}}, arms : SUBSET {"lazy", "nonlazy"}]

\* References to selectors and classes, at 10 and 12, the classes at 20 and 30, and
\* windows of three instructions.
ObjcRefs == [what : {"selector"}, to : {{}, {40}}] \cup [what : {"class"}, to : {{}, {20}, {21}, {30}}]
WindowWords == [kind : Kinds \ {"Branch", "ConditionalBranch", "Call", "IndirectCall", "IndirectBranch"}, to : {{}}]
               \cup [kind : {"Branch", "ConditionalBranch", "Call"}, to : {{1}, {2}, {3}, {7}}]
               \cup [kind : {"IndirectCall", "IndirectBranch"}, to : {{}, {1}, {3}, {7}}]

\* Dynamic tables of up to four symbols, in one part of memory or two; code of
\* instructions of one byte or two.
ElfSymbols == UNION {[1 .. n -> 1 .. 3] : n \in 0 .. 2}
X86Words == {[op |-> "bad", size |-> 1, references |-> {}], [op |-> "nop", size |-> 1, references |-> {}],
             [op |-> "call", size |-> 2, references |-> {[ref |-> "Call", to |-> 5]}],
             [op |-> "ret", size |-> 1, references |-> {}], [op |-> "trap", size |-> 2, references |-> {}]}

\* Categories of a class of the image, C, and of another image, D.
ListedCategories == [class : {"C", "D"}, name : {"one", "two"}, methods : 0 .. 1, protocols : {{}, {"P"}}]
MethodSymbols == [class : {"C"}, category : {"one", "two"}, at : {11}, meta : BOOLEAN]
                 \cup [class : {"D"}, category : {"one"}, at : {12}, meta : {FALSE}]

\* Types and protocols as Swift declares them, and names of one and eleven letters.
SwiftNamed == {[flags |-> 0, name |-> <<1>>], [flags |-> 17, name |-> <<1, 2>>], [flags |-> 7, name |-> <<>>], [flags |-> 2, name |-> <<-1>>]}
SwiftWords == {<<"a">>, <<"b", "1">>, [n \in 1 .. 11 |-> "c"], <<"!">>}

ImageProblems ==
  [fixups   |-> UNION {[format : {f}, slots : [Slots(f) -> 0 .. 4], multi : BOOLEAN, size : {48, 44, 16}] :
                         f \in Formats},
   imports  |-> [format : {"import", "addend", "addend64", "new"}, ordinal : {-3, -2, -1, 0, 1, 2, 3, 100}, name : {0, 3, 6},
                 weak : BOOLEAN, addend : {0, 5}],
   starts   |-> Texts(Bytes, 4),
   slices   |-> Texts(Slices, 3),
   hints    |-> [imports : Texts(Imports({0}), 2), hints : Texts(Imports({1, 2}), 2)],
   loading  |-> LET Tables(texts, binds, asks, told) == [header : {[cpu |-> "arm64", subtype |-> "arm64e"]}, size : {4}, symbols : texts,
                                                bound : binds, asked : asks, hints : told]
                IN Tables(Texts(FileSymbols, 3), {<<>>}, {{}}, {<<>>})
                   \cup Tables({<<>>}, Texts({i \in Imports({1, 2}) : i.name.form = 1}, 2), SUBSET [name : {[base |-> 1, form |-> 1]}, dylib : {{}, {"A"}, {"B"}}], Texts(Imports({2}), 1))
                   \cup [header : [cpu : {"arm64", "x86_64"}, subtype : {"arm64", "arm64e", "v8"}], size : {1, 4}, symbols : {<<>>},
                         bound : {<<>>}, asked : {{}}, hints : {<<>>}],
   stubs    |-> [symbols : [1 .. 2 -> Symbols], stubs : {<<1, 2>>, <<2, 0, 1>>, <<1, 1>>}, trampoline : BOOLEAN],
   listing  |-> [symbols : [1 .. 2 -> Symbols], stubs : {<<1, 2>>}, trampoline : {TRUE}, local : {1}, moved : {0, 1, 3}],
   values   |-> [refs : [{10, 12} -> ObjcRefs], names : [{20, 30} -> {{}, {"A"}, {"B"}}], meta : BOOLEAN, list : {20, 30, 50}, bound : SUBSET {10, 12}],
   analysis |-> UNION {[1 .. n -> WindowWords] : n \in 1 .. 3},
   elf      |-> [undefined : ElfSymbols, defined : ElfSymbols, local : BOOLEAN, tables : SUBSET {"hash", "gnu"}, cut : 0 .. 1,
                 libraries : {1, 2}, adjacent : BOOLEAN, apart : BOOLEAN],
   frames   |-> [functions : Texts({<<20, 1>>, <<25, 0>>, <<30, 4>>}, 3), cies : SUBSET (1 .. 3), cut : {0, 2}],
   classes  |-> [form : {"plain", "based", "tagged"}, flags : {0, 2}, names : SUBSET {"data", "symbol"},
                 small : BOOLEAN, behind : BOOLEAN, methods : {0, 1, 3}, classMethods : 0 .. 1, protocols : SUBSET {1, 2},
                 super : {"none", "here", "apart"}, variables : {1}]
                \cup [form : {"plain", "based"}, flags : {2}, names : {{"data"}}, small : BOOLEAN, behind : {TRUE},
                      methods : {2}, classMethods : {2}, protocols : {{}, {1, 2}}, super : {"here"}, variables : {0, 2, 3}],
   categories |-> [listed : Texts(ListedCategories, 2), symbols : SUBSET MethodSymbols, undefined : {<<>>},
                   hint : BOOLEAN, told : {{}}]
                  \cup [listed : Texts(ListedCategories, 1), symbols : SUBSET MethodSymbols, undefined : {<<"D">>, <<"D", "E">>, <<"E", "D">>},
                        hint : BOOLEAN, told : {{}, {"protocols"}}]
                  \cup [listed : Texts({c \in ListedCategories : c.class = "C"}, 2), symbols : SUBSET MethodSymbols, undefined : {<<>>},
                        hint : {FALSE}, told : SUBSET {"properties", "protocols"}],
   swift    |-> [types : Texts(SwiftNamed, 2), protocols : Texts({[flags |-> 3, name |-> <<2>>], [flags |-> 3, name |-> <<>>]}, 1), gap : BOOLEAN,
                 conformances : Texts([protocol : {0, 1, 2, 9}, type : {0, 1, 9}, flags : {1}], 1)]
                \cup [types : {<<[flags |-> 1, name |-> <<1>>], [flags |-> 18, name |-> <<2>>]>>}, protocols : {<<[flags |-> 3, name |-> <<1>>]>>},
                      gap : {FALSE}, conformances : Texts([protocol : {0, 1, 9}, type : {0, 1, 2, 3, 9}, flags : {1, 65}], 2)],
   fields   |-> [types : Texts([kind : {0, 2}, names : Texts(0 .. 3, 2)], 2), lead : 0 .. 2, cut : {0, 2}],
   mangled  |-> [module : DOMAIN ShortModules \cup SwiftWords, type : {<<>>, <<"V">>, <<"O">>}, name : SwiftWords,
                 member : SwiftWords \cup {<<>>}, tail : {<<>>, <<"y", "F">>, <<"v", "g">>, <<"f", "C">>, <<"F", "T", "W">>}],
   x86      |-> [code : [2 .. 6 -> X86Words], starts : {{4}, {2, 9}, {2, 4}}, ends : {{7}, {4, 7}}, whole : BOOLEAN]]

-----------------------------------------------------------------------------
\* The bits of a number, from a place on.
Written(number, at, len) == {at + k : k \in {j \in 0 .. len - 1 : (number \div 2^j) % 2 = 1}}

\* A pointer as the linker writes it: what it is and how far the next one is.
Raw(format, what, next) ==
  LET bind == what \in 1 .. 3
      mark == CASE format = "32" -> 31 [] format = "64" -> 63 [] OTHER -> 62
  IN (IF bind /\ format # "segmented" THEN {mark} \cup Written(what - 1, 0, 3) ELSE {20})
     \cup Written(next, IF format = "32" THEN 26 ELSE 51, 5)

FixupTable(problem) ==
  LET all == Slots(problem.format)
      used == {a \in all : problem.slots[a] # 0}
      page(a) == a \div 24
      after(a) == {b \in used : b > a /\ page(b) = page(a)}
      next(a) == IF after(a) = {} \/ problem.multi THEN 0 ELSE (Min(after(a)) - a) \div (IF problem.format \in {"arm64e", "userland24"} THEN 8 ELSE 4)
      firsts(p) == LET on == {a \in used : page(a) = p} IN SetToSortSeq({a - 24 * p : a \in on}, <)
      lists == firsts(0) \o firsts(1)
      start(p) == CASE firsts(p) = <<>> -> [k |-> "none"]
                    [] firsts(p) # <<>> /\ problem.multi -> [k |-> "multi", index |-> p * Len(firsts(0))]
                    [] OTHER -> [k |-> "at", offset |-> firsts(p)[1]]
  IN [imports |-> <<"one", "two">>,
      segments |-> <<[start |-> 1000, file |-> 100, size |-> problem.size, format |-> problem.format, page |-> 24,
                      pages |-> <<start(0), start(1)>>,
                      overflow |-> [n \in DOMAIN lists |-> [offset |-> lists[n], last |-> n \in {Len(firsts(0)), Len(lists)}]],
                      data |-> [a \in used |-> Raw(problem.format, problem.slots[a], next(a))]]>>]

\* The fixups read are those the linker wrote, in every pointer format and
\* however it started its chains; a chain that leaves the segment or binds an
\* import there is none of is refused (parse_chained_fixups).
FixupsAreTheChains ==
  kind = "fixups" =>
    LET used == {a \in Slots(input.format) : input.slots[a] # 0}
        binds == {a \in used : input.slots[a] # 4 /\ input.format # "segmented"}
        bad == \/ \E a \in used : a + PointerWidth(input.format) > input.size
               \/ \E a \in binds : input.slots[a] = 3
    IN ParseChainedFixups(FixupTable(input)) =
         IF bad THEN {}
         ELSE {[bindings |-> {[address |-> 1000 + a, offset |-> 100 + a, import |-> {<<"one", "two">>[input.slots[a]]}] : a \in binds},
                binds |-> TRUE, rebases |-> binds # used]}

\* An import is read with the library, the weakness and the addend the linker
\* wrote, whatever the width of its fields (parse_chained_imports).
ImportsAreRead ==
  kind = "imports" =>
    LET wide == input.format = "addend64"
        raw == Written(input.ordinal + (IF input.ordinal < 0 THEN (IF wide THEN 65536 ELSE 256) ELSE 0), 0, IF wide THEN 16 ELSE 8)
               \cup (IF input.weak THEN {IF wide THEN 16 ELSE 8} ELSE {}) \cup Written(input.name, IF wide THEN 32 ELSE 9, 3)
        libs == <<"self", "a", "b">>
        dylib == CASE input.ordinal \in 1 .. 2 -> libs[input.ordinal + 1] [] input.ordinal = 0 -> "self"
                   [] input.ordinal = -1 -> "main-executable" [] input.ordinal = -2 -> "flat-lookup"
                   [] input.ordinal = -3 -> "weak-lookup" [] OTHER -> "<unknown-dylib>"
    IN ParseChainedImports(<<[raw |-> raw, addend |-> input.addend]>>, input.format, (0 :> "x") @@ (3 :> "y"), libs) =
         IF input.format = "new" \/ input.name = 6 THEN {}
         ELSE {<<[name |-> IF input.name = 0 THEN "x" ELSE "y", dylib |-> dylib, weak |-> input.weak,
                  addend |-> IF input.format = "import" THEN 0 ELSE input.addend]>>}

\* Function starts written as deltas are read back: encoding their differences
\* gives the bytes read, up to the zero or the value that is not complete
\* (parse_function_starts, read_uleb128).
FunctionStartsAreDeltas ==
  kind = "starts" =>
    LET Digits[n \in Nat] == IF n < 128 THEN <<n>> ELSE <<128 + (n % 128)>> \o Digits[n \div 128]
        found == SetToSortSeq(ParseFunctionStarts(input, 50), <)
        written == FlattenSeq([n \in DOMAIN found |-> Digits[found[n] - (IF n = 1 THEN 50 ELSE found[n - 1])]])
        rest == SubSeq(input, Len(written) + 1, Len(input))
        minimal == \A n \in 1 .. Len(input) - 1 : ~ (input[n] >= 128 /\ input[n + 1] = 0)
    IN minimal => /\ IsPrefix(written, input)
                  /\ rest = <<>> \/ Head(rest) = 0 \/ \A n \in DOMAIN rest : rest[n] >= 128

\* The same slice in a file of its own and after another in a universal file.
LoadedSlice(problem) ==
  [cpu |-> "arm64", subtype |-> problem.header.subtype, offset |-> 3, size |-> problem.size, parses |-> TRUE, header |-> problem.header,
   tables |-> [sections |-> <<[name |-> "text", start |-> 10, size |-> 3, offset |-> 0, bytes |-> 3, text |-> TRUE, instructions |-> FALSE],
                              [name |-> "bss", start |-> 20, size |-> 9, offset |-> 0, bytes |-> 0, text |-> FALSE, instructions |-> FALSE],
                              [name |-> "data", start |-> 30, size |-> 4, offset |-> 3, bytes |-> 4, text |-> FALSE, instructions |-> TRUE]>>,
               symbols |-> problem.symbols, bound |-> problem.bound, asked |-> problem.asked, libs |-> <<"A", "B">>, hints |-> problem.hints]]
AloneFile(problem) == [kind |-> "thin", whole |-> [LoadedSlice(problem) EXCEPT !.offset = 0]]
UniversalFile(problem) ==
  [kind |-> "universal", length |-> 3 + problem.size,
   arches |-> <<[LoadedSlice(problem) EXCEPT !.cpu = "x86_64", !.subtype = "v8", !.offset = 1, !.size = 2], LoadedSlice(problem)>>]

\* A slice is loaded from a universal file as it is from a file of its own, and
\* only where its header is of an arm64; its symbols are those of the file, each
\* once and in order; its imports are those bound, those told of and those asked
\* for that nothing binds; its sections end with it (load_from_source).
LoadingIsTheSlice ==
  kind = "loading" =>
    LET alone == LoadFromSource(AloneFile(input))
        within == LoadFromSource(UniversalFile(input))
        Content(i) == [i EXCEPT !.slice = <<>>, !.slices = {}]
        Mark(s) == <<s.name, s.address, s.defined>>
        Place(i) == <<i.name, i.dylib, i.address>>
        library(a) == IF a.dylib = {} THEN {"A"} ELSE a.dylib
        told == {Place(i) : i \in Range(input.bound) \cup Range(input.hints)}
        wanted == UNION {{a.name} \X library(a) : a \in input.asked}
    IN /\ {Content(i) : i \in alone} = {Content(i) : i \in within}
       /\ (alone = {}) <=> input.header.cpu # "arm64"
       /\ \A i \in within : {s.selected : s \in {t \in i.slices : t.offset = 3}} = {TRUE}
       /\ \A i \in alone :
            /\ {Mark(s) : s \in Range(i.symbols)} = {Mark(s) : s \in Range(input.symbols)}
            /\ \A m, n \in DOMAIN i.symbols : m < n =>
                 /\ Mark(i.symbols[m]) # Mark(i.symbols[n]) /\ i.symbols[m].address <= i.symbols[n].address
                 /\ i.symbols[m].address = i.symbols[n].address => i.symbols[m].name <= i.symbols[n].name
            /\ {Place(j) : j \in i.imports} =
                 told \cup {<<w[1], w[2], 0>> : w \in {v \in wanted : ~ \E t \in told : t[1] = v[1] /\ t[2] = v[2]}}
            /\ Cardinality(i.imports) = Cardinality({Place(j) : j \in i.imports})
            /\ \A n \in DOMAIN i.sections :
                 LET s == i.sections[n]
                 IN s.size <= s.bytes /\ \A o \in s.offset : o + s.bytes <= input.size

\* The slice read is one that can be, of the best kind of arm64 and the first of
\* that kind, whatever unusable slices the file has; it is listed, and only what
\* looks like it is marked as selected (choose_fat_arch,
\* collect_fat_slice_descriptors).
BestSliceIsRead ==
  kind = "slices" =>
    LET can(n) == input[n].cpu = "arm64" /\ input[n].parses /\ input[n].size > 0 /\ input[n].offset + input[n].size <= 9
        order == <<"arm64e", "arm64", "v8">>
        place(n) == CHOOSE k \in 1 .. 3 : order[k] = input[n].subtype
        chosen == ChooseFatArch(input, 9)
    IN /\ (chosen = {}) = (\A n \in DOMAIN input : ~ can(n))
       /\ \A c \in chosen : /\ can(c)
                            /\ \A n \in DOMAIN input : can(n) => place(c) < place(n) \/ (place(c) = place(n) /\ c <= n)
                            /\ {d.offset : d \in {e \in SliceDescriptors(input, 9, input[c]) : e.selected}} = {input[c].offset}

\* Merging what the fixups bind into the imports keeps every import, each once
\* for every place it is bound at and once unbound only if it is bound nowhere
\* (merge_import_hints).
ImportsAreMerged ==
  kind = "hints" =>
    LET merged == MergeImportHints(input.imports, input.hints)
        all == Range(input.imports) \cup Range(input.hints)
        who(i) == <<i.name, i.dylib>>
        places(w) == {h.address : h \in {i \in Range(input.hints) : who(i) = w}}
    IN {<<who(i), i.address>> : i \in merged} =
         UNION {{<<w, a>> : a \in IF places(w) = {} THEN {0} ELSE places(w)} : w \in {who(i) : i \in all}}

\* An image whose symbols have slots, stubs and helpers as a linker lays them
\* out: lazy slots at 100, the others at 200, stubs at 300.
Laid(problem) ==
  LET symbols == problem.symbols
      With(arm) == SelectSeq(<<1, 2>>, LAMBDA n : arm \in symbols[n].arms)
      lazy == With("lazy")
      import(n, address) == [name |-> symbols[n].name, dylib |-> CASE symbols[n].ordinal = {1} -> "A" [] symbols[n].ordinal = {2} -> "B" [] OTHER -> "flat",
                             address |-> address]
      at(start, which) == [n \in DOMAIN which |-> import(which[n], start + n - 1)]
      unbound == SelectSeq(<<1, 2>>, LAMBDA n : symbols[n].arms = {})
      head == IF problem.trampoline THEN [n \in 1 .. 6 |-> [op |-> "trampoline", part |-> n]] ELSE <<>>
      entry(n) == <<[op |-> "ldr", to |-> Len(head) + 3 * n - 1], [op |-> "b", to |-> 0], [op |-> "literal", value |-> 40 + n]>>
  IN [libs |-> <<"A", "B">>, symbols |-> symbols,
      imports |-> [n \in DOMAIN unbound |-> import(unbound[n], 0)] \o at(100, lazy) \o at(200, With("nonlazy")),
      pointers |-> <<[kind |-> "lazy", start |-> 100, symbols |-> lazy], [kind |-> "nonlazy", start |-> 200, symbols |-> With("nonlazy")]>>,
      stubs |-> [start |-> 300, symbols |-> problem.stubs],
      lazy |-> {[sequence |-> 40 + n, address |-> 99 + n, name |-> at(100, lazy)[n].name, dylib |-> at(100, lazy)[n].dylib] : n \in DOMAIN lazy},
      helpers |-> IF lazy = <<>> THEN <<>> ELSE head \o FlattenSeq([n \in DOMAIN lazy |-> entry(n)])]

\* Whether the imports of the symbols can be told apart.
Clear(problem) ==
  LET s == problem.symbols
      imports == Laid(problem).imports
      flat(n) == s[n].ordinal = {254}
      alike(n) == {k \in DOMAIN imports : imports[k].name.base = s[n].name.base}
  IN /\ \A n \in 1 .. 2 : flat(n) => Cardinality(alike(n)) = 1
     /\ s[1].name.base = s[2].name.base => s[1].ordinal # s[2].ordinal /\ \A n \in 1 .. 2 : ~ flat(n)

\* Each stub's name, library and slot, and its helper's.
StubsNamed(image, bound) ==
  LET s == input.symbols
      place(n, arm) == {p.address : p \in {q \in Range(bound.slots) : q.symbol = n /\ q.kind = arm}}
      first(n) == IF "lazy" \in s[n].arms THEN place(n, "lazy")
                  ELSE IF "nonlazy" \in s[n].arms THEN place(n, "nonlazy") ELSE {0}
  IN /\ bound.k = "ok"
     /\ \A m \in DOMAIN input.stubs : input.stubs[m] # 0 =>
          LET n == input.stubs[m] IN
          /\ {<<t.name, t.dylib, t.pointer>> : t \in {u \in bound.stubs : u.address = 299 + m}} =
               {<<s[n].name, IF s[n].ordinal = {254} THEN "flat" ELSE image.libs[Min(s[n].ordinal)], a>> : a \in first(n)}
          /\ ("lazy" \in s[n].arms /\ input.stubs # <<1, 1>>) =>
               {<<h.name, h.pointer>> : h \in {g \in bound.helpers : g.stub = 299 + m}} =
                 {<<s[n].name, a>> : a \in place(n, "lazy")}

\* A stub is named after the symbol the linker made it for, with its library and
\* the slot it jumps through, lazy if it has one; each lazy stub has the helper
\* that binds its slot, under its own name (augment_dysymtab_bindings_and_stubs,
\* populate_stub_helpers).  Left out are symbols of one library that differ in
\* case or leading underscores only, those looked up by name alone that several
\* imports match, and two stubs of one symbol, of which one has no helper.
StubsNameTheirImport ==
  (kind = "stubs" /\ Clear(input) /\ (input.stubs = <<1, 1>> => "lazy" \notin input.symbols[2].arms)) =>
    StubsNamed(Laid(input), BindStubs(Laid(input)))

\* What is loaded of an image, with a function of its own at 500 and a relocation
\* in the instruction at 600.
LoadedWith(problem, image, bound) ==
  LET of(i) == {[name |-> i.name, dylib |-> i.dylib]}
      Slot(p) == LET i == Resolve(image.libs, image.imports, image.symbols[p.symbol]).import
                 IN [name |-> i.name, dylib |-> i.dylib, address |-> p.address, lazy |-> p.kind = "lazy", ordinal |-> 0, class |-> {}]
  IN [imports |-> image.imports, bindings |-> [n \in DOMAIN bound.slots |-> Slot(bound.slots[n])],
      symbols |-> <<[name |-> [base |-> problem.local, form |-> 1], address |-> 500, defined |-> TRUE, sends |-> {}]>>,
      stubs |-> {[address |-> t.address, pointer |-> t.pointer, of |-> of(t)] : t \in bound.stubs},
      helpers |-> {[address |-> 700 + h.address, pointer |-> h.pointer, stub |-> h.stub, ordinal |-> 0, of |-> of(h)] : h \in bound.helpers},
      relocations |-> IF problem.moved = 0 THEN <<>> ELSE <<[address |-> 601, target |-> [base |-> problem.moved, form |-> 2]]>>,
      objcrefs |-> <<>>, classes |-> <<>>, exports |-> {}, strings |-> {}, mapped |-> {300}]
Loaded(problem) == LoadedWith(problem, Laid(problem), BindStubs(Laid(problem)))

\* Who an instruction is said to use, and what instructions of its own would.
Users(i) == {<<r.name, r.dylib>> : r \in {q \in i.references : q.k = "import"}}
ListedAt(image, where, references) ==
  Annotated(image, [address |-> where, size |-> 4, references |-> references, notes |-> {}, values |-> {}], TRUE)

\* The rows of an overview count what is listed.
OverviewFollows(listing, rows) ==
  /\ {<<w[2], w[1]>> : w \in DOMAIN rows} = UNION {Users(i) : i \in listing}
  /\ \A w \in DOMAIN rows :
       LET users == {i \in listing : \E u \in ImportUses({i}) : u.what = w}
       IN rows[w] = [count |-> Cardinality(users), first |-> Min({i.address : i \in users})]

\* What is listed of calls of stubs and helpers, loads of slots and the code at 600.
AttributedAs(image, own, calls, loads, helps) ==
  LET behind(x) == {<<o.name, o.dylib>> : o \in x.of}
      listing == Range(calls) \cup Range(loads) \cup Range(helps) \cup {own}
  IN /\ \A s \in image.stubs : Users(calls[s]) = behind(s) /\ Users(ListedAt(image, s.address, {})) = behind(s)
     /\ \A h \in image.helpers : Users(helps[h]) = behind(h) /\ Users(ListedAt(image, h.address, {})) = behind(h)
     /\ \A n \in DOMAIN loads : Users(loads[n]) = {<<image.bindings[n].name, image.bindings[n].dylib>>}
     /\ Users(own) = {<<m.name, m.dylib>> : m \in {i \in Range(image.imports) : i.name.base \in {input.local, input.moved} \ {0}}}
     /\ \A i \in listing :
          {<<m.name, m.dylib>> : m \in {k \in i.notes : k.note \in {"import", "evidence"}}} \subseteq Users(i)
     /\ OverviewFollows(listing, Overview([image EXCEPT !.symbols = <<>>], listing).imports)
AttributedIn(image) ==
  AttributedAs(image, ListedAt(image, 600, {Direct("call", 500)}),
               [s \in image.stubs |-> ListedAt(image, 800 + s.address, {Direct("call", s.address)})],
               [n \in DOMAIN image.bindings |-> ListedAt(image, 900 + n, {Direct("data", image.bindings[n].address)})],
               [h \in image.helpers |-> ListedAt(image, 2000 + h.address, {Direct("branch", h.address)})])

\* Code that calls a stub or a helper, or loads from a slot, is said to use the
\* import that is behind it and no other, and so is the code of the stub or helper;
\* notes name no import that references do not, and the overview counts every
\* instruction that uses an import, from the first one on (annotate_instructions,
\* build_disassembly_overview).  A function of the image is taken for an import
\* whose name differs in case or underscores only, as are relocations.
ImportsAreAttributed == (kind = "listing" /\ Clear(input)) => AttributedIn(Loaded(input))

\* Two classes and two references, to a class or selector.
ClassReference(p, a) ==
  LET name(b) == IF b \in {20, 21} THEN p.names[20] ELSE IF b = 30 THEN p.names[30] ELSE IF b = 40 THEN {"s"} ELSE {}
  IN [what |-> p.refs[a].what, table |-> a, to |-> p.refs[a].to, name |-> UNION {name(b) : b \in p.refs[a].to}]
ValueImage(p) ==
  LET Class(a, meta) == [pointer |-> a, meta |-> meta, name |-> p.names[a], lists |-> IF p.list = 50 THEN {50 + a} ELSE {p.list + 40}]
  IN [imports |-> <<>>, symbols |-> <<>>, stubs |-> {}, helpers |-> {}, relocations |-> <<>>, exports |-> {60}, strings |-> {80}, mapped |-> {10, 12},
      objcrefs |-> <<ClassReference(p, 10), ClassReference(p, 12)>>,
      classes |-> <<Class(20, IF p.meta THEN {21} ELSE {}), Class(30, {})>>,
      bindings |-> SetToSeq({[name |-> <<"class", a>>, dylib |-> "L", address |-> a, lazy |-> FALSE, ordinal |-> 0, class |-> {"X"}] : a \in p.bound})]

\* However a value leads to it, a class or selector is said to be the same: at a
\* reference to it, at what is referred to and at its metaclass; a reference bound
\* to a class of another image names that class and its library, and what the
\* listing calls a class, selector or list is listed as a use of one
\* (classify_recovered_value, objc_reference_use_from_recovered).
ClassesAreRecognised ==
  kind = "values" =>
    LET Ref(a) == ClassReference(input, a)
        image == ValueImage(input)
        Value(a) == [value |-> a, kind |-> Classify(image, a, "literal")]
    IN \A use \in {[a \in {10, 12, 20, 21, 30, 40, 60, 70, 80} |-> ObjcUse(image, 1, Value(a))]} :
       /\ \A a \in DOMAIN use :
            /\ Cardinality(use[a]) <= 1
            /\ Value(a).kind \in {"selector", "class", "list"} =>
                 \E u \in use[a] : u.what.kind = Value(a).kind /\ u.what.name # {}
            /\ \A u \in use[a] : Cardinality(u.what.name) <= 1 /\ Cardinality(u.what.to) <= 1
            /\ \A u \in use[a] : (u.what.name # {} /\ a \notin {10, 12}) => u.what.to # {}
       /\ \A a \in {10, 12} : \E u \in use[a] :
            /\ u.what.kind = input.refs[a].what /\ u.what.to = input.refs[a].to
            /\ u.what.name = IF Ref(a).name # {} \/ u.what.kind = "selector" \/ a \notin input.bound THEN Ref(a).name ELSE {"X"}
            /\ (u.what.import # {}) = (a \in input.bound /\ u.what.kind = "class")
            /\ \A b \in u.what.to : \E v \in use[b] : v.what.kind = u.what.kind /\ (a \notin input.bound => v.what.name = u.what.name)
       /\ (input.meta /\ input.names[20] # {}) =>
            \E u, v \in use[20] \cup use[21] : u.what.target = 20 /\ v.what.target = 21 /\ u.what.name = v.what.name

\* An image and the same one moved by 1000, at what is told of a place.
Moved(a) == IF a = 0 THEN 0 ELSE a + 1000
MovedRecord(r) == [f \in DOMAIN r |-> IF f \in {"to", "address", "pointer"} THEN Moved(r[f]) ELSE r[f]]
ListedAlike(here, there) ==
  there.references = {MovedRecord(r) : r \in here.references} /\ there.notes = {MovedRecord(r) : r \in here.notes}
MovedAlike(image, moved) ==
  \A where \in {x.address : x \in image.stubs \cup image.helpers \cup Range(image.bindings)} \cup {600}, to \in {300, 301, 500} :
    ListedAlike(ListedAt(image, where, {Direct("call", to)}), ListedAt(moved, where + 1000, {Direct("call", to + 1000)}))
ValuesAlike(image, moved) ==
  LET Use(loaded, a) == ObjcUse(loaded, 1, [value |-> a, kind |-> Classify(loaded, a, "literal")])
  IN \A a \in {10, 12, 20, 21, 30, 40, 60, 70, 80} :
       /\ Classify(moved, a + 1000, "literal") = Classify(image, a, "literal")
       /\ Use(moved, a + 1000) = {[u EXCEPT !.what.target = @ + 1000, !.what.to = {b + 1000 : b \in @}] : u \in Use(image, a)}

\* Where an image is put in a cache changes nothing of what a listing says of it: code
\* that is moved with it leads to the same imports, stubs and helpers, and values to
\* the same classes, selectors and strings, each at its moved address
\* (rebased_synthetic_binary, rebase_objc_metadata).
MovingChangesNothing ==
  /\ (kind = "listing" /\ Clear(input)) => MovedAlike(Loaded(input), Rebased(Loaded(input), 1300))
  /\ kind = "values" => ValuesAlike(ValueImage(input), Rebased(ValueImage(input), 1010))

\* The counts of the window, of its kinds of edges and of the ends of its blocks.
Consistent(c, kinds, ends) ==
  LET Total(counts) == FoldFunction(+, 0, counts)
  IN /\ c.edges = c.inside + c.outside + c.unresolved + c.returns
     /\ c.edges = c.structural + c.calls + c.returns /\ Total(kinds) = c.edges
     /\ c.blocks = c.reached + c.apart /\ Total(ends) = c.blocks
     /\ c.returns = kinds["Return"] /\ ends["Return"] = c.returns
     /\ c.headers <= c.back /\ c.back <= c.structural /\ (c.back = 0) = (c.headers = 0)
     /\ (c.back = 0) => c.exits > 0
     /\ (c.apart > 0 /\ c.back = 0) => c.entries > 1
     /\ c.longest * c.blocks >= Len(input)

\* The counts of an analysis add up: every edge leads somewhere in the window, out
\* of it, to an unknown place or back to the caller, and is the step to the next
\* block, a jump, a call or a return; each block ends in one way, is reached from
\* the entry or apart from it, and without a way in or out only if some loop holds
\* it (analyze_disassembly_impl).
CountsAddUp == kind = "analysis" => Consistent(Counts(input), EdgeKindCounts(input), TerminatorCounts(input))

\* An ELF file as a linker lays it out: its tables one behind the other, all at
\* 100 more in memory or those from the symbols on at 200 more.  What is undefined
\* comes first, then what the second hash table finds, in two buckets.
ElfSymbolsOf(p) ==
  (IF p.local THEN <<[name |-> 0, version |-> 1, defined |-> TRUE]>> ELSE <<>>)
  \o [k \in DOMAIN p.undefined |-> [name |-> k, version |-> p.undefined[k], defined |-> FALSE]]
  \o [k \in DOMAIN p.defined |-> [name |-> 2 + k, version |-> p.defined[k], defined |-> TRUE]]
ElfPieces(p, symbols) ==
  LET n == Len(symbols) + 1
      first == n - Len(p.defined)
      needs == IF p.libraries = 1
               THEN <<[aux |-> 1, next |-> 0], [other |-> 2, name |-> 12, next |-> 1], [other |-> 3, name |-> 13, next |-> 0]>>
               ELSE <<[aux |-> 2, next |-> 1], [aux |-> 2, next |-> 0], [other |-> 2, name |-> 12, next |-> 0], [other |-> 3, name |-> 13, next |-> 0]>>
      cut == Min({p.cut, n - first})
      bucket(from, to) == IF from < to THEN from ELSE 0
      gnu == <<2, first, 1, 0, 7, 7, bucket(first, first + cut), bucket(first + cut, n)>>
             \o [k \in 1 .. n - first |-> 2 * k + (IF k \in {cut, n - first} THEN 1 ELSE 0)]
      rela(sort, k) == [at |-> 500 + k, kind |-> sort, symbol |-> k, addend |-> 0]
      versym == [k \in 1 .. n |-> [index |-> IF k = 1 THEN 0 ELSE symbols[k - 1].version]]
      symtab == <<[name |-> 0, address |-> 0, size |-> 0, defined |-> FALSE]>>
                \o [k \in DOMAIN symbols |-> [name |-> symbols[k].name, address |-> IF symbols[k].defined THEN 50 + k ELSE 0,
                                              size |-> 0, defined |-> symbols[k].defined]]
  IN <<versym, needs, symtab, IF p.adjacent THEN <<>> ELSE <<0>>, <<0>>, <<1, n>>,
       [k \in 1 .. n |-> rela("jump_slot", n - k)], [k \in 1 .. n |-> rela("glob_dat", k - 1)], gnu>>
OffsetsOf(pieces) ==
  LET at[k \in DOMAIN pieces] == IF k = 1 THEN 0 ELSE at[k - 1] + Len(pieces[k - 1]) IN at
ElfOf(p, n, at, cells) ==
  LET split == IF p.apart THEN at[3] ELSE Len(cells)
      place(k) == at[k] + IF at[k] < split THEN 100 ELSE 200
      tag(name, value) == <<[tag |-> name, value |-> value]>>
  IN [loads |-> <<[vaddr |-> 100, size |-> split, offset |-> 0], [vaddr |-> 200 + split, size |-> Len(cells) - split, offset |-> split]>>,
      cells |-> [k \in 0 .. Len(cells) - 1 |-> cells[k + 1]], size |-> Len(cells),
      strings |-> [k \in 0 .. 20 |-> IF k = 0 THEN NoName ELSE ToString(k)],
      dynamic |-> tag("versym", place(1)) \o tag("verneed", place(2)) \o tag("symtab", place(3)) \o tag("strtab", place(5))
                  \o (IF "hash" \in p.tables THEN tag("hash", place(6)) ELSE <<>>) \o tag("jmprel", place(7)) \o tag("pltrelsz", n)
                  \o tag("rela", place(8)) \o tag("relasz", n) \o (IF "gnu" \in p.tables THEN tag("gnu_hash", place(9)) ELSE <<>>)
                  \o tag("null", 0) \o tag("symtab", 0)]
ElfLaid(p, n, pieces) == ElfOf(p, n, OffsetsOf(pieces), FlattenSeq(pieces))
ElfFile(p) == ElfLaid(p, Len(ElfSymbolsOf(p)) + 1, ElfPieces(p, ElfSymbolsOf(p)))

\* What tells how many symbols there are: a hash table that has the last, or
\* their place before the strings.
CountIsKnown(p) == "hash" \in p.tables \/ ("gnu" \in p.tables /\ p.defined # <<>>) \/ p.adjacent

VersionName(version) == IF version > 1 THEN {ToString(10 + version)} ELSE {}

\* The dynamic symbols read without section headers are those the linker wrote,
\* in its order and each with its version, whichever table tells how many there
\* are (walk_dynamic, dynamic_symbol_count, resolve_versions).
DynamicSymbolsAreRead ==
  kind = "elf" /\ CountIsKnown(input) =>
    DynamicSymbols(ElfFile(input)) =
      LET symbols == ElfSymbolsOf(input) IN
      [k \in DOMAIN symbols |->
         [name |-> IF symbols[k].name = 0 THEN NoName ELSE ToString(symbols[k].name),
          address |-> IF symbols[k].defined THEN 50 + k ELSE 0, defined |-> symbols[k].defined,
          version |-> VersionName(symbols[k].version)]]

\* The relocations of a file, whose symbols may have been read in several ways.
RelocationsNamed(file, reads) ==
  LET symbols == ElfSymbolsOf(input)
      meant(k) == IF k = 0 THEN {}
                  ELSE {[name |-> IF symbols[k].name = 0 THEN NoName ELSE ToString(symbols[k].name),
                         version |-> VersionName(symbols[k].version)]}
      n == Len(symbols) + 1
      order == [k \in 1 .. n |-> n - k] \o [k \in 1 .. n |-> k - 1]
  IN \A read \in reads :
       WalkRelocations(file, DynsymNames(read)) =
       [k \in 1 .. 2 * n |-> [at |-> 500 + order[k], kind |-> IF k <= n THEN "jump_slot" ELSE "glob_dat", addend |-> 0,
                             symbol |-> meant(order[k])]]
ReadsOf(read) == {read} \cup (IF input.local THEN {} ELSE {NamedSymbols(read)})

\* A relocation of either table is about the symbol the linker meant, with its
\* version (walk_relocations and the names it is given).  Left out is a symbol
\* without a name in a file with section headers.
RelocationsNameTheirSymbol ==
  (kind = "elf" /\ CountIsKnown(input)) => \A file \in {ElfFile(input)} : RelocationsNamed(file, ReadsOf(DynamicSymbols(file)))

\* The functions read of unwind records are those a compiler wrote, up to the end
\* of the section, whatever other records are among them (parse_eh_frame).
FramesAreFunctions ==
  kind = "frames" =>
    LET f == input.functions
        ahead(k) == IF k \in input.cies THEN 1 ELSE 0
        at[k \in 1 .. Len(f) + 1] == IF k = 1 THEN 0 ELSE at[k - 1] + 16 + 12 * ahead(k - 1)
        record(k) == (IF ahead(k) = 1 THEN <<[size |-> 8, cie |-> TRUE, start |-> 0, range |-> 0]>> ELSE <<>>)
                     \o <<[size |-> 12, cie |-> FALSE, start |-> f[k][1] - (100 + at[k] + 12 * ahead(k) + 8), range |-> f[k][2]]>>
        records == FlattenSeq([k \in DOMAIN f |-> record(k)]) \o <<[size |-> 0, cie |-> TRUE, start |-> 0, range |-> 0]>>
        length == at[Len(f) + 1] + 4 - 6 * input.cut
    IN ParseEhFrame(records, 100, length) =
         {[start |-> f[k][1], end |-> f[k][1] + f[k][2]] : k \in {m \in DOMAIN f : f[m][2] > 0 /\ at[m + 1] <= length}}

\* What a compiler writes of classes: an address is written as it is, from where
\* the image is based or with a tag, and parts are laid out behind one another.
WrittenAs(form, a) ==
  [k |-> "pointer", text |-> {}, at |-> CASE form = "based" -> a - 4000 [] form = "tagged" -> a + 3 * PointerSpace [] OTHER -> a]
Word64(name) == [k |-> "string", name |-> name]
Selectors == <<"first", "second", "third">>
Union(parts) == FoldFunction(LAMBDA f, g : f @@ g, <<>>, parts)

\* A list of so many methods at an address, each with code at 1 more than its
\* selector; a small list refers to a selector through a pointer.
MethodList(form, at, count, small, behind) ==
  LET step == IF small THEN 12 ELSE 24
      entry(n) == at + 8 + step * (n - 1)
      place(n) == at + 80 + n
      reference(n) == IF behind THEN at + 90 + n ELSE place(n)
      Displacement(a, to) == a :> [k |-> "displacement", by |-> to - a]
      Part(n) == (place(n) :> Word64(Selectors[n])) @@ (at + 90 + n :> WrittenAs(form, place(n))) @@ (at + 95 :> Word64("v8"))
                 @@ (IF small
                     THEN Displacement(entry(n), reference(n)) @@ Displacement(entry(n) + 8, place(n) + 900) @@ Displacement(entry(n) + 4, at + 95)
                     ELSE (entry(n) :> WrittenAs(form, reference(n))) @@ (entry(n) + 16 :> WrittenAs("plain", place(n) + 900))
                          @@ (entry(n) + 8 :> WrittenAs(form, at + 95)))
  IN (at :> [k |-> "list", small |-> small, count |-> count, size |-> step]) @@ Union([n \in 1 .. count |-> Part(n)])
MethodsOf(at, count, small, owner) ==
  [n \in 1 .. Min({count, ListLimit}) |->
     [owner |-> owner, selector |-> {Selectors[n]}, source |-> IF small THEN "relative" ELSE "direct", implementation |-> {at + 80 + n + 900}, types |-> {"v8"}]]

\* Lists of so many properties and variables.
NamedList(form, at, count, step) ==
  LET entry(n) == at + 8 + step * (n - 1)
      To(a, by) == a :> WrittenAs(form, by)
      Part(n) == IF step = 16
                 THEN To(entry(n), at + 200 + n) @@ To(entry(n) + 8, at + 210) @@ (at + 200 + n :> Word64(Selectors[n])) @@ (at + 210 :> Word64("T@"))
                 ELSE To(entry(n), at + 200 + n) @@ To(entry(n) + 8, at + 220 + n) @@ To(entry(n) + 16, at + 210)
                      @@ (at + 200 + n :> [k |-> "number", value |-> 8 * n]) @@ (at + 220 + n :> Word64(Selectors[n])) @@ (at + 210 :> Word64("T@"))
  IN (at :> [k |-> "list", small |-> FALSE, count |-> count, size |-> step]) @@ Union([n \in 1 .. count |-> Part(n)])
PropertiesOf(count, owner) ==
  [n \in 1 .. Min({count, NameLimit}) |-> [owner |-> owner, name |-> {Selectors[n]}, source |-> "runtime", attributes |-> {"T@"}]]
IvarsOf(count, owner) ==
  [n \in 1 .. Min({count, NameLimit}) |-> [owner |-> owner, name |-> {Selectors[n]}, source |-> "runtime", types |-> {"T@"}, offset |-> {8 * n}]]

\* The names in these images as they sort, and the flags of the image, of which a
\* section too short says nothing.
SortedAs == <<Dotted, "C", "D", "E", "P", "Q", "S", "first", "one", "second", "third", "told", "two">>
NameRank == [name \in Range(SortedAs) |-> CHOOSE n \in DOMAIN SortedAs : SortedAs[n] = name]
InfoSections == <<[size |-> 8, flags |-> 64], [size |-> 4, flags |-> 7]>>

TablesOf(tables) == FlattenSeq([n \in DOMAIN tables |-> [k \in DOMAIN tables[n][2] |-> [kind |-> tables[n][1], at |-> 10 * n + k, raw |-> tables[n][2][k].at]]])
NoNames == [classes |-> {}, methods |-> {}]

\* A class at 5100, its metaclass at 5200 and the class above it at 5300; their
\* data follow, then names, methods, properties and variables, and protocols, of
\* which the first has the class's lists.
ClassImage(p) ==
  LET To(a) == WrittenAs(p.form, 5000 + a)
      Data(a) == [To(a) EXCEPT !.at = @ + p.flags]
      parts == [class |-> (100 :> To(200)) @@ (132 :> Data(400)) @@ (432 :> To(800)) @@ (440 :> To(720))
                          @@ (448 :> To(2000)) @@ (464 :> To(1500)),
                above |-> IF p.super = "here" THEN (108 :> To(300)) @@ (332 :> Data(600)) ELSE 108 :> WrittenAs("plain", 0),
                meta |-> (232 :> Data(504)) @@ IF p.classMethods = 0 THEN <<>> ELSE 536 :> To(900),
                names |-> (424 :> To(700)) @@ (624 :> To(702))
                          @@ IF "data" \in p.names THEN (700 :> Word64("C")) @@ (702 :> Word64("S")) ELSE <<>>,
                adopted |-> 720 :> WrittenAs("plain", Cardinality(p.protocols))]
      order == SetToSortSeq(p.protocols, <)
      adopted == [n \in DOMAIN order |-> LET at == 2900 + 100 * order[n] IN
                   (720 + 8 * n :> To(at)) @@ (at + 8 :> To(at + 90)) @@ (at + 90 :> Word64(<<"P", "Q">>[order[n]]))
                   @@ IF order[n] = 1 THEN (at + 40 :> To(800)) @@ (at + 56 :> To(1500)) ELSE <<>>]
      all == Union(parts) @@ Union(adopted)
      words == [a \in {5000 + b : b \in DOMAIN all} |-> all[a - 5000]] @@ MethodList(p.form, 5800, p.methods, p.small, p.behind)
               @@ NamedList(p.form, 6500, p.variables, 16) @@ NamedList(p.form, 7000, p.variables, 32)
               @@ IF p.classMethods = 0 THEN <<>> ELSE MethodList(p.form, 5900, p.classMethods, ~ p.small, p.behind)
  IN [sections |-> {[address |-> 5500, offset |-> {1500}], [address |-> 5100, offset |-> {1100}], [address |-> 900, offset |-> {}]},
      words |-> words, mapped |-> 5100 .. 8200, pools |-> NoNames, rank |-> NameRank, info |-> InfoSections,
      tables |-> TablesOf(<<<<"classlist", <<To(100), WrittenAs("plain", 0)>>>>, <<"classrefs", IF p.super = "here" THEN <<To(300), To(100)>> ELSE <<>>>>,
                         <<"selrefs", IF p.methods = 0 THEN <<>> ELSE <<To(881)>>>>,
                         <<"protolist", [n \in DOMAIN order |-> To(2900 + 100 * order[n])]>>, <<"protorefs", [n \in DOMAIN order |-> To(2900 + 100 * order[n])]>>>>),
      symbols |-> IF "symbol" \in p.names THEN <<[kind |-> "class", at |-> 5100, class |-> "C"], [kind |-> "metaclass", at |-> 5300, class |-> "S"]>>
                  ELSE <<>>]

\* What is in the source of those classes.
ClassesWritten(p) ==
  LET Called(name) == IF p.names = {} THEN {} ELSE {name}
      source == CASE "data" \in p.names -> "runtime" [] p.names = {"symbol"} -> "pointer_table" [] OTHER -> "unresolved"
      lone == [pointer |-> 5300, name |-> Called("S"), source |-> source, superclass |-> {}, methods |-> <<>>, classMethods |-> <<>>,
               properties |-> <<>>, ivars |-> <<>>, protocols |-> <<>>]
  IN {[lone EXCEPT !.pointer = 5100, !.name = Called("C"), !.superclass = IF p.super = "here" THEN Called("S") ELSE {},
                   !.methods = MethodsOf(5800, p.methods, p.small, [of |-> 5100, kind |-> "class", class |-> FALSE]),
                   !.classMethods = MethodsOf(5900, p.classMethods, ~ p.small, [of |-> 5200, kind |-> "metaclass", class |-> TRUE]),
                   !.properties = PropertiesOf(p.variables, 5100), !.ivars = IvarsOf(p.variables, 5100),
                   !.protocols = SelectSeq(<<"P", "Q">>, LAMBDA name : \E n \in p.protocols : name = <<"P", "Q">>[n])]}
     \cup IF p.super = "here" THEN {lone} ELSE {}
ProtocolsWritten(p) ==
  {[pointer |-> 7900 + 100 * n, name |-> {<<"P", "Q">>[n]}, source |-> "runtime", required |-> <<>>, requiredClass |-> <<>>,
    optional |-> IF n = 1 THEN MethodsOf(5800, p.methods, p.small, [of |-> 8000, kind |-> "protocol", class |-> FALSE]) ELSE <<>>,
    optionalClass |-> <<>>, properties |-> IF n = 1 THEN PropertiesOf(p.variables, 8000) ELSE <<>>] : n \in p.protocols}

\* The classes read are those the compiler wrote, each once, with the class above,
\* the methods of its objects and its own, its properties and variables, each up
\* to its limit, and its protocols, whichever way pointers and lists are written;
\* so are the protocols, and every name is among the names older callers ask for
\* (collect_objc_metadata).  The first byte of a class is zero and, of lists of
\* pointers, code is written as it is.
ClassesAreRead ==
  kind = "classes" =>
    \A image \in {ClassImage(input)}, class \in {ClassesWritten(input)} : \A read \in {ObjcMetadataOf(image)} :
      LET selectors(count) == {Selectors[n] : n \in 1 .. Min({count, ListLimit})}
          sorted(names) == SelectSeq(SortedAs, LAMBDA name : name \in names)
          each(records, want) == Range(records) = want /\ Len(records) = Cardinality(want)
      IN /\ {Restrict(c, DOMAIN c \ {"at"}) : c \in Range(read.classes)} = class /\ Len(read.classes) = Cardinality(class)
         /\ each(read.protocols, ProtocolsWritten(input))
         /\ read.categories = <<>> /\ read.flags = {64}
         /\ read.classNames = sorted(UNION {c.name : c \in class} \cup {<<"P", "Q">>[n] : n \in input.protocols})
         /\ read.methodNames = sorted(selectors(input.methods) \cup selectors(input.classMethods))
         /\ read.selectorNames = sorted({Selectors[n] : n \in 1 .. Min({input.methods, 1})})

\* Categories in an image: a list of those of the image, symbols of methods, of
\* classes of other images and of lists.  Two symbols are of no category.
CategoryImage(p) ==
  LET At(n) == 1200 * n
      To(a) == WrittenAs("plain", a)
      Category(n) ==
        LET c == p.listed[n] IN
        (At(n) :> To(At(n) + 50)) @@ (At(n) + 50 :> Word64(c.name))
        @@ (At(n) + 8 :> IF c.class = "C" THEN To(16) ELSE To(0))
        @@ (At(n) + 16 :> To(At(n) + 100)) @@ MethodList("plain", At(n) + 100, c.methods, FALSE, FALSE)
        @@ (IF c.protocols = {} THEN <<>> ELSE (At(n) + 32 :> To(At(n) + 300))
             @@ (At(n) + 300 :> To(1)) @@ (At(n) + 308 :> To(80)))
        @@ (IF c.methods = 0 THEN <<>> ELSE (At(n) + 40 :> To(At(n) + 400)) @@ NamedList("plain", At(n) + 400, 1, 16))
      protocols == (88 :> To(81)) @@ (81 :> Word64("P")) @@ (128 :> To(121)) @@ (121 :> Word64("Q"))
      told == (700 :> To(1)) @@ (708 :> To(120)) @@ NamedList("plain", 800, 2, 16)
      words == Union([n \in DOMAIN p.listed |-> Category(n)]) @@ (42 :> To(20)) @@ (44 :> Word64("C")) @@ (16 :> To(0)) @@ protocols @@ told
      method == [kind |-> "method", class |-> "C", category |-> "one", at |-> 11, meta |-> FALSE, selector |-> "told"]
      symbols == SetToSeq(p.symbols)
      List(of, at) == [kind |-> "list", of |-> of, class |-> "C", category |-> "one", at |-> at]
  IN [sections |-> {}, words |-> words, mapped |-> DOMAIN words \cup {20, 80, 120}, pools |-> NoNames,
      rank |-> NameRank, info |-> <<>>,
      tables |-> TablesOf(<<<<"classlist", <<To(16)>>>>, <<"catlist", [n \in DOMAIN p.listed |-> To(At(n))]>>>>),
      symbols |-> <<[kind |-> "class", at |-> 16, class |-> "C"], [method EXCEPT !.category = Junk], [method EXCEPT !.selector = Dotted]>>
                  \o [n \in DOMAIN p.undefined |-> [kind |-> "class", at |-> 0, class |-> p.undefined[n]]]
                  \o [n \in DOMAIN symbols |-> [method EXCEPT !.class = symbols[n].class, !.category = symbols[n].category,
                                                              !.at = symbols[n].at, !.meta = symbols[n].meta]]
                  \o (IF p.hint THEN [n \in DOMAIN p.listed |-> [List("methods", At(n) + 100) EXCEPT !.class = p.listed[n].class,
                                                                                                    !.category = p.listed[n].name]] ELSE <<>>)
                  \o (IF "properties" \in p.told THEN <<List("properties", 800)>> ELSE <<>>)
                  \o (IF "protocols" \in p.told THEN <<List("protocols", 700)>> ELSE <<>>)]

ByPointer(records) == \A m, n \in DOMAIN records : m < n => records[m].pointer < records[n].pointer

\* The records of the categories of a problem, which are not at one place.
CategoriesKept(records) ==
  LET listed == input.listed
      first(c, n) == Min({s.at : s \in {t \in input.symbols : t.class = c /\ t.category = n}})
      names == {<<s.class, s.category>> : s \in input.symbols}
      apart == \A x, y \in names : x # y => first(x[1], x[2]) # first(y[1], y[2])
      known == /\ \E n \in DOMAIN listed : listed[n].class = "D"
               => IF input.undefined = <<>> THEN input.hint ELSE Last(input.undefined) = "D"
      all(r) == {<<m, TRUE>> : m \in Range(r.classMethods)} \cup {<<m, FALSE>> : m \in Range(r.methods)}
      same(s) == {n \in DOMAIN listed : listed[n].class = s.class /\ listed[n].name = s.category}
      open(s) == \A n \in same(s) : (n = Min(same(s)) => s.meta \/ listed[n].methods = 0)
      Told(s, m) == /\ m.selector = {"told"} /\ m.source = "legacy_pool" /\ m.implementation = {s.at} /\ m.types = {}
                    /\ m.owner.kind = "category" /\ m.owner.class = s.meta
      filled(n) == \E s \in input.symbols : s.class = "C" /\ s.category = "one" /\ n \in same(s) /\ n = Min(same(s))
      own(n) == Min({listed[n].methods, NameLimit})
      plain(properties) == [k \in DOMAIN properties |-> PropertyKey(properties[k])]
      given(n, what) == filled(n) /\ what \in input.told
  IN apart /\ known =>
       /\ {<<r.class, r.name>> : r \in records} =
            {<<{x[1]}, {x[2]}>> : x \in names \cup {<<listed[n].class, listed[n].name>> : n \in DOMAIN listed}}
       /\ \A s \in input.symbols :
            LET of == {r \in records : \E m \in all(r) : m[2] = s.meta /\ Told(s, m[1])} IN
            /\ Cardinality(of) = (IF open(s) THEN 1 ELSE 0)
            /\ \A r \in of : r.class = {s.class} /\ r.name = {s.category}
       /\ \A n \in DOMAIN listed :
            \E r \in records :
              /\ r.pointer = 1200 * n /\ r.class = {listed[n].class} /\ r.name = {listed[n].name} /\ r.nameSource = "runtime"
              /\ r.classAt = IF listed[n].class = "C" THEN {16} ELSE {}
              /\ r.protocols = SelectSeq(<<"P", "Q">>, LAMBDA p : p \in listed[n].protocols \/ (p = "Q" /\ given(n, "protocols")))
              /\ r.protocolsSource = CASE listed[n].protocols # {} -> "runtime" [] given(n, "protocols") -> "legacy_pool" [] OTHER -> "unresolved"
              /\ plain(r.properties) = plain(PropertiesOf(IF given(n, "properties") THEN 2 ELSE own(n), 0))
              /\ r.propertiesSource = CASE own(n) # 0 -> "runtime" [] given(n, "properties") -> "legacy_pool" [] OTHER -> "unresolved"
              /\ listed[n].methods = 1 => r.methods = MethodsOf(1200 * n + 100, 1, FALSE, RecordOwner(1200 * n, FALSE))

\* A method of a category, listed or known by its symbol, is in exactly one
\* record, of its class and category, and a list of the image goes before symbols:
\* these fill only a kind of methods of which it has none, in the first record of
\* their class and category, and add the properties and protocols it has not,
\* each once; where a list is from is told; no record is of anything else
\* (collect_category_records and what it merges).  Left out are two categories
\* of symbols whose first methods are one function, as one takes the other's
\* place, and a category of a class of another image that does not come last
\* among those the image uses, as it is taken for one of that class.
CategoryMethodsAreKept ==
  kind = "categories" =>
    \A image \in {CategoryImage(input)} : \A read \in {ObjcMetadataOf(image)} : CategoriesKept(Range(read.categories)) /\ ByPointer(read.categories)

X86Image(p) ==
  LET inner == SetToSortSeq(p.ends, <)
  IN [sections |-> [k \in DOMAIN inner |-> LET start == IF k = 1 THEN 2 ELSE inner[k - 1]
                                          IN [start |-> start, size |-> inner[k] - start, executable |-> TRUE]],
      loads |-> <<[start |-> 2, size |-> 5, offset |-> 1]>>, fileSize |-> IF p.whole THEN 6 ELSE 5,
      symbols |-> [k \in 1 .. 2 |-> [defined |-> k = 1, address |-> 5, rank |-> 1]],
      frames |-> {[start |-> a, end |-> a] : a \in p.starts},
      code |-> [a \in {b \in 2 .. 6 : p.code[b].op # "bad"} |-> p.code[a]]]

\* Every function of an ELF image whose code can be read has one bound, which ends
\* where falling through from its start first returns or traps, or where the next
\* function or the section does; no two bounds overlap, and each instruction so
\* reached gives its references once (harvest_elf_xrefs).
ElfBoundsFollowTheCode ==
  kind = "x86" =>
    LET image == X86Image(input)
        functions == input.starts \cup {5}
        ends(a) == {e \in input.ends : e > a}
        limit(a) == Min(ends(a) \cup {f \in functions : f > a})
        size(a) == image.code[a].size
        fits(a, to) == a \in DOMAIN image.code /\ a + size(a) <= to
        falls[a \in 2 .. 7] == {a} \cup (IF fits(a, 7) THEN falls[a + size(a)] ELSE {})
        run(a) == {b \in falls[a] : fits(b, limit(a))
                                     /\ \A c \in falls[a] : c < b => fits(c, limit(a))}
        stops(a) == {b \in run(a) : image.code[b].op \in {"ret", "trap"}}
        readable == {a \in functions : a < 7 /\ limit(a) <= (IF input.whole THEN 7 ELSE 6) /\ run(a) # {}}
    IN \A facts \in {AnalyzeElf(image)} :
       LET bounds == {f \in facts : f.kind = "function_bound"} IN
       /\ {<<b.at, b.to, b.stop>> : b \in bounds} =
            {LET last == Min(stops(a)) IN
             IF stops(a) # {} THEN <<a, last + size(last), IF image.code[last].op = "ret" THEN "return" ELSE "trap">>
             ELSE <<a, limit(a), IF limit(a) = Min(ends(a)) THEN "section_end" ELSE "seed_boundary">> : a \in readable}
       /\ \A b, c \in bounds : b.at < c.at => b.to <= c.at
       /\ {f \in facts : f.kind = "xref"} =
            UNION {UNION {{[kind |-> "xref", at |-> b, ref |-> r.ref, to |-> r.to] : r \in image.code[b].references} : b \in run(a)} : a \in readable}

\* A Swift image: lists of pointers at 0, 20 and 40, descriptors from 100 on, where a
\* tagged pointer is to 150, and names from 200 on, each in ten cells.
SwiftWordOf(n) == <<n, 0>>
SwiftLayout(problem) ==
  LET At(base, n) == base + 8 * (n - 1)
      Pointers(start, gap, base, width, count) ==
        [start |-> start, data |-> (IF gap THEN SwiftWordOf(0) ELSE <<>>)
           \o FlattenSeq([n \in 1 .. count |-> SwiftWordOf(base + width * (n - 1) - start - 2 * (n - 1) - (IF gap THEN 2 ELSE 0))])]
      Descriptor(at, d, name) == SwiftWordOf(d.flags) \o SwiftWordOf(0) \o SwiftWordOf(IF d.name = <<>> THEN 0 ELSE name - at - 4) \o SwiftWordOf(0)
      Descriptors(base, names, list) == FlattenSeq([n \in DOMAIN list |-> Descriptor(At(base, n), list[n], names + 10 * (n - 1))])
      Texted(list) == FlattenSeq([n \in DOMAIN list |-> list[n].name \o [k \in 1 .. 10 - Len(list[n].name) |-> 0]])
      To(at, base, n) == IF n = 0 THEN 0 ELSE IF n = 9 THEN 151 - at ELSE At(base, n) - at
      Record(at, c) == SwiftWordOf(To(at, 120, c.protocol)) \o SwiftWordOf(To(at + 2, 100, c.type)) \o SwiftWordOf(c.flags)
      Conforming == FlattenSeq([n \in DOMAIN problem.conformances |-> Record(140 + 6 * (n - 1), problem.conformances[n])])
  IN [symbols |-> {},
      sections |-> [types |-> Pointers(0, problem.gap, 100, 8, Len(problem.types)),
                    protos |-> Pointers(20, FALSE, 120, 8, Len(problem.protocols)),
                    proto |-> Pointers(40, problem.gap, 140, 6, Len(problem.conformances)),
                    const |-> [start |-> 100, data |-> Descriptors(100, 200, problem.types)],
                    constg_swiftt |-> [start |-> 120, data |-> Descriptors(120, 230, problem.protocols)],
                    typeref |-> [start |-> 140, data |-> Conforming],
                    cstring |-> [start |-> 200, data |-> Texted(problem.types)],
                    reflstr |-> [start |-> 230, data |-> Texted(problem.protocols)]]]

\* The types, protocols and conformances read are those declared, in order, with
\* their kinds and what names can be shown; a conformance names the protocol and
\* the type it has in the image, and says of a tagged type that it is indirect; a
\* filter shows what has such a name (parse_types, parse_conformances, handle_swift).
SwiftRecordsAreRead ==
  kind = "swift" =>
    LET Name(d) == IF d.name = <<>> \/ -1 \in Range(d.name) THEN {} ELSE {d.name}
        Named(list, n) == IF n \in DOMAIN list THEN Name(list[n]) ELSE {}
        Kind(d) == IF d.flags % 16 \in 0 .. 4 THEN <<"class", "struct", "enum", "protocol", "extension">>[1 + (d.flags % 16)] ELSE "other"
        Of(list, F(_)) == [n \in DOMAIN list |-> F(list[n])]
        Conforms(c) == [protocol |-> Named(input.protocols, c.protocol), type |-> Named(input.types, c.type),
                        kind |-> IF c.type = 9 THEN "indirect" ELSE IF c.type \in DOMAIN input.types THEN Kind(input.types[c.type]) ELSE "unknown",
                        retroactive |-> c.flags = 65]
    IN \A image \in {SwiftLayout(input)} :
       \A shown \in {[filter \in {{}, {{<<1>>}}} |-> [json \in BOOLEAN |-> HandleSwift(image, filter, json).lists]]} :
       \A read \in {shown[{}][TRUE]}, some \in {shown[{{<<1>>}}][TRUE]} :
       /\ Of(read.types, LAMBDA t : <<t.name, t.kind>>) = Of(input.types, LAMBDA d : <<Name(d), Kind(d)>>)
       /\ Of(read.protocols, LAMBDA p : p.name) = Of(input.protocols, Name)
       /\ read.conformances = Of(input.conformances, Conforms)
       /\ shown[{{<<1>>}}][FALSE] = read
       /\ \A l \in {"types", "protocols"} : some[l] = SelectSeq(read[l], LAMBDA r : r.name = {<<1>>})
       /\ \A c \in Range(read.conformances) : (c \in Range(some.conformances)) = (<<1>> \in c.protocol \cup c.type)

\* Fields are read in the order they are declared in, each under its own type; a type
\* without names to show is left out, and what precedes the first or is cut off
\* at the end changes nothing else (parse_fieldmd).
SwiftFieldsAreRead ==
  kind = "fields" =>
    LET names == [start |-> 500, data |-> <<1, 1, 0, 2, 0, -1, 0>>]
        where == <<0, 3, 5>>
        Size(t) == 8 + 6 * Len(t.names)
        Offset(n) == 2 * input.lead + FoldLeft(LAMBDA sum, t : sum + Size(t), 0, SubSeq(input.types, 1, n - 1))
        NamedField(at, n) == SwiftWordOf(0) \o SwiftWordOf(0) \o SwiftWordOf(IF n = 0 THEN 0 ELSE 500 + where[n] - at - 4)
        Declared(n) == LET t == input.types[n] at == Offset(n) + 8
                   IN <<0, 0, 0, 0, t.kind, 12>> \o SwiftWordOf(Len(t.names))
                      \o FlattenSeq([k \in DOMAIN t.names |-> NamedField(at + 6 * (k - 1), t.names[k])])
        whole == FlattenSeq([n \in 1 .. input.lead |-> SwiftWordOf(0)]) \o FlattenSeq([n \in DOMAIN input.types |-> Declared(n)])
        last == Len(input.types)
        there == IF input.cut = 0 \/ last = 0 THEN input.types ELSE SubSeq(input.types, 1, last - 1)
        Shown(t) == SelectSeq(t.names, LAMBDA n : n \in {1, 2})
        shown == SelectSeq(there, LAMBDA t : Shown(t) # <<>>)
    IN ParseFieldmd([start |-> 0, data |-> SubSeq(whole, 1, Len(whole) - Min({input.cut, Len(whole)}))], names) =
         [n \in DOMAIN shown |-> [kind |-> shown[n].kind, names |-> [k \in DOMAIN Shown(shown[n]) |-> <<<<1, 1>>, <<2>>>>[Shown(shown[n])[k]]]]]

\* A symbol made of a module, a type and a member is shown as them, whatever its length
\* and what follows; one with a letter no name can have is not (demangle).
SwiftSymbolsReadBack ==
  kind = "mangled" =>
    LET Mangle(name) == (IF Len(name) > 9 THEN <<"1", "1">> ELSE <<<<"1", "2">>[Len(name)]>>) \o name
        short == input.module \in DOMAIN ShortModules
        member == input.type # <<>> /\ input.member \notin {<<>>, <<"!">>}
        text == (IF short THEN input.module ELSE Mangle(input.module)) \o Mangle(input.name) \o input.type
                \o (IF input.type = <<>> \/ input.member = <<>> THEN <<>> ELSE Mangle(input.member)) \o input.tail
    IN Demangle(text) =
         IF "!" \in Range(input.module) \cup Range(input.name) THEN {}
         ELSE {[module |-> IF short THEN ShortModules[input.module] ELSE input.module,
                path |-> <<input.name>> \o (IF member THEN <<input.member>> ELSE <<>>),
                accessor |-> CASE IsSuffix(<<"v", "g">>, input.tail) -> "getter" [] IsSuffix(<<"f", "C">>, input.tail) -> "init" [] OTHER -> "",
                thunk |-> input.tail = <<"F", "T", "W">>]}
=============================================================================
