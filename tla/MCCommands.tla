----------------------------- MODULE MCCommands -----------------------------
(***************************************************************************)
(* The commands that answer from an image or from a project, compared with *)
(* what was asked for: a problem is a command with what it is asked of.    *)
(***************************************************************************)
EXTENDS MCImages, DisasmCommand, ProjectQueries, SharedCacheQueries, ProjectCommands

\* Two sections of code, the first of which ends inside a word.
CommandSections ==
  <<[name |-> "a", start |-> 2, size |-> 7, backed |-> TRUE], [name |-> "b", start |-> 10, size |-> 4, backed |-> TRUE]>>
CommandImage(bad) ==
  [sections |-> CommandSections, code |-> [a \in (2 .. 14) \ {bad} |-> "nop"],
   symbols |-> <<[name |-> "f", address |-> 2, size |-> 0, defined |-> TRUE], [name |-> "g", address |-> 6, size |-> 0, defined |-> TRUE]>>]
CommandTargets == [k : {"Section"}, name : {"a", "none"}] \cup [k : {"Address"}, address : {2, 5, 9}]
                  \cup [k : {"Symbol"}, name : {"f", "g"}]

\* Up to three Swift symbols and the owners of methods of one selector.
SwiftSymbols == [name : {"m"}, demangled : {{}, {"A"}, {"AB"}}, parts : {{"A", "B"}}, address : {1}]
                \cup [name : {"n"}, demangled : {{"A"}, {"B"}}, parts : {{}, {"A"}}, address : {1, 2}]
Owners == {[names |-> n, display |-> d, kind |-> "class", own |-> o, methods |-> m] :
             n \in {{"C"}}, d \in {"C"}, o \in BOOLEAN, m \in SUBSET {[selector |-> "s", at |-> 1], [selector |-> "t", at |-> 2]}}
          \cup {[names |-> {"C", "K"}, display |-> "C(K)", kind |-> "category", own |-> o, methods |-> {[selector |-> "s", at |-> a]}] :
                  o \in BOOLEAN, a \in {1, 3}}

\* Functions at 1, 4 and 6, with or without a name, and what else can be found.
Labels == [match : 0 .. 1, loose : {TRUE}, order : {1}] \cup {[match |-> 3, loose |-> FALSE, order |-> 2]}
FunctionsAt(choice) == {[address |-> a, name |-> choice[a].name] : a \in {b \in DOMAIN choice : choice[b].there}}
PlaceChoices(labels) == [there : BOOLEAN, name : {{}}] \cup [there : {TRUE}, name : {{l} : l \in labels}]
Objects == [kind : {"symbol", "string"}, name : [match : {0, 2}, loose : {TRUE}, order : {1}], at : {8}]
References == {[from |-> 2, ref |-> "call", target |-> {7}, order |-> 1], [from |-> 4, ref |-> "data", target |-> {11}, order |-> 1],
               [from |-> 6, ref |-> "call", target |-> {}, order |-> 1], [from |-> 7, ref |-> "call", target |-> {2}, order |-> 1]}

\* Names, of which the second has all the parts of the first; records that can be read
\* as sections, symbols, imports and relocations; and what owns Objective-C methods.
PartNames == <<[parts |-> {"x"}, order |-> 1], [parts |-> {"x", "y"}, order |-> 2], [parts |-> {"z"}, order |-> 3]>>
ListedRecords == [name : {PartNames[1], PartNames[2]}, from : {PartNames[2], PartNames[3]}, flag : BOOLEAN, other : {TRUE}, at : {0, 1}, size : {4}]
                 \cup [name : {PartNames[2]}, from : {PartNames[2]}, flag : {TRUE}, other : {FALSE}, at : {1}, size : {3}]
OwnedBy(sources) == [n \in DOMAIN sources |-> [source |-> sources[n]]]
OwnerClasses == [name : {{}, {PartNames[1]}, {PartNames[2]}}, super : {{}, {PartNames[1]}}, source : {"class"},
                 methods : {OwnedBy(<<"s", "t">>)}, properties : {OwnedBy(<<"class">>)}, ivars : {OwnedBy(<<"symbol", "class">>)}]
                \cup [name : {{PartNames[3]}}, super : {{PartNames[1]}}, source : {"symbol"}, methods : {<<>>}, properties : {<<>>}, ivars : {<<>>}]
OwnerProtocols == [name : {{PartNames[2]}}, source : {"symbol"}, methods : {OwnedBy(<<"t">>)}, properties : {<<>>}]
OwnerCategories == [name : {{}, {PartNames[2]}}, class : {{}, {PartNames[1]}}, source : {"symbol"}, classSource : {"class"},
                    record : {"symbols"}, lists : BOOLEAN, methods : {OwnedBy(<<"s">>)}, properties : {OwnedBy(<<"symbol">>)}]

\* Images of a shared cache with two adjoining mappings, in two orders of the table.
CachePath(d, f) == [directory |-> {d}, file |-> f]
CacheMappings == <<[start |-> 2, size |-> 6, member |-> 1, offset |-> 0], [start |-> 8, size |-> 3, member |-> 2, offset |-> 0]>>
CacheBases == {<<2, 5>>, <<5, 2>>, <<5, 8>>, <<8, 3>>, <<14, 5>>}
CacheSymbols(base) == {[name |-> 1, at |-> base, source |-> "export"], [name |-> 2, at |-> base + 2, source |-> "export"],
                       [name |-> 1, at |-> base + 2, source |-> "local"], [name |-> 3, at |-> base + 1, source |-> "local"]}
CachePaths == <<CachePath("a", "f"), CachePath("b", "g"), CachePath("c", "g")>>
CacheImports == [name : 1 .. 2, dylib : {CachePaths[2]}] \cup [name : {1}, dylib : {CachePaths[1], CachePaths[3], CachePath("d", "h")}]

\* A file of a cache beside its root: as it should be, of another cache, or another file.
FileStates == {"fits", "other", "alien", "absent"}

\* Partial functions from a set to a set.
Partial(S, T) == UNION {[D -> T] : D \in SUBSET S}

\* A project with nothing in it, and its image.
EmptyProject ==
  [names |-> <<>>, renames |-> <<>>, bounds |-> {}, xrefs |-> {}, imports |-> {1}, image |-> {}, elf |-> FALSE, file |-> TRUE,
   beside |-> TRUE, passes |-> <<>>, strings |-> {}, problems |-> {}, dwarf |-> [own |-> {}, bundle |-> {}], elfcode |-> <<>>, text |-> <<>>]
EmptyImage == [symbols |-> <<>>, code |-> <<>>]
Assertion(good, site) == [wellFormed |-> good, register |-> "x0", value |-> 1, site |-> site]

\* What can be declared: struct 1 in two ways, of which the second comes last.
StructTags == {StructTag(1, 1, {0}), StructTag(1, 2, {8}), StructTag(2, 1, {4})}
Bindings == [wellFormed : {TRUE}, register : {"x0", "x1"}, struct : 1 .. 2] \cup [wellFormed : {FALSE}, register : {"x0"}, struct : {1}]
FunctionBounds == {[at |-> 1, to |-> 4], [at |-> 4, to |-> 7], [at |-> 7, to |-> 9]}
RefineXrefs == {[ref |-> "data", at |-> 2, to |-> <<"data", 20>>], [ref |-> "data", at |-> 3, to |-> <<"data", 21>>],
                [ref |-> "data", at |-> 5, to |-> <<"data", 20>>], [ref |-> "import", at |-> 8, to |-> <<"import", 1>>]}
CallXrefs == {[ref |-> "call", at |-> c[1], to |-> <<"function", c[2]>>] : c \in {<<2, 4>>, <<5, 1>>, <<5, 7>>, <<8, 4>>, <<6, 10>>}}

\* Strings of a project: facts as they are stored, and what their target has there.
StringFacts == [at : {8, 16}, encoding : {1}, len : {2, 4}]
StringTexts == {[chars |-> 2, parts |-> {"x"}], [chars |-> 3, parts |-> {"x", "y"}]}
BatchLines == [stem : {"a", "b"}, blank : {FALSE}, creates : {TRUE}, loads : {TRUE}, facts : {2}, stored : {1, 2}]
              \cup [stem : {"a"}, blank : {FALSE}, creates : BOOLEAN, loads : {FALSE}, facts : {2}, stored : {2}]
              \cup [stem : {"b"}, blank : {TRUE}, creates : {TRUE}, loads : {TRUE}, facts : {2}, stored : {2}]
SummaryXrefs == {[ref |-> "call", at |-> 2, to |-> <<"function", 4>>], [ref |-> "import", at |-> 2, to |-> <<"import", 1>>],
                 [ref |-> "data", at |-> 4, to |-> <<"data", 20>>], [ref |-> "indirect_call", at |-> 5, to |-> <<"register", 8>>],
                 [ref |-> "call", at |-> 5, to |-> <<"function", 1>>], [ref |-> "data", at |-> 8, to |-> <<"data", 21>>]}

CommandProblems ==
  [resolve |-> [names : [{1, 4} -> {{}, {1}, {2}}], renames : Partial({1, 4}, {1, 2}), symbols : Partial({1, 2}, {1, 4}), elf : BOOLEAN],
   typing  |-> [structs : SUBSET StructTags, bound : SUBSET {BindTag("x0", 1)}, binds : Texts(Bindings, 2),
                struct : {{}, {[name |-> 2, order |-> 2]}}, fields : {{}, {0}}, wellFormed : BOOLEAN, import : BOOLEAN, own : BOOLEAN],
   refine  |-> [names : [{1, 4, 7} -> {{}, {1}, {3}, {4}}], renames : Partial({1}, {2}), bounds : SUBSET FunctionBounds, xrefs : SUBSET RefineXrefs],
   asking  |-> [bounds : SUBSET FunctionBounds, calls : SUBSET CallXrefs, passing : SUBSET {2, 5, 8}, code : {{1, 4, 7}, {1, 4}, {2, 4, 7}}],
   strings |-> [strings : Texts(StringFacts, 2), classes : Texts([at : {8}, class : {1, 2}], 2), texts : Partial({8, 16}, StringTexts),
                elf : BOOLEAN, image : BOOLEAN, limit : {{}, {1}}],
   summary |-> [names : {n \in [{1, 4, 7} -> {{}, {1}, {2}}] : n[7] = {}}, renames : Partial({4}, {1}), bounds : SUBSET FunctionBounds, xrefs : SUBSET SummaryXrefs],
   batch   |-> [lines : Texts(BatchLines, 3), failFast : BOOLEAN],
   ported  |-> [left : [names : [{1, 4} -> {{}, {1}}], renames : Partial({1, 4}, {2, 5}), code : [{1, 4} -> {0, 2}]],
                right : [names : [{1, 4} -> {{}, {1}, {2}}], renames : Partial({4}, {1}), code : [{1, 4} -> {2, 3}]]],
   corpus  |-> [names : [{1, 4} -> {{1}, {2}, {3}}], bounds : SUBSET {[at |-> 1, to |-> 4], [at |-> 4, to |-> 6], [at |-> 1, to |-> 6]},
                values : [{1, 4} -> {{}, {256}, {257}, {257, 300}}], calls : SUBSET {2, 4}, uses : SUBSET {2, 5}, bad : {0, 3}],
   command |-> [target : CommandTargets, count : {{}, {1}}, limit : {{}, {0}, {1}, {2}}, bytes : {{}, {0}, {3}, {4}, {9}},
                from : {{}, {2}, {4}, {12}}, to : {{}, {2}, {5}, {14}}, bad : {0, 4}],
   pages   |-> [limit : 1 .. 3, from : {2, 4, 5}, bad : 0 .. 8],
   lists   |-> [records : Texts(ListedRecords, 2), name : {{}, {"x"}, {"y"}}, from : {{}, {"x"}}, flag : BOOLEAN, other : BOOLEAN],
   linked  |-> [symbols : [1 .. 2 -> {s \in Symbols : s.name.form = 1}], stubs : {<<1, 2>>}, trampoline : {TRUE}],
   owners  |-> [classes : Texts(OwnerClasses, 2), categories : Texts(OwnerCategories, 1), protocols : Texts(OwnerProtocols, 1),
                owner : {{}, {"x"}, {"y"}}, nameSource : {{}, {"class"}}],
   named   |-> [swift : SUBSET SwiftSymbols, query : {"A", "B", "m"}],
   methods |-> SUBSET Owners,
   search  |-> [functions : [{1, 4, 6} -> PlaceChoices(Labels)], objects : SUBSET Objects, readable : BOOLEAN, limit : {{}, {1}},
                only : {{}, {"function"}, {"string"}}],
   xrefs   |-> [functions : [{1, 4, 6} -> PlaceChoices({l \in Labels : l.match # 1})], xrefs : Texts(References, 2)],
   lookup  |-> [bases : CacheBases, symbols : [1 .. 2 -> SUBSET (1 .. 4)], file : BOOLEAN, synthetic : BOOLEAN],
   relations |-> [imports : Texts(CacheImports, 2), loads : SUBSET {CachePaths[2]}, binds : BOOLEAN, back : {TRUE},
                 exports : {{}, {1}, {1, 2}}, others : SUBSET {1}, reexports : BOOLEAN, synthetic : BOOLEAN],
   opening |-> [required : {<<>>, <<"1">>, <<"1", "2">>}, files : [{"1", "2", "symbols"} -> FileStates], malformed : BOOLEAN,
                ranges : {"some", "none", "reversed"}, real : {FALSE}]
               \cup [required : {<<>>, <<"1">>, <<"1", "2">>, <<"1", "2", "symbols">>}, files : [{"1", "2", "symbols"} -> FileStates],
                     malformed : BOOLEAN, ranges : {"some", "none", "reversed"}, real : {TRUE}],
   projected |-> [header : {<<9>>, <<9, 8>>}, segments : Texts([offset : 0 .. 3, data : {<<>>, <<1>>, <<2, 3>>}], 2)]]

\* A command decodes the words from where it says, or from the start of its target,
\* to the first end there is: of the section, of a symbol it starts at, or what
\* was asked for; it is refused only when it contradicts itself or starts where
\* there is no code (plan_disassembly, execute_disassembly).
CommandReadsItsWindow ==
  kind = "command" =>
    LET t == input.target
        base == CASE t.k = "Address" -> t.address [] t.k = "Section" -> 2 [] OTHER -> IF t.name = "f" THEN 2 ELSE 6
        start == Min(input.from \cup IF input.from = {} THEN {base} ELSE {})
        section == {s \in Range(CommandSections) : s.start <= start /\ start < s.start + s.size}
        most == input.count \cup input.limit
        ways == {w \in {<<"n", most>>, <<"bytes", input.bytes>>, <<"to", input.to>>} : w[2] # {}}
        legal == /\ Cardinality(ways) <= 1 /\ Cardinality(most) <= 1 /\ 0 \notin most \cup input.bytes
                 /\ \A to \in input.to : to > start
                 /\ (t.k = "Address" /\ input.from # {}) => start = base
                 /\ t.k = "Section" => t.name = "a"
        end == Min({s.start + s.size : s \in section} \cup input.to \cup {start + b : b \in input.bytes}
                   \cup (IF t = [k |-> "Symbol", name |-> "f"] /\ input.from = {} THEN {6} ELSE {}))
        words == {a \in start .. end - 2 : (a - start) % 2 = 0 /\ \A b \in start .. a : (b - start) % 2 = 0 => b # input.bad}
        shown == {a \in words : \A n \in most : a < start + 2 * n}
        answer == ExecuteDisassembly(CommandImage(input.bad), input)
    IN IF ~ legal \/ section = {} THEN answer = {}
       ELSE /\ {[start |-> r.start, instructions |-> r.instructions] : r \in answer} =
                 {[start |-> start, instructions |-> SetToSortSeq(shown, <)]}
            /\ \A r \in answer : r.end = start + 2 * Cardinality(shown)

\* Reading a section page after page, each from where the one before ended, gives
\* every instruction once and in order, up to where one does not decode, and then
\* nothing (disassemble_image, end_address).
PagesReadTheSection ==
  kind = "pages" =>
    LET Page(from) == The(DisassembleImage(CommandImage(input.bad), [target |-> [k |-> "Section", name |-> "a"], limit |-> {input.limit},
                                                                     bytes |-> {}, from |-> {from}, to |-> {}]))
        Pages[from \in 2 .. 9] ==
          The({page.instructions \o IF page.instructions = <<>> \/ page.end > 8 \/ page.end <= from THEN <<>> ELSE Pages[page.end] :
                 page \in {Page(from)}})
        words == {a \in input.from .. 7 : (a - input.from) % 2 = 0 /\ \A b \in input.from .. a : (b - input.from) % 2 = 0 => b # input.bad}
    IN Pages[input.from] = SetToSortSeq(words, <)

\* A Swift name is what it names exactly, however many other names contain it, and
\* one of the names that contain it only if there is one; what names several is
\* refused (resolve_swift_symbol_target).
SwiftNamesAreClear ==
  kind = "named" =>
    LET quality(c) == IF c.name = input.query THEN 0 ELSE IF input.query \in c.demangled THEN 1
                      ELSE IF input.query \in c.parts THEN 2 ELSE 3
        ranked == {c \in input.swift : quality(c) < 3}
        best == {c \in ranked : \A d \in ranked : quality(c) <= quality(d)}
        mangled == input.query = "m"
        found == SwiftTarget([swift |-> input.swift], [text |-> input.query, mangled |-> mangled])
    IN found = IF Cardinality(best) = 1 THEN {c.address : c \in best} ELSE {}

\* Saying whether a method is the class's own only settles what was open: what is
\* found without it is found with it, and is refused with the opposite
\* (resolve_objc_method_target, --objc-method-kind).
MethodKindRefines ==
  kind = "methods" =>
    LET At(own) == MethodTarget([owners |-> input], [k |-> "Method", owner |-> "C", selector |-> "s", own |-> own])
        all == UNION {{<<o.own, m.at>> : m \in {n \in o.methods : n.selector = "s"}} : o \in input}
    IN /\ At({}) # {} => {At({TRUE}), At({FALSE})} = {{}, At({})}
       /\ \A own \in BOOLEAN : At({own}) \subseteq {x[2] : x \in {y \in all : y[1] = own}}
       /\ \A own \in BOOLEAN : Cardinality({o \in input : o.own = own /\ \E m \in o.methods : m.selector = "s"}) = 1 => At({own}) # {}

\* Sections, symbols, imports and relocations are filtered alike: with the same names and
\* flags the four commands show the same records in the same order; each filter
\* only takes records away, whatever the others are, and an order only moves them
\* (run).
ListsAgree ==
  kind = "lists" =>
    LET r == input.records
        Section == [n \in DOMAIN r |-> [id |-> n, name |-> r[n].name, segment |-> r[n].from, executable |-> r[n].flag, start |-> r[n].at, size |-> r[n].size]]
        Symbol == [n \in DOMAIN r |-> [id |-> n, name |-> r[n].name, section |-> {r[n].from}, defined |-> r[n].flag, global |-> r[n].other,
                                       address |-> r[n].at, size |-> r[n].size]]
        Imported == [n \in DOMAIN r |-> [id |-> n, name |-> r[n].name, dylib |-> r[n].from, lazy |-> r[n].flag, weak |-> r[n].other, address |-> {r[n].at} \ {0}]]
        Relocation == [n \in DOMAIN r |-> [id |-> n, section |-> r[n].from, address |-> r[n].at, size |-> r[n].size]]
        Ids(shown) == [n \in DOMAIN shown |-> shown[n].id]
        A(f, g, from, name, sort) == Ids(SelectedSymbols(Symbol, [defined |-> f, global |-> g, section |-> from, name |-> name, sort |-> sort]))
        B(f, from, name, sort) == Ids(SelectedSections(Section, [executable |-> f, segment |-> from, name |-> name, sort |-> sort]))
        C(f, g, from, name, sort) ==
          Ids(SelectedImports(Imported, [lazy |-> f, weak |-> g, resolved |-> FALSE, dylib |-> from, name |-> name, sort |-> sort]))
        bound == Ids(SelectedImports(Imported, [lazy |-> input.flag, weak |-> FALSE, resolved |-> TRUE, dylib |-> {}, name |-> {}, sort |-> {}]))
        whole == A(input.flag, input.other, input.from, input.name, {})
    IN /\ \A sort \in {{}, {"address"}, {"name"}} :
            LET all == A(input.flag, input.other, input.from, input.name, sort) IN
            /\ C(input.flag, input.other, input.from, input.name, sort) = all
            /\ \A n \in DOMAIN all : Cardinality({m \in DOMAIN all : all[m] = all[n]}) = 1
            /\ Range(all) = Range(whole) /\ \A m, n \in DOMAIN whole : m < n => whole[m] < whole[n]
            /\ Range(all) = Range(A(input.flag, FALSE, {}, {}, {})) \cap Range(A(FALSE, input.other, {}, {}, {}))
                            \cap Range(A(FALSE, FALSE, input.from, {}, {})) \cap Range(A(FALSE, FALSE, {}, input.name, {}))
       /\ \A sort \in {{}, {"address"}, {"size"}} :
            /\ B(input.flag, input.from, input.name, sort) = A(input.flag, FALSE, input.from, input.name, sort)
            /\ Ids(SelectedRelocations(Relocation, [section |-> input.from, sort |-> sort])) = A(FALSE, FALSE, input.from, {}, sort)
       /\ \A sort \in {{}, {"name"}} : Range(B(input.flag, input.from, input.name, sort)) = Range(A(input.flag, FALSE, input.from, input.name, {}))
       /\ \A n \in Range(A(FALSE, FALSE, {}, {}, {})) : n \in Range(A(FALSE, FALSE, {}, input.name, {})) =>
            \A m \in DOMAIN r : r[n].name.parts \subseteq r[m].name.parts => m \in Range(A(FALSE, FALSE, {}, input.name, {}))
       /\ Range(bound) = {n \in Range(A(input.flag, FALSE, {}, {}, {})) : r[n].at # 0}
       /\ \A m, n \in DOMAIN r : r[m].from = r[n].from =>
            \A k \in DOMAIN r : LET by == Ids(SelectedRelocations(Relocation, [section |-> {}, sort |-> {"section"}]))
                                    place(i) == CHOOSE j \in DOMAIN by : by[j] = i
                                IN place(m) < place(k) /\ place(k) < place(n) => r[k].from = r[m].from

\* What is loaded of a laid out image, as dyld shows it: a stub is of the kind of its
\* slot and has its helper.
DyldWith(image, bound) ==
  LET Name(n) == PartNames[n.base]
      Library(d) == CASE d = "A" -> PartNames[1] [] d = "B" -> PartNames[2] [] OTHER -> PartNames[3]
      ordinal(d) == CASE d = "A" -> {1} [] d = "B" -> {2} [] OTHER -> {254}
      Bound(p) == LET i == Resolve(image.libs, image.imports, image.symbols[p.symbol]).import
                 IN [at |-> {p.address}, offset |-> {}, name |-> Name(i.name), dylib |-> Library(i.dylib), source |-> "indirect", rank |-> 1,
                     kind |-> p.kind, ordinal |-> ordinal(i.dylib)]
      stubs == SetToSortSeq(bound.stubs, LAMBDA s, t : s.address < t.address)
      helpers == SetToSortSeq(bound.helpers, LAMBDA g, h : g.address < h.address)
  IN [exports |-> <<>>, dylibs |-> image.libs, rpaths |-> <<>>, starts |-> <<500>>,
      bindings |-> [n \in DOMAIN bound.slots |-> Bound(bound.slots[n])],
      stubs |-> [n \in DOMAIN stubs |->
        [at |-> stubs[n].address, pointer |-> {stubs[n].pointer} \ {0}, name |-> {Name(stubs[n].name)}, dylib |-> {Library(stubs[n].dylib)},
         source |-> "stub", rank |-> 2, kind |-> stubs[n].kind, ordinal |-> ordinal(stubs[n].dylib),
         helper |-> {h.address : h \in {g \in bound.helpers : g.stub = stubs[n].address}}]],
      helpers |-> [n \in DOMAIN helpers |->
        [at |-> helpers[n].address, stub |-> helpers[n].stub, name |-> {Name(helpers[n].name)}, dylib |-> {Library(helpers[n].dylib)},
         ordinal |-> ordinal(helpers[n].dylib)]]]
DyldOf(problem) == DyldWith(Laid(problem), BindStubs(Laid(problem)))

DyldViews == [name : {{}, {"x"}, {"y"}}, dylib : {{}, {"y"}}, source : {{}}, binding : {{}, {"lazy"}}, stub : {{}, {"nonlazy"}}, ordinal : {{}, {1}},
              export : {{}, {"regular"}}, flag : {{}}, sort : {{}, {"dylib"}}]
             \cup [name : {{}, {"x"}}, dylib : {{}}, source : {{"stub"}, {"indirect"}}, binding : {{}}, stub : {{}}, ordinal : {{}},
                   export : {{}}, flag : {{}}, sort : {{"name"}, {"source"}}]

\* What is shown together of an image, in JSON and as text.
LinksKept(dyld) ==
  \A view \in DyldViews :
    \A shown \in {DyldJson(dyld, {}, view).lists}, text \in {DyldText(dyld, {"stubs", "helpers"}, view)} :
    LET stubs == Range(shown.stubs)
        bindings == Range(shown.bindings)
        helpers == Range(shown.helpers)
        asked == \E f \in DOMAIN view \ {"export", "flag", "sort"} : view[f] # {}
    IN /\ view.source = {} => \A s \in Range(dyld.stubs) :
            s.pointer # {} => (s \in stubs) = (\E b \in bindings : b.at = s.pointer)
       /\ \A h \in Range(dyld.helpers) : \A s \in Range(dyld.stubs) : s.at = h.stub => (h \in helpers) = (s \in stubs)
       /\ (view.source # {}) => (stubs = {} \/ bindings = {})
       /\ ~ asked => \A l \in DyldLists : Range(shown[l]) = Range(dyld[l])
       /\ \A l \in {"stubs", "helpers"} : text.lists[l] = shown[l] /\ text.counts[l] = Len(shown[l])
       /\ DyldJson(dyld, {"stubs"}, view) = [included |-> {"stubs"}, lists |-> [l \in DyldLists |-> IF l = "stubs" THEN shown.stubs ELSE <<>>]]
       /\ \A l \in {"bindings", "stubs", "helpers"} :
            /\ Cardinality(Range(shown[l])) = Len(shown[l])
            /\ view.sort = {"dylib"} => \A m, n, k \in DOMAIN shown[l] :
                 m < n /\ n < k /\ shown[l][m].dylib = shown[l][k].dylib => shown[l][n].dylib = shown[l][m].dylib

\* Whatever is asked for, a stub, the slot it jumps through and its helper are shown
\* together or not at all: names, libraries, ordinals and kinds mean the same for
\* the three, and a question about exports hides none.  Where a record comes from
\* tells stubs from slots, but keeps a helper with its stub.  The lists are the
\* same in text and JSON, and sorting by library brings its records together
\* (filter_dyld_view).
DyldViewKeepsLinks == (kind = "linked" /\ Clear(input)) => LinksKept(DyldOf(input))

\* What owns is shown with all it owns, and nothing is shown of what is not: methods,
\* properties, ivars and references belong to a class, protocol or category that
\* is shown, a class that is asked for by name brings its subclasses, and asking
\* the same of the answer changes nothing; text and JSON show the same
\* (filter_objc_view).
OwnersAreShownWhole ==
  kind = "owners" =>
    LET names == UNION {c.name : c \in Range(input.classes) \cup Range(input.protocols) \cup Range(input.categories)}
                 \cup UNION {c.class : c \in Range(input.categories)}
        objc == [classes |-> input.classes, categories |-> input.categories, protocols |-> input.protocols,
                 references |-> SetToSeq({[name |-> {n}] : n \in names} \cup {[name |-> {}]})]
    IN \A record \in {{}, {"lists"}} :
         LET view == [owner |-> input.owner, nameSource |-> input.nameSource, selectorSource |-> {}, record |-> record]
         IN \A shown \in {ObjcJson(objc, "all", view).lists}, text \in {ObjcText(objc, "all", view)},
               chosen \in {[s \in {"s", "t"} |-> ObjcView(objc, [view EXCEPT !.selectorSource = {s}]).methods]} :
            LET part == [objc EXCEPT !.classes = shown.classes, !.categories = shown.categories, !.protocols = shown.protocols] IN
            /\ \A again \in {ObjcView([part EXCEPT !.references = shown.references], view)} :
                 \A l \in DOMAIN shown : again[l] = shown[l]
            /\ Len(shown.methods) = ObjcTotal(part, "methods")
            /\ (input.nameSource = {}) => \A what \in {"properties", "ivars"} : Len(shown[what]) = ObjcTotal(part, what)
            /\ Len(chosen["s"]) + Len(chosen["t"]) = Len(shown.methods)
            /\ {r.name : r \in Range(shown.references)} =
                 {r.name : r \in {q \in Range(objc.references) : input.owner = {} \/
                   \E c \in Range(shown.classes) \cup Range(shown.protocols) \cup {[name |-> k.class] : k \in Range(shown.categories)} :
                     q.name # {} /\ q.name = c.name}}
            /\ \A c \in Range(shown.classes), d \in Range(objc.classes) :
                 (d.super = c.name /\ Matches(input.owner, c.name) /\ input.nameSource = {}) => d \in Range(shown.classes)
            /\ input.owner = {} /\ input.nameSource = {} /\ record = {} => \A l \in DOMAIN objc : shown[l] = objc[l]
            /\ text.lists = [l \in {k \in DOMAIN shown : shown[k] # <<>>} |-> shown[l]]
            /\ \A detail \in {"categories", "methods"} : /\ ObjcJson(objc, detail, view).lists = [l \in DOMAIN shown |-> IF l = detail THEN shown[l] ELSE <<>>]
                                                        /\ DOMAIN ObjcText(objc, detail, view).lists = DOMAIN text.lists \cap {detail}
            /\ \A l \in DOMAIN text.totals : Len(shown[l]) <= text.totals[l]

StoreOf(p) == [functions |-> FunctionsAt(p.functions), objects |-> p.objects, readable |-> p.readable, bounds |-> <<>>]

\* A search shows the best of everything that matches: it counts all, shows each
\* once, and leaves out, if it is limited, only what matches no better than what
\* it shows, exact names first whatever they name (handle_search).
SearchShowsTheBest ==
  kind = "search" =>
    LET store == StoreOf(input)
        answer == HandleSearch(store, input.only, input.limit)
        all == {[kind |-> "function", name |-> n, at |-> a] : n \in Labels, a \in {1, 4, 6}} \cup Objects
        matching == {o \in all : /\ o.name.match < 3 /\ (input.only = {} \/ o.kind \in input.only)
                                 /\ IF o.kind = "function" THEN input.functions[o.at].name = {o.name}
                                    ELSE o \in input.objects /\ (o.kind = "string" => input.readable)}
        shown == Range(answer.results)
    IN /\ answer.count = Cardinality(matching) /\ shown \subseteq matching
       /\ Cardinality(shown) = Len(answer.results) /\ Len(answer.results) = Min({answer.count} \cup input.limit)
       /\ answer.truncated = (Len(answer.results) < answer.count)
       /\ \A r \in shown, s \in matching \ shown : r.name.match <= s.name.match
       /\ \A m, n \in DOMAIN answer.results : m < n => answer.results[m].name.match <= answer.results[n].name.match

\* The command line and the HTTP interface answer alike from one project: they list
\* the same functions and find the same names and references.  Left out are an
\* address written with decimal digits only, which the interface takes for a
\* decimal number, and names that match only when case does not count.
InterfacesAgree ==
  /\ kind = "search" =>
       LET store == StoreOf(input)
           row(f) == <<f.address, f.name>>
       IN /\ \A filter \in BOOLEAN :
               LET shown == Functions(store, filter, input.limit).functions
                   listed == ProjectFunctions(store, filter, input.limit)
               IN [n \in DOMAIN shown |-> row(shown[n])] = [n \in DOMAIN listed |-> row(listed[n])]
          /\ {f.address : f \in Range(ProjectSearch(store, {}))} = {r.at : r \in Range(HandleSearch(store, {"function"}, {}).results)}
  /\ kind = "xrefs" =>
       LET store == [functions |-> FunctionsAt(input.functions), xrefs |-> input.xrefs]
           digits(a) == IF a < HexBase THEN <<a>> ELSE <<a \div HexBase, a % HexBase>>
       IN \A a \in {b \in 1 .. 11 : \E n \in DOMAIN digits(b) : digits(b)[n] >= DecimalBase} :
            Range(ProjectXrefs(store, digits(a))) = {x.xref : x \in Range(Xrefs(store, {a}, {}, {}, {}).xrefs)}

\* A reference from code of a named function is listed under that function, and
\* each once (handle_xrefs).  Left out is code of a function without a name, which
\* is listed under the named function before it.
ReferencesNameTheirFunction ==
  kind = "xrefs" =>
    LET store == [functions |-> FunctionsAt(input.functions), xrefs |-> input.xrefs]
        listed == Xrefs(store, {}, {}, {}, {}).xrefs
        holder(a) == {f \in store.functions : f.address <= a /\ ~ \E g \in store.functions : f.address < g.address /\ g.address <= a}
    IN /\ {x.xref : x \in Range(listed)} = Range(input.xrefs) /\ Len(listed) = Cardinality(Range(input.xrefs))
       /\ \A x \in Range(listed), f \in store.functions :
            f \in holder(x.xref.from) /\ f.name # {} => x.function = f.name

-----------------------------------------------------------------------------
CacheOf(p) ==
  LET OfSource(i, source) ==
        LET all == {s \in CacheSymbols(p.bases[i]) : s.source = source}
            numbered == SetToSortSeq(all, LAMBDA s, t : s.at < t.at)
        IN SelectSeq(numbered, LAMBDA s : (IF source = "export" THEN 0 ELSE 2) + (CHOOSE n \in 1 .. 2 : numbered[n] = s) \in p.symbols[i])
      images == [i \in 1 .. 2 |-> [path |-> CachePaths[i], base |-> p.bases[i], member |-> IF p.bases[i] < 8 THEN 1 ELSE 2,
                                   exports |-> OfSource(i, "export"), locals |-> OfSource(i, "local"), reexports |-> <<>>]]
      cache == [synthetic |-> p.synthetic, images |-> images, mappings |-> CacheMappings, localSymbols |-> p.file]
  IN IF p.synthetic THEN [cache EXCEPT !.images = [i \in 1 .. 2 |-> images[i] @@ [start |-> p.bases[i], size |-> DefaultImageSize]]]
     ELSE RealCache(cache)

\* What is mapped has an answer, and only that; the answer for an address of an
\* image is its symbol there, else the nearest below, local ones with the others
\* where there are any to read.  Left out are addresses an image earlier in the
\* table also reaches: the images of a real cache reach to the end of their mapping
\* (lookup_cache_vmaddr, build_real_shared_cache).
LookupFindsTheNearest ==
  kind = "lookup" =>
    \A cache \in {CacheOf(input)} :
    LET mapping(a) == {m \in Range(CacheMappings) : m.start <= a /\ a < m.start + m.size}
        beside(a) == {i \in 1 .. 2 : /\ input.bases[i] <= a
                                     /\ IF input.synthetic THEN a < input.bases[i] + DefaultImageSize
                                        ELSE mapping(a) = mapping(input.bases[i])}
        owner(a) == {i \in beside(a) : \A j \in beside(a) : input.bases[j] <= input.bases[i]}
        below(i, a) == {s.at : s \in {t \in Range(cache.images[i].exports) : t.at <= a}
                                     \cup {t \in Range(cache.images[i].locals) : t.at <= a /\ (input.file \/ ~ input.synthetic)}}
    IN \A a \in 1 .. 16 :
         \A answer \in {LookupCacheVmaddr(cache, a)} :
            /\ (answer = {}) = (mapping(a) = {})
            /\ \A r \in answer :
                 /\ r.image \subseteq beside(a) /\ (r.image = {}) = (beside(a) = {})
                 /\ \A i \in owner(a) : (\A j \in beside(a) : i <= j) =>
                      /\ r.image = {i}
                      /\ {s.at : s \in r.symbol} = {b \in below(i, a) : \A c \in below(i, a) : c <= b}
                      /\ r.kind = IF below(i, a) = {} THEN "mapping" ELSE IF a \in below(i, a) THEN "exact" ELSE "nearest"

\* A name resolves to every address that exports it, and an address where a symbol
\* is resolves in the symbol index to a symbol there; all that is found by name is
\* found by address.  By name, local symbols are found only with their file
\* (resolve_exact_symbol, symbol_rows_for_image, query_symbol_at).
SymbolsResolveBothWays ==
  kind = "lookup" =>
    \A cache \in {CacheOf(input)} :
    LET Owned(i) == Range(cache.images[i].exports) \cup IF input.file THEN Range(cache.images[i].locals) ELSE {}
    IN \A n \in 1 .. 3 :
         LET found == ResolveExactSymbol(cache, n, {})
         IN /\ {<<f.image, f.symbol.at>> : f \in found} =
                 UNION {{<<i, s.at>> : s \in {t \in Owned(i) : t.name = n}} : i \in 1 .. 2}
            /\ \A f \in found : {r.at : r \in QuerySymbolAt(cache, f.symbol.at)} = {f.symbol.at}
            /\ \A i \in 1 .. 2 : ResolveExactSymbol(cache, n, {i}) = {f \in found : f.image = i}

RelatedCache(p) ==
  LET Exported(names) == [n \in 1 .. Cardinality(names) |-> [name |-> SetToSortSeq(names, <)[n], at |-> n, source |-> "export"]]
      If(condition, seq) == IF condition THEN seq ELSE <<>>
      image == [i \in 1 .. 3 |-> [path |-> CachePaths[i], dylibs |-> {}, imports |-> <<>>, bindings |-> <<>>, exports |-> <<>>, reexports |-> <<>>]]
  IN [synthetic |-> p.synthetic,
      images |-> <<[image[1] EXCEPT !.imports = p.imports, !.dylibs = p.loads,
                                    !.bindings = If(p.binds, <<[name |-> 1, dylib |-> CachePaths[3], how |-> "lazy"]>>)],
                   [image[2] EXCEPT !.exports = Exported(p.exports), !.imports = If(p.back, <<[name |-> 1, dylib |-> CachePaths[1]]>>),
                                    !.reexports = If(p.reexports, <<[name |-> 1, dylib |-> CachePaths[3]]>>)],
                   [image[3] EXCEPT !.exports = Exported(p.others)]>>]

\* However an image is named, if that names one, it depends on the libraries it
\* imports from as often as it does; the dependents of an image are the images that
\* depend on it, as often; and the importers of a symbol are those that import it,
\* each with the library it is imported from where the cache has it and that
\* provides it (image_dependencies, dependents, symbol_importers).
RelationsAgree ==
  kind = "relations" =>
    LET cache == RelatedCache(input)
        Of(i) == ImageDependencies(cache, [id |-> i])
        provides(n) == {i \in 1 .. 3 : \/ \E e \in Range(cache.images[i].exports) : e.name = n
                                      \/ (input.synthetic /\ \E e \in Range(cache.images[i].reexports) : e.name = n)}
        bound(n) == IF input.synthetic /\ input.binds /\ n = 1 THEN {<<1, CachePaths[3]>>} ELSE {}
    IN /\ \A i \in 1 .. 3 :
            /\ FoldSet(LAMBDA d, n : d.count + n, 0, Of(i)) = Len(cache.images[i].imports)
            /\ \A x \in Range(cache.images[i].imports) : \E d \in Of(i) : d.dylib = x.dylib /\ d.count > 0
            /\ Dependents(cache, [id |-> i]) =
                 UNION {{[image |-> j, count |-> d.count] : d \in {e \in Of(j) : e.dylib = CachePaths[i]}} : j \in 1 .. 3}
            /\ ImageDependencies(cache, [path |-> CachePaths[i]]) = Of(i)
       /\ ImageDependencies(cache, [path |-> [directory |-> {}, file |-> "f"]]) = Of(1)
       /\ ImageDependencies(cache, [path |-> [directory |-> {}, file |-> "g"]]) = {}
       /\ \A n \in 1 .. 2 :
            LET importers == SymbolImporters(cache, n)
            IN /\ {<<r.edge.image, r.edge.dylib>> : r \in importers} = bound(n) \cup
                    UNION {{<<i, x.dylib>> : x \in {y \in Range(cache.images[i].imports) : y.name = n}} : i \in 1 .. 3}
               /\ \A r \in importers : r.provider = {i \in provides(n) : CachePaths[i] = r.edge.dylib}

\* Code that uses an import is linked to the library it is imported from, if the
\* cache has it and that exports it, and otherwise only to one that re-exports the
\* symbol from there (enrich_cache_analysis).
LinksNameAProvider ==
  kind = "relations" =>
    LET cache == RelatedCache(input)
        links == CacheLinks(cache, {[at |-> 1, name |-> x.name, dylib |-> x.dylib] : x \in Range(input.imports)})
    IN /\ \A x \in Range(input.imports), i \in 1 .. 3 :
            x.dylib = CachePaths[i] /\ (\E e \in Range(cache.images[i].exports) : e.name = x.name) =>
              \E l \in links : l.name = x.name /\ l.dylib = x.dylib /\ l.provider.image = i
       /\ \A l \in links :
            \/ CachePaths[l.provider.image] = l.dylib
            \/ \E e \in Range(cache.images[l.provider.image].reexports) : e = [name |-> l.name, dylib |-> l.dylib]

\* What is shown of the dependencies of a kind is the first of them, and the total
\* counts them all: those inside the cache and those outside are together all
\* (image-deps --kind --limit).
DependenciesAreCounted ==
  kind = "relations" =>
    LET cache == RelatedCache(input)
        paths == Append(CachePaths, CachePath("d", "h"))
        Shown(which, limit) == ImageDeps(cache, [id |-> 1], which, limit, [d \in Range(paths) |-> CHOOSE n \in 1 .. 4 : paths[n] = d])
    IN /\ Shown("internal", {}).total + Shown("external", {}).total = Shown("all", {}).total
       /\ Range(Shown("internal", {}).shown) \cup Range(Shown("external", {}).shown) = ImageDependencies(cache, [id |-> 1])
       /\ \A which \in {"all", "internal", "external"}, n \in 1 .. 2 :
            \A whole \in {Shown(which, {})}, part \in {Shown(which, {n})} :
               /\ part.total = whole.total /\ part.truncated = (whole.total > n)
               /\ part.shown = SubSeq(whole.shown, 1, Len(part.shown)) /\ Len(part.shown) = Min({n, whole.total})

-----------------------------------------------------------------------------
\* The files of a cache, of which the second member maps 5 to 6, or nothing.  The
\* members of a real cache have a uuid of their own, which its root lists.
FilesOf(p) ==
  LET path(suffix) == IF suffix = "" THEN <<>> ELSE <<suffix>>
      magic == [fits |-> IF p.real THEN "dyld" ELSE "subcache", other |-> IF p.real THEN "dyld" ELSE "subcache", alien |-> "text"]
      uuid == [fits |-> IF p.real THEN 3 ELSE 1, other |-> 2, alien |-> 1]
      ranges == IF p.ranges = "none" THEN [s \in {"1", "2"} |-> <<>>]
                ELSE "1" :> <<[start |-> 1, end |-> 4, offset |-> 100]>>
                     @@ "2" :> <<[start |-> IF p.ranges = "reversed" THEN 7 ELSE 5, end |-> 6, offset |-> 200]>>
      Image(i, base) == [path |-> CachePaths[i], base |-> base, exports |-> <<[name |-> i, at |-> base, source |-> "export"]>>, locals |-> <<>>]
      root == [magic |-> IF p.real THEN "dyld" ELSE "root", uuid |-> 1, malformed |-> p.malformed, required |-> p.required, ranges |-> <<>>,
               listed |-> [n \in DOMAIN p.required |-> 3],
               images |-> <<Image(1, 1), Image(2, IF p.real THEN 3 ELSE 5)>>]
      File(s) == [magic |-> IF s = "symbols" /\ p.files[s] # "alien" /\ ~ p.real THEN "symbols" ELSE magic[p.files[s]],
                  uuid |-> uuid[p.files[s]], ranges |-> IF s = "symbols" THEN <<>> ELSE ranges[s]]
      there == {s \in DOMAIN p.files : p.files[s] # "absent"}
  IN [f \in {<<>>} \cup {<<s>> : s \in there} |-> IF f = <<>> THEN root ELSE File(f[1])]

\* Whichever of its files a cache is opened by, the session is the same; it opens when
\* and only when every file it needs is there and of the cache, and then an address
\* is mapped just where a file says, the last address of a range with it, at the
\* place in that file; the file of local symbols changes nothing but whether there
\* are any (inspect_shared_cache).  A file is of a synthetic cache when it has the
\* uuid of the root, and of a real one when it has the uuid the root lists for it.  A
\* real cache also needs its images and mappings to be mapped, and a file of local
\* symbols just when its root lists one.  Left out is which file an image is said
\* to be in.
SessionsFollowTheFiles ==
  kind = "opening" =>
    LET files == FilesOf(input)
        Opened(all, path) == InspectSharedCache(all, path)
        needed == Range(input.required)
        right(s) == input.files[s] = "fits"
        declared == UNION {{[of |-> <<s>>, range |-> r] : r \in Range(files[<<s>>].ranges)} : s \in {t \in needed \ {"symbols"} : right(t)}}
        without == [f \in DOMAIN files \ {<<"symbols">>} |-> files[f]]
        Seen(c) == [mappings |-> c.mappings, bases |-> [i \in DOMAIN c.images |-> c.images[i].base]]
    IN /\ \A path \in {<<"1">>, <<"2">>, <<"symbols">>} : Opened(files, path) = Opened(files, <<>>)
       /\ Opened(files, <<"data">>) = {}
       /\ (Opened(files, <<>>) # {}) =
            /\ ~ input.malformed /\ \A s \in needed : right(s)
            /\ ~ (input.ranges = "reversed" /\ "2" \in needed)
            /\ input.real => "1" \in needed /\ input.ranges # "none"
       /\ \A c \in Opened(files, <<>>) :
            /\ declared # {} => \A a \in 1 .. 8 :
                 {<<c.members[l.mapping.member].path, l.offset>> : l \in LookupCacheVmaddr(c, a)} =
                   {<<d.of, d.range.offset + a - d.range.start>> : d \in {e \in declared : e.range.start <= a /\ a <= e.range.end}}
            /\ declared = {} => \A i \in DOMAIN c.images : \E l \in LookupCacheVmaddr(c, c.images[i].base) : l.kind = "exact" /\ i \in l.image
            /\ ~ input.real => {Seen(d) : d \in Opened(without, <<>>)} = {Seen(c)}
            /\ c.localSymbols = (IF input.real THEN "symbols" \in needed ELSE input.files["symbols"] = "fits")
            /\ \A d \in Opened(without, <<>>) : ~ d.localSymbols

\* The order of the paths, by their place among those of the images.
PathOrder == [d \in Range(CachePaths) \cup {CachePath("d", "h")} |-> IF d \in Range(CachePaths) THEN CHOOSE n \in 1 .. 3 : CachePaths[n] = d ELSE 4]
Every(answer) == UNION {Range(a.shown) : a \in answer}

\* What is found by name is found by address: the addresses an indexed cache has for a
\* name each lead back to a symbol there, those of the images are among them, and
\* what an image exports resolves to where it is; what an address leads to is
\* never nearer without the index.  A limit shows the first, and counts them all
\* (cache a2s, s2a, resolve-symbol, exports, images, lookup-address).  Left out is
\* the address shown for a symbol below it in a synthetic cache.
AddressesLeadBack ==
  kind = "lookup" =>
    \A cache \in {CacheOf(input)} :
    LET rows == cache @@ [members |-> <<>>]
        locals(n) == \E i \in 1 .. 2 : \E s \in Range(cache.images[i].locals) : s.name = n
    IN /\ \A n \in 1 .. 3 :
            \A hits \in {SymbolToAddress(cache, TRUE, n, {})}, resolved \in {ResolveSymbol(cache, n, {}, {}, PathOrder)} :
               /\ \A h \in Every(hits) : \E r \in AddressToSymbol(cache, TRUE, h.symbol.at) : r.match = "exact" /\ r.offset = 0
               /\ {<<r.image, r.symbol>> : r \in Every(resolved)} \subseteq {<<h.image, h.symbol>> : h \in Every(hits)}
               /\ (input.file \/ ~ locals(n)) => {<<r.image, r.symbol.at>> : r \in Every(resolved)} = {<<h.image, h.symbol.at>> : h \in Every(hits)}
               /\ \A h \in hits : \A m, k \in DOMAIN h.shown : m < k => h.shown[m].symbol.at <= h.shown[k].symbol.at
               /\ \A limit \in 0 .. 2 : \A part \in SymbolToAddress(cache, TRUE, n, {limit}) : \A whole \in hits :
                    limit > 0 /\ part.total = whole.total /\ part.shown = SubSeq(whole.shown, 1, Min({limit, whole.total}))
                    /\ part.truncated = (limit < whole.total)
               /\ SymbolToAddress(cache, FALSE, n, {}) = {}
       /\ \A i \in 1 .. 2 : \A x \in Every(CacheExports(cache, [id |-> i], [name |-> {}, sort |-> {}, byName |-> FALSE])) :
            /\ x \in Every(CacheExports(cache, [id |-> i], [name |-> {{x.name}}, sort |-> {x.sort}, byName |-> TRUE]))
            /\ \E r \in Every(ResolveSymbol(cache, x.name, {i}, {}, PathOrder)) : {r.symbol.at} = x.at
       /\ \A a \in 1 .. 16 : \A l \in LookupAddress(cache, a) :
            /\ \A s \in l.symbol : /\ {l.distance} = {{a - s.at}} /\ (l.shown = s.at + The(l.distance) \/ (input.synthetic /\ l.match = "nearest"))
                                    /\ \E r \in AddressToSymbol(cache, TRUE, a) : r.symbol.at >= s.at
            /\ \A i \in l.image : cache.images[i].base + The(l.offset) = l.shown
       /\ \A sort \in {"name", "address"} :
            /\ Range(The(CacheImages(cache, {}, sort, {}, PathOrder)).shown) = 1 .. 2
            /\ CacheImages(cache, {{2}}, sort, {1}, PathOrder) = {[total |-> 1, truncated |-> FALSE, shown |-> <<2>>]}
       /\ CacheInfo(rows).images = 2
       /\ \A built \in IndexCommand(cache, TRUE) : (The(built.rows) > 0) = \E n \in 1 .. 3 : SymbolToAddress(cache, TRUE, n, {}) # {}

\* Those who provide and those who import a symbol are shown each once and by name,
\* those of an image alone when it is asked for, and none is an error; what is
\* re-exported is provided, by the name of the library it comes from; and links
\* are counted, each at its first use (cache symbol-providers, symbol-importers,
\* dependents, reexports, summarize_cache_link_uses).
RelationsAreShownWhole ==
  kind = "relations" =>
    LET cache == RelatedCache(input)
        links == CacheLinks(cache, {[at |-> n, name |-> input.imports[n].name, dylib |-> input.imports[n].dylib] : n \in DOMAIN input.imports})
        counts == LinkRows(links)
        provided == [n \in 1 .. 2 |-> ProvidersCommand(cache, n, {}, {}, PathOrder)]
        imported == [n \in 1 .. 2 |-> ImportersCommand(cache, n, {}, {}, PathOrder)]
    IN /\ \A n \in 1 .. 2 :
            /\ Every(provided[n]) = SymbolProviders(cache, n) /\ (provided[n] = {}) = (Every(provided[n]) = {})
            /\ Every(imported[n]) = SymbolImporters(cache, n) /\ (imported[n] = {}) = (Every(imported[n]) = {})
            /\ \A i \in 2 .. 3 : Every(ProvidersCommand(cache, n, {{i}}, {}, PathOrder)) = {p \in Every(provided[n]) : p.image = i}
            /\ Every(ImportersCommand(cache, n, {{1}}, {}, PathOrder)) = {r \in Every(imported[n]) : r.edge.image = 1}
            /\ \A whole \in provided[n] :
                 /\ \A m, k \in DOMAIN whole.shown : m < k => whole.shown[m].image <= whole.shown[k].image
                 /\ ProvidersCommand(cache, n, {}, {1}, PathOrder) =
                      {[total |-> whole.total, truncated |-> whole.total > 1, shown |-> <<whole.shown[1]>>]}
       /\ Every(DependentsCommand(cache, [id |-> 2], {}, PathOrder)) = Dependents(cache, [path |-> CachePaths[2]])
       /\ \A r \in Every(ReexportsCommand(cache, [id |-> 2], {}, {}, PathOrder)) :
            /\ r \in Every(ReexportsCommand(cache, [path |-> CachePaths[2]], {{r.name}}, {}, PathOrder))
            /\ input.synthetic => \E p \in Every(provided[r.name]) : p.image = 2 /\ p.dylib = {r.dylib} /\ p.target = r.target
       /\ FoldFunction(LAMBDA r, n : r.count + n, 0, counts) = Cardinality(links)
       /\ \A l \in links : \E row \in DOMAIN counts : row.name = l.name /\ row.provider = l.provider /\ counts[row].first <= l.at

\* A cache whose images are all the same, two of them by one name.
CacheOfOne(binary) == [synthetic |-> TRUE, images |-> [i \in 1 .. 3 |-> [path |-> CachePaths[i], binary |-> binary]]]
OneImage == {[id |-> 1], [path |-> CachePaths[1]], [path |-> [directory |-> {}, file |-> "f"]]}
TwoImages == [path |-> [directory |-> {}, file |-> "g"]]
DyldAlone(dyld, cache) ==
  \A view \in DyldViews :
    /\ \A selector \in OneImage : \A text \in ImageDyld(cache, selector, {"stubs"}, view) :
         text.lists["stubs"] = DyldJson(dyld, {"stubs"}, view).lists["stubs"]
    /\ ImageDyld(cache, TwoImages, {}, view) = {}
ListedAlone(image, cache) ==
  /\ \A selector \in OneImage : ImageDisasm(cache, selector, input) = ExecuteDisassembly(image, input)
  /\ ImageDisasm(cache, TwoImages, input) = {}

\* An image of a cache answers as the file it is, however it is named, and not when the
\* name is that of several (load_projected_cache_image).
ImagesAnswerAlone ==
  /\ kind = "command" => ListedAlone(CommandImage(input.bad), CacheOfOne(CommandImage(input.bad)))
  /\ (kind = "linked" /\ Clear(input)) => DyldAlone(DyldOf(input), CacheOfOne([dyld |-> DyldOf(input)]))

\* The bytes of an image are those of its header and its segments, each at its place,
\* and as many as it takes (reconstruct_projected_image_bytes).  Left out are
\* segments of different files with the same offsets, of which the last is kept.
ProjectedImagesAreWhole ==
  kind = "projected" =>
    LET covered == [n \in DOMAIN input.segments |-> input.segments[n].offset + 1 .. input.segments[n].offset + Len(input.segments[n].data)]
        all == UNION Range(covered)
        result == ReconstructImage(input.header, input.segments)
    IN /\ (result = {}) = (all = {})
       /\ \A bytes \in result :
            /\ DOMAIN bytes = 1 .. Max(all \cup {Len(input.header)})
            /\ \A n \in DOMAIN input.segments : (\A m \in DOMAIN input.segments \ {n} : covered[n] \cap covered[m] = {}) =>
                 \A k \in covered[n] : bytes[k] = input.segments[n].data[k - input.segments[n].offset]
            /\ \A k \in DOMAIN bytes \ all : bytes[k] = IF k \in DOMAIN input.header THEN input.header[k] ELSE 0

-----------------------------------------------------------------------------
\* A function that has a name alone is what every command means by it, and a name
\* of several is refused where renames count; what runs or decompiles a function
\* goes by the symbol of the image, and all of that by the same.  They meet where
\* a function still has the name of its symbol (resolve_query_target,
\* resolve_function_object, handle_debug, handle_trace, handle_emulate,
\* handle_decompile).  Left out is the reading of renames by what goes by symbols.
CommandsMeanOneFunction ==
  kind = "resolve" =>
    LET p == [EmptyProject EXCEPT !.names = input.names, !.renames = input.renames, !.elf = input.elf,
                                  !.image = {[EmptyImage EXCEPT !.symbols = input.symbols, !.code = [a \in {1, 4} |-> 0]]}]
        view == [writes |-> {}, register |-> {}]
    IN \A n \in 1 .. 2 :
         LET t == [k |-> "Symbol", name |-> n]
             called == {a \in {1, 4} : IF a \in DOMAIN input.renames THEN input.renames[a] = n ELSE input.names[a] = {n}}
             trace == HandleTrace(p, t, <<>>, view)
             emulated == HandleEmulate(p, t, <<>>)
             debugged == HandleDebug(p, n, <<>>, FALSE)
             decompiled == HandleDecompile(p, t, <<>>, {})
             annotated == HandleAnnotate(p, [list |-> FALSE, undo |-> FALSE, function |-> {t}, rename |-> {}, comment |-> {1}, tag |-> {1}])
         IN /\ QueryTarget(p, t) = IF Cardinality(called) = 1 THEN called ELSE {}
            /\ (annotated.error = "") = (Cardinality(called) = 1)
            /\ \A m \in DOMAIN annotated.writes : {annotated.writes[m].at} = called
            /\ (debugged.error = "") = (called # {})
            /\ Cardinality(called) = 1 => {debugged.answer.address} = called
            /\ (input.elf /\ Cardinality(called) = 1) => {decompiled.answer.of} = called
            /\ ~ input.elf => /\ trace.error = emulated.error /\ trace.error = decompiled.error
                              /\ trace.error = "" => trace.answer.of = decompiled.answer.of /\ emulated.answer.of = trace.answer.of
            /\ \A a \in called : (~ input.elf /\ called = {a} /\ n \in DOMAIN input.symbols /\ input.symbols[n] = a) =>
                 trace.answer.of = a /\ [function |-> a, name |-> n, of |-> a] \in DecompileAll(p)

\* Assertions are stored all or not at all, for the function a query of the name
\* finds, whatever becomes of the decompilation (handle_decompile, steering_facts).
\* Left out is a name that no function has: its assertions are stored for address 0.
AssertionsNameTheirFunction ==
  kind = "resolve" =>
    LET p == [EmptyProject EXCEPT !.names = input.names, !.renames = input.renames, !.elf = input.elf,
                                  !.image = {[EmptyImage EXCEPT !.symbols = input.symbols, !.code = [a \in {1, 4} |-> 0]]}]
    IN \A n \in 1 .. 2, assertions \in Texts({Assertion(TRUE, {}), Assertion(TRUE, {2}), Assertion(FALSE, {})}, 2) :
         LET t == [k |-> "Symbol", name |-> n]
             answer == HandleDecompile(p, t, assertions, {})
             good == \A m \in DOMAIN assertions : assertions[m].wellFormed
         IN /\ Len(answer.writes) \in {0, Len(assertions)}
            /\ answer.writes # <<>> => good /\ ~ input.elf
            /\ (answer.error = "" /\ ~ input.elf) => Len(answer.writes) = Len(assertions)
            /\ \A m \in DOMAIN answer.writes, f \in QueryTarget(p, t) : answer.writes[m].function = f

\* A register is bound to a struct that is declared, whatever commands came before
\* and however they failed, and is shown with the fields of one declaration of it;
\* a command that fails has stored the bindings before the one that is wrong, in
\* order, and nothing else (handle_type, project_type_hints).  Left out is which
\* of several declarations of a struct or bindings of a register counts: it is the
\* last in the order of their texts, not the one stored last.
BindingsAreDeclared ==
  kind = "typing" =>
    LET struct == {[name |-> 3, order |-> 1, fields |-> {0, 8}]}
        p == [EmptyProject EXCEPT !.dwarf = [own |-> IF input.own THEN struct ELSE {}, bundle |-> {}]]
        tags == input.structs \cup {b \in input.bound : Declared(input.structs, b.struct)}
        after == HandleType(p, tags, [import |-> input.import, list |-> FALSE, binds |-> input.binds, struct |-> input.struct,
                                      fields |-> input.fields, wellFormed |-> input.wellFormed])
        hints == TypeHints(after.tags)
        stored == {BindTag(input.binds[n].register, input.binds[n].struct) : n \in DOMAIN input.binds}
    IN /\ tags \subseteq after.tags
       /\ \A b \in {t \in after.tags : t.about[1] = "bind"} :
            /\ \E s \in after.tags : s.about = <<"struct", b.struct>>
            /\ Cardinality({h \in hints : h.register = b.about[2]}) = 1
       /\ \A h \in hints : \E b, s \in after.tags : /\ b.about = <<"bind", h.register>>
                                                    /\ s.about = <<"struct", b.struct>> /\ s.fields = h.fields
       /\ after.error # "" => \E n \in 0 .. Len(input.binds) :
                              after.tags = tags \cup {BindTag(input.binds[m].register, input.binds[m].struct) : m \in 1 .. n}
       /\ (after.error = "" /\ ~ input.import) => stored \subseteq after.tags
       /\ (after.error = "" /\ input.import) => \A s \in struct : Declared(after.tags, s.name)

\* Refining names only functions without a name of their own, each differently and
\* by the strings its own code refers to; applied once it has nothing left to
\* propose, and not applied it changes nothing (handle_refine).
RefiningSettles ==
  kind = "refine" =>
    LET p == [EmptyProject EXCEPT !.names = input.names, !.renames = input.renames, !.bounds = input.bounds, !.xrefs = input.xrefs]
        answer == HandleRefine(p, TRUE)
        inside(b) == {x \in input.xrefs : x.ref = "data" /\ b.at <= x.at /\ x.at < b.to}
    IN /\ HandleRefine(p, FALSE).project = p
       /\ HandleRefine(answer.project, TRUE).proposals = {}
       /\ \A r \in answer.proposals : /\ r.address \notin DOMAIN input.renames /\ input.names[r.address] \in {{}, {3}}
                                       /\ answer.project.renames[r.address] = r.name
       /\ \A r, s \in answer.proposals : r.name = s.name => r = s
       /\ \A a \in DOMAIN answer.project.renames : a \in DOMAIN input.renames \/ \E r \in answer.proposals : r.address = a
       /\ {r.address : r \in answer.proposals} =
            {b.at : b \in {c \in input.bounds : /\ inside(c) # {} /\ c.at \notin DOMAIN input.renames
                                              /\ input.names[c.at] \in {{}, {3}}}}

\* However it is asked, the same functions call each other: one is reachable when
\* there is a path to it, each step of a path is a call its callee is asked about,
\* and what the parameters of a function reach lies behind calls (handle_query,
\* handle_taint_query).
QueriesAgree ==
  kind = "asking" =>
    LET all == {1, 4, 7}
        holds(a) == {x \in input.calls : \E b \in input.bounds : b.at = a /\ b.at <= x.at /\ x.at < b.to}
        p == [EmptyProject EXCEPT !.names = [a \in all |-> {}], !.bounds = input.bounds, !.xrefs = input.calls,
                                  !.image = {[EmptyImage EXCEPT !.code = [a \in input.code |-> 0]]},
                                  !.passes = [a \in all |-> SetToSeq({[to |-> x.to[2], mask |-> IF x.at \in input.passing THEN {"x0"} ELSE {}] : x \in holds(a)})]]
        At(a) == {[k |-> "Address", address |-> a]}
        Ask(from, to, callers, taint, sink) == HandleQuery(p, [from |-> from, to |-> to, callers |-> callers, taint |-> taint, sink |-> sink])
    IN \A reach \in {[a \in all |-> Ask(At(a), {}, {}, {}, {}).answer.reachable]},
          callers \in {[a \in all \cup {10} |-> Ask({}, {}, At(a), {}, {}).answer.callers]}, f \in all :
         /\ \A g \in all \ {f} :
              \A path \in {Ask(At(f), At(g), {}, {}, {}).answer.path}, tainted \in {Ask({}, {}, {}, At(f), At(g)).answer.path} :
                 /\ (g \in reach[f]) = (path # {})
                 /\ \A w \in path : /\ Head(w) = f /\ Last(w) = g
                                     /\ \A n \in 1 .. Len(w) - 1 : w[n] \in callers[w[n + 1]]
                 /\ tainted # {} => g \in reach[f]
                 /\ \A from \in {Ask({}, {}, {}, At(f), {})} : from.error = "" => (g \in from.answer.reachable) = (tainted # {})
         /\ Ask({}, {}, {}, At(f), {}).error = "" => \E b \in input.bounds : b.at = f /\ f \in input.code

\* A project of two functions, and what carrying names from one to another does.
Portable(side) ==
  [EmptyProject EXCEPT !.names = side.names, !.renames = side.renames,
                       !.bounds = {[at |-> a, to |-> a + 1] : a \in {1, 4}},
                       !.image = {[EmptyImage EXCEPT !.code = side.code]}]
Settled(left, right, matched, ported) ==
  LET pairs == {<<m.left, m.right>> : m \in ported.report.matched}
      different(p) == Cardinality({f.name : f \in FunctionSummaries(p)}) = 2 /\ \A f \in FunctionSummaries(p) : f.name # {}
  IN /\ HandleMatch(left, matched.right, TRUE, [of |-> 1, over |-> 1]) = matched
     /\ \A m \in matched.pairs.exact : m.left \in DOMAIN left.renames => matched.right.renames[m.right] = left.renames[m.left]
     /\ \A a \in {1, 4} : a \notin {m.right : m \in matched.pairs.exact} =>
          {f \in FunctionSummaries(matched.right) : f.address = a} = {f \in FunctionSummaries(right) : f.address = a}
     /\ HandleDiff(left, ported.right, TRUE, TRUE).right = ported.right
     /\ \A a \in {1, 4} : {f \in FunctionSummaries(ported.right) : f.address = a} = {f \in FunctionSummaries(right) : f.address = a}
                           \/ \E l \in DOMAIN left.renames : <<l, a>> \in pairs /\ ported.right.renames[a] = left.renames[l]
     /\ (different(left) /\ different(right)) =>
          \A answer \in {HandleTimeline(<<left, right>>).answer}, m \in ported.report.matched : \E h \in Range(answer) :
            h.at = <<m.left, m.right>> /\ h.changed = <<<<m.left, m.right>> \in ported.changed>>
Settles(left, right) ==
  Settled(left, right, HandleMatch(left, right, TRUE, [of |-> 1, over |-> 1]), HandleDiff(left, right, TRUE, TRUE))

\* Carrying renames over gives a matched function the name its match was given by
\* hand and nothing else a name; doing it again changes nothing, and the functions
\* paired by their code stay the same pairs (handle_match --transfer, handle_diff
\* --port, transfer_renames).
TransfersSettle == kind = "ported" => Settles(Portable(input.left), Portable(input.right))

\* A function that was exported is known again by its code: without its name, each
\* is matched by what was exported of it, with strings only where its own code uses one,
\* and a function that has a name of its own is never one to identify
\* (handle_corpus_export, handle_identify, at the default threshold).
ExportedFunctionsAreKnown ==
  kind = "corpus" =>
    LET p == [EmptyProject EXCEPT
                !.names = input.names, !.bounds = input.bounds, !.elf = TRUE, !.text = [a \in {20, 21} |-> {a}],
                !.elfcode = [a \in (1 .. 5) \ {input.bad} |-> [call |-> a \in input.calls, values |-> IF a \in {1, 4} THEN input.values[a] ELSE {}]],
                !.xrefs = {[ref |-> "data", at |-> a, to |-> <<"data", IF a \in {1, 4} THEN 20 ELSE 21>>] : a \in input.uses}]
        corpus == CorpusExport(p)
        found == HandleIdentify([p EXCEPT !.names = [a \in {1, 4} |-> {}]], corpus, Hundredths(70))
        named == {a \in {1, 4} : input.names[a] # {3}}
        order == SetToSortSeq(named, <)
    IN Cardinality({b.at : b \in input.bounds}) = Cardinality(input.bounds) =>
         /\ Len(corpus) = Cardinality(named)
         /\ \A n \in DOMAIN order : \E r \in found : r.address = order[n] /\ n \in r.report.matches
         /\ \A n \in DOMAIN order : corpus[n].strings # {} =>
              \E b \in input.bounds : b.at = order[n] /\ (b.at .. b.to - 1) \cap input.uses # {}
         /\ {r.address : r \in HandleIdentify(p, corpus, Hundredths(70))} \cap named = {}

\* Every string of a project is listed once and in order, by class, by length and by
\* what is in it: the classes and those without one make up all, a longer least
\* length only takes strings away, only text that can be read has a name in it,
\* and the HTTP interface lists the same (handle_strings, project_strings).
StringsAreListed ==
  kind = "strings" =>
    LET none == [class |-> {}, min |-> {}, name |-> {}, limit |-> {}]
        asks == {none, [none EXCEPT !.limit = input.limit], [none EXCEPT !.name = {"y"}]}
                \cup {[none EXCEPT !.class = {c}] : c \in 1 .. 2} \cup {[none EXCEPT !.min = {m}] : m \in 1 .. 5}
        Bare(r) == [at |-> r.at, encoding |-> r.encoding, len |-> r.len]
        Count(rows, s) == Cardinality({n \in DOMAIN rows : Bare(rows[n]) = s})
        times(s) == Cardinality({n \in DOMAIN input.strings : input.strings[n] = s})
        known == input.elf \/ input.image
    IN \A told \in {[a \in asks |-> HandleStrings(input, a)]} :
       LET all == told[none]
           first == told[[none EXCEPT !.limit = input.limit]]
           Class(c) == told[[none EXCEPT !.class = {c}]]
           Long(m) == Range(told[[none EXCEPT !.min = {m}]].strings)
       IN
       /\ \A s \in StringFacts : Count(all.strings, s) = times(s) /\ Count(ProjectStrings(input, {}), s) = times(s)
       /\ \A m, n \in DOMAIN all.strings : m < n => all.strings[m].at <= all.strings[n].at
       /\ first.count = all.count /\ first.truncated = (Len(first.strings) < all.count)
       /\ first.strings = SubSeq(all.strings, 1, Len(first.strings))
       /\ all.count = Class(1).count + Class(2).count + Cardinality({n \in DOMAIN all.strings : all.strings[n].class = {}})
       /\ \A r \in Range(all.strings) : r.class # {} => \E n \in DOMAIN input.classes : input.classes[n].at = r.at /\ r.class = {input.classes[n].class}
       /\ \A min \in 1 .. 4 : Long(min + 1) \subseteq Long(min)
       /\ \A s \in Long(3) : IF s.value = {} THEN s.len >= 3 ELSE \A v \in s.value : v.chars >= 3
       /\ {r.at : r \in Range(told[[none EXCEPT !.name = {"y"}]].strings)} =
            {a \in {s.at : s \in Range(input.strings)} \cap DOMAIN input.texts : known /\ "y" \in input.texts[a].parts}
       /\ all.readable => known

\* A summary is of one function, however it is named, and says of calls what the
\* call graph says: a function calls those it has a call to, nothing outside its
\* bound is its own, and what cannot be followed is marked (summarize_named).
SummariesAgree ==
  kind = "summary" =>
    LET p == [EmptyProject EXCEPT !.names = input.names, !.renames = input.renames, !.bounds = input.bounds, !.xrefs = input.xrefs,
                                  !.strings = {20}, !.problems = {[at |-> 4, what |-> "stop"]}]
        At(a) == HandleSummary(p, [k |-> "Address", address |-> a])
        ByName(n) == HandleSummary(p, [k |-> "Symbol", name |-> n])
        called(n) == {f.address : f \in CalledBy(p, n)}
        graph == FromFacts(CallFacts(p))
        has(a) == \E b \in input.bounds : b.at = a
    IN /\ \A n \in 1 .. 2 : ByName(n) = IF Cardinality(called(n)) = 1 THEN At(The(called(n))) ELSE Refused("function_not_found")
       /\ At(2).error # "" /\ At(4).answer.problems = {"stop"} /\ At(1).answer.problems = {}
       /\ \A a \in {1, 4, 7} :
            LET s == At(a).answer calls == Range(s.calls) IN
            /\ {c.to[2] : c \in {d \in calls : d.ref = "call"}} = Callees(graph, a)
            /\ {[ref |-> c.ref, at |-> c.from, to |-> c.to] : c \in calls} = {x \in input.xrefs : has(a) /\ a <= x.at /\ x.at < a + 3}
            /\ Len(s.calls) = Cardinality(calls)
            /\ \A m, n \in DOMAIN s.calls : m < n => s.calls[m].from <= s.calls[n].from
            /\ \A c \in calls : c.unresolved = (c.ref = "indirect_call")
            /\ s.strings = (IF has(a) /\ a = 4 /\ \E x \in input.xrefs : x.at = 4 THEN {20} ELSE {})
            /\ s.imports # {} => a = 1

\* A batch has a result for each file, up to the first that fails where that ends it;
\* a project holds the facts of the last file of its name, all of them where the
\* result says so, and none of an earlier one; projects of other names are kept,
\* and it exits with an error exactly where a file failed (handle_batch).
BatchKeepsTheLast ==
  kind = "batch" =>
    LET before == ("a" :> 7) @@ ("c" :> 5)
        answer == HandleBatch(before, input.lines, input.failFast)
        named == SelectSeq(input.lines, LAMBDA l : ~ l.blank)
        done == Len(answer.results)
        Good(l) == l.creates /\ l.loads /\ l.stored = l.facts
        last(s) == {n \in 1 .. done : named[n].stem = s /\ \A m \in n + 1 .. done : named[m].stem # s}
        bad == {n \in DOMAIN named : ~ Good(named[n])}
    IN /\ done = IF input.failFast /\ bad # {} THEN Min(bad) ELSE Len(named)
       /\ \A n \in 1 .. done : answer.results[n] = [stem |-> named[n].stem, ok |-> Good(named[n])]
       /\ answer.exit = 0 <=> bad = {}
       /\ (answer.error # "") = (input.failFast /\ bad # {})
       /\ answer.projects["c"] = 5
       /\ \A s \in {"a", "b"} : \A n \in last(s) :
            /\ answer.results[n].ok => answer.projects[s] = named[n].facts
            /\ (s \in DOMAIN answer.projects) = named[n].creates
            /\ named[n].creates => answer.projects[s] < 7
       /\ last("a") = {} => answer.projects["a"] = 7
=============================================================================
