-------------------------- MODULE AnnotatedListing --------------------------
(***************************************************************************)
(* What a listing says of its instructions: the imports, stubs and symbols *)
(* their references lead to, the uses an analysis collects of a listing,   *)
(* its overview and its counts (damsel-macho/src/disasm.rs, annotation and *)
(* analyze_disassembly_impl; the look-ups of damsel-core/src/model.rs).    *)
(*                                                                         *)
(* An image has its symbols, imports (ImportBinding), bindings, stubs,     *)
(* helpers, relocations, exports, classes and references to classes and    *)
(* selectors, each in the order it keeps them; `of` is the name and dylib  *)
(* of a stub or helper that has both, and `sends` the selector in the name *)
(* of a symbol that sends it.  An address or ordinal of 0 is none.         *)
(* The references and the notes of an instruction are sets, with one       *)
(* direct target at most; a relocation is noted by its address and target. *)
(***************************************************************************)
EXTENDS BasicBlocks, ImportBinding

\* The first of those that fit, if any.
FirstFit(list) == IF list = <<>> THEN {} ELSE {list[1]}

Direct(k, to) == [k |-> k, to |-> to]
Import(name, dylib, address) == [k |-> "import", name |-> name, dylib |-> dylib, address |-> address]
ImportOf(i) == Import(i.name, i.dylib, i.address)
BindingReference(b) == [k |-> "binding", name |-> b.name, dylib |-> b.dylib, address |-> b.address]
StubReference(s) == [k |-> "stub", address |-> s.address, pointer |-> s.pointer, of |-> s.of]
HelperReference(h) == [k |-> "helper", address |-> h.address, pointer |-> h.pointer, of |-> h.of]

ImportNote(i) == [note |-> "import", name |-> i.name, dylib |-> i.dylib]
Evidence(name, dylib, address) == [note |-> "evidence", name |-> name, dylib |-> dylib, address |-> address]
TargetNote(address, name, sends) == [note |-> "target", address |-> address, name |-> name, sends |-> sends]

\* What is added to an instruction, and whether an import is among it.
NoContext == [references |-> {}, notes |-> {}, tagged |-> FALSE]
Joined(parts) ==
  [references |-> UNION {p.references : p \in parts}, notes |-> UNION {p.notes : p \in parts},
   tagged |-> \E p \in parts : p.tagged]

-----------------------------------------------------------------------------
(* Looking things up (AnnotationIndex).                                    *)

SymbolsAt(image, a) == {s \in Range(image.symbols) : s.defined /\ a # 0 /\ s.address = a}
ImportsAt(image, a) == {i \in Range(image.imports) : a # 0 /\ i.address = a}
ImportsNamed(image, name) == SelectSeq(image.imports, LAMBDA i : Normalized(i.name) = Normalized(name))
BindingsAt(image, a) == SelectSeq(image.bindings, LAMBDA b : a # 0 /\ b.address = a)
StubAt(image, a) == {s \in image.stubs : s.address = a}
HelperAt(image, a) == {h \in image.helpers : h.address = a}

\* resolve_helper_binding: what is bound lazily at its slot, or has its ordinal, or
\* is the only one of its name.
HelperBinding(image, helper) ==
  LET lazy == SelectSeq(image.bindings, LAMBDA b : b.lazy)
      slot == SelectSeq(lazy, LAMBDA b : helper.pointer # 0 /\ b.address = helper.pointer)
      numbered == SelectSeq(lazy, LAMBDA b : helper.ordinal # 0 /\ b.ordinal = helper.ordinal)
      named == SelectSeq(lazy, LAMBDA b : [name |-> b.name, dylib |-> b.dylib] \in helper.of)
  IN IF slot # <<>> THEN {slot[1]} ELSE IF numbered # <<>> THEN {numbered[1]}
     ELSE IF Len(named) = 1 THEN {named[1]} ELSE {}

-----------------------------------------------------------------------------
(* Annotating one instruction.                                             *)

\* push_helper_context
HelperContext(image, helper) ==
  LET bound == HelperBinding(image, helper)
      this == [NoContext EXCEPT !.references = {HelperReference(helper)}]
      Bound(b) == [references |-> {BindingReference(b), ImportOf(b)}, notes |-> {Evidence(b.name, b.dylib, b.address)}, tagged |-> TRUE]
      Named(o) == [references |-> {Import(o.name, o.dylib, helper.pointer)},
                   notes |-> {ImportNote(o), Evidence(o.name, o.dylib, helper.pointer)}, tagged |-> TRUE]
  IN Joined({this} \cup IF bound # {} THEN {Bound(b) : b \in bound} ELSE {Named(o) : o \in helper.of})

\* The part of annotate_instructions about a stub, and of push_dyld_target_hooks.
StubContext(stub) ==
  [references |-> {StubReference(stub)} \cup {Import(o.name, o.dylib, stub.pointer) : o \in stub.of},
   notes |-> {Evidence(o.name, o.dylib, stub.pointer) : o \in stub.of}, tagged |-> stub.of # {}]

\* push_reference_target_annotations: the imports of the name of a symbol at the
\* target, and those bound at it.
TargetContext(image, to) ==
  LET symbols == SymbolsAt(image, to)
      imports == ImportsAt(image, to) \cup UNION {Range(ImportsNamed(image, s.name)) : s \in symbols}
  IN [references |-> {ImportOf(i) : i \in imports},
      notes |-> {TargetNote(to, s.name, s.sends) : s \in symbols} \cup {ImportNote(i) : i \in imports}, tagged |-> imports # {}]

\* push_dyld_target_hooks: the notes of a helper displace those of bindings and
\* stubs at the same place.
DyldContext(image, to) ==
  LET helpers == HelperAt(image, to)
      Binding(b) == [references |-> {BindingReference(b), ImportOf(b)},
                     notes |-> {Evidence(b.name, b.dylib, b.address)}, tagged |-> TRUE]
      Behind(s) == [NoContext EXCEPT !.references = {HelperReference(h) : h \in {g \in image.helpers : g.stub = s.address}}]
      others == Joined({Binding(b) : b \in Range(BindingsAt(image, to))}
                       \cup UNION {{StubContext(s), Behind(s)} : s \in StubAt(image, to)})
  IN Joined({HelperContext(image, h) : h \in helpers}
            \cup {IF helpers = {} THEN others ELSE [others EXCEPT !.notes = {}]})

\* What annotate_instructions adds for one reference.
ReferenceContext(image, r) ==
  CASE r.k \in {"call", "branch", "page", "data"} -> Joined({TargetContext(image, r.to), DyldContext(image, r.to)})
    [] r.k \in {"icall", "ibranch"} -> [NoContext EXCEPT !.notes = {[note |-> r.k, via |-> r.via]}]
    [] r.k = "import" ->
         [NoContext EXCEPT !.tagged = TRUE,
                         !.notes = {ImportNote(r)} \cup (IF r.address = 0 THEN {} ELSE {TargetNote(r.address, r.name, {})})]
    [] r.k = "binding" ->
         [references |-> {ImportOf(r)}, notes |-> {Evidence(r.name, r.dylib, r.address)}, tagged |-> TRUE]
    [] r.k = "stub" -> [NoContext EXCEPT !.notes = {Evidence(o.name, o.dylib, 0) : o \in r.of}]
    [] r.k = "helper" -> [NoContext EXCEPT !.tagged = TRUE, !.notes = {ImportNote(o) : o \in r.of}]
    [] OTHER -> [NoContext EXCEPT !.notes = {[note |-> "relocation", address |-> r.address, target |-> r.target]}]

\* The relocations of an instruction: the imports they name, of which the first is
\* noted when no import is yet.
RelocationContext(image, i, tagged) ==
  LET inside == SelectSeq(image.relocations, LAMBDA r : i.address <= r.address /\ r.address < i.address + i.size)
      imports == FlattenSeq([n \in DOMAIN inside |-> ImportsNamed(image, inside[n].target)])
  IN [references |-> {ImportOf(m) : m \in Range(imports)},
      notes |-> {[note |-> "relocation", address |-> r.address, target |-> r.target] : r \in Range(inside)}
                  \cup IF tagged THEN {} ELSE {ImportNote(m) : m \in FirstFit(imports)},
      tagged |-> tagged \/ imports # <<>>]

\* What an instruction gains; notes only if asked for.
Extended(i, context, asked) ==
  [i EXCEPT !.references = @ \cup context.references, !.notes = IF asked THEN @ \cup context.notes ELSE @]

\* annotate_instructions: what is at the instruction, then what each reference
\* leads to that it has by then, then its relocations.
HereContext(image, a) ==
  Joined({HelperContext(image, h) : h \in HelperAt(image, a)} \cup {StubContext(s) : s \in StubAt(image, a)}
         \cup {[NoContext EXCEPT !.notes = {[note |-> "symbol", name |-> s.name] : s \in SymbolsAt(image, a)}]})
Followed(image, i, here) == Joined({here} \cup {ReferenceContext(image, r) : r \in i.references \cup here.references})
Relocated(image, i, context) == Joined({context, RelocationContext(image, i, context.tagged)})
Annotated(image, i, asked) ==
  Extended(i, Relocated(image, i, Followed(image, i, HereContext(image, i.address))), asked)

-----------------------------------------------------------------------------
(* Objective-C behind a value.                                             *)

\* Where a reference to a selector or class is, or what it refers to.
Refers(r, a) == r.table = a \/ a \in r.to
SelectorRefAt(image, a) == FirstFit(SelectSeq(image.objcrefs, LAMBDA r : r.what = "selector" /\ Refers(r, a)))
SelectorNameAt(image, a) == UNION {r.name : r \in SelectorRefAt(image, a)}
ClassRefAt(image, a) == FirstFit(SelectSeq(image.objcrefs, LAMBDA r : r.what = "class" /\ Refers(r, a)))

\* objc_class_name_at_address
ClassNameAt(image, a) ==
  LET record == FirstFit(SelectSeq(image.classes, LAMBDA c : c.pointer = a \/ a \in c.meta))
      named == UNION {c.name : c \in record}
  IN IF named # {} THEN named ELSE UNION {r.name : r \in ClassRefAt(image, a)}

\* objc_imported_class_binding_at_address; `class` is the class a name is the symbol of.
ImportedClassAt(image, a) == FirstFit(SelectSeq(BindingsAt(image, a), LAMBDA b : b.class # {}))

\* objc_method_list_owner_at_address
ListOwnerAt(image, a) == UNION {c.name : c \in FirstFit(SelectSeq(image.classes, LAMBDA c : a \in c.lists))}

\* classify_recovered_value, from imports down to plain addresses.
Classify(image, a, otherwise) ==
  CASE BindingsAt(image, a) # <<>> -> "import"
    [] BindingsAt(image, a) = <<>> /\ StubAt(image, a) # {} -> "stub"
    [] OTHER ->
         IF a \in image.exports THEN "export"
         ELSE IF \E s \in Range(image.symbols) : s.address = a /\ s.text THEN "function"
         ELSE IF SelectorNameAt(image, a) # {} THEN "selector"
         ELSE IF ClassNameAt(image, a) # {} THEN "class"
         ELSE IF ListOwnerAt(image, a) # {} THEN "list"
         ELSE IF a \in image.strings THEN "string"
         ELSE IF a \in image.mapped THEN "address" ELSE otherwise

\* objc_reference_use_from_recovered: a value that is not classified as part of a
\* class may still be a reference to one.
ObjcUse(image, at, value) ==
  LET class == ClassRefAt(image, value.value) imported == ImportedClassAt(image, value.value)
      what == CASE value.kind \in {"selector", "class", "list"} -> {value.kind}
                [] OTHER -> IF SelectorRefAt(image, value.value) # {} THEN {"selector"}
                            ELSE IF class # {} \/ imported # {} THEN {"class"}
                            ELSE IF ListOwnerAt(image, value.value) # {} THEN {"list"} ELSE {}
      Name(w) ==
        CASE w = "selector" -> SelectorNameAt(image, value.value)
          [] w = "list" -> ListOwnerAt(image, value.value)
          [] OTHER -> LET named == UNION {r.name : r \in class} \cup ClassNameAt(image, value.value)
                      IN IF class # {} /\ \E r \in class : r.name # {} THEN UNION {r.name : r \in class}
                         ELSE IF named # {} THEN named ELSE UNION {b.class : b \in imported}
      To(w) ==
        CASE w = "selector" -> UNION {r.to : r \in SelectorRefAt(image, value.value)}
          [] w = "list" -> IF Name(w) = {} THEN {} ELSE {value.value}
          [] OTHER -> IF class # {} THEN UNION {r.to : r \in class}
                      ELSE IF ClassNameAt(image, value.value) # {} THEN {value.value} ELSE {}
  IN {[at |-> at, what |-> [kind |-> w, target |-> value.value, name |-> Name(w), to |-> To(w),
                            import |-> IF w = "class" THEN {<<b.name, b.dylib>> : b \in imported} ELSE {}]] : w \in what}

\* objc_message_send_use_from_annotation: a target the name of which says that it
\* sends a message.
MessageSends(image, i) ==
  UNION {{[at |-> i.address, what |-> [kind |-> "send", target |-> n.address, name |-> n.sends, to |-> {n.address}, import |-> {}]] :
            n \in {m \in i.notes : m.note = "target" /\ m.sends # {}}}}

-----------------------------------------------------------------------------
(* What an analysis collects of a listing, a set of instructions.          *)

UsesOf(listing, Of(_)) == UNION {{[at |-> i.address, what |-> w] : w \in Of(i)} : i \in listing}
TargetsOf(i, kinds) == {r.to : r \in {q \in i.references : q.k \in kinds}}

DirectCalls(listing) == UsesOf(listing, LAMBDA i : TargetsOf(i, {"call"}))
BranchTargets(listing) == UsesOf(listing, LAMBDA i : TargetsOf(i, {"branch"}))
DataReferences(listing) == UsesOf(listing, LAMBDA i : TargetsOf(i, {"data", "page"}))

\* An indirect control is resolved to the direct reference of its instruction.
IndirectControls(listing) ==
  UsesOf(listing, LAMBDA i : {<<r.k, r.via, TargetsOf(i, {"call", "branch"})>> : r \in {q \in i.references : q.k \in {"icall", "ibranch"}}})

\* Stubs and helpers count as the import they have the name of.
ImportUses(listing) ==
  UsesOf(listing, LAMBDA i :
    {<<r.dylib, r.name, r.address>> : r \in {q \in i.references : q.k \in {"import", "binding"}}}
    \cup UNION {{<<o.dylib, o.name, r.pointer>> : o \in r.of} : r \in {q \in i.references : q.k \in {"stub", "helper"}}})

ObjcUses(image, listing) ==
  UNION {UNION {ObjcUse(image, i.address, v) : v \in i.values} \cup MessageSends(image, i) : i \in listing}
ValueUses(listing) == UsesOf(listing, LAMBDA i : {<<v.register, v.value, v.kind>> : v \in i.values})
TableUses(listing) == UsesOf(listing, LAMBDA i : {<<m.base, m.index, m.size>> : m \in {n \in i.notes : n.note = "table"}})

\* One row of an overview is kept for each thing used, with how often and where first.
CountUse(use, rows) ==
  IF use.what \in DOMAIN rows
  THEN [rows EXCEPT ![use.what] = [count |-> @.count + 1, first |-> Min({@.first, use.at})]]
  ELSE (use.what :> [count |-> 1, first |-> use.at]) @@ rows
Summarised(uses) == FoldSet(CountUse, <<>>, uses)

TargetRows(uses) == Summarised(uses)
IndirectRows(listing) == Summarised(IndirectControls(listing))
TableRows(listing) == Summarised(TableUses(listing))
ImportRows(listing) == Summarised(ImportUses(listing))
ObjcRows(image, listing) == Summarised(ObjcUses(image, listing))
ValueRows(listing) == Summarised(ValueUses(listing))

\* build_disassembly_overview
Overview(image, listing) ==
  [calls |-> TargetRows(DirectCalls(listing)), branches |-> TargetRows(BranchTargets(listing)),
   indirect |-> IndirectRows(listing), tables |-> TableRows(listing), data |-> TargetRows(DataReferences(listing)),
   imports |-> ImportRows(listing), objc |-> ObjcRows(image, listing), values |-> ValueRows(listing)]

-----------------------------------------------------------------------------
(* The counts of an analysis, of a window of BasicBlocks.                  *)

CountedBy(things, keys, Of(_)) == [k \in keys |-> Cardinality({t \in things : Of(t) = k})]

\* ControlFlowEdgeKindCounts
EdgeKindCounts(window) == CountedBy(Edges(window), Kinds \ {"Trap"}, LAMBDA e : e.kind)

\* BasicBlockTerminatorKindCounts
TerminatorCounts(window) == CountedBy(Leaders(window), Kinds \cup {"Unknown"}, LAMBDA l : Terminator(window, l))

\* The summary and the metrics of analyze_disassembly_impl.
Counts(window) ==
  LET edges == Edges(window)
      reached == Reachable(window)
  IN [edges |-> Cardinality(edges),
      inside |-> Cardinality({e \in edges : e.target \in DOMAIN window}),
      outside |-> Cardinality({e \in edges : e.target # 0 /\ e.target \notin DOMAIN window}),
      unresolved |-> Cardinality({e \in edges : e.target = 0 /\ e.kind # "Return"}),
      structural |-> Cardinality({e \in edges : IsStructural(e.kind)}),
      calls |-> Cardinality({e \in edges : IsCall(e.kind)}),
      back |-> Cardinality(BackEdges(window)),
      headers |-> Cardinality({BlockOf(window, e.target) : e \in BackEdges(window)}),
      returns |-> Cardinality({j \in DOMAIN window : window[j].kind = "Return"}),
      blocks |-> Cardinality(Leaders(window)), reached |-> Cardinality(reached),
      apart |-> Cardinality(Leaders(window)) - Cardinality(reached),
      entries |-> Cardinality(EntryBlocks(window)), exits |-> Cardinality(ExitBlocks(window)),
      longest |-> Max({LastOf(window, l) - l + 1 : l \in Leaders(window)})]
-----------------------------------------------------------------------------
(* The image of a synthetic cache: a file moved to its place in the cache.  *)

\* rebase_objc_metadata
RebasedObjc(image, by) ==
  LET Moved(all) == {a + by : a \in all}
  IN [objcrefs |-> [n \in DOMAIN image.objcrefs |-> [image.objcrefs[n] EXCEPT !.table = @ + by, !.to = Moved(@)]],
      classes |-> [n \in DOMAIN image.classes |-> [image.classes[n] EXCEPT !.pointer = @ + by, !.meta = Moved(@), !.lists = Moved(@)]]]

\* rebased_synthetic_binary: everything is moved by as much as the lowest of what is
\* mapped is; the renames of the exports of two of the files are left out.
Rebased(image, base) ==
  LET by == base - Min(image.mapped)
      Moved(a) == IF a = 0 THEN 0 ELSE a + by
      Each(list) == [n \in DOMAIN list |-> [list[n] EXCEPT !.address = Moved(@)]]
  IN RebasedObjc(image, by) @@
     [imports |-> Each(image.imports), bindings |-> Each(image.bindings), symbols |-> Each(image.symbols),
      relocations |-> Each(image.relocations),
      stubs |-> {[s EXCEPT !.address = @ + by, !.pointer = Moved(@)] : s \in image.stubs},
      helpers |-> {[h EXCEPT !.address = @ + by, !.pointer = Moved(@), !.stub = Moved(@)] : h \in image.helpers},
      exports |-> {a + by : a \in image.exports}, strings |-> {a + by : a \in image.strings}, mapped |-> {a + by : a \in image.mapped}]
=============================================================================
