--------------------------- MODULE DisasmCommand ---------------------------
(***************************************************************************)
(* What a disassembly command of the command line or of the HTTP interface *)
(* decodes and returns (damsel-cli/src/main.rs, plan_disassembly and       *)
(* execute_disassembly; damsel-cli/src/ui.rs, disassemble_image), and what *)
(* the commands that list the parts of an image show (main.rs, run;        *)
(* output.rs, filter_dyld_view, filter_objc_view).                         *)
(*                                                                         *)
(* The arguments are one target and count, limit, bytes, from and to, each *)
(* a set with at most one number.  An image is that of CodeWindow; its     *)
(* Swift symbols (name, demangled, address) and its Objective-C owners     *)
(* (names it is called by, kind, whether the methods are the class's own,  *)
(* methods: selector and implementation) are what was loaded.              *)
(***************************************************************************)
EXTENDS CodeWindow

\* The one value a set has.
The(set) == CHOOSE v \in set : TRUE

-----------------------------------------------------------------------------
(* Targets by name.                                                        *)

\* One candidate is the target; none or several are errors (swift_symbol_match).
OnlyOne(candidates) == IF Cardinality(candidates) = 1 THEN {c.address : c \in candidates} ELSE {}

\* resolve_swift_symbol_target: by the mangled name, else by the whole demangled
\* one, else by a part of it.  What is written as a mangled name is only that.
SwiftTarget(image, query) ==
  LET mangled == {c \in image.swift : c.name = query.text}
      named == {c \in image.swift : query.text \in c.demangled}
      holding == {c \in image.swift : query.text \in c.demangled \cup c.parts}
  IN OnlyOne(IF mangled # {} \/ query.mangled THEN mangled ELSE IF named # {} THEN named ELSE holding)

\* collect_objc_method_candidates, of every owner; a category is called by its
\* class's name too.
MethodCandidates(image, owner, selector, own) ==
  UNION {{[owner |-> o.display, kind |-> o.kind, own |-> o.own, address |-> m.at] : m \in {n \in o.methods : n.selector = selector}} :
           o \in {p \in image.owners : owner \in p.names /\ (own = {} \/ p.own \in own)}}

\* resolve_objc_method_target
MethodTarget(image, t) == OnlyOne(MethodCandidates(image, t.owner, t.selector, t.own))

-----------------------------------------------------------------------------
(* The plan.                                                               *)

\* normalize_instruction_limit
LimitsAgree(args) == Cardinality(args.count \cup args.limit) <= 1 /\ 0 \notin args.count \cup args.limit
InstructionLimit(args) == args.count \cup args.limit

\* The target to decode and where it starts; none where there is no such target.
BaseTargets(image, target) ==
  LET at(addresses) == {[decode |-> [k |-> "Address", address |-> a], start |-> a] : a \in addresses} IN
  CASE target.k = "Symbol" ->
         {[decode |-> target, start |-> s.address] : s \in FirstWith(image.symbols, LAMBDA t : t.name = target.name)}
    [] target.k = "Section" ->
         {[decode |-> target, start |-> s.start] : s \in FirstWith(image.sections, LAMBDA t : t.name = target.name)}
    [] target.k = "Address" -> at({target.address})
    [] target.k = "Swift" -> at(SwiftTarget(image, target.query))
    [] target.k = "Method" -> at(MethodTarget(image, target))

\* Which arguments go together.
ArgumentsFit(args) ==
  /\ LimitsAgree(args)
  /\ args.bytes = {} \/ InstructionLimit(args) = {}
  /\ args.to = {} \/ (args.bytes = {} /\ InstructionLimit(args) = {})
  /\ 0 \notin args.bytes
  /\ args.target.k = "Address" => args.from \subseteq {args.target.address}

\* Mutant: the bytes are counted from where the target starts.
AskedEndOfTarget(args, base, start) == args.to \cup {base.start + b : b \in args.bytes}

\* The end asked for, if any.
AskedEnd(args, base, start) == args.to \cup {start + b : b \in args.bytes}

\* plan_disassembly; none where it is an error.
PlanDisassembly(image, args) ==
  {LET start == IF args.from = {} THEN base.start ELSE The(args.from)
       end == AskedEnd(args, base, start)
   IN [target |-> IF args.from = {} THEN base.decode ELSE [k |-> "Address", address |-> start],
       start |-> start, end |-> end,
       limit |-> CASE InstructionLimit(args) # {} -> [k |-> "Instructions", n |-> The(InstructionLimit(args))]
                   [] InstructionLimit(args) = {} /\ end # {} -> [k |-> "Bytes", n |-> The(end) - start]
                   [] OTHER -> Unlimited] :
     base \in {b \in BaseTargets(image, args.target) :
                 /\ ArgumentsFit(args)
                 /\ \A to \in args.to : to > (IF args.from = {} THEN b.start ELSE The(args.from))}}

\* Where what was decoded ends, and where a next page starts.
EndAddress(start, code) == IF code = <<>> THEN start ELSE Last(code) + WordSize

\* execute_disassembly, with filter_instructions and infer_bytes_len.
ExecuteDisassembly(image, args) ==
  UNION {{LET code == SelectSeq(result.instructions, LAMBDA a : a >= plan.start /\ \A end \in plan.end : a < end)
              after == EndAddress(plan.start, code)
          IN [start |-> plan.start, instructions |-> code, stop |-> result.stop, end |-> after,
              bytes |-> (IF plan.end # {} THEN The(plan.end) ELSE after) - plan.start] :
            result \in Disassemble(image, [target |-> plan.target, limit |-> plan.limit,
                                           range |-> {[from |-> plan.start, to |-> end] : end \in plan.end}])} :
           plan \in PlanDisassembly(image, args)}

\* disassemble_image: of an address, where to start is not asked for.
DisassembleImage(image, request) ==
  ExecuteDisassembly(image, [target |-> request.target, count |-> {}, limit |-> request.limit, bytes |-> request.bytes,
                             from |-> IF request.target.k = "Address" THEN {} ELSE request.from, to |-> request.to])

-----------------------------------------------------------------------------
(* What the commands that list the parts of an image show.  A name has its *)
(* parts, which a filter is compared with, and its place in the order of   *)
(* names; an optional value is a set, and so is each filter.               *)

\* Whether a name, which there may not be, has what a filter asks for.
Matches(filter, name) == \A part \in filter : \E n \in name : part \in n.parts

NameOrder(name) == IF name = {} THEN 0 ELSE The(name).order
OrZero(value) == IF value = {} THEN 0 ELSE The(value)

KeyLess(a, b) == \E n \in DOMAIN a : a[n] < b[n] /\ \A m \in 1 .. n - 1 : a[m] = b[m]

\* The records in the order of their keys, and as they were where those are the same.
Ordered(records, Key(_)) ==
  LET keys == [n \in DOMAIN records |-> Key(records[n])]
      order == SetToSortSeq(DOMAIN records, LAMBDA m, n : KeyLess(keys[m], keys[n]) \/ (keys[m] = keys[n] /\ m < n))
  IN [n \in DOMAIN records |-> records[order[n]]]

\* sort_sections, sort_symbols, sort_imports, sort_relocations
SectionKey(sort, s) ==
  CASE sort = {"address"} -> <<s.start>> [] sort = {"size"} -> <<s.size>>
    [] sort = {"name"} -> <<s.segment.order, s.name.order>> [] OTHER -> <<>>
SymbolKey(sort, s) ==
  CASE sort = {"address"} -> <<s.address>> [] sort = {"size"} -> <<s.size>> [] sort = {"name"} -> <<s.name.order>> [] OTHER -> <<>>
ImportKey(sort, i) ==
  CASE sort = {"address"} -> <<OrZero(i.address)>> [] sort = {"dylib"} -> <<i.dylib.order, i.name.order>>
    [] sort = {"name"} -> <<i.name.order>> [] OTHER -> <<>>
RelocationKey(sort, r) ==
  CASE sort = {"address"} -> <<r.address>> [] sort = {"size"} -> <<r.size>>
    [] sort = {"section"} -> <<r.section.order, r.address>> [] OTHER -> <<>>

\* sections, symbols, imports and relocs; a filter that is not given is {}.
SelectedSections(sections, q) ==
  Ordered(SelectSeq(sections, LAMBDA s : /\ q.executable => s.executable
                                         /\ Matches(q.segment, {s.segment}) /\ Matches(q.name, {s.name})),
          LAMBDA s : SectionKey(q.sort, s))
SelectedSymbols(symbols, q) ==
  Ordered(SelectSeq(symbols, LAMBDA s : /\ (q.defined => s.defined) /\ (q.global => s.global)
                                        /\ Matches(q.section, s.section) /\ Matches(q.name, {s.name})),
          LAMBDA s : SymbolKey(q.sort, s))
SelectedImports(imports, q) ==
  Ordered(SelectSeq(imports, LAMBDA i : /\ (q.lazy => i.lazy) /\ (q.weak => i.weak) /\ (q.resolved => i.address # {})
                                        /\ Matches(q.dylib, {i.dylib}) /\ Matches(q.name, {i.name})),
          LAMBDA i : ImportKey(q.sort, i))
SelectedRelocations(relocations, q) ==
  Ordered(SelectSeq(relocations, LAMBDA r : Matches(q.section, {r.section})), LAMBDA r : RelocationKey(q.sort, r))

-----------------------------------------------------------------------------
(* dyld: exports, bindings (of places), stubs and the helpers of stubs.    *)

DyldLists == {"dylibs", "rpaths", "exports", "starts", "bindings", "stubs", "helpers"}

\* What a command shows: all unless it says which.
DyldShown(flags) == IF flags = {} THEN DyldLists ELSE flags

\* export_matches_kind, export_matches_flag
ShownExport(view, x) == Matches(view.name, {x.name}) /\ view.export \subseteq {x.kind} /\ view.flag \subseteq x.flags

\* A binding, and a stub: each has its kind, and only lazy and other slots have stubs
\* (binding_matches_stub_kind, stub_matches_binding_kind).
ShownBinding(view, b) ==
  /\ Matches(view.name, {b.name}) /\ Matches(view.dylib, {b.dylib}) /\ view.source \subseteq {b.source}
  /\ view.binding \subseteq {b.kind} /\ view.stub \subseteq {b.kind} /\ view.ordinal \subseteq b.ordinal
ShownStub(view, s) ==
  /\ Matches(view.name, s.name) /\ Matches(view.dylib, s.dylib) /\ view.source \subseteq {s.source}
  /\ view.binding \subseteq {s.kind} /\ view.stub \subseteq {s.kind} /\ view.ordinal \subseteq s.ordinal

\* A helper is shown with the stub that has it, once anything is asked for.
ShownHelper(dyld, view, h) ==
  /\ Matches(view.name, h.name) /\ Matches(view.dylib, h.dylib) /\ view.ordinal \subseteq h.ordinal
  /\ (\E f \in {"name", "dylib", "source", "binding", "stub", "ordinal"} : view[f] # {}) =>
       \E s \in Range(dyld.stubs) : ShownStub(view, s) /\ s.helper = {h.at}

\* sort_exports, sort_bindings, sort_stubs, sort_stub_helpers
ExportKey(sort, x) ==
  CASE sort \subseteq {"address"} -> <<OrZero(x.at), x.name.order>> [] sort = {"name"} -> <<x.name.order>>
    [] OTHER -> <<x.order, x.name.order>>
BindingKey(sort, b) ==
  CASE sort \subseteq {"address"} -> <<OrZero(b.at), OrZero(b.offset), b.dylib.order, b.name.order>>
    [] sort = {"name"} -> <<b.name.order, b.dylib.order, OrZero(b.at)>>
    [] sort = {"dylib"} -> <<b.dylib.order, b.name.order, OrZero(b.at)>>
    [] OTHER -> <<b.rank, b.dylib.order, b.name.order, OrZero(b.at)>>
StubKey(sort, s) ==
  CASE sort \subseteq {"address"} -> <<s.at>> [] sort = {"name"} -> <<NameOrder(s.name), NameOrder(s.dylib), s.at>>
    [] sort = {"dylib"} -> <<NameOrder(s.dylib), NameOrder(s.name), s.at>>
    [] OTHER -> <<s.rank, NameOrder(s.dylib), NameOrder(s.name), s.at>>
HelperKey(sort, h) ==
  CASE sort \subseteq {"address"} -> <<h.at>> [] sort = {"name"} -> <<NameOrder(h.name), NameOrder(h.dylib), h.at>>
    [] sort = {"dylib"} -> <<NameOrder(h.dylib), NameOrder(h.name), h.at>>
    [] OTHER -> <<OrZero(h.ordinal), NameOrder(h.dylib), NameOrder(h.name), h.at>>

\* filter_dyld_view
DyldView(dyld, view) ==
  [exports |-> Ordered(SelectSeq(dyld.exports, LAMBDA x : ShownExport(view, x)), LAMBDA x : ExportKey(view.sort, x)),
   bindings |-> Ordered(SelectSeq(dyld.bindings, LAMBDA b : ShownBinding(view, b)), LAMBDA b : BindingKey(view.sort, b)),
   stubs |-> Ordered(SelectSeq(dyld.stubs, LAMBDA s : ShownStub(view, s)), LAMBDA s : StubKey(view.sort, s)),
   helpers |-> Ordered(SelectSeq(dyld.helpers, LAMBDA h : ShownHelper(dyld, view, h)), LAMBDA h : HelperKey(view.sort, h)),
   dylibs |-> dyld.dylibs, rpaths |-> dyld.rpaths, starts |-> dyld.starts]

\* print_dyld: the lists printed, and how many of each there are.
DyldText(dyld, flags, view) ==
  LET shown == DyldView(dyld, view)
  IN [lists |-> [l \in DyldShown(flags) |-> shown[l]],
      counts |-> [l \in DyldLists |-> Len(IF l \in {"bindings", "stubs", "helpers"} THEN shown[l] ELSE dyld[l])]]

\* DyldJsonDto: every list, those that are not shown without records.
DyldJson(dyld, flags, view) ==
  LET shown == DyldView(dyld, view)
  IN [included |-> DyldShown(flags), lists |-> [l \in DyldLists |-> IF l \in DyldShown(flags) THEN shown[l] ELSE <<>>]]

-----------------------------------------------------------------------------
(* objc: classes, protocols and categories and what they own.              *)

\* objc_class_matches, objc_protocol_matches, objc_category_matches: a class is asked
\* for by its superclass too, and a category by its class.
ShownClass(view, c) ==
  /\ \A part \in view.owner : Matches({part}, c.name) \/ Matches({part}, c.super)
  /\ view.nameSource \subseteq {c.source}
ShownProtocol(view, p) == Matches(view.owner, p.name) /\ view.nameSource \subseteq {p.source}
ShownCategory(view, c) ==
  /\ \A part \in view.owner : Matches({part}, c.name) \/ Matches({part}, c.class)
  /\ \A source \in view.nameSource : source \in {c.source, c.classSource}
  /\ \A source \in view.record : source = c.record \/ (source = "lists" /\ c.record = "symbols" /\ c.lists)

\* What records own of a kind, under a name.
OwnedRecords(records, Name(_), what) ==
  FlattenSeq([n \in DOMAIN records |-> [k \in DOMAIN records[n][what] |->
    [owner |-> Name(records[n]), record |-> records[n][what][k]]]])

\* The name a category's methods and properties go by.
CategoryOwner(c) == IF c.name # {} THEN c.name ELSE c.class

\* The names a reference is shown for when owners are asked for.
OwnerNames(classes, protocols, categories) ==
  UNION {r.name : r \in Range(classes)} \cup UNION {r.name : r \in Range(protocols)} \cup UNION {c.class : c \in Range(categories)}

\* filter_objc_view
ObjcView(objc, view) ==
  LET classes == SelectSeq(objc.classes, LAMBDA c : ShownClass(view, c))
      protocols == SelectSeq(objc.protocols, LAMBDA p : ShownProtocol(view, p))
      categories == SelectSeq(objc.categories, LAMBDA c : ShownCategory(view, c))
      Of(what) == OwnedRecords(classes, LAMBDA c : c.name, what) \o (IF what = "ivars" THEN <<>> ELSE
                  OwnedRecords(protocols, LAMBDA p : p.name, what) \o OwnedRecords(categories, CategoryOwner, what))
      Sourced(what, filter) == SelectSeq(Of(what), LAMBDA o : filter \subseteq {o.record.source})
  IN [classes |-> classes, protocols |-> protocols, categories |-> categories,
      methods |-> Sourced("methods", view.selectorSource),
      properties |-> Sourced("properties", view.nameSource), ivars |-> Sourced("ivars", view.nameSource),
      references |-> SelectSeq(objc.references, LAMBDA r :
        view.owner = {} \/ r.name \cap OwnerNames(classes, protocols, categories) # {})]

\* objc_total_methods, objc_total_properties, objc_total_ivars
ObjcTotal(objc, what) ==
  LET Count(records) == FoldSeq(LAMBDA r, n : n + Len(r[what]), 0, records)
  IN Count(objc.classes) + IF what = "ivars" THEN 0 ELSE Count(objc.protocols) + Count(objc.categories)

ObjcRecords == {"classes", "protocols", "categories", "methods", "properties", "ivars"}

\* objc_detail_includes_classes and its like; references are shown with everything.
ObjcIncludes(detail) == IF detail = "all" THEN ObjcRecords \cup {"references"} ELSE {detail} \cap ObjcRecords

\* print_objc: the lists that have records, and how many there are of each in all.
ObjcText(objc, detail, view) ==
  LET shown == ObjcView(objc, view)
      listed == {l \in ObjcIncludes(detail) : shown[l] # <<>>}
  IN [lists |-> [l \in listed |-> shown[l]],
      totals |-> [l \in listed |-> IF l \in {"methods", "properties", "ivars"} THEN ObjcTotal(objc, l) ELSE Len(objc[l])],
      names |-> detail = "all"]

\* ObjcJsonDto: every list, those that are not asked for without records; the names
\* of classes, selectors and methods always.
ObjcJson(objc, detail, view) ==
  LET shown == ObjcView(objc, view)
  IN [lists |-> [l \in ObjcRecords \cup {"references"} |-> IF l \in ObjcIncludes(detail) THEN shown[l] ELSE <<>>], names |-> TRUE]
=============================================================================
