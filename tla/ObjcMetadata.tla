----------------------------- MODULE ObjcMetadata -----------------------------
(***************************************************************************)
(* The Objective-C classes, protocols and categories of an image           *)
(* (damsel-macho/src/objc.rs).                                             *)
(*                                                                         *)
(* An image has sections, words by address, the addresses its file backs,  *)
(* the entries of its tables of pointers, its symbols, the pools of its    *)
(* class and method names, and the rank of every name among the names.  A  *)
(* word is a pointer, a string, a number, a displacement or the head of a  *)
(* list.  A pointer is a number: an address, from the start of memory or   *)
(* from the base, in bits that flags (the lowest three) and tags (above    *)
(* PointerSpace) may surround; text is what its bytes are as a string,     *)
(* none if the lowest is zero.  Junk is a string that cannot be a name,    *)
(* Dotted one that can name a type but no selector.  What may be missing   *)
(* is a set of one element or none.                                        *)
(***************************************************************************)
EXTENDS Integers, SequencesExt

CONSTANTS ListLimit,    \* methods of a list: 256
          NameLimit     \* properties, variables or protocols of a list: 128

ASSUME ListLimitAssumption == ListLimit \in Nat \ {0}
ASSUME NameLimitAssumption == NameLimit \in Nat \ {0}

PointerSpace == 1048576    \* 2^48

Junk == "?"
Dotted == "A.B"
PlausibleType(names) == names \ {Junk}
PlausibleSelector(names) == names \ {Junk, Dotted}

\* Records in the order of a field, and names as they sort, each once.
InOrderOf(records, Key(_)) ==
  [n \in 1 .. Cardinality(records) |-> CHOOSE x \in records : Cardinality({y \in records : Key(y) < Key(x)}) = n - 1]
SortedNames(image, names) == InOrderOf(names, LAMBDA n : image.rank[n])

\* The first of several sets that has something.
FirstOf(sets) == LET some == SelectSeq(sets, LAMBDA s : s # {}) IN IF some = <<>> THEN {} ELSE some[1]

\* The first name of several, with where it is from.
FirstNamed(ways) ==
  LET some == SelectSeq(ways, LAMBDA w : w.name # {}) IN IF some = <<>> THEN [name |-> {}, source |-> "unresolved"] ELSE some[1]

WordAt(image, a, k) == {w \in (IF a \in DOMAIN image.words THEN {image.words[a]} ELSE {}) : w.k = k}
PointerAt(image, a) == {w.at : w \in WordAt(image, a, "pointer")}
NumberAt(image, a) == {w.value : w \in WordAt(image, a, "number")}

\* read_c_string_at_va
CString(image, a) == {w.name : w \in WordAt(image, a, "string")} \cup UNION {w.text : w \in WordAt(image, a, "pointer")}

\* infer_image_base
ImageBase(image) ==
  LET all == UNION {{s.address - o : o \in {p \in s.offset : p <= s.address}} : s \in image.sections}
  IN IF all = {} THEN {} ELSE {Min(all)}

\* pointer_candidates: as it is, without flags, without tags, without both, and
\* these last two from the base.  One that comes twice is looked at twice.
PointerCandidates(image, raw) ==
  LET stripped == raw - (raw % 8)
      plain == <<raw, stripped, (raw % PointerSpace), (stripped % PointerSpace)>>
      based == FlattenSeq([n \in {1, 2} |-> SetToSeq({b + plain[n + 2] : b \in ImageBase(image)})])
  IN SelectSeq(plain \o based, LAMBDA a : a # 0)

\* resolve_pointer_to_mapped_va: the first that is in the image.
FirstAmong(places, mapped) == FirstOf([n \in DOMAIN places |-> {places[n]} \cap mapped])
MappedAt(image, raw) == FirstAmong(PointerCandidates(image, raw), image.mapped)

\* What the pointer at an address points at, with its flags and without.
Follow(image, a) == UNION {MappedAt(image, raw) : raw \in PointerAt(image, a)}
FollowStripped(image, a) == UNION {MappedAt(image, raw - (raw % 8)) : raw \in PointerAt(image, a)}
Through(image, places, offset) == UNION {Follow(image, a + offset) : a \in places}

\* The same, as written if that is nowhere in the image, and the string there.
Located(image, raw) == FirstOf(<<MappedAt(image, raw), {raw}>>)
LocatedBehind(image, a) == UNION {Located(image, raw) : raw \in PointerAt(image, a)}
TextAt(image, places) == UNION {CString(image, a) : a \in places}

-----------------------------------------------------------------------------
(* Symbols, as collect_objc_symbol_maps takes them apart.                  *)

\* parse_category_method_symbol and parse_category_list_symbol: a class with a
\* category in brackets, and the selector, have to be names.  The code then parts
\* a category at bars, but a name with a bar is none.
ObjcSymbols(image) ==
  SelectSeq(image.symbols, LAMBDA s : /\ s.kind \in {"method", "list"} => Junk \notin {s.class, s.category}
                                      /\ s.kind = "method" => PlausibleSelector({s.selector}) # {})

\* Of several symbols or classes that are kept in one place, the last.
LatestSymbol(symbols) == IF symbols = <<>> THEN {} ELSE {Last(symbols)}

\* Undefined symbols are at 0.
SymbolNames(image, what, a) == {s.class : s \in LatestSymbol(SelectSeq(ObjcSymbols(image), LAMBDA s : s.kind = what /\ s.at = a))}
SymbolClassName(image, a) == FirstOf(<<SymbolNames(image, "class", a), SymbolNames(image, "metaclass", a)>>)

-----------------------------------------------------------------------------
(* Names.                                                                  *)

\* resolve_runtime_class_name_from_pointer: the string there or, of a class, the
\* name its data has.
RuntimeClassName(image, a) ==
  FirstOf(<<CString(image, a), TextAt(image, Through(image, FollowStripped(image, a + 32), 24))>>)

\* resolve_class_name_from_pointer
PointerClassName(image, a) == FirstOf(<<SymbolClassName(image, a), RuntimeClassName(image, a)>>)

\* resolve_runtime_protocol_name_from_pointer and resolve_category_name_from_pointer:
\* the string its name points at or, if there is none, the one at itself.
NameBehind(image, a, offset) == UNION {FirstOf(<<CString(image, n), CString(image, a)>>) : n \in Follow(image, a + offset)}

\* resolve_protocol_name_from_pointer
ProtocolName(image, a) == FirstOf(<<SymbolNames(image, "protocol", a), NameBehind(image, a, 8)>>)

\* resolve_selector_from_location: the string there, or behind a reference to it.
SelectorAt(image, a) ==
  FirstOf(<<PlausibleSelector(CString(image, a)), PlausibleSelector(TextAt(image, LocatedBehind(image, a)))>>)

\* resolve_selector_from_raw_pointer
SelectorAmong(image, places) == FirstOf([n \in DOMAIN places |-> SelectorAt(image, places[n])])
SelectorOf(image, raw) == SelectorAmong(image, PointerCandidates(image, raw))

-----------------------------------------------------------------------------
(* Lists.                                                                  *)

\* Where the entries of a list are, each of so many bytes at least.
EntriesOf(image, list, least, limit) ==
  LET OfHead(a, head) == [n \in 1 .. Min({head.count, limit}) |-> a + 8 + (n - 1) * Max({head.size, least})]
  IN FlattenSeq(SetToSeq(UNION {{OfHead(a, head) : head \in WordAt(image, a, "list")} : a \in list}))

\* read_method_list_at_pointer: an implementation among pointers is not resolved
\* as the selector is.  A method says whose it is.
Methods(image, list, owner) ==
  LET small == \E a \in list : \E head \in WordAt(image, a, "list") : head.small
      Displaced(a) == {a + w.by : w \in WordAt(image, a, "displacement")}
      Small(e) == [selector |-> UNION {SelectorAt(image, a) : a \in Displaced(e)}, implementation |-> Displaced(e + 8),
                   types |-> TextAt(image, UNION {Located(image, a) : a \in Displaced(e + 4)})]
      Big(e) == [selector |-> UNION {SelectorOf(image, raw) : raw \in PointerAt(image, e)},
                 implementation |-> PointerAt(image, e + 16), types |-> TextAt(image, LocatedBehind(image, e + 8))]
      Source(m) == IF m.selector = {} THEN "unresolved" ELSE IF small THEN "relative" ELSE "direct"
      Told(m) == [source |-> Source(m), owner |-> owner] @@ m
      Read(entries) == [n \in DOMAIN entries |-> Told(IF small THEN Small(entries[n]) ELSE Big(entries[n]))]
  IN SelectSeq(Read(EntriesOf(image, list, IF small THEN 12 ELSE 24, ListLimit)),
               LAMBDA m : m.selector \cup m.types # {} \/ m.implementation # {})

\* read_property_list_at_pointer
NameSource(name) == IF name = {} THEN "unresolved" ELSE "runtime"
Properties(image, list, owner) ==
  LET Of(name, attributes) == [owner |-> owner, name |-> name, source |-> NameSource(name), attributes |-> attributes]
      Property(e) == Of(TextAt(image, LocatedBehind(image, e)), TextAt(image, LocatedBehind(image, e + 8)))
      Read(entries) == [n \in DOMAIN entries |-> Property(entries[n])]
  IN SelectSeq(Read(EntriesOf(image, list, 16, NameLimit)), LAMBDA p : p.name \cup p.attributes # {})

\* read_ivar_list_at_pointer
Ivars(image, list, owner) ==
  LET Of(name, types, offset) == [owner |-> owner, name |-> name, source |-> NameSource(name), types |-> types, offset |-> offset]
      Ivar(e) == Of(TextAt(image, LocatedBehind(image, e + 8)), TextAt(image, LocatedBehind(image, e + 16)),
                    UNION {NumberAt(image, a) : a \in LocatedBehind(image, e)})
      Read(entries) == [n \in DOMAIN entries |-> Ivar(entries[n])]
  IN SelectSeq(Read(EntriesOf(image, list, 32, NameLimit)), LAMBDA v : v.name \cup v.types # {} \/ v.offset # {})

\* read_protocol_name_list: its head is a number of pointers, nothing else.
ProtocolNames(image, list) ==
  LET entries == UNION {UNION {{a + 8 * n : n \in 1 .. Min({count, NameLimit})} : count \in PointerAt(image, a)} : a \in list}
  IN SortedNames(image, PlausibleType(UNION {ProtocolName(image, p) : p \in UNION {Follow(image, e) : e \in entries}}))

-----------------------------------------------------------------------------
(* Classes and protocols.                                                  *)

\* build_class_record: what a class is called, and where its lists are.
BuildClassRecord(image, a) ==
  LET named == FirstNamed(<<[name |-> PlausibleType(RuntimeClassName(image, a)), source |-> "runtime"],
                            [name |-> PlausibleType(SymbolClassName(image, a)), source |-> "pointer_table"]>>)
      At(above, data) ==
        [above |-> above, meta |-> Follow(image, a), data |-> data, methods |-> Through(image, data, 32), protocols |-> Through(image, data, 40),
         ivars |-> Through(image, data, 48), properties |-> Through(image, data, 64)]
  IN named @@ [pointer |-> a, superclass |-> PlausibleType(UNION {PointerClassName(image, s) : s \in Follow(image, a + 8)}),
               at |-> At(Follow(image, a + 8), FollowStripped(image, a + 32))]

\* extract_class_list_pointers
MethodListOf(image, class) == Through(image, FollowStripped(image, class + 32), 32)

\* enrich_class_records: what is in its lists and in that of its metaclass.
EnrichClassRecord(image, record) ==
  LET of == record.pointer
      MethodsOfMeta(m) == Methods(image, MethodListOf(image, m), [of |-> m, kind |-> "metaclass", class |-> TRUE])
  IN record @@ [methods |-> Methods(image, record.at.methods, [of |-> of, kind |-> "class", class |-> FALSE]),
                properties |-> Properties(image, record.at.properties, of), ivars |-> Ivars(image, record.at.ivars, of),
                protocols |-> ProtocolNames(image, record.at.protocols),
                classMethods |-> FlattenSeq(SetToSeq({MethodsOfMeta(m) : m \in record.at.meta}))]

\* collect_pointer_tables: those of selectors and classes, each entry once, but
\* those that are zero, by their place and, at one place, by their kind.
KindKey(kind) == CASE kind = "selrefs" -> 0 [] kind = "classrefs" -> 1 [] kind = "classlist" -> 2
PointerRefs(image) ==
  LET Name(e, a) == IF e.kind = "selrefs" THEN PlausibleSelector(CString(image, a)) ELSE PlausibleType(PointerClassName(image, a))
      Ref(e) == LET to == MappedAt(image, e.raw)
                IN [kind |-> e.kind, table |-> e.at, raw |-> e.raw, address |-> to, name |-> UNION {Name(e, a) : a \in to}]
      refs == {Ref(e) : e \in {t \in Range(image.tables) : t.kind \in {"selrefs", "classrefs", "classlist"} /\ t.raw # 0}}
  IN InOrderOf(refs, LAMBDA ref : 3 * ref.table + KindKey(ref.kind))

\* collect_class_records: of the classes referred to and those listed.
ClassRecords(image) ==
  LET pointers == UNION {r.address : r \in {q \in Range(PointerRefs(image)) : q.kind # "selrefs"}}
  IN InOrderOf({EnrichClassRecord(image, BuildClassRecord(image, a)) : a \in pointers}, LAMBDA c : c.pointer)

\* build_protocol_record
ProtocolRecord(image, a) ==
  LET named == FirstNamed(<<[name |-> PlausibleType(NameBehind(image, a, 8)), source |-> "runtime"],
                            [name |-> PlausibleType(SymbolNames(image, "protocol", a)), source |-> "pointer_table"]>>)
      offset == [required |-> 24, requiredClass |-> 32, optional |-> 40, optionalClass |-> 48]
      ofClass == {"requiredClass", "optionalClass"}
  IN named @@ [pointer |-> a, properties |-> Properties(image, Follow(image, a + 56), a)]
     @@ [list \in DOMAIN offset |-> Methods(image, Follow(image, a + offset[list]), [of |-> a, kind |-> "protocol", class |-> list \in ofClass])]

\* collect_protocol_records
ProtocolRecords(image) ==
  LET pointers == UNION {MappedAt(image, e.raw) : e \in {t \in Range(image.tables) : t.kind \in {"protolist", "protorefs"}}}
  IN InOrderOf({ProtocolRecord(image, a) : a \in pointers}, LAMBDA p : p.pointer)

-----------------------------------------------------------------------------
(* Categories: from the list the image has of them and, for what is not in *)
(* it, from the symbols of their methods.                                  *)

SourceOf(pointer, source) == IF pointer = {} THEN "unresolved" ELSE source
RecordOwner(a, class) == [of |-> a, kind |-> "category", class |-> class]

\* What collect_category_records makes of an entry of the list.
RuntimeCategory(image, classes, a) ==
  LET class == Follow(image, a + 8)
      lists == [n \in 1 .. 4 |-> Follow(image, a + <<16, 24, 40, 32>>[n])]
      Hints(l) == LatestSymbol(SelectSeq(ObjcSymbols(image), LAMBDA s : s.kind = "list" /\ s.at = l))
      hint == FirstOf([n \in 1 .. 4 |-> UNION {Hints(l) : l \in lists[n]}])
      named == FirstNamed(<<[name |-> PlausibleType(NameBehind(image, a, 0)), source |-> "runtime"],
                            [name |-> {s.category : s \in hint}, source |-> "legacy_pool"]>>)
      known == SetToSeq({[name |-> d.name, source |-> d.source] : d \in {c \in Range(classes) : c.pointer \in class}})
      of == FirstNamed(known \o <<[name |-> PlausibleType(UNION {RuntimeClassName(image, c) : c \in class}), source |-> "runtime"],
                         [name |-> PlausibleType(UNION {SymbolClassName(image, c) : c \in class}), source |-> "pointer_table"],
                         [name |-> PlausibleType(UNION {SymbolClassName(image, c) : c \in PointerAt(image, a + 8)}), source |-> "pointer_table"],
                         [name |-> {s.class : s \in hint}, source |-> "legacy_pool"]>>)
  IN [pointer |-> a, record |-> "runtime", name |-> named.name, nameSource |-> named.source,
      classAt |-> class, class |-> of.name, classSource |-> of.source,
      propertiesAt |-> lists[3], propertiesSource |-> SourceOf(lists[3], "runtime"),
      protocolsAt |-> lists[4], protocolsSource |-> SourceOf(lists[4], "runtime"),
      properties |-> Properties(image, lists[3], a), protocols |-> ProtocolNames(image, lists[4])]
     @@ [list \in {"methods", "classMethods"} |->
           Methods(image, lists[IF list = "methods" THEN 1 ELSE 2], RecordOwner(a, list = "classMethods"))]

\* One record of collect_synthetic_category_records: the methods of a category that
\* have symbols, at the first implementation.
SyntheticCategory(image, classes, class, category) ==
  LET all == SelectSeq(ObjcSymbols(image), LAMBDA s : s.kind = "method" /\ s.class = class /\ s.category = category)
      order == SortSeq(all, LAMBDA s, t : s.at < t.at \/ (s.at = t.at /\ image.rank[s.selector] < image.rank[t.selector]))
      pointer == order[1].at
      Of(meta) ==
        LET symbols == SelectSeq(order, LAMBDA s : s.meta = meta)
        IN [n \in DOMAIN symbols |-> [selector |-> {symbols[n].selector}, source |-> "legacy_pool", owner |-> RecordOwner(pointer, meta),
                                      implementation |-> {symbols[n].at}, types |-> {}]]
      known == SelectSeq(classes, LAMBDA d : d.name = {class})
      last == LatestSymbol(known)
      Lists(of) == SelectSeq(ObjcSymbols(image), LAMBDA s : s.kind = "list" /\ s.of = of /\ s.class = class /\ s.category = category)
      List(of) == {s.at : s \in LatestSymbol(Lists(of))}
      properties == List("properties")
      protocols == List("protocols")
  IN [pointer |-> pointer, record |-> "symbols",
      name |-> {category}, nameSource |-> "legacy_pool", classAt |-> {d.pointer : d \in last}, class |-> {class},
      classSource |-> IF last = {} THEN "legacy_pool" ELSE (CHOOSE d \in last : TRUE).source,
      propertiesAt |-> properties, propertiesSource |-> SourceOf(properties, "legacy_pool"),
      protocolsAt |-> protocols, protocolsSource |-> SourceOf(protocols, "legacy_pool"),
      methods |-> Of(FALSE), classMethods |-> Of(TRUE),
      properties |-> Properties(image, properties, pointer), protocols |-> ProtocolNames(image, protocols)]

\* collect_synthetic_category_records, in the order of classes and categories.
SyntheticCategories(image, classes) ==
  LET named == {<<s.class, s.category>> : s \in {t \in Range(ObjcSymbols(image)) : t.kind = "method"}}
      order == SetToSortSeq(named, LAMBDA x, y : \/ image.rank[x[1]] < image.rank[y[1]]
                                                 \/ x[1] = y[1] /\ image.rank[x[2]] < image.rank[y[2]])
  IN [n \in DOMAIN order |-> SyntheticCategory(image, classes, order[n][1], order[n][2])]

\* category_identity
CategoryIdentity(record) == {<<c, n>> : c \in record.class, n \in record.name}

\* merge_property_records and merge_protocol_names: whose a property is does not tell
\* it from another.
PropertyKey(p) == <<p.name, p.attributes>>
MergeProperties(kept, more) ==
  FoldLeft(LAMBDA all, p : IF \E q \in Range(all) : PropertyKey(q) = PropertyKey(p) THEN all ELSE Append(all, p), kept, more)
MergeProtocolNames(image, kept, more) == SortedNames(image, Range(kept) \cup Range(more))

\* merge_runtime_category_with_synthetic, of records of one class and name: what
\* the first has of a kind stays, a list it has not comes with where it is from.
MergeCategory(image, runtime, synthetic) ==
  LET noProperties == runtime.propertiesAt = {}
      noProtocols == runtime.protocolsAt = {}
  IN [runtime EXCEPT !.classAt = FirstOf(<<@, synthetic.classAt>>),
                     !.propertiesAt = FirstOf(<<@, synthetic.propertiesAt>>),
                     !.propertiesSource = IF noProperties THEN synthetic.propertiesSource ELSE @,
                     !.protocolsAt = FirstOf(<<@, synthetic.protocolsAt>>),
                     !.protocolsSource = IF noProtocols THEN synthetic.protocolsSource ELSE @,
                     !.methods = IF @ = <<>> THEN synthetic.methods ELSE @,
                     !.classMethods = IF @ = <<>> THEN synthetic.classMethods ELSE @,
                     !.properties = IF @ = <<>> THEN synthetic.properties ELSE MergeProperties(@, synthetic.properties),
                     !.protocols = MergeProtocolNames(image, @, synthetic.protocols)]

\* merge_runtime_and_synthetic_category_records: what the symbols have of a
\* category of the list goes into its first record; the others follow.
MergeCategories(image, runtime, synthetic) ==
  LET first(s) == {n \in DOMAIN runtime : /\ CategoryIdentity(runtime[n]) = CategoryIdentity(s)
                                          /\ \A m \in 1 .. n - 1 : CategoryIdentity(runtime[m]) # CategoryIdentity(s)}
      into(n) == SelectSeq(synthetic, LAMBDA s : n \in first(s))
  IN [n \in DOMAIN runtime |-> FoldLeft(LAMBDA r, s : MergeCategory(image, r, s), runtime[n], into(n))]
     \o SelectSeq(synthetic, LAMBDA s : first(s) = {})

\* collect_category_records: of those at one place, the first.
FirstAtEach(all) ==
  InOrderOf({all[n] : n \in {m \in DOMAIN all : \A k \in 1 .. m - 1 : all[k].pointer # all[m].pointer}}, LAMBDA c : c.pointer)
RuntimeCategories(image, classes) ==
  LET catlist == SelectSeq(image.tables, LAMBDA e : e.kind = "catlist")
      listed == FlattenSeq([n \in DOMAIN catlist |-> SetToSeq(MappedAt(image, catlist[n].raw))])
  IN [n \in DOMAIN listed |-> RuntimeCategory(image, classes, listed[n])]
CategoryRecords(image, classes) ==
  FirstAtEach(MergeCategories(image, RuntimeCategories(image, classes), SyntheticCategories(image, classes)))

-----------------------------------------------------------------------------
(* The whole, with the lists of names older callers use.                   *)

NamesOf(records) == UNION {r.name : r \in Range(records)}
SelectorsOf(lists) == UNION {UNION {m.selector : m \in Range(list)} : list \in lists}

\* derive_compatibility_views
CompatibilityViews(image, found) ==
  LET ofSelectors == SelectSeq(found.refs, LAMBDA r : r.kind = "selrefs")
      ofClasses == SelectSeq(found.refs, LAMBDA r : r.kind # "selrefs")
      types == image.pools.classes \cup NamesOf(ofClasses) \cup NamesOf(found.classes) \cup NamesOf(found.protocols)
               \cup NamesOf(found.categories) \cup UNION {c.class : c \in Range(found.categories)}
      methods == image.pools.methods
                 \cup SelectorsOf(UNION {{r.methods, r.classMethods} : r \in Range(found.classes) \cup Range(found.categories)})
                 \cup SelectorsOf(UNION {{p.required, p.requiredClass, p.optional, p.optionalClass} : p \in Range(found.protocols)})
  IN [classNames |-> SortedNames(image, PlausibleType(types)),
      selectorNames |-> SortedNames(image, PlausibleSelector(image.pools.methods \cup NamesOf(ofSelectors))),
      methodNames |-> SortedNames(image, PlausibleSelector(methods))]

\* The flags of the last section that has enough bytes of them.
ImageInfoFlags(image) == LatestSymbol(SelectSeq(image.info, LAMBDA i : i.size >= 8))

\* collect_objc_metadata
WithViews(image, found) == found @@ CompatibilityViews(image, found)
WithCategories(image, found) == found @@ [categories |-> CategoryRecords(image, found.classes)]
ObjcMetadataOf(image) ==
  WithViews(image, WithCategories(image,
    [flags |-> {i.flags : i \in ImageInfoFlags(image)}, refs |-> PointerRefs(image),
     classes |-> ClassRecords(image), protocols |-> ProtocolRecords(image)]))
=============================================================================
