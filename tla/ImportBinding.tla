--------------------------- MODULE ImportBinding ----------------------------
(***************************************************************************)
(* Which part of a universal file is read, and how the imports, pointer    *)
(* slots, stubs and stub helpers of a Mach-O image are tied together       *)
(* (damsel-macho/src/loader.rs).                                           *)
(*                                                                         *)
(* A name is [base, form]: loading compares names without their case and   *)
(* their leading underscores, which only the form tells apart.  An import  *)
(* has a name, a dylib and an address, 0 when it is not bound yet; an      *)
(* indirect table names a symbol for each word of a pointer section        *)
(* (kind lazy or nonlazy) and each stub of a stub section.  What makes     *)
(* loading fail is an error, of which the message is not modelled.         *)
(***************************************************************************)
EXTENDS Integers, SequencesExt

Rank(subtype) == CASE subtype = "arm64e" -> 2 [] subtype = "arm64" -> 1 [] OTHER -> 0

InRange(arch, length) == arch.size > 0 /\ arch.offset + arch.size <= length

Better(arches, m, n) == Rank(arches[m].subtype) > Rank(arches[n].subtype)
                        \/ (Rank(arches[m].subtype) = Rank(arches[n].subtype) /\ m < n)

\* choose_fat_arch: the index of the slice read; {} for an error.
ChooseFatArch(arches, length) ==
  LET usable == {n \in DOMAIN arches : /\ arches[n].cpu = "arm64" /\ InRange(arches[n], length)
                                       /\ arches[n].parses}
  IN {n \in usable : \A m \in usable \ {n} : Better(arches, n, m)}

\* collect_fat_slice_descriptors: the slices listed, and whether each is the
\* one that was selected.
SliceDescriptors(arches, length, selected) ==
  {[offset |-> a.offset, size |-> a.size, subtype |-> a.subtype,
    selected |-> /\ a.offset = selected.offset /\ a.size = selected.size
                 /\ a.subtype = selected.subtype] :
     a \in {b \in Range(arches) : b.cpu \in {"arm64", "x86_64"} /\ b.offset + b.size <= length}}

-----------------------------------------------------------------------------
(* Imports and the places the fixups bind them at.                         *)

Same(import, hint) == import.name = hint.name /\ import.dylib = hint.dylib

\* A hint finds the import it is about, binds the first that has no address, or
\* is a new import.
BindHint(imports, hint) ==
  LET bound == {n \in DOMAIN imports : Same(imports[n], hint) /\ imports[n].address = hint.address}
      waiting == {n \in DOMAIN imports : Same(imports[n], hint) /\ imports[n].address = 0}
      Meet(n) == [imports EXCEPT ![n].address = hint.address, ![n].addend = hint.addend,
                                 ![n].weak = imports[n].weak \/ hint.weak]
  IN IF bound # {} THEN Meet(Min(bound))
     ELSE IF waiting # {} THEN Meet(Min(waiting))
     ELSE Append(imports, hint)

\* merge_import_hints: the imports that remain, one for each place and name.
MergeImportHints(imports, hints) ==
  LET merged == FoldLeft(BindHint, imports, hints)
      kept == SelectSeq(merged, LAMBDA i : i.address # 0 \/ ~ \E j \in Range(merged) : j.address # 0 /\ Same(i, j))
  IN {kept[n] : n \in {m \in DOMAIN kept : \A k \in 1 .. m - 1 :
                         kept[k].address # kept[m].address \/ ~ Same(kept[k], kept[m])}}

-----------------------------------------------------------------------------
(* Loading.  A file is thin, with a header and tables, universal, with a   *)
(* header and tables for each slice, or something else.  Tables have       *)
(* sections (address and size in memory and in the file), symbols, what    *)
(* the fixups bind, what the symbols ask for, and the libraries loaded.    *)

\* map_selected_architecture: none for another processor.
SelectedArchitecture(header) ==
  IF header.cpu # "arm64" THEN {} ELSE {IF header.subtype = "arm64e" THEN "arm64e" ELSE "arm64"}

\* select_slice: a thin file is its own slice, of whatever its header says.
SelectSlice(file) ==
  CASE file.kind = "thin" -> {a \in {file.whole} : a.parses /\ SelectedArchitecture(a.header) # {}}
    [] file.kind = "universal" -> {file.arches[n] : n \in ChooseFatArch(file.arches, file.length)}
    [] OTHER -> {}

\* The slices an image lists.
AvailableSlices(file, slice) ==
  IF file.kind = "universal" THEN SliceDescriptors(file.arches, file.length, slice)
  ELSE {[offset |-> 0, size |-> slice.size, subtype |-> slice.subtype, selected |-> TRUE]}

ClampedFileSize(offset, size, length) == IF offset >= length THEN 0 ELSE Min({size, length - offset})

\* collect_sections: what a section has in the slice, and nothing more in memory.
CollectSections(sections, length) ==
  [n \in DOMAIN sections |->
     LET s == sections[n] backed == ClampedFileSize(s.offset, s.bytes, length)
     IN [name |-> s.name, start |-> s.start, size |-> Min({s.size, backed}), bytes |-> backed,
         offset |-> IF backed = 0 THEN {} ELSE {s.offset}, executable |-> s.text \/ s.instructions]]

\* collect_symbols: of those with one name, address and definedness the first, in the
\* order of addresses and then of names.
CollectSymbols(symbols) ==
  LET Mark(n) == <<symbols[n].name, symbols[n].address, symbols[n].defined>>
      kept == {n \in DOMAIN symbols : \A m \in 1 .. n - 1 : Mark(m) # Mark(n)}
      Key(n) == <<symbols[n].address, symbols[n].name, n>>
      Before(m, n) == \E i \in 1 .. 3 : Key(m)[i] < Key(n)[i] /\ \A j \in 1 .. i - 1 : Key(m)[j] = Key(n)[j]
      order == SetToSortSeq(kept, Before)
  IN [n \in DOMAIN order |-> symbols[order[n]]]

\* collect_imports: what the fixups bind, the last for each place; and what the
\* symbols ask for, of the first library where none is named, unless it is bound.
CollectImports(bound, asked, libs) ==
  LET Place(i) == <<i.name, i.dylib, i.address>>
      last == {bound[n] : n \in {m \in DOMAIN bound : \A k \in m + 1 .. Len(bound) : Place(bound[k]) # Place(bound[m])}}
      Library(a) == IF a.dylib # {} THEN CHOOSE d \in a.dylib : TRUE ELSE IF libs = <<>> THEN "" ELSE libs[1]
      unbound == {[name |-> a.name, dylib |-> Library(a), address |-> 0, addend |-> 0, weak |-> FALSE] : a \in asked}
  IN last \cup {u \in unbound : ~ \E i \in last : Same(i, u)}

\* load_from_source: what the header of the slice says is its architecture; the tables
\* are those of the slice.
LoadFromSource(file) ==
  {[architecture |-> a, slice |-> [offset |-> s.offset, size |-> s.size, subtype |-> s.subtype],
    slices |-> AvailableSlices(file, s), sections |-> CollectSections(s.tables.sections, s.size),
    symbols |-> CollectSymbols(s.tables.symbols),
    imports |-> MergeImportHints(SetToSeq(CollectImports(s.tables.bound, s.tables.asked, s.tables.libs)), s.tables.hints)] :
     s \in SelectSlice(file), a \in UNION {SelectedArchitecture(t.header) : t \in SelectSlice(file)}}

-----------------------------------------------------------------------------
(* Pointer slots and stubs.                                                *)

Normalized(name) == name.base

\* resolve_dylib_name_from_ordinal: none for the image itself, the executable
\* and dynamic lookup.
DylibOfOrdinal(libs, ordinal) == IF ordinal \in DOMAIN libs THEN {libs[ordinal]} ELSE {}

\* resolve_import_for_indirect_symbol, resolve_indirect_symbol: the import a
\* symbol stands for; an undefined symbol has an ordinal, another has none.
Resolve(libs, imports, symbol) ==
  LET alike == {n \in DOMAIN imports : Normalized(imports[n].name) = Normalized(symbol.name)}
      dylib == UNION {DylibOfOrdinal(libs, o) : o \in symbol.ordinal}
      exact == {n \in alike : imports[n].dylib \in dylib}
      Found(n) == [k |-> "import", import |-> imports[n]]
  IN CASE exact # {} -> Found(Min(exact))
       [] exact = {} /\ dylib # {} ->
            IF alike # {} /\ Cardinality({imports[n].dylib : n \in alike}) = 1 THEN Found(Min(alike)) ELSE [k |-> "error"]
       [] OTHER ->
            IF alike = {} THEN [k |-> "none"]
            ELSE IF Cardinality(alike) = 1 THEN Found(Min(alike)) ELSE [k |-> "error"]

\* The pointer slots of an image in the order of its sections, the bindings
\* recorded for them.
PointerSlots(image) ==
  LET Of(s) == LET named == [n \in DOMAIN s.symbols |-> [symbol |-> s.symbols[n], address |-> s.start + (n - 1), kind |-> s.kind]]
               IN SelectSeq(named, LAMBDA p : p.symbol # 0)
      resolved(p) == Resolve(image.libs, image.imports, image.symbols[p.symbol])
      slots == FlattenSeq([n \in DOMAIN image.pointers |-> Of(image.pointers[n])])
  IN [error |-> \E n \in DOMAIN slots : resolved(slots[n]).k = "error",
      slots |-> SelectSeq(slots, LAMBDA p : resolved(p).k = "import")]

\* select_pointer_slot_for_stub, of the slots of one symbol: all of them name
\* its import, so that what remains is to prefer a lazy one.
SelectPointerSlot(slots) ==
  LET lazy == SelectSeq(slots, LAMBDA p : p.kind = "lazy") IN IF lazy # <<>> THEN lazy[1] ELSE slots[1]

\* The stubs of an image, without helpers.
Stubs(image, slots) ==
  {LET i == Resolve(image.libs, image.imports, image.symbols[image.stubs.symbols[n]]).import
       mine == SelectSeq(slots, LAMBDA p : p.symbol = image.stubs.symbols[n])
       slot == IF mine = <<>> THEN [address |-> 0, kind |-> "nonlazy"] ELSE SelectPointerSlot(mine)
   IN [address |-> image.stubs.start + (n - 1), name |-> i.name, dylib |-> i.dylib, pointer |-> slot.address, kind |-> slot.kind] :
     n \in {m \in DOMAIN image.stubs.symbols :
              /\ image.stubs.symbols[m] # 0
              /\ Resolve(image.libs, image.imports, image.symbols[image.stubs.symbols[m]]).k = "import"}}

-----------------------------------------------------------------------------
(* Stub helpers: words of code and, behind each entry, the place in the    *)
(* lazy bindings that the entry binds.  Targets are words of the section,  *)
(* which starts at 0.                                                      *)

TrampolineSize == 6

IsEntry(words, at) ==
  /\ at + 2 < Len(words)
  /\ words[at + 1].op = "ldr" /\ words[at + 1].to \in 0 .. Len(words) - 1
  /\ words[at + 2].op = "b" /\ words[at + 2].to = 0

\* decode_stub_helper_entries: the entries as where they are and what they bind;
\* {} for a section that is not a trampoline and whole entries.
DecodeStubHelperEntries(words) ==
  LET found == {at \in 0 .. Len(words) - 1 : IsEntry(words, at)}
      start == Min(found)
      places == {at \in start .. Len(words) - 1 : (at - start) % 3 = 0}
  IN IF found = {} THEN {}
     ELSE IF \/ start \notin {0, TrampolineSize}
             \/ start = TrampolineSize /\ \E n \in 1 .. TrampolineSize : words[n] # [op |-> "trampoline", part |-> n]
             \/ (Len(words) - start) % 3 # 0
             \/ \E at \in places : ~ IsEntry(words, at)
     THEN {}
     ELSE {{[address |-> at, binds |-> words[words[at + 1].to + 1]] : at \in places}}

\* populate_stub_helpers: the helpers of the stubs of an image, or an error; an
\* image without lazy stubs has none.  Of two stubs with one pointer the later
\* has the helper.
StubHelpers(image, stubs) ==
  LET lazy == {s \in stubs : s.kind = "lazy" /\ s.pointer # 0}
      entries == UNION DecodeStubHelperEntries(image.helpers)
      binding(e) == {b \in image.lazy : e.binds = [op |-> "literal", value |-> b.sequence]}
      stubOf(b) == {s \in lazy : s.pointer = b.address /\ \A t \in lazy : t.pointer = b.address => t.address <= s.address}
  IN IF image.helpers = <<>> \/ lazy = {} THEN [k |-> "ok", helpers |-> {}]
     ELSE IF entries = {} \/ \E e \in entries : binding(e) = {} \/ \E b \in binding(e) : stubOf(b) = {} THEN [k |-> "error"]
     ELSE [k |-> "ok",
           helpers |-> UNION {UNION {{[address |-> e.address, stub |-> s.address, pointer |-> s.pointer,
                                       name |-> b.name, dylib |-> b.dylib] : s \in stubOf(b)} :
                                       b \in binding(e)} : e \in entries}]

\* augment_dysymtab_bindings_and_stubs: slots, then stubs, then helpers; the first
\* error ends it.
BoundStubs(p, stubs, helpers) ==
  IF helpers.k = "error" THEN [k |-> "error"]
  ELSE [k |-> "ok", slots |-> p.slots, stubs |-> stubs, helpers |-> helpers.helpers]
StubsOver(image, p, stubs) == BoundStubs(p, stubs, StubHelpers(image, stubs))
BindOver(image, p) ==
  IF \/ p.error
     \/ \E n \in DOMAIN image.stubs.symbols :
          /\ image.stubs.symbols[n] # 0
          /\ Resolve(image.libs, image.imports, image.symbols[image.stubs.symbols[n]]).k = "error"
  THEN [k |-> "error"] ELSE StubsOver(image, p, Stubs(image, p.slots))
BindStubs(image) == BindOver(image, PointerSlots(image))
=============================================================================
