---------------------------- MODULE SwiftMetadata ----------------------------
(***************************************************************************)
(* What is read of the Swift metadata of an image and of Swift symbols     *)
(* (damsel-recon-catalog/src/swift.rs) and what the swift command shows    *)
(* (damsel-cli/src/main.rs, handle_swift).                                 *)
(*                                                                         *)
(* A section is [start, data].  Addresses count cells, two bytes or one    *)
(* character each: a word is two cells, and its value is in the first      *)
(* unless the second is not 0.  An odd address is one whose lowest bit is  *)
(* set.  In texts 0 is the end and -1 cannot be printed.  What the code    *)
(* has or has not is a set with at most one element.                       *)
(***************************************************************************)
EXTENDS Integers, SequencesExt

-----------------------------------------------------------------------------
(* Reading.                                                                *)

\* read_u32, read_i32
SwiftWord(cells, at) == cells[at + 1] + 65536 * cells[at + 2]

\* bytes_at: in the first section that has them all.
BytesAt(sections, at, len) ==
  LET covering == {n \in DOMAIN sections : sections[n].start <= at /\ at + len <= sections[n].start + Len(sections[n].data)}
  IN {SubSeq(sections[n].data, at - sections[n].start + 1, at - sections[n].start + len) :
        n \in {m \in covering : \A k \in covering : m <= k}}

\* resolve_relative: 0 points nowhere.
ResolveRelative(sections, at) ==
  {at + SwiftWord(w, 0) : w \in {c \in BytesAt(sections, at, 2) : SwiftWord(c, 0) # 0}}

UpTo(text, end) == SubSeq(text, 1, end - 1)
TextEnds(text) == {k \in DOMAIN text : text[k] = 0}
Printable(text) == text # <<>> /\ -1 \notin Range(text)

\* read_cstring: one that ends in the section it starts in.
ReadCString(sections, at) ==
  LET base == {n \in DOMAIN sections : BytesAt(<<sections[n]>>, at, 1) # {}}
      tails == {SubSeq(sections[n].data, at - sections[n].start + 1, Len(sections[n].data)) : n \in {m \in base : \A k \in base : m <= k}}
  IN {text \in {UpTo(t, Min(TextEnds(t))) : t \in {u \in tails : TextEnds(u) # {}}} : Printable(text) /\ Len(text) <= 128}

-----------------------------------------------------------------------------
(* Descriptors and conformances.                                           *)

DescriptorHeader(sections, at) ==
  {[flags |-> SwiftWord(w, 0), name |-> UNION {ReadCString(sections, n) : n \in ResolveRelative(sections, at + 4)}] :
     w \in BytesAt(sections, at, 2)}

\* descriptor_kind
DescriptorKind(flags) ==
  CASE flags % 16 = 0 -> "class" [] flags % 16 = 1 -> "struct" [] flags % 16 = 2 -> "enum"
    [] flags % 16 = 3 -> "protocol" [] flags % 16 = 4 -> "extension" [] OTHER -> "other"

\* Where the words of a section point, but for those that are 0.
Pointed(pointers) ==
  LET Word(n) == SwiftWord(pointers.data, 2 * (n - 1))
      set == SelectSeq([n \in 1 .. Len(pointers.data) \div 2 |-> n], LAMBDA n : Word(n) # 0)
  IN [n \in DOMAIN set |-> pointers.start + 2 * (set[n] - 1) + Word(set[n])]

\* parse_descriptor_pointers: one that cannot be read is listed all the same.
ParseDescriptorPointers(pointers, sections) ==
  LET at == Pointed(pointers)
  IN [n \in DOMAIN at |-> [at |-> at[n], header |-> IF BytesAt(sections, at[n], 8) = {} THEN {} ELSE DescriptorHeader(sections, at[n])]]

ParseProtocols(pointers, sections) ==
  LET read == ParseDescriptorPointers(pointers, sections)
  IN [n \in DOMAIN read |-> [at |-> read[n].at, name |-> UNION {h.name : h \in read[n].header}]]

ParseTypes(pointers, sections) ==
  LET read == ParseDescriptorPointers(pointers, sections)
  IN [n \in DOMAIN read |->
        [at |-> read[n].at, name |-> UNION {h.name : h \in read[n].header},
         kind |-> IF read[n].header = {} THEN "other" ELSE DescriptorKind((CHOOSE h \in read[n].header : TRUE).flags)]]

\* The first of the descriptors read at an address.
DescriptorAt(descriptors, at) ==
  LET found == {n \in DOMAIN descriptors : descriptors[n].at = at}
  IN {descriptors[n] : n \in {m \in found : \A k \in found : m <= k}}

\* One conformance: what is behind a tagged pointer, or not of this image, has no name.
Conformance(record, at, protocols, types) ==
  LET protocol == at + SwiftWord(record, 0)
      type == at + 2 + SwiftWord(record, 2)
      named == IF SwiftWord(record, 2) = 0 \/ type % 2 = 1 THEN {} ELSE DescriptorAt(types, type)
  IN [protocol |-> IF SwiftWord(record, 0) = 0 \/ protocol % 2 = 1 THEN {} ELSE UNION {p.name : p \in DescriptorAt(protocols, protocol)},
      type |-> UNION {t.name : t \in named},
      kind |-> IF SwiftWord(record, 2) # 0 /\ type % 2 = 1 THEN "indirect"
               ELSE IF named = {} THEN "unknown" ELSE (CHOOSE t \in named : TRUE).kind,
      retroactive |-> (SwiftWord(record, 4) \div 64) % 2 = 1]

\* parse_conformances
ParseConformances(pointers, sections, protocols, types) ==
  LET at == Pointed(pointers)
      unread == [protocol |-> {}, type |-> {}, kind |-> "unknown", retroactive |-> FALSE]
  IN [n \in DOMAIN at |->
        IF BytesAt(sections, at[n], 6) = {} THEN unread
        ELSE Conformance(CHOOSE r \in BytesAt(sections, at[n], 6) : TRUE, at[n], protocols, types)]

-----------------------------------------------------------------------------
(* Fields.                                                                 *)

\* The name a field record points to, among the names; its end may be theirs.
FieldName(fields, at, names) ==
  LET to == fields.start + at + SwiftWord(fields.data, at)
      tail == SubSeq(names.data, to - names.start + 1, Len(names.data))
  IN IF SwiftWord(fields.data, at) = 0 \/ to < names.start \/ to >= names.start + Len(names.data) THEN <<>>
     ELSE SelectSeq(<<IF TextEnds(tail) = {} THEN tail ELSE UpTo(tail, Min(TextEnds(tail)))>>, Printable)

\* parse_fieldmd: what does not look like a descriptor is skipped a word at a time, up
\* to one that is cut short; a descriptor without names is left out.
ParseFieldmd(fields, names) ==
  LET Parse[at \in 0 .. Len(fields.data)] ==
        IF at + 8 > Len(fields.data) THEN <<>>
        ELSE LET count == SwiftWord(fields.data, at + 6)
                 total == at + 8 + 6 * count
                 found == FlattenSeq([n \in 1 .. count |-> FieldName(fields, at + 8 + 6 * (n - 1) + 4, names)])
             IN CASE fields.data[at + 6] # 12 \/ count \notin 1 .. 128 -> Parse[at + 2]
                  [] fields.data[at + 6] = 12 /\ count \in 1 .. 128 /\ total > Len(fields.data) -> <<>>
                  [] OTHER -> (IF found = <<>> THEN <<>> ELSE <<[kind |-> fields.data[at + 5], names |-> found]>>) \o Parse[total]
  IN Parse[0]

-----------------------------------------------------------------------------
(* Symbols.  What follows the prefix of a Swift symbol is a sequence of    *)
(* characters.                                                             *)

Digit == [c \in {"0", "1", "2", "3", "4", "5", "6", "7", "8", "9"} |->
            CHOOSE d \in 0 .. 9 : <<"0", "1", "2", "3", "4", "5", "6", "7", "8", "9">>[d + 1] = c]

\* parse_identifier: the name of the length its digits say, and what follows it.
ParseIdentifier(text) ==
  LET digits == {n \in 0 .. Len(text) : \A k \in 1 .. n : text[k] \in DOMAIN Digit}
      length == FoldLeft(LAMBDA n, c : 10 * n + Digit[c], 0, SubSeq(text, 1, Max(digits)))
      rest == SubSeq(text, Max(digits) + 1, Len(text))
  IN IF Max(digits) = 0 \/ length = 0 \/ length > Len(rest) THEN {}
     ELSE {i \in {[name |-> SubSeq(rest, 1, length), rest |-> SubSeq(rest, length + 1, Len(rest))]} : "!" \notin Range(i.name)}

\* The modules and types that have a short form; it is followed by a name.
ShortModules ==
  (<<"s", "s">> :> "Swift") @@ (<<"s">> :> "Swift") @@ (<<"S", "a">> :> "Swift.Array") @@ (<<"S", "H">> :> "Swift.Hashable")
  @@ (<<"S", "Q">> :> "Swift.Equatable") @@ (<<"S", "R">> :> "Swift.RawRepresentable") @@ (<<"S", "E">> :> "Swift.Encodable")
  @@ (<<"S", "D">> :> "Swift.Decodable") @@ (<<"S", "C", "T">> :> "Swift.CaseIterable") @@ (<<"B", "o">> :> "Builtin.Bool")

ModuleOf(text) ==
  {[module |-> ShortModules[p], rest |-> SubSeq(text, Len(p) + 1, Len(text))] : p \in {q \in DOMAIN ShortModules : IsPrefix(q, text)}}
  \cup {[module |-> i.name, rest |-> i.rest] : i \in ParseIdentifier(text)}

HasPart(text, part) == \E n \in 0 .. Len(text) - Len(part) : SubSeq(text, n + 1, n + Len(part)) = part

\* What the end of a symbol says of it.
Accessor(text) ==
  CASE IsSuffix(<<"v", "g">>, text) -> "getter" [] IsSuffix(<<"v", "s">>, text) -> "setter"
    [] IsSuffix(<<"f", "C">>, text) -> "init" [] OTHER -> ""

\* demangle: a module and a name, or the member of a type.
Demangle(text) ==
  UNION {UNION {LET typed == first.rest # <<>> /\ first.rest[1] \in {"V", "C", "O"}
                    members == IF typed THEN ParseIdentifier(Tail(first.rest)) ELSE {}
                    path == IF members = {} THEN <<first.name>> ELSE <<first.name, (CHOOSE i \in members : TRUE).name>>
                    rest == IF members = {} THEN first.rest ELSE (CHOOSE i \in members : TRUE).rest
                IN {[module |-> m.module, path |-> path, accessor |-> Accessor(rest),
                     thunk |-> \E p \in {<<"F", "f", "A">>, <<"T", "W">>, <<"T", "J">>} : HasPart(rest, p)]} :
                  first \in ParseIdentifier(m.rest)} : m \in ModuleOf(text)}

-----------------------------------------------------------------------------
(* The command.                                                            *)

Resolution == <<"constg_swiftt", "const", "cstring", "reflstr", "typeref", "fieldmd">>
Present(image, name) == IF name \in DOMAIN image.sections THEN <<image.sections[name]>> ELSE <<>>

\* What is read of each list; protocols have two names a section can have.
SwiftLists(image) ==
  LET sections == FlattenSeq([n \in DOMAIN Resolution |-> Present(image, Resolution[n])])
      lists == SubSeq(Present(image, "protocols") \o Present(image, "protos"), 1, 1)
      protocols == FlattenSeq([n \in DOMAIN lists |-> ParseProtocols(lists[n], sections)])
      types == FlattenSeq([n \in DOMAIN Present(image, "types") |-> ParseTypes(image.sections.types, sections)])
  IN [protocols |-> protocols, types |-> types,
      conformances |-> FlattenSeq([n \in DOMAIN Present(image, "proto") |-> ParseConformances(image.sections.proto, sections, protocols, types)]),
      fields |-> FlattenSeq([n \in DOMAIN Present(image, "fieldmd") |->
                   IF "reflstr" \in DOMAIN image.sections THEN ParseFieldmd(image.sections.fieldmd, image.sections.reflstr) ELSE <<>>])]

\* handle_swift: a filter is a set of the names that have it in them, and {} if there
\* is none; text shows every record, whatever the filter.
HandleSwift(image, filter, json) ==
  LET Shown(name) == filter = {} \/ \E f \in filter : name \cap f # {}
      Filtered(lists) ==
        [lists EXCEPT !.protocols = SelectSeq(@, LAMBDA p : Shown(p.name)), !.types = SelectSeq(@, LAMBDA t : Shown(t.name)),
                      !.conformances = SelectSeq(@, LAMBDA c : Shown(c.protocol) \/ Shown(c.type))]
      Of(lists) == IF json THEN Filtered(lists) ELSE lists
      symbols == UNION {{[of |-> s, name |-> d] : d \in Demangle(s)} : s \in image.symbols}
  IN [symbols |-> {d \in symbols : Shown({d.name})}, lists |-> Of(SwiftLists(image))]
=============================================================================
