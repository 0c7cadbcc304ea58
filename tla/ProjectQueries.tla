--------------------------- MODULE ProjectQueries ---------------------------
(***************************************************************************)
(* What is found in an analysed project by the command line                *)
(* (damsel-cli/src/main.rs, handle_search, handle_xrefs, handle_functions, *)
(* handle_strings) and by the HTTP interface (damsel-cli/src/ui.rs,        *)
(* project_functions, project_xrefs, project_search, project_strings),     *)
(* which answer from the same facts.                                       *)
(*                                                                         *)
(* A store has functions (address, name, bound), named objects of the      *)
(* other kinds that can be searched and references from instructions to a   *)
(* target, a set with its address if it has one.  A name says how it       *)
(* matches what is looked for: 0 it is that, 1 it starts with it, 2 it     *)
(* contains it, 3 none of these; loose is whether it does when case does   *)
(* not count; order is its place among names.                              *)
(***************************************************************************)
EXTENDS Integers, SequencesExt

CONSTANTS HexBase, DecimalBase    \* digits of a number as it is written: 16, 10

ASSUME BaseAssumption == DecimalBase \in Nat \ {0, 1} /\ HexBase \in Nat /\ HexBase > DecimalBase

\* The first so many of a sequence; all of it without a limit.
Take(seq, limit) == IF limit = {} THEN seq ELSE SubSeq(seq, 1, Min({Len(seq)} \cup limit))
Truncated(seq, limit) == \E l \in limit : Len(seq) > l

\* Functions in the order of their addresses (function_summaries).
FunctionsInOrder(store) == SetToSortSeq(store.functions, LAMBDA f, g : f.address < g.address)

-----------------------------------------------------------------------------
(* Search.                                                                 *)

SearchKinds == <<"function", "symbol", "import", "section", "string">>
Priority(what) == CHOOSE n \in DOMAIN SearchKinds : SearchKinds[n] = what

\* What a search goes through; the values of strings are in the image, which may
\* be gone.
Searchable(store) ==
  UNION {{[kind |-> "function", name |-> n, at |-> f.address] : n \in f.name} : f \in store.functions}
  \cup {o \in store.objects : o.kind = "string" => store.readable}

\* The order of the rows of handle_search.
BetterRow(r, s) ==
  \/ r.name.match < s.name.match
  \/ r.name.match = s.name.match /\ Priority(r.kind) < Priority(s.kind)
  \/ r.name.match = s.name.match /\ r.kind = s.kind /\ r.name.order < s.name.order
  \/ r.kind = s.kind /\ r.name = s.name /\ r.at < s.at

\* handle_search
HandleSearch(store, only, limit) ==
  LET found == {o \in Searchable(store) : o.name.match < 3 /\ (only = {} \/ o.kind \in only)}
      rows == SetToSortSeq(found, BetterRow)
  IN [count |-> Len(rows), truncated |-> Truncated(rows, limit), results |-> Take(rows, limit)]

\* project_search
ProjectSearch(store, limit) ==
  LET found == SelectSeq(FunctionsInOrder(store), LAMBDA f : \E n \in f.name : n.loose)
  IN Take(found, IF limit = {} THEN {50} ELSE limit)

-----------------------------------------------------------------------------
(* Functions.                                                              *)

NamedLike(store, filter) == SelectSeq(FunctionsInOrder(store), LAMBDA f : filter => \E n \in f.name : n.match < 3)

\* handle_functions: the bound stored last at an address goes with its function.
Functions(store, filter, limit) ==
  LET found == NamedLike(store, filter)
      Bound(f) == LET at == SelectSeq(store.bounds, LAMBDA b : b.address = f.address) IN IF at = <<>> THEN {} ELSE {Last(at).payload}
      shown == Take(found, limit)
  IN [count |-> Len(found), truncated |-> Truncated(found, limit),
      functions |-> [n \in DOMAIN shown |-> [address |-> shown[n].address, name |-> shown[n].name, bound |-> Bound(shown[n])]]]

\* project_functions
ProjectFunctions(store, filter, limit) == Take(NamedLike(store, filter), IF limit = {} THEN {100} ELSE limit)

-----------------------------------------------------------------------------
(* References.                                                             *)

NumberOf(digits, base) == FoldLeft(LAMBDA n, d : n * base + d, 0, digits)

\* The named function nearest at or below an address.
FunctionBelow(store, at) ==
  LET below == {f \in store.functions : f.name # {} /\ f.address <= at}
  IN UNION {f.name : f \in {g \in below : \A h \in below : h.address <= g.address}}

\* handle_xrefs
Xrefs(store, to, from, only, limit) ==
  LET found == {x \in Range(store.xrefs) : /\ to = {} \/ x.target \cap to # {}
                                           /\ from = {} \/ x.from \in from
                                           /\ only = {} \/ x.ref \in only}
      rows == SetToSortSeq(found, LAMBDA x, y : x.from < y.from \/ (x.from = y.from /\ x.order < y.order))
      shown == Take(rows, limit)
  IN [count |-> Len(rows), truncated |-> Truncated(rows, limit),
      xrefs |-> [n \in DOMAIN shown |-> [xref |-> shown[n], function |-> FunctionBelow(store, shown[n].from)]]]

\* The address a query has after its 0x: in decimal when it can be.
QueriedAddress(digits) ==
  NumberOf(digits, IF \A n \in DOMAIN digits : digits[n] < DecimalBase THEN DecimalBase ELSE HexBase)

\* project_xrefs
ProjectXrefs(store, digits) == SelectSeq(store.xrefs, LAMBDA x : QueriedAddress(digits) \in x.target)

-----------------------------------------------------------------------------
(* Strings.  A string fact has an address, an encoding and a length; the   *)
(* class facts of an address are listed in the order they are read; the    *)
(* text at an address, with its characters and what it is part of, is in   *)
(* the target, which may be gone.                                          *)

ClassOf(store, at) ==
  LET classes == SelectSeq(store.classes, LAMBDA c : c.at = at)
  IN IF classes = <<>> THEN {} ELSE {Last(classes).class}

\* The text at an address: a target that is an ELF file is read as one, and as nothing else.
StringValue(store, at) == IF store.elf \/ store.image THEN {store.texts[a] : a \in {at} \cap DOMAIN store.texts} ELSE {}

Row(store, s) == [at |-> s.at, encoding |-> s.encoding, len |-> s.len, class |-> ClassOf(store, s.at), value |-> StringValue(store, s.at)]

\* The order of the rows: no class goes before any.
RowBefore(store, m, n) ==
  LET Class(k) == Max(ClassOf(store, store.strings[k].at) \cup {0})
      Place(k) == <<store.strings[k].at, store.strings[k].encoding, store.strings[k].len, Class(k), k>>
  IN \E i \in 1 .. 5 : Place(m)[i] < Place(n)[i] /\ \A j \in 1 .. i - 1 : Place(m)[j] = Place(n)[j]

\* handle_strings: a string is as long as its text, or else as its fact says; one without
\* its text has no name a filter could be in.
HandleStrings(store, args) ==
  LET order == SetToSortSeq(DOMAIN store.strings, LAMBDA m, n : RowBefore(store, m, n))
      Wanted(r) == /\ args.class = {} \/ r.class = args.class
                   /\ \A min \in args.min : IF r.value = {} THEN r.len >= min ELSE \A v \in r.value : v.chars >= min
                   /\ args.name = {} \/ \E v \in r.value : args.name \subseteq v.parts
      rows == SelectSeq([n \in DOMAIN order |-> Row(store, store.strings[order[n]])], Wanted)
  IN [count |-> Len(rows), truncated |-> Truncated(rows, args.limit), readable |-> store.image /\ ~ store.elf,
      strings |-> Take(rows, args.limit)]

\* project_strings: the facts as they are listed.
ProjectStrings(store, limit) == Take(store.strings, IF limit = {} THEN {100} ELSE limit)
=============================================================================
