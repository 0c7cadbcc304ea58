-------------------------- MODULE FunctionRecovery --------------------------
(***************************************************************************)
(* The facts an analysis derives from an image: seeds, cross references    *)
(* and function bounds (damsel-macho/src/analysis ingest.rs, xrefs.rs and  *)
(* recovery.rs; damsel-project/src/functions.rs).                          *)
(*                                                                         *)
(* An image is one of CodeWindow whose sections also say whether they are  *)
(* executable and hold stubs, whose symbols may be text, and which has the *)
(* other sources of seeds.  An instruction is an operation and the set of  *)
(* its references.  Facts are a set, as the store keeps one of each; a     *)
(* name is its place in the order of names, 0 for none.  The details of    *)
(* seeds and the notes of a pass are left out.                             *)
(***************************************************************************)
EXTENDS CodeWindow

CONSTANT MaxChunk    \* MAX_CHUNK_BYTES

ASSUME MaxChunkAssumption == MaxChunk \in Nat \ {0}

Seed(at, tag, name) == [kind |-> "seed", at |-> at, tag |-> tag, name |-> name]

\* ingest_image: the functions the image itself names.
Ingest(image) ==
  {Seed(s.address, "symbol_table", s.rank) :
     s \in {t \in Range(image.symbols) : t.defined /\ t.text /\ t.address # 0}}
  \cup {Seed(a, "function_starts", 0) : a \in image.functionStarts}
  \cup {Seed(a, "objc_method", 0) : a \in image.methods \ {0}}
  \cup {Seed(a, "entry_point", 0) : a \in image.entry \ {0}}

\* function_summaries: one for each address with a seed; the least name, or the
\* one a user gave it.
Summaries(facts) ==
  LET seeds == {f \in facts : f.kind = "seed"}
      names(a) == {f.name : f \in {s \in seeds : s.at = a /\ s.tag = "symbol_table"}}
      given(a) == {f.name : f \in {r \in facts : r.kind = "rename" /\ r.at = a}}
  IN {[address |-> a, seeds |-> {f.tag : f \in {s \in seeds : s.at = a}},
       name |-> IF given(a) # {} THEN Max(given(a)) ELSE IF names(a) # {} THEN Min(names(a)) ELSE 0] :
        a \in {f.at : f \in seeds}}

Ascending(S) == SetToSortSeq(S, <)

-----------------------------------------------------------------------------
(* Chunks: the windows of several functions, decoded at once.              *)

\* The end of the executable section an address is in, if any.
SectionEnd(image, address) ==
  {EndOf(s) : s \in FirstWith(image.sections, LAMBDA s : s.executable /\ s.size > 0 /\ Covers(s, address))}

\* The end of the window of the n-th address: the next one, or the section's end.
CodeEnd(work, n, start, hardEnd) ==
  IF n + 1 \in DOMAIN work /\ start < work[n + 1] /\ work[n + 1] <= hardEnd THEN work[n + 1] ELSE hardEnd

\* The first address after the n-th that its chunk does not take.
ChunkNext(work, n, hardEnd) ==
  LET out == {k \in n + 1 .. Len(work) :
                work[k] <= work[n] \/ work[k] > hardEnd \/ work[k] - work[n] > MaxChunk}
  IN IF out = {} THEN Len(work) + 1 ELSE Min(out)

\* The chunks of an ascending sequence of addresses; those in no executable
\* section have none.
Chunks(image, work) ==
  LET plan[n \in 1 .. Len(work) + 1] ==
        IF n > Len(work) THEN <<>>
        ELSE LET ends == SectionEnd(image, work[n]) IN
          IF ends = {} THEN plan[n + 1]
          ELSE LET hardEnd == CHOOSE end \in ends : TRUE
                   next == ChunkNext(work, n, hardEnd)
               IN <<[start |-> work[n], end |-> CodeEnd(work, next - 1, work[n], hardEnd),
                     hardEnd |-> hardEnd, first |-> n, next |-> next]>> \o plan[next]
  IN plan[1]

\* The addresses of the instructions of a window, where it can be decoded.
Code(image, from, to) == {d.instructions : d \in Disassemble(image, RangeRequest(from, to))}

-----------------------------------------------------------------------------
(* Cross references.                                                       *)

\* classify_reference: the kind of the fact and of the object it names.
Classified ==
  [Call |-> <<"call", "function">>, Branch |-> <<"branch", "function">>,
   IndirectCall |-> <<"indirect_call", "register">>, IndirectBranch |-> <<"indirect_branch", "register">>,
   Page |-> <<"data", "data">>, Data |-> <<"data", "data">>,
   Import |-> <<"import", "import">>, ImportBinding |-> <<"import_binding", "import">>,
   NamedStub |-> <<"stub", "import">>, Stub |-> <<"stub", "stub">>,
   StubHelper |-> <<"stub_helper", "stub">>, RelocationEvidence |-> <<"relocation_evidence", "data">>]

\* harvest_xrefs: none where a chunk cannot be decoded, which ends the pass.
DecodedChunks(image, chunks) == [n \in DOMAIN chunks |-> Code(image, chunks[n].start, chunks[n].end)]
XrefsIn(image, decoded) ==
  LET found(code) == UNION {{[kind |-> "xref", at |-> code[k], ref |-> Classified[r.ref][1],
                              object |-> Classified[r.ref][2], to |-> r.to] :
                               r \in image.code[code[k]].references} : k \in DOMAIN code}
  IN IF {} \in Range(decoded) THEN {}
     ELSE {UNION {UNION {found(code) : code \in decoded[n]} : n \in DOMAIN decoded}}
HarvestXrefs(image, functions) == XrefsIn(image, DecodedChunks(image, Chunks(image, Ascending(functions))))

-----------------------------------------------------------------------------
(* Bounds.                                                                 *)

Returns == {"ret", "retaa", "retab", "braa", "brab"}
Traps == {"brk", "hlt", "udf"}

\* Mutant: the first function of a chunk ends them all.
RecoverBoundFromStart(image, code, start, windowEnd, hardEnd) ==
  LET ends == {n \in DOMAIN code : code[n] < windowEnd /\ image.code[code[n]].op \in Returns \cup Traps}
      op == image.code[code[Min(ends)]].op
  IN IF ends # {}
     THEN [from |-> start, to |-> code[Min(ends)] + WordSize, stop |-> IF op \in Returns THEN "return" ELSE "trap"]
     ELSE [from |-> start, to |-> windowEnd, stop |-> IF windowEnd = hardEnd THEN "section_end" ELSE "seed_boundary"]

\* recover_bound: up to the first return or trap of the window.
RecoverBound(image, code, start, windowEnd, hardEnd) ==
  LET ends == {n \in DOMAIN code : /\ start <= code[n] /\ code[n] < windowEnd
                                   /\ image.code[code[n]].op \in Returns \cup Traps}
      op == image.code[code[Min(ends)]].op
  IN IF ends # {}
     THEN [from |-> start, to |-> code[Min(ends)] + WordSize, stop |-> IF op \in Returns THEN "return" ELSE "trap"]
     ELSE [from |-> start, to |-> windowEnd, stop |-> IF windowEnd = hardEnd THEN "section_end" ELSE "seed_boundary"]

InStub(image, address) ==
  \E s \in Range(image.sections) : s.executable /\ s.size > 0 /\ s.stub /\ Covers(s, address)

\* Rank 6: the call targets that are no seed of another rank.
CallTargets(image, facts) ==
  {a \in {f.to : f \in {x \in facts : x.kind = "xref" /\ x.ref = "call"}} :
     SectionEnd(image, a) # {} /\ ~ InStub(image, a)}

\* The bound of the n-th address of a chunk, from the chunk's code when that
\* starts where the chunk does, and from its own window otherwise.
WholeCode(image, chunk) == {c \in Code(image, chunk.start, chunk.end) : c # <<>> /\ c[1] <= chunk.start}
BoundBefore(image, start, end, hardEnd, whole) ==
  {RecoverBound(image, c, start, end, hardEnd) :
     c \in IF whole # {} THEN whole ELSE Code(image, start, end) \ {<<>>}}
BoundIn(image, work, chunk, n) ==
  BoundBefore(image, work[n], CodeEnd(work, n, work[n], chunk.hardEnd), chunk.hardEnd, WholeCode(image, chunk))

\* The bounds, the rank 6 seeds, and a problem for each of two functions that
\* overlap.
RecoveredFacts(found, bounds) ==
  {[kind |-> "function_bound", at |-> b.from, to |-> b.to, stop |-> b.stop] : b \in bounds}
  \cup {Seed(b.from, "call_target", 0) : b \in {d \in bounds : d.from \in found}}
  \cup {[kind |-> "function_problem", at |-> p[1].from, next |-> p[2].from] :
          p \in {q \in bounds \X bounds : q[1].from < q[2].from /\ q[2].from < q[1].to
                                          /\ \A b \in bounds : b.from <= q[1].from \/ q[2].from <= b.from}}

\* recover_functions
RecoverFunctions(image, functions, facts) ==
  LET found == CallTargets(image, facts) \ functions
      work == Ascending(functions \cup found)
  IN RecoveredFacts(found, UNION {UNION {BoundIn(image, work, c, n) : n \in c.first .. c.next - 1} :
                                    c \in Range(Chunks(image, work))})

\* handle_analyze: the passes in their order; none where one fails.
Analyze(image) ==
  LET seeds == Ingest(image)
      functions == {s.address : s \in Summaries(seeds)}
  IN {seeds \cup xrefs \cup RecoverFunctions(image, functions, xrefs) : xrefs \in HarvestXrefs(image, functions)}
=============================================================================
