--------------------------- MODULE ProjectCommands ---------------------------
(***************************************************************************)
(* The commands that work on an analysed project (damsel-cli/src/main.rs,  *)
(* the handle_ functions; taint.rs; damsel-recon-catalog/src/types.rs,     *)
(* refine.rs and matching.rs): what each answers, or refuses, and what it  *)
(* writes to the store.                                                    *)
(*                                                                         *)
(* A project has the addresses of its functions with the name found for    *)
(* each (names), the renames stored since, the bounds of functions, the    *)
(* facts the call graph is made from, the image it was analysed from, a    *)
(* set with one image while that can be read (symbols: name to address;    *)
(* code: address to instruction), and whether its target is a file of its  *)
(* own and whether that is an ELF file.  Instructions of one shape have    *)
(* the same number up to Wording, the part a shape leaves out.  A name is a *)
(* number: below SubBase those of the program, then those the tools give   *)
(* functions without one.                                                  *)
(* An answer has `error`, empty where the command succeeds, and `writes`,  *)
(* what it stored, in order.                                               *)
(***************************************************************************)
EXTENDS CallGraph, RegisterFlow, FunctionMatching, ProjectDiff, DisasmCommand

CONSTANTS Wording,
          SubBase, FuncBase, FnBase   \* numbers of names: sub_, func_ and fn_ ones

ASSUME WordingAssumption ==
  /\ Wording \in Nat \ {0} /\ {SubBase, FuncBase, FnBase} \subseteq Nat \ {0}
  /\ SubBase < FuncBase /\ FuncBase < FnBase

Refused(error) == [error |-> error, writes |-> <<>>]
Answered(answer) == [error |-> "", writes |-> <<>>, answer |-> answer]

-----------------------------------------------------------------------------
(* Functions by name.                                                      *)

\* function_summaries, as the commands see them: renames hide names.
FunctionSummaries(p) ==
  {[address |-> a, name |-> IF a \in DOMAIN p.renames THEN {p.renames[a]} ELSE p.names[a]] : a \in DOMAIN p.names}

CalledBy(p, name) == {f \in FunctionSummaries(p) : name \in f.name}

\* resolve_query_target; none where it is an error.
QueryTarget(p, t) == IF t.k = "Address" THEN {t.address} ELSE OnlyOne(CalledBy(p, t.name))

\* resolve_function_object
FunctionObject(p, t) == IF t.k = "Address" THEN {t.address} ELSE OnlyOne(CalledBy(p, t.name))

\* The first function with a name, if any.
FirstCalled(p, name) ==
  {f.address : f \in {g \in CalledBy(p, name) : \A h \in CalledBy(p, name) : g.address <= h.address}}

\* Where the image has code for a target: of a name, that of its symbol.
Selected(image, t) ==
  (IF t.k = "Address" THEN {t.address} ELSE {image.symbols[n] : n \in {t.name} \cap DOMAIN image.symbols})
  \cap DOMAIN image.code

-----------------------------------------------------------------------------
(* Running and watching a function.                                        *)

\* The registers to start from: the last value given for each.
SeedRegisters(seeds) == FoldLeft(LAMBDA f, s : (s.register :> s.value) @@ f, <<>>, seeds)
SeedsFit(seeds) == \A n \in DOMAIN seeds : seeds[n].wellFormed

\* What a command that runs a function is refused for.
RunRefusal(p, t, seeds, unsupported) ==
  CASE p.elf -> unsupported
    [] ~ p.elf /\ p.image = {} -> "image"
    [] ~ p.elf /\ p.image # {} /\ Selected(The(p.image), t) = {} -> "function_not_found"
    [] OTHER -> IF SeedsFit(seeds) THEN "" ELSE "invalid_args"

\* handle_trace: one view of the record of a run without the bytes of the image.
HandleTrace(p, t, seeds, view) ==
  LET refusal == RunRefusal(p, t, seeds, "trace_unsupported")
  IN IF refusal # "" THEN Refused(refusal)
     ELSE Answered([of |-> The(Selected(The(p.image), t)), from |-> SeedRegisters(seeds),
                    view |-> CASE view.writes # {} -> "writes_to"
                               [] view.writes = {} /\ view.register # {} -> "register_at"
                               [] OTHER -> "timeline"])

\* handle_emulate: decompiled first and thrown away.
HandleEmulate(p, t, seeds) ==
  LET refusal == RunRefusal(p, t, seeds, "emulate_unsupported")
  IN IF refusal # "" THEN Refused(refusal)
     ELSE Answered([of |-> The(Selected(The(p.image), t)), from |-> SeedRegisters(seeds)])

\* handle_frida, up to running the script.
HandleFrida(p) == IF p.file THEN Answered("calls") ELSE Refused("frida_unsupported")

\* The facts a stop of the debugger leaves.
Observations(stop) == [n \in DOMAIN stop.registers |-> [at |-> stop.pc, register |-> stop.registers[n]]]

\* handle_debug: the function is looked up with renames, and the breakpoint set on
\* the name as it was given; `stops` are what the debugger saw there.
HandleDebug(p, name, stops, persist) ==
  CASE FirstCalled(p, name) = {} -> Refused("function_not_found")
    [] FirstCalled(p, name) # {} /\ ~ p.file -> Refused("debug_unsupported")
    [] OTHER -> [error |-> "", answer |-> [address |-> The(FirstCalled(p, name)), breakpoint |-> name],
                 writes |-> IF persist THEN FlattenSeq([n \in DOMAIN stops |-> Observations(stops[n])]) ELSE <<>>]

-----------------------------------------------------------------------------
(* Decompiling.                                                            *)

\* steering_facts: at the site given, or else at the function.
SteeringFacts(function, assertions) ==
  [n \in DOMAIN assertions |->
     [at |-> IF assertions[n].site = {} THEN function ELSE The(assertions[n].site),
      function |-> function, register |-> assertions[n].register, value |-> assertions[n].value]]

\* The function assertions are stored for; 0 where there is none of the name.
SteeredFunction(p, t) ==
  IF t.k = "Address" THEN t.address
  ELSE IF FirstCalled(p, t.name) = {} THEN 0 ELSE The(FirstCalled(p, t.name))

\* handle_decompile_elf: the bytes within the first bound of the function.
DecompileElf(p, t) ==
  LET at == IF t.k = "Address" THEN {t.address} \cap DOMAIN p.names ELSE FirstCalled(p, t.name)
      bound == {b \in p.bounds : b.at \in at}
  IN CASE ~ p.beside -> Refused("project_not_found")
       [] p.beside /\ at = {} -> Refused("function_not_found")
       [] OTHER -> Answered([of |-> The(at), to |-> IF bound = {} THEN The(at) ELSE The(bound).to, typed |-> FALSE])

\* handle_decompile: every assertion is read before one is stored, and all are
\* stored before it is known whether there is code to decompile.
HandleDecompile(p, t, assertions, hints) ==
  IF p.elf THEN DecompileElf(p, t)
  ELSE IF p.image = {} THEN Refused("image")
  ELSE IF \E n \in DOMAIN assertions : ~ assertions[n].wellFormed THEN Refused("invalid_args")
  ELSE LET writes == SteeringFacts(SteeredFunction(p, t), assertions) at == Selected(The(p.image), t)
       IN IF at = {} THEN [Refused("function_not_found") EXCEPT !.writes = writes]
          ELSE [Answered([of |-> The(at), typed |-> hints # {}]) EXCEPT !.writes = writes]

\* handle_decompile_all: the named functions that decode, by the symbol of the
\* name; without an image nothing.
DecompileAll(p) ==
  {[function |-> f.address, name |-> The(f.name), of |-> The(Selected(image, [k |-> "Symbol", name |-> The(f.name)]))] :
     f \in {g \in FunctionSummaries(p) : \E image \in p.image, n \in g.name : Selected(image, [k |-> "Symbol", name |-> n]) # {}},
     image \in p.image}

-----------------------------------------------------------------------------
(* Types.  A tag is a struct with fields or a register bound to a struct,  *)
(* and `order` its place among tags; tags are listed by what they are      *)
(* about, then by that.                                                    *)

Latest(tags) == {t \in tags : \A u \in tags : u.about = t.about => u.order <= t.order}

\* TypeTable::from_store
TypeTable(tags) ==
  LET last == Latest(tags)
  IN [structs |-> {t \in last : t.about[1] = "struct"}, bindings |-> {t \in last : t.about[1] = "bind"}]

\* project_type_hints
TypeHints(tags) ==
  LET table == TypeTable(tags)
  IN UNION {{[register |-> b.about[2], fields |-> s.fields] : s \in {t \in table.structs : t.about[2] = b.struct}} : b \in table.bindings}

StructTag(name, order, fields) == [about |-> <<"struct", name>>, order |-> order, fields |-> fields]
BindTag(register, struct) == [about |-> <<"bind", register>>, order |-> struct, struct |-> struct]

Declared(tags, struct) == \E t \in TypeTable(tags).structs : t.about[2] = struct

\* handle_type --bind: each is stored as it is read, up to one that is wrong.
Bind(tags, binds) ==
  FoldLeft(LAMBDA s, b : IF s.error # "" THEN s
                         ELSE IF ~ b.wellFormed THEN [s EXCEPT !.error = "invalid_args"]
                         ELSE IF ~ Declared(s.tags, b.struct) THEN [s EXCEPT !.error = "type_error"]
                         ELSE [s EXCEPT !.tags = @ \cup {BindTag(b.register, b.struct)}],
           [error |-> "", tags |-> tags], binds)

\* dwarf_source_for: the target itself, or the bundle beside it.
DwarfSource(p) == IF ~ p.file THEN {} ELSE IF p.dwarf.own # {} THEN p.dwarf.own ELSE p.dwarf.bundle

\* handle_type: importing and listing go before binding, and binding before a
\* declaration, which needs fields, all of them read before it is stored.
HandleType(p, tags, args) ==
  LET bound == Bind(tags, args.binds)
  IN CASE args.import ->
            (IF DwarfSource(p) = {} THEN [error |-> "dwarf_unavailable", tags |-> tags]
             ELSE [error |-> "", tags |-> tags \cup {StructTag(s.name, s.order, s.fields) : s \in DwarfSource(p)}])
       [] ~ args.import /\ args.list -> [error |-> "", tags |-> tags]
       [] ~ args.import /\ ~ args.list /\ bound.error # "" -> bound
       [] OTHER ->
            (IF args.struct = {} THEN [bound EXCEPT !.error = IF args.binds = <<>> THEN "invalid_args" ELSE ""]
             ELSE IF args.fields = {} \/ ~ args.wellFormed THEN [bound EXCEPT !.error = "invalid_args"]
             ELSE [bound EXCEPT !.tags = @ \cup {StructTag(s.name, s.order, args.fields) : s \in args.struct}])

-----------------------------------------------------------------------------
(* Refining.  A reference has the kind and the object id of its target; an *)
(* id is what stands between its colons.                                   *)

\* The function whose bound an instruction is in.
Holder(p, at) == OwnerOf({b \in p.bounds : b.at < b.to}, at)

\* The imports whose object id ends with a colon and the target: the target is an
\* id too, so there is none, and no import is ever counted.
ImportsCalled(p, target) == {n \in p.imports : IsSuffix(target, Tail(<<"import", n>>))}

\* collect_contexts, of one function.
Context(p, f) ==
  LET held == {x \in p.xrefs : f.address \in Holder(p, x.at)}
      called == {x \in held : x.ref \in {"call", "import"}}
  IN [address |-> f.address, name |-> f.name,
      imports |-> UNION {ImportsCalled(p, x.to) : x \in called},
      strings |-> Cardinality({x \in held : x.ref = "data"})]

Contexts(p) == {Context(p, f) : f \in FunctionSummaries(p)}

SubName(name) == SubBase <= name /\ name < FuncBase
FuncName(name) == FuncBase <= name /\ name < FnBase
FnName(address, hint) == FnBase + 16 * address + hint

\* HeuristicRefiner::propose: from the strings it refers to or else the import it
\* calls, for a function without a name of its own.
Propose(contexts) ==
  {[address |-> c.address, name |-> FnName(c.address, c.strings)] :
     c \in {d \in contexts : (d.strings > 0 \/ d.imports # {}) /\ \A n \in d.name : SubName(n)}}

Rename(p, address, name) == [p EXCEPT !.renames = (address :> name) @@ @]

\* apply_as
ApplyAs(p, proposals) ==
  FoldLeft(LAMBDA q, r : Rename(q, r.address, r.name), p, SetToSortSeq(proposals, LAMBDA r, s : r.address < s.address))

\* handle_refine; the project is changed only with --apply.
HandleRefine(p, apply) ==
  IF p.elf THEN [error |-> "refine_unsupported", project |-> p]
  ELSE LET proposals == Propose(Contexts(p))
       IN [error |-> "", proposals |-> proposals, project |-> IF apply THEN ApplyAs(p, proposals) ELSE p]

-----------------------------------------------------------------------------
(* Questions about calls.                                                  *)

CallFacts(p) ==
  {[kind |-> "function_bound", at |-> b.at, to |-> b.to, ref |-> ""] : b \in p.bounds}
  \cup {[kind |-> "xref", at |-> x.at, to |-> x.to[2], ref |-> "call"] : x \in {y \in p.xrefs : y.ref = "call"}}

\* What the image has for the bound of a function.
WindowCode(image, b) ==
  LET words == {a \in b.at .. b.to - 1 : \A c \in b.at .. a : c \in DOMAIN image.code}
  IN [n \in 1 .. Cardinality(words) |-> image.code[b.at + n - 1]]

\* lifted_functions: those with a bound within which something decodes.
LiftedFunctions(p, image) ==
  LET lifted == {b \in p.bounds : b.at \in DOMAIN p.names /\ b.at < b.to /\ WindowCode(image, b) # <<>>}
  IN [a \in {b.at : b \in lifted} |-> WindowCode(image, The({b \in lifted : b.at = a}))]

\* engine_for: what each lifted function passes on to those it calls.
EngineFor(p, image) == [a \in DOMAIN LiftedFunctions(p, image) |-> p.passes[a]]

\* reachable_from
TaintReaches(engine, source) == {a \in DOMAIN engine \ {source} : Path(engine, source, a) # {}}

\* handle_taint_query; without a sink the source needs a summary.
HandleTaintQuery(p, source, sink) ==
  IF p.image = {} THEN Refused("taint_error")
  ELSE LET engine == EngineFor(p, The(p.image)) from == QueryTarget(p, source)
           to == UNION {QueryTarget(p, t) : t \in sink}
       IN CASE from = {} \/ (sink # {} /\ to = {}) -> Refused("function_not_found")
            [] from # {} /\ to # {} -> Answered([path |-> Path(engine, The(from), The(to))])
            [] OTHER -> IF The(from) \in DOMAIN engine THEN Answered([reachable |-> TaintReaches(engine, The(from))])
                        ELSE Refused("function_not_found")

\* handle_query: taint goes before callers, and callers before paths.
HandleQuery(p, q) ==
  LET graph == FromFacts(CallFacts(p))
      from == UNION {QueryTarget(p, t) : t \in q.from}
      to == UNION {QueryTarget(p, t) : t \in q.to}
      callee == UNION {QueryTarget(p, t) : t \in q.callers}
  IN CASE q.taint # {} -> HandleTaintQuery(p, The(q.taint), q.sink)
       [] q.taint = {} /\ q.callers # {} ->
            (IF callee = {} THEN Refused("function_not_found") ELSE Answered([callers |-> Callers(graph, The(callee))]))
       [] q.taint = {} /\ q.callers = {} /\ q.from = {} -> Refused("invalid_args")
       [] OTHER -> IF from = {} \/ (q.to # {} /\ to = {}) THEN Refused("function_not_found")
                   ELSE IF q.to = {} THEN Answered([reachable |-> ReachableFrom(graph, The(from))])
                   ELSE Answered([path |-> CallPath(graph, The(from), The(to))])

-----------------------------------------------------------------------------
(* Summaries.  The strings of a project are the addresses it has one at,   *)
(* and its problems what is stored of a function.                          *)

\* The bound of a function: the first of those it has.
BoundOf(p, f) == {b \in p.bounds : b.at = f /\ \A c \in p.bounds : c.at = f => b.to <= c.to}

WordOrder == <<"branch", "call", "data", "function", "import", "indirect_call", "register">>
WordPlace(w) == CHOOSE n \in DOMAIN WordOrder : WordOrder[n] = w
CallBefore(x, y) ==
  LET Place(c) == <<c.at, WordPlace(c.ref), WordPlace(c.to[1]), c.to[2]>>
  IN \E i \in 1 .. 4 : Place(x)[i] < Place(y)[i] /\ \A j \in 1 .. i - 1 : Place(x)[j] = Place(y)[j]

\* The references of a function in order; of those to one target from one
\* instruction that follow each other the first.
CallSites(held) ==
  LET order == SetToSortSeq(held, CallBefore)
      Site(x) == [from |-> x.at, ref |-> x.ref, to |-> x.to, unresolved |-> x.ref = "indirect_call" \/ x.to[1] = "register"]
  IN FoldLeft(LAMBDA sites, x : IF sites # <<>> /\ Last(sites).from = x.at /\ Last(sites).to = x.to THEN sites
                                ELSE Append(sites, Site(x)), <<>>, order)

\* summarize_function: without a bound a function has no references.
SummarizeFunction(p, f) ==
  LET bound == BoundOf(p, f)
      held == {x \in p.xrefs : \E b \in bound : b.at <= x.at /\ x.at < b.to}
  IN [function |-> f, name |-> (CHOOSE s \in FunctionSummaries(p) : s.address = f).name, bound |-> bound, calls |-> CallSites(held),
      imports |-> {x.to[2] : x \in {y \in held : y.ref = "import" /\ y.to[1] = "import"}},
      strings |-> {x.to[2] : x \in {y \in held : y.to[1] = "data"}} \cap p.strings,
      problems |-> {q.what : q \in {r \in p.problems : r.at = f}}]

\* handle_summary, summarize_named and project_decompile: of a function of the project.
HandleSummary(p, t) ==
  LET at == QueryTarget(p, t) \cap DOMAIN p.names
  IN IF at = {} THEN Refused("function_not_found") ELSE Answered(SummarizeFunction(p, The(at)))

-----------------------------------------------------------------------------
(* Many targets.  A line names a file: the stem its project is named for,  *)
(* whether its project can be made and the file loaded, how many facts it  *)
(* gives, and how many of them are stored, fewer when storing fails.       *)

Stored(projects, line, facts) == [s \in DOMAIN projects \cup {line.stem} |-> IF s = line.stem THEN facts ELSE projects[s]]

\* run_batch_target: the project a file of this name had is removed first.
RunBatchTarget(projects, line) ==
  LET removed == [s \in DOMAIN projects \ {line.stem} |-> projects[s]]
  IN CASE ~ line.creates -> [ok |-> FALSE, projects |-> removed]
       [] line.creates /\ ~ line.loads -> [ok |-> FALSE, projects |-> Stored(removed, line, 0)]
       [] OTHER -> [ok |-> line.stored = line.facts, projects |-> Stored(removed, line, line.stored)]

\* handle_batch: lines that are not blank, in order, up to one that fails when asked.
HandleBatch(projects, lines, failFast) ==
  LET named == SelectSeq(lines, LAMBDA l : ~ l.blank)
      end == FoldLeft(LAMBDA s, l : IF s.error # "" THEN s
                                    ELSE LET run == RunBatchTarget(s.projects, l)
                                         IN [projects |-> run.projects, results |-> Append(s.results, [stem |-> l.stem, ok |-> run.ok]),
                                             error |-> IF failFast /\ ~ run.ok THEN "batch_failed" ELSE ""],
                      [projects |-> projects, results |-> <<>>, error |-> ""], named)
  IN end @@ [exit |-> IF \E n \in DOMAIN end.results : ~ end.results[n].ok THEN 1 ELSE 0]

-----------------------------------------------------------------------------
(* Two projects.                                                           *)

\* shape_map: a number for the shape of the code of each function that has some.
ShapeMap(p, image) ==
  LET code == LiftedFunctions(p, image)
  IN [a \in DOMAIN code |-> FoldLeft(LAMBDA n, i : n * 8 + 1 + i \div Wording, 0, code[a])]

\* The rows of a matching, in the order of their addresses.
MatchRows(p, image) ==
  LET code == LiftedFunctions(p, image) at == SetToSortSeq(DOMAIN code, <)
  IN [n \in DOMAIN at |-> [address |-> at[n], tokens |-> [m \in DOMAIN code[at[n]] |-> code[at[n]][m] \div Wording]]]

\* transfer_renames: what a matched function was renamed to.
TransferRenames(pairs, left, right) ==
  FoldLeft(LAMBDA q, m : IF m.left \in DOMAIN left.renames THEN Rename(q, m.right, left.renames[m.left]) ELSE q, right, pairs)

\* handle_match: both images are needed; only pairs of one shape carry renames.
Matched(left, right, transfer, pairs) ==
  LET exact == SetToSortSeq(pairs.exact, LAMBDA m, n : m.left < n.left)
  IN [error |-> "", pairs |-> pairs, right |-> IF transfer THEN TransferRenames(exact, left, right) ELSE right]
HandleMatch(left, right, transfer, threshold) ==
  IF left.image = {} \/ right.image = {} THEN [error |-> "image", right |-> right]
  ELSE Matched(left, right, transfer,
               MatchTiered(MatchRows(left, The(left.image)), MatchRows(right, The(right.image)), threshold))

\* A project as a side of a difference; shapes are known when both images are.
Side(p, shapes) ==
  {[address |-> f.address, name |-> IF f.name = {} THEN 0 ELSE The(f.name),
    shape |-> IF f.address \in DOMAIN shapes THEN shapes[f.address] ELSE 0] : f \in FunctionSummaries(p)}

\* The difference of two projects.
ProjectReport(left, right) ==
  LET known == left.image # {} /\ right.image # {}
      Shapes(p) == IF known THEN ShapeMap(p, The(p.image)) ELSE <<>>
  IN DiffFunctions(Side(left, Shapes(left)), Side(right, Shapes(right)))

\* The matched pairs whose code differs, of those lifted on both sides.
ChangedPairs(left, right) ==
  LET l == LiftedFunctions(left, The(left.image)) r == LiftedFunctions(right, The(right.image))
  IN {<<m.left, m.right>> : m \in {n \in ProjectReport(left, right).matched :
                                   n.left \in DOMAIN l /\ n.right \in DOMAIN r /\ l[n.left] # r[n.right]}}

\* handle_diff: --port carries renames over every matched pair; --pseudocode needs
\* both images and is refused before anything is carried over.
Reported(left, right, report, pseudocode, port) ==
  [error |-> "", report |-> report,
   changed |-> IF pseudocode THEN ChangedPairs(left, right) ELSE {},
   right |-> IF port THEN TransferRenames(Listed(report.matched), left, right) ELSE right]
HandleDiff(left, right, pseudocode, port) ==
  IF pseudocode /\ (left.image = {} \/ right.image = {}) THEN [error |-> "diff_error", right |-> right]
  ELSE Reported(left, right, ProjectReport(left, right), pseudocode, port)

\* The interval between two versions, as a timeline takes it.
Interval(report, changed) == [matched |-> report.matched, added |-> report.added, changed |-> changed]

\* handle_timeline: versions that follow each other are compared, with their images.
HandleTimeline(projects) ==
  IF Len(projects) < 2 THEN Refused("invalid_args")
  ELSE IF \E n \in DOMAIN projects : projects[n].image = {} THEN Refused("image")
  ELSE Answered(BuildTimeline([n \in 1 .. Len(projects) - 1 |->
         Interval(ProjectReport(projects[n], projects[n + 1]), ChangedPairs(projects[n], projects[n + 1]))]))

-----------------------------------------------------------------------------
(* Known functions.  An ELF target beside its project has `elfcode`, the    *)
(* instructions by address (call, values), and `text`, the strings.        *)

\* fingerprint_from_instructions: values that are not small, round or powers of two.
Distinctive(v) == v >= 256 /\ \A k \in 8 .. 30 : v # 2 ^ k

\* strings_per_function: of the first bound in order that holds the instruction;
\* strings that are too long or cannot be printed have no text.
StringsPerFunction(p, f) ==
  LET First(at) == LET held == {b \in p.bounds : b.at <= at /\ at < b.to}
                   IN {b.at : b \in {c \in held : \A d \in held : c.at <= d.at}}
  IN UNION {p.text[x.to[2]] : x \in {y \in p.xrefs : y.ref = "data" /\ y.to[2] \in DOMAIN p.text /\ f \in First(y.at)}}

\* decode_for_fingerprint and the print of a function: of its strings alone when it
\* has no bound or nothing decodes, and empty without the target.
FunctionPrint(p, f) ==
  LET bound == {b \in p.bounds : b.at = f /\ p.beside}
      words == UNION {{a \in b.at .. b.to - 1 : \A c \in b.at .. a : c \in DOMAIN p.elfcode} : b \in bound}
  IN [strings |-> IF p.beside THEN StringsPerFunction(p, f) ELSE {},
      constants |-> UNION {{v \in p.elfcode[a].values : Distinctive(v)} : a \in words},
      calls |-> Cardinality({a \in words : p.elfcode[a].call}), size |-> Cardinality(words)]

\* handle_corpus_export: every function that has a name and is not a sub_ one.
CorpusExport(p) ==
  LET named == {f \in FunctionSummaries(p) : \E n \in f.name : ~ SubName(n)}
      order == SetToSortSeq(named, LAMBDA f, g : f.address < g.address)
  IN [n \in DOMAIN order |-> FunctionPrint(p, order[n].address) @@ [name |-> The(order[n].name)]]

\* handle_identify: the functions without a name of their own that are like some
\* known one.
HandleIdentify(p, corpus, threshold) ==
  {r \in {[address |-> f.address, report |-> FindReuseReport(FunctionPrint(p, f.address), corpus, threshold)] :
             f \in {g \in FunctionSummaries(p) : \A n \in g.name : SubName(n) \/ FuncName(n)}} :
     r.report.matches # {} \/ r.report.candidates # {}}

-----------------------------------------------------------------------------
(* Annotating.                                                             *)

\* What annotate stores of one function, in order.
AnnotationsAsked(args) == SelectSeq(<<"rename", "comment", "tag">>, LAMBDA what : args[what] # {})

\* handle_annotate: --list and --undo go first; what is given is stored one by one.
HandleAnnotate(p, args) ==
  LET object == UNION {FunctionObject(p, t) : t \in args.function}
      asked == AnnotationsAsked(args)
  IN CASE args.list \/ args.undo -> Answered(IF args.list THEN "list" ELSE "undo")
       [] ~ args.list /\ ~ args.undo /\ args.function = {} -> Refused("invalid_args")
       [] OTHER -> IF object = {} THEN Refused("function_not_found")
                   ELSE IF asked = <<>> THEN Refused("invalid_args")
                   ELSE [Answered(The(object)) EXCEPT
                           !.writes = [n \in DOMAIN asked |-> [at |-> The(object), what |-> asked[n], value |-> The(args[asked[n]])]]]
=============================================================================
