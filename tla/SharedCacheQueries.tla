------------------------- MODULE SharedCacheQueries -------------------------
(***************************************************************************)
(* What a session answers about the images of a dyld shared cache: which   *)
(* image and symbol an address belongs to, who provides and who imports a  *)
(* symbol, and which image depends on which (damsel-macho/src/             *)
(* shared_cache.rs, shared_cache_query.rs for a synthetic cache, and the   *)
(* cache commands of damsel-cli/src/main.rs); how a session is opened from *)
(* the files of a cache, and what the commands show of an image as of a    *)
(* file of its own (DisasmCommand).                                        *)
(*                                                                         *)
(* A path is the root's, <<>>, with the suffixes behind it; a file says    *)
(* what it is (magic), its uuid and the ranges it maps, a root also the    *)
(* suffixes of the members that are required, the uuid it lists for each   *)
(* (of a real cache), and the images.                                      *)
(*                                                                         *)
(* A cache has images, in the order of its table, mappings (start, size,   *)
(* member, offset) and perhaps a file of local symbols.  An image has a    *)
(* path (its install name), a base, the symbols it exports or defines      *)
(* locally (name, at, source), those it re-exports (name, dylib), imports  *)
(* (name, dylib), bindings (of a kind, how) and libraries it loads.  Names *)
(* of symbols are numbers, for their order.  An optional value is a set.   *)
(***************************************************************************)
EXTENDS DisasmCommand

CONSTANT DefaultImageSize         \* of an image outside the mappings of its member

ASSUME DefaultImageSizeAssumption == DefaultImageSize \in Nat \ {0}

-----------------------------------------------------------------------------
(* The inventory.                                                          *)

Reaches(range, a) == range.start <= a /\ a < range.start + range.size

\* build_real_shared_cache: an image reaches to the end of the mapping its base is in.
RealImages(file) ==
  [i \in DOMAIN file.images |->
     LET image == file.images[i]
         around == SelectSeq(file.mappings, LAMBDA m : m.member = image.member /\ Reaches(m, image.base))
     IN image @@ [start |-> image.base,
                  size |-> IF around = <<>> THEN DefaultImageSize ELSE around[1].start + around[1].size - image.base]]

RealCache(file) == [file EXCEPT !.images = RealImages(file)]

\* mapping_for_vm_address: the last mapping that starts at the address or below, if it
\* reaches there; a synthetic cache looks at all.
MappingAt(cache, a) ==
  LET below == {m \in Range(cache.mappings) : m.start <= a}
  IN {m \in below : Reaches(m, a) /\ (cache.synthetic \/ \A n \in below : n.start <= m.start)}

\* find_image_for_address: the smallest image that reaches there.
SmallestAt(cache, a) ==
  LET around == {i \in DOMAIN cache.images : Reaches(cache.images[i], a)}
      Size(i) == cache.images[i].size
  IN {i \in around : \A j \in around \ {i} : Size(i) < Size(j) \/ (Size(i) = Size(j) /\ i < j)}

\* image_for_vm_address: the first image of the table that reaches there.
ImageAt(cache, a) ==
  LET around == {i \in DOMAIN cache.images : Reaches(cache.images[i], a)}
  IN IF cache.synthetic THEN SmallestAt(cache, a) ELSE {i \in around : \A j \in around : i <= j}

\* resolve_image, resolve_image_position: by its number, its path, else the only
\* one whose file is so called; a real cache looks at the file of a path only.
ResolveImage(cache, selector) ==
  LET images == DOMAIN cache.images
      numbered == {i \in images : selector = [id |-> i]}
      named == {i \in images : selector = [path |-> cache.images[i].path]}
      called == {i \in images : /\ "path" \in DOMAIN selector /\ selector.path.file = cache.images[i].path.file
                                /\ cache.synthetic => selector.path.directory = {}}
  IN IF numbered # {} THEN numbered ELSE IF named # {} THEN named
     ELSE IF Cardinality(called) = 1 THEN called ELSE {}

-----------------------------------------------------------------------------
(* Symbols.                                                                *)

\* real_symbol_candidates: what an image exports, then what it defines; the latter
\* where any symbol will do or the cache has its file of local symbols.
Candidates(cache, image, nearest) ==
  image.exports \o IF cache.localSymbols \/ (nearest /\ ~ cache.synthetic) THEN image.locals ELSE <<>>

\* The order of sort_by_key in lookup_cache_vmaddr and nearest_symbol_for_image, of
\* symbols at their places in the list.
Nearer(cache, c, m, n) ==
  \/ c[m].at > c[n].at
  \/ c[m].at = c[n].at /\ cache.synthetic /\ c[m].source = "export" /\ c[n].source = "local"
  \/ c[m].at = c[n].at /\ (cache.synthetic => c[m].source = c[n].source)
       /\ (c[m].name < c[n].name \/ (c[m].name = c[n].name /\ m < n))

\* Mutant: a symbol at the address itself is not below it.
SymbolBefore(cache, image, a) ==
  LET c == Candidates(cache, image, TRUE)
      below == {n \in DOMAIN c : c[n].at < a}
  IN {c[m] : m \in {n \in below : \A o \in below \ {n} : Nearer(cache, c, n, o)}}

\* The symbol for an address; a synthetic cache takes the first there is at it.
NearestSymbol(cache, image, a) ==
  LET c == Candidates(cache, image, TRUE)
      below == {n \in DOMAIN c : c[n].at <= a}
      exact == {n \in below : c[n].at = a}
  IN IF cache.synthetic /\ exact # {} THEN {c[Min(exact)]}
     ELSE {c[m] : m \in {n \in below : \A o \in below \ {n} : Nearer(cache, c, n, o)}}

\* lookup_cache_vmaddr: no answer where nothing is mapped.
LookupCacheVmaddr(cache, a) ==
  LET image == ImageAt(cache, a)
      symbol == UNION {NearestSymbol(cache, cache.images[i], a) : i \in image}
  IN {[mapping |-> m, offset |-> m.offset + a - m.start, image |-> image, symbol |-> symbol,
       kind |-> IF symbol = {} THEN "mapping" ELSE IF \E s \in symbol : s.at = a THEN "exact" ELSE "nearest",
       distance |-> {a - s.at : s \in symbol}] : m \in MappingAt(cache, a)}

\* resolve_exact_symbol: a real cache keeps the first of those that differ only in
\* where they come from.
ResolveExactSymbol(cache, name, filter) ==
  LET found(i) == LET c == Candidates(cache, cache.images[i], FALSE) IN {n \in DOMAIN c : c[n].name = name}
      At(i, n) == Candidates(cache, cache.images[i], FALSE)[n]
  IN UNION {{[image |-> i, symbol |-> At(i, n)] :
               n \in {m \in found(i) : cache.synthetic \/ ~ \E o \in found(i) : o < m /\ At(i, o).at = At(i, m).at}} :
              i \in {j \in DOMAIN cache.images : filter \subseteq {j}}}

\* The rows of the symbol index (symbol_rows_for_image), of which one of the
\* greatest address is found for an address.
IndexRows(cache) == UNION {Range(Candidates(cache, cache.images[i], TRUE)) : i \in DOMAIN cache.images}

\* query_symbol_at
QuerySymbolAt(cache, a) ==
  {r \in IndexRows(cache) : r.at <= a /\ \A s \in IndexRows(cache) : s.at <= a => s.at <= r.at}

-----------------------------------------------------------------------------
(* Dependencies.                                                           *)

\* image_by_install_name
ImageNamed(cache, dylib) ==
  {i \in DOMAIN cache.images : cache.images[i].path = dylib /\ \A j \in DOMAIN cache.images : cache.images[j].path = dylib => j <= i}

\* How often an image imports from a library; a synthetic cache counts the
\* libraries it loads or binds from without an import too.
DependencyCounts(cache, image) ==
  LET from == {x.dylib : x \in Range(image.imports)}
              \cup IF cache.synthetic THEN image.dylibs \cup {b.dylib : b \in Range(image.bindings)} ELSE {}
  IN [d \in from |-> Cardinality({n \in DOMAIN image.imports : image.imports[n].dylib = d})]

Dependencies(cache, i) ==
  LET counts == DependencyCounts(cache, cache.images[i])
  IN {[dylib |-> d, target |-> ImageNamed(cache, d), count |-> counts[d]] : d \in DOMAIN counts}

\* Edges of importers_by_symbol, each once; how is the kind of binding, if any.
ImportEdges(cache, i) ==
  LET image == cache.images[i]
  IN {[image |-> i, name |-> x.name, dylib |-> x.dylib, how |-> {}] : x \in Range(image.imports)}
     \cup {[image |-> i, name |-> b.name, dylib |-> b.dylib, how |-> {b.how}] : b \in IF cache.synthetic THEN Range(image.bindings) ELSE {}}

\* The images whose dependencies resolve to image j, and how often each imports.
DependentsOf(cache, j) ==
  LET used(i) == {d \in Dependencies(cache, i) : j \in d.target}
  IN {[image |-> i, count |-> FoldSet(LAMBDA d, n : d.count + n, 0, used(i))] : i \in {k \in DOMAIN cache.images : used(k) # {}}}

\* build_import_relations, build_real_import_relations
BuildImportRelations(cache) ==
  LET images == DOMAIN cache.images
  IN [dependencies |-> [i \in images |-> Dependencies(cache, i)],
      dependents |-> [j \in images |-> DependentsOf(cache, j)],
      importers |-> UNION {ImportEdges(cache, i) : i \in images}]

\* image_dependencies: a real cache reads the one image (real_image_dependencies).
ImageDependencies(cache, selector) ==
  LET image == ResolveImage(cache, selector)
  IN UNION {IF cache.synthetic THEN BuildImportRelations(cache).dependencies[i] ELSE Dependencies(cache, i) : i \in image}

Dependents(cache, selector) ==
  UNION {BuildImportRelations(cache).dependents[i] : i \in ResolveImage(cache, selector)}

-----------------------------------------------------------------------------
(* Providers and importers of a symbol.                                    *)

\* reexports_by_image, real_reexports
Reexports(cache, i) ==
  {[name |-> r.name, dylib |-> r.dylib, target |-> ImageNamed(cache, r.dylib)] : r \in Range(cache.images[i].reexports)}

\* real_symbol_providers: what an image exports, which has an address.
Exporters(cache, name) ==
  {[image |-> i, dylib |-> {}, target |-> {}] : i \in {j \in DOMAIN cache.images : \E x \in Range(cache.images[j].exports) : x.name = name}}

\* build_export_relations, of a synthetic cache; a real one has no re-exports here.
SymbolProviders(cache, name) ==
  Exporters(cache, name)
  \cup UNION {{[image |-> i, dylib |-> {r.dylib}, target |-> r.target] :
                 r \in {x \in Reexports(cache, i) : cache.synthetic /\ x.name = name}} : i \in DOMAIN cache.images}

\* uniquely_resolved_provider_image
UniqueProvider(cache, providers, dylib) ==
  LET found == {p.image : p \in {q \in providers : cache.images[q.image].path = dylib}}
  IN IF Cardinality(found) = 1 THEN found ELSE {}

\* symbol_importers, real_symbol_importers
SymbolImporters(cache, name) ==
  {[edge |-> e, provider |-> UniqueProvider(cache, SymbolProviders(cache, name), e.dylib)] :
     e \in {x \in BuildImportRelations(cache).importers : x.name = name}}

\* cache_provider_matches_import
ProviderMatchesImport(cache, p, dylib) ==
  \/ cache.images[p.image].path = dylib \/ dylib \in p.dylib
  \/ \E i \in p.target : cache.images[i].path = dylib

\* enrich_cache_analysis: the links of the imports (name, dylib) that code uses at
\* some instruction.
CacheLinks(cache, uses) ==
  UNION {{[at |-> u.at, name |-> u.name, dylib |-> u.dylib, provider |-> p] :
            p \in {q \in SymbolProviders(cache, u.name) : ProviderMatchesImport(cache, q, u.dylib)}} : u \in uses}

-----------------------------------------------------------------------------
(* What the commands show of it.                                           *)

\* collection_metadata and apply_limit, of records in the order they are shown.
Collected(records, limit) ==
  LET returned == Min({Len(records)} \cup limit)
  IN [total |-> Len(records), truncated |-> returned < Len(records), shown |-> SubSeq(records, 1, returned)]

\* image-deps: the dependencies of a kind, in the order of the names of libraries.
ImageDeps(cache, selector, kind, limit, order) ==
  LET kept == {d \in ImageDependencies(cache, selector) : kind = "all" \/ (kind = "internal") = (d.target # {})}
  IN Collected(SetToSortSeq(kept, LAMBDA d, e : order[d.dylib] < order[e.dylib]), limit)
-----------------------------------------------------------------------------
(* Opening a cache.                                                        *)

\* derive_root_candidate: the path without ".symbols" or a number behind it.
RootCandidate(path) == IF path # <<>> /\ Last(path) # "data" THEN Front(path) ELSE path

\* The files of a synthetic cache: each required one must be there and of this cache,
\* and that of local symbols counts only if it is of it.
SyntheticMembers(files, root) ==
  LET doc == files[root]
      symbols == Append(root, "symbols")
      OfCache(path, magic) == path \in DOMAIN files /\ files[path].magic = magic /\ files[path].uuid = doc.uuid
      required == [n \in DOMAIN doc.required |-> [role |-> "subcache", path |-> Append(root, doc.required[n])]]
  IN {<<[role |-> "root", path |-> root]>> \o required
        \o IF OfCache(symbols, "symbols") THEN <<[role |-> "symbols", path |-> symbols]>> ELSE <<>> :
        all \in {r \in {required} : \A m \in Range(r) : OfCache(m.path, "subcache")}}

\* synthetic_images: each in the first member that is not the root.
SyntheticImages(doc, members) ==
  [i \in DOMAIN doc.images |->
     doc.images[i] @@ [start |-> doc.images[i].base, size |-> DefaultImageSize, member |-> Min({2, Len(members)})]]

\* synthetic_mappings: the ranges, which say their last address, of the members; if
\* there are none, one for each image.
SyntheticMappings(files, images, members) ==
  LET Of(n) == [k \in DOMAIN files[members[n].path].ranges |->
                  LET r == files[members[n].path].ranges[k]
                  IN [member |-> n, start |-> r.start, size |-> r.end - r.start + 1, offset |-> r.offset]]
      declared == FlattenSeq([n \in DOMAIN members |-> IF members[n].role = "subcache" THEN Of(n) ELSE <<>>])
      default == [i \in DOMAIN images |-> [member |-> 1, start |-> images[i].base, size |-> DefaultImageSize, offset |-> i - 1]]
  IN {m \in {IF declared = <<>> THEN default ELSE declared} : \A k \in DOMAIN m : m[k].size > 0}

\* build_synthetic_session
OpenSynthetic(files, root) ==
  LET doc == files[root]
  IN UNION {LET images == SyntheticImages(doc, members)
            IN {[synthetic |-> TRUE, members |-> members, images |-> images, mappings |-> mappings,
                 localSymbols |-> \E m \in Range(members) : m.role = "symbols"] :
                  mappings \in SyntheticMappings(files, images, members)} :
              members \in IF doc.malformed THEN {} ELSE SyntheticMembers(files, root)}

\* discover_real_cache_set: each member must be there and a cache of the architecture
\* (its magic says so); its uuid may differ from the root's.
DiscoverRealCacheSet(files, root) ==
  LET Role(suffix) == IF suffix = "symbols" THEN "symbols" ELSE "subcache"
      members == <<[role |-> "root", path |-> root]>>
                 \o [n \in DOMAIN files[root].required |-> [role |-> Role(files[root].required[n]), path |-> Append(root, files[root].required[n])]]
  IN {all \in {members} : \A m \in Range(all) : m.path \in DOMAIN files /\ files[m.path].magic = "dyld"}

\* DyldCache::parse of the library object: the tables of the root must be readable and
\* each member have the uuid the root lists for it; classify_real_cache_parse_error
\* reports the latter as an incomplete set.
ParseCache(files, root, members) ==
  IF ~ files[root].malformed /\ \A n \in 2 .. Len(members) : files[members[n].path].uuid = files[root].listed[n - 1]
  THEN {members} ELSE {}

\* data_and_offset_for_address of the library: the first mapping that reaches there.
DataAt(mappings, a) == FirstWith(mappings, LAMBDA m : Reaches(m, a))

\* build_real_shared_cache: what the members map, and the images, each in the member
\* that maps its base; refused when the library does not find the first address of
\* a mapping or the base of an image.
OpenReal(files, root) ==
  UNION {LET mapped == FlattenSeq([n \in DOMAIN members |-> [k \in DOMAIN files[members[n].path].ranges |->
                         LET r == files[members[n].path].ranges[k]
                         IN [member |-> n, start |-> r.start, size |-> r.end - r.start + 1, offset |-> r.offset]]])
             MemberOf(a) == The({m.member : m \in DataAt(mapped, a)})
             images == [i \in DOMAIN files[root].images |-> files[root].images[i] @@ [member |-> MemberOf(files[root].images[i].base)]]
             mappings == [k \in DOMAIN mapped |-> [mapped[k] EXCEPT !.member = MemberOf(mapped[k].start)]]
             wanted == {m.start : m \in Range(mapped)} \cup {i.base : i \in Range(files[root].images)}
         IN IF \E a \in wanted : DataAt(mapped, a) = {} THEN {}
            ELSE {RealCache([synthetic |-> FALSE, members |-> members, images |-> images, mappings |-> mappings,
                             localSymbols |-> \E m \in Range(members) : m.role = "symbols"])} :
         members \in UNION {ParseCache(files, root, all) : all \in DiscoverRealCacheSet(files, root)}}

\* inspect_shared_cache, of the path of any member.
InspectSharedCache(files, path) ==
  LET root == RootCandidate(path)
  IN IF root \notin DOMAIN files THEN {}
     ELSE CASE files[root].magic = "root" -> OpenSynthetic(files, root)
            [] files[root].magic = "dyld" -> OpenReal(files, root)
            [] OTHER -> {}

-----------------------------------------------------------------------------
(* The commands.  An answer is a set, empty where there is an error; what   *)
(* is asked for by part of a name is the set of names, or images, that have *)
(* it; order is that of the paths.                                          *)

AskedFor(filter, x) == \A those \in filter : x \in those

\* normalize_limit, and the total and first records of what is found.
Answer(records, limit) == IF 0 \in limit THEN {} ELSE {Collected(records, limit)}
AnswerIfAny(records, limit) == IF records = <<>> THEN {} ELSE Answer(records, limit)
SortedBy(set, Key(_)) == SetToSortSeq(set, LAMBDA x, y : KeyLess(Key(x), Key(y)))

\* cache index: only a real cache is indexed, its symbols when asked for.
IndexCommand(cache, symbols) ==
  IF cache.synthetic THEN {}
  ELSE {[images |-> Len(cache.images), mappings |-> Len(cache.mappings),
         rows |-> IF symbols THEN {FoldSeq(LAMBDA i, n : n + Len(Candidates(cache, i, TRUE)), 0, cache.images)} ELSE {}]}

\* cache a2s; rows says whether the index is fresh and has symbols
\* (require_fresh_symbol_index).
AddressToSymbol(cache, rows, a) ==
  {[match |-> IF r.at = a THEN "exact" ELSE "nearest", symbol |-> r, offset |-> a - r.at] :
     r \in IF rows THEN QuerySymbolAt(cache, a) ELSE {}}

\* cache s2a: the rows of a name by address and image (query_symbols_named).
SymbolToAddress(cache, rows, name, limit) ==
  LET hits == UNION {{[image |-> i, symbol |-> s] : s \in {t \in Range(Candidates(cache, cache.images[i], TRUE)) : t.name = name}} :
                       i \in DOMAIN cache.images}
      all == SortedBy(hits, LAMBDA h : <<h.symbol.at, h.image, IF h.symbol.source = "export" THEN 0 ELSE 1>>)
  IN IF rows THEN AnswerIfAny(all, limit) ELSE {}

\* cache info
CacheInfo(cache) ==
  [images |-> Len(cache.images), members |-> cache.members, localSymbols |-> cache.localSymbols]

\* cache images: those asked for, by address or by path.
CacheImages(cache, those, sort, limit, order) ==
  LET kept == {i \in DOMAIN cache.images : AskedFor(those, i)}
  IN Answer(SortedBy(kept, LAMBDA i : <<IF sort = "name" THEN order[cache.images[i].path] ELSE cache.images[i].base, i>>), limit)

\* exports_for_image: a real cache lists those with an address, each as regular.
ExportsOf(cache, image) ==
  {[name |-> x.name, at |-> {x.at}, sort |-> "regular"] : x \in Range(image.exports)}
  \cup {[name |-> r.name, at |-> {}, sort |-> "reexport"] : r \in IF cache.synthetic THEN Range(image.reexports) ELSE {}}

\* cache exports
CacheExports(cache, selector, view) ==
  {LET kept == {x \in ExportsOf(cache, cache.images[i]) : AskedFor(view.name, x.name) /\ view.sort \subseteq {x.sort}}
   IN Collected(SortedBy(kept, LAMBDA x : IF view.byName THEN <<x.name, OrZero(x.at)>> ELSE <<OrZero(x.at), x.name>>), {}) :
     i \in ResolveImage(cache, selector)}

\* cache lookup-address: the answer of a synthetic cache shows the address of the
\* symbol for that which was asked (cache_lookup_view, convert_query_lookup_result).
LookupAddress(cache, a) ==
  {LET shown == IF cache.synthetic /\ r.symbol # {} THEN The(r.symbol).at ELSE a
   IN [match |-> r.kind, shown |-> shown, image |-> r.image, symbol |-> r.symbol, distance |-> r.distance,
       mapping |-> r.mapping, offset |-> {shown - cache.images[i].base : i \in r.image}] : r \in LookupCacheVmaddr(cache, a)}

\* cache resolve-symbol; a name without a symbol is an error.
ResolveSymbol(cache, name, image, limit, order) ==
  AnswerIfAny(SortedBy(ResolveExactSymbol(cache, name, image),
    LAMBDA r : <<r.symbol.at, IF cache.synthetic THEN r.image ELSE order[cache.images[r.image].path], IF r.symbol.source = "export" THEN 0 ELSE 1>>), limit)

\* cache dependents
DependentsCommand(cache, selector, limit, order) ==
  UNION {Answer(SortedBy(BuildImportRelations(cache).dependents[i], LAMBDA d : <<order[cache.images[d.image].path]>>), limit) :
           i \in ResolveImage(cache, selector)}

\* cache symbol-providers
ProvidersCommand(cache, name, those, limit, order) ==
  LET kept == {p \in SymbolProviders(cache, name) : AskedFor(those, p.image)}
  IN AnswerIfAny(SortedBy(kept, LAMBDA p : <<order[cache.images[p.image].path], Cardinality(p.dylib), Max({order[d] : d \in p.dylib} \cup {0})>>), limit)

\* cache symbol-importers
ImportersCommand(cache, name, those, limit, order) ==
  LET kept == {r \in SymbolImporters(cache, name) : AskedFor(those, r.edge.image)}
  IN AnswerIfAny(SortedBy(kept, LAMBDA r : <<order[cache.images[r.edge.image].path], order[r.edge.dylib], Cardinality(r.edge.how)>>), limit)

\* cache reexports
ReexportsCommand(cache, selector, names, limit, order) ==
  UNION {LET kept == {r \in Reexports(cache, i) : AskedFor(names, r.name)}
         IN Answer(SortedBy(kept, LAMBDA r : <<r.name, order[r.dylib]>>), limit) : i \in ResolveImage(cache, selector)}

\* summarize_cache_link_uses: a row for each link, with how often and where first.
LinkRows(links) ==
  LET Row(l) == [name |-> l.name, dylib |-> l.dylib, provider |-> l.provider]
  IN [row \in {Row(l) : l \in links} |->
        LET at == {l.at : l \in {k \in links : Row(k) = row}} IN [count |-> Cardinality(at), first |-> Min(at)]]

-----------------------------------------------------------------------------
(* An image on its own.                                                    *)

\* project_image, load_projected_cache_image: the image as if it were a file.
ProjectImage(cache, selector) == {cache.images[i].binary : i \in ResolveImage(cache, selector)}

ImageSections(cache, selector, q) == {SelectedSections(b.sections, q) : b \in ProjectImage(cache, selector)}
ImageSymbols(cache, selector, q) == {SelectedSymbols(b.symbols, q) : b \in ProjectImage(cache, selector)}
ImageImports(cache, selector, q) == {SelectedImports(b.imports, q) : b \in ProjectImage(cache, selector)}
ImageDyld(cache, selector, flags, view) == {DyldText(b.dyld, flags, view) : b \in ProjectImage(cache, selector)}
ImageObjc(cache, selector, detail, view) == {ObjcText(b.objc, detail, view) : b \in ProjectImage(cache, selector)}
ImageDisasm(cache, selector, args) == UNION {ExecuteDisassembly(b, args) : b \in ProjectImage(cache, selector)}

\* reconstruct_projected_image_bytes: the header at the start, then the segments that
\* have bytes at their offsets in the file, each over what is there already.
ReconstructImage(header, segments) ==
  LET backed == SelectSeq(segments, LAMBDA g : g.data # <<>>)
      size == Max({Len(header)} \cup {g.offset + Len(g.data) : g \in Range(backed)})
      Put(g, bytes) == [k \in DOMAIN bytes |-> IF g.offset < k /\ k <= g.offset + Len(g.data) THEN g.data[k - g.offset] ELSE bytes[k]]
  IN IF backed = <<>> THEN {}
     ELSE {FoldLeft(LAMBDA bytes, g : Put(g, bytes), [k \in 1 .. size |-> IF k <= Len(header) THEN header[k] ELSE 0], backed)}
=============================================================================
