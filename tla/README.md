# A TLA+ model of damsel

damsel is a binary-analysis toolkit: a Rust workspace whose command line decodes, analyses and
decompiles Mach-O and ELF images, keeps analysis projects in SQLite and serves a small HTTP API;
a macOS application, the Workbench, drives that API. This directory holds TLA+ specifications of
damsel, TLC configurations that check them on small instances, and TLAPS proofs of what holds for
every instance.

Run everything from this directory:

    tlc -config workbench_requests.cfg MCWorkbench     # model-check one configuration
    tlapm WorkbenchStore_proofs.tla                    # check the proofs of one module

`PROJECT.json` lists components, runs, the source lines behind each definition, mutants of the code
that the properties catch, findings, hazards and theorems.

## 1. The system

### 1.1 Components

| Component | State it keeps | Operations | Modelled in |
|---|---|---|---|
| `WorkbenchStore` (Swift, main actor) | server client, two request counters, loaded image, target controls, listing, selection, filter, active address, recent/back/forward lists, surfaces, busy flag | bootstrap, loadFile, runDisassembly, jump, Back, Forward, loadPseudocode/Cfg/Hex, cancel, shutdown, select, edits | `WorkbenchStore`, `ListingScreen` |
| Symbol suggestions (store and `ContentView`) | text, target kind, generation, list; the view's current task | type, pick, choose, schedule, sleep, ask, answer, cancel | `SymbolSuggestions` |
| Analysis server process (Swift) | child process, readiness coordinator, the store's start task | bootstrap, start, stop, banner, termination, timeout, quit | `ServerLaunch` |
| Project annotations (`damsel-project`) | tables `facts` and `events` | put_annotation, undo_last_annotation | `AnnotationStore`, `AnnotationBook` |
| Project analysis lifecycle (CLI) | project directory, database, batch, descriptor | open, analyze with and without `--refresh`, fail, end | `ProjectLifecycle` |
| Symbol index cache (`damsel-macho`) | index database beside a dyld cache, projected images | build, load if fresh, look up, project | `CacheIndex` |
| Shared cache queries | a session, rebuilt for every command | open, look up, importers, providers, links, project an image | `SharedCacheQueries` |
| Instruction decoding and analysis (`disasm.rs`) | none between calls | window, blocks, known values, annotation, counts | `CodeWindow`, `BasicBlocks`, `KnownValues`, `Arm64Values`, `AnnotatedListing` |
| Mach-O loading | none | slice, sections, symbols, fixups, imports, stubs, Objective-C metadata | `ChainedFixups`, `ImportBinding`, `ObjcMetadata` |
| ELF support | none | dynamic symbols, relocations, unwind records, bounds | `ElfSupport` |
| Function recovery, call graph | facts of a project | seeds, bounds, references, paths | `FunctionRecovery`, `CallGraph` |
| Decompiler | none | lifting, SSA, structure, taint, diffs | `Lifting`, `RegisterFlow`, `ProjectDiff` |
| Emulator and time travel | registers, memory, a recorded trace | step, record, replay, ask | `Emulator`, `Emulation` |
| Recon catalogue | names and code of known programs | match, reuse, refine, Swift metadata and symbols | `FunctionMatching`, `ProjectCommands`, `SwiftMetadata` |
| Command line, UI HTTP server, MCP server | an image or a project for each request | select, decode, query, annotate, summarise, batch | `DisasmCommand`, `ProjectQueries`, `ProjectCommands` |
| Workbench API client, Web UI | none, or one request at a time | request/response | not modelled (1.4) |

### 1.2 How they interact

The Workbench starts `damsel ui` as a child process, waits for the banner that names its port, and
then talks HTTP to it: a file is uploaded once and gets a fresh image id, every later request names
the id. The store is a `@MainActor` object. An async method runs without interruption from one
`await` to the next, and at each `await` any gesture, any other method and any answer may come
first. Views read the store when they are rendered and call its methods; they keep one thing of
their own, the task that fetches symbol suggestions.

The command line, the MCP server and the recon refiners open the same project database. Each
statement of `put_annotation` and `undo_last_annotation` commits by itself, so a second process sees
the database between any two of them, and a process that is killed leaves it there. `analyze` writes
the facts of a Mach-O or cache analysis in one transaction and those of an ELF analysis one by one.
Commands on a dyld cache share its index and its store of projected images in the same way.

Inside the Rust crates everything is sequential. A loader makes an image (imports, fixups, classes);
the disassembler reads a window of it and follows values through; the analysis turns windows into
facts; the decompiler lifts windows; commands combine all of these. The modules are composed as the
crates are: `KnownValues` extends `BasicBlocks` and `Arm64Values`; `RegisterFlow` and
`Emulator` extend `Lifting`; `ProjectCommands` extends `CallGraph`, `RegisterFlow`,
`FunctionMatching`, `ProjectDiff` and `DisasmCommand`; `SharedCacheQueries` extends `DisasmCommand`,
which extends `CodeWindow`.

### 1.3 What is hard

* **Late answers.** Two loads, two decodes, a load and a jump can be out together and return in
  either order. The store compares request numbers after each `await`; the surfaces do not.
* **Values captured before an `await`.** A navigation remembers where it came from and what will be
  left of its list, and writes both back later, when another image may be loaded.
* **One flag, several owners.** `isBusy` is raised by loads, decodes and surfaces and lowered by
  nested `defer` blocks that compare different counters.
* **Views learn late.** A change of text reaches the view at the next rendering; a fetch for the old
  text may ask or answer before that.
* **Start-up and shut-down of the child process**, where three events race to resume one
  continuation and a stop may come between running the child and remembering it.
* **Several writers and crashes** between the statements that keep facts and audit log, or directory
  and database, or inventory and symbols in step.
* **Caches of something that changes.** A dyld cache is replaced by a system upgrade; what is kept
  beside it must not outlive it.
* **Known values at joins.** One pass in address order decides what a register holds, while control
  reaches an instruction from elsewhere too.
* **Limits that meet.** Byte and instruction limits, section ends, words that do not decode, page
  and chain ends, list limits: the first one reached must win and be named.
* **Many interfaces to one answer.** The command line, the HTTP API and the MCP server implement the
  same queries separately.

`PROJECT.json` lists 40 hazards at the lines where they bite, with the properties that cover them.

### 1.4 What is not modelled, and why

* Bytes: capstone's and object's decoding, DWARF, code signatures, kernel caches, the members of a
  cache file, the encoding of index tables. They are tables of formats; the models start from the
  words, records and tables that were read.
* Layout: text, colours, JSON field names, HTML, the rendering of pseudocode and its local frames.
* Wrappers around other tools: lldb, Frida, a language model, URL building in the API client.
* The Web UI issues one request at a time and is the simpler of the two clients of the HTTP API.
* Instructions outside the families the analysis follows: `Lifting` and `KnownValues` treat them as the
  code does, as unsupported and as making their target unknown. The command line lifts ARM64 only; the
  x86-64 lifter is reached through the library.
* In `FunctionRecovery`: sections without file data.
* In `WorkbenchStore`: texts shown to the user, titles, toggles and the surface mode, which no guard
  reads, and recent documents, which are never read by the logic modelled here.
* In `SymbolSuggestions`: the cancellation when the window disappears, since closing the window ends
  the application. In `ServerLaunch`: the search for the executable and the developer's base URL.
* In `AnnotationStore`: listing (it only reads) and more than one source per project. In
  `ProjectLifecycle`: the snapshots of canonical export. The MCP server's long-lived open store,
  under which `analyze --refresh` removes the file, is a hazard without a property.

That is why almost every component has the status "partly": its control is modelled, its formats
are not.

## 2. The modules

### 2.1 WorkbenchStore, ListingScreen

`WorkbenchStore` models `Stores/WorkbenchStore.swift`. Every call in flight is an element of `Calls`
with a program counter (`upload`, `decode`, `fetch`, or one of four waits for the server) and the
locals it captured; everything between two awaits is one action. Gestures start calls
(`LoadFile`, `Run`, `Jump`, `NavigateBack`, `NavigateForward`, `LoadSurface`, `Bootstrap`) or return
at once (`LoadBadFile`, `CancelCurrentOperation`, `Shutdown`, `SelectInstruction`, `EditTarget`,
`EditWindow`, `EditFilter`). Resumptions are the answers (`BootstrapReply`, `UploadInstalled`,
`UploadDropped`, `DecodeShown`, `DecodeDropped`, `SurfaceReply`). `loadFile` continues into
`runDisassembly` without an await in between, so `UploadInstalled` contains `BeginRun`; `jump` and
Back contain `DecodeAddressRoute`, which contains it too. The `defer` blocks are part of the action
in which the call returns.

Data is reduced to what the properties tell apart. An image is the number of the load that uploaded
it; an address is an image and an offset, so that a route of an old image is visible as such; a
listing is the image it was decoded from, its request number, its request and its rows; a filter is
the set of offsets it lets through. The text fields become "filled" and "parses".

`PushFront` is `insertNavigationRoute` and the recent list: move to front, then cut. `ListingScreen`
is the abstract specification: requests are numbered, only the newest may be shown, installing an
image clears the listing in the same step. `ScreenSpec` instantiates it with a refinement mapping.

### 2.2 SymbolSuggestions

Models `fetchSymbolSuggestions`, the `didSet` observers of `targetKind` and `symbolText`,
`selectSymbolSuggestion`, and `ContentView`'s two `onChange` handlers with the task they keep. A task
sleeps 220 ms (`asleep`), asks the server (`out`) and returns; cancelling it only sets a flag, which
is read after the sleep and after an answer but not after an error. `ViewUpdate` is a step of its own
because SwiftUI runs `onChange` when the view is next rendered; gestures need a rendered view, loads
and jumps do not. A suggestion list is represented by what was asked to get it.

### 2.3 AnnotationStore, AnnotationBook

Models `put_annotation` and `undo_last_annotation` with the SQL of `store/sqlite.rs`, one action per
statement: delete old names, insert the fact (`ON CONFLICT DO NOTHING`), append the event, read the
events to retire, append one row for each; read the newest active event of an actor, delete the
fact, append the row. Processes interleave; `Stop` ends a call between two statements, which stands
for a killed process and for a statement that fails. A command that carries a name, a comment and
tags stores them one after the other and is modelled as several commands; a comment stands for tags.

`AnnotationBook` is what a user may expect: a book of numbered entries, a rename replaces earlier
renames of its function, an actor takes back the newest of their own entries. `BookSpec` maps the log
to it: the book holds the events that are active and not superseded, under their sequence numbers.

The history variables are `cancelled` (`WorkbenchStore`: calls in flight at the last Cancel), `left`
and `dismissed` (`SymbolSuggestions`), `stopped` (`AnnotationStore`: some call was cut short) and
`raced` (`ServerLaunch`). They are read by properties only.

### 2.4 ServerLaunch

`DamselServerProcess.start` and `stop`, the coordinator, and `bootstrap`, `finishBootstrap` and
`shutdown` of the store. `Calls` are callers of bootstrap, `Starts` the start() calls and their
children. The store's steps run on the main actor; start() does not, so launching the child,
remembering it and waiting for its answer are actions of their own between which a stop, a second
start, the child's banner, its end, and the timeout may come. The coordinator's lock makes each of
its three callbacks one action.

### 2.5 CacheIndex

The index beside a dyld cache (`cache_index.rs`). A version stands for the contents of the cache
files, `Size` for what the freshness check sees of it; `Upgrade` replaces the files at any time.
A command loads a fresh index or rebuilds the inventory in one transaction and the symbols in
another, then looks a symbol up, serves an image from the store or writes it and stamps the digest
on the store's directory. A command may end between any two steps.

### 2.6 ProjectLifecycle

`handle_analyze` (`main.rs`) with `target.rs` and the migrations: check for a project, remove the
directory under `--refresh`, create it, open the store, write the meta rows, begin the batch, run the
passes, commit, write `target.json`. An ELF analysis has no batch. A store removed under a process
lives on unseen, as an unlinked SQLite file does. `Fail` and `Kill` may come between any two steps;
analysts' annotations are rows too.

### 2.7 The disassembler: CodeWindow, BasicBlocks, Arm64Values, KnownValues, AnnotatedListing

`CodeWindow` says which words a request decodes and why it stopped. `BasicBlocks` cuts a window into
blocks and draws the edges. `Arm64Values` has the arithmetic of the `synthesize_*_value` functions,
one operator per family; `KnownValues` is the pass over a window that uses it, one disjunct per
family of instructions and per role (data processing, load, store with write-back, table load,
comparison, branch). In the same module a processor (`CpuStep`, by `Arm64Isa`, written from the
architecture and sharing no definition with `Arm64Values` but bit access) runs the window with any
initial registers, any callee and any condition; the properties compare it with what the pass wrote.
`AnnotatedListing` is what a listing says of its instructions, an analysis' uses and counts, and the
rebasing of an image that is part of a cache.

### 2.8 The loaders: ChainedFixups, ImportBinding, ObjcMetadata, SwiftMetadata, ElfSupport

Functions from the tables of a file to what damsel keeps of it, with every early error: fixup chains
over pages in five pointer formats; the load path (the slice chosen of a universal file, its sections
cut to the file, its symbols, the imports of both sources merged); bound slots, stubs and helpers
tied together; function starts; ELF symbols and versions without section headers,
relocations; functions from symbols and unwind records, bounds and references of an ELF image.

`ObjcMetadata` is `objc.rs`: the image's flags, pointers with flags and tags, from memory or
from the base; classes and protocols with their lists; categories from the image's list and from
symbols, and what the merge of the two keeps with where it is from and in which order; the lists of names. An image is
words by address, a name an atom with a rank, a pointer a number below and above `PointerSpace`.

`SwiftMetadata` is what the catalogue reads of Swift: relative pointers, the descriptors of protocols
and types, conformances with what they refer to (direct or through a pointer), the names of fields,
mangled symbols; and what the `swift` command lists of it.

### 2.9 Facts and functions: FunctionRecovery, CallGraph, ProjectQueries

`FunctionRecovery` maps an image to the facts an analysis stores: seeds by source, cross references
by chunk, bounds. `CallGraph` derives the graph and paths from facts. `ProjectQueries` is search,
cross references, the function list and the strings, once as the command line and once as the HTTP server
computes them.

### 2.10 The decompiler: Lifting, RegisterFlow, Emulator, Emulation, ProjectDiff

`Lifting` maps windows of both architectures to blocks of statements with a terminator.
`RegisterFlow` (SSA versions, merges, conditions, loops, taint) works on that. `Emulator` executes it;
`Emulation` is the recorder: it runs once (`Run`), replays statement by statement and records
(`RecordStatement`, `RecordTerminator`), and answers from the trace. `ProjectDiff` compares versions.

### 2.11 Commands: DisasmCommand, ProjectCommands, SharedCacheQueries, FunctionMatching

`DisasmCommand` turns arguments into windows and filters views; `ProjectCommands` has one operator
for each command on a project, whose result is an answer, an error and the list of what it wrote,
the summary of a function and the batch over a list of targets among them;
`SharedCacheQueries` opens a session from the files of a cache and answers all cache commands, for a
synthetic cache and for a real one; `FunctionMatching` pairs functions of two programs by tiers of
evidence.

### 2.12 MC modules

`MCWorkbench`, `MCAnnotations`, `MCKnownValues` and `MCEmulation` give values to constants. `MCAlgorithms`, with `MCImages` and `MCCommands`, checks the modules that are functions
only: a state poses one problem, an element of one of some 45 sets of inputs; each property answers
it in two ways, once by the translated code and once by a reference definition written from what the
result means (what a linker meant, what the processor does, the set of all paths), and compares.

## 3. What the runs check

| Run | Instance | What holds |
|---|---|---|
| `workbench_requests` | 3 calls, loads, bad files, decodes, jumps, Cancel; 6 request numbers; fair | `TypeOK`, `ResultOfLoadedImage`, `RoutesOfLoadedImage`, `BusyHasOwner`, `NewestRequestWins`, `CancelIsFinal`, `BusySettles` |
| `workbench_navigation` | 2 calls, 3 offsets, jump, Back, Forward, selection, filter | `RouteListsSound`, `SelectionFollowsListing`, `HistoryIsKept` |
| `workbench_startup` | 2 calls that wait for the server, edits while they wait, shutdown | `ScreenSpec` |
| `symbols` | 2 fetch tasks, 3 texts; fair | `ListFits`, `LeftBehindIsIgnored`, `StaleListGoes` |
| `annotations` | 1 process that may stop anywhere, 2 actors, 2 kinds, 2 values, one function | `LogMatchesFacts`, `AtMostOneRename`, `UndoneOnce`, `FactIsLogged`, `BookSpec` |
| `server_launch` | 2 callers, 3 starts, quit at any time; fair | `StartsAnswerOnce`, `ServersAreOwned`, `BootstrapReturns` |
| `cache_index` | 1 command at a time, 2 images, 2 upgrades, ends anywhere | `IndexIsOfOneCache`, `LookupMatchesSession`, `StaleOnlyBesideNewer` |
| `project_lifecycle` | 2 commands on one directory, 2 passes, 3 analyses, ends anywhere | `ProjectIsWhole`, `PromisesAreKept`, `OnlyRefreshErases` |
| `known_values` | windows of up to five instructions, all families, short control flow, dispatch through tables, their index overwritten or not | `PassIsSound`, `RunsWalkTheGraph` |
| `emulation` | functions of up to three instructions, both architectures, indexed addresses and instructions lifted in part among them; fair | `RecordIsTheRun`, `ReturnedRunMatchesProcessor`, `EmulationEnds` |
| `algorithms` | some 45 kinds of problems | `ValuesAreTheProcessors`, `DecompiledCodeIsTheCode`, `FunctionsFollowTheCode`, `VersionsAreAccountedFor`, `FilesAreRead`, `CommandsAnswerAlike`, `CacheAnswersAgree` |
| `stale_projection` | as `cache_index` | violates `StoredProjectionFresh` (3.3) |

The properties in words:

* `ResultOfLoadedImage`, `RoutesOfLoadedImage`: listing, selection, active address and all three
  lists belong to the image that is loaded now, however late an answer came.
* `NewestRequestWins`: a listing is replaced only by the answer to a later request, the latest made.
* `CancelIsFinal`: what was in flight when Cancel was pressed changes nothing on screen.
* `BusyHasOwner`, `BusySettles`: the busy flag is up only while a call is out that will lower it, and
  it always goes down again.
* `RouteListsSound`: no repeats, no overflow, also when a list captured before an await is written
  back after it. `HistoryIsKept`: a navigation that failed or was overtaken leaves the history alone,
  and Back and Forward lose no address, unless a list is full or the user selected a row while the
  decode was out.
* `SelectionFollowsListing`: after every change the selection is a row of the listing, and nil only if
  the filter hides them all.
* `ListFits`, `LeftBehindIsIgnored`, `StaleListGoes`: a suggestion list fits field and image; a fetch
  from before a change of target kind is ignored even when the kind has changed back; a list for an
  outdated text does not stay.
* `AtMostOneRename`, `UndoneOnce`, `FactIsLogged`, `LogMatchesFacts`: one name per function, one undo
  per event, no fact without event, and between commands log and facts agree.
* `StartsAnswerOnce`: one start resumes its continuation once, with a URL its own child printed.
  `ServersAreOwned`: a server is left behind, or runs beside another, only if two starts overlapped
  or the app quit during a start. `BootstrapReturns`: every caller comes back.
* `IndexIsOfOneCache`, `LookupMatchesSession`: inventory and symbols are those of the cache as it was
  when the command looked. `StaleOnlyBesideNewer`: so is an image served from the store, unless it is
  an older one beside another that was stored since, from a cache as new as the session.
* `ProjectIsWhole`: whoever is killed when, a project has a whole analysis or none of it (an ELF
  analysis excepted, which commits fact by fact). `PromisesAreKept`: the descriptor and the success of
  analyze come after what they promise. `OnlyRefreshErases`: nothing else loses annotations.
* `PassIsSound`: at every instruction, in every run, the registers, flags and branch targets the pass
  calls known are the processor's, and code it calls unreachable is not reached. Left out are targets
  through a table whose index register was overwritten between the load and the branch (3.3).
  `RunsWalkTheGraph`: every run is a walk over blocks and edges.
* `RecordIsTheRun`: the trace is of the run it reports; what it answers about any step is what a
  replay to that step has, and memory is what the stores before it put there. The trace is cut short,
  under the outcome of the whole run, at an indexed address of x86, and nowhere else (3.3).
  `ReturnedRunMatchesProcessor`: a run that returned ends with the processor's registers and memory,
  if it met no instruction that is lifted in part (`Simplified`). Windows with one of these (`Misread`)
  return with other values, none is refused (3.3).
  `EmulationEnds`: the budget ends every run of a function without empty loops.

The properties of `algorithms` are conjunctions, one conjunct per kind of problem:

* `ValuesAreTheProcessors`: logic, shifts, fields, extensions, products, quotients, counts, reversals
  and the four flags agree with the architecture for all operands; a condition read as a relation is
  the branch the flags take.
* `DecompiledCodeIsTheCode`: renamed statements compute what the code computes, just where none reads
  the register it writes; taint covers every actual influence of an argument; a register with several
  definitions at a block is reported as merged, and a function has no report just if a register
  written twice is never read (3.3); removing the loops' back edges leaves no cycle; a taint path is found iff there is one.
* `FunctionsFollowTheCode`: a window decodes what was asked and names the limit that ended it, two
  cases excepted; bounds end at the first return or trap before the next function, or where the chunk
  they were decoded with ends them; calls are edges of the innermost function around them, one case
  excepted; call paths are shortest and reach what calls reach, but for the function itself; unwind records and ELF symbols become functions; counts add up.
* `VersionsAreAccountedFor`: a diff has each function of both sides exactly once; a line diff
  replays the one text into the other; a timeline tracks presence and changes; matches are one to
  one and confident ones have evidence.
* `FilesAreRead`: fixups, imports, slices, sections, stubs, dynamic symbols, relocations, classes,
  methods and categories come out as the linker wrote them, Swift descriptors, conformances, fields
  and symbols as the compiler did, and moving an image changes only its addresses.
* `CommandsAnswerAlike`: commands read the window asked for; a name, a rename and an address mean one
  function to all commands; struct and parameter bindings refer to what is declared; refining ends
  and is repeatable; taint and path queries agree with the facts; names and comments carried over to
  another version arrive once; views keep links; search shows the best; a string is listed once, in its class;
  a summary has the calls of the graph; a batch leaves in each project the facts of the last file of its
  name; HTTP and command line agree.
* `CacheAnswersAgree`: an address leads to the image and the nearest symbol that contain it, and
  back; importers, providers and links are the same relation in each direction; a session opens iff
  the files are there and of the cache, for a real cache by the uuids its root lists; an image of a cache answers as a file of its own.

Each property has a mutant: an operator with a plausible bug beside the definition it replaces
(`FreshDecodeAlways`, `ResetKeepsRoutes`, ...), which makes the run fail.

What a property leaves out, or says the code does otherwise, is in the comment above it: search is
compared for addresses that are not of decimal digits only; the loops of `EmulationEnds` have
statements; `CacheAnswersAgree` is about lookups in synthetic caches, whose images have their sizes,
where the two kinds of cache differ. Where the code departs from what a property asks in cases that can
be named, the property says in which, and that it departs in each of them: `StopReasonIsTrue`,
`BoundsFollowTheCode`, `CallersOwnTheirCalls`, `VersionsReadLastWrite`, `MergesAreReported`,
`TraceIsTheRun`, and, for the sample `Misread`, `ReturnedRunMatchesProcessor`.

### 3.1 Bounds, and why they are enough

* `MaxRequests` bounds the request numbers a gesture may take. A load takes two (its own and its
  decode's); six allow two loads and two further decodes, or a load, four jumps and Cancels.
  Conflicts are between two or three requests: an old one, a newer one, and a Cancel or load between.
* `Calls`: three calls give an old answer, a new answer and a bystander. Where calls are symmetric
  and no liveness is checked, the runs use symmetry.
* `Offsets` and the list capacities `MaxRecent` and `MaxNavigation` (2 in place of 20 and 100): three
  addresses are one more than a list holds, so cutting and repeats both happen. What the cut does at
  any capacity is proved (`PushFrontSound`).
* `Filters`: everything, one row, nothing: the selection stays, moves, or goes.
* `MaxKinds`, `MaxTyped`: four changes of kind are two departures and two returns; three edits are an
  old text, a new one and the old one again.
* `MaxEvents` is the length of the log a command may start at: four rows are a rename, its
  replacement with the retired row, and an undo. One function suffices for the run because names of
  different functions never meet; `OneName` is proved for any number of them.
* `Starts`: with three, a caller that wakes late can forget a start that a third then doubles.
* `MaxVersion`: three versions are an index built, outdated, rebuilt and outdated again.
  `DistinctSizes` gives each its own size; that an upgrade of equal sizes goes unnoticed is a limit
  the code states.
* `Passes`, `MaxRuns`: two passes are a partial analysis; three runs a project, a refresh and a
  command beside them.
* `XLen`, `WLen`, `HalfLen`, `ByteLen` (8, 4, 2, 1 for 64, 32, 16, 8): widths keep their ratio, so
  that every carry, sign and truncation between them occurs and all operands can be tried.
* `Windows`: the effect of an instruction on what is known depends on the operands before it and
  shows in one use after it; joins, loops and calls need at most four instructions. A dispatch is an
  index, a table, a load, possibly one instruction between, and the branch. `IndexLimit` (3 for 0x1000)
  is passed by registers of eight bits; `Named` and `Exported` have an address that is no code.
* `Misread`: seventeen windows, each of one instruction of `Simplified` after a store; vectors, bit
  scans, string moves and exclusive stores are not among them. The store is there so that a width,
  a base or a value that was left behind shows in the registers or in memory at the return.
* `Budget` (5 statements), `MaxChunk` (4 for `MAX_CHUNK_BYTES`), `NeedLimit`, `AuxLimit`, `ListLimit`,
  `NameLimit` (2 for the 64 and 256 version records, the 256 methods and the 128 properties, variables
  or protocols of a list), `PointerSpace` (2^20 for 2^48), `DefaultImageSize` (4), `WordSize`
  (2 bytes to an instruction): each limit is reached and passed.
* `HexBase` and `DecimalBase` (4 and 3): a digit that is hexadecimal only exists. `Wording`,
  `SubBase`, `FuncBase`, `FnBase` divide numbers into code shapes and names by their prefixes.
* Problem sets of `algorithms`: two or three symbols, imports, sections or functions. Errors of these
  functions are about a pair (two with one name, one beside another) or about an end (first, last,
  missing), and both occur. Functions inside one another are three, since a call can lie behind an
  inner one that has ended and within an outer one.

`CHECK_DEADLOCK FALSE`: the system may stop, since a user need not do anything, a run ends and a
project may stay as it is. `algorithms` and `cache_index` check for deadlock.

### 3.2 Fairness

Gestures are never fair. `WorkbenchStore`'s `Fairness` is weak fairness of `Resume(c)`: URLSession ends
every request with an answer or, after its timeout, an error; the start of the server has a timeout
of ten seconds; the main actor runs whatever is ready. In `SymbolSuggestions`, views are rendered,
sleeps end, and requests end in the same way. Nothing is assumed about which outcome a request has.
In `ServerLaunch` the steps of start(), the ten second timer and the resumption of callers are fair;
the child is not: it may print nothing and never end. In `Emulation` the emulator's own loop is fair.

### 3.3 Where code and documentation disagree

`stale_projection` is expected to fail. `docs/re-power/implementation-log.md` says (line 1470) that any drift
of the cache ignores the store of projected images. `write_projection` rewrites one image and stamps the
digest of the new cache on the whole directory; another image stored from the old cache is then
served as fresh. `cache_index` shows, and `StoredImagesAge` proves, that nothing else is served.

What passing runs say of the code, in the properties named:

* `build_ssa` looks up the uses of every register with two definitions (`ssa.rs:126`) and panics
  when it has none, as the flags of two comparisons that nothing tests (`MergesAreReported`).
* The comment on renaming (`ssa.rs:173`) says that consecutive writes read correctly. A statement
  that reads the register it writes reads the version it is about to make, since the version is
  counted up before the operands are renamed (`ssa.rs:216`); `add x0, x0, #1` becomes
  `x0_v1 = x0_v1 + 1` (`VersionsReadLastWrite`).
* `reachable` is documented as "excluding `from` unless cyclic" (`callgraph.rs:159`); it removes `from`
  always (`callgraph.rs:171`) (`CallPathIsShortest`).
* A call is documented to belong to the function whose bound contains it (`callgraph.rs:6`). Only the
  last bound that starts at or before it is looked at: when that one, inside another, has ended, the
  call belongs to none (`CallersOwnTheirCalls`).
* The reason for the end of a window is the byte limit where a word did not decode, in a window
  cut short or given by a range, and the range's end where the target ended (`StopReasonIsTrue`).
* Recovery is documented to decode the uncovered seeds of a chunk by themselves (`recovery.rs:184`). It does
  so when the chunk does not decode at its first word. Behind a later word that does not decode, a
  function is bounded by the next one; where it starts at the end of the section of its
  chunk, its bound is empty or missing (`BoundsFollowTheCode`).
* `dyld-shared-cache-v1.md:201` has the `.symbols` member optional. When the root lists one, its uuid
  among the members', the library refuses the cache without it, or with another (`SessionsFollowTheFiles`).
* The recorder is documented to record every step (`ttd.rs:138`). Its evaluator has no case for an indexed
  address, the emulator's has: after `lea rax, [rbx + rcx*4]` the trace ends, and says "returned"
  (`TraceIsTheRun`).
* The emulator calls itself honest by construction (`emulate.rs:8`): what it does not know is reported, never
  skipped. What the lifter simplifies is out of its sight and runs with other values: `movk`, signed division,
  narrow loads, stores and registers, addresses written back, an index on ARM, shifted immediates,
  `push`, `pop`, one-operand `mul`, `cqo` and others of `Simplified` (`ReturnedRunMatchesProcessor`).
* An indexed branch reads its index register at the branch, not at the load: a window that
  overwrites it in between gets a wrong target (`ResolvedTargetSound` leaves it out, `TableWindows` has it).

Met while modelling, written here and in the comments of the modules, not checked by a run:

* A load waits for the server, a file that fails validation is dropped meanwhile: the older load
  raises `isBusy`, is discarded, and its `defer` leaves the flag up. A load's `defer` lowers the flag
  although a jump is still out: Cancel finds no operation. Surfaces carry no number and appear after
  Cancel. Choosing a suggestion changes the text and reopens the list.
* Two processes rename one function: both delete before either inserts, and two names stay. Two
  actors make the same comment: one fact, two events; the undo of one removes the fact of both.
* Tags are documented as "declare (or replace)" and "re-bind = replace"; they accumulate, and the one
  whose text sorts last wins.
* The refiner's contexts are documented to count called imports; they are compared with object ids
  and never counted. `identify` always reports the corpus it has as built in.
* `decompile --assert` with an unknown name stores facts for address 0 before it fails. `debug` sets
  its breakpoint on the name given, not on the symbol of the renamed function.
* An annotation takes a local symbol for an import when the names agree up to case and leading
  underscores; `branch_count` counts a resolved indirect branch twice; notes about bindings and stubs
  at a helper's own address are dropped.
* Images of a real cache reach to the end of their mapping, so an address is looked up in the first
  of them; their exports all have one kind. On a synthetic cache, the symbol found for an address is
  given with its own address in place of the one asked for, and a cache with only a `.symbols` member
  is said to keep its images there.
* A comment on Swift descriptors (`swift.rs:571`) has kind 0 for a struct and 1 for a class;
  `descriptor_kind` reads 0 as class and 1 as struct.
* `fcmp` is not among the instructions that update the flags (`disasm.rs:4092`): flags known before it stay
  known after it. The instance has no floating-point comparison.
* Segments of one image in two cache files may overwrite one another when they are projected.

## 4. What is proved

All proofs are checked by `tlapm`, for every value of the constants that satisfies the named
assumptions of the modules (`NoAddress` is no address, capacities are positive, sets of offsets have a
least element, and so on).

**WorkbenchStore_proofs.** `TypeCorrect` (`[]TypeOK`), `ResultCorrect` (`[]ResultOfLoadedImage`),
`RoutesCorrect` (`[]RoutesOfLoadedImage`), `NewestWins` (`NewestRequestWins`) and `Refinement`
(`Spec => ScreenSpec`), for any number of concurrent calls. None of the four is inductive: that an
answer may be shown rests on what its call captured before the await. The invariant is

    IInv == TypeOK /\ RunsNumbered /\ LoadsNumbered /\ FreshOfImage
                   /\ ResultOfLoadedImage /\ RoutesOfLoadedImage

`RunsNumbered` and `LoadsNumbered` say that no call carries a number not yet given out and no two
carry the same one, so that a number equal to the counter names one call. `FreshOfImage` says that the
call carrying the newest number captured addresses of the loaded image only. Each lemma
`...Starts`, `...Moves`, `...Keeps` treats one group of actions; `Moves(c)` summarises what a step may
do to the call that makes it, so that the numbering is proved once rather than per action. The
refinement maps every step to `Supersede`, `Install`, `Show` or a stutter.

The same module proves `PushFrontSound`, of `insertNavigationRoute`: taking an address into a list adds nothing
else, creates no repeat and respects the capacity, for every list and capacity.

**WorkbenchControls_proofs** extends it, for what surrounds the listing.

* `ListsSound` (`[]RouteListsSound`). A list that Back or Forward captured before its await must be as
  sound as the list itself when it is written back: `CapturedSound`.
* `SelectionFollows` (`[]SelectionFollowsListing`), which is inductive: `DisplayChange` names the five
  kinds of step that touch listing, selection or filter, and each reconciles them.
* `HistoryKept` (`HistoryIsKept`), of two halves. That the lists move with the display only
  (`HistoryMoves`) needs that there is no history without a listing. That Back and Forward lose no
  address needs `NavigationsAimed`: what a navigation waits for is its own address, in the controls
  while it waits for the server to start, in its request after that. The hypothesis `Pinned` says that
  nobody edits the target during the first of these waits (no `target` gesture, or a client that is
  there from the start and never shut down): such an edit changes what the navigation asks for.
* `CancelFinal` (`CancelIsFinal`), by `CancelledStale`: a cancelled call has numbers smaller than the
  counters for as long as it is out. The hypothesis is that no surface is fetched: surfaces carry no
  number, and one that was cancelled appears.
* `BusyOwned` (`[]BusyHasOwner`). A run that takes the newest number and returns before its own `defer`
  is installed (no image, or controls that build no request) leaves the flag to a call whose `defer` will
  find an old number. `FlagOK` says that this cannot happen: while a decode on the newest number
  is out, there is an image and the controls still build a request. The hypotheses are that the
  client stays up, since a load that waits for it and is superseded raises the flag for nobody (3.3),
  and that target and window are not edited, since a run on edited controls may return early as above.

**ServerLaunch_proofs.** `StartsCorrect` (`[]StartsAnswerOnce`) and `ServersOwned` (`[]ServersAreOwned`),
for any number of callers, starts and children, without hypotheses. `Answers` ties how far a start has
come to its child, its continuation and its URL (`Staged`, `Answered`): whichever of banner, end and
timeout comes second finds the continuation gone. `Owned` says why a child that runs unasked is
either the remembered one or raced: two starts that have launched and not returned overlap
(`PairsRaced`), once a start has passed `Remember` its live child is remembered or raced
(`Remembered`), and the URL of the remembered child is known as soon as its start has returned, so
that the next start reuses it (`KnownURL`).

**SymbolSuggestions_proofs.** `SuggestionsFit` (`[]ListFits`) and `LeftBehind` (`LeftBehindIsIgnored`),
for any number of tasks and texts. The invariant adds `Generations` (no task carries a generation not
yet reached) and `LeftAreOlder` (tasks out at the last change of kind carry an older one); the guard
on the generation does the rest.

**AnnotationStore_proofs.** `FactsAreLogged` (`[]FactIsLogged`) for any number of processes. `OneName`
(`[]AtMostOneRename`) and `OneUndo` (`[]UndoneOnce`) under `OneAtATime`, at most one process; they hold
wherever calls are cut short. `OneName` needs that a rename about to be inserted finds none
(`ClearForRename`), `OneUndo` that what is about to be retired is still active (`AboutToRetire`).
`LogAndFacts` (`[]LogMatchesFacts`, same hypothesis) needs both, and its invariant has to speak of the
middle of a command, when log and facts differ: `Held` is what the log holds active less what the
command in progress is about to retire, and `Agree` relates that to the facts. The hypothesis is
necessary: two processes that rename one function both delete before either inserts, and two names stay.
`BookImplemented` (`Spec => BookSpec`, same hypothesis) maps every statement to `Add`, `Undo` or a stutter.
The steps that append to the log are those that count; what they append was read by an earlier
statement, and `ReadsHold` says that it is still so: the rename others are retired for is the newest
event, the rows to retire stand no longer, the event to take back is the newest of an actor. An undo
of an event that a cut-short rename left active, but superseded, is a stutter.

**ProjectLifecycle_proofs.** `ProjectWhole` (`[]ProjectIsWhole`), `RefreshErases` (`OnlyRefreshErases`)
and `PromisesKept` (`[]PromisesAreKept`), for any number of processes, passes and analyses. An analysis
may commit because the store it has open is the one in the directory or is gone, and in the first
case nobody else has analysed into it: `OwnStore`, which rests on every analysis having a number of
its own (`RunsNumbered`). `NothingOutside` says that without a store there are no facts,
`RemovesToRefresh` that only a refresh removes. The promises hold of histories without overlap only;
their invariant `Unraced` says that then at most one process works, and how far it has come.

**CacheIndex_proofs.** `IndexCorrect` (`[]IndexIsOfOneCache`) and `LookupsMatch` (`[]LookupMatchesSession`),
for any number of upgrades and images, under two hypotheses: `OneAtATime`, and `UpgradesShow`, no two
versions of the cache have the same sizes. What is inductive is an order of versions: the inventory
is at most as new as the bytes its rows were read from, those as the files, and the inventory a
lookup finds as its session (`IndexInOrder`, `JobInOrder`). The second look at the sizes closes the
chain: then the inventory is that of the files, and everything between is equal. That is why the
rows need no version of their own although they are read from the files after the inventory.
`StoredImagesAge` (`[]StaleOnlyBesideNewer`) continues the order into the store of projected images,
under the same two hypotheses and for any number of images. Every file is at most as new as the
cache, and some file is at least as new as what the digest describes, since one is written before the
digest is (`StoreInOrder`). A session that reads a file because the digest matches is therefore at
least as new as its bytes, and where they are older, the file that the digest came with is another's
(`JobStores`). `stale_projection` shows that the older image does occur.

**KnownValues_proofs.** `EveryRunIsAWalk` (`RunsWalkTheGraph`) has no hypotheses: for all windows, what
`build_basic_blocks` draws has every transfer of control as an edge, a block runs straight through, and
the processor visits blocks that count as reachable and leaves from exits (`ControlInv`). Lemmas on
`Leaders`, `BlockOf` and `LastOf` say that the blocks partition the window, and that a transfer ends
one and starts another.

That the pass is right is proved in two parts: what one instruction does to what is known, and what
becomes of it along the window.

* `EvaluationIsExact` is the hypothesis on single instructions: started from a belief that agrees with
  the processor, an instruction evaluated by the pass makes no destination or flag known to be what it is
  not. It speaks of arithmetic only (bit operations that recursive functions define, for all
  operands). TLC checks it on a sample of register contents for every instruction of the run
  (`SampleIsExact` in `MCKnownValues`).
* `BeliefsAreTrue` (`[](KnownValuesSound /\ KnownFlagsSound)`) is then proved for all windows, widths, callees
  and branches. Its invariant is `FactsInv /\ RunInv`: what was written down for every address before
  `at` is a belief, and the processor, wherever it is, agrees with the belief before its instruction.
  The steps are what the code can get wrong: a write that is not evaluated is forgotten, in both
  destinations and the base register that is written back (`AfterAgrees`), a call clobbers, and nothing
  is known where control may arrive from elsewhere than the line above (`JoinAddresses`): a jump or an
  entry lands on a belief in nothing, which any processor agrees with.
* `PassSound` (`[]PassIsSound`) adds the targets of indirect branches, by the known value of their
  register or through the table it was loaded from, under the one hypothesis above. What one
  instruction hands on of the tables is summarised by `Hands`: a table is the one it read from, or
  was there before, of a register it does not overwrite (`AfterHands`). So every table the pass
  remembers is of a register still as it was loaded (`TablesInv`), and along a run the table names what the
  register holds if its index register is still as it was, too (`TablesHold`, `ExecuteTables`); by `TargetInv`
  a target is what the facts before the branch name. Where the index was overwritten since the
  load, `PassIsSound` says nothing: the pass is wrong there (3.3), and `TableWindows` has such windows.

**Only model-checked.** Liveness (`BusySettles`, `StaleListGoes`, `BootstrapReturns`, `EmulationEnds`),
since fairness is outside the prover's reach; `EvaluationIsExact` on its sample; and the properties of `Emulation` and `algorithms`, which compare recursive computations: what
those return for every input would need induction over data, which the prover cannot do. That a
trace is of its run belongs here too: the run is `Emulate` iterated, and relating the replay to it is
such an induction.

## 5. Plan

The order followed the importance of the behaviour: first the store every user action goes through,
then what several processes write, then start-up and caches, then the computations everything else
rests on. All of these are in place. What would come next:

1. `ServerLaunch` as a refinement of the bootstrap steps of `WorkbenchStore`; the MCP server's open
   store as a process of `ProjectLifecycle`.
2. `EvaluationIsExact` by families of instructions.
3. Sections without file data in `FunctionRecovery`.
