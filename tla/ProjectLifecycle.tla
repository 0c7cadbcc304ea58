--------------------------- MODULE ProjectLifecycle -------------------------
(***************************************************************************)
(* damsel analyze: how a project directory comes into being and is rebuilt *)
(* by --refresh.  The directory holds the store (project.db) and, for an   *)
(* image of a shared cache, a descriptor (target.json).  Facts are written *)
(* by the passes of the analysis in order; Mach-O and cache analyses put   *)
(* them into one transaction, an ELF analysis commits each.  A command may *)
(* fail or be killed between any two steps, and another one may work on    *)
(* the same directory: a store removed under a process lives on unseen.    *)
(***************************************************************************)
EXTENDS Naturals

CONSTANTS Procs,
          Passes,   \* bound: facts an analysis emits, one for each pass
          MaxRuns,  \* bound: analyses started
          None

ASSUME PassesAssumption == Passes \in Nat \ {0}
ASSUME MaxRunsAssumption == MaxRuns \in Nat
ASSUME NoneAssumption == None \notin 1 .. MaxRuns

VARIABLES kind,     \* what is analyzed: "macho", "cache" or "elf"
          dir,      \* the directory exists
          db,       \* the store in it: which run made it, or None
          meta,     \* rows of project_meta: 0..3
          facts,    \* facts committed to it
          user,     \* the analyst has annotated it
          target,   \* target.json exists
          job,      \* what each process does
          runs,     \* analyses started so far
          overlap   \* two commands have worked at the same time (history)

content == <<dir, db, meta, facts, user, target>>
vars == <<kind, content, job, runs, overlap>>

Idle == [at |-> "idle"]
At(p, step) == job[p].at = step
Goto(p, step) == job' = [job EXCEPT ![p].at = step]
End(p) == job' = [job EXCEPT ![p] = Idle]
Batched == kind # "elf"
\* The store the process has open is the one a path lookup finds.
Linked(p) == db = job[p].run
Keep == UNCHANGED <<kind, runs, overlap>>

Init ==
  /\ kind \in {"macho", "cache", "elf"}
  /\ dir = FALSE /\ db = None /\ meta = 0 /\ facts = 0
  /\ user = FALSE /\ target = FALSE
  /\ job = [p \in Procs |-> Idle]
  /\ runs = 0 /\ overlap = FALSE
-----------------------------------------------------------------------------
\* Mutant: an existing project is rebuilt without --refresh.
AlwaysRefresh(refresh) == IF dir THEN "remove" ELSE "open"
FirstStep(refresh) ==
  IF dir THEN (IF refresh THEN "remove" ELSE "exists") ELSE "open"

\* The image has been read: a bad one changes nothing.
Analyze(p, refresh) ==
  /\ At(p, "idle") /\ runs < MaxRuns
  /\ runs' = runs + 1
  /\ overlap' = (overlap \/ \E q \in Procs : ~At(q, "idle"))
  /\ job' = [job EXCEPT ![p] = [at |-> FirstStep(refresh), run |-> runs + 1,
                                refresh |-> refresh, batch |-> 0]]
  /\ UNCHANGED <<kind, content>>

\* remove_dir_all takes the files one by one, in any order.
RemoveStore(p) ==
  /\ At(p, "remove") /\ db # None
  /\ db' = None /\ meta' = 0 /\ facts' = 0 /\ user' = FALSE
  /\ UNCHANGED <<dir, target, job>> /\ Keep

RemoveTarget(p) ==
  /\ At(p, "remove") /\ target
  /\ target' = FALSE
  /\ UNCHANGED <<dir, db, meta, facts, user, job>> /\ Keep

RemoveDirectory(p) ==
  /\ At(p, "remove") /\ db = None /\ ~target
  /\ dir' = FALSE
  /\ Goto(p, "open")
  /\ UNCHANGED <<db, meta, facts, user, target>> /\ Keep

\* open_store(Create::New) refuses a store that is there.  The look at the path, the
\* directory, the connection, the migrations and emptying the tables are one step:
\* what lies between them has no facts and no descriptor, which is all that the
\* properties ask of a store that was just opened.
OpenStore(p) ==
  /\ At(p, "open")
  /\ IF db = None
     THEN /\ dir' = TRUE /\ db' = job[p].run /\ meta' = 0 /\ facts' = 0 /\ user' = FALSE
          /\ Goto(p, "meta")
     ELSE UNCHANGED <<dir, db, meta, facts, user>> /\ End(p)
  /\ UNCHANGED target /\ Keep

\* Three rows, committed one by one.
InsertMeta(p) ==
  /\ At(p, "meta")
  /\ IF Linked(p) /\ meta < 3
     THEN meta' = meta + 1 /\ UNCHANGED job
     ELSE UNCHANGED meta /\ Goto(p, "begin")
  /\ UNCHANGED <<dir, db, facts, user, target>> /\ Keep

BeginBatch(p) ==
  /\ At(p, "begin")
  /\ Goto(p, "passes")
  /\ UNCHANGED content /\ Keep

\* Mutant: a Mach-O analysis writes without its transaction.
AutoCommit == TRUE
CommitsEach == ~Batched

\* One pass: its facts go to the transaction, or are committed.
Emit(p) ==
  /\ At(p, "passes") /\ job[p].batch < Passes
  /\ job' = [job EXCEPT ![p].batch = @ + 1]
  /\ facts' = IF CommitsEach /\ Linked(p) THEN facts + 1 ELSE facts
  /\ UNCHANGED <<dir, db, meta, user, target>> /\ Keep

\* Mutant: the descriptor does not wait for the commit.
TargetBeforeCommit(p) ==
  /\ At(p, "passes") /\ kind = "cache"
  /\ Goto(p, "target")
  /\ UNCHANGED content /\ Keep
CommitBatch(p) ==
  /\ At(p, "passes") /\ job[p].batch = Passes
  /\ facts' = IF Linked(p) THEN Passes ELSE facts
  /\ Goto(p, IF kind = "cache" THEN "target" ELSE "ok")
  /\ UNCHANGED <<dir, db, meta, user, target>> /\ Keep

\* A pass fails: the batch is rolled back, the directory stays.
PassFails(p) ==
  /\ At(p, "passes")
  /\ End(p)
  /\ UNCHANGED content /\ Keep

\* The descriptor, written last; it makes the directory if it is gone.
WriteTarget(p) ==
  /\ At(p, "target")
  /\ dir' = TRUE /\ target' = TRUE
  /\ Goto(p, "ok")
  /\ UNCHANGED <<db, meta, facts, user>> /\ Keep

\* The command reports and exits, or it is killed.
Exit(p) ==
  /\ ~At(p, "idle")
  /\ End(p)
  /\ UNCHANGED content /\ Keep

\* Between analyses: put_annotation on a project that has a function.
Annotate ==
  /\ facts > 0 /\ ~user
  /\ user' = TRUE
  /\ UNCHANGED <<dir, db, meta, facts, target, job>> /\ Keep

Next ==
  \/ \E p \in Procs :
       \/ \E refresh \in BOOLEAN : Analyze(p, refresh)
       \/ RemoveStore(p) \/ RemoveTarget(p) \/ RemoveDirectory(p)
       \/ OpenStore(p) \/ InsertMeta(p) \/ BeginBatch(p)
       \/ Emit(p) \/ CommitBatch(p) \/ PassFails(p) \/ WriteTarget(p) \/ Exit(p)
  \/ Annotate

Spec == Init /\ [][Next]_vars
-----------------------------------------------------------------------------
Steps == {"exists", "remove", "open", "meta", "begin", "passes", "target", "ok"}
TypeOK ==
  /\ kind \in {"macho", "cache", "elf"}
  /\ {dir, user, target, overlap} \subseteq BOOLEAN
  /\ db \in 1..MaxRuns \cup {None} /\ meta \in 0..3 /\ facts \in 0..Passes
  /\ runs \in 0..MaxRuns
  /\ \A p \in Procs : job[p] # Idle =>
       job[p] \in [at : Steps, run : 1..MaxRuns, refresh : BOOLEAN, batch : 0..Passes]

\* Whatever is killed or fails when, and however many commands work on the
\* directory, a Mach-O or cache project has the facts of a whole analysis or
\* none at all.
WholeOrNothing == Batched => facts \in {0, Passes}

\* A store with facts names its project: a crash between the metadata rows
\* never leaves a store that has facts and no name.
FactsAreNamed == facts > 0 => meta = 3

\* "Descriptor last": a descriptor beside a store promises a complete
\* analysis, unless two commands rebuilt the directory at once.
TargetPromisesFacts == target /\ db # None /\ ~overlap => facts = Passes

\* When analyze reports success the project is complete on disk.
SuccessIsComplete ==
  \A p \in Procs : At(p, "ok") /\ ~overlap =>
    /\ dir /\ db = job[p].run /\ meta = 3 /\ facts = Passes
    /\ kind = "cache" => target

\* Facts and the analyst's annotations disappear only through --refresh.
OnlyRefreshErases ==
  [][facts' < facts \/ (user /\ ~user') =>
       \E p \in Procs : At(p, "remove") /\ job[p].refresh]_vars

\* Whoever is killed when, a project has a whole analysis and its name, or no
\* facts (handle_analyze, put_fact, commit).
ProjectIsWhole == TypeOK /\ WholeOrNothing /\ FactsAreNamed

\* What tells others that a project is complete, its descriptor and the success
\* of analyze, comes after everything it promises.
PromisesAreKept == TargetPromisesFacts /\ SuccessIsComplete
=============================================================================
