----------------------- MODULE ProjectLifecycle_proofs -----------------------
(***************************************************************************)
(* What holds of a project directory for any number of commands, analyses  *)
(* and passes, wherever commands fail or are killed.                       *)
(*                                                                         *)
(* None of the properties is inductive: what an analysis may commit rests  *)
(* on the store it has open being the one in the directory, which only it  *)
(* has then written (OwnStore), and that on every analysis having a number *)
(* of its own (RunsNumbered).                                              *)
(***************************************************************************)
EXTENDS ProjectLifecycle, TLAPS

Working == [at : Steps, run : 1 .. MaxRuns, refresh : BOOLEAN, batch : 0 .. Passes]

\* A process works, or is idle.
JobsTyped == job \in [Procs -> Working \cup {Idle}]

\* No number is given out twice.
RunsNumbered ==
  /\ \A p \in Procs : job[p] \in Working => job[p].run <= runs
  /\ \A p, q \in Procs : p # q /\ job[p] \in Working /\ job[q] \in Working => job[p].run # job[q].run
  /\ db # None => db <= runs

\* What the store an analysis has open holds while it works on it.
OwnStore ==
  \A p \in Procs : job[p] \in Working /\ Linked(p) =>
    /\ job[p].at \in {"begin", "passes", "target", "ok"} => meta = 3
    /\ job[p].at \in {"meta", "begin", "passes"} => facts <= job[p].batch

\* Without a store there is nothing to lose; a store and a descriptor are in a
\* directory.
NothingOutside ==
  /\ db = None => facts = 0 /\ ~user
  /\ ~dir => db = None /\ ~target

\* Only a refresh removes.
RemovesToRefresh == \A p \in Procs : At(p, "remove") => job[p].refresh

\* TypeOK without the jobs.
Numbers ==
  /\ kind \in {"macho", "cache", "elf"}
  /\ db \in 1 .. MaxRuns \cup {None} /\ meta \in 0 .. 3 /\ facts \in 0 .. Passes
  /\ runs \in 0 .. MaxRuns
Booleans == dir \in BOOLEAN /\ user \in BOOLEAN /\ target \in BOOLEAN /\ overlap \in BOOLEAN

IInv ==
  /\ Numbers /\ Booleans /\ JobsTyped /\ RunsNumbered /\ OwnStore /\ NothingOutside /\ RemovesToRefresh
  /\ WholeOrNothing /\ FactsAreNamed

-----------------------------------------------------------------------------
(* What the steps do to the jobs.                                          *)

Others(p) == \A q \in Procs \ {p} : job'[q] = job[q]

\* A process that goes on to its next step keeps everything else.
LEMMA GoesOn ==
  ASSUME JobsTyped, NEW p \in Procs, job[p] \in Working, NEW step \in Steps, Goto(p, step)
  PROVE  /\ JobsTyped' /\ Others(p)
         /\ job'[p] \in Working /\ job'[p].at = step
         /\ job'[p].run = job[p].run /\ job'[p].refresh = job[p].refresh /\ job'[p].batch = job[p].batch
<1>1. job'[p] = [job[p] EXCEPT !.at = step] /\ Others(p)
  BY DEF JobsTyped, Goto, Others
<1>2. job' \in [Procs -> Working \cup {Idle, job'[p]}]
  BY DEF JobsTyped, Goto
<1>3. /\ job'[p] \in Working /\ job'[p].at = step
      /\ job'[p].run = job[p].run /\ job'[p].refresh = job[p].refresh /\ job'[p].batch = job[p].batch
  BY <1>1 DEF Working
<1> QED
  BY <1>1, <1>2, <1>3 DEF JobsTyped

\* A process that ends is idle.
LEMMA Ended ==
  ASSUME JobsTyped, NEW p \in Procs, End(p)
  PROVE  JobsTyped' /\ Others(p) /\ job'[p] = Idle
BY DEF JobsTyped, End, Others

\* A process at a step works.
LEMMA AtWorks ==
  ASSUME JobsTyped, NEW p \in Procs, NEW step \in Steps, At(p, step)
  PROVE  job[p] \in Working
<1>1. Idle.at = "idle" /\ "idle" \notin Steps
  BY DEF Idle, Steps
<1> QED
  BY <1>1 DEF JobsTyped, At

\* An idle process does not work.
LEMMA IdleDoesNot == Idle \notin Working
<1>1. Idle.at = "idle" /\ "idle" \notin Steps
  BY DEF Idle, Steps
<1> QED
  BY <1>1 DEF Working

-----------------------------------------------------------------------------
(* The steps.                                                              *)

LEMMA InitInvariant == Init => IInv
<1> SUFFICES ASSUME Init PROVE IInv
  OBVIOUS
<1>1. \A p \in Procs : job[p] = Idle /\ job[p] \notin Working
  BY IdleDoesNot DEF Init
<1>2. JobsTyped
  BY DEF Init, JobsTyped
<1>3. Numbers
  BY PassesAssumption, MaxRunsAssumption DEF Init, Numbers
<1>4. Booleans
  BY Zenon DEF Init, Booleans
<1>5. RunsNumbered /\ OwnStore
  BY <1>1 DEF Init, RunsNumbered, OwnStore
<1>6. RemovesToRefresh
  BY <1>1 DEF RemovesToRefresh, At, Idle
<1>7. NothingOutside /\ WholeOrNothing /\ FactsAreNamed
  BY DEF Init, NothingOutside, WholeOrNothing, FactsAreNamed
<1> QED
  BY <1>2, <1>3, <1>4, <1>5, <1>6, <1>7 DEF IInv

\* A new analysis takes the next number and touches nothing.
LEMMA AnalyzeKeeps ==
  ASSUME IInv, NEW p \in Procs, NEW refresh \in BOOLEAN, Analyze(p, refresh)
  PROVE  IInv'
<1> DEFINE new == [at |-> FirstStep(refresh), run |-> runs + 1, refresh |-> refresh, batch |-> 0]
<1> USE DEF IInv
<1>1. /\ job' = [job EXCEPT ![p] = new] /\ runs' = runs + 1 /\ runs < MaxRuns
      /\ UNCHANGED <<kind, dir, db, meta, facts, user, target>>
  BY DEF Analyze, content
<1>2. runs \in Nat /\ runs' \in 1 .. MaxRuns /\ runs' \in 0 .. MaxRuns
  BY <1>1, MaxRunsAssumption DEF Numbers
<1>3. FirstStep(refresh) \in {"exists", "remove", "open"} /\ (FirstStep(refresh) = "remove" => refresh)
  BY DEF FirstStep
<1>4. new \in Working
  BY <1>2, <1>3, <1>1, PassesAssumption DEF Working, Steps
<1>5. job'[p] = new /\ Others(p) /\ JobsTyped'
  BY <1>1, <1>4 DEF JobsTyped, Others
<1>6. Numbers'
  BY <1>1, <1>2 DEF Numbers
<1>7. Booleans'
  <2>1. overlap' \in BOOLEAN
    BY Zenon DEF Analyze
  <2> QED
    BY <1>1, <2>1 DEF Booleans
<1>8. RunsNumbered'
  <2>1. \A q \in Procs \ {p} : job[q] \in Working => job[q].run < runs' /\ job[q].run # runs'
    BY <1>1, <1>2 DEF RunsNumbered, Working
  <2>2. \A q \in Procs : job'[q] \in Working => job'[q].run <= runs'
    <3>1. job'[p].run = runs'
      BY <1>1, <1>5
    <3> QED
      BY <1>2, <1>5, <2>1, <3>1 DEF Others, Working
  <2>3. \A q, r \in Procs : q # r /\ job'[q] \in Working /\ job'[r] \in Working => job'[q].run # job'[r].run
    <3>1. job'[p].run = runs'
      BY <1>1, <1>5
    <3> QED
      BY <1>5, <2>1, <3>1 DEF RunsNumbered, Others
  <2>4. db' # None => db' <= runs'
    <3>1. db # None => db \in 1 .. MaxRuns /\ db <= runs
      BY DEF Numbers, RunsNumbered
    <3> QED
      BY <1>1, <1>2, <3>1
  <2> QED
    BY <2>2, <2>3, <2>4 DEF RunsNumbered
<1>9. OwnStore'
  BY <1>1, <1>3, <1>5 DEF OwnStore, Others, Linked
<1>10. RemovesToRefresh'
  BY <1>3, <1>5 DEF RemovesToRefresh, Others, At
<1>11. NothingOutside' /\ WholeOrNothing' /\ FactsAreNamed'
  BY <1>1 DEF NothingOutside, WholeOrNothing, FactsAreNamed, Batched
<1> QED
  BY <1>5, <1>6, <1>7, <1>8, <1>9, <1>10, <1>11

\* Whatever stays as it is keeps what is said of it: a step that lets a process go
\* on to another step of the same analysis, or end, keeps the numbering.
LEMMA NumberingKept ==
  ASSUME RunsNumbered, NEW p \in Procs, Others(p),
         job'[p] \in Working => job[p] \in Working /\ job'[p].run = job[p].run,
         UNCHANGED runs, db' # None => db' = db \/ db' <= runs
  PROVE  RunsNumbered'
BY DEF RunsNumbered, Others

\* The store of another process stays its own while nobody else writes to it.
LEMMA OthersStore ==
  ASSUME IInv, NEW p \in Procs, Others(p),
         \/ UNCHANGED <<db, meta, facts>>
         \/ db' = None
         \/ job[p] \in Working /\ db' = job[p].run
  PROVE  \A q \in Procs \ {p} : job'[q] \in Working /\ Linked(q)' =>
           /\ job'[q].at \in {"begin", "passes", "target", "ok"} => meta' = 3
           /\ job'[q].at \in {"meta", "begin", "passes"} => facts' <= job'[q].batch
<1> SUFFICES ASSUME NEW q \in Procs \ {p}, job'[q] \in Working, Linked(q)'
             PROVE  /\ job'[q].at \in {"begin", "passes", "target", "ok"} => meta' = 3
                    /\ job'[q].at \in {"meta", "begin", "passes"} => facts' <= job'[q].batch
  OBVIOUS
<1>1. job'[q] = job[q] /\ job[q] \in Working /\ db' = job[q].run
  BY DEF Others, Linked
<1>2. CASE UNCHANGED <<db, meta, facts>>
  BY <1>1, <1>2 DEF IInv, OwnStore, Linked
<1>3. CASE db' = None
  BY <1>1, <1>3, NoneAssumption DEF Working
<1>4. CASE job[p] \in Working /\ db' = job[p].run
  BY <1>1, <1>4 DEF IInv, RunsNumbered
<1> QED
  BY <1>2, <1>3, <1>4

\* An analysis that ends leaves the directory as it is.
LEMMA EndKeeps ==
  ASSUME IInv, NEW p \in Procs, End(p), UNCHANGED content, Keep
  PROVE  IInv'
<1> USE DEF IInv
<1>1. JobsTyped' /\ Others(p) /\ job'[p] = Idle /\ job'[p] \notin Working
  BY Ended, IdleDoesNot
<1>2. UNCHANGED <<kind, dir, db, meta, facts, user, target, runs, overlap>>
  BY DEF content, Keep
<1>3. Numbers' /\ NothingOutside' /\ WholeOrNothing' /\ FactsAreNamed'
  BY <1>2 DEF Numbers, NothingOutside, WholeOrNothing, FactsAreNamed, Batched
<1>4. Booleans'
  BY <1>2 DEF Booleans
<1>5. RunsNumbered'
  BY <1>1, <1>2, NumberingKept
<1>6. OwnStore'
  BY <1>1, <1>2, OthersStore DEF OwnStore
<1>7. RemovesToRefresh'
  BY <1>1 DEF RemovesToRefresh, Others, At, Idle
<1> QED
  BY <1>1, <1>3, <1>4, <1>5, <1>6, <1>7

\* The steps at which a command removes, one file at a time.
LEMMA RemoveKeeps ==
  ASSUME IInv, NEW p \in Procs, RemoveStore(p) \/ RemoveTarget(p)
  PROVE  IInv'
<1> USE DEF IInv
<1>1. At(p, "remove") /\ UNCHANGED <<kind, dir, job, runs, overlap>>
  BY DEF RemoveStore, RemoveTarget, Keep
<1>2. JobsTyped' /\ RemovesToRefresh'
  BY <1>1 DEF JobsTyped, RemovesToRefresh, At
<1>3. CASE RemoveStore(p)
  <2>1. db' = None /\ meta' = 0 /\ facts' = 0 /\ user' = FALSE /\ UNCHANGED target
    BY <1>3 DEF RemoveStore
  <2>2. Numbers'
    BY <1>1, <2>1, PassesAssumption DEF Numbers
  <2>3. Booleans'
    BY <1>1, <2>1 DEF Booleans
  <2>4. RunsNumbered'
    BY <1>1, <2>1 DEF RunsNumbered
  <2>5. OwnStore'
    BY <1>1, <2>1, NoneAssumption DEF OwnStore, Linked, Working
  <2>6. NothingOutside' /\ WholeOrNothing' /\ FactsAreNamed'
    BY <1>1, <2>1 DEF NothingOutside, WholeOrNothing, FactsAreNamed, Batched
  <2> QED
    BY <1>2, <2>2, <2>3, <2>4, <2>5, <2>6
<1>4. CASE RemoveTarget(p)
  <2>1. target' = FALSE /\ UNCHANGED <<db, meta, facts, user>>
    BY <1>4 DEF RemoveTarget
  <2>2. Numbers' /\ RunsNumbered' /\ OwnStore'
    BY <1>1, <2>1 DEF Numbers, RunsNumbered, OwnStore, Linked
  <2>3. Booleans'
    BY <1>1, <2>1 DEF Booleans
  <2>4. NothingOutside' /\ WholeOrNothing' /\ FactsAreNamed'
    BY <1>1, <2>1 DEF NothingOutside, WholeOrNothing, FactsAreNamed, Batched
  <2> QED
    BY <1>2, <2>2, <2>3, <2>4
<1> QED
  BY <1>3, <1>4

\* A store is opened where there is none, and is empty.
LEMMA OpenKeeps ==
  ASSUME IInv, NEW p \in Procs, OpenStore(p)
  PROVE  IInv'
<1> USE DEF IInv
<1>1. job[p] \in Working
  BY AtWorks DEF OpenStore, Steps
<1>2. UNCHANGED <<kind, runs, overlap, target>> /\ job[p].at = "open"
  BY DEF OpenStore, Keep, At
<1>3. CASE db = None
  <2>1. dir' = TRUE /\ db' = job[p].run /\ meta' = 0 /\ facts' = 0 /\ user' = FALSE /\ Goto(p, "meta")
    BY <1>3 DEF OpenStore
  <2>2. /\ JobsTyped' /\ Others(p) /\ job'[p] \in Working /\ job'[p].at = "meta"
        /\ job'[p].run = job[p].run /\ job'[p].batch = job[p].batch
    BY <1>1, <2>1, GoesOn DEF Steps
  <2>3. Numbers'
    BY <1>1, <1>2, <2>1, PassesAssumption DEF Numbers, Working
  <2>4. Booleans'
    BY <1>2, <2>1 DEF Booleans
  <2>5. RunsNumbered'
    BY <1>1, <1>2, <2>1, <2>2, NumberingKept DEF RunsNumbered
  <2>6. OwnStore'
    <3>1. job'[p].batch >= 0
      BY <2>2 DEF Working
    <3> QED
      BY <1>1, <2>1, <2>2, <3>1, OthersStore DEF OwnStore
  <2>7. RemovesToRefresh'
    BY <2>2 DEF RemovesToRefresh, Others, At
  <2>8. NothingOutside' /\ WholeOrNothing' /\ FactsAreNamed'
    BY <1>1, <1>2, <2>1, NoneAssumption DEF NothingOutside, WholeOrNothing, FactsAreNamed, Batched, Working
  <2> QED
    BY <2>2, <2>3, <2>4, <2>5, <2>6, <2>7, <2>8
<1>4. CASE db # None
  <2>1. UNCHANGED content /\ End(p)
    BY <1>2, <1>4 DEF OpenStore, content
  <2> QED
    BY <1>2, <2>1, EndKeeps DEF Keep
<1> QED
  BY <1>3, <1>4

\* A directory is gone once nothing is left in it.
LEMMA DirectoryKeeps ==
  ASSUME IInv, NEW p \in Procs, RemoveDirectory(p)
  PROVE  IInv'
<1> USE DEF IInv
<1>1. job[p] \in Working
  BY AtWorks DEF RemoveDirectory, Steps
<1>2. /\ UNCHANGED <<kind, db, meta, facts, user, target, runs, overlap>>
      /\ dir' = FALSE /\ db = None /\ ~target /\ Goto(p, "open")
  BY DEF RemoveDirectory, Keep
<1>3. /\ JobsTyped' /\ Others(p) /\ job'[p] \in Working /\ job'[p].at = "open" /\ job'[p].run = job[p].run
  BY <1>1, <1>2, GoesOn DEF Steps
<1>4. Numbers' /\ WholeOrNothing' /\ FactsAreNamed' /\ NothingOutside'
  BY <1>2 DEF Numbers, WholeOrNothing, FactsAreNamed, NothingOutside, Batched
<1>5. Booleans'
  BY <1>2 DEF Booleans
<1>6. RunsNumbered'
  BY <1>1, <1>2, <1>3, NumberingKept
<1>7. OwnStore'
  BY <1>2, <1>3, OthersStore DEF OwnStore
<1>8. RemovesToRefresh'
  BY <1>3 DEF RemovesToRefresh, Others, At
<1> QED
  BY <1>3, <1>4, <1>5, <1>6, <1>7, <1>8

\* The rows about the project are complete before an analysis begins.
LEMMA MetaKeeps ==
  ASSUME IInv, NEW p \in Procs, InsertMeta(p)
  PROVE  IInv'
<1> USE DEF IInv
<1>1. job[p] \in Working /\ job[p].at = "meta"
  BY AtWorks DEF InsertMeta, Steps, At
<1>2. UNCHANGED <<kind, dir, db, facts, user, target, runs, overlap>>
  BY DEF InsertMeta, Keep
<1>3. Booleans' /\ NothingOutside' /\ WholeOrNothing'
  BY <1>2 DEF Booleans, NothingOutside, WholeOrNothing, Batched
<1>4. CASE Linked(p) /\ meta < 3
  <2>1. meta' = meta + 1 /\ UNCHANGED job
    BY <1>4 DEF InsertMeta
  <2>2. Numbers'
    BY <1>2, <1>4, <2>1 DEF Numbers
  <2>3. facts = 0
    BY <1>4 DEF FactsAreNamed, Numbers
  <2>4. RunsNumbered' /\ JobsTyped' /\ RemovesToRefresh' /\ Others(p)
    BY <1>2, <2>1 DEF RunsNumbered, JobsTyped, RemovesToRefresh, At, Others
  <2>5. OwnStore'
    <3>1. job'[p].batch >= 0 /\ job'[p].at = "meta"
      BY <1>1, <2>1 DEF Working
    <3> QED
      BY <1>1, <1>2, <1>4, <2>1, <2>3, <2>4, <3>1, OthersStore DEF OwnStore, Linked
  <2>6. FactsAreNamed'
    BY <1>2, <2>3 DEF FactsAreNamed
  <2> QED
    BY <1>3, <2>2, <2>4, <2>5, <2>6
<1>5. CASE ~(Linked(p) /\ meta < 3)
  <2>1. UNCHANGED meta /\ Goto(p, "begin")
    BY <1>5 DEF InsertMeta
  <2>2. /\ JobsTyped' /\ Others(p) /\ job'[p] \in Working /\ job'[p].at = "begin"
        /\ job'[p].run = job[p].run /\ job'[p].batch = job[p].batch
    BY <1>1, <2>1, GoesOn DEF Steps
  <2>3. Numbers' /\ FactsAreNamed'
    BY <1>2, <2>1 DEF Numbers, FactsAreNamed
  <2>4. RunsNumbered'
    BY <1>1, <1>2, <2>2, NumberingKept
  <2>5. OwnStore'
    <3>1. Linked(p) => meta' = 3 /\ facts' <= job'[p].batch
      BY <1>1, <1>2, <1>5, <2>1, <2>2 DEF OwnStore, Numbers
    <3> QED
      BY <1>2, <2>1, <2>2, <3>1, OthersStore DEF OwnStore, Linked
  <2>6. RemovesToRefresh'
    BY <2>2 DEF RemovesToRefresh, Others, At
  <2> QED
    BY <1>3, <2>2, <2>3, <2>4, <2>5, <2>6
<1> QED
  BY <1>4, <1>5

LEMMA BeginKeeps ==
  ASSUME IInv, NEW p \in Procs, BeginBatch(p)
  PROVE  IInv'
<1> USE DEF IInv
<1>1. job[p] \in Working /\ job[p].at = "begin" /\ Goto(p, "passes")
  BY AtWorks DEF BeginBatch, Steps, At
<1>2. UNCHANGED <<kind, dir, db, meta, facts, user, target, runs, overlap>>
  BY DEF BeginBatch, Keep, content
<1>3. /\ JobsTyped' /\ Others(p) /\ job'[p] \in Working /\ job'[p].at = "passes"
      /\ job'[p].run = job[p].run /\ job'[p].batch = job[p].batch
  BY <1>1, GoesOn DEF Steps
<1>4. Numbers' /\ Booleans' /\ NothingOutside' /\ WholeOrNothing' /\ FactsAreNamed'
  BY <1>2 DEF Numbers, Booleans, NothingOutside, WholeOrNothing, FactsAreNamed, Batched
<1>5. RunsNumbered'
  BY <1>1, <1>2, <1>3, NumberingKept
<1>6. OwnStore'
  BY <1>1, <1>2, <1>3, OthersStore DEF OwnStore, Linked
<1>7. RemovesToRefresh'
  BY <1>3 DEF RemovesToRefresh, Others, At
<1> QED
  BY <1>3, <1>4, <1>5, <1>6, <1>7

\* A pass commits its facts at once only in an ELF analysis, and then to the store
\* it made.
LEMMA EmitKeeps ==
  ASSUME IInv, NEW p \in Procs, Emit(p)
  PROVE  IInv'
<1> USE DEF IInv
<1>1. job[p] \in Working /\ job[p].at = "passes" /\ job[p].batch < Passes
  BY AtWorks DEF Emit, Steps, At
<1>2. /\ UNCHANGED <<kind, dir, db, meta, user, target, runs, overlap>>
      /\ job' = [job EXCEPT ![p].batch = @ + 1]
      /\ facts' = IF CommitsEach /\ Linked(p) THEN facts + 1 ELSE facts
  BY DEF Emit, Keep
<1>3. /\ JobsTyped' /\ Others(p) /\ job'[p] \in Working /\ job'[p].at = "passes"
      /\ job'[p].run = job[p].run /\ job'[p].batch = job[p].batch + 1
  <2>1. job'[p] = [job[p] EXCEPT !.batch = job[p].batch + 1] /\ Others(p)
    BY <1>2 DEF JobsTyped, Others
  <2>2. job[p].batch + 1 \in 0 .. Passes
    BY <1>1, PassesAssumption DEF Working
  <2>3. /\ job'[p] \in Working /\ job'[p].at = "passes"
        /\ job'[p].run = job[p].run /\ job'[p].batch = job[p].batch + 1
    BY <1>1, <2>1, <2>2 DEF Working
  <2>4. job' \in [Procs -> Working \cup {Idle, job'[p]}]
    BY <1>2 DEF JobsTyped
  <2> QED
    BY <2>1, <2>3, <2>4 DEF JobsTyped
<1>4. Linked(p) => meta = 3 /\ facts <= job[p].batch /\ db # None
  BY <1>1, NoneAssumption DEF OwnStore, Linked, Working
<1>5. Numbers'
  BY <1>1, <1>2, <1>4, PassesAssumption DEF Numbers, Working
<1>6. Booleans'
  BY <1>2 DEF Booleans
<1>7. RunsNumbered' /\ RemovesToRefresh'
  <2>1. RunsNumbered'
    BY <1>1, <1>2, <1>3, NumberingKept
  <2>2. RemovesToRefresh'
    BY <1>3 DEF RemovesToRefresh, Others, At
  <2> QED
    BY <2>1, <2>2
<1>8. OwnStore'
  <2>1. Linked(p) => meta' = 3 /\ facts' <= job'[p].batch
    BY <1>1, <1>2, <1>3, <1>4 DEF Numbers, Working
  <2>2. UNCHANGED <<db, meta, facts>> \/ db' = job[p].run
    BY <1>2 DEF Linked
  <2> QED
    BY <1>1, <1>2, <1>3, <2>1, <2>2, OthersStore DEF OwnStore, Linked
<1>9. NothingOutside'
  BY <1>2, <1>4 DEF NothingOutside
<1>10. WholeOrNothing'
  BY <1>2 DEF WholeOrNothing, CommitsEach, Batched
<1>11. FactsAreNamed'
  BY <1>2, <1>4 DEF FactsAreNamed
<1> QED
  BY <1>3, <1>5, <1>6, <1>7, <1>8, <1>9, <1>10, <1>11

\* The commit makes the analysis whole.
LEMMA CommitKeeps ==
  ASSUME IInv, NEW p \in Procs, CommitBatch(p)
  PROVE  IInv'
<1> USE DEF IInv
<1> DEFINE step == IF kind = "cache" THEN "target" ELSE "ok"
<1>1. job[p] \in Working /\ job[p].at = "passes"
  BY AtWorks DEF CommitBatch, Steps, At
<1>2. /\ UNCHANGED <<kind, dir, db, meta, user, target, runs, overlap>>
      /\ facts' = IF Linked(p) THEN Passes ELSE facts
      /\ Goto(p, step) /\ step \in {"target", "ok"}
  BY DEF CommitBatch, Keep
<1>3. /\ JobsTyped' /\ Others(p) /\ job'[p] \in Working /\ job'[p].at \in {"target", "ok"}
      /\ job'[p].run = job[p].run
  <2>1. step \in Steps
    BY DEF Steps
  <2> QED
    BY <1>1, <1>2, <2>1, GoesOn
<1>4. Linked(p) => meta = 3 /\ db # None
  BY <1>1, NoneAssumption DEF OwnStore, Linked, Working
<1>5. Numbers'
  BY <1>2, PassesAssumption DEF Numbers
<1>6. Booleans'
  BY <1>2 DEF Booleans
<1>7. RunsNumbered'
  BY <1>1, <1>2, <1>3, NumberingKept
<1>8. RemovesToRefresh'
  BY <1>3 DEF RemovesToRefresh, Others, At
<1>9. OwnStore'
  <2>1. Linked(p) => meta' = 3
    BY <1>2, <1>4
  <2>2. UNCHANGED <<db, meta, facts>> \/ db' = job[p].run
    BY <1>2 DEF Linked
  <2> QED
    BY <1>1, <1>2, <1>3, <2>1, <2>2, OthersStore DEF OwnStore, Linked
<1>10. NothingOutside'
  BY <1>2, <1>4 DEF NothingOutside
<1>11. WholeOrNothing' /\ FactsAreNamed'
  BY <1>2, <1>4 DEF WholeOrNothing, FactsAreNamed, Batched
<1> QED
  BY <1>3, <1>5, <1>6, <1>7, <1>8, <1>9, <1>10, <1>11

LEMMA TargetKeeps ==
  ASSUME IInv, NEW p \in Procs, WriteTarget(p)
  PROVE  IInv'
<1> USE DEF IInv
<1>1. job[p] \in Working /\ job[p].at = "target" /\ Goto(p, "ok")
  BY AtWorks DEF WriteTarget, Steps, At
<1>2. dir' = TRUE /\ target' = TRUE /\ UNCHANGED <<kind, db, meta, facts, user, runs, overlap>>
  BY DEF WriteTarget, Keep
<1>3. /\ JobsTyped' /\ Others(p) /\ job'[p] \in Working /\ job'[p].at = "ok" /\ job'[p].run = job[p].run
  BY <1>1, GoesOn DEF Steps
<1>4. Numbers' /\ Booleans' /\ NothingOutside' /\ WholeOrNothing' /\ FactsAreNamed'
  BY <1>2 DEF Numbers, Booleans, NothingOutside, WholeOrNothing, FactsAreNamed, Batched
<1>5. RunsNumbered'
  BY <1>1, <1>2, <1>3, NumberingKept
<1>6. OwnStore'
  BY <1>1, <1>2, <1>3, OthersStore DEF OwnStore, Linked
<1>7. RemovesToRefresh'
  BY <1>3 DEF RemovesToRefresh, Others, At
<1> QED
  BY <1>3, <1>4, <1>5, <1>6, <1>7

\* Annotating needs a store with facts.
LEMMA AnnotateKeeps == ASSUME IInv, Annotate PROVE IInv'
<1> USE DEF IInv
<1>1. facts > 0 /\ user' = TRUE /\ UNCHANGED <<kind, dir, db, meta, facts, target, job, runs, overlap>>
  BY DEF Annotate, Keep
<1>2. Numbers' /\ JobsTyped' /\ RunsNumbered' /\ OwnStore' /\ RemovesToRefresh'
  BY <1>1 DEF Numbers, JobsTyped, RunsNumbered, OwnStore, Linked, RemovesToRefresh, At
<1>3. Booleans' /\ NothingOutside' /\ WholeOrNothing' /\ FactsAreNamed'
  BY <1>1 DEF Booleans, NothingOutside, WholeOrNothing, FactsAreNamed, Batched
<1> QED
  BY <1>2, <1>3

\* No step, nor standing still, disturbs the invariant.
LEMMA StepInvariant == IInv /\ [Next]_vars => IInv'
<1> SUFFICES ASSUME IInv, [Next]_vars PROVE IInv'
  OBVIOUS
<1>1. CASE UNCHANGED vars
  BY <1>1 DEF vars, content, IInv, Numbers, Booleans, JobsTyped, RunsNumbered, OwnStore, Linked,
              NothingOutside, RemovesToRefresh, At, WholeOrNothing, FactsAreNamed, Batched
<1>2. CASE Annotate
  BY <1>2, AnnotateKeeps
<1>3. ASSUME NEW p \in Procs, PassFails(p) \/ Exit(p) PROVE IInv'
  BY <1>3, EndKeeps DEF PassFails, Exit
<1>4. ASSUME NEW p \in Procs, \E refresh \in BOOLEAN : Analyze(p, refresh) PROVE IInv'
  BY <1>4, AnalyzeKeeps
<1>5. ASSUME NEW p \in Procs,
             \/ RemoveStore(p) \/ RemoveTarget(p) \/ RemoveDirectory(p) \/ OpenStore(p) \/ InsertMeta(p)
             \/ BeginBatch(p) \/ Emit(p) \/ CommitBatch(p) \/ WriteTarget(p)
      PROVE  IInv'
  BY <1>5, RemoveKeeps, DirectoryKeeps, OpenKeeps, MetaKeeps, BeginKeeps, EmitKeeps, CommitKeeps, TargetKeeps
<1> QED
  BY <1>1, <1>2, <1>3, <1>4, <1>5 DEF Next

LEMMA InvariantHolds == Spec => []IInv
<1> QED
  BY InitInvariant, StepInvariant, PTL DEF Spec

\* The invariant says what the runs check of types.
LEMMA InvariantTypes == IInv => TypeOK
<1> SUFFICES ASSUME IInv PROVE TypeOK
  OBVIOUS
<1>1. {dir, user, target, overlap} \subseteq BOOLEAN
  BY Zenon DEF IInv, Booleans
<1>2. \A p \in Procs : job[p] # Idle => job[p] \in Working
  BY DEF IInv, JobsTyped
<1>3. Numbers
  BY DEF IInv
<1> QED
  BY <1>1, <1>2, <1>3, Zenon DEF TypeOK, Numbers, Working

\* However many commands work on a directory and wherever they end, a Mach-O or
\* cache project has the facts of a whole analysis or none, and a store with facts
\* is named (handle_analyze, put_fact, commit).
THEOREM ProjectWhole == Spec => []ProjectIsWhole
<1>1. IInv => ProjectIsWhole
  BY InvariantTypes DEF IInv, ProjectIsWhole
<1> QED
  BY <1>1, InvariantHolds, PTL

\* Only a command with --refresh takes away facts or annotations (handle_analyze,
\* open_store).
THEOREM RefreshErases == Spec => OnlyRefreshErases
<1> DEFINE Erases == facts' < facts \/ (user /\ ~user') =>
                       \E p \in Procs : At(p, "remove") /\ job[p].refresh
<1>1. IInv /\ [Next]_vars => [Erases]_vars
  <2> SUFFICES ASSUME IInv, Next, facts' < facts \/ (user /\ ~user')
               PROVE  \E p \in Procs : At(p, "remove") /\ job[p].refresh
    OBVIOUS
  <2> USE DEF IInv
  <2>0. facts \in Nat /\ facts <= Passes
    BY PassesAssumption DEF Numbers
  <2>1. ASSUME NEW p \in Procs, RemoveStore(p) PROVE At(p, "remove") /\ job[p].refresh
    BY <2>1 DEF RemoveStore, RemovesToRefresh
  <2>2. ASSUME NEW p \in Procs, OpenStore(p) PROVE FALSE
    BY <2>0, <2>2 DEF OpenStore, NothingOutside
  <2>3. ASSUME NEW p \in Procs, CommitBatch(p) PROVE FALSE
    BY <2>0, <2>3, PassesAssumption DEF CommitBatch
  <2>4. ASSUME NEW p \in Procs, Emit(p) PROVE FALSE
    BY <2>0, <2>4 DEF Emit
  <2>5. ASSUME NEW p \in Procs,
               \/ \E refresh \in BOOLEAN : Analyze(p, refresh)
               \/ RemoveTarget(p) \/ RemoveDirectory(p) \/ InsertMeta(p) \/ BeginBatch(p)
               \/ PassFails(p) \/ WriteTarget(p) \/ Exit(p)
        PROVE  UNCHANGED <<facts, user>>
    BY <2>5 DEF Analyze, RemoveTarget, RemoveDirectory, InsertMeta, BeginBatch, PassFails, WriteTarget, Exit, content
  <2>6. Annotate => UNCHANGED facts /\ user' = TRUE
    BY DEF Annotate
  <2>7. UNCHANGED <<facts, user>> => FALSE
    BY <2>0
  <2> QED
    BY <2>0, <2>1, <2>2, <2>3, <2>4, <2>5, <2>6, <2>7 DEF Next
<1> QED
  BY <1>1, InvariantHolds, PTL DEF Spec, OnlyRefreshErases

-----------------------------------------------------------------------------
(* Promises.  While no two commands have worked at once, the one that      *)
(* works has the store of the directory open and is not promised to be     *)
(* complete before it is.                                                  *)

OnItsWay(p) ==
  /\ job[p].at = "open" => ~target /\ db = None
  /\ job[p].at \in {"meta", "begin", "passes"} => ~target /\ dir /\ Linked(p)
  /\ job[p].at \in {"target", "ok"} => dir /\ Linked(p) /\ facts = Passes
  /\ job[p].at = "ok" /\ kind = "cache" => target

Unraced ==
  ~overlap =>
    /\ \A p, q \in Procs : p # q => job[p] = Idle \/ job[q] = Idle
    /\ \A p \in Procs : job[p] \in Working => OnItsWay(p)
    /\ target /\ db # None => facts = Passes

\* The one process that works takes a step: nothing is to be said of the others.
LEMMA OneWorks ==
  ASSUME JobsTyped, Unraced, NEW p \in Procs, job[p] \in Working, Others(p), UNCHANGED overlap,
         ~overlap => /\ job'[p] \in Working => OnItsWay(p)'
                     /\ target' /\ db' # None => facts' = Passes
  PROVE  Unraced'
<1> SUFFICES ASSUME ~overlap
             PROVE  /\ \A q, r \in Procs : q # r => job'[q] = Idle \/ job'[r] = Idle
                    /\ \A q \in Procs : job'[q] \in Working => OnItsWay(q)'
                    /\ target' /\ db' # None => facts' = Passes
  BY DEF Unraced
<1>1. \A q \in Procs \ {p} : job'[q] = Idle
  BY IdleDoesNot DEF Unraced, Others
<1>2. \A q, r \in Procs : q # r => job'[q] = Idle \/ job'[r] = Idle
  BY <1>1
<1>3. \A q \in Procs : job'[q] \in Working => OnItsWay(q)'
  <2> SUFFICES ASSUME NEW q \in Procs, job'[q] \in Working PROVE OnItsWay(q)'
    OBVIOUS
  <2>1. q = p
    BY <1>1, IdleDoesNot
  <2> QED
    BY <2>1
<1> QED
  BY <1>2, <1>3

\* The first step of an analysis races if another one works.
LEMMA AnalyzeRaces ==
  ASSUME IInv, Unraced, NEW p \in Procs, NEW refresh \in BOOLEAN, Analyze(p, refresh)
  PROVE  Unraced'
<1> SUFFICES ASSUME ~overlap'
             PROVE  /\ \A q, r \in Procs : q # r => job'[q] = Idle \/ job'[r] = Idle
                    /\ \A q \in Procs : job'[q] \in Working => OnItsWay(q)'
                    /\ target' /\ db' # None => facts' = Passes
  BY DEF Unraced
<1> DEFINE new == [at |-> FirstStep(refresh), run |-> runs + 1, refresh |-> refresh, batch |-> 0]
<1>1. ~overlap /\ \A q \in Procs : At(q, "idle")
  BY Zenon DEF Analyze
<1>2. \A q \in Procs : job[q] = Idle
  BY <1>1 DEF IInv, JobsTyped, Working, Steps, At
<1>3. /\ job' = [job EXCEPT ![p] = new]
      /\ UNCHANGED <<kind, dir, db, facts, target>>
  BY DEF Analyze, content
<1>4. job'[p] = new /\ \A q \in Procs \ {p} : job'[q] = Idle
  BY <1>2, <1>3 DEF IInv, JobsTyped
<1>5. OnItsWay(p)'
  <2>1. job'[p].at = FirstStep(refresh)
    BY <1>4
  <2>2. FirstStep(refresh) \in {"exists", "remove"} \/ (FirstStep(refresh) = "open" /\ ~dir)
    BY DEF FirstStep
  <2> QED
    BY <1>3, <2>1, <2>2 DEF OnItsWay, IInv, NothingOutside
<1>6. \A q \in Procs : job'[q] \in Working => q = p
  BY <1>4, IdleDoesNot
<1>7. target' /\ db' # None => facts' = Passes
  BY <1>1, <1>3 DEF Unraced
<1>8. \A q \in Procs : job'[q] \in Working => OnItsWay(q)'
  <2> SUFFICES ASSUME NEW q \in Procs, job'[q] \in Working PROVE OnItsWay(q)'
    OBVIOUS
  <2>1. q = p
    BY <1>6
  <2> QED
    BY <1>5, <2>1
<1> QED
  BY <1>4, <1>7, <1>8

\* The steps before the analysis proper.
LEMMA PreparesUnraced ==
  ASSUME IInv, Unraced, NEW p \in Procs,
         RemoveStore(p) \/ RemoveTarget(p) \/ RemoveDirectory(p) \/ OpenStore(p) \/ InsertMeta(p) \/ BeginBatch(p)
  PROVE  Unraced'
<1> USE DEF IInv
<1>1. job[p] \in Working
  BY AtWorks DEF RemoveStore, RemoveTarget, RemoveDirectory, OpenStore, InsertMeta, BeginBatch, Steps
<1>2. UNCHANGED <<kind, overlap>>
  BY DEF RemoveStore, RemoveTarget, RemoveDirectory, OpenStore, InsertMeta, BeginBatch, Keep
<1>3. ~overlap => OnItsWay(p) /\ (target /\ db # None => facts = Passes)
  BY <1>1 DEF Unraced
<1>4. CASE RemoveStore(p) \/ RemoveTarget(p)
  <2>1. job[p].at = "remove" /\ UNCHANGED job /\ (db' = None \/ target' = FALSE)
    BY <1>4 DEF RemoveStore, RemoveTarget, At
  <2> QED
    BY <1>1, <1>2, <2>1, OneWorks DEF Others, OnItsWay
<1>5. CASE RemoveDirectory(p)
  <2>1. db' = None /\ ~target' /\ Goto(p, "open")
    BY <1>5 DEF RemoveDirectory
  <2>2. Others(p) /\ job'[p].at = "open"
    BY <1>1, <2>1, GoesOn DEF Steps
  <2> QED
    BY <1>1, <1>2, <2>1, <2>2, OneWorks DEF OnItsWay
<1>6. CASE OpenStore(p) /\ db = None
  <2>1. dir' = TRUE /\ db' = job[p].run /\ Goto(p, "meta") /\ UNCHANGED target /\ job[p].at = "open"
    BY <1>6 DEF OpenStore, At
  <2>2. Others(p) /\ job'[p].at = "meta" /\ job'[p].run = job[p].run
    BY <1>1, <2>1, GoesOn DEF Steps
  <2>3. ~overlap => ~target'
    BY <1>3, <2>1 DEF OnItsWay
  <2> QED
    BY <1>1, <1>2, <2>1, <2>2, <2>3, OneWorks DEF OnItsWay, Linked
<1>7. CASE OpenStore(p) /\ db # None
  <2>1. End(p) /\ UNCHANGED <<db, target, facts>>
    BY <1>7 DEF OpenStore
  <2>2. Others(p) /\ job'[p] \notin Working
    BY <2>1, Ended, IdleDoesNot
  <2> QED
    BY <1>1, <1>2, <1>3, <2>1, <2>2, OneWorks
<1>8. CASE InsertMeta(p) \/ BeginBatch(p)
  <2>1. /\ job[p].at \in {"meta", "begin"} /\ UNCHANGED <<dir, db, facts, target>>
        /\ UNCHANGED job \/ Goto(p, "begin") \/ Goto(p, "passes")
    BY <1>8 DEF InsertMeta, BeginBatch, At, content
  <2>2. Others(p) /\ job'[p].at \in {"meta", "begin", "passes"} /\ job'[p].run = job[p].run
    <3>1. CASE UNCHANGED job
      BY <2>1, <3>1 DEF Others
    <3>2. CASE Goto(p, "begin")
      BY <1>1, <3>2, GoesOn DEF Steps
    <3>3. CASE Goto(p, "passes")
      BY <1>1, <3>3, GoesOn DEF Steps
    <3> QED
      BY <2>1, <3>1, <3>2, <3>3
  <2>3. ~overlap => ~target' /\ dir' /\ Linked(p)'
    BY <1>3, <2>1, <2>2 DEF OnItsWay, Linked
  <2> QED
    BY <1>1, <1>2, <2>2, <2>3, OneWorks DEF OnItsWay
<1> QED
  BY <1>4, <1>5, <1>6, <1>7, <1>8

\* The analysis, its commit and its descriptor.
LEMMA AnalysesUnraced ==
  ASSUME IInv, Unraced, NEW p \in Procs, Emit(p) \/ CommitBatch(p) \/ WriteTarget(p)
  PROVE  Unraced'
<1> USE DEF IInv
<1>1. job[p] \in Working
  BY AtWorks DEF Emit, CommitBatch, WriteTarget, Steps
<1>2. UNCHANGED <<kind, db, overlap>>
  BY DEF Emit, CommitBatch, WriteTarget, Keep
<1>3. ~overlap => OnItsWay(p)
  BY <1>1 DEF Unraced
<1>4. CASE Emit(p)
  <2>1. job[p].at = "passes" /\ UNCHANGED <<dir, target>> /\ job' = [job EXCEPT ![p].batch = @ + 1]
    BY <1>4 DEF Emit, At
  <2>2. job'[p] = [job[p] EXCEPT !.batch = job[p].batch + 1] /\ Others(p)
    BY <2>1 DEF JobsTyped, Others
  <2>3. job'[p].at = "passes" /\ job'[p].run = job[p].run
    BY <1>1, <2>1, <2>2 DEF Working
  <2>4. ~overlap => ~target' /\ dir' /\ Linked(p)'
    BY <1>2, <1>3, <2>1, <2>3 DEF OnItsWay, Linked
  <2> QED
    BY <1>1, <1>2, <2>2, <2>3, <2>4, OneWorks DEF OnItsWay
<1>5. CASE CommitBatch(p)
  <2> DEFINE step == IF kind = "cache" THEN "target" ELSE "ok"
  <2>1. /\ job[p].at = "passes" /\ UNCHANGED <<dir, target>> /\ Goto(p, step)
        /\ facts' = IF Linked(p) THEN Passes ELSE facts
    BY <1>5 DEF CommitBatch, At
  <2>2. step \in Steps /\ step \in {"target", "ok"} /\ (step = "ok" => kind # "cache")
    BY DEF Steps
  <2>3. Others(p) /\ job'[p].at = step /\ job'[p].run = job[p].run
    BY <1>1, <2>1, <2>2, GoesOn
  <2>4. ~overlap => dir' /\ Linked(p)' /\ facts' = Passes
    BY <1>2, <1>3, <2>1, <2>3 DEF OnItsWay, Linked
  <2>5. ~overlap => OnItsWay(p)'
    BY <1>2, <2>2, <2>3, <2>4 DEF OnItsWay
  <2> QED
    BY <1>1, <1>2, <2>3, <2>4, <2>5, OneWorks
<1>6. CASE WriteTarget(p)
  <2>1. job[p].at = "target" /\ dir' = TRUE /\ target' = TRUE /\ UNCHANGED facts /\ Goto(p, "ok")
    BY <1>6 DEF WriteTarget, At
  <2>2. Others(p) /\ job'[p].at = "ok" /\ job'[p].run = job[p].run
    BY <1>1, <2>1, GoesOn DEF Steps
  <2>3. ~overlap => Linked(p)' /\ facts' = Passes
    BY <1>2, <1>3, <2>1, <2>2 DEF OnItsWay, Linked
  <2> QED
    BY <1>1, <1>2, <2>1, <2>2, <2>3, OneWorks DEF OnItsWay
<1> QED
  BY <1>4, <1>5, <1>6

LEMMA StepUnraced == IInv /\ Unraced /\ [Next]_vars => Unraced'
<1> SUFFICES ASSUME IInv, Unraced, [Next]_vars PROVE Unraced'
  OBVIOUS
<1>1. CASE UNCHANGED vars \/ Annotate
  <2>1. UNCHANGED <<kind, dir, db, facts, target, job, overlap>>
    BY <1>1 DEF vars, content, Annotate, Keep
  <2> QED
    BY <2>1 DEF Unraced, OnItsWay, Linked
<1>2. ASSUME NEW p \in Procs, PassFails(p) \/ Exit(p) PROVE Unraced'
  <2>1. End(p) /\ UNCHANGED <<db, facts, target, overlap>> /\ job[p].at # "idle"
    BY <1>2 DEF PassFails, Exit, content, Keep, At
  <2>2. job[p] \in Working
    BY <2>1 DEF IInv, JobsTyped, Idle
  <2>3. Others(p) /\ job'[p] \notin Working
    BY <2>1, Ended, IdleDoesNot DEF IInv
  <2>4. ~overlap => (target /\ db # None => facts = Passes)
    BY DEF Unraced
  <2> QED
    BY <2>1, <2>2, <2>3, <2>4, OneWorks DEF IInv
<1>3. ASSUME NEW p \in Procs, \E refresh \in BOOLEAN : Analyze(p, refresh) PROVE Unraced'
  BY <1>3, AnalyzeRaces
<1>4. ASSUME NEW p \in Procs,
             \/ RemoveStore(p) \/ RemoveTarget(p) \/ RemoveDirectory(p) \/ OpenStore(p) \/ InsertMeta(p)
             \/ BeginBatch(p) \/ Emit(p) \/ CommitBatch(p) \/ WriteTarget(p)
      PROVE  Unraced'
  BY <1>4, PreparesUnraced, AnalysesUnraced
<1> QED
  BY <1>1, <1>2, <1>3, <1>4 DEF Next

\* Unless two commands worked at once, a descriptor beside a store, and the success
\* of analyze, come after the whole analysis (handle_analyze, write_target).
THEOREM PromisesKept == Spec => []PromisesAreKept
<1>1. Init => Unraced
  <2> SUFFICES ASSUME Init PROVE Unraced
    OBVIOUS
  <2>1. \A p \in Procs : job[p] = Idle /\ job[p] \notin Working
    BY IdleDoesNot DEF Init
  <2> QED
    BY <2>1 DEF Init, Unraced
<1>2. IInv /\ Unraced => PromisesAreKept
  <2> SUFFICES ASSUME IInv, Unraced PROVE PromisesAreKept
    OBVIOUS
  <2>1. TargetPromisesFacts
    BY DEF Unraced, TargetPromisesFacts
  <2>2. ASSUME NEW p \in Procs, At(p, "ok"), ~overlap
        PROVE  /\ dir /\ db = job[p].run /\ meta = 3 /\ facts = Passes
               /\ kind = "cache" => target
    <3>1. job[p] \in Working
      BY <2>2, AtWorks DEF IInv, Steps
    <3> QED
      BY <2>2, <3>1 DEF IInv, OwnStore, Unraced, OnItsWay, Linked, At
  <2> QED
    BY <2>1, <2>2 DEF PromisesAreKept, SuccessIsComplete
<1> QED
  BY <1>1, <1>2, StepUnraced, InvariantHolds, PTL DEF Spec
=============================================================================
