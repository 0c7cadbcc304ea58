--------------------------- MODULE AnnotationStore ---------------------------
(***************************************************************************)
(* User annotations in the project database, as put_annotation and         *)
(* undo_last_annotation change it one SQL statement at a time.             *)
(*                                                                         *)
(* Every statement commits by itself: nothing brackets the statements of   *)
(* one call.  Between two of them another damsel process (the command      *)
(* line, the MCP server, a refiner) may run its own, and a process may     *)
(* end, because it was killed or because a statement failed.               *)
(*                                                                         *)
(* A project with one source is modelled, so that an object alone names    *)
(* its facts.  A comment stands for tags too, which differ in spelling.    *)
(* One command that carries several annotations stores them one by one     *)
(* and is modelled as several.                                             *)
(***************************************************************************)
EXTENDS Naturals, Sequences, FiniteSets

CONSTANTS
  Processes,  \* damsel processes that work on the project
  Actors,     \* DAMSEL_ACTOR, and the names the MCP server and refiners use
  Objects,    \* the annotated functions
  Kinds,      \* rename, comment
  Values,     \* names and texts
  CanStop,    \* may a process end between two statements?
  MaxEvents   \* bound: length of the audit log a command may start at

ASSUME KindsAssumption == Kinds \subseteq {"rename", "comment"}
ASSUME StopAssumption == CanStop \in BOOLEAN /\ MaxEvents \in Nat

VARIABLES
  facts,  \* the annotation rows of table facts
  log,    \* the annotation rows of table events; the index is seq
  procs,  \* where each process is in its call
  stopped \* history: some call was cut short

vars == <<facts, log, procs, stopped>>

Annotation == [actor : Actors, object : Objects, kind : Kinds, value : Values]
-----------------------------------------------------------------------------
(* The two tables.                                                         *)

SameKey(a, b) == a.object = b.object /\ a.kind = b.kind /\ a.value = b.value

Added(a) == [type |-> "added", note |-> a]
Undone(n) == [type |-> "undone", added |-> n]

AddedSeqs == {n \in DOMAIN log : log[n].type = "added"}
UndoneSeqs == {log[n].added : n \in DOMAIN log \ AddedSeqs}

\* Mutant: the undone events are not consulted.
ActiveForgets == AddedSeqs

\* annotation_added events no annotation_undone event refers to
Active == AddedSeqs \ UndoneSeqs

\* Mutant: the oldest.
IsOldestActive(actor, n) ==
  /\ n \in Active /\ log[n].note.actor = actor
  /\ \A m \in Active : log[m].note.actor = actor => m >= n

\* latest_active_annotation_event
IsLatestActive(actor, n) ==
  /\ n \in Active /\ log[n].note.actor = actor
  /\ \A m \in Active : log[m].note.actor = actor => m <= n

\* Mutant: replaced renames stay active in the log.
NoActiveRenames(object, except) == {}

\* the rows retire_rename_events_for selects
ActiveRenames(object, except) ==
  {n \in Active \ {except} : log[n].note.kind = "rename"
                             /\ log[n].note.object = object}

\* put_fact: ON CONFLICT DO NOTHING keeps the first actor.
Insert(a) == IF \E f \in facts : SameKey(f, a) THEN facts ELSE facts \cup {a}

\* Mutant: the old name is kept.
KeepRenames(object) == facts

\* delete_annotation_facts of the renames
DeleteRenames(object) ==
  {f \in facts : ~(f.object = object /\ f.kind = "rename")}

\* delete_annotation_fact_exact, whoever asserted it
DeleteExact(a) == {f \in facts : ~SameKey(f, a)}
-----------------------------------------------------------------------------
Idle == [pc |-> "idle"]

At(p, pc) == procs[p].pc = pc
GoTo(p, state) == procs' = [procs EXCEPT ![p] = state]
Start(p) == At(p, "idle") /\ Len(log) < MaxEvents

\* put_annotation: a rename first deletes the renames of its object.
PutAnnotation(p, a) ==
  /\ Start(p)
  /\ GoTo(p, [pc |-> IF a.kind = "rename" THEN "delete" ELSE "insert",
              note |-> a])
  /\ UNCHANGED <<facts, log, stopped>>

DeleteOldRenames(p) ==
  /\ At(p, "delete")
  /\ facts' = DeleteRenames(procs[p].note.object)
  /\ GoTo(p, [procs[p] EXCEPT !.pc = "insert"])
  /\ UNCHANGED <<log, stopped>>

\* Mutant: the call returns once the fact is stored.
InsertUnlogged(p) ==
  /\ At(p, "insert")
  /\ facts' = Insert(procs[p].note)
  /\ GoTo(p, Idle)
  /\ UNCHANGED <<log, stopped>>

InsertFact(p) ==
  /\ At(p, "insert")
  /\ facts' = Insert(procs[p].note)
  /\ GoTo(p, [procs[p] EXCEPT !.pc = "log"])
  /\ UNCHANGED <<log, stopped>>

LogAdded(p) ==
  /\ At(p, "log")
  /\ log' = Append(log, Added(procs[p].note))
  /\ GoTo(p, IF procs[p].note.kind = "rename"
             THEN [pc |-> "select", object |-> procs[p].note.object,
                   seq |-> Len(log) + 1]
             ELSE Idle)
  /\ UNCHANGED <<facts, stopped>>

\* retire_rename_events_for reads the log once...
SelectRetired(p) ==
  /\ At(p, "select")
  /\ GoTo(p, [pc |-> "retire",
              rows |-> ActiveRenames(procs[p].object, procs[p].seq)])
  /\ UNCHANGED <<facts, log, stopped>>

\* ...and then appends one event per row, the oldest first.
RetireOne(p) ==
  /\ At(p, "retire")
  /\ \E n \in procs[p].rows :
       /\ \A m \in procs[p].rows : n <= m
       /\ log' = Append(log, Undone(n))
       /\ GoTo(p, [procs[p] EXCEPT !.rows = @ \ {n}])
  /\ UNCHANGED <<facts, stopped>>

RetireDone(p) ==
  /\ At(p, "retire") /\ procs[p].rows = {}
  /\ GoTo(p, Idle)
  /\ UNCHANGED <<facts, log, stopped>>

\* undo_last_annotation, when the actor has something to undo
UndoLastAnnotation(p, actor) ==
  /\ Start(p)
  /\ \E n \in Active :
       /\ IsLatestActive(actor, n)
       /\ GoTo(p, [pc |-> "undo", seq |-> n])
  /\ UNCHANGED <<facts, log, stopped>>

UndoFact(p) ==
  /\ At(p, "undo")
  /\ facts' = DeleteExact(log[procs[p].seq].note)
  /\ GoTo(p, [procs[p] EXCEPT !.pc = "logUndone"])
  /\ UNCHANGED <<log, stopped>>

LogUndone(p) ==
  /\ At(p, "logUndone")
  /\ log' = Append(log, Undone(procs[p].seq))
  /\ GoTo(p, Idle)
  /\ UNCHANGED <<facts, stopped>>

\* The process is killed, or its next statement fails and the call returns.
Stop(p) ==
  /\ CanStop
  /\ ~At(p, "idle")
  /\ GoTo(p, Idle)
  /\ stopped' = TRUE
  /\ UNCHANGED <<facts, log>>
-----------------------------------------------------------------------------
Init ==
  /\ facts = {}
  /\ log = <<>>
  /\ procs = [p \in Processes |-> Idle]
  /\ stopped = FALSE

Put(p) ==
  \/ \E a \in Annotation : PutAnnotation(p, a)
  \/ DeleteOldRenames(p)
  \/ InsertFact(p)
  \/ LogAdded(p)
  \/ SelectRetired(p)
  \/ RetireOne(p)
  \/ RetireDone(p)

TakeBack(p) ==
  \/ \E actor \in Actors : UndoLastAnnotation(p, actor)
  \/ UndoFact(p)
  \/ LogUndone(p)

Next == \E p \in Processes : Put(p) \/ TakeBack(p) \/ Stop(p)

Spec == Init /\ [][Next]_vars
-----------------------------------------------------------------------------
Event == [type : {"added"}, note : Annotation]
         \cup [type : {"undone"}, added : Nat \ {0}]
Process == [pc : {"idle"}]
           \cup [pc : {"delete", "insert", "log"}, note : Annotation]
           \cup [pc : {"select"}, object : Objects, seq : Nat \ {0}]
           \cup [pc : {"retire"}, rows : SUBSET (Nat \ {0})]
           \cup [pc : {"undo", "logUndone"}, seq : Nat \ {0}]

\* The rows of the two tables and the locals of each call; every row number
\* a process or an event holds is that of an annotation_added event.
TypeOK ==
  /\ facts \in SUBSET Annotation
  /\ log \in Seq(Event)
  /\ procs \in [Processes -> Process]
  /\ stopped \in BOOLEAN
  /\ UndoneSeqs \subseteq AddedSeqs
  /\ \A p \in Processes :
       /\ procs[p].pc \in {"undo", "logUndone"} => procs[p].seq \in AddedSeqs
       /\ At(p, "retire") => procs[p].rows \subseteq AddedSeqs

\* An object has at most one name: "Renames replace: a second rename on the
\* same object retires the first so function_summaries stays deterministic".
AtMostOneRename ==
  \A f, g \in facts :
    f.kind = "rename" /\ g.kind = "rename" /\ f.object = g.object => f = g

\* "The newest annotation_added whose seq is not already referenced by an
\* annotation_undone event is retired": no event is retired twice, so one
\* undo takes back one annotation.
UndoneOnce ==
  \A m, n \in DOMAIN log \ AddedSeqs : log[m] = log[n] => m = n

\* "Every annotation also writes an annotation_added event": a fact has its
\* event, or the process that inserted it is about to write one, unless a call
\* was cut short in between.
FactIsLogged ==
  ~stopped =>
    \A f \in facts :
      \/ \E n \in AddedSeqs : SameKey(log[n].note, f)
      \/ \E p \in Processes : At(p, "log") /\ SameKey(procs[p].note, f)

Quiet == \A p \in Processes : At(p, "idle")
HasFact(n) == \E f \in facts : SameKey(f, log[n].note)
MadeOnce(n) == \A m \in AddedSeqs \ {n} : ~SameKey(log[m].note, log[n].note)

\* Between commands, if none was cut short, the audit log and the facts agree:
\* what the log holds active is a fact, if it is a rename or was only made
\* once, and every fact is held active by the log.
LogMatchesFacts ==
  Quiet /\ ~stopped =>
    /\ \A n \in Active :
         log[n].note.kind = "rename" \/ MadeOnce(n) => HasFact(n)
    /\ \A f \in facts : \E n \in Active : SameKey(log[n].note, f)

\* "Undo never pops a superseded fact": what the log holds active, and an
\* undo would therefore pop, is a fact.
ActiveHasFact == Quiet => \A n \in Active : HasFact(n)

\* The book of annotations, read from the log: what is active and was not
\* replaced by a later rename.
Standing ==
  {n \in Active :
     ~\E m \in AddedSeqs : /\ m > n
                           /\ log[m].note.kind = "rename"
                           /\ log[n].note.kind = "rename"
                           /\ log[m].note.object = log[n].note.object}

Book == INSTANCE AnnotationBook WITH book <- [n \in Standing |-> log[n].note]
BookSpec == Book!Spec
=============================================================================
