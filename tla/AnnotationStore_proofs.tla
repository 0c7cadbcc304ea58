------------------------ MODULE AnnotationStore_proofs ------------------------
(***************************************************************************)
(* What holds of the annotations for any numbers of actors, functions,     *)
(* values and events.                                                      *)
(*                                                                         *)
(* FactIsLogged holds however many processes interleave, until a call is   *)
(* cut short.  AtMostOneRename and UndoneOnce hold wherever calls are cut  *)
(* short, but need that one process works at a time: of two that rename    *)
(* one function both delete before either inserts, and two names stay.     *)
(* LogMatchesFacts needs one process and no call cut short.  That the log  *)
(* implements AnnotationBook needs one process.                            *)
(***************************************************************************)
EXTENDS AnnotationStore, TLAPS

OneAtATime == \A p, q \in Processes : p = q

\* An appended annotation_added event is a new row and disturbs none.
LEMMA AppendAdded ==
  ASSUME log \in Seq(Event), NEW a \in Annotation, log' = Append(log, Added(a))
  PROVE  /\ log' \in Seq(Event)
         /\ AddedSeqs' = AddedSeqs \cup {Len(log) + 1}
         /\ DOMAIN log' \ AddedSeqs' = DOMAIN log \ AddedSeqs
         /\ \A n \in DOMAIN log : log'[n] = log[n]
         /\ log'[Len(log) + 1] = Added(a)
         /\ Len(log) + 1 \notin DOMAIN log
<1>1. Added(a) \in Event
  BY DEF Added, Event
<1>2. log' \in Seq(Event) /\ Len(log) \in Nat
  BY <1>1
<1>3. /\ DOMAIN log' = DOMAIN log \cup {Len(log) + 1}
      /\ Len(log) + 1 \notin DOMAIN log
  BY <1>1
<1>4. \A n \in DOMAIN log : log'[n] = log[n]
  BY <1>1
<1>5. log'[Len(log) + 1] = Added(a)
  BY <1>1
<1>6. AddedSeqs' = AddedSeqs \cup {Len(log) + 1}
  BY <1>3, <1>4, <1>5 DEF AddedSeqs, Added
<1>7. DOMAIN log' \ AddedSeqs' = DOMAIN log \ AddedSeqs
  BY <1>3, <1>6
<1> QED
  BY <1>2, <1>3, <1>4, <1>5, <1>6, <1>7

\* So does an annotation_undone event.
LEMMA AppendUndone ==
  ASSUME log \in Seq(Event), NEW k \in Nat \ {0}, log' = Append(log, Undone(k))
  PROVE  /\ log' \in Seq(Event)
         /\ AddedSeqs' = AddedSeqs
         /\ DOMAIN log' \ AddedSeqs' = (DOMAIN log \ AddedSeqs) \cup {Len(log) + 1}
         /\ \A n \in DOMAIN log : log'[n] = log[n]
         /\ log'[Len(log) + 1] = Undone(k)
         /\ Len(log) + 1 \notin DOMAIN log
<1>1. Undone(k) \in Event
  BY DEF Undone, Event
<1>2. log' \in Seq(Event) /\ Len(log) \in Nat
  BY <1>1
<1>3. /\ DOMAIN log' = DOMAIN log \cup {Len(log) + 1}
      /\ Len(log) + 1 \notin DOMAIN log
  BY <1>1
<1>4. \A n \in DOMAIN log : log'[n] = log[n]
  BY <1>1
<1>5. log'[Len(log) + 1] = Undone(k)
  BY <1>1
<1>6. AddedSeqs' = AddedSeqs
  BY <1>3, <1>4, <1>5 DEF AddedSeqs, Undone
<1>7. DOMAIN log' \ AddedSeqs' = (DOMAIN log \ AddedSeqs) \cup {Len(log) + 1}
  BY <1>3, <1>6 DEF AddedSeqs
<1> QED
  BY <1>2, <1>3, <1>4, <1>5, <1>6, <1>7

\* The undone rows refer to what they did before, and one more.
LEMMA UndoneGrows ==
  ASSUME log \in Seq(Event), NEW k \in Nat \ {0}, log' = Append(log, Undone(k))
  PROVE  UndoneSeqs' = UndoneSeqs \cup {k}
<1>1. /\ DOMAIN log' \ AddedSeqs' = (DOMAIN log \ AddedSeqs) \cup {Len(log) + 1}
      /\ \A n \in DOMAIN log : log'[n] = log[n]
      /\ log'[Len(log) + 1] = Undone(k)
  BY AppendUndone
<1>2. UndoneSeqs' = {log'[n].added : n \in (DOMAIN log \ AddedSeqs) \cup {Len(log) + 1}}
  BY <1>1 DEF UndoneSeqs
<1>3. log'[Len(log) + 1].added = k
  BY <1>1 DEF Undone
<1> QED
  BY <1>1, <1>2, <1>3 DEF UndoneSeqs

\* An annotation_added event refers to nothing.
LEMMA UndoneStays ==
  ASSUME log \in Seq(Event), NEW a \in Annotation, log' = Append(log, Added(a))
  PROVE  UndoneSeqs' = UndoneSeqs
<1>1. /\ DOMAIN log' \ AddedSeqs' = DOMAIN log \ AddedSeqs
      /\ \A n \in DOMAIN log : log'[n] = log[n]
  BY AppendAdded
<1> QED
  BY <1>1 DEF UndoneSeqs

\* A step of one process types if the process ends up in a typed state, its
\* rows are annotation_added rows, and the tables are typed.
LEMMA StepTyped ==
  ASSUME TypeOK, NEW p \in Processes, NEW s \in Process, GoTo(p, s),
         facts' \in SUBSET Annotation,
         log' \in Seq(Event),
         stopped' \in BOOLEAN,
         AddedSeqs \subseteq AddedSeqs',
         UndoneSeqs' \subseteq AddedSeqs',
         s.pc \in {"undo", "logUndone"} => s.seq \in AddedSeqs',
         s.pc = "retire" => s.rows \subseteq AddedSeqs'
  PROVE  TypeOK'
<1>1. procs' \in [Processes -> Process]
  BY DEF TypeOK, GoTo
<1>2. ASSUME NEW q \in Processes
      PROVE  /\ procs'[q].pc \in {"undo", "logUndone"}
                  => procs'[q].seq \in AddedSeqs'
             /\ procs'[q].pc = "retire" => procs'[q].rows \subseteq AddedSeqs'
  <2>1. CASE q = p
    <3>1. procs'[q] = s
      BY <2>1 DEF GoTo, TypeOK
    <3> QED
      BY <3>1
  <2>2. CASE q # p
    <3>1. procs'[q] = procs[q]
      BY <2>2 DEF GoTo, TypeOK
    <3> QED
      BY <3>1 DEF TypeOK, At
  <2> QED
    BY <2>1, <2>2
<1> QED
  BY <1>1, <1>2 DEF TypeOK, At

\* The steps of put_annotation keep the types.
LEMMA PutTyped ==
  ASSUME TypeOK, NEW p \in Processes, Put(p)
  PROVE  TypeOK'
<1>0. procs[p] \in Process /\ log \in Seq(Event) /\ facts \in SUBSET Annotation
  BY DEF TypeOK
<1>a. procs[p].pc \in {"delete", "insert", "log"} => procs[p].note \in Annotation
  BY <1>0 DEF Process
<1>u. UNCHANGED log => UNCHANGED <<AddedSeqs, UndoneSeqs>>
  BY DEF AddedSeqs, UndoneSeqs
<1>h. stopped' \in BOOLEAN
  BY DEF TypeOK, Put, PutAnnotation, DeleteOldRenames, InsertFact, LogAdded,
         SelectRetired, RetireOne, RetireDone
<1>1. CASE \E a \in Annotation : PutAnnotation(p, a)
  <2> PICK a \in Annotation : PutAnnotation(p, a)
    BY <1>1
  <2> DEFINE s == [pc |-> IF a.kind = "rename" THEN "delete" ELSE "insert",
                   note |-> a]
  <2>1. s \in Process /\ s.pc \in {"delete", "insert"}
    BY DEF Process
  <2>2. GoTo(p, s) /\ UNCHANGED <<facts, log>>
    BY DEF PutAnnotation
  <2> HIDE DEF s
  <2> QED
    BY <1>0, <1>h, <1>u, <2>1, <2>2, StepTyped DEF TypeOK
<1>2. CASE DeleteOldRenames(p)
  <2> DEFINE s == [procs[p] EXCEPT !.pc = "insert"]
  <2>1. procs[p].pc = "delete" /\ GoTo(p, s) /\ UNCHANGED log
    BY <1>2 DEF DeleteOldRenames, At
  <2>2. procs[p] \in [pc : {"delete", "insert", "log"}, note : Annotation]
    BY <1>0, <2>1 DEF Process
  <2>3. s \in Process /\ s.pc = "insert"
    BY <2>2 DEF Process
  <2>4. facts' \in SUBSET Annotation
    BY <1>0, <1>2 DEF DeleteOldRenames, DeleteRenames
  <2> HIDE DEF s
  <2> QED
    BY <1>0, <1>h, <1>u, <2>1, <2>3, <2>4, StepTyped DEF TypeOK
<1>3. CASE InsertFact(p)
  <2> DEFINE s == [procs[p] EXCEPT !.pc = "log"]
  <2>1. procs[p].pc = "insert" /\ GoTo(p, s) /\ UNCHANGED log
    BY <1>3 DEF InsertFact, At
  <2>2. procs[p] \in [pc : {"delete", "insert", "log"}, note : Annotation]
    BY <1>0, <2>1 DEF Process
  <2>3. s \in Process /\ s.pc = "log"
    BY <2>2 DEF Process
  <2>4. facts' \in SUBSET Annotation
    BY <1>0, <1>a, <2>1, <1>3 DEF InsertFact, Insert
  <2> HIDE DEF s
  <2> QED
    BY <1>0, <1>h, <1>u, <2>1, <2>3, <2>4, StepTyped DEF TypeOK
<1>4. CASE LogAdded(p)
  <2> DEFINE s == IF procs[p].note.kind = "rename"
                  THEN [pc |-> "select", object |-> procs[p].note.object,
                        seq |-> Len(log) + 1]
                  ELSE Idle
  <2>1. procs[p].pc = "log" /\ GoTo(p, s) /\ UNCHANGED facts
    BY <1>4 DEF LogAdded, At
  <2>2. procs[p].note \in Annotation /\ log' = Append(log, Added(procs[p].note))
    BY <1>a, <2>1, <1>4 DEF LogAdded
  <2>3. procs[p].note.object \in Objects /\ Len(log) + 1 \in Nat \ {0}
    BY <1>0, <2>2 DEF Annotation
  <2>4. s \in Process /\ s.pc \in {"select", "idle"}
    BY <2>3 DEF Process, Idle
  <2>5. log' \in Seq(Event) /\ AddedSeqs \subseteq AddedSeqs'
    BY <1>0, <2>2, AppendAdded
  <2>6. UndoneSeqs' = UndoneSeqs
    BY <1>0, <2>2, UndoneStays
  <2> HIDE DEF s
  <2> QED
    BY <1>0, <1>h, <2>1, <2>4, <2>5, <2>6, StepTyped DEF TypeOK
<1>5. CASE SelectRetired(p)
  <2> DEFINE s == [pc |-> "retire",
                   rows |-> ActiveRenames(procs[p].object, procs[p].seq)]
  <2>1. GoTo(p, s) /\ UNCHANGED <<facts, log>>
    BY <1>5 DEF SelectRetired
  <2>2. ActiveRenames(procs[p].object, procs[p].seq) \subseteq AddedSeqs
    BY DEF ActiveRenames, Active
  <2>3. AddedSeqs \subseteq Nat \ {0}
    BY <1>0 DEF AddedSeqs
  <2>4. s \in Process /\ s.pc = "retire" /\ s.rows \subseteq AddedSeqs
    BY <2>2, <2>3 DEF Process
  <2> HIDE DEF s
  <2> QED
    BY <1>0, <1>h, <1>u, <2>1, <2>4, StepTyped DEF TypeOK
<1>6. CASE RetireOne(p)
  <2> PICK n \in procs[p].rows : /\ log' = Append(log, Undone(n))
                                 /\ GoTo(p, [procs[p] EXCEPT !.rows = @ \ {n}])
    BY <1>6 DEF RetireOne
  <2> DEFINE s == [procs[p] EXCEPT !.rows = procs[p].rows \ {n}]
  <2>1. procs[p].pc = "retire" /\ UNCHANGED facts /\ GoTo(p, s)
    BY <1>6 DEF RetireOne, At
  <2>2. procs[p].rows \subseteq AddedSeqs /\ n \in AddedSeqs
    BY <2>1 DEF TypeOK, At
  <2>3. procs[p] \in [pc : {"retire"}, rows : SUBSET (Nat \ {0})]
    BY <1>0, <2>1 DEF Process
  <2>4. s \in [pc : {"retire"}, rows : SUBSET (Nat \ {0})]
    BY <2>3
  <2>5. s \in Process /\ s.rows \subseteq AddedSeqs
    BY <2>2, <2>3, <2>4 DEF Process
  <2>6. n \in Nat \ {0}
    BY <2>3
  <2>7. log' \in Seq(Event) /\ AddedSeqs' = AddedSeqs
    BY <1>0, <2>6, AppendUndone
  <2>8. UndoneSeqs' = UndoneSeqs \cup {n}
    BY <1>0, <2>6, UndoneGrows
  <2>9. s.pc = "retire"
    BY <2>4
  <2> HIDE DEF s
  <2> QED
    BY <1>0, <1>h, <2>1, <2>2, <2>5, <2>7, <2>8, <2>9, StepTyped DEF TypeOK
<1>7. CASE RetireDone(p)
  <2>1. Idle \in Process /\ Idle.pc = "idle"
    BY DEF Process, Idle
  <2> QED
    BY <1>0, <1>h, <1>u, <1>7, <2>1, StepTyped DEF TypeOK, RetireDone
<1> QED
  BY <1>1, <1>2, <1>3, <1>4, <1>5, <1>6, <1>7 DEF Put

\* So do the steps of undo_last_annotation, and the end of a process.
LEMMA TakeBackTyped ==
  ASSUME TypeOK, NEW p \in Processes, TakeBack(p) \/ Stop(p)
  PROVE  TypeOK'
<1>0. procs[p] \in Process /\ log \in Seq(Event) /\ facts \in SUBSET Annotation
  BY DEF TypeOK
<1>u. UNCHANGED log => UNCHANGED <<AddedSeqs, UndoneSeqs>>
  BY DEF AddedSeqs, UndoneSeqs
<1>h. stopped' \in BOOLEAN
  BY DEF TypeOK, TakeBack, UndoLastAnnotation, UndoFact, LogUndone, Stop
<1>i. Idle \in Process /\ Idle.pc = "idle"
  BY DEF Process, Idle
<1>1. CASE \E actor \in Actors : UndoLastAnnotation(p, actor)
  <2> PICK n \in Active : GoTo(p, [pc |-> "undo", seq |-> n])
    BY <1>1 DEF UndoLastAnnotation
  <2> DEFINE s == [pc |-> "undo", seq |-> n]
  <2>1. GoTo(p, s) /\ UNCHANGED <<facts, log>>
    BY <1>1 DEF UndoLastAnnotation
  <2>2. n \in AddedSeqs /\ n \in Nat \ {0}
    BY <1>0 DEF Active, AddedSeqs
  <2>3. s \in Process /\ s.seq \in AddedSeqs /\ s.pc = "undo"
    BY <2>2 DEF Process
  <2> HIDE DEF s
  <2> QED
    BY <1>0, <1>h, <1>u, <2>1, <2>3, StepTyped DEF TypeOK
<1>2. CASE UndoFact(p)
  <2> DEFINE s == [procs[p] EXCEPT !.pc = "logUndone"]
  <2>1. procs[p].pc = "undo" /\ GoTo(p, s) /\ UNCHANGED log
    BY <1>2 DEF UndoFact, At
  <2>2. procs[p] \in [pc : {"undo", "logUndone"}, seq : Nat \ {0}]
    BY <1>0, <2>1 DEF Process
  <2>3. s \in Process /\ s.pc = "logUndone" /\ s.seq = procs[p].seq
    BY <2>2 DEF Process
  <2>4. facts' \in SUBSET Annotation
    BY <1>0, <1>2 DEF UndoFact, DeleteExact
  <2>5. s.seq \in AddedSeqs
    BY <2>1, <2>3 DEF TypeOK
  <2> HIDE DEF s
  <2> QED
    BY <1>0, <1>h, <1>u, <2>1, <2>3, <2>4, <2>5, StepTyped DEF TypeOK
<1>3. CASE LogUndone(p)
  <2> DEFINE n == procs[p].seq
  <2>1. /\ procs[p].pc = "logUndone" /\ GoTo(p, Idle) /\ UNCHANGED facts
        /\ log' = Append(log, Undone(n))
    BY <1>3 DEF LogUndone, At
  <2>2. n \in AddedSeqs
    BY <2>1 DEF TypeOK
  <2>3. n \in Nat \ {0}
    BY <1>0, <2>2 DEF AddedSeqs
  <2> HIDE DEF n
  <2>4. log' \in Seq(Event) /\ AddedSeqs' = AddedSeqs
    BY <1>0, <2>1, <2>3, AppendUndone
  <2>5. UndoneSeqs' = UndoneSeqs \cup {n}
    BY <1>0, <2>1, <2>3, UndoneGrows
  <2> QED
    BY <1>0, <1>h, <1>i, <2>1, <2>2, <2>4, <2>5, StepTyped DEF TypeOK
<1>4. CASE Stop(p)
  BY <1>0, <1>h, <1>u, <1>i, <1>4, StepTyped DEF TypeOK, Stop
<1> QED
  BY <1>1, <1>2, <1>3, <1>4 DEF TakeBack

\* The empty project is typed.
LEMMA InitTyped == Init => TypeOK
<1> SUFFICES ASSUME Init PROVE TypeOK
  OBVIOUS
<1>1. Idle \in Process /\ Idle.pc = "idle"
  BY DEF Process, Idle
<1>2. log = <<>> /\ log \in Seq(Event) /\ DOMAIN log = {}
  BY DEF Init
<1>3. UndoneSeqs \subseteq AddedSeqs
  BY <1>2 DEF UndoneSeqs, AddedSeqs
<1> QED
  BY <1>1, <1>2, <1>3 DEF Init, TypeOK, At

\* Every step keeps the types.
LEMMA NextTyped == TypeOK /\ [Next]_vars => TypeOK'
<1> SUFFICES ASSUME TypeOK, [Next]_vars PROVE TypeOK'
  OBVIOUS
<1>1. CASE Next
  BY <1>1, PutTyped, TakeBackTyped DEF Next
<1>2. CASE UNCHANGED vars
  BY <1>2 DEF vars, TypeOK, UndoneSeqs, AddedSeqs, At
<1> QED
  BY <1>1, <1>2

\* The tables and the locals of every call are typed, and a row number held
\* by a process or an event is always that of an annotation_added event.
THEOREM AnnotationsTyped == Spec => []TypeOK
  BY InitTyped, NextTyped, PTL DEF Spec

-----------------------------------------------------------------------------
(* Every fact has its event, as long as no call is cut short.              *)

\* A fact that has its event keeps it, whatever is appended.
LEMMA EventsStay ==
  ASSUME TypeOK, TypeOK', AddedSeqs \subseteq AddedSeqs',
         \A n \in DOMAIN log : log'[n] = log[n],
         NEW f \in Annotation, \E n \in AddedSeqs : SameKey(log[n].note, f)
  PROVE  \E n \in AddedSeqs' : SameKey(log'[n].note, f)
  BY DEF AddedSeqs

\* What a step appends to the log leaves the earlier rows alone.
LEMMA LogOnlyGrows ==
  ASSUME TypeOK, NEW p \in Processes, Put(p) \/ TakeBack(p)
  PROVE  /\ AddedSeqs \subseteq AddedSeqs'
         /\ \A n \in DOMAIN log : log'[n] = log[n]
<1>0. procs[p] \in Process /\ log \in Seq(Event)
  BY DEF TypeOK
<1>1. CASE UNCHANGED log
  BY <1>1 DEF AddedSeqs
<1>2. CASE LogAdded(p)
  <2>1. procs[p].note \in Annotation /\ log' = Append(log, Added(procs[p].note))
    BY <1>0, <1>2 DEF LogAdded, At, Process
  <2> QED
    BY <1>0, <2>1, AppendAdded
<1>3. CASE RetireOne(p)
  <2>1. PICK n \in procs[p].rows : log' = Append(log, Undone(n))
    BY <1>3 DEF RetireOne
  <2>2. n \in Nat \ {0}
    BY <1>0, <1>3 DEF RetireOne, At, Process
  <2> QED
    BY <1>0, <2>1, <2>2, AppendUndone
<1>4. CASE LogUndone(p)
  <2>1. procs[p].seq \in Nat \ {0} /\ log' = Append(log, Undone(procs[p].seq))
    BY <1>0, <1>4 DEF LogUndone, At, Process
  <2> QED
    BY <1>0, <2>1, AppendUndone
<1> QED
  BY <1>1, <1>2, <1>3, <1>4
     DEF Put, TakeBack, PutAnnotation, DeleteOldRenames, InsertFact,
         SelectRetired, RetireDone, UndoLastAnnotation, UndoFact

\* A process that is about to log only gets past that by logging.
LEMMA PendingIsLogged ==
  ASSUME TypeOK, NEW p \in Processes, Put(p) \/ TakeBack(p),
         NEW q \in Processes, At(q, "log")
  PROVE  \/ At(q, "log")' /\ procs'[q].note = procs[q].note
         \/ \E n \in AddedSeqs' : log'[n].note = procs[q].note
<1>0. procs[p] \in Process /\ log \in Seq(Event)
  BY DEF TypeOK
<1>1. CASE p # q
  <2>1. procs'[q] = procs[q]
    BY <1>1 DEF TypeOK, GoTo, Put, TakeBack, PutAnnotation, DeleteOldRenames,
                InsertFact, LogAdded, SelectRetired, RetireOne, RetireDone,
                UndoLastAnnotation, UndoFact, LogUndone
  <2> QED
    BY <2>1 DEF At
<1>2. CASE p = q
  <2>1. procs[p].pc = "log"
    BY <1>2 DEF At
  <2>2. LogAdded(p)
    BY <2>1 DEF Put, TakeBack, PutAnnotation, DeleteOldRenames, InsertFact,
                SelectRetired, RetireOne, RetireDone, UndoLastAnnotation,
                UndoFact, LogUndone, Start, At
  <2>3. procs[p].note \in Annotation /\ log' = Append(log, Added(procs[p].note))
    BY <1>0, <2>1, <2>2 DEF LogAdded, Process
  <2>4. /\ Len(log) + 1 \in AddedSeqs'
        /\ log'[Len(log) + 1] = Added(procs[p].note)
    BY <1>0, <2>3, AppendAdded
  <2>5. log'[Len(log) + 1].note = procs[p].note
    BY <2>4 DEF Added
  <2> QED
    BY <1>2, <2>4, <2>5
<1> QED
  BY <1>1, <1>2

\* A step adds at most the fact the process goes on to log.
LEMMA NewFactIsPending ==
  ASSUME TypeOK, NEW p \in Processes, Put(p) \/ TakeBack(p),
         NEW f \in facts', f \notin facts
  PROVE  At(p, "log")' /\ procs'[p].note = f
<1>1. InsertFact(p)
  BY DEF Put, TakeBack, PutAnnotation, DeleteOldRenames, LogAdded,
         SelectRetired, RetireOne, RetireDone, UndoLastAnnotation, UndoFact,
         LogUndone, DeleteRenames, DeleteExact
<1>2. f = procs[p].note
  BY <1>1 DEF InsertFact, Insert
<1>3. procs'[p] = [procs[p] EXCEPT !.pc = "log"]
  BY <1>1 DEF InsertFact, GoTo, TypeOK
<1>4. procs[p] \in [pc : {"delete", "insert", "log"}, note : Annotation]
  BY <1>1 DEF InsertFact, At, TypeOK, Process
<1>5. procs'[p].pc = "log" /\ procs'[p].note = procs[p].note
  BY <1>3, <1>4
<1> QED
  BY <1>2, <1>5 DEF At

\* Until a call is cut short every fact has its event, however many processes
\* interleave ("Every annotation also writes an annotation_added event").
THEOREM FactsAreLogged == Spec => []FactIsLogged
<1>1. Init => FactIsLogged
  BY DEF Init, FactIsLogged
<1>2. TypeOK /\ TypeOK' /\ FactIsLogged /\ [Next]_vars => FactIsLogged'
  <2> SUFFICES ASSUME TypeOK, TypeOK', FactIsLogged, [Next]_vars
               PROVE  FactIsLogged'
    OBVIOUS
  <2>1. CASE UNCHANGED vars
    BY <2>1 DEF vars, FactIsLogged, AddedSeqs, At
  <2>2. CASE \E p \in Processes : Stop(p)
    BY <2>2 DEF Stop, FactIsLogged
  <2>3. CASE stopped'
    BY <2>3 DEF FactIsLogged
  <2>4. CASE /\ ~stopped'
             /\ \E p \in Processes : Put(p) \/ TakeBack(p)
    <3> PICK p \in Processes : Put(p) \/ TakeBack(p)
      BY <2>4
    <3>0. ~stopped
      BY <2>4 DEF Put, PutAnnotation, DeleteOldRenames, InsertFact, LogAdded,
                  SelectRetired, RetireOne, RetireDone, TakeBack,
                  UndoLastAnnotation, UndoFact, LogUndone
    <3>1. AddedSeqs \subseteq AddedSeqs' /\ \A n \in DOMAIN log : log'[n] = log[n]
      BY LogOnlyGrows
    <3> SUFFICES ASSUME NEW f \in facts'
                 PROVE  \/ \E n \in AddedSeqs' : SameKey(log'[n].note, f)
                        \/ \E q \in Processes : At(q, "log")' /\ SameKey(procs'[q].note, f)
      BY DEF FactIsLogged
    <3>2. f \in Annotation
      BY DEF TypeOK
    <3>3. CASE f \notin facts
      <4>1. At(p, "log")' /\ procs'[p].note = f
        BY <3>3, NewFactIsPending
      <4>2. SameKey(procs'[p].note, f)
        BY <4>1 DEF SameKey
      <4> QED
        BY <4>1, <4>2
    <3>4. CASE f \in facts /\ \E n \in AddedSeqs : SameKey(log[n].note, f)
      BY <3>1, <3>2, <3>4, EventsStay
    <3>5. CASE f \in facts
               /\ \E q \in Processes : At(q, "log") /\ SameKey(procs[q].note, f)
      <4> PICK q \in Processes : At(q, "log") /\ SameKey(procs[q].note, f)
        BY <3>5
      <4>1. \/ At(q, "log")' /\ procs'[q].note = procs[q].note
            \/ \E n \in AddedSeqs' : log'[n].note = procs[q].note
        BY PendingIsLogged
      <4> QED
        BY <4>1
    <3> QED
      BY <3>0, <3>3, <3>4, <3>5 DEF FactIsLogged
  <2> QED
    BY <2>1, <2>2, <2>3, <2>4 DEF Next
<1> QED
  BY <1>1, <1>2, AnnotationsTyped, PTL DEF Spec

-----------------------------------------------------------------------------
(* One name per function, as long as one process works at a time.          *)

HasRename(object) == \E f \in facts : f.kind = "rename" /\ f.object = object

\* A rename that is about to be inserted finds none.
ClearForRename ==
  \A p \in Processes :
    At(p, "insert") /\ procs[p].note.kind = "rename"
      => ~HasRename(procs[p].note.object)

\* When one process works at a time, an object has at most one name, also if
\* calls are cut short ("Renames replace").
THEOREM OneName ==
  ASSUME OneAtATime
  PROVE  Spec => []AtMostOneRename
<1>1. Init => AtMostOneRename /\ ClearForRename
  BY DEF Init, AtMostOneRename, ClearForRename, HasRename
<1>2. TypeOK /\ AtMostOneRename /\ ClearForRename /\ [Next]_vars
        => AtMostOneRename' /\ ClearForRename'
  <2> SUFFICES ASSUME TypeOK, AtMostOneRename, ClearForRename, [Next]_vars
               PROVE  AtMostOneRename' /\ ClearForRename'
    OBVIOUS
  <2>0. CASE UNCHANGED vars
    BY <2>0 DEF vars, AtMostOneRename, ClearForRename, HasRename, At
  <2>n. CASE Next
    <3> PICK p \in Processes : Put(p) \/ TakeBack(p) \/ Stop(p)
      BY <2>n DEF Next
    <3>0. Processes = {p} /\ procs[p] \in Process
      BY DEF OneAtATime, TypeOK
    <3>1. CASE InsertFact(p)
      <4>1. /\ procs[p].pc = "insert" /\ facts' = Insert(procs[p].note)
            /\ procs' = [procs EXCEPT ![p] = [procs[p] EXCEPT !.pc = "log"]]
        BY <3>1 DEF InsertFact, At, GoTo
      <4>2. procs[p] \in [pc : {"delete", "insert", "log"}, note : Annotation]
        BY <3>0, <4>1 DEF Process
      <4>3. procs'[p].pc = "log"
        BY <4>1, <4>2 DEF TypeOK
      <4>4. ClearForRename'
        BY <3>0, <4>3 DEF ClearForRename, At
      <4>5. \A f \in facts' : f \in facts \/ f = procs[p].note
        BY <4>1 DEF Insert
      <4>6. procs[p].note.kind = "rename" => ~HasRename(procs[p].note.object)
        BY <4>1 DEF ClearForRename, At
      <4>7. AtMostOneRename'
        BY <4>5, <4>6 DEF AtMostOneRename, HasRename
      <4> QED
        BY <4>4, <4>7
    <3>2. CASE DeleteOldRenames(p)
      <4>1. /\ procs[p].pc = "delete"
            /\ facts' = DeleteRenames(procs[p].note.object)
            /\ procs' = [procs EXCEPT ![p] = [procs[p] EXCEPT !.pc = "insert"]]
        BY <3>2 DEF DeleteOldRenames, At, GoTo
      <4>2. procs[p] \in [pc : {"delete", "insert", "log"}, note : Annotation]
        BY <3>0, <4>1 DEF Process
      <4>3. procs'[p].note = procs[p].note
        BY <4>1, <4>2 DEF TypeOK
      <4>4. facts' \subseteq facts /\ ~HasRename(procs[p].note.object)'
        BY <4>1, <4>3 DEF DeleteRenames, HasRename
      <4>5. ClearForRename'
        BY <3>0, <4>3, <4>4 DEF ClearForRename, HasRename
      <4>6. AtMostOneRename'
        BY <4>4 DEF AtMostOneRename
      <4> QED
        BY <4>5, <4>6
    <3>3. CASE \E a \in Annotation : PutAnnotation(p, a)
      <4> PICK a \in Annotation : PutAnnotation(p, a)
        BY <3>3
      <4>1. /\ UNCHANGED facts
            /\ procs'[p] = [pc |-> IF a.kind = "rename" THEN "delete" ELSE "insert",
                            note |-> a]
        BY DEF PutAnnotation, GoTo, TypeOK
      <4>2. procs'[p].pc = "insert" => procs'[p].note.kind # "rename"
        BY <4>1
      <4>3. ClearForRename'
        BY <3>0, <4>2 DEF ClearForRename, At
      <4> QED
        BY <4>1, <4>3 DEF AtMostOneRename
    <3>4. ASSUME ~InsertFact(p), ~DeleteOldRenames(p),
                 ~\E a \in Annotation : PutAnnotation(p, a)
          PROVE  facts' \subseteq facts /\ procs'[p].pc # "insert"
      <4>1. CASE LogAdded(p)
        BY <4>1 DEF LogAdded, GoTo, TypeOK, Idle
      <4>2. CASE SelectRetired(p) \/ RetireDone(p) \/ LogUndone(p) \/ Stop(p)
                 \/ \E actor \in Actors : UndoLastAnnotation(p, actor)
        BY <4>2 DEF SelectRetired, RetireDone, LogUndone, Stop,
                    UndoLastAnnotation, GoTo, TypeOK, Idle
      <4>3. CASE RetireOne(p)
        <5>1. PICK n \in procs[p].rows : procs'[p] = [procs[p] EXCEPT !.rows = @ \ {n}]
          BY <4>3 DEF RetireOne, GoTo, TypeOK
        <5>2. procs[p].pc = "retire" /\ UNCHANGED facts
          BY <4>3 DEF RetireOne, At
        <5>3. procs[p] \in [pc : {"retire"}, rows : SUBSET (Nat \ {0})]
          BY <3>0, <5>2 DEF Process
        <5>4. procs'[p].pc = "retire"
          BY <5>1, <5>3
        <5> QED
          BY <5>2, <5>4
      <4>4. CASE UndoFact(p)
        <5>1. /\ procs[p].pc = "undo" /\ facts' \subseteq facts
              /\ procs'[p] = [procs[p] EXCEPT !.pc = "logUndone"]
          BY <4>4 DEF UndoFact, At, GoTo, TypeOK, DeleteExact
        <5>2. procs[p] \in [pc : {"undo", "logUndone"}, seq : Nat \ {0}]
          BY <3>0, <5>1 DEF Process
        <5> QED
          BY <5>1, <5>2
      <4> QED
        BY <3>4, <4>1, <4>2, <4>3, <4>4 DEF Put, TakeBack
    <3>5. CASE facts' \subseteq facts /\ procs'[p].pc # "insert"
      BY <3>0, <3>5 DEF AtMostOneRename, ClearForRename, At
    <3> QED
      BY <3>1, <3>2, <3>3, <3>4, <3>5
  <2> QED
    BY <2>0, <2>n
<1> QED
  BY <1>1, <1>2, AnnotationsTyped, PTL DEF Spec

-----------------------------------------------------------------------------
(* One undo per annotation, as long as one process works at a time.        *)

\* What the process is about to retire is still active.
AboutToRetire ==
  \A p \in Processes :
    /\ procs[p].pc \in {"undo", "logUndone"} => procs[p].seq \in Active
    /\ procs[p].pc = "retire" => procs[p].rows \subseteq Active

\* Retiring an active row keeps the retired rows distinct.
LEMMA RetireActive ==
  ASSUME TypeOK, UndoneOnce, NEW k \in Active, log' = Append(log, Undone(k))
  PROVE  UndoneOnce' /\ Active' = Active \ {k}
<1>0. log \in Seq(Event) /\ k \in AddedSeqs /\ k \notin UndoneSeqs
  BY DEF TypeOK, Active
<1>1. k \in Nat \ {0}
  BY <1>0 DEF AddedSeqs
<1>2. /\ AddedSeqs' = AddedSeqs
      /\ DOMAIN log' \ AddedSeqs' = (DOMAIN log \ AddedSeqs) \cup {Len(log) + 1}
      /\ \A n \in DOMAIN log : log'[n] = log[n]
      /\ log'[Len(log) + 1] = Undone(k)
  BY <1>0, <1>1, AppendUndone
<1>3. UndoneSeqs' = UndoneSeqs \cup {k}
  BY <1>0, <1>1, UndoneGrows
<1>4. \A n \in DOMAIN log \ AddedSeqs : log[n].added # k
  BY <1>0 DEF UndoneSeqs
<1>5. \A n \in DOMAIN log \ AddedSeqs : log'[n] # Undone(k)
  BY <1>2, <1>4 DEF Undone
<1>6. UndoneOnce'
  BY <1>2, <1>5 DEF UndoneOnce
<1> QED
  BY <1>2, <1>3, <1>6 DEF Active

\* When one process works at a time, what it is about to retire stays active
\* until it does, so no row is retired twice.
LEMMA RetiresActive ==
  ASSUME OneAtATime
  PROVE  Spec => [](UndoneOnce /\ AboutToRetire)
<1>1. Init => UndoneOnce /\ AboutToRetire
  BY DEF Init, UndoneOnce, AboutToRetire, Idle
<1>2. TypeOK /\ UndoneOnce /\ AboutToRetire /\ [Next]_vars
        => UndoneOnce' /\ AboutToRetire'
  <2> SUFFICES ASSUME TypeOK, UndoneOnce, AboutToRetire, [Next]_vars
               PROVE  UndoneOnce' /\ AboutToRetire'
    OBVIOUS
  <2>u. UNCHANGED log => UNCHANGED Active /\ UndoneOnce'
    BY DEF Active, AddedSeqs, UndoneSeqs, UndoneOnce
  <2>0. CASE UNCHANGED vars
    BY <2>u, <2>0 DEF vars, AboutToRetire
  <2>n. CASE Next
    <3> PICK p \in Processes : Put(p) \/ TakeBack(p) \/ Stop(p)
      BY <2>n DEF Next
    <3>0. Processes = {p} /\ procs[p] \in Process /\ log \in Seq(Event)
      BY DEF OneAtATime, TypeOK
    <3>1. CASE LogAdded(p)
      <4>1. /\ procs[p].pc = "log" /\ log' = Append(log, Added(procs[p].note))
            /\ procs'[p].pc \in {"select", "idle"}
        BY <3>1 DEF LogAdded, At, GoTo, TypeOK, Idle
      <4>2. procs[p].note \in Annotation
        BY <3>0, <4>1 DEF Process
      <4>3. /\ DOMAIN log' \ AddedSeqs' = DOMAIN log \ AddedSeqs
            /\ \A n \in DOMAIN log : log'[n] = log[n]
        BY <3>0, <4>1, <4>2, AppendAdded
      <4>4. UndoneOnce'
        BY <4>3 DEF UndoneOnce
      <4>5. AboutToRetire'
        BY <3>0, <4>1 DEF AboutToRetire
      <4> QED
        BY <4>4, <4>5
    <3>2. CASE RetireOne(p)
      <4>1. PICK n \in procs[p].rows :
              /\ log' = Append(log, Undone(n))
              /\ procs' = [procs EXCEPT ![p] = [procs[p] EXCEPT !.rows = @ \ {n}]]
        BY <3>2 DEF RetireOne, GoTo
      <4>2. procs[p].pc = "retire" /\ procs[p].rows \subseteq Active
        BY <3>2 DEF RetireOne, At, AboutToRetire
      <4>3. procs[p] \in [pc : {"retire"}, rows : SUBSET (Nat \ {0})]
        BY <3>0, <4>2 DEF Process
      <4>4. procs'[p].pc = "retire" /\ procs'[p].rows = procs[p].rows \ {n}
        BY <4>1, <4>3 DEF TypeOK
      <4>5. n \in Active
        BY <4>2
      <4>6. UndoneOnce' /\ Active' = Active \ {n}
        BY <4>1, <4>5, RetireActive
      <4>7. AboutToRetire'
        BY <3>0, <4>2, <4>4, <4>6 DEF AboutToRetire
      <4> QED
        BY <4>6, <4>7
    <3>3. CASE LogUndone(p)
      <4>1. /\ procs[p].pc = "logUndone" /\ procs'[p] = Idle
            /\ log' = Append(log, Undone(procs[p].seq))
        BY <3>3 DEF LogUndone, At, GoTo, TypeOK
      <4>2. procs[p].seq \in Active
        BY <4>1 DEF AboutToRetire
      <4>3. UndoneOnce'
        BY <4>1, <4>2, RetireActive
      <4>4. AboutToRetire'
        BY <3>0, <4>1 DEF AboutToRetire, Idle
      <4> QED
        BY <4>3, <4>4
    <3>4. CASE SelectRetired(p)
      <4>1. /\ UNCHANGED log
            /\ procs'[p] = [pc |-> "retire",
                            rows |-> ActiveRenames(procs[p].object, procs[p].seq)]
        BY <3>4 DEF SelectRetired, GoTo, TypeOK
      <4>2. ActiveRenames(procs[p].object, procs[p].seq) \subseteq Active
        BY DEF ActiveRenames
      <4> QED
        BY <2>u, <3>0, <4>1, <4>2 DEF AboutToRetire
    <3>5. CASE \E actor \in Actors : UndoLastAnnotation(p, actor)
      <4>1. PICK n \in Active : procs'[p] = [pc |-> "undo", seq |-> n]
        BY <3>5 DEF UndoLastAnnotation, GoTo, TypeOK
      <4> QED
        BY <2>u, <3>0, <3>5, <4>1 DEF AboutToRetire, UndoLastAnnotation
    <3>6. CASE UndoFact(p)
      <4>1. /\ procs[p].pc = "undo" /\ UNCHANGED log
            /\ procs'[p] = [procs[p] EXCEPT !.pc = "logUndone"]
        BY <3>6 DEF UndoFact, At, GoTo, TypeOK
      <4>2. procs[p] \in [pc : {"undo", "logUndone"}, seq : Nat \ {0}]
        BY <3>0, <4>1 DEF Process
      <4>3. procs'[p].seq = procs[p].seq /\ procs'[p].pc = "logUndone"
        BY <4>1, <4>2
      <4> QED
        BY <2>u, <3>0, <4>1, <4>3 DEF AboutToRetire
    <3>7. CASE RetireDone(p) \/ Stop(p)
      <4>1. UNCHANGED log /\ procs'[p] = Idle
        BY <3>7 DEF RetireDone, Stop, GoTo, TypeOK
      <4> QED
        BY <2>u, <3>0, <4>1 DEF AboutToRetire, Idle
    <3>8. CASE \E a \in Annotation : PutAnnotation(p, a)
      <4>1. UNCHANGED log /\ procs'[p].pc \in {"delete", "insert"}
        BY <3>8 DEF PutAnnotation, GoTo, TypeOK
      <4> QED
        BY <2>u, <3>0, <4>1 DEF AboutToRetire
    <3>9. CASE DeleteOldRenames(p) \/ InsertFact(p)
      <4>1. /\ procs[p].pc \in {"delete", "insert"} /\ UNCHANGED log
            /\ \/ procs'[p] = [procs[p] EXCEPT !.pc = "insert"]
               \/ procs'[p] = [procs[p] EXCEPT !.pc = "log"]
        BY <3>9 DEF DeleteOldRenames, InsertFact, At, GoTo, TypeOK
      <4>2. procs[p] \in [pc : {"delete", "insert", "log"}, note : Annotation]
        BY <3>0, <4>1 DEF Process
      <4>3. procs'[p].pc \in {"insert", "log"}
        BY <4>1, <4>2
      <4> QED
        BY <2>u, <3>0, <4>1, <4>3 DEF AboutToRetire
    <3> QED
      BY <3>1, <3>2, <3>3, <3>4, <3>5, <3>6, <3>7, <3>8, <3>9 DEF Put, TakeBack
  <2> QED
    BY <2>0, <2>n
<1> QED
  BY <1>1, <1>2, AnnotationsTyped, PTL DEF Spec

\* When one process works at a time, no annotation_added event is retired
\* twice, also if calls are cut short, so an undo takes back exactly the
\* newest active annotation of its actor.
THEOREM OneUndo ==
  ASSUME OneAtATime
  PROVE  Spec => []UndoneOnce
<1>1. Spec => [](UndoneOnce /\ AboutToRetire)
  BY RetiresActive
<1> QED
  BY <1>1, PTL

-----------------------------------------------------------------------------
(* The log and the facts agree between commands, as long as one process    *)
(* works at a time and no call is cut short.  Within a call they agree but *)
(* for the rows the call is about to retire.                               *)

Rename(a) == a.kind = "rename"

\* The rows whose facts the call of p has deleted and that it will retire.
Leaves(p, n) ==
  \/ /\ procs[p].pc \in {"insert", "log"} /\ Rename(procs[p].note)
     /\ Rename(log[n].note) /\ log[n].note.object = procs[p].note.object
  \/ At(p, "select") /\ n \in ActiveRenames(procs[p].object, procs[p].seq)
  \/ At(p, "retire") /\ n \in procs[p].rows
  \/ At(p, "logUndone") /\ n = procs[p].seq

Held == {n \in Active : \A p \in Processes : ~Leaves(p, n)}

HeldAreFacts == \A n \in Held : Rename(log[n].note) \/ MadeOnce(n) => HasFact(n)
FactsAreHeld ==
  \A f \in facts : \/ \E n \in Held : SameKey(log[n].note, f)
                   \/ \E p \in Processes : At(p, "log") /\ SameKey(procs[p].note, f)
OneHeldRename ==
  \A m, n \in Held : (/\ Rename(log[m].note) /\ Rename(log[n].note)
                      /\ log[m].note.object = log[n].note.object) => m = n
InsertedIsFact ==
  \A p \in Processes : At(p, "log") => \E f \in facts : SameKey(f, procs[p].note)

DeletesForRename == \A p \in Processes : At(p, "delete") => Rename(procs[p].note)

Agree == /\ HeldAreFacts /\ FactsAreHeld /\ OneHeldRename
         /\ InsertedIsFact /\ DeletesForRename

\* A step that keeps the facts, the held rows and their annotations keeps the
\* agreement.
LEMMA SameHeld ==
  ASSUME Agree, UNCHANGED facts, Held' = Held, AddedSeqs' = AddedSeqs,
         \A n \in DOMAIN log : log'[n] = log[n],
         \A p \in Processes : ~At(p, "log") /\ ~At(p, "log")', DeletesForRename'
  PROVE  Agree'
<1>1. Held \subseteq AddedSeqs /\ AddedSeqs \subseteq DOMAIN log
  BY DEF Held, Active, AddedSeqs
<1>2. \A n \in AddedSeqs : log'[n] = log[n]
  BY <1>1
<1>3. \A n \in Held : HasFact(n)' = HasFact(n) /\ MadeOnce(n)' = MadeOnce(n)
  BY <1>1, <1>2 DEF HasFact, MadeOnce
<1>4. HeldAreFacts'
  BY <1>1, <1>2, <1>3 DEF Agree, HeldAreFacts
<1>5. FactsAreHeld'
  BY <1>1, <1>2 DEF Agree, FactsAreHeld
<1>6. OneHeldRename'
  BY <1>1, <1>2 DEF Agree, OneHeldRename
<1>7. InsertedIsFact'
  BY DEF InsertedIsFact
<1> QED
  BY <1>4, <1>5, <1>6, <1>7 DEF Agree

\* Statements that only read keep the agreement.
LEMMA ReadsAgree ==
  ASSUME TypeOK, Agree, NEW p \in Processes, Processes = {p},
         \/ \E a \in Annotation : PutAnnotation(p, a)
         \/ SelectRetired(p) \/ RetireDone(p)
         \/ \E actor \in Actors : UndoLastAnnotation(p, actor)
  PROVE  Agree'
<1>1. UNCHANGED <<facts, log>> /\ ~At(p, "log")
  BY DEF PutAnnotation, SelectRetired, RetireDone, UndoLastAnnotation, Start, At
<1>2. UNCHANGED <<AddedSeqs, Active>>
  BY <1>1 DEF Active, AddedSeqs, UndoneSeqs
<1>3. ASSUME NEW n \in Active PROVE ~At(p, "log")' /\ Leaves(p, n)' = Leaves(p, n)
  <2>1. CASE \E a \in Annotation : PutAnnotation(p, a)
    <3>1. PICK a \in Annotation : PutAnnotation(p, a)
      BY <2>1
    <3>2. At(p, "idle") /\ procs'[p] = [pc |-> IF a.kind = "rename" THEN "delete" ELSE "insert",
                                        note |-> a]
      BY <3>1 DEF PutAnnotation, Start, GoTo, TypeOK
    <3> QED
      BY <3>2 DEF Leaves, At, Rename
  <2>2. CASE SelectRetired(p)
    <3>1. At(p, "select") /\ procs'[p] = [pc |-> "retire",
            rows |-> ActiveRenames(procs[p].object, procs[p].seq)]
      BY <2>2 DEF SelectRetired, GoTo, TypeOK
    <3> QED
      BY <3>1 DEF Leaves, At
  <2>3. CASE RetireDone(p)
    <3>1. At(p, "retire") /\ procs[p].rows = {} /\ procs'[p] = Idle
      BY <2>3 DEF RetireDone, GoTo, TypeOK
    <3> QED
      BY <3>1 DEF Leaves, At, Idle
  <2>4. CASE \E actor \in Actors : UndoLastAnnotation(p, actor)
    <3>1. At(p, "idle") /\ \E m \in Active : procs'[p] = [pc |-> "undo", seq |-> m]
      BY <2>4 DEF UndoLastAnnotation, Start, GoTo, TypeOK
    <3> QED
      BY <3>1 DEF Leaves, At
  <2> QED
    BY <2>1, <2>2, <2>3, <2>4
<1>4. ~At(p, "log")' /\ DeletesForRename'
  BY DEF PutAnnotation, SelectRetired, RetireDone, UndoLastAnnotation, GoTo, At, Idle, TypeOK,
         DeletesForRename, Rename
<1>5. Held' = Held
  BY <1>2, <1>3 DEF Held
<1> QED
  BY <1>1, <1>2, <1>4, <1>5, SameHeld

\* Retiring a row that is no longer held keeps the agreement.
LEMMA RetiresAgree ==
  ASSUME TypeOK, UndoneOnce, AboutToRetire, Agree,
         NEW p \in Processes, Processes = {p}, RetireOne(p) \/ LogUndone(p)
  PROVE  Agree'
<1>0. log \in Seq(Event) /\ procs[p] \in Process
  BY DEF TypeOK
<1>1. PICK k \in Active :
        /\ log' = Append(log, Undone(k)) /\ UNCHANGED facts
        /\ ~At(p, "log") /\ ~At(p, "log")' /\ ~At(p, "delete")'
        /\ \A n \in Active \ {k} : Leaves(p, n)' = Leaves(p, n)
        /\ Leaves(p, k)
  <2>1. CASE RetireOne(p)
    <3>1. PICK k \in procs[p].rows :
            /\ log' = Append(log, Undone(k)) /\ UNCHANGED facts
            /\ procs' = [procs EXCEPT ![p] = [procs[p] EXCEPT !.rows = @ \ {k}]]
      BY <2>1 DEF RetireOne, GoTo
    <3>2. At(p, "retire") /\ k \in Active
      BY <2>1 DEF RetireOne, At, AboutToRetire
    <3>3. procs[p] \in [pc : {"retire"}, rows : SUBSET (Nat \ {0})]
      BY <1>0, <3>2 DEF Process, At
    <3>4. procs'[p].pc = "retire" /\ procs'[p].rows = procs[p].rows \ {k}
      BY <3>1, <3>3 DEF TypeOK
    <3> QED
      BY <3>1, <3>2, <3>4 DEF Leaves, At
  <2>2. CASE LogUndone(p)
    <3>1. /\ At(p, "logUndone") /\ procs'[p] = Idle
          /\ log' = Append(log, Undone(procs[p].seq)) /\ UNCHANGED facts
      BY <2>2 DEF LogUndone, GoTo, TypeOK
    <3>2. procs[p].seq \in Active
      BY <3>1 DEF AboutToRetire, At
    <3> QED
      BY <3>1, <3>2 DEF Leaves, At, Idle
  <2> QED
    BY <2>1, <2>2
<1>2. k \in Nat \ {0}
  BY <1>0 DEF Active, AddedSeqs
<1>3. AddedSeqs' = AddedSeqs /\ \A n \in DOMAIN log : log'[n] = log[n]
  BY <1>0, <1>1, <1>2, AppendUndone
<1>4. Active' = Active \ {k}
  BY <1>1, RetireActive
<1>5. Held' = Held
  BY <1>1, <1>4 DEF Held
<1> QED
  BY <1>1, <1>3, <1>5, SameHeld DEF DeletesForRename

\* Deleting the old names of a function lets go of their rows.
LEMMA DeleteAgrees ==
  ASSUME TypeOK, Agree, NEW p \in Processes, Processes = {p}, DeleteOldRenames(p)
  PROVE  Agree'
<1>1. /\ procs[p].pc = "delete" /\ UNCHANGED log
      /\ facts' = DeleteRenames(procs[p].note.object)
      /\ procs'[p] = [procs[p] EXCEPT !.pc = "insert"]
  BY DEF DeleteOldRenames, At, GoTo, TypeOK
<1>2. procs[p] \in [pc : {"delete", "insert", "log"}, note : Annotation]
  BY <1>1 DEF TypeOK, Process
<1>3. procs'[p].pc = "insert" /\ procs'[p].note = procs[p].note
  BY <1>1, <1>2
<1>4. Rename(procs[p].note)
  BY <1>1 DEF Agree, DeletesForRename, At
<1>5. Held = Active
  BY <1>1 DEF Held, Leaves, At
<1>6. AddedSeqs' = AddedSeqs /\ Active' = Active
  BY <1>1 DEF Active, AddedSeqs, UndoneSeqs
<1> DEFINE Old(a) == Rename(a) /\ a.object = procs[p].note.object
<1>7. Held' = {n \in Held : ~Old(log[n].note)}
  BY <1>1, <1>3, <1>4, <1>5, <1>6 DEF Held, Leaves, At
<1>8. facts' = {f \in facts : ~Old(f)}
  BY <1>1 DEF DeleteRenames, Rename
<1>9. \A a, b : SameKey(a, b) => Old(a) = Old(b)
  BY DEF SameKey, Rename
<1>10. \A n : MadeOnce(n)' = MadeOnce(n)
  BY <1>1, <1>6 DEF MadeOnce
<1> HIDE DEF Old
<1>11. \A n \in Held' : HasFact(n) => HasFact(n)'
  BY <1>1, <1>7, <1>8, <1>9 DEF HasFact
<1>12. HeldAreFacts'
  BY <1>1, <1>7, <1>10, <1>11 DEF Agree, HeldAreFacts
<1>13. FactsAreHeld'
  BY <1>1, <1>7, <1>8, <1>9 DEF Agree, FactsAreHeld, At
<1>14. OneHeldRename'
  BY <1>1, <1>7 DEF Agree, OneHeldRename
<1> QED
  BY <1>3, <1>12, <1>13, <1>14 DEF Agree, InsertedIsFact, DeletesForRename, At

\* The fact that is inserted waits for its event.
LEMMA InsertAgrees ==
  ASSUME TypeOK, Agree, NEW p \in Processes, Processes = {p}, InsertFact(p)
  PROVE  Agree'
<1>1. /\ procs[p].pc = "insert" /\ UNCHANGED log
      /\ facts' = Insert(procs[p].note)
      /\ procs'[p] = [procs[p] EXCEPT !.pc = "log"]
  BY DEF InsertFact, At, GoTo, TypeOK
<1>2. procs[p] \in [pc : {"delete", "insert", "log"}, note : Annotation]
  BY <1>1 DEF TypeOK, Process
<1>3. procs'[p].pc = "log" /\ procs'[p].note = procs[p].note
  BY <1>1, <1>2
<1>4. AddedSeqs' = AddedSeqs /\ Active' = Active
  BY <1>1 DEF Active, AddedSeqs, UndoneSeqs
<1>5. Held' = Held
  <2>1. \A n : Leaves(p, n)' <=> Leaves(p, n)
    BY <1>1, <1>3 DEF Leaves, At
  <2> QED
    BY <1>4, <2>1 DEF Held
<1>6. /\ facts \subseteq facts'
      /\ \A f \in facts' \ facts : SameKey(procs[p].note, f)
      /\ \E f \in facts' : SameKey(f, procs[p].note)
  BY <1>1 DEF Insert, SameKey
<1>7. \A n : MadeOnce(n)' = MadeOnce(n)
  BY <1>1, <1>4 DEF MadeOnce
<1>8. HeldAreFacts'
  BY <1>1, <1>5, <1>6, <1>7 DEF Agree, HeldAreFacts, HasFact
<1>9. FactsAreHeld'
  BY <1>1, <1>3, <1>5, <1>6 DEF Agree, FactsAreHeld, At
<1>10. OneHeldRename'
  BY <1>1, <1>5 DEF Agree, OneHeldRename
<1> QED
  BY <1>3, <1>6, <1>8, <1>9, <1>10 DEF Agree, InsertedIsFact, DeletesForRename, At

\* The new event is held; a new name takes the place of the old ones.
LEMMA LogAgrees ==
  ASSUME TypeOK, Agree, NEW p \in Processes, Processes = {p}, LogAdded(p)
  PROVE  Agree'
<1>0. PICK a, k : a = procs[p].note /\ k = Len(log) + 1
  OBVIOUS
<1>1. /\ procs[p].pc = "log" /\ UNCHANGED facts
      /\ log' = Append(log, Added(a))
      /\ procs'[p] = IF Rename(a) THEN [pc |-> "select", object |-> a.object, seq |-> k]
                     ELSE Idle
  BY <1>0 DEF LogAdded, At, GoTo, TypeOK, Rename
<1>2. log \in Seq(Event) /\ a \in Annotation
  BY <1>0, <1>1 DEF TypeOK, Process
<1>3. /\ AddedSeqs' = AddedSeqs \cup {k}
      /\ \A n \in DOMAIN log : log'[n] = log[n]
      /\ log'[k].note = a /\ k \notin DOMAIN log
  BY <1>0, <1>1, <1>2, AppendAdded DEF Added
<1>4. UndoneSeqs' = UndoneSeqs
  BY <1>1, <1>2, UndoneStays
<1>5. AddedSeqs \subseteq DOMAIN log /\ UndoneSeqs \subseteq AddedSeqs
  BY DEF AddedSeqs, TypeOK
<1>6. Active' = Active \cup {k} /\ Active \subseteq AddedSeqs
  BY <1>3, <1>4, <1>5 DEF Active
<1>7. \A n \in AddedSeqs : log'[n] = log[n]
  BY <1>3, <1>5
<1>8. Held = {n \in Active : ~(Rename(a) /\ Rename(log[n].note) /\ log[n].note.object = a.object)}
  BY <1>0, <1>1 DEF Held, Leaves, At
<1>9. Held' = Held \cup {k}
  <2>1. CASE Rename(a)
    <3>1. \A n : Leaves(p, n)' <=> n \in ActiveRenames(a.object, k)'
      BY <1>1, <2>1 DEF Leaves, At
    <3>2. \A n : Leaves(p, n)' <=> /\ n \in Active' \ {k} /\ Rename(log'[n].note)
                                   /\ log'[n].note.object = a.object
      BY <3>1 DEF ActiveRenames, Rename
    <3>3. Held' = {n \in Active' : ~Leaves(p, n)'}
      BY DEF Held
    <3>4. k \notin Active
      BY <1>3, <1>5, <1>6
    <3> QED
      BY <1>6, <1>7, <1>8, <2>1, <3>2, <3>3, <3>4
  <2>2. CASE ~Rename(a)
    <3>1. procs'[p] = Idle
      BY <1>1, <2>2
    <3>2. \A n : ~Leaves(p, n)'
      BY <3>1 DEF Leaves, At, Idle
    <3> QED
      BY <1>6, <1>8, <2>2, <3>2 DEF Held
  <2> QED
    BY <2>1, <2>2
<1>10. Held \subseteq AddedSeqs
  BY <1>6, <1>8
<1>11. \E f \in facts : SameKey(f, a)
  BY <1>0, <1>1 DEF Agree, InsertedIsFact, At
<1>12. \A n \in AddedSeqs : (MadeOnce(n)' => MadeOnce(n)) /\ HasFact(n)' = HasFact(n)
  BY <1>1, <1>3, <1>7 DEF MadeOnce, HasFact
<1>13. HasFact(k)'
  BY <1>1, <1>3, <1>11 DEF HasFact
<1>14. HeldAreFacts'
  BY <1>7, <1>9, <1>10, <1>12, <1>13 DEF Agree, HeldAreFacts
<1>15. FactsAreHeld'
  <2> SUFFICES ASSUME NEW f \in facts PROVE \E n \in Held' : SameKey(log'[n].note, f)
    BY <1>1 DEF FactsAreHeld
  <2>1. CASE \E n \in Held : SameKey(log[n].note, f)
    BY <1>7, <1>9, <1>10, <2>1
  <2>2. CASE SameKey(a, f)
    BY <1>3, <1>9, <2>2
  <2> QED
    BY <1>0, <2>1, <2>2 DEF Agree, FactsAreHeld
<1>16. OneHeldRename'
  BY <1>3, <1>7, <1>8, <1>9, <1>10 DEF Agree, OneHeldRename
<1>17. ~At(p, "log")' /\ ~At(p, "delete")'
  BY <1>1 DEF At, Idle
<1> QED
  BY <1>14, <1>15, <1>16, <1>17 DEF Agree, InsertedIsFact, DeletesForRename

\* Undoing deletes the fact of the row that is let go of, and of no other that
\* is a name or was made once.
LEMMA UndoAgrees ==
  ASSUME TypeOK, AboutToRetire, Agree, NEW p \in Processes, Processes = {p}, UndoFact(p)
  PROVE  Agree'
<1> DEFINE k == procs[p].seq
<1>1. /\ procs[p].pc = "undo" /\ UNCHANGED log
      /\ facts' = {f \in facts : ~SameKey(f, log[k].note)}
      /\ procs'[p] = [procs[p] EXCEPT !.pc = "logUndone"]
  BY DEF UndoFact, DeleteExact, At, GoTo, TypeOK
<1>2. procs[p] \in [pc : {"undo", "logUndone"}, seq : Nat \ {0}]
  BY <1>1 DEF TypeOK, Process
<1>3. procs'[p].pc = "logUndone" /\ procs'[p].seq = k /\ k \in Active
  BY <1>1, <1>2 DEF AboutToRetire
<1>4. AddedSeqs' = AddedSeqs /\ Active' = Active /\ Active \subseteq AddedSeqs
  BY <1>1 DEF Active, AddedSeqs, UndoneSeqs
<1>5. Held = Active
  BY <1>1 DEF Held, Leaves, At
<1> HIDE DEF k
<1>6. Held' = Held \ {k} /\ k \in Held
  BY <1>3, <1>4, <1>5 DEF Held, Leaves, At
<1>7. \A n \in Held' : Rename(log[n].note) \/ MadeOnce(n) => ~SameKey(log[n].note, log[k].note)
  BY <1>4, <1>5, <1>6 DEF Agree, OneHeldRename, MadeOnce, SameKey, Rename
<1>8. \A n : MadeOnce(n)' = MadeOnce(n)
  BY <1>1, <1>4 DEF MadeOnce
<1>9. ASSUME NEW n \in Held', HasFact(n), ~SameKey(log[n].note, log[k].note)
      PROVE  HasFact(n)'
  <2>1. PICK f \in facts : SameKey(f, log[n].note)
    BY <1>9 DEF HasFact
  <2>2. f \in facts'
    BY <1>1, <1>9, <2>1 DEF SameKey
  <2> QED
    BY <1>1, <2>1, <2>2 DEF HasFact
<1>10. HeldAreFacts'
  BY <1>1, <1>6, <1>7, <1>8, <1>9 DEF Agree, HeldAreFacts
<1>11. FactsAreHeld'
  <2> SUFFICES ASSUME NEW f \in facts' PROVE \E n \in Held' : SameKey(log[n].note, f)
    BY <1>1 DEF FactsAreHeld
  <2>1. f \in facts /\ ~SameKey(f, log[k].note)
    BY <1>1
  <2>2. PICK n \in Held : SameKey(log[n].note, f)
    BY <1>1, <2>1 DEF Agree, FactsAreHeld, At
  <2>3. n # k
    BY <2>1, <2>2 DEF SameKey
  <2> QED
    BY <1>6, <2>2, <2>3
<1>12. OneHeldRename'
  BY <1>1, <1>6 DEF Agree, OneHeldRename
<1> QED
  BY <1>3, <1>10, <1>11, <1>12 DEF Agree, InsertedIsFact, DeletesForRename, At

\* When one process works at a time and no call was cut short, what the log
\* holds active between commands is a fact, if it is a name or was made once,
\* and every fact is held active by the log.
THEOREM LogAndFacts ==
  ASSUME OneAtATime
  PROVE  Spec => []LogMatchesFacts
<1> DEFINE Agrees == ~stopped => Agree
<1>1. Init => Agrees
  BY DEF Init, Idle, At, Active, AddedSeqs, Held, Agree, HeldAreFacts, FactsAreHeld,
         OneHeldRename, InsertedIsFact, DeletesForRename
<1>2. TypeOK /\ UndoneOnce /\ AboutToRetire /\ Agrees /\ [Next]_vars => Agrees'
  <2> SUFFICES ASSUME TypeOK, UndoneOnce, AboutToRetire, Agrees, [Next]_vars, ~stopped'
               PROVE  Agree'
    OBVIOUS
  <2>1. CASE UNCHANGED vars
    BY <2>1 DEF vars, Agree, HeldAreFacts, FactsAreHeld, OneHeldRename, InsertedIsFact,
                DeletesForRename, Held, Leaves, Active, AddedSeqs, UndoneSeqs, MadeOnce,
                HasFact, ActiveRenames, At
  <2>2. CASE Next
    <3>1. PICK p \in Processes : Put(p) \/ TakeBack(p) \/ Stop(p)
      BY <2>2 DEF Next
    <3>2. Processes = {p}
      BY DEF OneAtATime
    <3>3. ~Stop(p)
      BY DEF Stop
    <3>4. ~stopped
      BY <3>1, <3>3 DEF Put, PutAnnotation, DeleteOldRenames, InsertFact, LogAdded,
                  SelectRetired, RetireOne, RetireDone, TakeBack,
                  UndoLastAnnotation, UndoFact, LogUndone
    <3>5. Agree
      BY <3>4
    <3> QED
      BY <3>1, <3>2, <3>3, <3>5, ReadsAgree, RetiresAgree, DeleteAgrees, InsertAgrees,
         LogAgrees, UndoAgrees DEF Put, TakeBack
  <2> QED
    BY <2>1, <2>2
<1>3. Agrees => LogMatchesFacts
  <2> SUFFICES ASSUME Agree, Quiet PROVE
        /\ \A n \in Active : log[n].note.kind = "rename" \/ MadeOnce(n) => HasFact(n)
        /\ \A f \in facts : \E n \in Active : SameKey(log[n].note, f)
    BY DEF LogMatchesFacts
  <2>1. Held = Active
    BY DEF Held, Leaves, Quiet, At
  <2> QED
    BY <2>1 DEF Agree, HeldAreFacts, FactsAreHeld, Quiet, At, Rename
<1>4. Spec => [](UndoneOnce /\ AboutToRetire)
  BY RetiresActive
<1> HIDE DEF Agrees
<1> QED
  BY <1>1, <1>2, <1>3, <1>4, AnnotationsTyped, PTL DEF Spec

-----------------------------------------------------------------------------
(* The log implements the book, as long as one process works at a time,    *)
(* also if calls are cut short.                                            *)

TheBook == [n \in Standing |-> log[n].note]

SameName(a, b) == a.kind = "rename" /\ b.kind = "rename" /\ a.object = b.object
Superseded(n) == \E m \in AddedSeqs : m > n /\ SameName(log[m].note, log[n].note)

\* What a call read of the log still holds: the rename it retires others for is
\* the newest event, what it retires does not stand, and what it takes back is
\* the newest of its actor.
ReadsHold ==
  \A p \in Processes :
    /\ At(p, "select") => /\ procs[p].seq = Len(log) /\ procs[p].seq \in AddedSeqs
                          /\ log[procs[p].seq].note.kind = "rename"
                          /\ log[procs[p].seq].note.object = procs[p].object
    /\ At(p, "retire") => \A n \in procs[p].rows : n \notin Standing
    /\ procs[p].pc \in {"undo", "logUndone"}
         => \E actor \in Actors : IsLatestActive(actor, procs[p].seq)

\* A new annotation stands beside those it does not replace.
LEMMA StandingWithAdded ==
  ASSUME TypeOK, NEW a \in Annotation, log' = Append(log, Added(a))
  PROVE  /\ Standing' = {n \in Standing : ~SameName(a, log[n].note)} \cup {Len(log) + 1}
         /\ Len(log) + 1 \in Nat /\ log'[Len(log) + 1].note = a
         /\ \A n \in Standing : n \in Nat /\ n < Len(log) + 1 /\ log'[n] = log[n]
<1> DEFINE new == Len(log) + 1
<1>0. log \in Seq(Event) /\ UndoneSeqs \subseteq AddedSeqs
  BY DEF TypeOK
<1>1. /\ AddedSeqs' = AddedSeqs \cup {new}
      /\ \A n \in DOMAIN log : log'[n] = log[n]
      /\ log'[new] = Added(a) /\ new \notin DOMAIN log
  BY <1>0, AppendAdded
<1>2. UndoneSeqs' = UndoneSeqs
  BY <1>0, UndoneStays
<1>3. new \in Nat /\ \A n \in AddedSeqs : n \in DOMAIN log /\ n \in Nat /\ n < new
  BY <1>0 DEF AddedSeqs
<1>4. log'[new].note = a
  BY <1>1 DEF Added
<1> HIDE DEF new
<1>5. Active' = Active \cup {new} /\ Active \subseteq AddedSeqs
  BY <1>0, <1>1, <1>2, <1>3 DEF Active
<1>6. ASSUME NEW n \in AddedSeqs
      PROVE  Superseded(n)' <=> Superseded(n) \/ SameName(a, log[n].note)
  <2>1. log'[n] = log[n] /\ n < new
    BY <1>1, <1>3
  <2>2. ASSUME NEW m \in AddedSeqs' , m > n, SameName(log'[m].note, log[n].note)
        PROVE  Superseded(n) \/ SameName(a, log[n].note)
    <3>1. CASE m = new
      BY <1>4, <2>2, <3>1
    <3>2. CASE m \in AddedSeqs
      <4>1. log'[m] = log[m]
        BY <1>1, <1>3, <3>2
      <4> QED
        BY <2>2, <3>2, <4>1 DEF Superseded
    <3> QED
      BY <1>1, <3>1, <3>2
  <2>3. Superseded(n)' => Superseded(n) \/ SameName(a, log[n].note)
    BY <2>1, <2>2 DEF Superseded, SameName
  <2>4. SameName(a, log[n].note) => Superseded(n)'
    <3>1. new \in AddedSeqs' /\ new > n
      BY <1>1, <1>3
    <3> QED
      BY <1>4, <2>1, <3>1 DEF Superseded, SameName
  <2>5. Superseded(n) => Superseded(n)'
    BY <1>1, <1>3, <2>1 DEF Superseded, SameName
  <2> QED
    BY <2>3, <2>4, <2>5
<1>7. ASSUME NEW n, n = new
      PROVE  ~Superseded(n)'
  BY <1>1, <1>3, <1>7 DEF Superseded
<1>8. /\ Standing = {n \in Active : ~Superseded(n)}
      /\ Standing' = {n \in Active' : ~Superseded(n)'}
  BY DEF Standing, Superseded, SameName
<1>9. Standing' = {n \in Standing : ~SameName(a, log[n].note)} \cup {new}
  BY <1>5, <1>6, <1>7, <1>8
<1>10. \A n \in Standing : n \in Nat /\ n < new /\ log'[n] = log[n]
  BY <1>1, <1>3, <1>5, <1>8
<1> QED
  BY <1>3, <1>4, <1>9, <1>10 DEF new

\* Retiring an annotation takes it out of those that stand, if it is one.
LEMMA StandingWithUndone ==
  ASSUME TypeOK, NEW k \in Nat \ {0}, log' = Append(log, Undone(k))
  PROVE  /\ Standing' = Standing \ {k}
         /\ \A n \in Standing : log'[n] = log[n]
<1>0. log \in Seq(Event)
  BY DEF TypeOK
<1>1. AddedSeqs' = AddedSeqs /\ \A n \in DOMAIN log : log'[n] = log[n]
  BY <1>0, AppendUndone
<1>2. UndoneSeqs' = UndoneSeqs \cup {k}
  BY <1>0, UndoneGrows
<1>3. AddedSeqs \subseteq DOMAIN log
  BY DEF AddedSeqs
<1>4. \A n \in AddedSeqs : Superseded(n)' <=> Superseded(n)
  BY <1>1, <1>3 DEF Superseded, SameName
<1>5. Active' = Active \ {k} /\ Active \subseteq AddedSeqs
  BY <1>1, <1>2 DEF Active
<1>6. /\ Standing = {n \in Active : ~Superseded(n)}
      /\ Standing' = {n \in Active' : ~Superseded(n)'}
  BY DEF Standing, Superseded, SameName
<1> QED
  BY <1>1, <1>3, <1>4, <1>5, <1>6

\* What the call read holds after a step if it holds of the state the only
\* process is then in.
LEMMA ReadsKept ==
  ASSUME OneAtATime, TypeOK, NEW p \in Processes, NEW s, GoTo(p, s),
         s.pc = "select" => /\ s.seq = Len(log') /\ s.seq \in AddedSeqs'
                            /\ log'[s.seq].note.kind = "rename"
                            /\ log'[s.seq].note.object = s.object,
         s.pc = "retire" => \A n \in s.rows : n \notin Standing',
         s.pc \in {"undo", "logUndone"}
           => \E actor \in Actors :
                /\ s.seq \in Active' /\ log'[s.seq].note.actor = actor
                /\ \A m \in Active' : log'[m].note.actor = actor => m <= s.seq
  PROVE  ReadsHold'
<1>1. \A q \in Processes : procs'[q] = s
  BY DEF TypeOK, GoTo, OneAtATime
<1> QED
  BY <1>1 DEF ReadsHold, At, IsLatestActive

LEMMA ReadsHoldStep ==
  ASSUME OneAtATime, TypeOK, ReadsHold, [Next]_vars
  PROVE  ReadsHold'
<1>u. UNCHANGED log => UNCHANGED <<AddedSeqs, Active, Standing>>
  BY DEF AddedSeqs, UndoneSeqs, Active, Standing
<1>1. CASE UNCHANGED vars
  BY <1>1, <1>u DEF vars, ReadsHold, At, IsLatestActive
<1>2. ASSUME NEW p \in Processes, Put(p) \/ TakeBack(p) \/ Stop(p)
      PROVE  ReadsHold'
  <2>0. procs[p] \in Process /\ log \in Seq(Event) /\ AddedSeqs \subseteq DOMAIN log
    BY DEF TypeOK, AddedSeqs
  <2>1. ASSUME NEW s, GoTo(p, s), s.pc \in {"idle", "delete", "insert", "log"}
        PROVE  ReadsHold'
    BY <2>1, ReadsKept
  <2>2. CASE \E a \in Annotation : PutAnnotation(p, a)
    <3> PICK a \in Annotation : PutAnnotation(p, a)
      BY <2>2
    <3> DEFINE s == [pc |-> IF a.kind = "rename" THEN "delete" ELSE "insert",
                     note |-> a]
    <3>1. GoTo(p, s) /\ s.pc \in {"idle", "delete", "insert", "log"}
      BY DEF PutAnnotation
    <3> HIDE DEF s
    <3> QED
      BY <2>1, <3>1
  <2>3. CASE DeleteOldRenames(p) \/ InsertFact(p)
    <3>1. /\ procs[p].pc \in {"delete", "insert"}
          /\ \E pc \in {"insert", "log"} : GoTo(p, [procs[p] EXCEPT !.pc = pc])
      BY <2>3 DEF DeleteOldRenames, InsertFact, At
    <3> PICK pc \in {"insert", "log"} : GoTo(p, [procs[p] EXCEPT !.pc = pc])
      BY <3>1
    <3> DEFINE s == [procs[p] EXCEPT !.pc = pc]
    <3>2. procs[p] \in [pc : {"delete", "insert", "log"}, note : Annotation]
      BY <2>0, <3>1 DEF Process
    <3>3. s.pc = pc /\ GoTo(p, s)
      BY <3>2
    <3> HIDE DEF s
    <3> QED
      BY <2>1, <3>3
  <2>4. CASE LogAdded(p)
    <3> DEFINE a == procs[p].note
               s == IF a.kind = "rename"
                    THEN [pc |-> "select", object |-> a.object, seq |-> Len(log) + 1]
                    ELSE Idle
    <3>1. GoTo(p, s) /\ log' = Append(log, Added(a)) /\ a \in Annotation
      BY <2>0, <2>4 DEF LogAdded, At, Process
    <3>2. Len(log') = Len(log) + 1 /\ Len(log) + 1 \in AddedSeqs'
          /\ log'[Len(log) + 1].note = a
      BY <2>0, <3>1, AppendAdded DEF Added
    <3>3. \/ s.pc = "idle"
          \/ /\ s.pc = "select" /\ a.kind = "rename"
             /\ s.object = a.object /\ s.seq = Len(log) + 1
      BY DEF Idle
    <3> HIDE DEF s, a
    <3> QED
      BY <3>1, <3>2, <3>3, ReadsKept
  <2>5. CASE SelectRetired(p)
    <3> DEFINE s == [pc |-> "retire", rows |-> ActiveRenames(procs[p].object, procs[p].seq)]
    <3>1. GoTo(p, s) /\ UNCHANGED log /\ At(p, "select")
      BY <2>5 DEF SelectRetired
    <3>2. /\ procs[p].seq = Len(log) /\ procs[p].seq \in AddedSeqs
          /\ log[procs[p].seq].note.kind = "rename"
          /\ log[procs[p].seq].note.object = procs[p].object
      BY <3>1 DEF ReadsHold
    <3>3. ASSUME NEW n \in ActiveRenames(procs[p].object, procs[p].seq)
          PROVE  n \notin Standing
      <4>1. /\ n \in AddedSeqs /\ n # Len(log)
            /\ log[n].note.kind = "rename" /\ log[n].note.object = procs[p].object
        BY <3>2 DEF ActiveRenames, Active
      <4>2. Len(log) > n
        BY <2>0, <4>1
      <4> QED
        BY <3>2, <4>1, <4>2 DEF Standing
    <3>4. s.pc = "retire" /\ \A n \in s.rows : n \notin Standing'
      BY <1>u, <3>1, <3>3
    <3> HIDE DEF s
    <3> QED
      BY <3>1, <3>4, ReadsKept
  <2>6. CASE RetireOne(p)
    <3> PICK k \in procs[p].rows :
          /\ log' = Append(log, Undone(k))
          /\ GoTo(p, [procs[p] EXCEPT !.rows = @ \ {k}])
      BY <2>6 DEF RetireOne
    <3> DEFINE s == [procs[p] EXCEPT !.rows = @ \ {k}]
    <3>1. procs[p] \in [pc : {"retire"}, rows : SUBSET (Nat \ {0})] /\ At(p, "retire")
      BY <2>0, <2>6 DEF RetireOne, At, Process
    <3>2. s.pc = "retire" /\ s.rows \subseteq procs[p].rows /\ k \in Nat \ {0}
      BY <3>1
    <3>3. Standing' = Standing \ {k}
      BY <3>2, StandingWithUndone
    <3>4. \A n \in s.rows : n \notin Standing'
      BY <3>1, <3>2, <3>3 DEF ReadsHold
    <3>5. GoTo(p, s)
      OBVIOUS
    <3> HIDE DEF s
    <3> QED
      BY <3>2, <3>4, <3>5, ReadsKept
  <2>7. CASE \E actor \in Actors : UndoLastAnnotation(p, actor)
    <3> PICK actor \in Actors, n \in Active :
          /\ IsLatestActive(actor, n) /\ GoTo(p, [pc |-> "undo", seq |-> n])
          /\ UNCHANGED log
      BY <2>7 DEF UndoLastAnnotation
    <3> DEFINE s == [pc |-> "undo", seq |-> n]
    <3>1. GoTo(p, s) /\ s.pc = "undo" /\ s.seq = n
      OBVIOUS
    <3> HIDE DEF s
    <3>2. /\ s.seq \in Active' /\ log'[s.seq].note.actor = actor
          /\ \A m \in Active' : log'[m].note.actor = actor => m <= s.seq
      BY <1>u, <3>1 DEF IsLatestActive
    <3> QED
      BY <3>1, <3>2, ReadsKept
  <2>8. CASE UndoFact(p)
    <3> DEFINE s == [procs[p] EXCEPT !.pc = "logUndone"]
    <3>1. GoTo(p, s) /\ UNCHANGED log /\ procs[p].pc = "undo"
      BY <2>8 DEF UndoFact, At
    <3>2. procs[p] \in [pc : {"undo", "logUndone"}, seq : Nat \ {0}]
      BY <2>0, <3>1 DEF Process
    <3>3. s.pc = "logUndone" /\ s.seq = procs[p].seq
      BY <3>2
    <3> HIDE DEF s
    <3> PICK actor \in Actors : IsLatestActive(actor, procs[p].seq)
      BY <3>1 DEF ReadsHold
    <3>4. /\ s.seq \in Active' /\ log'[s.seq].note.actor = actor
          /\ \A m \in Active' : log'[m].note.actor = actor => m <= s.seq
      BY <1>u, <3>1, <3>3 DEF IsLatestActive
    <3> QED
      BY <3>1, <3>3, <3>4, ReadsKept
  <2>9. CASE RetireDone(p) \/ LogUndone(p) \/ Stop(p)
    <3>1. GoTo(p, Idle) /\ Idle.pc = "idle"
      BY <2>9 DEF RetireDone, LogUndone, Stop, Idle
    <3> QED
      BY <2>1, <3>1
  <2> QED
    BY <1>2, <2>2, <2>3, <2>4, <2>5, <2>6, <2>7, <2>8, <2>9 DEF Put, TakeBack
<1> QED
  BY <1>1, <1>2 DEF Next

\* Every step of a call changes the book as AddAnnotation or undo would, or
\* leaves it as it is: of the several statements of a call, the one that
\* appends to the log is the one that counts.
LEMMA StepInTheBook ==
  ASSUME TypeOK, ReadsHold, [Next]_vars
  PROVE  [Book!Next]_TheBook
<1>0. DOMAIN TheBook = Standing /\ \A n \in Standing : TheBook[n] = log[n].note
  BY DEF TheBook
<1>a. DOMAIN TheBook' = Standing' /\ \A n \in Standing' : TheBook'[n] = log'[n].note
  BY DEF TheBook
<1>1. CASE UNCHANGED log
  BY <1>1 DEF TheBook, Standing, Active, AddedSeqs, UndoneSeqs
<1>2. ASSUME NEW p \in Processes, Put(p) \/ TakeBack(p) \/ Stop(p), ~UNCHANGED log
      PROVE  [Book!Next]_TheBook
  <2>0. procs[p] \in Process
    BY DEF TypeOK
  <2>1. CASE LogAdded(p)
    <3> PICK a \in Annotation : log' = Append(log, Added(a))
      BY <2>0, <2>1 DEF LogAdded, At, Process
    <3> DEFINE new == Len(log) + 1
    <3>1. /\ Standing' = {n \in Standing : ~SameName(a, log[n].note)} \cup {new}
          /\ new \in Nat /\ log'[new].note = a
          /\ \A n \in Standing : n \in Nat /\ n < new /\ log'[n] = log[n]
      BY StandingWithAdded
    <3> HIDE DEF new
    <3>2. {m \in DOMAIN TheBook : ~Book!Replaces(a, TheBook[m])}
            = {n \in Standing : ~SameName(a, log[n].note)}
      BY <1>0 DEF Book!Replaces, SameName
    <3>3. TheBook' = [m \in Standing' |-> IF m = new THEN a ELSE TheBook[m]]
      BY <1>0, <3>1 DEF TheBook
    <3>4. Book!Add(a)
      <4> DEFINE kept == {m \in DOMAIN TheBook : ~Book!Replaces(a, TheBook[m])}
      <4>1. new \in Standing' /\ Standing' = kept \cup {new}
        BY <3>1, <3>2
      <4>2. TheBook' = [m \in kept \cup {new} |-> IF m = new THEN a ELSE TheBook[m]]
        BY <3>3, <4>1
      <4>3. new \in DOMAIN TheBook' /\ \A m \in DOMAIN TheBook : m < new
        BY <1>0, <1>a, <3>1, <4>1
      <4> QED
        BY <3>1, <4>2, <4>3 DEF Book!Add, Book!Kept, TheBook
    <3> QED
      BY <3>4 DEF Book!Next, Book!Entry, Annotation
  <2>2. CASE RetireOne(p)
    <3> PICK k \in procs[p].rows : log' = Append(log, Undone(k))
      BY <2>2 DEF RetireOne
    <3>1. k \in Nat \ {0} /\ k \notin Standing
      BY <2>0, <2>2 DEF RetireOne, At, Process, ReadsHold
    <3>2. Standing' = Standing /\ \A n \in Standing : log'[n] = log[n]
      BY <3>1, StandingWithUndone
    <3> QED
      BY <3>2 DEF TheBook
  <2>3. CASE LogUndone(p)
    <3> DEFINE k == procs[p].seq
    <3>1. k \in Nat \ {0} /\ log' = Append(log, Undone(k)) /\ procs[p].pc = "logUndone"
      BY <2>0, <2>3 DEF LogUndone, At, Process
    <3>2. PICK actor \in Actors : IsLatestActive(actor, k)
      BY <3>1 DEF ReadsHold
    <3>3. Standing' = Standing \ {k} /\ \A n \in Standing : log'[n] = log[n]
      BY <3>1, StandingWithUndone
    <3>4. TheBook' = [n \in Standing \ {k} |-> TheBook[n]]
      BY <1>0, <3>3 DEF TheBook
    <3>5. CASE k \notin Standing
      BY <3>3, <3>5 DEF TheBook
    <3>6. CASE k \in Standing
      <4>1. Standing \subseteq Active /\ Active \subseteq Nat
        BY DEF Standing, Active, AddedSeqs, TypeOK
      <4>2. Book!IsLastOf(actor, k)
        BY <1>0, <3>1, <3>2, <3>6, <4>1 DEF Book!IsLastOf, IsLatestActive, TheBook
      <4>3. Book!Undo(actor)
        BY <1>0, <3>4, <3>6, <4>2 DEF Book!Undo, TheBook
      <4> QED
        BY <4>3 DEF Book!Next
    <3> QED
      BY <3>5, <3>6
  <2> QED
    BY <1>2, <2>1, <2>2, <2>3
       DEF Put, TakeBack, Stop, PutAnnotation, DeleteOldRenames, InsertFact,
           SelectRetired, RetireDone, UndoLastAnnotation, UndoFact
<1> QED
  BY <1>1, <1>2 DEF Next, vars

\* With one process at a time the statements of put_annotation and of
\* undo_last_annotation implement the book: an annotation enters it in one
\* step, which puts a new name in the place of the old one, and an undo takes
\* out the newest that stands of its actor, also if calls are cut short.
THEOREM BookImplemented ==
  ASSUME OneAtATime
  PROVE  Spec => BookSpec
<1>1. Init => Book!Init /\ ReadsHold
  <2> SUFFICES ASSUME Init PROVE Book!Init /\ ReadsHold
    OBVIOUS
  <2>1. Standing = {}
    BY DEF Init, Standing, Active, AddedSeqs
  <2> QED
    BY <2>1 DEF Init, Book!Init, ReadsHold, At, Idle
<1>2. TypeOK /\ ReadsHold /\ [Next]_vars => ReadsHold' /\ [Book!Next]_TheBook
  BY OneAtATime, ReadsHoldStep, StepInTheBook
<1> QED
  BY <1>1, <1>2, AnnotationsTyped, PTL DEF Spec, BookSpec, Book!Spec, TheBook
=============================================================================
