---------------------------- MODULE AnnotationBook ----------------------------
(***************************************************************************)
(* What the annotations of a project promise: a book of the entries that   *)
(* stand, numbered in the order they were made.  A rename replaces the     *)
(* renames of its object; an actor may take back the newest of the entries *)
(* that are theirs.                                                        *)
(***************************************************************************)
EXTENDS Naturals

CONSTANTS Actors, Objects, Kinds, Values

VARIABLE book

Entry == [actor : Actors, object : Objects, kind : Kinds, value : Values]

Replaces(new, old) ==
  new.kind = "rename" /\ old.kind = "rename" /\ new.object = old.object

Kept(entry) == {m \in DOMAIN book : ~Replaces(entry, book[m])}

IsLastOf(actor, n) ==
  /\ book[n].actor = actor
  /\ \A m \in DOMAIN book : m > n => book[m].actor # actor

Init == book \in [{} -> Entry]

\* The new entry has a number above those of all others.
Add(entry) ==
  \E n \in DOMAIN book' :
    /\ n \in Nat /\ \A m \in DOMAIN book : m < n
    /\ book' = [m \in Kept(entry) \cup {n} |-> IF m = n THEN entry ELSE book[m]]

Undo(actor) ==
  \E n \in DOMAIN book :
    /\ IsLastOf(actor, n)
    /\ book' = [m \in DOMAIN book \ {n} |-> book[m]]

Next ==
  \/ \E entry \in Entry : Add(entry)
  \/ \E actor \in Actors : Undo(actor)

Spec == Init /\ [][Next]_book
=============================================================================
