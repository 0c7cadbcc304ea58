---------------------------- MODULE MCAnnotations ----------------------------
(* Small instances of AnnotationStore for TLC.                             *)
EXTENDS AnnotationStore, TLC

\* Processes, actors, objects and values are interchangeable.
Symmetry == UNION {Permutations(S) : S \in {Processes, Actors, Objects, Values}}
=============================================================================
