------------------------------ MODULE CallGraph ------------------------------
(***************************************************************************)
(* The call graph of a project, derived from its facts and never stored    *)
(* (damsel-project/src/callgraph.rs).  A graph has `nodes` and the set     *)
(* `edges` of pairs caller, callee.  A path is a sequence of functions.    *)
(***************************************************************************)
EXTENDS Integers, SequencesExt

Before(b, c) == b.at < c.at \/ (b.at = c.at /\ b.to < c.to)

\* The function an instruction is in: that of the last bound that starts no
\* later, if the bound reaches it.
OwnerOf(bounds, address) ==
  {b.at : b \in {c \in bounds : /\ c.at <= address /\ address < c.to
                                /\ \A d \in bounds : d.at <= address => d = c \/ Before(d, c)}}

\* from_facts
FromFacts(facts) ==
  LET bounds == {f \in facts : f.kind = "function_bound" /\ f.at < f.to}
      edges == UNION {OwnerOf(bounds, f.at) \X {f.to} : f \in {x \in facts : x.kind = "xref" /\ x.ref = "call"}}
  IN [nodes |-> {b.at : b \in bounds} \cup {e[1] : e \in edges} \cup {e[2] : e \in edges}, edges |-> edges]

Callees(graph, function) == {e[2] : e \in {d \in graph.edges : d[1] = function}}
Callers(graph, function) == {e[1] : e \in {d \in graph.edges : d[2] = function}}

\* One step of the search: a queue of functions, those visited and the caller
\* each was found from.  Callees are taken in the order of their addresses.
Visit(search, callees) ==
  LET new == callees \ search.visited
  IN [queue |-> Tail(search.queue) \o SetToSortSeq(new, <), visited |-> search.visited \cup new,
      parent |-> search.parent @@ [a \in new |-> Head(search.queue)]]

\* The search from a function when its queue is empty.
Searched(graph, function) ==
  LET after[n \in 0 .. Cardinality(graph.nodes) + 1] ==
        IF n = 0 THEN [queue |-> <<function>>, visited |-> {function}, parent |-> [a \in {} |-> 0]]
        ELSE LET s == after[n - 1]
             IN IF s.queue = <<>> THEN s ELSE Visit(s, Callees(graph, Head(s.queue)))
  IN after[Cardinality(graph.nodes) + 1]

\* path: from the callee back along the callers it was found from.
CallPath(graph, from, to) ==
  LET parent == Searched(graph, from).parent
      walk[n \in Nat] ==
        IF n = 0 THEN <<to>>
        ELSE LET p == walk[n - 1]
             IN IF Head(p) \in DOMAIN parent THEN <<parent[Head(p)]>> \o p ELSE p
  IN IF from = to THEN {<<from>> : f \in {from} \cap graph.nodes}
     ELSE IF to \in DOMAIN parent THEN {walk[Cardinality(graph.nodes)]} ELSE {}

\* reachable: without the function itself, even when it is on a cycle.
ReachableFrom(graph, function) == Searched(graph, function).visited \ {function}
=============================================================================
