---------------------------- MODULE BasicBlocks ----------------------------
(***************************************************************************)
(* The control-flow graph the disassembler draws over one decoded window   *)
(* (damsel-macho/src/disasm.rs, build_basic_blocks and the edges of        *)
(* analyze_disassembly_impl).                                              *)
(*                                                                         *)
(* A window is a sequence of instructions with consecutive addresses; an   *)
(* address is the instruction's place in it.  An instruction has a kind,   *)
(* the class damsel-core's semantics give its mnemonic, and the set `to`   *)
(* of its direct call or branch targets (one inside or outside the window, *)
(* or none).  A block is named by the address of its first instruction.    *)
(***************************************************************************)
EXTENDS Integers, FiniteSets, Sequences

Kinds == {"Fallthrough", "Call", "IndirectCall", "Branch", "ConditionalBranch",
          "IndirectBranch", "Return", "Trap"}

IsCall(kind) == kind \in {"Call", "IndirectCall"}

\* Mutant: conditional branches do not end a block.
IsBoundaryUnconditional(kind) == kind \in {"Branch", "IndirectBranch", "Return", "Trap"}

\* is_cfg_boundary: what ends a block.  Calls do not.
IsBoundary(kind) ==
  kind \in {"ConditionalBranch", "Branch", "IndirectBranch", "Return", "Trap"}

\* Whether the instruction after this one may run next.
FallsThrough(kind) == kind \notin {"Branch", "IndirectBranch", "Return", "Trap"}

\* The direct targets inside the window.
Inside(window, j) == window[j].to \cap DOMAIN window

Leaders(window) ==
  {1} \cup (UNION {Inside(window, j) : j \in DOMAIN window})
      \cup {j + 1 : j \in {k \in 1 .. Len(window) - 1 : IsBoundary(window[k].kind)}}

\* block_id_for_address
BlockOf(window, j) ==
  CHOOSE l \in Leaders(window) : l <= j /\ \A k \in Leaders(window) : k <= j => k <= l

\* The last instruction of a block.
LastOf(window, l) ==
  CHOOSE j \in l .. Len(window) : /\ j = Len(window) \/ j + 1 \in Leaders(window)
                                 /\ \A k \in l + 1 .. j : k \notin Leaders(window)

\* A window that ends in the middle of a block does not know its terminator.
Terminator(window, l) ==
  LET kind == window[LastOf(window, l)].kind
  IN IF kind = "Fallthrough" /\ LastOf(window, l) = Len(window) THEN "Unknown" ELSE kind

\* Edges carry their source instruction, the target address (0 when unknown)
\* and their kind.
FallthroughEdges(window) ==
  {[source |-> LastOf(window, l), target |-> LastOf(window, l) + 1, kind |-> "Fallthrough"] :
     l \in {b \in Leaders(window) : /\ FallsThrough(window[LastOf(window, b)].kind)
                                    /\ LastOf(window, b) + 1 \in Leaders(window)}}

\* The edges of one instruction's references.  An indirect control that was
\* resolved has both a direct and an indirect edge.
EdgesOf(window, j) ==
  LET i == window[j]
      direct == IF IsCall(i.kind) THEN "Call"
                ELSE IF i.kind = "ConditionalBranch" THEN "ConditionalBranch" ELSE "Branch"
  IN {[source |-> j, target |-> t, kind |-> direct] : t \in i.to}
     \cup (IF i.kind = "Return" THEN {[source |-> j, target |-> 0, kind |-> "Return"]} ELSE {})
     \cup (IF i.kind \in {"IndirectCall", "IndirectBranch"}
           THEN {[source |-> j, target |-> t, kind |-> i.kind] :
                   t \in (IF i.to = {} THEN {0} ELSE i.to)}
           ELSE {})

Edges(window) ==
  FallthroughEdges(window) \cup UNION {EdgesOf(window, j) : j \in DOMAIN window}

\* is_structural_successor: calls and returns do not continue in the window.
IsStructural(kind) == kind \in {"Branch", "ConditionalBranch", "IndirectBranch", "Fallthrough"}

\* The blocks that continue in one another (link_block_edges).
BlockFlow(window) ==
  {<<BlockOf(window, e.source), BlockOf(window, e.target)>> :
     e \in {d \in Edges(window) : IsStructural(d.kind) /\ d.target \in DOMAIN window}}

Successors(window, l) == {p[2] : p \in {q \in BlockFlow(window) : q[1] = l}}

\* primary_entry_reachable_blocks: the blocks connected to the first one.
Reachable(window) ==
  LET flow == BlockFlow(window)
      closed == {S \in SUBSET Leaders(window) : 1 \in S /\ \A p \in flow : p[1] \in S => p[2] \in S}
  IN {l \in Leaders(window) : \A S \in closed : l \in S}

\* is_back_edge: a jump to its own block or an earlier one.
BackEdges(window) ==
  {e \in Edges(window) :
     /\ e.kind \in {"Branch", "ConditionalBranch", "IndirectBranch"}
     /\ e.target \in DOMAIN window
     /\ BlockOf(window, e.target) <= BlockOf(window, e.source)}

\* The blocks no block continues into (and the first), and those that continue
\* in no block.
EntryBlocks(window) ==
  {l \in Leaders(window) : l = 1 \/ \A b \in Leaders(window) : l \notin Successors(window, b)}
ExitBlocks(window) == {l \in Leaders(window) : Successors(window, l) = {}}

\* basic_block_join_addresses: blocks that more than one edge enters.  This
\* runs before indirect targets are resolved, over direct references only.
EntryEdges(window, l) ==
  {e \in FallthroughEdges(window) : e.target = l}
    \cup {[source |-> j, target |-> l, kind |-> IF IsCall(window[j].kind) THEN "Call" ELSE "Branch"] :
             j \in {k \in DOMAIN window : l \in window[k].to}}

JoinAddresses(window) ==
  IF Cardinality(Leaders(window)) < 2 THEN {}
  ELSE {l \in Leaders(window) : Cardinality(EntryEdges(window, l)) > 1}
=============================================================================
