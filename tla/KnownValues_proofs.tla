------------------------- MODULE KnownValues_proofs -------------------------
(***************************************************************************)
(* What is proved of KnownValues, for every set of windows: a run of the   *)
(* window is a walk over the blocks and edges that build_basic_blocks      *)
(* draws, and, where single instructions are evaluated exactly, what the   *)
(* pass says of registers, flags and indirect targets is what the          *)
(* processor holds and does.                                               *)
(*                                                                         *)
(* The library's induction theorems take an operator, so the least element *)
(* of a set of numbers is derived from the well-foundedness of strict      *)
(* inclusion, which is stated of sets.                                     *)
(***************************************************************************)
EXTENDS KnownValues, FiniteSetTheorems, TLAPS

-----------------------------------------------------------------------------
(* Least and greatest elements.                                            *)

\* A set of natural numbers that is not empty has a least element.
LEMMA LeastElement ==
  ASSUME NEW T \in SUBSET Nat, T # {}
  PROVE  \E x \in T : \A y \in T : x <= y
<1> DEFINE F == {0 .. x : x \in T}
<1>1. \E B \in F : \A C \in F : <<C, B>> \notin StrictSubsetOrdering(Nat)
  <2>1. IsWellFoundedOn(StrictSubsetOrdering(Nat), FiniteSubsetsOf(Nat))
    BY FS_StrictSubsetOrderingWellFounded, Zenon
  <2>2. F \subseteq FiniteSubsetsOf(Nat)
    <3>1. SUFFICES ASSUME NEW x \in T PROVE 0 .. x \in FiniteSubsetsOf(Nat)
      OBVIOUS
    <3>2. IsFiniteSet(0 .. x)
      BY FS_Interval
    <3>3. 0 .. x \in SUBSET Nat
      OBVIOUS
    <3>4. QED
      BY <3>2, <3>3 DEF FiniteSubsetsOf
  <2>3. F # {}
    OBVIOUS
  <2> HIDE DEF F
  <2>4. QED
    BY <2>1, <2>2, <2>3, WFMin, Zenon
<1>2. PICK x \in T : \A y \in T : <<0 .. y, 0 .. x>> \notin StrictSubsetOrdering(Nat)
  BY <1>1
<1>3. ASSUME NEW y \in T, ~(x <= y) PROVE FALSE
  <2>1. 0 .. y \in SUBSET Nat /\ 0 .. x \in SUBSET Nat
    OBVIOUS
  <2>2. 0 .. y \subseteq 0 .. x /\ x \in 0 .. x /\ x \notin 0 .. y
    BY <1>3
  <2>3. QED
    BY <1>2, <2>1, <2>2 DEF StrictSubsetOrdering
<1>4. QED
  BY <1>3

\* A set of numbers up to n that is not empty has a greatest element.
LEMMA GreatestElement ==
  ASSUME NEW n \in Nat, NEW T \in SUBSET (1 .. n), T # {}
  PROVE  \E x \in T : \A y \in T : y <= x
<1> DEFINE D == {n - x : x \in T}
<1>1. D \subseteq Nat
  <2>1. SUFFICES ASSUME NEW x \in T PROVE n - x \in Nat
    OBVIOUS
  <2>2. x \in 1 .. n
    OBVIOUS
  <2>3. QED
    BY <2>2
<1>2. D # {}
  OBVIOUS
<1>3. \E d \in D : \A e \in D : d <= e
  <2> HIDE DEF D
  <2>1. QED
    BY <1>1, <1>2, LeastElement
<1>4. PICK x \in T : \A e \in D : n - x <= e
  BY <1>3
<1>5. ASSUME NEW y \in T PROVE y <= x
  <2>1. n - x <= n - y
    BY <1>4
  <2>2. QED
    BY <2>1
<1>6. QED
  BY <1>5

-----------------------------------------------------------------------------
(* Blocks (BasicBlocks), of any window.                                    *)

LEMMA WindowType ==
  ASSUME NEW w \in Windows
  PROVE  /\ Len(w) \in Nat /\ Len(w) >= 1 /\ DOMAIN w = 1 .. Len(w)
         /\ \A j \in 1 .. Len(w) : IsInstruction(w[j])
BY WindowsAssumption

LEMMA LeadersType ==
  ASSUME NEW w \in Windows
  PROVE  Leaders(w) \subseteq 1 .. Len(w) /\ 1 \in Leaders(w)
<1>1. Len(w) \in Nat /\ Len(w) >= 1 /\ DOMAIN w = 1 .. Len(w)
  BY WindowType
<1>2. QED
  BY <1>1 DEF Leaders, Inside

\* An instruction lies in the block of the last leader that is not after it.
LEMMA BlockOfIsLastLeader ==
  ASSUME NEW w \in Windows, NEW j \in 1 .. Len(w)
  PROVE  /\ BlockOf(w, j) \in Leaders(w) /\ BlockOf(w, j) <= j
         /\ \A k \in Leaders(w) : k <= j => k <= BlockOf(w, j)
<1>1. Len(w) \in Nat /\ Leaders(w) \subseteq 1 .. Len(w) /\ 1 \in Leaders(w)
  BY LeadersType, WindowType
<1> DEFINE T == {l \in Leaders(w) : l <= j}
<1>2. T \in SUBSET (1 .. Len(w)) /\ T # {}
  BY <1>1
<1>3. \E l \in T : \A k \in T : k <= l
  BY <1>1, <1>2, GreatestElement
<1>4. \E l \in Leaders(w) : l <= j /\ \A k \in Leaders(w) : k <= j => k <= l
  BY <1>3
<1>5. QED
  BY <1>4, Zenon DEF BlockOf

LEMMA BlockOfIs ==
  ASSUME NEW w \in Windows, NEW j \in 1 .. Len(w), NEW l \in Leaders(w), l <= j,
         \A k \in Leaders(w) : k <= j => k <= l
  PROVE  BlockOf(w, j) = l
<1>1. Len(w) \in Nat /\ Leaders(w) \subseteq 1 .. Len(w)
  BY LeadersType, WindowType
<1>2. BlockOf(w, j) <= l /\ l <= BlockOf(w, j) /\ BlockOf(w, j) \in 1 .. Len(w)
  BY <1>1, BlockOfIsLastLeader
<1>3. QED
  BY <1>1, <1>2

\* A block has a last instruction, before the next leader.
LEMMA LastOfIsBeforeNextLeader ==
  ASSUME NEW w \in Windows, NEW l \in Leaders(w)
  PROVE  /\ LastOf(w, l) \in l .. Len(w)
         /\ LastOf(w, l) = Len(w) \/ LastOf(w, l) + 1 \in Leaders(w)
         /\ \A k \in l + 1 .. LastOf(w, l) : k \notin Leaders(w)
<1>1. Len(w) \in Nat /\ Leaders(w) \subseteq 1 .. Len(w)
  BY LeadersType, WindowType
<1> DEFINE T == {j \in l .. Len(w) : j = Len(w) \/ j + 1 \in Leaders(w)}
<1>2. T \in SUBSET Nat /\ T # {}
  BY <1>1
<1>3. PICK j \in T : \A y \in T : j <= y
  BY <1>2, LeastElement
<1>4. ASSUME NEW k \in l + 1 .. j, k \in Leaders(w) PROVE FALSE
  <2>1. k - 1 \in T
    BY <1>1, <1>4
  <2>2. QED
    BY <1>1, <1>3, <2>1
<1>5. \E i \in l .. Len(w) : /\ i = Len(w) \/ i + 1 \in Leaders(w)
                             /\ \A k \in l + 1 .. i : k \notin Leaders(w)
  BY <1>4
<1>6. QED
  BY <1>5, Zenon DEF LastOf

LEMMA LastOfIs ==
  ASSUME NEW w \in Windows, NEW l \in Leaders(w), NEW j \in l .. Len(w),
         j = Len(w) \/ j + 1 \in Leaders(w),
         \A k \in l + 1 .. j : k \notin Leaders(w)
  PROVE  LastOf(w, l) = j
<1>1. Len(w) \in Nat /\ Leaders(w) \subseteq 1 .. Len(w)
  BY LeadersType, WindowType
<1>2. /\ LastOf(w, l) \in l .. Len(w)
      /\ LastOf(w, l) = Len(w) \/ LastOf(w, l) + 1 \in Leaders(w)
      /\ \A k \in l + 1 .. LastOf(w, l) : k \notin Leaders(w)
  BY LastOfIsBeforeNextLeader
<1>3. ~(LastOf(w, l) < j)
  BY <1>1, <1>2
<1>4. ~(j < LastOf(w, l))
  BY <1>1, <1>2
<1>5. QED
  BY <1>1, <1>2, <1>3, <1>4

\* The first instruction of a block is in it; an instruction before a leader, or
\* at the end, is the last of its block, and any other is in the block of the next.
LEMMA LeaderIsItsBlock ==
  ASSUME NEW w \in Windows, NEW l \in Leaders(w)
  PROVE  BlockOf(w, l) = l
<1>1. Len(w) \in Nat /\ Leaders(w) \subseteq 1 .. Len(w)
  BY LeadersType, WindowType
<1>2. QED
  BY <1>1, BlockOfIs

LEMMA BeforeLeaderIsLast ==
  ASSUME NEW w \in Windows, NEW j \in 1 .. Len(w), j = Len(w) \/ j + 1 \in Leaders(w)
  PROVE  LastOf(w, BlockOf(w, j)) = j
<1>1. Len(w) \in Nat /\ Leaders(w) \subseteq 1 .. Len(w)
  BY LeadersType, WindowType
<1>2. /\ BlockOf(w, j) \in Leaders(w) /\ BlockOf(w, j) <= j
      /\ \A k \in Leaders(w) : k <= j => k <= BlockOf(w, j)
  BY BlockOfIsLastLeader
<1>3. j \in BlockOf(w, j) .. Len(w) /\ \A k \in BlockOf(w, j) + 1 .. j : k \notin Leaders(w)
  BY <1>1, <1>2
<1>4. QED
  BY <1>2, <1>3, LastOfIs

LEMMA NextIsInBlock ==
  ASSUME NEW w \in Windows, NEW j \in 1 .. Len(w), j + 1 \in 1 .. Len(w), j + 1 \notin Leaders(w)
  PROVE  BlockOf(w, j + 1) = BlockOf(w, j)
<1>1. Len(w) \in Nat /\ Leaders(w) \subseteq 1 .. Len(w)
  BY LeadersType, WindowType
<1>2. /\ BlockOf(w, j) \in Leaders(w) /\ BlockOf(w, j) <= j
      /\ \A k \in Leaders(w) : k <= j => k <= BlockOf(w, j)
  BY BlockOfIsLastLeader
<1>3. BlockOf(w, j) <= j + 1 /\ \A k \in Leaders(w) : k <= j + 1 => k <= BlockOf(w, j)
  BY <1>1, <1>2
<1>4. QED
  BY <1>2, <1>3, BlockOfIs

\* Blocks are in the order of their instructions.
LEMMA BlockOfIsMonotone ==
  ASSUME NEW w \in Windows, NEW i \in 1 .. Len(w), NEW j \in 1 .. Len(w), i <= j
  PROVE  BlockOf(w, i) <= BlockOf(w, j)
<1>1. Len(w) \in Nat /\ Leaders(w) \subseteq 1 .. Len(w)
  BY LeadersType, WindowType
<1>2. BlockOf(w, i) \in Leaders(w) /\ BlockOf(w, i) <= i
  BY BlockOfIsLastLeader
<1>3. BlockOf(w, i) <= j
  BY <1>1, <1>2
<1>4. QED
  BY <1>2, <1>3, BlockOfIsLastLeader

-----------------------------------------------------------------------------
(* How control moves in a window: from instruction j to k, or outside.     *)

Falls(w, j, k) == FallsThrough(w[j].kind) /\ k = j + 1 /\ k \in 1 .. Len(w)
Jumps(w, j, k) == w[j].kind \in {"Branch", "ConditionalBranch"} /\ k \in Inside(w, j)
Calls(w, j, k) == w[j].kind = "Call" /\ k \in Inside(w, j)
Leaves(w, j) ==
  \/ FallsThrough(w[j].kind) /\ j = Len(w)
  \/ w[j].kind \in {"Branch", "ConditionalBranch"} /\ Inside(w, j) = {}
  \/ w[j].kind \in {"Return", "Trap", "IndirectBranch"}

\* A jump or a call leads to the first instruction of a block, and a jump is the
\* last instruction of its own.
LEMMA TargetsAreLeaders ==
  ASSUME NEW w \in Windows, NEW j \in 1 .. Len(w), NEW k, Jumps(w, j, k) \/ Calls(w, j, k)
  PROVE  k \in Leaders(w) /\ k \in 1 .. Len(w)
<1>1. DOMAIN w = 1 .. Len(w)
  BY WindowType
<1>2. k \in Inside(w, j)
  BY DEF Jumps, Calls
<1>3. QED
  BY <1>1, <1>2 DEF Leaders, Inside

LEMMA BoundaryIsLast ==
  ASSUME NEW w \in Windows, NEW j \in 1 .. Len(w), IsBoundary(w[j].kind)
  PROVE  /\ j = Len(w) \/ j + 1 \in Leaders(w)
         /\ LastOf(w, BlockOf(w, j)) = j
<1>1. Len(w) \in Nat
  BY WindowType
<1>2. j = Len(w) \/ j + 1 \in Leaders(w)
  BY <1>1 DEF Leaders
<1>3. QED
  BY <1>2, BeforeLeaderIsLast

\* Falling into a block, a jump and a call are edges.
LEMMA FallIsEdge ==
  ASSUME NEW w \in Windows, NEW j \in 1 .. Len(w), Falls(w, j, j + 1), j + 1 \in Leaders(w)
  PROVE  [source |-> j, target |-> j + 1, kind |-> "Fallthrough"] \in FallthroughEdges(w)
<1>1. BlockOf(w, j) \in Leaders(w) /\ LastOf(w, BlockOf(w, j)) = j
  BY BlockOfIsLastLeader, BeforeLeaderIsLast
<1>2. QED
  BY <1>1 DEF FallthroughEdges, Falls

LEMMA JumpIsEdge ==
  ASSUME NEW w \in Windows, NEW j \in 1 .. Len(w), NEW k, Jumps(w, j, k)
  PROVE  \E e \in Edges(w) : /\ e.source = j /\ e.target = k
                             /\ e.kind \in {"Branch", "ConditionalBranch"}
<1> DEFINE e == [source |-> j, target |-> k, kind |-> w[j].kind]
<1>1. DOMAIN w = 1 .. Len(w)
  BY WindowType
<1>2. e \in EdgesOf(w, j)
  BY DEF EdgesOf, Jumps, Inside, IsCall
<1>3. e \in Edges(w) /\ e.source = j /\ e.target = k /\ e.kind \in {"Branch", "ConditionalBranch"}
  BY <1>1, <1>2 DEF Edges, Jumps
<1>4. QED
  BY <1>3

LEMMA CallIsEdge ==
  ASSUME NEW w \in Windows, NEW j \in 1 .. Len(w), NEW k, Calls(w, j, k)
  PROVE  [source |-> j, target |-> k, kind |-> "Call"] \in Edges(w)
<1>1. DOMAIN w = 1 .. Len(w)
  BY WindowType
<1>2. [source |-> j, target |-> k, kind |-> "Call"] \in EdgesOf(w, j)
  BY DEF EdgesOf, Calls, Inside, IsCall
<1>3. QED
  BY <1>1, <1>2 DEF Edges

-----------------------------------------------------------------------------
(* Which blocks are visited, and where a run leaves the window.            *)

\* Following a structural edge stays in the reachable blocks.
LEMMA ReachableIsClosed ==
  ASSUME NEW w \in Windows, NEW e \in Edges(w), IsStructural(e.kind),
         e.source \in 1 .. Len(w), e.target \in 1 .. Len(w),
         BlockOf(w, e.source) \in Reachable(w)
  PROVE  BlockOf(w, e.target) \in Reachable(w)
<1>1. DOMAIN w = 1 .. Len(w)
  BY WindowType
<1>2. <<BlockOf(w, e.source), BlockOf(w, e.target)>> \in BlockFlow(w)
  BY <1>1 DEF BlockFlow
<1>3. BlockOf(w, e.target) \in Leaders(w)
  BY BlockOfIsLastLeader
<1>4. QED
  BY <1>2, <1>3 DEF Reachable

LEMMA FirstIsReachable ==
  ASSUME NEW w \in Windows
  PROVE  BlockOf(w, 1) \in Reachable(w)
<1>1. 1 \in Leaders(w) /\ BlockOf(w, 1) = 1
  BY LeadersType, LeaderIsItsBlock
<1>2. QED
  BY <1>1 DEF Reachable

\* The source of a structural edge is the last instruction of its block.
LEMMA StructuralEdgeIsLast ==
  ASSUME NEW w \in Windows, NEW e \in Edges(w), IsStructural(e.kind)
  PROVE  /\ e.source \in 1 .. Len(w)
         /\ LastOf(w, BlockOf(w, e.source)) = e.source
         /\ \/ /\ e.kind = "Fallthrough" /\ FallsThrough(w[e.source].kind)
               /\ e.target = e.source + 1 /\ e.source + 1 \in Leaders(w)
            \/ /\ w[e.source].kind \in {"Branch", "ConditionalBranch"}
               /\ e.target \in w[e.source].to
            \/ e.target = 0
<1>1. /\ Len(w) \in Nat /\ DOMAIN w = 1 .. Len(w)
      /\ Leaders(w) \subseteq 1 .. Len(w)
      /\ \A j \in 1 .. Len(w) : IsInstruction(w[j])
  BY WindowType, LeadersType
<1>2. CASE e \in FallthroughEdges(w)
  <2>1. PICK l \in Leaders(w) :
           /\ FallsThrough(w[LastOf(w, l)].kind) /\ LastOf(w, l) + 1 \in Leaders(w)
           /\ e = [source |-> LastOf(w, l), target |-> LastOf(w, l) + 1, kind |-> "Fallthrough"]
    BY <1>2 DEF FallthroughEdges
  <2>2. LastOf(w, l) \in 1 .. Len(w)
    BY <1>1, LastOfIsBeforeNextLeader
  <2>3. LastOf(w, BlockOf(w, LastOf(w, l))) = LastOf(w, l)
    BY <2>1, <2>2, BeforeLeaderIsLast
  <2>4. e.source = LastOf(w, l) /\ e.target = LastOf(w, l) + 1 /\ e.kind = "Fallthrough"
    BY <2>1
  <2>5. QED
    BY <2>1, <2>2, <2>3, <2>4
<1>3. CASE e \notin FallthroughEdges(w)
  <2>1. PICK j \in 1 .. Len(w) : e \in EdgesOf(w, j)
    BY <1>1, <1>3 DEF Edges
  <2>2. /\ w[j].kind \in Kinds
        /\ w[j].to # {} => w[j].kind \in {"Branch", "ConditionalBranch", "Call"}
    BY <1>1 DEF IsInstruction
  <2>3. /\ e.source = j
        /\ w[j].kind \in {"Branch", "ConditionalBranch", "IndirectBranch"}
        /\ e.target \in w[j].to \/ e.target = 0
    BY <2>1, <2>2 DEF EdgesOf, IsStructural, IsCall, Kinds
  <2>4. IsBoundary(w[j].kind)
    BY <2>3 DEF IsBoundary
  <2>5. LastOf(w, BlockOf(w, j)) = j
    BY <2>4, BoundaryIsLast
  <2>6. QED
    BY <2>2, <2>3, <2>5
<1>4. QED
  BY <1>2, <1>3

\* A run that leaves the window after instruction j does so from an exit block or
\* by a jump that may go outside, and not by falling through.
LEMMA LeavingIsSeen ==
  ASSUME NEW w \in Windows, NEW j \in 1 .. Len(w), Leaves(w, j)
  PROVE  LET l == BlockOf(w, j)
         IN /\ Terminator(w, l) # "Fallthrough"
            /\ \/ l \in ExitBlocks(w)
               \/ w[LastOf(w, l)].to \ DOMAIN w # {}
               \/ w[LastOf(w, l)].kind = "ConditionalBranch"
<1> DEFINE l == BlockOf(w, j)
<1>1. /\ Len(w) \in Nat /\ DOMAIN w = 1 .. Len(w) /\ Leaders(w) \subseteq 1 .. Len(w)
      /\ IsInstruction(w[j])
  BY WindowType, LeadersType
<1>2. l \in Leaders(w) /\ LastOf(w, l) = j
  <2>1. j = Len(w) \/ IsBoundary(w[j].kind)
    BY DEF Leaves, IsBoundary
  <2>2. QED
    BY <2>1, BoundaryIsLast, BeforeLeaderIsLast, BlockOfIsLastLeader
<1>3. Terminator(w, l) # "Fallthrough"
  BY <1>2 DEF Terminator, Leaves
<1>4. ASSUME w[j].to \subseteq DOMAIN w, w[j].kind # "ConditionalBranch" PROVE Successors(w, l) = {}
  <2>1. SUFFICES ASSUME NEW e \in Edges(w), IsStructural(e.kind), e.target \in DOMAIN w,
                        BlockOf(w, e.source) = l
                 PROVE  FALSE
    BY DEF Successors, BlockFlow
  <2>2. e.source = j
    BY <1>2, <2>1, StructuralEdgeIsLast
  <2>3. e.target # 0
    BY <1>1, <2>1
  <2>4. CASE FallsThrough(w[j].kind) /\ j + 1 \in Leaders(w)
    <3>1. j # Len(w)
      <4>1. j + 1 \in 1 .. Len(w)
        BY <1>1, <2>4
      <4>2. Len(w) \in Nat
        BY <1>1
      <4>3. j + 1 <= Len(w) /\ j \in Nat
        BY <4>1, <4>2
      <4>4. QED
        BY <4>2, <4>3
    <3>2. w[j].kind \notin {"Branch", "Return", "Trap", "IndirectBranch"}
      BY <2>4 DEF FallsThrough
    <3>3. QED
      BY <1>4, <3>1, <3>2 DEF Leaves
  <2>5. CASE w[j].kind \in {"Branch", "ConditionalBranch"} /\ e.target \in w[j].to
    BY <1>1, <1>4, <2>1, <2>5 DEF Leaves, Inside, FallsThrough
  <2>6. QED
    BY <2>1, <2>2, <2>3, <2>4, <2>5, StructuralEdgeIsLast
<1>5. QED
  BY <1>2, <1>3, <1>4 DEF ExitBlocks

-----------------------------------------------------------------------------
(* Every run is a walk.                                                    *)

\* The processor runs only once the pass is over, inside the window.
ControlInv ==
  /\ window \in Windows
  /\ at \in 1 .. Len(window) + 1
  /\ pc \in 0 .. Len(window) /\ ran \in 0 .. Len(window)
  /\ pc # 0 \/ ran # 0 => at > Len(window)

LEMMA ExecuteMoves ==
  ASSUME ControlInv, Execute
  PROVE  /\ pc \in 1 .. Len(window) /\ ran' = pc
         /\ UNCHANGED <<window, pass>>
         /\ \/ pc' = 0 /\ Leaves(window, pc)
            \/ pc' = pc + 1 /\ Falls(window, pc, pc + 1)
            \/ Jumps(window, pc, pc')
<1>1. /\ Len(window) \in Nat /\ DOMAIN window = 1 .. Len(window) /\ pc \in 1 .. Len(window)
      /\ window[pc].kind \in Kinds
  BY WindowType DEF ControlInv, Execute, IsInstruction
<1> DEFINE kind == window[pc].kind
           next == IF pc + 1 \in DOMAIN window THEN {pc + 1} ELSE {0}
           jump == IF Inside(window, pc) = {} THEN {0} ELSE Inside(window, pc)
<1>2. /\ pc' \in CASE kind = "Branch" -> jump
                   [] kind = "ConditionalBranch" -> jump \cup next
                   [] kind \in {"Return", "Trap", "IndirectBranch"} -> {0}
                   [] OTHER -> next
      /\ ran' = pc /\ UNCHANGED <<window, pass>>
  BY DEF Execute
<1>3. \/ pc' \in jump /\ kind \in {"Branch", "ConditionalBranch"}
      \/ pc' \in next /\ FallsThrough(kind)
      \/ pc' = 0 /\ kind \in {"Return", "Trap", "IndirectBranch"}
  <2> HIDE DEF next, jump
  <2>1. QED
    BY <1>1, <1>2 DEF Kinds, FallsThrough
<1>4. CASE pc' \in jump /\ kind \in {"Branch", "ConditionalBranch"}
  BY <1>1, <1>2, <1>4 DEF Jumps, Leaves
<1>5. CASE pc' \in next /\ FallsThrough(kind)
  BY <1>1, <1>2, <1>5 DEF Falls, Leaves
<1>6. CASE pc' = 0 /\ kind \in {"Return", "Trap", "IndirectBranch"}
  BY <1>1, <1>2, <1>6 DEF Leaves
<1>7. QED
  BY <1>3, <1>4, <1>5, <1>6

LEMMA CallInsideMoves ==
  ASSUME ControlInv, CallInside
  PROVE  /\ pc \in 1 .. Len(window) /\ ran' = 0
         /\ UNCHANGED <<window, pass, regs, nzcv>>
         /\ Calls(window, pc, pc') /\ pc' \in 1 .. Len(window)
<1>1. DOMAIN window = 1 .. Len(window) /\ pc \in 1 .. Len(window)
  BY WindowType DEF ControlInv, CallInside
<1>2. QED
  BY <1>1 DEF CallInside, Calls, Inside

LEMMA ControlInit == Init => ControlInv
<1>1. SUFFICES ASSUME Init PROVE ControlInv
  OBVIOUS
<1>2. window \in Windows /\ Len(window) \in Nat /\ Len(window) >= 1
  BY <1>1, WindowType DEF Init
<1>3. QED
  BY <1>1, <1>2 DEF Init, ControlInv

LEMMA ControlStep == ControlInv /\ [Next]_vars => ControlInv'
<1>1. SUFFICES ASSUME ControlInv, [Next]_vars PROVE ControlInv'
  OBVIOUS
<1>2. Len(window) \in Nat /\ Len(window) >= 1
  BY <1>1, WindowType DEF ControlInv
<1>3. CASE Step
  <2>1. at <= Len(window) /\ at' = at + 1 /\ window' = window /\ pc' = pc /\ ran' = ran
    BY <1>3 DEF Step, processor
  <2>2. at \in Nat /\ at' \in 1 .. Len(window) + 1
    BY <1>1, <1>2, <2>1 DEF ControlInv
  <2>3. pc = 0 /\ ran = 0
    BY <1>1, <1>2, <2>1, <2>2 DEF ControlInv
  <2>4. QED
    BY <1>1, <1>2, <2>1, <2>2, <2>3 DEF ControlInv
<1>4. CASE Enter
  <2>1. at > Len(window) /\ pc' = 1 /\ ran' = ran /\ window' = window /\ at' = at
    BY <1>4 DEF Enter, pass
  <2>2. QED
    BY <1>1, <1>2, <2>1 DEF ControlInv
<1>5. CASE Execute
  <2>1. /\ pc \in 1 .. Len(window) /\ ran' = pc /\ UNCHANGED <<window, pass>>
        /\ \/ pc' = 0
           \/ pc' = pc + 1 /\ Falls(window, pc, pc + 1)
           \/ Jumps(window, pc, pc')
    BY <1>1, <1>5, ExecuteMoves
  <2>2. pc' \in 0 .. Len(window)
    <3>1. CASE pc' = 0
      BY <1>2, <3>1
    <3>2. CASE pc' = pc + 1 /\ Falls(window, pc, pc + 1)
      BY <1>2, <3>2 DEF Falls
    <3>3. CASE Jumps(window, pc, pc')
      <4>1. pc' \in 1 .. Len(window)
        BY <1>1, <2>1, <3>3, TargetsAreLeaders DEF ControlInv
      <4>2. QED
        BY <1>2, <4>1
    <3>4. QED
      BY <2>1, <3>1, <3>2, <3>3
  <2>3. QED
    BY <1>1, <1>2, <2>1, <2>2 DEF ControlInv, pass
<1>6. CASE CallInside
  BY <1>1, <1>2, <1>6, CallInsideMoves DEF ControlInv, pass
<1>7. CASE UNCHANGED vars
  BY <1>1, <1>7 DEF ControlInv, vars, pass, processor
<1>8. QED
  BY <1>1, <1>3, <1>4, <1>5, <1>6, <1>7 DEF Next

\* A run starts in the first block, follows structural edges while no call enters
\* the window, and leaves it from the last instruction of a block.
LEMMA VisitsStep ==
  ControlInv /\ VisitsReachableBlocks /\ [Next]_vars => VisitsReachableBlocks'
<1>1. SUFFICES ASSUME ControlInv, VisitsReachableBlocks, [Next]_vars PROVE VisitsReachableBlocks'
  OBVIOUS
<1>2. window \in Windows /\ Len(window) \in Nat /\ Len(window) >= 1 /\ DOMAIN window = 1 .. Len(window)
  BY <1>1, WindowType DEF ControlInv
<1> DEFINE NoCall == \A j \in DOMAIN window : window[j].kind = "Call" => Inside(window, j) = {}
<1>3. CASE Step
  BY <1>1, <1>2, <1>3 DEF VisitsReachableBlocks, Step, processor
<1>4. CASE Enter
  BY <1>2, <1>4, FirstIsReachable DEF VisitsReachableBlocks, Enter
<1>5. CASE Execute
  <2>1. /\ pc \in 1 .. Len(window) /\ ran' = pc /\ window' = window
        /\ \/ pc' = 0 /\ Leaves(window, pc)
           \/ pc' = pc + 1 /\ Falls(window, pc, pc + 1)
           \/ Jumps(window, pc, pc')
    BY <1>1, <1>5, ExecuteMoves
  <2>2. NoCall => BlockOf(window, pc) \in Reachable(window)
    BY <1>1, <2>1 DEF VisitsReachableBlocks
  <2>3. CASE pc' = 0 /\ Leaves(window, pc)
    BY <1>2, <2>1, <2>3, LeavingIsSeen DEF VisitsReachableBlocks
  <2>4. CASE pc' = pc + 1 /\ Falls(window, pc, pc + 1)
    <3>1. pc + 1 \in 1 .. Len(window)
      BY <2>4 DEF Falls
    <3>2. CASE pc + 1 \in Leaders(window)
      <4> DEFINE e == [source |-> pc, target |-> pc + 1, kind |-> "Fallthrough"]
      <4>1. e \in Edges(window)
        BY <1>2, <2>1, <2>4, <3>2, FallIsEdge DEF Edges
      <4>2. e.source = pc /\ e.target = pc + 1 /\ IsStructural(e.kind)
        BY DEF IsStructural
      <4> HIDE DEF e
      <4>3. NoCall => BlockOf(window, pc + 1) \in Reachable(window)
        BY <1>2, <2>1, <2>2, <3>1, <4>1, <4>2, ReachableIsClosed
      <4>4. QED
        BY <1>2, <2>1, <2>4, <3>1, <4>3 DEF VisitsReachableBlocks
    <3>3. CASE pc + 1 \notin Leaders(window)
      <4>1. BlockOf(window, pc + 1) = BlockOf(window, pc)
        BY <1>2, <2>1, <3>1, <3>3, NextIsInBlock
      <4>2. QED
        BY <1>2, <2>1, <2>2, <2>4, <3>1, <4>1 DEF VisitsReachableBlocks
    <3>4. QED
      BY <3>2, <3>3
  <2>5. CASE Jumps(window, pc, pc')
    <3>1. pc' \in 1 .. Len(window)
      BY <1>2, <2>1, <2>5, TargetsAreLeaders
    <3>2. PICK e \in Edges(window) : /\ e.source = pc /\ e.target = pc'
                                     /\ e.kind \in {"Branch", "ConditionalBranch"}
      BY <1>2, <2>1, <2>5, JumpIsEdge
    <3>3. IsStructural(e.kind)
      BY <3>2 DEF IsStructural
    <3>4. NoCall => BlockOf(window, pc') \in Reachable(window)
      BY <1>2, <2>1, <2>2, <3>1, <3>2, <3>3, ReachableIsClosed
    <3>5. QED
      BY <1>2, <2>1, <3>1, <3>4 DEF VisitsReachableBlocks
  <2>6. QED
    BY <2>1, <2>3, <2>4, <2>5
<1>6. CASE CallInside
  <2>1. /\ pc \in 1 .. Len(window) /\ ran' = 0 /\ window' = window
        /\ Calls(window, pc, pc') /\ pc' \in 1 .. Len(window)
    BY <1>1, <1>6, CallInsideMoves
  <2>2. ~NoCall
    BY <1>2, <2>1 DEF Calls
  <2>3. QED
    BY <2>1, <2>2 DEF VisitsReachableBlocks
<1>7. CASE UNCHANGED vars
  BY <1>1, <1>7 DEF VisitsReachableBlocks, vars, processor
<1>8. QED
  BY <1>1, <1>3, <1>4, <1>5, <1>6, <1>7 DEF Next

THEOREM ControlIsInWindow == Spec => []ControlInv
<1>1. Init => ControlInv
  BY ControlInit
<1>2. ControlInv /\ [Next]_vars => ControlInv'
  BY ControlStep
<1>3. QED
  BY <1>1, <1>2, PTL DEF Spec

LEMMA VisitsInit == Init => VisitsReachableBlocks
BY DEF Init, VisitsReachableBlocks

THEOREM RunsVisitReachableBlocks == Spec => []VisitsReachableBlocks
<1>1. Init => VisitsReachableBlocks
  BY VisitsInit
<1>2. ControlInv /\ VisitsReachableBlocks /\ [Next]_vars => VisitsReachableBlocks'
  BY VisitsStep
<1>3. QED
  BY <1>1, <1>2, ControlIsInWindow, PTL DEF Spec

\* The step of BlocksAreStraightLine.
LEMMA StepsAreStraightLine ==
  ASSUME ControlInv, Next, pc # 0, pc' # 0, ran' # 0
  PROVE  \/ pc' = pc + 1 /\ BlockOf(window, pc') = BlockOf(window, pc)
         \/ pc' \in Leaders(window) /\ pc = LastOf(window, BlockOf(window, pc))
<1>1. window \in Windows /\ Len(window) \in Nat /\ at > Len(window) /\ at \in Nat
  BY WindowType DEF ControlInv
<1>2. Execute
  BY <1>1, CallInsideMoves DEF Next, Step, Enter
<1>3. /\ pc \in 1 .. Len(window)
      /\ \/ pc' = pc + 1 /\ Falls(window, pc, pc + 1)
         \/ Jumps(window, pc, pc')
  BY <1>2, ExecuteMoves
<1>4. CASE pc' = pc + 1 /\ Falls(window, pc, pc + 1) /\ pc + 1 \notin Leaders(window)
  BY <1>1, <1>3, <1>4, NextIsInBlock DEF Falls
<1>5. CASE pc' = pc + 1 /\ Falls(window, pc, pc + 1) /\ pc + 1 \in Leaders(window)
  BY <1>1, <1>3, <1>5, BeforeLeaderIsLast
<1>6. CASE Jumps(window, pc, pc')
  <2>1. pc' \in Leaders(window)
    BY <1>1, <1>3, <1>6, TargetsAreLeaders
  <2>2. IsBoundary(window[pc].kind)
    BY <1>6 DEF Jumps, IsBoundary
  <2>3. QED
    BY <1>1, <1>3, <2>1, <2>2, BoundaryIsLast
<1>7. QED
  BY <1>3, <1>4, <1>5, <1>6

\* A structural edge to the first instruction of a block makes it a successor, so
\* that it is not an entry of the window unless it is the first.
LEMMA SuccessorIsNoEntry ==
  ASSUME NEW w \in Windows, NEW e \in Edges(w), IsStructural(e.kind),
         e.source \in 1 .. Len(w), e.target \in Leaders(w)
  PROVE  e.target = 1 \/ e.target \notin EntryBlocks(w)
<1>1. DOMAIN w = 1 .. Len(w) /\ e.target \in 1 .. Len(w)
  BY WindowType, LeadersType
<1>2. BlockOf(w, e.source) \in Leaders(w) /\ BlockOf(w, e.target) = e.target
  BY BlockOfIsLastLeader, LeaderIsItsBlock
<1>3. <<BlockOf(w, e.source), e.target>> \in BlockFlow(w)
  BY <1>1, <1>2 DEF BlockFlow
<1>4. e.target \in Successors(w, BlockOf(w, e.source))
  BY <1>3 DEF Successors
<1>5. QED
  BY <1>2, <1>4 DEF EntryBlocks

\* The step of EveryTransferIsAnEdge.
LEMMA TransfersAreEdges ==
  ASSUME ControlInv, Next, pc # 0, pc' # 0, pc' # pc + 1 \/ pc' \in Leaders(window)
  PROVE  /\ \E e \in Edges(window) : /\ e.source = pc /\ e.target = pc'
                                     /\ IsStructural(e.kind) \/ e.kind = "Call"
         /\ window[pc].kind # "Call" =>
              /\ pc' = 1 \/ pc' \notin EntryBlocks(window)
              /\ pc' <= pc => \E e \in BackEdges(window) : e.source = pc /\ e.target = pc'
<1>1. /\ window \in Windows /\ Len(window) \in Nat /\ DOMAIN window = 1 .. Len(window)
      /\ at > Len(window) /\ at \in Nat
  BY WindowType DEF ControlInv
<1>2. Execute \/ CallInside
  BY <1>1 DEF Next, Step, Enter
<1>3. CASE CallInside
  <2>1. pc \in 1 .. Len(window) /\ Calls(window, pc, pc')
    BY <1>3, CallInsideMoves
  <2> DEFINE e == [source |-> pc, target |-> pc', kind |-> "Call"]
  <2>2. e \in Edges(window) /\ e.source = pc /\ e.target = pc' /\ e.kind = "Call"
    BY <1>1, <2>1, CallIsEdge
  <2>3. window[pc].kind = "Call"
    BY <2>1 DEF Calls
  <2> HIDE DEF e
  <2>4. QED
    BY <2>2, <2>3
<1>4. CASE Execute
  <2>1. /\ pc \in 1 .. Len(window)
        /\ \/ pc' = pc + 1 /\ Falls(window, pc, pc + 1)
           \/ Jumps(window, pc, pc')
    BY <1>4, ExecuteMoves
  <2>2. CASE pc' = pc + 1 /\ Falls(window, pc, pc + 1)
    <3> DEFINE e == [source |-> pc, target |-> pc + 1, kind |-> "Fallthrough"]
    <3>1. pc + 1 \in Leaders(window)
      BY <2>2
    <3>2. /\ e \in Edges(window) /\ e.source = pc /\ e.target = pc + 1
          /\ IsStructural(e.kind)
      BY <1>1, <2>1, <2>2, <3>1, FallIsEdge DEF Edges, IsStructural
    <3> HIDE DEF e
    <3>3. pc + 1 = 1 \/ pc + 1 \notin EntryBlocks(window)
      BY <1>1, <2>1, <3>1, <3>2, SuccessorIsNoEntry
    <3>4. ~(pc' <= pc)
      BY <2>1, <2>2
    <3>5. QED
      BY <2>2, <3>2, <3>3, <3>4
  <2>3. CASE Jumps(window, pc, pc')
    <3>1. pc' \in Leaders(window) /\ pc' \in 1 .. Len(window)
      BY <1>1, <2>1, <2>3, TargetsAreLeaders
    <3>2. PICK e \in Edges(window) : /\ e.source = pc /\ e.target = pc'
                                     /\ e.kind \in {"Branch", "ConditionalBranch"}
      BY <1>1, <2>1, <2>3, JumpIsEdge
    <3>3. IsStructural(e.kind)
      BY <3>2 DEF IsStructural
    <3>4. pc' = 1 \/ pc' \notin EntryBlocks(window)
      BY <1>1, <2>1, <3>1, <3>2, <3>3, SuccessorIsNoEntry
    <3>5. pc' <= pc => e \in BackEdges(window)
      BY <1>1, <2>1, <3>1, <3>2, BlockOfIsMonotone DEF BackEdges
    <3>6. QED
      BY <3>2, <3>3, <3>4, <3>5
  <2>4. QED
    BY <2>1, <2>2, <2>3
<1>5. QED
  BY <1>2, <1>3, <1>4

\* Every run of the window is a walk over its blocks and edges: it enters a block
\* at its first instruction, leaves it after its last one along an edge of the
\* graph, visits reachable blocks only and ends where a block says it may
\* (build_basic_blocks and the edges of analyze_disassembly_impl).
THEOREM EveryRunIsAWalk == Spec => RunsWalkTheGraph
<1>1. ControlInv /\ [Next]_vars =>
        [pc # 0 /\ pc' # 0 /\ ran' # 0 =>
           \/ pc' = pc + 1 /\ BlockOf(window, pc') = BlockOf(window, pc)
           \/ pc' \in Leaders(window) /\ pc = LastOf(window, BlockOf(window, pc))]_vars
  BY StepsAreStraightLine
<1>2. ControlInv /\ [Next]_vars =>
        [pc # 0 /\ pc' # 0 /\ (pc' # pc + 1 \/ pc' \in Leaders(window)) =>
           /\ \E e \in Edges(window) : /\ e.source = pc /\ e.target = pc'
                                       /\ IsStructural(e.kind) \/ e.kind = "Call"
           /\ window[pc].kind # "Call" =>
                /\ pc' = 1 \/ pc' \notin EntryBlocks(window)
                /\ pc' <= pc => \E e \in BackEdges(window) : e.source = pc /\ e.target = pc']_vars
  BY TransfersAreEdges
<1>3. QED
  BY <1>1, <1>2, ControlIsInWindow, RunsVisitReachableBlocks, PTL
     DEF Spec, RunsWalkTheGraph, BlocksAreStraightLine, EveryTransferIsAnEdge

-----------------------------------------------------------------------------
(* What one instruction does to the state of the pass.                     *)

\* The hypothesis of the theorem on values: on its own, every instruction of the
\* windows is evaluated as the processor executes it, whatever the registers hold
\* and whichever of them the pass knows.
EvaluationIsExact ==
  EvaluationIsExactOn([Registers -> Word(XLen)], FlagValues, Word(XLen))

IsMap(m) == m = [n \in DOMAIN m |-> m[n]] /\ DOMAIN m \subseteq Registers

\* The shape of the pass's state, of its tables only that they are left out.
IsState(s) ==
  /\ s = [known |-> s.known, tables |-> s.tables, slots |-> s.slots, done |-> s.done]
  /\ IsMap(s.known) /\ IsMap(s.slots) /\ s.done \in BOOLEAN
  /\ \A n \in DOMAIN s.slots : s.slots[n].base \in Word(XLen)

\* The registers that evaluating an instruction accounts for.
Evaluated(i) == IF i.op = "ldp" THEN {i.d.n, i.d2.n} ELSE {i.d.n}

\* From state s to t only entries of registers in R are new or changed, and none
\* when the destination is not accounted for.
Keeps(R, s, t) ==
  /\ \A n \in DOMAIN t.known : n \notin R => n \in DOMAIN s.known /\ t.known[n] = s.known[n]
  /\ \A n \in DOMAIN t.slots : n \notin R => n \in DOMAIN s.slots /\ t.slots[n] = s.slots[n]
  /\ ~t.done => t.known = s.known /\ t.slots = s.slots

\* Two states that differ in their tables at most.
SameValues(s, t) == s.known = t.known /\ s.slots = t.slots /\ s.done = t.done

\* How step leads from a state, and from one with other tables.
Evaluates(R, s, t, u, v) == IsState(t) /\ Keeps(R, s, t) /\ IsState(v) /\ SameValues(t, v)

LEMMA RegistersHaveKeys ==
  ASSUME NEW r, r.n \in Registers \cup {"zr", "sp"}
  PROVE  HasKey(r) <=> r.n \in Registers
BY WindowsAssumption DEF HasKey

LEMMA WithoutIsMap ==
  ASSUME NEW m, IsMap(m), NEW k
  PROVE  /\ IsMap(Without(m, k)) /\ DOMAIN Without(m, k) = DOMAIN m \ {k}
         /\ \A n \in DOMAIN m \ {k} : Without(m, k)[n] = m[n]
BY DEF IsMap, Without

LEMMA WithIsMap ==
  ASSUME NEW m, IsMap(m), NEW k \in Registers, NEW x
  PROVE  /\ IsMap(With(m, k, x)) /\ DOMAIN With(m, k, x) = DOMAIN m \cup {k}
         /\ With(m, k, x)[k] = x
         /\ \A n \in DOMAIN m \ {k} : With(m, k, x)[n] = m[n]
BY DEF IsMap, With

LEMMA PutKeeps ==
  ASSUME NEW s, IsState(s), NEW r, r.n \in Registers \cup {"zr", "sp"}, NEW v, NEW R, r.n \in R
  PROVE  IsState(Put(s, r, v)) /\ Keeps(R, s, Put(s, r, v)) /\ Put(s, r, v).done = TRUE
<1>1. CASE ~HasKey(r)
  <2>1. Put(s, r, v) = [known |-> s.known, tables |-> s.tables, slots |-> s.slots, done |-> TRUE]
    BY <1>1 DEF Put, IsState
  <2>2. QED
    BY <2>1 DEF IsState, Keeps
<1>2. CASE HasKey(r)
  <2> DEFINE k == With(s.known, r.n, Low(v, r.w))
             l == Without(s.slots, r.n)
  <2>1. Put(s, r, v) = [known |-> k, tables |-> Without(s.tables, r.n), slots |-> l, done |-> TRUE]
    BY <1>2 DEF Put
  <2>2. r.n \in Registers
    BY <1>2, RegistersHaveKeys
  <2>3. /\ IsMap(k) /\ DOMAIN k = DOMAIN s.known \cup {r.n}
        /\ \A n \in DOMAIN s.known \ {r.n} : k[n] = s.known[n]
    BY <2>2, WithIsMap DEF IsState
  <2>4. /\ IsMap(l) /\ DOMAIN l = DOMAIN s.slots \ {r.n}
        /\ \A n \in DOMAIN s.slots \ {r.n} : l[n] = s.slots[n]
    BY WithoutIsMap DEF IsState
  <2> HIDE DEF k, l
  <2>5. QED
    BY <2>1, <2>3, <2>4 DEF IsState, Keeps
<1>3. QED
  BY <1>1, <1>2

LEMMA PutSame ==
  ASSUME NEW s, IsState(s), NEW t, IsState(t), SameValues(s, t), NEW r, NEW v
  PROVE  SameValues(Put(s, r, v), Put(t, r, v))
BY DEF IsState, SameValues, Put

\* Putting a value, when there is one.
LEMMA PutIfKnownEvaluates ==
  ASSUME NEW s, IsState(s), NEW u, IsState(u), SameValues(s, u),
         NEW r, r.n \in Registers \cup {"zr", "sp"}, NEW R, r.n \in R, NEW S
  PROVE  Evaluates(R, s, PutIfKnown(s, r, S), u, PutIfKnown(u, r, S))
<1>1. CASE S = {}
  BY <1>1 DEF PutIfKnown, Evaluates, Keeps
<1>2. CASE S # {}
  BY <1>2, PutKeeps, PutSame DEF PutIfKnown, Evaluates
<1>3. QED
  BY <1>1, <1>2

\* What is kept by two steps is kept by both.
LEMMA EvaluatesTwice ==
  ASSUME NEW R, NEW s, NEW t, NEW x, NEW u, NEW v, NEW y,
         Evaluates(R, s, t, u, v), Evaluates(R, t, x, v, y), t.done => x.done
  PROVE  Evaluates(R, s, x, u, y)
BY DEF Evaluates, Keeps

LEMMA LiteralStepEvaluates ==
  ASSUME NEW s, IsState(s), NEW u, IsState(u), SameValues(s, u),
         NEW i, i.d.n \in Registers \cup {"zr", "sp"}
  PROVE  Evaluates({i.d.n}, s, LiteralStep(i, s), u, LiteralStep(i, u))
<1> DEFINE v == ReadImage(i.imm, LoadBytes(i), LoadSigned(i))
<1>1. CASE v = {}
  BY <1>1 DEF LiteralStep, Evaluates, Keeps
<1>2. CASE v # {}
  <2>1. LiteralStep(i, s) = Put(s, i.d, One(v)) /\ LiteralStep(i, u) = Put(u, i.d, One(v))
    BY <1>2 DEF LiteralStep
  <2>2. QED
    BY <2>1, PutKeeps, PutSame DEF Evaluates
<1>3. QED
  BY <1>1, <1>2

LEMMA PairStepEvaluates ==
  ASSUME NEW s, IsState(s), NEW u, IsState(u), SameValues(s, u),
         NEW i, {i.d.n, i.d2.n} \subseteq Registers \cup {"zr", "sp"}
  PROVE  Evaluates({i.d.n, i.d2.n}, s, PairStep(i, s), u, PairStep(i, u))
<1> DEFINE n == i.d.w \div ByteLen
           pairs == UNION {LoadedFrom(a, n, FALSE) \X
                             UNION {LoadedFrom(b, n, FALSE) : b \in AddChecked(a, n)} :
                             a \in BaseAddress(i, s.known)}
           p == One(pairs)
           R == {i.d.n, i.d2.n}
<1>1. s.known = u.known
  BY DEF SameValues
<1>2. /\ PairStep(i, s) = IF pairs = {} THEN s ELSE Put(Put(s, i.d, p[1]), i.d2, p[2])
      /\ PairStep(i, u) = IF pairs = {} THEN u ELSE Put(Put(u, i.d, p[1]), i.d2, p[2])
  BY <1>1 DEF PairStep
<1> HIDE DEF p, pairs
<1>3. CASE pairs = {}
  BY <1>2, <1>3 DEF Evaluates, Keeps
<1>4. CASE pairs # {}
  <2> DEFINE t == Put(s, i.d, p[1])
             v == Put(u, i.d, p[1])
  <2>1. Evaluates(R, s, t, u, v)
    BY PutKeeps, PutSame DEF Evaluates
  <2>2. IsState(t) /\ IsState(v) /\ SameValues(t, v)
    BY <2>1 DEF Evaluates
  <2> HIDE DEF t, v
  <2>3. Evaluates(R, t, Put(t, i.d2, p[2]), v, Put(v, i.d2, p[2])) /\ Put(t, i.d2, p[2]).done = TRUE
    BY <2>2, PutKeeps, PutSame DEF Evaluates
  <2>4. Evaluates(R, s, Put(t, i.d2, p[2]), u, Put(v, i.d2, p[2]))
    BY <2>1, <2>3, EvaluatesTwice
  <2>5. QED
    BY <1>2, <1>4, <2>4 DEF t, v
<1>5. QED
  BY <1>3, <1>4

\* The tables may be replaced at will.
LEMMA OtherTables ==
  ASSUME NEW s, IsState(s), NEW x
  PROVE  /\ [s EXCEPT !.tables = x] = [known |-> s.known, tables |-> x, slots |-> s.slots, done |-> s.done]
         /\ IsState([s EXCEPT !.tables = x]) /\ SameValues(s, [s EXCEPT !.tables = x])
         /\ [s EXCEPT !.tables = x].tables = x
BY DEF IsState, SameValues

LEMMA BaseAddressIsWord ==
  ASSUME NEW i, NEW m, BaseAddress(i, m) # {}
  PROVE  One(BaseAddress(i, m)) \in Word(XLen)
<1>1. BaseAddress(i, m) \subseteq Word(XLen)
  BY DEF BaseAddress, AddChecked
<1>2. One(BaseAddress(i, m)) \in BaseAddress(i, m)
  BY DEF One
<1>3. QED
  BY <1>1, <1>2

LEMMA TracedSame ==
  ASSUME NEW i, NEW s, IsState(s)
  PROVE  IsState(Traced(i, s)) /\ SameValues(s, Traced(i, s))
BY OtherTables DEF Traced, SameValues

\* PutLoaded is Put, but for the table.
LEMMA PutLoadedKeeps ==
  ASSUME NEW i, i.d.n \in Registers \cup {"zr", "sp"}, NEW s, IsState(s), NEW v
  PROVE  /\ IsState(PutLoaded(i, s, v)) /\ SameValues(PutLoaded(i, s, v), Put(s, i.d, v))
         /\ Keeps({i.d.n}, s, PutLoaded(i, s, v))
<1> DEFINE y == Put(s, i.d, v)
<1>1. IsState(y) /\ Keeps({i.d.n}, s, y)
  BY PutKeeps
<1>2. PutLoaded(i, s, v) = y \/ PutLoaded(i, s, v) = [y EXCEPT !.tables = s.tables]
  BY DEF PutLoaded
<1> HIDE DEF y
<1> DEFINE x == [y EXCEPT !.tables = s.tables]
<1>3. IsState(x) /\ SameValues(y, x)
  BY <1>1, OtherTables, Zenon
<1> HIDE DEF x
<1>4. IsState(PutLoaded(i, s, v)) /\ SameValues(PutLoaded(i, s, v), y)
  <2>1. PutLoaded(i, s, v) = y \/ PutLoaded(i, s, v) = x
    BY <1>2 DEF x
  <2>2. QED
    BY <1>1, <1>3, <2>1 DEF SameValues
<1>5. Keeps({i.d.n}, s, PutLoaded(i, s, v))
  BY <1>1, <1>4 DEF SameValues, Keeps
<1>6. QED
  BY <1>4, <1>5 DEF y

LEMMA PutSlotKeeps ==
  ASSUME NEW r, r.n \in Registers, NEW slot, slot.base \in Word(XLen), NEW s, IsState(s)
  PROVE  IsState(PutSlot(s, r, slot)) /\ Keeps({r.n}, s, PutSlot(s, r, slot))
<1>1. /\ IsMap(Without(s.known, r.n)) /\ DOMAIN Without(s.known, r.n) = DOMAIN s.known \ {r.n}
      /\ \A k \in DOMAIN s.known \ {r.n} : Without(s.known, r.n)[k] = s.known[k]
  BY WithoutIsMap DEF IsState
<1>2. /\ IsMap(With(s.slots, r.n, slot)) /\ DOMAIN With(s.slots, r.n, slot) = DOMAIN s.slots \cup {r.n}
  BY WithIsMap DEF IsState
<1>3. /\ With(s.slots, r.n, slot)[r.n] = slot
      /\ \A k \in DOMAIN s.slots \ {r.n} : With(s.slots, r.n, slot)[k] = s.slots[k]
  BY DEF With
<1>4. IsState(PutSlot(s, r, slot))
  BY <1>1, <1>2, <1>3 DEF IsState, PutSlot
<1>5. Keeps({r.n}, s, PutSlot(s, r, slot))
  BY <1>1, <1>2, <1>3 DEF Keeps, PutSlot
<1>6. QED
  BY <1>4, <1>5

LEMMA DropValueKeeps ==
  ASSUME NEW r, NEW s, IsState(s)
  PROVE  IsState(DropValue(s, r)) /\ Keeps({r.n}, s, DropValue(s, r))
<1>1. /\ IsMap(Without(s.known, r.n)) /\ DOMAIN Without(s.known, r.n) = DOMAIN s.known \ {r.n}
      /\ \A k \in DOMAIN s.known \ {r.n} : Without(s.known, r.n)[k] = s.known[k]
  BY WithoutIsMap DEF IsState
<1>2. /\ IsMap(Without(s.slots, r.n)) /\ DOMAIN Without(s.slots, r.n) = DOMAIN s.slots \ {r.n}
      /\ \A k \in DOMAIN s.slots \ {r.n} : Without(s.slots, r.n)[k] = s.slots[k]
  BY WithoutIsMap DEF IsState
<1>3. QED
  BY <1>1, <1>2 DEF IsState, Keeps, DropValue

LEMMA LoadStepEvaluates ==
  ASSUME NEW s, IsState(s), NEW u, IsState(u), SameValues(s, u),
         NEW i, i.d.n \in Registers \cup {"zr", "sp"}
  PROVE  Evaluates({i.d.n}, s, LoadStep(i, s), u, LoadStep(i, u))
<1> DEFINE s1 == Traced(i, s)
           u1 == Traced(i, u)
<1>1. s.known = u.known
  BY DEF SameValues
<1>2. /\ IsState(s1) /\ SameValues(s, s1) /\ IsState(u1) /\ SameValues(u, u1) /\ SameValues(s1, u1)
      /\ \A y : Keeps({i.d.n}, s1, y) => Keeps({i.d.n}, s, y)
  BY TracedSame DEF SameValues, Keeps
<1>3. ASSUME NEW v, LoadStep(i, s) = PutLoaded(i, s1, v), LoadStep(i, u) = PutLoaded(i, u1, v)
      PROVE  Evaluates({i.d.n}, s, LoadStep(i, s), u, LoadStep(i, u))
  <2> HIDE DEF s1, u1
  <2>1. /\ IsState(PutLoaded(i, s1, v)) /\ SameValues(PutLoaded(i, s1, v), Put(s1, i.d, v))
        /\ Keeps({i.d.n}, s1, PutLoaded(i, s1, v))
        /\ IsState(PutLoaded(i, u1, v)) /\ SameValues(PutLoaded(i, u1, v), Put(u1, i.d, v))
    BY <1>2, PutLoadedKeeps
  <2>2. SameValues(Put(s1, i.d, v), Put(u1, i.d, v))
    BY <1>2, PutSame
  <2>3. QED
    BY <1>2, <1>3, <2>1, <2>2 DEF Evaluates, SameValues
<1>4. CASE BaseAddress(i, s.known) = {}
  <2>1. LoadStep(i, s) = s /\ LoadStep(i, u) = u
    BY <1>1, <1>4 DEF LoadStep
  <2>2. QED
    BY <2>1 DEF Evaluates, Keeps
<1>5. CASE /\ BaseAddress(i, s.known) # {}
           /\ i.op = "ldrsw" /\ SlotLoaded(i, s.known) # {} /\ HasKey(i.d)
  <2> DEFINE e == [base |-> One(BaseAddress(i, s.known)), target |-> One(SlotLoaded(i, s.known))]
  <2>1. LoadStep(i, s) = PutSlot(s1, i.d, e) /\ LoadStep(i, u) = PutSlot(u1, i.d, e)
    BY <1>1, <1>5 DEF LoadStep
  <2>2. i.d.n \in Registers /\ e.base \in Word(XLen)
    BY <1>5, RegistersHaveKeys, BaseAddressIsWord
  <2> HIDE DEF s1, u1, e
  <2>3. /\ IsState(PutSlot(s1, i.d, e)) /\ Keeps({i.d.n}, s1, PutSlot(s1, i.d, e))
        /\ IsState(PutSlot(u1, i.d, e)) /\ Keeps({i.d.n}, u1, PutSlot(u1, i.d, e))
    BY <1>2, <2>2, PutSlotKeeps
  <2>4. SameValues(PutSlot(s1, i.d, e), PutSlot(u1, i.d, e))
    BY <1>2 DEF SameValues, PutSlot
  <2>5. QED
    BY <1>2, <2>1, <2>3, <2>4 DEF Evaluates
<1>6. CASE /\ BaseAddress(i, s.known) # {}
           /\ i.op # "ldrsw" /\ SlotLoaded(i, s.known) # {}
  BY <1>1, <1>3, <1>6 DEF LoadStep
<1>7. CASE /\ BaseAddress(i, s.known) # {}
           /\ ~(i.op = "ldrsw" /\ SlotLoaded(i, s.known) # {} /\ HasKey(i.d))
           /\ ~(i.op # "ldrsw" /\ SlotLoaded(i, s.known) # {})
           /\ ~(i.op # "ldrsw" /\ IsIndexed(i) /\ HasKey(i.d))
           /\ ValueLoaded(i, s.known) # {}
  BY <1>1, <1>3, <1>7 DEF LoadStep
<1>8. CASE /\ BaseAddress(i, s.known) # {}
           /\ ~(i.op = "ldrsw" /\ SlotLoaded(i, s.known) # {} /\ HasKey(i.d))
           /\ ~(i.op # "ldrsw" /\ SlotLoaded(i, s.known) # {})
           /\ i.op # "ldrsw" /\ IsIndexed(i) /\ HasKey(i.d)
  <2>1. LoadStep(i, s) = DropValue(s1, i.d) /\ LoadStep(i, u) = DropValue(u1, i.d)
    BY <1>1, <1>8 DEF LoadStep
  <2> HIDE DEF s1, u1
  <2>2. /\ IsState(DropValue(s1, i.d)) /\ Keeps({i.d.n}, s1, DropValue(s1, i.d))
        /\ IsState(DropValue(u1, i.d)) /\ Keeps({i.d.n}, u1, DropValue(u1, i.d))
    BY <1>2, DropValueKeeps
  <2>3. SameValues(DropValue(s1, i.d), DropValue(u1, i.d))
    BY <1>2 DEF SameValues, DropValue
  <2>4. QED
    BY <1>2, <2>1, <2>2, <2>3 DEF Evaluates
<1>9. CASE /\ BaseAddress(i, s.known) # {}
           /\ ~(i.op = "ldrsw" /\ SlotLoaded(i, s.known) # {} /\ HasKey(i.d))
           /\ ~(i.op # "ldrsw" /\ SlotLoaded(i, s.known) # {})
           /\ ValueLoaded(i, s.known) = {}
           /\ ~(i.op # "ldrsw" /\ IsIndexed(i) /\ HasKey(i.d))
  <2>1. LoadStep(i, s) = s1 /\ LoadStep(i, u) = u1
    BY <1>1, <1>9 DEF LoadStep
  <2> HIDE DEF s1, u1
  <2>2. QED
    BY <1>2, <2>1 DEF Evaluates, Keeps, SameValues
<1>10. QED
  BY <1>4, <1>5, <1>6, <1>7, <1>8, <1>9

LEMMA PutIfKnownIsDone ==
  ASSUME NEW s, IsState(s), NEW r, r.n \in Registers \cup {"zr", "sp"}, NEW S, s.done
  PROVE  PutIfKnown(s, r, S).done
BY PutKeeps DEF PutIfKnown

\* The evaluation of an instruction changes what is believed of its destinations
\* only, accounts for them if it changes anything, and does not look at the tables.
LEMMA SynthesisedEvaluates ==
  ASSUME NEW s, IsState(s), NEW u, IsState(u), SameValues(s, u),
         NEW i, IsInstruction(i), NEW f
  PROVE  Evaluates(Evaluated(i), s, Synthesised(i, s, f), u, Synthesised(i, u, f))
<1>1. {i.d.n, i.d2.n} \subseteq Registers \cup {"zr", "sp"}
  BY DEF IsInstruction
<1>2. s.known = u.known /\ s.slots = u.slots
  BY DEF SameValues
<1>3. CASE i.op = "literal"
  <2>1. Synthesised(i, s, f) = LiteralStep(i, s) /\ Synthesised(i, u, f) = LiteralStep(i, u)
    BY <1>3 DEF Synthesised, Loads
  <2>2. QED
    BY <1>1, <1>3, <2>1, LiteralStepEvaluates DEF Evaluated
<1>4. CASE i.op = "ldp"
  <2>1. Synthesised(i, s, f) = PairStep(i, s) /\ Synthesised(i, u, f) = PairStep(i, u)
    BY <1>4 DEF Synthesised, Loads
  <2>2. QED
    BY <1>1, <1>4, <2>1, PairStepEvaluates DEF Evaluated
<1>5. CASE i.op \in Loads
  <2>1. Synthesised(i, s, f) = LoadStep(i, s) /\ Synthesised(i, u, f) = LoadStep(i, u)
    BY <1>5 DEF Synthesised, Loads
  <2>2. i.op # "ldp"
    BY <1>5 DEF Loads
  <2>3. QED
    BY <1>1, <2>1, <2>2, LoadStepEvaluates DEF Evaluated
<1>6. CASE i.op \notin {"literal", "ldp"} \cup Loads
  <2> DEFINE C == Computed(i, s.known, f)
             t == PutIfKnown(s, i.d, C)
             v == PutIfKnown(u, i.d, C)
             A == RelativeAdd(i, t)
             R == {i.d.n}
  <2>1. Synthesised(i, s, f) = Completed(i, t) /\ Synthesised(i, u, f) = Completed(i, v)
    BY <1>2, <1>6 DEF Synthesised
  <2>2. Evaluates(R, s, t, u, v)
    BY <1>1, PutIfKnownEvaluates
  <2> HIDE DEF C, t, v
  <2>3. IsState(t) /\ IsState(v) /\ SameValues(t, v)
    BY <2>2 DEF Evaluates
  <2>4. Completed(i, t) = PutIfKnown(t, i.d, A) /\ Completed(i, v) = PutIfKnown(v, i.d, A)
    BY <2>3 DEF Completed, RelativeAdd, SameValues
  <2> HIDE DEF A
  <2>5. /\ Evaluates(R, t, Completed(i, t), v, Completed(i, v))
        /\ t.done => Completed(i, t).done
    BY <1>1, <2>3, <2>4, PutIfKnownEvaluates, PutIfKnownIsDone
  <2>6. Evaluates(R, s, Completed(i, t), u, Completed(i, v))
    BY <2>2, <2>5, EvaluatesTwice
  <2>7. QED
    BY <1>6, <2>1, <2>6 DEF Evaluated
<1>7. QED
  BY <1>3, <1>4, <1>5, <1>6

\* Instructions with no destination of their own, control transfers among them,
\* and atomics are never evaluated.
LEMMA NotEvaluated ==
  ASSUME NEW i, NEW s, NEW f,
         i.op \in {"jump", "cmp", "cmn", "ccmp", "ccmn", "tst", "str", "stp", "fcmp", "casp"} \cup Atomics
  PROVE  Synthesised(i, s, f) = s
<1>1. i.op \notin {"literal", "ldp"} \cup Loads
  BY DEF Loads, Atomics
<1>2. Computed(i, s.known, f) = {}
  <2>1. /\ i.op \notin {"adr", "mov", "movz", "movn", "movk", "add", "adds", "sub", "subs", "clz", "cls",
                        "ubfx", "sbfx", "extr", "mvn", "neg", "negs",
                        "cset", "csetm", "cinc", "cinv", "cneg"}
        /\ i.op \notin LogicalOps /\ i.op \notin CarryOps /\ i.op \notin MultiplyOps /\ i.op \notin LongOps
        /\ i.op \notin HighOps /\ i.op \notin DivideOps /\ i.op \notin FieldOps /\ i.op \notin ReverseOps
        /\ i.op \notin ExtendOps /\ i.op \notin ShiftOps /\ i.op \notin SelectOps
    BY DEF Atomics, LogicalOps, CarryOps, MultiplyOps, LongOps, HighOps, DivideOps, FieldOps, ReverseOps,
           ExtendOps, ShiftOps, SelectOps
  <2>2. QED
    BY <2>1, Zenon DEF Computed
<1>3. RelativeAdd(i, s) = {}
  BY DEF RelativeAdd, Atomics
<1>4. QED
  BY <1>1, <1>2, <1>3 DEF Synthesised, PutIfKnown, Completed

-----------------------------------------------------------------------------
(* What one instruction does to the tables.                                *)

\* From state s to t no table is new, and none of a register in R is left.
TablesFrom(s, t, R) ==
  \A n \in DOMAIN t.tables : n \notin R /\ n \in DOMAIN s.tables /\ t.tables[n] = s.tables[n]

\* A load through an index keeps the table it reads from.
KeepsTable(i, m) ==
  /\ BaseAddress(i, m) # {}
  /\ i.op = "ldrsw" => SlotLoaded(i, m) = {} /\ ValueLoaded(i, m) # {}

\* From state s to t the table that i reads from replaces that of its destination,
\* where it is kept.
TableLoaded(i, s, t) ==
  /\ t.done /\ i.d.n \in DOMAIN t.tables <=> KeepsTable(i, s.known)
  /\ t.done /\ i.d.n \in DOMAIN t.tables => t.tables[i.d.n] = TableLoad(i, s.known)
  /\ \A n \in DOMAIN t.tables : n # i.d.n => n \in DOMAIN s.tables /\ t.tables[n] = s.tables[n]

LEMMA TablesOfPut ==
  ASSUME NEW s, IsState(s), DOMAIN s.tables \subseteq Registers,
         NEW r, r.n \in Registers \cup {"zr", "sp"}, NEW v
  PROVE  /\ IsState(Put(s, r, v)) /\ Put(s, r, v).done = TRUE
         /\ TablesFrom(s, Put(s, r, v), {r.n})
         /\ DOMAIN Put(s, r, v).tables \subseteq Registers
<1>1. IsState(Put(s, r, v)) /\ Put(s, r, v).done = TRUE
  BY PutKeeps
<1>2. CASE HasKey(r)
  <2> DEFINE x == Without(s.tables, r.n)
  <2>1. DOMAIN x = DOMAIN s.tables \ {r.n} /\ \A n \in DOMAIN x : x[n] = s.tables[n]
    BY DEF Without
  <2>2. Put(s, r, v).tables = x
    BY <1>2 DEF Put
  <2> HIDE DEF x
  <2>3. QED
    BY <1>1, <2>1, <2>2 DEF TablesFrom
<1>3. CASE ~HasKey(r)
  <2>1. Put(s, r, v) = [known |-> s.known, tables |-> s.tables, slots |-> s.slots, done |-> TRUE]
    BY <1>3 DEF Put, IsState
  <2>2. r.n \notin Registers
    BY <1>3, RegistersHaveKeys
  <2>3. QED
    BY <1>1, <2>1, <2>2 DEF TablesFrom
<1>4. QED
  BY <1>2, <1>3

\* What a load through an index leaves of the tables.
LEMMA TablesOfIndexedLoad ==
  ASSUME NEW i, IsInstruction(i), IsIndexed(i), HasKey(i.d), NEW s, IsState(s), s.done = FALSE
  PROVE  TableLoaded(i, s, LoadStep(i, s))
<1> DEFINE T == TableLoad(i, s.known)
           x == With(s.tables, i.d.n, T)
           s1 == Traced(i, s)
           t == LoadStep(i, s)
<1>1. /\ DOMAIN x = DOMAIN s.tables \cup {i.d.n} /\ x[i.d.n] = T
      /\ \A n \in DOMAIN x : n # i.d.n => n \in DOMAIN s.tables /\ x[n] = s.tables[n]
  BY DEF With
<1>2. IsState(s1) /\ s1.tables = x /\ s1.done = FALSE
  <2>1. s1 = [s EXCEPT !.tables = x]
    BY DEF Traced
  <2> HIDE DEF x
  <2>2. s1.tables = x
    BY <2>1, OtherTables
  <2>3. QED
    BY <2>2, TracedSame DEF SameValues
<1> HIDE DEF T, x, s1
<1>3. CASE BaseAddress(i, s.known) = {}
  <2>1. t = s
    BY <1>3 DEF LoadStep
  <2> HIDE DEF t
  <2>2. QED
    BY <1>3, <2>1 DEF TableLoaded, KeepsTable, t
<1>4. ASSUME NEW y, t = y, y.done = TRUE, y.tables = x, KeepsTable(i, s.known)
      PROVE  TableLoaded(i, s, t)
  <2> HIDE DEF t
  <2>1. QED
    BY <1>1, <1>4 DEF TableLoaded, T
<1>5. ASSUME NEW v
      PROVE  PutLoaded(i, s1, v).done = TRUE /\ PutLoaded(i, s1, v).tables = x
  <2> DEFINE y == Put(s1, i.d, v)
  <2>1. IsState(y) /\ y.done = TRUE
    BY <1>2, PutKeeps DEF IsInstruction
  <2>2. PutLoaded(i, s1, v) = [y EXCEPT !.tables = s1.tables]
    BY DEF PutLoaded
  <2> HIDE DEF y
  <2>3. QED
    BY <1>2, <2>1, <2>2, OtherTables DEF SameValues
<1>6. CASE BaseAddress(i, s.known) # {} /\ i.op = "ldrsw" /\ SlotLoaded(i, s.known) # {}
  <2> DEFINE e == [base |-> One(BaseAddress(i, s.known)), target |-> One(SlotLoaded(i, s.known))]
  <2>1. t = PutSlot(s1, i.d, e)
    BY <1>6 DEF LoadStep, s1
  <2> HIDE DEF e
  <2>2. t.tables = Without(x, i.d.n)
    BY <1>2, <2>1 DEF PutSlot
  <2>3. DOMAIN Without(x, i.d.n) = DOMAIN x \ {i.d.n} /\ \A n \in DOMAIN x \ {i.d.n} : Without(x, i.d.n)[n] = x[n]
    BY DEF Without
  <2> HIDE DEF t
  <2>4. QED
    BY <1>1, <1>6, <2>2, <2>3 DEF TableLoaded, KeepsTable, t
<1>7. CASE BaseAddress(i, s.known) # {} /\ i.op # "ldrsw" /\ SlotLoaded(i, s.known) # {}
  <2>1. t = PutLoaded(i, s1, One(SlotLoaded(i, s.known))) /\ KeepsTable(i, s.known)
    BY <1>7 DEF LoadStep, s1, KeepsTable
  <2>2. QED
    BY <1>4, <1>5, <2>1
<1>8. CASE BaseAddress(i, s.known) # {} /\ i.op # "ldrsw" /\ SlotLoaded(i, s.known) = {}
  <2>1. t = DropValue(s1, i.d) /\ KeepsTable(i, s.known)
    BY <1>8 DEF LoadStep, s1, KeepsTable
  <2>2. DropValue(s1, i.d).done = TRUE /\ DropValue(s1, i.d).tables = x
    BY <1>2 DEF DropValue
  <2>3. QED
    BY <1>4, <2>1, <2>2
<1>9. CASE /\ BaseAddress(i, s.known) # {} /\ i.op = "ldrsw" /\ SlotLoaded(i, s.known) = {}
           /\ ValueLoaded(i, s.known) # {}
  <2>1. t = PutLoaded(i, s1, One(ValueLoaded(i, s.known))) /\ KeepsTable(i, s.known)
    BY <1>9 DEF LoadStep, s1, KeepsTable
  <2>2. QED
    BY <1>4, <1>5, <2>1
<1>10. CASE /\ BaseAddress(i, s.known) # {} /\ i.op = "ldrsw" /\ SlotLoaded(i, s.known) = {}
            /\ ValueLoaded(i, s.known) = {}
  <2>1. t = s1
    BY <1>10 DEF LoadStep, s1
  <2> HIDE DEF t
  <2>2. QED
    BY <1>1, <1>2, <1>10, <2>1 DEF TableLoaded, KeepsTable, t
<1>11. QED
  BY <1>3, <1>6, <1>7, <1>8, <1>9, <1>10

\* Any other load leaves no table of its destination, once that is accounted for.
LEMMA TablesOfLoad ==
  ASSUME NEW i, IsInstruction(i), ~(IsIndexed(i) /\ HasKey(i.d)),
         NEW s, IsState(s), s.done = FALSE, DOMAIN s.tables \subseteq Registers
  PROVE  LET t == LoadStep(i, s) IN TablesFrom(s, t, IF t.done THEN {i.d.n} ELSE {})
<1> DEFINE t == LoadStep(i, s)
<1>1. Traced(i, s) = s /\ \A v : PutLoaded(i, s, v) = Put(s, i.d, v)
  BY DEF Traced, PutLoaded
<1>2. \A v : TablesFrom(s, Put(s, i.d, v), {i.d.n})
  BY TablesOfPut DEF IsInstruction
<1>3. \A slot : TablesFrom(s, PutSlot(s, i.d, slot), {i.d.n})
  BY DEF TablesFrom, PutSlot, Without
<1>4. TablesFrom(s, s, {})
  BY DEF TablesFrom
<1>5. \/ t = s
      \/ \E v : t = Put(s, i.d, v)
      \/ \E slot : t = PutSlot(s, i.d, slot)
  BY <1>1, Zenon DEF LoadStep
<1>6. (TablesFrom(s, t, {}) /\ ~t.done) \/ TablesFrom(s, t, {i.d.n})
  <2> HIDE DEF t
  <2>1. QED
    BY <1>2, <1>3, <1>4, <1>5
<1> HIDE DEF t
<1>7. TablesFrom(s, t, {i.d.n}) => TablesFrom(s, t, {})
  BY DEF TablesFrom
<1>8. QED
  BY <1>6, <1>7 DEF t

\* The evaluation of an instruction keeps a table only where it loads through an
\* index.
LEMMA SynthesisedTables ==
  ASSUME NEW i, IsInstruction(i),
         NEW s, IsState(s), s.done = FALSE, DOMAIN s.tables \subseteq Registers, NEW f
  PROVE  LET t == Synthesised(i, s, f)
         IN /\ IsTableLoad(i) => TableLoaded(i, s, t)
            /\ ~IsTableLoad(i) => TablesFrom(s, t, IF t.done THEN Evaluated(i) ELSE {})
<1> DEFINE t == Synthesised(i, s, f)
<1>1. {i.d.n, i.d2.n} \subseteq Registers \cup {"zr", "sp"}
  BY DEF IsInstruction
<1>2. TablesFrom(s, s, {})
  BY DEF TablesFrom
<1>3. \A v : TablesFrom(s, Put(s, i.d, v), {i.d.n})
  BY <1>1, TablesOfPut
<1>4. CASE i.op \in Loads
  <2>1. t = LoadStep(i, s) /\ i.op # "ldp" /\ Evaluated(i) = {i.d.n}
    BY <1>4 DEF Synthesised, Loads, Evaluated
  <2>2. CASE IsTableLoad(i)
    BY <2>1, <2>2, TablesOfIndexedLoad DEF IsTableLoad
  <2>3. CASE ~IsTableLoad(i)
    BY <1>4, <2>1, <2>3, TablesOfLoad DEF IsTableLoad
  <2>4. QED
    BY <2>2, <2>3
<1>5. CASE i.op = "literal"
  <2>1. t = LiteralStep(i, s) /\ Evaluated(i) = {i.d.n} /\ ~IsTableLoad(i)
    BY <1>5 DEF Synthesised, Loads, Evaluated, IsTableLoad
  <2>2. t = s \/ \E v : t = Put(s, i.d, v)
    BY <2>1 DEF LiteralStep
  <2> HIDE DEF t
  <2>3. (TablesFrom(s, t, {}) /\ ~t.done) \/ (TablesFrom(s, t, {i.d.n}) /\ TablesFrom(s, t, {}))
    BY <1>2, <1>3, <2>2 DEF TablesFrom
  <2>4. QED
    BY <2>1, <2>3 DEF t
<1>6. CASE i.op = "ldp"
  <2>1. t = PairStep(i, s) /\ Evaluated(i) = {i.d.n, i.d2.n} /\ ~IsTableLoad(i)
    BY <1>6 DEF Synthesised, Loads, Evaluated, IsTableLoad
  <2>2. t = s \/ \E v, x : t = Put(Put(s, i.d, v), i.d2, x)
    BY <2>1, Zenon DEF PairStep
  <2> HIDE DEF t
  <2>3. ASSUME NEW v, NEW x, t = Put(Put(s, i.d, v), i.d2, x)
        PROVE  TablesFrom(s, t, {i.d.n, i.d2.n}) /\ TablesFrom(s, t, {})
    <3> DEFINE y == Put(s, i.d, v)
    <3>1. IsState(y) /\ TablesFrom(s, y, {i.d.n}) /\ DOMAIN y.tables \subseteq Registers
      BY <1>1, TablesOfPut
    <3> HIDE DEF y
    <3>2. TablesFrom(y, Put(y, i.d2, x), {i.d2.n})
      BY <1>1, <3>1, TablesOfPut
    <3>3. t = Put(y, i.d2, x)
      BY <2>3 DEF y
    <3>4. QED
      BY <3>1, <3>2, <3>3 DEF TablesFrom
  <2>4. QED
    BY <1>2, <2>1, <2>2, <2>3 DEF t
<1>7. CASE i.op \notin {"literal", "ldp"} \cup Loads
  <2> DEFINE y == PutIfKnown(s, i.d, Computed(i, s.known, f))
             A == RelativeAdd(i, y)
  <2>1. t = PutIfKnown(y, i.d, A) /\ Evaluated(i) = {i.d.n} /\ ~IsTableLoad(i)
    BY <1>7 DEF Synthesised, Completed, Evaluated, IsTableLoad
  <2>2. y = s \/ \E v : y = Put(s, i.d, v)
    BY DEF PutIfKnown
  <2> HIDE DEF y, A
  <2>3. t = y \/ \E v : t = Put(y, i.d, v)
    BY <2>1 DEF PutIfKnown
  <2> HIDE DEF t
  <2>4. /\ IsState(y) /\ DOMAIN y.tables \subseteq Registers
        /\ TablesFrom(s, y, {}) /\ (y = s \/ TablesFrom(s, y, {i.d.n}))
    <3>1. ASSUME NEW v
          PROVE  /\ IsState(Put(s, i.d, v)) /\ DOMAIN Put(s, i.d, v).tables \subseteq Registers
                 /\ TablesFrom(s, Put(s, i.d, v), {i.d.n})
      BY <1>1, TablesOfPut
    <3>2. TablesFrom(s, y, {i.d.n}) => TablesFrom(s, y, {})
      BY DEF TablesFrom
    <3>3. QED
      BY <1>2, <2>2, <3>1, <3>2
  <2>5. ASSUME NEW v, t = Put(y, i.d, v) PROVE TablesFrom(s, t, {i.d.n}) /\ TablesFrom(s, t, {})
    <3>1. TablesFrom(y, t, {i.d.n})
      BY <1>1, <2>4, <2>5, TablesOfPut
    <3>2. QED
      BY <2>4, <3>1 DEF TablesFrom
  <2>6. t.done => t # s
    OBVIOUS
  <2>7. QED
    BY <1>2, <2>1, <2>3, <2>4, <2>5, <2>6 DEF t
<1>8. QED
  BY <1>4, <1>5, <1>6, <1>7

-----------------------------------------------------------------------------
(* What the processor does to the registers, and what the pass forgets.    *)

LEMMA UpdatedDomain ==
  ASSUME NEW g, NEW h
  PROVE  DOMAIN Updated(g, h) = DOMAIN g \cup DOMAIN h
BY DEF Updated

LEMMA UpdatedIs ==
  ASSUME NEW g, NEW h
  PROVE  /\ \A n \in DOMAIN g : n \notin DOMAIN h => Updated(g, h)[n] = g[n]
         /\ \A n \in DOMAIN h : Updated(g, h)[n] = h[n]
BY DEF Updated

LEMMA IntoDomain ==
  ASSUME NEW r, NEW S, NEW h \in Into(r, S)
  PROVE  DOMAIN h \subseteq {n \in {r.n} : HasKey(r)}
BY DEF Into, With, Nothing

LEMMA BackDomain ==
  ASSUME NEW i, NEW rs
  PROVE  DOMAIN Back(i, rs) \subseteq {n \in {i.m.base.n} : i.m.writeback /\ HasKey(i.m.base)}
BY DEF Back, With, Nothing

LEMMA BothDomain ==
  ASSUME NEW S, NEW T, NEW h \in Both(S, T)
  PROVE  \E f \in S, g \in T : DOMAIN h = DOMAIN f \cup DOMAIN g
<1>1. PICK p \in S \X T : h = Updated(p[1], p[2])
  BY DEF Both
<1>2. p[1] \in S /\ p[2] \in T
  BY <1>1
<1>3. DOMAIN h = DOMAIN p[1] \cup DOMAIN p[2]
  BY <1>1, UpdatedDomain
<1>4. QED
  BY <1>2, <1>3

\* The keyed name of a register, and of a base that is written back.
Name(r) == {n \in {r.n} : HasKey(r)}
BackName(i) == {n \in {i.m.base.n} : i.m.writeback /\ HasKey(i.m.base)}

LEMMA LoadedWritesDomain ==
  ASSUME NEW i, NEW address, NEW n, NEW h \in LoadedWrites(i, address, n)
  PROVE  DOMAIN h \subseteq Name(i.d) \cup {k \in Name(i.d2) : i.op = "ldp"}
<1>1. CASE i.op = "ldp"
  <2>1. PICK f \in Into(i.d, InMemory(address, n, FALSE)), g \in Into(i.d2, InMemory(address + n, n, FALSE)) :
           DOMAIN h = DOMAIN f \cup DOMAIN g
    <3> DEFINE S == Into(i.d, InMemory(address, n, FALSE))
               T == Into(i.d2, InMemory(address + n, n, FALSE))
    <3>1. h \in Both(S, T)
      BY <1>1 DEF LoadedWrites
    <3> HIDE DEF S, T
    <3>2. \E f \in S, g \in T : DOMAIN h = DOMAIN f \cup DOMAIN g
      BY <3>1, BothDomain
    <3>3. QED
      BY <3>2 DEF S, T
  <2>2. DOMAIN f \subseteq Name(i.d) /\ DOMAIN g \subseteq Name(i.d2)
    BY IntoDomain DEF Name
  <2>3. QED
    BY <1>1, <2>1, <2>2
<1>2. CASE i.op # "ldp"
  <2>1. h \in Into(i.d, InMemory(address, LoadBytes(i), LoadSigned(i)))
    BY <1>2 DEF LoadedWrites
  <2>2. QED
    BY <2>1, IntoDomain DEF Name
<1>3. QED
  BY <1>1, <1>2

LEMMA ComputedWritesDomain ==
  ASSUME NEW i, NEW rs, NEW fl, NEW h \in ComputedWrites(i, rs, fl)
  PROVE  /\ DOMAIN h \subseteq Name(i.d) \cup Name(i.d2)
         /\ i.op = "literal" => DOMAIN h \subseteq Name(i.d)
         /\ i.op \in Atomics => DOMAIN h \subseteq Name(i.d2)
         /\ i.op \notin {"literal", "casp", "other"} \cup Atomics /\ ~WritesDestination(i) => DOMAIN h = {}
         /\ i.op \notin {"casp"} \cup Atomics => DOMAIN h \subseteq Name(i.d)
<1>1. \A r, S, f : f \in Into(r, S) => DOMAIN f \subseteq Name(r)
  BY IntoDomain DEF Name
<1>2. CASE i.op = "literal"
  <2>1. h \in Into(i.d, InMemory(i.imm, LoadBytes(i), FALSE))
    BY <1>2 DEF ComputedWrites
  <2>2. i.op \notin Atomics
    BY <1>2 DEF Atomics
  <2>3. QED
    BY <1>1, <1>2, <2>1, <2>2
<1>3. CASE i.op = "casp"
  <2>1. PICK f \in Into(i.d, StartValues), g \in Into(i.d2, StartValues) : DOMAIN h = DOMAIN f \cup DOMAIN g
    BY <1>3, BothDomain DEF ComputedWrites
  <2>2. DOMAIN f \subseteq Name(i.d) /\ DOMAIN g \subseteq Name(i.d2)
    BY <1>1
  <2>3. i.op \notin Atomics
    BY <1>3 DEF Atomics
  <2>4. QED
    BY <1>3, <2>1, <2>2, <2>3
<1>4. CASE i.op \in Atomics
  <2>1. h \in Into(i.d2, StartValues) /\ i.op # "literal"
    BY <1>4 DEF ComputedWrites, Atomics
  <2>2. QED
    BY <1>1, <1>4, <2>1
<1>5. CASE i.op = "other"
  <2>1. h \in Into(i.d, StartValues) /\ i.op \notin Atomics
    BY <1>5 DEF ComputedWrites, Atomics
  <2>2. QED
    BY <1>1, <1>5, <2>1
<1>6. CASE i.op \notin {"literal", "casp", "other"} \cup Atomics
  <2>1. CASE WritesDestination(i)
    <3>1. h \in Into(i.d, {Low(IsaValue(i, rs, fl), XLen)})
      BY <1>6, <2>1, Zenon DEF ComputedWrites
    <3>2. QED
      BY <1>1, <1>6, <2>1, <3>1
  <2>2. CASE ~WritesDestination(i)
    BY <1>6, <2>2 DEF ComputedWrites, Nothing
  <2>3. QED
    BY <2>1, <2>2
<1>7. QED
  BY <1>2, <1>3, <1>4, <1>5, <1>6

\* An instruction writes its destinations and, where it writes the address back,
\* its base; a call writes the registers a callee need not preserve.
LEMMA WritesDomain ==
  ASSUME NEW i, IsInstruction(i), NEW rs, NEW fl, NEW writes \in IsaWrites(i, rs, fl)
  PROVE  /\ DOMAIN writes \subseteq Registers
         /\ IsCall(i.kind) => DOMAIN writes \subseteq Clobbered
         /\ ~IsCall(i.kind) /\ i.kind # "Fallthrough" => DOMAIN writes = {}
         /\ i.kind = "Fallthrough" =>
              \A n \in DOMAIN writes : \/ n \in {r.n : r \in Destinations(i)}
                                       \/ n = i.m.base.n /\ i.m.writeback
<1> DEFINE D == {r.n : r \in Destinations(i)}
<1>1. CASE IsCall(i.kind)
  <2>1. i.kind # "Fallthrough"
    BY <1>1 DEF IsCall
  <2>2. QED
    BY <1>1, <2>1 DEF IsaWrites, Clobbered
<1>2. CASE ~IsCall(i.kind) /\ i.kind # "Fallthrough"
  BY <1>2 DEF IsaWrites, Nothing
<1>3. CASE i.kind = "Fallthrough"
  <2>1. ~IsCall(i.kind)
    BY <1>3 DEF IsCall
  <2>2. /\ Name(i.d) \subseteq Registers /\ Name(i.d2) \subseteq Registers
        /\ BackName(i) \subseteq Registers
    BY RegistersHaveKeys DEF IsInstruction, Name, BackName
  <2>3. SUFFICES DOMAIN writes \subseteq (D \cap (Name(i.d) \cup Name(i.d2))) \cup BackName(i)
    BY <1>3, <2>1, <2>2 DEF BackName
  <2>4. /\ WritesDestination(i) <=>
               i.op \notin {"cmp", "cmn", "ccmp", "ccmn", "tst", "str", "stp", "fcmp"}
        /\ WritesDestination(i) /\ i.op \notin Atomics => i.d.n \in D
        /\ WritesDestination(i) /\ i.op \in Atomics \cup {"ldp", "casp"} => i.d2.n \in D
    BY <1>3 DEF WritesDestination, Destinations, Atomics
  <2>5. Name(i.d) \subseteq {i.d.n} /\ Name(i.d2) \subseteq {i.d2.n}
    BY DEF Name
  <2>6. DOMAIN Back(i, rs) \subseteq BackName(i)
    BY BackDomain DEF BackName
  <2> HIDE DEF D
  <2>7. CASE i.op \in {"str", "stp"}
    <3>1. writes = Back(i, rs)
      BY <1>3, <2>1, <2>7 DEF IsaWrites
    <3>2. QED
      BY <2>6, <3>1
  <2>8. CASE i.op \in Loads \cup {"ldp"}
    <3>1. i.op \notin {"str", "stp"} \cup Atomics /\ WritesDestination(i)
      BY <2>4, <2>8 DEF Loads, Atomics
    <3>2. PICK h \in LoadedWrites(i, IsaAddress(i, rs), i.d.w \div ByteLen) :
             DOMAIN writes = DOMAIN Back(i, rs) \cup DOMAIN h
      <4> DEFINE S == {Back(i, rs)}
                 T == LoadedWrites(i, IsaAddress(i, rs), i.d.w \div ByteLen)
      <4>1. writes \in Both(S, T)
        BY <1>3, <2>1, <2>8, <3>1 DEF IsaWrites
      <4> HIDE DEF S, T
      <4>2. \E f \in S, h \in T : DOMAIN writes = DOMAIN f \cup DOMAIN h
        BY <4>1, BothDomain
      <4>3. QED
        BY <4>2 DEF S, T
    <3>3. DOMAIN h \subseteq Name(i.d) \cup {k \in Name(i.d2) : i.op = "ldp"}
      BY LoadedWritesDomain
    <3>4. DOMAIN h \subseteq D \cap (Name(i.d) \cup Name(i.d2))
      BY <2>4, <2>5, <3>1, <3>3
    <3>5. QED
      BY <2>6, <3>2, <3>4
  <2>9. CASE i.op \notin {"str", "stp", "ldp"} \cup Loads
    <3>1. writes \in ComputedWrites(i, rs, fl)
      BY <1>3, <2>1, <2>9 DEF IsaWrites
    <3>2. CASE ~WritesDestination(i)
      <4>1. i.op \notin {"literal", "casp", "other"} \cup Atomics
        BY <2>4, <3>2 DEF Atomics
      <4>2. QED
        BY <3>1, <3>2, <4>1, ComputedWritesDomain
    <3>3. CASE WritesDestination(i) /\ i.op = "casp"
      <4>1. i.op \notin Atomics
        BY <3>3 DEF Atomics
      <4>2. QED
        BY <2>4, <2>5, <3>1, <3>3, <4>1, ComputedWritesDomain
    <3>4. CASE WritesDestination(i) /\ i.op \in Atomics
      BY <2>4, <2>5, <3>1, <3>4, ComputedWritesDomain
    <3>5. CASE WritesDestination(i) /\ i.op \notin {"casp"} \cup Atomics
      BY <2>4, <2>5, <3>1, <3>5, ComputedWritesDomain
    <3>6. QED
      BY <3>2, <3>3, <3>4, <3>5
  <2>10. QED
    BY <2>7, <2>8, <2>9
<1>4. QED
  BY <1>1, <1>2, <1>3

\* What is forgotten is only removed.
Restricts(s, t, R) ==
  /\ IsState(t)
  /\ DOMAIN t.known = DOMAIN s.known \ R /\ \A n \in DOMAIN t.known : t.known[n] = s.known[n]
  /\ DOMAIN t.slots = DOMAIN s.slots \ R /\ \A n \in DOMAIN t.slots : t.slots[n] = s.slots[n]

LEMMA ForgetRestricts ==
  ASSUME NEW s, IsState(s), NEW R
  PROVE  Restricts(s, Forget(s, R), R)
<1> DEFINE k == WithoutAll(s.known, R)
           l == WithoutAll(s.slots, R)
<1>1. /\ IsMap(k) /\ DOMAIN k = DOMAIN s.known \ R /\ \A n \in DOMAIN k : k[n] = s.known[n]
      /\ IsMap(l) /\ DOMAIN l = DOMAIN s.slots \ R /\ \A n \in DOMAIN l : l[n] = s.slots[n]
  BY DEF IsState, IsMap, WithoutAll
<1>2. Forget(s, R) = [known |-> k, tables |-> WithoutAll(s.tables, R), slots |-> l, done |-> s.done]
  BY DEF Forget
<1> HIDE DEF k, l
<1>3. QED
  BY <1>1, <1>2 DEF Restricts, IsState

LEMMA NothingForgotten ==
  ASSUME NEW s, IsState(s)
  PROVE  Restricts(s, s, {})
BY DEF Restricts

LEMMA RestrictsTwice ==
  ASSUME NEW s, NEW t, NEW u, NEW R, NEW Q, Restricts(s, t, R), Restricts(t, u, Q)
  PROVE  Restricts(s, u, R \cup Q)
BY DEF Restricts

\* What is forgotten leaves no table.
LEMMA ForgetTables ==
  ASSUME NEW s, NEW R
  PROVE  TablesFrom(s, Forget(s, R), R)
BY DEF TablesFrom, Forget, WithoutAll

LEMMA TablesTwice ==
  ASSUME NEW s, NEW t, NEW u, NEW R, NEW Q, TablesFrom(s, t, R), TablesFrom(t, u, Q)
  PROVE  TablesFrom(s, u, R \cup Q)
BY DEF TablesFrom

\* A table left in state a after an instruction, with t once it is evaluated and s
\* before it, is the one it read from, or one that was there of a register that it
\* does not overwrite.
IsLeft(i, s, t, a, n) ==
  /\ n \in Registers /\ ~IsBoundary(i.kind)
  /\ \/ /\ IsTableLoad(i) /\ n = i.d.n /\ t.done /\ n \in DOMAIN t.tables
        /\ a.tables[n] = t.tables[n] /\ t.tables[n] = TableLoad(i, s.known)
     \/ n \notin Overwritten(i) /\ n \in DOMAIN s.tables /\ a.tables[n] = s.tables[n]

LEMMA AfterTables ==
  ASSUME NEW i, IsInstruction(i), NEW s, IsState(s), s.done = FALSE, DOMAIN s.tables \subseteq Registers,
         NEW f, NEW n \in DOMAIN After(i, s, f).tables
  PROVE  IsLeft(i, s, Synthesised(i, s, f), After(i, s, f), n)
<1> DEFINE t == Synthesised(i, s, f)
           t1 == Forgotten(i, t)
           t2 == WrittenBack(i, t1)
           a == After(i, s, f)
           D == {r.n : r \in Destinations(i)}
           R1 == IF t.done THEN {} ELSE D
           R2 == IF i.m.writeback THEN {i.m.base.n} ELSE {}
           R3 == IF IsCall(i.kind) THEN Clobbered ELSE IF IsBoundary(i.kind) THEN Registers ELSE {}
<1>1. /\ IsTableLoad(i) => TableLoaded(i, s, t)
      /\ ~IsTableLoad(i) => TablesFrom(s, t, IF t.done THEN Evaluated(i) ELSE {})
  BY SynthesisedTables
<1>2. /\ t.done => D = Evaluated(i)
      /\ IsTableLoad(i) => D = {i.d.n} /\ ~IsCall(i.kind) /\ ~IsBoundary(i.kind) /\ i.d.n \in Registers
  <2>1. CASE i.op \in {"jump", "cmp", "cmn", "ccmp", "ccmn", "tst", "str", "stp", "fcmp", "casp"} \cup Atomics
    <3>1. ~IsTableLoad(i)
      BY <2>1 DEF IsTableLoad, Loads, Atomics
    <3>2. QED
      BY <2>1, <3>1, NotEvaluated
  <2>2. CASE i.op \notin {"jump", "cmp", "cmn", "ccmp", "ccmn", "tst", "str", "stp", "fcmp", "casp"} \cup Atomics
    <3>1. WritesDestination(i) /\ i.kind = "Fallthrough"
      BY <2>2 DEF WritesDestination, IsInstruction
    <3>2. D = Evaluated(i)
      BY <2>2, <3>1 DEF Destinations, Evaluated
    <3>3. IsTableLoad(i) => i.op # "ldp" /\ i.d.n \in Registers
      BY RegistersHaveKeys DEF IsTableLoad, Loads, IsInstruction
    <3>4. QED
      BY <3>1, <3>2, <3>3 DEF Evaluated, IsCall, IsBoundary
  <2>3. QED
    BY <2>1, <2>2
<1> HIDE DEF t, D
<1>3. \A x : TablesFrom(x, x, {})
  BY DEF TablesFrom
<1>4. TablesFrom(t, t1, R1)
  BY <1>3, ForgetTables DEF Forgotten, D
<1>5. TablesFrom(t1, t2, R2)
  <2> HIDE DEF t1
  <2>1. QED
    BY <1>3, ForgetTables DEF WrittenBack
<1>6. TablesFrom(t2, a, R3)
  <2>1. a = AfterControl(i, t2)
    BY DEF After, t
  <2> HIDE DEF t2, a
  <2>2. QED
    BY <1>3, <2>1, ForgetTables DEF AfterControl
<1> HIDE DEF t1, t2
<1>7. TablesFrom(t, a, R1 \cup R2 \cup R3)
  <2> HIDE DEF R1, R2, R3, a
  <2>1. QED
    BY <1>4, <1>5, <1>6, TablesTwice
<1>8. n \in DOMAIN a.tables
  OBVIOUS
<1> HIDE DEF a
<1>9. /\ n \in DOMAIN t.tables /\ a.tables[n] = t.tables[n]
      /\ ~t.done => n \notin D
      /\ i.m.writeback => n # i.m.base.n
      /\ IsCall(i.kind) => n \notin Clobbered
      /\ IsBoundary(i.kind) /\ ~IsCall(i.kind) => n \notin Registers
  BY <1>7, <1>8 DEF TablesFrom
<1>10. CASE IsTableLoad(i) /\ n = i.d.n
  BY <1>1, <1>2, <1>9, <1>10 DEF TableLoaded, IsLeft, t, a
<1>11. CASE ~(IsTableLoad(i) /\ n = i.d.n)
  <2>1. n \in DOMAIN s.tables /\ t.tables[n] = s.tables[n]
    BY <1>1, <1>9, <1>11 DEF TableLoaded, TablesFrom
  <2>2. n \notin D \/ IsCall(i.kind)
    BY <1>1, <1>2, <1>9, <1>11 DEF TablesFrom
  <2>3. n \notin Overwritten(i)
    BY <1>9, <2>2 DEF Overwritten, D
  <2>4. n \in Registers /\ ~IsBoundary(i.kind)
    BY <1>9, <2>1 DEF IsBoundary, IsCall
  <2>5. QED
    BY <1>9, <2>1, <2>3, <2>4 DEF IsLeft, t, a
<1>12. QED
  BY <1>10, <1>11

\* What an instruction writes is said to be overwritten.
LEMMA WritesAreOverwritten ==
  ASSUME NEW i, IsInstruction(i), NEW rs, NEW fl, NEW writes \in IsaWrites(i, rs, fl)
  PROVE  DOMAIN writes \subseteq Overwritten(i)
BY WritesDomain DEF Overwritten

-----------------------------------------------------------------------------
(* One step of the pass and of the processor, side by side.                *)

\* The part of the pass's state that says something of the processor.
Belief(s, f) == [known |-> s.known, slots |-> s.slots, flags |-> f]

\* A belief that agrees with the processor is one of those the hypothesis is about.
LEMMA BeliefIsCovered ==
  ASSUME EvaluationIsExact, NEW i \in Instructions, NEW s, IsState(s), s.done = FALSE, NEW f,
         NEW rs \in [Registers -> Word(XLen)], NEW fl \in FlagValues, Agrees(Belief(s, f), rs, fl)
  PROVE  \E u : IsState(u) /\ u.tables = Nothing /\ SameValues(s, u) /\ ExactAt(i, u, f, rs, fl)
<1> DEFINE K == DOMAIN s.known
           L == DOMAIN s.slots
           from == [n \in L |-> s.slots[n].base]
           k == [n \in K |-> rs[n]]
           l == [n \in L |-> [base |-> from[n], target |-> (from[n] + rs[n]) % 2^XLen]]
           u == [known |-> k, tables |-> Nothing, slots |-> l, done |-> FALSE]
<1>1. /\ K \in SUBSET Registers /\ L \in SUBSET Registers
      /\ s.known = [n \in K |-> s.known[n]] /\ s.slots = [n \in L |-> s.slots[n]]
      /\ \A n \in L : s.slots[n].base \in Word(XLen)
  BY DEF IsState, IsMap
<1>2. /\ \A n \in K : s.known[n] = rs[n]
      /\ \A n \in L : SlotHolds(s.slots[n], rs[n])
      /\ f \subseteq {fl}
  BY DEF Agrees, Belief
<1>3. s.known = k
  BY <1>1, <1>2
<1>4. s.slots = l
  <2>1. \A n \in L : s.slots[n] = [base |-> s.slots[n].base, target |-> (s.slots[n].base + rs[n]) % 2^XLen]
    BY <1>2 DEF SlotHolds
  <2>2. \A n \in L : s.slots[n] = [base |-> from[n], target |-> (from[n] + rs[n]) % 2^XLen]
    BY <2>1
  <2> HIDE DEF from
  <2>3. QED
    BY <1>1, <2>2
<1>5. SameValues(s, u)
  BY <1>3, <1>4 DEF SameValues
<1>6. IsState(u)
  BY <1>3, <1>4 DEF IsState
<1>7. /\ L \in SUBSET {n \in Registers : rs[n] = Low(Signed(rs[n], WLen), XLen)}
      /\ from \in [L -> Word(XLen)]
      /\ f \in {{}, {fl}}
  BY <1>1, <1>2 DEF SlotHolds
<1>8. ExactAt(i, u, f, rs, fl)
  <2> DEFINE Assumed(KK, LL, base, g) ==
               ExactAt(i, [known  |-> [n \in KK |-> rs[n]], tables |-> Nothing,
                           slots  |-> [n \in LL |-> [base |-> base[n],
                                                   target |-> (base[n] + rs[n]) % 2^XLen]],
                           done   |-> FALSE], g, rs, fl)
  <2>1. \A KK \in SUBSET Registers, LL \in SUBSET {n \in Registers : rs[n] = Low(Signed(rs[n], WLen), XLen)} :
          \A base \in [LL -> Word(XLen)], g \in {{}, {fl}} : Assumed(KK, LL, base, g)
    BY DEF EvaluationIsExact, EvaluationIsExactOn
  <2>2. Assumed(K, L, from, f) <=> ExactAt(i, u, f, rs, fl)
    OBVIOUS
  <2> HIDE DEF K, L, from, u, Assumed
  <2>3. QED
    BY <1>1, <1>7, <2>1, <2>2, Zenon
<1>9. u.tables = Nothing
  OBVIOUS
<1> HIDE DEF u
<1>10. QED
  BY <1>5, <1>6, <1>8, <1>9

\* Exactness does not depend on the tables.
LEMMA ExactAtSame ==
  ASSUME NEW i, IsInstruction(i), NEW s, IsState(s), s.done = FALSE, DOMAIN s.tables \subseteq Registers,
         NEW u, IsState(u), DOMAIN u.tables \subseteq Registers, SameValues(s, u),
         NEW f, NEW rs, NEW fl, ExactAt(i, u, f, rs, fl)
  PROVE  ExactAt(i, s, f, rs, fl)
<1>1. SameValues(Synthesised(i, s, f), Synthesised(i, u, f))
  BY SynthesisedEvaluates DEF Evaluates
<1>2. FlagsAfter(i, s, f) = FlagsAfter(i, u, f)
  BY DEF FlagsAfter, SameValues
<1>3. ASSUME IsTableLoad(i), Synthesised(i, s, f).done, i.d.n \in DOMAIN Synthesised(i, s, f).tables
      PROVE  /\ Synthesised(i, u, f).done /\ i.d.n \in DOMAIN Synthesised(i, u, f).tables
             /\ Synthesised(i, u, f).tables[i.d.n] = Synthesised(i, s, f).tables[i.d.n]
  <2>1. s.known = u.known /\ u.done = FALSE
    BY DEF SameValues
  <2>2. TableLoaded(i, s, Synthesised(i, s, f)) /\ TableLoaded(i, u, Synthesised(i, u, f))
    BY <1>3, <2>1, SynthesisedTables
  <2>3. KeepsTable(i, s.known) /\ Synthesised(i, s, f).tables[i.d.n] = TableLoad(i, s.known)
    BY <1>3, <2>2 DEF TableLoaded
  <2>4. KeepsTable(i, u.known) /\ TableLoad(i, u.known) = TableLoad(i, s.known)
    BY <2>1, <2>3
  <2>5. QED
    BY <2>2, <2>3, <2>4 DEF TableLoaded
<1>4. QED
  BY <1>1, <1>2, <1>3 DEF ExactAt, SameValues

\* An instruction is evaluated exactly from every belief that agrees with the
\* processor, whatever its tables.
LEMMA EvaluatedExactly ==
  ASSUME EvaluationIsExact, NEW i \in Instructions, IsInstruction(i),
         NEW s, IsState(s), s.done = FALSE, DOMAIN s.tables \subseteq Registers, NEW f,
         NEW rs \in [Registers -> Word(XLen)], NEW fl \in FlagValues, Agrees(Belief(s, f), rs, fl)
  PROVE  ExactAt(i, s, f, rs, fl)
<1>1. PICK u : IsState(u) /\ u.tables = Nothing /\ SameValues(s, u) /\ ExactAt(i, u, f, rs, fl)
  BY BeliefIsCovered
<1>2. DOMAIN u.tables \subseteq Registers
  BY <1>1 DEF Nothing
<1>3. QED
  BY <1>1, <1>2, ExactAtSame

\* From maps m before an instruction and e once it is evaluated to b after it: what
\* is left was there before and is of a register the instruction does not write,
\* or is of a destination that was evaluated.
Survives(i, done, m, e, b) ==
  \A n \in DOMAIN b :
    /\ n \in DOMAIN e /\ b[n] = e[n]
    /\ \/ n \in {r.n : r \in Destinations(i)} /\ done
       \/ n \notin {r.n : r \in Destinations(i)} /\ n \in DOMAIN m /\ e[n] = m[n]
    /\ IsCall(i.kind) => n \notin Clobbered
    /\ i.m.writeback => n # i.m.base.n

LEMMA AfterKeeps ==
  ASSUME NEW i, IsInstruction(i), NEW s, IsState(s), s.done = FALSE, NEW f
  PROVE  /\ IsState(After(i, s, f))
         /\ Survives(i, Synthesised(i, s, f).done, s.known, Synthesised(i, s, f).known, After(i, s, f).known)
         /\ Survives(i, Synthesised(i, s, f).done, s.slots, Synthesised(i, s, f).slots, After(i, s, f).slots)
<1> DEFINE t == Synthesised(i, s, f)
           t1 == Forgotten(i, t)
           t2 == WrittenBack(i, t1)
           a == After(i, s, f)
           D == {r.n : r \in Destinations(i)}
           R1 == IF t.done THEN {} ELSE D
           R2 == IF i.m.writeback THEN {i.m.base.n} ELSE {}
           R3 == IF IsCall(i.kind) THEN Clobbered ELSE IF IsBoundary(i.kind) THEN Registers ELSE {}
<1>1. IsState(t) /\ Keeps(Evaluated(i), s, t)
  BY SynthesisedEvaluates DEF Evaluates, SameValues
<1>2. t.done => Evaluated(i) \subseteq D
  <2>1. CASE i.op \in {"jump", "cmp", "cmn", "ccmp", "ccmn", "tst", "str", "stp", "fcmp"} \cup Atomics
    BY <2>1, NotEvaluated
  <2>2. CASE i.op \notin {"jump", "cmp", "cmn", "ccmp", "ccmn", "tst", "str", "stp", "fcmp"} \cup Atomics
    <3>1. WritesDestination(i)
      BY <2>2 DEF WritesDestination, IsInstruction
    <3>2. QED
      BY <2>2, <3>1 DEF Destinations, Evaluated
  <2>3. QED
    BY <2>1, <2>2
<1> HIDE DEF t, D
<1>3. Restricts(t, t1, R1)
  BY <1>1, ForgetRestricts, NothingForgotten DEF Forgotten, D
<1>4. Restricts(t1, t2, R2)
  <2>1. IsState(t1)
    BY <1>3 DEF Restricts
  <2> HIDE DEF t1
  <2>2. QED
    BY <2>1, ForgetRestricts, NothingForgotten DEF WrittenBack
<1>5. Restricts(t2, a, R3)
  <2>1. IsState(t2) /\ a = AfterControl(i, t2)
    BY <1>4 DEF Restricts, After, t
  <2> HIDE DEF t2, a
  <2>2. QED
    BY <2>1, ForgetRestricts, NothingForgotten DEF AfterControl
<1> HIDE DEF t1, t2, a
<1>6. Restricts(t, a, R1 \cup R2 \cup R3)
  BY <1>3, <1>4, <1>5, RestrictsTwice
<1>7. \A n : n \notin R1 /\ n \notin R2 /\ n \notin R3 =>
        /\ n \in D => t.done
        /\ IsCall(i.kind) => n \notin Clobbered
        /\ i.m.writeback => n # i.m.base.n
  OBVIOUS
<1> HIDE DEF R1, R2, R3
<1>8. ASSUME NEW n, n \notin D
      PROVE  /\ n \in DOMAIN t.known => n \in DOMAIN s.known /\ t.known[n] = s.known[n]
             /\ n \in DOMAIN t.slots => n \in DOMAIN s.slots /\ t.slots[n] = s.slots[n]
  BY <1>1, <1>2, <1>8 DEF Keeps
<1>9. QED
  BY <1>6, <1>7, <1>8 DEF Restricts, Survives, t, a, D

\* A belief that agrees with the processor before an instruction agrees with it
\* after the instruction, whatever that wrote.
LEMMA AfterAgrees ==
  ASSUME EvaluationIsExact, NEW i \in Instructions, IsInstruction(i),
         NEW s, IsState(s), s.done = FALSE, DOMAIN s.tables \subseteq Registers, NEW f,
         NEW rs \in [Registers -> Word(XLen)], NEW fl \in FlagValues, Agrees(Belief(s, f), rs, fl),
         NEW writes \in IsaWrites(i, rs, fl), NEW g \in IsaFlagChoices(i, rs, fl)
  PROVE  /\ Agrees(Belief(After(i, s, f), FlagsAfter(i, s, f)), Updated(rs, writes), g)
         /\ Updated(rs, writes) \in [Registers -> Word(XLen)] /\ g \in FlagValues
<1> DEFINE t == Synthesised(i, s, f)
           a == After(i, s, f)
           r == Updated(rs, writes)
           D == {x.n : x \in Destinations(i)}
<1>1. ExactAt(i, s, f, rs, fl)
  BY EvaluatedExactly
<1>2. /\ \A n \in DOMAIN writes : writes[n] \in Word(XLen)
      /\ t.done => \A n \in D : /\ n \in DOMAIN t.known => t.known[n] = r[n]
                                /\ n \in DOMAIN t.slots => SlotHolds(t.slots[n], r[n])
      /\ IsaFlagChoices(i, rs, fl) \subseteq FlagValues
      /\ i.kind = "Fallthrough" => FlagsAfter(i, s, f) \subseteq {g}
  BY <1>1 DEF ExactAt
<1>3. /\ DOMAIN writes \subseteq Registers
      /\ IsCall(i.kind) => DOMAIN writes \subseteq Clobbered
      /\ ~IsCall(i.kind) /\ i.kind # "Fallthrough" => DOMAIN writes = {}
      /\ i.kind = "Fallthrough" => \A n \in DOMAIN writes : n \in D \/ (n = i.m.base.n /\ i.m.writeback)
  BY WritesDomain
<1>4. Survives(i, t.done, s.known, t.known, a.known) /\ Survives(i, t.done, s.slots, t.slots, a.slots)
  BY AfterKeeps
<1>5. \A n \in Registers : /\ n \notin DOMAIN writes => r[n] = rs[n]
                           /\ n \in DOMAIN writes => r[n] = writes[n]
  BY UpdatedIs
<1>6. DOMAIN r = Registers
  BY <1>3, UpdatedDomain
<1>7. r = [n \in Registers |-> r[n]]
  BY <1>6 DEF Updated
<1>8. /\ \A n \in DOMAIN s.known : n \in Registers /\ s.known[n] = rs[n]
      /\ \A n \in DOMAIN s.slots : n \in Registers /\ SlotHolds(s.slots[n], rs[n])
  BY DEF IsState, IsMap, Agrees, Belief
<1>9. FlagsAfter(i, s, f) \subseteq {g}
  BY <1>2 DEF FlagsAfter, NoFlags
<1> HIDE DEF t, a, r, D
<1>10. \A n \in Registers : n \notin D /\ (IsCall(i.kind) => n \notin Clobbered)
                              /\ (i.m.writeback => n # i.m.base.n) => n \notin DOMAIN writes
  BY <1>3
<1>11. \A n \in DOMAIN a.known : a.known[n] = r[n]
  <2>1. SUFFICES ASSUME NEW n \in DOMAIN a.known PROVE a.known[n] = r[n]
    OBVIOUS
  <2>2. /\ n \in DOMAIN t.known /\ a.known[n] = t.known[n]
        /\ (n \in D /\ t.done) \/ (n \notin D /\ n \in DOMAIN s.known /\ t.known[n] = s.known[n])
        /\ IsCall(i.kind) => n \notin Clobbered
        /\ i.m.writeback => n # i.m.base.n
    BY <1>4 DEF Survives, D
  <2>3. CASE n \in D /\ t.done
    BY <1>2, <2>2, <2>3
  <2>4. CASE n \notin D /\ n \in DOMAIN s.known /\ t.known[n] = s.known[n]
    BY <1>5, <1>8, <1>10, <2>2, <2>4
  <2>5. QED
    BY <2>2, <2>3, <2>4
<1>12. \A n \in DOMAIN a.slots : SlotHolds(a.slots[n], r[n])
  <2>1. SUFFICES ASSUME NEW n \in DOMAIN a.slots PROVE SlotHolds(a.slots[n], r[n])
    OBVIOUS
  <2>2. /\ n \in DOMAIN t.slots /\ a.slots[n] = t.slots[n]
        /\ (n \in D /\ t.done) \/ (n \notin D /\ n \in DOMAIN s.slots /\ t.slots[n] = s.slots[n])
        /\ IsCall(i.kind) => n \notin Clobbered
        /\ i.m.writeback => n # i.m.base.n
    BY <1>4 DEF Survives, D
  <2>3. CASE n \in D /\ t.done
    BY <1>2, <2>2, <2>3
  <2>4. CASE n \notin D /\ n \in DOMAIN s.slots /\ t.slots[n] = s.slots[n]
    BY <1>5, <1>8, <1>10, <2>2, <2>4
  <2>5. QED
    BY <2>2, <2>3, <2>4
<1>13. Agrees(Belief(a, FlagsAfter(i, s, f)), r, g)
  BY <1>9, <1>11, <1>12 DEF Agrees, Belief
<1>14. r \in [Registers -> Word(XLen)]
  BY <1>2, <1>5, <1>7
<1>15. QED
  BY <1>2, <1>13, <1>14 DEF a, r

-----------------------------------------------------------------------------
(* Where control joins.                                                    *)

LEMMA MoreThanOne ==
  ASSUME NEW S, IsFiniteSet(S), NEW x \in S, NEW y \in S, x # y
  PROVE  Cardinality(S) \in Nat /\ Cardinality(S) > 1
<1>1. IsFiniteSet({x}) /\ Cardinality({x}) = 1
  BY FS_Singleton
<1>2. IsFiniteSet({x} \cup {y}) /\ Cardinality({x} \cup {y}) = 2
  <2>1. /\ IsFiniteSet({x} \cup {y})
        /\ Cardinality({x} \cup {y}) = IF y \in {x} THEN Cardinality({x}) ELSE Cardinality({x}) + 1
    BY <1>1, FS_AddElement, Zenon
  <2>2. y \notin {x}
    OBVIOUS
  <2>3. QED
    BY <1>1, <2>1, <2>2
<1>3. {x} \cup {y} \in SUBSET S
  OBVIOUS
<1>4. QED
  BY <1>2, <1>3, FS_Subset, FS_CardinalityType

LEMMA EntryEdgesIsFinite ==
  ASSUME NEW w \in Windows, NEW l
  PROVE  IsFiniteSet(EntryEdges(w, l))
<1> DEFINE K == {"Fallthrough", "Call", "Branch"}
           S == (1 .. Len(w)) \X K
           edge == [p \in S |-> [source |-> p[1], target |-> l, kind |-> p[2]]]
           T == {edge[p] : p \in S}
<1>1. Len(w) \in Nat /\ DOMAIN w = 1 .. Len(w)
  BY WindowType
<1>2. IsFiniteSet(K)
  <2>1. IsFiniteSet({})
    BY FS_EmptySet
  <2>2. IsFiniteSet({} \cup {"Fallthrough"})
    BY <2>1, FS_AddElement
  <2>3. IsFiniteSet(({} \cup {"Fallthrough"}) \cup {"Call"})
    BY <2>2, FS_AddElement
  <2>4. IsFiniteSet((({} \cup {"Fallthrough"}) \cup {"Call"}) \cup {"Branch"})
    BY <2>3, FS_AddElement
  <2>5. K = (({} \cup {"Fallthrough"}) \cup {"Call"}) \cup {"Branch"}
    OBVIOUS
  <2>6. QED
    BY <2>4, <2>5
<1>3. IsFiniteSet(S)
  <2>1. IsFiniteSet(1 .. Len(w))
    BY <1>1, FS_Interval
  <2> HIDE DEF K
  <2>2. QED
    BY <1>2, <2>1, FS_Product
<1>4. IsFiniteSet(T)
  <2>1. edge \in Surjection(S, T)
    BY DEF Surjection
  <2> HIDE DEF S, T, edge
  <2>2. QED
    BY <1>3, <2>1, FS_Surjection
<1>5. EntryEdges(w, l) \subseteq T
  <2>1. ASSUME NEW x \in 1 .. Len(w), NEW y \in K PROVE [source |-> x, target |-> l, kind |-> y] \in T
    <3>1. <<x, y>> \in S /\ edge[<<x, y>>] = [source |-> x, target |-> l, kind |-> y]
      OBVIOUS
    <3>2. QED
      BY <3>1
  <2> HIDE DEF T
  <2>2. ASSUME NEW e \in FallthroughEdges(w), e.target = l PROVE e \in T
    <3>1. PICK b \in Leaders(w) : e = [source |-> LastOf(w, b), target |-> LastOf(w, b) + 1, kind |-> "Fallthrough"]
      BY DEF FallthroughEdges
    <3>2. LastOf(w, b) \in 1 .. Len(w)
      BY <1>1, LeadersType, LastOfIsBeforeNextLeader
    <3>3. e = [source |-> LastOf(w, b), target |-> l, kind |-> "Fallthrough"]
      BY <2>2, <3>1
    <3>4. QED
      BY <2>1, <3>2, <3>3
  <2>3. ASSUME NEW j \in DOMAIN w
        PROVE  [source |-> j, target |-> l, kind |-> IF IsCall(w[j].kind) THEN "Call" ELSE "Branch"] \in T
    BY <1>1, <2>1
  <2>4. QED
    BY <2>2, <2>3 DEF EntryEdges
<1>6. QED
  BY <1>4, <1>5, FS_Subset

\* A jump or a call to a place that is not a join: nothing comes from above it.
LEMMA LoneTargetIsBelowBoundary ==
  ASSUME NEW w \in Windows, NEW j \in 1 .. Len(w), NEW k \in Inside(w, j), k # 1, k \notin JoinAddresses(w)
  PROVE  k - 1 \in 1 .. Len(w) /\ IsBoundary(w[k - 1].kind)
<1>1. /\ Len(w) \in Nat /\ DOMAIN w = 1 .. Len(w) /\ k \in 1 .. Len(w) /\ k - 1 \in 1 .. Len(w)
      /\ (k - 1) + 1 = k
  BY WindowType DEF Inside
<1>2. k \in Leaders(w) /\ 1 \in Leaders(w) /\ Leaders(w) \subseteq 1 .. Len(w)
  BY <1>1, LeadersType DEF Leaders
<1>3. Cardinality(Leaders(w)) \in Nat /\ Cardinality(Leaders(w)) > 1
  <2>1. IsFiniteSet(Leaders(w))
    <3>1. IsFiniteSet(1 .. Len(w))
      BY <1>1, FS_Interval
    <3>2. QED
      BY <1>2, <3>1, FS_Subset
  <2>2. QED
    BY <1>2, <2>1, MoreThanOne
<1>4. ASSUME ~IsBoundary(w[k - 1].kind) PROVE FALSE
  <2> DEFINE kind == IF IsCall(w[j].kind) THEN "Call" ELSE "Branch"
             e == [source |-> k - 1, target |-> k, kind |-> "Fallthrough"]
             d == [source |-> j, target |-> k, kind |-> kind]
  <2>1. FallsThrough(w[k - 1].kind)
    BY <1>4 DEF IsBoundary, FallsThrough
  <2>2. BlockOf(w, k - 1) \in Leaders(w) /\ LastOf(w, BlockOf(w, k - 1)) = k - 1
    BY <1>1, <1>2, BlockOfIsLastLeader, BeforeLeaderIsLast
  <2>3. e \in FallthroughEdges(w)
    BY <1>1, <1>2, <2>1, <2>2 DEF FallthroughEdges
  <2>4. e \in EntryEdges(w, k)
    BY <2>3 DEF EntryEdges
  <2>5. d \in EntryEdges(w, k)
    BY <1>1 DEF EntryEdges, Inside
  <2>6. e # d
    <3>1. e.kind # d.kind
      OBVIOUS
    <3>2. QED
      BY <3>1
  <2> HIDE DEF e, d
  <2>7. Cardinality(EntryEdges(w, k)) \in Nat /\ Cardinality(EntryEdges(w, k)) > 1
    BY <2>4, <2>5, <2>6, EntryEdgesIsFinite, MoreThanOne
  <2>8. QED
    BY <1>2, <1>3, <2>7 DEF JoinAddresses
<1>5. QED
  BY <1>1, <1>4

-----------------------------------------------------------------------------
(* What is believed is true.                                               *)

NothingBelieved == [known |-> Nothing, tables |-> Nothing, slots |-> Nothing, flags |-> NoFlags]

\* What the pass believes when it comes to instruction j.
Before(js, fs, j) == IF j = 1 \/ j \in js THEN NothingBelieved ELSE fs[j - 1]

IsBelief(b) ==
  /\ IsMap(b.known) /\ IsMap(b.slots) /\ DOMAIN b.tables \subseteq Registers
  /\ \A n \in DOMAIN b.slots : b.slots[n].base \in Word(XLen)

BelievesNothing(b) ==
  DOMAIN b.known = {} /\ DOMAIN b.tables = {} /\ DOMAIN b.slots = {} /\ b.flags = {}

\* Instruction i leads from belief b to belief c, whatever the registers hold.
Carries(i, b, c) ==
  \A rs \in [Registers -> Word(XLen)], fl \in FlagValues :
    Agrees(b, rs, fl) =>
      \A writes \in IsaWrites(i, rs, fl), g \in IsaFlagChoices(i, rs, fl) :
        /\ Agrees(c, Updated(rs, writes), g)
        /\ Updated(rs, writes) \in [Registers -> Word(XLen)] /\ g \in FlagValues

\* What the pass has written, and where it stands.
FactsInv ==
  /\ joins = JoinAddresses(window)
  /\ \E S : facts \in Seq(S)
  /\ Len(facts) = at - 1
  /\ at = 1 => known = Nothing /\ tables = Nothing /\ slots = Nothing /\ flags = NoFlags
  /\ at # 1 => LET b == facts[at - 1]
               IN known = b.known /\ tables = b.tables /\ slots = b.slots /\ flags = b.flags
  /\ \A j \in 1 .. at - 1 : /\ IsBelief(facts[j])
                            /\ Carries(window[j], Before(joins, facts, j), facts[j])
                            /\ IsBoundary(window[j].kind) => BelievesNothing(facts[j])

\* What is believed before the next instruction and was believed after the last one.
RunInv ==
  /\ pc # 0 \/ ran # 0 => regs \in [Registers -> Word(XLen)] /\ nzcv \in FlagValues
  /\ pc # 0 => Agrees(Before(joins, facts, pc), regs, nzcv)
  /\ ran # 0 => Agrees(facts[ran], regs, nzcv)

LEMMA NothingIsBelief ==
  /\ IsBelief(NothingBelieved) /\ BelievesNothing(NothingBelieved)
  /\ IsMap(Nothing) /\ DOMAIN Nothing = {}
BY DEF NothingBelieved, IsBelief, BelievesNothing, IsMap, Nothing, NoFlags

LEMMA NothingAgrees ==
  ASSUME NEW b, BelievesNothing(b), NEW rs, NEW fl
  PROVE  Agrees(b, rs, fl)
BY DEF BelievesNothing, Agrees

LEMMA SameBeliefAgrees ==
  ASSUME NEW b, NEW c, b.known = c.known, b.slots = c.slots, b.flags = c.flags, NEW rs, NEW fl
  PROVE  Agrees(b, rs, fl) <=> Agrees(c, rs, fl)
BY DEF Agrees

\* At the end of a block everything is forgotten.
LEMMA BoundaryForgets ==
  ASSUME NEW i, IsInstruction(i), IsBoundary(i.kind),
         NEW s, IsState(s), s.done = FALSE, DOMAIN s.tables \subseteq Registers, NEW f
  PROVE  /\ DOMAIN After(i, s, f).known = {} /\ DOMAIN After(i, s, f).tables = {}
         /\ DOMAIN After(i, s, f).slots = {} /\ FlagsAfter(i, s, f) = {}
<1> DEFINE t1 == Forgotten(i, Synthesised(i, s, f))
           t2 == WrittenBack(i, t1)
<1>1. IsState(Synthesised(i, s, f))
  BY SynthesisedEvaluates DEF Evaluates, SameValues
<1>2. IsState(t1)
  BY <1>1, ForgetRestricts DEF Forgotten, Restricts
<1>3. IsState(t2)
  <2> HIDE DEF t1
  <2>1. QED
    BY <1>2, ForgetRestricts DEF WrittenBack, Restricts
<1>4. ~IsCall(i.kind) /\ i.kind # "Fallthrough"
  BY DEF IsBoundary, IsCall
<1>5. After(i, s, f) = Forget(t2, Registers)
  BY <1>4 DEF After, AfterControl
<1> HIDE DEF t2
<1>6. Restricts(t2, After(i, s, f), Registers)
  BY <1>3, <1>5, ForgetRestricts
<1>7. DOMAIN t2.known \subseteq Registers /\ DOMAIN t2.slots \subseteq Registers
  BY <1>3 DEF IsState, IsMap
<1>8. DOMAIN After(i, s, f).tables = {}
  BY AfterTables DEF IsLeft
<1>9. QED
  BY <1>4, <1>6, <1>7, <1>8 DEF Restricts, FlagsAfter, NoFlags

LEMMA InstructionOf ==
  ASSUME NEW w \in Windows, NEW j \in 1 .. Len(w)
  PROVE  w[j] \in Instructions /\ IsInstruction(w[j])
BY WindowType DEF Instructions

\* What the pass starts an instruction from is what it believes before it.
LEMMA StepReads ==
  ASSUME ControlInv, FactsInv, at \in 1 .. Len(window)
  PROVE  LET b == Before(joins, facts, at)
         IN /\ IsBelief(b) /\ b.known = (IF at \in joins THEN Nothing ELSE known)
            /\ b.tables = (IF at \in joins THEN Nothing ELSE tables)
            /\ b.slots = (IF at \in joins THEN Nothing ELSE slots)
            /\ b.flags = (IF at \in joins THEN NoFlags ELSE flags)
<1> DEFINE b == Before(joins, facts, at)
<1>1. CASE at \in joins
  BY <1>1, NothingIsBelief DEF Before, NothingBelieved
<1>2. CASE at \notin joins /\ at = 1
  BY <1>2, NothingIsBelief DEF Before, NothingBelieved, FactsInv
<1>3. CASE at \notin joins /\ at # 1
  <2>1. at - 1 \in 1 .. at - 1
    BY <1>3, WindowType DEF ControlInv
  <2>2. b = facts[at - 1]
    BY <1>3 DEF Before
  <2>3. QED
    BY <1>3, <2>1, <2>2 DEF FactsInv
<1>4. QED
  BY <1>1, <1>2, <1>3

\* The pass writes down what it may.
LEMMA StepFacts ==
  ASSUME EvaluationIsExact, ControlInv, FactsInv, Step
  PROVE  FactsInv'
<1> DEFINE i == window[at]
           b == Before(joins, facts, at)
           s == [known |-> IF at \in joins THEN Nothing ELSE known,
                 tables |-> IF at \in joins THEN Nothing ELSE tables,
                 slots |-> IF at \in joins THEN Nothing ELSE slots, done |-> FALSE]
           f == IF at \in joins THEN NoFlags ELSE flags
           t == After(i, s, f)
           g == FlagsAfter(i, s, f)
           e == [known |-> t.known, tables |-> t.tables, slots |-> t.slots, flags |-> g,
                 target |-> ResolvedTarget(i, Synthesised(i, s, f))]
<1>1. /\ at \in 1 .. Len(window) /\ Len(window) \in Nat /\ at' = at + 1
      /\ window' = window /\ joins' = joins
      /\ known' = t.known /\ tables' = t.tables /\ slots' = t.slots /\ flags' = g
      /\ facts' = Append(facts, e)
  BY WindowType DEF Step, ControlInv
<1>2. window \in Windows /\ i \in Instructions /\ IsInstruction(i)
  BY <1>1, InstructionOf DEF ControlInv
<1>3. IsBelief(b) /\ b.known = s.known /\ b.tables = s.tables /\ b.slots = s.slots /\ b.flags = f
  BY <1>1, StepReads
<1>4. IsState(s) /\ s.done = FALSE /\ DOMAIN s.tables \subseteq Registers
  BY <1>3 DEF IsState, IsBelief
<1>5. PICK S : facts \in Seq(S)
  BY DEF FactsInv
<1> HIDE DEF i, b, s, f
<1>6. IsState(t) /\ DOMAIN t.tables \subseteq Registers
  BY <1>2, <1>4, AfterKeeps, AfterTables DEF IsLeft
<1>7. e.known = t.known /\ e.tables = t.tables /\ e.slots = t.slots /\ e.flags = g
  OBVIOUS
<1>8. IsBelief(e)
  <2> HIDE DEF e, t
  <2>1. QED
    BY <1>6, <1>7 DEF IsState, IsBelief
<1>9. IsBoundary(i.kind) => BelievesNothing(e)
  <2>1. IsBoundary(i.kind) =>
          DOMAIN t.known = {} /\ DOMAIN t.tables = {} /\ DOMAIN t.slots = {} /\ g = {}
    BY <1>2, <1>4, BoundaryForgets
  <2> HIDE DEF e, t, g
  <2>2. QED
    BY <1>7, <2>1 DEF BelievesNothing
<1>10. Carries(i, b, e)
  <2>1. SUFFICES ASSUME NEW rs \in [Registers -> Word(XLen)], NEW fl \in FlagValues, Agrees(b, rs, fl),
                        NEW writes \in IsaWrites(i, rs, fl), NEW h \in IsaFlagChoices(i, rs, fl)
                 PROVE  /\ Agrees(e, Updated(rs, writes), h)
                        /\ Updated(rs, writes) \in [Registers -> Word(XLen)] /\ h \in FlagValues
    BY DEF Carries
  <2>2. Agrees(Belief(s, f), rs, fl)
    BY <1>3, <2>1, SameBeliefAgrees DEF Belief
  <2>3. /\ Agrees(Belief(t, g), Updated(rs, writes), h)
        /\ Updated(rs, writes) \in [Registers -> Word(XLen)] /\ h \in FlagValues
    BY <1>2, <1>4, <2>2, AfterAgrees
  <2> HIDE DEF e, t, g
  <2>4. Agrees(e, Updated(rs, writes), h)
    BY <1>7, <2>3, SameBeliefAgrees DEF Belief
  <2>5. QED
    BY <2>3, <2>4
<1> HIDE DEF e, t, g
<1>11. /\ facts' \in Seq(S \cup {e}) /\ Len(facts') = at /\ facts'[at] = e
       /\ \A j \in 1 .. at - 1 : facts'[j] = facts[j]
  <2>1. Len(facts) = at - 1 /\ facts \in Seq(S \cup {e})
    BY <1>5 DEF FactsInv
  <2>2. QED
    BY <1>1, <2>1
<1>12. \A j \in 1 .. at : Before(joins', facts', j) = Before(joins, facts, j)
  BY <1>1, <1>11 DEF Before
<1>13. \A j \in 1 .. at : /\ IsBelief(facts'[j])
                          /\ Carries(window'[j], Before(joins', facts', j), facts'[j])
                          /\ IsBoundary(window'[j].kind) => BelievesNothing(facts'[j])
  <2>1. SUFFICES ASSUME NEW j \in 1 .. at
                 PROVE  /\ IsBelief(facts'[j])
                        /\ Carries(window[j], Before(joins, facts, j), facts'[j])
                        /\ IsBoundary(window[j].kind) => BelievesNothing(facts'[j])
    BY <1>1, <1>12
  <2>2. CASE j = at
    BY <1>8, <1>9, <1>10, <1>11, <2>2 DEF i, b
  <2>3. CASE j # at
    BY <1>1, <1>11, <2>3 DEF FactsInv
  <2>4. QED
    BY <2>2, <2>3
<1>14. at' - 1 = at /\ at' # 1
  BY <1>1
<1>15. /\ known' = facts'[at].known /\ tables' = facts'[at].tables
       /\ slots' = facts'[at].slots /\ flags' = facts'[at].flags
  BY <1>1, <1>7, <1>11
<1>16. joins' = JoinAddresses(window')
  BY <1>1 DEF FactsInv
<1>17. QED
  BY <1>11, <1>13, <1>14, <1>15, <1>16 DEF FactsInv

\* What is believed where a jump or a call lands is nothing.
LEMMA NothingBelievedAtTarget ==
  ASSUME ControlInv, FactsInv, at > Len(window), NEW j \in 1 .. Len(window), NEW k \in Inside(window, j)
  PROVE  BelievesNothing(Before(joins, facts, k))
<1>1. window \in Windows /\ Len(window) \in Nat /\ at - 1 = Len(window)
  BY WindowType DEF ControlInv
<1>2. CASE k = 1 \/ k \in joins
  BY <1>2, NothingIsBelief DEF Before
<1>3. CASE k # 1 /\ k \notin joins
  <2>1. k - 1 \in 1 .. Len(window) /\ IsBoundary(window[k - 1].kind)
    BY <1>1, <1>3, LoneTargetIsBelowBoundary DEF FactsInv
  <2>2. BelievesNothing(facts[k - 1])
    BY <1>1, <2>1 DEF FactsInv
  <2>3. QED
    BY <1>3, <2>2 DEF Before
<1>4. QED
  BY <1>2, <1>3

LEMMA EnterRun ==
  ASSUME ControlInv, Enter
  PROVE  RunInv'
<1>1. /\ pc' = 1 /\ ran' = 0
      /\ regs' \in [Registers -> StartValues] /\ nzcv' \in FlagChoices
  BY DEF Enter
<1>2. regs' \in [Registers -> Word(XLen)]
  BY <1>1, WindowsAssumption
<1>3. nzcv' \in FlagValues
  <2>1. PICK b \in BOOLEAN : nzcv' = [n |-> ~b, z |-> b, c |-> b, v |-> FALSE]
    BY <1>1 DEF FlagChoices
  <2>2. CASE b = TRUE
    <3>1. nzcv' = [n |-> FALSE, z |-> TRUE, c |-> TRUE, v |-> FALSE]
      BY <2>1, <2>2
    <3>2. QED
      BY <3>1 DEF FlagValues
  <2>3. CASE b = FALSE
    <3>1. nzcv' = [n |-> TRUE, z |-> FALSE, c |-> FALSE, v |-> FALSE]
      BY <2>1, <2>3
    <3>2. QED
      BY <3>1 DEF FlagValues
  <2>4. QED
    BY <2>1, <2>2, <2>3
<1>4. Before(joins', facts', pc') = NothingBelieved
  BY <1>1 DEF Before
<1>5. QED
  BY <1>1, <1>2, <1>3, <1>4, NothingIsBelief, NothingAgrees DEF RunInv

LEMMA ExecuteRun ==
  ASSUME ControlInv, FactsInv, RunInv, Execute
  PROVE  RunInv'
<1>1. /\ window \in Windows /\ Len(window) \in Nat /\ at - 1 = Len(window) /\ at > Len(window)
      /\ pc \in 1 .. Len(window) /\ ran' = pc /\ joins' = joins /\ facts' = facts
  BY ExecuteMoves, WindowType DEF ControlInv, pass
<1>2. PICK writes \in IsaWrites(window[pc], regs, nzcv) : regs' = Updated(regs, writes)
  BY DEF Execute
<1>3. nzcv' \in IsaFlagChoices(window[pc], regs, nzcv)
  BY DEF Execute
<1>4. /\ regs \in [Registers -> Word(XLen)] /\ nzcv \in FlagValues
      /\ Agrees(Before(joins, facts, pc), regs, nzcv)
  BY <1>1 DEF RunInv
<1>5. Carries(window[pc], Before(joins, facts, pc), facts[pc])
  BY <1>1 DEF FactsInv
<1>6. /\ Agrees(facts[pc], regs', nzcv')
      /\ regs' \in [Registers -> Word(XLen)] /\ nzcv' \in FlagValues
  BY <1>2, <1>3, <1>4, <1>5 DEF Carries
<1>7. ASSUME pc' # 0
      PROVE  Agrees(Before(joins, facts, pc'), regs', nzcv')
  <2>1. CASE pc' = pc + 1
    <3>1. CASE pc' = 1 \/ pc' \in joins
      BY <3>1, NothingIsBelief, NothingAgrees DEF Before
    <3>2. CASE ~(pc' = 1 \/ pc' \in joins)
      <4>1. pc' - 1 = pc
        BY <1>1, <2>1
      <4>2. QED
        BY <1>6, <3>2, <4>1 DEF Before
    <3>3. QED
      BY <3>1, <3>2
  <2>2. CASE Jumps(window, pc, pc')
    <3>1. pc' \in Inside(window, pc)
      BY <2>2 DEF Jumps
    <3>2. QED
      BY <1>1, <3>1, NothingBelievedAtTarget, NothingAgrees
  <2>3. QED
    BY <1>7, <2>1, <2>2, ExecuteMoves
<1>8. QED
  BY <1>1, <1>6, <1>7 DEF RunInv

LEMMA CallInsideRun ==
  ASSUME ControlInv, FactsInv, RunInv, CallInside
  PROVE  RunInv'
<1>1. /\ pc \in 1 .. Len(window) /\ ran' = 0 /\ joins' = joins /\ facts' = facts
      /\ regs' = regs /\ nzcv' = nzcv /\ pc' \in Inside(window, pc) /\ at > Len(window)
  <2>1. /\ pc \in 1 .. Len(window) /\ ran' = 0 /\ UNCHANGED <<window, pass, regs, nzcv>>
        /\ Calls(window, pc, pc')
    BY CallInsideMoves
  <2>2. QED
    BY <2>1 DEF Calls, ControlInv, pass
<1>2. BelievesNothing(Before(joins, facts, pc'))
  BY <1>1, NothingBelievedAtTarget
<1>3. regs \in [Registers -> Word(XLen)] /\ nzcv \in FlagValues
  BY <1>1 DEF RunInv
<1>4. QED
  BY <1>1, <1>2, <1>3, NothingAgrees DEF RunInv

LEMMA BeliefInit == Init => FactsInv /\ RunInv
<1>1. SUFFICES ASSUME Init PROVE FactsInv /\ RunInv
  OBVIOUS
<1>2. /\ facts = <<>> /\ at = 1 /\ known = Nothing /\ tables = Nothing /\ slots = Nothing /\ flags = NoFlags
      /\ joins = JoinAddresses(window) /\ pc = 0 /\ ran = 0
  BY <1>1 DEF Init
<1>3. facts \in Seq({}) /\ Len(facts) = 0 /\ at - 1 = 0
  BY <1>2
<1>4. QED
  BY <1>2, <1>3 DEF FactsInv, RunInv

LEMMA BeliefStep ==
  ASSUME EvaluationIsExact, ControlInv, FactsInv, RunInv, [Next]_vars
  PROVE  FactsInv' /\ RunInv'
<1>1. CASE Step
  <2>1. pc = 0 /\ ran = 0 /\ pc' = pc /\ ran' = ran
    <3>1. at <= Len(window) /\ pc' = pc /\ ran' = ran
      BY <1>1 DEF Step, processor
    <3>2. Len(window) \in Nat /\ at \in Nat
      BY WindowType DEF ControlInv
    <3>3. QED
      BY <3>1, <3>2 DEF ControlInv
  <2>2. QED
    BY <1>1, <2>1, StepFacts DEF RunInv
<1>2. ASSUME UNCHANGED <<window, pass>>
      PROVE  FactsInv'
  BY <1>2 DEF FactsInv, pass, Before
<1>3. CASE Enter
  BY <1>2, <1>3, EnterRun DEF Enter
<1>4. CASE Execute
  BY <1>2, <1>4, ExecuteRun, ExecuteMoves
<1>5. CASE CallInside
  BY <1>2, <1>5, CallInsideRun, CallInsideMoves
<1>6. CASE UNCHANGED vars
  BY <1>2, <1>6 DEF RunInv, Before, vars, pass, processor
<1>7. QED
  BY <1>1, <1>3, <1>4, <1>5, <1>6 DEF Next

-----------------------------------------------------------------------------
(* What the tables name.                                                   *)

\* Instruction i leads from the tables of belief b to those of belief c: one of its
\* own destination names what it loaded, unless it overwrote the index as well, and
\* any other was there, of a register that it does not overwrite.
Hands(i, b, c) ==
  \A n \in DOMAIN c.tables :
    \/ n \notin Overwritten(i) /\ n \in DOMAIN b.tables /\ c.tables[n] = b.tables[n]
    \/ /\ IsTableLoad(i) /\ n = i.d.n /\ c.tables[n].index = i.m.index
       /\ \A rs \in [Registers -> Word(XLen)], fl \in FlagValues :
            Agrees(b, rs, fl) =>
              \A writes \in IsaWrites(i, rs, fl) :
                i.m.index.n \notin DOMAIN writes => TableHolds(c.tables[n], n, Updated(rs, writes))

\* A value that i may be said to go to, of its register or of the register's table.
Followed(i, b, x) ==
  \/ x \in ReadKnown(b.known, i.a)
  \/ /\ i.a.n \in DOMAIN b.tables
     /\ \E v \in ReadKnown(b.known, b.tables[i.a.n].index) : x \in Through(b.tables[i.a.n], v)

\* What the pass has written of tables and targets.
TablesInv ==
  \A j \in 1 .. at - 1 :
    /\ Hands(window[j], Before(joins, facts, j), facts[j])
    /\ window[j].kind \in {"IndirectCall", "IndirectBranch"} =>
         \A x \in facts[j].target : Followed(window[j], Before(joins, facts, j), x)

\* When a run comes to instruction j with the registers rs, each table of T is of a
\* register still as it was loaded, and names what the register holds if its index
\* is still as it was, too.
TablesHold(w, T, j, rs) ==
  \A n \in DOMAIN T : \E k \in 1 .. j - 1 :
    /\ IsTableLoad(w[k]) /\ w[k].d.n = n /\ T[n].index = w[k].m.index
    /\ \A l \in k + 1 .. j - 1 : n \notin Overwritten(w[l])
    /\ (\A l \in k .. j - 1 : w[k].m.index.n \notin Overwritten(w[l])) => TableHolds(T[n], n, rs)

TargetInv ==
  /\ TablesInv
  /\ pc # 0 => TablesHold(window, Before(joins, facts, pc).tables, pc, regs)

\* One instruction hands its tables on.
LEMMA AfterHands ==
  ASSUME EvaluationIsExact, NEW i \in Instructions, IsInstruction(i),
         NEW s, IsState(s), s.done = FALSE, DOMAIN s.tables \subseteq Registers, NEW f,
         NEW b, b.known = s.known, b.tables = s.tables, b.slots = s.slots, b.flags = f,
         NEW c, c.tables = After(i, s, f).tables
  PROVE  Hands(i, b, c)
<1> DEFINE t == Synthesised(i, s, f)
           a == After(i, s, f)
<1>1. SUFFICES ASSUME NEW n \in DOMAIN c.tables,
                      ~(n \notin Overwritten(i) /\ n \in DOMAIN b.tables /\ c.tables[n] = b.tables[n])
               PROVE  /\ IsTableLoad(i) /\ n = i.d.n /\ c.tables[n].index = i.m.index
                      /\ \A rs \in [Registers -> Word(XLen)], fl \in FlagValues :
                           Agrees(b, rs, fl) =>
                             \A writes \in IsaWrites(i, rs, fl) :
                               i.m.index.n \notin DOMAIN writes =>
                                 TableHolds(c.tables[n], n, Updated(rs, writes))
  BY DEF Hands
<1>2. /\ IsTableLoad(i) /\ n = i.d.n /\ t.done /\ n \in DOMAIN t.tables
      /\ c.tables[n] = t.tables[n] /\ t.tables[n] = TableLoad(i, s.known)
  <2>1. n \in DOMAIN a.tables
    OBVIOUS
  <2>2. IsLeft(i, s, t, a, n)
    BY <2>1, AfterTables
  <2>3. c.tables = a.tables
    OBVIOUS
  <2> HIDE DEF a, t
  <2>4. QED
    BY <1>1, <2>2, <2>3 DEF IsLeft
<1>3. TableLoad(i, s.known).index = i.m.index
  BY DEF TableLoad
<1>4. SUFFICES ASSUME NEW rs \in [Registers -> Word(XLen)], NEW fl \in FlagValues, Agrees(b, rs, fl),
                      NEW writes \in IsaWrites(i, rs, fl), i.m.index.n \notin DOMAIN writes
               PROVE  TableHolds(c.tables[n], n, Updated(rs, writes))
  BY <1>2, <1>3
<1>5. Agrees(Belief(s, f), rs, fl)
  BY <1>4, SameBeliefAgrees DEF Belief
<1>6. ExactAt(i, s, f, rs, fl)
  BY <1>5, EvaluatedExactly
<1> HIDE DEF t, a
<1>7. TableHolds(t.tables[i.d.n], i.d.n, Updated(rs, writes))
  BY <1>2, <1>4, <1>6 DEF ExactAt, t
<1>8. QED
  BY <1>2, <1>7

\* The pass says of an indirect control what it follows.
LEMMA TargetIsFollowed ==
  ASSUME NEW i, i.kind \in {"IndirectCall", "IndirectBranch"}, IsInstruction(i), NEW s, NEW f,
         NEW b, b.known = s.known, b.tables = s.tables,
         NEW x \in ResolvedTarget(i, Synthesised(i, s, f))
  PROVE  Followed(i, b, x)
<1>1. Synthesised(i, s, f) = s
  BY NotEvaluated DEF IsInstruction
<1> DEFINE T == s.tables[i.a.n]
           through == UNION {Through(T, v) : v \in ReadKnown(s.known, T.index)}
           direct == {v \in ReadKnown(s.known, i.a) : ShouldResolve(v)}
<1>2. x \in IF i.a.n \in DOMAIN s.tables /\ through # {} THEN through ELSE direct
  BY <1>1, Zenon DEF ResolvedTarget
<1>3. CASE x \in direct
  BY <1>3 DEF Followed
<1>4. CASE x \in through /\ i.a.n \in DOMAIN s.tables
  <2>1. \E v \in ReadKnown(s.known, T.index) : x \in Through(T, v)
    BY <1>4
  <2>2. QED
    BY <1>4, <2>1 DEF Followed
<1> HIDE DEF through, direct
<1>5. QED
  BY <1>2, <1>3, <1>4

LEMMA TablesStep ==
  ASSUME EvaluationIsExact, ControlInv, FactsInv, TablesInv, Step
  PROVE  TablesInv'
<1> DEFINE i == window[at]
           b == Before(joins, facts, at)
           s == [known |-> IF at \in joins THEN Nothing ELSE known,
                 tables |-> IF at \in joins THEN Nothing ELSE tables,
                 slots |-> IF at \in joins THEN Nothing ELSE slots, done |-> FALSE]
           f == IF at \in joins THEN NoFlags ELSE flags
           t == After(i, s, f)
           e == [known |-> t.known, tables |-> t.tables, slots |-> t.slots, flags |-> FlagsAfter(i, s, f),
                 target |-> ResolvedTarget(i, Synthesised(i, s, f))]
<1>1. /\ at \in 1 .. Len(window) /\ Len(window) \in Nat /\ at' = at + 1
      /\ window' = window /\ joins' = joins /\ facts' = Append(facts, e)
  BY WindowType DEF Step, ControlInv
<1>2. window \in Windows /\ i \in Instructions /\ IsInstruction(i)
  BY <1>1, InstructionOf DEF ControlInv
<1>3. IsBelief(b) /\ b.known = s.known /\ b.tables = s.tables /\ b.slots = s.slots /\ b.flags = f
  BY <1>1, StepReads
<1>4. IsState(s) /\ s.done = FALSE /\ DOMAIN s.tables \subseteq Registers
  BY <1>3 DEF IsState, IsBelief
<1>5. PICK S : facts \in Seq(S)
  BY DEF FactsInv
<1>6. e.tables = t.tables /\ e.target = ResolvedTarget(i, Synthesised(i, s, f))
  OBVIOUS
<1> HIDE DEF i, b, s, f, e
<1>7. Hands(i, b, e)
  BY <1>2, <1>3, <1>4, <1>6, AfterHands
<1>8. i.kind \in {"IndirectCall", "IndirectBranch"} => \A x \in e.target : Followed(i, b, x)
  BY <1>2, <1>3, <1>6, TargetIsFollowed
<1> HIDE DEF t
<1>9. facts'[at] = e /\ \A j \in 1 .. at - 1 : facts'[j] = facts[j]
  <2>1. Len(facts) = at - 1 /\ facts \in Seq(S \cup {e})
    BY <1>5 DEF FactsInv
  <2>2. QED
    BY <1>1, <2>1
<1>10. \A j \in 1 .. at : Before(joins', facts', j) = Before(joins, facts, j)
  <2>1. SUFFICES ASSUME NEW j \in 1 .. at
                 PROVE  Before(joins, facts', j) = Before(joins, facts, j)
    BY <1>1
  <2>2. j # 1 => j - 1 \in 1 .. at - 1
    BY <1>1
  <2>3. QED
    BY <1>9, <2>2 DEF Before
<1>11. SUFFICES ASSUME NEW j \in 1 .. at
                PROVE  /\ Hands(window[j], Before(joins, facts, j), facts'[j])
                       /\ window[j].kind \in {"IndirectCall", "IndirectBranch"} =>
                            \A x \in facts'[j].target : Followed(window[j], Before(joins, facts, j), x)
  <2>1. at' - 1 = at
    BY <1>1
  <2>2. QED
    BY <1>1, <1>10, <2>1 DEF TablesInv
<1>12. CASE j = at
  BY <1>7, <1>8, <1>9, <1>12 DEF i, b
<1>13. CASE j # at
  <2>1. j \in 1 .. at - 1
    BY <1>1, <1>13
  <2>2. QED
    BY <1>9, <2>1 DEF TablesInv
<1>14. QED
  BY <1>12, <1>13

\* An instruction of a run hands its tables on with what they hold.
LEMMA TablesHoldOn ==
  ASSUME NEW w \in Windows, NEW j \in 1 .. Len(w), NEW b, NEW c, Hands(w[j], b, c),
         NEW rs \in [Registers -> Word(XLen)], NEW fl \in FlagValues, Agrees(b, rs, fl),
         NEW writes \in IsaWrites(w[j], rs, fl),
         DOMAIN b.tables \subseteq Registers, TablesHold(w, b.tables, j, rs)
  PROVE  TablesHold(w, c.tables, j + 1, Updated(rs, writes))
<1> DEFINE i == w[j]
           r == Updated(rs, writes)
<1>1. /\ Len(w) \in Nat /\ j \in Nat /\ (j + 1) - 1 = j /\ IsInstruction(i)
  BY WindowType
<1>2. DOMAIN writes \subseteq Overwritten(i)
  BY <1>1, WritesAreOverwritten
<1>3. \A n \in Registers : n \notin Overwritten(i) => r[n] = rs[n]
  BY <1>2, UpdatedIs
<1> HIDE DEF r
<1>4. SUFFICES ASSUME NEW n \in DOMAIN c.tables
               PROVE  \E k \in 1 .. j :
                        /\ IsTableLoad(w[k]) /\ w[k].d.n = n /\ c.tables[n].index = w[k].m.index
                        /\ \A l \in k + 1 .. j : n \notin Overwritten(w[l])
                        /\ (\A l \in k .. j : w[k].m.index.n \notin Overwritten(w[l])) =>
                             TableHolds(c.tables[n], n, r)
  BY <1>1 DEF TablesHold, r
<1>5. CASE n \notin Overwritten(i) /\ n \in DOMAIN b.tables /\ c.tables[n] = b.tables[n]
  <2>1. PICK k \in 1 .. j - 1 :
          /\ IsTableLoad(w[k]) /\ w[k].d.n = n /\ b.tables[n].index = w[k].m.index
          /\ \A l \in k + 1 .. j - 1 : n \notin Overwritten(w[l])
          /\ (\A l \in k .. j - 1 : w[k].m.index.n \notin Overwritten(w[l])) => TableHolds(b.tables[n], n, rs)
    BY <1>5 DEF TablesHold
  <2>2. /\ k \in 1 .. j /\ j \in k .. j /\ k .. j - 1 \subseteq k .. j
        /\ \A l \in k + 1 .. j : l = j \/ l \in k + 1 .. j - 1
    BY <1>1
  <2>3. ASSUME \A l \in k .. j : w[k].m.index.n \notin Overwritten(w[l])
        PROVE  TableHolds(b.tables[n], n, r)
    <3>1. TableHolds(b.tables[n], n, rs)
      BY <2>1, <2>2, <2>3
    <3>2. r[n] = rs[n]
      BY <1>3, <1>5
    <3>3. HasKey(b.tables[n].index) => r[b.tables[n].index.n] = rs[b.tables[n].index.n]
      <4>1. SUFFICES ASSUME HasKey(w[k].m.index)
                     PROVE  r[w[k].m.index.n] = rs[w[k].m.index.n]
        BY <2>1
      <4>2. w[k].m.index.n \in Registers
        <5>1. k \in 1 .. Len(w)
          BY <1>1, <2>2
        <5>2. w[k].m.index.n \in Registers \cup {"zr", "sp"}
          BY <5>1, InstructionOf DEF IsInstruction
        <5>3. QED
          BY <4>1, <5>2, RegistersHaveKeys
      <4>3. QED
        BY <1>3, <2>2, <2>3, <4>2
    <3>4. QED
      BY <3>1, <3>2, <3>3 DEF TableHolds
  <2>4. \A l \in k + 1 .. j : n \notin Overwritten(w[l])
    BY <1>5, <2>1, <2>2
  <2>5. QED
    BY <1>5, <2>1, <2>2, <2>3, <2>4
<1>6. CASE /\ IsTableLoad(i) /\ n = i.d.n /\ c.tables[n].index = i.m.index
           /\ i.m.index.n \notin DOMAIN writes => TableHolds(c.tables[n], n, r)
  <2>1. j \in 1 .. j /\ j \in j .. j /\ j + 1 .. j = {}
    BY <1>1
  <2>2. (\A l \in j .. j : i.m.index.n \notin Overwritten(w[l])) => TableHolds(c.tables[n], n, r)
    BY <1>2, <1>6, <2>1
  <2>3. QED
    BY <1>6, <2>1, <2>2
<1>7. QED
  BY <1>5, <1>6 DEF Hands, r

\* Where nothing is believed there are no tables.
LEMMA NoTablesHold ==
  ASSUME NEW b, BelievesNothing(b), NEW w, NEW j, NEW rs
  PROVE  TablesHold(w, b.tables, j, rs)
BY DEF BelievesNothing, TablesHold

LEMMA ExecuteTables ==
  ASSUME ControlInv, FactsInv, RunInv, TargetInv, Execute, pc' # 0
  PROVE  TablesHold(window, Before(joins, facts, pc').tables, pc', regs')
<1>1. /\ window \in Windows /\ Len(window) \in Nat /\ at - 1 = Len(window) /\ at > Len(window)
      /\ pc \in 1 .. Len(window)
  BY ExecuteMoves, WindowType DEF ControlInv
<1> DEFINE b == Before(joins, facts, pc)
<1>2. PICK writes \in IsaWrites(window[pc], regs, nzcv) : regs' = Updated(regs, writes)
  BY DEF Execute
<1>3. /\ regs \in [Registers -> Word(XLen)] /\ nzcv \in FlagValues /\ Agrees(b, regs, nzcv)
      /\ Hands(window[pc], b, facts[pc]) /\ TablesHold(window, b.tables, pc, regs)
  BY <1>1 DEF RunInv, TargetInv, TablesInv
<1>4. DOMAIN b.tables \subseteq Registers
  <2>1. CASE pc = 1 \/ pc \in joins
    BY <2>1, NothingIsBelief DEF Before, IsBelief
  <2>2. CASE ~(pc = 1 \/ pc \in joins)
    <3>1. pc - 1 \in 1 .. at - 1
      BY <1>1, <2>2
    <3>2. QED
      BY <2>2, <3>1 DEF Before, FactsInv, IsBelief
  <2>3. QED
    BY <2>1, <2>2
<1> HIDE DEF b
<1>5. TablesHold(window, facts[pc].tables, pc + 1, regs')
  BY <1>1, <1>2, <1>3, <1>4, TablesHoldOn
<1>6. CASE pc' = pc + 1
  <2>1. CASE pc' = 1 \/ pc' \in joins
    BY <2>1, NothingIsBelief, NoTablesHold DEF Before
  <2>2. CASE ~(pc' = 1 \/ pc' \in joins)
    <3>1. pc' - 1 = pc
      BY <1>1, <1>6
    <3>2. QED
      BY <1>5, <1>6, <2>2, <3>1 DEF Before
  <2>3. QED
    BY <2>1, <2>2
<1>7. CASE Jumps(window, pc, pc')
  <2>1. pc' \in Inside(window, pc)
    BY <1>7 DEF Jumps
  <2>2. QED
    BY <1>1, <2>1, NothingBelievedAtTarget, NoTablesHold
<1>8. QED
  BY <1>6, <1>7, ExecuteMoves

LEMMA TargetNext ==
  ASSUME EvaluationIsExact, ControlInv, FactsInv, RunInv, TargetInv, [Next]_vars
  PROVE  TargetInv'
<1>1. CASE Step
  <2>1. pc' = 0
    <3>1. at <= Len(window) /\ pc' = pc
      BY <1>1 DEF Step, processor
    <3>2. Len(window) \in Nat /\ at \in Nat
      BY WindowType DEF ControlInv
    <3>3. QED
      BY <3>1, <3>2 DEF ControlInv
  <2>2. QED
    BY <1>1, <2>1, TablesStep DEF TargetInv
<1>2. ASSUME UNCHANGED <<window, pass>>
      PROVE  TablesInv' /\ \A j : Before(joins', facts', j) = Before(joins, facts, j)
  BY <1>2 DEF TargetInv, TablesInv, pass, Before
<1>3. CASE Enter
  <2>1. pc' = 1 /\ UNCHANGED <<window, pass>>
    BY <1>3 DEF Enter
  <2>2. Before(joins', facts', pc') = NothingBelieved
    BY <2>1 DEF Before
  <2>3. QED
    BY <1>2, <2>1, <2>2, NothingIsBelief, NoTablesHold DEF TargetInv
<1>4. CASE Execute
  <2>1. UNCHANGED <<window, pass>>
    BY <1>4, ExecuteMoves
  <2>2. QED
    BY <1>2, <1>4, <2>1, ExecuteTables DEF TargetInv
<1>5. CASE CallInside
  <2>1. /\ pc \in 1 .. Len(window) /\ pc' \in Inside(window, pc) /\ at > Len(window)
        /\ UNCHANGED <<window, pass>>
    <3>1. /\ pc \in 1 .. Len(window) /\ UNCHANGED <<window, pass>> /\ Calls(window, pc, pc')
      BY <1>5, CallInsideMoves
    <3>2. QED
      BY <3>1 DEF Calls, ControlInv
  <2>2. BelievesNothing(Before(joins, facts, pc'))
    BY <2>1, NothingBelievedAtTarget
  <2>3. QED
    BY <1>2, <2>1, <2>2, NoTablesHold DEF TargetInv
<1>6. CASE UNCHANGED vars
  BY <1>2, <1>6 DEF TargetInv, vars, processor
<1>7. QED
  BY <1>1, <1>3, <1>4, <1>5, <1>6 DEF Next

\* What the invariants say of types.
LEMMA TypesFollow ==
  ASSUME ControlInv, FactsInv, RunInv
  PROVE  TypeOK
<1>1. /\ window \in Windows /\ Len(window) \in Nat /\ DOMAIN window = 1 .. Len(window)
      /\ at \in 1 .. Len(window) + 1
  BY WindowType DEF ControlInv
<1>2. joins \subseteq DOMAIN window
  BY <1>1, LeadersType DEF FactsInv, JoinAddresses
<1>3. DOMAIN known \subseteq Registers /\ DOMAIN tables \subseteq Registers /\ DOMAIN slots \subseteq Registers
  <2>1. CASE at = 1
    BY <2>1, NothingIsBelief DEF FactsInv
  <2>2. CASE at # 1
    <3>1. at - 1 \in 1 .. at - 1
      BY <1>1, <2>2
    <3>2. QED
      BY <2>2, <3>1 DEF FactsInv, IsBelief, IsMap
  <2>3. QED
    BY <2>1, <2>2
<1>4. QED
  BY <1>1, <1>2, <1>3 DEF TypeOK, ControlInv, FactsInv, RunInv

\* What they say of targets.
LEMMA TargetsFollow ==
  ASSUME ControlInv, FactsInv, RunInv, TargetInv
  PROVE  ResolvedTargetSound
<1> DEFINE i == window[pc]
           b == Before(joins, facts, pc)
           T == b.tables[i.a.n]
<1>1. SUFFICES ASSUME pc # 0, i.kind \in {"IndirectCall", "IndirectBranch"}, IndexIsKept(window, pc),
                      NEW x \in facts[pc].target
               PROVE  x = Holds(regs, i.a)
  BY DEF ResolvedTargetSound
<1>2. window \in Windows /\ Len(window) \in Nat /\ pc \in 1 .. at - 1 /\ pc \in 1 .. Len(window)
  BY <1>1, WindowType DEF ControlInv
<1>3. /\ Followed(i, b, x) /\ Agrees(b, regs, nzcv) /\ TablesHold(window, b.tables, pc, regs)
  BY <1>1, <1>2 DEF TargetInv, TablesInv, RunInv
<1>4. i.a.w = XLen
  BY <1>1, <1>2, InstructionOf DEF IsInstruction
<1> HIDE DEF b
<1>5. \A r : ReadKnown(b.known, r) \subseteq {Low(regs[r.n], r.w)}
  BY <1>3 DEF ReadKnown, Agrees
<1>6. CASE x \in ReadKnown(b.known, i.a)
  BY <1>5, <1>6 DEF ReadKnown, Holds, HasKey, IsZero
<1>7. CASE /\ i.a.n \in DOMAIN b.tables
           /\ \E v \in ReadKnown(b.known, T.index) : x \in Through(T, v)
  <2>1. PICK k \in 1 .. pc - 1 :
          /\ IsTableLoad(window[k]) /\ window[k].d.n = i.a.n /\ T.index = window[k].m.index
          /\ \A l \in k + 1 .. pc - 1 : i.a.n \notin Overwritten(window[l])
          /\ (\A l \in k .. pc - 1 : window[k].m.index.n \notin Overwritten(window[l])) =>
               TableHolds(T, i.a.n, regs)
    BY <1>3, <1>7 DEF TablesHold
  <2>2. TableHolds(T, i.a.n, regs)
    BY <1>1, <2>1 DEF IndexIsKept
  <2>3. HasKey(i.a)
    BY <2>1 DEF IsTableLoad, HasKey
  <2>4. PICK v \in ReadKnown(b.known, T.index) : x \in Through(T, v)
    BY <1>7
  <2> HIDE DEF T
  <2>5. HasKey(T.index) /\ v = Low(regs[T.index.n], T.index.w)
    BY <1>5, <2>4 DEF ReadKnown
  <2>6. Through(T, v) \subseteq {Low(regs[i.a.n], XLen)}
    BY <2>2, <2>5, Zenon DEF TableHolds
  <2>7. x = Low(regs[i.a.n], XLen)
    BY <2>4, <2>6
  <2>8. QED
    BY <1>4, <2>3, <2>7 DEF Holds, HasKey, IsZero
<1>8. QED
  BY <1>3, <1>6, <1>7 DEF Followed

-----------------------------------------------------------------------------
\* Where every instruction of the windows is evaluated exactly on its own, what
\* the pass calls known is what the processor holds, in every run of every window,
\* whatever the caller passed, the callees did and the branches decided: the
\* destinations, write-backs, clobbers and joins that synthesize_analysis_references
\* forgets are all that can be wrong.
THEOREM BeliefsAreTrue ==
  ASSUME EvaluationIsExact
  PROVE  Spec => [](KnownValuesSound /\ KnownFlagsSound)
<1>1. Init => FactsInv /\ RunInv
  BY BeliefInit
<1>2. ControlInv /\ FactsInv /\ RunInv /\ [Next]_vars => FactsInv' /\ RunInv'
  BY BeliefStep
<1>3. RunInv => KnownValuesSound /\ KnownFlagsSound
  BY DEF RunInv, KnownValuesSound, KnownFlagsSound, Agrees
<1>4. QED
  BY <1>1, <1>2, <1>3, ControlIsInWindow, PTL DEF Spec

\* There, everything the pass says of a run is true of it: registers, flags, and
\* where an indirect call or branch goes, by the known value of its register or
\* through the table the register was loaded from, unless the table's index has been
\* overwritten since.
THEOREM PassSound ==
  ASSUME EvaluationIsExact
  PROVE  Spec => []PassIsSound
<1>1. Init => FactsInv /\ RunInv /\ TargetInv
  <2>1. Init => at - 1 = 0 /\ pc = 0
    BY DEF Init
  <2>2. Init => TargetInv
    BY <2>1 DEF TargetInv, TablesInv
  <2>3. QED
    BY <2>2, BeliefInit
<1>2. ControlInv /\ FactsInv /\ RunInv /\ TargetInv /\ [Next]_vars => FactsInv' /\ RunInv' /\ TargetInv'
  BY BeliefStep, TargetNext
<1>3. RunInv => KnownValuesSound /\ KnownFlagsSound
  BY DEF RunInv, KnownValuesSound, KnownFlagsSound, Agrees
<1>4. ControlInv /\ FactsInv /\ RunInv /\ TargetInv => TypeOK /\ ResolvedTargetSound
  BY TypesFollow, TargetsFollow
<1>5. QED
  BY <1>1, <1>2, <1>3, <1>4, ControlIsInWindow, PTL DEF Spec, PassIsSound
=============================================================================
