---------------------------- MODULE RegisterFlow ----------------------------
(***************************************************************************)
(* Register data flow over a lifted function (damsel-decomp/src/ssa.rs):   *)
(* which registers carry merged values, and the versions that make every   *)
(* write of a block a variable of its own; and the pseudocode's control    *)
(* structure (structure.rs): the relation a conditional branch tests, and  *)
(* loops; and what depends on a tainted value (taint.rs).  A function is a *)
(* sequence of blocks; a block is named by its place in it.                *)
(***************************************************************************)
EXTENDS Lifting

RECURSIVE Reads(_)

\* read_registers: the registers in the order they are visited.
Reads(e) ==
  CASE e.k = "reg" -> <<e.name>>
    [] e.k = "select" -> Reads(e.taken) \o Reads(e.other)
    [] e.k = "binop" -> Reads(e.lhs) \o Reads(e.rhs)
    [] e.k \in {"addr", "segment"} -> <<e.base>>
    [] e.k = "indexed" -> <<e.base, e.index>>
    [] OTHER -> <<>>

StatementReads(s) ==
  CASE s.k \in {"assign", "load"} -> Reads(s.e)
    [] s.k = "store" -> Reads(s.at) \o Reads(s.e)
    [] OTHER -> <<>>

\* The register a statement writes, if any.
StatementWrites(s) == IF s.k \in {"assign", "load"} THEN {s.dst} ELSE {}

JumpTargets(t) ==
  CASE t.k = "branch" -> <<t.target>> [] t.k = "cond" -> <<t.taken, t.below>> [] OTHER -> <<>>

\* Where a block goes; the end of the window falls to the block below.
Targets(f, n) ==
  IF f[n].terminator.k # "window_end" THEN JumpTargets(f[n].terminator)
  ELSE LET below == {m \in DOMAIN f : f[m].start > f[n].start}
       IN IF below = {} THEN <<>> ELSE <<f[CHOOSE m \in below : \A l \in below : m <= l].start>>

\* The edges into block n: the block and the place of the target in its list,
\* as a block with the same target twice counts twice.
EdgesInto(f, n, To(_, _)) ==
  {e \in (DOMAIN f) \X {1, 2} : e[2] \in DOMAIN To(f, e[1]) /\ To(f, e[1])[e[2]] = f[n].start}

Definitions(f, r) ==
  {p \in UNION {{n} \X DOMAIN f[n].statements : n \in DOMAIN f} :
     r \in StatementWrites(f[p[1]].statements[p[2]])}

Uses(f, r) ==
  UNION {{<<n, k, u>> : u \in {v \in DOMAIN StatementReads(f[n].statements[k]) :
                                StatementReads(f[n].statements[k])[v] = r}} :
           <<n, k>> \in UNION {{n} \X DOMAIN f[n].statements : n \in DOMAIN f}}

WrittenRegisters(f) ==
  UNION {StatementWrites(f[n].statements[k]) :
           <<n, k>> \in UNION {{n} \X DOMAIN f[n].statements : n \in DOMAIN f}}

\* build_ssa: the merge candidates, of registers written more than once and read
\* where paths meet.  The uses of a register are looked up without asking whether
\* there are any: it panics, and there is no report, when one that is written
\* more than once is never read.
SsaReport(f) ==
  LET often == {r \in WrittenRegisters(f) : Cardinality(Definitions(f, r)) >= 2}
      Merges(r) == {n \in {u[1] : u \in Uses(f, r)} : Cardinality(EdgesInto(f, n, Targets)) > 1}
  IN IF \E r \in often : Uses(f, r) = {} THEN {}
     ELSE {UNION {[block : Merges(r), register : {r}] : r \in often}}

\* build_phi_nodes: registers two explicit edges into a block bring a definition of.
PhiNodes(f) ==
  LET Into(n) == EdgesInto(f, n, LAMBDA g, m : JumpTargets(g[m].terminator))
      DefinedIn(m) == UNION {StatementWrites(f[m].statements[k]) : k \in DOMAIN f[m].statements}
  IN UNION {{[block |-> n, register |-> r, incoming |-> {e[1] : e \in {i \in Into(n) : r \in DefinedIn(i[1])}}] :
               r \in {q \in UNION {DefinedIn(e[1]) : e \in Into(n)} :
                        Cardinality({e \in Into(n) : q \in DefinedIn(e[1])}) > 1}} : n \in DOMAIN f}

-----------------------------------------------------------------------------
(* Versions.                                                               *)

\* A register not yet written in the block keeps its name.
Versioned(r, versions) ==
  IF r \in DOMAIN versions THEN r \o "_v" \o ToString(versions[r]) ELSE r

RECURSIVE RenameExpression(_, _)

\* rename_expr: segments keep their names.
RenameExpression(e, versions) ==
  CASE e.k = "reg" -> Reg(Versioned(e.name, versions))
    [] e.k = "binop" -> BinOp(e.op, RenameExpression(e.lhs, versions), RenameExpression(e.rhs, versions))
    [] e.k = "select" -> SelectOf(RenameExpression(e.taken, versions), RenameExpression(e.other, versions))
    [] e.k = "addr" -> AddrOf(Versioned(e.base, versions), e.disp)
    [] e.k = "indexed" ->
         IndexedAddr(Versioned(e.base, versions), Versioned(e.index, versions), e.scale, e.disp)
    [] OTHER -> e

Bump(versions, r) == (r :> (IF r \in DOMAIN versions THEN versions[r] ELSE 0) + 1) @@ versions

\* rename_statement: the destination takes its new version first, and the
\* expression is renamed with it.
RenameStatement(s, versions) ==
  LET after == IF s.k \in {"assign", "load"} THEN Bump(versions, s.dst) ELSE versions
  IN [versions |-> after,
      statement |->
        CASE s.k = "assign" -> Assign(Versioned(s.dst, after), RenameExpression(s.e, after))
          [] s.k = "load" -> LoadInto(Versioned(s.dst, after), RenameExpression(s.e, after))
          [] s.k = "store" -> StoreAt(RenameExpression(s.at, after), RenameExpression(s.e, after))
          [] OTHER -> s]

\* rename_registers, of one block: the statements, and the last versions.
RenameBlock(statements) ==
  FoldLeft(LAMBDA done, s :
             LET next == RenameStatement(s, done.versions)
             IN [versions |-> next.versions, statements |-> Append(done.statements, next.statement)],
           [versions |-> [r \in {} |-> 0], statements |-> <<>>], statements)
-----------------------------------------------------------------------------
(* Control structure.                                                      *)

Unresolved == [k |-> "unresolved"]
Relational(lhs, op, rhs) == [k |-> "rel", lhs |-> lhs, op |-> op, rhs |-> rhs]
BitTest(lhs, rhs, nonzero) == [k |-> "mask", lhs |-> lhs, rhs |-> rhs, nonzero |-> nonzero]

\* The relation of the operands a condition of ARM tests after a comparison.
AfterSubtraction ==
  [eq |-> "==", ne |-> "!=", lt |-> "<", le |-> "<=", gt |-> ">", ge |-> ">=",
   lo |-> "<u", ls |-> "<=u", hi |-> ">u", hs |-> ">=u"]

\* The condition code of a branch; cbz, tbz and the like have none.
CodeOf == [c \in {"b." \o k : k \in DOMAIN AfterSubtraction} |->
             CHOOSE k \in DOMAIN AfterSubtraction : c = "b." \o k]

\* resolve_condition: by the last flags assignment of the block.
ResolveCondition(block) ==
  LET t == block.terminator
      sets == {n \in DOMAIN block.statements :
                 block.statements[n].k = "assign" /\ block.statements[n].dst = "flags"}
      flags == block.statements[Max(sets)].e
      code == CodeOf[t.op]
  IN IF t.k # "cond" \/ sets = {} THEN Unresolved
     ELSE IF flags.k # "binop" \/ t.op \notin DOMAIN CodeOf THEN Unresolved
     ELSE IF flags.op = "Sub" THEN Relational(flags.lhs, AfterSubtraction[code], flags.rhs)
     ELSE IF flags.op = "Add" /\ code \in {"eq", "ne"}
          THEN Relational(flags.lhs, AfterSubtraction[code], flags.rhs)
     ELSE IF flags.op = "And" /\ code \in {"eq", "ne"} THEN BitTest(flags.lhs, flags.rhs, code = "ne")
     ELSE Unresolved

\* find_loops: jumps to this block or an earlier one.
LoopEdges(f) ==
  {[from |-> n, to |-> f[n].terminator.target] :
     n \in {m \in DOMAIN f : f[m].terminator.k = "branch" /\ f[m].terminator.target <= f[m].start}}
  \cup {[from |-> n, to |-> f[n].terminator.taken] :
          n \in {m \in DOMAIN f : /\ f[m].terminator.k = "cond"
                                  /\ f[m].terminator.taken <= f[m].start
                                  /\ f[m].terminator.below > f[m].start}}

-----------------------------------------------------------------------------
(* Taint: which arguments of a lifted function reach its result, its stores *)
(* and the arguments of the calls it makes, and from there other functions  *)
(* (damsel-decomp/src/taint.rs).  A state has the tainted registers, where  *)
(* w0 .. w7 are x0 .. x7, and the tainted slots <<base, displacement>>.     *)

ArgSlots == <<"x0", "x1", "x2", "x3", "x4", "x5", "x6", "x7">>
NarrowSlots == <<"w0", "w1", "w2", "w3", "w4", "w5", "w6", "w7">>

\* arg_slot, as the name of the slot; every other register is itself.
Slot(r) == IF r \in Range(NarrowSlots)
           THEN ArgSlots[CHOOSE n \in DOMAIN NarrowSlots : NarrowSlots[n] = r] ELSE r

Seeded(seeds) == [regs |-> seeds, slots |-> {}]

RECURSIVE Tainted(_, _)

\* Mutant: only the left operand counts.
TaintedLeft(e, s) ==
  CASE e.k = "reg" -> Slot(e.name) \in s.regs
    [] e.k = "binop" -> Tainted(e.lhs, s)
    [] e.k = "addr" -> Slot(e.base) \in s.regs \/ <<e.base, e.disp>> \in s.slots
    [] OTHER -> FALSE

\* expression_tainted: of an address, also what is stored there.
Tainted(e, s) ==
  CASE e.k = "reg" -> Slot(e.name) \in s.regs
    [] e.k = "binop" -> Tainted(e.lhs, s) \/ Tainted(e.rhs, s)
    [] e.k = "select" -> Tainted(e.taken, s) \/ Tainted(e.other, s)
    [] e.k = "addr" -> Slot(e.base) \in s.regs \/ <<e.base, e.disp>> \in s.slots
    [] e.k = "indexed" -> {Slot(e.base), Slot(e.index)} \cap s.regs # {}
    [] OTHER -> FALSE

SetMember(S, m, in) == IF in THEN S \cup {m} ELSE S \ {m}

\* One statement of a walk.  A store through an index or a segment is not followed.
Flow(st, s) ==
  CASE st.k \in {"assign", "load"} -> [s EXCEPT !.regs = SetMember(@, Slot(st.dst), Tainted(st.e, s))]
    [] st.k = "store" /\ st.at.k = "addr" ->
         [s EXCEPT !.slots = SetMember(@, <<st.at.base, st.at.disp>>,
                                       Tainted(st.e, s) \/ Slot(st.at.base) \in s.regs)]
    [] OTHER -> s

Statements(f) == FlattenSeq([n \in DOMAIN f |-> f[n].statements])

\* walk: every block in order, twice.
Walk(f, seeds) ==
  FoldLeft(LAMBDA s, st : Flow(st, s), Seeded(seeds), Statements(f) \o Statements(f))

ReturnsTaint(f) == {r \in Range(ArgSlots) : "x0" \in Walk(f, {r}).regs}
StoresTaint(f) == {r \in Range(ArgSlots) : Walk(f, {r}).slots # {}}

\* The argument registers a statement mentions, the destination of a load left out.
Mentions(st) ==
  {Slot(r) : r \in Range(StatementReads(st)) \cup (IF st.k = "assign" THEN {st.dst} ELSE {})}
  \cap Range(ArgSlots)

\* call_transfers: for each call of a known function, in order, the arguments
\* the caller has mentioned and all its arguments taint, at the second walk.
\* Calls through registers are listed elsewhere and followed nowhere.
CallTransfers(f) ==
  LET all == Statements(f) \o Statements(f)
      State(n) == FoldLeft(LAMBDA s, st : Flow(st, s), Seeded(Range(ArgSlots)), SubSeq(all, 1, n))
      Mentioned(n) == UNION {Mentions(all[m]) : m \in 1 .. n}
      Transfer(n) == {[to |-> t, mask |-> State(n).regs \cap Mentioned(n)] : t \in all[n].targets}
  IN FlattenSeq([n \in 1 .. Len(all) \div 2 |->
       IF all[n].k = "call" THEN SetToSeq(Transfer(n + Len(all) \div 2)) ELSE <<>>])

-----------------------------------------------------------------------------
(* The path between two functions: transfers[a] is the sequence of the     *)
(* transfers of a.                                                         *)

RECURSIVE Search(_, _, _, _, _)

\* The transfers that carry taint to a function the engine knows.
Steps(transfers, a) ==
  {t \in Range(transfers[a]) : t.mask # {} /\ t.to \in DOMAIN transfers}

\* The breadth-first search; parent maps a function to the one it was reached from.
Search(transfers, queue, visited, parent, sink) ==
  IF queue = <<>> THEN parent
  ELSE LET a == Head(queue)
           found == {t.to : t \in Steps(transfers, a)} \ visited
       IN IF sink \in found THEN (sink :> a) @@ parent
          ELSE Search(transfers, Tail(queue) \o SetToSeq(found), visited \cup found,
                      [b \in found |-> a] @@ parent, sink)

RECURSIVE Reconstruct(_, _)
Reconstruct(parent, b) ==
  IF b \in DOMAIN parent THEN Append(Reconstruct(parent, parent[b]), <<parent[b], b>>) ELSE <<>>

\* path: a set with the hops, empty when there is none.
Path(transfers, source, sink) ==
  IF source = sink THEN IF source \in DOMAIN transfers THEN {<<>>} ELSE {}
  ELSE LET parent == Search(transfers, SetToSeq({source} \cap DOMAIN transfers), {source}, [b \in {} |-> source], sink)
       IN IF sink \in DOMAIN parent THEN {Reconstruct(parent, sink)} ELSE {}
=============================================================================
