------------------------ MODULE RemoveAndWithConstant ------------------------
(***************************************************************************)
(* The constant-AND peephole pass (passes/remove_and_with_constant.rs).   *)
(* A FlowGraph is built upstream (Init: every well-formed graph over a     *)
(* small node set), then the pass is run up to MaxRuns times, each run one *)
(* atomic step: Pass::run is a synchronous function with no suspension.    *)
(***************************************************************************)
EXTENDS FlowGraph

CONSTANTS InputBits,  \* nodes of the input buses (exposed Buffer nodes)
          KindMenu,   \* kinds an upstream lowering may give the other nodes
          MaxRuns     \* how many times the pipeline runs the pass

VARIABLES kind, width, edges, runs, orig

vars == <<kind, width, edges, runs, orig>>

(***************************************************************************)
(* Graphs the lowering can hand over: node m may drive node n only when   *)
(* m < n.  Every DAG is such a graph up to a renaming of its indices, and  *)
(* the pass never looks at index order, so this loses no behaviour.        *)
(***************************************************************************)
IncomingSets(k, n) ==
    LET roles == RequiredRoles(k[n], n \in InputBits)
    IN {{Edge(f[r], n, r) : r \in roles} : f \in [roles -> {m \in Nodes : m < n}]}
RECURSIVE EdgeChoices(_, _)
EdgeChoices(k, S) ==
    IF S = {} THEN {{}}
    ELSE LET n == CHOOSE x \in S : TRUE
         IN {a \cup b : a \in IncomingSets(k, n), b \in EdgeChoices(k, S \ {n})}

KindChoices == {k \in [Nodes -> KindMenu \cup {Buffer}] :
                   \A n \in Nodes : (n \in InputBits) <=> (k[n] = Buffer)}

\* VarOrConstant
Variable == [var |-> TRUE, value |-> 0]
ConstantBit(v) == [var |-> FALSE, value |-> v]

\* Mutant: a source Buffer fed by a Constant is read through as that constant.
get_source_bit_through_buffer(n) ==
    LET d == SourceOf(edges, n, ArgBit(0, 0))
    IN IF kind[n].tag = "Constant" THEN ConstantBit(kind[n].value)
       ELSE IF kind[n] = Buffer /\ d # NoNode /\ kind[d].tag = "Constant"
            THEN ConstantBit(kind[d].value) ELSE Variable

\* get_source_bit: a source is a constant only if its kind is Constant.
get_source_bit(n) == IF kind[n].tag = "Constant" THEN ConstantBit(kind[n].value) ELSE Variable

\* The pattern let-else: Binary{BitAnd, Unsigned(1), Unsigned(1)}.
IsOneBitAnd(k) == k = Binary("BitAnd", Unsigned(1), Unsigned(1))

\* Mutant: the (Variable, Constant(Zero)) arm keeps the variable side.
get_useless_and_replacement_zero_swapped(n) ==
    LET left  == SourceOf(edges, n, ArgBit(0, 0))
        right == SourceOf(edges, n, ArgBit(1, 0))
        l == get_source_bit(left)
        r == get_source_bit(right)
    IN IF ~IsOneBitAnd(kind[n]) \/ left = NoNode \/ right = NoNode THEN NoNode
       ELSE CASE l = Variable /\ r = ConstantBit(0) -> left
              [] l = Variable /\ r = ConstantBit(1) -> left
              [] l = ConstantBit(0) /\ r = Variable -> left
              [] l = ConstantBit(1) /\ r = Variable -> right
              [] OTHER -> NoNode

\* get_useless_and_replacement: the surviving source, or NoNode.
get_useless_and_replacement(n) ==
    LET left  == SourceOf(edges, n, ArgBit(0, 0))
        right == SourceOf(edges, n, ArgBit(1, 0))
        l == get_source_bit(left)
        r == get_source_bit(right)
    IN IF ~IsOneBitAnd(kind[n]) \/ left = NoNode \/ right = NoNode THEN NoNode
       ELSE CASE l = Variable /\ r = ConstantBit(0) -> right
              [] l = Variable /\ r = ConstantBit(1) -> left
              [] l = ConstantBit(0) /\ r = Variable -> left
              [] l = ConstantBit(1) /\ r = Variable -> right
              [] OTHER -> NoNode

\* Mutant: every 1-bit AND is taken, the classifier's None ignored.
Candidates_all_ands == {n \in Nodes : IsOneBitAnd(kind[n])}

Candidates == {n \in Nodes : get_useless_and_replacement(n) # NoNode}

\* Mutant: only the ArgBit(0,0) edge of a candidate is dropped.
DropIncoming_left_only(cands) == {e \in edges : e.dst \notin cands \/ e.ek # ArgBit(0, 0)}

\* graph.retain_edges(|_, e| !edges_to_drop.contains(&e)): every incoming
\* edge of every candidate, collected before any is removed.
DropIncoming(cands) == {e \in edges : e.dst \notin cands}

\* The rewrite loop: kind becomes Buffer, one ArgBit(0,0) edge from the
\* replacement.
Rewire(cands) == {Edge(get_useless_and_replacement(n), n, ArgBit(0, 0)) : n \in cands}

\* RemoveAndWithConstantPass::run
RunPass ==
    /\ runs < MaxRuns
    /\ LET cands == Candidates
       IN /\ kind' = [n \in Nodes |-> IF n \in cands THEN Buffer ELSE kind[n]]
          /\ edges' = DropIncoming(cands) \cup Rewire(cands)
    /\ runs' = runs + 1
    /\ UNCHANGED <<width, orig>>

Init ==
    /\ kind \in KindChoices
    /\ width = [n \in Nodes |-> 1]
    /\ edges \in EdgeChoices(kind, Nodes)
    /\ runs = 0
    /\ orig = [kind |-> kind, edges |-> edges]

Next == RunPass

Spec == Init /\ [][Next]_vars

-----------------------------------------------------------------------------
TypeOK ==
    /\ kind \in [Nodes -> KindMenu \cup {Buffer}]
    /\ width \in [Nodes -> {1}]
    /\ \A e \in edges : e.src \in Nodes /\ e.dst \in Nodes /\ e.src # e.dst
    /\ runs \in 0..MaxRuns

\* The pass leaves the graph satisfying the Data Model invariants (spec
\* 4.2): every role of every node covered exactly once, and no cycle.  This
\* is what the batch edge drop before the rewire loop in run() is for.
GraphInvariantsKept ==
    Covered(kind, edges, InputBits) /\ Acyclic(edges)

\* Semantic preservation (spec 4.2, 8): for every assignment of the input
\* bits, every node computes the same value as in the graph the lowering
\* built, so the four classification arms must each pick the right source.
NodeValuesPreserved ==
    \A env \in [InputBits -> {0, 1}] : \A n \in Nodes :
        Val(kind, width, edges, env, n) = Val(orig.kind, width, orig.edges, env, n)

\* Idempotence (spec 4.2): a run that follows an earlier run changes
\* nothing, i.e. the first run leaves no candidate behind.
SecondRunIsNoop ==
    [][runs >= 1 => kind' = kind /\ edges' = edges]_vars
=============================================================================
