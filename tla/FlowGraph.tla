----------------------------- MODULE FlowGraph -----------------------------
(***************************************************************************)
(* The flow-graph data model (spec section 3): nodes carry a kind and a    *)
(* width, edges carry an EdgeKind naming the role and bit position the     *)
(* source bit plays for the consuming node.  A graph is passed around as   *)
(* its three parts: kind (node -> kind record), width (node -> Nat) and    *)
(* edges (a set of [src, dst, ek] records).  The component and edge-kind   *)
(* types live outside src/ and are modelled from the spec.                 *)
(***************************************************************************)
EXTENDS Integers, Sequences, FiniteSets, SequencesExt

CONSTANTS Nodes,    \* node indices of the backing store
          NoNode    \* "no such node": a failed find

\* ComponentKind (spec 3).  A signed width is [signed |-> BOOLEAN, len |-> n].
Unsigned(n) == [signed |-> FALSE, len |-> n]
Signed(n) == [signed |-> TRUE, len |-> n]
Constant(v)       == [tag |-> "Constant", value |-> v]
BitString(bits)   == [tag |-> "BitString", bits |-> bits]
Buffer            == [tag |-> "Buffer"]
Binary(op, l, r)  == [tag |-> "Binary", op |-> op, left_len |-> l, right_len |-> r]
Select            == [tag |-> "Select"]
BitSelect(b)      == [tag |-> "BitSelect", bit_index |-> b]
Case(dw, entries) == [tag |-> "Case", discriminant_width |-> dw, entries |-> entries]
Unary(op, l)      == [tag |-> "Unary", op |-> op, arg_len |-> l]
\* len is the node's declared width (component.width).
DynamicIndex(al, ol, len) == [tag |-> "DynamicIndex", arg_len |-> al, offset_len |-> ol, len |-> len]
BBInput(i)        == [tag |-> "BBInput", index |-> i]
BBOutput(i)       == [tag |-> "BBOutput", index |-> i]
DynamicSplice(sl, ol, len) == [tag |-> "DynamicSplice", splice_len |-> sl, offset_len |-> ol, len |-> len]
WildCard          == -1   \* CaseEntry::WildCard; literals are >= 0

\* EdgeKind (spec 3), all with the same fields so that sets of them compare.
ArgBit(i, b)     == [role |-> "ArgBit", arg |-> i, bit |-> b]
Selector(b)      == [role |-> "Selector", arg |-> 0, bit |-> b]
TrueEdge         == [role |-> "True", arg |-> 0, bit |-> 0]
FalseEdge        == [role |-> "False", arg |-> 0, bit |-> 0]
DynamicOffset(b) == [role |-> "DynamicOffset", arg |-> 0, bit |-> b]
Splice(b)        == [role |-> "Splice", arg |-> 0, bit |-> b]

Edge(s, d, ek) == [src |-> s, dst |-> d, ek |-> ek]

Incoming(edges, n) == {e \in edges : e.dst = n}

\* edges_directed(n, Incoming).find(kind = ek).source(), or NoNode.
SourceOf(edges, n, ek) ==
    IF \E e \in Incoming(edges, n) : e.ek = ek
    THEN (CHOOSE e \in Incoming(edges, n) : e.ek = ek).src
    ELSE NoNode

\* The edge roles a node of kind k needs, each bit position exactly once
\* (Data Model invariant 1).  An input-bus Buffer needs none.
RequiredRoles(k, isInput) ==
    CASE k.tag \in {"Constant", "BitString"} -> {}
      [] k.tag = "Buffer"    -> IF isInput THEN {} ELSE {ArgBit(0, 0)}
      [] k.tag = "Binary"    -> {ArgBit(0, b) : b \in 0..k.left_len.len - 1}
                                  \cup {ArgBit(1, b) : b \in 0..k.right_len.len - 1}
      [] k.tag = "Select"    -> {Selector(0), TrueEdge, FalseEdge}
      [] k.tag = "BitSelect" -> {ArgBit(0, 0)}
      [] k.tag = "Case"      -> {Selector(b) : b \in 0..k.discriminant_width.len - 1}
                                  \cup {ArgBit(e - 1, 0) : e \in DOMAIN k.entries}
      [] k.tag = "Unary"     -> {ArgBit(0, b) : b \in 0..k.arg_len.len - 1}
      [] k.tag = "BBInput"   -> {ArgBit(0, 0)}
      [] k.tag = "BBOutput"  -> {}
      [] k.tag = "DynamicIndex" -> {ArgBit(0, b) : b \in 0..k.arg_len - 1}
                                  \cup {DynamicOffset(b) : b \in 0..k.offset_len - 1}
      [] k.tag = "DynamicSplice" -> {ArgBit(0, b) : b \in 0..k.len - 1}
                                  \cup {Splice(b) : b \in 0..k.splice_len - 1}
                                  \cup {DynamicOffset(b) : b \in 0..k.offset_len - 1}

\* Invariant 1: every required role is present exactly once, nothing else.
Covered(kind, edges, inputNodes) ==
    \A n \in Nodes :
        /\ {e.ek : e \in Incoming(edges, n)} = RequiredRoles(kind[n], n \in inputNodes)
        /\ \A e1, e2 \in Incoming(edges, n) : e1.ek = e2.ek => e1 = e2

\* Invariant 2: the edges form no cycle.
RECURSIVE Reach(_, _)
Reach(edges, S) ==
    LET next == S \cup {e.dst : e \in {e \in edges : e.src \in S}}
    IN IF next = S THEN S ELSE Reach(edges, next)
Acyclic(edges) ==
    \A e \in edges : e.src \notin Reach(edges, {e.dst})

(***************************************************************************)
(* Meaning of a graph: the value of every node for an assignment env of   *)
(* the input-bus bits, bit b of operand i being the source of ArgBit(i,b). *)
(***************************************************************************)
Mask(v, w) == v % (2 ^ w)
\* Two's-complement reading of a w-bit value (AluUnary::Signed).
AsSigned(v, w) == IF w > 0 /\ v >= 2 ^ (w - 1) THEN v - 2 ^ w ELSE v
Reinterpret(v, sw) == IF sw.signed THEN AsSigned(v, sw.len) ELSE v
BitOf(v, b) == (v \div (2 ^ b)) % 2

\* Value of an operand given the function bit -> source value, LSB = bit 0.
OperandValue(bits(_), w) == FoldLeft(LAMBDA acc, b : 2 * acc + bits(b), 0,
                                     [i \in 1..w |-> w - i])

\* AluBinary, restricted to the operators the models use.
ApplyBinary(op, a, b, w) ==
    CASE op = "BitAnd" -> IF a = 1 /\ b = 1 THEN 1 ELSE 0
      [] op = "BitOr"  -> IF a = 1 \/ b = 1 THEN 1 ELSE 0
      [] op = "Add"    -> Mask(a + b, w)
      [] op = "Lt"     -> IF a < b THEN 1 ELSE 0

\* AluUnary, restricted to the operators the models use.
ApplyUnary(op, a, w) ==
    CASE op = "Neg" -> Mask(-a, w)
      [] op = "Not" -> Mask(-a - 1, w)

\* v[o +: len] and v with v[o +: len] replaced by x.
Slice(v, o, len) == Mask(v \div 2 ^ o, len)
SpliceInto(v, o, len, x) == v - Slice(v, o, len) * 2 ^ o + Mask(x, len) * 2 ^ o

Matches(entry, d) == entry = WildCard \/ entry = d

RECURSIVE Val(_, _, _, _, _)
Val(kind, width, edges, env, n) ==
    LET k == kind[n]
        src(ek) == SourceOf(edges, n, ek)
        in(ek) == Val(kind, width, edges, env, src(ek))
        opnd(i, sw) == Reinterpret(OperandValue(LAMBDA b : in(ArgBit(i, b)), sw.len), sw)
        raw(ek(_), w) == OperandValue(LAMBDA b : in(ek(b)), w)
    IN CASE k.tag = "Constant"  -> k.value
         [] k.tag = "BitString" -> OperandValue(LAMBDA b : k.bits[b + 1], Len(k.bits))
         [] k.tag = "Buffer"    -> IF n \in DOMAIN env THEN env[n] ELSE in(ArgBit(0, 0))
         [] k.tag = "Binary"    -> ApplyBinary(k.op, opnd(0, k.left_len), opnd(1, k.right_len), width[n])
         [] k.tag = "Select"    -> IF in(Selector(0)) = 1 THEN in(TrueEdge) ELSE in(FalseEdge)
         [] k.tag = "BitSelect" -> BitOf(in(ArgBit(0, 0)), k.bit_index)
         [] k.tag = "BBInput"   -> in(ArgBit(0, 0))
         [] k.tag = "BBOutput"  -> env[n]   \* a bit of the black box's output
         [] k.tag = "Unary"     -> ApplyUnary(k.op, opnd(0, k.arg_len), width[n])
         [] k.tag = "DynamicIndex" ->
              Slice(raw(LAMBDA b : ArgBit(0, b), k.arg_len), raw(DynamicOffset, k.offset_len), width[n])
         [] k.tag = "DynamicSplice" ->
              SpliceInto(raw(LAMBDA b : ArgBit(0, b), width[n]), raw(DynamicOffset, k.offset_len),
                         k.splice_len, raw(Splice, k.splice_len))
         [] k.tag = "Case"      ->
              LET d == OperandValue(LAMBDA b : in(Selector(b)), k.discriminant_width.len)
                  hit == SelectInSeq(k.entries, LAMBDA en : Matches(en, d))
              IN in(ArgBit(hit - 1, 0))
=============================================================================
