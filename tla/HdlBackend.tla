---------------------------- MODULE HdlBackend ----------------------------
(***************************************************************************)
(* The code generator of flow_graph/hdl.rs.  FlowGraphHDLBuilder::build    *)
(* makes the ports and declarations, then walks the graph with petgraph's  *)
(* Topo and calls component() on each node, then assigns the output and   *)
(* frames the body.  One step per visited node (the whole component()      *)
(* handler); the order is any topological order, of which Topo's is one.   *)
(* The emitted module is kept as data and read back by Exec, a small       *)
(* interpreter of the blocking statements of the generated block.         *)
(***************************************************************************)
EXTENDS FlowGraph

CONSTANTS Inputs,          \* fg.inputs: a sequence of buses, each a sequence of nodes
          OutputChoices,   \* the fg.output sequences the lowering may produce
          KindMenu,        \* kinds the lowering may give the non-input nodes
          AllowMissing,    \* whether the handed-over graph may lack a required edge
          BBLayouts,       \* the fg.black_boxes lists the lowering may produce
          OutPort,         \* the "out" port, as a register name
          Undef            \* the value of a reg never assigned (Verilog x)

VARIABLES kind, width, edges, output, black_boxes, \* the FlowGraph, read-only here
          phase, visited, body, decls, ports, frame,
          instances   \* the black-box instance statements of the module

vars == <<kind, width, edges, output, black_boxes, phase, visited, body, decls,
          ports, frame, instances>>

InputBits == UNION {Range(bus) : bus \in Range(Inputs)}

\* A black box is [mode, inputs: a sequence of bit groups, outputs: a bit
\* group], each group a sequence of nodes, LSB first.
BBInputKinds(bbs) == [n \in UNION {UNION {Range(g) : g \in Range(bbs[k].inputs)} : k \in DOMAIN bbs}
                        |-> BBInput(CHOOSE k \in DOMAIN bbs :
                                      \E g \in Range(bbs[k].inputs) : n \in Range(g))]
BBOutputKinds(bbs) == [n \in UNION {Range(bbs[k].outputs) : k \in DOMAIN bbs}
                         |-> BBOutput(CHOOSE k \in DOMAIN bbs : n \in Range(bbs[k].outputs))]
BBOutputBits == DOMAIN BBOutputKinds(black_boxes)

\* Width of the value a node of kind k produces.
WidthOf(k) ==
    CASE k.tag = "Binary" /\ k.op = "Add" -> k.left_len.len
      [] k.tag = "BitString"             -> Len(k.bits)
      [] k.tag = "Unary"                 -> k.arg_len.len
      [] k.tag \in {"DynamicIndex", "DynamicSplice"} -> k.len
      [] k.tag \in {"BBInput", "BBOutput"} -> 1
      [] OTHER                           -> 1

(***************************************************************************)
(* The graphs the lowering hands over: acyclic, every edge from a 1-bit    *)
(* node (a BitSelect may read any wider node), each required role driven   *)
(* at most once, and driven at all unless AllowMissing.                    *)
(***************************************************************************)
DriverOK(k, m, w) == IF k.tag = "BitSelect" THEN w[m] > k.bit_index ELSE w[m] = 1
IncomingSets(k, w, n) ==
    LET roles == RequiredRoles(k[n], n \in InputBits)
        choice(r) == {m \in Nodes \ {n} : DriverOK(k[n], m, w)}
                       \cup (IF AllowMissing THEN {NoNode} ELSE {})
    IN {{Edge(f[r], n, r) : r \in {x \in roles : f[x] # NoNode}} :
          f \in {g \in [roles -> Nodes \cup {NoNode}] : \A r \in roles : g[r] \in choice(r)}}
RECURSIVE EdgeChoices(_, _, _)
EdgeChoices(k, w, S) ==
    IF S = {} THEN {{}}
    ELSE LET n == CHOOSE x \in S : TRUE
         IN {a \cup b : a \in IncomingSets(k, w, n), b \in EdgeChoices(k, w, S \ {n})}

\* The ports of the black boxes have their kinds; the other nodes any of
\* the menu, input-bus bits being Buffers.
KindChoices(bbs) ==
    LET fixed == BBInputKinds(bbs) @@ BBOutputKinds(bbs)
    IN {free @@ fixed : free \in {k \in [Nodes \ DOMAIN fixed -> KindMenu \cup {Buffer}] :
                                   \A n \in InputBits : k[n] = Buffer}}

(***************************************************************************)
(* The emitted module, as data (hdl::ast).  Operand lists are MSB first,   *)
(* as concatenate() lays them out.                                         *)
(***************************************************************************)
EConst(v)          == [op |-> "const", v |-> v]
EId(n)             == [op |-> "id", n |-> n]
EPort(i, b)        == [op |-> "port", arg |-> i, bit |-> b]
ESelect(c, t, f)   == [op |-> "select", c |-> c, t |-> t, f |-> f]
EIndex(n, b)       == [op |-> "index", n |-> n, bit |-> b]
EConcat(ns)        == [op |-> "concat", parts |-> ns]
\* binary(op, Signed/Unsigned(concat a), Signed/Unsigned(concat b))
EBinary(o, a, sa, b, sb) == [op |-> "binary", bop |-> o, a |-> a, sa |-> sa, b |-> b, sb |-> sb]
\* unary(op, Signed/Unsigned(concat a))
EUnary(o, a, sa)   == [op |-> "unary", uop |-> o, a |-> a, sa |-> sa]
\* t[concat off +: w]
EDynIndex(t, off, w) == [op |-> "dynindex", t |-> t, off |-> off, w |-> w]
\* dynamic_splice: concat a with [concat off +: len] replaced by concat v
ESplice(a, off, v, len) == [op |-> "splice", a |-> a, off |-> off, v |-> v, len |-> len]
\* The temporary "dyn_ndx_<n>" a DynamicIndex node declares (node numbers
\* are positive, so -n names it apart from every node).
Tmp(n) == -n
Assign(lhs, e)      == [st |-> "assign", lhs |-> lhs, e |-> e]
CaseStmt(lhs, d, t) == [st |-> "case", lhs |-> lhs, d |-> d, table |-> t]

\* Names an expression or statement reads.
Reads(s) ==
    LET e == s.e
    IN IF s.st = "case" THEN Range(s.d) \cup {t.src : t \in Range(s.table)}
       ELSE CASE e.op \in {"const", "port"} -> {}
              [] e.op \in {"id", "index"}   -> {e.n}
              [] e.op = "select"            -> {e.c, e.t, e.f}
              [] e.op = "concat"            -> Range(e.parts)
              [] e.op = "binary"            -> Range(e.a) \cup Range(e.b)
              [] e.op = "unary"             -> Range(e.a)
              [] e.op = "dynindex"          -> {e.t} \cup Range(e.off)
              [] e.op = "splice"            -> Range(e.a) \cup Range(e.off) \cup Range(e.v)

\* A handler's result: statements (and declarations) to append, an ICE,
\* or a panic.
OkDecl(stmts, ds) == [res |-> "ok", stmts |-> stmts, cause |-> "none", decls |-> ds]
Ok(stmts)  == OkDecl(stmts, {})
Ice(cause) == [res |-> "ice", stmts |-> <<>>, cause |-> cause, decls |-> {}]
Panic      == [res |-> "panic", stmts |-> <<>>, cause |-> "unwrap", decls |-> {}]

\* arg_fun: the bit of an ArgBit(index, bit) edge, -1 for any other edge.
arg_fun(index, ek) == IF ek.role = "ArgBit" /\ ek.arg = index THEN ek.bit ELSE -1

\* The filters collect_argument is given: arg_fun(i, _), Selector(ndx),
\* DynamicOffset(ndx), Splice(ndx) and a case arm's ArgBit(i, _) as bit 0.
ArgFilter(i) == [f |-> "arg", i |-> i]
SelectorFilter == [f |-> "selector", i |-> 0]
OffsetFilter == [f |-> "offset", i |-> 0]
SpliceFilter == [f |-> "splice", i |-> 0]
ArmFilter(i) == [f |-> "arm", i |-> i]
filter(flt, ek) ==
    CASE flt.f = "arg"      -> arg_fun(flt.i, ek)
      [] flt.f = "selector" -> IF ek.role = "Selector" THEN ek.bit ELSE -1
      [] flt.f = "offset"   -> IF ek.role = "DynamicOffset" THEN ek.bit ELSE -1
      [] flt.f = "splice"   -> IF ek.role = "Splice" THEN ek.bit ELSE -1
      [] flt.f = "arm"      -> IF arg_fun(flt.i, ek) >= 0 THEN 0 ELSE -1

(***************************************************************************)
(* collect_argument: for bit = width-1 down to 0 the source of the first   *)
(* incoming edge whose filter yields that bit; the first bit with none is  *)
(* a MissingArgument ICE.                                                  *)
(***************************************************************************)
\* Mutant: bits gathered LSB first (slot i holds bit i-1).
collect_argument_lsb_first(n, w, flt) ==
    LET inc == {e \in Incoming(edges, n) : filter(flt, e.ek) >= 0}
        src(b) == IF \E e \in inc : filter(flt, e.ek) = b
                  THEN (CHOOSE e \in inc : filter(flt, e.ek) = b).src ELSE NoNode
        lsbFirst == [i \in 1..w |-> src(i - 1)]
        missing == {i \in 1..w : lsbFirst[i] = NoNode}
    IN IF missing = {} THEN [ok |-> TRUE, nodes |-> lsbFirst, bit |-> 0]
       ELSE [ok |-> FALSE, nodes |-> <<>>, bit |-> Min(missing) - 1]

\* Mutant: filter_map over the bits, so a missing bit is dropped silently.
collect_argument_skip_missing(n, w, flt) ==
    LET inc == {e \in Incoming(edges, n) : filter(flt, e.ek) >= 0}
        present == {b \in 0..w - 1 : \E e \in inc : filter(flt, e.ek) = b}
        src(b) == (CHOOSE e \in inc : filter(flt, e.ek) = b).src
        order == SetToSortSeq(present, >)
    IN [ok |-> TRUE, nodes |-> [i \in DOMAIN order |-> src(order[i])], bit |-> 0]

collect_argument(n, w, flt) ==
    LET inc == {e \in Incoming(edges, n) : filter(flt, e.ek) >= 0}
        src(b) == IF \E e \in inc : filter(flt, e.ek) = b
                  THEN (CHOOSE e \in inc : filter(flt, e.ek) = b).src ELSE NoNode
        msbFirst == [i \in 1..w |-> src(w - i)]
        missing == {i \in 1..w : msbFirst[i] = NoNode}
    IN IF missing = {} THEN [ok |-> TRUE, nodes |-> msbFirst, bit |-> 0]
       ELSE [ok |-> FALSE, nodes |-> <<>>, bit |-> w - Min(missing)]

select_assign_statement(n) ==
    LET c == SourceOf(edges, n, Selector(0))
        t == SourceOf(edges, n, TrueEdge)
        f == SourceOf(edges, n, FalseEdge)
    IN CASE c = NoNode -> Ice("SelectControlNodeNotFound")
         [] t = NoNode -> Ice("SelectTrueNodeNotFound")
         [] f = NoNode -> Ice("SelectFalseNodeNotFound")
         [] OTHER      -> Ok(<<Assign(n, ESelect(c, t, f))>>)

buffer_assign_statement(n) ==
    LET buses == {i \in DOMAIN Inputs : n \in Range(Inputs[i])}
        i == Min(buses)
        pos == Min({p \in DOMAIN Inputs[i] : Inputs[i][p] = n})
    IN IF buses # {} THEN Ok(<<Assign(n, EPort(i - 1, pos - 1))>>)
       ELSE IF Incoming(edges, n) = {} THEN Ice("BufferParentNotFound")
       ELSE Ok(<<Assign(n, EId((CHOOSE e \in Incoming(edges, n) : TRUE).src))>>)

binary_assign_statement(n) ==
    LET k == kind[n]
        a == collect_argument(n, k.left_len.len, ArgFilter(0))
        b == collect_argument(n, k.right_len.len, ArgFilter(1))
    IN CASE ~a.ok -> Ice("MissingArgument")
         [] ~b.ok -> Ice("MissingArgument")
         [] OTHER -> Ok(<<Assign(n, EBinary(k.op, a.nodes, k.left_len.signed,
                                               b.nodes, k.right_len.signed))>>)

\* The operand is cast by the signedness of arg_len, then the operator.
unary_assign_statement(n) ==
    LET k == kind[n]
        a == collect_argument(n, k.arg_len.len, ArgFilter(0))
    IN IF ~a.ok THEN Ice("MissingArgument")
       ELSE Ok(<<Assign(n, EUnary(k.op, a.nodes, k.arg_len.signed))>>)

\* The offset is gathered before the argument; the argument goes to a
\* freshly declared dyn_ndx register that the node is sliced from.
dynamic_index_assign_statement(n) ==
    LET k == kind[n]
        off == collect_argument(n, k.offset_len, OffsetFilter)
        a == collect_argument(n, k.arg_len, ArgFilter(0))
    IN CASE ~off.ok -> Ice("MissingArgument")
         [] ~a.ok   -> Ice("MissingArgument")
         [] OTHER   -> OkDecl(<<Assign(Tmp(n), EConcat(a.nodes)),
                                Assign(n, EDynIndex(Tmp(n), off.nodes, width[n]))>>,
                              {[name |-> Tmp(n), class |-> "reg", width |-> k.arg_len]})

\* The copy of the argument is emitted into the builder before the splice
\* and offset bits are gathered, so it stays in the body even when one of
\* them is missing and the build stops.
dynamic_splice(n) ==
    LET k == kind[n]
        a == collect_argument(n, width[n], ArgFilter(0))
        v == collect_argument(n, k.splice_len, SpliceFilter)
        off == collect_argument(n, k.offset_len, OffsetFilter)
        copy == <<Assign(n, EConcat(a.nodes))>>
    IN CASE ~a.ok   -> Ice("MissingArgument")
         [] ~v.ok   -> [Ice("MissingArgument") EXCEPT !.stmts = copy]
         [] ~off.ok -> [Ice("MissingArgument") EXCEPT !.stmts = copy]
         [] OTHER   -> Ok(copy \o <<Assign(n, ESplice(a.nodes, off.nodes, v.nodes, k.splice_len))>>)

\* dff_input_assign_statement: the source of an ArgBit edge into the node.
dff_input_assign_statement(n) ==
    LET drivers == {e \in Incoming(edges, n) : e.ek.role = "ArgBit"}
    IN IF drivers = {} THEN Ice("DFFInputDriverNotFound")
       ELSE Ok(<<Assign(n, EId((CHOOSE e \in drivers : TRUE).src))>>)

\* .edges_directed(index, Incoming).next().unwrap()
bit_select(n) ==
    IF Incoming(edges, n) = {} THEN Panic
    ELSE Ok(<<Assign(n, EIndex((CHOOSE e \in Incoming(edges, n) : TRUE).src,
                               kind[n].bit_index))>>)

case_statement(n) ==
    LET k == kind[n]
        d == collect_argument(n, k.discriminant_width.len,
                              SelectorFilter)
        arm(i) == collect_argument(n, 1, ArmFilter(i - 1))
    IN CASE ~d.ok                              -> Ice("MissingArgument")
         [] \E i \in DOMAIN k.entries : ~arm(i).ok -> Ice("MissingArgument")
         [] \E i \in DOMAIN k.entries : arm(i).nodes = <<>> -> Panic  \* nodes(..)[0]
         [] OTHER -> Ok(<<CaseStmt(n, d.nodes,
                            [i \in DOMAIN k.entries |-> [item |-> k.entries[i],
                                                         src |-> arm(i).nodes[1]]])>>)

\* component(): dispatch on the node's kind (each handler's own kind guard
\* can never fire behind this match and is left out).
component(n) ==
    LET k == kind[n]
    IN CASE k.tag = "Constant"  -> Ok(<<Assign(n, EConst(k.value))>>)
         [] k.tag = "BitString" -> Ok(<<Assign(n, EConst(Val(kind, width, edges, <<>>, n)))>>)
         [] k.tag = "Buffer"    -> buffer_assign_statement(n)
         [] k.tag = "Select"    -> select_assign_statement(n)
         [] k.tag = "Binary"    -> binary_assign_statement(n)
         [] k.tag = "Case"      -> case_statement(n)
         [] k.tag = "BitSelect" -> bit_select(n)
         [] k.tag = "Unary"     -> unary_assign_statement(n)
         [] k.tag = "BBInput"   -> dff_input_assign_statement(n)
         [] k.tag = "BBOutput"  -> Ok(<<>>)
         [] k.tag = "DynamicIndex" -> dynamic_index_assign_statement(n)
         [] k.tag = "DynamicSplice" -> dynamic_splice(n)

-----------------------------------------------------------------------------
(***************************************************************************)
(* build(): ports and declarations, the Topo walk, the output assignment   *)
(* and the framing of the body.                                            *)
(***************************************************************************)
\* generate_reg_declaration: none for a zero-width node; a BBOutput is a
\* wire driven by its instance.
generate_reg_declaration(n) ==
    IF width[n] = 0 THEN {}
    ELSE {[name |-> n, class |-> IF kind[n].tag = "BBOutput" THEN "wire" ELSE "reg",
           width |-> width[n]]}

\* The connections of a black box's instance, port name -> the nodes
\* concatenated MSB first: o from the outputs, then clock_reset and i from
\* the first two input groups (Synchronous) or i from the first.
\* Mutants of Connections: the input groups concatenated in index order,
\* and o concatenated in index order.
Connections_inputs_unreversed(bb) ==
    ("o" :> Reverse(bb.outputs))
      @@ IF bb.mode = "Synchronous"
         THEN ("clock_reset" :> bb.inputs[1]) @@ ("i" :> bb.inputs[2])
         ELSE "i" :> bb.inputs[1]

Connections_o_unreversed(bb) ==
    ("o" :> bb.outputs)
      @@ IF bb.mode = "Synchronous"
         THEN ("clock_reset" :> Reverse(bb.inputs[1])) @@ ("i" :> Reverse(bb.inputs[2]))
         ELSE "i" :> Reverse(bb.inputs[1])

Connections(bb) ==
    ("o" :> Reverse(bb.outputs))
      @@ IF bb.mode = "Synchronous"
         THEN ("clock_reset" :> Reverse(bb.inputs[1])) @@ ("i" :> Reverse(bb.inputs[2]))
         ELSE "i" :> Reverse(bb.inputs[1])

\* Ports: one input per non-empty bus, then "out" of width |output|.
Start ==
    /\ phase = "start"
    /\ ports' = {[name |-> i - 1, dir |-> "input", width |-> Len(Inputs[i])] :
                   i \in {j \in DOMAIN Inputs : Inputs[j] # <<>>}}
                \cup {[name |-> OutPort, dir |-> "output", width |-> Len(output)]}
    /\ decls' = UNION {generate_reg_declaration(n) : n \in Nodes}
    /\ instances' = [k \in DOMAIN black_boxes |-> Connections(black_boxes[k])]
    /\ phase' = "body"
    /\ UNCHANGED <<kind, width, edges, output, black_boxes, visited, body, frame>>

\* Mutant: nodes visited in node_indices() order instead of Topo.
IndexOrderReady(n) == \A m \in Nodes : m < n => m \in visited

\* petgraph Topo yields a node once every node with an edge into it has
\* been yielded.
TopoReady(n) == \A e \in Incoming(edges, n) : e.src \in visited

\* while let Some(ndx) = topo.next(..) { self.component(ndx)? }
VisitNode ==
    /\ phase = "body"
    /\ \E n \in Nodes \ visited :
          /\ TopoReady(n)
          /\ visited' = visited \cup {n}
          /\ LET r == component(n)
             IN /\ body' = body \o r.stmts
                /\ decls' = decls \cup r.decls
                /\ IF r.res = "ok" THEN UNCHANGED phase ELSE phase' = r.res
    /\ UNCHANGED <<kind, width, edges, output, black_boxes, ports, frame, instances>>

\* Is any input-bus node the source of an edge (the inputs_used test)?
inputs_used == \E e \in edges : e.src \in InputBits

\* Mutant: the framed block is never pushed into the module's statements.
Finish_unframed ==
    /\ phase = "body"
    /\ ~\E n \in Nodes \ visited : TopoReady(n)
    /\ body' = Append(body, Assign(OutPort, EConcat(Reverse(output))))
    /\ phase' = "done"
    /\ UNCHANGED <<kind, width, edges, output, black_boxes, visited, decls, ports, frame, instances>>

\* Topo is exhausted: assign "out" from output reversed (MSB first) and
\* choose always @(*) or initial.
Finish ==
    /\ phase = "body"
    /\ ~\E n \in Nodes \ visited : TopoReady(n)
    /\ body' = Append(body, Assign(OutPort, EConcat(Reverse(output))))
    /\ frame' = IF inputs_used THEN "always" ELSE "initial"
    /\ phase' = "done"
    /\ UNCHANGED <<kind, width, edges, output, black_boxes, visited, decls, ports, instances>>

Init ==
    /\ black_boxes \in BBLayouts
    /\ kind \in KindChoices(black_boxes)
    /\ width = [n \in Nodes |-> WidthOf(kind[n])]
    /\ edges \in {es \in EdgeChoices(kind, width, Nodes) : Acyclic(es)}
    /\ output \in {o \in OutputChoices : \A i \in DOMAIN o : width[o[i]] = 1}
    /\ phase = "start"
    /\ visited = {}
    /\ body = <<>>
    /\ decls = {}
    /\ ports = {}
    /\ frame = "none"
    /\ instances = <<>>

Next == Start \/ VisitNode \/ Finish

Spec == Init /\ [][Next]_vars

-----------------------------------------------------------------------------
(***************************************************************************)
(* Exec: one pass of the generated block with blocking assignments, for an *)
(* assignment env of the input-bus bits (env.in) and of the value each     *)
(* black box drives on its o port (env.bb).  The BBOutput wires take their *)
(* bits from o through the instance's connection; a reg never assigned     *)
(* reads x.                                                                *)
(***************************************************************************)
RegWidth(x) == CASE x = OutPort -> Len(output)
                  [] x < 0       -> kind[-x].arg_len
                  [] OTHER       -> width[x]
PortBit(env, i, b) == env.in[Inputs[i + 1][b + 1]]

\* The bit of port o that drives wire x: o is the concatenation, MSB first.
WireValue(env, x) ==
    LET k == CHOOSE k \in DOMAIN instances : x \in Range(instances[k]["o"])
        os == instances[k]["o"]
        j == CHOOSE j \in DOMAIN os : os[j] = x
    IN BitOf(env.bb[k], Len(os) - j)

ConcatValue(R, ns) ==
    IF \E i \in DOMAIN ns : R[ns[i]] = Undef THEN Undef
    ELSE FoldLeft(LAMBDA acc, x : acc * 2 ^ RegWidth(x) + R[x], 0, ns)

ExprValue(R, env, e, w) ==
    CASE e.op = "const"  -> e.v
      [] e.op = "port"   -> PortBit(env, e.arg, e.bit)
      [] e.op = "id"     -> R[e.n]
      [] e.op = "index"  -> IF R[e.n] = Undef THEN Undef ELSE BitOf(R[e.n], e.bit)
      [] e.op = "concat" -> ConcatValue(R, e.parts)
      [] e.op = "select" -> IF R[e.c] = Undef THEN Undef
                            ELSE IF R[e.c] = 1 THEN R[e.t] ELSE R[e.f]
      [] e.op = "unary"  ->
            LET a == ConcatValue(R, e.a)
            IN IF a = Undef THEN Undef
               ELSE ApplyUnary(e.uop, Reinterpret(a, [signed |-> e.sa, len |-> Len(e.a)]), w)
      [] e.op = "dynindex" ->
            LET o == ConcatValue(R, e.off)
            IN IF R[e.t] = Undef \/ o = Undef THEN Undef ELSE Slice(R[e.t], o, e.w)
      [] e.op = "splice" ->
            LET a == ConcatValue(R, e.a)
                o == ConcatValue(R, e.off)
                v == ConcatValue(R, e.v)
            IN IF a = Undef \/ o = Undef \/ v = Undef THEN Undef ELSE SpliceInto(a, o, e.len, v)
      [] e.op = "binary" ->
            LET a == ConcatValue(R, e.a)
                b == ConcatValue(R, e.b)
            IN IF a = Undef \/ b = Undef THEN Undef
               ELSE ApplyBinary(e.bop, Reinterpret(a, [signed |-> e.sa, len |-> Len(e.a)]),
                                Reinterpret(b, [signed |-> e.sb, len |-> Len(e.b)]), w)

\* A case with no matching item leaves the reg as it was.
ExecStmt(R, env, s) ==
    IF s.st = "assign"
    THEN LET v == ExprValue(R, env, s.e, RegWidth(s.lhs))
         IN [R EXCEPT ![s.lhs] = IF v = Undef THEN Undef ELSE Mask(v, RegWidth(s.lhs))]
    ELSE LET d == ConcatValue(R, s.d)
             hit == SelectInSeq(s.table, LAMBDA t : d # Undef /\ Matches(t.item, d))
         IN IF hit = 0 THEN R ELSE [R EXCEPT ![s.lhs] = R[s.table[hit].src]]

Exec(env) == FoldLeft(LAMBDA R, s : ExecStmt(R, env, s),
                      [x \in Nodes \cup {Tmp(m) : m \in Nodes} \cup {OutPort} |->
                         IF x \in BBOutputBits THEN WireValue(env, x) ELSE Undef], body)

\* The graph's reading of env: input-bus bits, and bit j-1 of black box
\* k's output on the node outputs[j] of its group.
NodeEnv(env) ==
    [n \in InputBits \cup BBOutputBits |->
       IF n \in InputBits THEN env.in[n]
       ELSE LET k == CHOOSE k \in DOMAIN black_boxes : n \in Range(black_boxes[k].outputs)
                os == black_boxes[k].outputs
            IN BitOf(env.bb[k], (CHOOSE j \in DOMAIN os : os[j] = n) - 1)]

GraphVal(env, n) == Val(kind, width, edges, NodeEnv(env), n)

\* What the graph says the output is: bit i-1 of it is node output[i].
Expected(env) == OperandValue(LAMBDA b : GraphVal(env, output[b + 1]), Len(output))

Envs == [in : [InputBits -> {0, 1}],
         bb : {f \in [DOMAIN black_boxes -> 0..2 ^ Cardinality(BBOutputBits) - 1] :
                 \A k \in DOMAIN black_boxes : f[k] < 2 ^ Len(black_boxes[k].outputs)}]

TypeOK ==
    /\ phase \in {"start", "body", "done", "ice", "panic"}
    /\ visited \subseteq Nodes
    /\ \A i \in DOMAIN body : body[i].lhs \in Nodes \cup {Tmp(n) : n \in Nodes} \cup {OutPort}
    /\ frame \in {"none", "always", "initial"}
    /\ (frame = "none") <=> (phase # "done")
    /\ DOMAIN instances \subseteq DOMAIN black_boxes

\* Every statement of the body reads only wires (black-box outputs) and regs
\* assigned by an earlier statement: the Topo walk must put a node after
\* all of its drivers, or the blocking assignments of one evaluation read
\* stale values.
DefBeforeUse ==
    \A i \in DOMAIN body :
        Reads(body[i]) \subseteq {body[j].lhs : j \in 1..i - 1}
                                 \cup {d.name : d \in {d \in decls : d.class = "wire"}}

\* The generated block computes what the graph means: for every value of
\* the input ports, "out" equals the graph's output bits, LSB first.  This
\* rests on the MSB-first operand gathering of collect_argument, the
\* reversal of output, signed/unsigned operand casts and the case table.
BodyComputesGraph ==
    phase = "done" => \A env \in Envs : Exec(env)[OutPort] = Expected(env)

\* No silent corruption (spec 7, 8): a build that succeeds was given every
\* required edge of every node; a missing one ends in an ICE.
NoMalformedEmission ==
    phase = "done" =>
        \A n \in Nodes : RequiredRoles(kind[n], n \in InputBits) \subseteq {e.ek : e \in Incoming(edges, n)}

\* Every failure of the backend is an Internal Consistency Error carrying
\* the node's location (spec 4.3a failure semantics); it never panics.
NeverPanics == phase # "panic"

\* If the output depends on the input ports, the body is wrapped in the
\* reactive always @(*) block (spec 4.3 step 6): an initial block would
\* compute out once and never again.
ReactiveWhenInputsMatter ==
    (phase = "done" /\ \E e1, e2 \in Envs : e1.bb = e2.bb /\ Expected(e1) # Expected(e2))
        => frame = "always"

\* Every reg the body assigns is declared (spec 4.3: zero-width nodes are
\* not declared and emit nothing).
AssignedIsDeclared ==
    phase = "done" =>
        \A i \in DOMAIN body : body[i].lhs = OutPort \/ body[i].lhs \in {d.name : d \in decls}

\* The input group a black box's port takes (spec 4.3 step 3): a
\* Synchronous one clock_reset from its first group and i from its second,
\* a Combinational one i from its single group.
SpecGroup(bb, p) ==
    IF bb.mode = "Synchronous" THEN bb.inputs[IF p = "clock_reset" THEN 1 ELSE 2]
    ELSE bb.inputs[1]

\* Every black box is wired as the spec says, in both directions: for every
\* input value and black-box output, the value the emitted module puts on
\* each input port of each instance (after the body has run) is the group
\* the spec assigns that port, read LSB first from the values the graph
\* gives the BBInput nodes; and each BBOutput wire carries, through port o,
\* the bit of the box's output its place in the output group names.  This
\* needs the reversal of o and of each group, the port/group pairing of the
\* two modes, every BBInput assigned from its driver and no BBOutput
\* assigned by the body.
BlackBoxWiring ==
    phase = "done" =>
        \A env \in Envs, k \in DOMAIN instances :
            /\ \A p \in DOMAIN instances[k] \ {"o"} :
                  LET g == SpecGroup(black_boxes[k], p)
                  IN ConcatValue(Exec(env), instances[k][p])
                       = OperandValue(LAMBDA b : GraphVal(env, g[b + 1]), Len(g))
            /\ \A n \in Range(black_boxes[k].outputs) : Exec(env)[n] = NodeEnv(env)[n]
=============================================================================
