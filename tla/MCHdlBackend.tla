--------------------------- MODULE MCHdlBackend ---------------------------
EXTENDS HdlBackend

\* One 2-bit input bus on nodes 2 and 4; nodes 1 and 3 are free, so that
\* drivers may sit at higher indices than the nodes they drive.
MCNodes == 1..4
MCInputs == <<<<2, 4>>>>
MCOutputs == {<<1>>, <<3, 1>>}
\* Order-sensitive operators on 2-bit operands, a bit select of a 2-bit
\* value, a 2:1 mux, a case on one discriminant bit, a 2-bit negation,
\* a dynamic index of a 2-bit value and a 1-bit splice into one.
MCCodegenMenu == {Constant(1), Select,
                  Binary("Lt", Signed(2), Signed(2)),
                  Binary("Add", Unsigned(2), Unsigned(2)),
                  BitSelect(1),
                  Case(Unsigned(1), <<1, WildCard>>),
                  Unary("Neg", Signed(2)),
                  DynamicIndex(2, 1, 1),
                  DynamicSplice(1, 1, 2)}
\* A bit select whose driver may be missing.
MCBitSelectMenu == {BitSelect(0)}
\* The output wired straight to an input bit; the rest constants.
MCDirectOutputs == {<<2>>, <<4, 2>>}
MCConstantMenu == {Constant(0), Constant(1)}
\* An empty bit-string literal: a zero-width node.
MCZeroWidthMenu == {BitString(<<>>), Constant(1)}
\* No black box: the graphs of the other checks.
MCNoBlackBoxes == {<<>>}
\* One black box, of either mode, with two input bits and two output bits on
\* nodes 2..5, the input bus on node 1 and one free node 6 that may read
\* the box's outputs and feed its inputs; out is <<5, 6>>.
MCBBNodes == 1..6
MCBBInputs == <<<<1>>>>
MCBBOutputs == {<<5, 6>>}
\* What node 6 may be: a mux (its own missing-edge checks) and a two-input
\* gate (collect_argument's), each possibly missing an edge.
MCBBMenu == {Select, Binary("BitAnd", Unsigned(1), Unsigned(1))}
MCBBLayouts ==
    {<<[mode |-> "Synchronous", inputs |-> <<<<2>>, <<3>>>>, outputs |-> <<4, 5>>]>>,
     <<[mode |-> "Combinational", inputs |-> <<<<2, 3>>>>, outputs |-> <<4, 5>>]>>}
=============================================================================
