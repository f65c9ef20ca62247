------------------------------ MODULE MCPipeline ------------------------------
EXTENDS Pipeline

\* One input bit on node 1 and three nodes the lowering chose freely: a
\* constant and two ANDs, one reading the other, fit.  The output is the
\* last node, or the last two.
MCNodes == 1..4
MCInputs == <<<<1>>>>
MCOutputs == {<<4>>, <<3, 4>>}
MCKindMenu == {Constant(0), Constant(1),
               Binary("BitAnd", Unsigned(1), Unsigned(1)),
               Binary("BitOr", Unsigned(1), Unsigned(1)),
               Binary("BitAnd", Signed(1), Signed(1))}
=============================================================================
