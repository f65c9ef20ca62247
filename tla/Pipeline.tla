------------------------------- MODULE Pipeline -------------------------------
(***************************************************************************)
(* The graph's way through the core (spec 2): the lowering hands a         *)
(* FlowGraph to the pass pipeline, which runs the constant-AND pass on it  *)
(* in place (RemoveAndWithConstantPass::run, up to MaxRuns times), and the *)
(* graph the pass leaves is then read, unchanged, by generate_hdl          *)
(* (FlowGraphHDLBuilder::build).  The two components share the graph       *)
(* variables kind, width and edges; each keeps its own state besides.      *)
(***************************************************************************)
EXTENDS FlowGraph

CONSTANTS Inputs,         \* fg.inputs, one bus
          OutputChoices,  \* the fg.output sequences the lowering may produce
          KindMenu,       \* kinds the lowering may give the non-input nodes
          MaxRuns,        \* how many times the pipeline runs the pass
          OutPort, Undef

VARIABLES kind, width, edges,          \* the FlowGraph
          runs, orig,                  \* the pass's run count; the lowered graph
          output, black_boxes,         \* the rest of the graph, read by build
          phase, visited, body, decls, ports, frame, instances  \* build()

passVars  == <<runs, orig>>
buildVars == <<output, black_boxes, phase, visited, body, decls, ports, frame, instances>>
vars == <<kind, width, edges, passVars, buildVars>>

\* The graphs of this pipeline are complete and have no black box.
B == INSTANCE HdlBackend WITH AllowMissing <- FALSE, BBLayouts <- {<<>>}
P == INSTANCE RemoveAndWithConstant WITH InputBits <- B!InputBits

Init ==
    /\ P!Init
    /\ output \in {o \in OutputChoices : \A i \in DOMAIN o : width[o[i]] = 1}
    /\ black_boxes = <<>>
    /\ phase = "start"
    /\ visited = {}
    /\ body = <<>>
    /\ decls = {}
    /\ ports = {}
    /\ frame = "none"
    /\ instances = <<>>

\* A pass run happens before the backend starts; the backend then runs to
\* the end on the graph as the last run left it.
RunPass == phase = "start" /\ P!RunPass /\ UNCHANGED buildVars
Build == B!Next /\ UNCHANGED passVars

Next == RunPass \/ Build

Spec == Init /\ [][Next]_vars

-----------------------------------------------------------------------------
TypeOK == P!TypeOK /\ B!TypeOK

GraphInvariantsKept == P!GraphInvariantsKept
NodeValuesPreserved == P!NodeValuesPreserved
SecondRunIsNoop == P!SecondRunIsNoop

\* The output of the lowered graph, for one assignment of the input bits.
OrigOutput(env) ==
    OperandValue(LAMBDA b : Val(orig.kind, width, orig.edges, env.in, output[b + 1]),
                 Len(output))

=============================================================================
