--------------------------- MODULE SynchronizerHdl ---------------------------
(***************************************************************************)
(* The Verilog module that synchronizer.rs's Circuit::hdl emits: wires     *)
(* data, clock, reset cut from the input bus, o = reg2, and one            *)
(*   always @(posedge clock) begin                                         *)
(*     if (reset) reg1 <= 0; else reg1 <= data;                            *)
(*     if (reset) reg2 <= 0; else reg2 <= reg1;                            *)
(*   end                                                                   *)
(* Time advances one input sample at a time.  clk is the clock of the      *)
(* previous sample; a register before its first edge holds x, which is     *)
(* modelled as either boolean.  This is the abstract specification the     *)
(* simulation model (Synchronizer) is checked against.                     *)
(***************************************************************************)
VARIABLES clk, rst, din, reg1, reg2

hvars == <<clk, rst, din, reg1, reg2>>

HInit ==
    /\ clk \in BOOLEAN
    /\ rst \in BOOLEAN
    /\ din \in BOOLEAN
    /\ reg1 \in BOOLEAN
    /\ reg2 \in BOOLEAN

(***************************************************************************)
(* One sample (c, r, d) of clock, reset and data.  data, clock and reset   *)
(* are continuous assignments from the one input bus i, so in the time     *)
(* step where the clock rises the posedge block races the updates of data *)
(* and reset: it may read either the value of the sample before or the new *)
(* one.  Both non-blocking assignments read reg1 from before the edge.     *)
(***************************************************************************)
Posedge(c) == c /\ ~clk

HSample(c, r, d) ==
    /\ clk' = c /\ rst' = r /\ din' = d
    /\ IF Posedge(c)
       THEN \E ds \in {din, d}, rs \in {rst, r} :
               /\ reg1' = (IF rs THEN FALSE ELSE ds)
               /\ reg2' = (IF rs THEN FALSE ELSE reg1)
       ELSE UNCHANGED <<reg1, reg2>>

HNext == \E c, r, d \in BOOLEAN : HSample(c, r, d)

HSpec == HInit /\ [][HNext]_hvars
=============================================================================
