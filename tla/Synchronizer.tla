---------------------------- MODULE Synchronizer ----------------------------
(***************************************************************************)
(* Circuit::sim of the two-register synchronizer (cdc/synchronizer.rs),    *)
(* one call per input sample.  The state S holds the clock of the previous *)
(* sample and a next/current pair per register: next follows its source   *)
(* while the clock is low and is copied to current at a rising edge.       *)
(* reset and data are the inputs of the last sample; started records that *)
(* a sample has been simulated.  The trace() calls only record values.     *)
(*                                                                         *)
(* The model is checked to implement SynchronizerHdl, the module hdl()     *)
(* emits for the same circuit, under the refinement mapping below.         *)
(***************************************************************************)
EXTENDS Naturals

VARIABLES wclock,   \* the W-domain clock that data is launched from
          clock, reset, data, started,
          reg1_next, reg1_current, reg2_next, reg2_current,
          settled   \* R rising edges since data last changed or reset was high (history, capped at 2)

vars == <<wclock, clock, reset, data, started,
          reg1_next, reg1_current, reg2_next, reg2_current, settled>>

\* Circuit::init.  Clock::dont_care() is a clock of unknown level; the
\* inputs of "the sample before the first" are arbitrary.
init ==
    /\ wclock \in BOOLEAN
    /\ clock \in BOOLEAN
    /\ reset \in BOOLEAN
    /\ data \in BOOLEAN
    /\ started = FALSE
    /\ reg1_next = FALSE /\ reg1_current = FALSE
    /\ reg2_next = FALSE /\ reg2_current = FALSE
    /\ settled = 0

\* Mutant: the second stage latches reg1_next, i.e. the data bypasses reg1.
sim_skip_stage(c, r, d) ==
    LET n1 == IF ~c THEN d ELSE reg1_next
        n2 == IF ~c THEN reg1_next ELSE reg2_next
        rising == c /\ ~clock
    IN /\ reg1_current' = IF rising THEN n1 ELSE reg1_current
       /\ reg2_current' = IF rising THEN n2 ELSE reg2_current
       /\ reg1_next' = IF r THEN FALSE ELSE n1
       /\ reg2_next' = IF r THEN FALSE ELSE n2
       /\ clock' = c

\* Mutant: the second stage latches its own output instead of reg1.
sim_reg2_self(c, r, d) ==
    LET n1 == IF ~c THEN d ELSE reg1_next
        n2 == IF ~c THEN reg2_current ELSE reg2_next
        rising == c /\ ~clock
    IN /\ reg1_current' = IF rising THEN n1 ELSE reg1_current
       /\ reg2_current' = IF rising THEN n2 ELSE reg2_current
       /\ reg1_next' = IF r THEN FALSE ELSE n1
       /\ reg2_next' = IF r THEN FALSE ELSE n2
       /\ clock' = c

\* sim(): latch while the clock is low, copy at the rising edge, then the
\* reset clears the next values, then remember the clock.
sim(c, r, d) ==
    LET n1 == IF ~c THEN d ELSE reg1_next
        n2 == IF ~c THEN reg1_current ELSE reg2_next
        rising == c /\ ~clock
    IN /\ reg1_current' = IF rising THEN n1 ELSE reg1_current
       /\ reg2_current' = IF rising THEN n2 ELSE reg2_current
       /\ reg1_next' = IF r THEN FALSE ELSE n1
       /\ reg2_next' = IF r THEN FALSE ELSE n2
       /\ clock' = c

(***************************************************************************)
(* The stimulus, as the tests build it (sync_stream): data is a W-domain   *)
(* signal that changes only at a rising edge of the W clock; clock and     *)
(* reset come from the R domain.  The two streams are merged, so a sample  *)
(* may change either or both, and a W edge may fall in the sample of an R *)
(* edge.  The R clock stream starts low, so it first rises after a sample.*)
(***************************************************************************)
Stimulus(wc, c, r, d) ==
    /\ d # data => wc /\ ~wclock
    /\ c /\ ~clock => started

Sample(wc, c, r, d) ==
    /\ Stimulus(wc, c, r, d)
    /\ sim(c, r, d)
    /\ wclock' = wc /\ reset' = r /\ data' = d /\ started' = TRUE
    /\ settled' = CASE r \/ reset \/ d # data \/ ~started -> 0
                    [] c /\ ~clock                         -> IF settled < 2 THEN settled + 1 ELSE 2
                    [] OTHER                                -> settled

Next == \E wc, c, r, d \in BOOLEAN : Sample(wc, c, r, d)

Spec == init /\ [][Next]_vars

-----------------------------------------------------------------------------
\* The registers the HDL declares are the current halves of the sim state.
Hdl == INSTANCE SynchronizerHdl
         WITH clk <- clock, rst <- reset, din <- data,
              reg1 <- reg1_current, reg2 <- reg2_current

\* The simulation and the emitted Verilog describe the same circuit: every
\* sequence of samples sim() goes through, with reg1/reg2 read as the
\* current halves, is a run of the posedge always block of hdl(), for any
\* stimulus, data changing in the sample of an R edge included.  This needs
\* the two-phase latch/copy of sim() to equal Verilog's non-blocking
\* sampling at the edge, and sim()'s clearing of next under reset to equal
\* the synchronous reset.
SimImplementsHdl == Hdl!HSpec

\* The crossing takes two R-domain clocks: once data has held still and
\* reset has been low through two rising edges of the R clock and the
\* samples before them (settled counts such edges), the output
\* (reg2_current, what sim() returns) shows data.
CrossingLatency == settled = 2 => reg2_current = data
=============================================================================
