------------------------------ MODULE Drivers ------------------------------
(***************************************************************************)
(* The two drivers of the no-OS library that hold state between calls, one *)
(* at a time: the unit that is under test runs, and the variables of the   *)
(* other have the value Unloaded.  The two share no state in the code.     *)
(***************************************************************************)
EXTENDS Integers, Sequences

CONSTANTS Unloaded, Boards, Chips, Sessions, MaxCalls, Caps, MaxLength, Sizes, MaxStarts

\* X_LENGTH reads back as ones from its lowest bit on, so the DMA takes an even number
\* of bytes at once; a caller asks for whole words (main.c: words * RFC_BYTES_PER_WORD).
ASSUME DmaAssumption ==
  /\ MaxLength \in Nat /\ MaxLength % 2 = 1
  /\ \A size \in Sizes : size \in Nat /\ size > 0 /\ size % 2 = 0

\* What there is of a radio before it is set up: the fields of its state, the ALC word
\* of a VCO, the modes, a divider for each LO, the version of the core and the selected
\* input.
ASSUME BoardAssumption ==
  \A b \in Boards :
    /\ {"rc", "reg", "chip", "fastlock", "fdd", "prev_ensm_state", "curr_ensm_state",
        "ensm_pin_ctl_en", "bypass_rx_fir", "bypass_tx_fir", "hdl_dac_version",
        "rf_rx_input_sel", "fdd_independent_mode", "dev_sel", "current_lo_freq",
        "cached_rfpll_div", "current_use_tdd_table"} \subseteq DOMAIN b
    /\ "alc" \in DOMAIN b.chip /\ b.chip.alc \in Nat
    /\ b.fdd \in BOOLEAN /\ b.fdd_independent_mode \in BOOLEAN
    /\ DOMAIN b.cached_rfpll_div = {"rx", "tx"}
    /\ b.hdl_dac_version \in Nat /\ b.rf_rx_input_sel \in Nat

VARIABLES
  unit,
  phy, session, calls, call, calm,
  caps, dmac, pc, ctrl, flags, queued, active, sot, eot, starts, covered, moved, torn, disturbed

Radio == INSTANCE Ad9361
Dma == INSTANCE AxiDmac

\* What an application asks of a radio that is to be in tune: an LO that its receiver has,
\* and delays with which data arrives, or a tuning that there are some for on both sides.
\* Its struct has the fields of the clocks, the gain table and the interface.
ASSUME TuneAssumption ==
  \A b \in Boards :
    /\ {"clks", "lo_clk", "current_table", "use_ext_lo", "port_delay", "split_gt",
        "rx_synth_freq", "dig_interface_tune_skipmode"} \subseteq DOMAIN b
    /\ "eye" \in DOMAIN b.chip
    /\ DOMAIN b.clks = DOMAIN Radio!parents
    /\ DOMAIN b.use_ext_lo = {"rx", "tx"} /\ DOMAIN b.port_delay = {"rx", "tx"}
    /\ Radio!validate_rfpll(b, FALSE, b.rx_synth_freq)
    /\ \/ Radio!InEye(b, b.port_delay)
       \/ /\ b.dig_interface_tune_skipmode = 0
          /\ \A side \in {"rx", "tx"} : b.chip.eye[side] \cap (-15 .. 15) # {}

Units == {"radio", "dma"}

radioVars == <<phy, session, calls, call, calm>>
dmaVars == <<caps, dmac, pc, ctrl, flags, queued, active, sot, eot, starts,
             covered, moved, torn, disturbed>>
vars == <<unit, radioVars, dmaVars>>

Init ==
  /\ unit \in Units
  /\ IF unit = "radio" THEN Radio!Init
       ELSE phy = Unloaded /\ session = Unloaded /\ calls = Unloaded /\ call = Unloaded
            /\ calm = Unloaded
  /\ IF unit = "dma" THEN Dma!Init
       ELSE caps = Unloaded /\ dmac = Unloaded /\ pc = Unloaded /\ ctrl = Unloaded
            /\ flags = Unloaded /\ queued = Unloaded /\ active = Unloaded /\ sot = Unloaded
            /\ eot = Unloaded /\ starts = Unloaded /\ covered = Unloaded /\ moved = Unloaded
            /\ torn = Unloaded /\ disturbed = Unloaded

Calls == unit = "radio" /\ Radio!Next /\ UNCHANGED <<unit, dmaVars>>
Transfers == unit = "dma" /\ Dma!Next /\ UNCHANGED <<unit, radioVars>>

Next == Calls \/ Transfers

Spec == Init /\ [][Next]_vars

-----------------------------------------------------------------------------

\* Each property of a driver, when it is the one that runs (see its module).
SegmentsTile == unit = "dma" => Dma!SegmentsTile
Tuned == unit = "radio" => Radio!Tuned
RatesFit == unit = "radio" => Radio!RatesFit
EnsmReturns == [][unit = "radio" => Radio!Returns]_vars
NoPulling == [][unit = "radio" => Radio!Unpulled]_vars
FastlockFresh == [][unit = "radio" => Radio!Fresher]_vars
=============================================================================
