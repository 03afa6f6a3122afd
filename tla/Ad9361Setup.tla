------------------------------ MODULE Ad9361Setup ------------------------------
(***************************************************************************)
(* The setup of the AD9361: from reset, or after a change of the number of *)
(* channels, to a chip that receives and transmits.                        *)
(*                                                                         *)
(* Blocks whose registers only the setup writes are members of             *)
(* s.reg.CONFIGURED once they are written.                                 *)
(***************************************************************************)
EXTENDS Ad9361Synth

MAX_BBPLL_FREF == 70007
MIN_SYNTH_FREF == 9999
MAX_SYNTH_FREF == 80008

\* The registers after a reset: no clock runs and nothing is selected.
NoTable == [table |-> "FDD", range |-> 40, row |-> 0]

PowerOn == [
  STATE |-> "SLEEP_WAIT", ENSM_CONFIG_1 |-> {}, CLOCKS |-> FALSE, VCO_CAL |-> {"rx", "tx"},
  FDD_MODE |-> TRUE, DUAL_SYNTH |-> FALSE, FDD_EXT_CTRL |-> FALSE, SYNTH_PIN_CTRL |-> FALSE,
  TXNRX |-> FALSE,
  RX_BBF |-> 0, TX_BBF |-> 0, RX_TIA |-> 0, TX_SECOND |-> 0, RX_ADC |-> [bbbw |-> 0, adc |-> 0],
  TRACKING |-> {}, LO_OFF |-> [rx |-> FALSE, tx |-> FALSE], QUAD_PHASE |-> 0, TX_HB_FIR |-> 0,
  GAIN_TABLE |-> 0, USE_FULL_GAIN_TABLE |-> FALSE, RX_GAIN_IDX |-> [r \in {1, 2} |-> 0],
  RX_LPF |-> [r \in {1, 2} |-> 0], RX_DIG |-> [r \in {1, 2} |-> 0],
  RX_ENABLE |-> {1, 2}, TX_ENABLE |-> {1, 2}, AGC_MODE |-> [r \in {1, 2} |-> "MGC"],
  HYBRID |-> FALSE, GC |-> <<>>, RSSI |-> <<>>, AUXADC |-> <<>>, EXT_LNA |-> <<>>,
  GM_TABLE |-> FALSE, ADC_OVERLOAD |-> <<>>, LNA_GAIN |-> 0,
  BBPLL |-> 0, BBPLL_ICP |-> 0,
  DIV |-> [c \in {"ADC", "R2", "R1", "CLKRF", "DAC", "T2", "T1", "CLKTF"} |-> 1],
  FIR |-> [rx |-> 0, tx |-> 0], REF_SCALER |-> [c \in RefClks |-> <<1, 1>>],
  TAPS |-> [rx |-> 0, tx |-> 0],
  TX_ATTEN |-> [i \in {1, 2} |-> 0], LOOPBACK |-> FALSE, BIST |-> BistOff,
  DELAY |-> [rx |-> <<0, 0>>, tx |-> <<0, 0>>],
  DSEL |-> "data", IODELAY |-> [rx |-> 0, tx |-> 0], PNSEL |-> "PN9", R1_MODE |-> FALSE,
  SYNTH |-> [side \in Sides |-> [vco |-> 0, div |-> 0]], LUT |-> [side \in Sides |-> NoTable],
  FAST_LOCK |-> [side \in Sides |-> 0], VCO_ALC |-> [side \in Sides |-> 0],
  READY_MASK |-> {}, SYNTH_PD |-> {}, EXT_LO |-> {},
  MCS |-> {}, DCXO |-> <<0, 0>>, AUXDAC |-> [d \in {1, 2} |-> <<"manual", 0>>],
  INPUT_SELECT |-> {}, TX_MON |-> {}, CLKOUT |-> FALSE, CONFIGURED |-> {}]

\* By the pin, or, where there is none, by a register and with an error.  The
\* registers of the cores in the FPGA stay.
reset(s) ==
  [s EXCEPT !.reg = [PowerOn EXCEPT !.DSEL = s.reg.DSEL, !.PNSEL = s.reg.PNSEL,
                                    !.R1_MODE = s.reg.R1_MODE, !.IODELAY = s.reg.IODELAY],
            !.rc = IF s.has_resetb THEN "ok" ELSE "ENODEV"]

Configured(s, block) == [s EXCEPT !.reg.CONFIGURED = @ \cup {block}, !.rc = "ok"]

-----------------------------------------------------------------------------

validate_rf_bw(s, bw) == Clamp(bw, 200, IF s.dev_sel = "AD9363A" THEN 20000 ELSE 56000)

\* A DAC is off at 0 only; what it is set to is in 1023rds of one of two ranges.
auxdac_set(s, dac, mV) ==
  LET v == IF mV < 306 THEN 306 ELSE mV
      word == IF v < 1888 THEN <<"1V", ((v - 306) * 1000) \div 1469>>
              ELSE <<"2.5V", ((v - 1761) * 1000) \div 1512>>
      end == [s EXCEPT !.reg.AUXDAC[dac] = <<word[1], Clamp(word[2], 0, 1023)>>,
                       !.auxdac_value[dac] = v, !.rc = "ok"]
  IN IF dac \in {1, 2} THEN end ELSE Result(s, "EINVAL")

auxdac_get(s, dac) == s.auxdac_value[dac]

auxdac_setup(s) ==
  Configured(auxdac_set(auxdac_set(s, 1, s.auxdac_default[1]), 2, s.auxdac_default[2]), "AUXDAC")
gpo_setup(s) == Configured(s, "GPO")
ctrl_outs_setup(s) == Configured(s, "CTRL_OUTS")
txmon_setup(s) == Configured(s, "TXMON")
set_ref_clk_cycles(s) == Configured(s, "REF_CLK_CYCLES")

clkout_control(s) == [s EXCEPT !.reg.CLKOUT = s.clkout_mode # 0, !.rc = "ok"]

set_dcxo_tune(s) ==
  IF s.use_extclk THEN Result(s, "ENODEV") ELSE [s EXCEPT !.reg.DCXO = s.dcxo, !.rc = "ok"]

txmon_control(s, mask) == [s EXCEPT !.reg.TX_MON = mask, !.rc = "ok"]

\* Inputs 0 to 2 are balanced pairs, 3 to 8 single lines, 9 to 11 the monitors
\* of the transmitters, which leave the selected bits as they were. They are
\* selected all the same when an output is set up, and bit 6 is that of TX B.
TX_OUTPUT == 6

rf_port_setup(s, is_out, rx_inputs, txb) ==
  LET bits == IF rx_inputs < 3 THEN {rx_inputs * 2, rx_inputs * 2 + 1} ELSE {rx_inputs - 3}
      ready == IF is_out THEN s ELSE txmon_control(s, {})
      monitors == ~is_out /\ rx_inputs > 8
  IN CASE rx_inputs > 11 -> Result(s, "EINVAL")
       [] rx_inputs <= 11 /\ monitors -> txmon_control(s, <<{1}, {2}, {1, 2}>>[rx_inputs - 8])
       [] rx_inputs <= 11 /\ ~monitors ->
            [ready EXCEPT !.reg.INPUT_SELECT = (bits \cup (IF txb THEN {TX_OUTPUT} ELSE {}))
                                                 \cap 0 .. 7, !.rc = "ok"]

\* The delays of the interface are those of the last tuning that was kept.
pp_port_setup(s, restore_c3) ==
  IF restore_c3 THEN Configured(s, "PORT")
  ELSE Configured([s EXCEPT !.reg.DELAY = s.port_delay], "PORT")

ref_div_sel(refin, max) ==
  CASE refin <= max \div 2 -> 2 * refin
    [] refin > max \div 2 /\ refin <= max -> refin
    [] refin > max /\ refin <= 2 * max -> refin \div 2
    [] refin > 2 * max /\ refin <= 4 * max -> refin \div 4
    [] refin > 4 * max -> 0

\* All clocks are known to the driver, at the rates the registers say.
register_clocks(s) ==
  [Recalc([s EXCEPT !.lo_dummy = [rx |-> s.rx_synth_freq, tx |-> s.tx_synth_freq]])
     EXCEPT !.registered = TRUE, !.rc = "ok"]
unregister_clocks(s) == [s EXCEPT !.registered = FALSE, !.rc = "ok"]

\* What a change of the number of channels forgets; whether the BBPLL has been
\* set up, what the transmitters were set to, the divider of an LO, are not.
NoEntry == [init |-> FALSE, word |-> [vco |-> 0, div |-> 0], lut |-> NoTable,
            alc |-> 0, alc_orig |-> 0, alc_written |-> 0]
NoFastlock == [current_profile |-> [side \in Sides |-> 0],
               entry |-> [side \in Sides |-> [p \in Profiles |-> NoEntry]]]

clear_state(s) ==
  [s EXCEPT !.current_table = NO_GAIN_TABLE, !.bypass_rx_fir = TRUE, !.bypass_tx_fir = TRUE,
            !.rate_governor = 1, !.tracks = {"bbdc", "rfdc", "quad"},
            !.prev_ensm_state = "SLEEP_WAIT", !.curr_ensm_state = "SLEEP_WAIT",
            !.auto_cal_en = FALSE, !.manual_tx_quad_cal_en = FALSE, !.last_tx_quad_cal_freq = 0,
            !.current_rx_bw = 0, !.current_tx_bw = 0,
            !.tx_fir_int = 0, !.tx_fir_ntaps = 0, !.rx_fir_dec = 0, !.rx_fir_ntaps = 0,
            !.ensm_pin_ctl_en = FALSE, !.current_lo_freq = [rx |-> 0, tx |-> 0],
            !.current_use_tdd_table = [rx |-> FALSE, tx |-> FALSE],
            !.lo_off = [rx |-> FALSE, tx |-> FALSE], !.fastlock = NoFastlock]

-----------------------------------------------------------------------------

SetupBbpll(s, ref) ==
  IF ref = 0 THEN Result(s, "EINVAL")
  ELSE set_trx_clock_chain(no_os_clk_set_rate([s EXCEPT !.reg.CLOCKS = TRUE], "BB_REFCLK", ref),
                           s.rx_path_clks, s.tx_path_clks)

\* Up to the clocks of both paths.
SetupClocks(s) ==
  LET pd == [s EXCEPT !.rf_rx_bandwidth = validate_rf_bw(s, @),
                      !.rf_tx_bandwidth = validate_rf_bw(s, @),
                      !.tdd_skip_vco_cal = @ /\ ~s.fdd,
                      !.ensm_pin_ctrl = @ /\ ~(s.fdd /\ s.fdd_independent_mode)]
  IN SetupBbpll(set_dcxo_tune(gpo_setup(auxdac_setup(pd))), ref_div_sel(s.refin, MAX_BBPLL_FREF))

\* Of the channels, those that are used.
Interfaces(s) ==
  LET used == [s EXCEPT !.rx1tx1_mode_use_tx_num = IF s.rx2tx2 THEN @ ELSE Clamp(@, 1, 2),
                        !.rx1tx1_mode_use_rx_num = IF s.rx2tx2 THEN @ ELSE Clamp(@, 1, 2)]
  IN [used EXCEPT
        !.reg.TX_ENABLE = IF s.rx2tx2 THEN {1, 2} ELSE {used.rx1tx1_mode_use_tx_num},
        !.reg.RX_ENABLE = IF s.rx2tx2 THEN {1, 2} ELSE {used.rx1tx1_mode_use_rx_num}]

Ports(s) == rf_port_setup(s, TRUE, s.rf_rx_input_sel, s.rf_tx_output_sel)

AuxBlocks(s) ==
  [setup_ext_lna(set_ref_clk_cycles(ctrl_outs_setup(auxadc_setup(pp_port_setup(s, FALSE)))))
     EXCEPT !.trx_synth_max_fref = Clamp(@, MIN_SYNTH_FREF, MAX_SYNTH_FREF)]

RefClocks(s, ref) ==
  no_os_clk_set_rate(no_os_clk_set_rate(s, "RX_REFCLK", ref), "TX_REFCLK", ref)

\* The LOs are set from inside first, and then taken from where they are to come
\* from.
FromInside(s) == [s EXCEPT !.use_ext_lo = [side \in Sides |-> FALSE]]
WithTxFreq(s) == [s EXCEPT !.last_tx_quad_cal_freq = s.tx_synth_freq]
FromWhere(s, ext) ==
  clk_mux_set_parent(clk_mux_set_parent([s EXCEPT !.use_ext_lo = ext], "rx", ext.rx), "tx", ext.tx)

SetupLos(s) ==
  IfOk(s, FromWhere(clk_set_lo(WithTxFreq(clk_set_lo(FromInside(s), "rx", s.rx_synth_freq)),
                               "tx", s.tx_synth_freq), s.use_ext_lo))

SetupPumps(s, ref) ==
  LET tx(t) == IfOk(t, txrx_synth_cp_calib(t, "tx")) IN
  IF ref = 0 THEN Result(s, "EINVAL") ELSE tx(txrx_synth_cp_calib(RefClocks(s, ref), "rx"))

WithRef(s) == SetupLos(SetupPumps(s, ref_div_sel(s.refin, s.trx_synth_max_fref)))

\* The ports, and the two synthesizers.
ThenLos(s) == IfOk(s, WithRef(AuxBlocks(s)))

SetupSynths(s) == ThenLos(Ports(Interfaces(s)))

\* The gain control, the filters, and the calibrations.
SetupBaseband(s) ==
  LET gains == gc_setup(load_mixer_gm_subtable(s))
      bbdc(t) == IfOk(t, bb_dc_offset_calib(t))
      rfdc(t) == IfOk(t, rf_dc_offset_calib(t))
      noted(t) == [t EXCEPT !.current_rx_bw = s.rf_rx_bandwidth,
                            !.current_tx_bw = s.rf_tx_bandwidth, !.last_tx_quad_cal_phase = 31]
      quad(t) == IfOk(t, tx_quad_calib(noted(t), s.rf_rx_bandwidth \div 2,
                                       s.rf_tx_bandwidth \div 2, -1))
  IN quad(rfdc(bbdc(SetFilters(gains, s.rf_rx_bandwidth, s.rf_tx_bandwidth))))

\* The rest, and into the state it is to work in; whether it gets there is not
\* looked at.
SetupEnd(s) ==
  LET mode == set_ensm_mode(pp_port_setup(tracking_control(s, s.tracks), TRUE),
                            s.fdd, s.ensm_pin_ctrl)
      used == IF s.rx2tx2 THEN {1, 2} ELSE {s.rx1tx1_mode_use_tx_num}
      quiet == set_tx_atten(set_tx_atten(mode, s.tx_atten, used),
                            MAX_TX_ATTENUATION_DB, {1, 2} \ used)
      last == txmon_setup(clkout_control(rssi_setup(quiet, FALSE)))
      moved(t) == ensm_set_state([t EXCEPT !.curr_ensm_state = t.reg.STATE],
                                 IF s.fdd THEN "FDD" ELSE "RX", s.ensm_pin_ctrl)
  IN IF s.tx_atten > MAX_TX_ATTENUATION_DB THEN Result(mode, "EINVAL")
     ELSE [moved(last) EXCEPT !.auto_cal_en = TRUE, !.cal_threshold_freq = 100, !.rc = "ok"]

ThenSynths(s) == IfOk(s, SetupSynths(s))
ThenBaseband(s) == IfOk(s, SetupBaseband(s))
ThenEnd(s) == IfOk(s, SetupEnd(s))

setup(s) == ThenEnd(ThenBaseband(ThenSynths(SetupClocks(s))))
=============================================================================
