------------------------------- MODULE Ad9361Api -------------------------------
(***************************************************************************)
(* The calls of the AD9361 driver that an application makes, but for those *)
(* that are one operator of the modules below, and the radio as this       *)
(* application sets it up.                                                 *)
(***************************************************************************)
EXTENDS Ad9361Setup

\* Of the two receivers or transmitters, the one a channel is, from 1.
Rx(s, ch) == channel_map(s, FALSE, ch + 1)

set_rx_rf_gain(s, ch, gain_db) ==
  set_rx_gain(s, Rx(s, ch),
              [gain_db |-> gain_db, fgt_lmt_index |-> 0, lpf_gain |-> 0, digital_gain |-> 0])

get_rx_rf_gain(s, ch, locked) == get_rx_gain(s, Rx(s, ch), locked)
get_rx_rssi(s, ch) == read_rssi(s, Rx(s, ch))

\* The mode is noted for the channel and set for its receiver, and that it
\* could not be set is lost.
set_rx_gain_control_mode(s, ch, mode) ==
  Result(set_gain_ctrl_mode([s EXCEPT !.agc_mode[ch + 1] = mode], Rx(s, ch), mode), "ok")

\* A width the filters have already is not set.
RxWidth(s, new) ==
  IF s.current_rx_bw = new THEN Result(s, "ok") ELSE update_rf_bandwidth(s, new, s.current_tx_bw)
TxWidth(s, new) ==
  IF s.current_tx_bw = new THEN Result(s, "ok") ELSE update_rf_bandwidth(s, s.current_rx_bw, new)

set_rx_rf_bandwidth(s, bw) == RxWidth(s, validate_rf_bw(s, bw))
set_tx_rf_bandwidth(s, bw) == TxWidth(s, validate_rf_bw(s, bw))

SameWidths(s) == update_rf_bandwidth(s, s.current_rx_bw, s.current_tx_bw)

\* The chain of both paths; that it is refused is lost.
SampledAt(s, chain) ==
  IF chain.rc # "ok" THEN Result(s, "EINVAL")
  ELSE SameWidths(set_trx_clock_chain(s, chain.rx, chain.tx))

set_rx_sampling_freq(s, rate) == SampledAt(s, calculate_rf_clock_chain(s, rate, s.rate_governor))
set_tx_sampling_freq(s, rate) == set_rx_sampling_freq(s, rate)

ThenWidths(s) == IfOk(s, SameWidths(s))

set_trx_path_clks(s, rx, tx) == ThenWidths(set_trx_clock_chain(s, rx, tx))
get_trx_path_clks(s) == get_trx_clock_chain(s)

set_lo_int_ext(s, side, ext) ==
  IF s.dev_sel = "AD9363A" /\ ext THEN Result(s, "EPERM")
  ELSE clk_mux_set_parent([s EXCEPT !.use_ext_lo[side] = ext], side, ext)

lo_powerdown(s, side, off) ==
  LET to == IF off THEN "OFF" ELSE "ON" IN
  IF side = "rx" THEN synth_lo_powerdown(s, to, "DONTCARE") ELSE synth_lo_powerdown(s, "DONTCARE", to)

set_tx_attenuation(s, ch, atten) ==
  set_tx_atten(s, atten, {i \in {1, 2} : channel_map(s, TRUE, ch) = i - 1})
get_tx_attenuation(s, ch) == get_tx_atten(s, channel_map(s, TRUE, ch + 1))
get_tx_rssi(ch) == IF ch \in 0 .. 1 THEN "ok" ELSE "EINVAL"

set_rx_rf_port_input(s, mode) ==
  rf_port_setup([s EXCEPT !.rf_rx_input_sel = mode], FALSE, mode, s.rf_tx_output_sel)
set_tx_rf_port_output(s, txb) ==
  rf_port_setup([s EXCEPT !.rf_tx_output_sel = txb], TRUE, s.rf_rx_input_sel, txb)

\* One of the three tracking calibrations, on or off.
set_track_en_dis(s, track, enable) ==
  LET tracks == IF enable THEN s.tracks \cup {track} ELSE s.tracks \ {track} IN
  IF (track \in s.tracks) = enable THEN Result(s, "ok")
  ELSE tracking_control([s EXCEPT !.tracks = tracks], tracks)

set_tx_auto_cal_en_dis(s, enable) == [s EXCEPT !.auto_cal_en = enable, !.rc = "ok"]
set_trx_rate_gov(s, gov) == [s EXCEPT !.rate_governor = IF gov = 0 THEN 0 ELSE 1, !.rc = "ok"]

do_dcxo_tune(s, coarse, fine) == set_dcxo_tune([s EXCEPT !.dcxo = <<coarse, fine>>])

-----------------------------------------------------------------------------

set_rx_fir_config(s, dec, ntaps) ==
  load_fir_filter_coef([s EXCEPT !.rx_fir_dec = dec], "rx", ntaps)
set_tx_fir_config(s, int, ntaps) ==
  load_fir_filter_coef([s EXCEPT !.tx_fir_int = int], "tx", ntaps)

\* Reading the taps of a filter back selects one of its two channels.
get_fir_config(s, side) ==
  [ntaps |-> s.reg.TAPS[side], ratio |-> IF side = "rx" THEN s.rx_fir_dec ELSE s.tx_fir_int]

Bypass(s, sides, value) ==
  [s EXCEPT !.bypass_rx_fir = IF "rx" \in sides THEN value ELSE @,
            !.bypass_tx_fir = IF "tx" \in sides THEN value ELSE @]

\* A filter that cannot be used is bypassed again.
OrBypass(s, sides) == IF Ok(s) THEN s ELSE Bypass(s, sides, TRUE)

EnableFir(s, sides, enable) ==
  LET bypassed(side) == IF side = "rx" THEN s.bypass_rx_fir ELSE s.bypass_tx_fir IN
  IF \A side \in sides : bypassed(side) # enable THEN Result(s, "ok")
  ELSE OrBypass(validate_enable_fir(Bypass(s, sides, ~enable)), sides)

set_rx_fir_en_dis(s, enable) == EnableFir(s, {"rx"}, enable)
set_tx_fir_en_dis(s, enable) == EnableFir(s, {"tx"}, enable)
set_trx_fir_en_dis(s, enable) == EnableFir(s, Sides, enable)

ThenFirs(s, valid) == IfOk(s, set_trx_fir_en_dis([s EXCEPT !.filt_valid = valid], TRUE))

\* Both filters with the rates (<<>> for a path without) and widths they are
\* made for.  When both are on already, none of that is put into force.
trx_load_enable_fir(s, rx, tx) ==
  LET given(f, old) == IF f.clks = <<>> THEN old ELSE f.clks
      noted == [s EXCEPT !.filt_rx_bw = rx.bw, !.filt_tx_bw = tx.bw, !.filt_valid = FALSE,
                         !.filt_rx_path_clks = given(rx, @), !.filt_tx_path_clks = given(tx, @)]
      rxTaps(t) == IfOk(t, set_rx_fir_config(t, rx.ratio, rx.ntaps))
  IN ThenFirs(rxTaps(set_tx_fir_config(noted, tx.ratio, tx.ntaps)),
              rx.clks # <<>> /\ tx.clks # <<>>)

-----------------------------------------------------------------------------

\* Reset, forget, and set up again.
SetUpAnew(s, mode) == setup(Recalc(clear_state(reset([s EXCEPT !.rx2tx2 = mode = 2]))))

\* That something failed is lost.
set_no_ch_mode(s, mode) ==
  IF mode \notin {1, 2} THEN Result(s, "EINVAL") ELSE Result(post_setup(SetUpAnew(s, mode)), "ok")

\* The slave takes the delays and, in the end, the state of the master.
do_mcs(master, slave) ==
  LET mode == get_en_state_machine_mode(master)
      alert(s) == set_en_state_machine_mode(s, "ALERT")
      steps(s) == Loop(LAMBDA t, i : mcs(t, i - 1), s, 6)
      back(s) == set_en_state_machine_mode(s, mode)
      follow == [slave EXCEPT !.reg.DELAY = master.reg.DELAY]
  IN IF "AD9363A" \in {master.dev_sel, slave.dev_sel}
       THEN <<Result(master, "EPERM"), slave>>
       ELSE <<Result(back(steps(alert(master))), "ok"), back(steps(alert(follow)))>>

-----------------------------------------------------------------------------

\* What the chip has not is not asked of it: an AD9363A has neither an LO from
\* outside nor a crystal, an AD9364 has one channel.
Wanted(s) ==
  CASE s.dev_sel = "AD9363A" ->
         [s EXCEPT !.use_ext_lo = [side \in Sides |-> FALSE], !.use_extclk = TRUE]
    [] s.dev_sel = "AD9364" ->
         [s EXCEPT !.rx2tx2 = FALSE, !.rx1tx1_mode_use_rx_num = 1, !.rx1tx1_mode_use_tx_num = 1]
    [] OTHER -> s

\* A new phy is cleared but for what the application wants of it.
Fresh(s) ==
  [clear_state(Wanted(s)) EXCEPT !.bist_loopback_mode = 0, !.bist_prbs_mode = "off", !.bist_tone_mode = "off",
                         !.bist_tone_freq = 0, !.bist_config = BistOff]

Allocated == {"phy", "clk_refin", "pdata", "adc_conv", "adc_state", "gpio", "spi"}

Ready(s) == [setup(register_clocks(s)) EXCEPT !.blocks = @ \cup {"clks"}]
ThenAdc(s) == IfOk(s, post_setup([s EXCEPT !.blocks = @ \cup {"rx_adc"}]))
GivenUp(s) ==
  [unregister_clocks(s) EXCEPT !.blocks = s.blocks \cap {"gpio", "spi", "rx_adc"}, !.rc = "ENODEV"]
OrGivenUp(s) == IF Ok(s) THEN s ELSE GivenUp(s)

\* `present': the chip says it is an AD9361.  What fails after the pins and the
\* SPI have been taken leaves those two behind.
init(s, present) ==
  LET claimed == [reset(Fresh(s)) EXCEPT !.blocks = Allocated] IN
  IF present THEN OrGivenUp(ThenAdc(Ready(claimed))) ELSE GivenUp(claimed)

\* The core of the ADC is not the driver's to free here, nor is the one of the DAC.
remove(s) == [unregister_clocks(s) EXCEPT !.blocks = @ \cap {"rx_adc", "tx_dac"}]

\* What this application does with it, in that order: the rate and the gain
\* have to be taken, the widths need not.
RF_SAMPLE_RATE == 2500
RF_BW == 1500
RX_GAIN_DB == 20

BothWidths(s) == set_tx_rf_bandwidth(set_rx_rf_bandwidth(s, RF_BW), RF_BW)
ManualGain(s) ==
  IfOk(s, set_rx_rf_gain(set_rx_gain_control_mode(BothWidths(s), 0, "MGC"), 0, RX_GAIN_DB))

radio_setup(s) ==
  ManualGain(set_rx_sampling_freq(set_tx_fir_en_dis(set_rx_fir_en_dis(s, FALSE), FALSE),
                                  RF_SAMPLE_RATE))
=============================================================================
