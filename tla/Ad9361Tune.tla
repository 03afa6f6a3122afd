------------------------------ MODULE Ad9361Tune ------------------------------
(***************************************************************************)
(* The digital interface of the AD9361 and its tuning: test patterns,      *)
(* loopbacks, the attenuation of the transmitters, the search for the      *)
(* delays of clock and data, and the clock chain and FIR filters, which    *)
(* change the timing of the interface and so have it tuned again.          *)
(*                                                                         *)
(* A delay is what the data is late against the clock, in -15 .. 15:       *)
(* s.chip.eye holds those at which the pattern arrives, for each side.     *)
(* Attenuations are in quarters of a dB.                                   *)
(***************************************************************************)
EXTENDS Ad9361Clocks

MAX_TX_ATTENUATION_DB == 359

set_tx_atten(s, atten, txs) ==
  IF atten > MAX_TX_ATTENUATION_DB THEN Result(s, "EINVAL")
  ELSE [s EXCEPT !.reg.TX_ATTEN = [i \in {1, 2} |-> IF i \in txs THEN atten ELSE @[i]],
                 !.rc = "ok"]

get_tx_atten(s, tx_num) == s.reg.TX_ATTEN[IF tx_num = 1 THEN 1 ELSE 2]

\* What was heard before the silence is what comes after it.
tx_mute(s, state) ==
  IF state
    THEN set_tx_atten([s EXCEPT !.tx_atten_cached = [i \in {1, 2} |-> get_tx_atten(s, i)]],
                      MAX_TX_ATTENUATION_DB, {1, 2})
    ELSE set_tx_atten(set_tx_atten(s, s.tx_atten_cached[1], {1}), s.tx_atten_cached[2], {2})

-----------------------------------------------------------------------------

BistOff == [point |-> "off", tone |-> "prbs"]

int_loopback_fix_ch_cross(s, enable) ==
  IF s.rx2tx2 \/ s.rx1tx1_mode_use_rx_num = s.rx1tx1_mode_use_tx_num THEN s
  ELSE [s EXCEPT !.reg.TX_ENABLE = {IF enable THEN s.rx1tx1_mode_use_rx_num
                                              ELSE s.rx1tx1_mode_use_tx_num}]

\* The loopback in the FPGA.  A core of today has a selector, whose old value is
\* kept; told twice to enable, it takes the old value back.
hdl_loopback(s, enable) ==
  LET on == s.reg.DSEL = "loopback" IN
  CASE s.hdl_dac_version <= 7 -> [s EXCEPT !.reg.DSEL = IF enable THEN "loopback" ELSE "data"]
    [] s.hdl_dac_version > 7 /\ enable /\ ~on ->
         [s EXCEPT !.scratch_reg = s.reg.DSEL, !.reg.DSEL = "loopback"]
    [] s.hdl_dac_version > 7 /\ on -> [s EXCEPT !.reg.DSEL = s.scratch_reg]
    [] s.hdl_dac_version > 7 /\ ~enable /\ ~on -> s

\* A mode there is not is remembered all the same.
bist_loopback(s, mode) ==
  LET noted == [s EXCEPT !.bist_loopback_mode = mode]
      ready == int_loopback_fix_ch_cross(hdl_loopback(noted, mode = 2), mode = 1)
  IN IF mode \notin 0 .. 2 THEN Result(noted, "EINVAL")
     ELSE [ready EXCEPT !.reg.LOOPBACK = mode = 1, !.rc = "ok"]

bist_prbs(s, mode) ==
  LET config == [point |-> mode, tone |-> "prbs"] IN
  [s EXCEPT !.bist_prbs_mode = mode, !.bist_config = config, !.reg.BIST = config, !.rc = "ok"]

\* Up to 3 a frequency is the two bits of the register, above it is kHz; one too
\* low for the clock wraps around to the highest.
bist_tone(s, mode, freq) ==
  LET clk == CASE mode = "off" -> 0
               [] mode = "tx" -> clk_get_rate(s, "TX_SAMPL")
               [] mode = "rx" -> clk_get_rate(s, "RX_SAMPL")
      field(rate) == IF freq < 4 THEN freq
                     ELSE IF rate = 0 THEN 0 ELSE (DivRoundClosest(freq * 32, rate) - 1) % 4
      set(config) == [s EXCEPT !.bist_tone_mode = mode, !.bist_tone_freq = freq,
                               !.bist_config = config, !.reg.BIST = config, !.rc = "ok"]
  IN set([point |-> mode, tone |-> field(clk)])

get_bist(s) == <<s.bist_loopback_mode, s.bist_prbs_mode, s.bist_tone_mode, s.bist_tone_freq>>

-----------------------------------------------------------------------------

\* The pattern arrives (TRUE) at a delay inside the eye.
check_pn(s, side, clock, data) == data - clock \in s.chip.eye[side]

set_intf_delay(s, side, clock, data, clock_changed) ==
  LET alert == IF clock_changed THEN ensm_force_state(s, "ALERT") ELSE s
      set == [alert EXCEPT !.reg.DELAY[side] = <<clock, data>>]
  IN IF clock_changed THEN ensm_force_state(set, "FDD") ELSE set

\* Both transmit lanes and receive lanes are left in the middle of their windows.
midscale_iodelay(s, side) == [s EXCEPT !.reg.IODELAY[side] = 15]
dig_tune_iodelay(s, side) ==
  LET field == [j \in 0 .. 31 |-> IF j \in s.chip.lanes[side] THEN 0 ELSE 1]
  IN [s EXCEPT !.reg.IODELAY[side] = Middle(find_opt(field, 32))]

\* Twice 16 delays are tried, of the data and then of the clock, at three rates
\* when the tuning is swept, and the middle of the widest window is taken.  A
\* sweep is made with the FIR filters off, so that a new rate has nothing tuned.
rates == <<25000, 40000, 61440>>

SweepStep(s, t, chain) ==
  IF chain.rc # "ok" \/ ~validate_trx_clock_chain(s, chain.rx, chain.tx) THEN t
  ELSE bb_clk_change_handler(SetRates(t, chain.rx, chain.tx))

SweepRate(s, r) == IF ~s.lvds /\ s.rx2tx2 THEN rates[r] \div 2 ELSE rates[r]

Swept(s) ==
  Loop(LAMBDA t, r : SweepStep(s, t, calculate_rf_clock_chain(t, SweepRate(s, r), s.rate_governor)),
       s, 3)

EndsTried(s, side) == set_intf_delay(set_intf_delay(s, side, 0, 0, TRUE), side, 15, 15, TRUE)

\* The windows of the data (o0) and of the clock (o1).
SetMiddle(s, side, o0, o1) ==
  IF o0.cnt = 0 /\ o1.cnt = 0
    THEN Result([s EXCEPT !.reg.DELAY[side] = <<15, 0>>], "EIO")
  ELSE IF o1.cnt > o0.cnt
    THEN Result(set_intf_delay(s, side, Middle(o1), 0, TRUE), "ok")
    ELSE Result(set_intf_delay(s, side, 0, Middle(o0), TRUE), "ok")

dig_tune_delay(s, swept, side) ==
  LET field(i) == [j \in 0 .. 15 |->
                     IF check_pn(s, side, 15 * i, IF i = 1 THEN 15 - j ELSE j) THEN 0 ELSE 1]
  IN SetMiddle(EndsTried(IF swept THEN Swept(s) ELSE s, side), side,
               find_opt(field(0), 16), find_opt(field(1), 16))

dig_tune_rx(s, swept) == dig_tune_delay(bist_prbs(bist_loopback(s, 0), "rx"), swept, "rx")

\* The registers of the cores are put back, the choice of the pattern excepted.
CoresAs(t, dsel) == [t EXCEPT !.reg.PNSEL = "PN9", !.reg.DSEL = dsel]

dig_tune_tx(s, swept) ==
  CoresAs(dig_tune_delay(bist_loopback(bist_prbs(s, "off"), 1), swept, "tx"),
          bist_loopback(s, 1).reg.DSEL)

ThenTx(s, swept) ==
  IF Ok(s) /\ s.dig_interface_tune_skipmode = 0 THEN dig_tune_tx(s, swept) ELSE s

\* A tuning is made in FDD and in silence; after it the mode, the state and the
\* attenuation are those of before it, in s.
Silenced(s) ==
  LET quiet == tx_mute(s, TRUE) IN IF s.fdd THEN quiet ELSE set_ensm_mode(quiet, TRUE, FALSE)
ModeAs(t, s) == IF s.fdd THEN t ELSE set_ensm_mode(t, s.fdd, s.ensm_pin_ctrl)
Resumed(t, s) == tx_mute(ensm_restore_state(ModeAs(t, s), s.reg.STATE), FALSE)

\* The register of the test pattern is put back, the note of what is in it
\* (bist_config) is not.
TestsAs(t, s) == [bist_loopback(t, s.bist_loopback_mode) EXCEPT !.reg.BIST = s.bist_config]

DefaultDelays(t, s) == [ensm_force_state(t, "ALERT") EXCEPT !.reg.DELAY = s.port_delay]

Kept(t, s, skip_store) ==
  CASE ~Ok(t) -> DefaultDelays(TestsAs(t, s), s)
    [] Ok(t) /\ skip_store -> TestsAs(t, s)
    [] Ok(t) /\ ~skip_store -> [TestsAs(t, s) EXCEPT !.port_delay = t.reg.DELAY]

\* Tuning at one rate never fails.
AfterTuning(t, s, swept, skip_store) ==
  Result(Resumed(Kept(t, s, skip_store), s), IF swept THEN t.rc ELSE "ok")

dig_tune(s, swept, skip_store, restore_default) ==
  IF ~s.has_conv THEN Result(s, "ENODEV")
  ELSE IF s.dig_interface_tune_skipmode = 2 \/ restore_default
    THEN Result(Resumed(DefaultDelays(s, s), s), "ok")
  ELSE AfterTuning(ThenTx(dig_tune_rx(Silenced(s), swept), swept), s, swept, skip_store)

\* Mutant: the receiver is left with the last delay that was tried.
timing_analysis_left(s) ==
  LET swept == set_intf_delay(bist_prbs(bist_loopback(Silenced(s), 0), "rx"), "rx", 15, 0, TRUE)
  IN Resumed(TestsAs(ensm_force_state(swept, "ALERT"), s), s)

\* The widths of the eye at all delays; the receiver's delay is put back.
dig_interface_timing_analysis(s) ==
  LET swept == set_intf_delay(bist_prbs(bist_loopback(Silenced(s), 0), "rx"), "rx", 15, 0, TRUE)
      alert(t) == [ensm_force_state(t, "ALERT") EXCEPT !.reg.DELAY.rx = s.reg.DELAY.rx]
  IN Resumed(TestsAs(alert(swept), s), s)

-----------------------------------------------------------------------------

\* A filter that is on has the interface tuned again; how that went is lost.
Retuned(s) ==
  IF s.dig_interface_tune_fir_disable \/ (s.bypass_tx_fir /\ s.bypass_rx_fir) THEN s
  ELSE dig_tune(s, FALSE, TRUE, FALSE)

set_trx_clock_chain(s, rx, tx) ==
  IF validate_trx_clock_chain(s, rx, tx)
    THEN bb_clk_change_handler(Retuned(SetRates(s, rx, tx)))
    ELSE Result(s, "EINVAL")

SetChain(s, chain) ==
  IF chain.rc = "ok" THEN set_trx_clock_chain(s, chain.rx, chain.tx) ELSE Result(s, chain.rc)

set_trx_clock_chain_freq(s, freq) ==
  SetChain(s, calculate_rf_clock_chain(s, freq, s.rate_governor))

\* The rates for the filters: those of the file, or those of the sample rate.
OrLeast(s, chain) ==
  IF chain.rc = "ok" THEN chain
  ELSE calculate_rf_clock_chain(s, IF s.rate_governor > 0 THEN 1500 ELSE 1000, s.rate_governor)

FirChain(s) ==
  IF s.filt_valid /\ ~s.bypass_rx_fir /\ ~s.bypass_tx_fir
    THEN [rc |-> "ok", rx |-> s.filt_rx_path_clks, tx |-> s.filt_tx_path_clks]
    ELSE OrLeast(s, calculate_rf_clock_chain(s, clk_get_rate(s, "TX_SAMPL"), s.rate_governor))

\* There must be time for all taps between two samples.
FirFits(s, rx, tx) ==
  /\ ~s.bypass_tx_fir => s.tx_fir_ntaps <= (tx[2] \div tx[6]) * 16
  /\ ~s.bypass_rx_fir =>
       s.rx_fir_ntaps <= ((rx[2] \div (IF rx[2] = rx[3] THEN 1 ELSE 2)) \div rx[6]) * 16

FirRefused(s) ==
  \/ ~s.bypass_tx_fir /\ \/ s.tx_fir_int \notin {1, 2, 4}
                         \/ s.tx_fir_int = 1 /\ s.tx_fir_ntaps > 64
  \/ ~s.bypass_rx_fir /\ s.rx_fir_dec \notin {1, 2, 4}

\* Without filters the interface has the delays of the last tuning.
FirDelays(t, s) ==
  IF ~s.dig_interface_tune_fir_disable /\ s.bypass_tx_fir /\ s.bypass_rx_fir
    THEN dig_tune(t, FALSE, FALSE, TRUE) ELSE t

FirWidths(t, s) ==
  LET valid == s.filt_valid /\ ~s.bypass_rx_fir /\ ~s.bypass_tx_fir IN
  IF Ok(t) THEN update_rf_bandwidth(FirDelays(t, s),
                                    IF valid THEN s.filt_rx_bw ELSE s.current_rx_bw,
                                    IF valid THEN s.filt_tx_bw ELSE s.current_tx_bw)
  ELSE t

FirInChain(s, chain) ==
  IF FirRefused(s) \/ chain.rc # "ok" \/ ~FirFits(s, chain.rx, chain.tx) THEN Result(s, "EINVAL")
  ELSE FirWidths(set_trx_clock_chain(s, chain.rx, chain.tx), s)

validate_enable_fir(s) == FirInChain(s, FirChain(s))

\* The swept tuning is the one that a core without an identity asks for.
PostTuning(s) ==
  dig_tune([s EXCEPT !.reg.R1_MODE = ~s.rx2tx2], s.core_id = 0, FALSE, FALSE)
ThroughAlert(s) == Result(ensm_restore_prev_state(ensm_force_state(s, "ALERT")), s.rc)
PostChain(s) ==
  IfOk(s, ThroughAlert(set_trx_clock_chain(s, s.rx_path_clks, s.tx_path_clks)))

post_setup(s) == PostChain(PostTuning(s))
=============================================================================
