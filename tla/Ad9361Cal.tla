------------------------------ MODULE Ad9361Cal ------------------------------
(***************************************************************************)
(* The calibrations of the AD9361 driver, and the two ways they are run:   *)
(* a new bandwidth, and a calibration asked for.  Both stop the tracking   *)
(* calibrations, take the chip to ALERT and should leave everything as     *)
(* they found it.                                                          *)
(*                                                                         *)
(* s.chip is what the chip will do during the call: `hang', the            *)
(* calibrations that never finish; `converges', the phases at which the    *)
(* quadrature calibration converges; `junk', what an uninitialised byte    *)
(* holds.  Rates and widths are in kHz.                                    *)
(***************************************************************************)
EXTENDS Integers, Ad9361Ensm

Phases == 0 .. 31
Clamp(x, lo, hi) == IF x < lo THEN lo ELSE IF x > hi THEN hi ELSE x
DivRoundClosest(x, d) == (x + d \div 2) \div d

\* What comes next, if what was before has succeeded.
IfOk(s, next) == IF Ok(s) THEN next ELSE s

\* The first of the longest runs of zeros in the sequence of the fields
\* 0 .. size - 1: what is longer than all runs that start before it.
Run(field, size, i) ==
  IF i > 0 /\ field[i - 1] = 0 THEN 0
  ELSE Cardinality({j \in i .. size - 1 : \A k \in i .. j : field[k] = 0})

First(is) == CHOOSE i \in is : \A j \in is : i <= j

find_opt(field, size) ==
  LET longest == CHOOSE n \in 0 .. size :
                   /\ \A i \in 0 .. size - 1 : Run(field, size, i) <= n
                   /\ n > 0 => \E i \in 0 .. size - 1 : Run(field, size, i) = n
      starts(n) == {i \in 0 .. size - 1 : Run(field, size, i) = n}
      window(n) == [cnt |-> n, start |-> IF n = 0 THEN 0 ELSE First(starts(n))]
  IN window(longest)

\* The middle of a window.
Middle(opt) == opt.start + opt.cnt \div 2

-----------------------------------------------------------------------------

\* Polling the bit of a calibration until it ends or 20000 polls are over.
run_calibration(s, cal) ==
  Result(s, IF s.reg.CLOCKS /\ cal \notin s.chip.hang THEN "ok" ELSE "ETIMEDOUT")

\* A filter whose tuning did not end is tuned to nothing: 0.
rx_bb_analog_filter_calib(s, bb_bw) ==
  LET ran == run_calibration(s, "RX_BB_TUNE_CAL") IN
  [ran EXCEPT !.reg.RX_BBF = IF Ok(ran) THEN Clamp(bb_bw, 200, 28000) ELSE 0]

tx_bb_analog_filter_calib(s, bb_bw) ==
  LET ran == run_calibration(s, "TX_BB_TUNE_CAL") IN
  [ran EXCEPT !.reg.TX_BBF = IF Ok(ran) THEN Clamp(bb_bw, 625, 20000) ELSE 0]

rx_tia_calib(s, bb_bw) ==
  [s EXCEPT !.reg.RX_TIA = Clamp(bb_bw, 200, 20000), !.rc = "ok"]

tx_bb_second_filter_calib(s, bb_bw) ==
  [s EXCEPT !.reg.TX_SECOND = Clamp(bb_bw, 530, 20000), !.rc = "ok"]

\* The modulator of the ADC is set up for the filter in front of it and for
\* the clock it runs at.
rx_adc_setup(s) ==
  [s EXCEPT !.reg.RX_ADC = [bbbw |-> s.reg.RX_BBF, adc |-> s.clks.ADC], !.rc = "ok"]

\* __ad9361_update_rf_bandwidth
SetFilters(s, rf_rx_bw, rf_tx_bw) ==
  LET txBb(t) == IfOk(t, tx_bb_analog_filter_calib(t, rf_tx_bw \div 2))
      tia(t) == IfOk(t, rx_tia_calib(t, rf_rx_bw \div 2))
      second(t) == IfOk(t, tx_bb_second_filter_calib(t, rf_tx_bw \div 2))
      adc(t) == IfOk(t, rx_adc_setup(t))
  IN adc(second(tia(txBb(rx_bb_analog_filter_calib(s, rf_rx_bw \div 2)))))

\* The charge pumps are calibrated in FDD mode, from ALERT.
txrx_synth_cp_calib(s, dir) ==
  LET fdd == [Configure(s, ToAlert) EXCEPT !.reg.DUAL_SYNTH = TRUE, !.reg.FDD_EXT_CTRL = FALSE,
                                           !.reg.SYNTH_PIN_CTRL = FALSE, !.reg.FDD_MODE = TRUE]
  IN run_calibration(fdd, <<"CP_CAL", dir>>)

bb_dc_offset_calib(s) == run_calibration(s, "BBDC_CAL")

\* It also turns the tracking of the DC offset off.
rf_dc_offset_calib(s) ==
  run_calibration([s EXCEPT !.reg.TRACKING = @ \ {"bbdc", "rfdc"}], "RFDC_CAL")

tracking_control(s, tracks) == [s EXCEPT !.reg.TRACKING = tracks, !.rc = "ok"]

\* The LOs of both sides as cached; "DONTCARE" leaves one as it is.
synth_lo_powerdown(s, rx, tx) ==
  LET off(was, ctrl) == IF ctrl = "DONTCARE" THEN was ELSE ctrl = "OFF"
      pd == [rx |-> off(s.lo_off.rx, rx), tx |-> off(s.lo_off.tx, tx)]
  IN [s EXCEPT !.lo_off = pd, !.reg.LO_OFF = pd, !.rc = "ok"]

-----------------------------------------------------------------------------

\* __ad9361_tx_quad_calib: `val' is what the bits of the status say, and what
\* the byte of the caller held before when the calibration does not end.
QuadCal(s, phase) ==
  LET ran == run_calibration(s, "TX_QUAD_CAL") IN
  [s |-> [ran EXCEPT !.reg.QUAD_PHASE = phase], converged |-> phase \in s.chip.converges]

\* All 32 phases, twice in a row for the wrap-around.
tx_quad_phase_search(s) ==
  LET first == QuadCal(s, 0)
      field == [i \in 0 .. 63 |-> IF i % 32 \in s.chip.converges THEN 0 ELSE 1]
      at(phase) == QuadCal([s EXCEPT !.last_tx_quad_cal_phase = phase], phase).s
  IN IF ~Ok(first.s) THEN first.s ELSE at(Middle(find_opt(field, 64)) % 32)

\* The frequency of the test tone, BW/4, as the transmitter makes it.
TxNcoWord(bw_tx, clktf) == Clamp(DivRoundClosest(bw_tx * 8, clktf) - 1, 0, 3)

\* The words of the two oscillators and the phase to begin with.
NcoChoice(s, bw_tx) ==
  LET clkrf == s.clks.CLKRF
      clktf == s.clks.CLKTF
      w == TxNcoWord(bw_tx, clktf)
  IN CASE clkrf = 2 * clktf ->
            [tx |-> <<1, 1, 1, 3>>[w + 1], rx |-> <<0, 0, 0, 1>>[w + 1],
             phase |-> IF w = 3 THEN 8 ELSE 14]
       [] clkrf = clktf ->
            [tx |-> w, rx |-> w,
             phase |-> <<21, IF s.reg.TX_HB_FIR = 34 THEN 21 ELSE 26, 31, 21>>[w + 1]]
       [] clkrf # clktf /\ clkrf # 2 * clktf -> [tx |-> w, rx |-> w, phase |-> 0]

\* First the phase that was chosen, then the one that worked last, then all.
SecondTry(q) ==
  IF Ok(q.s) /\ q.converged THEN q.s ELSE tx_quad_phase_search(q.s)

FirstTry(q, s, phase) ==
  IF (IF Ok(q.s) THEN q.converged ELSE s.chip.junk)
    THEN [q.s EXCEPT !.last_tx_quad_cal_phase = phase]
  ELSE IF s.last_tx_quad_cal_phase < 31
    THEN SecondTry(QuadCal(q.s, s.last_tx_quad_cal_phase))
  ELSE tx_quad_phase_search(q.s)

Converge(s, phase, search) ==
  IF search THEN tx_quad_phase_search(s) ELSE FirstTry(QuadCal(s, phase), s, phase)

\* From the phase that is given, or from that of the oscillators.
ConvergeFrom(s, rx_phase, nco) ==
  Converge(s, IF rx_phase >= 0 THEN rx_phase ELSE nco.phase, rx_phase = -2)

ToneFreq(s, nco) == (s.clks.CLKTF * (nco.tx + 1)) \div 32

\* Mutant: the filters are left as wide as the calibration needed them.
NarrowedNever(t, s) == t

\* The filters are as wide as the test tone needs for the while.  The result of
\* narrowing them again is not looked at.
Narrowed(t, s) == Result(SetFilters(t, s.current_rx_bw, s.current_tx_bw), t.rc)

QuadWidened(t, s, rx_phase, nco) ==
  IF Ok(t) THEN Narrowed(ConvergeFrom(t, rx_phase, nco), s) ELSE t

QuadWith(s, bw_rx, bw_tx, rx_phase, nco) ==
  LET freq == ToneFreq(s, nco) IN
  IF freq > bw_rx \div 4 \/ freq > bw_tx \div 4
    THEN QuadWidened(SetFilters(s, freq * 8, freq * 8), s, rx_phase, nco)
    ELSE ConvergeFrom(s, rx_phase, nco)

\* The LO must be on.  When it is off and managed it is on for the while.  What
\* comes after the first failure of the filters is skipped, the restored LO
\* excepted.
tx_quad_calib(s, bw_rx, bw_tx, rx_phase) ==
  LET on == [s EXCEPT !.reg.LO_OFF.tx = FALSE, !.rc = "ok"]
      restored(t) == IF s.lo_off.tx THEN [t EXCEPT !.reg.LO_OFF = s.lo_off] ELSE t
  IN IF s.lo_off.tx /\ ~s.lo_powerdown_managed_en THEN Result(s, "EFAULT")
     ELSE restored(QuadWith(on, bw_rx, bw_tx, rx_phase, NcoChoice(s, bw_tx)))

-----------------------------------------------------------------------------

\* The result is that of the tracking control that follows the calibration.
do_calib_run(s, cal, arg) ==
  LET alert == ensm_force_state(tracking_control(s, {}), "ALERT")
      end(t) == ensm_restore_prev_state(tracking_control(t, s.tracks))
  IN end(CASE cal = "TX_QUAD_CAL" ->
                tx_quad_calib(alert, s.current_rx_bw \div 2, s.current_tx_bw \div 2, arg)
           [] cal = "RFDC_CAL" -> rf_dc_offset_calib(alert)
           [] OTHER -> Result(alert, "EINVAL"))

InAlert(s) == ensm_force_state(tracking_control(s, {}), "ALERT")
ThenBack(s) == IfOk(s, ensm_restore_prev_state(tracking_control(s, s.tracks)))
ThenQuad(s, bw_rx, bw_tx) ==
  IF ~Ok(s) \/ s.manual_tx_quad_cal_en THEN s
  ELSE tx_quad_calib(s, bw_rx \div 2, bw_tx \div 2, -1)
WidthsNoted(s, bw_rx, bw_tx) ==
  IfOk(s, [s EXCEPT !.current_rx_bw = bw_rx, !.current_tx_bw = bw_tx])

\* A step that fails is the last: the chip stays in ALERT, without tracking.
update_rf_bandwidth(s, rf_rx_bw, rf_tx_bw) ==
  ThenBack(ThenQuad(WidthsNoted(SetFilters(InAlert(s), rf_rx_bw, rf_tx_bw), rf_rx_bw, rf_tx_bw),
                    rf_rx_bw, rf_tx_bw))
=============================================================================
