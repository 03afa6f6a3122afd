------------------------------ MODULE Ad9361Synth ------------------------------
(***************************************************************************)
(* The two synthesizers (RFPLLs) of the AD9361, the LOs of its sides: the  *)
(* frequency of each, the tables of its VCO, the fast lock profiles, an LO *)
(* from outside, and the synchronization of several chips.                 *)
(*                                                                         *)
(* Frequencies are in MHz.  The words of a synthesizer are the frequency   *)
(* of its VCO and the divider after it; `lut' is the row of the table its  *)
(* VCO is set up from.                                                     *)
(***************************************************************************)
EXTENDS Ad9361Tune

Sides == {"rx", "tx"}
Other(side) == IF side = "rx" THEN "tx" ELSE "rx"
Profiles == 0 .. 7

MAX_CARRIER_FREQ == 6000
MIN_VCO_FREQ == 6000

\* An LO frequency that was refused, -22 as 32 unsigned bits, in MHz.
NoRate == 8589

\* The tables of the VCO have the same rows for FDD and TDD and for the three
\* reference clocks; a row is for its frequency and what is above.
SynthLUT == <<
  12605, 12245, 11906, 11588, 11288, 11007, 10742, 10492, 10258, 10036, 9827, 9631, 9445, 9269,
  9103, 8946, 8797, 8655, 8520, 8392, 8269, 8153, 8041, 7934, 7831, 7733, 7638, 7547, 7459, 7374,
  7291, 7212, 7135, 7061, 6988, 6918, 6850, 6784, 6720, 6658, 6597, 6539, 6482, 6427, 6373, 6321,
  6270, 6222, 6174, 6128, 6083, 6040, 5997>>

rfvco_tableindex(ref) == IF ref < 50000 THEN 40 ELSE IF ref <= 70000 THEN 60 ELSE 80

validate_rfpll(s, is_tx, freq) ==
  IF s.dev_sel = "AD9363A" THEN freq \in 325 .. 3800
  ELSE freq \in (IF is_tx THEN 47 ELSE 70) .. MAX_CARRIER_FREQ

\* In FDD the VCOs of the two sides disturb each other when they are set up
\* from the FDD tables for the same frequency.
rfpll_vco_init(s, side, vco, ref) ==
  LET fdd == s.fdd /\ ~s.fdd_independent_mode /\ s.current_lo_freq.tx # s.current_lo_freq.rx
      row == Cardinality({i \in DOMAIN SynthLUT : SynthLUT[i] > vco}) + 1
  IN [s EXCEPT !.current_use_tdd_table[side] = ~fdd,
               !.reg.LUT[side] = [table |-> IF fdd THEN "FDD" ELSE "TDD",
                                  range |-> rfvco_tableindex(ref), row |-> row]]

\* The words for a frequency: it is doubled until the VCO can make it.
Words(freq) ==
  LET n == CHOOSE k \in 0 .. 8 : freq * Two(k) > MIN_VCO_FREQ /\ \A j \in 0 .. k - 1 :
                                                             freq * Two(j) <= MIN_VCO_FREQ
  IN [vco |-> freq * Two(n), div |-> n - 1]

trx_vco_cal_control(s, side, enable) ==
  [s EXCEPT !.reg.VCO_CAL = IF enable THEN @ \cup {side} ELSE @ \ {side}]

-----------------------------------------------------------------------------

\* Mutant: the driver does not note that fast lock mode has been left.
fastlock_prepare_noted(s, side, profile, prepare) ==
  LET is_prepared == s.fastlock.current_profile[side] # 0
      on == [trx_vco_cal_control(s, side, FALSE) EXCEPT
               !.reg.FAST_LOCK[side] = profile + 1, !.reg.READY_MASK = @ \cup {side}]
      off == [trx_vco_cal_control(s, side, TRUE) EXCEPT
                !.reg.FAST_LOCK[side] = 0, !.reg.READY_MASK = @ \ {side}]
  IN CASE prepare /\ ~is_prepared -> on
       [] ~prepare /\ is_prepared -> off
       [] prepare = is_prepared -> s

\* Into fast lock mode, unless in it already, and out of it.
fastlock_prepare(s, side, profile, prepare) ==
  LET is_prepared == s.fastlock.current_profile[side] # 0
      on == [trx_vco_cal_control(s, side, FALSE) EXCEPT
               !.reg.FAST_LOCK[side] = profile + 1, !.reg.READY_MASK = @ \cup {side}]
      off == [trx_vco_cal_control(s, side, TRUE) EXCEPT
                !.reg.FAST_LOCK[side] = 0, !.reg.READY_MASK = @ \ {side},
                !.fastlock.current_profile[side] = 0]
  IN CASE prepare /\ ~is_prepared -> on
       [] ~prepare /\ is_prepared -> off
       [] prepare = is_prepared -> s

\* A profile is the words, the row of the table, and the ALC word of the VCO: the one
\* in the memory of the chip, as the driver had it first, and as the driver notes it.
fastlock_load(s, side, profile, values) ==
  [s EXCEPT !.fastlock.entry[side][profile] =
      [init |-> TRUE, word |-> values.word, lut |-> values.lut, alc |-> values.alc,
       alc_orig |-> values.alc, alc_written |-> values.alc], !.rc = "ok"]

fastlock_store(s, side, profile) ==
  fastlock_load(s, side, profile,
                [word |-> s.reg.SYNTH[side], lut |-> s.reg.LUT[side], alc |-> s.chip.alc])

\* The profile in use, which brings the VCO the ALC word in its memory.
Selected(s, side, profile) ==
  [s EXCEPT !.fastlock.current_profile[side] = profile + 1,
            !.reg.FAST_LOCK[side] = profile + 1,
            !.reg.VCO_ALC[side] = s.fastlock.entry[side][profile].alc, !.rc = "ok"]

\* A VCO may not lock with the ALC word it has already: the next one is used,
\* or the profile's own if the next one was used before.
fastlock_recall(s, side, profile) ==
  LET entry == s.fastlock.entry[side][profile]
      current == s.fastlock.current_profile[side]
      curr == IF current = 0 THEN s.chip.alc
              ELSE s.fastlock.entry[side][current - 1].alc_written
      other == IF entry.alc_orig = entry.alc_written THEN (entry.alc_written + 1) % 128
               ELSE entry.alc_orig
      written == IF curr # entry.alc_written THEN s
                 ELSE [s EXCEPT !.fastlock.entry[side][profile].alc_written = other,
                                !.fastlock.entry[side][profile].alc = other]
  IN IF ~entry.init THEN Result(s, "EINVAL")
     ELSE Selected(fastlock_prepare(written, side, profile, TRUE), side, profile)

fastlock_readval(s, side, profile) == s.fastlock.entry[side][profile]
fastlock_save(s, side, profile) ==
  LET e == fastlock_readval(s, side, profile)
  IN [word |-> e.word, lut |-> e.lut, alc |-> e.alc]

-----------------------------------------------------------------------------

rfpll_int_round_rate(side, rate) ==
  IF rate \in (IF side = "tx" THEN 47 ELSE 70) .. MAX_CARRIER_FREQ THEN rate ELSE NoRate

rfpll_dummy_recalc_rate(s, side) == s.lo_dummy[side]
rfpll_dummy_set_rate(s, side, rate) == [s EXCEPT !.lo_dummy[side] = rate]

rfpll_round_rate(s, side, rate) ==
  IF s.use_ext_lo[side] THEN rate ELSE rfpll_int_round_rate(side, rate)

\* One synthesizer is set up, its words written, and waited for.
Program(s, side, words, ref) ==
  LET init == rfpll_vco_init(s, side, words.vco, ref)
  IN run_calibration([init EXCEPT !.reg.SYNTH[side] = words], <<"VCO_LOCK", side>>)

\* The tables of the two do not go together: the other one is done again.
OtherToo(s) ==
  /\ s.fdd /\ ~s.fdd_independent_mode
  /\ IF s.current_lo_freq.tx = s.current_lo_freq.rx
       THEN s.current_use_tdd_table.tx # s.current_use_tdd_table.rx
       ELSE s.current_use_tdd_table.tx \/ s.current_use_tdd_table.rx

\* Mutant: the other synthesizer is left as it is.
rfpll_int_set_alone(s, side, rate, parent) ==
  LET out == fastlock_prepare(s, side, 0, FALSE)
      noted == [out EXCEPT !.cached_rfpll_div[side] = Words(rate).div,
                           !.current_lo_freq[side] = rate]
  IN IF validate_rfpll(s, side = "tx", rate) THEN Program(noted, side, Words(rate), parent)
     ELSE Result(out, "EINVAL")

\* The frequency of the other one is checked against the range of this side:
\* out of it, the other one is given the words of this one.
ProgramOther(s, side, rate, parent) ==
  LET otherRate == s.current_lo_freq[Other(side)]
      words == Words(IF validate_rfpll(s, side = "tx", otherRate) THEN otherRate ELSE rate)
  IN IF otherRate = rate THEN Program(s, Other(side), Words(rate), parent)
     ELSE Program(fastlock_prepare(s, Other(side), 0, FALSE), Other(side), words, parent)

ProgramBoth(s, side, rate, parent) ==
  IF OtherToo(s) THEN ProgramOther(s, side, rate, parent) ELSE s

rfpll_int_set_rate(s, side, rate, parent) ==
  LET out == fastlock_prepare(s, side, 0, FALSE)
      noted(t) == [t EXCEPT !.cached_rfpll_div[side] = Words(rate).div,
                            !.current_lo_freq[side] = rate]
      vcoCal(t, on) == IF s.tdd_skip_vco_cal THEN trx_vco_cal_control(t, side, on) ELSE t
  IN IF ~validate_rfpll(s, side = "tx", rate) THEN Result(out, "EINVAL")
     ELSE vcoCal(ProgramBoth(Program(vcoCal(noted(out), TRUE), side, Words(rate), parent),
                             side, rate, parent), FALSE)

RateSet(s, side, rate) ==
  IF s.use_ext_lo[side] THEN rfpll_dummy_set_rate(s, side, rate)
  ELSE rfpll_int_set_rate(s, side, rate, IF side = "rx" THEN s.clks.RX_REFCLK ELSE s.clks.TX_REFCLK)

FarFromLastCal(s, rate) ==
  /\ s.auto_cal_en /\ ~s.use_ext_lo.tx
  /\ Distance(s.last_tx_quad_cal_freq, rate) > s.cal_threshold_freq

\* A new LO takes its gain table with it, or the calibration of the transmitter
\* if it is far from where that was done last.  Nothing that fails is reported.
AfterRate(s, side, rate) ==
  CASE side = "rx" -> load_gt(s, rate)
    [] side = "tx" /\ FarFromLastCal(s, rate) ->
         [do_calib_run(s, "TX_QUAD_CAL", -1) EXCEPT !.last_tx_quad_cal_freq = rate]
    [] side = "tx" /\ ~FarFromLastCal(s, rate) -> s

rfpll_set_rate(s, side, rate) == Result(AfterRate(RateSet(s, side, rate), side, rate), "ok")

\* no_os_clk_set_rate of an LO: not done when the clock is thought to run at
\* that rate already.
clk_set_lo(s, side, rate) ==
  IF s.lo_clk[side] = rate THEN Result(s, "ok")
  ELSE Result(Recalc(rfpll_set_rate(s, side, rfpll_round_rate(s, side, rate))), "ok")

-----------------------------------------------------------------------------

\* An LO from outside: the synthesizer is powered down, except while the
\* synchronization of the RF is enabled, and its divider bypassed.
trx_ext_lo_control(s, side, enable) ==
  LET put(set, on) == IF on THEN set \cup {side} ELSE set \ {side} IN
  [s EXCEPT !.reg.SYNTH_PD = put(@, enable /\ "RF" \notin s.reg.MCS),
            !.reg.READY_MASK = put(@, enable),
            !.reg.SYNTH[side].div = IF enable THEN 7 ELSE s.cached_rfpll_div[side],
            !.reg.EXT_LO = put(@, enable), !.rc = "ok"]

clk_mux_set_parent(s, side, index) ==
  LET set == trx_ext_lo_control(ensm_force_state(s, "ALERT"), side, index)
  IN Result(ensm_restore_prev_state([set EXCEPT !.lo_mux[side] = index]), "ok")

\* The steps of the synchronization; 2 and 4 are pulses on a pin, if there is one.
mcs(s, step) ==
  CASE step = 1 -> [s EXCEPT !.reg.SYNTH_PD = {}, !.reg.MCS = {"BB", "BBPLL", "RF"}, !.rc = "ok"]
    [] step = 3 -> [s EXCEPT !.reg.MCS = {"BB", "DIGITAL_CLK", "RF"}, !.rc = "ok"]
    [] step = 5 -> [s EXCEPT !.reg.MCS = {"RF"}, !.rc = "ok"]
    [] step \notin {1, 3, 5} -> Result(s, "ok")
=============================================================================
