---------------------------- MODULE Radio_proofs ----------------------------
(***************************************************************************)
(* The state machine, the LOs and the fast lock profiles of the radio, for *)
(* boards, chips and sessions of any kind and any number of calls.         *)
(*                                                                         *)
(* A call of the driver goes through many others, each from one phy to the *)
(* next.  Most leave the state machine alone (Still).  Those that take it  *)
(* to ALERT note where it was and whether the pins had it (AtAlert); the   *)
(* tuning of the interface moves it without a note (Aside); and both come  *)
(* back (Back).  The lemmas say so of one operator after the other, from   *)
(* the bottom up, and always of a phy t that was s at first.               *)
(*                                                                         *)
(* Of the synthesizers they say, besides, what Lo shows of a phy: whatever *)
(* is called, the driver knows what each is set up from and with (LoSound) *)
(* and no LO is set but with tables that go together (Follows, Coupled).   *)
(***************************************************************************)
EXTENDS Drivers, Integers, WellFoundedInduction, TLAPS

Fields == {"rc", "reg", "chip", "fastlock", "fdd", "prev_ensm_state", "curr_ensm_state",
           "ensm_pin_ctl_en", "bypass_rx_fir", "bypass_tx_fir", "hdl_dac_version",
           "rf_rx_input_sel", "fdd_independent_mode", "dev_sel", "current_lo_freq",
           "cached_rfpll_div", "current_use_tdd_table"}
Registers == {"STATE", "ENSM_CONFIG_1", "CLOCKS", "FDD_MODE", "LUT", "SYNTH", "EXT_LO",
              "FAST_LOCK", "VCO_ALC"}

\* Each side has its profiles.  The ALC word that the driver has noted of one is the word
\* in the memory of the chip, and the profile that it takes for the one in use is the one
\* that the chip has been told to use (lock), with a word for the VCO (word).
Profiled(f) ==
  /\ {"entry", "current_profile"} \subseteq DOMAIN f
  /\ DOMAIN f.entry = Radio!Sides
  /\ \A side \in Radio!Sides :
       /\ DOMAIN f.entry[side] = Radio!Profiles
       /\ \A p \in Radio!Profiles :
            /\ {"alc", "alc_orig", "alc_written"} \subseteq DOMAIN f.entry[side][p]
            /\ f.entry[side][p].alc_orig \in Nat /\ f.entry[side][p].alc_written \in Nat
            /\ f.entry[side][p].alc = f.entry[side][p].alc_written

Used(current, lock, word) ==
  /\ DOMAIN current = Radio!Sides /\ DOMAIN lock = Radio!Sides /\ DOMAIN word = Radio!Sides
  /\ \A side \in Radio!Sides :
       /\ lock[side] = current[side]
       /\ lock[side] = 0 \/ lock[side] - 1 \in Radio!Profiles

Locks(f, lock, word) == Profiled(f) /\ Used(f.current_profile, lock, word)

\* What a phy is in every state of every call.  Without clocks the chip waits.
Whole(s) ==
  /\ Fields \subseteq DOMAIN s
  /\ Registers \subseteq DOMAIN s.reg
  /\ "alc" \in DOMAIN s.chip /\ s.chip.alc \in Nat
  /\ Locks(s.fastlock, s.reg.FAST_LOCK, s.reg.VCO_ALC)
  /\ s.hdl_dac_version \in Nat /\ s.rf_rx_input_sel \in Nat
  /\ s.fdd \in BOOLEAN /\ s.ensm_pin_ctl_en \in BOOLEAN
  /\ s.reg.CLOCKS \in BOOLEAN /\ s.reg.FDD_MODE \in BOOLEAN
  /\ ~s.reg.CLOCKS => s.reg.STATE = "SLEEP_WAIT"

\* Between calls the state is one of the mode the radio is in.
Settled(s) ==
  /\ s.reg.FDD_MODE = s.fdd
  /\ s.reg.CLOCKS => s.reg.STATE \in {"ALERT"} \cup (IF s.fdd THEN {"FDD"} ELSE {"TX", "RX"})

Pins(s) == "PIN_CTRL" \in s.reg.ENSM_CONFIG_1

\* The pins have the state machine, or are given it by the next restore in ALERT.
Given(s) == Pins(s) \/ (s.reg.STATE = "ALERT" /\ s.ensm_pin_ctl_en)

\* What the synthesizers are set up from and with, and the modes this depends on.
Lo(s) ==
  [fdd |-> s.fdd, fdd_independent_mode |-> s.fdd_independent_mode, dev_sel |-> s.dev_sel,
   current_lo_freq |-> s.current_lo_freq, cached_rfpll_div |-> s.cached_rfpll_div,
   current_use_tdd_table |-> s.current_use_tdd_table,
   LUT |-> s.reg.LUT, SYNTH |-> s.reg.SYNTH, EXT_LO |-> s.reg.EXT_LO]

Parts == {"fdd", "fdd_independent_mode", "dev_sel", "current_lo_freq", "cached_rfpll_div",
          "current_use_tdd_table", "LUT", "SYNTH", "EXT_LO"}

Table(tdd) == IF tdd THEN "TDD" ELSE "FDD"

\* The receiver could have that LO.
Receivable(v, freq) == Radio!validate_rfpll(v, FALSE, freq)

\* The driver knows which tables are in use, and of an LO that has been set the divider;
\* its synthesizer has the words of it, but for the divider when it is bypassed.
LoSound(v) ==
  /\ Parts \subseteq DOMAIN v
  /\ v.fdd \in BOOLEAN /\ v.fdd_independent_mode \in BOOLEAN
  /\ DOMAIN v.current_lo_freq = Radio!Sides /\ DOMAIN v.cached_rfpll_div = Radio!Sides
  /\ DOMAIN v.current_use_tdd_table = Radio!Sides
  /\ DOMAIN v.LUT = Radio!Sides /\ DOMAIN v.SYNTH = Radio!Sides
  /\ \A side \in Radio!Sides :
       /\ v.current_use_tdd_table[side] \in BOOLEAN
       /\ v.LUT[side].table = Table(v.current_use_tdd_table[side])
       /\ v.SYNTH[side] = [vco |-> v.SYNTH[side].vco, div |-> v.SYNTH[side].div]
       /\ Receivable(v, v.current_lo_freq[side]) =>
            /\ v.cached_rfpll_div[side] = Radio!Words(v.current_lo_freq[side]).div
            /\ v.SYNTH[side].vco = Radio!Words(v.current_lo_freq[side]).vco
            /\ side \notin v.EXT_LO =>
                 v.SYNTH[side].div = Radio!Words(v.current_lo_freq[side]).div

\* The tables go together.
Coupled(v) ==
  LET freq == v.current_lo_freq IN
  v.fdd /\ ~v.fdd_independent_mode /\ (freq.rx # 0 \/ freq.tx # 0) =>
    \A side \in Radio!Sides : v.LUT[side].table = Table(freq.rx = freq.tx)

SameModes(v, w) ==
  w.fdd = v.fdd /\ w.fdd_independent_mode = v.fdd_independent_mode /\ w.dev_sel = v.dev_sel

\* From v to w no LO is set, or the tables go together in the end.
Follows(v, w) ==
  LoSound(v) =>
    /\ LoSound(w) /\ SameModes(v, w)
    /\ \/ /\ w.current_lo_freq = v.current_lo_freq /\ w.LUT = v.LUT
          /\ \A side \in Radio!Sides : w.SYNTH[side].vco = v.SYNTH[side].vco
       \/ Coupled(w)

\* The same between calls, whatever becomes of the modes.
Leads(v, w) ==
  LoSound(v) =>
    /\ LoSound(w)
    /\ \/ /\ w.current_lo_freq = v.current_lo_freq /\ w.LUT = v.LUT
          /\ \A side \in Radio!Sides : w.SYNTH[side].vco = v.SYNTH[side].vco
       \/ Coupled(w)

\* One after the other, calls do as one.
LEMMA FollowsWays ==
  /\ \A v : Follows(v, v)
  /\ \A v, w, x : Follows(v, w) /\ Follows(w, x) => Follows(v, x)
<1> USE DEF Follows, SameModes
<1>1. \A v : Follows(v, v)
  OBVIOUS
<1>2. ASSUME NEW v, NEW w, NEW x, Follows(v, w), Follows(w, x)
      PROVE  Follows(v, x)
  <2> SUFFICES ASSUME LoSound(v) PROVE Follows(v, x)
    OBVIOUS
  <2>1. LoSound(w) /\ LoSound(x)
    BY <1>2
  <2>2. CASE Coupled(x)
    BY <1>2, <2>1, <2>2
  <2>3. CASE ~Coupled(x)
    <3>1. x.current_lo_freq = w.current_lo_freq /\ x.LUT = w.LUT
      BY <1>2, <2>1, <2>3
    <3>2. ~Coupled(w)
      BY <1>2, <2>1, <2>3, <3>1 DEF Coupled
    <3> QED BY <1>2, <2>1, <2>3, <3>1, <3>2
  <2> QED BY <2>2, <2>3
<1> QED BY <1>1, <1>2

\* Tables that go together stay so until the modes change.
LEMMA LeadsWays ==
  /\ \A v, w : Follows(v, w) => Leads(v, w)
  /\ \A v, w : LoSound(v) /\ Coupled(v) /\ Follows(v, w) => LoSound(w) /\ Coupled(w)
  /\ \A v, w : LoSound(w) /\ Coupled(w) => Leads(v, w)
  /\ \A v, w, x : Leads(v, w) /\ Follows(w, x) => Leads(v, x)
<1>1. \A v, w : LoSound(v) /\ Coupled(v) /\ Follows(v, w) => LoSound(w) /\ Coupled(w)
  BY DEF Follows, SameModes, Coupled
<1>2. ASSUME NEW v, NEW w, NEW x, Leads(v, w), Follows(w, x) PROVE Leads(v, x)
  <2> SUFFICES ASSUME LoSound(v), ~Coupled(x) PROVE Leads(v, x)
    BY <1>2 DEF Leads, Follows
  <2>1. LoSound(w) /\ ~Coupled(w)
    BY <1>1, <1>2 DEF Leads
  <2> HIDE DEF Coupled, LoSound
  <2> QED BY <1>2, <2>1 DEF Leads, Follows
<1> QED BY <1>1, <1>2 DEF Follows, Leads

Undamaged(s, t) ==
  /\ Whole(t)
  /\ t.fdd = s.fdd /\ t.reg.CLOCKS = s.reg.CLOCKS
  /\ t.bypass_rx_fir = s.bypass_rx_fir /\ t.bypass_tx_fir = s.bypass_tx_fir

Intact(s, t) == Undamaged(s, t) /\ Follows(Lo(s), Lo(t))

Steady(s, t) ==
  /\ t.reg.STATE = s.reg.STATE /\ t.reg.ENSM_CONFIG_1 = s.reg.ENSM_CONFIG_1
  /\ t.reg.FDD_MODE = s.reg.FDD_MODE
  /\ t.prev_ensm_state = s.prev_ensm_state /\ t.ensm_pin_ctl_en = s.ensm_pin_ctl_en
  /\ t.curr_ensm_state = s.curr_ensm_state

Still(s, t) == Intact(s, t) /\ Steady(s, t)

\* The same, but for what an LO is set up from and with.
Standing(s, t) == Undamaged(s, t) /\ Steady(s, t)

LEMMA StillFacts ==
  /\ \A s : Whole(s) => Still(s, s)
  /\ \A s, t : Still(s, t) => Whole(t) /\ Still(t, t)
  /\ \A s, t, u : Still(s, t) /\ Still(t, u) => Still(s, u)
  BY FollowsWays DEF Still, Steady, Intact, Undamaged

LEMMA ResultStill ==
  ASSUME NEW s, NEW t, Still(s, t), NEW u, Still(s, u), NEW rc
  PROVE  Still(s, Radio!Result(t, rc)) /\ Still(s, Radio!IfOk(t, u))
  BY DEF Still, Steady, Intact, Undamaged, Whole, Fields, Registers, Lo, Radio!Result, Radio!IfOk

-----------------------------------------------------------------------------
(* Calibrations and gain *)

USE DEF Still, Steady, Intact, Undamaged, Whole, Fields, Registers, Lo, Radio!Result

LEMMA CalStill ==
  ASSUME NEW s, NEW t, Still(s, t), NEW x
  PROVE  /\ Still(s, Radio!run_calibration(t, x))
         /\ Still(s, Radio!rx_bb_analog_filter_calib(t, x))
         /\ Still(s, Radio!tx_bb_analog_filter_calib(t, x))
         /\ Still(s, Radio!rx_tia_calib(t, x))
         /\ Still(s, Radio!tx_bb_second_filter_calib(t, x))
         /\ Still(s, Radio!rx_adc_setup(t))
         /\ Still(s, Radio!bb_dc_offset_calib(t))
         /\ Still(s, Radio!rf_dc_offset_calib(t))
         /\ Still(s, Radio!tracking_control(t, x))
  BY DEF Radio!run_calibration, Radio!rx_bb_analog_filter_calib, Radio!tx_bb_analog_filter_calib,
         Radio!rx_tia_calib, Radio!tx_bb_second_filter_calib, Radio!rx_adc_setup,
         Radio!bb_dc_offset_calib, Radio!rf_dc_offset_calib, Radio!tracking_control

LEMMA PowerdownStill ==
  ASSUME NEW s, NEW t, Still(s, t), NEW rx, NEW tx
  PROVE  Still(s, Radio!synth_lo_powerdown(t, rx, tx))
  BY DEF Radio!synth_lo_powerdown

LEMMA QuadCalStill ==
  ASSUME NEW s, NEW t, Still(s, t), NEW x
  PROVE  /\ Still(s, Radio!QuadCal(t, x).s)
         /\ Still(s, [t EXCEPT !.last_tx_quad_cal_phase = x])
  BY DEF Radio!QuadCal, Radio!run_calibration

LEMMA WidthsStill ==
  ASSUME NEW s, NEW t, Still(s, t), NEW x, NEW y
  PROVE  Still(s, Radio!WidthsNoted(t, x, y))
  BY DEF Radio!WidthsNoted, Radio!IfOk

LEMMA GainStill ==
  ASSUME NEW s, NEW t, Still(s, t), NEW x, NEW y
  PROVE  /\ Still(s, Radio!LoadTable(t, x, y))
         /\ Still(s, Radio!setup_ext_lna(t))
         /\ Still(s, Radio!load_mixer_gm_subtable(t))
         /\ Still(s, Radio!en_dis_rx(t, x, y))
         /\ Still(s, Radio!set_tx_atten(t, x, y))
<1>1. Still(s, Radio!LoadTable(t, x, y))
  BY DEF Radio!LoadTable
<1>2. Still(s, Radio!setup_ext_lna(t))
  BY DEF Radio!setup_ext_lna
<1>3. Still(s, Radio!load_mixer_gm_subtable(t)) /\ Still(s, Radio!en_dis_rx(t, x, y))
  BY DEF Radio!load_mixer_gm_subtable, Radio!en_dis_rx
<1>4. Still(s, Radio!set_tx_atten(t, x, y))
  BY DEF Radio!set_tx_atten
<1> QED BY <1>1, <1>2, <1>3, <1>4

LEMMA TimingStill ==
  ASSUME NEW s, NEW t, Still(s, t), NEW x
  PROVE  /\ Still(s, Radio!gc_update(t))
         /\ Still(s, Radio!rssi_setup(t, x))
         /\ Still(s, Radio!auxadc_setup(t))
  BY DEF Radio!gc_update, Radio!rssi_setup, Radio!auxadc_setup

LEMMA GcSetupStill ==
  ASSUME NEW s, NEW t, Still(s, t)
  PROVE  Still(s, Radio!gc_setup(t))
<1> DEFINE c == t.ctrl
           modes == [t EXCEPT !.agc_mode = c.modes, !.reg.AGC_MODE = c.modes,
                              !.reg.HYBRID = "HYBRID" \in {c.modes[1], c.modes[2]},
                              !.reg.RX_DIG = [r \in {1, 2} |-> 0],
                              !.reg.RX_LPF = IF t.split_gt THEN [r \in {1, 2} |-> 24] ELSE @,
                              !.reg.ADC_OVERLOAD = [small |-> c.adc_small, large |-> c.adc_large]]
           other == [modes EXCEPT !.reg.ADC_OVERLOAD = [small |-> c.adc_large,
                                                        large |-> c.adc_small]]
<1>1. Still(s, modes)
  BY ZenonT(40)
<1>2. Still(s, other)
  <2> HIDE DEF modes
  <2> QED BY <1>1
<1> DEFINE ordered == IF c.adc_large >= c.adc_small THEN modes ELSE other
<1>3. Still(s, ordered)
  <2> HIDE DEF modes, other, Still, Steady
  <2> QED BY <1>1, <1>2
<1>4. Radio!gc_setup(t) = Radio!gc_update(ordered)
  BY DEF Radio!gc_setup
<1> HIDE DEF ordered, Still, Steady
<1> QED BY <1>3, <1>4, TimingStill

LEMMA GainSetStill ==
  ASSUME NEW s, NEW t, Still(s, t), NEW r, NEW g
  PROVE  /\ Still(s, Radio!set_split_table_gain(t, r, g))
         /\ Still(s, Radio!set_full_table_gain(t, r, g))
         /\ Still(s, [t EXCEPT !.reg.AGC_MODE[r] = g, !.reg.HYBRID = (g = "HYBRID")])
         /\ Still(s, [t EXCEPT !.agc_mode[r] = g])
  BY ZenonT(40) DEF Radio!set_split_table_gain, Radio!set_full_table_gain

HIDE DEF Still, Steady, Intact, Undamaged, Whole, Fields, Registers, Lo, Radio!Result

-----------------------------------------------------------------------------
(* What is composed of those *)

LEMMA SetFiltersStill ==
  ASSUME NEW s, NEW t, Still(s, t), NEW rx, NEW tx
  PROVE  Still(s, Radio!SetFilters(t, rx, tx))
  BY CalStill, ResultStill DEF Radio!SetFilters

LEMMA SearchStill ==
  ASSUME NEW s, NEW t, Still(s, t)
  PROVE  Still(s, Radio!tx_quad_phase_search(t))
  BY QuadCalStill DEF Radio!tx_quad_phase_search

LEMMA SecondTryStill ==
  ASSUME NEW s, NEW t, Still(s, t), NEW phase
  PROVE  Still(s, Radio!SecondTry(Radio!QuadCal(t, phase)))
  BY QuadCalStill, SearchStill DEF Radio!SecondTry

LEMMA ConvergeStill ==
  ASSUME NEW s, NEW t, Still(s, t), NEW phase, NEW nco
  PROVE  Still(s, Radio!ConvergeFrom(t, phase, nco))
<1>1. ASSUME NEW first
      PROVE  Still(s, Radio!FirstTry(Radio!QuadCal(t, first), t, first))
  <2> DEFINE q == Radio!QuadCal(t, first)
  <2>1. Still(s, q.s) /\ Still(s, [q.s EXCEPT !.last_tx_quad_cal_phase = first])
    <3>1. Still(s, q.s)
      BY QuadCalStill
    <3> HIDE DEF q
    <3> QED BY <3>1, QuadCalStill
  <2> HIDE DEF q
  <2>2. Still(s, Radio!SecondTry(Radio!QuadCal(q.s, t.last_tx_quad_cal_phase)))
    BY <2>1, SecondTryStill
  <2>3. Still(s, Radio!FirstTry(q, t, first))
    BY <2>1, <2>2, SearchStill DEF Radio!FirstTry
  <2> QED BY <2>3 DEF q
<1> QED BY <1>1, SearchStill DEF Radio!ConvergeFrom, Radio!Converge

LEMMA QuadStill ==
  ASSUME NEW s, NEW t, Still(s, t), NEW rx, NEW tx, NEW phase
  PROVE  Still(s, Radio!tx_quad_calib(t, rx, tx, phase))
<1> DEFINE on == [t EXCEPT !.reg.LO_OFF.tx = FALSE, !.rc = "ok"]
           nco == Radio!NcoChoice(t, tx)
           wide == Radio!SetFilters(on, Radio!ToneFreq(on, nco) * 8, Radio!ToneFreq(on, nco) * 8)
           end == Radio!QuadWith(on, rx, tx, phase, nco)
<1>1. Still(s, on)
  BY DEF Still, Steady, Intact, Undamaged, Whole, Fields, Registers, Lo
<1>2. Still(s, end)
  <2> HIDE DEF on, nco
  <2>1. Still(s, wide) /\ Still(s, Radio!ConvergeFrom(wide, phase, nco))
    <3>1. Still(s, wide)
      BY <1>1, SetFiltersStill
    <3> HIDE DEF wide
    <3> QED BY <3>1, ConvergeStill
  <2> HIDE DEF wide
  <2>2. Still(s, Radio!QuadWidened(wide, on, phase, nco))
    BY <2>1, SetFiltersStill, ResultStill DEF Radio!QuadWidened, Radio!Narrowed
  <2>3. Still(s, Radio!ConvergeFrom(on, phase, nco))
    BY <1>1, ConvergeStill
  <2> QED BY <2>2, <2>3 DEF Radio!QuadWith, wide
<1>3. Still(s, [end EXCEPT !.reg.LO_OFF = t.lo_off])
  <2> HIDE DEF end
  <2> QED BY <1>2 DEF Still, Steady, Intact, Undamaged, Whole, Fields, Registers, Lo
<1>4. Still(s, Radio!Result(t, "EFAULT"))
  BY ResultStill
<1> QED BY <1>2, <1>3, <1>4, Zenon DEF Radio!tx_quad_calib

LEMMA ThenQuadStill ==
  ASSUME NEW s, NEW t, Still(s, t), NEW rx, NEW tx
  PROVE  Still(s, Radio!ThenQuad(t, rx, tx))
  BY QuadStill DEF Radio!ThenQuad

LEMMA LoadGtStill ==
  ASSUME NEW s, NEW t, Still(s, t), NEW freq
  PROVE  Still(s, Radio!load_gt(t, freq))
  BY GainStill, ResultStill DEF Radio!load_gt, Radio!LoadBand

LEMMA RxGainStill ==
  ASSUME NEW s, NEW t, Still(s, t), NEW r, NEW g
  PROVE  Still(s, Radio!set_rx_gain(t, r, g))
<1>1. Still(s, Radio!Result(t, "EINVAL")) /\ Still(s, Radio!Result(t, "EOPNOTSUPP"))
  BY ResultStill
<1> QED BY <1>1, GainSetStill DEF Radio!set_rx_gain

LEMMA GainModeStill ==
  ASSUME NEW s, NEW t, Still(s, t), NEW ant, NEW mode
  PROVE  Still(s, Radio!set_gain_ctrl_mode(t, ant, mode))
  BY GainStill, GainSetStill, TimingStill, ResultStill DEF Radio!set_gain_ctrl_mode

LEMMA ClkHandlerStill ==
  ASSUME NEW s, NEW t, Still(s, t)
  PROVE  Still(s, Radio!bb_clk_change_handler(t))
  BY TimingStill DEF Radio!bb_clk_change_handler

LEMMA MuteStill ==
  ASSUME NEW s, NEW t, Still(s, t), NEW on
  PROVE  Still(s, Radio!tx_mute(t, on))
<1> DEFINE cached == [t EXCEPT !.tx_atten_cached = [i \in {1, 2} |-> Radio!get_tx_atten(t, i)]]
<1>1. Still(s, cached)
  BY DEF Still, Steady, Intact, Undamaged, Whole, Fields, Registers, Lo
<1> HIDE DEF cached
<1> QED BY <1>1, GainStill DEF Radio!tx_mute, cached

-----------------------------------------------------------------------------
(* Clocks: loops over the clocks of a chain *)

LEMMA ClockSetStill ==
  ASSUME NEW s, NEW t, Still(s, t), NEW c, NEW x
  PROVE  /\ Still(s, Radio!set_clk_scaler(t, c, x))
         /\ Still(s, Radio!Refreshed(t, c))
<1> USE DEF Still, Steady, Intact, Undamaged, Whole, Fields, Registers, Lo
<1>1. Still(s, Radio!set_clk_scaler(t, c, x))
  BY DEF Radio!set_clk_scaler, Radio!Result
<1>2. Still(s, Radio!Refreshed(t, c))
  BY DEF Radio!Refreshed
<1> QED BY <1>1, <1>2

LEMMA PathStill ==
  ASSUME NEW s, NEW t, Still(s, t), NEW side, NEW i, NEW x
  PROVE  Still(s, Radio!PathNoted(t, side, i, x)) /\ Still(s, Radio!FirBits(t))
<1> USE DEF Still, Steady, Intact, Undamaged, Whole, Fields, Registers, Lo
<1>1. Still(s, Radio!PathNoted(t, side, i, x))
  BY DEF Radio!PathNoted
<1>2. Still(s, Radio!FirBits(t))
  BY DEF Radio!FirBits
<1> QED BY <1>1, <1>2

LEMMA BbpllStill ==
  ASSUME NEW s, NEW t, Still(s, t), NEW rate, NEW parent
  PROVE  Still(s, [Radio!bbpll_set_rate(t, rate, parent) EXCEPT !.bbpll_initialized = TRUE])
<1> DEFINE icp == Radio!Clamp(Radio!DivRoundClosest((rate * 150) \div (parent * 32), 25) - 1, 1, 64)
           set == [t EXCEPT !.reg.BBPLL = rate, !.reg.BBPLL_ICP = icp]
<1>1. Still(s, set)
  BY ZenonT(60) DEF Still, Steady, Intact, Undamaged, Whole, Fields, Registers, Lo
<1>2. Still(s, Radio!bbpll_set_rate(t, rate, parent))
  <2>1. Radio!bbpll_set_rate(t, rate, parent) = Radio!run_calibration(set, "BBPLL_LOCK")
    BY Zenon DEF Radio!bbpll_set_rate
  <2> HIDE DEF set
  <2> QED BY <1>1, <2>1, CalStill
<1> DEFINE done == Radio!bbpll_set_rate(t, rate, parent)
<1> HIDE DEF done
<1>3. Still(s, done) => Still(s, [done EXCEPT !.bbpll_initialized = TRUE])
  BY DEF Still, Steady, Intact, Undamaged, Whole, Fields, Registers, Lo
<1> QED BY <1>2, <1>3 DEF done

\* A step of one of the loops of the driver: a clock made known, a rate of a path
\* set, a rate of a swept tuning set, a step of a synchronization.
LoopStep(loop, s, rx, tx, t, i) ==
  CASE loop = "recalc" -> Radio!Refreshed(t, Radio!ClockOrder[i])
    [] loop = "paths" -> Radio!SetPathRate(t, Radio!PathOrder[i][1], Radio!PathOrder[i][2],
                                           [rx |-> rx, tx |-> tx])
    [] loop = "sweep" -> Radio!SweepStep(s, t, Radio!calculate_rf_clock_chain(
                           t, Radio!SweepRate(s, i), s.rate_governor))
    [] loop = "mcs" -> Radio!mcs(t, i - 1)

After(f, loop, s, rx, tx, n) ==
  f = [i \in 0 .. n |-> IF i = 0 THEN s ELSE LoopStep(loop, s, rx, tx, f[i - 1], i)]

\* Every set of natural numbers has a least one.
LEMMA LeastNat ==
  ASSUME NEW T, T \subseteq Nat, T # {}
  PROVE  \E k \in T : \A j \in T : k <= j
<1> DEFINE R == OpToRel(<, Nat)
<1>1. IsWellFoundedOn(R, Nat)
  BY NatLessThanWellFounded
<1>2. PICK k \in T : \A j \in T : <<j, k>> \notin R
  <2> HIDE DEF R
  <2> QED BY <1>1, WFMin
<1>3. \A j \in T : ~(j < k)
  BY <1>2, Zenon DEF OpToRel
<1> QED BY <1>3

\* Such a loop is a function of the number of its steps.
LEMMA LoopEnds ==
  ASSUME NEW loop, NEW s, NEW rx, NEW tx, NEW n \in Nat
  PROVE  \E f : After(f, loop, s, rx, tx, n)
<1> DEFINE T == {k \in Nat : ~\E f : After(f, loop, s, rx, tx, k)}
<1> SUFFICES ASSUME T # {} PROVE FALSE
  OBVIOUS
<1>1. PICK k \in T : \A j \in T : k <= j
  <2>1. T \subseteq Nat
    OBVIOUS
  <2> QED BY <2>1, LeastNat
<1>2. CASE k = 0
  <2>1. [i \in 0 .. 0 |-> s] =
          [i \in 0 .. 0 |-> IF i = 0 THEN s
                            ELSE LoopStep(loop, s, rx, tx, [j \in 0 .. 0 |-> s][i - 1], i)]
    OBVIOUS
  <2>2. After([i \in 0 .. 0 |-> s], loop, s, rx, tx, 0)
    BY <2>1, Zenon DEF After
  <2> QED BY <1>1, <1>2, <2>2
<1>3. CASE k # 0
  <2>1. k \in Nat /\ k - 1 \in Nat /\ k - 1 \notin T
    BY <1>1, <1>3
  <2>2. PICK f : After(f, loop, s, rx, tx, k - 1)
    BY <2>1
  <2> DEFINE g == [i \in 0 .. k |-> IF i = 0 THEN s ELSE LoopStep(loop, s, rx, tx, f[i - 1], i)]
             h == [i \in 0 .. k |-> IF i = 0 THEN s ELSE LoopStep(loop, s, rx, tx, g[i - 1], i)]
  <2>3. \A i \in 0 .. k - 1 : g[i] = f[i]
    <3>1. \A i \in 0 .. k - 1 :
            f[i] = IF i = 0 THEN s ELSE LoopStep(loop, s, rx, tx, f[i - 1], i)
      BY <2>2, Zenon DEF After
    <3>2. \A i \in 0 .. k - 1 : i \in 0 .. k
      BY <2>1
    <3> QED BY <3>1, <3>2, Zenon
  <2>4. \A i \in 0 .. k : g[i] = h[i]
    <3>1. ASSUME NEW i \in 0 .. k, i # 0
          PROVE  g[i - 1] = f[i - 1]
      <4>1. i - 1 \in 0 .. k - 1
        BY <2>1, <3>1
      <4> HIDE DEF g
      <4> QED BY <2>3, <4>1
    <3> QED BY <3>1, Zenon
  <2>5. After(g, loop, s, rx, tx, k)
    <3>1. g = h
      BY <2>4, Zenon
    <3> QED BY <3>1, Zenon DEF After
  <2> QED BY <1>1, <2>1, <2>5
<1> QED BY <1>2, <1>3

\* No step of a loop is the first one after which something is lost.
LEMMA NoFirst ==
  ASSUME NEW n \in Nat, NEW T, T \subseteq 0 .. n, 0 \notin T,
         \A k \in 1 .. n : k \in T => k - 1 \in T
  PROVE  T = {}
<1> SUFFICES ASSUME T # {} PROVE FALSE
  OBVIOUS
<1>1. PICK k \in T : \A j \in T : k <= j
  <2>1. T \subseteq Nat
    OBVIOUS
  <2> QED BY <2>1, LeastNat
<1> QED BY <1>1

\* The loops of the driver.
LEMMA RecalcLoop ==
  ASSUME NEW t
  PROVE  \E f : /\ After(f, "recalc", t, 0, 0, 14)
                /\ Radio!Recalc(t) = [f[14] EXCEPT !.lo_clk =
                                        [side \in {"rx", "tx"} |-> Radio!rfpll_recalc_rate(t, side)]]
<1> DEFINE f == CHOOSE f : f = [i \in 0 .. 14 |->
                  IF i = 0 THEN t ELSE Radio!Refreshed(f[i - 1], Radio!ClockOrder[i])]
<1>1. Radio!Recalc(t) = [f[14] EXCEPT !.lo_clk = [side \in {"rx", "tx"} |->
                                                    Radio!rfpll_recalc_rate(t, side)]]
  BY Zenon DEF Radio!Recalc, Radio!Loop
<1>2. After(f, "recalc", t, 0, 0, 14)
  <2>1. \A g, i : LoopStep("recalc", t, 0, 0, g, i) = Radio!Refreshed(g, Radio!ClockOrder[i])
    BY DEF LoopStep
  <2>2. \E g : After(g, "recalc", t, 0, 0, 14)
    BY LoopEnds
  <2> DEFINE Is(g) == g = [i \in 0 .. 14 |->
                       IF i = 0 THEN t ELSE Radio!Refreshed(g[i - 1], Radio!ClockOrder[i])]
  <2>3. ASSUME NEW g PROVE Is(g) <=> After(g, "recalc", t, 0, 0, 14)
    BY <2>1, SMT DEF After
  <2>4. \E g : Is(g)
    BY <2>2, <2>3
  <2>5. Is(f)
    BY <2>4, Zenon
  <2> HIDE DEF f, Is
  <2> QED BY <2>3, <2>5
<1> HIDE DEF f
<1> QED BY <1>1, <1>2

LEMMA RatesLoop ==
  ASSUME NEW t, NEW rx, NEW tx
  PROVE  \E f : After(f, "paths", t, rx, tx, 11) /\ Radio!SetRates(t, rx, tx) = Radio!FirBits(f[11])
<1> DEFINE f == CHOOSE f : f = [i \in 0 .. 11 |->
                  IF i = 0 THEN t
                  ELSE Radio!SetPathRate(f[i - 1], Radio!PathOrder[i][1], Radio!PathOrder[i][2],
                                         [rx |-> rx, tx |-> tx])]
<1>1. Radio!SetRates(t, rx, tx) = Radio!FirBits(f[11])
  BY Zenon DEF Radio!SetRates, Radio!Loop
<1>2. After(f, "paths", t, rx, tx, 11)
  <2>1. \A g, i : LoopStep("paths", t, rx, tx, g, i) =
                    Radio!SetPathRate(g, Radio!PathOrder[i][1], Radio!PathOrder[i][2],
                                      [rx |-> rx, tx |-> tx])
    BY DEF LoopStep
  <2>2. \E g : After(g, "paths", t, rx, tx, 11)
    BY LoopEnds
  <2> DEFINE Is(g) == g = [i \in 0 .. 11 |->
                       IF i = 0 THEN t
                       ELSE Radio!SetPathRate(g[i - 1], Radio!PathOrder[i][1],
                                              Radio!PathOrder[i][2], [rx |-> rx, tx |-> tx])]
  <2>3. ASSUME NEW g PROVE Is(g) <=> After(g, "paths", t, rx, tx, 11)
    BY <2>1, SMT DEF After
  <2>4. \E g : Is(g)
    BY <2>2, <2>3
  <2>5. Is(f)
    BY <2>4, Zenon
  <2> HIDE DEF f, Is
  <2> QED BY <2>3, <2>5
<1> HIDE DEF f
<1> QED BY <1>1, <1>2

LEMMA SweptLoop ==
  ASSUME NEW t
  PROVE  \E f : After(f, "sweep", t, 0, 0, 3) /\ Radio!Swept(t) = f[3]
<1> DEFINE Chain(u, i) == Radio!calculate_rf_clock_chain(u, Radio!SweepRate(t, i), t.rate_governor)
           f == CHOOSE f : f = [i \in 0 .. 3 |->
                  IF i = 0 THEN t ELSE Radio!SweepStep(t, f[i - 1], Chain(f[i - 1], i))]
<1>1. Radio!Swept(t) = f[3]
  BY Zenon DEF Radio!Swept, Radio!Loop
<1>2. After(f, "sweep", t, 0, 0, 3)
  <2>1. \A g, i : LoopStep("sweep", t, 0, 0, g, i) = Radio!SweepStep(t, g, Chain(g, i))
    BY DEF LoopStep
  <2>2. \E g : After(g, "sweep", t, 0, 0, 3)
    BY LoopEnds
  <2> DEFINE Is(g) == g = [i \in 0 .. 3 |->
                       IF i = 0 THEN t ELSE Radio!SweepStep(t, g[i - 1], Chain(g[i - 1], i))]
  <2>3. ASSUME NEW g PROVE Is(g) <=> After(g, "sweep", t, 0, 0, 3)
    <3> HIDE DEF Chain
    <3> QED BY <2>1, SMT DEF After
  <2>4. \E g : Is(g)
    BY <2>2, <2>3
  <2>5. Is(f)
    BY <2>4, Zenon
  <2> HIDE DEF f, Is
  <2> QED BY <2>3, <2>5
<1> HIDE DEF f
<1> QED BY <1>1, <1>2

\* What every step leaves alone, the loop does.
LEMMA LoopStill ==
  ASSUME NEW loop, NEW s, NEW t, Still(s, t), NEW rx, NEW tx, NEW n \in Nat,
         NEW f, After(f, loop, t, rx, tx, n),
         \A u : \A i \in 1 .. n : Still(s, u) => Still(s, LoopStep(loop, t, rx, tx, u, i))
  PROVE  Still(s, f[n])
<1> DEFINE T == {k \in 0 .. n : ~Still(s, f[k])}
<1>1. \A i \in 0 .. n : f[i] = IF i = 0 THEN t ELSE LoopStep(loop, t, rx, tx, f[i - 1], i)
  BY Zenon DEF After
<1>2. ASSUME NEW k \in 1 .. n, k \in T PROVE k - 1 \in T
  BY <1>1, <1>2
<1>3. 0 \notin T
  BY <1>1
<1>4. T \subseteq 0 .. n
  OBVIOUS
<1>5. T = {}
  <2> HIDE DEF T
  <2> QED BY <1>2, <1>3, <1>4, NoFirst
<1> QED BY <1>5

LEMMA RecalcStill ==
  ASSUME NEW s, NEW t, Still(s, t)
  PROVE  Still(s, Radio!Recalc(t))
<1>1. PICK f : /\ After(f, "recalc", t, 0, 0, 14)
               /\ Radio!Recalc(t) = [f[14] EXCEPT !.lo_clk =
                                      [side \in {"rx", "tx"} |-> Radio!rfpll_recalc_rate(t, side)]]
  BY RecalcLoop
<1> DEFINE all == f[14]
<1>2. Still(s, all)
  <2>1. \A u : \A i \in 1 .. 14 : Still(s, u) => Still(s, LoopStep("recalc", t, 0, 0, u, i))
    BY ClockSetStill DEF LoopStep
  <2> QED BY <1>1, <2>1, LoopStill
<1>3. \A x : Still(s, [all EXCEPT !.lo_clk = x])
  <2> HIDE DEF all
  <2> QED BY <1>2 DEF Still, Steady, Intact, Undamaged, Whole, Fields, Registers, Lo
<1> QED BY <1>1, <1>3

LEMMA ClockRateStill ==
  ASSUME NEW s, NEW t, Still(s, t), NEW c, NEW rate
  PROVE  Still(s, Radio!no_os_clk_set_rate(t, c, rate))
<1>1. ASSUME NEW x, NEW parent
      PROVE  Still(s, Radio!SetClock(t, c, x, parent))
  BY ClockSetStill, BbpllStill DEF Radio!SetClock, Radio!clk_factor_set_rate
<1> QED BY <1>1, RecalcStill, ResultStill DEF Radio!no_os_clk_set_rate

LEMMA RatesStill ==
  ASSUME NEW s, NEW t, Still(s, t), NEW rx, NEW tx
  PROVE  Still(s, Radio!SetRates(t, rx, tx))
<1>1. PICK f : After(f, "paths", t, rx, tx, 11) /\ Radio!SetRates(t, rx, tx) = Radio!FirBits(f[11])
  BY RatesLoop
<1>2. \A u : \A i \in 1 .. 11 : Still(s, u) => Still(s, LoopStep("paths", t, rx, tx, u, i))
  BY ClockRateStill, PathStill DEF LoopStep, Radio!SetPathRate
<1>3. Still(s, f[11])
  BY <1>1, <1>2, LoopStill
<1> QED BY <1>1, <1>3, PathStill

LEMMA SweptStill ==
  ASSUME NEW s, NEW t, Still(s, t)
  PROVE  Still(s, Radio!Swept(t))
<1>1. PICK f : After(f, "sweep", t, 0, 0, 3) /\ Radio!Swept(t) = f[3]
  BY SweptLoop
<1>2. \A u : \A i \in 1 .. 3 : Still(s, u) => Still(s, LoopStep("sweep", t, 0, 0, u, i))
  <2>1. ASSUME NEW u, Still(s, u), NEW chain
        PROVE  Still(s, Radio!SweepStep(t, u, chain))
    BY <2>1, RatesStill, ClkHandlerStill DEF Radio!SweepStep
  <2> QED BY <2>1 DEF LoopStep
<1> QED BY <1>1, <1>2, LoopStill

-----------------------------------------------------------------------------
(* Test patterns, the LOs and the fast lock profiles *)

LEMMA TestStill ==
  ASSUME NEW s, NEW t, Still(s, t), NEW mode, NEW freq
  PROVE  /\ Still(s, Radio!bist_loopback(t, mode))
         /\ Still(s, Radio!bist_prbs(t, mode))
         /\ Still(s, Radio!bist_tone(t, mode, freq))
<1>1. ASSUME NEW u, Still(s, u)
      PROVE  \A on \in BOOLEAN : Still(s, Radio!hdl_loopback(u, on))
                                 /\ Still(s, Radio!int_loopback_fix_ch_cross(u, on))
  BY <1>1 DEF Still, Steady, Intact, Undamaged, Whole, Fields, Registers, Lo, Radio!hdl_loopback,
              Radio!int_loopback_fix_ch_cross
<1>2. ASSUME NEW u, Still(s, u), NEW on
      PROVE  /\ Still(s, [u EXCEPT !.bist_loopback_mode = mode])
             /\ Still(s, [u EXCEPT !.reg.LOOPBACK = on, !.rc = "ok"])
  BY <1>2 DEF Still, Steady, Intact, Undamaged, Whole, Fields, Registers, Lo
<1>3. Still(s, Radio!bist_loopback(t, mode))
  BY <1>1, <1>2, ResultStill DEF Radio!bist_loopback
<1>4. Still(s, Radio!bist_prbs(t, mode)) /\ Still(s, Radio!bist_tone(t, mode, freq))
  BY DEF Still, Steady, Intact, Undamaged, Whole, Fields, Registers, Lo, Radio!bist_prbs,
         Radio!bist_tone
<1> QED BY <1>3, <1>4

LEMMA LoStill ==
  ASSUME NEW s, NEW t, Still(s, t), NEW side, NEW x
  PROVE  /\ Still(s, Radio!trx_vco_cal_control(t, side, x))
         /\ Still(s, Radio!rfpll_dummy_set_rate(t, side, x))
         /\ Still(s, [t EXCEPT !.last_tx_quad_cal_freq = x])
         /\ Still(s, [t EXCEPT !.lo_mux[side] = x])
         /\ Still(s, [t EXCEPT !.use_ext_lo[side] = x])
<1> USE DEF Still, Steady, Intact, Undamaged, Whole, Fields, Registers, Lo
<1>1. Still(s, Radio!trx_vco_cal_control(t, side, x))
  BY DEF Radio!trx_vco_cal_control
<1>2. Still(s, Radio!rfpll_dummy_set_rate(t, side, x))
  BY DEF Radio!rfpll_dummy_set_rate
<1>3. /\ Still(s, [t EXCEPT !.last_tx_quad_cal_freq = x])
      /\ Still(s, [t EXCEPT !.lo_mux[side] = x])
      /\ Still(s, [t EXCEPT !.use_ext_lo[side] = x])
  OBVIOUS
<1> QED BY <1>1, <1>2, <1>3

\* A synthesizer takes words and a row of a table: the table for TDD but when the two
\* would disturb each other.
Apart(v) == v.fdd /\ ~v.fdd_independent_mode /\ v.current_lo_freq.tx # v.current_lo_freq.rx

Programmed(v, side, words, row) ==
  [v EXCEPT !.current_use_tdd_table[side] = ~Apart(v), !.LUT[side] = row, !.SYNTH[side] = words]

Noted(v, side, rate) ==
  [v EXCEPT !.cached_rfpll_div[side] = Radio!Words(rate).div, !.current_lo_freq[side] = rate]

LEMMA CalView ==
  ASSUME NEW t, Whole(t), NEW side, NEW x
  PROVE  /\ Lo(Radio!run_calibration(t, x)) = Lo(t)
         /\ Lo(Radio!trx_vco_cal_control(t, side, x)) = Lo(t)
         /\ Lo(Radio!fastlock_prepare(t, side, 0, FALSE)) = Lo(t)
<1> USE DEF Whole, Fields, Registers, Lo
<1>1. Lo(Radio!run_calibration(t, x)) = Lo(t)
  BY DEF Radio!run_calibration, Radio!Result
<1>2. Lo(Radio!trx_vco_cal_control(t, side, x)) = Lo(t)
  BY DEF Radio!trx_vco_cal_control
<1>3. Lo(Radio!fastlock_prepare(t, side, 0, FALSE)) = Lo(t)
  BY DEF Radio!fastlock_prepare, Radio!trx_vco_cal_control
<1> QED BY <1>1, <1>2, <1>3

\* As Noted, of a phy.
LoNoted(t, side, rate) ==
  [t EXCEPT !.cached_rfpll_div[side] = Radio!Words(rate).div, !.current_lo_freq[side] = rate]

LEMMA NotedStands ==
  ASSUME NEW s, NEW t, Standing(s, t), NEW side, NEW rate
  PROVE  LET noted == LoNoted(t, side, rate)
         IN Standing(s, noted) /\ Lo(noted) = Noted(Lo(t), side, rate)
<1> DEFINE noted == LoNoted(t, side, rate)
           div == [t.cached_rfpll_div EXCEPT ![side] = Radio!Words(rate).div]
           freq == [t.current_lo_freq EXCEPT ![side] = rate]
           u == [t EXCEPT !.cached_rfpll_div = div]
           w == [u EXCEPT !.current_lo_freq = freq]
           v == Lo(t)
<1>1. Whole(t)
  BY DEF Standing, Undamaged
<1>2. noted = w
  BY <1>1 DEF LoNoted, Whole, Fields
<1>3. Standing(s, u) /\ Whole(u) /\ Lo(u) = [v EXCEPT !.cached_rfpll_div = div]
  <2> HIDE DEF div
  <2>1. Standing(s, u) /\ Whole(u)
    BY DEF Standing, Undamaged, Steady, Whole, Fields, Registers
  <2>2. Lo(u) = [v EXCEPT !.cached_rfpll_div = div]
    BY <1>1 DEF Whole, Fields, Registers, Lo
  <2> QED BY <2>1, <2>2
<1>4. Standing(s, w) /\ Lo(w) = [Lo(u) EXCEPT !.current_lo_freq = freq]
  <2> HIDE DEF freq, u
  <2>1. Standing(s, w)
    BY <1>3 DEF Standing, Undamaged, Steady, Whole, Fields, Registers
  <2>2. Lo(w) = [Lo(u) EXCEPT !.current_lo_freq = freq]
    BY <1>3 DEF Whole, Fields, Registers, Lo
  <2> QED BY <2>1, <2>2
<1>5. /\ v.cached_rfpll_div = t.cached_rfpll_div /\ v.current_lo_freq = t.current_lo_freq
      /\ {"current_lo_freq", "cached_rfpll_div"} \subseteq DOMAIN v
  BY DEF Lo
<1>6. Noted(v, side, rate) = [[v EXCEPT !.cached_rfpll_div = div] EXCEPT !.current_lo_freq = freq]
  <2> HIDE DEF v
  <2> QED BY <1>5 DEF Noted
<1> HIDE DEF div, freq, u, w, v, noted
<1> QED BY <1>2, <1>3, <1>4, <1>6 DEF v, noted

LEMMA StandingWays ==
  /\ \A s, t : Still(s, t) => Standing(s, t)
  /\ \A s, t, u : Standing(s, t) /\ Still(t, u) => Standing(s, u)
  BY DEF Still, Standing, Intact, Undamaged, Steady

\* A synthesizer is set up from the table the two LOs ask for.
LEMMA ProgramStands ==
  ASSUME NEW s, NEW t, Standing(s, t), NEW side, NEW words, NEW ref
  PROVE  /\ Standing(s, Radio!Program(t, side, words, ref))
         /\ \E row : /\ row.table = Table(~Apart(Lo(t)))
                     /\ Lo(Radio!Program(t, side, words, ref)) =
                          Programmed(Lo(t), side, words, row)
<1> DEFINE v == Lo(t)
           tdd == ~Apart(v)
           row == [table |-> Table(tdd), range |-> Radio!rfvco_tableindex(ref),
                   row |-> Radio!Cardinality({i \in DOMAIN Radio!SynthLUT :
                                          Radio!SynthLUT[i] > words.vco}) + 1]
           tdds == [t.current_use_tdd_table EXCEPT ![side] = tdd]
           rows == [t.reg.LUT EXCEPT ![side] = row]
           synth == [t.reg.SYNTH EXCEPT ![side] = words]
           u == [t EXCEPT !.current_use_tdd_table = tdds]
           w == [u EXCEPT !.reg.LUT = rows]
           set == [w EXCEPT !.reg.SYNTH = synth]
           done == Radio!run_calibration(set, <<"VCO_LOCK", side>>)
<1>1. Whole(t)
  BY DEF Standing, Undamaged
<1>2. Radio!rfpll_vco_init(t, side, words.vco, ref) =
        [t EXCEPT !.current_use_tdd_table[side] = tdd, !.reg.LUT[side] = row]
  <2> DEFINE fdd == t.fdd /\ ~t.fdd_independent_mode
                    /\ t.current_lo_freq.tx # t.current_lo_freq.rx
             named == [table |-> IF fdd THEN "FDD" ELSE "TDD",
                       range |-> Radio!rfvco_tableindex(ref),
                       row |-> Radio!Cardinality({i \in DOMAIN Radio!SynthLUT :
                                              Radio!SynthLUT[i] > words.vco}) + 1]
  <2>1. Radio!rfpll_vco_init(t, side, words.vco, ref) =
          [t EXCEPT !.current_use_tdd_table[side] = ~fdd, !.reg.LUT[side] = named]
    BY Zenon DEF Radio!rfpll_vco_init
  <2>2. tdd = ~fdd
    BY DEF Apart, Lo
  <2>3. row = named
    <3> HIDE DEF fdd, tdd
    <3> QED BY <2>2 DEF Table
  <2> HIDE DEF fdd, tdd, row, named
  <2> QED BY <2>1, <2>2, <2>3
<1> HIDE DEF tdd, row
<1>3. [[t EXCEPT !.current_use_tdd_table[side] = tdd, !.reg.LUT[side] = row]
         EXCEPT !.reg.SYNTH[side] = words] = set
  BY <1>1 DEF Whole, Fields, Registers
<1>4. Radio!Program(t, side, words, ref) = done
  BY <1>2, <1>3, Zenon DEF Radio!Program
<1>5. Standing(s, u) /\ Whole(u) /\ Lo(u) = [v EXCEPT !.current_use_tdd_table = tdds]
  <2> HIDE DEF tdds
  <2>1. Standing(s, u) /\ Whole(u)
    BY DEF Standing, Undamaged, Steady, Whole, Fields, Registers
  <2>2. Lo(u) = [v EXCEPT !.current_use_tdd_table = tdds]
    BY <1>1 DEF Whole, Fields, Registers, Lo
  <2> QED BY <2>1, <2>2
<1>6. Standing(s, w) /\ Whole(w) /\ Lo(w) = [Lo(u) EXCEPT !.LUT = rows]
  <2> HIDE DEF rows, u
  <2>1. Standing(s, w) /\ Whole(w)
    BY <1>5 DEF Standing, Undamaged, Steady, Whole, Fields, Registers
  <2>2. Lo(w) = [Lo(u) EXCEPT !.LUT = rows]
    BY <1>5 DEF Whole, Fields, Registers, Lo
  <2> QED BY <2>1, <2>2
<1>7. Standing(s, set) /\ Whole(set) /\ Lo(set) = [Lo(w) EXCEPT !.SYNTH = synth]
  <2> HIDE DEF synth, w
  <2>1. Standing(s, set) /\ Whole(set)
    BY <1>6 DEF Standing, Undamaged, Steady, Whole, Fields, Registers
  <2>2. Lo(set) = [Lo(w) EXCEPT !.SYNTH = synth]
    BY <1>6 DEF Whole, Fields, Registers, Lo
  <2> QED BY <2>1, <2>2
<1>8. /\ v.current_use_tdd_table = t.current_use_tdd_table
      /\ v.LUT = t.reg.LUT /\ v.SYNTH = t.reg.SYNTH /\ Parts \subseteq DOMAIN v
  BY DEF Lo, Parts
<1>9. Programmed(v, side, words, row) =
        [[[v EXCEPT !.current_use_tdd_table = tdds] EXCEPT !.LUT = rows] EXCEPT !.SYNTH = synth]
  <2> HIDE DEF v
  <2> QED BY <1>8 DEF Programmed, Parts, tdd
<1>10. Standing(s, done) /\ Lo(done) = Lo(set)
  <2> HIDE DEF set
  <2>1. Still(set, done)
    BY <1>7, StillFacts, CalStill
  <2>2. Lo(done) = Lo(set)
    BY <1>7, CalView
  <2> HIDE DEF done
  <2> QED BY <1>7, <2>1, <2>2, StandingWays
<1>11. row.table = Table(tdd)
  BY DEF row
<1> HIDE DEF v, u, w, set, tdds, rows, synth, done
<1> QED BY <1>4, <1>5, <1>6, <1>7, <1>9, <1>10, <1>11 DEF tdd, v

LEMMA WordsAre ==
  \A f : Radio!Words(f) = [vco |-> Radio!Words(f).vco, div |-> Radio!Words(f).div]
<1> TAKE f
<1> DEFINE n == CHOOSE k \in 0 .. 8 : /\ f * Radio!Two(k) > Radio!MIN_VCO_FREQ
                                      /\ \A j \in 0 .. k - 1 :
                                           f * Radio!Two(j) <= Radio!MIN_VCO_FREQ
<1>1. Radio!Words(f) = [vco |-> f * Radio!Two(n), div |-> n - 1]
  BY Zenon DEF Radio!Words
<1> HIDE DEF n
<1> QED BY <1>1

\* What the receiver may be set to the transmitter may.
LEMMA ReceiverToo ==
  ASSUME NEW v, NEW is_tx \in BOOLEAN, NEW f
  PROVE  Receivable(v, f) => Radio!validate_rfpll(v, is_tx, f)
<1>1. CASE v.dev_sel = "AD9363A"
  BY <1>1 DEF Receivable, Radio!validate_rfpll
<1>2. CASE v.dev_sel # "AD9363A"
  <2> DEFINE low == IF is_tx THEN 47 ELSE 70
  <2>1. Receivable(v, f) => f \in 70 .. Radio!MAX_CARRIER_FREQ
    BY <1>2 DEF Receivable, Radio!validate_rfpll
  <2>2. f \in low .. Radio!MAX_CARRIER_FREQ => Radio!validate_rfpll(v, is_tx, f)
    BY <1>2, SMT DEF Radio!validate_rfpll
  <2>3. f \in 70 .. Radio!MAX_CARRIER_FREQ => f \in low .. Radio!MAX_CARRIER_FREQ
    BY DEF Radio!MAX_CARRIER_FREQ
  <2> QED BY <2>1, <2>2, <2>3
<1> QED BY <1>1, <1>2

\* A side takes an LO, a divider, a row and words that go together.
Takes(v, q, side, freq, div, tdd, row, words) ==
  /\ tdd \in BOOLEAN /\ row.table = Table(tdd)
  /\ words = [vco |-> words.vco, div |-> words.div]
  /\ Receivable(v, freq) =>
       div = Radio!Words(freq).div /\ words = Radio!Words(freq)
  /\ Parts \subseteq DOMAIN q /\ SameModes(v, q) /\ q.EXT_LO = v.EXT_LO
  /\ DOMAIN q.current_lo_freq = Radio!Sides /\ DOMAIN q.cached_rfpll_div = Radio!Sides
  /\ DOMAIN q.current_use_tdd_table = Radio!Sides
  /\ DOMAIN q.LUT = Radio!Sides /\ DOMAIN q.SYNTH = Radio!Sides
  /\ \A r \in Radio!Sides :
       /\ q.current_lo_freq[r] = IF r = side THEN freq ELSE v.current_lo_freq[r]
       /\ q.cached_rfpll_div[r] = IF r = side THEN div ELSE v.cached_rfpll_div[r]
       /\ q.current_use_tdd_table[r] = IF r = side THEN tdd ELSE v.current_use_tdd_table[r]
       /\ q.LUT[r] = IF r = side THEN row ELSE v.LUT[r]
       /\ q.SYNTH[r] = IF r = side THEN words ELSE v.SYNTH[r]

LEMMA TakesWords ==
  ASSUME NEW v, LoSound(v), NEW q, NEW side \in Radio!Sides,
         NEW freq, NEW div, NEW tdd, NEW row, NEW words,
         Takes(v, q, side, freq, div, tdd, row, words)
  PROVE  LoSound(q)
<1> DEFINE Valid(f) == Receivable(v, f)
<1>1. \A f : Receivable(q, f) <=> Valid(f)
  BY DEF Takes, SameModes, Receivable, Radio!validate_rfpll
<1>2. Valid(freq) => div = Radio!Words(freq).div /\ words = Radio!Words(freq)
  BY DEF Takes
<1> HIDE DEF Valid
<1>3. /\ q.fdd \in BOOLEAN /\ q.fdd_independent_mode \in BOOLEAN
  BY DEF Takes, LoSound, SameModes
<1>4. ASSUME NEW r \in Radio!Sides
      PROVE  /\ q.current_use_tdd_table[r] \in BOOLEAN
             /\ q.LUT[r].table = Table(q.current_use_tdd_table[r])
             /\ q.SYNTH[r] = [vco |-> q.SYNTH[r].vco, div |-> q.SYNTH[r].div]
  BY DEF Takes, LoSound
<1>5. ASSUME NEW r \in Radio!Sides
      PROVE  Valid(q.current_lo_freq[r]) =>
               /\ q.cached_rfpll_div[r] = Radio!Words(q.current_lo_freq[r]).div
               /\ q.SYNTH[r].vco = Radio!Words(q.current_lo_freq[r]).vco
               /\ r \notin q.EXT_LO => q.SYNTH[r].div = Radio!Words(q.current_lo_freq[r]).div
  <2>1. Valid(v.current_lo_freq[r]) =>
          /\ v.cached_rfpll_div[r] = Radio!Words(v.current_lo_freq[r]).div
          /\ v.SYNTH[r].vco = Radio!Words(v.current_lo_freq[r]).vco
          /\ r \notin v.EXT_LO => v.SYNTH[r].div = Radio!Words(v.current_lo_freq[r]).div
    BY DEF LoSound, Valid
  <2>2. /\ q.current_lo_freq[r] = IF r = side THEN freq ELSE v.current_lo_freq[r]
        /\ q.cached_rfpll_div[r] = IF r = side THEN div ELSE v.cached_rfpll_div[r]
        /\ q.SYNTH[r] = IF r = side THEN words ELSE v.SYNTH[r]
        /\ q.EXT_LO = v.EXT_LO
    BY DEF Takes
  <2>3. CASE r = side
    BY <1>2, <2>2, <2>3
  <2>4. CASE r # side
    BY <2>1, <2>2, <2>4
  <2> QED BY <2>3, <2>4
<1> QED BY <1>1, <1>3, <1>4, <1>5 DEF Takes, LoSound

\* The LO of a side has been set, and its synthesizer with it.
LedBy(v, side, rate) ==
  /\ LoSound(v)
  /\ v.current_lo_freq[side] = rate /\ v.current_use_tdd_table[side] = ~Apart(v)

\* An LO is set, and the other one is done again when the tables do not go together.
LEMMA LoSetSound ==
  ASSUME NEW v, LoSound(v), NEW side \in Radio!Sides, NEW rate, NEW row,
         row.table = Table(~Apart(Noted(v, side, rate)))
  PROVE  LET p == Programmed(Noted(v, side, rate), side, Radio!Words(rate), row)
         IN SameModes(v, p) /\ LedBy(p, side, rate)
<1> DEFINE n == Noted(v, side, rate)
           words == Radio!Words(rate)
           p == Programmed(n, side, words, row)
           tdd == ~Apart(n)
<1>1. /\ Parts \subseteq DOMAIN n /\ SameModes(v, n) /\ n.EXT_LO = v.EXT_LO
      /\ n.current_lo_freq = [v.current_lo_freq EXCEPT ![side] = rate]
      /\ n.cached_rfpll_div = [v.cached_rfpll_div EXCEPT ![side] = words.div]
      /\ n.current_use_tdd_table = v.current_use_tdd_table
      /\ n.LUT = v.LUT /\ n.SYNTH = v.SYNTH
  <2> HIDE DEF words
  <2> QED BY DEF LoSound, Parts, Noted, SameModes, words
<1> HIDE DEF n, words
<1>2. /\ Parts \subseteq DOMAIN p /\ SameModes(n, p) /\ p.EXT_LO = n.EXT_LO
      /\ p.current_lo_freq = n.current_lo_freq /\ p.cached_rfpll_div = n.cached_rfpll_div
      /\ p.current_use_tdd_table = [n.current_use_tdd_table EXCEPT ![side] = tdd]
      /\ p.LUT = [n.LUT EXCEPT ![side] = row] /\ p.SYNTH = [n.SYNTH EXCEPT ![side] = words]
  <2> HIDE DEF tdd
  <2> QED BY <1>1 DEF Parts, Programmed, SameModes, tdd
<1>3. SameModes(v, p)
  BY <1>1, <1>2 DEF SameModes
<1>4. words = [vco |-> words.vco, div |-> words.div] /\ tdd \in BOOLEAN /\ row.table = Table(tdd)
  BY WordsAre DEF words, n
<1> HIDE DEF p, tdd
<1>5. LoSound(p)
  <2>1. Receivable(v, rate) =>
          words.div = Radio!Words(rate).div /\ words = Radio!Words(rate)
    BY DEF words
  <2>2. /\ DOMAIN p.current_lo_freq = Radio!Sides /\ DOMAIN p.cached_rfpll_div = Radio!Sides
        /\ DOMAIN p.current_use_tdd_table = Radio!Sides
        /\ DOMAIN p.LUT = Radio!Sides /\ DOMAIN p.SYNTH = Radio!Sides
    BY <1>1, <1>2 DEF LoSound
  <2>3. \A r \in Radio!Sides :
          /\ p.current_lo_freq[r] = IF r = side THEN rate ELSE v.current_lo_freq[r]
          /\ p.cached_rfpll_div[r] = IF r = side THEN words.div ELSE v.cached_rfpll_div[r]
          /\ p.current_use_tdd_table[r] = IF r = side THEN tdd ELSE v.current_use_tdd_table[r]
          /\ p.LUT[r] = IF r = side THEN row ELSE v.LUT[r]
          /\ p.SYNTH[r] = IF r = side THEN words ELSE v.SYNTH[r]
    BY <1>1, <1>2 DEF LoSound
  <2>4. Takes(v, p, side, rate, words.div, tdd, row, words)
    BY <1>1, <1>2, <1>3, <1>4, <2>1, <2>2, <2>3, Zenon DEF Takes
  <2> QED BY <2>4, TakesWords
<1>6. p.current_lo_freq[side] = rate /\ p.current_use_tdd_table[side] = ~Apart(p)
  BY <1>1, <1>2 DEF LoSound, Apart, SameModes, tdd
<1> QED BY <1>3, <1>5, <1>6 DEF LedBy, p, n, words

\* Words for the LO of a side, if it is one that the receiver could have.
Suit(v, side, words) ==
  /\ words = [vco |-> words.vco, div |-> words.div]
  /\ Receivable(v, v.current_lo_freq[side]) => words = Radio!Words(v.current_lo_freq[side])

\* The other side is set up again, with words for its own LO.
LEMMA OtherSound ==
  ASSUME NEW v, LoSound(v), NEW side \in Radio!Sides, NEW words, NEW row,
         row.table = Table(~Apart(v)), Suit(v, side, words),
         NEW q, q = Programmed(v, side, words, row)
  PROVE  /\ LoSound(q) /\ SameModes(v, q) /\ q.current_lo_freq = v.current_lo_freq
         /\ q.current_use_tdd_table[side] = ~Apart(v)
         /\ \A r \in Radio!Sides \ {side} :
              q.current_use_tdd_table[r] = v.current_use_tdd_table[r]
<1> DEFINE tdd == ~Apart(v)
           freq == v.current_lo_freq[side]
           div == v.cached_rfpll_div[side]
<1>1. /\ Parts \subseteq DOMAIN q /\ SameModes(v, q) /\ q.EXT_LO = v.EXT_LO
      /\ q.current_lo_freq = v.current_lo_freq /\ q.cached_rfpll_div = v.cached_rfpll_div
      /\ q.current_use_tdd_table = [v.current_use_tdd_table EXCEPT ![side] = tdd]
      /\ q.LUT = [v.LUT EXCEPT ![side] = row] /\ q.SYNTH = [v.SYNTH EXCEPT ![side] = words]
  <2> HIDE DEF tdd
  <2> QED BY DEF LoSound, Parts, Programmed, SameModes, tdd
<1>2. /\ DOMAIN q.current_lo_freq = Radio!Sides /\ DOMAIN q.cached_rfpll_div = Radio!Sides
      /\ DOMAIN q.current_use_tdd_table = Radio!Sides
      /\ DOMAIN q.LUT = Radio!Sides /\ DOMAIN q.SYNTH = Radio!Sides
  <2> HIDE DEF tdd
  <2> QED BY <1>1 DEF LoSound
<1>3. Receivable(v, freq) => div = Radio!Words(freq).div
  BY DEF LoSound
<1>4. tdd \in BOOLEAN /\ row.table = Table(tdd)
  OBVIOUS
<1> HIDE DEF tdd
<1>5. \A r \in Radio!Sides :
        /\ q.current_lo_freq[r] = IF r = side THEN freq ELSE v.current_lo_freq[r]
        /\ q.cached_rfpll_div[r] = IF r = side THEN div ELSE v.cached_rfpll_div[r]
        /\ q.current_use_tdd_table[r] = IF r = side THEN tdd ELSE v.current_use_tdd_table[r]
        /\ q.LUT[r] = IF r = side THEN row ELSE v.LUT[r]
        /\ q.SYNTH[r] = IF r = side THEN words ELSE v.SYNTH[r]
  BY <1>1 DEF LoSound
<1>6. LoSound(q)
  <2> HIDE DEF freq, div
  <2>1. Receivable(v, freq) =>
          div = Radio!Words(freq).div /\ words = Radio!Words(freq)
    BY <1>3 DEF freq, Suit
  <2>2. Takes(v, q, side, freq, div, tdd, row, words)
    BY <1>1, <1>2, <1>4, <1>5, <2>1, Zenon DEF Takes, Suit
  <2> QED BY <2>2, TakesWords
<1>7. q.current_use_tdd_table[side] = tdd
  BY <1>5
<1> QED BY <1>1, <1>5, <1>6, <1>7 DEF tdd

\* Out of fast lock mode, and into it with a profile.
LEMMA UsedChanges ==
  ASSUME NEW current, NEW lock, NEW word, Used(current, lock, word), NEW side \in Radio!Sides
  PROVE  /\ Used([current EXCEPT ![side] = 0], [lock EXCEPT ![side] = 0], word)
         /\ \A p \in Radio!Profiles : \A w :
              Used([current EXCEPT ![side] = p + 1], [lock EXCEPT ![side] = p + 1],
                   [word EXCEPT ![side] = w])
  BY DEF Used, Radio!Profiles

LEMMA UsedSide ==
  ASSUME NEW current, NEW lock, NEW word, Used(current, lock, word), NEW side \in Radio!Sides
  PROVE  /\ lock[side] = current[side]
         /\ lock[side] = 0 \/ lock[side] - 1 \in Radio!Profiles
  BY DEF Used

LEMMA ProfiledToo ==
  ASSUME NEW f, Profiled(f), NEW g, g.entry = f.entry, DOMAIN g = DOMAIN f
  PROVE  Profiled(g)
  BY DEF Profiled

\* What is about the profiles disturbs nothing else.
Besides(t, u) ==
  /\ DOMAIN u = DOMAIN t /\ DOMAIN u.reg = DOMAIN t.reg
  /\ \A x \in Fields \ {"rc", "reg", "fastlock"} : u[x] = t[x]
  /\ \A r \in Registers \ {"FAST_LOCK", "VCO_ALC"} : u.reg[r] = t.reg[r]

LEMMA BesidesStill ==
  ASSUME NEW s, NEW t, Still(s, t), NEW u, Besides(t, u),
         Locks(u.fastlock, u.reg.FAST_LOCK, u.reg.VCO_ALC)
  PROVE  Still(s, u)
<1>1. /\ DOMAIN u = DOMAIN t /\ DOMAIN u.reg = DOMAIN t.reg
      /\ u.chip = t.chip /\ u.fdd = t.fdd /\ u.prev_ensm_state = t.prev_ensm_state
      /\ u.curr_ensm_state = t.curr_ensm_state /\ u.ensm_pin_ctl_en = t.ensm_pin_ctl_en
      /\ u.bypass_rx_fir = t.bypass_rx_fir /\ u.bypass_tx_fir = t.bypass_tx_fir
      /\ u.hdl_dac_version = t.hdl_dac_version /\ u.rf_rx_input_sel = t.rf_rx_input_sel
      /\ u.fdd_independent_mode = t.fdd_independent_mode /\ u.dev_sel = t.dev_sel
      /\ u.current_lo_freq = t.current_lo_freq /\ u.cached_rfpll_div = t.cached_rfpll_div
      /\ u.current_use_tdd_table = t.current_use_tdd_table
  BY DEF Besides, Fields
<1>2. /\ u.reg.STATE = t.reg.STATE /\ u.reg.ENSM_CONFIG_1 = t.reg.ENSM_CONFIG_1
      /\ u.reg.CLOCKS = t.reg.CLOCKS /\ u.reg.FDD_MODE = t.reg.FDD_MODE
      /\ u.reg.LUT = t.reg.LUT /\ u.reg.SYNTH = t.reg.SYNTH /\ u.reg.EXT_LO = t.reg.EXT_LO
  BY DEF Besides, Registers
<1>3. Lo(u) = Lo(t)
  BY <1>1, <1>2 DEF Lo
<1> QED BY <1>1, <1>2, <1>3 DEF Still, Steady, Intact, Undamaged, Whole

\* Leaving fast lock mode, the driver and the chip go together.
LEMMA PrepareStill ==
  ASSUME NEW s, NEW t, Still(s, t), NEW side \in Radio!Sides, NEW profile
  PROVE  Still(s, Radio!fastlock_prepare(t, side, profile, FALSE))
<1> DEFINE on == Radio!trx_vco_cal_control(t, side, TRUE)
           mask == on.reg.READY_MASK \ {side}
           off == [on EXCEPT !.reg.FAST_LOCK[side] = 0, !.reg.READY_MASK = mask,
                             !.fastlock.current_profile[side] = 0]
<1>1. Still(s, on)
  BY LoStill
<1>2. Radio!fastlock_prepare(t, side, profile, FALSE) \in {t, off}
  BY Zenon DEF Radio!fastlock_prepare
<1> HIDE DEF on, mask
<1>3. /\ Fields \subseteq DOMAIN on /\ Registers \subseteq DOMAIN on.reg
      /\ "current_profile" \in DOMAIN on.fastlock
      /\ Profiled(on.fastlock)
      /\ Used(on.fastlock.current_profile, on.reg.FAST_LOCK, on.reg.VCO_ALC)
  BY <1>1 DEF Still, Intact, Undamaged, Whole, Locks, Profiled
<1>4. /\ off.fastlock.current_profile = [on.fastlock.current_profile EXCEPT ![side] = 0]
      /\ off.fastlock.entry = on.fastlock.entry /\ DOMAIN off.fastlock = DOMAIN on.fastlock
      /\ off.reg.FAST_LOCK = [on.reg.FAST_LOCK EXCEPT ![side] = 0]
      /\ off.reg.VCO_ALC = on.reg.VCO_ALC
  BY <1>3 DEF Fields, Registers, Profiled
<1>5. Locks(off.fastlock, off.reg.FAST_LOCK, off.reg.VCO_ALC)
  <2> HIDE DEF off
  <2>1. Profiled(off.fastlock)
    BY <1>3, <1>4, ProfiledToo
  <2>2. Used(off.fastlock.current_profile, off.reg.FAST_LOCK, off.reg.VCO_ALC)
    BY <1>3, <1>4, UsedChanges
  <2> QED BY <2>1, <2>2 DEF Locks
<1>6. Besides(on, off)
  BY <1>3 DEF Besides, Fields, Registers
<1>7. Still(s, off)
  <2> HIDE DEF off
  <2> QED BY <1>1, <1>5, <1>6, BesidesStill
<1> QED BY <1>2, <1>7

LEMMA LoadStill ==
  ASSUME NEW s, NEW t, Still(s, t), NEW side \in Radio!Sides, NEW profile \in Radio!Profiles,
         NEW values, values.alc \in Nat
  PROVE  Still(s, Radio!fastlock_load(t, side, profile, values))
<1> DEFINE alc == values.alc
           new == [init |-> TRUE, word |-> values.word, lut |-> values.lut, alc |-> alc,
                   alc_orig |-> alc, alc_written |-> alc]
           loaded == [t EXCEPT !.fastlock.entry[side][profile] = new, !.rc = "ok"]
<1>1. Radio!fastlock_load(t, side, profile, values) = loaded
  BY Zenon DEF Radio!fastlock_load
<1>2. /\ {"alc", "alc_orig", "alc_written"} \subseteq DOMAIN new
      /\ new.alc_orig \in Nat /\ new.alc_written \in Nat /\ new.alc = new.alc_written
  OBVIOUS
<1> HIDE DEF new
<1>3. /\ Fields \subseteq DOMAIN t /\ Profiled(t.fastlock)
      /\ Used(t.fastlock.current_profile, t.reg.FAST_LOCK, t.reg.VCO_ALC)
  BY DEF Still, Intact, Undamaged, Whole, Locks
<1>4. /\ loaded.fastlock.current_profile = t.fastlock.current_profile /\ loaded.reg = t.reg
      /\ Profiled(loaded.fastlock)
  BY <1>2, <1>3, ZenonT(40) DEF Fields, Profiled
<1>5. Locks(loaded.fastlock, loaded.reg.FAST_LOCK, loaded.reg.VCO_ALC)
  BY <1>3, <1>4 DEF Locks
<1>6. Still(s, loaded)
  BY <1>5 DEF Still, Steady, Intact, Undamaged, Whole, Fields, Registers, Lo
<1> QED BY <1>1, <1>6

\* Together they leave tables that go together.
LEMMA BothFollow ==
  ASSUME NEW t, Whole(t), NEW side \in Radio!Sides, NEW rate, NEW parent
  PROVE  LET both == Radio!ProgramBoth(t, side, rate, parent) IN
         /\ Standing(t, both)
         /\ LedBy(Lo(t), side, rate) =>
              LoSound(Lo(both)) /\ Coupled(Lo(both)) /\ SameModes(Lo(t), Lo(both))
<1> DEFINE v == Lo(t)
           other == Radio!Other(side)
           otherRate == t.current_lo_freq[other]
<1>1. other \in Radio!Sides /\ Radio!Sides = {side, other} /\ Radio!Sides = {"rx", "tx"}
  BY DEF Radio!Sides, Radio!Other
<1>2. Radio!OtherToo(t) <=> Radio!OtherToo(v)
  BY DEF Radio!OtherToo, Lo
<1>3. Radio!validate_rfpll(t, side = "tx", otherRate)
        <=> Radio!validate_rfpll(v, side = "tx", otherRate)
  BY DEF Radio!validate_rfpll, Lo
<1>4. otherRate = v.current_lo_freq[other]
  BY DEF Lo
<1>5. Standing(t, t)
  BY StillFacts, StandingWays
<1>6. CASE ~Radio!OtherToo(t)
  <2>1. Radio!ProgramBoth(t, side, rate, parent) = t
    BY <1>6 DEF Radio!ProgramBoth
  <2>2. LedBy(v, side, rate) => LoSound(v) /\ Coupled(v) /\ SameModes(v, v)
    <3> HIDE DEF v, other
    <3> QED BY <1>1, <1>2, <1>6 DEF Coupled, LedBy, LoSound, Apart, Radio!OtherToo, Table,
                                   SameModes
  <2> QED BY <1>5, <2>1, <2>2
<1>7. CASE Radio!OtherToo(t)
  <2> DEFINE chosen == IF Radio!validate_rfpll(v, side = "tx", otherRate) /\ otherRate # rate
                         THEN otherRate ELSE rate
             words == Radio!Words(chosen)
             ready == IF otherRate = rate THEN t ELSE Radio!fastlock_prepare(t, other, 0, FALSE)
             done == Radio!Program(ready, other, words, parent)
  <2>1. Radio!ProgramBoth(t, side, rate, parent) = done
    BY <1>3, <1>7, Zenon DEF Radio!ProgramBoth, Radio!ProgramOther
  <2>2. Standing(t, ready) /\ Lo(ready) = v
    <3>1. Standing(t, Radio!fastlock_prepare(t, other, 0, FALSE))
      BY <1>1, StillFacts, PrepareStill, StandingWays
    <3>2. Lo(Radio!fastlock_prepare(t, other, 0, FALSE)) = v
      BY CalView
    <3> QED BY <1>5, <3>1, <3>2
  <2>3. PICK row : /\ row.table = Table(~Apart(v))
                   /\ Lo(done) = Programmed(v, other, words, row)
    <3> HIDE DEF words, ready, v, other
    <3> QED BY <2>2, ProgramStands
  <2>4. Standing(t, done)
    <3> HIDE DEF words, ready, v, other
    <3> QED BY <2>2, ProgramStands
  <2>5. Suit(v, other, words)
    <3> DEFINE is_tx == side = "tx"
    <3>1. Receivable(v, otherRate) => Radio!validate_rfpll(v, is_tx, otherRate)
      <4>1. is_tx \in BOOLEAN
        OBVIOUS
      <4> HIDE DEF is_tx, v, other
      <4> QED BY <4>1, ReceiverToo
    <3>2. Receivable(v, otherRate) => chosen = otherRate
      <4> HIDE DEF v, other
      <4> QED BY <3>1
    <3> HIDE DEF v, other, otherRate, chosen
    <3> QED BY <1>4, <3>2, WordsAre DEF Suit
  <2> DEFINE q == Programmed(v, other, words, row)
  <2>6. LoSound(v) =>
          /\ LoSound(q) /\ SameModes(v, q) /\ q.current_lo_freq = v.current_lo_freq
          /\ q.current_use_tdd_table[other] = ~Apart(v)
          /\ \A r \in Radio!Sides \ {other} :
               q.current_use_tdd_table[r] = v.current_use_tdd_table[r]
    <3> HIDE DEF words, v, other, q
    <3>1. q = Programmed(v, other, words, row)
      BY DEF q
    <3> SUFFICES ASSUME LoSound(v) PROVE
          /\ LoSound(q) /\ SameModes(v, q) /\ q.current_lo_freq = v.current_lo_freq
          /\ q.current_use_tdd_table[other] = ~Apart(v)
          /\ \A r \in Radio!Sides \ {other} :
               q.current_use_tdd_table[r] = v.current_use_tdd_table[r]
      OBVIOUS
    <3> QED BY <1>1, <2>3, <2>5, <3>1, OtherSound
  <2>7. LedBy(v, side, rate) => LoSound(q) /\ Coupled(q) /\ SameModes(v, q)
    <3> HIDE DEF q, v, other
    <3> QED BY <1>1, <2>6 DEF Coupled, LedBy, LoSound, Apart, Table, SameModes
  <2> HIDE DEF q, done
  <2> QED BY <2>1, <2>3, <2>4, <2>6, <2>7 DEF q
<1> QED BY <1>6, <1>7

\* An LO is set with all that it takes: from tables that go together or not, to tables
\* that do.
LEMMA IntRateStill ==
  ASSUME NEW s, NEW t, Still(s, t), NEW side \in Radio!Sides, NEW rate, NEW parent
  PROVE  Still(s, Radio!rfpll_int_set_rate(t, side, rate, parent))
<1> DEFINE out == Radio!fastlock_prepare(t, side, 0, FALSE)
           noted == [out EXCEPT !.cached_rfpll_div[side] = Radio!Words(rate).div,
                                !.current_lo_freq[side] = rate]
           cal(u, on) == IF t.tdd_skip_vco_cal THEN Radio!trx_vco_cal_control(u, side, on) ELSE u
           begun == cal(noted, TRUE)
           one == Radio!Program(begun, side, Radio!Words(rate), parent)
           both == Radio!ProgramBoth(one, side, rate, parent)
           end == cal(both, FALSE)
           v == Lo(t)
<1>1. Still(s, out) /\ Standing(t, out) /\ Lo(out) = v
  BY StillFacts, PrepareStill, CalView, StandingWays
<1>2. ASSUME NEW u, NEW on, Standing(t, u)
      PROVE  Standing(t, cal(u, on)) /\ Lo(cal(u, on)) = Lo(u)
  <2>1. Whole(u)
    BY <1>2 DEF Standing, Undamaged
  <2>2. ASSUME NEW x
        PROVE  /\ Standing(t, Radio!trx_vco_cal_control(u, side, x))
               /\ Lo(Radio!trx_vco_cal_control(u, side, x)) = Lo(u)
    <3>1. Still(u, Radio!trx_vco_cal_control(u, side, x))
      BY <2>1, StillFacts, LoStill
    <3> QED BY <1>2, <2>1, <3>1, CalView, StandingWays
  <2> QED BY <1>2, <2>2
<1>3. Standing(t, noted) /\ Lo(noted) = Noted(v, side, rate)
  <2>1. noted = LoNoted(out, side, rate)
    BY DEF LoNoted
  <2> HIDE DEF out, v, noted
  <2>2. Standing(t, noted) /\ Lo(noted) = Noted(Lo(out), side, rate)
    BY <1>1, <2>1, NotedStands
  <2> QED BY <1>1, <2>2
<1>4. Standing(t, begun) /\ Lo(begun) = Noted(v, side, rate)
  <2> HIDE DEF noted, cal
  <2> QED BY <1>2, <1>3
<1>5. Standing(t, one) /\ \E row : /\ row.table = Table(~Apart(Noted(v, side, rate)))
                                   /\ Lo(one) = Programmed(Noted(v, side, rate), side,
                                                           Radio!Words(rate), row)
  <2> HIDE DEF begun
  <2> QED BY <1>4, ProgramStands
<1>6. LoSound(v) /\ Radio!validate_rfpll(v, side = "tx", rate) =>
        LedBy(Lo(one), side, rate) /\ SameModes(v, Lo(one))
  <2> HIDE DEF one, v
  <2> QED BY <1>5, LoSetSound
<1>7. /\ Standing(one, both)
      /\ LedBy(Lo(one), side, rate) =>
           LoSound(Lo(both)) /\ Coupled(Lo(both)) /\ SameModes(Lo(one), Lo(both))
  <2>1. Whole(one)
    BY <1>5 DEF Standing, Undamaged
  <2> HIDE DEF one
  <2> QED BY <2>1, BothFollow
<1>8. Standing(t, both)
  <2> HIDE DEF one, both
  <2> QED BY <1>5, <1>7 DEF Standing, Undamaged, Steady
<1>9. Standing(t, end) /\ Lo(end) = Lo(both)
  <2> HIDE DEF both, cal
  <2> QED BY <1>2, <1>8
<1>10. Radio!validate_rfpll(v, side = "tx", rate) => Still(s, end)
  <2>1. Radio!validate_rfpll(v, side = "tx", rate) => Follows(v, Lo(end))
    <3> HIDE DEF one, both, end, v
    <3> QED BY <1>6, <1>7, <1>9 DEF Follows, SameModes
  <2>2. Radio!validate_rfpll(v, side = "tx", rate) => Still(t, end)
    <3> HIDE DEF end
    <3> QED BY <1>9, <2>1 DEF Still, Standing, Intact
  <2> HIDE DEF end, v
  <2> QED BY <2>2, StillFacts
<1>11. Still(s, Radio!Result(out, "EINVAL"))
  BY <1>1, ResultStill
<1>12. Radio!rfpll_int_set_rate(t, side, rate, parent) =
         IF ~Radio!validate_rfpll(t, side = "tx", rate) THEN Radio!Result(out, "EINVAL") ELSE end
  BY Zenon DEF Radio!rfpll_int_set_rate
<1>13. Radio!validate_rfpll(t, side = "tx", rate) <=> Radio!validate_rfpll(v, side = "tx", rate)
  BY DEF Radio!validate_rfpll, Lo
<1> HIDE DEF out, end, v
<1> QED BY <1>10, <1>11, <1>12, <1>13

LEMMA RateSetStill ==
  ASSUME NEW s, NEW t, Still(s, t), NEW side \in Radio!Sides, NEW rate
  PROVE  Still(s, Radio!RateSet(t, side, rate))
  BY IntRateStill, LoStill DEF Radio!RateSet

\* From outside or inside again: the divider goes out of use or comes back into it.
LEMMA ExtLoStill ==
  ASSUME NEW s, NEW t, Still(s, t), NEW side, NEW enable
  PROVE  Still(s, Radio!trx_ext_lo_control(t, side, enable))
<1> DEFINE pd == IF enable /\ "RF" \notin t.reg.MCS THEN t.reg.SYNTH_PD \cup {side}
                 ELSE t.reg.SYNTH_PD \ {side}
           ready == IF enable THEN t.reg.READY_MASK \cup {side} ELSE t.reg.READY_MASK \ {side}
           div == IF enable THEN 7 ELSE t.cached_rfpll_div[side]
           ext == IF enable THEN t.reg.EXT_LO \cup {side} ELSE t.reg.EXT_LO \ {side}
           end == [t EXCEPT !.reg.SYNTH_PD = pd, !.reg.READY_MASK = ready,
                            !.reg.SYNTH[side].div = div, !.reg.EXT_LO = ext, !.rc = "ok"]
<1>1. Radio!trx_ext_lo_control(t, side, enable) = end
  BY SMT DEF Radio!trx_ext_lo_control
<1> DEFINE v == Lo(t)
           w == Lo(end)
<1>2. Standing(t, end)
  <2>1. Standing(t, t)
    BY StillFacts, StandingWays
  <2> HIDE DEF pd, ready, div, ext
  <2> QED BY <2>1, ZenonT(60) DEF Standing, Undamaged, Steady, Whole, Fields, Registers
<1>3. Follows(v, w)
  <2>1. /\ Parts \subseteq DOMAIN w /\ SameModes(v, w)
        /\ w.current_lo_freq = v.current_lo_freq /\ w.cached_rfpll_div = v.cached_rfpll_div
        /\ w.current_use_tdd_table = v.current_use_tdd_table /\ w.LUT = v.LUT
        /\ w.SYNTH = [v.SYNTH EXCEPT ![side].div = div] /\ w.EXT_LO = ext
    <3> HIDE DEF pd, ready, div, ext
    <3>1. Whole(t)
      BY StillFacts
    <3> QED BY <3>1, ZenonT(60) DEF Whole, Fields, Registers, Lo, Parts, SameModes
  <2>2. /\ div = IF enable THEN 7 ELSE v.cached_rfpll_div[side]
        /\ ext = IF enable THEN v.EXT_LO \cup {side} ELSE v.EXT_LO \ {side}
    BY DEF Lo
  <2>3. \A f : Receivable(w, f) <=> Receivable(v, f)
    <3> HIDE DEF w, v
    <3> QED BY <2>1 DEF SameModes, Receivable, Radio!validate_rfpll
  <2> HIDE DEF v, w, div, ext
  <2> SUFFICES ASSUME LoSound(v) PROVE LoSound(w)
    <3>1. LoSound(v) => \A r \in Radio!Sides : w.SYNTH[r].vco = v.SYNTH[r].vco
      BY <2>1 DEF LoSound
    <3> QED BY <2>1, <3>1 DEF Follows
  <2>4. ASSUME NEW r \in Radio!Sides
        PROVE  /\ w.SYNTH[r] = [vco |-> w.SYNTH[r].vco, div |-> w.SYNTH[r].div]
               /\ w.SYNTH[r].vco = v.SYNTH[r].vco
               /\ w.SYNTH[r].div = IF r = side THEN div ELSE v.SYNTH[r].div
    <3>1. v.SYNTH[r] = [vco |-> v.SYNTH[r].vco, div |-> v.SYNTH[r].div] /\ r \in DOMAIN v.SYNTH
      BY DEF LoSound
    <3>2. CASE r # side
      BY <2>1, <3>1, <3>2
    <3>3. CASE r = side
      <4>1. w.SYNTH[r] = [v.SYNTH[r] EXCEPT !.div = div]
        BY <2>1, <3>1, <3>3
      <4> QED BY <3>1, <3>3, <4>1
    <3> QED BY <3>2, <3>3
  <2>5. ASSUME NEW r \in Radio!Sides, Receivable(w, w.current_lo_freq[r])
        PROVE  /\ w.cached_rfpll_div[r] = Radio!Words(w.current_lo_freq[r]).div
               /\ w.SYNTH[r].vco = Radio!Words(w.current_lo_freq[r]).vco
               /\ r \notin w.EXT_LO => w.SYNTH[r].div = Radio!Words(w.current_lo_freq[r]).div
    <3>1. Receivable(v, v.current_lo_freq[r])
      BY <2>1, <2>3, <2>5
    <3>2. /\ v.cached_rfpll_div[r] = Radio!Words(v.current_lo_freq[r]).div
          /\ v.SYNTH[r].vco = Radio!Words(v.current_lo_freq[r]).vco
          /\ r \notin v.EXT_LO => v.SYNTH[r].div = Radio!Words(v.current_lo_freq[r]).div
      BY <3>1 DEF LoSound
    <3> QED BY <2>1, <2>2, <2>4, <3>2
  <2> QED BY <2>1, <2>4, <2>5, ZenonT(60) DEF LoSound, SameModes
<1>4. Still(s, end)
  <2>1. Still(t, end)
    <3> HIDE DEF end, v, w
    <3> QED BY <1>2, <1>3 DEF v, w, Still, Standing, Intact
  <2> HIDE DEF end
  <2> QED BY <2>1, StillFacts
<1> QED BY <1>1, <1>4

LEMMA McsStill ==
  ASSUME NEW s, NEW t, Still(s, t), NEW step \in Nat
  PROVE  Still(s, Radio!mcs(t, step)) /\ Lo(Radio!mcs(t, step)) = Lo(t)
<1> USE DEF Still, Steady, Intact, Undamaged, Whole, Fields, Registers, Lo
<1>1. CASE step = 1
  BY <1>1 DEF Radio!mcs
<1>2. CASE step = 3
  BY <1>2 DEF Radio!mcs
<1>3. CASE step = 5
  BY <1>3 DEF Radio!mcs
<1>4. CASE step \notin {1, 3, 5}
  BY <1>4 DEF Radio!mcs, Radio!Result
<1> QED BY <1>1, <1>2, <1>3, <1>4

\* The chip has been in fast lock mode, or is prepared for it now.
Prepared(t, u, side, p) ==
  \/ u = t
  \/ \E mask : u = [t EXCEPT !.reg.FAST_LOCK[side] = p + 1, !.reg.READY_MASK = mask]

\* The profile that is recalled brings the VCO the word in its memory.
LEMMA SelectedStill ==
  ASSUME NEW s, NEW t, Still(s, t), NEW side \in Radio!Sides, NEW p \in Radio!Profiles,
         NEW u, Prepared(t, u, side, p)
  PROVE  /\ Still(s, Radio!Selected(u, side, p))
         /\ Radio!Selected(u, side, p).reg.VCO_ALC[side] = t.fastlock.entry[side][p].alc
<1> DEFINE word == u.fastlock.entry[side][p].alc
           end == [u EXCEPT !.fastlock.current_profile[side] = p + 1,
                            !.reg.FAST_LOCK[side] = p + 1,
                            !.reg.VCO_ALC[side] = word, !.rc = "ok"]
<1> DEFINE Ready(mask) == [t EXCEPT !.reg.FAST_LOCK[side] = p + 1, !.reg.READY_MASK = mask]
<1>1. Radio!Selected(u, side, p) = end
  BY Zenon DEF Radio!Selected
<1>2. PICK mask : u = t \/ u = Ready(mask)
  BY Zenon DEF Prepared
<1>3. /\ Fields \subseteq DOMAIN t /\ Registers \subseteq DOMAIN t.reg
      /\ Profiled(t.fastlock)
      /\ Used(t.fastlock.current_profile, t.reg.FAST_LOCK, t.reg.VCO_ALC)
  BY DEF Still, Intact, Undamaged, Whole, Locks
<1>4. word = t.fastlock.entry[side][p].alc
  BY <1>3, <1>2 DEF Fields
<1> HIDE DEF word
<1>5. /\ DOMAIN t.reg.FAST_LOCK = Radio!Sides /\ DOMAIN t.reg.VCO_ALC = Radio!Sides
      /\ {"entry", "current_profile"} \subseteq DOMAIN t.fastlock
  BY <1>3 DEF Used, Profiled
<1>6. /\ end.fastlock.current_profile = [t.fastlock.current_profile EXCEPT ![side] = p + 1]
      /\ end.fastlock.entry = t.fastlock.entry /\ DOMAIN end.fastlock = DOMAIN t.fastlock
      /\ end.reg.FAST_LOCK = [t.reg.FAST_LOCK EXCEPT ![side] = p + 1]
      /\ end.reg.VCO_ALC = [t.reg.VCO_ALC EXCEPT ![side] = word]
  <2> DEFINE ready == Ready(mask)
             From(v) == [v EXCEPT !.fastlock.current_profile[side] = p + 1,
                                  !.reg.FAST_LOCK[side] = p + 1,
                                  !.reg.VCO_ALC[side] = word, !.rc = "ok"]
  <2>1. CASE u = t
    <3>1. end = From(t)
      BY <2>1
    <3> HIDE DEF end
    <3> QED BY <1>3, <1>5, <3>1 DEF Fields, Registers
  <2>2. CASE u = ready
    <3>1. end = From(ready)
      BY <2>2
    <3>2. /\ ready.fastlock = t.fastlock /\ DOMAIN ready = DOMAIN t
          /\ DOMAIN ready.reg = DOMAIN t.reg
          /\ ready.reg.FAST_LOCK = [t.reg.FAST_LOCK EXCEPT ![side] = p + 1]
          /\ ready.reg.VCO_ALC = t.reg.VCO_ALC
      BY <1>3 DEF Fields, Registers
    <3> HIDE DEF end, ready
    <3> QED BY <1>3, <1>5, <3>1, <3>2 DEF Fields, Registers
  <2> QED BY <1>2, <2>1, <2>2
<1>7. Locks(end.fastlock, end.reg.FAST_LOCK, end.reg.VCO_ALC)
  <2> HIDE DEF end
  <2>1. Profiled(end.fastlock)
    BY <1>3, <1>6, ProfiledToo
  <2>2. Used(end.fastlock.current_profile, end.reg.FAST_LOCK, end.reg.VCO_ALC)
    <3>1. Used([t.fastlock.current_profile EXCEPT ![side] = p + 1],
               [t.reg.FAST_LOCK EXCEPT ![side] = p + 1], [t.reg.VCO_ALC EXCEPT ![side] = word])
      BY <1>3, UsedChanges
    <3> QED BY <1>6, <3>1
  <2> QED BY <2>1, <2>2 DEF Locks
<1>8. end.reg.VCO_ALC[side] = word
  BY <1>5, <1>6
<1>9. Besides(t, end)
  <2> DEFINE ready == Ready(mask)
  <2>1. Besides(t, u)
    <3>1. CASE u = t
      BY <3>1 DEF Besides
    <3>2. CASE u = ready
      BY <1>3, <3>2 DEF Besides, Fields, Registers
    <3> QED BY <1>2, <3>1, <3>2
  <2>2. Besides(u, end)
    BY <1>3, <2>1 DEF Besides, Fields, Registers
  <2> HIDE DEF end
  <2> QED BY <2>1, <2>2 DEF Besides
<1>10. Still(s, end)
  <2> HIDE DEF end
  <2> QED BY <1>7, <1>9, BesidesStill
<1> QED BY <1>1, <1>4, <1>8, <1>10

\* A recall brings an ALC word that is not the one in use.
LEMMA RecallFresh ==
  ASSUME NEW s, Whole(s), NEW side \in Radio!Sides, NEW p \in Radio!Profiles
  PROVE  LET t == Radio!fastlock_recall(s, side, p)
         IN /\ Still(s, t)
            /\ Radio!Ok(t) => \/ Radio!Rewritten(s, side)
                              \/ t.reg.VCO_ALC[side] # Radio!Alc(s, side)
<1> DEFINE entry == s.fastlock.entry[side][p]
           current == s.fastlock.current_profile[side]
           curr == IF current = 0 THEN s.chip.alc
                    ELSE s.fastlock.entry[side][current - 1].alc_written
           other == IF entry.alc_orig = entry.alc_written THEN (entry.alc_written + 1) % 128
                    ELSE entry.alc_orig
           changed == [s EXCEPT !.fastlock.entry[side][p].alc_written = other,
                                !.fastlock.entry[side][p].alc = other]
           written == IF curr # entry.alc_written THEN s ELSE changed
           ready == Radio!fastlock_prepare(written, side, p, TRUE)
           end == Radio!Selected(ready, side, p)
<1>1. /\ Fields \subseteq DOMAIN s /\ Registers \subseteq DOMAIN s.reg /\ Profiled(s.fastlock)
      /\ Used(s.fastlock.current_profile, s.reg.FAST_LOCK, s.reg.VCO_ALC)
      /\ Still(s, s)
  BY StillFacts DEF Whole, Locks
<1>2. /\ entry.alc = entry.alc_written
      /\ other \in Nat /\ (curr = entry.alc_written => other # curr)
  <2>1. entry.alc_written \in Nat /\ entry.alc_orig \in Nat /\ entry.alc = entry.alc_written
    BY <1>1 DEF Profiled
  <2> HIDE DEF entry, curr
  <2> QED BY <2>1
<1>3. \/ Radio!Rewritten(s, side)
      \/ curr = Radio!Alc(s, side)
  <2>1. /\ s.reg.FAST_LOCK[side] = current
        /\ current = 0 \/ current - 1 \in Radio!Profiles
    <3> HIDE DEF entry, curr, other, changed, written
    <3>1. /\ s.reg.FAST_LOCK[side] = s.fastlock.current_profile[side]
          /\ s.reg.FAST_LOCK[side] = 0 \/ s.reg.FAST_LOCK[side] - 1 \in Radio!Profiles
      BY <1>1, UsedSide
    <3> QED BY <3>1
  <2>2. current # 0 => s.fastlock.entry[side][current - 1].alc
                         = s.fastlock.entry[side][current - 1].alc_written
    BY <1>1, <2>1 DEF Profiled
  <2> QED BY <2>1, <2>2 DEF Radio!Rewritten, Radio!Alc
<1> HIDE DEF other
<1>4. Still(s, changed) /\ changed.fastlock.entry[side][p].alc = other
  <2>1. /\ Profiled(changed.fastlock) /\ changed.reg = s.reg
        /\ changed.fastlock.current_profile = s.fastlock.current_profile
        /\ changed.fastlock.entry[side][p].alc = other
    <3> DEFINE new == [entry EXCEPT !.alc_written = other, !.alc = other]
    <3>1. changed = [s EXCEPT !.fastlock.entry[side][p] = new]
      BY <1>1, ZenonT(40) DEF Fields, Profiled
    <3>2. /\ {"alc", "alc_orig", "alc_written"} \subseteq DOMAIN new
          /\ new.alc_orig \in Nat /\ new.alc_written \in Nat
          /\ new.alc = new.alc_written /\ new.alc = other
      BY <1>1, <1>2 DEF Profiled
    <3> HIDE DEF new, changed
    <3> QED BY <1>1, <3>1, <3>2, ZenonT(40) DEF Fields, Profiled
  <2>2. Besides(s, changed)
    BY <1>1 DEF Besides, Fields, Registers
  <2> HIDE DEF changed
  <2>3. Locks(changed.fastlock, changed.reg.FAST_LOCK, changed.reg.VCO_ALC)
    BY <1>1, <2>1 DEF Locks
  <2>4. Still(s, changed)
    BY <1>1, <2>2, <2>3, BesidesStill
  <2> QED BY <2>1, <2>4
<1> HIDE DEF changed
<1>5. Still(s, written) /\ written.fastlock.entry[side][p].alc # curr
  BY <1>1, <1>2, <1>4
<1> HIDE DEF entry, curr, written
<1>6. Still(s, end) /\ end.reg.VCO_ALC[side] # curr
  <2> DEFINE off == Radio!trx_vco_cal_control(written, side, FALSE)
             mask == off.reg.READY_MASK \cup {side}
             on == [off EXCEPT !.reg.FAST_LOCK[side] = p + 1, !.reg.READY_MASK = mask]
  <2>1. Still(s, off) /\ off.fastlock = written.fastlock
    <3>1. "fastlock" \in DOMAIN written
      BY <1>5 DEF Still, Intact, Undamaged, Whole, Fields
    <3> QED BY <1>5, <3>1, LoStill DEF Radio!trx_vco_cal_control
  <2>2. ready \in {written, on}
    BY Zenon DEF Radio!fastlock_prepare
  <2> HIDE DEF off, mask, ready, on
  <2>3. CASE ready = written
    <3>1. Prepared(written, ready, side, p)
      BY <2>3 DEF Prepared
    <3> QED BY <1>5, <2>3, <3>1, SelectedStill
  <2>4. CASE ready = on
    <3>1. /\ Still(s, Radio!Selected(on, side, p))
          /\ Radio!Selected(on, side, p).reg.VCO_ALC[side] = off.fastlock.entry[side][p].alc
      <4>1. Prepared(off, on, side, p)
        BY Zenon DEF Prepared, on
      <4> QED BY <2>1, <4>1, SelectedStill
    <3> QED BY <1>5, <2>1, <2>4, <3>1
  <2> QED BY <2>2, <2>3, <2>4
<1> HIDE DEF end
<1>7. Radio!fastlock_recall(s, side, p) =
        IF ~entry.init THEN Radio!Result(s, "EINVAL") ELSE end
  BY Zenon DEF Radio!fastlock_recall, entry, other, curr, changed, written, ready, end
<1>8. Still(s, Radio!Result(s, "EINVAL")) /\ ~Radio!Ok(Radio!Result(s, "EINVAL"))
  BY StillFacts, ResultStill DEF Radio!Ok, Radio!Result, Whole, Fields
<1> QED BY <1>3, <1>6, <1>7, <1>8

-----------------------------------------------------------------------------
(* The enable state machine *)

\* As Still, but for the mode, which the tuning of the interface changes in TDD.
Tuning(s, t) ==
  /\ Intact(s, t)
  /\ t.reg.STATE = s.reg.STATE /\ t.reg.ENSM_CONFIG_1 = s.reg.ENSM_CONFIG_1
  /\ t.ensm_pin_ctl_en = s.ensm_pin_ctl_en
  /\ s.fdd => t.reg.FDD_MODE = s.reg.FDD_MODE

\* The driver has taken the state machine somewhere else.
Aside(s, t) ==
  /\ Intact(s, t)
  /\ Pins(t) \/ t.ensm_pin_ctl_en => Given(s)
  /\ s.fdd => t.reg.FDD_MODE = s.reg.FDD_MODE

AtAlert(s, t) ==
  /\ Aside(s, t)
  /\ t.reg.FDD_MODE = s.reg.FDD_MODE
  /\ t.prev_ensm_state = s.reg.STATE
  /\ Pins(s) => Pins(t) \/ t.ensm_pin_ctl_en
  /\ t.reg.CLOCKS => t.reg.STATE = "ALERT"

\* It is where it was.  The pins have not gained it.
Back(s, t) ==
  /\ Intact(s, t)
  /\ t.reg.STATE = s.reg.STATE /\ t.reg.FDD_MODE = s.reg.FDD_MODE
  /\ Given(t) => Given(s)

\* Nor have they lost it.
Unmoved(s, t) == Back(s, t) /\ (s.reg.CLOCKS /\ Pins(s) => Pins(t))

LEMMA Ways ==
  /\ \A s, t : Still(s, t) => Tuning(s, t) /\ Unmoved(s, t)
  /\ \A s, t, u : Tuning(s, t) /\ Still(t, u) => Tuning(s, u)
  /\ \A s, t, u : Aside(s, t) /\ Still(t, u) => Aside(s, u)
  /\ \A s, t, u : AtAlert(s, t) /\ Still(t, u) => AtAlert(s, u)
<1>1. \A s, t : Still(s, t) => Tuning(s, t) /\ Unmoved(s, t)
  BY DEF Still, Steady, Tuning, Unmoved, Back, Given, Pins
<1>2. \A s, t, u : Tuning(s, t) /\ Still(t, u) => Tuning(s, u)
  BY FollowsWays DEF Still, Steady, Intact, Undamaged, Tuning
<1>3. \A s, t, u : Aside(s, t) /\ Still(t, u) => Aside(s, u)
  BY FollowsWays DEF Still, Steady, Intact, Undamaged, Aside, Pins
<1>4. \A s, t, u : AtAlert(s, t) /\ Still(t, u) => AtAlert(s, u)
  BY <1>3 DEF Still, Steady, Intact, Undamaged, AtAlert, Pins
<1> QED BY <1>1, <1>2, <1>3, <1>4

LEMMA BackWays ==
  /\ \A s, t : Unmoved(s, t) => Back(s, t)
  /\ \A s, t : Back(s, t) => Intact(s, t) /\ Whole(t)
  /\ \A s, t : Back(s, t) /\ Settled(s) => Settled(t)
  /\ \A s, t, u : Back(s, t) /\ Back(t, u) => Back(s, u)
  /\ \A s, t, u : Unmoved(s, t) /\ Unmoved(t, u) => Unmoved(s, u)
<1>1. \A s, t : Unmoved(s, t) => Back(s, t)
  BY DEF Unmoved
<1>2. \A s, t : Back(s, t) => Intact(s, t) /\ Whole(t)
  BY DEF Back, Intact, Undamaged
<1>3. \A s, t : Back(s, t) /\ Settled(s) => Settled(t)
  BY DEF Back, Intact, Undamaged, Settled
<1>4. \A s, t, u : Back(s, t) /\ Back(t, u) => Back(s, u)
  BY FollowsWays DEF Back, Intact, Undamaged
<1>5. \A s, t, u : Unmoved(s, t) /\ Unmoved(t, u) => Unmoved(s, u)
  BY <1>4 DEF Unmoved, Back, Intact, Undamaged
<1> QED BY <1>1, <1>2, <1>3, <1>4, <1>5

\* What the chip makes of its configuration, and nothing else.
LEMMA ConfigureFacts ==
  ASSUME NEW t, Whole(t), NEW bits
  PROVE  LET c == Radio!Configure(t, bits)
         IN /\ Intact(t, c)
            /\ c.reg.ENSM_CONFIG_1 = bits /\ c.reg.STATE = Radio!Moved(t, bits)
            /\ c.reg.FDD_MODE = t.reg.FDD_MODE /\ c.prev_ensm_state = t.prev_ensm_state
            /\ c.ensm_pin_ctl_en = t.ensm_pin_ctl_en /\ c.curr_ensm_state = t.curr_ensm_state
            /\ Lo(c) = Lo(t)
<1>1. ~t.reg.CLOCKS => Radio!Moved(t, bits) = t.reg.STATE
  BY DEF Radio!Moved, Whole
<1>2. Lo(Radio!Configure(t, bits)) = Lo(t)
  BY DEF Radio!Configure, Whole, Fields, Registers, Lo
<1>3. Follows(Lo(t), Lo(Radio!Configure(t, bits)))
  BY <1>2, FollowsWays
<1> HIDE DEF Lo
<1> QED BY <1>1, <1>2, <1>3 DEF Radio!Configure, Intact, Undamaged, Whole, Fields, Registers

LEMMA MovedFacts ==
  ASSUME NEW t, Whole(t), NEW bits
  PROVE  /\ ~t.reg.CLOCKS => Radio!Moved(t, bits) = t.reg.STATE
         /\ t.reg.CLOCKS /\ "FORCE_TX_ON" \in bits =>
              Radio!Moved(t, bits) = IF t.reg.FDD_MODE THEN "FDD" ELSE "TX"
         /\ t.reg.CLOCKS /\ "FORCE_TX_ON" \notin bits /\ "FORCE_RX_ON" \in bits =>
              Radio!Moved(t, bits) = IF t.reg.FDD_MODE THEN t.reg.STATE ELSE "RX"
         /\ /\ t.reg.CLOCKS /\ "FORCE_TX_ON" \notin bits /\ "FORCE_RX_ON" \notin bits
            /\ "TO_ALERT" \in bits \/ "FORCE_ALERT" \in bits
            => Radio!Moved(t, bits) = "ALERT"
<1>1. t.reg.CLOCKS \in BOOLEAN
  BY DEF Whole
<1>2. "FORCE_TX_ON" \notin bits /\ "FORCE_RX_ON" \notin bits
        => bits \cap {"FORCE_TX_ON", "FORCE_RX_ON"} = {}
  OBVIOUS
<1>3. "TO_ALERT" \in bits \/ "FORCE_ALERT" \in bits => bits \cap Radio!ToAlert # {}
  BY DEF Radio!ToAlert
<1> QED BY <1>1, <1>2, <1>3 DEF Radio!Moved

\* Wherever it is forced to, it is noted where it was; the pins lose it, and it is
\* noted that they had it, unless there is nowhere to go.
LEMMA ForceFacts ==
  ASSUME NEW t, Whole(t), NEW to, to \in {"ALERT", "FDD"}
  PROVE  LET f == Radio!ensm_force_state(t, to)
         IN /\ Intact(t, f)
            /\ f.prev_ensm_state = t.reg.STATE /\ f.reg.FDD_MODE = t.reg.FDD_MODE
            /\ IF t.reg.STATE = to
                 THEN f.reg.ENSM_CONFIG_1 = t.reg.ENSM_CONFIG_1
                      /\ f.ensm_pin_ctl_en = t.ensm_pin_ctl_en
                 ELSE ~Pins(f) /\ f.ensm_pin_ctl_en = Pins(t)
            /\ to = "ALERT" /\ t.reg.CLOCKS => f.reg.STATE = "ALERT"
<1> DEFINE f == Radio!ensm_force_state(t, to)
           cfg == t.reg.ENSM_CONFIG_1
           seen == [t EXCEPT !.prev_ensm_state = t.reg.STATE]
           taken == [seen EXCEPT !.ensm_pin_ctl_en = "PIN_CTRL" \in cfg]
           left == (cfg \ {"PIN_CTRL"})
                     \ (IF t.reg.STATE # "SLEEP_WAIT" THEN {"TO_ALERT"} ELSE {})
           bits == IF to = "ALERT" THEN (left \ Radio!ForceBits) \cup Radio!ToAlert
                   ELSE left \cup Radio!ForcedOn(to)
           alert == Radio!Configure(taken, Radio!ToAlert)
           there == Radio!Configure(alert, bits)
<1>1. /\ Intact(t, seen) /\ seen.reg = t.reg /\ seen.prev_ensm_state = t.reg.STATE
      /\ seen.ensm_pin_ctl_en = t.ensm_pin_ctl_en
      /\ Intact(t, taken) /\ taken.reg = t.reg /\ taken.prev_ensm_state = t.reg.STATE
      /\ taken.ensm_pin_ctl_en = ("PIN_CTRL" \in cfg)
  <2> DEFINE had == "PIN_CTRL" \in cfg
  <2>1. had \in BOOLEAN
    OBVIOUS
  <2> HIDE DEF had
  <2>2. /\ Intact(t, seen) /\ seen.reg = t.reg /\ seen.prev_ensm_state = t.reg.STATE
        /\ seen.ensm_pin_ctl_en = t.ensm_pin_ctl_en /\ DOMAIN seen = DOMAIN t
    BY FollowsWays DEF Intact, Undamaged, Whole, Fields, Registers, Lo
  <2>3. taken = [seen EXCEPT !.ensm_pin_ctl_en = had]
    BY DEF had
  <2> HIDE DEF seen, taken
  <2>4. /\ Intact(t, taken) /\ taken.reg = t.reg /\ taken.prev_ensm_state = t.reg.STATE
        /\ taken.ensm_pin_ctl_en = had
    BY <2>1, <2>2, <2>3 DEF Intact, Undamaged, Whole, Fields, Registers, Lo
  <2> QED BY <2>2, <2>4 DEF had
<1>2. "PIN_CTRL" \notin bits
  BY DEF Radio!ForceBits, Radio!ToAlert, Radio!ForcedOn
<1>3. to = "ALERT" => /\ "FORCE_TX_ON" \notin bits /\ "FORCE_RX_ON" \notin bits
                      /\ "FORCE_ALERT" \in bits
  BY DEF Radio!ForceBits, Radio!ToAlert
<1>4. f = IF t.reg.STATE = to THEN seen ELSE there
  <2>1. to \in {"TX", "FDD", "RX", "ALERT"}
    OBVIOUS
  <2> QED BY <2>1, Zenon DEF Radio!ensm_force_state
<1> HIDE DEF f, seen, taken, left, bits
<1>5. Whole(taken)
  BY <1>1 DEF Intact, Undamaged
<1>6. /\ Intact(taken, alert) /\ alert.reg.FDD_MODE = taken.reg.FDD_MODE
      /\ alert.prev_ensm_state = taken.prev_ensm_state
      /\ alert.ensm_pin_ctl_en = taken.ensm_pin_ctl_en
  BY <1>5, ConfigureFacts
<1> HIDE DEF alert
<1>7. Whole(alert)
  BY <1>6 DEF Intact, Undamaged
<1>8. /\ Intact(alert, there) /\ there.reg.FDD_MODE = alert.reg.FDD_MODE
      /\ there.prev_ensm_state = alert.prev_ensm_state
      /\ there.ensm_pin_ctl_en = alert.ensm_pin_ctl_en
      /\ there.reg.ENSM_CONFIG_1 = bits /\ there.reg.STATE = Radio!Moved(alert, bits)
  BY <1>7, ConfigureFacts
<1>9. to = "ALERT" /\ alert.reg.CLOCKS => Radio!Moved(alert, bits) = "ALERT"
  BY <1>3, <1>7, MovedFacts
<1> HIDE DEF there
<1>10. CASE t.reg.STATE = to
  BY <1>1, <1>4, <1>10 DEF f
<1>11. CASE t.reg.STATE # to
  <2>1. f = there
    BY <1>4, <1>11
  <2>2. Intact(t, f) /\ f.reg.FDD_MODE = t.reg.FDD_MODE /\ f.prev_ensm_state = t.reg.STATE
    BY <1>1, <1>6, <1>8, <2>1, FollowsWays DEF Intact, Undamaged
  <2>3. ~Pins(f) /\ f.ensm_pin_ctl_en = Pins(t)
    BY <1>1, <1>2, <1>6, <1>8, <2>1 DEF Pins
  <2>4. to = "ALERT" /\ t.reg.CLOCKS => f.reg.STATE = "ALERT"
    BY <1>1, <1>6, <1>8, <1>9, <2>1 DEF Intact, Undamaged
  <2> QED BY <1>11, <2>2, <2>3, <2>4 DEF f
<1> QED BY <1>10, <1>11

LEMMA ForceWays ==
  /\ \A s, t : Tuning(s, t) => Aside(s, Radio!ensm_force_state(t, "ALERT"))
  /\ \A s, t : Still(s, t) => AtAlert(s, Radio!ensm_force_state(t, "ALERT"))
  /\ \A s, t : \A to \in {"ALERT", "FDD"} :
       Aside(s, t) => Aside(s, Radio!ensm_force_state(t, to))
<1>1. ASSUME NEW s, NEW t, Tuning(s, t)
      PROVE  Aside(s, Radio!ensm_force_state(t, "ALERT"))
  <2>1. Whole(t)
    BY <1>1 DEF Tuning, Intact, Undamaged
  <2> DEFINE f == Radio!ensm_force_state(t, "ALERT")
  <2>2. /\ Intact(t, f) /\ f.reg.FDD_MODE = t.reg.FDD_MODE
        /\ IF t.reg.STATE = "ALERT"
             THEN f.reg.ENSM_CONFIG_1 = t.reg.ENSM_CONFIG_1
                  /\ f.ensm_pin_ctl_en = t.ensm_pin_ctl_en
             ELSE ~Pins(f) /\ f.ensm_pin_ctl_en = Pins(t)
    BY <2>1, ForceFacts
  <2> HIDE DEF f
  <2>3. Intact(s, f) /\ (s.fdd => f.reg.FDD_MODE = s.reg.FDD_MODE)
    BY <1>1, <2>2, FollowsWays DEF Tuning, Intact, Undamaged
  <2>4. Pins(f) \/ f.ensm_pin_ctl_en => Given(s)
    <3>1. (Pins(t) <=> Pins(s)) /\ s.reg.STATE = t.reg.STATE
          /\ s.ensm_pin_ctl_en = t.ensm_pin_ctl_en
      BY <1>1 DEF Tuning, Pins
    <3>2. t.reg.STATE = "ALERT" => (Pins(f) <=> Pins(t)) /\ f.ensm_pin_ctl_en = t.ensm_pin_ctl_en
      BY <2>2 DEF Pins
    <3>3. t.reg.STATE # "ALERT" => ~Pins(f) /\ f.ensm_pin_ctl_en = Pins(t)
      BY <2>2, Zenon
    <3> QED BY <3>1, <3>2, <3>3, Zenon DEF Given
  <2> QED BY <2>3, <2>4 DEF Aside, f
<1>2. ASSUME NEW s, NEW t, Still(s, t)
      PROVE  AtAlert(s, Radio!ensm_force_state(t, "ALERT"))
  <2> DEFINE f == Radio!ensm_force_state(t, "ALERT")
  <2>1. Whole(t) /\ Aside(s, f)
    BY <1>1, <1>2, Ways DEF Still, Steady, Intact, Undamaged
  <2>2. /\ Intact(t, f) /\ f.reg.FDD_MODE = t.reg.FDD_MODE
        /\ f.prev_ensm_state = t.reg.STATE
        /\ IF t.reg.STATE = "ALERT"
             THEN f.reg.ENSM_CONFIG_1 = t.reg.ENSM_CONFIG_1
             ELSE ~Pins(f) /\ f.ensm_pin_ctl_en = Pins(t)
        /\ t.reg.CLOCKS => f.reg.STATE = "ALERT"
    BY <2>1, ForceFacts
  <2> HIDE DEF f
  <2>3. AtAlert(s, f)
    BY <1>2, <2>1, <2>2 DEF Still, Steady, Intact, Undamaged, AtAlert, Pins
  <2> QED BY <2>3 DEF f
<1>3. ASSUME NEW s, NEW t, NEW to \in {"ALERT", "FDD"}, Aside(s, t)
      PROVE  Aside(s, Radio!ensm_force_state(t, to))
  <2> DEFINE f == Radio!ensm_force_state(t, to)
  <2>1. Whole(t)
    BY <1>3 DEF Aside, Intact, Undamaged
  <2>2. /\ Intact(t, f) /\ f.reg.FDD_MODE = t.reg.FDD_MODE
        /\ IF t.reg.STATE = to
             THEN f.reg.ENSM_CONFIG_1 = t.reg.ENSM_CONFIG_1
                  /\ f.ensm_pin_ctl_en = t.ensm_pin_ctl_en
             ELSE ~Pins(f) /\ f.ensm_pin_ctl_en = Pins(t)
    BY <2>1, ForceFacts
  <2> HIDE DEF f
  <2>3. Aside(s, f)
    BY <1>3, <2>2, FollowsWays DEF Intact, Undamaged, Aside, Pins
  <2> QED BY <2>3 DEF f
<1> QED BY <1>1, <1>2, <1>3

\* Where a restore goes: not from SLEEP_WAIT, where the chip is without its clocks.
LEMMA RestoreFacts ==
  ASSUME NEW t, Whole(t), NEW to
  PROVE  LET r == Radio!ensm_restore_state(t, to)
         IN /\ Intact(t, r)
            /\ r.reg.FDD_MODE = t.reg.FDD_MODE /\ r.ensm_pin_ctl_en = t.ensm_pin_ctl_en
            /\ to \notin {"TX", "FDD", "RX", "ALERT"} => r = t
            /\ to \in {"TX", "FDD", "RX", "ALERT"} =>
                 /\ Pins(r) <=> Pins(t) \/ t.ensm_pin_ctl_en
                 /\ t.reg.CLOCKS =>
                      /\ to = "ALERT" => r.reg.STATE = "ALERT"
                      /\ to \in {"TX", "FDD"} =>
                           r.reg.STATE = IF t.reg.FDD_MODE THEN "FDD" ELSE "TX"
                      /\ to = "RX" /\ ~t.reg.FDD_MODE => r.reg.STATE = "RX"
<1> DEFINE bits == (t.reg.ENSM_CONFIG_1 \ Radio!ForceBits) \cup {"TO_ALERT"} \cup Radio!ForcedOn(to)
           pins == bits \cup {"PIN_CTRL"}
           alert == Radio!Configure(t, Radio!ToAlert)
           restored == Radio!Configure(alert, bits)
           given == Radio!Configure(restored, pins)
           modes == {"TX", "FDD", "RX", "ALERT"}
           Shown(r, x) ==
             /\ Intact(t, r)
             /\ r.reg.FDD_MODE = t.reg.FDD_MODE /\ r.ensm_pin_ctl_en = t.ensm_pin_ctl_en
             /\ r.reg.ENSM_CONFIG_1 = x
             /\ t.reg.CLOCKS =>
                  /\ to = "ALERT" => r.reg.STATE = "ALERT"
                  /\ to \in {"TX", "FDD"} => r.reg.STATE = IF t.reg.FDD_MODE THEN "FDD" ELSE "TX"
                  /\ to = "RX" /\ ~t.reg.FDD_MODE => r.reg.STATE = "RX"
<1>1. t.ensm_pin_ctl_en \in BOOLEAN
  BY DEF Whole
<1>2. Radio!ensm_restore_state(t, to) =
        IF to \notin modes THEN t ELSE IF t.ensm_pin_ctl_en THEN given ELSE restored
  <2>1. CASE to \notin modes
    BY <2>1, Zenon DEF Radio!ensm_restore_state
  <2>2. CASE to \in modes /\ ~t.ensm_pin_ctl_en
    BY <2>2, Zenon DEF Radio!ensm_restore_state
  <2>3. CASE to \in modes /\ t.ensm_pin_ctl_en
    BY <2>3, Zenon DEF Radio!ensm_restore_state
  <2> QED BY <1>1, <2>1, <2>2, <2>3, Zenon
<1>3. ASSUME NEW x \in {bits, pins}
      PROVE  /\ to = "ALERT" => /\ "FORCE_TX_ON" \notin x /\ "FORCE_RX_ON" \notin x
                                /\ "TO_ALERT" \in x
             /\ to \in {"TX", "FDD"} => "FORCE_TX_ON" \in x
             /\ to = "RX" => "FORCE_TX_ON" \notin x /\ "FORCE_RX_ON" \in x
  BY <1>3 DEF Radio!ForceBits, Radio!ForcedOn
<1>4. ("PIN_CTRL" \in bits <=> Pins(t)) /\ "PIN_CTRL" \in pins
  BY DEF Pins, Radio!ForceBits, Radio!ForcedOn
<1> HIDE DEF bits, pins
<1>5. /\ Intact(t, alert) /\ alert.reg.FDD_MODE = t.reg.FDD_MODE
      /\ alert.ensm_pin_ctl_en = t.ensm_pin_ctl_en
  BY ConfigureFacts
<1> HIDE DEF alert
<1>6. ASSUME NEW u, Intact(t, u), u.reg.FDD_MODE = t.reg.FDD_MODE,
             u.ensm_pin_ctl_en = t.ensm_pin_ctl_en, NEW x \in {bits, pins}
      PROVE  Shown(Radio!Configure(u, x), x)
  <2> DEFINE c == Radio!Configure(u, x)
  <2>1. Whole(u)
    BY <1>6 DEF Intact, Undamaged
  <2>2. /\ Intact(u, c) /\ c.reg.FDD_MODE = u.reg.FDD_MODE
        /\ c.ensm_pin_ctl_en = u.ensm_pin_ctl_en
        /\ c.reg.ENSM_CONFIG_1 = x /\ c.reg.STATE = Radio!Moved(u, x)
    BY <2>1, ConfigureFacts
  <2> HIDE DEF c
  <2>3. Intact(t, c)
    BY <1>6, <2>2, FollowsWays DEF Intact, Undamaged
  <2>4. t.reg.CLOCKS =>
          /\ to = "ALERT" => c.reg.STATE = "ALERT"
          /\ to \in {"TX", "FDD"} => c.reg.STATE = IF t.reg.FDD_MODE THEN "FDD" ELSE "TX"
          /\ to = "RX" /\ ~t.reg.FDD_MODE => c.reg.STATE = "RX"
    BY <1>3, <1>6, <2>1, <2>2, MovedFacts DEF Intact, Undamaged
  <2>5. Shown(c, x)
    BY <1>6, <2>2, <2>3, <2>4
  <2> QED BY <2>5 DEF c
<1>7. Shown(restored, bits)
  BY <1>5, <1>6
<1>8. Shown(given, pins)
  <2>1. /\ Intact(t, restored) /\ restored.reg.FDD_MODE = t.reg.FDD_MODE
        /\ restored.ensm_pin_ctl_en = t.ensm_pin_ctl_en
    BY <1>7
  <2> HIDE DEF restored, Shown
  <2> QED BY <1>6, <2>1
<1> HIDE DEF restored, given
<1>9. CASE to \notin modes
  BY <1>2, <1>9, FollowsWays DEF Intact, Undamaged
<1>10. CASE to \in modes /\ ~t.ensm_pin_ctl_en
  BY <1>2, <1>4, <1>7, <1>10 DEF Pins
<1>11. CASE to \in modes /\ t.ensm_pin_ctl_en
  BY <1>2, <1>4, <1>8, <1>11 DEF Pins
<1> QED BY <1>1, <1>9, <1>10, <1>11

\* What was taken away is brought back, with a note of where it was or without.
LEMMA RestoreWays ==
  /\ \A s, t : Aside(s, t) => Intact(s, Radio!ensm_restore_prev_state(t))
  /\ \A s, t : Settled(s) /\ Whole(s) /\ Aside(s, t) /\ t.reg.FDD_MODE = s.reg.FDD_MODE =>
                 Back(s, Radio!ensm_restore_state(t, s.reg.STATE))
  /\ \A s, t : Settled(s) /\ Whole(s) /\ AtAlert(s, t) =>
                 Unmoved(s, Radio!ensm_restore_prev_state(t))
<1>1. ASSUME NEW s, NEW t, Aside(s, t)
      PROVE  Intact(s, Radio!ensm_restore_prev_state(t))
  <2>1. Whole(t)
    BY <1>1 DEF Aside, Intact, Undamaged
  <2>2. Intact(t, Radio!ensm_restore_state(t, t.prev_ensm_state))
    BY <2>1, RestoreFacts
  <2> QED BY <1>1, <2>2, FollowsWays DEF Aside, Intact, Undamaged, Radio!ensm_restore_prev_state
<1>2. ASSUME NEW s, NEW t, Settled(s), Whole(s), Aside(s, t), t.reg.FDD_MODE = s.reg.FDD_MODE
      PROVE  Back(s, Radio!ensm_restore_state(t, s.reg.STATE))
  <2> DEFINE r == Radio!ensm_restore_state(t, s.reg.STATE)
             modes == {"TX", "FDD", "RX", "ALERT"}
  <2>1. Whole(t) /\ t.reg.CLOCKS = s.reg.CLOCKS
    BY <1>2 DEF Aside, Intact, Undamaged
  <2>2. /\ Intact(t, r)
        /\ r.reg.FDD_MODE = t.reg.FDD_MODE /\ r.ensm_pin_ctl_en = t.ensm_pin_ctl_en
        /\ s.reg.STATE \notin modes => r = t
        /\ s.reg.STATE \in modes =>
             /\ Pins(r) <=> Pins(t) \/ t.ensm_pin_ctl_en
             /\ t.reg.CLOCKS =>
                  /\ s.reg.STATE = "ALERT" => r.reg.STATE = "ALERT"
                  /\ s.reg.STATE \in {"TX", "FDD"} =>
                       r.reg.STATE = IF t.reg.FDD_MODE THEN "FDD" ELSE "TX"
                  /\ s.reg.STATE = "RX" /\ ~t.reg.FDD_MODE => r.reg.STATE = "RX"
    BY <2>1, RestoreFacts
  <2> HIDE DEF r
  <2>3. Intact(s, r) /\ r.reg.FDD_MODE = s.reg.FDD_MODE
    BY <1>2, <2>2, FollowsWays DEF Aside, Intact, Undamaged
  <2>4. r.reg.STATE = s.reg.STATE
    <3>1. CASE s.reg.CLOCKS
      BY <1>2, <2>1, <2>2, <3>1 DEF Settled, Whole
    <3>2. CASE ~s.reg.CLOCKS
      BY <1>2, <2>3, <3>2 DEF Intact, Undamaged, Whole
    <3> QED BY <3>1, <3>2
  <2>5. Given(r) => Given(s)
    BY <1>2, <2>2, Zenon DEF Aside, Given
  <2> QED BY <2>3, <2>4, <2>5 DEF Back, r
<1>3. ASSUME NEW s, NEW t, Settled(s), Whole(s), AtAlert(s, t)
      PROVE  Unmoved(s, Radio!ensm_restore_prev_state(t))
  <2> DEFINE r == Radio!ensm_restore_state(t, s.reg.STATE)
  <2>1. r = Radio!ensm_restore_prev_state(t)
    BY <1>3 DEF AtAlert, Radio!ensm_restore_prev_state
  <2>2. Back(s, r)
    BY <1>2, <1>3 DEF AtAlert
  <2>3. s.reg.CLOCKS /\ Pins(s) => Pins(r)
    <3>1. Whole(t)
      BY <1>3 DEF AtAlert, Aside, Intact, Undamaged
    <3>2. s.reg.STATE \in {"TX", "FDD", "RX", "ALERT"} => (Pins(r) <=> Pins(t) \/ t.ensm_pin_ctl_en)
      BY <3>1, RestoreFacts
    <3>3. s.reg.CLOCKS => s.reg.STATE \in {"TX", "FDD", "RX", "ALERT"}
      BY <1>3 DEF Settled, Whole
    <3> QED BY <1>3, <3>2, <3>3, Zenon DEF AtAlert
  <2> QED BY <2>1, <2>2, <2>3 DEF Unmoved
<1> QED BY <1>1, <1>2, <1>3

-----------------------------------------------------------------------------
(* Calls that take the state machine away and bring it back *)

Stays(s, t) == Intact(s, t) /\ (Settled(s) => Unmoved(s, t))
ComesBack(s, t) == Intact(s, t) /\ (Settled(s) => Back(s, t))

\* It is back if the call has succeeded, and in ALERT if not.
Tries(s, t) == Intact(s, t) /\ (Settled(s) => Settled(t) /\ (Radio!Ok(t) => Unmoved(s, t)))

LEMMA CallWays ==
  /\ \A s, t : Still(s, t) => Stays(s, t) /\ Intact(s, t)
  /\ \A s, t : Stays(s, t) => Tries(s, t) /\ ComesBack(s, t)
  /\ \A s, t : ComesBack(s, t) \/ Tries(s, t) => Intact(s, t) /\ Whole(t)
  /\ \A s, t, u : Intact(s, t) /\ Intact(t, u) => Intact(s, u)
  /\ \A s, t, u : Stays(s, t) /\ Stays(t, u) => Stays(s, u)
  /\ \A s, t, u : ComesBack(s, t) /\ ComesBack(t, u) => ComesBack(s, u)
  /\ \A s, t, u : Stays(s, t) /\ Tries(t, u) => Tries(s, u)
<1>1. \A s, t : Still(s, t) => Stays(s, t) /\ Intact(s, t)
  BY Ways DEF Still, Steady, Stays
<1>2. \A s, t : Stays(s, t) => Tries(s, t) /\ ComesBack(s, t)
  BY BackWays DEF Stays, Tries, ComesBack
<1>3. \A s, t : ComesBack(s, t) \/ Tries(s, t) => Intact(s, t) /\ Whole(t)
  BY DEF ComesBack, Tries, Intact, Undamaged
<1>4. \A s, t, u : Intact(s, t) /\ Intact(t, u) => Intact(s, u)
  BY FollowsWays DEF Intact, Undamaged
<1>5. \A s, t, u : Stays(s, t) /\ Stays(t, u) => Stays(s, u)
  BY <1>4, BackWays DEF Stays
<1>6. \A s, t, u : ComesBack(s, t) /\ ComesBack(t, u) => ComesBack(s, u)
  BY <1>4, BackWays DEF ComesBack
<1>7. \A s, t, u : Stays(s, t) /\ Tries(t, u) => Tries(s, u)
  BY <1>4, BackWays DEF Stays, Tries
<1> QED BY <1>1, <1>2, <1>3, <1>4, <1>5, <1>6, <1>7

\* What is in ALERT with a note of where it was, and what a restore makes of it.
LEMMA AlertWays ==
  /\ \A s, t : AtAlert(s, t) => Whole(t) /\ Intact(s, t) /\ Still(t, t)
  /\ \A s, t : AtAlert(s, t) /\ Settled(s) => Settled(t)
  /\ \A s, t : Whole(s) /\ AtAlert(s, t) => Stays(s, Radio!ensm_restore_prev_state(t))
<1>1. \A s, t : AtAlert(s, t) => Whole(t) /\ Intact(s, t) /\ Still(t, t)
  BY StillFacts DEF AtAlert, Aside, Intact, Undamaged
<1>2. \A s, t : AtAlert(s, t) /\ Settled(s) => Settled(t)
  BY DEF AtAlert, Aside, Intact, Undamaged, Settled
<1>3. \A s, t : Whole(s) /\ AtAlert(s, t) => Stays(s, Radio!ensm_restore_prev_state(t))
  BY RestoreWays DEF Stays, AtAlert
<1> QED BY <1>1, <1>2, <1>3

LEMMA CalibStays ==
  ASSUME NEW s, Whole(s), NEW cal, NEW arg
  PROVE  Stays(s, Radio!do_calib_run(s, cal, arg))
<1> DEFINE alert == Radio!ensm_force_state(Radio!tracking_control(s, {}), "ALERT")
           end(t) == Radio!ensm_restore_prev_state(Radio!tracking_control(t, s.tracks))
           quad == Radio!tx_quad_calib(alert, s.current_rx_bw \div 2, s.current_tx_bw \div 2, arg)
           rfdc == Radio!rf_dc_offset_calib(alert)
           none == Radio!Result(alert, "EINVAL")
<1>1. AtAlert(s, alert)
  BY StillFacts, CalStill, ForceWays
<1> HIDE DEF alert
<1>2. Still(alert, quad) /\ Still(alert, rfdc) /\ Still(alert, none)
  BY <1>1, AlertWays, QuadStill, CalStill, ResultStill
<1>3. AtAlert(s, quad) /\ AtAlert(s, rfdc) /\ AtAlert(s, none)
  BY <1>1, <1>2, Ways
<1>4. ASSUME NEW t, AtAlert(s, t) PROVE Stays(s, end(t))
  <2>1. AtAlert(s, Radio!tracking_control(t, s.tracks))
    BY <1>4, AlertWays, CalStill, Ways
  <2> QED BY <2>1, AlertWays
<1>5. Radio!do_calib_run(s, cal, arg) =
        end(CASE cal = "TX_QUAD_CAL" -> quad [] cal = "RFDC_CAL" -> rfdc [] OTHER -> none)
  BY Zenon DEF Radio!do_calib_run, alert
<1> HIDE DEF quad, rfdc, none, end
<1> QED BY <1>3, <1>4, <1>5

LEMMA WidthsTry ==
  ASSUME NEW s, Whole(s), NEW rx, NEW tx
  PROVE  Tries(s, Radio!update_rf_bandwidth(s, rx, tx))
<1> DEFINE alert == Radio!InAlert(s)
           filters == Radio!SetFilters(alert, rx, tx)
           noted == Radio!WidthsNoted(filters, rx, tx)
           quad == Radio!ThenQuad(noted, rx, tx)
           back == Radio!ensm_restore_prev_state(Radio!tracking_control(quad, quad.tracks))
<1>1. AtAlert(s, alert)
  BY StillFacts, CalStill, ForceWays DEF Radio!InAlert
<1> HIDE DEF alert
<1>2. Still(alert, filters)
  BY <1>1, AlertWays, SetFiltersStill
<1> HIDE DEF filters
<1>3. Still(alert, noted)
  BY <1>2, WidthsStill
<1> HIDE DEF noted
<1>4. Still(alert, quad)
  BY <1>3, ThenQuadStill
<1> HIDE DEF quad
<1>5. AtAlert(s, quad) /\ AtAlert(s, Radio!tracking_control(quad, quad.tracks))
  BY <1>1, <1>4, CalStill, Ways
<1>6. Stays(s, back)
  BY <1>5, AlertWays
<1> HIDE DEF back
<1>7. Radio!update_rf_bandwidth(s, rx, tx) = IF Radio!Ok(quad) THEN back ELSE quad
  BY Zenon DEF Radio!update_rf_bandwidth, Radio!ThenBack, Radio!IfOk, alert, filters, noted,
               quad, back
<1>8. CASE Radio!Ok(quad)
  BY <1>6, <1>7, <1>8, CallWays
<1>9. CASE ~Radio!Ok(quad)
  BY <1>5, <1>7, <1>9, AlertWays DEF Tries
<1> QED BY <1>8, <1>9

LEMMA GainStepStays ==
  ASSUME NEW s, Whole(s)
  PROVE  Stays(s, Radio!rssi_gain_step_calib(s))
<1> DEFINE alert == Radio!ensm_force_state(s, "ALERT")
           rssi == [alert.reg.RSSI EXCEPT !.powers[1] = Radio!Two(14), !.default = TRUE]
           lo == s.current_lo_freq.rx
           lna == <<192, 192, 184, 160>>[CASE lo < 1300 -> 1
                                           [] lo >= 1300 /\ lo < 3300 -> 2
                                           [] lo >= 3300 /\ lo < 4100 -> 3
                                           [] lo >= 4100 -> 4]
           ready == [alert EXCEPT !.reg.RSSI = rssi, !.reg.LNA_GAIN = lna]
           ran == Radio!run_calibration(ready, "RX_GAIN_STEP_CAL")
<1>1. AtAlert(s, alert)
  BY StillFacts, ForceWays
<1>2. Radio!rssi_gain_step_calib(s) = Radio!Result(Radio!ensm_restore_prev_state(ran), "ok")
  BY ZenonT(90) DEF Radio!rssi_gain_step_calib
<1> HIDE DEF alert, rssi, lna
<1>3. AtAlert(s, ran)
  <2>1. Still(alert, ready)
    BY <1>1, AlertWays, ZenonT(40)
       DEF Still, Steady, Intact, Undamaged, Whole, Fields, Registers, Lo
  <2> HIDE DEF ready
  <2>2. Still(alert, ran)
    BY <2>1, CalStill
  <2> QED BY <1>1, <2>2, Ways
<1> HIDE DEF ran
<1>4. ASSUME NEW u, Stays(s, u) PROVE Stays(s, Radio!Result(u, "ok"))
  BY <1>4, StillFacts, ResultStill, CallWays DEF Stays, Intact, Undamaged
<1> QED BY <1>2, <1>3, <1>4, AlertWays

LEMMA TapsStay ==
  ASSUME NEW s, Whole(s), NEW dest, NEW ntaps
  PROVE  Stays(s, Radio!load_fir_filter_coef(s, dest, ntaps))
<1> DEFINE alert == Radio!ensm_force_state(s, "ALERT")
           rx == [alert EXCEPT !.rx_fir_ntaps = ntaps, !.reg.TAPS.rx = ntaps]
           tx == [alert EXCEPT !.tx_fir_ntaps = ntaps, !.reg.TAPS.tx = ntaps]
           noted == IF dest = "rx" THEN rx ELSE tx
           back == Radio!Result(Radio!ensm_restore_prev_state(noted), "ok")
           none == Radio!Result(s, "EINVAL")
<1>1. AtAlert(s, alert)
  BY StillFacts, ForceWays
<1> HIDE DEF alert
<1>2. Still(alert, rx) /\ Still(alert, tx)
  BY <1>1, AlertWays, ZenonT(60) DEF Still, Steady, Intact, Undamaged, Whole, Fields, Registers, Lo
<1> HIDE DEF rx, tx
<1>3. AtAlert(s, noted)
  BY <1>1, <1>2, Ways
<1>4. Stays(s, back)
  <2>1. Stays(s, Radio!ensm_restore_prev_state(noted))
    BY <1>3, AlertWays
  <2> HIDE DEF noted
  <2> QED BY <2>1, StillFacts, ResultStill, CallWays DEF Stays, Intact, Undamaged
<1>5. Stays(s, none)
  BY StillFacts, ResultStill, CallWays
<1>6. Radio!load_fir_filter_coef(s, dest, ntaps) =
        IF ntaps \notin {16 * k : k \in 1 .. 8} THEN none ELSE back
  BY Zenon DEF Radio!load_fir_filter_coef, alert, rx, tx
<1> HIDE DEF back, none
<1> QED BY <1>4, <1>5, <1>6

LEMMA MuxStays ==
  ASSUME NEW s, Whole(s), NEW side, NEW index
  PROVE  Stays(s, Radio!clk_mux_set_parent(s, side, index))
<1> DEFINE alert == Radio!ensm_force_state(s, "ALERT")
           set == Radio!trx_ext_lo_control(alert, side, index)
           muxed == [set EXCEPT !.lo_mux[side] = index]
           back == Radio!ensm_restore_prev_state(muxed)
<1>1. AtAlert(s, alert)
  BY StillFacts, ForceWays
<1> HIDE DEF alert
<1>2. Still(alert, set)
  BY <1>1, AlertWays, ExtLoStill
<1> HIDE DEF set
<1>3. Still(alert, muxed)
  BY <1>2, LoStill
<1> HIDE DEF muxed
<1>4. Stays(s, back)
  BY <1>1, <1>3, Ways, AlertWays
<1> HIDE DEF back
<1>5. Stays(s, Radio!Result(back, "ok"))
  BY <1>4, StillFacts, ResultStill, CallWays DEF Stays, Intact, Undamaged
<1> QED BY <1>5, Zenon DEF Radio!clk_mux_set_parent, alert, set, muxed, back

\* A new LO has the transmitter calibrated again, if it is far from the last one.
LEMMA LoStays ==
  ASSUME NEW s, Whole(s), NEW side \in Radio!Sides, NEW rate
  PROVE  Stays(s, Radio!clk_set_lo(s, side, rate))
<1>1. ASSUME NEW t, Stays(s, t), NEW u, Still(t, u) PROVE Stays(s, u)
  BY <1>1, CallWays
<1>2. ASSUME NEW t, Stays(s, t) PROVE Still(t, t)
  BY <1>2, StillFacts DEF Stays, Intact, Undamaged
<1>3. ASSUME NEW x
      PROVE  Stays(s, Radio!AfterRate(Radio!RateSet(s, side, x), side, x))
  <2> DEFINE set == Radio!RateSet(s, side, x)
             cal == Radio!do_calib_run(set, "TX_QUAD_CAL", -1)
             noted == [cal EXCEPT !.last_tx_quad_cal_freq = x]
  <2>1. Still(s, set)
    BY StillFacts, RateSetStill
  <2> HIDE DEF set
  <2>2. Whole(set) /\ Stays(s, set) /\ Stays(s, Radio!load_gt(set, x))
    BY <2>1, StillFacts, LoadGtStill, CallWays
  <2>3. Stays(s, cal)
    BY <2>2, CalibStays, CallWays
  <2> HIDE DEF cal
  <2>4. Stays(s, noted)
    BY <1>1, <1>2, <2>3, LoStill
  <2>5. side \in {"rx", "tx"}
    BY DEF Radio!Sides
  <2>6. Radio!AfterRate(set, side, x) \in {Radio!load_gt(set, x), noted, set}
    BY <2>5 DEF Radio!AfterRate, cal
  <2> HIDE DEF noted
  <2> QED BY <2>2, <2>4, <2>6 DEF set
<1>4. ASSUME NEW t, Stays(s, t) PROVE Stays(s, Radio!Result(t, "ok")) /\ Stays(s, Radio!Recalc(t))
  BY <1>1, <1>2, <1>4, ResultStill, RecalcStill
<1>5. Stays(s, s)
  BY StillFacts, CallWays
<1>6. ASSUME NEW x
      PROVE  Stays(s, Radio!Result(Radio!Recalc(Radio!rfpll_set_rate(s, side, x)), "ok"))
  BY <1>3, <1>4 DEF Radio!rfpll_set_rate
<1> QED BY <1>4, <1>5, <1>6 DEF Radio!clk_set_lo

-----------------------------------------------------------------------------
(* The tuning of the interface *)

\* The mode is set, and nothing else of the state machine.
LEMMA ModeFacts ==
  ASSUME NEW t, Whole(t), NEW fdd \in BOOLEAN, NEW pinctrl
  PROVE  LET m == Radio!set_ensm_mode(t, fdd, pinctrl)
         IN /\ Intact(t, m) /\ m.reg.FDD_MODE = fdd
            /\ m.reg.STATE = t.reg.STATE /\ m.reg.ENSM_CONFIG_1 = t.reg.ENSM_CONFIG_1
            /\ m.ensm_pin_ctl_en = t.ensm_pin_ctl_en /\ m.curr_ensm_state = t.curr_ensm_state
            /\ Lo(m) = Lo(t)
<1>1. Lo(Radio!set_ensm_mode(t, fdd, pinctrl)) = Lo(t)
  BY DEF Radio!set_ensm_mode, Whole, Fields, Registers, Lo
<1> QED BY <1>1, FollowsWays
        DEF Radio!set_ensm_mode, Intact, Undamaged, Whole, Fields, Registers

LEMMA SilencedTuning ==
  ASSUME NEW s, Whole(s)
  PROVE  Tuning(s, Radio!Silenced(s))
<1> DEFINE quiet == Radio!tx_mute(s, TRUE)
           yes == TRUE
           no == FALSE
           fdd == Radio!set_ensm_mode(quiet, yes, no)
<1>1. Still(s, quiet)
  BY StillFacts, MuteStill
<1> HIDE DEF quiet
<1>2. Whole(quiet) /\ Tuning(s, quiet)
  BY <1>1, StillFacts, Ways
<1>3. /\ Intact(quiet, fdd) /\ fdd.reg.STATE = quiet.reg.STATE
      /\ fdd.reg.ENSM_CONFIG_1 = quiet.reg.ENSM_CONFIG_1
      /\ fdd.ensm_pin_ctl_en = quiet.ensm_pin_ctl_en
  <2>1. yes \in BOOLEAN
    OBVIOUS
  <2> HIDE DEF yes, no
  <2> QED BY <1>2, <2>1, ModeFacts
<1> HIDE DEF fdd
<1>4. ~s.fdd => Tuning(s, fdd)
  BY <1>2, <1>3, FollowsWays DEF Tuning, Intact, Undamaged
<1>5. Radio!Silenced(s) = IF s.fdd THEN quiet ELSE fdd
  BY Zenon DEF Radio!Silenced, quiet, fdd
<1> QED BY <1>2, <1>4, <1>5

\* A tuning begins in silence and goes on aside.
LEMMA DelaySetAside ==
  ASSUME NEW s, NEW t, Tuning(s, t) \/ Aside(s, t), NEW side, NEW clock, NEW data
  PROVE  Aside(s, Radio!set_intf_delay(t, side, clock, data, TRUE))
<1> DEFINE alert == Radio!ensm_force_state(t, "ALERT")
           set == [alert EXCEPT !.reg.DELAY[side] = <<clock, data>>]
<1>1. Aside(s, alert)
  BY ForceWays
<1> HIDE DEF alert
<1>2. Still(alert, set)
  BY <1>1, FollowsWays DEF Aside, Still, Steady, Intact, Undamaged, Whole, Fields, Registers, Lo
<1> HIDE DEF set
<1>3. Aside(s, Radio!ensm_force_state(set, "FDD"))
  BY <1>1, <1>2, Ways, ForceWays
<1> QED BY <1>3 DEF Radio!set_intf_delay, alert, set

LEMMA Quietly ==
  ASSUME NEW s, NEW t, Tuning(s, t) \/ Aside(s, t), NEW u, Still(t, u)
  PROVE  /\ Tuning(s, u) \/ Aside(s, u)
         /\ Aside(s, t) => Aside(s, u)
         /\ Whole(t) /\ Still(t, t) /\ Whole(u) /\ Still(u, u)
  BY Ways, StillFacts DEF Tuning, Aside, Intact, Undamaged

LEMMA TuneDelayAside ==
  ASSUME NEW s, NEW t, Tuning(s, t) \/ Aside(s, t), NEW swept, NEW side
  PROVE  Aside(s, Radio!dig_tune_delay(t, swept, side))
<1> DEFINE begun == IF swept THEN Radio!Swept(t) ELSE t
           tried == Radio!EndsTried(begun, side)
<1>1. Whole(t) /\ Still(t, t)
  BY StillFacts DEF Tuning, Aside, Intact, Undamaged
<1>2. Tuning(s, begun) \/ Aside(s, begun)
  BY <1>1, SweptStill, Quietly
<1> HIDE DEF begun
<1>3. Aside(s, tried)
  BY <1>2, DelaySetAside DEF Radio!EndsTried
<1> HIDE DEF tried
<1>4. ASSUME NEW u, Aside(s, u), NEW rc PROVE Aside(s, Radio!Result(u, rc))
  BY <1>4, StillFacts, ResultStill, Ways DEF Aside, Intact, Undamaged
<1>5. ASSUME NEW o0, NEW o1 PROVE Aside(s, Radio!SetMiddle(tried, side, o0, o1))
  <2> DEFINE none == [tried EXCEPT !.reg.DELAY[side] = <<15, 0>>]
  <2>1. Aside(s, none)
    <3>1. Still(tried, none)
      BY <1>3, FollowsWays DEF Aside, Still, Steady, Intact, Undamaged, Whole, Fields, Registers, Lo
    <3> HIDE DEF none
    <3> QED BY <1>3, <3>1, Ways
  <2>2. /\ Aside(s, Radio!set_intf_delay(tried, side, Radio!Middle(o1), 0, TRUE))
        /\ Aside(s, Radio!set_intf_delay(tried, side, 0, Radio!Middle(o0), TRUE))
    BY <1>3, DelaySetAside
  <2>3. Radio!SetMiddle(tried, side, o0, o1) \in
          {Radio!Result(none, "EIO"),
           Radio!Result(Radio!set_intf_delay(tried, side, Radio!Middle(o1), 0, TRUE), "ok"),
           Radio!Result(Radio!set_intf_delay(tried, side, 0, Radio!Middle(o0), TRUE), "ok")}
    BY Zenon DEF Radio!SetMiddle
  <2> HIDE DEF none
  <2> QED BY <1>4, <2>1, <2>2, <2>3
<1> QED BY <1>5, Zenon DEF Radio!dig_tune_delay, begun, tried

LEMMA TuneAside ==
  ASSUME NEW s, NEW t, Tuning(s, t) \/ Aside(s, t), NEW swept
  PROVE  /\ Aside(s, Radio!dig_tune_rx(t, swept))
         /\ Aside(s, Radio!dig_tune_tx(t, swept))
         /\ Aside(s, t) => Aside(s, Radio!ThenTx(t, swept))
<1> DEFINE first == Radio!bist_loopback(t, 0)
           rx == Radio!bist_prbs(first, "rx")
           off == Radio!bist_prbs(t, "off")
           tx == Radio!bist_loopback(off, 1)
           tuned == Radio!dig_tune_delay(tx, swept, "tx")
           dsel == Radio!bist_loopback(t, 1).reg.DSEL
<1>1. Whole(t) /\ Still(t, t)
  BY StillFacts DEF Tuning, Aside, Intact, Undamaged
<1>2. Still(t, first) /\ Still(t, off)
  BY <1>1, TestStill
<1>3. Still(t, rx)
  <2> HIDE DEF first
  <2> QED BY <1>2, TestStill
<1>4. Still(t, tx)
  <2> HIDE DEF off
  <2> QED BY <1>2, TestStill
<1> HIDE DEF rx, tx
<1>5. Aside(s, Radio!dig_tune_delay(rx, swept, "rx")) /\ Aside(s, tuned)
  BY <1>3, <1>4, Quietly, TuneDelayAside
<1> HIDE DEF tuned, dsel
<1>6. Still(tuned, Radio!CoresAs(tuned, dsel))
  BY <1>5, FollowsWays, ZenonT(60)
     DEF Aside, Still, Steady, Intact, Undamaged, Whole, Fields, Registers, Lo, Radio!CoresAs
<1>7. Aside(s, Radio!CoresAs(tuned, dsel))
  BY <1>5, <1>6, Ways
<1>8. Radio!dig_tune_tx(t, swept) = Radio!CoresAs(tuned, dsel)
  BY Zenon DEF Radio!dig_tune_tx, tuned, tx, off, dsel
<1>9. Radio!dig_tune_rx(t, swept) = Radio!dig_tune_delay(rx, swept, "rx")
  BY Zenon DEF Radio!dig_tune_rx, rx, first
<1> QED BY <1>5, <1>7, <1>8, <1>9, Zenon DEF Radio!ThenTx

\* The delays of the last tuning, or those that were found.
LEMMA KeptAside ==
  ASSUME NEW s, NEW t, Tuning(s, t) \/ Aside(s, t), NEW o
  PROVE  /\ Aside(s, Radio!DefaultDelays(t, o))
         /\ Tuning(s, Radio!TestsAs(t, o)) \/ Aside(s, Radio!TestsAs(t, o))
         /\ Aside(s, t) => \A skip \in BOOLEAN : Aside(s, Radio!Kept(t, o, skip))
<1>1. ASSUME NEW u, Tuning(s, u) \/ Aside(s, u) PROVE Aside(s, Radio!DefaultDelays(u, o))
  <2> DEFINE alert == Radio!ensm_force_state(u, "ALERT")
  <2>1. Aside(s, alert)
    BY <1>1, ForceWays
  <2> HIDE DEF alert
  <2>2. Still(alert, [alert EXCEPT !.reg.DELAY = o.port_delay])
    BY <2>1, FollowsWays DEF Aside, Still, Steady, Intact, Undamaged, Whole, Fields, Registers, Lo
  <2>3. Aside(s, [alert EXCEPT !.reg.DELAY = o.port_delay])
    BY <2>1, <2>2, Ways
  <2> QED BY <2>3 DEF Radio!DefaultDelays, alert
<1>2. Still(t, Radio!TestsAs(t, o))
  <2> DEFINE off == Radio!bist_loopback(t, o.bist_loopback_mode)
  <2>1. Still(t, off)
    BY StillFacts, TestStill DEF Tuning, Aside, Intact, Undamaged
  <2> HIDE DEF off
  <2>2. Still(t, [off EXCEPT !.reg.BIST = o.bist_config])
    BY <2>1 DEF Still, Steady, Intact, Undamaged, Whole, Fields, Registers, Lo
  <2> QED BY <2>2 DEF Radio!TestsAs, off
<1>3. Tuning(s, Radio!TestsAs(t, o)) \/ Aside(s, Radio!TestsAs(t, o))
  BY <1>2, Quietly
<1>4. ASSUME Aside(s, t), NEW skip \in BOOLEAN
      PROVE  Aside(s, Radio!Kept(t, o, skip))
  <2> DEFINE tests == Radio!TestsAs(t, o)
             kept == [tests EXCEPT !.port_delay = t.reg.DELAY]
  <2>1. Aside(s, tests)
    BY <1>2, <1>4, Ways
  <2> HIDE DEF tests
  <2>2. Still(tests, kept)
    BY <2>1, FollowsWays DEF Aside, Still, Steady, Intact, Undamaged, Whole, Fields, Registers, Lo
  <2> HIDE DEF kept
  <2>3. Aside(s, kept) /\ Aside(s, Radio!DefaultDelays(tests, o))
    BY <1>1, <2>1, <2>2, Ways
  <2>4. CASE ~Radio!Ok(t)
    BY <2>3, <2>4, Zenon DEF Radio!Kept, tests
  <2>5. CASE Radio!Ok(t) /\ skip
    BY <2>1, <2>5, Zenon DEF Radio!Kept, tests
  <2>6. CASE Radio!Ok(t) /\ ~skip
    BY <2>3, <2>6, Zenon DEF Radio!Kept, tests, kept
  <2> QED BY <2>4, <2>5, <2>6
<1> QED BY <1>1, <1>3, <1>4

\* The mode, the state and the attenuation are those of before again.
LEMMA ResumedBack ==
  ASSUME NEW s, Whole(s), NEW t, Aside(s, t)
  PROVE  ComesBack(s, Radio!Resumed(t, s))
<1> DEFINE mode == Radio!ModeAs(t, s)
           restored == Radio!ensm_restore_state(mode, s.reg.STATE)
           end == Radio!tx_mute(restored, FALSE)
<1>1. Whole(t) /\ s.fdd \in BOOLEAN
  BY DEF Aside, Intact, Undamaged, Whole
<1>2. Aside(s, mode) /\ (Settled(s) => mode.reg.FDD_MODE = s.reg.FDD_MODE)
  <2> DEFINE m == Radio!set_ensm_mode(t, s.fdd, s.ensm_pin_ctrl)
  <2>1. /\ Intact(t, m) /\ m.reg.FDD_MODE = s.fdd
        /\ m.reg.ENSM_CONFIG_1 = t.reg.ENSM_CONFIG_1
        /\ m.ensm_pin_ctl_en = t.ensm_pin_ctl_en
    BY <1>1, ModeFacts
  <2>2. mode = IF s.fdd THEN t ELSE m
    BY Zenon DEF Radio!ModeAs
  <2> HIDE DEF m, mode
  <2>3. CASE s.fdd
    BY <2>2, <2>3 DEF Aside
  <2>4. CASE ~s.fdd
    <3>1. Aside(s, m)
      BY <2>1, <2>4, FollowsWays DEF Aside, Intact, Undamaged, Pins
    <3> QED BY <2>1, <2>2, <2>4, <3>1 DEF Settled
  <2> QED BY <2>3, <2>4
<1> HIDE DEF mode
<1>3. Intact(s, restored) /\ (Settled(s) => Back(s, restored))
  <2>1. Intact(mode, restored)
    BY <1>2, RestoreFacts DEF Aside, Intact, Undamaged
  <2>2. Intact(s, restored)
    BY <1>2, <2>1, CallWays DEF Aside
  <2> QED BY <1>2, <2>2, RestoreWays
<1> HIDE DEF restored
<1>4. Still(restored, end)
  BY <1>3, StillFacts, MuteStill DEF Intact, Undamaged
<1>5. ComesBack(s, restored)
  BY <1>3 DEF ComesBack
<1> HIDE DEF end
<1>6. ComesBack(s, end)
  BY <1>4, <1>5, CallWays
<1> QED BY <1>6 DEF Radio!Resumed, mode, restored, end

LEMMA DigTuneBack ==
  ASSUME NEW s, Whole(s), NEW swept, NEW skip \in BOOLEAN, NEW default
  PROVE  ComesBack(s, Radio!dig_tune(s, swept, skip, default))
<1> DEFINE quiet == Radio!Silenced(s)
           tuned == Radio!ThenTx(Radio!dig_tune_rx(quiet, swept), swept)
           rc == IF swept THEN tuned.rc ELSE "ok"
           found == Radio!Resumed(Radio!Kept(tuned, s, skip), s)
           asked == Radio!Resumed(Radio!DefaultDelays(s, s), s)
<1>1. ASSUME NEW u, ComesBack(s, u), NEW x PROVE ComesBack(s, Radio!Result(u, x))
  BY <1>1, StillFacts, ResultStill, CallWays
<1>2. ComesBack(s, s)
  BY StillFacts, CallWays
<1>3. Tuning(s, s)
  BY StillFacts, Ways
<1>4. ComesBack(s, asked)
  BY <1>3, KeptAside, ResumedBack
<1>5. Aside(s, tuned)
  BY SilencedTuning, TuneAside
<1> HIDE DEF tuned, rc
<1>6. ComesBack(s, found)
  BY <1>5, KeptAside, ResumedBack
<1> HIDE DEF found, asked
<1>7. Radio!dig_tune(s, swept, skip, default) \in
        {Radio!Result(s, "ENODEV"), Radio!Result(asked, "ok"), Radio!Result(found, rc)}
  BY Zenon DEF Radio!dig_tune, Radio!AfterTuning, found, asked, tuned, rc, quiet
<1> QED BY <1>1, <1>2, <1>4, <1>6, <1>7

LEMMA TimingBack ==
  ASSUME NEW s, Whole(s)
  PROVE  ComesBack(s, Radio!dig_interface_timing_analysis(s))
<1> DEFINE quiet == Radio!Silenced(s)
           first == Radio!bist_loopback(quiet, 0)
           rx == Radio!bist_prbs(first, "rx")
           swept == Radio!set_intf_delay(rx, "rx", 15, 0, TRUE)
           alert == Radio!ensm_force_state(swept, "ALERT")
           put == [alert EXCEPT !.reg.DELAY.rx = s.reg.DELAY.rx]
           tests == Radio!TestsAs(put, s)
<1>1. Tuning(s, quiet)
  BY SilencedTuning
<1> HIDE DEF quiet
<1>2. Still(quiet, first)
  BY <1>1, StillFacts, TestStill DEF Tuning, Intact, Undamaged
<1> HIDE DEF first
<1>3. Still(quiet, rx)
  BY <1>2, TestStill
<1> HIDE DEF rx
<1>4. Aside(s, swept)
  BY <1>1, <1>3, Ways, DelaySetAside
<1> HIDE DEF swept
<1>5. Aside(s, alert)
  BY <1>4, ForceWays
<1> HIDE DEF alert
<1>6. Still(alert, put)
  BY <1>5, FollowsWays DEF Aside, Still, Steady, Intact, Undamaged, Whole, Fields, Registers, Lo
<1> HIDE DEF put
<1>7. Aside(s, put)
  BY <1>5, <1>6, Ways
<1>8. Still(put, tests)
  <2> DEFINE off == Radio!bist_loopback(put, s.bist_loopback_mode)
  <2>1. Still(put, off)
    BY <1>7, StillFacts, TestStill DEF Aside, Intact, Undamaged
  <2> HIDE DEF off
  <2>2. Still(put, [off EXCEPT !.reg.BIST = s.bist_config])
    BY <2>1 DEF Still, Steady, Intact, Undamaged, Whole, Fields, Registers, Lo
  <2> QED BY <2>2 DEF Radio!TestsAs, off
<1> HIDE DEF tests
<1>9. ComesBack(s, Radio!Resumed(tests, s))
  BY <1>7, <1>8, Ways, ResumedBack
<1> QED BY <1>9, Zenon DEF Radio!dig_interface_timing_analysis, quiet, first, rx, swept, alert,
                           put, tests


-----------------------------------------------------------------------------
(* The clock chain, the widths and the FIR filters *)

\* Without filters a new chain has nothing tuned again.
Bypassed(s) == s.bypass_rx_fir /\ s.bypass_tx_fir

LEMMA ChainBack ==
  ASSUME NEW s, Whole(s), NEW rx, NEW tx
  PROVE  LET c == Radio!set_trx_clock_chain(s, rx, tx)
         IN ComesBack(s, c) /\ (Bypassed(s) => Still(s, c))
<1> DEFINE yes == TRUE
           no == FALSE
           set == Radio!SetRates(s, rx, tx)
           tuned == Radio!dig_tune(set, no, yes, no)
           again == Radio!Retuned(set)
           refused == Radio!Result(s, "EINVAL")
           handled == Radio!bb_clk_change_handler(again)
<1>1. Still(s, set)
  BY StillFacts, RatesStill
<1>2. Still(s, refused)
  BY StillFacts, ResultStill
<1>3. again = IF set.dig_interface_tune_fir_disable \/ (set.bypass_tx_fir /\ set.bypass_rx_fir)
                THEN set ELSE tuned
  BY Zenon DEF Radio!Retuned
<1>4. Radio!set_trx_clock_chain(s, rx, tx) =
        IF Radio!validate_trx_clock_chain(s, rx, tx) THEN handled ELSE refused
  BY Zenon DEF Radio!set_trx_clock_chain
<1> HIDE DEF set, refused
<1>5. Whole(set) /\ ComesBack(s, set)
  BY <1>1, StillFacts, CallWays
<1>6. ComesBack(set, tuned)
  <2>1. yes \in BOOLEAN
    OBVIOUS
  <2> HIDE DEF yes, no
  <2> QED BY <1>5, <2>1, DigTuneBack
<1> HIDE DEF tuned, again
<1>7. ComesBack(s, again)
  BY <1>3, <1>5, <1>6, CallWays
<1>8. Still(again, handled)
  BY <1>7, CallWays, StillFacts, ClkHandlerStill
<1> HIDE DEF handled
<1>9. ComesBack(s, handled) /\ ComesBack(s, refused)
  BY <1>2, <1>7, <1>8, CallWays
<1>10. Bypassed(s) => Still(s, handled)
  <2>1. Bypassed(s) => again = set
    BY <1>1, <1>3 DEF Bypassed, Still, Steady, Intact, Undamaged
  <2> QED BY <1>1, <1>8, <2>1, StillFacts
<1> QED BY <1>2, <1>4, <1>9, <1>10

LEMMA WidthsAfter ==
  ASSUME NEW s, NEW t, Stays(s, t)
  PROVE  Tries(s, Radio!SameWidths(t)) /\ Tries(s, Radio!ThenWidths(t))
<1>1. Whole(t)
  BY CallWays
<1>2. Tries(s, Radio!SameWidths(t))
  BY <1>1, WidthsTry, CallWays DEF Radio!SameWidths
<1> QED BY <1>2, CallWays DEF Radio!ThenWidths, Radio!IfOk

\* New rates, with the filters bypassed.
LEMMA RatesTry ==
  ASSUME NEW s, Whole(s), Bypassed(s)
  PROVE  /\ \A chain : Tries(s, Radio!SampledAt(s, chain))
         /\ \A rx, tx : Tries(s, Radio!set_trx_path_clks(s, rx, tx))
         /\ \A bw : Tries(s, Radio!set_rx_rf_bandwidth(s, bw))
         /\ \A bw : Tries(s, Radio!set_tx_rf_bandwidth(s, bw))
<1>1. ASSUME NEW rc PROVE Tries(s, Radio!Result(s, rc))
  BY StillFacts, ResultStill, CallWays
<1>2. ASSUME NEW rx, NEW tx PROVE Stays(s, Radio!set_trx_clock_chain(s, rx, tx))
  BY ChainBack, CallWays
<1>3. ASSUME NEW chain PROVE Tries(s, Radio!SampledAt(s, chain))
  BY <1>1, <1>2, WidthsAfter DEF Radio!SampledAt
<1>4. ASSUME NEW rx, NEW tx PROVE Tries(s, Radio!set_trx_path_clks(s, rx, tx))
  BY <1>2, WidthsAfter DEF Radio!set_trx_path_clks
<1>5. ASSUME NEW bw PROVE Tries(s, Radio!set_rx_rf_bandwidth(s, bw))
  BY <1>1, WidthsTry DEF Radio!set_rx_rf_bandwidth, Radio!RxWidth
<1>6. ASSUME NEW bw PROVE Tries(s, Radio!set_tx_rf_bandwidth(s, bw))
  BY <1>1, WidthsTry DEF Radio!set_tx_rf_bandwidth, Radio!TxWidth
<1> QED BY <1>3, <1>4, <1>5, <1>6

LEMMA FirConfigStays ==
  ASSUME NEW s, Whole(s), NEW ratio, NEW ntaps
  PROVE  /\ Stays(s, Radio!set_rx_fir_config(s, ratio, ntaps))
         /\ Stays(s, Radio!set_tx_fir_config(s, ratio, ntaps))
<1> DEFINE rx == [s EXCEPT !.rx_fir_dec = ratio]
           tx == [s EXCEPT !.tx_fir_int = ratio]
<1>1. Still(s, rx) /\ Still(s, tx)
  BY FollowsWays DEF Still, Steady, Intact, Undamaged, Whole, Fields, Registers, Lo
<1> HIDE DEF rx, tx
<1>2. Stays(s, Radio!load_fir_filter_coef(rx, "rx", ntaps))
  BY <1>1, StillFacts, TapsStay, CallWays
<1>3. Stays(s, Radio!load_fir_filter_coef(tx, "tx", ntaps))
  BY <1>1, StillFacts, TapsStay, CallWays
<1> QED BY <1>2, <1>3 DEF Radio!set_rx_fir_config, Radio!set_tx_fir_config, rx, tx

LEMMA ParseStays ==
  ASSUME NEW s, Whole(s), NEW file
  PROVE  Stays(s, Radio!parse_fir(s, file))
<1> DEFINE given(chain, old) == IF chain = <<>> THEN old ELSE chain
           rxChain == given(file.chains.rx, s.filt_rx_path_clks)
           txChain == given(file.chains.tx, s.filt_tx_path_clks)
           chains == [s EXCEPT !.filt_rx_bw = file.bw.rx, !.filt_tx_bw = file.bw.tx,
                               !.filt_valid = FALSE, !.filt_rx_path_clks = rxChain,
                               !.filt_tx_path_clks = txChain]
           txSet == [chains EXCEPT !.tx_fir_int = file.tx_int]
           tx == IF file.tx_int = 0 \/ file.tx_forgotten THEN Radio!Result(chains, "EINVAL")
                 ELSE Radio!load_fir_filter_coef(txSet, "tx", file.ntaps)
           rxSet == [tx EXCEPT !.rx_fir_dec = file.rx_dec]
           rx == IF file.rx_dec = 0 THEN Radio!Result(tx, "EINVAL")
                 ELSE Radio!load_fir_filter_coef(rxSet, "rx", file.ntaps)
           valid == IF Radio!Ok(rx) THEN <<>> \notin {file.chains.rx, file.chains.tx}
                    ELSE rx.filt_valid
           end == [rx EXCEPT !.filt_valid = valid]
<1>1. Radio!parse_fir(s, file) = end
  BY Zenon DEF Radio!parse_fir
<1> HIDE DEF rxChain, txChain
<1>2. Still(s, chains)
  BY FollowsWays DEF Still, Steady, Intact, Undamaged, Whole, Fields, Registers, Lo
<1> HIDE DEF chains
<1>3. Still(s, txSet)
  BY <1>2 DEF Still, Steady, Intact, Undamaged, Whole, Fields, Registers, Lo
<1> HIDE DEF txSet
<1>4. Stays(s, tx)
  BY <1>2, <1>3, ResultStill, StillFacts, TapsStay, CallWays
<1> HIDE DEF tx
<1>5. Whole(tx) /\ Still(tx, tx)
  BY <1>4, StillFacts, CallWays
<1>6. Still(tx, rxSet)
  BY <1>5 DEF Still, Steady, Intact, Undamaged, Whole, Fields, Registers, Lo
<1> HIDE DEF rxSet
<1>7. Stays(s, rx)
  <2>1. Still(tx, Radio!Result(tx, "EINVAL"))
    BY <1>5, ResultStill
  <2>2. Stays(tx, Radio!load_fir_filter_coef(rxSet, "rx", file.ntaps))
    BY <1>6, StillFacts, TapsStay, CallWays
  <2>3. Stays(s, Radio!Result(tx, "EINVAL"))
        /\ Stays(s, Radio!load_fir_filter_coef(rxSet, "rx", file.ntaps))
    BY <1>4, <2>1, <2>2, CallWays
  <2> QED BY <2>3
<1> HIDE DEF rx, valid
<1>8. Still(rx, end)
  <2>1. Still(rx, rx)
    BY <1>7, CallWays, StillFacts
  <2> QED BY <2>1 DEF Still, Steady, Intact, Undamaged, Whole, Fields, Registers, Lo
<1> HIDE DEF end
<1> QED BY <1>1, <1>7, <1>8, CallWays

-----------------------------------------------------------------------------
(* The FIR filters switched on and off *)

\* The state machine is where it was if the call has succeeded; the filters need
\* not be.
Home(s, t) ==
  /\ Whole(t) /\ t.fdd = s.fdd /\ Follows(Lo(s), Lo(t))
  /\ Settled(s) =>
       /\ Settled(t)
       /\ Radio!Ok(t) => t.reg.STATE = s.reg.STATE /\ (Given(t) => Given(s))

\* Two phys that differ in the filters only, as far as the state machine is concerned.
Alike(s, t) ==
  /\ Whole(s) /\ Whole(t)
  /\ t.rc = s.rc /\ t.fdd = s.fdd /\ t.reg = s.reg
  /\ t.ensm_pin_ctl_en = s.ensm_pin_ctl_en /\ Lo(t) = Lo(s)

LEMMA HomeWays ==
  /\ \A s, t : Tries(s, t) \/ ComesBack(s, t) => Home(s, t)
  /\ \A s, t, u : ComesBack(s, t) /\ Home(t, u) => Home(s, u)
  /\ \A s, t, u : Alike(s, t) /\ Home(t, u) => Home(s, u)
  /\ \A s, t, u : Home(s, t) /\ Alike(t, u) => Home(s, u)
<1>1. \A s, t : Tries(s, t) \/ ComesBack(s, t) => Home(s, t)
  BY BackWays DEF Tries, ComesBack, Home, Unmoved, Back, Intact, Undamaged
<1>2. \A s, t, u : ComesBack(s, t) /\ Home(t, u) => Home(s, u)
  BY BackWays, FollowsWays DEF ComesBack, Home, Back, Intact, Undamaged
<1>3. \A s, t, u : Alike(s, t) /\ Home(t, u) => Home(s, u)
  BY DEF Alike, Home, Settled, Given, Pins
<1>4. \A s, t, u : Home(s, t) /\ Alike(t, u) => Home(s, u)
  BY DEF Alike, Home, Settled, Given, Pins, Radio!Ok
<1> QED BY <1>1, <1>2, <1>3, <1>4

LEMMA BypassAlike ==
  ASSUME NEW s, Whole(s), NEW sides, NEW value
  PROVE  Alike(s, Radio!Bypass(s, sides, value))
  BY DEF Radio!Bypass, Alike, Whole, Fields, Registers, Lo

LEMMA FirInChainHome ==
  ASSUME NEW s, Whole(s), NEW chain
  PROVE  Home(s, Radio!FirInChain(s, chain))
<1> DEFINE yes == TRUE
           no == FALSE
           t == Radio!set_trx_clock_chain(s, chain.rx, chain.tx)
           tuned == Radio!dig_tune(t, no, no, yes)
           delays == Radio!FirDelays(t, s)
           refused == Radio!Result(s, "EINVAL")
           widths == Radio!FirWidths(t, s)
<1>1. ComesBack(s, t)
  BY ChainBack
<1>2. Home(s, refused)
  BY StillFacts, ResultStill, CallWays, HomeWays
<1>3. delays = t \/ delays = tuned
  BY Zenon DEF Radio!FirDelays
<1>4. Radio!FirInChain(s, chain) = refused \/ Radio!FirInChain(s, chain) = widths
  BY Zenon DEF Radio!FirInChain
<1>5. widths = t \/ \E rx, tx : widths = Radio!update_rf_bandwidth(delays, rx, tx)
  BY Zenon DEF Radio!FirWidths
<1> HIDE DEF t, refused, widths
<1>6. ComesBack(t, tuned)
  <2>1. no \in BOOLEAN /\ Whole(t)
    BY <1>1, CallWays
  <2> HIDE DEF yes, no
  <2> QED BY <2>1, DigTuneBack
<1> HIDE DEF tuned, delays
<1>7. ComesBack(s, delays) /\ Whole(delays)
  BY <1>1, <1>3, <1>6, CallWays
<1>8. \A rx, tx : Home(s, Radio!update_rf_bandwidth(delays, rx, tx))
  BY <1>7, WidthsTry, HomeWays
<1>9. Home(s, widths)
  BY <1>1, <1>5, <1>8, HomeWays
<1> QED BY <1>2, <1>4, <1>9

LEMMA EnableFirHome ==
  ASSUME NEW s, Whole(s), NEW sides, NEW enable
  PROVE  Home(s, Radio!EnableFir(s, sides, enable))
<1> DEFINE yes == TRUE
           on == Radio!Bypass(s, sides, ~enable)
           tried == Radio!validate_enable_fir(on)
           off == Radio!Bypass(tried, sides, yes)
           same == Radio!Result(s, "ok")
<1>1. Alike(s, on)
  BY BypassAlike
<1>2. Home(s, same)
  BY StillFacts, ResultStill, CallWays, HomeWays
<1>3. Radio!EnableFir(s, sides, enable) = same
      \/ Radio!EnableFir(s, sides, enable) = tried \/ Radio!EnableFir(s, sides, enable) = off
  BY Zenon DEF Radio!EnableFir, Radio!OrBypass
<1> HIDE DEF on, same, yes
<1>4. Home(s, tried)
  BY <1>1, FirInChainHome, HomeWays DEF Radio!validate_enable_fir, Alike
<1> HIDE DEF tried
<1>5. Home(s, off)
  BY <1>4, BypassAlike, HomeWays DEF Home
<1> QED BY <1>2, <1>3, <1>4, <1>5

LEMMA LoadEnableHome ==
  ASSUME NEW s, Whole(s), NEW rx, NEW tx
  PROVE  Home(s, Radio!trx_load_enable_fir(s, rx, tx))
<1> DEFINE given(f, old) == IF f.clks = <<>> THEN old ELSE f.clks
           rxChain == given(rx, s.filt_rx_path_clks)
           txChain == given(tx, s.filt_tx_path_clks)
           noted == [s EXCEPT !.filt_rx_bw = rx.bw, !.filt_tx_bw = tx.bw, !.filt_valid = FALSE,
                              !.filt_rx_path_clks = rxChain, !.filt_tx_path_clks = txChain]
           one == Radio!set_tx_fir_config(noted, tx.ratio, tx.ntaps)
           two == Radio!IfOk(one, Radio!set_rx_fir_config(one, rx.ratio, rx.ntaps))
           valid == rx.clks # <<>> /\ tx.clks # <<>>
           ready == [two EXCEPT !.filt_valid = valid]
           sides == Radio!Sides
           yes == TRUE
           enabled == Radio!EnableFir(ready, sides, yes)
           end == Radio!IfOk(two, enabled)
<1>1. Radio!trx_load_enable_fir(s, rx, tx) = end
  BY Zenon DEF Radio!trx_load_enable_fir, Radio!ThenFirs, Radio!set_trx_fir_en_dis
<1> HIDE DEF rxChain, txChain
<1>2. Still(s, noted)
  BY FollowsWays DEF Still, Steady, Intact, Undamaged, Whole, Fields, Registers, Lo
<1> HIDE DEF noted
<1>3. Stays(s, one)
  BY <1>2, StillFacts, FirConfigStays, CallWays
<1> HIDE DEF one
<1>4. Stays(s, two)
  BY <1>3, FirConfigStays, CallWays DEF Radio!IfOk
<1> HIDE DEF two, valid
<1>5. Whole(two) /\ Still(two, ready)
  <2>1. Whole(two) /\ Still(two, two)
    BY <1>4, CallWays, StillFacts
  <2> QED BY <2>1 DEF Still, Steady, Intact, Undamaged, Whole, Fields, Registers, Lo
<1> HIDE DEF ready, sides, yes
<1>6. ComesBack(s, two) /\ ComesBack(s, ready) /\ Whole(ready)
  BY <1>4, <1>5, StillFacts, CallWays
<1>7. Home(s, two) /\ Home(s, enabled)
  BY <1>6, EnableFirHome, HomeWays
<1> HIDE DEF enabled
<1> QED BY <1>1, <1>7 DEF Radio!IfOk

-----------------------------------------------------------------------------
(* The state machine put into a state by the application *)

\* The radio is the same one, with the same filters; its state is another.
Same(s, t) ==
  /\ Whole(t) /\ t.fdd = s.fdd /\ Follows(Lo(s), Lo(t))
  /\ t.bypass_rx_fir = s.bypass_rx_fir /\ t.bypass_tx_fir = s.bypass_tx_fir

LEMMA SameWays ==
  /\ \A s : Whole(s) => Same(s, s)
  /\ \A s, t : Intact(s, t) => Same(s, t)
  /\ \A s, t, u : Same(s, t) /\ Same(t, u) => Same(s, u)
  /\ \A s, t : Same(s, t) => Whole(t)
  BY FollowsWays DEF Same, Intact, Undamaged

\* Asleep the chip is without its clocks, and it waits; woken it has them again.
LEMMA SleepFacts ==
  ASSUME NEW s, Whole(s)
  PROVE  /\ Same(s, Radio!Asleep(s)) /\ Radio!Asleep(s).reg.FDD_MODE = s.reg.FDD_MODE
         /\ ~Radio!Asleep(s).reg.CLOCKS
         /\ Same(s, Radio!Awake(s)) /\ Radio!Awake(s).reg.FDD_MODE = s.reg.FDD_MODE
         /\ s.curr_ensm_state = "ALERT" => Radio!Awake(s) = s
         /\ Lo(Radio!Asleep(s)) = Lo(s) /\ Lo(Radio!Awake(s)) = Lo(s)
<1> DEFINE empty == {}
           forced == Radio!ForcedOn(IF s.fdd THEN "FDD" ELSE "RX")
           one == Radio!Configure(s, empty)
           two == Radio!Configure(one, forced)
           waits == Radio!Configure(two, empty)
           asleep == [waits EXCEPT !.reg.CLOCKS = FALSE, !.reg.VCO_CAL = {},
                                   !.curr_ensm_state = "SLEEP", !.rc = "ok"]
           clocked == [s EXCEPT !.reg.CLOCKS = TRUE]
           alert == Radio!Configure(clocked, Radio!ToAlert)
           awake == [alert EXCEPT !.reg.VCO_CAL = {"rx", "tx"}]
<1>1. Radio!Asleep(s) = asleep
  BY Zenon DEF Radio!Asleep
<1>2. Radio!Awake(s) = IF s.curr_ensm_state # "SLEEP" THEN s ELSE awake
  BY Zenon DEF Radio!Awake
<1>3. Intact(s, one) /\ one.reg.FDD_MODE = s.reg.FDD_MODE /\ Lo(one) = Lo(s)
  BY ConfigureFacts
<1> HIDE DEF one, forced
<1>4. Whole(one) /\ Intact(one, two) /\ two.reg.FDD_MODE = one.reg.FDD_MODE
      /\ Lo(two) = Lo(one)
  BY <1>3, ConfigureFacts DEF Intact, Undamaged
<1> HIDE DEF two
<1>5. Whole(two) /\ Intact(two, waits) /\ waits.reg.FDD_MODE = two.reg.FDD_MODE
      /\ waits.reg.STATE = Radio!Moved(two, empty) /\ Lo(waits) = Lo(two)
  <2>1. Whole(two)
    BY <1>4 DEF Intact, Undamaged
  <2> HIDE DEF empty
  <2> QED BY <2>1, ConfigureFacts
<1>6. Radio!Moved(two, empty) = "SLEEP_WAIT"
  BY <1>5 DEF Radio!Moved, Whole
<1> HIDE DEF waits
<1>7. Same(s, waits) /\ waits.reg.FDD_MODE = s.reg.FDD_MODE /\ waits.reg.STATE = "SLEEP_WAIT"
      /\ Lo(waits) = Lo(s)
  BY <1>3, <1>4, <1>5, <1>6, SameWays
<1>8. Same(waits, asleep) /\ asleep.reg.FDD_MODE = waits.reg.FDD_MODE /\ ~asleep.reg.CLOCKS
      /\ Lo(asleep) = Lo(waits)
  <2>1. Lo(asleep) = Lo(waits)
    BY <1>7 DEF Same, Whole, Fields, Registers, Lo
  <2> QED BY <1>7, <2>1, FollowsWays DEF Same, Whole, Fields, Registers
<1>9. Same(s, clocked) /\ clocked.reg.FDD_MODE = s.reg.FDD_MODE /\ Lo(clocked) = Lo(s)
  <2>1. Lo(clocked) = Lo(s)
    BY DEF Whole, Fields, Registers, Lo
  <2> QED BY <2>1, FollowsWays DEF Same, Whole, Fields, Registers
<1> HIDE DEF asleep, clocked
<1>10. Same(s, alert) /\ alert.reg.FDD_MODE = s.reg.FDD_MODE /\ Lo(alert) = Lo(s)
  BY <1>9, ConfigureFacts, SameWays
<1> HIDE DEF alert
<1>11. Same(s, awake) /\ awake.reg.FDD_MODE = s.reg.FDD_MODE /\ Lo(awake) = Lo(s)
  <2>1. Lo(awake) = Lo(alert)
    BY <1>10 DEF Same, Whole, Fields, Registers, Lo
  <2> QED BY <1>10, <2>1, FollowsWays DEF Same, Whole, Fields, Registers
<1> HIDE DEF awake
<1> QED BY <1>1, <1>2, <1>7, <1>8, <1>11, SameWays

\* Where it is told to go it goes, as far as its mode allows, or it is refused in
\* ALERT and stays there.
LEMMA EnterFacts ==
  ASSUME NEW s, Whole(s), NEW to \in Radio!EnsmStates, NEW pinctrl
  PROVE  LET e == Radio!ensm_set_state(s, to, pinctrl)
         IN /\ Same(s, e) /\ Lo(e) = Lo(s)
            /\ s.reg.FDD_MODE = s.fdd /\ Radio!Ok(e) => Settled(e)
            /\ Settled(s) => Settled(e)
            /\ to = (IF s.fdd THEN "FDD" ELSE "RX") => Radio!Ok(e)
<1> DEFINE woken == Radio!Awake(s)
           pins == IF pinctrl THEN {"PIN_CTRL"} ELSE {}
           bits == {"TO_ALERT"} \cup Radio!ForcedOn(to) \cup pins
                     \cup (IF to = "ALERT" THEN {"FORCE_ALERT"} ELSE {})
           plain == (bits \ Radio!ForcedOn(to)) \cup Radio!ToAlert
           forbidden == \/ to \in {"TX", "RX"} /\ (s.fdd \/ s.curr_ensm_state # "ALERT")
                        \/ to = "FDD" /\ ~s.fdd
           alert == Radio!Configure(woken, plain)
           fromAlert == IF forbidden THEN alert ELSE woken
           oneSynth == ~s.fdd /\ ~pinctrl /\ ~s.tdd_use_dual_synth /\ to \in {"TX", "RX"}
           tx == to = "TX"
           switched == [fromAlert EXCEPT !.reg.TXNRX = tx]
           chosen == IF oneSynth THEN switched ELSE fromAlert
           put == Radio!Configure(chosen, bits)
           there == [put EXCEPT !.curr_ensm_state = to, !.rc = "ok"]
           refused == Radio!Result(woken, "EINVAL")
           asleep == Radio!Asleep(woken)
           e == Radio!ensm_set_state(s, to, pinctrl)
<1>1. e = IF to = "SLEEP" THEN asleep
          ELSE IF forbidden /\ s.curr_ensm_state = "ALERT" THEN refused ELSE there
  BY Zenon DEF Radio!ensm_set_state
<1>2. /\ to \in {"TX", "FDD"} => "FORCE_TX_ON" \in bits
      /\ to = "RX" => "FORCE_TX_ON" \notin bits /\ "FORCE_RX_ON" \in bits
      /\ to \notin {"TX", "FDD", "RX"} =>
           "FORCE_TX_ON" \notin bits /\ "FORCE_RX_ON" \notin bits
      /\ "TO_ALERT" \in bits
      /\ "TO_ALERT" \in plain
      /\ to = "RX" => "FORCE_TX_ON" \notin plain /\ "FORCE_RX_ON" \notin plain
  BY DEF Radio!ForcedOn, Radio!ToAlert
<1>3. forbidden \in BOOLEAN /\ s.fdd \in BOOLEAN
  BY DEF Whole
<1>4. /\ to = "RX" /\ s.fdd => forbidden
      /\ to = (IF s.fdd THEN "FDD" ELSE "RX") => ~(forbidden /\ s.curr_ensm_state = "ALERT")
  BY <1>3
<1> HIDE DEF bits, plain, forbidden, pins, oneSynth, tx
<1>5. /\ Same(s, woken) /\ woken.reg.FDD_MODE = s.reg.FDD_MODE /\ Lo(woken) = Lo(s)
      /\ s.curr_ensm_state = "ALERT" => woken = s
  BY SleepFacts
<1>6. Same(s, asleep) /\ asleep.reg.FDD_MODE = s.reg.FDD_MODE /\ ~asleep.reg.CLOCKS
      /\ Lo(asleep) = Lo(s)
  <2> HIDE DEF woken
  <2> QED BY <1>5, SleepFacts, SameWays
<1> HIDE DEF woken, asleep
<1>7. /\ Intact(woken, alert) /\ alert.reg.FDD_MODE = woken.reg.FDD_MODE
      /\ alert.reg.STATE = Radio!Moved(woken, plain) /\ Lo(alert) = Lo(woken)
  BY <1>5, ConfigureFacts DEF Same
<1>8. to = "RX" /\ woken.reg.CLOCKS => alert.reg.STATE = "ALERT"
  BY <1>2, <1>5, <1>7, MovedFacts DEF Same
<1> HIDE DEF alert
<1>9. /\ Same(s, fromAlert) /\ fromAlert.reg.FDD_MODE = s.reg.FDD_MODE
      /\ Lo(fromAlert) = Lo(s)
      /\ forbidden /\ to = "RX" /\ fromAlert.reg.CLOCKS => fromAlert.reg.STATE = "ALERT"
  BY <1>3, <1>5, <1>7, <1>8, SameWays DEF Intact, Undamaged
<1> HIDE DEF fromAlert
<1>10. /\ Same(s, switched) /\ switched.reg.FDD_MODE = s.reg.FDD_MODE
       /\ switched.reg.CLOCKS = fromAlert.reg.CLOCKS /\ switched.reg.STATE = fromAlert.reg.STATE
       /\ Lo(switched) = Lo(s)
  <2>1. Lo(switched) = Lo(fromAlert)
    BY <1>9 DEF Same, Whole, Fields, Registers, Lo
  <2> QED BY <1>9, <2>1 DEF Same, Whole, Fields, Registers
<1> HIDE DEF switched
<1>11. /\ Same(s, chosen) /\ chosen.reg.FDD_MODE = s.reg.FDD_MODE /\ Lo(chosen) = Lo(s)
       /\ forbidden /\ to = "RX" /\ chosen.reg.CLOCKS => chosen.reg.STATE = "ALERT"
  BY <1>9, <1>10
<1> HIDE DEF chosen
<1>12. /\ Intact(chosen, put) /\ put.reg.FDD_MODE = chosen.reg.FDD_MODE
       /\ put.reg.STATE = Radio!Moved(chosen, bits) /\ Lo(put) = Lo(chosen)
  BY <1>11, ConfigureFacts DEF Same
<1>13. s.reg.FDD_MODE = s.fdd => Settled(put)
  <2> SUFFICES ASSUME s.reg.FDD_MODE = s.fdd, chosen.reg.CLOCKS
               PROVE  put.reg.STATE \in {"ALERT"} \cup (IF s.fdd THEN {"FDD"} ELSE {"TX", "RX"})
    BY <1>11, <1>12 DEF Settled, Intact, Undamaged, Same
  <2>1. Whole(chosen) /\ chosen.reg.FDD_MODE = s.fdd
    BY <1>11 DEF Same
  <2>2. CASE to \in {"TX", "FDD"}
    BY <1>2, <1>3, <1>12, <2>1, <2>2, MovedFacts
  <2>3. CASE to = "RX"
    BY <1>2, <1>3, <1>4, <1>11, <1>12, <2>1, <2>3, MovedFacts
  <2>4. CASE to \notin {"TX", "FDD", "RX"}
    BY <1>2, <1>12, <2>1, <2>4, MovedFacts
  <2> QED BY <2>2, <2>3, <2>4
<1>14. Same(s, put) /\ Lo(put) = Lo(s)
  BY <1>11, <1>12, SameWays
<1> HIDE DEF put
<1>15. Same(s, there) /\ there.reg = put.reg /\ there.fdd = put.fdd /\ Radio!Ok(there)
       /\ Lo(there) = Lo(s)
  <2>1. Lo(there) = Lo(put)
    BY <1>14 DEF Same, Whole, Fields, Registers, Lo
  <2> QED BY <1>14, <2>1 DEF Same, Whole, Fields, Registers, Radio!Ok
<1> HIDE DEF there
<1>16. Same(s, refused) /\ refused.reg = woken.reg /\ refused.fdd = woken.fdd
       /\ ~Radio!Ok(refused) /\ Lo(refused) = Lo(s)
  <2>1. Lo(refused) = Lo(woken)
    BY <1>5 DEF Same, Whole, Fields, Registers, Lo, Radio!Result
  <2> QED BY <1>5, <2>1 DEF Same, Whole, Fields, Registers, Radio!Ok, Radio!Result
<1> HIDE DEF refused
<1>17. CASE to = "SLEEP"
  <2>1. e = asleep /\ Same(s, e) /\ ~(to = (IF s.fdd THEN "FDD" ELSE "RX"))
    BY <1>1, <1>3, <1>6, <1>17
  <2> QED BY <1>6, <2>1 DEF Settled, Same
<1>18. CASE to # "SLEEP" /\ forbidden /\ s.curr_ensm_state = "ALERT"
  <2>1. e = refused
    BY <1>1, <1>18
  <2> QED BY <1>4, <1>5, <1>16, <1>18, <2>1 DEF Settled, Same
<1>19. CASE to # "SLEEP" /\ ~(forbidden /\ s.curr_ensm_state = "ALERT")
  <2>1. e = there
    BY <1>1, <1>19
  <2> QED BY <1>13, <1>14, <1>15, <2>1 DEF Settled, Same
<1> QED BY <1>17, <1>18, <1>19

\* The pins may have the sides apart now or no more; the synthesizers are as they were.
Turns(v, w) ==
  /\ w.fdd = v.fdd /\ w.dev_sel = v.dev_sel
  /\ v.fdd_independent_mode \in BOOLEAN => w.fdd_independent_mode \in BOOLEAN
  /\ w.current_lo_freq = v.current_lo_freq /\ w.cached_rfpll_div = v.cached_rfpll_div
  /\ w.current_use_tdd_table = v.current_use_tdd_table
  /\ w.LUT = v.LUT /\ w.SYNTH = v.SYNTH /\ w.EXT_LO = v.EXT_LO

Turned(s, t) ==
  /\ Whole(t) /\ t.fdd = s.fdd /\ Turns(Lo(s), Lo(t))
  /\ t.bypass_rx_fir = s.bypass_rx_fir /\ t.bypass_tx_fir = s.bypass_tx_fir

LEMMA TurnedWays ==
  /\ \A s : Whole(s) => Turned(s, s)
  /\ \A s, t : Same(s, t) /\ Lo(t) = Lo(s) => Turned(s, t)
  /\ \A s, t, u : Turned(s, t) /\ Turned(t, u) => Turned(s, u)
  BY DEF Turned, Turns, Same

LEMMA TurnsSound ==
  ASSUME NEW v, LoSound(v), NEW w, Turns(v, w), Parts \subseteq DOMAIN w
  PROVE  LoSound(w)
<1>1. \A f : Receivable(w, f) <=> Receivable(v, f)
  BY DEF Turns, Receivable, Radio!validate_rfpll
<1> QED BY <1>1 DEF LoSound, Turns

LEMMA TurnedLeads ==
  ASSUME NEW s, NEW t, Turned(s, t)
  PROVE  Leads(Lo(s), Lo(t))
<1>1. Parts \subseteq DOMAIN Lo(t)
  BY DEF Parts, Lo
<1> QED BY <1>1, TurnsSound DEF Turned, Turns, Leads

\* The mode is that of the radio again; what is refused leaves the state as it was.
LEMMA ModeSettles ==
  ASSUME NEW s, Whole(s), NEW mode
  PROVE  LET t == Radio!set_en_state_machine_mode(s, mode)
         IN /\ Turned(s, t)
            /\ Radio!Ok(t) => Settled(t)
            /\ Settled(s) => Settled(t)
<1> DEFINE indep == mode = "PINCTRL_FDD_INDEP"
           pinctrl == mode = "PINCTRL"
           pd == [s EXCEPT !.fdd_independent_mode = indep]
           set == Radio!set_ensm_mode(pd, s.fdd, pinctrl)
           to == Radio!StateOf(mode)
           entered == Radio!ensm_set_state(set, to, pinctrl)
           refused == Radio!Result(pd, "EINVAL")
           t == Radio!set_en_state_machine_mode(s, mode)
<1>1. t = IF mode \notin Radio!EnsmModes THEN refused ELSE entered
  BY Zenon DEF Radio!set_en_state_machine_mode
<1>2. mode \in Radio!EnsmModes => to \in Radio!EnsmStates
  BY DEF Radio!EnsmModes, Radio!EnsmStates, Radio!StateOf
<1>3. s.fdd \in BOOLEAN
  BY DEF Whole
<1> HIDE DEF indep, pinctrl, to
<1>4. Standing(s, pd) /\ Turned(s, pd)
  <2>1. Standing(s, pd)
    BY DEF Standing, Steady, Undamaged, Whole, Fields, Registers
  <2>2. Turns(Lo(s), Lo(pd))
    BY DEF Turns, Lo, Whole, Fields, indep
  <2> QED BY <2>1, <2>2 DEF Turned, Standing, Undamaged
<1> HIDE DEF pd
<1>5. Whole(pd) /\ Still(pd, pd)
  BY <1>4, StillFacts DEF Turned
<1>6. /\ Intact(pd, set) /\ set.reg.FDD_MODE = s.fdd
      /\ set.reg.STATE = pd.reg.STATE /\ Lo(set) = Lo(pd)
  BY <1>3, <1>5, ModeFacts
<1> HIDE DEF set
<1>7. Turned(s, set) /\ set.reg.FDD_MODE = set.fdd /\ (Settled(s) => Settled(set))
  <2>1. Turned(pd, set)
    BY <1>6, SameWays, TurnedWays
  <2> QED BY <1>4, <1>6, <2>1, TurnedWays
          DEF Standing, Steady, Intact, Undamaged, Settled
<1>8. Turned(s, refused) /\ ~Radio!Ok(refused) /\ (Settled(s) => Settled(refused))
  <2>1. Still(pd, refused) /\ Lo(refused) = Lo(pd) /\ ~Radio!Ok(refused)
    BY <1>5, ResultStill DEF Radio!Ok, Radio!Result, Whole, Fields, Registers, Lo
  <2>2. Turned(pd, refused)
    BY <2>1, SameWays, TurnedWays DEF Still
  <2> QED BY <1>4, <2>1, <2>2, TurnedWays
          DEF Standing, Still, Steady, Intact, Undamaged, Settled
<1> HIDE DEF refused
<1>9. CASE mode \in Radio!EnsmModes
  <2>1. /\ Same(set, entered) /\ Lo(entered) = Lo(set)
        /\ set.reg.FDD_MODE = set.fdd /\ Radio!Ok(entered) => Settled(entered)
        /\ Settled(set) => Settled(entered)
    BY <1>2, <1>7, <1>9, EnterFacts DEF Turned
  <2>2. t = entered
    BY <1>1, <1>9
  <2> HIDE DEF entered
  <2> QED BY <1>7, <2>1, <2>2, TurnedWays
<1>10. CASE mode \notin Radio!EnsmModes
  <2>1. t = refused
    BY <1>1, <1>10
  <2> QED BY <1>8, <2>1
<1> QED BY <1>9, <1>10

LEMMA McsLoop ==
  ASSUME NEW s
  PROVE  After(CHOOSE f : f = [i \in 0 .. 6 |-> IF i = 0 THEN s ELSE Radio!mcs(f[i - 1], i - 1)],
               "mcs", s, 0, 0, 6)
<1> DEFINE Is(g) == g = [i \in 0 .. 6 |-> IF i = 0 THEN s ELSE Radio!mcs(g[i - 1], i - 1)]
           f == CHOOSE f : Is(f)
<1>1. \A g, i : LoopStep("mcs", s, 0, 0, g, i) = Radio!mcs(g, i - 1)
  BY DEF LoopStep
<1>2. \E g : After(g, "mcs", s, 0, 0, 6)
  BY LoopEnds
<1>3. ASSUME NEW g PROVE Is(g) <=> After(g, "mcs", s, 0, 0, 6)
  BY <1>1, SMT DEF After
<1>4. Is(f)
  <2>1. \E g : Is(g)
    BY <1>2, <1>3
  <2> HIDE DEF Is
  <2> QED BY <2>1, Zenon
<1>5. After(f, "mcs", s, 0, 0, 6)
  <2> HIDE DEF f, Is
  <2> QED BY <1>3, <1>4
<1> QED BY <1>5

LEMMA McsStepsStill ==
  ASSUME NEW s, Whole(s)
  PROVE  LET f == CHOOSE f : f = [i \in 0 .. 6 |->
                    IF i = 0 THEN s ELSE Radio!mcs(f[i - 1], i - 1)]
         IN Still(s, f[6]) /\ Lo(f[6]) = Lo(s)
<1> DEFINE f == CHOOSE f : f = [i \in 0 .. 6 |->
                  IF i = 0 THEN s ELSE Radio!mcs(f[i - 1], i - 1)]
           T == {k \in 0 .. 6 : ~(Still(s, f[k]) /\ Lo(f[k]) = Lo(s))}
<1>1. After(f, "mcs", s, 0, 0, 6)
  BY McsLoop
<1>2. \A u : \A i \in 1 .. 6 :
        Still(s, u) => Still(s, LoopStep("mcs", s, 0, 0, u, i))
                       /\ Lo(LoopStep("mcs", s, 0, 0, u, i)) = Lo(u)
  <2>1. \A i \in 1 .. 6 : i - 1 \in Nat
    OBVIOUS
  <2> QED BY <2>1, McsStill DEF LoopStep
<1> HIDE DEF f
<1>3. \A i \in 0 .. 6 : f[i] = IF i = 0 THEN s ELSE LoopStep("mcs", s, 0, 0, f[i - 1], i)
  BY <1>1, Zenon DEF After
<1>4. ASSUME NEW k \in 1 .. 6, k \in T PROVE k - 1 \in T
  BY <1>2, <1>3, <1>4
<1>5. 0 \notin T /\ T \subseteq 0 .. 6
  BY <1>3, StillFacts
<1>6. T = {}
  <2> HIDE DEF T
  <2> QED BY <1>4, <1>5, NoFirst
<1> QED BY <1>6 DEF f

\* The synchronization goes through ALERT and then where it was before.
LEMMA McsSettles ==
  ASSUME NEW s, Whole(s), NEW slave
  PROVE  LET t == Radio!do_mcs(s, slave)[1]
         IN Turned(s, t) /\ (Settled(s) => Settled(t))
<1> DEFINE mode == Radio!get_en_state_machine_mode(s)
           alert == Radio!set_en_state_machine_mode(s, "ALERT")
           f == CHOOSE f : f = [i \in 0 .. 6 |->
                  IF i = 0 THEN alert ELSE Radio!mcs(f[i - 1], i - 1)]
           steps == f[6]
           back == Radio!set_en_state_machine_mode(steps, mode)
           end == Radio!Result(back, "ok")
           refused == Radio!Result(s, "EPERM")
           t == Radio!do_mcs(s, slave)[1]
<1>1. t = refused \/ t = end
  <2> DEFINE other == [slave EXCEPT !.reg.DELAY = s.reg.DELAY]
  <2>1. \/ Radio!do_mcs(s, slave) = <<refused, slave>>
        \/ \E x : Radio!do_mcs(s, slave) = <<end, x>>
    BY Zenon DEF Radio!do_mcs, Radio!Loop
  <2> HIDE DEF refused, end
  <2> QED BY <2>1
<1>2. Turned(s, alert) /\ (Settled(s) => Settled(alert))
  BY ModeSettles
<1> HIDE DEF alert
<1>3. Still(alert, steps) /\ Lo(steps) = Lo(alert)
  BY <1>2, McsStepsStill DEF Turned
<1> HIDE DEF steps, mode
<1>4. \A u, v : Still(u, v) /\ Lo(v) = Lo(u) => Turned(u, v) /\ (Settled(u) => Settled(v))
  BY SameWays, TurnedWays, Ways, BackWays DEF Still
<1>5. Turned(alert, steps) /\ (Settled(alert) => Settled(steps))
  BY <1>3, <1>4
<1>6. Turned(steps, back) /\ (Settled(steps) => Settled(back))
  BY <1>5, ModeSettles DEF Turned
<1> HIDE DEF back
<1>7. Turned(back, end) /\ (Settled(back) => Settled(end))
  <2>1. Still(back, end) /\ Lo(end) = Lo(back)
    BY <1>6, StillFacts, ResultStill DEF Turned, Radio!Result, Whole, Fields, Lo
  <2> QED BY <1>4, <2>1
<1>8. Turned(s, refused) /\ (Settled(s) => Settled(refused))
  <2>1. Still(s, refused) /\ Lo(refused) = Lo(s)
    BY StillFacts, ResultStill DEF Radio!Result, Whole, Fields, Lo
  <2> QED BY <1>4, <2>1
<1> HIDE DEF end, refused
<1>9. Turned(s, end) /\ (Settled(s) => Settled(end))
  BY <1>2, <1>5, <1>6, <1>7, TurnedWays
<1> QED BY <1>1, <1>8, <1>9

-----------------------------------------------------------------------------
(* Settings, which leave the state machine alone *)

LEMMA PortStill ==
  ASSUME NEW s, NEW t, Still(s, t), NEW is_out \in BOOLEAN, NEW inputs \in Nat, NEW txb
  PROVE  /\ Still(s, Radio!rf_port_setup(t, is_out, inputs, txb))
         /\ Still(s, [t EXCEPT !.rf_rx_input_sel = inputs])
         /\ Still(s, [t EXCEPT !.rf_tx_output_sel = txb])
<1> DEFINE Monitor(u, mask) == Radio!txmon_control(u, mask)
           ready == IF is_out THEN t ELSE Monitor(t, {})
           mon == Monitor(t, <<{1}, {2}, {1, 2}>>[inputs - 8])
           bits == IF inputs < 3 THEN {inputs * 2, inputs * 2 + 1} ELSE {inputs - 3}
           all == (bits \cup (IF txb THEN {Radio!TX_OUTPUT} ELSE {})) \cap 0 .. 7
           set == [ready EXCEPT !.reg.INPUT_SELECT = all, !.rc = "ok"]
           refused == Radio!Result(t, "EINVAL")
           p == Radio!rf_port_setup(t, is_out, inputs, txb)
<1>1. \A mask : Still(s, Monitor(t, mask))
  BY DEF Radio!txmon_control, Still, Steady, Intact, Undamaged, Whole, Fields, Registers, Lo
<1>2. /\ inputs > 11 => p = refused
      /\ inputs <= 11 /\ (~is_out /\ inputs > 8) => p = mon
      /\ inputs <= 11 /\ ~(~is_out /\ inputs > 8) => p = set
  <2> DEFINE high == inputs > 11
             low == inputs <= 11
             monitors == ~is_out /\ inputs > 8
  <2>1. high <=> ~low
    OBVIOUS
  <2>2. p = CASE high -> refused [] low /\ monitors -> mon [] low /\ ~monitors -> set
    BY Zenon DEF Radio!rf_port_setup
  <2>3. monitors \in BOOLEAN
    OBVIOUS
  <2> HIDE DEF high, low, monitors, p, refused, mon, set
  <2>4. /\ high => p = refused
        /\ low /\ monitors => p = mon
        /\ low /\ ~monitors => p = set
    <3>1. CASE high
      BY <2>1, <2>2, <3>1
    <3>2. CASE low /\ monitors
      BY <2>1, <2>2, <3>2
    <3>3. CASE low /\ ~monitors
      BY <2>1, <2>2, <3>3
    <3> QED BY <2>1, <2>3, <3>1, <3>2, <3>3
  <2> QED BY <2>4, Zenon DEF high, low, monitors
<1> HIDE DEF Monitor, bits, all
<1>3. Still(s, ready)
  BY <1>1
<1> HIDE DEF ready
<1>4. Still(s, set)
  BY <1>3 DEF Still, Steady, Intact, Undamaged, Whole, Fields, Registers, Lo
<1>5. Still(s, refused) /\ Still(s, mon)
  BY <1>1, ResultStill
<1> HIDE DEF set, refused, mon, p
<1>6. Still(s, p)
  <2>1. inputs > 11 \/ inputs <= 11
    OBVIOUS
  <2> QED BY <1>2, <1>4, <1>5, <2>1, Zenon
<1>7. Still(s, [t EXCEPT !.rf_rx_input_sel = inputs])
  BY DEF Still, Steady, Intact, Undamaged, Whole, Fields, Registers, Lo
<1>8. Still(s, [t EXCEPT !.rf_tx_output_sel = txb])
  BY DEF Still, Steady, Intact, Undamaged, Whole, Fields, Registers, Lo
<1> QED BY <1>6, <1>7, <1>8 DEF p

LEMMA PortsStill ==
  ASSUME NEW s, Whole(s)
  PROVE  /\ \A mode \in Nat : Still(s, Radio!set_rx_rf_port_input(s, mode))
         /\ \A txb : Still(s, Radio!set_tx_rf_port_output(s, txb))
<1> DEFINE yes == TRUE
           no == FALSE
<1>1. Still(s, s) /\ s.rf_rx_input_sel \in Nat /\ yes \in BOOLEAN /\ no \in BOOLEAN
  BY StillFacts DEF Whole
<1>2. ASSUME NEW mode \in Nat PROVE Still(s, Radio!set_rx_rf_port_input(s, mode))
  <2> DEFINE noted == [s EXCEPT !.rf_rx_input_sel = mode]
  <2>1. Still(s, noted)
    BY <1>1, PortStill
  <2> HIDE DEF noted, no
  <2>2. Still(s, Radio!rf_port_setup(noted, no, mode, s.rf_tx_output_sel))
    BY <1>1, <2>1, PortStill
  <2> QED BY <2>2 DEF Radio!set_rx_rf_port_input, noted, no
<1>3. ASSUME NEW txb PROVE Still(s, Radio!set_tx_rf_port_output(s, txb))
  <2> DEFINE noted == [s EXCEPT !.rf_tx_output_sel = txb]
             inputs == s.rf_rx_input_sel
  <2>1. Still(s, noted)
    BY <1>1, PortStill
  <2> HIDE DEF noted, yes, inputs
  <2>2. Still(s, Radio!rf_port_setup(noted, yes, inputs, txb))
    BY <1>1, <2>1, PortStill DEF inputs
  <2> QED BY <2>2 DEF Radio!set_tx_rf_port_output, noted, yes, inputs
<1> QED BY <1>2, <1>3

LEMMA SettingsStill ==
  ASSUME NEW s, Whole(s), NEW x, NEW y
  PROVE  /\ Still(s, Radio!set_rx_rf_gain(s, x, y))
         /\ Still(s, Radio!set_rx_gain_control_mode(s, x, y))
         /\ Still(s, Radio!set_tx_attenuation(s, x, y))
         /\ Still(s, Radio!set_track_en_dis(s, x, y))
         /\ Still(s, Radio!set_tx_auto_cal_en_dis(s, x))
         /\ Still(s, Radio!set_trx_rate_gov(s, x))
         /\ Still(s, Radio!do_dcxo_tune(s, x, y))
         /\ Still(s, Radio!lo_powerdown(s, x, y))
<1>1. Still(s, s)
  BY StillFacts
<1>2. Still(s, Radio!set_rx_rf_gain(s, x, y)) /\ Still(s, Radio!set_tx_attenuation(s, x, y))
  BY <1>1, RxGainStill, GainStill DEF Radio!set_rx_rf_gain, Radio!set_tx_attenuation
<1>3. Still(s, Radio!set_rx_gain_control_mode(s, x, y))
  <2> DEFINE ch == x + 1
             noted == [s EXCEPT !.agc_mode[ch] = y]
             rx == Radio!Rx(s, x)
  <2>1. Still(s, noted)
    BY <1>1, GainSetStill
  <2> HIDE DEF noted
  <2>2. Still(s, Radio!Result(Radio!set_gain_ctrl_mode(noted, rx, y), "ok"))
    BY <2>1, GainModeStill, ResultStill
  <2> QED BY <2>2, Zenon DEF Radio!set_rx_gain_control_mode, noted
<1>4. Still(s, Radio!set_track_en_dis(s, x, y))
  <2> DEFINE tracks == IF y THEN s.tracks \cup {x} ELSE s.tracks \ {x}
             noted == [s EXCEPT !.tracks = tracks]
             same == Radio!Result(s, "ok")
             set == Radio!tracking_control(noted, tracks)
  <2>1. Radio!set_track_en_dis(s, x, y) = same \/ Radio!set_track_en_dis(s, x, y) = set
    BY Zenon DEF Radio!set_track_en_dis
  <2> HIDE DEF tracks
  <2>2. Still(s, noted)
    BY <1>1 DEF Still, Steady, Intact, Undamaged, Whole, Fields, Registers, Lo
  <2> HIDE DEF noted
  <2> QED BY <1>1, <2>1, <2>2, CalStill, ResultStill
<1>5. Still(s, Radio!set_tx_auto_cal_en_dis(s, x)) /\ Still(s, Radio!set_trx_rate_gov(s, x))
  BY FollowsWays
     DEF Radio!set_tx_auto_cal_en_dis, Radio!set_trx_rate_gov, Still, Steady, Intact, Undamaged,
         Whole, Fields, Registers, Lo
<1>6. Still(s, Radio!do_dcxo_tune(s, x, y))
  <2> DEFINE noted == [s EXCEPT !.dcxo = <<x, y>>]
  <2>1. Still(s, noted)
    BY FollowsWays DEF Still, Steady, Intact, Undamaged, Whole, Fields, Registers, Lo
  <2> HIDE DEF noted
  <2>2. Still(s, [noted EXCEPT !.reg.DCXO = noted.dcxo, !.rc = "ok"])
    BY <2>1 DEF Still, Steady, Intact, Undamaged, Whole, Fields, Registers, Lo
  <2> QED BY <2>1, <2>2, ResultStill DEF Radio!do_dcxo_tune, Radio!set_dcxo_tune, noted
<1>7. Still(s, Radio!lo_powerdown(s, x, y))
  BY <1>1, PowerdownStill DEF Radio!lo_powerdown
<1> QED BY <1>2, <1>3, <1>4, <1>5, <1>6, <1>7

LEMMA IntExtStays ==
  ASSUME NEW s, Whole(s), NEW side, NEW ext
  PROVE  Stays(s, Radio!set_lo_int_ext(s, side, ext))
<1> DEFINE noted == [s EXCEPT !.use_ext_lo[side] = ext]
           muxed == Radio!clk_mux_set_parent(noted, side, ext)
           refused == Radio!Result(s, "EPERM")
<1>1. Radio!set_lo_int_ext(s, side, ext) = refused \/ Radio!set_lo_int_ext(s, side, ext) = muxed
  BY Zenon DEF Radio!set_lo_int_ext
<1>2. Still(s, noted) /\ Still(s, refused)
  BY StillFacts, LoStill, ResultStill
<1> HIDE DEF noted, refused
<1>3. Stays(s, muxed)
  BY <1>2, StillFacts, MuxStays, CallWays
<1> HIDE DEF muxed
<1> QED BY <1>1, <1>2, <1>3, CallWays

-----------------------------------------------------------------------------
(* The setup *)

LEMMA ConfiguredStill ==
  ASSUME NEW s, NEW t, Still(s, t), NEW x, NEW y
  PROVE  /\ Still(s, Radio!Configured(t, x))
         /\ Still(s, Radio!auxdac_set(t, x, y))
         /\ Still(s, Radio!set_dcxo_tune(t))
         /\ Still(s, Radio!clkout_control(t))
<1> USE DEF Still, Steady, Intact, Undamaged, Whole, Fields, Registers, Lo
<1>1. Still(s, Radio!Configured(t, x))
  BY DEF Radio!Configured
<1>2. Still(s, Radio!auxdac_set(t, x, y))
  <2> DEFINE v == IF y < 306 THEN 306 ELSE y
             word == IF v < 1888 THEN <<"1V", ((v - 306) * 1000) \div 1469>>
                     ELSE <<"2.5V", ((v - 1761) * 1000) \div 1512>>
             field == <<word[1], Radio!Clamp(word[2], 0, 1023)>>
             end == [t EXCEPT !.reg.AUXDAC[x] = field, !.auxdac_value[x] = v, !.rc = "ok"]
             refused == Radio!Result(t, "EINVAL")
  <2>1. Radio!auxdac_set(t, x, y) = IF x \in {1, 2} THEN end ELSE refused
    BY ZenonT(60) DEF Radio!auxdac_set
  <2> HIDE DEF v, field
  <2>2. Still(s, end)
    OBVIOUS
  <2>3. Still(s, refused)
    BY DEF Radio!Result
  <2> HIDE DEF end, refused, Still, Steady, Intact, Undamaged, Whole, Fields, Registers, Lo
  <2> QED BY <2>1, <2>2, <2>3
<1>3. Still(s, Radio!set_dcxo_tune(t)) /\ Still(s, Radio!clkout_control(t))
  BY DEF Radio!set_dcxo_tune, Radio!clkout_control, Radio!Result
<1> QED BY <1>1, <1>2, <1>3

\* The clocks are started: the state is what the reset has left.
LEMMA SetupClocksSame ==
  ASSUME NEW s, Whole(s)
  PROVE  Same(s, Radio!SetupClocks(s))
<1> DEFINE rxBw == Radio!validate_rf_bw(s, s.rf_rx_bandwidth)
           txBw == Radio!validate_rf_bw(s, s.rf_tx_bandwidth)
           skip == s.tdd_skip_vco_cal /\ ~s.fdd
           pinctrl == s.ensm_pin_ctrl /\ ~(s.fdd /\ s.fdd_independent_mode)
           pd == [s EXCEPT !.rf_rx_bandwidth = rxBw, !.rf_tx_bandwidth = txBw,
                           !.tdd_skip_vco_cal = skip, !.ensm_pin_ctrl = pinctrl]
           aux == Radio!auxdac_setup(pd)
           gpo == Radio!gpo_setup(aux)
           tuned == Radio!set_dcxo_tune(gpo)
           ref == Radio!ref_div_sel(s.refin, Radio!MAX_BBPLL_FREF)
           clocked == [tuned EXCEPT !.reg.CLOCKS = TRUE]
           rate == Radio!no_os_clk_set_rate(clocked, "BB_REFCLK", ref)
           chain == Radio!set_trx_clock_chain(rate, tuned.rx_path_clks, tuned.tx_path_clks)
           refused == Radio!Result(tuned, "EINVAL")
<1>1. Radio!SetupClocks(s) = refused \/ Radio!SetupClocks(s) = chain
  <2>1. Radio!SetupClocks(s) = Radio!SetupBbpll(tuned, ref)
    BY Zenon DEF Radio!SetupClocks
  <2> HIDE DEF tuned, ref
  <2>2. Radio!SetupBbpll(tuned, ref) = refused \/ Radio!SetupBbpll(tuned, ref) = chain
    BY Zenon DEF Radio!SetupBbpll
  <2> QED BY <2>1, <2>2
<1> HIDE DEF rxBw, txBw, skip, pinctrl, ref
<1>2. Still(s, pd)
  BY FollowsWays DEF Still, Steady, Intact, Undamaged, Whole, Fields, Registers, Lo
<1> HIDE DEF pd
<1>3. Still(s, aux)
  <2> DEFINE first == Radio!auxdac_set(pd, 1, pd.auxdac_default[1])
  <2>1. Still(s, first)
    BY <1>2, ConfiguredStill
  <2> HIDE DEF first
  <2>2. Still(s, Radio!Configured(Radio!auxdac_set(first, 2, pd.auxdac_default[2]), "AUXDAC"))
    BY <2>1, ConfiguredStill
  <2> QED BY <2>2 DEF Radio!auxdac_setup, first
<1> HIDE DEF aux
<1>4. Still(s, gpo)
  BY <1>3, ConfiguredStill DEF Radio!gpo_setup
<1> HIDE DEF gpo
<1>5. Still(s, tuned) /\ Still(s, refused)
  BY <1>4, ConfiguredStill, ResultStill
<1> HIDE DEF tuned, refused
<1>6. Same(tuned, clocked)
  BY <1>5, StillFacts, FollowsWays DEF Same, Whole, Fields, Registers, Lo
<1> HIDE DEF clocked
<1>7. Still(clocked, rate)
  BY <1>6, StillFacts, ClockRateStill DEF Same
<1> HIDE DEF rate
<1>8. Intact(rate, chain)
  BY <1>7, StillFacts, ChainBack, CallWays
<1> HIDE DEF chain
<1> QED BY <1>1, <1>5, <1>6, <1>7, <1>8, SameWays DEF Still, Steady

LEMMA PumpSame ==
  ASSUME NEW s, Whole(s), NEW dir
  PROVE  Same(s, Radio!txrx_synth_cp_calib(s, dir))
<1> DEFINE alert == Radio!Configure(s, Radio!ToAlert)
           fdd == [alert EXCEPT !.reg.DUAL_SYNTH = TRUE, !.reg.FDD_EXT_CTRL = FALSE,
                                !.reg.SYNTH_PIN_CTRL = FALSE, !.reg.FDD_MODE = TRUE]
           end == Radio!run_calibration(fdd, <<"CP_CAL", dir>>)
<1>1. Radio!txrx_synth_cp_calib(s, dir) = end
  BY Zenon DEF Radio!txrx_synth_cp_calib
<1>2. Same(s, alert)
  BY ConfigureFacts, SameWays
<1> HIDE DEF alert
<1>3. Same(alert, fdd)
  BY <1>2, FollowsWays DEF Same, Whole, Fields, Registers, Lo
<1> HIDE DEF fdd
<1>4. Still(fdd, end)
  BY <1>3, StillFacts, CalStill DEF Same
<1> HIDE DEF end
<1> QED BY <1>1, <1>2, <1>3, <1>4, SameWays DEF Still, Steady

LEMMA LosSame ==
  ASSUME NEW s, Whole(s)
  PROVE  Same(s, Radio!SetupLos(s))
<1> DEFINE inside == Radio!FromInside(s)
           rx == Radio!clk_set_lo(inside, "rx", s.rx_synth_freq)
           noted == Radio!WithTxFreq(rx)
           tx == Radio!clk_set_lo(noted, "tx", s.tx_synth_freq)
           from == [tx EXCEPT !.use_ext_lo = s.use_ext_lo]
           rxMux == Radio!clk_mux_set_parent(from, "rx", s.use_ext_lo.rx)
           txMux == Radio!clk_mux_set_parent(rxMux, "tx", s.use_ext_lo.tx)
<1>1. Radio!SetupLos(s) = s \/ Radio!SetupLos(s) = txMux
  BY Zenon DEF Radio!SetupLos, Radio!FromWhere, Radio!IfOk
<1>2. {"rx", "tx"} = Radio!Sides
  BY DEF Radio!Sides
<1>3. Still(s, inside)
  BY FollowsWays
     DEF Radio!FromInside, Still, Steady, Intact, Undamaged, Whole, Fields, Registers, Lo
<1> HIDE DEF inside
<1>4. Intact(inside, rx)
  BY <1>2, <1>3, StillFacts, LoStays DEF Stays
<1> HIDE DEF rx
<1>5. Still(rx, noted)
  BY <1>4, FollowsWays
     DEF Radio!WithTxFreq, Still, Steady, Intact, Undamaged, Whole, Fields, Registers, Lo
<1> HIDE DEF noted
<1>6. Intact(noted, tx)
  BY <1>2, <1>5, StillFacts, LoStays DEF Stays
<1> HIDE DEF tx
<1>7. Still(tx, from)
  BY <1>6, FollowsWays DEF Still, Steady, Intact, Undamaged, Whole, Fields, Registers, Lo
<1> HIDE DEF from
<1>8. Intact(from, rxMux)
  BY <1>7, StillFacts, MuxStays DEF Stays
<1> HIDE DEF rxMux
<1>9. Intact(rxMux, txMux)
  BY <1>8, MuxStays DEF Stays, Intact, Undamaged
<1> HIDE DEF txMux
<1>10. Same(s, rx) /\ Same(rx, tx) /\ Same(tx, rxMux) /\ Same(rxMux, txMux)
  BY <1>3, <1>4, <1>5, <1>6, <1>7, <1>8, <1>9, SameWays DEF Still, Steady
<1> QED BY <1>1, <1>10, SameWays

LEMMA PumpsSame ==
  ASSUME NEW s, Whole(s), NEW ref
  PROVE  Same(s, Radio!SetupPumps(s, ref))
<1> DEFINE bb == Radio!no_os_clk_set_rate(s, "RX_REFCLK", ref)
           clks == Radio!no_os_clk_set_rate(bb, "TX_REFCLK", ref)
           rx == Radio!txrx_synth_cp_calib(clks, "rx")
           tx == Radio!txrx_synth_cp_calib(rx, "tx")
           refused == Radio!Result(s, "EINVAL")
<1>1. \/ Radio!SetupPumps(s, ref) = refused
      \/ Radio!SetupPumps(s, ref) = rx \/ Radio!SetupPumps(s, ref) = tx
  BY Zenon DEF Radio!SetupPumps, Radio!RefClocks, Radio!IfOk
<1>2. Still(s, refused) /\ Still(s, bb)
  BY StillFacts, ResultStill, ClockRateStill
<1> HIDE DEF refused, bb
<1>3. Still(s, clks)
  BY <1>2, ClockRateStill
<1> HIDE DEF clks
<1>4. Same(clks, rx)
  BY <1>3, StillFacts, PumpSame
<1> HIDE DEF rx
<1>5. Same(rx, tx)
  BY <1>4, PumpSame DEF Same
<1> HIDE DEF tx
<1> QED BY <1>1, <1>2, <1>3, <1>4, <1>5, SameWays DEF Still, Steady

LEMMA SynthsSame ==
  ASSUME NEW s, Whole(s)
  PROVE  Same(s, Radio!SetupSynths(s))
<1> DEFINE yes == TRUE
           no == FALSE
           faces == Radio!Interfaces(s)
           sel == faces.rf_rx_input_sel
           ports == Radio!rf_port_setup(faces, yes, sel, faces.rf_tx_output_sel)
           pp == Radio!pp_port_setup(ports, no)
           adc == Radio!auxadc_setup(pp)
           outs == Radio!ctrl_outs_setup(adc)
           cycles == Radio!set_ref_clk_cycles(outs)
           lna == Radio!setup_ext_lna(cycles)
           fref == Radio!Clamp(lna.trx_synth_max_fref, Radio!MIN_SYNTH_FREF, Radio!MAX_SYNTH_FREF)
           aux == [lna EXCEPT !.trx_synth_max_fref = fref]
           ref == Radio!ref_div_sel(aux.refin, aux.trx_synth_max_fref)
           pumps == Radio!SetupPumps(aux, ref)
           los == Radio!SetupLos(pumps)
<1>1. Radio!SetupSynths(s) = ports \/ Radio!SetupSynths(s) = los
  <2>1. Radio!AuxBlocks(ports) = aux
    BY Zenon DEF Radio!AuxBlocks
  <2> HIDE DEF aux
  <2>2. Radio!SetupSynths(s) = IF Radio!Ok(ports) THEN los ELSE ports
    BY <2>1, Zenon DEF Radio!SetupSynths, Radio!ThenLos, Radio!Ports, Radio!IfOk, Radio!WithRef
  <2> QED BY <2>2
<1>2. Still(s, faces)
  <2> DEFINE tx == IF s.rx2tx2 THEN s.rx1tx1_mode_use_tx_num
                   ELSE Radio!Clamp(s.rx1tx1_mode_use_tx_num, 1, 2)
             rx == IF s.rx2tx2 THEN s.rx1tx1_mode_use_rx_num
                   ELSE Radio!Clamp(s.rx1tx1_mode_use_rx_num, 1, 2)
             used == [s EXCEPT !.rx1tx1_mode_use_tx_num = tx, !.rx1tx1_mode_use_rx_num = rx]
             txs == IF s.rx2tx2 THEN {1, 2} ELSE {used.rx1tx1_mode_use_tx_num}
             rxs == IF s.rx2tx2 THEN {1, 2} ELSE {used.rx1tx1_mode_use_rx_num}
  <2>1. faces = [used EXCEPT !.reg.TX_ENABLE = txs, !.reg.RX_ENABLE = rxs]
    BY Zenon DEF Radio!Interfaces
  <2> HIDE DEF tx, rx
  <2>2. Still(s, used)
    BY FollowsWays DEF Still, Steady, Intact, Undamaged, Whole, Fields, Registers, Lo
  <2> HIDE DEF used, txs, rxs, faces
  <2> QED BY <2>1, <2>2 DEF Still, Steady, Intact, Undamaged, Whole, Fields, Registers, Lo
<1> HIDE DEF faces
<1>3. Still(s, ports)
  <2>1. yes \in BOOLEAN /\ sel \in Nat
    BY <1>2 DEF Still, Steady, Intact, Undamaged, Whole
  <2> HIDE DEF yes, sel
  <2> QED BY <1>2, <2>1, PortStill
<1> HIDE DEF ports
<1>4. Still(s, pp)
  <2> DEFINE last == [ports EXCEPT !.reg.DELAY = ports.port_delay]
  <2>1. Still(s, last)
    BY <1>3 DEF Still, Steady, Intact, Undamaged, Whole, Fields, Registers, Lo
  <2>2. pp = Radio!Configured(last, "PORT")
    BY DEF Radio!pp_port_setup
  <2> HIDE DEF last, pp
  <2> QED BY <2>1, <2>2, ConfiguredStill
<1> HIDE DEF pp
<1>5. Still(s, adc)
  BY <1>4, TimingStill
<1> HIDE DEF adc
<1>6. Still(s, outs)
  BY <1>5, ConfiguredStill DEF Radio!ctrl_outs_setup
<1> HIDE DEF outs
<1>7. Still(s, cycles)
  BY <1>6, ConfiguredStill DEF Radio!set_ref_clk_cycles
<1> HIDE DEF cycles
<1>8. Still(s, lna)
  BY <1>7, GainStill
<1> HIDE DEF lna, fref
<1>9. Still(s, aux)
  BY <1>8 DEF Still, Steady, Intact, Undamaged, Whole, Fields, Registers, Lo
<1> HIDE DEF aux, ref
<1>10. Same(s, pumps) /\ Same(pumps, los)
  <2>1. Same(s, pumps)
    BY <1>9, StillFacts, PumpsSame, SameWays DEF Still, Steady
  <2> HIDE DEF pumps
  <2> QED BY <2>1, LosSame DEF Same
<1> HIDE DEF pumps, los
<1> QED BY <1>1, <1>3, <1>10, SameWays DEF Still, Steady

LEMMA BasebandStill ==
  ASSUME NEW s, Whole(s)
  PROVE  Still(s, Radio!SetupBaseband(s))
<1> DEFINE gm == Radio!load_mixer_gm_subtable(s)
           gains == Radio!gc_setup(gm)
           filters == Radio!SetFilters(gains, s.rf_rx_bandwidth, s.rf_tx_bandwidth)
           bbdc == Radio!IfOk(filters, Radio!bb_dc_offset_calib(filters))
           rfdc == Radio!IfOk(bbdc, Radio!rf_dc_offset_calib(bbdc))
           noted == [rfdc EXCEPT !.current_rx_bw = s.rf_rx_bandwidth,
                                 !.current_tx_bw = s.rf_tx_bandwidth,
                                 !.last_tx_quad_cal_phase = 31]
           quad == Radio!tx_quad_calib(noted, s.rf_rx_bandwidth \div 2,
                                        s.rf_tx_bandwidth \div 2, -1)
           end == Radio!IfOk(rfdc, quad)
<1>1. Radio!SetupBaseband(s) = end
  BY Zenon DEF Radio!SetupBaseband
<1>2. Still(s, gm)
  BY StillFacts, GainStill
<1> HIDE DEF gm
<1>3. Still(s, gains)
  BY <1>2, GcSetupStill
<1> HIDE DEF gains
<1>4. Still(s, filters)
  BY <1>3, SetFiltersStill
<1> HIDE DEF filters
<1>5. Still(s, bbdc)
  BY <1>4, CalStill DEF Radio!IfOk
<1> HIDE DEF bbdc
<1>6. Still(s, rfdc)
  BY <1>5, CalStill DEF Radio!IfOk
<1> HIDE DEF rfdc
<1>7. Still(s, noted)
  BY <1>6 DEF Still, Steady, Intact, Undamaged, Whole, Fields, Registers, Lo
<1> HIDE DEF noted
<1>8. Still(s, quad)
  BY <1>7, QuadStill
<1> HIDE DEF quad
<1> QED BY <1>1, <1>6, <1>8 DEF Radio!IfOk

\* Whether or not it gets into the state it is to work in, that is one of its mode.
LEMMA EndSettles ==
  ASSUME NEW s, Whole(s)
  PROVE  LET e == Radio!SetupEnd(s)
         IN Same(s, e) /\ (Radio!Ok(e) => Settled(e))
<1> DEFINE yes == TRUE
           no == FALSE
           tracked == Radio!tracking_control(s, s.tracks)
           ports == Radio!pp_port_setup(tracked, yes)
           mode == Radio!set_ensm_mode(ports, s.fdd, s.ensm_pin_ctrl)
           used == IF s.rx2tx2 THEN {1, 2} ELSE {s.rx1tx1_mode_use_tx_num}
           loud == Radio!set_tx_atten(mode, s.tx_atten, used)
           quiet == Radio!set_tx_atten(loud, Radio!MAX_TX_ATTENUATION_DB, {1, 2} \ used)
           rssi == Radio!rssi_setup(quiet, no)
           clkout == Radio!clkout_control(rssi)
           last == Radio!txmon_setup(clkout)
           noted == [last EXCEPT !.curr_ensm_state = last.reg.STATE]
           to == IF s.fdd THEN "FDD" ELSE "RX"
           entered == Radio!ensm_set_state(noted, to, s.ensm_pin_ctrl)
           end == [entered EXCEPT !.auto_cal_en = TRUE, !.cal_threshold_freq = 100, !.rc = "ok"]
           refused == Radio!Result(mode, "EINVAL")
<1>1. Radio!SetupEnd(s) = refused \/ Radio!SetupEnd(s) = end
  BY Zenon DEF Radio!SetupEnd
<1>2. s.fdd \in BOOLEAN
  BY DEF Whole
<1>3. Still(s, tracked)
  BY StillFacts, CalStill
<1> HIDE DEF tracked
<1>4. Still(s, ports)
  BY <1>3, ConfiguredStill DEF Radio!pp_port_setup
<1> HIDE DEF ports
<1>5. Intact(ports, mode) /\ mode.reg.FDD_MODE = s.fdd
  BY <1>2, <1>4, StillFacts, ModeFacts
<1> HIDE DEF mode, used
<1>6. Still(mode, mode)
  BY <1>5, StillFacts DEF Intact, Undamaged
<1>7. Still(mode, loud)
  BY <1>6, GainStill
<1> HIDE DEF loud
<1>8. Still(mode, quiet)
  BY <1>7, GainStill
<1> HIDE DEF quiet
<1>9. Still(mode, rssi)
  BY <1>8, TimingStill
<1> HIDE DEF rssi
<1>10. Still(mode, clkout)
  BY <1>9, ConfiguredStill
<1> HIDE DEF clkout
<1>11. Still(mode, last)
  BY <1>10, ConfiguredStill DEF Radio!txmon_setup
<1> HIDE DEF last
<1>12. Same(s, last) /\ last.reg.FDD_MODE = last.fdd
  BY <1>4, <1>5, <1>11, FollowsWays DEF Still, Steady, Same, Intact, Undamaged
<1>13. Same(last, noted) /\ noted.reg.FDD_MODE = noted.fdd
  BY <1>12, FollowsWays DEF Same, Whole, Fields, Registers, Lo
<1> HIDE DEF noted
<1>14. Same(s, noted)
  BY <1>12, <1>13, SameWays
<1>15. Same(noted, entered) /\ Settled(entered)
  <2>1. to \in Radio!EnsmStates /\ to = IF noted.fdd THEN "FDD" ELSE "RX"
    BY <1>14 DEF Radio!EnsmStates, Same
  <2> HIDE DEF to
  <2> QED BY <1>13, <1>14, <2>1, EnterFacts, SameWays
<1> HIDE DEF entered
<1>16. Same(entered, end) /\ Settled(end)
  BY <1>15, FollowsWays DEF Same, Settled, Whole, Fields, Registers, Lo
<1> HIDE DEF end
<1>17. Same(s, end)
  BY <1>14, <1>15, <1>16, SameWays
<1>18. Still(mode, refused) /\ ~Radio!Ok(refused)
  BY <1>6, ResultStill DEF Radio!Ok, Radio!Result, Still, Steady, Intact, Undamaged, Whole, Fields
<1> HIDE DEF refused
<1>19. Same(s, refused)
  BY <1>4, <1>5, <1>18, SameWays DEF Still, Steady
<1> QED BY <1>1, <1>16, <1>17, <1>18, <1>19

LEMMA SetupSettles ==
  ASSUME NEW s, Whole(s)
  PROVE  LET e == Radio!setup(s)
         IN Same(s, e) /\ (Radio!Ok(e) => Settled(e))
<1> DEFINE clocks == Radio!SetupClocks(s)
           synths == Radio!ThenSynths(clocks)
           base == Radio!ThenBaseband(synths)
           end == Radio!SetupEnd(base)
<1>1. Same(s, clocks)
  BY SetupClocksSame
<1> HIDE DEF clocks
<1>2. Same(s, synths)
  BY <1>1, SynthsSame, SameWays DEF Radio!ThenSynths, Radio!IfOk
<1> HIDE DEF synths
<1>3. Same(s, base)
  <2>1. Same(synths, Radio!SetupBaseband(synths))
    BY <1>2, BasebandStill, SameWays DEF Still, Steady
  <2> QED BY <1>2, <2>1, SameWays DEF Radio!ThenBaseband, Radio!IfOk
<1> HIDE DEF base
<1>4. Same(base, end) /\ (Radio!Ok(end) => Settled(end))
  BY <1>3, EndSettles, SameWays
<1>5. Radio!setup(s) = IF Radio!Ok(base) THEN end ELSE base
  BY Zenon DEF Radio!setup, Radio!ThenEnd, Radio!IfOk, base, synths, clocks
<1> HIDE DEF end
<1>6. Same(s, end)
  BY <1>3, <1>4, SameWays
<1> QED BY <1>3, <1>4, <1>5, <1>6

\* What comes after it tunes the interface and leaves the state as it is.
LEMMA PostSettles ==
  ASSUME NEW s, Whole(s)
  PROVE  LET e == Radio!post_setup(s)
         IN Same(s, e) /\ (Settled(s) => Settled(e))
<1> DEFINE no == FALSE
           swept == s.core_id = 0
           mode == ~s.rx2tx2
           noted == [s EXCEPT !.reg.R1_MODE = mode]
           tuned == Radio!dig_tune(noted, swept, no, no)
           chain == Radio!set_trx_clock_chain(tuned, tuned.rx_path_clks, tuned.tx_path_clks)
           alert == Radio!ensm_force_state(chain, "ALERT")
           back == Radio!ensm_restore_prev_state(alert)
           end == Radio!Result(back, chain.rc)
<1>1. Radio!post_setup(s) = tuned \/ Radio!post_setup(s) = end
  BY Zenon DEF Radio!post_setup, Radio!PostChain, Radio!PostTuning, Radio!ThroughAlert, Radio!IfOk
<1> HIDE DEF swept, mode
<1>2. Still(s, noted)
  BY FollowsWays DEF Still, Steady, Intact, Undamaged, Whole, Fields, Registers, Lo
<1> HIDE DEF noted
<1>3. ComesBack(noted, tuned)
  <2>1. no \in BOOLEAN /\ Whole(noted)
    BY <1>2, StillFacts
  <2> HIDE DEF no
  <2> QED BY <2>1, DigTuneBack
<1> HIDE DEF tuned
<1>4. ComesBack(s, tuned) /\ Whole(tuned)
  BY <1>2, <1>3, CallWays
<1>5. ComesBack(tuned, chain)
  BY <1>4, ChainBack
<1> HIDE DEF chain
<1>6. Whole(chain) /\ Still(chain, chain)
  BY <1>5, CallWays, StillFacts
<1>7. AtAlert(chain, alert)
  BY <1>6, ForceWays
<1> HIDE DEF alert
<1>8. Stays(chain, back)
  BY <1>6, <1>7, AlertWays
<1> HIDE DEF back
<1>9. Still(back, end)
  BY <1>8, StillFacts, ResultStill DEF Stays, Intact, Undamaged
<1> HIDE DEF end
<1>10. ComesBack(s, end)
  BY <1>4, <1>5, <1>8, <1>9, CallWays
<1> QED BY <1>1, <1>4, <1>10, SameWays, BackWays DEF ComesBack

-----------------------------------------------------------------------------
(* The radio set up, for the first time and again *)

\* What there is of a phy before it is cleared and the chip is reset.
Raw(b) ==
  /\ Fields \subseteq DOMAIN b
  /\ "alc" \in DOMAIN b.chip /\ b.chip.alc \in Nat
  /\ b.hdl_dac_version \in Nat /\ b.rf_rx_input_sel \in Nat /\ b.fdd \in BOOLEAN
  /\ b.fdd_independent_mode \in BOOLEAN /\ DOMAIN b.cached_rfpll_div = Radio!Sides

\* No LO is set, no synthesizer is, and no profile is in use.
Cleared(s) ==
  /\ s.current_lo_freq = [rx |-> 0, tx |-> 0]
  /\ s.current_use_tdd_table = [rx |-> FALSE, tx |-> FALSE]

Unset(reg) ==
  /\ Registers \subseteq DOMAIN reg
  /\ reg.CLOCKS = FALSE /\ reg.FDD_MODE = TRUE /\ reg.STATE = "SLEEP_WAIT"
  /\ reg.FAST_LOCK = [side \in Radio!Sides |-> 0] /\ reg.VCO_ALC = [side \in Radio!Sides |-> 0]
  /\ reg.LUT = [side \in Radio!Sides |-> Radio!NoTable]
  /\ reg.SYNTH = [side \in Radio!Sides |-> [vco |-> 0, div |-> 0]]
  /\ reg.EXT_LO = {}

\* After a reset the driver knows what there is: no LO, and the tables of the reset.
LEMMA BlankSound ==
  ASSUME NEW s, Raw(s), Cleared(s), Unset(s.reg)
  PROVE  LoSound(Lo(s)) /\ Coupled(Lo(s))
<1> DEFINE v == Lo(s)
           freq == v.current_lo_freq
           lut == v.LUT
           words == v.SYNTH
           tdd == v.current_use_tdd_table
<1>1. /\ freq = [rx |-> 0, tx |-> 0] /\ tdd = [rx |-> FALSE, tx |-> FALSE]
      /\ lut = [side \in Radio!Sides |-> Radio!NoTable]
      /\ words = [side \in Radio!Sides |-> [vco |-> 0, div |-> 0]]
      /\ Parts \subseteq DOMAIN v /\ v.fdd \in BOOLEAN /\ v.fdd_independent_mode \in BOOLEAN
      /\ DOMAIN v.cached_rfpll_div = Radio!Sides
  BY DEF Cleared, Unset, Lo, Raw, Parts
<1> HIDE DEF v
<1>2. ~Receivable(v, 0)
  BY DEF Receivable, Radio!validate_rfpll, Radio!MAX_CARRIER_FREQ
<1>3. /\ DOMAIN freq = Radio!Sides /\ DOMAIN tdd = Radio!Sides /\ DOMAIN lut = Radio!Sides
      /\ DOMAIN words = Radio!Sides
      /\ freq.rx = 0 /\ freq.tx = 0
      /\ \A side \in Radio!Sides :
           /\ freq[side] = 0 /\ tdd[side] = FALSE /\ lut[side].table = "FDD"
           /\ words[side] = [vco |-> 0, div |-> 0]
  <2> HIDE DEF freq, lut, words, tdd
  <2> QED BY <1>1 DEF Radio!Sides, Radio!NoTable
<1>4. Coupled(v)
  BY <1>3 DEF Coupled
<1>5. LoSound(v)
  <2>1. ASSUME NEW side \in Radio!Sides
        PROVE  words[side] = [vco |-> words[side].vco, div |-> words[side].div]
    BY <1>3
  <2> QED BY <1>1, <1>2, <1>3, <2>1 DEF LoSound, Table
<1> QED BY <1>4, <1>5 DEF v

LEMMA ClearFacts ==
  ASSUME NEW b, Raw(b)
  PROVE  LET c == Radio!clear_state(b)
         IN /\ Raw(c) /\ Bypassed(c) /\ c.ensm_pin_ctl_en \in BOOLEAN
            /\ c.fastlock = Radio!NoFastlock
            /\ c.fdd = b.fdd /\ c.reg = b.reg /\ Cleared(c)
<1> DEFINE none == Radio!NoFastlock
<1> DEFINE c == [b EXCEPT
             !.current_table = Radio!NO_GAIN_TABLE, !.bypass_rx_fir = TRUE, !.bypass_tx_fir = TRUE,
             !.rate_governor = 1, !.tracks = {"bbdc", "rfdc", "quad"},
             !.prev_ensm_state = "SLEEP_WAIT", !.curr_ensm_state = "SLEEP_WAIT",
             !.auto_cal_en = FALSE, !.manual_tx_quad_cal_en = FALSE, !.last_tx_quad_cal_freq = 0,
             !.current_rx_bw = 0, !.current_tx_bw = 0,
             !.tx_fir_int = 0, !.tx_fir_ntaps = 0, !.rx_fir_dec = 0, !.rx_fir_ntaps = 0,
             !.ensm_pin_ctl_en = FALSE, !.current_lo_freq = [rx |-> 0, tx |-> 0],
             !.current_use_tdd_table = [rx |-> FALSE, tx |-> FALSE],
             !.lo_off = [rx |-> FALSE, tx |-> FALSE], !.fastlock = none]
<1>2. Radio!clear_state(b) = c
  BY Zenon DEF Radio!clear_state
<1> HIDE DEF none
<1>3. Raw(c)
  BY ZenonT(40) DEF Raw, Fields
<1>4. Bypassed(c) /\ c.fastlock = none /\ c.ensm_pin_ctl_en \in BOOLEAN
  BY DEF Raw, Bypassed, Fields
<1>5. c.fdd = b.fdd /\ c.reg = b.reg /\ Cleared(c)
  BY DEF Raw, Fields, Cleared
<1> HIDE DEF c
<1> QED BY <1>2, <1>3, <1>4, <1>5 DEF none

LEMMA ResetFacts ==
  ASSUME NEW b, Raw(b)
  PROVE  LET r == Radio!reset(b)
         IN /\ r.fdd = b.fdd /\ Raw(r) /\ Unset(r.reg) /\ (Cleared(b) => Cleared(r))
            /\ r.fastlock = b.fastlock /\ r.ensm_pin_ctl_en = b.ensm_pin_ctl_en
            /\ r.bypass_rx_fir = b.bypass_rx_fir /\ r.bypass_tx_fir = b.bypass_tx_fir
<1> DEFINE reg == [Radio!PowerOn EXCEPT !.DSEL = b.reg.DSEL, !.PNSEL = b.reg.PNSEL,
                                        !.R1_MODE = b.reg.R1_MODE, !.IODELAY = b.reg.IODELAY]
           rc == IF b.has_resetb THEN "ok" ELSE "ENODEV"
           r == [b EXCEPT !.reg = reg, !.rc = rc]
<1>1. Radio!reset(b) = r
  BY Zenon DEF Radio!reset
<1>2. Unset(reg)
  BY DEF Radio!PowerOn, Registers, Unset
<1> HIDE DEF reg, rc
<1>3. /\ r.fdd = b.fdd /\ r.fastlock = b.fastlock /\ r.ensm_pin_ctl_en = b.ensm_pin_ctl_en
      /\ r.bypass_rx_fir = b.bypass_rx_fir /\ r.bypass_tx_fir = b.bypass_tx_fir
  BY DEF Raw, Fields
<1>4. Raw(r) /\ Unset(r.reg) /\ (Cleared(b) => Cleared(r))
  BY <1>2 DEF Raw, Fields, Cleared
<1> QED BY <1>1, <1>3, <1>4

\* The chip after a reset and the driver with its state cleared, in whatever order.
LEMMA UnsetWhole ==
  ASSUME NEW s, Raw(s), Unset(s.reg), s.fastlock = Radio!NoFastlock,
         s.ensm_pin_ctl_en \in BOOLEAN
  PROVE  Whole(s)
<1>1. Profiled(Radio!NoFastlock)
  BY DEF Profiled, Radio!NoFastlock, Radio!NoEntry
<1>2. Used(Radio!NoFastlock.current_profile, s.reg.FAST_LOCK, s.reg.VCO_ALC)
  BY DEF Used, Radio!NoFastlock, Unset
<1>3. Locks(s.fastlock, s.reg.FAST_LOCK, s.reg.VCO_ALC)
  BY <1>1, <1>2 DEF Locks
<1> QED BY <1>3 DEF Whole, Raw, Unset

\* After a change of the number of channels.
LEMMA AnewSettles ==
  ASSUME NEW s, Whole(s), LoSound(Lo(s)), NEW mode
  PROVE  LET t == Radio!SetUpAnew(s, mode)
         IN /\ Whole(t) /\ Bypassed(t) /\ t.fdd = s.fdd
            /\ LoSound(Lo(t)) /\ Coupled(Lo(t))
            /\ Radio!Ok(t) => Settled(t)
<1> DEFINE two == mode = 2
           chosen == [s EXCEPT !.rx2tx2 = two]
           fresh == Radio!reset(chosen)
           clear == Radio!clear_state(fresh)
           known == Radio!Recalc(clear)
           end == Radio!setup(known)
<1>1. Radio!SetUpAnew(s, mode) = end
  BY Zenon DEF Radio!SetUpAnew
<1> HIDE DEF two
<1>2. Raw(chosen) /\ chosen.fdd = s.fdd
  <2>1. s.fdd_independent_mode \in BOOLEAN /\ DOMAIN s.cached_rfpll_div = Radio!Sides
    BY DEF LoSound, Lo
  <2> QED BY <2>1 DEF Raw, Whole, Fields
<1> HIDE DEF chosen
<1>3. fresh.fdd = s.fdd /\ Raw(fresh) /\ Unset(fresh.reg)
  BY <1>2, ResetFacts
<1> HIDE DEF fresh
<1>4. /\ Raw(clear) /\ Bypassed(clear) /\ clear.fastlock = Radio!NoFastlock
      /\ clear.ensm_pin_ctl_en \in BOOLEAN /\ clear.fdd = fresh.fdd /\ clear.reg = fresh.reg
      /\ Cleared(clear)
  BY <1>3, ClearFacts
<1> HIDE DEF clear
<1>5. LoSound(Lo(clear)) /\ Coupled(Lo(clear))
  BY <1>3, <1>4, BlankSound
<1>6. Whole(clear)
  BY <1>3, <1>4, UnsetWhole
<1>7. Still(clear, known)
  BY <1>6, StillFacts, RecalcStill
<1> HIDE DEF known
<1>8. Same(known, end) /\ (Radio!Ok(end) => Settled(end))
  BY <1>7, StillFacts, SetupSettles
<1> HIDE DEF end
<1>9. Same(clear, end)
  BY <1>7, <1>8, SameWays DEF Still, Steady
<1>10. LoSound(Lo(end)) /\ Coupled(Lo(end))
  BY <1>5, <1>9, LeadsWays DEF Same
<1> QED BY <1>1, <1>3, <1>4, <1>8, <1>9, <1>10 DEF Same, Bypassed

LEMMA NoChSettles ==
  ASSUME NEW s, Whole(s), LoSound(Lo(s)), NEW mode
  PROVE  LET t == Radio!set_no_ch_mode(s, mode)
         IN /\ Whole(t) /\ t.fdd = s.fdd /\ Leads(Lo(s), Lo(t))
            /\ Bypassed(s) => Bypassed(t)
            /\ Radio!Ok(t) /\ Radio!Ok(Radio!SetUpAnew(s, mode)) => Settled(t)
<1> DEFINE refused == Radio!Result(s, "EINVAL")
           anew == Radio!SetUpAnew(s, mode)
           post == Radio!post_setup(anew)
           end == Radio!Result(post, "ok")
           t == Radio!set_no_ch_mode(s, mode)
<1>1. t = refused \/ t = end
  BY Zenon DEF Radio!set_no_ch_mode
<1>2. /\ Whole(anew) /\ Bypassed(anew) /\ anew.fdd = s.fdd
      /\ Radio!Ok(anew) => Settled(anew)
      /\ LoSound(Lo(anew)) /\ Coupled(Lo(anew))
  BY AnewSettles
<1>3. Still(s, refused) /\ ~Radio!Ok(refused)
  BY StillFacts, ResultStill DEF Radio!Ok, Radio!Result, Whole, Fields
<1> HIDE DEF refused, anew
<1>4. Same(anew, post) /\ (Settled(anew) => Settled(post))
  BY <1>2, PostSettles
<1> HIDE DEF post
<1>5. Still(post, end)
  BY <1>4, StillFacts, ResultStill, SameWays
<1> HIDE DEF end
<1>6. Same(anew, end) /\ (Settled(post) => Settled(end))
  BY <1>4, <1>5, SameWays, Ways, BackWays DEF Still, Steady
<1>7. Same(s, refused)
  BY <1>3, SameWays DEF Still, Steady
<1>8. CASE t = refused
  BY <1>3, <1>7, <1>8, LeadsWays DEF Same, Bypassed
<1>9. CASE t = end
  <2>1. LoSound(Lo(end)) /\ Coupled(Lo(end))
    BY <1>2, <1>6, LeadsWays DEF Same
  <2>2. Leads(Lo(s), Lo(end))
    BY <2>1, LeadsWays
  <2> QED BY <1>2, <1>4, <1>6, <1>9, <2>2 DEF Same, Bypassed, anew
<1> QED BY <1>1, <1>8, <1>9

\* A board that the driver takes, ready to be used.
Usable(s) == Whole(s) /\ Settled(s) /\ Bypassed(s) /\ LoSound(Lo(s))

LEMMA WantedFacts ==
  ASSUME NEW b, Raw(b)
  PROVE  Raw(Radio!Wanted(b))
<1> DEFINE off == [side \in Radio!Sides |-> FALSE]
           small == [b EXCEPT !.use_ext_lo = off, !.use_extclk = TRUE]
           one == [b EXCEPT !.rx2tx2 = FALSE, !.rx1tx1_mode_use_rx_num = 1,
                            !.rx1tx1_mode_use_tx_num = 1]
<1>1. Radio!Wanted(b) \in {small, one, b}
  BY DEF Radio!Wanted
<1> HIDE DEF off
<1>2. Raw(small) /\ Raw(one)
  BY DEF Raw, Fields
<1> HIDE DEF small, one
<1> QED BY <1>1, <1>2

LEMMA FreshFacts ==
  ASSUME NEW b, Raw(b)
  PROVE  LET f == Radio!Fresh(b)
         IN /\ Raw(f) /\ f.fastlock = Radio!NoFastlock /\ f.ensm_pin_ctl_en \in BOOLEAN
            /\ Bypassed(f) /\ Cleared(f)
<1> DEFINE wanted == Radio!Wanted(b)
           clear == Radio!clear_state(wanted)
           off == Radio!BistOff
           end == [clear EXCEPT !.bist_loopback_mode = 0, !.bist_prbs_mode = "off",
                                !.bist_tone_mode = "off", !.bist_tone_freq = 0,
                                !.bist_config = off]
<1>1. Radio!Fresh(b) = end
  BY Zenon DEF Radio!Fresh
<1>2. Raw(wanted)
  BY WantedFacts
<1> HIDE DEF wanted
<1>3. Raw(clear) /\ Bypassed(clear) /\ clear.fastlock = Radio!NoFastlock
      /\ clear.ensm_pin_ctl_en \in BOOLEAN /\ Cleared(clear)
  BY <1>2, ClearFacts
<1> HIDE DEF clear, off
<1>4. /\ Raw(end) /\ end.fastlock = Radio!NoFastlock /\ end.ensm_pin_ctl_en \in BOOLEAN
      /\ Bypassed(end) /\ Cleared(end)
  BY <1>3 DEF Raw, Bypassed, Fields, Cleared
<1> QED BY <1>1, <1>4

LEMMA InitUsable ==
  ASSUME NEW b, Raw(b), Radio!Ok(Radio!init(b, TRUE))
  PROVE  Usable(Radio!init(b, TRUE))
<1> DEFINE fresh == Radio!Fresh(b)
           rst == Radio!reset(fresh)
           claimed == [rst EXCEPT !.blocks = Radio!Allocated]
           dummy == [rx |-> claimed.rx_synth_freq, tx |-> claimed.tx_synth_freq]
           noted == [claimed EXCEPT !.lo_dummy = dummy]
           recalc == Radio!Recalc(noted)
           known == [recalc EXCEPT !.registered = TRUE, !.rc = "ok"]
           set == Radio!setup(known)
           blocks == set.blocks \cup {"clks"}
           ready == [set EXCEPT !.blocks = blocks]
           more == ready.blocks \cup {"rx_adc"}
           adc == [ready EXCEPT !.blocks = more]
           post == Radio!post_setup(adc)
           then == Radio!ThenAdc(ready)
           given == Radio!GivenUp(then)
<1>1. Radio!init(b, TRUE) = IF Radio!Ok(then) THEN then ELSE given
  BY Zenon DEF Radio!init, Radio!OrGivenUp, Radio!Ready, Radio!register_clocks
<1>2. then = IF Radio!Ok(ready) THEN post ELSE ready
  BY Zenon DEF Radio!ThenAdc, Radio!IfOk
<1>3. Raw(fresh) /\ fresh.fastlock = Radio!NoFastlock /\ fresh.ensm_pin_ctl_en \in BOOLEAN
      /\ Bypassed(fresh) /\ Cleared(fresh)
  BY FreshFacts
<1> HIDE DEF fresh
<1>4. Whole(rst) /\ Bypassed(rst) /\ LoSound(Lo(rst))
  BY <1>3, ResetFacts, UnsetWhole, BlankSound DEF Bypassed
<1> HIDE DEF rst
<1>5. Still(rst, claimed)
  BY <1>4, FollowsWays DEF Still, Steady, Intact, Undamaged, Whole, Fields, Registers, Lo
<1> HIDE DEF claimed, dummy
<1>6. Still(rst, noted)
  BY <1>5 DEF Still, Steady, Intact, Undamaged, Whole, Fields, Registers, Lo
<1> HIDE DEF noted
<1>7. Still(rst, recalc)
  BY <1>6, RecalcStill
<1> HIDE DEF recalc
<1>8. Still(rst, known)
  BY <1>7 DEF Still, Steady, Intact, Undamaged, Whole, Fields, Registers, Lo
<1> HIDE DEF known
<1>9. Same(rst, set) /\ (Radio!Ok(set) => Settled(set))
  BY <1>8, SetupSettles, SameWays, StillFacts DEF Still, Steady
<1> HIDE DEF set, blocks
<1>10. Still(set, ready) /\ ready.rc = set.rc
  BY <1>9, FollowsWays DEF Same, Still, Steady, Intact, Undamaged, Whole, Fields, Registers, Lo
<1>11. Same(rst, ready) /\ (Radio!Ok(ready) => Settled(ready))
  BY <1>9, <1>10, SameWays, Ways, BackWays DEF Still, Steady, Radio!Ok
<1> HIDE DEF ready, more
<1>12. Still(ready, adc)
  BY <1>11, FollowsWays DEF Same, Still, Steady, Intact, Undamaged, Whole, Fields, Registers, Lo
<1>13. Same(rst, adc) /\ (Radio!Ok(ready) => Settled(adc))
  BY <1>11, <1>12, SameWays, Ways, BackWays DEF Still, Steady
<1> HIDE DEF adc
<1>14. Same(rst, post) /\ (Radio!Ok(ready) => Settled(post))
  BY <1>13, PostSettles, SameWays
<1> HIDE DEF post
<1>15. Same(rst, then) /\ (Radio!Ok(then) => Settled(then))
  BY <1>2, <1>11, <1>14
<1> HIDE DEF then
<1>16. ~Radio!Ok(given)
  <2> DEFINE off == Radio!unregister_clocks(then)
             left == then.blocks \cap {"gpio", "spi", "rx_adc"}
             end == [off EXCEPT !.blocks = left, !.rc = "ENODEV"]
  <2>1. given = end
    BY Zenon DEF Radio!GivenUp
  <2>2. "rc" \in DOMAIN off
    BY <1>15 DEF Same, Whole, Fields, Radio!unregister_clocks
  <2> HIDE DEF off, left
  <2> QED BY <2>1, <2>2 DEF Radio!Ok
<1> HIDE DEF given
<1>17. Same(rst, then) => LoSound(Lo(then))
  BY <1>4 DEF Same, Follows
<1> QED BY <1>1, <1>4, <1>15, <1>16, <1>17, Zenon DEF Usable, Same, Bypassed

\* Nothing is called about a filter that is off already, and the rest brings the
\* state machine back, to ALERT at worst.
LEMMA SetupUsable ==
  ASSUME NEW s, Usable(s)
  PROVE  Usable(Radio!radio_setup(s))
<1>1. \A u, v : Usable(u) /\ Tries(u, v) => Usable(v)
  BY DEF Usable, Tries, Intact, Undamaged, Bypassed, Follows
<1>2. \A u, v : Usable(u) /\ Still(u, v) => Usable(v)
  BY <1>1, CallWays
<1>3. ASSUME NEW u, Usable(u), NEW sides, sides \in {{"rx"}, {"tx"}}
      PROVE  Usable(Radio!EnableFir(u, sides, FALSE))
  <2>1. \A side \in sides :
          (IF side = "rx" THEN u.bypass_rx_fir ELSE u.bypass_tx_fir) # FALSE
    BY <1>3 DEF Usable, Bypassed
  <2>2. Radio!EnableFir(u, sides, FALSE) = Radio!Result(u, "ok")
    BY <2>1, Zenon DEF Radio!EnableFir
  <2>3. Still(u, Radio!Result(u, "ok"))
    BY <1>3, StillFacts, ResultStill DEF Usable
  <2> QED BY <1>2, <1>3, <2>2, <2>3
<1> DEFINE rx == Radio!set_rx_fir_en_dis(s, FALSE)
           tx == Radio!set_tx_fir_en_dis(rx, FALSE)
           rate == Radio!set_rx_sampling_freq(tx, Radio!RF_SAMPLE_RATE)
           one == Radio!set_rx_rf_bandwidth(rate, Radio!RF_BW)
           both == Radio!set_tx_rf_bandwidth(one, Radio!RF_BW)
           mode == Radio!set_rx_gain_control_mode(both, 0, "MGC")
           gain == Radio!set_rx_rf_gain(mode, 0, Radio!RX_GAIN_DB)
<1>4. Usable(rx)
  BY <1>3 DEF Radio!set_rx_fir_en_dis
<1> HIDE DEF rx
<1>5. Usable(tx)
  BY <1>3, <1>4 DEF Radio!set_tx_fir_en_dis
<1> HIDE DEF tx
<1>6. Usable(rate)
  BY <1>1, <1>5, RatesTry DEF Usable, Radio!set_rx_sampling_freq
<1> HIDE DEF rate
<1>7. Usable(one)
  BY <1>1, <1>6, RatesTry DEF Usable
<1> HIDE DEF one
<1>8. Usable(both)
  BY <1>1, <1>7, RatesTry DEF Usable
<1> HIDE DEF both
<1>9. Usable(mode)
  BY <1>2, <1>8, SettingsStill DEF Usable
<1> HIDE DEF mode
<1>10. Usable(gain)
  BY <1>2, <1>9, SettingsStill DEF Usable
<1> HIDE DEF gain
<1>11. Radio!radio_setup(s) = IF Radio!Ok(rate) THEN gain ELSE rate
  BY Zenon DEF Radio!radio_setup, Radio!ManualGain, Radio!BothWidths, Radio!IfOk, rx, tx, rate,
               one, both, mode, gain
<1> QED BY <1>6, <1>10, <1>11

LEMMA RadiosUsable == \A s \in Radio!Radios : Usable(s)
<1> SUFFICES ASSUME NEW b \in Boards, Radio!Ok(Radio!init(b, TRUE))
             PROVE  Usable(Radio!radio_setup(Radio!init(b, TRUE)))
  BY Zenon DEF Radio!Radios, Radio!Initialised
<1>1. Raw(b)
  BY BoardAssumption DEF Raw, Fields, Radio!Sides
<1> QED BY <1>1, InitUsable, SetupUsable

-----------------------------------------------------------------------------
(* The calls of the application, one after the other *)

\* After any call the phy is whole, and as long as no call has failed the state
\* is one of its mode.  Only calls about the filters leave one of them in use.
Sound ==
  /\ Whole(phy) /\ LoSound(Lo(phy))
  /\ calm => Settled(phy)
  /\ session # "filters" => Bypassed(phy)

\* What a call may make of that, by its kind.
Kept == session' = session /\ (calm' => calm) /\ Leads(Lo(phy), Lo(phy)')

Stayed == Kept /\ Tries(phy, phy') /\ call'[1] # "recall"
Homed ==
  /\ Kept /\ Home(phy, phy') /\ call'[1] = "tune"
  /\ session # "filters" => Intact(phy, phy')
Entered ==
  /\ Kept /\ Whole(phy') /\ call'[1] \in {"ensm", "pins", "setup"}
  /\ Bypassed(phy) => Bypassed(phy')
  /\ calm' /\ Settled(phy) => Settled(phy')
Recalled ==
  /\ Kept /\ Still(phy, phy') /\ call'[1] = "recall"
  /\ Radio!Ok(phy') => \/ Radio!Rewritten(phy, call'[2])
                       \/ phy'.reg.VCO_ALC[call'[2]] # Radio!Alc(phy, call'[2])

\* A synthesizer that is set up anew is set up with those of the other side.
LEMMA LeadsUnpulled ==
  ASSUME NEW s, NEW t, LoSound(Lo(s)), Leads(Lo(s), Lo(t)), t.fdd, ~t.fdd_independent_mode,
         \E side \in Radio!Sides : \/ t.reg.LUT[side] # s.reg.LUT[side]
                                   \/ t.reg.SYNTH[side].vco # s.reg.SYNTH[side].vco
  PROVE  Radio!Placed(t)
<1> DEFINE v == Lo(s)
           w == Lo(t)
<1>1. /\ w.LUT = t.reg.LUT /\ w.SYNTH = t.reg.SYNTH /\ w.EXT_LO = t.reg.EXT_LO
      /\ w.current_lo_freq = t.current_lo_freq /\ w.dev_sel = t.dev_sel
      /\ w.fdd = t.fdd /\ w.fdd_independent_mode = t.fdd_independent_mode
      /\ v.LUT = s.reg.LUT /\ v.SYNTH = s.reg.SYNTH
  BY DEF Lo
<1> HIDE DEF v, w
<1>2. LoSound(w) /\ Coupled(w)
  BY <1>1 DEF Leads, v, w
<1>3. ASSUME NEW side \in Radio!Sides, side \notin t.reg.EXT_LO,
             Radio!validate_rfpll(t, FALSE, t.current_lo_freq[side])
      PROVE  t.reg.SYNTH[side] = Radio!Words(t.current_lo_freq[side])
  <2> DEFINE f == t.current_lo_freq[side]
  <2>1. Receivable(w, f)
    <3>1. \A x : Radio!validate_rfpll(t, FALSE, x) <=> Receivable(w, x)
      BY <1>1 DEF Receivable, Radio!validate_rfpll
    <3> QED BY <1>3, <3>1
  <2>2. /\ w.SYNTH[side] = [vco |-> w.SYNTH[side].vco, div |-> w.SYNTH[side].div]
        /\ w.SYNTH[side].vco = Radio!Words(f).vco /\ w.SYNTH[side].div = Radio!Words(f).div
    BY <1>1, <1>2, <1>3, <2>1 DEF LoSound
  <2> HIDE DEF f
  <2>3. Radio!Words(f) = [vco |-> Radio!Words(f).vco, div |-> Radio!Words(f).div]
    BY WordsAre
  <2> QED BY <1>1, <2>2, <2>3 DEF f
<1> QED BY <1>1, <1>2, <1>3 DEF Coupled, Table, Radio!Placed

LEMMA ClassFacts ==
  /\ Sound /\ (Stayed \/ Homed \/ Entered \/ Recalled) => Sound'
  /\ Sound /\ (Stayed \/ Homed \/ Entered \/ Recalled) => Radio!Returns
  /\ Stayed \/ Homed \/ Entered \/ Recalled => Radio!Fresher
  /\ Sound /\ (Stayed \/ Homed \/ Entered \/ Recalled) => Radio!Unpulled
<1> USE DEF Leads
<1>1. ASSUME Sound, Stayed PROVE Sound' /\ Radio!Returns
  <2>1. Intact(phy, phy') /\ (calm => Settled(phy'))
    BY <1>1 DEF Sound, Stayed, Tries
  <2>2. Sound'
    BY <1>1, <2>1 DEF Sound, Stayed, Kept, Intact, Undamaged, Bypassed
  <2>3. calm /\ Radio!Ok(phy') => Unmoved(phy, phy')
    BY <1>1 DEF Sound, Stayed, Tries
  <2>4. phy.reg.STATE \in {"ALERT", "TX", "RX", "FDD"} => phy.reg.CLOCKS
    BY <1>1 DEF Sound, Whole
  <2> QED BY <2>2, <2>3, <2>4 DEF Radio!Returns, Unmoved, Back, Given, Pins
<1>2. ASSUME Sound, Homed PROVE Sound' /\ Radio!Returns
  <2>1. Sound'
    BY <1>2 DEF Sound, Homed, Home, Kept, Intact, Undamaged, Bypassed
  <2>2. Radio!Returns
    BY <1>2 DEF Sound, Homed, Home, Radio!Returns, Given, Pins
  <2> QED BY <2>1, <2>2
<1>3. ASSUME Sound, Entered PROVE Sound' /\ Radio!Returns
  BY <1>3 DEF Sound, Entered, Kept, Radio!Returns
<1>4. ASSUME Sound, Recalled PROVE Sound' /\ Radio!Returns
  BY <1>4
     DEF Sound, Recalled, Kept, Still, Steady, Intact, Undamaged, Settled, Bypassed, Radio!Returns
<1> HIDE DEF Leads
<1>5. Stayed \/ Homed \/ Entered \/ Recalled => Radio!Fresher
  BY DEF Stayed, Homed, Entered, Recalled, Radio!Fresher
<1>6. ASSUME Sound, Kept PROVE Radio!Unpulled
  <2>1. LoSound(Lo(phy)) /\ Leads(Lo(phy), Lo(phy'))
    BY <1>6 DEF Sound, Kept, Lo
  <2> QED BY <2>1, LeadsUnpulled DEF Radio!Unpulled
<1> QED BY <1>1, <1>2, <1>3, <1>4, <1>5, <1>6 DEF Stayed, Homed, Entered, Recalled

\* What the chip is to do in a call is no part of what the state machine is.
LEMMA QuietStill ==
  ASSUME NEW new, Whole(new)
  PROVE  LET q == [new EXCEPT !.chip = Radio!Quiet(new)]
         IN Still(new, q) /\ q.rc = new.rc /\ q.reg = new.reg
<1> DEFINE chip == Radio!Quiet(new)
<1>1. "alc" \in DOMAIN chip /\ chip.alc = new.chip.alc
  BY DEF Radio!Quiet, Whole
<1> DEFINE q == [new EXCEPT !.chip = chip]
<1> HIDE DEF chip
<1>2. Still(new, q) /\ q.rc = new.rc /\ q.reg = new.reg
  BY <1>1, FollowsWays DEF Still, Steady, Intact, Undamaged, Whole, Fields, Registers, Lo
<1> QED BY <1>2, Zenon DEF q, chip

LEMMA WithStill ==
  ASSUME Whole(phy), NEW c
  PROVE  /\ Still(phy, Radio!With(c)) /\ Whole(Radio!With(c))
         /\ Lo(Radio!With(c)) = Lo(phy)
<1>1. Still(phy, Radio!With(c))
  BY FollowsWays DEF Radio!With, Still, Steady, Intact, Undamaged, Whole, Fields, Registers, Lo
<1>2. Lo(Radio!With(c)) = Lo(phy)
  BY DEF Radio!With, Whole, Fields, Lo
<1> QED BY <1>1, <1>2, StillFacts

LEMMA RecordedWays ==
  ASSUME Sound, NEW kind, NEW new, NEW fine, Radio!Recorded(kind, new, fine),
         NEW s, Still(phy, s)
  PROVE  /\ Tries(s, new) /\ kind[1] # "recall" => Stayed
         /\ Home(s, new) /\ kind[1] = "tune" /\ session = "filters" => Homed
         /\ ComesBack(s, new) /\ kind[1] = "tune" => Homed
         /\ /\ Whole(new) /\ kind[1] \in {"ensm", "setup"} /\ Leads(Lo(phy), Lo(new))
            /\ Bypassed(s) => Bypassed(new)
            /\ Radio!Ok(new) /\ fine /\ Settled(s) => Settled(new)
            => Entered
<1> DEFINE q == [new EXCEPT !.chip = Radio!Quiet(new)]
<1>1. phy' = q /\ call' = kind /\ session' = session /\ (calm' => calm)
  BY DEF Radio!Recorded
<1>2. calm' => Radio!Ok(new) /\ fine
  BY DEF Radio!Recorded
<1>3. Whole(new) => Still(new, q) /\ q.rc = new.rc
  BY QuietStill
<1> HIDE DEF q
<1>4. Settled(phy) => Settled(s)
  BY DEF Still, Steady, Intact, Undamaged, Settled
<1>5. Tries(s, new) => Tries(phy, q)
  <2> SUFFICES ASSUME Tries(s, new) PROVE Tries(phy, q)
    OBVIOUS
  <2>1. Tries(phy, new) /\ Whole(new)
    BY CallWays
  <2>2. Intact(phy, q)
    BY <1>3, <2>1, CallWays
  <2>3. Settled(new) => Settled(q)
    BY <1>3, <2>1 DEF Still, Steady, Intact, Undamaged, Settled
  <2>4. Radio!Ok(q) => Radio!Ok(new)
    BY <1>3, <2>1 DEF Radio!Ok
  <2>5. Unmoved(phy, new) => Unmoved(phy, q)
    BY <1>3, <2>1, Ways, BackWays
  <2> QED BY <2>1, <2>2, <2>3, <2>4, <2>5 DEF Tries
<1>6. Home(s, new) => Home(phy, q)
  BY <1>3, <1>4, FollowsWays
     DEF Home, Still, Steady, Intact, Undamaged, Settled, Given, Pins, Radio!Ok
<1>7. ComesBack(s, new) => Home(phy, q) /\ Intact(phy, q)
  <2> SUFFICES ASSUME ComesBack(s, new) PROVE ComesBack(phy, q)
    BY CallWays, HomeWays
  <2>1. Whole(new)
    BY CallWays
  <2> QED BY <1>3, <2>1, CallWays
<1>8. /\ Whole(new) => Whole(q)
      /\ Whole(new) /\ Bypassed(new) => Bypassed(q)
      /\ Whole(new) /\ Settled(new) => Settled(q)
      /\ Bypassed(phy) => Bypassed(s)
  BY <1>3 DEF Still, Steady, Intact, Undamaged, Settled, Bypassed
<1>13. Lo(phy)' = Lo(q)
  BY <1>1 DEF Lo
<1>14. \A t : Follows(Lo(phy), Lo(t)) /\ t = q => Leads(Lo(phy), Lo(phy)')
  BY <1>13, LeadsWays
<1> USE <1>1 DEF Kept
<1>9. Tries(s, new) /\ kind[1] # "recall" => Stayed
  BY <1>5, <1>14 DEF Stayed, Tries, Intact
<1>10. Home(s, new) /\ kind[1] = "tune" /\ session = "filters" => Homed
  BY <1>6, <1>14 DEF Homed, Home
<1>11. ComesBack(s, new) /\ kind[1] = "tune" => Homed
  BY <1>7, <1>14 DEF Homed, Intact
<1>12. ASSUME Whole(new), kind[1] \in {"ensm", "setup"}, Leads(Lo(phy), Lo(new)),
              Bypassed(s) => Bypassed(new),
              Radio!Ok(new) /\ fine /\ Settled(s) => Settled(new)
       PROVE  Entered
  <2>1. Leads(Lo(phy), Lo(phy)')
    BY <1>3, <1>12, <1>13, LeadsWays DEF Still, Intact
  <2> QED BY <1>2, <1>4, <1>8, <1>12, <2>1 DEF Entered
<1> QED BY <1>9, <1>10, <1>11, <1>12

LEMMA AnsweredWays ==
  ASSUME Sound, NEW kind, NEW new, Radio!Answered(kind, new)
  PROVE  /\ Tries(phy, new) /\ kind[1] # "recall" => Stayed
         /\ Home(phy, new) /\ kind[1] = "tune" /\ session = "filters" => Homed
         /\ ComesBack(phy, new) /\ kind[1] = "tune" => Homed
         /\ /\ Turned(phy, new) /\ kind[1] \in {"ensm", "setup"}
            /\ Settled(phy) => Settled(new)
            => Entered
<1> DEFINE fine == TRUE
<1>1. Radio!Recorded(kind, new, fine)
  BY Zenon DEF Radio!Answered
<1>2. Still(phy, phy)
  BY StillFacts DEF Sound
<1>3. Turned(phy, new) =>
        Whole(new) /\ (Bypassed(phy) => Bypassed(new)) /\ Leads(Lo(phy), Lo(new))
  BY TurnedLeads DEF Turned, Bypassed
<1> HIDE DEF fine
<1> QED BY <1>1, <1>2, <1>3, RecordedWays

\* The calls that leave the state machine where it was.
LEMMA RatesStep ==
  ASSUME Sound
  PROVE  Radio!RfBandwidth \/ Radio!SamplingFreq \/ Radio!PathClks \/ Radio!RateGovernor => Stayed
<1>1. Whole(phy) /\ Still(phy, phy) /\ (session = "rates" => Bypassed(phy))
  BY StillFacts DEF Sound
<1>2. ASSUME session = "rates", NEW c
      PROVE  Still(phy, Radio!With(c)) /\ Whole(Radio!With(c)) /\ Bypassed(Radio!With(c))
  BY <1>1, <1>2, WithStill DEF Still, Steady, Intact, Undamaged, Bypassed
<1>3. ASSUME NEW new, NEW fine, Radio!Recorded(<<"rate">>, new, fine), NEW s, Still(phy, s),
             Tries(s, new)
      PROVE  Stayed
  BY <1>3, RecordedWays
<1>4. ASSUME NEW new, Radio!Answered(<<"rate">>, new), Tries(phy, new) PROVE Stayed
  BY <1>4, AnsweredWays
<1>5. ASSUME Radio!RfBandwidth PROVE Stayed
  BY <1>2, <1>3, <1>5, RatesTry DEF Radio!RfBandwidth, Radio!Returned, Radio!Calling
<1>6. ASSUME Radio!SamplingFreq PROVE Stayed
  <2>1. session = "rates"
    BY <1>6, SMT DEF Radio!SamplingFreq, Radio!Calling
  <2>2. PICK c, rate :
          Radio!Recorded(<<"rate">>, Radio!set_tx_sampling_freq(Radio!With(c), rate), c.hang = {})
    BY <1>6, SMT DEF Radio!SamplingFreq, Radio!Returned
  <2> QED BY <1>2, <1>3, <2>1, <2>2, RatesTry
          DEF Radio!set_tx_sampling_freq, Radio!set_rx_sampling_freq
<1>7. ASSUME Radio!PathClks PROVE Stayed
  <2>1. session = "rates"
    BY <1>7, SMT DEF Radio!PathClks, Radio!Calling
  <2>2. PICK chain : Radio!Answered(<<"rate">>, Radio!set_trx_path_clks(phy, chain, chain))
    BY <1>7, SMT DEF Radio!PathClks
  <2> QED BY <1>1, <1>4, <2>1, <2>2, RatesTry
<1>8. ASSUME Radio!RateGovernor PROVE Stayed
  BY <1>1, <1>8, <1>4, SettingsStill, CallWays DEF Radio!RateGovernor
<1> QED BY <1>5, <1>6, <1>7, <1>8

LEMMA FiltersStep ==
  ASSUME Sound
  PROVE  /\ Radio!FirConfig \/ Radio!ParseFir => Stayed
         /\ Radio!FirEnDis \/ Radio!LoadEnableFir => Homed
<1>1. Whole(phy) /\ Still(phy, phy)
  BY StillFacts DEF Sound
<1>2. ASSUME NEW new, Radio!Answered(<<"filter">>, new), Stays(phy, new) PROVE Stayed
  BY <1>2, AnsweredWays, CallWays
<1>3. ASSUME Radio!FirConfig PROVE Stayed
  BY <1>1, <1>2, <1>3, FirConfigStays DEF Radio!FirConfig
<1>4. ASSUME Radio!ParseFir PROVE Stayed
  <2>1. PICK file : Radio!Answered(<<"filter">>, Radio!parse_fir(phy, file))
    BY <1>4, SMT DEF Radio!ParseFir
  <2> QED BY <1>1, <1>2, <2>1, ParseStays
<1>5. ASSUME NEW new, NEW fine, Radio!Recorded(<<"tune">>, new, fine), NEW s, Still(phy, s),
             Home(s, new), session = "filters"
      PROVE  Homed
  BY <1>5, RecordedWays
<1>6. ASSUME Radio!FirEnDis PROVE Homed
  <2>1. session = "filters"
    BY <1>6 DEF Radio!FirEnDis, Radio!Calling
  <2>2. PICK c \in Chips, sides \in {{"rx"}, {"tx"}, Radio!Sides}, enable \in BOOLEAN :
          Radio!Recorded(<<"tune">>, Radio!EnableFir(Radio!With(c), sides, enable), c.hang = {})
    BY <1>6 DEF Radio!FirEnDis, Radio!Returned
  <2>3. Still(phy, Radio!With(c)) /\ Whole(Radio!With(c))
    BY <1>1, WithStill
  <2> QED BY <1>5, <2>1, <2>2, <2>3, EnableFirHome
<1>7. ASSUME Radio!LoadEnableFir PROVE Homed
  <2>1. session = "filters"
    BY <1>7, SMT DEF Radio!LoadEnableFir, Radio!Calling
  <2>2. PICK f : Radio!Answered(<<"tune">>, Radio!trx_load_enable_fir(phy, f, f))
    BY <1>7, SMT DEF Radio!LoadEnableFir
  <2>3. Home(phy, Radio!trx_load_enable_fir(phy, f, f))
    BY <1>1, LoadEnableHome
  <2> QED BY <2>1, <2>2, <2>3, AnsweredWays
<1> QED BY <1>3, <1>4, <1>6, <1>7

LEMMA LosStep ==
  ASSUME Sound
  PROVE  Radio!LoFreq \/ Radio!LoRefused \/ Radio!LoIntExt \/ Radio!LoPowerdown \/ Radio!AutoCal
           \/ Radio!GainBand \/ Radio!FastlockLeave \/ Radio!CalibPowerdown => Stayed
<1>1. Whole(phy) /\ Still(phy, phy)
  BY StillFacts DEF Sound
<1>2. ASSUME NEW new, NEW fine, Radio!Recorded(<<"lo">>, new, fine), NEW s, Still(phy, s),
             Stays(s, new)
      PROVE  Stayed
  BY <1>2, RecordedWays, CallWays
<1>3. ASSUME NEW new, Radio!Answered(<<"lo">>, new), Stays(phy, new) PROVE Stayed
  BY <1>3, AnsweredWays, CallWays
<1>4. "rx" \in Radio!Sides /\ "tx" \in Radio!Sides
  BY DEF Radio!Sides
<1>5. ASSUME Radio!LoFreq PROVE Stayed
  BY <1>1, <1>2, <1>5, WithStill, LoStays DEF Radio!LoFreq, Radio!Returned
<1>6. ASSUME Radio!LoRefused PROVE Stayed
  <2> DEFINE no == FALSE
  <2>1. PICK side, rate :
          side \in Radio!Sides /\ Radio!Recorded(<<"lo">>, Radio!clk_set_lo(phy, side, rate), no)
    BY <1>6 DEF Radio!LoRefused
  <2> HIDE DEF no
  <2> QED BY <1>1, <1>2, <2>1, LoStays
<1>7. ASSUME Radio!LoIntExt PROVE Stayed
  BY <1>1, <1>2, <1>7, IntExtStays DEF Radio!LoIntExt
<1>8. ASSUME Radio!LoPowerdown \/ Radio!CalibPowerdown PROVE Stayed
  BY <1>1, <1>3, <1>8, SettingsStill, CallWays DEF Radio!LoPowerdown, Radio!CalibPowerdown
<1>9. ASSUME Radio!AutoCal PROVE Stayed
  BY <1>1, <1>3, <1>9, SettingsStill, CallWays DEF Radio!AutoCal
<1>10. ASSUME Radio!GainBand PROVE Stayed
  <2>1. PICK freq :
          Radio!Recorded(<<"lo">>, Radio!clk_set_lo(phy, "rx", freq), Radio!Received(freq))
    BY <1>10 DEF Radio!GainBand
  <2> QED BY <1>1, <1>2, <1>4, <2>1, LoStays
<1>11. ASSUME Radio!FastlockLeave PROVE Stayed
  BY <1>1, <1>3, <1>11, LoStays DEF Radio!FastlockLeave
<1> QED BY <1>5, <1>6, <1>7, <1>8, <1>9, <1>10, <1>11

LEMMA FastlockStep ==
  ASSUME Sound
  PROVE  /\ Radio!FastlockStore \/ Radio!FastlockLoad => Stayed
         /\ Radio!FastlockRecall => Recalled
<1>1. Whole(phy) /\ Still(phy, phy)
  BY StillFacts DEF Sound
<1>2. ASSUME NEW new, Radio!Answered(<<"fastlock">>, new), Still(phy, new) PROVE Stayed
  BY <1>2, AnsweredWays, CallWays
<1>3. {0, 1} \subseteq Radio!Profiles
  BY DEF Radio!Profiles
<1>4. ASSUME NEW side \in Radio!Sides, NEW profile \in Radio!Profiles, NEW alc \in Nat
      PROVE  Still(phy, Radio!fastlock_store([phy EXCEPT !.chip.alc = alc], side, profile))
  <2> DEFINE s == [phy EXCEPT !.chip.alc = alc]
             values == [word |-> s.reg.SYNTH[side], lut |-> s.reg.LUT[side], alc |-> s.chip.alc]
  <2>1. Still(phy, s) /\ s.chip.alc \in Nat
    BY <1>1 DEF Still, Steady, Intact, Undamaged, Whole, Fields, Registers, Lo
  <2>2. values.alc = s.chip.alc
    OBVIOUS
  <2> HIDE DEF s, values
  <2>3. Still(phy, Radio!fastlock_load(s, side, profile, values))
    BY <2>1, <2>2, LoadStill
  <2> QED BY <2>3, Zenon DEF Radio!fastlock_store, s, values
<1>5. ASSUME NEW side \in Radio!Sides
      PROVE  Still(phy, Radio!fastlock_load(phy, side, 1, Radio!fastlock_save(phy, side, 0)))
  <2>1. Radio!fastlock_save(phy, side, 0).alc = phy.fastlock.entry[side][0].alc
    BY DEF Radio!fastlock_save, Radio!fastlock_readval
  <2>2. Radio!fastlock_save(phy, side, 0).alc \in Nat
    BY <1>1, <1>3, <2>1 DEF Whole, Locks, Profiled
  <2> QED BY <1>1, <1>3, <2>2, LoadStill
<1>6. ASSUME Radio!FastlockStore PROVE Stayed
  BY <1>2, <1>3, <1>4, <1>6 DEF Radio!FastlockStore
<1>7. ASSUME Radio!FastlockLoad PROVE Stayed
  BY <1>2, <1>5, <1>7 DEF Radio!FastlockLoad
<1>8. ASSUME Radio!FastlockRecall PROVE Recalled
  <2>1. PICK side \in Radio!Sides, profile \in {0, 1} :
          Radio!Recorded(<<"recall", side, profile>>,
                          Radio!fastlock_recall(phy, side, profile), TRUE)
    BY <1>8 DEF Radio!FastlockRecall, Radio!Answered
  <2> DEFINE new == Radio!fastlock_recall(phy, side, profile)
             q == [new EXCEPT !.chip = Radio!Quiet(new)]
  <2>2. Still(phy, new)
        /\ (Radio!Ok(new) => \/ Radio!Rewritten(phy, side)
                             \/ new.reg.VCO_ALC[side] # Radio!Alc(phy, side))
    BY <1>1, <1>3, RecallFresh
  <2>3. /\ phy' = q /\ call' = <<"recall", side, profile>> /\ session' = session
        /\ calm' => calm
    BY <2>1 DEF Radio!Recorded
  <2> HIDE DEF new
  <2>4. Still(new, q) /\ q.rc = new.rc /\ q.reg = new.reg
    BY <2>2, QuietStill, StillFacts
  <2> HIDE DEF q
  <2>5. Still(phy, q)
    BY <2>2, <2>4, StillFacts
  <2>6. Lo(phy)' = Lo(q)
    BY <2>3 DEF Lo
  <2>7. Leads(Lo(phy), Lo(phy)')
    BY <2>5, <2>6, LeadsWays DEF Still, Intact
  <2> QED BY <2>2, <2>3, <2>4, <2>5, <2>7 DEF Recalled, Kept, Radio!Ok
<1> QED BY <1>6, <1>7, <1>8

LEMMA GainStep ==
  ASSUME Sound
  PROVE  Radio!RxGain \/ Radio!GainControlMode \/ Radio!TxAttenuation \/ Radio!GainStepCalib
           => Stayed
<1>1. Whole(phy) /\ Still(phy, phy)
  BY StillFacts DEF Sound
<1>2. ASSUME NEW new, NEW fine, Radio!Recorded(<<"gain">>, new, fine), NEW s, Still(phy, s),
             Stays(s, new)
      PROVE  Stayed
  BY <1>2, RecordedWays, CallWays
<1>3. ASSUME NEW new, Radio!Answered(<<"gain">>, new), Still(phy, new) PROVE Stayed
  BY <1>3, AnsweredWays, CallWays
<1>4. ASSUME Radio!RxGain PROVE Stayed
  BY <1>1, <1>4, <1>3, SettingsStill DEF Radio!RxGain
<1>5. ASSUME Radio!GainControlMode PROVE Stayed
  BY <1>1, <1>5, <1>3, SettingsStill DEF Radio!GainControlMode
<1>6. ASSUME Radio!TxAttenuation PROVE Stayed
  BY <1>1, <1>6, <1>3, SettingsStill DEF Radio!TxAttenuation
<1>7. ASSUME Radio!GainStepCalib PROVE Stayed
  BY <1>1, <1>2, <1>7, WithStill, GainStepStays DEF Radio!GainStepCalib, Radio!Returned
<1> QED BY <1>4, <1>5, <1>6, <1>7

LEMMA CalibStep ==
  ASSUME Sound
  PROVE  Radio!Tracking \/ Radio!DoCalib \/ Radio!RfPorts \/ Radio!DcxoTune \/ Radio!Bist => Stayed
<1>1. Whole(phy) /\ Still(phy, phy)
  BY StillFacts DEF Sound
<1>2. ASSUME NEW kind \in {"calib", "port", "bist"}, NEW new, Radio!Answered(<<kind>>, new),
             Still(phy, new)
      PROVE  Stayed
  BY <1>2, AnsweredWays, CallWays
<1>3. ASSUME Radio!Tracking PROVE Stayed
  BY <1>1, <1>2, <1>3, SettingsStill DEF Radio!Tracking
<1>4. ASSUME Radio!DoCalib PROVE Stayed
  <2>1. PICK c, cal, arg :
          Radio!Recorded(<<"calib">>, Radio!do_calib_run(Radio!With(c), cal, arg), c.hang = {})
    BY <1>4 DEF Radio!DoCalib, Radio!Returned
  <2>2. /\ Still(phy, Radio!With(c))
        /\ Stays(Radio!With(c), Radio!do_calib_run(Radio!With(c), cal, arg))
    BY <1>1, WithStill, CalibStays
  <2> QED BY <2>1, <2>2, RecordedWays, CallWays
<1>5. ASSUME Radio!RfPorts PROVE Stayed
  BY <1>1, <1>2, <1>5, PortsStill DEF Radio!RfPorts
<1>6. ASSUME Radio!DcxoTune PROVE Stayed
  BY <1>1, <1>2, <1>6, SettingsStill DEF Radio!DcxoTune
<1>7. ASSUME Radio!Bist PROVE Stayed
  BY <1>1, <1>2, <1>7, TestStill DEF Radio!Bist
<1> QED BY <1>3, <1>4, <1>5, <1>6, <1>7

\* Those that tune the interface, and those that move the state machine.
LEMMA InterfaceStep ==
  ASSUME Sound
  PROVE  /\ Radio!DigTune \/ Radio!TimingAnalysis => Homed
         /\ Radio!NoChMode \/ Radio!DoMcs \/ Radio!SetEnsmMode \/ Radio!PinsMove => Entered
<1>1. Whole(phy) /\ Still(phy, phy)
  BY StillFacts DEF Sound
<1>2. ASSUME NEW new, NEW fine, Radio!Recorded(<<"tune">>, new, fine), ComesBack(phy, new)
      PROVE  Homed
  BY <1>1, <1>2, RecordedWays
<1>3. ASSUME Radio!DigTune PROVE Homed
  <2>1. PICK swept \in BOOLEAN, keep \in BOOLEAN, default \in BOOLEAN :
          Radio!Recorded(<<"tune">>, Radio!dig_tune(phy, swept, ~keep, default), ~swept)
    BY <1>3 DEF Radio!DigTune
  <2> DEFINE skip == ~keep
  <2>2. skip \in BOOLEAN
    OBVIOUS
  <2>3. Radio!Recorded(<<"tune">>, Radio!dig_tune(phy, swept, skip, default), ~swept)
    BY <2>1
  <2> HIDE DEF skip
  <2> QED BY <1>1, <1>2, <2>2, <2>3, DigTuneBack
<1>4. ASSUME Radio!TimingAnalysis PROVE Homed
  <2> DEFINE t == Radio!dig_interface_timing_analysis(phy)
  <2>1. Radio!Answered(<<"tune">>, Radio!Result(t, "ok"))
    BY <1>4 DEF Radio!TimingAnalysis
  <2>2. ComesBack(phy, t)
    BY <1>1, TimingBack
  <2> HIDE DEF t
  <2>3. Still(t, Radio!Result(t, "ok"))
    BY <2>2, StillFacts, ResultStill, CallWays
  <2> QED BY <2>1, <2>2, <2>3, AnsweredWays, CallWays
<1>5. ASSUME NEW kind \in {"ensm", "setup"}, NEW new, Radio!Answered(<<kind>>, new),
             Turned(phy, new), Settled(phy) => Settled(new)
      PROVE  Entered
  BY <1>5, AnsweredWays
<1>6. ASSUME Radio!NoChMode PROVE Entered
  <2>1. PICK c \in Chips, mode \in 1 .. 3 :
          Radio!Recorded(<<"setup">>, Radio!set_no_ch_mode(Radio!With(c), mode),
                         c.hang = {} /\ Radio!Ok(Radio!SetUpAnew(Radio!With(c), mode))
                           /\ Radio!Ok(Radio!post_setup(Radio!SetUpAnew(Radio!With(c), mode))))
    BY <1>6 DEF Radio!NoChMode
  <2>2. Still(phy, Radio!With(c)) /\ Whole(Radio!With(c)) /\ Lo(Radio!With(c)) = Lo(phy)
        /\ LoSound(Lo(phy))
    BY <1>1, WithStill DEF Sound
  <2> DEFINE new == Radio!set_no_ch_mode(Radio!With(c), mode)
             fine == c.hang = {} /\ Radio!Ok(Radio!SetUpAnew(Radio!With(c), mode))
                       /\ Radio!Ok(Radio!post_setup(Radio!SetUpAnew(Radio!With(c), mode)))
  <2>3. /\ Whole(new) /\ (Bypassed(Radio!With(c)) => Bypassed(new))
        /\ Radio!Ok(new) /\ fine => Settled(new)
        /\ Leads(Lo(phy), Lo(new))
    BY <2>2, NoChSettles
  <2>4. Radio!Recorded(<<"setup">>, new, fine)
    BY <2>1
  <2> HIDE DEF new, fine
  <2> QED BY <2>2, <2>3, <2>4, RecordedWays
<1>7. ASSUME Radio!DoMcs PROVE Entered
  <2> DEFINE t == Radio!do_mcs(phy, phy)[1]
  <2>1. Radio!Answered(<<"setup">>, t)
    BY <1>7 DEF Radio!DoMcs
  <2>2. Turned(phy, t) /\ (Settled(phy) => Settled(t))
    BY <1>1, McsSettles
  <2> HIDE DEF t
  <2> QED BY <1>5, <2>1, <2>2
<1>8. ASSUME Radio!SetEnsmMode PROVE Entered
  <2>1. PICK mode : Radio!Answered(<<"ensm">>, Radio!set_en_state_machine_mode(phy, mode))
    BY <1>8 DEF Radio!SetEnsmMode
  <2> DEFINE t == Radio!set_en_state_machine_mode(phy, mode)
  <2>2. Turned(phy, t) /\ (Settled(phy) => Settled(t))
    BY <1>1, ModeSettles
  <2> HIDE DEF t
  <2> QED BY <1>5, <2>1, <2>2 DEF t
<1>9. ASSUME Radio!PinsMove PROVE Entered
  <2>1. PICK state \in Radio!PinStates(phy) \ {phy.reg.STATE} :
          phy' = [phy EXCEPT !.reg.STATE = state]
    BY <1>9 DEF Radio!PinsMove
  <2>2. phy.reg.CLOCKS
    BY <2>1 DEF Radio!PinStates
  <2>3. state \in IF phy.reg.FDD_MODE THEN {"ALERT", "FDD"} ELSE {"ALERT", "TX", "RX"}
    BY <2>1, <2>2 DEF Radio!PinStates
  <2>4. Whole(phy') /\ (Bypassed(phy) => Bypassed(phy')) /\ (Settled(phy) => Settled(phy'))
    BY <1>1, <2>1, <2>2, <2>3 DEF Whole, Fields, Registers, Lo, Bypassed, Settled
  <2>5. session' = session /\ calm' = calm /\ call' = <<"pins">>
    BY <1>9 DEF Radio!PinsMove
  <2>6. Lo(phy)' = Lo(phy)
    BY <1>1, <2>1 DEF Lo, Whole, Fields, Registers
  <2>7. Leads(Lo(phy), Lo(phy)')
    BY <2>6, FollowsWays, LeadsWays
  <2> QED BY <2>4, <2>5, <2>7 DEF Entered, Kept
<1> QED BY <1>3, <1>4, <1>6, <1>7, <1>8, <1>9

LEMMA EveryCall ==
  ASSUME Sound, Radio!Next
  PROVE  Stayed \/ Homed \/ Entered \/ Recalled
  BY RatesStep, FiltersStep, LosStep, FastlockStep, GainStep, CalibStep, InterfaceStep
     DEF Radio!Next

-----------------------------------------------------------------------------

IInv == unit = "radio" => Sound

LEMMA SoundInit == Init => IInv
<1> SUFFICES ASSUME Init, unit = "radio" PROVE Sound
  BY DEF IInv
<1>1. phy \in Radio!Radios
  BY DEF Init, Radio!Init
<1> QED BY <1>1, RadiosUsable DEF Sound, Usable

LEMMA SoundNext ==
  IInv /\ [Next]_vars => /\ IInv'
                         /\ unit = "radio" => Radio!Returns
                         /\ unit = "radio" => Radio!Fresher
                         /\ unit = "radio" => Radio!Unpulled
<1> SUFFICES ASSUME IInv, [Next]_vars
             PROVE  /\ unit' = unit
                    /\ unit = "radio" => /\ Sound' /\ Radio!Returns
                                         /\ Radio!Fresher /\ Radio!Unpulled
  BY DEF IInv
<1>1. CASE Calls
  BY <1>1, EveryCall, ClassFacts DEF Calls, IInv
<1>2. CASE Transfers
  BY <1>2 DEF Transfers
<1>3. CASE UNCHANGED vars
  <2>1. unit' = unit /\ phy' = phy /\ session' = session /\ calls' = calls /\ call' = call
        /\ calm' = calm
    BY <1>3 DEF vars, radioVars
  <2>2. unit = "radio" => Sound'
    BY <2>1 DEF IInv, Sound, Whole, Settled, Bypassed, Lo
  <2>3. Radio!Returns /\ Radio!Fresher /\ Radio!Unpulled
    BY <2>1 DEF Radio!Returns, Radio!Fresher, Radio!Unpulled
  <2> QED BY <2>1, <2>2, <2>3
<1> QED BY <1>1, <1>2, <1>3 DEF Next

LEMMA AlwaysSound == Spec => []IInv
<1>1. IInv /\ [Next]_vars => IInv'
  BY SoundNext
<1> QED BY <1>1, SoundInit, PTL DEF Spec

\* The driver forces the state machine to ALERT, or sleeps and tunes it elsewhere, and
\* puts it back, in calls within calls (ad9361_ensm_force_state, _restore_state).  A
\* call that succeeds leaves the state where it was and the pins in control of it if
\* they were: for every board, whatever the chip does, after any number of calls of
\* which none has failed.
THEOREM EnsmReturnsHolds == Spec => EnsmReturns
<1>1. IInv /\ [Next]_vars => [unit = "radio" => Radio!Returns]_vars
  BY SoundNext
<1> QED BY <1>1, AlwaysSound, PTL DEF Spec, EnsmReturns

\* A VCO may not lock with the ALC word it already has.  A recall that succeeds brings it
\* another one (ad9361_fastlock_recall), however often profiles have been stored, loaded
\* and recalled before, on either side, and fast lock mode been left: what the driver
\* notes of the profiles and of the one in use is what the chip has.  The exception is a
\* profile in use that has been stored or loaded anew, with a word the VCO does not have.
THEOREM FastlockFreshHolds == Spec => FastlockFresh
<1>1. IInv /\ [Next]_vars => [unit = "radio" => Radio!Fresher]_vars
  BY SoundNext
<1> QED BY <1>1, AlwaysSound, PTL DEF Spec, FastlockFresh

\* In FDD the VCOs of the sides pull each other, so one LO that is set may change the
\* table and the words of both synthesizers (ad9361_rfpll_int_set_rate, which goes on to
\* the other side; ad9361_rfpll_vco_init).  A call that changes either of a synthesizer
\* leaves both set up from the table that goes with the two LOs, each with the words of
\* its own: for every board, every LO, in any order, and also when the call has failed.
THEOREM NoPullingHolds == Spec => NoPulling
<1>1. IInv /\ [Next]_vars => [unit = "radio" => Radio!Unpulled]_vars
  BY SoundNext
<1> QED BY <1>1, AlwaysSound, PTL DEF Spec, NoPulling
=============================================================================
