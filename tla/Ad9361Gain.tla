----------------------------- MODULE Ad9361Gain -----------------------------
(***************************************************************************)
(* The receive gain of the AD9361 driver: the gain tables of the three     *)
(* bands, the manual and the automatic gain control, and the timing of the *)
(* automatic gain control and of the RSSI, which follows the clocks.       *)
(*                                                                         *)
(* s.ctrl holds the gain and RSSI settings of the platform data; LO        *)
(* frequencies are in MHz, clocks in kHz, gains in dB.                     *)
(***************************************************************************)
EXTENDS Sequences, Ad9361Cal

Two(i) == 2 ^ i
ilog2(x) == IF x <= 0 THEN 0 ELSE CHOOSE i \in 0 .. 30 : Two(i) <= x /\ x - Two(i) < Two(i)
DivRoundUp(x, d) == (x + d - 1) \div d

\* The tables: how many indices have the lowest gain, and the gains of the
\* next ones before the rest goes up in steps of 1 dB.
Stair(size, low, lowest, steps, rest) ==
  [i \in 0 .. size - 1 |->
     IF i < low THEN lowest
     ELSE IF i < low + Len(steps) THEN steps[i - low + 1] ELSE i + rest]

full_gain_table_abs_gain == <<
  Stair(77, 3, -1, <<>>, -3), Stair(77, 3, -3, <<>>, -5), Stair(77, 5, -10, <<>>, -14)>>

split_gain_table_abs_gain == <<
  Stair(41, 7, -1, <<2, 8, 13>>, 9), Stair(41, 8, -3, <<0, 6, 12>>, 7),
  Stair(41, 10, -10,
        <<-7, -2, 3, 9, 10, 11, 12, 13, 14, 15, 16, 17, 18, 19, 20, 22>>, -2)>>

\* The last index at which the low-pass filter and the TIA are as the
\* quadrature calibration of the transmitter wants them.
full_gain_table == <<36, 37, 40>>
split_gain_table == <<40, 40, 40>>

NO_GAIN_TABLE == 0
MAX_LMT_INDEX == 40
MAX_LPF_GAIN == 24
MAX_DIG_GAIN == 31

gt_info ==
  [b \in 1 .. 6 |->
     LET n == IF b <= 3 THEN b ELSE b - 3 IN
     [start |-> <<0, 1300, 4000>>[n], end |-> <<1300, 4000, 6000>>[n], split_table |-> b > 3,
      tab |-> IF b <= 3 THEN full_gain_table[n] ELSE split_gain_table[n],
      abs_gain_tbl |-> IF b <= 3 THEN full_gain_table_abs_gain[n]
                       ELSE split_gain_table_abs_gain[n]]]

TableSize(table) == Cardinality(DOMAIN gt_info[table].abs_gain_tbl)

\* A frequency of no band: the first table.
gt_tableindex(s, freq) ==
  LET serves(t) == t.split_table = s.split_gt /\ t.start < freq /\ freq <= t.end
      fits == {b \in 1 .. 6 : serves(gt_info[b])}
  IN IF fits = {} THEN 1 ELSE CHOOSE b \in fits : TRUE

gt(s) == IF s.current_table = NO_GAIN_TABLE THEN 1 ELSE s.current_table

Distance(x, y) == IF x > y THEN x - y ELSE y - x

\* The first index that reaches the gain, or the one before when it is nearer.
\* -1 when none reaches it.
IndexIn(tbl, gain) ==
  LET reach == {i \in DOMAIN tbl : tbl[i] >= gain}
      nearer(i) == IF i > 0 /\ Distance(tbl[i - 1], gain) < Distance(tbl[i], gain)
                     THEN i - 1 ELSE i
  IN IF reach = {} THEN -1 ELSE nearer(CHOOSE k \in reach : \A j \in reach : k <= j)

find_table_index(s, gain) == IndexIn(gt_info[gt(s)].abs_gain_tbl, gain)

NearestIndex(table, gain) ==
  LET orLast(i) == IF i < 0 THEN TableSize(table) - 1 ELSE i
  IN orLast(IndexIn(gt_info[table].abs_gain_tbl, gain))

\* The gains are carried over to the new table as near as it comes to them.
LoadTable(s, band, was) ==
  LET last == TableSize(band) - 1
      idx(i) == IF s.current_table = NO_GAIN_TABLE /\ i > last THEN last ELSE i
  IN [s EXCEPT !.rc = "ok", !.current_table = band, !.reg.GAIN_TABLE = band,
               !.reg.USE_FULL_GAIN_TABLE = ~s.split_gt,
               !.tx_quad_lpf_tia_match = gt_info[band].tab,
               !.reg.RX_GAIN_IDX = [r \in {1, 2} |->
                 NearestIndex(band, was.abs_gain_tbl[idx(s.reg.RX_GAIN_IDX[r])])]]

LoadBand(s, band) ==
  IF s.current_table = band THEN Result(s, "ok")
  ELSE LoadTable(s, band, gt_info[IF s.current_table = NO_GAIN_TABLE THEN band ELSE s.current_table])

load_gt(s, freq) == LoadBand(s, gt_tableindex(s, freq))

setup_ext_lna(s) ==
  [s EXCEPT !.reg.EXT_LNA = [gain |-> s.ctrl.elna_gain_mdB \div 500,
                             loss |-> s.ctrl.elna_bypass_loss_mdB \div 500], !.rc = "ok"]

load_mixer_gm_subtable(s) == [s EXCEPT !.reg.GM_TABLE = TRUE, !.rc = "ok"]

-----------------------------------------------------------------------------

\* With one receiver and one transmitter, which of the two it is.
channel_map(s, tx, channel) ==
  LET map == IF tx THEN s.rx1tx1_mode_use_tx_num ELSE s.rx1tx1_mode_use_rx_num IN
  IF ~s.rx2tx2 /\ map = 2 THEN channel + 1 ELSE channel

en_dis_rx(s, rx_if, enable) ==
  [s EXCEPT !.reg.RX_ENABLE = IF enable THEN @ \cup {rx_if} ELSE @ \ {rx_if}, !.rc = "ok"]
en_dis_tx(s, tx_if, enable) ==
  [s EXCEPT !.reg.TX_ENABLE = IF enable THEN @ \cup {tx_if} ELSE @ \ {tx_if}, !.rc = "ok"]

get_split_table_gain(s, r) ==
  gt_info[gt(s)].abs_gain_tbl[s.reg.RX_GAIN_IDX[r]] + s.reg.RX_LPF[r] + s.reg.RX_DIG[r]
get_full_table_gain(s, r) == gt_info[gt(s)].abs_gain_tbl[s.reg.RX_GAIN_IDX[r]]

\* `locked': the gain lock of the fast attack state machine of the chip.
get_rx_gain(s, r, locked) ==
  CASE r \notin {1, 2} -> [rc |-> "EINVAL"]
    [] r \in {1, 2} /\ r \notin s.reg.RX_ENABLE -> [rc |-> "EAGAIN"]
    [] r \in s.reg.RX_ENABLE /\ s.reg.AGC_MODE[r] = "FASTATTACK" /\ ~locked -> [rc |-> "EAGAIN"]
    [] r \in s.reg.RX_ENABLE /\ ~(s.reg.AGC_MODE[r] = "FASTATTACK" /\ ~locked) ->
         [rc |-> "ok",
          gain_db |-> IF s.split_gt THEN get_split_table_gain(s, r) ELSE get_full_table_gain(s, r)]

\* The index the caller asks for is checked, and then that of the gain taken.
set_split_table_gain(s, r, g) ==
  LET set(i) == IF i < 0 THEN Result(s, "EINVAL")
                ELSE [s EXCEPT !.reg.RX_GAIN_IDX[r] = i, !.reg.RX_LPF[r] = g.lpf_gain,
                               !.reg.RX_DIG[r] = IF s.ctrl.dig_gain_en THEN g.digital_gain ELSE @,
                               !.rc = "ok"]
  IN IF \/ g.fgt_lmt_index > MAX_LMT_INDEX
        \/ g.lpf_gain > MAX_LPF_GAIN
        \/ g.digital_gain > MAX_DIG_GAIN
       THEN Result(s, "EINVAL") ELSE set(find_table_index(s, g.gain_db))

set_full_table_gain(s, r, g) ==
  LET set(i) == IF i < 0 THEN Result(s, "EINVAL")
                ELSE [s EXCEPT !.reg.RX_GAIN_IDX[r] = i, !.rc = "ok"]
  IN set(find_table_index(s, g.gain_db))

set_rx_gain(s, r, g) ==
  CASE r \notin {1, 2} -> Result(s, "EINVAL")
    [] r \in {1, 2} /\ s.reg.AGC_MODE[r] # "MGC" -> Result(s, "EOPNOTSUPP")
    [] r \in {1, 2} /\ s.reg.AGC_MODE[r] = "MGC" ->
         IF s.split_gt THEN set_split_table_gain(s, r, g) ELSE set_full_table_gain(s, r, g)

-----------------------------------------------------------------------------

Byte(x) == x % 256

\* The timing of the gain control for the clocks and modes of now.  A delay is
\* cut to a byte before it is limited, and an update counter that went below
\* zero, by more than the rounding adds back, has wrapped around to its limit.
GcSettling(c, clkrf) ==
  Clamp(Byte(DivRoundUp((c.settling_delay_ns + 200) * (clkrf \div 2), 1000000) + 7), 0, 31)

GcCounter(gap) == IF gap < -1000 THEN 131071 ELSE Clamp(DivRoundClosest(gap, 2000), 0, 131071)

GcDuration(s, c, counter, fir_div) ==
  IF "FASTATTACK" \in {s.agc_mode[1], s.agc_mode[2]} THEN c.f_agc_dec_pow_measuremnt_duration
  ELSE IF ((counter * 2) \div fir_div) \div c.dec_pow_measuremnt_duration < 2
    THEN counter \div fir_div ELSE c.dec_pow_measuremnt_duration

GcTiming(s) ==
  LET c == s.ctrl
      clkrf == s.clks.CLKRF
      attack == DivRoundUp((200 + c.settling_delay_ns) \div 2 + 14000000 \div (2 * clkrf), 1000)
                  + c.agc_attack_delay_extra_margin_us
      wait == DivRoundUp((c.settling_delay_ns + 100) * clkrf, 1000000) + 1
      with(settling, counter, dur) ==
        [attack |-> Clamp(Byte(attack), 0, 31), wait |-> Clamp(Byte(wait), 0, 31),
         settling |-> settling, duration |-> ilog2(dur \div 16), double |-> counter > 65535,
         counter |-> IF counter > 65535 THEN counter \div 2 ELSE counter,
         energy |-> Clamp(DivRoundClosest(c.f_agc_state_wait_time_ns * clkrf, 1000000), 0, 31)]
      counted(settling, counter) ==
        with(settling, counter,
             GcDuration(s, c, counter, DivRoundClosest(clkrf, s.clks.RX_SAMPL)))
      settled(settling) ==
        counted(settling,
                GcCounter(c.gain_update_interval_us * clkrf - settling * 2000 - 2000))
  IN settled(GcSettling(c, clkrf))

gc_update(s) == [s EXCEPT !.reg.GC = GcTiming(s), !.rc = "ok"]

\* A mode the chip does not know changes nothing.
set_gain_ctrl_mode(s, ant, mode) ==
  LET off == en_dis_rx(s, ant, FALSE)
      written == [off EXCEPT !.reg.AGC_MODE[ant] = mode, !.reg.HYBRID = mode = "HYBRID"]
  IN IF mode \notin {"MGC", "FASTATTACK", "SLOWATTACK", "HYBRID"} \/ ant \notin {1, 2}
       THEN Result(s, "EINVAL")
       ELSE gc_update(en_dis_rx(written, ant, TRUE))

\* In the split mode the low-pass gains start from 24; all else of the settings
\* are registers nothing else writes.
gc_setup(s) ==
  LET c == s.ctrl
      modes == [s EXCEPT !.agc_mode = c.modes, !.reg.AGC_MODE = c.modes,
                         !.reg.HYBRID = "HYBRID" \in {c.modes[1], c.modes[2]},
                         !.reg.RX_DIG = [r \in {1, 2} |-> 0],
                         !.reg.RX_LPF = IF s.split_gt THEN [r \in {1, 2} |-> 24] ELSE @,
                         !.reg.ADC_OVERLOAD = [small |-> c.adc_small, large |-> c.adc_large]]
      ordered == IF c.adc_large >= c.adc_small THEN modes
                 ELSE [modes EXCEPT !.reg.ADC_OVERLOAD = [small |-> c.adc_large,
                                                          large |-> c.adc_small]]
  IN gc_update(ordered)

-----------------------------------------------------------------------------

\* The duration of a measurement as at most four powers of two up to 2^14,
\* the largest that fits each time.
LargestPower(rest) == IF rest = 0 THEN 0 ELSE Two(ilog2(IF rest > Two(14) THEN Two(14) ELSE rest))

Powers(duration) ==
  LET left[j \in 0 .. 4] == IF j = 0 THEN duration ELSE left[j - 1] - LargestPower(left[j - 1])
  IN SelectSeq([j \in 1 .. 4 |-> LargestPower(left[j - 1])], LAMBDA p : p > 0)

SumOf(q) ==
  LET total[j \in 0 .. Len(q)] == IF j = 0 THEN 0 ELSE q[j] + total[j - 1] IN total[Len(q)]

\* The weights of the powers, in 255ths, add up to 255: the last one takes the
\* difference, and its register holds a byte.
In255ths(powers, total) == [j \in 1 .. Len(powers) |-> DivRoundClosest(255 * powers[j], total)]
LastTakes(weights, rest) == [weights EXCEPT ![Len(weights)] = Byte(@ - rest)]
Adjusted(weights) == LastTakes(weights, SumOf(weights) - 255)
Weights(powers) == Adjusted(In255ths(powers, SumOf(powers)))

RssiTiming(s) ==
  LET c == s.ctrl
      samples(us) == IF c.rssi_unit_is_rx_samples THEN us
                     ELSE DivRoundClosest(us * s.clks.RX_SAMPL, 1000)
      with(powers) ==
        [powers |-> powers, weights |-> Weights(powers),
         delay |-> IF c.restart_mode = "EN_AGC_PIN" THEN 0
                   ELSE Clamp(samples(c.rssi_delay) \div 8, 0, 255),
         wait |-> Clamp(samples(c.rssi_wait) \div 4, 0, 255),
         default |-> Len(powers) = 1]
  IN with(Powers(samples(c.rssi_duration)))

rssi_setup(s, is_update) ==
  IF is_update /\ s.ctrl.rssi_unit_is_rx_samples THEN Result(s, "ok")
  ELSE [s EXCEPT !.reg.RSSI = RssiTiming(s), !.rc = "ok"]

read_rssi(s, ant) == IF ant \in {1, 2} THEN "ok" ELSE "EFAULT"

\* The divider of the converter is a byte of the BBPLL over its rate; the
\* temperature is measured every so many 2^29 cycles of the BBPLL.
auxadc_setup(s) ==
  [s EXCEPT !.reg.AUXADC =
      [divider |-> Byte(s.clks.BBPLL \div s.ctrl.auxadc_clock_rate),
       interval |-> DivRoundClosest(s.ctrl.temp_time_interval_ms * s.clks.BBPLL, Two(29))],
    !.rc = "ok"]

\* Called whenever the clocks have changed.
bb_clk_change_handler(s) == auxadc_setup(rssi_setup(gc_update(s), TRUE))

\* The range of the LO chooses the gain of the LNA; the calibration's own
\* result is not looked at.  The RSSI is left set up for the calibration.
rssi_gain_step_calib(s) ==
  LET lo == s.current_lo_freq.rx
      lna == <<192, 192, 184, 160>>[CASE lo < 1300 -> 1
                                      [] lo >= 1300 /\ lo < 3300 -> 2
                                      [] lo >= 3300 /\ lo < 4100 -> 3
                                      [] lo >= 4100 -> 4]
      ready == [ensm_force_state(s, "ALERT") EXCEPT
                  !.reg.RSSI = [@ EXCEPT !.powers[1] = Two(14), !.default = TRUE],
                  !.reg.LNA_GAIN = lna]
      ran == run_calibration(ready, "RX_GAIN_STEP_CAL")
  IN Result(ensm_restore_prev_state(ran), "ok")
=============================================================================
