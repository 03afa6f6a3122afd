----------------------------- MODULE Ad9361Clocks -----------------------------
(***************************************************************************)
(* The clock tree of the AD9361: the baseband PLL, the dividers of the     *)
(* converters and half-band filters on the two paths, and the FIR filters  *)
(* at the end of each.  s.clks holds the cached rates in kHz, s.reg.DIV    *)
(* and s.reg.FIR the dividers in force.  The PLL meets a rate to the kHz.  *)
(***************************************************************************)
EXTENDS Ad9361Gain

RxClks == <<"ADC", "R2", "R1", "CLKRF", "RX_SAMPL">>
TxClks == <<"DAC", "T2", "T1", "CLKTF", "TX_SAMPL">>
RefClks == {"BB_REFCLK", "RX_REFCLK", "TX_REFCLK"}

\* A chain is the six rates of a path, the BBPLL's first.
MIN_ADC_CLK == 25000
MAX_ADC_CLK == 640000
MAX_DAC_CLK == MAX_ADC_CLK \div 2
MAX_BASEBAND_RATE == 61440
MIN_BBPLL_FREQ == 714928
MAX_BBPLL_FREQ == 1430143
max_rx_rates == <<MAX_BBPLL_FREQ, MAX_ADC_CLK, 640000, 320000, 245760, MAX_BASEBAND_RATE>>
max_tx_rates == <<MAX_BBPLL_FREQ, MAX_DAC_CLK, 320000, 320000, 160000, MAX_BASEBAND_RATE>>

parents == [
  BB_REFCLK |-> "REFIN", RX_REFCLK |-> "REFIN", TX_REFCLK |-> "REFIN", BBPLL |-> "BB_REFCLK",
  ADC |-> "BBPLL", R2 |-> "ADC", R1 |-> "R2", CLKRF |-> "R1", RX_SAMPL |-> "CLKRF",
  DAC |-> "ADC", T2 |-> "DAC", T1 |-> "T2", CLKTF |-> "T1", TX_SAMPL |-> "CLKTF"]

parent_source(c) == parents[c]

-----------------------------------------------------------------------------

\* The divider of a clock, as its register says; a bypassed filter divides by 1.
FirRatio(field) == IF field = 0 THEN 1 ELSE Two(field - 1)

get_clk_scaler(s, c) ==
  CASE c \in RefClks -> s.reg.REF_SCALER[c]
    [] c = "RX_SAMPL" -> <<1, FirRatio(s.reg.FIR.rx)>>
    [] c = "TX_SAMPL" -> <<1, FirRatio(s.reg.FIR.tx)>>
    [] c \notin RefClks \cup {"RX_SAMPL", "TX_SAMPL"} -> <<1, s.reg.DIV[c]>>

clk_factor_recalc_rate(s, c, parent) ==
  LET k == get_clk_scaler(s, c) IN (parent * k[1]) \div k[2]

to_refclk_scaler(k) == k \in {<<1, 1>>, <<1, 2>>, <<1, 4>>, <<2, 1>>}

\* Whether the chip has such a divider.  Of the converter's only the power of
\* two below is looked at.
Fits(c, k) ==
  CASE c \in RefClks -> to_refclk_scaler(k)
    [] c = "ADC" -> k[1] = 1 /\ ilog2(Byte(k[2])) \in 1 .. 6
    [] c \in {"R2", "T2"} -> k[1] = 1 /\ k[2] \in 1 .. 3
    [] c \in {"R1", "T1", "CLKRF", "CLKTF", "DAC"} -> k[1] = 1 /\ k[2] \in 1 .. 2
    [] c \in {"RX_SAMPL", "TX_SAMPL"} -> k[1] = 1 /\ k[2] \in {1, 2, 4}

\* The divider of a bypassed FIR filter is not what is written.
set_clk_scaler(s, c, k) ==
  IF ~Fits(c, k) THEN Result(s, "EINVAL")
  ELSE CASE c \in RefClks -> [s EXCEPT !.reg.REF_SCALER[c] = k, !.rc = "ok"]
         [] c = "RX_SAMPL" ->
              [s EXCEPT !.reg.FIR.rx = IF s.bypass_rx_fir THEN 0 ELSE ilog2(k[2]) + 1, !.rc = "ok"]
         [] c = "TX_SAMPL" ->
              [s EXCEPT !.reg.FIR.tx = IF s.bypass_tx_fir THEN 0 ELSE ilog2(k[2]) + 1, !.rc = "ok"]
         [] c = "ADC" -> [s EXCEPT !.reg.DIV.ADC = Two(ilog2(Byte(k[2]))), !.rc = "ok"]
         [] OTHER -> [s EXCEPT !.reg.DIV[c] = k[2], !.rc = "ok"]

Scaler(rate, parent) ==
  LET d == DivRoundClosest(parent, rate) IN
  IF rate >= parent THEN <<DivRoundClosest(rate, parent), 1>>
  ELSE <<1, IF d = 0 THEN 1 ELSE d>>

\* An error code read as a rate, -22 as 32 unsigned bits, in kHz.
ErrorAsRate == 4294967

clk_factor_round_rate(c, rate, parent) ==
  LET k == Scaler(rate, parent) IN
  IF Fits(c, k) THEN (parent \div k[2]) * k[1] ELSE ErrorAsRate

clk_factor_set_rate(s, c, rate, parent) == set_clk_scaler(s, c, Scaler(rate, parent))

bbpll_recalc_rate(s) == s.reg.BBPLL
bbpll_round_rate(rate) == Clamp(rate, MIN_BBPLL_FREQ, MAX_BBPLL_FREQ)

\* The charge pump is scaled to 150 uA at 1280 MHz from 40 MHz.
bbpll_set_rate(s, rate, parent) ==
  LET icp == Clamp(DivRoundClosest((rate * 150) \div (parent * 32), 25) - 1, 1, 64) IN
  run_calibration([s EXCEPT !.reg.BBPLL = rate, !.reg.BBPLL_ICP = icp], "BBPLL_LOCK")

\* The frequency of a synthesizer by its words: those of the fast lock profile
\* that is recalled, if one is.
WordRate(w) == w.vco \div Two(w.div + 1)

rfpll_int_recalc_rate(s, side) ==
  LET p == s.fastlock.current_profile[side] IN
  WordRate(IF p = 0 THEN s.reg.SYNTH[side] ELSE s.fastlock.entry[side][p - 1].word)

rfpll_recalc_rate(s, side) ==
  IF s.use_ext_lo[side] THEN s.lo_dummy[side] ELSE rfpll_int_recalc_rate(s, side)

clk_get_rate(s, c) ==
  CASE c \in RefClks -> clk_factor_recalc_rate(s, c, s.refin)
    [] c = "BBPLL" -> bbpll_recalc_rate(s)
    [] c \notin RefClks \cup {"BBPLL"} ->
         clk_factor_recalc_rate(s, c, s.clks[parent_source(c)])

Refreshed(s, c) == [s EXCEPT !.clks[c] = clk_get_rate(s, c)]

ClockOrder == <<"BB_REFCLK", "RX_REFCLK", "TX_REFCLK", "BBPLL">> \o RxClks \o TxClks

\* All rates again from the dividers in force, each from its parent.
Recalc(s) ==
  [Loop(LAMBDA t, i : Refreshed(t, ClockOrder[i]), s, 14) EXCEPT
     !.lo_clk = [side \in {"rx", "tx"} |-> rfpll_recalc_rate(s, side)]]

SetClock(s, c, rate, parent) ==
  IF c = "BBPLL"
    THEN [bbpll_set_rate(s, bbpll_round_rate(rate), parent) EXCEPT !.bbpll_initialized = TRUE]
    ELSE clk_factor_set_rate(s, c, clk_factor_round_rate(c, rate, parent), parent)

\* A rate the clock has already is not set.  Whatever becomes of one that is,
\* the result is 0: a divider the chip lacks, a PLL that does not lock.
no_os_clk_set_rate(s, c, rate) ==
  LET parent == IF c \in RefClks THEN s.refin ELSE s.clks[parent_source(c)]
      known == s.clks[c] = rate /\ (c = "BBPLL" => s.bbpll_initialized)
  IN Result(IF known THEN s ELSE Recalc(SetClock(s, c, rate, parent)), "ok")

-----------------------------------------------------------------------------

DataClk(s, rx) == ((IF s.rx2tx2 THEN 4 ELSE 2) \div (IF s.lvds THEN 1 ELSE 2)) * rx[6]

\* The interface clock has to be one the chain can give.
validate_trx_clock_chain(s, rx, tx) ==
  /\ ~s.lvds => DataClk(s, rx) <= MAX_BASEBAND_RATE
  /\ \A i \in 1 .. 6 : rx[i] <= max_rx_rates[i] /\ tx[i] <= max_tx_rates[i]
  /\ \/ \E i \in 1 .. 3 : rx[2] \div i = DataClk(s, rx)
     \/ \E i \in 1 .. 4 : rx[3] \div Two(i) = DataClk(s, rx)

\* The PLL, then the dividers of both paths from the converters down.
PathOrder == [j \in 1 .. 11 |-> <<IF j = 1 \/ j % 2 = 0 THEN "rx" ELSE "tx", j \div 2 + 1>>]

PathNoted(s, side, i, rate) ==
  IF side = "rx" THEN [s EXCEPT !.current_rx_path_clks[i] = rate]
  ELSE [s EXCEPT !.current_tx_path_clks[i] = rate]

PathClk(side, i) ==
  IF i = 1 THEN "BBPLL" ELSE IF side = "rx" THEN RxClks[i - 1] ELSE TxClks[i - 1]

SetPathRate(s, side, i, chains) ==
  PathNoted(no_os_clk_set_rate(s, PathClk(side, i), chains[side][i]), side, i, chains[side][i])

\* A filter that divides by 1 has its bits like one that is bypassed, from its flag.
FirBits(s) ==
  LET on(bypass) == IF bypass THEN 0 ELSE 1 IN
  [s EXCEPT
     !.reg.FIR.rx = IF s.rx_fir_dec = 1 \/ s.bypass_rx_fir THEN on(s.bypass_rx_fir) ELSE @,
     !.reg.FIR.tx = IF s.tx_fir_int = 1 \/ s.bypass_tx_fir THEN on(s.bypass_tx_fir) ELSE @]

SetRates(s, rx, tx) ==
  FirBits(Loop(LAMBDA t, j : SetPathRate(t, PathOrder[j][1], PathOrder[j][2], [rx |-> rx, tx |-> tx]),
               s, 11))

get_trx_clock_chain(s) ==
  [rx |-> [i \in 1 .. 6 |-> clk_get_rate(s, PathClk("rx", i))],
   tx |-> [i \in 1 .. 6 |-> clk_get_rate(s, PathClk("tx", i))]]

-----------------------------------------------------------------------------

clk_dividers == <<
  <<12, 3, 2, 2>>, <<8, 2, 2, 2>>, <<6, 3, 1, 2>>, <<4, 2, 2, 1>>,
  <<3, 3, 1, 1>>, <<2, 2, 1, 1>>, <<1, 1, 1, 1>>>>

\* One pass over the dividers from rate_gov on (numbered from 0): the first
\* one that puts the ADC in its range decides, also when it is none for the DAC.
Dividers(clkrf, clktf, rate_gov) ==
  LET adc(i) == clkrf * clk_dividers[i + 1][1]
      dac(i) == clktf * clk_dividers[i + 1][1]
      inRange == {i \in rate_gov .. 6 : adc(i) \in MIN_ADC_CLK .. MAX_ADC_CLK}
      ratio(i) == IF dac(i) > adc(i) THEN -(dac(i) \div adc(i)) ELSE adc(i) \div dac(i)
      shift(r) == IF r = 1 THEN 0 ELSE r
      tx(i, r) == CASE adc(i) <= MAX_DAC_CLK -> i - shift(r)
                    [] adc(i) > MAX_DAC_CLK /\ i = 4 /\ r >= 0 -> 7
                    [] adc(i) > MAX_DAC_CLK /\ ~(i = 4 /\ r >= 0) ->
                         i + (IF i = 5 /\ r >= 0 THEN 1 ELSE 2) - shift(r)
      at(i) == [rx |-> i, tx |-> tx(i, ratio(i)), adc |-> adc(i),
                dac |-> IF adc(i) <= MAX_DAC_CLK THEN adc(i) ELSE adc(i) \div 2]
  IN IF inRange = {} THEN [rx |-> -1, tx |-> -1, adc |-> 0, dac |-> 0]
     ELSE at(CHOOSE k \in inRange : \A j \in inRange : k <= j)

Found(d) == d.rx \in 0 .. 6 /\ d.tx \in 0 .. 6

\* The largest power of two the PLL can make of the rate of the ADC.
TargetBbpll(adc) ==
  LET low == {d \in {2, 4, 8, 16, 32, 64} : adc * d <= MAX_BBPLL_FREQ}
  IN adc * (IF low = {} THEN 2 ELSE CHOOSE d \in low : \A e \in low : e <= d)

Below(top, ratios, intdec) ==
  LET a == top \div ratios[2]
      b == a \div ratios[3]
      c == b \div ratios[4]
  IN <<a, b, c, c \div intdec>>

RxDec(s) == IF s.bypass_rx_fir THEN 1 ELSE s.rx_fir_dec
TxInt(s) == IF s.bypass_tx_fir THEN 1 ELSE s.tx_fir_int

Chains(s, d, pll) ==
  [rc |-> "ok",
   rx |-> <<pll, d.adc>> \o Below(d.adc, clk_dividers[d.rx + 1], RxDec(s)),
   tx |-> <<pll, d.dac>> \o Below(d.dac, clk_dividers[d.tx + 1], TxInt(s))]

FirstFound(s, found) ==
  IF found = {} THEN [rc |-> "EINVAL"]
  ELSE LET d == CHOOSE d \in found : \A e \in found : d.rx <= e.rx
       IN Chains(s, d, TargetBbpll(d.adc))

\* rc "ok" and the two chains, or "EINVAL".  A rate too low for the nominal one is
\* tried at the highest oversampling only, the rest from rate_gov (0 or 1) up.
calculate_rf_clock_chain(s, rate, rate_gov) ==
  LET low == RxDec(s) * rate * 8 < MIN_ADC_CLK
      clkrf == rate * RxDec(s) * (IF s.rx_eq_2tx THEN 2 ELSE 1)
      tried == {Dividers(clkrf, rate * TxInt(s), g) : g \in IF low THEN {0} ELSE rate_gov .. 7}
  IN IF rate > MAX_BASEBAND_RATE THEN [rc |-> "EINVAL"]
     ELSE FirstFound(s, {d \in tried : Found(d)})

-----------------------------------------------------------------------------

\* The taps are written from ALERT with the filter enabled for the while.
load_fir_filter_coef(s, dest, ntaps) ==
  LET alert == ensm_force_state(s, "ALERT")
      noted == IF dest = "rx" THEN [alert EXCEPT !.rx_fir_ntaps = ntaps, !.reg.TAPS.rx = ntaps]
               ELSE [alert EXCEPT !.tx_fir_ntaps = ntaps, !.reg.TAPS.tx = ntaps]
  IN IF ntaps \notin {16 * k : k \in 1 .. 8} THEN Result(s, "EINVAL")
     ELSE Result(ensm_restore_prev_state(noted), "ok")

\* `file' is what the lines of a filter file say: the taps, the headers of both
\* paths and the optional rates and widths (<<>> or 0 where there is no such line).
\* The header of the transmitter is forgotten when a line that is no header
\* comes before the receiver's; its own result is that of the receiver's load.
parse_fir(s, file) ==
  LET given(chain, old) == IF chain = <<>> THEN old ELSE chain
      chains == [s EXCEPT !.filt_rx_bw = file.bw.rx, !.filt_tx_bw = file.bw.tx,
                          !.filt_valid = FALSE,
                          !.filt_rx_path_clks = given(file.chains.rx, @),
                          !.filt_tx_path_clks = given(file.chains.tx, @)]
      tx == IF file.tx_int = 0 \/ file.tx_forgotten THEN Result(chains, "EINVAL")
            ELSE load_fir_filter_coef([chains EXCEPT !.tx_fir_int = file.tx_int], "tx", file.ntaps)
      rx(t) == IF file.rx_dec = 0 THEN Result(t, "EINVAL")
               ELSE load_fir_filter_coef([t EXCEPT !.rx_fir_dec = file.rx_dec], "rx", file.ntaps)
      valid(t) == [t EXCEPT !.filt_valid = IF Ok(t) THEN <<>> \notin {file.chains.rx, file.chains.tx}
                                           ELSE @]
  IN valid(rx(tx))
=============================================================================
