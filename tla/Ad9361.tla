--------------------------------- MODULE Ad9361 ---------------------------------
(***************************************************************************)
(* The AD9361 and its driver under the calls of an application, which come *)
(* one after the other: each call is one step, and what the chip will do   *)
(* during it is chosen with it.                                            *)
(*                                                                         *)
(* The application begins where this one does, with the radio set up, and  *)
(* makes the calls of one part of the driver, its session, with the state  *)
(* machine of the chip moved in between.                                   *)
(***************************************************************************)
EXTENDS Ad9361Board

CONSTANTS
  Boards,    \* what the application may ask for, of which chip, as a phy not set up yet
  Chips,     \* what the chip may do during a call: hang, converge, ...
  Sessions,  \* which calls
  MaxCalls   \* how many, for each session

VARIABLES
  phy,
  session,
  calls,     \* calls so far (bound)
  call,      \* history: the kind of the last call, and the side and profile of a recall
  calm       \* history: every call has succeeded and left nothing to be set again

vars == <<phy, session, calls, call, calm>>

Quiet(s) == [s.chip EXCEPT !.hang = {}, !.converges = Phases, !.junk = FALSE]

With(c) == [phy EXCEPT !.chip.hang = c.hang, !.chip.converges = c.converges, !.chip.junk = c.junk]

Calling(s) == session = s /\ calls < MaxCalls[s]

\* A call of some kind, of which `fine' is to be said.
Recorded(kind, new, fine) ==
  /\ phy' = [new EXCEPT !.chip = Quiet(new)]
  /\ calls' = calls + 1
  /\ call' = kind
  /\ calm' = (calm /\ Ok(new) /\ fine)
  /\ UNCHANGED session

Returned(kind, c, new) == Recorded(kind, new, c.hang = {})

\* A call during which the chip has nothing to do.
Answered(kind, new) == Recorded(kind, new, TRUE)

-----------------------------------------------------------------------------

SetEnsmMode ==
  /\ calls < MaxCalls[session]
  /\ \E mode \in EnsmModes : Answered(<<"ensm">>, set_en_state_machine_mode(phy, mode))

\* The pins move the chip when they are in control.
PinsMove ==
  /\ \E state \in PinStates(phy) \ {phy.reg.STATE} : phy' = [phy EXCEPT !.reg.STATE = state]
  /\ call' = <<"pins">>
  /\ UNCHANGED <<session, calls, calm>>

RfBandwidth ==
  /\ Calling("rates")
  /\ \E c \in Chips, bw \in {200, 8000, 60000} :
       \/ Returned(<<"rate">>, c, set_rx_rf_bandwidth(With(c), bw))
       \/ Returned(<<"rate">>, c, set_tx_rf_bandwidth(With(c), bw))

SamplingFreq ==
  /\ Calling("rates")
  /\ \E c \in Chips, rate \in {2500, 15360, 30720, 61440, 70000} :
       Returned(<<"rate">>, c, set_tx_sampling_freq(With(c), rate))

PathClks ==
  /\ Calling("rates")
  /\ LET clks == <<983040, 245760, 122880, 61440, 30720, 30720>>
         fast == <<983040, 491520, 122880, 61440, 30720, 30720>> IN
     \E chain \in {clks, fast} : Answered(<<"rate">>, set_trx_path_clks(phy, chain, chain))

RateGovernor ==
  /\ Calling("rates")
  /\ \E gov \in {0, 1} : Answered(<<"rate">>, set_trx_rate_gov(phy, gov))

\* Filters of 32 and 128 taps, and of 24, which there are not.
FirConfig ==
  /\ Calling("filters")
  /\ \E ntaps \in {24, 32, 128}, ratio \in {1, 4} :
       \/ Answered(<<"filter">>, set_rx_fir_config(phy, ratio, ntaps))
       \/ Answered(<<"filter">>, set_tx_fir_config(phy, ratio, ntaps))

FirEnDis ==
  /\ Calling("filters")
  /\ \E c \in Chips, sides \in {{"rx"}, {"tx"}, Sides}, enable \in BOOLEAN :
       Returned(<<"tune">>, c, EnableFir(With(c), sides, enable))

\* With rates of its own or without.
LoadEnableFir ==
  /\ Calling("filters")
  /\ \E clks \in {<<>>, <<983040, 245760, 122880, 61440, 30720, 15360>>} :
       LET f == [ratio |-> 2, ntaps |-> 64, bw |-> 8000, clks |-> clks]
       IN Answered(<<"tune">>, trx_load_enable_fir(phy, f, f))

\* A file with rates for both paths, for one, or for none.
ParseFir ==
  /\ Calling("filters")
  /\ \E forgotten \in BOOLEAN, rx, tx \in {<<>>, <<983040, 245760, 122880, 61440, 30720, 15360>>} :
       LET file == [bw |-> [rx |-> 8000, tx |-> 8000], chains |-> [rx |-> rx, tx |-> tx],
                    ntaps |-> 64, tx_int |-> 2, tx_forgotten |-> forgotten, rx_dec |-> 2]
       IN Answered(<<"filter">>, parse_fir(phy, file))

-----------------------------------------------------------------------------

\* 433 and 2450 need different gain tables.
LoFreq ==
  /\ Calling("lo")
  /\ \E c \in Chips, side \in Sides, freq \in {433, 500, 2450} :
       Returned(<<"lo">>, c, clk_set_lo(With(c), side, freq))

\* The call says that a frequency the chip cannot make is set.
LoRefused ==
  /\ Calling("lo")
  /\ \E side \in Sides : Recorded(<<"lo">>, clk_set_lo(phy, side, MAX_CARRIER_FREQ + 1), FALSE)

\* Back inside, the gain table is still that for the LO from outside.
LoIntExt ==
  /\ Calling("lo")
  /\ \E side \in Sides, ext \in BOOLEAN :
       Recorded(<<"lo">>, set_lo_int_ext(phy, side, ext), ext)

LoPowerdown ==
  /\ Calling("lo")
  /\ \E side \in Sides, off \in BOOLEAN : Answered(<<"lo">>, lo_powerdown(phy, side, off))

AutoCal ==
  /\ Calling("lo")
  /\ \E enable \in BOOLEAN : Answered(<<"lo">>, set_tx_auto_cal_en_dis(phy, enable))

\* What the ALC word of the VCO is when a profile is stored, or recalled first.
FastlockStore ==
  /\ Calling("fastlock")
  /\ \E side \in Sides, profile \in {0, 1}, alc \in {5, 6} :
       Answered(<<"fastlock">>,
                fastlock_store([phy EXCEPT !.chip.alc = alc], side, profile))

FastlockRecall ==
  /\ Calling("fastlock")
  /\ \E side \in Sides, profile \in {0, 1} :
       Answered(<<"recall", side, profile>>, fastlock_recall(phy, side, profile))

FastlockLoad ==
  /\ Calling("fastlock")
  /\ \E side \in Sides :
       Answered(<<"fastlock">>, fastlock_load(phy, side, 1, fastlock_save(phy, side, 0)))

FastlockLeave ==
  /\ Calling("fastlock")
  /\ \E side \in Sides, freq \in {433, 500} : Answered(<<"lo">>, clk_set_lo(phy, side, freq))

-----------------------------------------------------------------------------

RxGain ==
  /\ Calling("gain")
  /\ \E ch \in {0, 1}, gain_db \in {-20, 0, 33, 90} :
       Answered(<<"gain">>, set_rx_rf_gain(phy, ch, gain_db))

GainControlMode ==
  /\ Calling("gain")
  /\ \E ch \in {0, 1}, mode \in {"MGC", "FASTATTACK", "HYBRID"} :
       Answered(<<"gain">>, set_rx_gain_control_mode(phy, ch, mode))

\* 5800 is beyond an AD9363A: that it is refused is lost.
Received(freq) == validate_rfpll(phy, FALSE, freq)

GainBand ==
  /\ Calling("gain")
  /\ \E freq \in {2450, 5800} :
       Recorded(<<"lo">>, clk_set_lo(phy, "rx", freq), Received(freq))

TxAttenuation ==
  /\ Calling("gain")
  /\ \E ch \in {0, 1}, atten \in {0, 40, 360} :
       Answered(<<"gain">>, set_tx_attenuation(phy, ch, atten))

GainStepCalib ==
  /\ Calling("gain")
  /\ \E c \in Chips : Returned(<<"gain">>, c, rssi_gain_step_calib(With(c)))

Tracking ==
  /\ Calling("calib")
  /\ \E track \in {"bbdc", "rfdc", "quad"}, enable \in BOOLEAN :
       Answered(<<"calib">>, set_track_en_dis(phy, track, enable))

DoCalib ==
  /\ Calling("calib")
  /\ \E c \in Chips, cal \in {"TX_QUAD_CAL", "RFDC_CAL", "TX_BB_TUNE_CAL"}, arg \in {-2, -1, 7} :
       Returned(<<"calib">>, c, do_calib_run(With(c), cal, arg))

CalibPowerdown ==
  /\ Calling("calib")
  /\ \E off \in BOOLEAN : Answered(<<"lo">>, lo_powerdown(phy, "tx", off))

RfPorts ==
  /\ Calling("calib")
  /\ \/ \E mode \in {0, 4, 9, 12} : Answered(<<"port">>, set_rx_rf_port_input(phy, mode))
     \/ \E txb \in BOOLEAN : Answered(<<"port">>, set_tx_rf_port_output(phy, txb))

DcxoTune ==
  /\ Calling("calib")
  /\ \E fine \in {0, 8191} : Answered(<<"port">>, do_dcxo_tune(phy, 8, fine))

-----------------------------------------------------------------------------

Bist ==
  /\ Calling("interface")
  /\ \/ \E mode \in 0 .. 3 : Answered(<<"bist">>, bist_loopback(phy, mode))
     \/ \E mode \in {"off", "tx", "rx"} : Answered(<<"bist">>, bist_prbs(phy, mode))
     \/ \E freq \in {0, 100, 3000} : Answered(<<"bist">>, bist_tone(phy, "rx", freq))

\* A sweep leaves the clocks at its last rate.
DigTune ==
  /\ Calling("interface")
  /\ \E swept, keep, default \in BOOLEAN :
       Recorded(<<"tune">>, dig_tune(phy, swept, ~keep, default), ~swept)

TimingAnalysis ==
  /\ Calling("interface")
  /\ Answered(<<"tune">>, Result(dig_interface_timing_analysis(phy), "ok"))

\* What failed on the way is still to be set up.
NoChMode ==
  /\ Calling("interface")
  /\ \E c \in Chips, mode \in 1 .. 3 :
       LET anew == SetUpAnew(With(c), mode)
       IN Recorded(<<"setup">>, set_no_ch_mode(With(c), mode),
                   c.hang = {} /\ Ok(anew) /\ Ok(post_setup(anew)))

\* With a second chip, a copy of this one.
DoMcs ==
  /\ Calling("interface")
  /\ Answered(<<"setup">>, do_mcs(phy, phy)[1])

\* The application goes on only with a radio that is initialised and set up.
Initialised == {r \in {init(b, TRUE) : b \in Boards} : Ok(r)}
Radios == {s \in {radio_setup(r) : r \in Initialised} : Ok(s)}

Init ==
  /\ phy \in Radios
  /\ session \in Sessions
  /\ calls = 0
  /\ call = <<"setup">>
  /\ calm = TRUE

Next ==
  \/ SetEnsmMode \/ PinsMove
  \/ RfBandwidth \/ SamplingFreq \/ PathClks \/ RateGovernor
  \/ FirConfig \/ FirEnDis \/ LoadEnableFir \/ ParseFir
  \/ LoFreq \/ LoRefused \/ LoIntExt \/ LoPowerdown \/ AutoCal
  \/ FastlockStore \/ FastlockRecall \/ FastlockLoad \/ FastlockLeave
  \/ RxGain \/ GainControlMode \/ GainBand \/ TxAttenuation \/ GainStepCalib
  \/ Tracking \/ DoCalib \/ CalibPowerdown \/ RfPorts \/ DcxoTune
  \/ Bist \/ DigTune \/ TimingAnalysis \/ NoChMode \/ DoMcs

Spec == Init /\ [][Next]_vars

-----------------------------------------------------------------------------

\* The driver moves the state machine of the chip to ALERT and to FDD for its
\* own ends, in calls within calls.  A call that succeeds and is not about the
\* state machine leaves it in the state it was in, and the pins in control if
\* they were, except that a tuning of the interface takes it from them.  The pins
\* gain it in ALERT only, if they had it when the driver last went there: the note
\* of that is not made again when there is nowhere to go.  It is so until a call
\* has failed.
Returns ==
  calm /\ Ok(phy') /\ call'[1] \notin {"ensm", "pins", "setup"}
    /\ phy.reg.STATE \in {"ALERT", "TX", "RX", "FDD"}
    => /\ phy'.reg.STATE = phy.reg.STATE
       /\ "PIN_CTRL" \in phy.reg.ENSM_CONFIG_1 /\ call'[1] # "tune" =>
            "PIN_CTRL" \in phy'.reg.ENSM_CONFIG_1
       /\ "PIN_CTRL" \in phy'.reg.ENSM_CONFIG_1 =>
            \/ "PIN_CTRL" \in phy.reg.ENSM_CONFIG_1
            \/ phy.reg.STATE = "ALERT" /\ phy.ensm_pin_ctl_en

EnsmReturns == [][Returns]_vars

\* The gain table is that of the LO, if it is the chip's.
TableFits(s) ==
  ~s.use_ext_lo.rx => s.current_table = gt_tableindex(s, s.current_lo_freq.rx)

\* Data taken so late against the clock arrives.
InEye(s, delay) == \A side \in Sides : delay[side][2] - delay[side][1] \in s.chip.eye[side]

\* As long as every call has succeeded, the gain table has followed the LO, and the
\* delays of the interface are ones with which data arrives.
Tuned == calm => TableFits(phy) /\ InEye(phy, phy.reg.DELAY)

\* In FDD with both LOs at one frequency the VCOs are set up from the tables for
\* TDD, at two frequencies from those for FDD: after a call that has set an LO
\* that is so for both sides, whichever of them it was, and each synthesizer
\* has the words of its own LO.  Before one LO has been set the tables are those
\* of the reset.  A transmitter LO too low for the receiver is left out: when the
\* receiver is set its words are asked for with the receiver's limits, which is
\* refused, and the refusal is lost (ad9361.c:6929).
Placed(s) ==
  LET freq == s.current_lo_freq
      table == IF freq.rx = freq.tx THEN "TDD" ELSE "FDD" IN
  \A side \in Sides :
    /\ freq.rx # 0 \/ freq.tx # 0 => s.reg.LUT[side].table = table
    /\ side \notin s.reg.EXT_LO /\ validate_rfpll(s, FALSE, freq[side]) =>
         s.reg.SYNTH[side] = Words(freq[side])

Unpulled ==
  /\ phy'.fdd /\ ~phy'.fdd_independent_mode
  /\ \E side \in Sides : \/ phy'.reg.LUT[side] # phy.reg.LUT[side]
                          \/ phy'.reg.SYNTH[side].vco # phy.reg.SYNTH[side].vco
  => Placed(phy')

NoPulling == [][Unpulled]_vars

\* The dividers of the chip make the rates the driver says the paths have; a
\* FIR filter that is bypassed passes the rate before it.
ChainFits(s) ==
  LET last(chain, bypass) == chain[IF bypass THEN 5 ELSE 6]
      rx == s.current_rx_path_clks
      tx == s.current_tx_path_clks
  IN /\ s.clks.BBPLL = rx[1]
     /\ \A i \in 2 .. 5 : s.clks[RxClks[i - 1]] = rx[i] /\ s.clks[TxClks[i - 1]] = tx[i]
     /\ s.clks.RX_SAMPL = last(rx, s.bypass_rx_fir)
     /\ s.clks.TX_SAMPL = last(tx, s.bypass_tx_fir)

\* The filters follow the widths, and the ADC the filter in front of it and its clock.
FiltersFit(s) ==
  /\ s.reg.RX_BBF = Clamp(s.current_rx_bw \div 2, 200, 28000)
  /\ s.reg.TX_BBF = Clamp(s.current_tx_bw \div 2, 625, 20000)
  /\ s.reg.RX_ADC = [bbbw |-> s.reg.RX_BBF, adc |-> s.clks.ADC]

\* The timing of the gain control and of the RSSI follows the clocks, the latter until
\* its steps are calibrated.
TimingFits(s) ==
  /\ s.reg.GC = GcTiming(s)
  /\ s.reg.LNA_GAIN = 0 => s.reg.RSSI = RssiTiming(s)

\* As long as every call has succeeded, the rates are those that are noted, and what
\* was computed from rates and widths has followed them.
RatesFit == calm => ChainFits(phy) /\ FiltersFit(phy) /\ TimingFits(phy)

\* The ALC word of a VCO: the one it has calibrated itself to, or, in fast lock mode,
\* the one that the last recall has brought.
Alc(s, side) == IF s.reg.FAST_LOCK[side] = 0 THEN s.chip.alc ELSE s.reg.VCO_ALC[side]

\* The profile in use has been stored or loaded anew since: the driver takes the ALC
\* word it has now for the one in use.
Rewritten(s, side) ==
  LET p == s.reg.FAST_LOCK[side]
  IN p # 0 /\ s.fastlock.entry[side][p - 1].alc # s.reg.VCO_ALC[side]

\* A VCO may not lock with the ALC word it already has: a recall brings it another one,
\* however often profiles are stored, loaded and recalled and fast lock mode is left.
\* The exception is a profile in use that was stored or loaded anew since it was recalled,
\* with an ALC word that is not the one of the VCO.
Fresher ==
  call'[1] = "recall" /\ calls' # calls /\ Ok(phy')
    => Rewritten(phy, call'[2]) \/ phy'.reg.VCO_ALC[call'[2]] # Alc(phy, call'[2])

FastlockFresh == [][Fresher]_vars
=============================================================================
