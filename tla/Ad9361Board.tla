------------------------------ MODULE Ad9361Board ------------------------------
(***************************************************************************)
(* What an application asks of ad9361_init: default_init_param of this one *)
(* and of a board that is another radio altogether, each as a phy that     *)
(* has its platform data and is zero elsewhere.                            *)
(***************************************************************************)
EXTENDS Ad9361Api, TLC

\* What the chip and the board around it are (external): delays at which the
\* pattern arrives, and that nothing hangs.
Chip(eye) == [hang |-> {}, converges |-> Phases, junk |-> FALSE,
              eye |-> [side \in Sides |-> eye], lanes |-> [side \in Sides |-> 6 .. 20], alc |-> 5]

Zeros(names) == [c \in names |-> 0]
ZeroChain == [i \in 1 .. 6 |-> 0]
BothOff == [side \in Sides |-> FALSE]

\* zmalloc of the struct ad9361_rf_phy, and what ad9361_init and the core say
\* of it: the first core in the FPGA, of a version with selectors.
Zeroed == [
  rc |-> "ok", reg |-> PowerOn, blocks |-> {}, registered |-> FALSE,
  prev_ensm_state |-> "SLEEP_WAIT", curr_ensm_state |-> "SLEEP_WAIT", ensm_pin_ctl_en |-> FALSE,
  clks |-> Zeros(RefClks \cup {"BBPLL"} \cup {RxClks[i] : i \in 1 .. 5} \cup {TxClks[i] : i \in 1 .. 5}),
  lo_off |-> BothOff, last_tx_quad_cal_phase |-> 0, last_tx_quad_cal_freq |-> 0,
  current_rx_bw |-> 0, current_tx_bw |-> 0, manual_tx_quad_cal_en |-> FALSE, tracks |-> {},
  current_table |-> 0, agc_mode |-> <<"MGC", "MGC">>, tx_quad_lpf_tia_match |-> 0,
  bbpll_initialized |-> FALSE, bypass_rx_fir |-> FALSE, bypass_tx_fir |-> FALSE,
  rx_fir_dec |-> 0, tx_fir_int |-> 0, rx_fir_ntaps |-> 0, tx_fir_ntaps |-> 0, rx_eq_2tx |-> FALSE,
  current_rx_path_clks |-> ZeroChain, current_tx_path_clks |-> ZeroChain,
  filt_valid |-> FALSE, filt_rx_bw |-> 0, filt_tx_bw |-> 0,
  filt_rx_path_clks |-> ZeroChain, filt_tx_path_clks |-> ZeroChain,
  tx_atten_cached |-> <<0, 0>>, bist_loopback_mode |-> 0, bist_prbs_mode |-> "off",
  bist_tone_mode |-> "off", bist_tone_freq |-> 0, bist_config |-> BistOff,
  scratch_reg |-> 0, hdl_dac_version |-> 9, has_conv |-> TRUE, core_id |-> 0,
  rate_governor |-> 0, current_lo_freq |-> Zeros(Sides), current_use_tdd_table |-> BothOff,
  cached_rfpll_div |-> Zeros(Sides), lo_dummy |-> Zeros(Sides), lo_clk |-> Zeros(Sides),
  lo_mux |-> BothOff, auto_cal_en |-> FALSE, cal_threshold_freq |-> 0, fastlock |-> NoFastlock,
  auxdac_value |-> <<0, 0>>, chip |-> Chip(-3 .. 4)]

\* The parts of default_init_param, in kHz, MHz and quarters of a dB: gain
\* control and RSSI, the converters and the interface, and the radio.
DefaultCtrl == [
  modes |-> <<"SLOWATTACK", "SLOWATTACK">>, adc_large |-> 58, adc_small |-> 47,
  dec_pow_measuremnt_duration |-> 8192, dig_gain_en |-> FALSE,
  gain_update_interval_us |-> 1000, agc_attack_delay_extra_margin_us |-> 1,
  f_agc_dec_pow_measuremnt_duration |-> 64, f_agc_state_wait_time_ns |-> 260,
  rssi_delay |-> 1, rssi_duration |-> 1000, rssi_wait |-> 1, rssi_unit_is_rx_samples |-> FALSE,
  restart_mode |-> "GAIN_CHANGE", auxadc_clock_rate |-> 40000, temp_time_interval_ms |-> 1000,
  settling_delay_ns |-> 0, elna_gain_mdB |-> 0, elna_bypass_loss_mdB |-> 0]

DefaultPorts == [
  auxdac_default |-> <<0, 0>>,
  dig_interface_tune_skipmode |-> 0, dig_interface_tune_fir_disable |-> FALSE, lvds |-> TRUE,
  port_delay |-> [rx |-> <<0, 4>>, tx |-> <<7, 0>>], has_resetb |-> TRUE]

DefaultChain == <<960000, 240000, 120000, 60000, 30000, 15000>>

DefaultRadio == [
  dev_sel |-> "AD9361", refin |-> 40000, rx2tx2 |-> FALSE,
  rx1tx1_mode_use_rx_num |-> 1, rx1tx1_mode_use_tx_num |-> 1,
  fdd |-> TRUE, fdd_independent_mode |-> FALSE, tdd_use_dual_synth |-> FALSE,
  tdd_skip_vco_cal |-> FALSE, use_ext_lo |-> BothOff, split_gt |-> FALSE,
  trx_synth_max_fref |-> MAX_SYNTH_FREF, ensm_pin_ctrl |-> FALSE,
  rx_synth_freq |-> 433, tx_synth_freq |-> 433, lo_powerdown_managed_en |-> TRUE,
  rx_path_clks |-> DefaultChain, tx_path_clks |-> DefaultChain,
  rf_rx_bandwidth |-> RF_BW, rf_tx_bandwidth |-> RF_BW,
  rf_rx_input_sel |-> 0, rf_tx_output_sel |-> FALSE, tx_atten |-> 80,
  use_extclk |-> FALSE, dcxo |-> <<8, 5920>>, clkout_mode |-> 0, ctrl |-> DefaultCtrl]

default_init_param == DefaultRadio @@ DefaultPorts @@ Zeroed

\* Two channels in TDD, the pins in control of the state machine, LOs apart and
\* in another band, split gain tables, and a fast gain control.
TddBoard ==
  [default_init_param EXCEPT
     !.rx2tx2 = TRUE, !.fdd = FALSE, !.ensm_pin_ctrl = TRUE, !.split_gt = TRUE,
     !.tdd_use_dual_synth = TRUE, !.rx_synth_freq = 2400, !.tx_synth_freq = 2450,
     !.ctrl = [@ EXCEPT !.modes = <<"FASTATTACK", "SLOWATTACK">>], !.chip = Chip(5 .. 9)]

\* The small chip, asked for more than it has.
Ad9363Board ==
  [default_init_param EXCEPT
     !.dev_sel = "AD9363A", !.rx2tx2 = TRUE, !.use_ext_lo = [side \in Sides |-> TRUE],
     !.rf_rx_bandwidth = 40000, !.tx_synth_freq = 500]
=============================================================================
