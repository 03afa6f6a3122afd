----------------------------- MODULE Ad9361Ensm -----------------------------
(***************************************************************************)
(* The enable state machine (ENSM) of the AD9361 as its driver moves it.   *)
(*                                                                         *)
(* The AD9361* modules hold operators from one `phy' to the next: a record *)
(* of the fields of struct ad9361_rf_phy and of its platform data, with    *)
(* `rc' what the last call returned and `reg' the registers of the chip.   *)
(* ENSM_CONFIG_1 is the set of its bits that matter here.  Ad9361.tla      *)
(* gives the record its initial value and makes the calls.                 *)
(***************************************************************************)
EXTENDS Naturals, FiniteSets

EnsmStates == {"SLEEP_WAIT", "ALERT", "TX", "RX", "FDD", "SLEEP"}
ForceBits == {"FORCE_ALERT", "FORCE_TX_ON", "FORCE_RX_ON"}
ToAlert == {"TO_ALERT", "FORCE_ALERT"}

Result(s, rc) == [s EXCEPT !.rc = rc]
Ok(s) == s.rc = "ok"

\* A loop of n steps from s.
Loop(Step(_, _), s, n) ==
  LET after[i \in 0 .. n] == IF i = 0 THEN s ELSE Step(after[i - 1], i) IN after[n]

\* What the chip does with ENSM_CONFIG_1; without its clocks, nothing.
Moved(s, bits) ==
  CASE ~s.reg.CLOCKS -> s.reg.STATE
    [] s.reg.CLOCKS /\ "FORCE_TX_ON" \in bits -> IF s.reg.FDD_MODE THEN "FDD" ELSE "TX"
    [] s.reg.CLOCKS /\ "FORCE_TX_ON" \notin bits /\ "FORCE_RX_ON" \in bits ->
         IF s.reg.FDD_MODE THEN s.reg.STATE ELSE "RX"
    [] s.reg.CLOCKS /\ bits \cap {"FORCE_TX_ON", "FORCE_RX_ON"} = {} ->
         IF bits \cap ToAlert # {} THEN "ALERT" ELSE "SLEEP_WAIT"

Configure(s, bits) ==
  [s EXCEPT !.reg.ENSM_CONFIG_1 = bits, !.reg.STATE = Moved(s, bits)]

ForcedOn(to) ==
  CASE to \in {"TX", "FDD"} -> {"FORCE_TX_ON"}
    [] to = "RX" -> {"FORCE_RX_ON"}
    [] OTHER -> {}

-----------------------------------------------------------------------------

\* Mutant: the pins are never given the state machine back.
restore_without_pins(s, to) ==
  LET bits == ((s.reg.ENSM_CONFIG_1 \ ForceBits) \ {"PIN_CTRL"}) \cup {"TO_ALERT"} \cup ForcedOn(to)
  IN IF to \in {"TX", "FDD", "RX", "ALERT"} THEN Configure(Configure(s, ToAlert), bits) ELSE s

ensm_restore_state(s, to) ==
  LET bits == (s.reg.ENSM_CONFIG_1 \ ForceBits) \cup {"TO_ALERT"} \cup ForcedOn(to)
      restored == Configure(Configure(s, ToAlert), bits)
  IN CASE to \notin {"TX", "FDD", "RX", "ALERT"} -> s
       [] to \in {"TX", "FDD", "RX", "ALERT"} /\ ~s.ensm_pin_ctl_en -> restored
       [] to \in {"TX", "FDD", "RX", "ALERT"} /\ s.ensm_pin_ctl_en ->
            Configure(restored, bits \cup {"PIN_CTRL"})

ensm_restore_prev_state(s) == ensm_restore_state(s, s.prev_ensm_state)

\* The state is remembered even when there is nothing to do; whether the pins
\* were in control only when there is.
ensm_force_state(s, to) ==
  LET cfg == s.reg.ENSM_CONFIG_1
      seen == [s EXCEPT !.prev_ensm_state = s.reg.STATE]
      taken == [seen EXCEPT !.ensm_pin_ctl_en = "PIN_CTRL" \in cfg]
      left == (cfg \ {"PIN_CTRL"}) \ (IF s.reg.STATE # "SLEEP_WAIT" THEN {"TO_ALERT"} ELSE {})
      bits == IF to = "ALERT" THEN (left \ ForceBits) \cup ToAlert ELSE left \cup ForcedOn(to)
  IN IF s.reg.STATE = to THEN seen
     ELSE IF to \notin {"TX", "FDD", "RX", "ALERT"} THEN taken
     ELSE Configure(Configure(taken, ToAlert), bits)

-----------------------------------------------------------------------------

\* With VCO calibrations off and the clocks stopped.
Asleep(s) ==
  LET waits == Configure(Configure(Configure(s, {}), ForcedOn(IF s.fdd THEN "FDD" ELSE "RX")), {})
  IN [waits EXCEPT !.reg.CLOCKS = FALSE, !.reg.VCO_CAL = {}, !.curr_ensm_state = "SLEEP",
                   !.rc = "ok"]

Awake(s) ==
  IF s.curr_ensm_state # "SLEEP" THEN s
  ELSE [Configure([s EXCEPT !.reg.CLOCKS = TRUE], ToAlert) EXCEPT !.reg.VCO_CAL = {"rx", "tx"}]

\* A transition the mode forbids is refused from ALERT only: from any other
\* state the chip goes to ALERT first, and then where it was told to.
ensm_set_state(s, to, pinctrl) ==
  LET woken == Awake(s)
      bits == {"TO_ALERT"} \cup ForcedOn(to) \cup (IF pinctrl THEN {"PIN_CTRL"} ELSE {})
                \cup (IF to = "ALERT" THEN {"FORCE_ALERT"} ELSE {})
      forbidden == \/ to \in {"TX", "RX"} /\ (s.fdd \/ s.curr_ensm_state # "ALERT")
                   \/ to = "FDD" /\ ~s.fdd
      fromAlert == IF forbidden
                     THEN Configure(woken, (bits \ ForcedOn(to)) \cup ToAlert) ELSE woken
      oneSynth == ~s.fdd /\ ~pinctrl /\ ~s.tdd_use_dual_synth /\ to \in {"TX", "RX"}
      chosen == IF oneSynth THEN [fromAlert EXCEPT !.reg.TXNRX = to = "TX"] ELSE fromAlert
  IN IF to = "SLEEP" THEN Asleep(woken)
     ELSE IF forbidden /\ s.curr_ensm_state = "ALERT" THEN Result(woken, "EINVAL")
     ELSE [Configure(chosen, bits) EXCEPT !.curr_ensm_state = to, !.rc = "ok"]

set_ensm_mode(s, fdd, pinctrl) ==
  LET dual == fdd \/ s.tdd_use_dual_synth IN
  [s EXCEPT !.reg.FDD_MODE = fdd, !.reg.DUAL_SYNTH = dual,
            !.reg.FDD_EXT_CTRL = fdd /\ s.fdd_independent_mode,
            !.reg.SYNTH_PIN_CTRL = ~dual /\ pinctrl, !.reg.TXNRX = FALSE, !.rc = "ok"]

-----------------------------------------------------------------------------

EnsmModes == {"TX", "RX", "ALERT", "FDD", "WAIT", "SLEEP", "PINCTRL", "PINCTRL_FDD_INDEP"}

StateOf(mode) ==
  CASE mode \in {"WAIT", "PINCTRL"} -> "SLEEP_WAIT"
    [] mode = "PINCTRL_FDD_INDEP" -> "FDD"
    [] OTHER -> mode

set_en_state_machine_mode(s, mode) ==
  LET pd == [s EXCEPT !.fdd_independent_mode = mode = "PINCTRL_FDD_INDEP"]
      pinctrl == mode = "PINCTRL"
  IN IF mode \notin EnsmModes THEN Result(pd, "EINVAL")
     ELSE ensm_set_state(set_ensm_mode(pd, s.fdd, pinctrl), StateOf(mode), pinctrl)

get_en_state_machine_mode(s) ==
  CASE s.reg.STATE = "FDD" -> IF s.fdd_independent_mode THEN "PINCTRL_FDD_INDEP" ELSE "FDD"
    [] s.reg.STATE = "SLEEP_WAIT" ->
         IF "PIN_CTRL" \in s.reg.ENSM_CONFIG_1 THEN "PINCTRL" ELSE "WAIT"
    [] OTHER -> s.reg.STATE

\* The ENABLE and TXNRX pins, when they are in control (external).
PinStates(s) ==
  IF "PIN_CTRL" \in s.reg.ENSM_CONFIG_1 /\ s.reg.CLOCKS
    THEN IF s.reg.FDD_MODE THEN {"ALERT", "FDD"} ELSE {"ALERT", "TX", "RX"}
    ELSE {s.reg.STATE}
=============================================================================
