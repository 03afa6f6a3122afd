# Formal models of the RF capture and replay project

The repository is a course: seven homeworks and a final project. The final project is a
system of its own, and the centre of this development: a Zynq board with an AD9361 radio
waits until there is a signal on the air, records a window of it into memory, and plays the
active part of the window back. It consists of a small IP core in SystemVerilog
(`hw/mylibrary/zavadi_rf_capture`), the program on the processor (`sw/src/main.c`,
`rf_capture.c`), two vendored DMA engines (`hw/library/axi_dmac`), and the no-OS drivers of
the DMA engines and of the radio (`sw/src/no-os`). Paths below are relative to
`src/final_project` unless they start with `src/`; those of the drivers to `sw/src/no-os`.

## Inventory

| Part | State | Operations | Correct when |
|---|---|---|---|
| `power_detector.sv` | two pipeline stages, hit counter | one word of two samples per enabled clock | `hit` means: the last HIT_LEN samples were all above the threshold, and not all of them our own |
| `record_counter.sv` | words written, active words, gap | start, one word | a window has exactly CAPTURE_SAMPLES words; the active length ends where the gap is full |
| `capture_fsm.sv` | IDLE, SCAN, CAPTURE, PENDING, REPLAY | four command pulses, trigger, end of the window | no command at any moment leads to a window that is not whole |
| `gate_cdc.sv` | two endless handshakes, last toggles | a clock edge of either side, AXI reset | snapshots are whole and in order, one pulse per written bit |
| `axi_lite_cfg.sv` | toggles, threshold, five channels | a clock edge, reset | one answer per request, each write counts once |
| `zavadi_rf_capture.sv` | none | wiring and the write gate | - |
| `main.c`, `rf_capture.c` | where `capture_loop` is, counters, `capture_buf` | probe, arm, scan, wait, invalidate, scale, flush, replay, abort | what is played is a fresh, complete capture, and never heard by the detector |
| `axi_dmac.c` (driver) | `struct axi_dmac` with its transfer | init, start, wait, stop, three interrupt handlers | the segments of a transfer tile it, and it is reported complete only when it is |
| `axi_dmac` (hardware) | request queue, data mover, reset manager, interrupts | FIFO port, registers | a stopped transfer leaves nothing behind |
| AD9361 driver: state machine | `prev_ensm_state`, `curr_ensm_state`, `ENSM_CONFIG_1` | set, force, restore | a call that takes the chip to ALERT brings it back |
| AD9361 driver: calibrations, gain | bandwidths, tracking, gain table, AGC and RSSI timing | a calibration, a new bandwidth, a new gain or table | what was computed for a clock, a width or an LO is computed anew when that changes |
| AD9361 driver: clocks, FIR filters, interface | cached rates, dividers, path clocks, delays | rates, filters, `ad9361_dig_tune` | the dividers make the rates the driver says; the delays are inside the eye |
| AD9361 driver: synthesizers | LO frequencies, VCO tables, fast lock profiles | LO, external LO, store, recall | neither VCO pulls the other; a recalled profile brings its VCO another ALC word |
| AD9361 driver: setup and API | all of `struct ad9361_rf_phy` | `ad9361_init`, `ad9361_setup`, `ad9361_set_no_ch_mode`, `ad9361_do_mcs` | ends in a radio of which all of the above holds |
| ADC and DAC core drivers, platform layer, ADI HDL library, block design | - | configuration, wiring | vendored, not modelled |
| `src/homework_3` | ALU registers, two pipelines, four debouncers, lock state | a clock edge, reset | results belong to the operands they are shown with; the code opens the lock |
| `src/homework_5` | AXI RAM; packer and FIFO of a frame transmitter | a clock edge, reset | bursts land where they belong; a frame is whole and in order |
| `src/homework_6` | debouncer, LED | a clock edge, reset | one toggle per press |
| `src/homework_7` | window of a moving maximum | a sample, a call | the maximum of the last samples of this call |
| `src/homework_1`, `src/homework_2` | one register or none each | - | not modelled |

How they interact. The program writes CMD and THRESHOLD and reads STATE and ACTIVE_SAMPLES
over AXI4-Lite. Commands travel as toggled bits, `{cmd_tgl, threshold}` in one handshake; the
status `{state, active_samples, pwr}` comes back in another. The data domain runs at the rate
of the ADC: its words go to the RX DMA only while the state is CAPTURE. The DMA raises a sticky
end-of-transfer flag that the program polls. Between the DMAs and the program is a data cache
that nothing keeps coherent but the program. The radio is set up once, by `radio_setup`,
before the loop begins; its driver holds copies of the chip's registers and calls itself many
levels deep, each level forcing and restoring what the ones above rely on. The homeworks are
designs of their own that share nothing but the debouncer.

What is hard: two clock domains with resets that are not common; status that is always a little
old; a scan timeout that races the trigger; a reset in the middle of a window; interrupts of a
transfer that was aborted; cache lines fetched while the DMA writes; boundaries at which a window
is a word too long; and, in the drivers, state cached on one path and stale on another, calls
that fail half-way, and calibrations that disturb what they do not own. `PROJECT.json` lists each
hazard at its line.

## Modules

| Module | What it is | Code |
|---|---|---|
| `CaptureCore` | the data domain of the IP; one action per clock edge (`Reset`, `NoSample`, `Sample`) | `power_detector.sv`, `record_counter.sv`, `capture_fsm.sv`, the data half of `zavadi_rf_capture.sv` |
| `CaptureGate` | abstract: what the IP promises to DMA and program | - |
| `CdcLink` | one handshake of `gate_cdc`, an action per edge of either clock and for the reset of the sender | `gate_cdc.sv` 64-73, 75-79, 102-119; `xpm_cdc_handshake` is external |
| `Mailbox` | abstract: a one-place mailbox of whole snapshots | - |
| `CommandPath` | the command registers, their link (an instance of `CdcLink`), the pulses | `axi_lite_cfg.sv` 107-124, `gate_cdc.sv` 45-82 |
| `AxiLiteCfg` | the slave port, cycle by cycle, with any master that obeys AXI | `axi_lite_cfg.sv` 57-128 |
| `RecordAndReplay` | abstract: what the whole machine promises to whoever listens to it | - |
| `CaptureLoop` | the whole machine: `capture_loop`, the IP by its contract (it extends `CaptureGate`), status and commands in flight, RX and TX DMA, cache | `main.c`, `rf_capture.c`, and of `axi_dmac` what the loop sees |
| `AxiDmac` | the DMA driver with its caller, its interrupts and the queue of the core | `axi_core/axi_dmac.c` |
| `Ad9361Ensm` | the enable state machine | `ad9361.c`: `ensm_*` |
| `Ad9361Cal` | calibrations, bandwidths, tracking | `ad9361.c`: `*_calib`, `*_cal`, `update_rf_bandwidth`, `do_calib_run` |
| `Ad9361Gain` | gain tables, gain control, RSSI | `ad9361.c`: `load_gt` to `rssi_setup` |
| `Ad9361Clocks` | PLL, dividers, rates, FIR filters | `ad9361.c`: clocks, `calculate_rf_clock_chain`, `set_trx_clock_chain`; `ad9361_util.c` |
| `Ad9361Tune` | digital interface, loopback and test patterns, the search for the delays | `ad9361_conv.c`, `ad9361.c`: `bist_*`, `set_tx_atten` |
| `Ad9361Synth` | LOs, VCO tables, fast lock, multi-chip sync | `ad9361.c`: `rfpll_*`, `fastlock_*`, `mcs` |
| `Ad9361Setup` | the setup from reset | `ad9361.c`: `ad9361_setup` and what only it calls |
| `Ad9361Api` | the calls an application makes, and `radio_setup` | `ad9361_api.c`, `main.c` |
| `Ad9361Board` | three boards: `default_init_param`, a TDD radio, an AD9363A | `main.c`, `ad9361.h` |
| `Ad9361` | the radio under the calls of an application, and its properties | `ad9361_api.c` |
| `Drivers` | the two drivers, one at a time | - |
| `Debouncer`, `Blinker`, `Lock` | debouncer, LED, lock | homework 3 and 6 |
| `Pipelines` | ALU and the two sums of squares | homework 3 |
| `FullRam`, `FrameTx` | AXI RAM, frame transmitter | homework 5 |
| `MovingMax` | moving maximum | homework 7 |
| `HomeworkBoard` | the homeworks, one bitstream at a time | - |
| `MC*` | constants for TLC | - |
| `*_proofs` | theorems about the module of that name, with the invariants they need | - |

The composition goes by contracts. `CaptureCore` implements `CaptureGate` (run `core`,
theorem `ImplementsGateHolds`) and `CaptureLoop` is built on the actions of `CaptureGate`:
theorem `IPKeepsContract` says that the loop makes no other steps of the IP than those.
`CdcLink` implements `Mailbox` (run `cdc_link`, theorem `ImplementsMailboxHolds`), and the
status of `CaptureLoop` (`TakeStatus`, `StatusArrives`) is that mailbox (`StatusIsMailbox`); the
one command in flight of `CaptureLoop` is what `CommandPath` shows of paced writes, and it
always finds the IP in a state that takes it (`EveryCommandTaken`). The loop in turn implements
`RecordAndReplay` (run `loop`, theorem `ImplementsMachineHolds`): a machine with no processor,
DMA, cache or clock domains in it, that listens, records a take, plays it once, and rests.

`Drivers` and `HomeworkBoard` are compositions of another kind: units that share no state and
never run together, chosen in Init, so that one run checks them side by side. The variables of
the units that do not run have the value `Unloaded`.

### CaptureCore

`state`, `hit_counter`, `capture_counter`, `active_samples`, `hang_counter` and
`hang_exceeded` are the registers of the same names. A sample is only its power, so the first
pipeline stage `sq` holds the word whose squares the RTL registers and `pwr` the pair
`pwr0`, `pwr1`. The widths of 23 and 24 bits hold `q * q` and the sum for every 12-bit sample
(2048^2 = 2^22), so the power does not wrap and no modulus is needed. Two variables are
history: `win`, the words of the window marked with the `hit` of their cycle, and `seen`, the
last samples compared. `own` marks the words sampled during REPLAY. Command pulses, threshold,
`xfer_req` and samples are inputs, chosen anew on each edge; `Pulses` are the sets of commands
that one edge may bring, several at a time too.

### CdcLink and CommandPath

An edge of one clock is a step of its own. `level` is `src_send` as the destination sees it; a
level crosses on any edge, or later, so every ratio of the clocks is covered. In `CommandPath`
`owed` counts writes that have had no pulse, `needs` is the threshold in force when a bit was
written, `spurious` are pulses nobody asked for. `Paced` is what the program does: every
`rfc_cmd`, and every write of the threshold, is followed by a line on the UART at 115200 baud,
milliseconds against the microseconds of the handshake. It is an assumption about the program
and it is needed: without it run `command_burst` loses a command.

### AxiLiteCfg

A channel is `None` or its payload. `s_axi_awready` and `s_axi_wready` are assigned alike and
are one variable. The master holds what it has asserted and is otherwise free. `unanswered`,
`unread`, `toggled` and `last` keep the accounts of the master.

### CaptureLoop

A step of the program is one register access (or a cache operation on the whole buffer). `pc`
is the place in `capture_loop`; an abort starts at `reset`. Steps that come after a line of
output or a 10 ms poll have the guard `Settled`: by then the command has arrived, a status taken
after it has arrived, and a DMA that was told to stop has come to rest (`lag` counts the
snapshots to wait for). Polls that read the state have no such guard and may read an old one.
The DMA takes a word when it has room (`FifoDepth`), stores it some time later, and flags the
end; stopped, it may still finish and raise the flag. The cache may fetch or evict a line at any
time. A word of the buffer is known by the window it is of, its place in it, and whether it has
been scaled; a line of the cache is one word, since the boundary line that `active` may cut in
two holds no other data. `DataReset` is the reset of the data clock domain.

The line between program and hardware faults is `NoFalseAlarm`: without dropped words and
resets, none of the loop's error branches is ever taken.

As a `RecordAndReplay` the loop is seen by what is on the air (`Air`: the words of the buffer
that the TX DMA repeats, until it is stopped and has come to rest), by the number of the window,
and by its `Stage`. A take is recorded from the trigger on, and for as long as the loop can
still play it (`Taken`): after an abort, a reset or the end of a replay the machine rests,
whatever the buffer holds. The words of a take are scaled and in their places, so the
refinement carries the cache and the DMAs with it: a stale line, a word missing, a replay that
begins before the flush, or one that begins again, are all something the machine cannot do.

### AxiDmac

`dmac` is the struct of the driver, `queued`, `active`, `sot` and `eot` are the hardware: one
segment that waits (QUEUE_FULL), segments under way, the two sticky bits of IRQ_PENDING. The
core may accept a segment and end one at any time, the interrupt may come as late as it likes,
and with both bits pending at once. The three handlers differ in when they rewind, and in how
a memory-to-memory copy learns that its last segment has been submitted (the source is moved
past the end); `Isr` is all three. `axi_dmac_transfer_start` is two steps, since the parameters
are overwritten before QUEUE_FULL is looked at. `covered`, `moved` and `torn` are the history
the properties are about, and `disturbed` tells of a start that met a core not at rest, or of
a stop: of such transfers the driver promises nothing.

### The AD9361 driver

A call of the driver runs to its end before the next, so a call is one step. The `Ad9361*`
modules are operators from one `phy` to the next: a record of the fields of `struct
ad9361_rf_phy` and of its platform data, with `rc` what the last call returned and `reg` the
registers of the chip. The operators have the names of the functions (less `ad9361_`) and call
one another like them; `IfOk`, and with it the operators named `Then...`, is the early return on
an error, and a call whose result the code does not look at has none. `Boards` is what an
application may ask for, of a chip that is not set up yet; `Ad9361` begins with one of `Radios`,
the boards that `ad9361_init` takes and on which `radio_setup` succeeds (`main.c` 807-815), and
makes the calls: each belongs to a session (rates, filters, LO, fast lock, gain, calibrations,
interface), and an application makes at most `MaxCalls` of one session's, with the state machine
of the chip moved in between by `SetEnsmMode` or by its pins.

What the chip will do is chosen with each call: `hang`, the calibrations that do not end in
this call; `converges`, the phases at which the quadrature calibration does; `junk`, what the
uninitialised byte holds that the driver reads when it does not; and the ALC word of a VCO. The
digital interface is the set of delays at which a pattern arrives.

The register arithmetic of the analog blocks is abstracted to what it was computed for: the
receive ADC holds the width and the clock of its calculation, the gain control and the RSSI
their clock, a synthesizer the frequency of its VCO and its divider. That is what the properties
compare. Rates and widths are in kHz, LO frequencies in MHz, attenuations in quarters of a dB.

`calm` is history: every call so far succeeded and left nothing that the caller has to set
again. It is FALSE after a call that failed, a call during which a calibration hung, a swept
tuning (which leaves the clocks at the last rate of its sweep, `ad9361_conv.c:537`), a return
from an external LO (whose gain table stays), an LO that was refused with 0, and a change of
the number of channels a step of which failed. The model of a sweep takes the FIR filters to be
off, as they are where one is made.

### The homeworks

One action per clock edge and one for the reset, all inputs free. `Lock` and `Blinker` are built
on `Debouncer`, a function from its registers to the next. `FullRam` has an AXI master with one
burst of each kind under way that pauses anywhere; `intent` is the memory as that master means
it. `FrameTx` knows a byte by its place in the frame, and its FIFO (external) may lower its ready
up to `SLACK` clocks late. `MovingMax` is checked against the reference of the test bench.

## Runs

| Run | Instance | Question |
|---|---|---|
| `core` | HIT_LEN 5, 5 words, hang 3, 5 sets of commands | the hit counter against the run it stands for; self-triggering; whole windows, active length, the contract; a window ends |
| `core_midword` | HIT_LEN 4 | README.md:67, violated |
| `cdc_link` | 3 values | whole snapshots in order, arrival |
| `command_path` | 2 commands, 2 thresholds, 2 resets | one pulse per write, thresholds, resets |
| `command_burst` | the same unpaced | README.md:55, violated |
| `axi_lite` | one bit, 3 addresses, 3 data values | the slave port |
| `loop` | 2 iterations, 2 words, DMA of 1 word, 1 reset | the loop's safety, the machine it implements, and that every iteration ends |
| `homeworks` | see below | the homeworks, each on its board |
| `sums` | see below | `pythagoras_squares_comb.sv:19`, violated |
| `lock_code` | counter of one bit | `tb_lock_controller.sv:46`, violated |
| `transceiver` | 3 boards, 4 chips, 7 sessions of 2 to 4 calls; DMA of 4 bytes, 2 transfers | both drivers |
| `dmac_done` | DMA of 4 bytes, 2 transfers | `axi_dmac.c:504`, violated |

Why the bounds are enough. HIT_LEN 5 is odd and more than the four samples the pipeline can
carry, so both the overshoot of the counter and the end of the own samples occur. A hit that
falls stays away for two words at least with this HIT_LEN; a window of 5 words with a hang of 3
has room for a gap, a hit that restarts it, a full gap, and words after it. The five sets of
commands have between them every effect that any set has in any state (`MCPulses`).
Powers 0 and 1 with thresholds 1 and 2 give quiet and loud samples and a threshold nothing
reaches. Two bits of CMD suffice since the bits do not interact; the third snapshot value tells
a torn copy from both its neighbours. Two iterations let every leftover of one meet the next
(the third would start like the second), two words with room for one allow a dropped word, and
a window cut in half. Bounds of the models: `MaxOwed`, `MaxThreshold` and `MaxResets` in
`CommandPath`, `NumCaptures`, `FifoDepth` and `MaxResets` in `CaptureLoop`, `MaxStarts` in
`AxiDmac`, `MaxCalls` in `Ad9361`.

In the homeworks a debounce counter of one bit can bounce back, fill and run over; bursts of up
to three beats wrap around a memory of two words; a frame of five words is longer than the FIFO
of three, whose ready is late by up to two clocks; calls of seven samples are longer than the
window of three. In the drivers, transfers of 2, 4, 6 and 10 bytes make one segment that is not
full, one that is, two and three; a second transfer meets what the first has left. A session of
three calls is a change, another change that relies on it, and the call that would show what is
stale; the sessions with the longest calls have two, and that of the fast lock profiles four: a
profile is stored, recalled, left or overwritten, and recalled again. The three boards differ in
everything the driver branches on: FDD and TDD, one channel and two, split and full gain tables,
pins and calls, LOs of the chip and from outside, and the limits of the AD9363A. The four chips
do all they are asked, converge at few phases, do not tune a filter, and do not calibrate at all.
The run has some 220 000 distinct states, each of them the work of a call.

All runs check for deadlock but two: the drivers stop when the calls or starts of the bounds are
used up (`MCDrivers.cfg`, `MCAxiDmac_done.cfg`).

Five runs end in a counterexample, and are reported as differences between the code and what
the repository says of it:

* `core_midword`: the detector looks at words of two samples, so a run of HIT_LEN samples that
  ends at the first sample of a word is not a hit. It takes up to HIT_LEN + 1 samples.
* `command_burst`: two writes of the same bit between two snapshots cancel. The program never
  writes that fast.
* `sums`: the pipelined sum of squares adds the square of `b`, which has a register of its own,
  to that of `a`, which has none, so a sum is made of the `a` of one clock and the `b` of the
  clock before. The combinational module adds the squares of one clock.
* `lock_code`: behind its debouncers a digit stays for thousands of clocks, and the state machine
  of the lock wants the next digit on every clock. The test bench of the lock has no debouncers.
  `LockInv` (run `homeworks`) shows that the lock never opens, whatever is entered.
* `dmac_done`: without interrupts only the first segment of a transfer is ever submitted, its two
  bits in IRQ_PENDING end the wait, and 0 is returned while the rest has not been moved. The
  capture loop is not hit by it: its buffer fits one segment.

Every property of the passing runs has a mutant: an operator that changes one definition the way
a plausible bug would. They stand before the definition they change and are marked `Mutant`.

## Fairness

* `CaptureCore`: `SampleStep`, since the ADC delivers for as long as the radio runs.
* `CdcLink`, `CommandPath`: both clocks run and a level that stays is eventually seen, which is
  what a synchroniser of flip-flops does; a reset ends.
* `AxiLiteCfg`: the clock runs and the master takes answers now and again.
* `CaptureLoop`: the processor runs, commands and status arrive, the DMAs move, the ADC delivers
  during CAPTURE. The trigger has no fairness: there may never be a signal, and then the scan
  timeout is the step that is left to the program. The program's own time (60 s, 1 s, 10 ms) is
  not modelled but for `Settled` and the guard of the DMA timeout in `WaitEot`: after a second
  the DMA has stored what it has.

## Proofs

All proofs are checked by TLAPS for every value of the constants; the assumptions are the named
ASSUMEs of the modules. Liveness stays with TLC.

* `CaptureCore_proofs`: `CoreInv` is inductive. It adds to the type invariant what the counters
  mean: `CounterIsRun` (the hit counter is the length of the run), `CounterIsWindow` (the capture
  counter is the number of words handed over, and below CAPTURE_SAMPLES while in CAPTURE),
  `HangIsGap` (the hang counter is the distance to the last hit), `OwnIsShort` (a word of the
  replay has at most one more behind it). None of the properties is inductive alone:
  `FullWindow` needs the counter's meaning in CAPTURE, `ActivePhase` that of the hang counter.
  From it follow `FullWindow`, `ActivePhase`, `HitIsRun`, `NoSelfTrigger` (for HIT_LEN > 4; with
  a smaller one the pipeline could hold a whole run of the replay) and the refinement of
  `CaptureGate`.
* `CdcLink_proofs`: `LinkInv` (the four phases rise and fall in turn) is inductive, and each edge
  maps to a step of `Mailbox` or to a stutter. The refinement mapping is `Slot`: the snapshot is
  on its way from the edge that takes it to the edge that stores it.
* `CommandPath_proofs`: for `Paced` writes, `PathInv` with the two safety properties is inductive.
  Its core is `InStep`: the bits in which the two sides differ are those owed a pulse, unless the
  AXI side has been reset and not written since (`Boot`), and `SlotExplained`: what is on its way
  reports either the owed writes or the reset. The lemmas of `CdcLink_proofs` are used through an
  instance.
* `AxiLiteCfg_proofs`: `AxiInv` is inductive. `ReadyIsAsked` is the part that makes it so: a ready
  is up for one cycle, with the request still there and no answer in its way.
* `CaptureLoop_proofs`: `LoopInv` is inductive, for windows of any length, any number of
  captures, any depth of the RX DMA and any number of resets. None of the properties is
  inductive, and none has an invariant much smaller than the whole: what the program does next
  depends on a status that is old by an unknown amount, so `Handshake` says for every place of
  the program in which states the snapshot in the registers, the one on its way and the IP can
  be (its heart is `ScanSent`: which snapshots may still be from before the scan, and that one
  that says SCAN or CAPTURE cannot be); `OnAir` when the radio may be transmitting, `Transfer`
  and `RxStage` what the RX DMA has taken and that a transfer with a word missing cannot end;
  `Buffer` which of memory and cache holds the newer word at each step from the end of the
  transfer to the flush; `ActiveLength` that the length read is the one of this window, if there
  was no reset. From it follow the type invariant, `ReplaysCapture`, `ReplaysActivePart`,
  `NeverHearsItself`, `CleanArm`, `NoFalseAlarm`, and `WholeTransfer` (a transfer that is
  reported complete holds the window, word by word), which is stated here and not checked by a
  run of its own, since the refinement contains it. The refinement needs two more facts, about
  steps: what is on the air does not change while it is there (`AirStands`), and a take begins
  by the trigger alone (`TakesBeginByTrigger`). Three theorems are about the contracts the loop
  is composed by: `IPKeepsContract`, `StatusIsMailbox` and `EveryCommandTaken`, the last of which
  needs `Handshake` again, since the program chooses its commands by a status that is old.
  Assumed: `NoneAssumption`, that the value for nothing is no command, snapshot or word.
* `HomeworkBoard_proofs`: for each design an invariant of its own module, and the property of
  the board. `LockInv` is inductive as it stands. `RamInv` adds where the read port is ahead of
  the master (`ReadAhead`). `BlinkInv` ties the debounce counter to the run of equal samples it
  counts (`CountsTheRun`). `ArithInv` is each stage of each pipeline against the operands that
  entered it. `FrameInv` ties the word the packer hands over to the pixel counter (`Handed`,
  `Following`) and the FIFO's late ready to the room it has (`ClosesInTime`). `MaxInv` is about
  two loops of the code; they are recursive functions on the naturals, whose defining equations
  are derived here from the least-number principle (`LeastNat`), since the induction theorems
  of the library cannot be used: of two such loops that differ somewhere, look at the first place.
* `Drivers_proofs`: `DmaInv` is inductive for any core, length of segment and sizes, and gives
  `SegmentsTile` (theorem `SegmentsHold`). Its heart is `UnderWay`: as long as bytes are left to
  submit, an interrupt is still to come, and it finds the place of the waiting segment free.
  It speaks of transfers that are not `disturbed`, like the property. Assumed: `DmaAssumption`;
  X_LENGTH reads back as ones from its lowest bit on, and sizes are whole words. It is needed: a
  cyclic transfer is taken to be at its end when the next address is that of the last byte, which
  for even sizes is the same as being past it, and for others loses that byte.
* `Radio_proofs`: the state machine, the fast lock profiles and the synthesizers of the radio
  (`EnsmReturnsHolds`, `FastlockFreshHolds`, `NoPullingHolds`), for all boards, chips, sessions
  and any number of calls. A call is a
  composition of some two hundred operators, so there is a lemma for nearly each, from the bottom
  up, always about a phy `t` that was `s` at first. Most leave the state machine alone (`Still`),
  and keep what is true in every state of every call (`Whole`). Those that take it to ALERT note
  its state and whether the pins had it (`AtAlert`); the tuning of the interface takes it away
  without such a note (`Aside`); both come back (`Back`), with the pins in control as before
  (`Unmoved`). A call then `Stays`, `ComesBack`, or `Tries`, which is to be back if it succeeds
  and in a state of its mode if not. For the counted loops of the driver (over the clocks, the
  rates of the paths, the rates of a sweep, the steps of a synchronization) the least-number
  principle stands in for induction (`LeastNat`, `LoopEnds`, `LoopStill`). `EnsmReturns` is not
  inductive: a restore gives back the noted state only if that is a state of the mode the chip is
  in (`Settled`), and a call that sets the rates comes back with the pins only where the FIR
  filters are bypassed, which they are in all sessions but their own (`Bypassed`): with a filter
  on, a new clock chain has the interface tuned again, and that takes the pins. The invariant is
  `Sound`: the phy is `Whole`, `Settled` as long as no call has failed, and `Bypassed` outside
  that session. That the set-up ends in such a phy is `RadiosUsable`. Each action then is of one
  of four classes (`Stayed`, `Homed`, `Entered`, `Recalled`), and one lemma says what each class
  does to invariant and properties. For `FastlockFresh` a part of `Whole` has to say that driver
  and chip agree (`Locks`): the ALC word noted of a profile is the one in the memory of the chip,
  and the profile taken for the one in use is the one the chip has been told to use, 0 where fast
  lock mode has been left. Then `RecallFresh`: the word the driver compares with is that of the
  VCO, and the recall brings another one, the one written last, the one stored, or the one after
  it. Between the reset of the chip and the clearing of the driver's state the two do not agree,
  so what is said there is less (`Raw`, `Unset`, `UnsetWhole`). `NoPulling` is about the LOs
  alone (`Lo`), and holds of calls that fail too. What the
  driver knows of each synthesizer has to be true of the chip (`LoSound`: the divider it keeps is
  that of the rate it keeps, and the tables of the two sides are changed together), since it
  leaves out what it believes done. Every operator either keeps the LOs (`Coupled`), or leaves
  them such that a changed synthesizer goes with both frequencies (`Follows`); between calls that
  is so of the whole phy (`Leads`), and `BlankSound` says that it is after a reset. The change of
  the mode of the two sides is what makes the tables change (`Turned`, `Turns`). Assumed:
  `BoardAssumption`, the fields the driver's struct has before the set-up, and the types of those
  that it reads before it writes them.
* `Drivers_proofs`, which builds on it, also has the tuning of the radio: `AlwaysTuned`, that the
  gain table follows the LO and that data arrives with the delays of the interface, for every
  board, chip and session `TuneAssumption` admits, any number of calls and any eye. Nearly every
  operator writes some of what this is about, and most write it only to bring it back, so the
  lemmas say what each of them leaves alone: `Keeps(P, s, t)` is that from `s` to `t` the parts
  named in `P` are as they were (the table, the external LO, the receiver's LO, the filters'
  bypass, the delays) or as well as they were (`eyed`, delays with which data arrives), and the
  lemma of an operator holds for every set `P` that does not name what the operator sets. A
  composition then keeps what all its parts keep. `Tabled` (the table is that of the LO) and
  `Eyed` are the two parts of the property. `Eyed` is about the delays in force and about those
  noted for later, since a reset and a tuning without a result go back to the notes. The heart of
  its proof is the search for the middle of the longest window (`find_opt`): the window is not
  empty if one delay arrives, and its middle is in it. A tuning that finds no window
  goes back to the delays of before. For `Tabled` the hard step is the
  set-up, which starts from a table that may be any: the rate noted for the LO is 0 after a reset
  (`LoUnset`), so the LO is really set, and the table loaded with it, whatever it was before.
  `TuneInv` is inductive: the struct is `Built`, what the application has asked for stands
  (`Asked`), and as long as the radio is `calm` both parts hold. Assumed: `TuneAssumption`, the
  fields and sides of the struct, an LO that the receiver has (one out of range is refused, with
  0, and no table is loaded), and delays with which data arrives or else, for a set-up that tunes
  (`dig_interface_tune_skipmode` 0), a delay on either side among those that the tuning tries.

## Only model-checked

Liveness (`CaptureEnds`, `Arrives`, `CommandArrives`, `RequestsServed`, `LoopEnds`), which is out
of the prover's reach, and one invariant of the AD9361 driver. `RatesFit` compares some fifteen
fields (dividers, filters, calibrations, the timing of gain control) with the clocks and widths
they were computed for. Its proof would be one about the arithmetic of the clock chain over
tables that are searched, and about boards: a board may ask for a chain that the dividers cannot
make, and none is refused.

## What the drivers do, beside the findings

Met while modelling, and left in the models as it is in the code (paths in `sw/src/no-os`):

* `axi_dmac.c`: a start that is refused because the queue is full has already replaced the
  parameters of the transfer that runs (387-395), and `transfer_done` is never cleared at a
  start; DMA_CYCLIC stays set for a later one-shot transfer; a copy from memory to memory of one
  segment never sets `transfer_done`; a cyclic transfer by software whose size is one more than
  a multiple of a segment loses its last byte.
* LOs: the words of the other LO are checked against the range of the one that is set
  (`ad9361.c:6902`), so a TX LO between 47 and 69 MHz gets those of the RX minimum; an LO out of
  range returns 0, as every `no_os_clk_set_rate` does; after a recall of a fast lock profile the
  cached rate is the old one, so a request for that one does nothing, and the gain table is not
  loaded; back from an external LO the gain table stays.
* Fast lock: a profile that is stored or loaded while it is in use changes the driver's note of
  its ALC word and the memory of the chip, not the VCO, which keeps the word of the last recall.
  The next recall compares with the note and may bring the word the VCO has: a recall brings 6,
  a store of the same profile notes 5, and the recall after it goes on to 6 again, which is what
  the workaround of `ad9361.c:5160` is against. `FastlockFresh` excepts that case (`Rewritten`).
* Interface: tuning takes the state machine from the pins (a force within a force); after a swept
  tuning the rates are those of its last step; `bist_config` and the PRBS mode noted are not
  those in force; `ad9361_tx_mute` mutes with 1, its comment says 0; after a tuning that restored
  the defaults the attenuation is the one noted at the last mute; a tone below a 64th of the
  clock becomes the highest.
* Filters: filters loaded while both are enabled get no clocks (`ad9361_api.c:2056`); a file
  with rates but without a bandwidth sets a bandwidth of 0; that the TX half of a file is wrong
  is lost.
* Clocks: a divider is cut to a power of two; with `default_init_param` and its FIR filters
  bypassed the rate is twice that of the last clock asked for, until `radio_setup` sets it.
* Gain: `agc_mode` is noted by channel and used by antenna, and a mode that does not exist
  returns 0; `ad9361_rssi_gain_step_calib` leaves the RSSI as set up for the calibration; the
  last RSSI weight may become -1 and is written as 255 (from a duration of 1289 samples on, for
  about one in two hundred); for a duration of 0 it is `weight[-1]`.
* State machine: forced to ALERT where it is in ALERT already, the driver does not note again
  whether the pins are in control (`ad9361.c:1972` leaves before `ensm_pin_ctl_en` is written), so
  the restore that follows may give the state machine back to the pins although the application
  has taken it from them since the last note. `EnsmReturns` excepts it.
* Calibrations: a bandwidth that cannot be set leaves the chip in ALERT without its tracking;
  `ad9361_do_calib_run` loses what the calibration returned; a restore to SLEEP_WAIT does
  nothing.

In the homeworks: of the pipelined sum of squares `SumsInStep` says only that it is right when
its operands have stood for two clocks, since run `sums` refutes more; the RAM shows the last
beat of a burst again, or takes it back before it was taken, when the master pauses there
(`BeatsInOrder` is about the beats it still expects).

## Not modelled

Sample values and their scaling (arithmetic on data no property looks at; a word is known to
be scaled or not), the calibration of the threshold, logging, an IP that answers with an
invalid state (no bitstream), NUM_CAPTURES = 0 (the endless loop; two iterations stand for it).
The error returns of `axi_dmac_transfer_start` are there (`RxStart`, `TxStart`) and are shown
never to be taken.

Of the AD9361 driver: SPI transfers that fail, and memory that is not there; the words the
analog blocks are programmed with; getters that read one register; filter coefficients; the
GPIO trigger of fast lock; an application that goes on after `ad9361_remove`, or sets the radio
up twice. The set-up of the ADC core and the DDS of the DAC
core, and the platform layer (SPI, GPIO, memory-mapped access), are register writes nothing reads
back. Of `axi_dmac` the hardware, the request generator, the burst memory and 2D transfers.

The ADI HDL library, the block design, generated HDL, test benches, and homeworks 1 and 2 (one
register or none each) are left out; so is the program of homework 5, which starts one transfer.

## Plan

Done: all modules above, checked; the capture IP, the command path, the register port, the
capture loop with the machine it implements and the contracts it is composed by, the homeworks,
the DMA driver, and the radio's state machine, fast lock profiles, synthesizers, gain table and
interface delays, proved.

1. The last property of the radio's driver, `RatesFit`: first the dividers and the rates of the
   paths, then what is computed from them, one calibration after the other.
2. `DmacCore`: request queue, reset manager and end of transfer of the DMA hardware, as the
   contract `CaptureLoop` uses.
