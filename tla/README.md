# Formal model of picolyzer-tester

picolyzer-tester is firmware for an RP2350 board that generates known digital
signals for a logic analyzer to capture: sixteen parallel channels from PIO0,
UART and SPI from PIO1, I2C bit-banged by the CPU. A text console over USB
drives it. These modules model its core logic, TLC checks them on small
instances, and TLAPS proves for every value of the constants the invariants of the
signal engine, of the protocol generators, of the console, of the pattern commands
and of the clock arithmetic, and that the engine and the generators implement their abstract
specifications.

## 1. Inventory

| Component | Source | State | Operations | Talks to |
|---|---|---|---|---|
| Pattern DMA feed | `src/dma.rs` | CTRL, READ_ADDR, TRANS_COUNT of two channels, CHAN_ABORT | `start`, `stop`, `busy` | reads the pattern buffer, writes the TX FIFO, the channels trigger each other |
| Signal engine | `src/bus.rs` | `sm0`, `sm1`, `mode`, `stalled`, `word_len`, the pattern buffer | `stop`, `start_toggle`, `start_count`, `load_pattern`, `play_pattern`, `service`, `launch` | state machines 0 and 1 of PIO0 (FIFO, TXSTALL, pins), the DMA feed |
| Protocol generators | `src/proto.rs` | two slots, `payload`, `len`, `cursor`, `active`, CS/SCL/SDA | `uart_send`, `spi_send`, `i2c_send`, `service`, `stop`, `busy` | state machines 0 and 1 of PIO1 |
| Commands | `src/commands.rs` | the scratch buffer patterns are made in | `dispatch` and one function per command | every component above, the synthesis and timing crates |
| Poll loop | `src/main.rs` | the line buffer, the greeting flag | read a packet, service both generators, dispatch each line, write replies | USB, console, commands |
| Console | `src/console.rs` | `buf`, `overflowed` | `LineBuffer::push`, tokenizer | poll loop |
| Pattern synthesis | `tester-core/src/pattern.rs` | none (pure) | `walk`, `gray`, `pulse`, `glitch`, `skew`, ... | commands |
| Clock dividers | `tester-core/src/timing.rs` | none (pure) | `divisor_for_rate`, `rate_of`, ticks and ns | commands |
| I2C timing | `tester-core/src/i2c_timing.rs` | none (pure) | `plan` | `i2c_send` |
| Argument parsing | `tester-core/src/parse.rs` | none (pure) | `hz_arg`, `u32_arg`, ... | commands |
| Board, host tools, build files | `src/board.rs`, `tools/`, `build.rs`, `memory.x` | constants | | |

What is hard in it:

- **Concurrency with hardware.** The CPU never blocks interrupts or takes a lock;
  it races with two DMA channels that trigger each other, with four PIO state
  machines and with sticky flags that those machines set at any time.
- **Stopping a self-sustaining loop.** The two channels keep each other alive.
  `dma.rs` dismantles the chain, aborts, and waits, one register access at a time.
- **Sticky flags read as events.** TXSTALL means "stalled at some time since it
  was cleared"; `bus.rs` reads it as "this run lost samples" and `proto.rs` as
  "this SPI frame is over".
- **Delayed service.** FIFOs are refilled, chip select is released and stalls are
  latched only once per pass of the poll loop, and all the commands of one USB
  packet run within one pass.
- **A neglected console.** The loop that feeds the generators also writes to a host
  that may read slowly, not at all, or go away in the middle of a reply. Lines
  arrive cut anywhere by packets, with backspaces, and may be too long.
- **A chain of conversions.** Between the characters of a line and the samples on
  the pins lie radix, suffix, rounding to ticks, repetition, framing, padding and
  looping; each may be off by one, and each step may refuse.
- **Boundaries.** A FIFO of eight words, a payload four times as long, a one-shot
  that just fits, a transfer count that has to be exact, dividers with a
  fractional part.

What makes each part correct:

- DMA feed: `stop` returns, and leaves both channels halted, disabled and
  unchained, whatever it raced with; a loop delivers its words in order, none lost
  or repeated, turn after turn, without the CPU.
- Engine: whatever the order of commands, each run puts exactly its words on the
  pins and the channels are low in between; nothing of an earlier run leaks into
  it; no command finds a state machine in use; the buffer is never written while
  something reads it; `txstall` is about the current run.
- Protocols: a decoder that sees only the lines gets every byte, and the end of
  the frame after the last bit and not before; chip select is released without
  another command; lines idle at the level the protocol wants, also when a command
  cut a frame; `status` agrees with the pins.
- Timing: the divider chosen is the nearest; the rates accepted are exactly those the
  bounds document; the rate and the width a reply states are the ones emitted; I2C is
  never driven faster than asked.
- Console: a line is executed as typed or refused whole; output is in order, nothing
  twice, and missing only where `write_all` gave up; the loop keeps serving the
  generators and reading input whatever the host does.
- Parsing: an argument accepted is worth what is written; anything else is refused.
- Synthesis and its commands: the samples played are those the reply describes;
  padding and repetition add no edge; what a refused command has half written is
  never played.

## 2. Modules

| Module | What it is |
|---|---|
| `PatternDma` | `dma.rs`: the driver's register accesses and the two channels |
| `Bus` | `bus.rs` with the commands and the poll loop, EXTENDS `PatternDma` |
| `Stream` | abstract specification: what the engine promises on its 16 channels |
| `BusProofs` | theorems about `Bus` and their proofs |
| `StreamProofs` | that `Bus` implements `Stream`, EXTENDS `BusProofs` |
| `MCBus` | model values for `Bus` |
| `Proto` | `proto.rs` with its commands and the poll loop, a decoder listening |
| `Frames` | abstract specification: what a decoder on the protocol lines makes out |
| `ProtoProofs` | theorems about `Proto` and their proofs |
| `FramesProofs` | that `Proto` implements `Frames`, EXTENDS `ProtoProofs` |
| `DataInduction` | lemmas: induction and recursion over numbers and sequences |
| `MCProto` | bytes, payloads and addresses for `Proto` |
| `Timing` | `timing.rs`: the divider and tick arithmetic, as operators |
| `I2cTiming` | `i2c_timing.rs`: the delay planned for an I2C rate |
| `Rates` | the commands as far as rates and durations go, and `plan_rate` of `pattern.rs` |
| `RatesProofs` | theorems about `Rates` and their proofs |
| `MCRates` | clocks and requests for `Rates` |
| `Powers` | powers, for the shifts of `pattern.rs` and `parse.rs` |
| `Parse` | `parse.rs`: what each parser makes of a token, EXTENDS `Timing` |
| `Patterns` | `pattern.rs`: `Writer` and the generators, EXTENDS `Timing` |
| `Synth` | the commands that put a pattern or a wave on the channels, from tokens to samples and reply, EXTENDS `Parse`, `Patterns` |
| `SynthProofs` | theorems about `Synth`, `Patterns` and `Parse` and their proofs |
| `MCSynth` | lines for `Synth` |
| `Console` | `console.rs` and the poll loop of `main.rs`, with a host |
| `ConsoleProofs` | theorems about `Console` and their proofs |
| `MCConsole` | sizes for `Console` |

`Bus` and `Proto` are checked apart. They share the CPU but no state: PIO0, its
FIFO and the DMA belong to one, PIO1 to the other, and `stop` is the only command
that touches both (`commands.rs:97-100`). `Status` in either is a command that
leaves that generator alone, which is what the commands of the other are to it.

### PatternDma and Bus

`dpc` is the driver's program counter. Every register access of
`PatternDma::stop` and `start` that a channel can race with is an action
(`ChainData`, `ChainReload`, `Abort`, `WaitAbort`, `WaitData`, `ClearData`,
`WaitReload`, `ClearReload`, `Setup`, `Go`); the accesses of `Setup` are one action
because both channels are quiet then, up to the last, which starts the reload
channel and ends it. Between any two of them `DataTransfer`, `ReloadTransfer`,
`AbortData` and `AbortReload` may happen any number of times.

The DMA block is external. It is modelled from what the driver relies on: a trigger
is ignored by a channel that is disabled or busy; an aborted channel may still
finish the transfer in flight and still chains (`dma.rs:129-131`); CHAN_ABORT bits
clear when the abort has taken hold; a channel that chains to itself chains to
nothing. One rule, `ReloadFirst`, is an assumption about speed: a reload channel
that has been triggered makes its single unpaced transfer before the data channel
moves another word. It matters at start-up only: configuring the reload channel
through CTRL_TRIG also starts it (see the run `bus_reload`), and its stray write
rewinds READ_ADDR. With `ReloadFirst = FALSE` TLC finds the first word of a loop
played twice (`StreamKept` fails): the code is right because of how soon the
reload channel gets its bus cycle and not because of the order of its register
writes. The theorems of `BusProofs` do not need the assumption; those of
`StreamProofs`, which are about the words on the pins, state it.

`pc` is where the CPU is in `bus.rs`:

| `pc` | in the code |
|---|---|
| `poll`, `ready` | the poll loop: before `service`; dispatching the commands of a packet |
| `stopping`, `halt`, `stopped` | `Bus::stop`: in `dma.stop()`; both state machines to be halted; returned |
| `feeding` | in `dma.start()` of `play_pattern` |
| `launch`, `finish` | the synchronised start; setting `mode` |
| `panic` | an `unreachable!` |

`sm0` and `sm1` are the enums `Sm0State` and `Sm1State`; the hardware machine runs
exactly while the enum says Running. A word stands for two packed samples. `wave`
and `codes` stand for what toggle and count put on the pins. The history variables
(`due`, `begun`, `starved`, `late`, `gap`) only record; no guard reads them.

### Proto

The CPU takes a step per access that a machine can race with: `service` is
`PushUart`/`PushSpi` once per byte, then `PushedUart`/`PushedSpi`, then `ClearStale`
or `Probe` on the sticky flag. The machines take a step per instruction that moves a
line, so bits really appear on `tx`, `sck`, `mosi`, and I2C is one pin write per
step (`WireStep`). The decoder (`HearUart`, `HearSpi`, `HearI2c`) sees the lines
only. `Frames` says what it must hear: the bytes sent, in order, and the end of the
frame after the last one; a new command may cut a frame.

### Timing, I2cTiming and Rates

`Timing` and `I2cTiming` keep every truncation and rounding of the two files; the
constants of the hardware (256 steps, 65535, picoseconds in a second, `u32::MAX`,
12036 and 231) are CONSTANTS. `Rates` has a state of two parts: `sysclk`, which the
build fixes (`board.rs:34`), and the last `reply`. Each command that takes a number
is an action and its reply is what the code computes: `cycles` is the number of
machine cycles of a sample, a wave, a code, a UART bit or an SPI bit, so one
definition (`RateReply`) serves `play`, `square`, `toggle`, `count`, `uart`, `spi`
and the sweeps, whose `cycles` is the repetition `plan_rate` chose. The
multiplications the code checks are checked against `MaxU32`; the code's other
arithmetic is in 64 bits and cannot reach them (the largest product is
`512 * 2^32` or `2^32 * 2^8 * 1000`). A glitch, a skew and each of the two durations
of a pulse is one number and its ticks (`WidthReply`). The properties compare the
replies with the reference: the rational number emitted, or all other dividers.

`Synth` uses the same `Timing`. `Rates` shares no state with `Bus` and `Proto`, which take a command's rate as
accepted and model what it starts.

### Parse, Patterns and Synth

A token is a sequence of characters, a sample the set of the channels it drives, a
pattern a sequence of samples. The operators of `Parse` and `Patterns` have the names
and the shape of the functions in the code; a `None` of the code's checked arithmetic
is a `None` here, against `MaxU32`. Figures, prefixes, suffixes and `all` are taken in
either case, as `to_digit`, `from_str_radix` and `eq_ignore_ascii_case` take them.
`Synth` composes them as `commands.rs` does. Its
state is the line (`req`), the answer (`reply`), the scratch buffer (`scratch`,
`PATTERN_BUF`), the pattern loaded (`pattern`, kept in `bus.rs`), what the channels
carry (`playing`) and, as history, the last pattern accepted, before padding (`raw`).
The scratch buffer is shared by all commands and written as a pattern is made: `load`
writes it up to the first bad token, and `Writer` up to the sample it has no room for
(`Unbuilt`, `Written`), so a refusal leaves half a pattern in it (`RefuseLeaving`).
`scratch` keeps what the last command to write has written; entries behind that are
left out, since no command reads further than it wrote. Each command is an action of a
single step, as `dispatch` is not interrupted, and the refusals of arguments, which
write nothing, are one error. `LoadError` is the
checks of `load_pattern`, which come before it stops the output. Lines arrive already
split, as `Tokens` leaves them; a line of more than `MaxTokens` is refused.

`Bus` then takes pairs of such samples as words and shows that what is loaded is
what is played; `Rates` shows what the divisor is worth.

### Console

`pc` is where the loop of `main.rs:116-166` is: `poll`, `service`, `greet`, `read`,
`bytes` (the `for` over the packet), `dispatch`, and `write` (in `write_all`, `out`
being its local variables). `TakeByte` and `TakeEol` are `LineBuffer::push` with what
the loop does on its event; `Return` is what follows a `write_all`: after the text
the dispatch, after the reply its end of line, after that `line.reset()`. `write_all`
polls nothing, so while it spins the device notices neither a new packet nor the
loss of its host.

The host and the serial port are external: a packet is accepted when the last was
read; the port takes as many bytes as it has room; bytes leave when the host reads;
a bus reset is noticed in `poll` and empties the port. `poll` may report data when
there is none. The output is not spelled out: a part has a kind and a length. The
history `typed` is the bytes since the last end of line, `last` the place in the
output of the byte last taken by the port.

## 3. Runs

| Run | Question | Result |
|---|---|---|
| `bus` | types; no panic; channels quiet when they must be; a clean FIFO at launch; stall flag belongs to this run; preloaded and free-running modes never starve; buffer written at rest; **Bus implements Stream** | holds, 1.2 million states |
| `bus_live` | `stop` returns; words keep coming; a gap gets reported | holds, 330 thousand states |
| `bus_stall` | `txstall=yes` means samples were lost | **violated** (finding 1) |
| `bus_status` | a status asked for after a gap says so | **violated** (finding 2) |
| `bus_reload` | the reload channel runs only when chained to | **violated** (finding 3) |
| `proto` | types; idle levels; status agrees with chip select; **Proto implements Frames**; SPI frames end; UART transfers complete | holds, 26 thousand states |
| `rates` | encodable registers; nearest divider; exact ranges; honest reports; slow sweeps; the least I2C delay within a cycle; widths survive their report | holds, 16 thousand states |
| `rates_i2c` | the I2C bus is never driven faster than asked | **violated** (finding 4) |
| `rates_ticks` | ticks are those closest to the duration | **violated** (finding 5) |
| `synth` | types; tokens worth what is written; frequencies exact; samples as the reply says; Gray sweeps; dwell of sweeps; padding; what is played is what was accepted | holds, 1.3 million states |
| `synth_period` | a pulse train has the period reported | **violated** (finding 6) |
| `console` | types; lines executed as typed; output in order; whole unless given up; service recurs; input is taken | holds, 1.8 million states |

Every property of a passing run has a mutant in `PROJECT.json`: a plausible bug in
the code under which TLC finds that property violated.

### Bounds

- `MCBus`: `Capacity` 3, `FifoDepth` 2, `PreloadWords` 2; loads of 0 (refused), 2
  (fits the FIFO when one-shot), 3 (never fits), 4 (refused). So both feeding paths,
  a FIFO that fills and empties, a loop that closes and a buffer filled to its last
  word all occur. The words of different loads differ, so a word of an earlier run is
  recognised on the pins.
- `Batch` is how many commands one USB packet brings: 2 lets a command be dispatched
  with no `service` since the last, which is when stale flags matter. The host may
  send any number of packets.
- `MCBusLive` is smaller (`Capacity` 2, `FifoDepth` 1, loads of 1 and 2 words,
  `Batch` 1), since liveness needs the whole graph. A loop of one word and a loop
  longer than the FIFO both occur.
- `MCProto`: bytes of 2 bits, a FIFO of 2, payloads of 0 (refused), 1, 3 and 4
  (too long) bytes, an address that is refused. A payload of 3 cannot be queued by
  one `service`. Two bits suffice for bit order (01 against 10) and for every phase of
  a frame.
- `MCRates`: clocks 1 to 40 and requests 0 to 50 with dividers of 4 steps and at most
  3 + 3/4, and `MaxU32` 120, so that for most clocks there are rates too fast, too
  slow, on each boundary and overflowing, and all pairs are tried. The proofs cover
  the board's own numbers; they do not fit TLC's 32-bit integers. The two violating
  runs use the board's clock and constants in larger units (kHz; units of 50 MHz).
- `MCSynth`: three channels, a buffer of twelve samples, a divider of four steps and
  at most 3 + 3/4 at a clock of 120, so rates from 32 to 137, and repetition up to six;
  `k` and `M` are 10 and 1000 and `MaxU32` 1100, so that one, two, three and too many
  fraction digits, and overflow in each checked operation, all fit in four
  characters. `count` is given every token of up to three characters over
  `0 1 4 _ k M x b B F`, of four over `0 1 k M`, and more with upper-case prefixes and
  figures, ten tokens to a line, of which it reads the first and
  `NumbersAsWritten` and `FrequenciesAsWritten` look at all. `MaxTokens` is 11 for
  that. The other commands are given arguments on both
  sides of each of their conditions, among them patterns of odd length, patterns that
  just fit and just do not, every width from 0 to one too many, and rates that are
  too fast, too slow, and need repetition. A tick is two nanoseconds, so durations
  round.
- `MCConsole`: lines of two bytes, packets of up to two, five bytes in all, which is
  enough for a line too long with a backspace before its end, for two commands, and for
  a line cut in three. The port holds two bytes, less than the
  banner and no more than a reply, so writes are partial; `write_all` gives up at the
  second attempt without progress. One printable byte suffices, since a line is a stack:
  what can go wrong in it is its length. The host goes away once, at any point.
- No symmetry is used: the words of a list are ordered.

### Fairness

The CPU runs one thread that spins, so `WF(Cpu)`: whenever some CPU step can be
taken one is. Which command the host sends next is not covered by it, and the host
may send none. Each DMA channel, its abort, and each state machine is clocked on
its own, hence one weak fairness condition for each. In `Console` it is
`WF(Loop)`, and nothing is assumed of the host: it need not read, send or stay. There
is no strong fairness: nothing in the code needs a condition that comes and goes to be honoured.

## 4. Findings

1. **A complete burst reports a stall** (`bus.rs:455`, run `bus_stall`). After the
   last word of a streamed one-shot, its machine comes back for another and raises
   TXSTALL; `service` samples as long as the machine is running, which is until the
   next command. `README.md:134-135` says to throw away a capture with `txstall=yes`.
2. **A status in the same packet as the play misses the gap** (`main.rs:144`, run
   `bus_status`). No `service` runs between commands of one packet, and `status`
   reads what `service` latched. `DESIGN.md:97` says the stall is reported every time.
3. **The reload channel runs before anything chains to it** (`dma.rs:89`, run
   `bus_reload`), against the comment at `dma.rs:95`. Harmless under `ReloadFirst`.
4. **I2C can run faster than asked** (`i2c_timing.rs:89`, run `rates_i2c`). `plan`
   truncates the period to whole cycles before it rounds the delay up. A request for
   98 kHz is driven at 98.039 kHz, against `i2c_timing.rs:81-83`. The reply states
   the true rate, the overshoot is less than one cycle per bit, and with any smaller
   delay it would be more (`I2cOnTime`).
5. **Durations are not rounded to the closest tick** (`timing.rs:129`, run
   `rates_ticks`). `tick_ps` truncates 6666.67 ps to 6666, so a pulse of 26668 ns
   (4000.2 ticks) becomes 4001 ticks, against `timing.rs:167`. The same error makes
   every reported width 100 ppm short. The first duration that goes wrong is 3343 ns
   (501.45 ticks, 502 chosen).
6. **The period of a pulse train** (`commands.rs:372`, run `synth_period`). A train of
   an odd number of ticks is padded with one more sample and looped, but the reply
   states the period that was asked for: at 150 MHz `pulse 0 10 20` reports
   `period_ps=19998` and repeats every four ticks, 26.7 ns. `commands.rs:3-4` says
   every `ok` carries the parameters actually achieved. Only the `samples` field gives
   it away.

Seen while reading, without a run:

- A separator or a prefix after the suffix counts as digits: `1M_5` is 1.05 MHz,
  `1k2_5` is 1025 Hz and `1k0x5` 1005 Hz (`parse.rs:57` takes the length of the text),
  against "never a silently-different value" (`parse.rs:3-5`).
  `FrequenciesAsWritten` is therefore about fractions of digits only.
- `hex_byte_arg` takes `+4` for 4, since `u8::from_str_radix` allows a sign.
- A tab is dropped as a control byte (`console.rs:69`) before the tokenizer, which would
  split at it, sees it: `load 1<tab>2` loads the sample 12.
- When `write_all` gives up on a reply its end of line is still tried
  (`main.rs:159-160`), so a host can see a reply that is cut but complete by its form;
  `WholeUnlessGivenUp` says that this is the only case.
- The line buffer is not cleared when the host goes away: what was typed and not ended
  is the beginning of the next connection's first line. Nor is the new host greeted.
- The sweeps' last level lasts one sample longer where their length is odd
  (`SweepDwell` says so); their replies state no period.
- The comments at `bus.rs:377-380` and `main.rs:122-123` speak of `service` refilling,
  which it no longer does.
- `status` answers `proto=idle` for UART once the last byte is queued, up to nine frames
  before it is on the wire.

## 5. What is proved

`BusProofs`, from `DmaAssumption` and `BusAssumption` (the constants' types, and
`PreloadWords <= FifoDepth`), for any word set, sizes, patterns and batch:

| Theorem | Property | In words |
|---|---|---|
| `Invariance` | `IInv` | the inductive invariant holds in every reachable state |
| `TypeCorrect` | `TypeOK` | types; no transfer leaves the buffer or overflows the FIFO |
| `PanicFree` | `NeverPanics` | no `unreachable!` is reached |
| `ChannelsQuiet` | `DmaQuiet` | `stop` leaves the channels halted and disabled |
| `StallAttributed` | `StallIsOfThisRun` | `stalled` is never left over from another run |
| `NoGapWithoutRefill` | `NoRefillNoGap` | toggle, count and preloaded bursts lose nothing |
| `BufferSafe` | `BufferWrittenAtRest` | the buffer is written only when nothing reads it |

`IInv` is `TypeOK` and seven parts:

- `ControlInv`: which slots can be in which state at each `pc`. `NeverPanics` alone is
  not inductive: one has to know that `stop` has put both machines back.
- `StopInv`: what the channels can still do at each `dpc`. This is the argument of
  `dma.rs`: once a channel chains to itself its abort triggers nothing, and the reload
  channel has to be dead before the data channel may be declared dead.
- `QuietInv`: from where on both channels are quiet, and that `sm0` idle means an empty
  FIFO and quiet channels. It carries the result of `stop` to its callers.
- `FeedInv`: `rd + left <= count + 1` while the data channel is busy, so no transfer
  reads past the buffer. It holds through stray reloads and aborts.
- `RunInv`: which program runs in which mode, and what the sticky bit can be blamed on.
- `FreeInv`: a free-running program has its seed or has taken it, so it never starves.
- `OnceInv`: for a preloaded burst the words still due are those in the FIFO.

Each `<Inv>Step` lemma shows that one part survives every action, a case per action;
`IInvInductive` puts them together, and the theorems follow by PTL. TLC checked `IInv`
on the instance of the run `bus` before it was proved.

`RatesProofs`, from `TimingAssumption`, `I2cTimingAssumption` and `RatesAssumption`
(types, dividers of at least 2 at the slow end, a clock of at most 500 MHz), so for
every clock the firmware could be built for and every request of a host:

| Theorem | Property | In words |
|---|---|---|
| `Encodable` | `TypeOK` | accepted rates encode to registers that mean what they say; no empty width |
| `NearestChosen` | `NearestDivisor` | no divider is closer than the one chosen |
| `BoundsExact` | `RangeExact` | `max_accepted_rate_hz` is exactly the cutoff |
| `ReportedAsEmitted` | `ReportHonest` | reports are the emitted rate to the milli-hertz |
| `SweepsReached` | `SlowRatesReached` | repetition always reaches the divider's range |
| `BusOnTime` | `I2cOnTime` | less than a cycle per bit too fast, which is true of no smaller delay |
| `BusBoundExact` | `I2cRangeExact` | `max_rate_hz` is exactly the cutoff |
| `WidthsStable` | `WidthsRoundTrip` | a width survives its report in whole nanoseconds |

A reply depends on nothing before it, so the invariant needs no strengthening:
`Right` says that the reply is one of the possible ones, and each theorem follows
from a lemma on the arithmetic. Those lemmas rest on `DivBounds` and `DivAtLeast`
(what truncating division leaves), since the solver does not reason about products by
itself: one fact about `\div` per quotient, then monotonicity of products. The
exact cutoff needs that `512` is even, i.e. that halving a step of the divider is exact.

`StreamProofs`, from the same assumptions and `ReloadFirst`:

| Theorem | Property | In words |
|---|---|---|
| `FlowInvariance` | `IInv /\ FlowInv` | the next words of a run are where they should be |
| `LaunchesClean` | `CleanLaunch` | a run starts with its own words in the FIFO and no others |
| `StreamImplemented` | `StreamKept` | the engine implements `Stream` |

`IInv` is about control and knows nothing of which words move. `FlowInv` adds where
each is: the word due on the pins is at the head of the FIFO and those behind it
follow in turn (`OrderInv`); the data channel goes on after the last of them, with a
transfer count that closes the loop, and a reload is pending exactly where a turn
ends (`FollowInv`); a one-shot has no turn and ends at `wordLen` (`OneShotInv`).
"In turn" is a remainder, so the proof rests on what `%` does one step and one round
further on (`NextRemainder`, `SameRemainder`). `ReloadFirst` enters in one place:
`DataTransfer` is not taken while a reload is pending. Without it `FollowInv` is not
inductive and the theorem is false, as the run `bus_reload` and the paragraph on
`ReloadFirst` above tell. It is a constant, so the theorems are about the instances
in which it is TRUE; the run `bus` has it so too.

`ProtoProofs`, from `ProtoAssumption`, for bytes of any width, payloads and FIFOs of
any size and any batch of commands:

| Theorem | Property | In words |
|---|---|---|
| `ProtoInvariance` | `ProtoInv` | modes, machines and lines go together |
| `TypesCorrect` | `TypeOK` | FIFOs within their depth, the cursor within the payload |
| `LinesIdle` | `IdleLevels` | a line nothing drives is at the level of its protocol |
| `StatusTellsPins` | `StatusAgreesWithPins` | `status` agrees with chip select |

`ModeInv` says which machine runs in which mode, and that chip select is low exactly
while `active` is `"Spi"`, also between the writes of `stop`. `LineInv` is why
cutting a frame is harmless: a machine that does not run has had its lines put back.
`WireInv` looks ahead: the last two writes of an I2C frame let go of both lines, so
the frame need not be known to know how it ends.

`FramesProofs`, from the same assumptions:

| Theorem | Property | In words |
|---|---|---|
| `FrameInvariance` | `ProtoInv /\ FrameInv` | every byte of the transfer is accounted for |
| `FramesImplemented` | `FramesKept` | the generators implement `Frames` |

`FrameInv` places every byte: those heard are a beginning of the transfer's, then
comes the one being shifted, split between the shift register, the line and the
decoder (`ubits \o rx.bits`, or for SPI `rx.bits`, `mosi` and `sbits`), then those in
the FIFO, then those from the cursor on (`UartInv`, `SpiInv`). Its last conjunct for
SPI is the argument of `proto.rs:339-346`: where `service` may look at the sticky
stall flag with nothing written since it was cleared, the flag means that the machine
has drained, and with the payload queued, that the frame is over. For I2C, `Somewhere`
names which write of which bit of which byte comes next and what the decoder has at
that point; the writes of a whole frame are a concatenation of as many pieces as it
has bits, so that part needs induction (below).

`ConsoleProofs`, from `ConsoleAssumption`, for lines, packets and serial buffers of any
size and a host that sends, reads and leaves at will:

| Theorem | Property | In words |
|---|---|---|
| `ConsoleInvariance` | `ConsoleInv` | the four parts below |
| `ConsoleTypes` | `TypeOK` | no line outgrows its buffer, no output the port |
| `LinesExecuted` | `ExecutedAsTyped` | a line is executed as typed, refused whole, or ignored |
| `RepliesInOrder` | `PiecesInOrder` | no byte of the output twice or out of its place |
| `RepliesWhole` | `WholeUnlessGivenUp` | output is missing only where `write_all` gave up |

`EditInv` compares the buffer with `Edited`, which goes over all the bytes typed from
the first: until the line is too long they have the same text, and after that the
buffer does not matter. `OrderInv` says of a `write_all` under way that the byte it
writes next follows the last one taken, or is the first of a later piece;
`WholeInv` says in addition, unless something was given up, that the piece before was
taken whole. All three have to speak of every `pc`, since what makes them true is
what the loop does in which order.

`SynthProofs`, from `TimingAssumption`, `ParseAssumption`, `PatternsAssumption` and
`SynthAssumption` (an even buffer that is not empty, a clock of at most a tick per
picosecond, a bus of at least one channel, lines that are lists of tokens, suffixes
that are powers of ten, integers at least a byte wide), for every line, width, length,
rate and repetition:

| Theorem | Property | In words |
|---|---|---|
| `SynthInvariance` | `SynthInv` | the next seven, together, and that what is loaded is what was accepted |
| `SynthTypeOK` | `TypeOK` | whole words within the buffer; what is played stays on the bus |
| `SynthPaddingSuffices` | `PaddingSuffices` | what is built is never refused when loaded |
| `SynthPadAddsNoEdge` | `PadAddsNoEdge` | padded, a pattern goes through the same levels |
| `SynthShapeAsReported` | `ShapeAsReported` | bursts and pulses are what the reply states |
| `SynthGraySteps` | `GraySteps` | one channel at a time, wrap included, and every code |
| `SynthSweepDwell` | `SweepDwell` | each level of a sweep lasts its repetition |
| `SynthPlaysWhatWasAccepted` | `PlaysWhatWasAccepted` | no half-written pattern is ever played |
| `SynthNumbersAsWritten` | `NumbersAsWritten` | a number is what its digits are worth, or refused |
| `SynthFrequenciesAsWritten` | `FrequenciesAsWritten` | so is a frequency, suffix and fraction included |

`PlaysWhatWasAccepted` is not inductive: `play` takes what is loaded, so one has to
know of that, also while nothing is played, that it is what was accepted (`Accepted`),
and that a command which has written in the scratch buffer and is refused has left it
alone. The rest of `SynthInv` is little more than the invariants themselves, as a
command is one step;
what has to be proved is the arithmetic and the sequences under them. Numbers are
followed bit by bit from the lowest (`BitFacts`, `Doubled`): halving a number drops its
lowest bit, so an induction on the width shows that the codes of two neighbours differ
in one bit (`OneChange`), that the last code is one bit from the first (`LastCode`) and
that every set of channels is a code (`EveryCode`). `EntryFacts` and `EntryEnds` say
which sample the writer's entry `i` is, `NextEntry` what two neighbouring entries are
to each other, the pad included. `FlattenIs` unfolds the library's `FlattenSeq` so that
`LevelsPadded` can compare the levels with and without the last sample doubled. Of the
parsers the commands need that what is accepted fits the width, is a channel of the bus,
or a mask with a channel in it (`U32Type`, `ChannelType`, `MaskType`, `HzType`).

What the parsers compute is compared with `ByPosition`, which multiplies each digit by
the power of its place. It has tables of figures of its own (`Small`, `Capital`), so the
parser's table is compared with them too (`FigureTable`, `FigureOnce`, `DigitFigure`). `ByPositionAppend` (one more digit multiplies what is there by
the radix) makes one step of the code's loop one step of the reference (`TakesWorth`),
also where it has overflowed: a number that does not fit cannot fit again with more
digits. `U32Worth` follows by induction on the length. For frequencies, `Tenths` says
that a suffix is a whole number of the last digit's tenths exactly when the code's scale
has not reached zero (by `PowerSum`), `ExactSum` that whole and fraction then add up
without a remainder, and `LetterRefused` that a second suffix, on whichever side,
spoils the number it falls in. `FrequencyWorth` goes through the early returns of
`hz_arg` one by one: each refuses only what is too large or too fine.

`Parse` and `Patterns` take powers from `Powers`, a recursive function, since the
provers know nothing of `^`.

`DataInduction` is what the last four rest on where data is of any length. The
library's theorems on induction take an operator as a parameter, which the provers
here cannot instantiate; these take a set. `SetInduction` follows from the library's
`NatLessThanWellFounded`; `Recursion` (a function given by its value at zero and a step
exists) follows from it, and so do `RowExists` and `RowElements`, which say what stands
where in a concatenation of pieces of equal length. The models define by recursive
functions what is proved about (`Editing`, `WireBytes`), never by `RECURSIVE` operators.

## 6. What is only model-checked

Liveness, out of TLAPS's reach here: `StopReturns`, `WordsKeepComing`, `GapReported`,
`SpiFrameEnds`, `UartDelivered`, `ServiceRecurs`, `InputTaken`. Every other property of
a passing run is a theorem as well.

## 7. What is not modelled

- The width of the marker and its alignment with the data to the cycle. A gap is "the machine found its FIFO empty", not a number of nanoseconds.
- USB enumeration and the wording of replies. A reply that outgrows its buffer is cut silently (`console.rs:152-160`); none does.
- `help`, `id` and `pins`, which only write text, and the splitting of a line at spaces.
- `square` of `pattern.rs`, which only tests call.
- Start-up (clocks, pin functions, USB descriptors), board constants, host tools and build files: no behaviour of the running firmware.

## 8. Plan

Done: `PatternDma`, `Bus`, `Stream`, `BusProofs`; `Proto`, `Frames`; `Timing`,
`I2cTiming`, `Rates`, `RatesProofs`; `Parse`, `Patterns`, `Synth`; `Console`;
`StreamProofs`, `ProtoProofs`, `FramesProofs`, `ConsoleProofs`, `SynthProofs`,
`DataInduction`. To come, most important first:

1. A cycle-level model of the marker and the pattern program around `launch`
   (`bus.rs:474-535`).
