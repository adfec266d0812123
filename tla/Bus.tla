---------------------------------- MODULE Bus ----------------------------------
(***************************************************************************)
(* The 16-channel signal engine (src/src/bus.rs) under the commands that   *)
(* drive it (src/src/commands.rs) and the poll loop that runs both         *)
(* (src/src/main.rs), on top of the DMA feed of PatternDma.                *)
(*                                                                         *)
(* Four things move at once: the CPU (pc, one action per stretch of code   *)
(* whose inside no other part can see), the DMA driver's register accesses *)
(* (dpc), the two DMA channels, and state machine 0, which takes words     *)
(* from the TX FIFO and puts them on the pins.                             *)
(*                                                                         *)
(* Data is abstract: a word stands for its two packed samples, and the     *)
(* wave of toggle and the codes of count are one value each.               *)
(***************************************************************************)
EXTENDS PatternDma

CONSTANTS
    Low,           \* the word whose samples leave all 16 channels low
    Seed,          \* the word toggle and count read once: the mask, the first code
    Wave, Codes,   \* what the pins carry under toggle and under count
    Loads,         \* the lists of words that load and the synthesis commands
                   \* hand to load_pattern, too long ones and the empty one included
    PreloadWords,  \* PRELOAD_SAMPLES / 2
    Batch          \* bound: commands the host sends in one USB packet

ASSUME BusAssumption ==
    /\ Low \in Word /\ Seed \in Word
    /\ Wave \notin Word /\ Codes \notin Word
    /\ Loads \subseteq Seq(Word)
    /\ PreloadWords \in Nat /\ PreloadWords <= FifoDepth
    /\ Batch \in Nat

VARIABLES
    pc,        \* what the CPU is about to do
    req,       \* the command being dispatched
    preloaded, \* preloaded_all of play_pattern
    budget,    \* commands of the packet still to dispatch
    sm0, sm1,  \* Sm0State and Sm1State; the hardware runs iff "Running"
    prog,      \* the program state machine 0 was built with
    pulled,    \* the toggle or count program is past its `pull block`
    pins,      \* the word on the 16 channels
    marker,    \* the marker pin, and whether its program can still raise it
    txstall,   \* the sticky FDEBUG.TXSTALL bit of state machine 0
    mode, stalled, wordLen,  \* fields of Bus
    loops, due, begun,    \* history of the current run, for the properties
    starved, late, gap

cpuVars == <<pc, req, preloaded, budget>>
fields == <<mode, stalled, wordLen>>
smVars == <<sm0, sm1, prog, pulled, pins, marker, txstall>>
ports == <<words, fifo>>
history == <<loops, due, begun, starved, late, gap>>
vars == <<ports, dmaVars, cpuVars, fields, smVars, history>>

Programs == {"none", "toggle", "count", "pattern"}
Modes == {"Stopped", "Toggle", "Count", "PatternOnce", "PatternBurst", "PatternLoop"}
SmStates == {"Idle", "Swapping", "Running"}
DmaModes == {"PatternBurst", "PatternLoop"}  \* Mode::PatternDma { looping }
Ops == {"none", "stop", "toggle", "count", "load", "synth", "play"}
Pcs == {"poll", "ready", "stopping", "halt", "stopped", "feeding", "launch", "finish", "panic"}

Request(op, pattern, looping) == [op |-> op, pattern |-> pattern, looping |-> looping]
NoReq == Request("none", <<>>, FALSE)

(* The history of a run: whether it loops, the word of the pattern due on  *)
(* the pins and whether one has come out; starved says that the state      *)
(* machine found its FIFO empty, late that it did while a word was due,    *)
(* gap that it did so between two words: a sample was held too long.       *)
HistoryInit ==
    /\ loops = FALSE /\ due = 1 /\ begun = FALSE
    /\ starved = FALSE /\ late = FALSE /\ gap = FALSE

NewRun ==
    /\ loops' = req.looping /\ due' = 1 /\ begun' = FALSE
    /\ starved' = FALSE /\ late' = FALSE /\ gap' = FALSE

Init ==
    /\ words = [i \in 1 .. Capacity |-> Low]
    /\ fifo = <<>>
    /\ DmaInit
    /\ pc = "poll" /\ req = NoReq /\ preloaded = FALSE /\ budget = 0
    /\ sm0 = "Idle" /\ sm1 = "Idle" /\ prog = "none" /\ pulled = FALSE
    /\ pins = Low /\ marker = "low" /\ txstall = FALSE
    /\ mode = "Stopped" /\ stalled = FALSE /\ wordLen = 0
    /\ HistoryInit

-----------------------------------------------------------------------------
(* The state machines, external: what the loaded PIO programs do.          *)

(* `out pins, 16`, twice, for the next word of the FIFO. *)
OutWord ==
    /\ sm0 = "Running" /\ prog = "pattern"
    /\ fifo # <<>>
    /\ pins' = Head(fifo)
    /\ fifo' = Tail(fifo)
    /\ due' = IF loops /\ due = wordLen THEN 1 ELSE due + 1
    /\ begun' = TRUE
    /\ UNCHANGED <<loops, starved, late, gap, words, dmaVars, cpuVars, fields, sm0, sm1, prog, pulled,
                   marker, txstall>>

(* `pull block`, then the two-instruction loop that needs no FIFO. *)
PullSeed ==
    /\ sm0 = "Running" /\ prog \in {"toggle", "count"} /\ ~pulled
    /\ fifo # <<>>
    /\ pulled' = TRUE
    /\ fifo' = Tail(fifo)
    /\ pins' = IF prog = "toggle" THEN Wave ELSE Codes
    /\ UNCHANGED <<words, dmaVars, cpuVars, fields, sm0, sm1, prog, marker, txstall, history>>

WordDue == loops \/ due <= wordLen

(* Nothing to take: the state machine stalls and raises the sticky bit,    *)
(* again on every cycle it goes on stalling.                               *)
Starve ==
    /\ sm0 = "Running" /\ (prog = "pattern" \/ ~pulled)
    /\ fifo = <<>>
    /\ txstall' = TRUE
    /\ starved' = TRUE
    /\ late' = (late \/ WordDue)
    /\ gap' = (gap \/ (WordDue /\ begun))
    /\ UNCHANGED <<loops, due, begun, ports, dmaVars, cpuVars, fields, sm0, sm1, prog, pulled, pins, marker>>

(* The marker program raises its pin once, holds it, and blocks again. *)
MarkerStep ==
    /\ sm1 = "Running" /\ marker \in {"armed", "high"}
    /\ marker' = IF marker = "armed" THEN "high" ELSE "low"
    /\ UNCHANGED <<ports, dmaVars, cpuVars, fields, sm0, sm1, prog, pulled, pins, txstall, history>>

Hardware ==
    \/ OutWord \/ PullSeed \/ Starve \/ MarkerStep
    \/ DmaBlock /\ UNCHANGED <<cpuVars, fields, smVars, history>>

-----------------------------------------------------------------------------
(* The poll loop: service, then the commands of a packet if one came.      *)

(* Mutant of Sampling: bursts are left out. *)
SamplingLoopsOnly == mode = "PatternLoop" /\ sm0 = "Running"

Sampling == mode \in DmaModes /\ sm0 = "Running"

Service ==
    /\ pc = "poll"
    /\ pc' = "ready"
    /\ budget' \in 0 .. Batch
    /\ IF Sampling /\ txstall
       THEN stalled' = TRUE /\ txstall' = FALSE
       ELSE UNCHANGED <<stalled, txstall>>
    /\ UNCHANGED <<ports, dmaVars, req, preloaded, mode, wordLen, sm0, sm1, prog, pulled, pins, marker, history>>

EndPacket ==
    /\ pc = "ready" /\ budget = 0
    /\ pc' = "poll"
    /\ UNCHANGED <<ports, dmaVars, req, preloaded, budget, fields, smVars, history>>

(* A command that leaves the engine as it is: status, whose reply is mode, *)
(* wordLen, stalled and the data channel's BUSY as they stand, and one that is refused.  *)
Status ==
    /\ pc = "ready" /\ budget > 0
    /\ budget' = budget - 1
    /\ UNCHANGED <<ports, dmaVars, pc, req, preloaded, fields, smVars, history>>

(* Mutant of CallStop: the operation forgets to stop first. *)
CallStopSkipped == pc' = "stopped" /\ UNCHANGED dmaVars

(* Every operation of Bus stops the engine before anything else. *)
CallStop == pc' = "stopping" /\ EnterDma(StopJob)

Dispatch(op, pattern, looping) ==
    /\ pc = "ready" /\ budget > 0
    /\ budget' = budget - 1
    /\ req' = Request(op, pattern, looping)
    /\ CallStop
    /\ UNCHANGED <<ports, preloaded, fields, smVars, history>>

(* load_pattern's checks, which come before it stops anything. *)
Loadable(p) == p # <<>> /\ Len(p) <= Capacity

CmdStop == Dispatch("stop", <<>>, FALSE)
CmdToggle == Dispatch("toggle", <<>>, FALSE)
CmdCount == Dispatch("count", <<>>, FALSE)
CmdLoad == \E p \in Loads : Loadable(p) /\ Dispatch("load", p, FALSE)
CmdPlay == wordLen > 0 /\ \E looping \in BOOLEAN : Dispatch("play", <<>>, looping)

(* glitch and skew (one-shot), pulse and the sweeps (looping): load_pattern *)
(* and play_pattern within one command.                                     *)
CmdSynth ==
    \E p \in Loads, looping \in BOOLEAN : Loadable(p) /\ Dispatch("synth", p, looping)

-----------------------------------------------------------------------------
(* Bus::stop once the DMA is out of the way.                               *)

Return == pc' = "ready" /\ req' = NoReq /\ preloaded' = FALSE

DmaStopped ==
    /\ pc = "stopping" /\ dpc = "idle"
    /\ pc' = "halt"
    /\ UNCHANGED <<ports, dmaVars, req, preloaded, budget, fields, smVars, history>>

(* Mutant of HaltSm0: clear_fifos() is forgotten. *)
HaltSm0KeepsFifo ==
    IF sm0 = "Running"
    THEN sm0' = "Idle" /\ pins' = Low /\ prog' = "none" /\ UNCHANGED fifo
    ELSE UNCHANGED <<sm0, fifo, pins, prog>>

(* Both state machines stopped, emptied, driven low and given back. *)
HaltSm0 ==
    IF sm0 = "Running"
    THEN sm0' = "Idle" /\ fifo' = <<>> /\ pins' = Low /\ prog' = "none"
    ELSE UNCHANGED <<sm0, fifo, pins, prog>>

HaltSm1 ==
    IF sm1 = "Running"
    THEN sm1' = "Idle" /\ marker' = "low"
    ELSE UNCHANGED <<sm1, marker>>

Halt ==
    /\ pc = "halt"
    /\ IF "Swapping" \in {sm0, sm1}
       THEN pc' = "panic" /\ UNCHANGED <<fifo, sm0, sm1, prog, pins, marker, mode, stalled>>
       ELSE pc' = "stopped" /\ HaltSm0 /\ HaltSm1 /\ mode' = "Stopped" /\ stalled' = FALSE
    /\ UNCHANGED <<words, dmaVars, req, preloaded, budget, wordLen, pulled, txstall, history>>

EndStop ==
    /\ pc = "stopped" /\ req.op = "stop"
    /\ Return
    /\ UNCHANGED <<ports, dmaVars, budget, fields, smVars, history>>

(* load_pattern after its checks and its stop(): pack the samples.  The    *)
(* synthesis commands go on to play_pattern, which stops once more.        *)
WriteWords ==
    /\ pc = "stopped" /\ req.op \in {"load", "synth"}
    /\ words' = [i \in 1 .. Capacity |->
                   IF i <= Len(req.pattern) THEN req.pattern[i] ELSE words[i]]
    /\ wordLen' = Len(req.pattern)
    /\ IF req.op = "load"
       THEN Return /\ UNCHANGED dmaVars
       ELSE req' = Request("play", <<>>, req.looping) /\ UNCHANGED preloaded /\ CallStop
    /\ UNCHANGED <<fifo, budget, mode, stalled, smVars, history>>

-----------------------------------------------------------------------------
(* start_toggle, start_count and play_pattern after their stop().          *)

TakeSm0(go) ==
    IF sm0 = "Idle" THEN sm0' = "Swapping" /\ pc' = go ELSE pc' = "panic" /\ UNCHANGED sm0

BuildFree ==
    /\ pc = "stopped" /\ req.op \in {"toggle", "count"}
    /\ TakeSm0("launch")
    /\ prog' = req.op
    /\ pulled' = FALSE
    /\ fifo' = Append(fifo, Seed)
    /\ UNCHANGED <<words, dmaVars, req, preloaded, budget, fields, sm1, pins, marker, txstall, history>>

(* A one-shot short enough for the FIFO is written into it outright. *)
Preloadable == ~req.looping /\ wordLen <= PreloadWords
Fits == wordLen <= FifoDepth - Len(fifo)
Preloading == IF Fits THEN wordLen ELSE FifoDepth - Len(fifo)

(* Mutant of PreloadedAll: every one-shot is taken for a preloaded one. *)
PreloadedOneShot == ~req.looping

PreloadedAll == Preloadable /\ Fits

(* Mutant of ClearStalledFlag: the sticky bit is left as it is. *)
KeepStalledFlag == UNCHANGED txstall

ClearStalledFlag == txstall' = FALSE

BuildPattern ==
    /\ pc = "stopped" /\ req.op = "play"
    /\ TakeSm0(IF PreloadedAll THEN "launch" ELSE "feeding")
    /\ prog' = "pattern"
    /\ ClearStalledFlag
    /\ fifo' = IF Preloadable THEN fifo \o [i \in 1 .. Preloading |-> words[i]] ELSE fifo
    /\ preloaded' = PreloadedAll
    /\ IF PreloadedAll
       THEN UNCHANGED dmaVars
       ELSE EnterDma(StartJob(wordLen, req.looping))
    /\ UNCHANGED <<words, req, budget, fields, sm1, pulled, pins, marker, history>>

Fed ==
    /\ pc = "feeding" /\ dpc = "idle"
    /\ pc' = "launch"
    /\ UNCHANGED <<ports, dmaVars, req, preloaded, budget, fields, smVars, history>>

(* launch: both state machines start in the same cycle. *)
Launch ==
    /\ pc = "launch"
    /\ IF sm1 = "Idle"
       THEN pc' = "finish" /\ sm0' = "Running" /\ sm1' = "Running" /\ marker' = "armed"
       ELSE pc' = "panic" /\ UNCHANGED <<sm0, sm1, marker>>
    /\ NewRun
    /\ UNCHANGED <<ports, dmaVars, req, preloaded, budget, fields, prog, pulled, pins, txstall>>

PatternMode ==
    IF preloaded THEN "PatternOnce" ELSE IF req.looping THEN "PatternLoop" ELSE "PatternBurst"

RunMode ==
    IF req.op = "toggle" THEN "Toggle" ELSE IF req.op = "count" THEN "Count" ELSE PatternMode

Finish ==
    /\ pc = "finish"
    /\ mode' = RunMode
    /\ stalled' = IF req.op = "play" THEN FALSE ELSE stalled
    /\ Return
    /\ UNCHANGED <<ports, dmaVars, budget, wordLen, smVars, history>>

-----------------------------------------------------------------------------
Commands == CmdStop \/ CmdToggle \/ CmdCount \/ CmdLoad \/ CmdPlay \/ CmdSynth

Cpu ==
    \/ Service \/ EndPacket \/ Status \/ Commands
    \/ DmaStopped \/ Halt \/ EndStop \/ WriteWords
    \/ BuildFree \/ BuildPattern \/ Fed \/ Launch \/ Finish
    \/ Driver /\ UNCHANGED <<cpuVars, fields, smVars, history>>

Next == Cpu \/ Hardware

Spec == Init /\ [][Next]_vars

(* The CPU runs one thread that never sleeps, each channel and each state  *)
(* machine is clocked: whatever one of them can keep doing, it does.       *)
Fairness ==
    /\ WF_vars(Cpu)
    /\ WF_vars(DataTransfer /\ UNCHANGED <<cpuVars, fields, smVars, history>>)
    /\ WF_vars(ReloadTransfer /\ UNCHANGED <<cpuVars, fields, smVars, history>>)
    /\ WF_vars(AbortData /\ UNCHANGED <<cpuVars, fields, smVars, history>>)
    /\ WF_vars(AbortReload /\ UNCHANGED <<cpuVars, fields, smVars, history>>)
    /\ WF_vars(OutWord) /\ WF_vars(PullSeed) /\ WF_vars(Starve) /\ WF_vars(MarkerStep)

FairSpec == Spec /\ Fairness

-----------------------------------------------------------------------------
CpuTypeOK ==
    /\ pc \in Pcs
    /\ req \in [op : Ops, pattern : Seq(Word), looping : BOOLEAN]
    /\ preloaded \in BOOLEAN
    /\ budget \in 0 .. Batch

EngineTypeOK ==
    /\ sm0 \in SmStates /\ sm1 \in SmStates
    /\ prog \in Programs /\ pulled \in BOOLEAN
    /\ pins \in Word \cup {Wave, Codes}
    /\ marker \in {"low", "armed", "high"}
    /\ txstall \in BOOLEAN
    /\ mode \in Modes /\ stalled \in BOOLEAN /\ wordLen \in 0 .. Capacity

HistoryTypeOK ==
    /\ loops \in BOOLEAN /\ due \in Nat /\ begun \in BOOLEAN
    /\ starved \in BOOLEAN /\ late \in BOOLEAN /\ gap \in BOOLEAN

TypeOK == DmaTypeOK /\ CpuTypeOK /\ EngineTypeOK /\ HistoryTypeOK

(* Taking a state machine never finds it in use: no `unreachable!` of      *)
(* stop, take_sm0 or take_sm1 is reached (bus.rs:280, 526, 533).           *)
NeverPanics == pc # "panic"

(* While no pattern is streamed and no operation is under way, both        *)
(* channels are halted and disabled, whatever they were doing when the     *)
(* stop caught them (dma.rs:127).                                          *)
DmaQuiet == (pc \in {"poll", "ready"} /\ mode \notin DmaModes) => DmaIdle

(* The FIFO a state machine starts on holds nothing of an earlier run:     *)
(* only the new one's words, from its first one on (bus.rs:265-302).       *)
CleanLaunch ==
    (pc = "launch" /\ prog = "pattern") =>
        \A i \in 1 .. Len(fifo) : fifo[i] = words[((i - 1) % wordLen) + 1]

(* A stall is reported against the run it happened in: stalled is never    *)
(* left over, in the field or in the sticky bit, from an earlier run       *)
(* (bus.rs:397-401).                                                       *)
StallIsOfThisRun == stalled => starved

(* A stall report means that samples were lost: with txstall=yes the       *)
(* missing sample is this device's (README.md:134-136, bus.rs:397-400).    *)
StallMeansGap == stalled => late

(* A capture is never silently wrong: a status that is asked for when a    *)
(* gap has already happened says so (DESIGN.md:97).                        *)
StatusAdmitsGap == [][Status /\ gap => stalled]_vars

(* The reload channel runs when it is chained to, that is when the data    *)
(* channel has just finished its count (dma.rs:95).                        *)
ReloadOnlyWhenChained ==
    [][~busy[RELOAD] /\ busy'[RELOAD] => busy[DATA] /\ ~busy'[DATA]]_vars

(* What needs no refill cannot stall: toggle and count never starve, a     *)
(* preloaded one-shot never misses a word (bus.rs:377-380, 403-406).       *)
NoRefillNoGap ==
    /\ (sm0 = "Running" /\ prog \in {"toggle", "count"}) => ~starved
    /\ mode = "PatternOnce" => ~late

(* The buffer is written only when neither channel can be reading it and   *)
(* no state machine is playing it (bus.rs:121-124).                        *)
BufferWrittenAtRest ==
    [][words' # words => DmaIdle /\ sm0 = "Idle" /\ fifo = <<>>]_vars

(* What the pins carry is what Stream promises: every run plays the words  *)
(* loaded when it began, in order and complete so far, and the channels    *)
(* are low between runs.                                                   *)
Loaded == [i \in 1 .. wordLen |-> words[i]]
On == INSTANCE Stream WITH
    Free <- {Wave, Codes},
    source <- IF sm0 # "Running" THEN [kind |-> "silence", words |-> <<>>, looping |-> FALSE]
              ELSE IF prog = "pattern"
              THEN [kind |-> "pattern", words |-> Loaded, looping |-> loops]
              ELSE [kind |-> "signal", looping |-> FALSE,
                    words |-> <<IF prog = "toggle" THEN Wave ELSE Codes>>],
    due <- IF sm0 = "Running" THEN due ELSE 1,
    wire <- pins
StreamKept == On!Spec

(* stop() comes back, however the channels and the state machine race with *)
(* it (dma.rs:127-155).                                                    *)
StopReturns == (pc = "stopping") ~> (pc = "halt")

(* A word that is due comes out sooner or later: one-shot bursts complete  *)
(* and loops close, whether fed by the FIFO or by the channels             *)
(* (dma.rs:7-13).                                                          *)
Playing == sm0 = "Running" /\ prog = "pattern" /\ WordDue
WordsKeepComing == <>[]Playing => []<><<OutWord>>_vars

(* A gap in a streamed pattern is reported by the service of a later pass  *)
(* of the poll loop, unless the run ended first (bus.rs:446-459).          *)
GapReported ==
    (mode \in DmaModes /\ gap) ~> (stalled \/ mode \notin DmaModes)

=============================================================================
