------------------------------ MODULE PatternDma ------------------------------
(***************************************************************************)
(* The hardware-looped feed of the pattern engine (src/src/dma.rs): two    *)
(* DMA channels and the driver that starts and stops them.                 *)
(*                                                                         *)
(* The driver runs on the CPU one register access at a time (dpc is its    *)
(* program counter); the channels run on their own between any two of      *)
(* those accesses.  The data channel moves words from the pattern buffer   *)
(* into the TX FIFO while the FIFO has room, and when its count runs out   *)
(* triggers the channel it chains to.  The reload channel makes a single   *)
(* transfer: the buffer's start address into the data channel's            *)
(* READ_ADDR_TRIG, which rewinds and retriggers it.                        *)
(*                                                                         *)
(* What is external here is the DMA block itself: its rules are those the  *)
(* driver relies on in its comments, and those of the part's datasheet.    *)
(***************************************************************************)
EXTENDS Naturals, Sequences

CONSTANTS
    Word,         \* what a pattern word can be: two packed 16-bit samples
    Capacity,     \* words the pattern buffer holds (PATTERN_CAPACITY / 2)
    FifoDepth,    \* words the joined TX FIFO holds (8 on the part)
    ReloadFirst   \* TRUE: a triggered reload makes its one transfer before
                  \* the data channel moves another word

ASSUME DmaAssumption ==
    /\ Capacity \in Nat \ {0}
    /\ FifoDepth \in Nat \ {0}
    /\ ReloadFirst \in BOOLEAN

VARIABLES
    words,     \* PATTERN_WORDS, the buffer the data channel reads
    fifo,      \* the state machine's TX FIFO
    en, chain, busy,  \* CTRL of each channel: EN, CHAIN_TO, BUSY
    rd,        \* the data channel's READ_ADDR: a word of the buffer, from 1
    left,      \* its TRANS_COUNT: transfers still to make
    count,     \* the value a trigger restores TRANS_COUNT to
    aborting,  \* the bits set in CHAN_ABORT
    dpc,       \* the driver's program counter, "idle" outside its calls
    job        \* the driver call in progress

channels == <<en, chain, busy, rd, left, count, aborting>>
dmaVars == <<channels, dpc, job>>

DATA == "DATA"      \* DATA_CH, channel 0
RELOAD == "RELOAD"  \* RELOAD_CH, channel 1
Channels == {DATA, RELOAD}

NoJob == [op |-> "none", len |-> 0, looping |-> FALSE]

(* CTRL resets to zero: disabled, and chained to channel 0.                *)
DmaInit ==
    /\ en = [c \in Channels |-> FALSE]
    /\ chain = [c \in Channels |-> DATA]
    /\ busy = [c \in Channels |-> FALSE]
    /\ rd = 1 /\ left = 0 /\ count = 0
    /\ aborting = {}
    /\ dpc = "idle"
    /\ job = NoJob

-----------------------------------------------------------------------------
(* The DMA block.  A channel that is disabled or running ignores a         *)
(* trigger.                                                                *)

Triggered(c) == en[c] /\ ~busy[c]

(* A bit of each channel. *)
Bits(d, r) == [c \in Channels |-> IF c = DATA THEN d ELSE r]

LastTransfer == left = 1
Rechained == chain[DATA] = RELOAD /\ Triggered(RELOAD)

(* Mutant of Paced: TREQ_SEL is left permanent, so nothing paces it. *)
Unpaced == TRUE

Paced == Len(fifo) < FifoDepth

(* One word into the FIFO, paced by the state machine's DREQ; the last one *)
(* triggers the channel chained to.                                        *)
DataTransfer ==
    /\ busy[DATA]
    /\ Paced
    /\ ReloadFirst => ~busy[RELOAD]
    /\ fifo' = Append(fifo, words[rd])
    /\ rd' = rd + 1
    /\ left' = left - 1
    /\ busy' = Bits(~LastTransfer, busy[RELOAD] \/ (LastTransfer /\ Rechained))
    /\ UNCHANGED <<words, en, chain, count, aborting, dpc, job>>

(* The reload channel's one transfer, into the data channel's              *)
(* AL3_READ_ADDR_TRIG.  An aborted channel may still flush it.             *)
ReloadTransfer ==
    /\ busy[RELOAD]
    /\ rd' = 1
    /\ left' = IF Triggered(DATA) THEN count ELSE left
    /\ busy' = Bits(busy[DATA] \/ Triggered(DATA), FALSE)
    /\ UNCHANGED <<words, fifo, en, chain, count, aborting, dpc, job>>

(* An abort takes hold; a channel that still chains to another triggers it *)
(* on the way out (dma.rs:129-131).                                        *)
AbortData ==
    /\ DATA \in aborting
    /\ aborting' = aborting \ {DATA}
    /\ busy' = Bits(FALSE, busy[RELOAD] \/ Rechained)
    /\ UNCHANGED <<words, fifo, en, chain, rd, left, count, dpc, job>>

AbortReload ==
    /\ RELOAD \in aborting
    /\ aborting' = aborting \ {RELOAD}
    /\ LET chained == chain[RELOAD] = DATA /\ Triggered(DATA)
       IN  /\ busy' = Bits(busy[DATA] \/ chained, FALSE)
           /\ left' = IF chained THEN count ELSE left
    /\ UNCHANGED <<words, fifo, en, chain, rd, count, dpc, job>>

DmaBlock == DataTransfer \/ ReloadTransfer \/ AbortData \/ AbortReload

-----------------------------------------------------------------------------
(* The driver.  A caller enters it with EnterDma and goes on when dpc is   *)
(* "idle" again; start() begins with a stop() of its own.                  *)

EnterDma(j) ==
    /\ dpc' = "chain_data"
    /\ job' = j
    /\ UNCHANGED channels

StopJob == [op |-> "stop", len |-> 0, looping |-> FALSE]
StartJob(n, looping) == [op |-> "start", len |-> n, looping |-> looping]

(* The driver goes from one register access to the next. *)
At(here, next) == dpc = here /\ dpc' = next /\ UNCHANGED <<words, fifo, job>>

(* Mutant of ChainData: the chain is left in place. *)
ChainDataKept == At("chain_data", "chain_reload") /\ UNCHANGED channels

ChainData ==
    /\ At("chain_data", "chain_reload")
    /\ chain' = [chain EXCEPT ![DATA] = DATA]
    /\ UNCHANGED <<en, busy, rd, left, count, aborting>>

ChainReload ==
    /\ At("chain_reload", "abort")
    /\ chain' = [chain EXCEPT ![RELOAD] = RELOAD]
    /\ UNCHANGED <<en, busy, rd, left, count, aborting>>

Abort ==
    /\ At("abort", "wait_abort")
    /\ aborting' = Channels
    /\ UNCHANGED <<en, chain, busy, rd, left, count>>

(* Mutant of WaitAbort: the abort bits are not polled. *)
WaitAbortSkipped == At("wait_abort", "wait_data") /\ UNCHANGED channels

WaitAbort ==
    /\ At("wait_abort", "wait_data")
    /\ aborting = {}
    /\ UNCHANGED channels

WaitData ==
    /\ At("wait_data", "clear_data")
    /\ ~busy[DATA]
    /\ UNCHANGED channels

ClearData ==
    /\ At("clear_data", "wait_reload")
    /\ en' = [en EXCEPT ![DATA] = FALSE]
    /\ chain' = [chain EXCEPT ![DATA] = DATA]
    /\ UNCHANGED <<busy, rd, left, count, aborting>>

WaitReload ==
    /\ At("wait_reload", "clear_reload")
    /\ ~busy[RELOAD]
    /\ UNCHANGED channels

(* Zero in CHAIN_TO names channel 0, the data channel, not the channel     *)
(* itself; disabled, the reload channel never acts on it.                  *)
ClearReload ==
    /\ At("clear_reload", IF job.op = "start" /\ job.len > 0 THEN "setup" ELSE "idle")
    /\ en' = [en EXCEPT ![RELOAD] = FALSE]
    /\ chain' = [chain EXCEPT ![RELOAD] = DATA]
    /\ UNCHANGED <<busy, rd, left, count, aborting>>

(* For a loop, the reload channel's configuration goes through CTRL_TRIG,  *)
(* which also starts it.                                                   *)
ArmReload ==
    IF job.looping
    THEN /\ en' = [en EXCEPT ![RELOAD] = TRUE]
         /\ chain' = [chain EXCEPT ![RELOAD] = RELOAD]
         /\ busy' = [busy EXCEPT ![RELOAD] = TRUE]
    ELSE UNCHANGED <<en, chain, busy>>

(* Mutant of TransCount: the count is one short. *)
TransCountShort == job.len - 1

TransCount == job.len

Setup ==
    /\ At("setup", "go")
    /\ rd' = 1
    /\ count' = TransCount
    /\ ArmReload
    /\ UNCHANGED <<left, aborting>>

(* Mutant of ChainTo: a loop is not chained to its reload channel. *)
ChainToSelf == DATA

ChainTo == IF job.looping THEN RELOAD ELSE DATA

Go ==
    /\ At("go", "idle")
    /\ en' = [en EXCEPT ![DATA] = TRUE]
    /\ chain' = [chain EXCEPT ![DATA] = ChainTo]
    /\ busy' = [busy EXCEPT ![DATA] = TRUE]
    /\ left' = count
    /\ UNCHANGED <<rd, count, aborting>>

Driver ==
    \/ ChainData \/ ChainReload \/ Abort \/ WaitAbort
    \/ WaitData \/ ClearData \/ WaitReload \/ ClearReload
    \/ Setup \/ Go

(* Both channels halted and disabled, with nothing left to abort.          *)
Quiet == \A c \in Channels : ~busy[c] /\ ~en[c]
DmaIdle == Quiet /\ aborting = {}

-----------------------------------------------------------------------------
DriverPcs == {"idle", "chain_data", "chain_reload", "abort", "wait_abort", "wait_data",
              "clear_data", "wait_reload", "clear_reload", "setup", "go"}

DmaTypeOK ==
    /\ words \in [1 .. Capacity -> Word]
    /\ fifo \in Seq(Word) /\ Len(fifo) <= FifoDepth
    /\ en \in [Channels -> BOOLEAN]
    /\ chain \in [Channels -> Channels]
    /\ busy \in [Channels -> BOOLEAN]
    /\ rd \in Nat /\ left \in Nat /\ count \in Nat
    /\ aborting \in SUBSET Channels
    /\ dpc \in DriverPcs
    /\ job \in [op : {"none", "stop", "start"}, len : Nat, looping : BOOLEAN]

=============================================================================
