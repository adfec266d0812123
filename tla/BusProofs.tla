------------------------------- MODULE BusProofs -------------------------------
(***************************************************************************)
(* Theorems about the signal engine, for every word set, buffer and FIFO   *)
(* size, set of patterns and packet size.                                  *)
(*                                                                         *)
(* The inductive invariant IInv follows the engine through one stop and    *)
(* one start: where each state machine may be at each pc (ControlInv),     *)
(* what the channels can still do at each dpc (StopInv), when they are     *)
(* quiet (QuietInv), that an enabled channel stays within the buffer       *)
(* (FeedInv), and what a run's history says of its flags (RunInv, FreeInv, *)
(* OnceInv).                                                               *)
(***************************************************************************)
EXTENDS Bus, SequenceTheorems, TLAPS

ControlInv ==
    /\ pc # "panic"
    /\ pc \in {"poll", "ready", "stopping", "halt"} => sm0 = sm1 /\ sm0 # "Swapping"
    /\ pc = "stopped" => sm0 = "Idle" /\ sm1 = "Idle"
    /\ pc \in {"feeding", "launch"} => sm0 = "Swapping" /\ sm1 = "Idle"
    /\ pc = "finish" => sm0 = "Running" /\ sm1 = "Running"
    /\ pc = "feeding" => req.op = "play" /\ ~preloaded
    /\ pc \in {"launch", "finish"} => req.op \in {"toggle", "count", "play"}
    /\ pc \in {"feeding", "launch", "finish"} =>
          prog = (IF req.op = "play" THEN "pattern" ELSE req.op)
    /\ req.op \in {"load", "synth"} => Loadable(req.pattern)
    /\ dpc # "idle" => pc \in {"stopping", "feeding"}
    /\ pc = "stopping" => job.op = "stop"
    /\ dpc \in {"setup", "go"} => pc = "feeding"
    /\ job.len <= Capacity

StopInv ==
    /\ aborting # {} => dpc = "wait_abort"
    /\ dpc \in {"chain_reload", "abort", "wait_abort", "wait_data", "clear_data",
                "wait_reload", "clear_reload"} => chain[DATA] = DATA
    /\ dpc \in {"abort", "wait_abort", "wait_data", "clear_data",
                "wait_reload", "clear_reload"} => chain[RELOAD] = RELOAD
    /\ dpc = "wait_abort" /\ RELOAD \notin aborting => ~busy[RELOAD]
    /\ dpc \in {"wait_data", "clear_data", "wait_reload", "clear_reload"} => ~busy[RELOAD]
    /\ dpc \in {"clear_data", "wait_reload", "clear_reload"} => ~busy[DATA]
    /\ dpc \in {"wait_reload", "clear_reload"} => ~en[DATA]
    /\ dpc = "setup" => Quiet /\ job.len > 0
    /\ dpc = "go" => /\ ~busy[DATA] /\ ~en[DATA]
                     /\ rd = 1 /\ count = job.len /\ job.len > 0

QuietInv ==
    /\ sm0 = "Idle" => Quiet /\ fifo = <<>>
    /\ pc \in {"halt", "stopped"} => Quiet
    /\ pc = "stopping" /\ dpc = "idle" => Quiet
    /\ pc \in {"poll", "ready", "stopping"} /\ mode \notin DmaModes => Quiet
    /\ pc = "feeding" /\ dpc \notin {"go", "idle"} => Quiet
    /\ pc \in {"launch", "finish"} /\ (req.op # "play" \/ preloaded) => Quiet

FeedInv ==
    /\ count <= Capacity /\ rd >= 1
    /\ en[DATA] => count >= 1
    /\ busy[DATA] => left >= 1 /\ rd + left <= count + 1

RunInv ==
    /\ mode # "Stopped" => sm0 = "Running" /\ pc \in {"poll", "ready", "stopping", "halt"}
    /\ mode \in {"PatternOnce", "PatternBurst", "PatternLoop"} => prog = "pattern"
    /\ pc \in {"stopped", "feeding", "launch", "finish"} => ~stalled
    /\ pc \in {"feeding", "launch"} /\ prog = "pattern" => ~txstall
    /\ sm0 = "Running" /\ prog = "pattern" /\ txstall => starved
    /\ stalled => starved

FreeInv ==
    /\ sm0 # "Idle" /\ prog \in {"toggle", "count"} => pulled \/ fifo # <<>>
    /\ sm0 = "Running" /\ prog \in {"toggle", "count"} => ~starved

OnceInv ==
    /\ pc = "launch" /\ req.op = "play" /\ preloaded => ~req.looping /\ Len(fifo) = wordLen
    /\ \/ mode = "PatternOnce"
       \/ pc = "finish" /\ req.op = "play" /\ preloaded
       => ~loops /\ due + Len(fifo) = wordLen + 1 /\ ~late

IInv ==
    /\ TypeOK /\ ControlInv /\ StopInv /\ QuietInv
    /\ FeedInv /\ RunInv /\ FreeInv /\ OnceInv

-----------------------------------------------------------------------------

(* What taking the first word out of a FIFO leaves. *)
LEMMA HeadAndTail ==
    ASSUME NEW S, NEW s \in Seq(S), s # <<>>
    PROVE  Head(s) \in S /\ Tail(s) \in Seq(S) /\ Len(Tail(s)) = Len(s) - 1 /\ Len(s) \in Nat
    BY HeadTailProperties, LenProperties

(* What one word more makes of a FIFO. *)
LEMMA Appended ==
    ASSUME NEW S, NEW s \in Seq(S), NEW e \in S
    PROVE  Append(s, e) \in Seq(S) /\ Len(Append(s, e)) = Len(s) + 1 /\ Append(s, e) # <<>> /\ Len(s) \in Nat
    OBVIOUS

(* The empty FIFO, and the empty pattern. *)
LEMMA EmptyFifo == ASSUME NEW S PROVE <<>> \in Seq(S) /\ Len(<<>>) = 0
    OBVIOUS

(* Every command that goes through begins with a stop of its own, and      *)
(* changes nothing else of the engine.                                     *)
LEMMA DispatchStops ==
    ASSUME NEW op, NEW p, NEW l, Dispatch(op, p, l)
    PROVE  /\ pc = "ready" /\ pc' = "stopping" /\ dpc' = "chain_data" /\ job' = StopJob
           /\ job'.op = "stop" /\ job'.len = 0
           /\ req'.op = op /\ req'.pattern = p
           /\ UNCHANGED <<ports, channels, preloaded, fields, smVars, history>>
    BY DEF Dispatch, CallStop, EnterDma, StopJob, Request

(* A function on 1 .. n is a sequence of n words. *)
LEMMA FunctionIsSeq == ASSUME NEW S, NEW n \in Nat, NEW f \in [1 .. n -> S] PROVE f \in Seq(S) /\ Len(f) = n
    OBVIOUS

(* A preload of n words of the buffer into an empty FIFO fills it with n   *)
(* words.                                                                  *)
LEMMA Preload ==
    ASSUME TypeOK, fifo = <<>>, NEW n \in 0 .. Capacity
    PROVE  /\ fifo \o [i \in 1 .. n |-> words[i]] \in Seq(Word)
           /\ Len(fifo \o [i \in 1 .. n |-> words[i]]) = n
<1>. DEFINE f == [i \in 1 .. n |-> words[i]]
<1>1. f \in Seq(Word) /\ Len(f) = n
  <2>1. n \in Nat /\ \A i \in 1 .. n : words[i] \in Word
    BY DmaAssumption DEF TypeOK, DmaTypeOK
  <2>2. f \in [1 .. n -> Word]
    BY <2>1
  <2> QED BY <2>1, <2>2, FunctionIsSeq
<1>2. <<>> \o f = f
    BY <1>1, ConcatEmptySeq
<1> QED BY <1>1, <1>2

(* Every step keeps every variable within its type, and the FIFO, the      *)
(* buffer and the pattern within their sizes.                              *)
LEMMA TypeOKStep == IInv /\ [Next]_vars => TypeOK'
<1>a. SUFFICES ASSUME IInv, [Next]_vars PROVE TypeOK'
    OBVIOUS
<1>b. TypeOK /\ ControlInv /\ StopInv /\ QuietInv /\ FeedInv /\ RunInv /\ FreeInv /\ OnceInv
    BY <1>a DEF IInv
<1> USE DEF vars, ports, dmaVars, cpuVars, fields, smVars, history, channels
<1>1. CASE OutWord
    <2>1. /\ Head(fifo) \in Word /\ Tail(fifo) \in Seq(Word)
          /\ Len(Tail(fifo)) = Len(fifo) - 1 /\ Len(fifo) \in Nat
        BY <1>b, <1>1, HeadAndTail DEF OutWord, TypeOK, DmaTypeOK
    <2>2. DmaTypeOK'
        BY <1>b, <1>1, <2>1, DmaAssumption DEF TypeOK, DmaTypeOK, OutWord
    <2>3. CpuTypeOK'
        BY <1>b, <1>1 DEF TypeOK, CpuTypeOK, Pcs, OutWord
    <2>4. EngineTypeOK'
        BY <1>b, <1>1, <2>1 DEF TypeOK, EngineTypeOK, OutWord
    <2>5. HistoryTypeOK'
        BY <1>b, <1>1 DEF TypeOK, HistoryTypeOK, OutWord
    <2> QED
        BY <2>2, <2>3, <2>4, <2>5 DEF TypeOK
<1>2. CASE PullSeed
    <2>1. /\ Head(fifo) \in Word /\ Tail(fifo) \in Seq(Word)
          /\ Len(Tail(fifo)) = Len(fifo) - 1 /\ Len(fifo) \in Nat
        BY <1>b, <1>2, HeadAndTail DEF PullSeed, TypeOK, DmaTypeOK
    <2>2. DmaTypeOK'
        BY <1>b, <1>2, <2>1, DmaAssumption DEF TypeOK, DmaTypeOK, PullSeed
    <2>3. CpuTypeOK'
        BY <1>b, <1>2 DEF TypeOK, CpuTypeOK, Pcs, PullSeed
    <2>4. EngineTypeOK'
        BY <1>b, <1>2, <2>1 DEF TypeOK, EngineTypeOK, PullSeed
    <2>5. HistoryTypeOK'
        BY <1>b, <1>2 DEF TypeOK, HistoryTypeOK, PullSeed
    <2> QED
        BY <2>2, <2>3, <2>4, <2>5 DEF TypeOK
<1>3. CASE Starve
    BY <1>b, <1>3 DEF TypeOK, DmaTypeOK, CpuTypeOK, EngineTypeOK, HistoryTypeOK, Starve
<1>4. CASE MarkerStep
    BY <1>b, <1>4 DEF TypeOK, DmaTypeOK, CpuTypeOK, EngineTypeOK, HistoryTypeOK, MarkerStep
<1>5. CASE DataTransfer /\ UNCHANGED <<cpuVars, fields, smVars, history>>
    <2>1. words[rd] \in Word
        BY <1>b, <1>5, DmaAssumption DEF DataTransfer, TypeOK, DmaTypeOK, FeedInv, DATA, Channels
    <2>2. /\ fifo' \in Seq(Word) /\ Len(fifo') = Len(fifo) + 1 /\ Len(fifo) \in Nat
        BY <1>b, <1>5, <2>1, Appended DEF DataTransfer, TypeOK, DmaTypeOK
    <2>3. left - 1 \in Nat
        BY <1>b, <1>5 DEF DataTransfer, TypeOK, DmaTypeOK, FeedInv, DATA, Channels
    <2>4. DmaTypeOK'
        BY <1>b, <1>5, <2>2, <2>3, DmaAssumption
        DEF TypeOK, DmaTypeOK, Channels, DATA, RELOAD, DataTransfer, Paced, LastTransfer,
            Rechained, Triggered, Bits
    <2>5. CpuTypeOK'
        BY <1>b, <1>5
        DEF TypeOK, CpuTypeOK, Pcs, DataTransfer, Paced, LastTransfer, Rechained, Triggered,
            Bits
    <2>6. EngineTypeOK'
        BY <1>b, <1>5
        DEF TypeOK, EngineTypeOK, DataTransfer, Paced, LastTransfer, Rechained, Triggered,
            Bits
    <2>7. HistoryTypeOK'
        BY <1>b, <1>5
        DEF TypeOK, HistoryTypeOK, DataTransfer, Paced, LastTransfer, Rechained, Triggered,
            Bits
    <2> QED
        BY <2>4, <2>5, <2>6, <2>7 DEF TypeOK
<1>6. CASE ReloadTransfer /\ UNCHANGED <<cpuVars, fields, smVars, history>>
    BY <1>b, <1>6
    DEF TypeOK, DmaTypeOK, CpuTypeOK, EngineTypeOK, HistoryTypeOK, Channels, DATA, RELOAD,
        DriverPcs, ReloadTransfer, Triggered, Bits
<1>7. CASE AbortData /\ UNCHANGED <<cpuVars, fields, smVars, history>>
    BY <1>b, <1>7
    DEF TypeOK, DmaTypeOK, CpuTypeOK, EngineTypeOK, HistoryTypeOK, Channels, DATA, RELOAD,
        DriverPcs, AbortData, Rechained, Triggered, Bits
<1>8. CASE AbortReload /\ UNCHANGED <<cpuVars, fields, smVars, history>>
    BY <1>b, <1>8
    DEF TypeOK, DmaTypeOK, CpuTypeOK, EngineTypeOK, HistoryTypeOK, Channels, DATA, RELOAD,
        DriverPcs, AbortReload, Triggered, Bits
<1>9. CASE Service
    <2>1. DmaTypeOK'
        BY <1>b, <1>9 DEF TypeOK, DmaTypeOK, Service, Sampling
    <2>2. CpuTypeOK'
        BY <1>b, <1>9, BusAssumption DEF TypeOK, CpuTypeOK, Pcs, Service, Sampling
    <2>3. EngineTypeOK'
        BY <1>b, <1>9 DEF TypeOK, EngineTypeOK, Service, Sampling
    <2>4. HistoryTypeOK'
        BY <1>b, <1>9 DEF TypeOK, HistoryTypeOK, Service, Sampling
    <2> QED
        BY <2>1, <2>2, <2>3, <2>4 DEF TypeOK
<1>10. CASE EndPacket
    BY <1>b, <1>10 DEF TypeOK, DmaTypeOK, CpuTypeOK, EngineTypeOK, HistoryTypeOK, Pcs, EndPacket
<1>11. CASE Status
    BY <1>b, <1>11, BusAssumption
    DEF TypeOK, DmaTypeOK, CpuTypeOK, EngineTypeOK, HistoryTypeOK, Status
<1>12. CASE CmdStop
    BY <1>b, <1>12, EmptyFifo, BusAssumption
    DEF TypeOK, DmaTypeOK, CpuTypeOK, EngineTypeOK, HistoryTypeOK, Pcs, Ops, DriverPcs, CmdStop,
        Dispatch, CallStop, EnterDma, StopJob, Request
<1>13. CASE CmdToggle
    BY <1>b, <1>13, EmptyFifo, BusAssumption
    DEF TypeOK, DmaTypeOK, CpuTypeOK, EngineTypeOK, HistoryTypeOK, Pcs, Ops, DriverPcs,
        CmdToggle, Dispatch, CallStop, EnterDma, StopJob, Request
<1>14. CASE CmdCount
    BY <1>b, <1>14, EmptyFifo, BusAssumption
    DEF TypeOK, DmaTypeOK, CpuTypeOK, EngineTypeOK, HistoryTypeOK, Pcs, Ops, DriverPcs,
        CmdCount, Dispatch, CallStop, EnterDma, StopJob, Request
<1>15. CASE CmdLoad
    BY <1>b, <1>15, BusAssumption
    DEF TypeOK, DmaTypeOK, CpuTypeOK, EngineTypeOK, HistoryTypeOK, Pcs, Ops, DriverPcs, CmdLoad,
        Dispatch, CallStop, EnterDma, StopJob, Request
<1>16. CASE CmdPlay
    BY <1>b, <1>16, EmptyFifo, BusAssumption
    DEF TypeOK, DmaTypeOK, CpuTypeOK, EngineTypeOK, HistoryTypeOK, Pcs, Ops, DriverPcs, CmdPlay,
        Dispatch, CallStop, EnterDma, StopJob, Request
<1>17. CASE CmdSynth
    BY <1>b, <1>17, BusAssumption
    DEF TypeOK, DmaTypeOK, CpuTypeOK, EngineTypeOK, HistoryTypeOK, Pcs, Ops, DriverPcs,
        CmdSynth, Dispatch, CallStop, EnterDma, StopJob, Request
<1>18. CASE DmaStopped
    BY <1>b, <1>18 DEF TypeOK, DmaTypeOK, CpuTypeOK, EngineTypeOK, HistoryTypeOK, Pcs, DmaStopped
<1>19. CASE Halt
    <2>1. (fifo' = fifo \/ fifo' = <<>>) /\ UNCHANGED <<words, dmaVars>>
        BY <1>19 DEF Halt, HaltSm0
    <2>2. fifo' \in Seq(Word) /\ Len(fifo') <= FifoDepth
        <3>1. CASE fifo' = fifo
            BY <1>b, <3>1 DEF TypeOK, DmaTypeOK
        <3>2. CASE fifo' = <<>>
            <4>1. fifo' \in Seq(Word) /\ Len(fifo') = 0
                BY <3>2, EmptyFifo, Zenon
            <4> QED BY <4>1, DmaAssumption
        <3> QED BY <2>1, <3>1, <3>2
    <2>3. /\ sm0' \in SmStates /\ sm1' \in SmStates /\ prog' \in Programs
          /\ pins' \in Word \cup {Wave, Codes} /\ marker' \in {"low", "armed", "high"}
        BY <1>b, <1>19, BusAssumption
        DEF Halt, HaltSm0, HaltSm1, TypeOK, EngineTypeOK, SmStates, Programs
    <2>4. mode' \in Modes /\ stalled' \in BOOLEAN /\ UNCHANGED <<wordLen, pulled, txstall>>
        BY <1>b, <1>19 DEF Halt, TypeOK, EngineTypeOK, Modes
    <2>5. DmaTypeOK'
        BY <1>b, <2>1, <2>2 DEF TypeOK, DmaTypeOK
    <2>6. CpuTypeOK'
        BY <1>b, <1>19 DEF TypeOK, CpuTypeOK, Pcs, Halt
    <2>7. EngineTypeOK'
        BY <2>3, <2>4, <1>b DEF TypeOK, EngineTypeOK
    <2>8. HistoryTypeOK'
        BY <1>b, <1>19 DEF TypeOK, HistoryTypeOK, Halt
    <2> QED
        BY <2>5, <2>6, <2>7, <2>8 DEF TypeOK
<1>20. CASE EndStop
    <2>1. DmaTypeOK'
        BY <1>b, <1>20 DEF TypeOK, DmaTypeOK, EndStop, Return, NoReq, Request
    <2>2. CpuTypeOK'
        BY <1>b, <1>20, EmptyFifo DEF TypeOK, CpuTypeOK, Pcs, Ops, EndStop, Return, NoReq, Request
    <2>3. EngineTypeOK'
        BY <1>b, <1>20 DEF TypeOK, EngineTypeOK, EndStop, Return, NoReq, Request
    <2>4. HistoryTypeOK'
        BY <1>b, <1>20 DEF TypeOK, HistoryTypeOK, EndStop, Return, NoReq, Request
    <2> QED
        BY <2>1, <2>2, <2>3, <2>4 DEF TypeOK
<1>21. CASE WriteWords
    <2>1. req.pattern \in Seq(Word) /\ Len(req.pattern) \in 0 .. Capacity
        BY <1>b, <1>21, DmaAssumption, LenProperties
        DEF WriteWords, TypeOK, CpuTypeOK, ControlInv, Loadable
    <2>2. \A i \in 1 .. Len(req.pattern) : req.pattern[i] \in Word
        BY <2>1, ElementOfSeq
    <2>3. words' \in [1 .. Capacity -> Word]
        BY <1>b, <1>21, <2>1, <2>2 DEF WriteWords, TypeOK, DmaTypeOK
    <2>4. DmaTypeOK'
        <3>1. CASE req.op = "load"
            BY <1>b, <1>21, <2>3, <3>1 DEF WriteWords, TypeOK, DmaTypeOK
        <3>2. CASE req.op = "synth"
            <4>1. dpc' = "chain_data" /\ job' = StopJob /\ UNCHANGED <<fifo, channels>>
                BY <1>21, <3>2 DEF WriteWords, CallStop, EnterDma
            <4> QED BY <1>b, <2>3, <4>1 DEF StopJob, TypeOK, DmaTypeOK, DriverPcs
        <3> QED BY <1>21, <3>1, <3>2 DEF WriteWords
    <2>5. CpuTypeOK'
        <3>1. CASE req.op = "load"
            <4>1. pc' = "ready" /\ req' = NoReq /\ preloaded' = FALSE /\ budget' = budget
                BY <1>21, <3>1 DEF WriteWords, Return
            <4> QED BY <1>b, <4>1, EmptyFifo DEF NoReq, Request, TypeOK, CpuTypeOK, Pcs, Ops
        <3>2. CASE req.op = "synth"
            <4>1. /\ pc' = "stopping" /\ req' = Request("play", <<>>, req.looping)
                  /\ UNCHANGED <<preloaded, budget>>
                BY <1>21, <3>2 DEF WriteWords, CallStop
            <4> QED BY <1>b, <4>1, EmptyFifo DEF Request, TypeOK, CpuTypeOK, Pcs, Ops
        <3> QED BY <1>21, <3>1, <3>2 DEF WriteWords
    <2>6. EngineTypeOK'
        BY <1>b, <1>21, <2>1 DEF TypeOK, EngineTypeOK, WriteWords
    <2>7. HistoryTypeOK'
        BY <1>b, <1>21 DEF TypeOK, HistoryTypeOK, WriteWords
    <2> QED
        BY <2>4, <2>5, <2>6, <2>7 DEF TypeOK
<1>22. CASE BuildFree
    <2>1. fifo = <<>>
        BY <1>b, <1>22 DEF BuildFree, ControlInv, QuietInv
    <2>2. fifo' \in Seq(Word) /\ Len(fifo') = 1
        BY <1>b, <1>22, <2>1, EmptyFifo, Appended, BusAssumption DEF BuildFree
    <2>3. DmaTypeOK'
        BY <1>b, <1>22, <2>2, DmaAssumption DEF TypeOK, DmaTypeOK, BuildFree, TakeSm0
    <2>4. CpuTypeOK'
        BY <1>b, <1>22 DEF TypeOK, CpuTypeOK, Pcs, BuildFree, TakeSm0
    <2>5. EngineTypeOK'
        BY <1>b, <1>22 DEF TypeOK, EngineTypeOK, Programs, Modes, SmStates, BuildFree, TakeSm0
    <2>6. HistoryTypeOK'
        BY <1>b, <1>22 DEF TypeOK, HistoryTypeOK, BuildFree, TakeSm0
    <2> QED
        BY <2>3, <2>4, <2>5, <2>6 DEF TypeOK
<1>23. CASE BuildPattern
    <2>1. fifo = <<>> /\ Len(fifo) = 0
        BY <1>b, <1>23, EmptyFifo DEF BuildPattern, ControlInv, QuietInv
    <2>2. Preloading \in 0 .. Capacity /\ Preloading <= FifoDepth
        BY <1>b, <2>1, DmaAssumption DEF Preloading, Fits, TypeOK, EngineTypeOK
    <2>3. fifo' \in Seq(Word) /\ Len(fifo') <= FifoDepth
        BY <1>b, <1>23, <2>1, <2>2, Preload DEF BuildPattern, TypeOK, DmaTypeOK
    <2>4. /\ UNCHANGED <<words, channels>> /\ dpc' \in {dpc, "chain_data"}
          /\ (job' = job \/ job' = StartJob(wordLen, req.looping))
        BY <1>23 DEF BuildPattern, EnterDma
    <2>5. DmaTypeOK'
        BY <1>b, <2>3, <2>4, DmaAssumption
        DEF TypeOK, DmaTypeOK, CpuTypeOK, EngineTypeOK, DriverPcs, StartJob
    <2>6. CpuTypeOK'
        BY <1>b, <1>23
        DEF TypeOK, CpuTypeOK, Pcs, BuildPattern, TakeSm0, Preloadable, Fits, Preloading,
            PreloadedAll, ClearStalledFlag, EnterDma, StartJob
    <2>7. EngineTypeOK'
        BY <1>b, <1>23
        DEF TypeOK, EngineTypeOK, Programs, Modes, SmStates, BuildPattern, TakeSm0,
            Preloadable, Fits, Preloading, PreloadedAll, ClearStalledFlag, EnterDma,
            StartJob
    <2>8. HistoryTypeOK'
        BY <1>b, <1>23
        DEF TypeOK, HistoryTypeOK, BuildPattern, TakeSm0, Preloadable, Fits, Preloading,
            PreloadedAll, ClearStalledFlag, EnterDma, StartJob
    <2> QED
        BY <2>5, <2>6, <2>7, <2>8 DEF TypeOK
<1>24. CASE Fed
    BY <1>b, <1>24 DEF TypeOK, DmaTypeOK, CpuTypeOK, EngineTypeOK, HistoryTypeOK, Pcs, Fed
<1>25. CASE Launch
    <2>1. DmaTypeOK'
        BY <1>b, <1>25 DEF TypeOK, DmaTypeOK, Launch, NewRun
    <2>2. CpuTypeOK'
        BY <1>b, <1>25 DEF TypeOK, CpuTypeOK, Pcs, Launch, NewRun
    <2>3. EngineTypeOK'
        BY <1>b, <1>25 DEF TypeOK, EngineTypeOK, Programs, Modes, SmStates, Launch, NewRun
    <2>4. HistoryTypeOK'
        BY <1>b, <1>25 DEF TypeOK, HistoryTypeOK, CpuTypeOK, Launch, NewRun
    <2> QED
        BY <2>1, <2>2, <2>3, <2>4 DEF TypeOK
<1>26. CASE Finish
    <2>1. DmaTypeOK'
        BY <1>b, <1>26 DEF TypeOK, DmaTypeOK, Finish, RunMode, PatternMode, Return, NoReq, Request
    <2>2. CpuTypeOK'
        BY <1>b, <1>26, EmptyFifo
        DEF TypeOK, CpuTypeOK, Pcs, Ops, Finish, RunMode, PatternMode, Return, NoReq,
            Request
    <2>3. EngineTypeOK'
        BY <1>b, <1>26
        DEF TypeOK, EngineTypeOK, Programs, Modes, SmStates, Finish, RunMode, PatternMode,
            Return, NoReq, Request
    <2>4. HistoryTypeOK'
        BY <1>b, <1>26
        DEF TypeOK, HistoryTypeOK, Finish, RunMode, PatternMode, Return, NoReq, Request
    <2> QED
        BY <2>1, <2>2, <2>3, <2>4 DEF TypeOK
<1>27. CASE ChainData /\ UNCHANGED <<cpuVars, fields, smVars, history>>
    BY <1>b, <1>27
    DEF TypeOK, DmaTypeOK, CpuTypeOK, EngineTypeOK, HistoryTypeOK, Channels, DATA, RELOAD,
        DriverPcs, ChainData, At, ArmReload, TransCount, ChainTo
<1>28. CASE ChainReload /\ UNCHANGED <<cpuVars, fields, smVars, history>>
    BY <1>b, <1>28
    DEF TypeOK, DmaTypeOK, CpuTypeOK, EngineTypeOK, HistoryTypeOK, Channels, DATA, RELOAD,
        DriverPcs, ChainReload, At, ArmReload, TransCount, ChainTo
<1>29. CASE Abort /\ UNCHANGED <<cpuVars, fields, smVars, history>>
    BY <1>b, <1>29
    DEF TypeOK, DmaTypeOK, CpuTypeOK, EngineTypeOK, HistoryTypeOK, DriverPcs, Abort, At
<1>30. CASE WaitAbort /\ UNCHANGED <<cpuVars, fields, smVars, history>>
    BY <1>b, <1>30
    DEF TypeOK, DmaTypeOK, CpuTypeOK, EngineTypeOK, HistoryTypeOK, DriverPcs, WaitAbort, At
<1>31. CASE WaitData /\ UNCHANGED <<cpuVars, fields, smVars, history>>
    BY <1>b, <1>31
    DEF TypeOK, DmaTypeOK, CpuTypeOK, EngineTypeOK, HistoryTypeOK, DriverPcs, WaitData, At
<1>32. CASE ClearData /\ UNCHANGED <<cpuVars, fields, smVars, history>>
    BY <1>b, <1>32
    DEF TypeOK, DmaTypeOK, CpuTypeOK, EngineTypeOK, HistoryTypeOK, Channels, DATA, RELOAD,
        DriverPcs, ClearData, At, ArmReload, TransCount, ChainTo
<1>33. CASE WaitReload /\ UNCHANGED <<cpuVars, fields, smVars, history>>
    BY <1>b, <1>33
    DEF TypeOK, DmaTypeOK, CpuTypeOK, EngineTypeOK, HistoryTypeOK, DriverPcs, WaitReload, At
<1>34. CASE ClearReload /\ UNCHANGED <<cpuVars, fields, smVars, history>>
    BY <1>b, <1>34
    DEF TypeOK, DmaTypeOK, CpuTypeOK, EngineTypeOK, HistoryTypeOK, Channels, DATA, RELOAD,
        DriverPcs, ClearReload, At, ArmReload, TransCount, ChainTo
<1>35. CASE Setup /\ UNCHANGED <<cpuVars, fields, smVars, history>>
    <2>1. /\ en' \in [Channels -> BOOLEAN] /\ chain' \in [Channels -> Channels]
          /\ busy' \in [Channels -> BOOLEAN]
        BY <1>b, <1>35 DEF TypeOK, DmaTypeOK, Channels, DATA, RELOAD, Setup, ArmReload
    <2>2. DmaTypeOK'
        BY <1>b, <1>35, <2>1 DEF TypeOK, DmaTypeOK, Setup, At, TransCount, DriverPcs
    <2>3. CpuTypeOK'
        BY <1>b, <1>35 DEF TypeOK, CpuTypeOK, Pcs, Setup, At, ArmReload, TransCount, ChainTo
    <2>4. EngineTypeOK'
        BY <1>b, <1>35 DEF TypeOK, EngineTypeOK, Setup, At, ArmReload, TransCount, ChainTo
    <2>5. HistoryTypeOK'
        BY <1>b, <1>35 DEF TypeOK, HistoryTypeOK, Setup, At, ArmReload, TransCount, ChainTo
    <2> QED
        BY <2>2, <2>3, <2>4, <2>5 DEF TypeOK
<1>36. CASE Go /\ UNCHANGED <<cpuVars, fields, smVars, history>>
    BY <1>b, <1>36
    DEF TypeOK, DmaTypeOK, CpuTypeOK, EngineTypeOK, HistoryTypeOK, Channels, DATA, RELOAD,
        DriverPcs, Go, At, ArmReload, TransCount, ChainTo
<1>37. CASE UNCHANGED vars
    BY <1>b, <1>37
    DEF TypeOK, DmaTypeOK, CpuTypeOK, EngineTypeOK, HistoryTypeOK, Channels, DATA, RELOAD,
        DriverPcs, Pcs, Programs, Modes, SmStates, Ops
<1> QED
    BY <1>a, <1>1, <1>2, <1>3, <1>4, <1>5, <1>6, <1>7, <1>8, <1>9, <1>10, <1>11, <1>12, <1>13,
        <1>14, <1>15, <1>16, <1>17, <1>18, <1>19, <1>20, <1>21, <1>22, <1>23, <1>24, <1>25,
        <1>26, <1>27, <1>28, <1>29, <1>30, <1>31, <1>32, <1>33, <1>34, <1>35, <1>36, <1>37
    DEF Next, Cpu, Commands, Hardware, DmaBlock, Driver

(* Every step keeps the state machines where the CPU's place in a command  *)
(* says they are.                                                          *)
LEMMA ControlInvStep == IInv /\ [Next]_vars => ControlInv'
<1>a. SUFFICES ASSUME IInv, [Next]_vars PROVE ControlInv'
    OBVIOUS
<1>b. TypeOK /\ ControlInv /\ StopInv /\ QuietInv /\ FeedInv /\ RunInv /\ FreeInv /\ OnceInv
    BY <1>a DEF IInv
<1> USE DEF vars, ports, dmaVars, cpuVars, fields, smVars, history, channels
<1>1. CASE OutWord
    BY <1>b, <1>1 DEF ControlInv, Loadable, OutWord
<1>2. CASE PullSeed
    BY <1>b, <1>2 DEF ControlInv, Loadable, PullSeed
<1>3. CASE Starve
    BY <1>b, <1>3 DEF ControlInv, Loadable, Starve
<1>4. CASE MarkerStep
    BY <1>b, <1>4 DEF ControlInv, Loadable, MarkerStep
<1>5. CASE DataTransfer /\ UNCHANGED <<cpuVars, fields, smVars, history>>
    BY <1>b, <1>5 DEF ControlInv, Loadable, DataTransfer
<1>6. CASE ReloadTransfer /\ UNCHANGED <<cpuVars, fields, smVars, history>>
    BY <1>b, <1>6 DEF ControlInv, Loadable, ReloadTransfer
<1>7. CASE AbortData /\ UNCHANGED <<cpuVars, fields, smVars, history>>
    BY <1>b, <1>7 DEF ControlInv, Loadable, AbortData
<1>8. CASE AbortReload /\ UNCHANGED <<cpuVars, fields, smVars, history>>
    BY <1>b, <1>8 DEF ControlInv, Loadable, AbortReload
<1>9. CASE Service
    BY <1>b, <1>9 DEF ControlInv, Loadable, Service
<1>10. CASE EndPacket
    BY <1>b, <1>10 DEF ControlInv, Loadable, EndPacket
<1>11. CASE Status
    BY <1>b, <1>11 DEF ControlInv, Loadable, Status
<1>12. CASE CmdStop
    <2>1. /\ pc = "ready" /\ pc' = "stopping" /\ dpc' = "chain_data"
          /\ job'.op = "stop" /\ job'.len = 0
          /\ req'.op \in {"load", "synth"} => Loadable(req'.pattern)
          /\ UNCHANGED <<sm0, sm1, prog>>
        BY <1>12, DispatchStops DEF CmdStop
    <2> QED
        BY <1>b, <2>1, DmaAssumption DEF ControlInv
<1>13. CASE CmdToggle
    <2>1. /\ pc = "ready" /\ pc' = "stopping" /\ dpc' = "chain_data"
          /\ job'.op = "stop" /\ job'.len = 0
          /\ req'.op \in {"load", "synth"} => Loadable(req'.pattern)
          /\ UNCHANGED <<sm0, sm1, prog>>
        BY <1>13, DispatchStops DEF CmdToggle
    <2> QED
        BY <1>b, <2>1, DmaAssumption DEF ControlInv
<1>14. CASE CmdCount
    <2>1. /\ pc = "ready" /\ pc' = "stopping" /\ dpc' = "chain_data"
          /\ job'.op = "stop" /\ job'.len = 0
          /\ req'.op \in {"load", "synth"} => Loadable(req'.pattern)
          /\ UNCHANGED <<sm0, sm1, prog>>
        BY <1>14, DispatchStops DEF CmdCount
    <2> QED
        BY <1>b, <2>1, DmaAssumption DEF ControlInv
<1>15. CASE CmdLoad
    <2>1. /\ pc = "ready" /\ pc' = "stopping" /\ dpc' = "chain_data"
          /\ job'.op = "stop" /\ job'.len = 0
          /\ req'.op \in {"load", "synth"} => Loadable(req'.pattern)
          /\ UNCHANGED <<sm0, sm1, prog>>
        BY <1>15, DispatchStops
            DEF CmdLoad, Loadable
    <2> QED
        BY <1>b, <2>1, DmaAssumption DEF ControlInv
<1>16. CASE CmdPlay
    <2>1. /\ pc = "ready" /\ pc' = "stopping" /\ dpc' = "chain_data"
          /\ job'.op = "stop" /\ job'.len = 0
          /\ req'.op \in {"load", "synth"} => Loadable(req'.pattern)
          /\ UNCHANGED <<sm0, sm1, prog>>
        BY <1>16, DispatchStops DEF CmdPlay
    <2> QED
        BY <1>b, <2>1, DmaAssumption DEF ControlInv
<1>17. CASE CmdSynth
    <2>1. /\ pc = "ready" /\ pc' = "stopping" /\ dpc' = "chain_data"
          /\ job'.op = "stop" /\ job'.len = 0
          /\ req'.op \in {"load", "synth"} => Loadable(req'.pattern)
          /\ UNCHANGED <<sm0, sm1, prog>>
        BY <1>17, DispatchStops
            DEF CmdSynth, Loadable
    <2> QED
        BY <1>b, <2>1, DmaAssumption DEF ControlInv
<1>18. CASE DmaStopped
    BY <1>b, <1>18 DEF ControlInv, Loadable, DmaStopped
<1>19. CASE Halt
    BY <1>b, <1>19
    DEF TypeOK, DmaTypeOK, CpuTypeOK, EngineTypeOK, HistoryTypeOK, Channels, DATA, RELOAD,
        DriverPcs, Pcs, Programs, Modes, SmStates, Ops, ControlInv, Loadable, Halt, HaltSm0,
        HaltSm1
<1>20. CASE EndStop
    BY <1>b, <1>20 DEF ControlInv, Loadable, EndStop, Return, NoReq, Request
<1>21. CASE WriteWords
    <2>1. /\ pc' \in {"ready", "stopping"} /\ req'.op \in {"none", "play"}
          /\ (pc' = "ready" /\ dpc' = dpc /\ job' = job)
             \/ (pc' = "stopping" /\ dpc' = "chain_data" /\ job' = StopJob)
          /\ UNCHANGED <<sm0, sm1, prog>>
        BY <1>21 DEF WriteWords, Return, NoReq, Request, CallStop, EnterDma
    <2> QED
        BY <1>b, <1>21, <2>1, DmaAssumption DEF WriteWords, ControlInv, StopJob
<1>22. CASE BuildFree
    BY <1>b, <1>22 DEF ControlInv, Loadable, BuildFree, TakeSm0
<1>23. CASE BuildPattern
    <2>1. /\ pc = "stopped" /\ req.op = "play" /\ UNCHANGED <<req, sm1>>
          /\ sm0' = "Swapping" /\ prog' = "pattern"
          /\ \/ pc' = "launch" /\ UNCHANGED <<dpc, job>>
             \/ pc' = "feeding" /\ ~preloaded' /\ dpc' = "chain_data" /\ job' = StartJob(wordLen, req.looping)
        BY <1>b, <1>23 DEF BuildPattern, TakeSm0, EnterDma, ControlInv
    <2> QED
        BY <1>b, <2>1 DEF ControlInv, StartJob, TypeOK, EngineTypeOK
<1>24. CASE Fed
    BY <1>b, <1>24 DEF ControlInv, Loadable, Fed
<1>25. CASE Launch
    BY <1>b, <1>25 DEF ControlInv, Loadable, Launch
<1>26. CASE Finish
    BY <1>b, <1>26 DEF ControlInv, Loadable, Finish, RunMode, PatternMode, Return, NoReq, Request
<1>27. CASE ChainData /\ UNCHANGED <<cpuVars, fields, smVars, history>>
    BY <1>b, <1>27 DEF ControlInv, Loadable, ChainData, At
<1>28. CASE ChainReload /\ UNCHANGED <<cpuVars, fields, smVars, history>>
    BY <1>b, <1>28 DEF ControlInv, Loadable, ChainReload, At
<1>29. CASE Abort /\ UNCHANGED <<cpuVars, fields, smVars, history>>
    BY <1>b, <1>29 DEF ControlInv, Loadable, Abort, At
<1>30. CASE WaitAbort /\ UNCHANGED <<cpuVars, fields, smVars, history>>
    BY <1>b, <1>30 DEF ControlInv, Loadable, WaitAbort, At
<1>31. CASE WaitData /\ UNCHANGED <<cpuVars, fields, smVars, history>>
    BY <1>b, <1>31 DEF ControlInv, Loadable, WaitData, At
<1>32. CASE ClearData /\ UNCHANGED <<cpuVars, fields, smVars, history>>
    BY <1>b, <1>32 DEF ControlInv, Loadable, ClearData, At
<1>33. CASE WaitReload /\ UNCHANGED <<cpuVars, fields, smVars, history>>
    BY <1>b, <1>33 DEF ControlInv, Loadable, WaitReload, At
<1>34. CASE ClearReload /\ UNCHANGED <<cpuVars, fields, smVars, history>>
    BY <1>b, <1>34 DEF ControlInv, Loadable, ClearReload, At
<1>35. CASE Setup /\ UNCHANGED <<cpuVars, fields, smVars, history>>
    BY <1>b, <1>35 DEF ControlInv, Loadable, Setup, At
<1>36. CASE Go /\ UNCHANGED <<cpuVars, fields, smVars, history>>
    BY <1>b, <1>36 DEF ControlInv, Loadable, Go, At
<1>37. CASE UNCHANGED vars
    BY <1>b, <1>37 DEF ControlInv, Loadable
<1> QED
    BY <1>a, <1>1, <1>2, <1>3, <1>4, <1>5, <1>6, <1>7, <1>8, <1>9, <1>10, <1>11, <1>12, <1>13,
        <1>14, <1>15, <1>16, <1>17, <1>18, <1>19, <1>20, <1>21, <1>22, <1>23, <1>24, <1>25,
        <1>26, <1>27, <1>28, <1>29, <1>30, <1>31, <1>32, <1>33, <1>34, <1>35, <1>36, <1>37
    DEF Next, Cpu, Commands, Hardware, DmaBlock, Driver

(* Every step of a stop that races with the channels leaves them no way    *)
(* to restart (dma.rs:127-155).                                            *)
LEMMA StopInvStep == IInv /\ [Next]_vars => StopInv'
<1>a. SUFFICES ASSUME IInv, [Next]_vars PROVE StopInv'
    OBVIOUS
<1>b. TypeOK /\ ControlInv /\ StopInv /\ QuietInv /\ FeedInv /\ RunInv /\ FreeInv /\ OnceInv
    BY <1>a DEF IInv
<1> USE DEF vars, ports, dmaVars, cpuVars, fields, smVars, history, channels
<1>1. CASE OutWord
    BY <1>b, <1>1 DEF StopInv, Quiet, OutWord
<1>2. CASE PullSeed
    BY <1>b, <1>2 DEF StopInv, Quiet, PullSeed
<1>3. CASE Starve
    BY <1>b, <1>3 DEF StopInv, Quiet, Starve
<1>4. CASE MarkerStep
    BY <1>b, <1>4 DEF StopInv, Quiet, MarkerStep
<1>5. CASE DataTransfer /\ UNCHANGED <<cpuVars, fields, smVars, history>>
    BY <1>b, <1>5
    DEF StopInv, Quiet, Channels, TypeOK, DmaTypeOK, DataTransfer, Paced, LastTransfer,
        Rechained, Triggered, Bits
<1>6. CASE ReloadTransfer /\ UNCHANGED <<cpuVars, fields, smVars, history>>
    BY <1>b, <1>6 DEF StopInv, Quiet, Channels, TypeOK, DmaTypeOK, ReloadTransfer, Triggered, Bits
<1>7. CASE AbortData /\ UNCHANGED <<cpuVars, fields, smVars, history>>
    BY <1>b, <1>7
    DEF StopInv, Quiet, Channels, TypeOK, DmaTypeOK, AbortData, Rechained, Triggered, Bits
<1>8. CASE AbortReload /\ UNCHANGED <<cpuVars, fields, smVars, history>>
    BY <1>b, <1>8
    DEF StopInv, Quiet, Channels, DATA, RELOAD, TypeOK, DmaTypeOK, AbortReload, Triggered, Bits
<1>9. CASE Service
    BY <1>b, <1>9 DEF StopInv, Quiet, Service
<1>10. CASE EndPacket
    BY <1>b, <1>10 DEF StopInv, Quiet, EndPacket
<1>11. CASE Status
    BY <1>b, <1>11 DEF StopInv, Quiet, Status
<1>12. CASE CmdStop
    BY <1>b, <1>12, DmaAssumption
    DEF StopInv, Quiet, ControlInv, CmdStop, Dispatch, CallStop, EnterDma, StopJob, Request
<1>13. CASE CmdToggle
    BY <1>b, <1>13, DmaAssumption
    DEF StopInv, Quiet, ControlInv, CmdToggle, Dispatch, CallStop, EnterDma, StopJob, Request
<1>14. CASE CmdCount
    BY <1>b, <1>14, DmaAssumption
    DEF StopInv, Quiet, ControlInv, CmdCount, Dispatch, CallStop, EnterDma, StopJob, Request
<1>15. CASE CmdLoad
    BY <1>b, <1>15, DmaAssumption
    DEF StopInv, Quiet, ControlInv, CmdLoad, Dispatch, CallStop, EnterDma, StopJob, Request
<1>16. CASE CmdPlay
    BY <1>b, <1>16, DmaAssumption
    DEF StopInv, Quiet, ControlInv, CmdPlay, Dispatch, CallStop, EnterDma, StopJob, Request
<1>17. CASE CmdSynth
    BY <1>b, <1>17, DmaAssumption
    DEF StopInv, Quiet, ControlInv, CmdSynth, Dispatch, CallStop, EnterDma, StopJob, Request
<1>18. CASE DmaStopped
    BY <1>b, <1>18 DEF StopInv, Quiet, DmaStopped
<1>19. CASE Halt
    BY <1>b, <1>19 DEF StopInv, Quiet, Halt
<1>20. CASE EndStop
    BY <1>b, <1>20 DEF StopInv, Quiet, EndStop
<1>21. CASE WriteWords
    BY <1>b, <1>21, DmaAssumption
    DEF StopInv, Quiet, ControlInv, WriteWords, Return, NoReq, Request, CallStop, EnterDma,
        StopJob
<1>22. CASE BuildFree
    BY <1>b, <1>22 DEF StopInv, Quiet, BuildFree
<1>23. CASE BuildPattern
    BY <1>b, <1>23, DmaAssumption
    DEF StopInv, Quiet, ControlInv, BuildPattern, TakeSm0, Preloadable, Fits, Preloading,
        PreloadedAll, ClearStalledFlag, EnterDma, StartJob
<1>24. CASE Fed
    BY <1>b, <1>24 DEF StopInv, Quiet, Fed
<1>25. CASE Launch
    BY <1>b, <1>25 DEF StopInv, Quiet, Launch
<1>26. CASE Finish
    BY <1>b, <1>26 DEF StopInv, Quiet, Finish
<1>27. CASE ChainData /\ UNCHANGED <<cpuVars, fields, smVars, history>>
    BY <1>b, <1>27
    DEF StopInv, Quiet, Channels, TypeOK, DmaTypeOK, ChainData, At, ArmReload, TransCount,
        ChainTo
<1>28. CASE ChainReload /\ UNCHANGED <<cpuVars, fields, smVars, history>>
    BY <1>b, <1>28
    DEF StopInv, Quiet, Channels, TypeOK, DmaTypeOK, ChainReload, At, ArmReload, TransCount,
        ChainTo
<1>29. CASE Abort /\ UNCHANGED <<cpuVars, fields, smVars, history>>
    BY <1>b, <1>29
    DEF StopInv, Quiet, Channels, TypeOK, DmaTypeOK, Abort, At, ArmReload, TransCount, ChainTo
<1>30. CASE WaitAbort /\ UNCHANGED <<cpuVars, fields, smVars, history>>
    BY <1>b, <1>30 DEF StopInv, Quiet, WaitAbort, At
<1>31. CASE WaitData /\ UNCHANGED <<cpuVars, fields, smVars, history>>
    BY <1>b, <1>31 DEF StopInv, Quiet, WaitData, At
<1>32. CASE ClearData /\ UNCHANGED <<cpuVars, fields, smVars, history>>
    BY <1>b, <1>32
    DEF StopInv, Quiet, Channels, TypeOK, DmaTypeOK, ClearData, At, ArmReload, TransCount,
        ChainTo
<1>33. CASE WaitReload /\ UNCHANGED <<cpuVars, fields, smVars, history>>
    BY <1>b, <1>33 DEF StopInv, Quiet, WaitReload, At
<1>34. CASE ClearReload /\ UNCHANGED <<cpuVars, fields, smVars, history>>
    BY <1>b, <1>34
    DEF StopInv, Quiet, Channels, TypeOK, DmaTypeOK, ClearReload, At, ArmReload, TransCount,
        ChainTo
<1>35. CASE Setup /\ UNCHANGED <<cpuVars, fields, smVars, history>>
    BY <1>b, <1>35
    DEF StopInv, Quiet, Channels, DATA, RELOAD, TypeOK, DmaTypeOK, Setup, At, ArmReload,
        TransCount, ChainTo
<1>36. CASE Go /\ UNCHANGED <<cpuVars, fields, smVars, history>>
    BY <1>b, <1>36 DEF StopInv, Quiet, Go, At
<1>37. CASE UNCHANGED vars
    BY <1>b, <1>37 DEF StopInv, Quiet, Channels, DATA, RELOAD
<1> QED
    BY <1>a, <1>1, <1>2, <1>3, <1>4, <1>5, <1>6, <1>7, <1>8, <1>9, <1>10, <1>11, <1>12, <1>13,
        <1>14, <1>15, <1>16, <1>17, <1>18, <1>19, <1>20, <1>21, <1>22, <1>23, <1>24, <1>25,
        <1>26, <1>27, <1>28, <1>29, <1>30, <1>31, <1>32, <1>33, <1>34, <1>35, <1>36, <1>37
    DEF Next, Cpu, Commands, Hardware, DmaBlock, Driver

(* Every step keeps the channels halted and disabled where no streamed     *)
(* pattern can be running.                                                 *)
LEMMA QuietInvStep == IInv /\ [Next]_vars => QuietInv'
<1>a. SUFFICES ASSUME IInv, [Next]_vars PROVE QuietInv'
    OBVIOUS
<1>b. TypeOK /\ ControlInv /\ StopInv /\ QuietInv /\ FeedInv /\ RunInv /\ FreeInv /\ OnceInv
    BY <1>a DEF IInv
<1> USE DEF vars, ports, dmaVars, cpuVars, fields, smVars, history, channels
<1>1. CASE OutWord
    BY <1>b, <1>1 DEF QuietInv, Quiet, OutWord
<1>2. CASE PullSeed
    BY <1>b, <1>2 DEF QuietInv, Quiet, PullSeed
<1>3. CASE Starve
    BY <1>b, <1>3 DEF QuietInv, Quiet, Starve
<1>4. CASE MarkerStep
    BY <1>b, <1>4 DEF QuietInv, Quiet, MarkerStep
<1>5. CASE DataTransfer /\ UNCHANGED <<cpuVars, fields, smVars, history>>
    BY <1>b, <1>5
    DEF QuietInv, Quiet, DmaModes, Channels, TypeOK, DmaTypeOK, DataTransfer, Paced,
        LastTransfer, Rechained, Triggered, Bits
<1>6. CASE ReloadTransfer /\ UNCHANGED <<cpuVars, fields, smVars, history>>
    BY <1>b, <1>6 DEF QuietInv, Quiet, DmaModes, ReloadTransfer, Triggered, Bits
<1>7. CASE AbortData /\ UNCHANGED <<cpuVars, fields, smVars, history>>
    BY <1>b, <1>7
    DEF QuietInv, Quiet, DmaModes, Channels, TypeOK, DmaTypeOK, AbortData, Rechained, Triggered,
        Bits
<1>8. CASE AbortReload /\ UNCHANGED <<cpuVars, fields, smVars, history>>
    BY <1>b, <1>8 DEF QuietInv, Quiet, DmaModes, AbortReload, Triggered, Bits
<1>9. CASE Service
    BY <1>b, <1>9 DEF QuietInv, Quiet, Service
<1>10. CASE EndPacket
    BY <1>b, <1>10 DEF QuietInv, Quiet, EndPacket
<1>11. CASE Status
    BY <1>b, <1>11 DEF QuietInv, Quiet, Status
<1>12. CASE CmdStop
    BY <1>b, <1>12, DmaAssumption
    DEF QuietInv, Quiet, DmaModes, CmdStop, Dispatch, CallStop, EnterDma, StopJob, Request
<1>13. CASE CmdToggle
    BY <1>b, <1>13, DmaAssumption
    DEF QuietInv, Quiet, DmaModes, CmdToggle, Dispatch, CallStop, EnterDma, StopJob, Request
<1>14. CASE CmdCount
    BY <1>b, <1>14, DmaAssumption
    DEF QuietInv, Quiet, DmaModes, CmdCount, Dispatch, CallStop, EnterDma, StopJob, Request
<1>15. CASE CmdLoad
    BY <1>b, <1>15, DmaAssumption
    DEF QuietInv, Quiet, DmaModes, CmdLoad, Dispatch, CallStop, EnterDma, StopJob, Request
<1>16. CASE CmdPlay
    BY <1>b, <1>16, DmaAssumption
    DEF QuietInv, Quiet, DmaModes, CmdPlay, Dispatch, CallStop, EnterDma, StopJob, Request
<1>17. CASE CmdSynth
    BY <1>b, <1>17, DmaAssumption
    DEF QuietInv, Quiet, DmaModes, CmdSynth, Dispatch, CallStop, EnterDma, StopJob, Request
<1>18. CASE DmaStopped
    BY <1>b, <1>18 DEF QuietInv, Quiet, DmaStopped
<1>19. CASE Halt
    BY <1>b, <1>19 DEF QuietInv, Quiet, DmaModes, Halt, HaltSm0, HaltSm1
<1>20. CASE EndStop
    BY <1>b, <1>20 DEF QuietInv, Quiet, EndStop
<1>21. CASE WriteWords
    BY <1>b, <1>21, DmaAssumption
    DEF QuietInv, Quiet, DmaModes, WriteWords, Return, NoReq, Request, CallStop, EnterDma,
        StopJob
<1>22. CASE BuildFree
    BY <1>b, <1>22 DEF QuietInv, Quiet, DmaModes, BuildFree, TakeSm0
<1>23. CASE BuildPattern
    BY <1>b, <1>23, DmaAssumption
    DEF QuietInv, Quiet, DmaModes, BuildPattern, TakeSm0, Preloadable, Fits, Preloading,
        PreloadedAll, ClearStalledFlag, EnterDma, StartJob
<1>24. CASE Fed
    BY <1>b, <1>24 DEF QuietInv, Quiet, DmaModes, ControlInv, Fed
<1>25. CASE Launch
    BY <1>b, <1>25 DEF QuietInv, Quiet, Launch
<1>26. CASE Finish
    BY <1>b, <1>26
    DEF QuietInv, Quiet, DmaModes, Finish, RunMode, PatternMode, Return, NoReq, Request
<1>27. CASE ChainData /\ UNCHANGED <<cpuVars, fields, smVars, history>>
    BY <1>b, <1>27 DEF QuietInv, Quiet, ChainData, At
<1>28. CASE ChainReload /\ UNCHANGED <<cpuVars, fields, smVars, history>>
    BY <1>b, <1>28 DEF QuietInv, Quiet, ChainReload, At
<1>29. CASE Abort /\ UNCHANGED <<cpuVars, fields, smVars, history>>
    BY <1>b, <1>29 DEF QuietInv, Quiet, Abort, At
<1>30. CASE WaitAbort /\ UNCHANGED <<cpuVars, fields, smVars, history>>
    BY <1>b, <1>30 DEF QuietInv, Quiet, WaitAbort, At
<1>31. CASE WaitData /\ UNCHANGED <<cpuVars, fields, smVars, history>>
    BY <1>b, <1>31 DEF QuietInv, Quiet, WaitData, At
<1>32. CASE ClearData /\ UNCHANGED <<cpuVars, fields, smVars, history>>
    BY <1>b, <1>32 DEF QuietInv, Quiet, ClearData, At
<1>33. CASE WaitReload /\ UNCHANGED <<cpuVars, fields, smVars, history>>
    BY <1>b, <1>33 DEF QuietInv, Quiet, WaitReload, At
<1>34. CASE ClearReload /\ UNCHANGED <<cpuVars, fields, smVars, history>>
    BY <1>b, <1>34
    DEF QuietInv, Quiet, DmaModes, StopInv, Channels, DATA, RELOAD, TypeOK, DmaTypeOK,
        ClearReload, At, ArmReload, TransCount, ChainTo
<1>35. CASE Setup /\ UNCHANGED <<cpuVars, fields, smVars, history>>
    BY <1>b, <1>35 DEF QuietInv, Quiet, DmaModes, ControlInv, Setup, At
<1>36. CASE Go /\ UNCHANGED <<cpuVars, fields, smVars, history>>
    BY <1>b, <1>36 DEF QuietInv, Quiet, DmaModes, ControlInv, Go, At
<1>37. CASE UNCHANGED vars
    BY <1>b, <1>37 DEF QuietInv, Quiet, Channels, DmaModes, DATA, RELOAD
<1> QED
    BY <1>a, <1>1, <1>2, <1>3, <1>4, <1>5, <1>6, <1>7, <1>8, <1>9, <1>10, <1>11, <1>12, <1>13,
        <1>14, <1>15, <1>16, <1>17, <1>18, <1>19, <1>20, <1>21, <1>22, <1>23, <1>24, <1>25,
        <1>26, <1>27, <1>28, <1>29, <1>30, <1>31, <1>32, <1>33, <1>34, <1>35, <1>36, <1>37
    DEF Next, Cpu, Commands, Hardware, DmaBlock, Driver

(* Every transfer stays within the words of the buffer. *)
LEMMA FeedInvStep == IInv /\ [Next]_vars => FeedInv'
<1>a. SUFFICES ASSUME IInv, [Next]_vars PROVE FeedInv'
    OBVIOUS
<1>b. TypeOK /\ ControlInv /\ StopInv /\ QuietInv /\ FeedInv /\ RunInv /\ FreeInv /\ OnceInv
    BY <1>a DEF IInv
<1> USE DEF vars, ports, dmaVars, cpuVars, fields, smVars, history, channels
<1>1. CASE OutWord
    BY <1>b, <1>1, DmaAssumption DEF FeedInv, OutWord
<1>2. CASE PullSeed
    BY <1>b, <1>2, DmaAssumption DEF FeedInv, PullSeed
<1>3. CASE Starve
    BY <1>b, <1>3, DmaAssumption DEF FeedInv, Starve
<1>4. CASE MarkerStep
    BY <1>b, <1>4, DmaAssumption DEF FeedInv, MarkerStep
<1>5. CASE DataTransfer /\ UNCHANGED <<cpuVars, fields, smVars, history>>
    <2>1. /\ busy[DATA] /\ left \in Nat /\ rd \in Nat /\ count \in Nat
          /\ rd' = rd + 1 /\ left' = left - 1 /\ UNCHANGED <<en, count>>
          /\ busy'[DATA] => left # 1
        BY <1>b, <1>5 DEF DataTransfer, LastTransfer, Bits, Channels, TypeOK, DmaTypeOK
    <2> QED
        BY <1>b, <2>1 DEF FeedInv
<1>6. CASE ReloadTransfer /\ UNCHANGED <<cpuVars, fields, smVars, history>>
    BY <1>b, <1>6, DmaAssumption
    DEF FeedInv, Channels, TypeOK, DmaTypeOK, ReloadTransfer, Triggered, Bits
<1>7. CASE AbortData /\ UNCHANGED <<cpuVars, fields, smVars, history>>
    BY <1>b, <1>7, DmaAssumption
    DEF FeedInv, Channels, TypeOK, DmaTypeOK, AbortData, Rechained, Triggered, Bits
<1>8. CASE AbortReload /\ UNCHANGED <<cpuVars, fields, smVars, history>>
    BY <1>b, <1>8, DmaAssumption
    DEF FeedInv, StopInv, Channels, DATA, RELOAD, TypeOK, DmaTypeOK, AbortReload, Triggered,
        Bits
<1>9. CASE Service
    BY <1>b, <1>9, DmaAssumption DEF FeedInv, Service
<1>10. CASE EndPacket
    BY <1>b, <1>10, DmaAssumption DEF FeedInv, EndPacket
<1>11. CASE Status
    BY <1>b, <1>11, DmaAssumption DEF FeedInv, Status
<1>12. CASE CmdStop
    BY <1>b, <1>12, DmaAssumption
    DEF FeedInv, CmdStop, Dispatch, CallStop, EnterDma, StopJob, Request
<1>13. CASE CmdToggle
    BY <1>b, <1>13, DmaAssumption
    DEF FeedInv, CmdToggle, Dispatch, CallStop, EnterDma, StopJob, Request
<1>14. CASE CmdCount
    BY <1>b, <1>14, DmaAssumption
    DEF FeedInv, CmdCount, Dispatch, CallStop, EnterDma, StopJob, Request
<1>15. CASE CmdLoad
    BY <1>b, <1>15, DmaAssumption
    DEF FeedInv, CmdLoad, Dispatch, CallStop, EnterDma, StopJob, Request
<1>16. CASE CmdPlay
    BY <1>b, <1>16, DmaAssumption
    DEF FeedInv, CmdPlay, Dispatch, CallStop, EnterDma, StopJob, Request
<1>17. CASE CmdSynth
    BY <1>b, <1>17, DmaAssumption
    DEF FeedInv, CmdSynth, Dispatch, CallStop, EnterDma, StopJob, Request
<1>18. CASE DmaStopped
    BY <1>b, <1>18, DmaAssumption DEF FeedInv, DmaStopped
<1>19. CASE Halt
    BY <1>b, <1>19, DmaAssumption DEF FeedInv, Halt
<1>20. CASE EndStop
    BY <1>b, <1>20, DmaAssumption DEF FeedInv, EndStop
<1>21. CASE WriteWords
    BY <1>b, <1>21, DmaAssumption
    DEF FeedInv, WriteWords, Return, NoReq, Request, CallStop, EnterDma, StopJob
<1>22. CASE BuildFree
    BY <1>b, <1>22, DmaAssumption DEF FeedInv, BuildFree
<1>23. CASE BuildPattern
    BY <1>b, <1>23, DmaAssumption
    DEF FeedInv, BuildPattern, TakeSm0, Preloadable, Fits, Preloading, PreloadedAll,
        ClearStalledFlag, EnterDma, StartJob
<1>24. CASE Fed
    BY <1>b, <1>24, DmaAssumption DEF FeedInv, Fed
<1>25. CASE Launch
    BY <1>b, <1>25, DmaAssumption DEF FeedInv, Launch
<1>26. CASE Finish
    BY <1>b, <1>26, DmaAssumption DEF FeedInv, Finish
<1>27. CASE ChainData /\ UNCHANGED <<cpuVars, fields, smVars, history>>
    BY <1>b, <1>27, DmaAssumption DEF FeedInv, ChainData, At
<1>28. CASE ChainReload /\ UNCHANGED <<cpuVars, fields, smVars, history>>
    BY <1>b, <1>28, DmaAssumption DEF FeedInv, ChainReload, At
<1>29. CASE Abort /\ UNCHANGED <<cpuVars, fields, smVars, history>>
    BY <1>b, <1>29, DmaAssumption DEF FeedInv, Abort, At
<1>30. CASE WaitAbort /\ UNCHANGED <<cpuVars, fields, smVars, history>>
    BY <1>b, <1>30, DmaAssumption DEF FeedInv, WaitAbort, At
<1>31. CASE WaitData /\ UNCHANGED <<cpuVars, fields, smVars, history>>
    BY <1>b, <1>31, DmaAssumption DEF FeedInv, WaitData, At
<1>32. CASE ClearData /\ UNCHANGED <<cpuVars, fields, smVars, history>>
    BY <1>b, <1>32, DmaAssumption DEF FeedInv, ClearData, At
<1>33. CASE WaitReload /\ UNCHANGED <<cpuVars, fields, smVars, history>>
    BY <1>b, <1>33, DmaAssumption DEF FeedInv, WaitReload, At
<1>34. CASE ClearReload /\ UNCHANGED <<cpuVars, fields, smVars, history>>
    BY <1>b, <1>34, DmaAssumption DEF FeedInv, ClearReload, At
<1>35. CASE Setup /\ UNCHANGED <<cpuVars, fields, smVars, history>>
    BY <1>b, <1>35, DmaAssumption
    DEF FeedInv, ControlInv, StopInv, Quiet, Channels, DATA, RELOAD, TypeOK, DmaTypeOK, Setup,
        At, ArmReload, TransCount, ChainTo
<1>36. CASE Go /\ UNCHANGED <<cpuVars, fields, smVars, history>>
    BY <1>b, <1>36, DmaAssumption
    DEF FeedInv, StopInv, Channels, DATA, RELOAD, TypeOK, DmaTypeOK, Go, At, ArmReload,
        TransCount, ChainTo
<1>37. CASE UNCHANGED vars
    BY <1>b, <1>37 DEF FeedInv, Channels, DATA, RELOAD
<1> QED
    BY <1>a, <1>1, <1>2, <1>3, <1>4, <1>5, <1>6, <1>7, <1>8, <1>9, <1>10, <1>11, <1>12, <1>13,
        <1>14, <1>15, <1>16, <1>17, <1>18, <1>19, <1>20, <1>21, <1>22, <1>23, <1>24, <1>25,
        <1>26, <1>27, <1>28, <1>29, <1>30, <1>31, <1>32, <1>33, <1>34, <1>35, <1>36, <1>37
    DEF Next, Cpu, Commands, Hardware, DmaBlock, Driver

(* Every step keeps the stall flags those of the current run. *)
LEMMA RunInvStep == IInv /\ [Next]_vars => RunInv'
<1>a. SUFFICES ASSUME IInv, [Next]_vars PROVE RunInv'
    OBVIOUS
<1>b. TypeOK /\ ControlInv /\ StopInv /\ QuietInv /\ FeedInv /\ RunInv /\ FreeInv /\ OnceInv
    BY <1>a DEF IInv
<1> USE DEF vars, ports, dmaVars, cpuVars, fields, smVars, history, channels
<1>1. CASE OutWord
    BY <1>b, <1>1 DEF RunInv, OutWord
<1>2. CASE PullSeed
    BY <1>b, <1>2 DEF RunInv, PullSeed
<1>3. CASE Starve
    BY <1>b, <1>3 DEF RunInv, DmaModes, ControlInv, Starve
<1>4. CASE MarkerStep
    BY <1>b, <1>4 DEF RunInv, MarkerStep
<1>5. CASE DataTransfer /\ UNCHANGED <<cpuVars, fields, smVars, history>>
    BY <1>b, <1>5 DEF RunInv, DataTransfer
<1>6. CASE ReloadTransfer /\ UNCHANGED <<cpuVars, fields, smVars, history>>
    BY <1>b, <1>6 DEF RunInv, ReloadTransfer
<1>7. CASE AbortData /\ UNCHANGED <<cpuVars, fields, smVars, history>>
    BY <1>b, <1>7 DEF RunInv, AbortData
<1>8. CASE AbortReload /\ UNCHANGED <<cpuVars, fields, smVars, history>>
    BY <1>b, <1>8 DEF RunInv, AbortReload
<1>9. CASE Service
    BY <1>b, <1>9 DEF RunInv, DmaModes, Service, Sampling
<1>10. CASE EndPacket
    BY <1>b, <1>10 DEF RunInv, EndPacket
<1>11. CASE Status
    BY <1>b, <1>11 DEF RunInv, Status
<1>12. CASE CmdStop
    BY <1>b, <1>12, DmaAssumption
    DEF RunInv, DmaModes, CmdStop, Dispatch, CallStop, EnterDma, StopJob, Request
<1>13. CASE CmdToggle
    BY <1>b, <1>13, DmaAssumption
    DEF RunInv, DmaModes, CmdToggle, Dispatch, CallStop, EnterDma, StopJob, Request
<1>14. CASE CmdCount
    BY <1>b, <1>14, DmaAssumption
    DEF RunInv, DmaModes, CmdCount, Dispatch, CallStop, EnterDma, StopJob, Request
<1>15. CASE CmdLoad
    BY <1>b, <1>15, DmaAssumption
    DEF RunInv, DmaModes, CmdLoad, Dispatch, CallStop, EnterDma, StopJob, Request
<1>16. CASE CmdPlay
    BY <1>b, <1>16, DmaAssumption
    DEF RunInv, DmaModes, CmdPlay, Dispatch, CallStop, EnterDma, StopJob, Request
<1>17. CASE CmdSynth
    BY <1>b, <1>17, DmaAssumption
    DEF RunInv, DmaModes, CmdSynth, Dispatch, CallStop, EnterDma, StopJob, Request
<1>18. CASE DmaStopped
    BY <1>b, <1>18 DEF RunInv, DmaStopped
<1>19. CASE Halt
    BY <1>b, <1>19 DEF RunInv, DmaModes, ControlInv, Halt, HaltSm0, HaltSm1
<1>20. CASE EndStop
    BY <1>b, <1>20 DEF RunInv, DmaModes, EndStop, Return, NoReq, Request
<1>21. CASE WriteWords
    BY <1>b, <1>21, DmaAssumption
    DEF RunInv, DmaModes, WriteWords, Return, NoReq, Request, CallStop, EnterDma, StopJob
<1>22. CASE BuildFree
    BY <1>b, <1>22 DEF RunInv, BuildFree
<1>23. CASE BuildPattern
    BY <1>b, <1>23, DmaAssumption
    DEF RunInv, DmaModes, BuildPattern, TakeSm0, Preloadable, Fits, Preloading, PreloadedAll,
        ClearStalledFlag, EnterDma, StartJob
<1>24. CASE Fed
    BY <1>b, <1>24 DEF RunInv, Fed
<1>25. CASE Launch
    BY <1>b, <1>25 DEF RunInv, Launch
<1>26. CASE Finish
    BY <1>b, <1>26
    DEF RunInv, DmaModes, ControlInv, Finish, RunMode, PatternMode, Return, NoReq, Request
<1>27. CASE ChainData /\ UNCHANGED <<cpuVars, fields, smVars, history>>
    BY <1>b, <1>27 DEF RunInv, ChainData, At
<1>28. CASE ChainReload /\ UNCHANGED <<cpuVars, fields, smVars, history>>
    BY <1>b, <1>28 DEF RunInv, ChainReload, At
<1>29. CASE Abort /\ UNCHANGED <<cpuVars, fields, smVars, history>>
    BY <1>b, <1>29 DEF RunInv, Abort, At
<1>30. CASE WaitAbort /\ UNCHANGED <<cpuVars, fields, smVars, history>>
    BY <1>b, <1>30 DEF RunInv, WaitAbort, At
<1>31. CASE WaitData /\ UNCHANGED <<cpuVars, fields, smVars, history>>
    BY <1>b, <1>31 DEF RunInv, WaitData, At
<1>32. CASE ClearData /\ UNCHANGED <<cpuVars, fields, smVars, history>>
    BY <1>b, <1>32 DEF RunInv, ClearData, At
<1>33. CASE WaitReload /\ UNCHANGED <<cpuVars, fields, smVars, history>>
    BY <1>b, <1>33 DEF RunInv, WaitReload, At
<1>34. CASE ClearReload /\ UNCHANGED <<cpuVars, fields, smVars, history>>
    BY <1>b, <1>34 DEF RunInv, ClearReload, At
<1>35. CASE Setup /\ UNCHANGED <<cpuVars, fields, smVars, history>>
    BY <1>b, <1>35 DEF RunInv, Setup, At
<1>36. CASE Go /\ UNCHANGED <<cpuVars, fields, smVars, history>>
    BY <1>b, <1>36 DEF RunInv, Go, At
<1>37. CASE UNCHANGED vars
    BY <1>b, <1>37 DEF RunInv, DmaModes
<1> QED
    BY <1>a, <1>1, <1>2, <1>3, <1>4, <1>5, <1>6, <1>7, <1>8, <1>9, <1>10, <1>11, <1>12, <1>13,
        <1>14, <1>15, <1>16, <1>17, <1>18, <1>19, <1>20, <1>21, <1>22, <1>23, <1>24, <1>25,
        <1>26, <1>27, <1>28, <1>29, <1>30, <1>31, <1>32, <1>33, <1>34, <1>35, <1>36, <1>37
    DEF Next, Cpu, Commands, Hardware, DmaBlock, Driver

(* Every step keeps toggle and count from starving: the seed word is       *)
(* there until it is pulled.                                               *)
LEMMA FreeInvStep == IInv /\ [Next]_vars => FreeInv'
<1>a. SUFFICES ASSUME IInv, [Next]_vars PROVE FreeInv'
    OBVIOUS
<1>b. TypeOK /\ ControlInv /\ StopInv /\ QuietInv /\ FeedInv /\ RunInv /\ FreeInv /\ OnceInv
    BY <1>a DEF IInv
<1> USE DEF vars, ports, dmaVars, cpuVars, fields, smVars, history, channels
<1>1. CASE OutWord
    BY <1>b, <1>1 DEF FreeInv, OutWord
<1>2. CASE PullSeed
    BY <1>b, <1>2 DEF FreeInv, PullSeed
<1>3. CASE Starve
    BY <1>b, <1>3 DEF FreeInv, Starve
<1>4. CASE MarkerStep
    BY <1>b, <1>4 DEF FreeInv, MarkerStep
<1>5. CASE DataTransfer /\ UNCHANGED <<cpuVars, fields, smVars, history>>
    BY <1>b, <1>5 DEF FreeInv, DataTransfer
<1>6. CASE ReloadTransfer /\ UNCHANGED <<cpuVars, fields, smVars, history>>
    BY <1>b, <1>6 DEF FreeInv, ReloadTransfer
<1>7. CASE AbortData /\ UNCHANGED <<cpuVars, fields, smVars, history>>
    BY <1>b, <1>7 DEF FreeInv, AbortData
<1>8. CASE AbortReload /\ UNCHANGED <<cpuVars, fields, smVars, history>>
    BY <1>b, <1>8 DEF FreeInv, AbortReload
<1>9. CASE Service
    BY <1>b, <1>9 DEF FreeInv, Service
<1>10. CASE EndPacket
    BY <1>b, <1>10 DEF FreeInv, EndPacket
<1>11. CASE Status
    BY <1>b, <1>11 DEF FreeInv, Status
<1>12. CASE CmdStop
    BY <1>b, <1>12, DmaAssumption
    DEF FreeInv, CmdStop, Dispatch, CallStop, EnterDma, StopJob, Request
<1>13. CASE CmdToggle
    BY <1>b, <1>13, DmaAssumption
    DEF FreeInv, CmdToggle, Dispatch, CallStop, EnterDma, StopJob, Request
<1>14. CASE CmdCount
    BY <1>b, <1>14, DmaAssumption
    DEF FreeInv, CmdCount, Dispatch, CallStop, EnterDma, StopJob, Request
<1>15. CASE CmdLoad
    BY <1>b, <1>15, DmaAssumption
    DEF FreeInv, CmdLoad, Dispatch, CallStop, EnterDma, StopJob, Request
<1>16. CASE CmdPlay
    BY <1>b, <1>16, DmaAssumption
    DEF FreeInv, CmdPlay, Dispatch, CallStop, EnterDma, StopJob, Request
<1>17. CASE CmdSynth
    BY <1>b, <1>17, DmaAssumption
    DEF FreeInv, CmdSynth, Dispatch, CallStop, EnterDma, StopJob, Request
<1>18. CASE DmaStopped
    BY <1>b, <1>18 DEF FreeInv, DmaStopped
<1>19. CASE Halt
    BY <1>b, <1>19 DEF FreeInv, Halt, HaltSm0, HaltSm1
<1>20. CASE EndStop
    BY <1>b, <1>20 DEF FreeInv, EndStop
<1>21. CASE WriteWords
    BY <1>b, <1>21, DmaAssumption DEF FreeInv, WriteWords
<1>22. CASE BuildFree
    BY <1>b, <1>22 DEF FreeInv, ControlInv, BuildFree, TakeSm0
<1>23. CASE BuildPattern
    BY <1>b, <1>23, DmaAssumption DEF FreeInv, BuildPattern
<1>24. CASE Fed
    BY <1>b, <1>24 DEF FreeInv, Fed
<1>25. CASE Launch
    BY <1>b, <1>25 DEF FreeInv, ControlInv, Launch, NewRun
<1>26. CASE Finish
    BY <1>b, <1>26 DEF FreeInv, Finish
<1>27. CASE ChainData /\ UNCHANGED <<cpuVars, fields, smVars, history>>
    BY <1>b, <1>27 DEF FreeInv, ChainData, At
<1>28. CASE ChainReload /\ UNCHANGED <<cpuVars, fields, smVars, history>>
    BY <1>b, <1>28 DEF FreeInv, ChainReload, At
<1>29. CASE Abort /\ UNCHANGED <<cpuVars, fields, smVars, history>>
    BY <1>b, <1>29 DEF FreeInv, Abort, At
<1>30. CASE WaitAbort /\ UNCHANGED <<cpuVars, fields, smVars, history>>
    BY <1>b, <1>30 DEF FreeInv, WaitAbort, At
<1>31. CASE WaitData /\ UNCHANGED <<cpuVars, fields, smVars, history>>
    BY <1>b, <1>31 DEF FreeInv, WaitData, At
<1>32. CASE ClearData /\ UNCHANGED <<cpuVars, fields, smVars, history>>
    BY <1>b, <1>32 DEF FreeInv, ClearData, At
<1>33. CASE WaitReload /\ UNCHANGED <<cpuVars, fields, smVars, history>>
    BY <1>b, <1>33 DEF FreeInv, WaitReload, At
<1>34. CASE ClearReload /\ UNCHANGED <<cpuVars, fields, smVars, history>>
    BY <1>b, <1>34 DEF FreeInv, ClearReload, At
<1>35. CASE Setup /\ UNCHANGED <<cpuVars, fields, smVars, history>>
    BY <1>b, <1>35 DEF FreeInv, Setup, At
<1>36. CASE Go /\ UNCHANGED <<cpuVars, fields, smVars, history>>
    BY <1>b, <1>36 DEF FreeInv, Go, At
<1>37. CASE UNCHANGED vars
    BY <1>b, <1>37 DEF FreeInv
<1> QED
    BY <1>a, <1>1, <1>2, <1>3, <1>4, <1>5, <1>6, <1>7, <1>8, <1>9, <1>10, <1>11, <1>12, <1>13,
        <1>14, <1>15, <1>16, <1>17, <1>18, <1>19, <1>20, <1>21, <1>22, <1>23, <1>24, <1>25,
        <1>26, <1>27, <1>28, <1>29, <1>30, <1>31, <1>32, <1>33, <1>34, <1>35, <1>36, <1>37
    DEF Next, Cpu, Commands, Hardware, DmaBlock, Driver

(* Every step keeps in the FIFO exactly the words a preloaded one-shot     *)
(* has still to play.                                                      *)
LEMMA OnceInvStep == IInv /\ [Next]_vars => OnceInv'
<1>a. SUFFICES ASSUME IInv, [Next]_vars PROVE OnceInv'
    OBVIOUS
<1>b. TypeOK /\ ControlInv /\ StopInv /\ QuietInv /\ FeedInv /\ RunInv /\ FreeInv /\ OnceInv
    BY <1>a DEF IInv
<1> USE DEF vars, ports, dmaVars, cpuVars, fields, smVars, history, channels
<1>1. CASE OutWord
    <2>1. /\ Len(fifo') = Len(fifo) - 1 /\ Len(fifo) \in Nat
          /\ ~loops => due' = due + 1
        BY <1>b, <1>1, HeadAndTail DEF OutWord, TypeOK, DmaTypeOK
    <2>2. pc # "launch" /\ UNCHANGED <<pc, req, preloaded, mode, wordLen, loops, late>>
        BY <1>b, <1>1 DEF OutWord, ControlInv
    <2> QED
        BY <1>b, <2>1, <2>2 DEF OnceInv, TypeOK, EngineTypeOK, HistoryTypeOK
<1>2. CASE PullSeed
    BY <1>b, <1>2 DEF OnceInv, ControlInv, QuietInv, RunInv, PullSeed
<1>3. CASE Starve
    <2>1. /\ fifo = <<>> /\ late' = (late \/ loops \/ due <= wordLen)
          /\ UNCHANGED <<pc, req, preloaded, fifo, mode, wordLen, loops, due>>
        BY <1>3 DEF Starve, WordDue
    <2>2. Len(fifo) = 0
        BY <2>1, EmptyFifo
    <2> QED
        BY <1>b, <2>1, <2>2 DEF OnceInv, TypeOK, EngineTypeOK, HistoryTypeOK
<1>4. CASE MarkerStep
    BY <1>b, <1>4 DEF OnceInv, MarkerStep
<1>5. CASE DataTransfer /\ UNCHANGED <<cpuVars, fields, smVars, history>>
    <2>1. /\ busy[DATA]
          /\ UNCHANGED <<pc, req, preloaded, mode, wordLen, loops, due, late>>
        BY <1>5 DEF DataTransfer
    <2>2. /\ mode # "PatternOnce"
          /\ ~(pc \in {"launch", "finish"} /\ req.op = "play" /\ preloaded)
        BY <1>b, <2>1 DEF QuietInv, RunInv, Quiet, Channels, DmaModes
    <2> QED
        BY <2>1, <2>2 DEF OnceInv
<1>6. CASE ReloadTransfer /\ UNCHANGED <<cpuVars, fields, smVars, history>>
    BY <1>b, <1>6 DEF OnceInv, ReloadTransfer
<1>7. CASE AbortData /\ UNCHANGED <<cpuVars, fields, smVars, history>>
    BY <1>b, <1>7 DEF OnceInv, AbortData
<1>8. CASE AbortReload /\ UNCHANGED <<cpuVars, fields, smVars, history>>
    BY <1>b, <1>8 DEF OnceInv, AbortReload
<1>9. CASE Service
    BY <1>b, <1>9 DEF OnceInv, Service
<1>10. CASE EndPacket
    BY <1>b, <1>10 DEF OnceInv, EndPacket
<1>11. CASE Status
    BY <1>b, <1>11 DEF OnceInv, Status
<1>12. CASE CmdStop
    BY <1>b, <1>12, DmaAssumption
    DEF OnceInv, CmdStop, Dispatch, CallStop, EnterDma, StopJob, Request
<1>13. CASE CmdToggle
    BY <1>b, <1>13, DmaAssumption
    DEF OnceInv, CmdToggle, Dispatch, CallStop, EnterDma, StopJob, Request
<1>14. CASE CmdCount
    BY <1>b, <1>14, DmaAssumption
    DEF OnceInv, CmdCount, Dispatch, CallStop, EnterDma, StopJob, Request
<1>15. CASE CmdLoad
    BY <1>b, <1>15, DmaAssumption
    DEF OnceInv, CmdLoad, Dispatch, CallStop, EnterDma, StopJob, Request
<1>16. CASE CmdPlay
    BY <1>b, <1>16, DmaAssumption
    DEF OnceInv, CmdPlay, Dispatch, CallStop, EnterDma, StopJob, Request
<1>17. CASE CmdSynth
    BY <1>b, <1>17, DmaAssumption
    DEF OnceInv, CmdSynth, Dispatch, CallStop, EnterDma, StopJob, Request
<1>18. CASE DmaStopped
    BY <1>b, <1>18 DEF OnceInv, DmaStopped
<1>19. CASE Halt
    BY <1>b, <1>19 DEF OnceInv, Halt
<1>20. CASE EndStop
    BY <1>b, <1>20 DEF OnceInv, EndStop, Return, NoReq, Request
<1>21. CASE WriteWords
    BY <1>b, <1>21, DmaAssumption
    DEF OnceInv, RunInv, WriteWords, Return, NoReq, Request, CallStop, EnterDma, StopJob
<1>22. CASE BuildFree
    BY <1>b, <1>22 DEF OnceInv, RunInv, BuildFree, TakeSm0
<1>23. CASE BuildPattern
    <2>1. pc = "stopped" /\ fifo = <<>> /\ mode = "Stopped" /\ UNCHANGED <<mode, wordLen, req>>
        BY <1>b, <1>23 DEF BuildPattern, ControlInv, QuietInv, RunInv
    <2>2. pc' = "launch" => PreloadedAll
        BY <1>b, <1>23, <2>1 DEF BuildPattern, TakeSm0, ControlInv
    <2>3. ASSUME PreloadedAll PROVE ~req.looping /\ Len(fifo') = wordLen
        <3>1. ~req.looping /\ fifo' = fifo \o [i \in 1 .. wordLen |-> words[i]]
            BY <1>23, <2>3 DEF BuildPattern, PreloadedAll, Preloadable, Preloading
        <3> QED
            BY <1>b, <2>1, <3>1, Preload DEF TypeOK, EngineTypeOK
    <2>4. pc' \in {"launch", "feeding", "panic"}
        BY <1>23 DEF BuildPattern, TakeSm0
    <2> QED
        BY <2>1, <2>2, <2>3, <2>4 DEF OnceInv
<1>24. CASE Fed
    BY <1>b, <1>24 DEF OnceInv, ControlInv, Fed
<1>25. CASE Launch
    BY <1>b, <1>25 DEF OnceInv, RunInv, Launch, NewRun
<1>26. CASE Finish
    BY <1>b, <1>26 DEF OnceInv, ControlInv, Finish, RunMode, PatternMode, Return, NoReq, Request
<1>27. CASE ChainData /\ UNCHANGED <<cpuVars, fields, smVars, history>>
    BY <1>b, <1>27 DEF OnceInv, ChainData, At
<1>28. CASE ChainReload /\ UNCHANGED <<cpuVars, fields, smVars, history>>
    BY <1>b, <1>28 DEF OnceInv, ChainReload, At
<1>29. CASE Abort /\ UNCHANGED <<cpuVars, fields, smVars, history>>
    BY <1>b, <1>29 DEF OnceInv, Abort, At
<1>30. CASE WaitAbort /\ UNCHANGED <<cpuVars, fields, smVars, history>>
    BY <1>b, <1>30 DEF OnceInv, WaitAbort, At
<1>31. CASE WaitData /\ UNCHANGED <<cpuVars, fields, smVars, history>>
    BY <1>b, <1>31 DEF OnceInv, WaitData, At
<1>32. CASE ClearData /\ UNCHANGED <<cpuVars, fields, smVars, history>>
    BY <1>b, <1>32 DEF OnceInv, ClearData, At
<1>33. CASE WaitReload /\ UNCHANGED <<cpuVars, fields, smVars, history>>
    BY <1>b, <1>33 DEF OnceInv, WaitReload, At
<1>34. CASE ClearReload /\ UNCHANGED <<cpuVars, fields, smVars, history>>
    BY <1>b, <1>34 DEF OnceInv, ClearReload, At
<1>35. CASE Setup /\ UNCHANGED <<cpuVars, fields, smVars, history>>
    BY <1>b, <1>35 DEF OnceInv, Setup, At
<1>36. CASE Go /\ UNCHANGED <<cpuVars, fields, smVars, history>>
    BY <1>b, <1>36 DEF OnceInv, Go, At
<1>37. CASE UNCHANGED vars
    BY <1>b, <1>37 DEF OnceInv
<1> QED
    BY <1>a, <1>1, <1>2, <1>3, <1>4, <1>5, <1>6, <1>7, <1>8, <1>9, <1>10, <1>11, <1>12, <1>13,
        <1>14, <1>15, <1>16, <1>17, <1>18, <1>19, <1>20, <1>21, <1>22, <1>23, <1>24, <1>25,
        <1>26, <1>27, <1>28, <1>29, <1>30, <1>31, <1>32, <1>33, <1>34, <1>35, <1>36, <1>37
    DEF Next, Cpu, Commands, Hardware, DmaBlock, Driver

-----------------------------------------------------------------------------
(* The engine starts within the invariant. *)
LEMMA InitIInv == Init => IInv
<1>1. SUFFICES ASSUME Init PROVE IInv
    OBVIOUS
<1>2. DmaTypeOK
    <2>1. words \in [1 .. Capacity -> Word] /\ fifo \in Seq(Word) /\ Len(fifo) = 0
        BY <1>1, BusAssumption, EmptyFifo DEF Init
    <2> QED
        BY <1>1, <2>1, DmaAssumption DEF Init, DmaInit, DmaTypeOK, NoJob, DriverPcs, Channels, DATA
<1>3. CpuTypeOK
    <2>1. pc = "poll" /\ req = Request("none", <<>>, FALSE) /\ preloaded = FALSE /\ budget = 0
        BY <1>1 DEF Init, NoReq
    <2>2. req \in [op : Ops, pattern : Seq(Word), looping : BOOLEAN]
        BY <2>1, EmptyFifo DEF Request, Ops
    <2>3. pc \in Pcs /\ preloaded \in BOOLEAN /\ budget \in 0 .. Batch
        <3>1. budget \in 0 .. Batch
            BY <2>1, BusAssumption
        <3> QED
            BY <2>1, <3>1, Zenon DEF Pcs
    <2> QED
        BY <2>2, <2>3 DEF CpuTypeOK
<1>4. EngineTypeOK
    <2>1. /\ sm0 = "Idle" /\ sm1 = "Idle" /\ prog = "none" /\ pulled = FALSE
          /\ pins = Low /\ marker = "low" /\ txstall = FALSE
          /\ mode = "Stopped" /\ stalled = FALSE /\ wordLen = 0
        BY <1>1 DEF Init
    <2>2. wordLen \in 0 .. Capacity
        BY <2>1, DmaAssumption
    <2>3. pins \in Word \cup {Wave, Codes}
        BY <2>1, BusAssumption
    <2> QED
        BY <2>1, <2>2, <2>3, Zenon DEF EngineTypeOK, SmStates, Programs, Modes
<1>5. HistoryTypeOK
    <2>1. HistoryInit
        BY <1>1 DEF Init
    <2> QED
        BY <2>1 DEF HistoryInit, HistoryTypeOK
<1>6. ControlInv /\ StopInv /\ RunInv /\ FreeInv /\ OnceInv
    BY <1>1, DmaAssumption
    DEF Init, DmaInit, HistoryInit, NoReq, Request, NoJob, ControlInv, StopInv, RunInv, FreeInv,
        OnceInv
<1>7. QuietInv /\ FeedInv
    BY <1>1, DmaAssumption DEF Init, DmaInit, QuietInv, FeedInv, Quiet, Channels, DATA
<1> QED
    BY <1>2, <1>3, <1>4, <1>5, <1>6, <1>7 DEF IInv, TypeOK

(* The invariant is inductive. *)
LEMMA IInvInductive == IInv /\ [Next]_vars => IInv'
BY TypeOKStep, ControlInvStep, StopInvStep, QuietInvStep, FeedInvStep, RunInvStep, FreeInvStep,
    OnceInvStep
DEF IInv

(* Every reachable state satisfies the invariant. *)
THEOREM Invariance == Spec => []IInv
BY InitIInv, IInvInductive, PTL DEF Spec

(* Every variable keeps its type; above all the FIFO never overflows, the  *)
(* read address of a moving data channel stays within the buffer, and no   *)
(* driver call is given more words than there are.                         *)
THEOREM TypeCorrect == Spec => []TypeOK
<1>1. IInv => TypeOK
    BY DEF IInv
<1> QED
    BY <1>1, Invariance, PTL

(* No `unreachable!` of the engine is reached (bus.rs:280, 293, 526, 533). *)
THEOREM PanicFree == Spec => []NeverPanics
<1>1. IInv => NeverPanics
    BY DEF IInv, ControlInv, NeverPanics
<1> QED
    BY <1>1, Invariance, PTL

(* A stop leaves both channels halted and disabled, whatever race it won   *)
(* or lost with them, and they stay so until a pattern is streamed again   *)
(* (dma.rs:127-155).                                                       *)
THEOREM ChannelsQuiet == Spec => []DmaQuiet
<1>1. IInv => DmaQuiet
    BY DEF IInv, ControlInv, StopInv, QuietInv, DmaQuiet, DmaIdle
<1> QED
    BY <1>1, Invariance, PTL

(* No stall is ever reported against a run it did not happen in            *)
(* (bus.rs:397-401).                                                       *)
THEOREM StallAttributed == Spec => []StallIsOfThisRun
<1>1. IInv => StallIsOfThisRun
    BY DEF IInv, RunInv, StallIsOfThisRun
<1> QED
    BY <1>1, Invariance, PTL

(* Toggle and count never starve, and a preloaded one-shot never misses a  *)
(* word (bus.rs:377-380, 403-406).                                         *)
THEOREM NoGapWithoutRefill == Spec => []NoRefillNoGap
<1>1. IInv => NoRefillNoGap
    BY DEF IInv, FreeInv, OnceInv, NoRefillNoGap
<1> QED
    BY <1>1, Invariance, PTL

(* Only load_pattern writes the buffer, after its stop: neither a channel  *)
(* nor a state machine can be reading it (bus.rs:121-124).                 *)
THEOREM BufferSafe == Spec => BufferWrittenAtRest
<1>1. ASSUME IInv, [Next]_vars, words' # words
      PROVE  DmaIdle /\ sm0 = "Idle" /\ fifo = <<>>
    <2>1. WriteWords
        BY <1>1
        DEF Next, Cpu, Hardware, Commands, DmaBlock, Driver, vars, ports, dmaVars, OutWord, PullSeed,
            Starve, MarkerStep, DataTransfer, ReloadTransfer, AbortData, AbortReload, Service,
            EndPacket, Status, CmdStop, CmdToggle, CmdCount, CmdLoad, CmdPlay, CmdSynth, Dispatch,
            DmaStopped, Halt, EndStop, BuildFree, BuildPattern, Fed, Launch, Finish, ChainData,
            ChainReload, Abort, WaitAbort, WaitData, ClearData, WaitReload, ClearReload, Setup, Go,
            At
    <2> QED
        BY <1>1, <2>1 DEF WriteWords, IInv, ControlInv, StopInv, QuietInv, DmaIdle
<1>2. IInv /\ [Next]_vars => [words' # words => DmaIdle /\ sm0 = "Idle" /\ fifo = <<>>]_vars
    BY <1>1
<1> QED
    BY <1>2, Invariance, PTL DEF Spec, BufferWrittenAtRest

=============================================================================
