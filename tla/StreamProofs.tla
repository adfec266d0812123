------------------------------ MODULE StreamProofs ------------------------------
(***************************************************************************)
(* The data of a pattern run: for every pattern, buffer and FIFO size, the *)
(* signal engine plays the words it was given, in order, none lost and     *)
(* none repeated, that is, it implements Stream.                           *)
(*                                                                         *)
(* FlowInv says where the next words are.  The word due on the pins is at  *)
(* the head of the FIFO, the ones behind it follow in turn (OrderInv), and *)
(* the data channel goes on after the last of them (FollowInv).  What a    *)
(* loop does with the remainder of a division, a one-shot does without it: *)
(* its reload channel is off and its words end at wordLen (OneShotInv).    *)
(* A run that loops needs ReloadFirst: a reload that comes late rewinds a  *)
(* data channel that has already moved on.                                 *)
(***************************************************************************)
EXTENDS BusProofs

(* Taking and giving words: from the build of a pattern program to the     *)
(* stop that discards it.                                                  *)
Streaming == sm0 # "Idle" /\ prog = "pattern"

(* The word due next, whether the run goes round, and the k-th word of it. *)
First == IF sm0 = "Running" THEN due ELSE 1
Round == IF sm0 = "Running" THEN loops ELSE req.looping
Turn(k) == ((k - 1) % wordLen) + 1

SizeInv ==
    /\ req.op = "play" => wordLen >= 1
    /\ Streaming => wordLen >= 1 /\ First \in 1 .. wordLen + 1
    /\ Streaming /\ Round => First <= wordLen
    /\ pc = "feeding" /\ dpc # "idle" =>
          fifo = <<>> /\ job.len = wordLen /\ job.looping = req.looping

OrderInv ==
    Streaming => \A i \in 1 .. Len(fifo) : fifo[i] = words[Turn(First + i - 1)]

FollowInv ==
    Streaming =>
        /\ en[DATA] => count = wordLen
        /\ busy[DATA] => rd = Turn(First + Len(fifo)) /\ left = wordLen + 1 - rd
        /\ busy[RELOAD] => Turn(First + Len(fifo)) = 1

OneShotInv ==
    Streaming /\ ~Round =>
        /\ First + Len(fifo) <= wordLen + 1
        /\ ~en[RELOAD] /\ ~busy[RELOAD]
        /\ busy[DATA] => First + Len(fifo) <= wordLen

FlowInv == SizeInv /\ OrderInv /\ FollowInv /\ OneShotInv

-----------------------------------------------------------------------------
(* Going round: remainders one step and one round further on.              *)

(* A quotient and a remainder are those of the division. *)
LEMMA DivisionUnique ==
    ASSUME NEW n \in Nat \ {0}, NEW p \in Int, NEW q \in Int,
           NEW r \in 0 .. n - 1, NEW s \in 0 .. n - 1, n * p + r = n * q + s
    PROVE  r = s
<1>1. CASE p = q
    BY <1>1
<1>2. CASE p < q
    <2>1. q = p + 1 + (q - p - 1) /\ q - p - 1 \in Nat
        BY <1>2
    <2>2. n * q = n * p + n + n * (q - p - 1)
        BY <2>1
    <2>3. n * (q - p - 1) \in Nat
        BY <2>1
    <2> QED BY <2>2, <2>3
<1>3. CASE q < p
    <2>1. p = q + 1 + (p - q - 1) /\ p - q - 1 \in Nat
        BY <1>3
    <2>2. n * p = n * q + n + n * (p - q - 1)
        BY <2>1
    <2>3. n * (p - q - 1) \in Nat
        BY <2>1
    <2> QED BY <2>2, <2>3
<1> QED BY <1>1, <1>2, <1>3

(* The remainder of n * q + r is r. *)
LEMMA Remainder ==
    ASSUME NEW n \in Nat \ {0}, NEW q \in Int, NEW r \in 0 .. n - 1
    PROVE  (n * q + r) % n = r
<1>1. DEFINE a == n * q + r
<1>2. a \in Int /\ a = n * (a \div n) + (a % n) /\ a \div n \in Int /\ a % n \in 0 .. n - 1
    OBVIOUS
<1>3. a % n = r
    BY <1>2, DivisionUnique
<1> QED BY <1>3

(* A number below the divisor is its own remainder. *)
LEMMA SmallRemainder ==
    ASSUME NEW n \in Nat \ {0}, NEW r \in 0 .. n - 1
    PROVE  r % n = r
<1>1. (n * 0 + r) % n = r
    BY Remainder
<1> QED BY <1>1

(* One more, and the remainder is one more or back at zero. *)
LEMMA NextRemainder ==
    ASSUME NEW n \in Nat \ {0}, NEW a \in Nat
    PROVE  /\ a % n \in 0 .. n - 1
           /\ (a + 1) % n = IF a % n = n - 1 THEN 0 ELSE (a % n) + 1
<1>1. a = n * (a \div n) + (a % n) /\ a \div n \in Int /\ a % n \in 0 .. n - 1
    OBVIOUS
<1>2. CASE a % n = n - 1
    <2>1. n * (a \div n + 1) = n * (a \div n) + n
        BY <1>1
    <2>2. a + 1 = n * (a \div n + 1) + 0
        BY <1>1, <1>2, <2>1
    <2>3. a \div n + 1 \in Int /\ 0 \in 0 .. n - 1
        BY <1>1
    <2>4. (n * (a \div n + 1) + 0) % n = 0
        BY <2>3, Remainder
    <2> QED BY <1>1, <1>2, <2>2, <2>4
<1>3. CASE a % n # n - 1
    <2>1. (a % n) + 1 \in 0 .. n - 1 /\ a + 1 = n * (a \div n) + ((a % n) + 1)
        BY <1>1, <1>3
    <2>2. (n * (a \div n) + ((a % n) + 1)) % n = (a % n) + 1
        BY <1>1, <2>1, Remainder
    <2> QED BY <1>1, <1>3, <2>1, <2>2
<1> QED BY <1>2, <1>3

(* A whole round further on, the remainder is the same. *)
LEMMA SameRemainder ==
    ASSUME NEW n \in Nat \ {0}, NEW a \in Nat
    PROVE  (a + n) % n = a % n
<1>1. a = n * (a \div n) + (a % n) /\ a \div n \in Int /\ a % n \in 0 .. n - 1
    OBVIOUS
<1>2. n * (a \div n + 1) = n * (a \div n) + n
    BY <1>1
<1>3. a + n = n * (a \div n + 1) + (a % n) /\ a \div n + 1 \in Int
    BY <1>1, <1>2
<1>4. (n * (a \div n + 1) + (a % n)) % n = a % n
    BY <1>1, <1>3, Remainder
<1> QED BY <1>3, <1>4

(* The k-th word of a run: a word of the pattern, the k-th itself in the   *)
(* first round, the one after the last and the same one a round later.     *)
LEMMA TurnFacts ==
    ASSUME wordLen \in Nat \ {0}, NEW k \in Nat \ {0}
    PROVE  /\ Turn(k) \in 1 .. wordLen
           /\ k <= wordLen => Turn(k) = k
           /\ Turn(k + 1) = IF Turn(k) = wordLen THEN 1 ELSE Turn(k) + 1
           /\ Turn(k + wordLen) = Turn(k)
<1>1. k - 1 \in Nat
    OBVIOUS
<1>2. /\ (k - 1) % wordLen \in 0 .. wordLen - 1
      /\ (k - 1 + 1) % wordLen
           = IF (k - 1) % wordLen = wordLen - 1 THEN 0 ELSE ((k - 1) % wordLen) + 1
    BY <1>1, NextRemainder
<1>3. (k - 1 + wordLen) % wordLen = (k - 1) % wordLen
    BY <1>1, SameRemainder
<1>4. k <= wordLen => (k - 1) % wordLen = k - 1
    BY <1>1, SmallRemainder
<1>5. k + 1 - 1 = k - 1 + 1 /\ k + wordLen - 1 = k - 1 + wordLen
    OBVIOUS
<1>6. /\ Turn(k) = ((k - 1) % wordLen) + 1
      /\ Turn(k + 1) = ((k - 1 + 1) % wordLen) + 1
      /\ Turn(k + wordLen) = ((k - 1 + wordLen) % wordLen) + 1
    BY <1>5 DEF Turn
<1> QED BY <1>2, <1>3, <1>4, <1>6

-----------------------------------------------------------------------------
(* Channels only fall silent and the words stay where they are. *)
Kept ==
    /\ UNCHANGED <<words, fifo, rd, left, count, sm0, prog, wordLen, loops, due>>
    /\ \A c \in Channels : (en'[c] => en[c]) /\ (busy'[c] => busy[c])
    /\ sm0 = "Swapping" => UNCHANGED req

(* A step leaves the words and the channels' way through them as they are, *)
(* or it is one of the seven that move them, or no pattern is played       *)
(* after it.                                                               *)
LEMMA StepKinds ==
    ASSUME IInv, [Next]_vars
    PROVE  \/ Kept
           \/ ~Streaming'
           \/ OutWord \/ BuildPattern \/ Launch
           \/ (DataTransfer \/ ReloadTransfer \/ Setup \/ Go)
                /\ UNCHANGED <<cpuVars, fields, smVars, history>>
<1>b. TypeOK /\ ControlInv /\ StopInv /\ QuietInv /\ FeedInv /\ RunInv /\ FreeInv /\ OnceInv
    BY DEF IInv
<1> USE DEF vars, ports, dmaVars, cpuVars, fields, smVars, history, channels
<1>1. CASE PullSeed
    BY <1>1 DEF PullSeed, Streaming
<1>2. CASE AbortData /\ UNCHANGED <<cpuVars, fields, smVars, history>>
    BY <1>b, <1>2
    DEF Kept, StopInv, TypeOK, DmaTypeOK, AbortData, Rechained, Bits, Channels, DATA, RELOAD
<1>3. CASE AbortReload /\ UNCHANGED <<cpuVars, fields, smVars, history>>
    BY <1>b, <1>3
    DEF Kept, StopInv, TypeOK, DmaTypeOK, AbortReload, Bits, Channels, DATA, RELOAD
<1>4. CASE Starve \/ MarkerStep \/ Service \/ EndPacket \/ Status \/ DmaStopped \/ Fed
    BY <1>4 DEF Kept, Starve, MarkerStep, Service, EndPacket, Status, DmaStopped, Fed
<1>5. CASE Commands
    BY <1>b, <1>5, DispatchStops
    DEF Kept, ControlInv, Commands, CmdStop, CmdToggle, CmdCount, CmdLoad, CmdPlay, CmdSynth
<1>6. CASE Halt \/ EndStop \/ WriteWords \/ BuildFree
    <2>1. CASE Halt
        BY <1>b, <2>1 DEF Streaming, ControlInv, TypeOK, EngineTypeOK, SmStates, Halt, HaltSm0
    <2>2. CASE EndStop \/ WriteWords
        BY <1>b, <2>2 DEF Streaming, ControlInv, EndStop, WriteWords
    <2>3. CASE BuildFree
        BY <2>3 DEF Streaming, BuildFree
    <2> QED BY <1>6, <2>1, <2>2, <2>3
<1>7. CASE Finish
    BY <1>b, <1>7 DEF Kept, ControlInv, Finish
<1>8. CASE (ChainData \/ ChainReload \/ Abort \/ WaitAbort \/ WaitData \/ WaitReload)
             /\ UNCHANGED <<cpuVars, fields, smVars, history>>
    BY <1>8 DEF Kept, At, ChainData, ChainReload, Abort, WaitAbort, WaitData, WaitReload
<1>9. CASE (ClearData \/ ClearReload) /\ UNCHANGED <<cpuVars, fields, smVars, history>>
    BY <1>b, <1>9
    DEF Kept, At, ClearData, ClearReload, TypeOK, DmaTypeOK, Channels, DATA, RELOAD
<1>10. CASE UNCHANGED vars
    BY <1>10 DEF Kept
<1> QED
    BY <1>1, <1>2, <1>3, <1>4, <1>5, <1>6, <1>7, <1>8, <1>9, <1>10
    DEF Next, Cpu, Hardware, DmaBlock, Driver

(* What a step that keeps the words keeps of the run. *)
LEMMA KeptRun ==
    ASSUME Kept, Streaming, TypeOK
    PROVE  First' = First /\ Round' = Round /\ UNCHANGED <<fifo, words, wordLen>>
BY DEF Kept, Streaming, First, Round, TypeOK, EngineTypeOK, SmStates

(* A transfer or an access of the driver leaves the run itself alone. *)
LEMMA ChannelStep ==
    ASSUME (DataTransfer \/ ReloadTransfer \/ Setup \/ Go)
             /\ UNCHANGED <<cpuVars, fields, smVars, history>>
    PROVE  First' = First /\ (Round' <=> Round) /\ (Streaming' <=> Streaming)
             /\ UNCHANGED <<words, wordLen, sm0>>
BY DEF DataTransfer, ReloadTransfer, Setup, Go, At, First, Round, Streaming, cpuVars, fields, smVars,
       history

(* What playing asks for is there: a request to play comes with a pattern. *)
LEMMA PlayHasPattern ==
    ASSUME IInv, FlowInv, [Next]_vars
    PROVE  (req.op = "play" => wordLen >= 1)'
<1>b. TypeOK /\ ControlInv /\ (req.op = "play" => wordLen >= 1)
    BY DEF IInv, FlowInv, SizeInv
<1> USE DEF vars, ports, dmaVars, cpuVars, fields, smVars, history, channels
<1>1. CASE Commands
    <2>1. CASE CmdPlay
        BY <1>b, <2>1 DEF CmdPlay, Dispatch, TypeOK, EngineTypeOK
    <2>2. CASE CmdStop \/ CmdToggle \/ CmdCount \/ CmdLoad \/ CmdSynth
        BY <2>2, DispatchStops DEF CmdStop, CmdToggle, CmdCount, CmdLoad, CmdSynth
    <2> QED BY <1>1, <2>1, <2>2 DEF Commands
<1>2. CASE WriteWords
    <2>1. Loadable(req.pattern) /\ req.pattern \in Seq(Word)
        BY <1>b, <1>2 DEF WriteWords, ControlInv, TypeOK, CpuTypeOK
    <2>2. wordLen' = Len(req.pattern) /\ Len(req.pattern) \in Nat \ {0}
        BY <1>2, <2>1, LenProperties, EmptySeq DEF WriteWords, Loadable
    <2> QED BY <2>2
<1>3. CASE EndStop \/ Finish
    <2>1. req' = Request("none", <<>>, FALSE)
        BY <1>3 DEF EndStop, Finish, Return, NoReq
    <2>2. req'.op = "none"
        BY <2>1 DEF Request
    <2> QED BY <2>2
<1>4. CASE UNCHANGED <<req, wordLen>>
    BY <1>b, <1>4
<1> QED
    BY <1>1, <1>2, <1>3, <1>4
    DEF Next, Cpu, Hardware, DmaBlock, Driver, OutWord, PullSeed, Starve, MarkerStep, Service,
        EndPacket, Status, DmaStopped, Halt, BuildFree, BuildPattern, Fed, Launch

(* A one-shot that fits the FIFO is preloaded: what is fed by the channels *)
(* finds the FIFO empty.                                                   *)
LEMMA BuildFacts ==
    ASSUME IInv, FlowInv, BuildPattern
    PROVE  /\ fifo = <<>> /\ Quiet /\ wordLen \in Nat /\ wordLen >= 1
           /\ pc' \in {"launch", "feeding"} /\ sm0' = "Swapping" /\ UNCHANGED <<req, words, wordLen, channels>>
           /\ pc' = "launch" => ~req.looping /\ fifo' = <<>> \o [i \in 1 .. wordLen |-> words[i]]
           /\ pc' = "feeding" =>
                fifo' = <<>> /\ dpc' = "chain_data" /\ job' = StartJob(wordLen, req.looping)
<1>b. TypeOK /\ ControlInv /\ QuietInv /\ (req.op = "play" => wordLen >= 1)
    BY DEF IInv, FlowInv, SizeInv
<1>1. sm0 = "Idle" /\ fifo = <<>> /\ Len(fifo) = 0 /\ Quiet /\ wordLen \in Nat /\ wordLen >= 1
    BY <1>b, EmptyFifo, DmaAssumption DEF BuildPattern, ControlInv, QuietInv, TypeOK, EngineTypeOK
<1>2. Preloadable => Fits
    BY <1>1, BusAssumption, DmaAssumption DEF Preloadable, Fits
<1>3. CASE PreloadedAll
    BY <1>1, <1>3
    DEF BuildPattern, PreloadedAll, Preloadable, Preloading, TakeSm0, fields, dmaVars
<1>4. CASE ~PreloadedAll
    BY <1>1, <1>2, <1>4
    DEF BuildPattern, PreloadedAll, TakeSm0, EnterDma, fields
<1> QED BY <1>3, <1>4

(* The word a transfer takes from the buffer is the one that follows the   *)
(* last word of the FIFO, and the channel then stands at the next one.     *)
LEMMA TransferFacts ==
    ASSUME ReloadFirst, IInv, FlowInv, Streaming, DataTransfer,
           UNCHANGED <<cpuVars, fields, smVars, history>>
    PROVE  /\ fifo' = Append(fifo, words[Turn(First + Len(fifo))]) /\ Len(fifo) \in Nat
           /\ First \in Nat \ {0} /\ wordLen \in Nat \ {0}
           /\ First + Len(fifo) \in Nat \ {0} /\ Len(fifo') = Len(fifo) + 1
           /\ ~busy[RELOAD] /\ rd = Turn(First + Len(fifo)) /\ left = wordLen + 1 - rd
           /\ rd' = rd + 1 /\ left' = left - 1 /\ UNCHANGED <<en, count>>
           /\ busy'[DATA] => left # 1
           /\ busy'[RELOAD] => left = 1 /\ en[RELOAD]
<1>b. TypeOK /\ FeedInv /\ SizeInv /\ FollowInv
    BY DEF IInv, FlowInv
<1>1. busy[DATA] /\ ~busy[RELOAD] /\ rd = Turn(First + Len(fifo)) /\ left = wordLen + 1 - rd
    BY <1>b DEF DataTransfer, FollowInv
<1>2. fifo \in Seq(Word) /\ words[rd] \in Word
    BY <1>b, <1>1, DmaAssumption DEF TypeOK, DmaTypeOK, FeedInv
<1>3. fifo' = Append(fifo, words[rd]) /\ Len(fifo') = Len(fifo) + 1 /\ Len(fifo) \in Nat
    BY <1>2, Appended DEF DataTransfer
<1>4. wordLen \in Nat \ {0} /\ First \in Nat \ {0}
    BY <1>b, DmaAssumption DEF SizeInv, TypeOK, EngineTypeOK
<1>5. First + Len(fifo) \in Nat \ {0}
    BY <1>3, <1>4
<1>6. /\ rd' = rd + 1 /\ left' = left - 1 /\ UNCHANGED <<en, count>>
      /\ busy'[DATA] => left # 1
      /\ busy'[RELOAD] => left = 1 /\ en[RELOAD]
    BY <1>1
    DEF DataTransfer, LastTransfer, Rechained, Triggered, Bits, Channels, DATA, RELOAD
<1> QED BY <1>1, <1>3, <1>4, <1>5, <1>6

(* The word due is at the head of the FIFO, and the turn passes to the     *)
(* word behind it.                                                         *)
LEMMA OutFacts ==
    ASSUME IInv, FlowInv, OutWord
    PROVE  /\ Streaming /\ Streaming' /\ wordLen \in Nat \ {0} /\ First = due /\ First' = due'
           /\ Round = loops /\ Round' = loops /\ UNCHANGED <<words, wordLen, en, busy, rd, left, count>>
           /\ fifo' = Tail(fifo) /\ Len(fifo) \in Nat /\ Len(fifo) >= 1
           /\ Len(fifo') = Len(fifo) - 1
           /\ \A i \in 1 .. Len(fifo') : fifo'[i] = fifo[i + 1]
           /\ due \in 1 .. wordLen /\ pins' = words[due]
           /\ due' \in 1 .. wordLen + 1 /\ (loops => due' <= wordLen)
           /\ \A k \in Nat : Turn(due' + k) = Turn(due + 1 + k)
           /\ ~loops => due' = due + 1
<1>b. TypeOK /\ SizeInv /\ OrderInv /\ OneShotInv
    BY DEF IInv, FlowInv
<1>1. Streaming /\ Streaming' /\ First = due /\ First' = due' /\ Round = loops /\ Round' = loops
      /\ UNCHANGED <<words, wordLen, en, busy, rd, left, count>>
    BY DEF OutWord, Streaming, First, Round, dmaVars, channels, fields
<1>2. wordLen \in Nat \ {0} /\ due \in 1 .. wordLen + 1 /\ (loops => due <= wordLen)
    BY <1>b, <1>1, DmaAssumption DEF SizeInv, TypeOK, EngineTypeOK
<1>3. /\ fifo' = Tail(fifo) /\ Len(fifo) \in Nat /\ Len(fifo) >= 1 /\ Len(fifo') = Len(fifo) - 1
      /\ pins' = fifo[1]
      /\ \A i \in 1 .. Len(fifo') : fifo'[i] = fifo[i + 1]
    <2>1. fifo \in Seq(Word) /\ fifo # <<>> /\ fifo' = Tail(fifo) /\ pins' = Head(fifo)
        BY <1>b DEF OutWord, TypeOK, DmaTypeOK
    <2> QED BY <2>1, HeadTailProperties, LenProperties
<1>4. due <= wordLen
    <2>1. CASE loops
        BY <1>2, <2>1
    <2>2. CASE ~loops
        BY <1>b, <1>1, <1>2, <1>3, <2>2 DEF OneShotInv
    <2> QED BY <2>1, <2>2
<1>5. pins' = words[due]
    <2>1. fifo[1] = words[Turn(due + 1 - 1)]
        BY <1>b, <1>1, <1>3 DEF OrderInv
    <2>2. Turn(due) = due /\ due + 1 - 1 = due
        BY <1>2, <1>4, TurnFacts
    <2> QED BY <1>3, <2>1, <2>2
<1>6. due' = IF loops /\ due = wordLen THEN 1 ELSE due + 1
    BY DEF OutWord
<1>7. \A k \in Nat : Turn(due' + k) = Turn(due + 1 + k)
    <2>1. SUFFICES ASSUME NEW k \in Nat, loops, due = wordLen PROVE Turn(1 + k) = Turn(wordLen + 1 + k)
        BY <1>2, <1>6
    <2>2. 1 + k \in Nat \ {0} /\ 1 + k + wordLen = wordLen + 1 + k
        BY <1>2
    <2> QED BY <1>2, <2>2, TurnFacts
<1> QED BY <1>1, <1>2, <1>3, <1>4, <1>5, <1>6, <1>7

(* The run stays within its pattern. *)
LEMMA SizeInvStep ==
    ASSUME IInv, FlowInv, [Next]_vars
    PROVE  SizeInv'
<1>b. TypeOK /\ ControlInv /\ StopInv /\ QuietInv /\ SizeInv
    BY DEF IInv, FlowInv
<1>1. (Streaming => wordLen >= 1 /\ First \in 1 .. wordLen + 1)' /\ (Streaming /\ Round => First <= wordLen)'
    <2>1. CASE Kept
        BY <1>b, <2>1, KeptRun DEF SizeInv, Kept, Streaming
    <2>2. CASE ~Streaming'
        BY <2>2
    <2>3. CASE OutWord
        BY <2>3, OutFacts
    <2>4. CASE BuildPattern
        BY <2>4, BuildFacts DEF First
    <2>5. CASE Launch
        BY <1>b, <2>5 DEF SizeInv, ControlInv, Launch, NewRun, Streaming, First, Round, fields
    <2>6. CASE (DataTransfer \/ ReloadTransfer \/ Setup \/ Go)
                  /\ UNCHANGED <<cpuVars, fields, smVars, history>>
        BY <1>b, <2>6, ChannelStep DEF SizeInv
    <2> QED BY <2>1, <2>2, <2>3, <2>4, <2>5, <2>6, StepKinds
<1>2. (pc = "feeding" /\ dpc # "idle" =>
          fifo = <<>> /\ job.len = wordLen /\ job.looping = req.looping)'
    <2> USE DEF vars, ports, dmaVars, cpuVars, fields, smVars, history, channels
    <2>1. CASE BuildPattern
        BY <2>1, BuildFacts DEF StartJob
    <2>2. CASE Hardware
        <3>1. CASE pc = "feeding" /\ dpc # "idle"
            <4>1. ~busy[DATA] /\ sm0 = "Swapping"
                BY <1>b, <3>1 DEF StopInv, QuietInv, ControlInv, Quiet, Channels
            <4>2. UNCHANGED <<fifo, job, wordLen, req>>
                BY <2>2, <4>1
                DEF Hardware, DmaBlock, OutWord, PullSeed, Starve, MarkerStep, DataTransfer,
                    ReloadTransfer, AbortData, AbortReload
            <4> QED BY <1>b, <3>1, <4>2 DEF SizeInv
        <3>2. CASE ~(pc = "feeding" /\ dpc # "idle")
            BY <2>2, <3>2
            DEF Hardware, DmaBlock, OutWord, PullSeed, Starve, MarkerStep, DataTransfer,
                ReloadTransfer, AbortData, AbortReload
        <3> QED BY <3>1, <3>2
    <2>3. CASE Driver /\ UNCHANGED <<cpuVars, fields, smVars, history>>
        <3>1. dpc # "idle" /\ UNCHANGED <<fifo, job, pc, wordLen, req>>
            BY <2>3
            DEF Driver, At, ChainData, ChainReload, Abort, WaitAbort, WaitData, ClearData, WaitReload,
                ClearReload, Setup, Go
        <3> QED BY <1>b, <3>1 DEF SizeInv
    <2>4. CASE Commands
        BY <2>4, DispatchStops
        DEF Commands, CmdStop, CmdToggle, CmdCount, CmdLoad, CmdPlay, CmdSynth
    <2>5. CASE UNCHANGED vars
        BY <1>b, <2>5 DEF SizeInv
    <2>6. CASE Service \/ EndPacket \/ Status \/ DmaStopped \/ Halt \/ EndStop \/ WriteWords
                 \/ BuildFree \/ Fed \/ Launch \/ Finish
        <3>1. pc' # "feeding"
            BY <2>6
            DEF Service, EndPacket, Status, DmaStopped, Halt, EndStop, WriteWords, BuildFree, TakeSm0,
                Fed, Launch, Finish, Return, CallStop
        <3> QED BY <3>1
    <2> QED BY <2>1, <2>2, <2>3, <2>4, <2>5, <2>6 DEF Next, Cpu
<1> QED BY <1>1, <1>2, PlayHasPattern DEF SizeInv

(* The words stay in turn.                                                 *)
LEMMA OrderInvStep ==
    ASSUME ReloadFirst, IInv, FlowInv, [Next]_vars
    PROVE  OrderInv'
<1>b. TypeOK /\ ControlInv /\ StopInv /\ QuietInv /\ SizeInv /\ OrderInv
    BY DEF IInv, FlowInv
<1>1. CASE Kept
    <2>1. SUFFICES ASSUME Streaming' PROVE OrderInv'
        BY DEF OrderInv
    <2>2. Streaming
        BY <1>1, <2>1 DEF Kept, Streaming
    <2>3. First' = First /\ UNCHANGED <<fifo, words, wordLen>>
        BY <1>1, <1>b, <2>2, KeptRun
    <2> QED BY <1>b, <2>2, <2>3 DEF OrderInv, Turn
<1>2. CASE ~Streaming'
    BY <1>2 DEF OrderInv
<1>3. CASE OutWord
    <2>1. SUFFICES ASSUME NEW i \in 1 .. Len(fifo')
                   PROVE  fifo'[i] = words[Turn(due' + i - 1)]
        BY <1>3, OutFacts DEF OrderInv, Turn
    <2>2. Len(fifo) \in Nat /\ Len(fifo') = Len(fifo) - 1 /\ fifo'[i] = fifo[i + 1]
        BY <1>3, <2>1, OutFacts
    <2>3. i + 1 \in 1 .. Len(fifo)
        BY <2>1, <2>2
    <2>4. fifo[i + 1] = words[Turn(due + (i + 1) - 1)]
        BY <1>b, <1>3, <2>3, OutFacts DEF OrderInv
    <2>5. due' + i - 1 = due' + (i - 1) /\ due + (i + 1) - 1 = due + 1 + (i - 1) /\ i - 1 \in Nat
        BY <1>3, <2>1, <2>2, OutFacts
    <2>6. Turn(due' + (i - 1)) = Turn(due + 1 + (i - 1))
        BY <1>3, <2>5, OutFacts
    <2> QED BY <2>2, <2>4, <2>5, <2>6
<1>4. CASE BuildPattern
    <2>1. First' = 1 /\ wordLen \in Nat \ {0} /\ UNCHANGED <<words, wordLen>>
        BY <1>4, BuildFacts DEF First
    <2>2. SUFFICES ASSUME NEW i \in 1 .. Len(fifo') PROVE fifo'[i] = words[Turn(i)]
        BY <2>1 DEF OrderInv, Turn
    <2>3. CASE pc' = "feeding"
        BY <1>4, <2>2, <2>3, BuildFacts, EmptyFifo
    <2>4. CASE pc' = "launch"
        <3>1. DEFINE f == [j \in 1 .. wordLen |-> words[j]]
        <3>2. wordLen <= Capacity
            BY <1>b DEF TypeOK, EngineTypeOK
        <3>3. \A j \in 1 .. wordLen : words[j] \in Word
            BY <1>b, <2>1, <3>2, DmaAssumption DEF TypeOK, DmaTypeOK
        <3>4. f \in Seq(Word) /\ Len(f) = wordLen
            BY <2>1, <3>3, FunctionIsSeq
        <3>5. fifo' = f
            BY <1>4, <2>4, <3>4, BuildFacts, ConcatEmptySeq
        <3>6. i \in 1 .. wordLen
            BY <2>2, <3>4, <3>5
        <3>7. Turn(i) = i /\ f[i] = words[i]
            BY <2>1, <3>6, TurnFacts
        <3> QED BY <3>5, <3>7
    <2> QED BY <1>4, <2>3, <2>4, BuildFacts
<1>5. CASE Launch
    <2>1. First' = 1 /\ UNCHANGED <<fifo, words, wordLen, prog>> /\ sm0 = "Swapping"
        BY <1>b, <1>5 DEF ControlInv, Launch, NewRun, First, ports, fields
    <2>2. First = 1 /\ (Streaming' => Streaming)
        BY <2>1 DEF First, Streaming
    <2> QED BY <1>b, <2>1, <2>2 DEF OrderInv, Turn
<1>6. CASE DataTransfer /\ UNCHANGED <<cpuVars, fields, smVars, history>>
    <2>1. SUFFICES ASSUME Streaming' PROVE OrderInv'
        BY DEF OrderInv
    <2>2. Streaming /\ First' = First /\ UNCHANGED <<words, wordLen>>
        BY <1>6, <2>1, ChannelStep
    <2>3. /\ fifo' = Append(fifo, words[Turn(First + Len(fifo))]) /\ Len(fifo) \in Nat
          /\ Len(fifo') = Len(fifo) + 1 /\ First \in Nat
        BY <1>6, <2>2, TransferFacts
    <2>4. SUFFICES ASSUME NEW i \in 1 .. Len(fifo) + 1 PROVE fifo'[i] = words[Turn(First + i - 1)]
        BY <2>2, <2>3 DEF OrderInv, Turn
    <2>5. CASE i = Len(fifo) + 1
        <3>1. First + i - 1 = First + Len(fifo)
            BY <2>3, <2>5
        <3>2. fifo'[i] = words[Turn(First + Len(fifo))]
            BY <1>b, <2>3, <2>5 DEF TypeOK, DmaTypeOK
        <3> QED BY <3>1, <3>2
    <2>6. CASE i # Len(fifo) + 1
        <3>1. i \in 1 .. Len(fifo)
            BY <2>3, <2>4, <2>6
        <3>2. fifo'[i] = fifo[i]
            BY <1>b, <2>3, <3>1 DEF TypeOK, DmaTypeOK
        <3> QED BY <1>b, <2>2, <3>1, <3>2 DEF OrderInv
    <2> QED BY <2>5, <2>6
<1>7. CASE (ReloadTransfer \/ Setup \/ Go) /\ UNCHANGED <<cpuVars, fields, smVars, history>>
    <2>1. First' = First /\ (Streaming' <=> Streaming) /\ UNCHANGED <<words, wordLen>>
        BY <1>7, ChannelStep
    <2>2. fifo' = fifo
        BY <1>7 DEF ReloadTransfer, Setup, Go, At
    <2> QED BY <1>b, <2>1, <2>2 DEF OrderInv, Turn
<1> QED BY <1>1, <1>2, <1>3, <1>4, <1>5, <1>6, <1>7, StepKinds

(* The data channel stays right behind the FIFO, and is reloaded when the  *)
(* turn is back at the first word.                                         *)
LEMMA FollowInvStep ==
    ASSUME ReloadFirst, IInv, FlowInv, [Next]_vars
    PROVE  FollowInv'
<1>b. TypeOK /\ ControlInv /\ StopInv /\ QuietInv /\ SizeInv /\ FollowInv
    BY DEF IInv, FlowInv
<1>c. Streaming' /\ Streaming => wordLen \in Nat \ {0} /\ First \in Nat \ {0} /\ Len(fifo) \in Nat
    BY <1>b, DmaAssumption, LenProperties DEF SizeInv, TypeOK, DmaTypeOK, EngineTypeOK
<1>1. CASE Kept
    <2>1. SUFFICES ASSUME Streaming' PROVE FollowInv'
        BY DEF FollowInv
    <2>2. Streaming
        BY <1>1, <2>1 DEF Kept, Streaming
    <2>3. First' = First /\ UNCHANGED <<fifo, wordLen, rd, left, count>>
        BY <1>1, <1>b, <2>2, KeptRun DEF Kept
    <2>4. (en'[DATA] => en[DATA]) /\ (busy'[DATA] => busy[DATA]) /\ (busy'[RELOAD] => busy[RELOAD])
        BY <1>1 DEF Kept, Channels
    <2> QED BY <1>b, <2>2, <2>3, <2>4 DEF FollowInv, Turn
<1>2. CASE ~Streaming'
    BY <1>2 DEF FollowInv
<1>3. CASE OutWord
    <2>1. Turn(due' + (Len(fifo) - 1)) = Turn(due + 1 + (Len(fifo) - 1))
        BY <1>3, OutFacts
    <2>2. due' + Len(fifo') = due' + (Len(fifo) - 1) /\ due + 1 + (Len(fifo) - 1) = due + Len(fifo)
        <3>1. due \in Nat /\ Len(fifo) \in Nat /\ Len(fifo') = Len(fifo) - 1
            BY <1>3, OutFacts
        <3> QED BY <3>1
    <2>3. Turn(First + Len(fifo))' = Turn(First + Len(fifo))
        BY <1>3, <2>1, <2>2, OutFacts DEF Turn
    <2> QED BY <1>b, <1>3, <2>3, OutFacts DEF FollowInv
<1>4. CASE BuildPattern
    <2>1. ~en'[DATA] /\ ~busy'[DATA] /\ ~busy'[RELOAD]
        BY <1>4, BuildFacts DEF Quiet, Channels, channels
    <2> QED BY <2>1 DEF FollowInv
<1>5. CASE Launch
    <2>1. First' = 1 /\ UNCHANGED <<fifo, wordLen, prog, en, busy, rd, left, count>> /\ sm0 = "Swapping"
        BY <1>b, <1>5 DEF ControlInv, Launch, NewRun, First, ports, fields, dmaVars, channels
    <2>2. First = 1 /\ (Streaming' => Streaming)
        BY <2>1 DEF First, Streaming
    <2> QED BY <1>b, <2>1, <2>2 DEF FollowInv, Turn
<1>6. CASE DataTransfer /\ UNCHANGED <<cpuVars, fields, smVars, history>>
    <2>1. SUFFICES ASSUME Streaming' PROVE FollowInv'
        BY DEF FollowInv
    <2>2. Streaming /\ First' = First /\ UNCHANGED wordLen
        BY <1>6, <2>1, ChannelStep
    <2>3. DEFINE k == First + Len(fifo)
    <2>4. /\ k \in Nat \ {0} /\ First \in Nat /\ Len(fifo) \in Nat /\ Len(fifo') = Len(fifo) + 1
          /\ wordLen \in Nat \ {0} /\ rd = Turn(k) /\ left = wordLen + 1 - rd
          /\ rd' = rd + 1 /\ left' = left - 1 /\ UNCHANGED <<en, count>>
          /\ (busy'[DATA] => left # 1) /\ (busy'[RELOAD] => left = 1)
        BY <1>6, <2>2, TransferFacts
    <2>5. Turn(k) \in 1 .. wordLen /\ Turn(k + 1) = IF Turn(k) = wordLen THEN 1 ELSE Turn(k) + 1
        BY <2>4, TurnFacts
    <2>6. Turn(First + Len(fifo))' = Turn(k + 1)
        <3>1. First + (Len(fifo) + 1) = k + 1
            BY <2>4
        <3> QED BY <2>2, <2>4, <3>1 DEF Turn
    <2> HIDE DEF k
    <2>7. busy'[DATA] => rd' = Turn(k + 1) /\ left' = wordLen + 1 - rd'
        BY <2>4, <2>5
    <2>8. busy'[RELOAD] => Turn(k + 1) = 1
        BY <2>4, <2>5
    <2>9. en'[DATA] => count' = wordLen'
        BY <1>b, <2>2, <2>4 DEF FollowInv
    <2> QED BY <2>2, <2>6, <2>7, <2>8, <2>9 DEF FollowInv
<1>7. CASE (ReloadTransfer \/ Setup \/ Go) /\ UNCHANGED <<cpuVars, fields, smVars, history>>
    <2>1. SUFFICES ASSUME Streaming' PROVE FollowInv'
        BY DEF FollowInv
    <2>2. First' = First /\ Streaming /\ UNCHANGED wordLen
        BY <1>7, <2>1, ChannelStep
    <2>3. fifo' = fifo
        BY <1>7 DEF ReloadTransfer, Setup, Go, At
    <2>4. Turn(First + Len(fifo))' = Turn(First + Len(fifo))
        BY <2>2, <2>3 DEF Turn
    <2>5. CASE ReloadTransfer
        <3>1. Turn(First + Len(fifo)) = 1 /\ (en[DATA] => count = wordLen) /\ rd' = 1 /\ ~busy'[RELOAD]
            BY <1>b, <2>2, <2>5 DEF FollowInv, ReloadTransfer, Bits, Channels, DATA, RELOAD
        <3>2. UNCHANGED <<en, count>>
            BY <2>5 DEF ReloadTransfer
        <3>3. busy'[DATA] => left' = wordLen
            <4>1. CASE busy[DATA]
                <5>1. left' = left /\ left = wordLen + 1 - rd /\ rd = 1
                    BY <1>b, <2>2, <2>5, <3>1, <4>1 DEF FollowInv, ReloadTransfer, Triggered
                <5> QED BY <1>c, <2>1, <2>2, <5>1
            <4>2. CASE ~busy[DATA]
                BY <2>5, <3>1, <4>2
                DEF ReloadTransfer, Triggered, Bits, Channels, DATA, RELOAD
            <4> QED BY <4>1, <4>2
        <3> QED BY <1>c, <2>1, <2>2, <2>4, <3>1, <3>2, <3>3 DEF FollowInv
    <2>6. dpc \in {"setup", "go"} => Turn(First + Len(fifo)) = 1 /\ job.len = wordLen /\ Len(fifo) = 0
        <3>1. SUFFICES ASSUME dpc \in {"setup", "go"} PROVE Turn(First + Len(fifo)) = 1 /\ job.len = wordLen /\ Len(fifo) = 0
            OBVIOUS
        <3>2. pc = "feeding" /\ sm0 = "Swapping" /\ fifo = <<>> /\ job.len = wordLen
            BY <1>b, <3>1 DEF ControlInv, SizeInv
        <3>3. First + Len(fifo) = 1
            BY <3>2, EmptyFifo DEF First
        <3> QED BY <1>c, <2>1, <2>2, <3>2, <3>3, EmptyFifo, TurnFacts
    <2>7. CASE Setup
        <3>1. Quiet /\ dpc = "setup"
            BY <1>b, <2>7 DEF StopInv, Setup, At
        <3>2. ~en'[DATA] /\ ~busy'[DATA]
            BY <1>b, <2>7, <3>1
            DEF Setup, ArmReload, Quiet, Channels, DATA, RELOAD, TypeOK, DmaTypeOK
        <3> QED BY <2>4, <2>6, <3>1, <3>2 DEF FollowInv
    <2>8. CASE Go
        <3>1. dpc = "go" /\ rd = 1 /\ count = job.len
            BY <1>b, <2>8 DEF StopInv, Go, At
        <3>2. rd' = 1 /\ count' = wordLen /\ left' = wordLen
            BY <2>6, <2>8, <3>1 DEF Go
        <3> QED BY <1>c, <2>1, <2>2, <2>4, <2>6, <3>1, <3>2 DEF FollowInv
    <2> QED BY <1>7, <2>5, <2>7, <2>8
<1> QED BY <1>1, <1>2, <1>3, <1>4, <1>5, <1>6, <1>7, StepKinds

(* A one-shot ends with its last word, and nothing reloads it.             *)
LEMMA OneShotInvStep ==
    ASSUME ReloadFirst, IInv, FlowInv, [Next]_vars
    PROVE  OneShotInv'
<1>b. TypeOK /\ ControlInv /\ StopInv /\ SizeInv /\ OneShotInv
    BY DEF IInv, FlowInv
<1>1. CASE Kept
    <2>1. SUFFICES ASSUME Streaming', ~Round' PROVE OneShotInv'
        BY DEF OneShotInv
    <2>2. Streaming
        BY <1>1, <2>1 DEF Kept, Streaming
    <2>3. First' = First /\ Round' = Round /\ UNCHANGED <<fifo, wordLen>>
        BY <1>1, <1>b, <2>2, KeptRun
    <2>4. \A c \in {DATA, RELOAD} : (en'[c] => en[c]) /\ (busy'[c] => busy[c])
        BY <1>1 DEF Kept, Channels
    <2> QED BY <1>b, <2>1, <2>2, <2>3, <2>4 DEF OneShotInv
<1>2. CASE ~Streaming'
    BY <1>2 DEF OneShotInv
<1>3. CASE OutWord
    <2>1. SUFFICES ASSUME ~Round' PROVE OneShotInv'
        BY DEF OneShotInv
    <2>2. /\ due' = due + 1 /\ Len(fifo') = Len(fifo) - 1 /\ Len(fifo) \in Nat /\ due \in Nat
          /\ First = due /\ First' = due' /\ Streaming /\ ~Round /\ UNCHANGED <<wordLen, en, busy>>
        BY <1>3, <2>1, OutFacts
    <2>3. First' + Len(fifo') = First + Len(fifo)
        BY <2>2
    <2> QED BY <1>b, <2>2, <2>3 DEF OneShotInv
<1>4. CASE BuildPattern
    <2>1. /\ First' = 1 /\ wordLen \in Nat \ {0} /\ wordLen' = wordLen
          /\ \A c \in {DATA, RELOAD} : ~en'[c] /\ ~busy'[c]
        BY <1>4, BuildFacts DEF First, Quiet, Channels, channels
    <2>2. Len(fifo') \in 0 .. wordLen
        <3>1. CASE pc' = "feeding"
            BY <1>4, <2>1, <3>1, BuildFacts, EmptyFifo
        <3>2. CASE pc' = "launch"
            <4>1. fifo' = <<>> \o [i \in 1 .. wordLen |-> words[i]] /\ fifo = <<>> /\ wordLen \in 0 .. Capacity
                BY <1>b, <1>4, <3>2, BuildFacts DEF TypeOK, EngineTypeOK
            <4>2. Len(fifo') = wordLen
                BY <1>b, <4>1, Preload
            <4> QED BY <2>1, <4>2
        <3> QED BY <1>4, <3>1, <3>2, BuildFacts
    <2>3. First' + Len(fifo') <= wordLen' + 1
        BY <2>1, <2>2
    <2> QED BY <2>1, <2>3 DEF OneShotInv
<1>5. CASE Launch
    <2>1. /\ First' = 1 /\ Round' = req.looping /\ sm0 = "Swapping"
          /\ UNCHANGED <<fifo, wordLen, prog, en, busy>>
        BY <1>b, <1>5
        DEF ControlInv, Launch, NewRun, First, Round, ports, fields, dmaVars, channels
    <2>2. First = 1 /\ Round = req.looping /\ (Streaming' => Streaming)
        BY <2>1 DEF First, Round, Streaming
    <2> QED BY <1>b, <2>1, <2>2 DEF OneShotInv
<1>6. CASE DataTransfer /\ UNCHANGED <<cpuVars, fields, smVars, history>>
    <2>1. SUFFICES ASSUME Streaming', ~Round' PROVE OneShotInv'
        BY DEF OneShotInv
    <2>2. Streaming /\ ~Round /\ First' = First /\ UNCHANGED wordLen
        BY <1>6, <2>1, ChannelStep
    <2>3. DEFINE k == First + Len(fifo)
    <2>4. k <= wordLen /\ ~en[RELOAD]
        BY <1>b, <1>6, <2>2 DEF OneShotInv, DataTransfer
    <2>5. /\ k \in Nat \ {0} /\ First \in Nat /\ Len(fifo) \in Nat /\ Len(fifo') = Len(fifo) + 1
          /\ wordLen \in Nat \ {0} /\ rd = Turn(k) /\ left = wordLen + 1 - rd
          /\ UNCHANGED en
          /\ (busy'[DATA] => left # 1) /\ (busy'[RELOAD] => en[RELOAD])
        BY <1>6, <2>2, TransferFacts
    <2>6. rd = k
        BY <2>4, <2>5, TurnFacts
    <2>7. First + Len(fifo') = k + 1
        BY <2>5
    <2> HIDE DEF k
    <2>8. k + 1 <= wordLen + 1 /\ (busy'[DATA] => k + 1 <= wordLen)
        BY <2>4, <2>5, <2>6
    <2> QED BY <2>2, <2>4, <2>5, <2>7, <2>8 DEF OneShotInv
<1>7. CASE (ReloadTransfer \/ Setup \/ Go) /\ UNCHANGED <<cpuVars, fields, smVars, history>>
    <2>1. SUFFICES ASSUME Streaming', ~Round' PROVE OneShotInv'
        BY DEF OneShotInv
    <2>2. Streaming /\ ~Round /\ First' = First /\ UNCHANGED wordLen
        BY <1>7, <2>1, ChannelStep
    <2>3. fifo' = fifo
        BY <1>7 DEF ReloadTransfer, Setup, Go, At
    <2>4. CASE ReloadTransfer
        BY <1>b, <2>2, <2>4 DEF OneShotInv, ReloadTransfer
    <2>5. dpc \in {"setup", "go"} => First = 1 /\ Len(fifo) = 0 /\ ~job.looping
        BY <1>b, <2>2, EmptyFifo DEF ControlInv, SizeInv, First, Round
    <2>6. CASE Setup
        BY <1>b, <2>2, <2>3, <2>5, <2>6 DEF OneShotInv, Setup, At, ArmReload
    <2>7. CASE Go
        <3>1. ~en'[RELOAD] /\ ~busy'[RELOAD]
            BY <1>b, <2>2, <2>7 DEF OneShotInv, Go, DATA, RELOAD
        <3>2. First + Len(fifo) <= wordLen
            BY <1>b, <2>2, <2>5, <2>7, DmaAssumption DEF SizeInv, Go, At
        <3> QED BY <1>b, <2>2, <2>3, <3>1, <3>2 DEF OneShotInv
    <2> QED BY <1>7, <2>4, <2>6, <2>7
<1> QED BY <1>1, <1>2, <1>3, <1>4, <1>5, <1>6, <1>7, StepKinds

-----------------------------------------------------------------------------
(* Nothing is played at first. *)
LEMMA InitFlowInv == Init => FlowInv
BY DEF Init, DmaInit, NoReq, Request, FlowInv, SizeInv, OrderInv, FollowInv, OneShotInv, Streaming

(* Whenever a pattern is played, its next words are in their places.       *)
THEOREM FlowInvariance == ASSUME ReloadFirst PROVE Spec => [](IInv /\ FlowInv)
<1>1. Init => IInv /\ FlowInv
    BY InitIInv, InitFlowInv
<1>2. (IInv /\ FlowInv) /\ [Next]_vars => (IInv /\ FlowInv)'
    BY IInvInductive, SizeInvStep, OrderInvStep, FollowInvStep, OneShotInvStep DEF FlowInv
<1> QED BY <1>1, <1>2, PTL DEF Spec

(* Whatever ran before and however fast the channels were, the FIFO a      *)
(* pattern program starts on holds the pattern's words and no others, from *)
(* its first one on (bus.rs:265-302).                                      *)
THEOREM LaunchesClean == ASSUME ReloadFirst PROVE Spec => []CleanLaunch
<1>1. IInv /\ FlowInv => CleanLaunch
    <2>1. SUFFICES ASSUME IInv, FlowInv, pc = "launch", prog = "pattern", NEW i \in 1 .. Len(fifo)
                   PROVE  fifo[i] = words[((i - 1) % wordLen) + 1]
        BY DEF CleanLaunch
    <2>2. Streaming /\ First = 1
        BY <2>1 DEF IInv, ControlInv, Streaming, First
    <2>3. fifo[i] = words[Turn(1 + i - 1)]
        BY <2>1, <2>2 DEF FlowInv, OrderInv
    <2>4. 1 + i - 1 = i
        BY <2>1, LenProperties DEF IInv, TypeOK, DmaTypeOK
    <2> QED BY <2>3, <2>4 DEF Turn
<1> QED BY <1>1, FlowInvariance, PTL

-----------------------------------------------------------------------------
(* The refinement: what Stream's source and due are in the engine. *)
Source ==
    IF sm0 # "Running" THEN [kind |-> "silence", words |-> <<>>, looping |-> FALSE]
    ELSE IF prog = "pattern" THEN [kind |-> "pattern", words |-> Loaded, looping |-> loops]
    ELSE [kind |-> "signal", looping |-> FALSE, words |-> <<IF prog = "toggle" THEN Wave ELSE Codes>>]
Due == IF sm0 = "Running" THEN due ELSE 1

(* What plays, how far it is and what the pins carry change in four        *)
(* actions only.                                                           *)
LEMMA PinsKept ==
    ASSUME IInv, [Next]_vars, ~OutWord, ~PullSeed, ~Halt, ~Launch
    PROVE  UNCHANGED <<Source, Due, pins>>
<1>b. TypeOK /\ ControlInv
    BY DEF IInv
<1> USE DEF vars, ports, dmaVars, cpuVars, fields, smVars, history, channels
<1>1. CASE WriteWords \/ BuildFree \/ BuildPattern
    <2>1. sm0 # "Running" /\ sm0' # "Running" /\ pins' = pins
        BY <1>b, <1>1 DEF ControlInv, WriteWords, BuildFree, BuildPattern, TakeSm0
    <2> QED BY <2>1 DEF Source, Due
<1>2. CASE UNCHANGED <<sm0, prog, words, wordLen, loops, due, pins>>
    BY <1>2 DEF Source, Due, Loaded
<1> QED
    BY <1>1, <1>2, DispatchStops
    DEF Next, Cpu, Commands, Hardware, DmaBlock, Driver, Starve, MarkerStep, DataTransfer,
        ReloadTransfer, AbortData, AbortReload, Service, EndPacket, Status, CmdStop, CmdToggle,
        CmdCount, CmdLoad, CmdPlay, CmdSynth, DmaStopped, EndStop, Fed, Finish, ChainData,
        ChainReload, Abort, WaitAbort, WaitData, ClearData, WaitReload, ClearReload, Setup, Go, At

(* The pattern in the buffer is a sequence of wordLen words. *)
LEMMA LoadedFacts ==
    ASSUME TypeOK
    PROVE  Loaded \in Seq(Word) /\ Len(Loaded) = wordLen /\ \A i \in 1 .. wordLen : Loaded[i] = words[i]
<1>1. wordLen \in Nat /\ wordLen <= Capacity
    BY DmaAssumption DEF TypeOK, EngineTypeOK
<1>2. \A i \in 1 .. wordLen : words[i] \in Word
    BY <1>1, DmaAssumption DEF TypeOK, DmaTypeOK
<1>3. Loaded \in [1 .. wordLen -> Word]
    BY <1>2 DEF Loaded
<1>4. Loaded \in Seq(Word) /\ Len(Loaded) = wordLen
    BY <1>1, <1>3, FunctionIsSeq
<1> QED BY <1>4 DEF Loaded

(* A step of the engine is a step of Stream or changes nothing of it. *)
LEMMA StreamStep ==
    ASSUME IInv, FlowInv, [Next]_vars
    PROVE  [On!Next]_<<Source, Due, pins>>
<1>b. TypeOK /\ ControlInv /\ RunInv /\ SizeInv
    BY DEF IInv, FlowInv
<1>1. CASE OutWord
    <2>1. sm0 = "Running" /\ prog = "pattern" /\ UNCHANGED <<sm0, prog, words, wordLen, loops>>
        BY <1>1 DEF OutWord, fields
    <2>2. /\ due \in 1 .. wordLen /\ pins' = words[due]
          /\ due' = IF loops /\ due = wordLen THEN 1 ELSE due + 1
        BY <1>1, OutFacts DEF OutWord
    <2>3. Source = [kind |-> "pattern", words |-> Loaded, looping |-> loops] /\ Source' = Source
          /\ Due = due /\ Due' = due'
        BY <2>1 DEF Source, Due, Loaded
    <2>4. /\ Source.kind = "pattern" /\ Source.words = Loaded /\ (Source.looping <=> loops)
          /\ Len(Loaded) = wordLen /\ pins' = Loaded[due]
        BY <1>b, <2>2, <2>3, LoadedFacts
    <2>5. On!Emit
        BY <2>2, <2>3, <2>4 DEF On!Emit, Source, Due
    <2> QED BY <2>5 DEF On!Next
<1>2. CASE PullSeed
    <2>1. /\ sm0 = "Running" /\ prog # "pattern" /\ UNCHANGED <<sm0, prog, due>>
          /\ pins' = IF prog = "toggle" THEN Wave ELSE Codes
        BY <1>2 DEF PullSeed, history
    <2>2. Source = [kind |-> "signal", looping |-> FALSE, words |-> <<pins'>>]
        BY <2>1 DEF Source
    <2>3. Source.kind = "signal" /\ Source.words[1] = pins'
        BY <2>2
    <2>4. Source' = Source /\ Due' = Due
        BY <2>1 DEF Source, Due
    <2>5. On!EmitSignal
        BY <2>3, <2>4 DEF On!EmitSignal, Source, Due
    <2> QED BY <2>5 DEF On!Next
<1>3. CASE Halt
    <2>1. sm0 = "Running" \/ sm0 = "Idle"
        BY <1>b, <1>3 DEF Halt, ControlInv, TypeOK, EngineTypeOK, SmStates
    <2>2. sm0 # "Swapping" /\ sm1 # "Swapping"
        BY <1>b, <1>3 DEF Halt, ControlInv
    <2>3. HaltSm0
        BY <1>3, <2>2 DEF Halt
    <2>4. CASE sm0 = "Running"
        <3>1. sm0' = "Idle" /\ pins' = Low
            BY <2>3, <2>4 DEF HaltSm0
        <3>2. On!End
            BY <3>1 DEF On!End, On!Silence
        <3> QED BY <3>2 DEF On!Next
    <2>5. CASE sm0 = "Idle"
        <3>1. sm0' = "Idle" /\ pins' = pins
            BY <2>3, <2>5 DEF HaltSm0
        <3> QED BY <2>5, <3>1 DEF Source, Due
    <2> QED BY <2>1, <2>4, <2>5
<1>4. CASE Launch
    <2>1. /\ sm0 = "Swapping" /\ sm0' = "Running" /\ due' = 1 /\ loops' = req.looping
          /\ UNCHANGED <<prog, words, wordLen, pins>>
        BY <1>b, <1>4 DEF ControlInv, Launch, NewRun, ports, fields
    <2>2. Source = On!Silence /\ Due' = 1
        BY <2>1 DEF Source, Due, On!Silence
    <2>3. CASE prog = "pattern"
        <3>1. Source' = [kind |-> "pattern", words |-> Loaded, looping |-> loops']
            BY <2>1, <2>3 DEF Source, Loaded
        <3>2. Loaded \in Seq(Word) /\ Loaded # <<>>
            BY <1>b, <2>1, <2>3, LoadedFacts, EmptyFifo DEF SizeInv, Streaming
        <3>3. loops' \in BOOLEAN
            BY <1>b, <2>1 DEF TypeOK, CpuTypeOK
        <3>4. Source' \in On!Pattern
            BY <3>1, <3>2, <3>3 DEF On!Pattern
        <3>5. On!Begin
            BY <2>1, <2>2, <3>4 DEF On!Begin, Source, Due
        <3> QED BY <3>5 DEF On!Next
    <2>4. CASE prog # "pattern"
        <3>1. DEFINE v == IF prog = "toggle" THEN Wave ELSE Codes
        <3>2. Source' = [kind |-> "signal", looping |-> FALSE, words |-> <<v>>] /\ v \in {Wave, Codes}
            BY <2>1, <2>4 DEF Source
        <3>3. Source' \in On!Signal
            BY <3>2 DEF On!Signal
        <3>4. On!Begin
            BY <2>1, <2>2, <3>3 DEF On!Begin, Source, Due
        <3> QED BY <3>4 DEF On!Next
    <2> QED BY <2>3, <2>4
<1> QED BY <1>1, <1>2, <1>3, <1>4, PinsKept

(* The engine implements Stream: every run plays the words loaded when it  *)
(* began, from the first one on, none lost, repeated or changed under it,  *)
(* and the channels are low between runs.                                  *)
THEOREM StreamImplemented == ASSUME ReloadFirst PROVE Spec => StreamKept
<1>1. Init => On!Init
    BY DEF Init, On!Init, On!Silence
<1>2. (IInv /\ FlowInv) /\ [Next]_vars => [On!Next]_<<Source, Due, pins>>
    BY StreamStep
<1> QED BY <1>1, <1>2, FlowInvariance, PTL DEF Spec, StreamKept, On!Spec, Source, Due

=============================================================================
