------------------------------ MODULE ProtoProofs ------------------------------
(***************************************************************************)
(* Theorems about the protocol generators, for every byte width, FIFO      *)
(* depth, payload limit, set of payloads and addresses, and packet size.   *)
(*                                                                         *)
(* ProtoInv ties the field `active` to the state machines it speaks of,    *)
(* and chip select to it (ModeInv), the lines to the machines and phases   *)
(* that hold them (LineInv), and says how the pin writes that i2c_send has *)
(* still to make end (WireInv).                                            *)
(***************************************************************************)
EXTENDS Proto, DataInduction, SequenceTheorems

ModeInv ==
    /\ pc # "panic"
    /\ pc = "stopped" => uart = "Idle" /\ spi = "Idle" /\ req.op \in {"Uart", "Spi", "I2c"}
    /\ pc \in {"arm", "clear", "probe"} => active = "Spi"
    /\ pc \in {"stopped", "wire"} => active = "None"
    /\ active = "Uart" => uart = "Running" /\ spi = "Idle"
    /\ active = "Spi" => spi = "Running"
    /\ cs = 0 <=> active = "Spi"
    /\ req.op \in {"Uart", "Spi"} => Sendable(req.bytes)

LineInv ==
    /\ uart = "Idle" => tx = 1
    /\ spi = "Idle" => sck = 0 /\ mosi = 0
    /\ pc # "wire" => scl = 1 /\ sda = 1
    /\ uphase \in {"start", "data"} => ubits # <<>>

(* A pin write: the line and its level. *)
Write == {"scl", "sda"} \X Level

(* The last two writes let go of both lines. *)
LetsGo(w) ==
    /\ w \in Seq(Write) /\ w # <<>>
    /\ w[Len(w)] = <<"sda", 1>>
    /\ Len(w) > 1 => w[Len(w) - 1] = <<"scl", 1>>

WireInv == pc = "wire" => LetsGo(wire) /\ (Len(wire) = 1 => scl = 1)

ProtoInv == TypeOK /\ ModeInv /\ LineInv /\ WireInv

-----------------------------------------------------------------------------
(* Sequences: what the FIFOs, the shift registers and the wire go through. *)

(* What is left when the first element is taken. *)
LEMMA Taken ==
    ASSUME NEW S, NEW s \in Seq(S), s # <<>>
    PROVE  /\ Head(s) \in S /\ Head(s) = s[1] /\ Tail(s) \in Seq(S)
           /\ Len(s) \in Nat \ {0} /\ Len(Tail(s)) = Len(s) - 1
           /\ \A i \in 1 .. Len(s) - 1 : Tail(s)[i] = s[i + 1]
    BY HeadTailProperties, LenProperties

(* What is there when an element is added. *)
LEMMA Added ==
    ASSUME NEW S, NEW s \in Seq(S), NEW e \in S
    PROVE  /\ Append(s, e) \in Seq(S) /\ Len(s) \in Nat /\ Len(Append(s, e)) = Len(s) + 1
           /\ Append(s, e)[Len(s) + 1] = e
           /\ \A i \in 1 .. Len(s) : Append(s, e)[i] = s[i]
    OBVIOUS

(* Two sequences in a row. *)
LEMMA Joined ==
    ASSUME NEW S, NEW s \in Seq(S), NEW t \in Seq(S)
    PROVE  /\ s \o t \in Seq(S) /\ Len(s) \in Nat /\ Len(t) \in Nat /\ Len(s \o t) = Len(s) + Len(t)
           /\ \A i \in 1 .. Len(s) : (s \o t)[i] = s[i]
           /\ \A i \in 1 .. Len(t) : (s \o t)[Len(s) + i] = t[i]
    BY ConcatProperties, LenProperties

(* A byte is a sequence of Width bits, and such a sequence is a byte. *)
LEMMA ByteIsSeq ==
    /\ \A b \in Byte : b \in Seq(Level) /\ Len(b) = Width /\ b # <<>>
    /\ \A b \in Seq(Level) : Len(b) = Width => b \in Byte
    /\ Width \in Nat \ {0}
BY ProtoAssumption DEF Byte, Level

(* The empty sequence is one of any set. *)
LEMMA EmptySequence == ASSUME NEW S PROVE <<>> \in Seq(S) /\ Len(<<>>) = 0
    OBVIOUS

(* The writes of a bit are writes. *)
LEMMA WireBitType ==
    ASSUME NEW v \in Level
    PROVE  WireBit(v) \in Seq(Write) /\ Len(WireBit(v)) = 6
BY DEF WireBit, Set, Level, Write

(* START and STOP are six pin writes each, and STOP ends with both lines   *)
(* high.                                                                   *)
LEMMA ConditionTypes ==
    /\ StartCond \in Seq(Write) /\ Len(StartCond) = 6
    /\ StopCond \in Seq(Write) /\ Len(StopCond) = 6
    /\ StopCond[6] = <<"sda", 1>> /\ StopCond[5] = <<"scl", 1>>
BY DEF StartCond, StopCond, Set, Level, Write

(* The writes of a byte: those of its bits, one after the other. *)
LEMMA BitsFacts ==
    ASSUME NEW b \in Byte
    PROVE  /\ Bits(b) \in Seq(Write) /\ Len(Bits(b)) = 6 * Width
           /\ \A i \in 1 .. Width, j \in 1 .. 6 : Bits(b)[6 * (i - 1) + j] = WireBit(b[i])[j]
<1>1. DEFINE P == [n \in 1 .. Width |-> WireBit(b[n])]
             Defines(g) == g = [n \in 0 .. Width |-> IF n = 0 THEN <<>> ELSE g[n - 1] \o WireBit(b[n])]
             f == CHOOSE g : Defines(g)
<1>2. Width \in Nat /\ \A n \in 1 .. Width : b[n] \in Level
    BY ProtoAssumption DEF Byte, Level
<1>3. P \in [1 .. Width -> Seq(Write)] /\ \A i \in 1 .. Width : Len(P[i]) = 6
    BY <1>2, WireBitType
<1>4. \A g : Defines(g) <=> IsRow(g, Width, P)
    <2>1. TAKE g
    <2>2. [n \in 0 .. Width |-> IF n = 0 THEN <<>> ELSE g[n - 1] \o WireBit(b[n])]
            = [n \in 0 .. Width |-> IF n = 0 THEN <<>> ELSE g[n - 1] \o P[n]]
        <3>1. ASSUME NEW n \in 0 .. Width
              PROVE  (IF n = 0 THEN <<>> ELSE g[n - 1] \o WireBit(b[n]))
                        = (IF n = 0 THEN <<>> ELSE g[n - 1] \o P[n])
            BY <1>2
        <3> HIDE DEF P
        <3> QED BY <3>1
    <2> HIDE DEF P
    <2> QED BY <2>2, Zenon DEF IsRow
<1> HIDE DEF P, Defines
<1>5. \E g : Defines(g)
    BY <1>2, <1>3, <1>4, RowExists
<1>6. IsRow(f, Width, P)
    BY <1>4, <1>5
<1>7. Bits(b) = f[Width]
    BY DEF Bits, Defines
<1> HIDE DEF f
<1>8. /\ f[Width] \in Seq(Write) /\ Len(f[Width]) = 6 * Width
      /\ \A i \in 1 .. Width, j \in 1 .. 6 : f[Width][6 * (i - 1) + j] = P[i][j]
    <2>1. Pieces(Write, 6, Width, P)
        BY <1>3 DEF Pieces
    <2>2. Width \in 0 .. Width /\ 6 \in Nat
        BY <1>2
    <2>3. Placed(f[Width], Write, 6, Width, P)
        BY <1>2, <1>6, <2>1, <2>2, RowElements
    <2> QED BY <2>3 DEF Placed
<1>9. \A i \in 1 .. Width : P[i] = WireBit(b[i])
    BY DEF P
<1> QED BY <1>7, <1>8, <1>9

(* The writes of a byte and of the acknowledge slot after it. *)
ByteWrites(b) == Bits(b) \o WireBit(1)

(* There are 6 for each bit, and the slot is the last of them. *)
LEMMA ByteWritesFacts ==
    ASSUME NEW b \in Byte
    PROVE  /\ ByteWrites(b) \in Seq(Write) /\ Len(ByteWrites(b)) = 6 * Width + 6
           /\ \A i \in 1 .. Width, j \in 1 .. 6 : ByteWrites(b)[6 * (i - 1) + j] = WireBit(b[i])[j]
           /\ \A j \in 1 .. 6 : ByteWrites(b)[6 * Width + j] = WireBit(1)[j]
<1>1. Bits(b) \in Seq(Write) /\ Len(Bits(b)) = 6 * Width /\ Width \in Nat
    BY BitsFacts, ProtoAssumption
<1>2. WireBit(1) \in Seq(Write) /\ Len(WireBit(1)) = 6
    BY WireBitType DEF Level
<1>3. /\ ByteWrites(b) \in Seq(Write) /\ Len(ByteWrites(b)) = 6 * Width + 6
      /\ \A i \in 1 .. 6 * Width : ByteWrites(b)[i] = Bits(b)[i]
      /\ \A i \in 1 .. 6 : ByteWrites(b)[6 * Width + i] = WireBit(1)[i]
    <2> DEFINE s == Bits(b)
               t == WireBit(1)
    <2>1. s \in Seq(Write) /\ t \in Seq(Write)
        BY <1>1, <1>2
    <2> HIDE DEF s, t
    <2>2. /\ s \o t \in Seq(Write) /\ Len(s \o t) = Len(s) + Len(t)
          /\ \A i \in 1 .. Len(s) : (s \o t)[i] = s[i]
          /\ \A i \in 1 .. Len(t) : (s \o t)[Len(s) + i] = t[i]
        BY <2>1, Joined
    <2>3. ByteWrites(b) = s \o t /\ Len(s) = 6 * Width /\ Len(t) = 6
        BY <1>1, <1>2 DEF ByteWrites, s, t
    <2>4. /\ s \o t \in Seq(Write) /\ Len(s \o t) = 6 * Width + 6
          /\ \A i \in 1 .. 6 * Width : (s \o t)[i] = s[i]
          /\ \A i \in 1 .. 6 : (s \o t)[6 * Width + i] = t[i]
        BY <2>2, <2>3
    <2> QED BY <2>3, <2>4 DEF s, t
<1>4. ASSUME NEW i \in 1 .. Width, NEW j \in 1 .. 6
      PROVE  ByteWrites(b)[6 * (i - 1) + j] = WireBit(b[i])[j]
    <2>1. 6 * (i - 1) + j \in 1 .. 6 * Width
        BY <1>1
    <2>2. Bits(b)[6 * (i - 1) + j] = WireBit(b[i])[j]
        BY BitsFacts
    <2> QED BY <1>3, <2>1, <2>2
<1> QED BY <1>3, <1>4

(* The writes of a list of bytes: those of each byte in turn. *)
LEMMA WireBytesFacts ==
    ASSUME NEW bytes \in Seq(Byte)
    PROVE  Placed(WireBytes(bytes), Write, 6 * Width + 6, Len(bytes),
                  [n \in 1 .. Len(bytes) |-> ByteWrites(bytes[n])])
<1>1. DEFINE N == Len(bytes)
             P == [n \in 1 .. N |-> ByteWrites(bytes[n])]
             Defines(g) == g = [n \in 0 .. N |->
                                  IF n = 0 THEN <<>> ELSE g[n - 1] \o Bits(bytes[n]) \o WireBit(1)]
             f == CHOOSE g : Defines(g)
<1>2. N \in Nat /\ N \in 0 .. N /\ 6 * Width + 6 \in Nat
    BY ProtoAssumption, LenProperties
<1>3. ASSUME NEW n \in 1 .. N
      PROVE  /\ bytes[n] \in Byte /\ P[n] = Bits(bytes[n]) \o WireBit(1)
             /\ Bits(bytes[n]) \in Seq(Write) /\ WireBit(1) \in Seq(Write)
    BY <1>2, BitsFacts, WireBitType DEF Level, ByteWrites
<1>4. Pieces(Write, 6 * Width + 6, N, P)
    <2>1. \A n \in 1 .. N : ByteWrites(bytes[n]) \in Seq(Write) /\ Len(ByteWrites(bytes[n])) = 6 * Width + 6
        BY <1>3, ByteWritesFacts
    <2> QED BY <2>1 DEF Pieces
<1> HIDE DEF N, P
<1>5. ASSUME NEW g, g \in [0 .. N -> Seq(Write)]
      PROVE  Defines(g) <=> IsRow(g, N, P)
    <2>1. ASSUME NEW n \in 0 .. N
          PROVE  (IF n = 0 THEN <<>> ELSE g[n - 1] \o Bits(bytes[n]) \o WireBit(1))
                    = (IF n = 0 THEN <<>> ELSE g[n - 1] \o P[n])
        <3>1. CASE n = 0
            BY <3>1
        <3>2. CASE n # 0
            <4>1. n \in 1 .. N /\ g[n - 1] \in Seq(Write)
                BY <1>2, <1>5, <3>2
            <4>2. P[n] = Bits(bytes[n]) \o WireBit(1)
                BY <1>3, <4>1
            <4>3. (g[n - 1] \o Bits(bytes[n])) \o WireBit(1) = g[n - 1] \o (Bits(bytes[n]) \o WireBit(1))
                <5> DEFINE s == g[n - 1]
                           t == Bits(bytes[n])
                           u == WireBit(1)
                <5>1. s \in Seq(Write) /\ t \in Seq(Write) /\ u \in Seq(Write)
                    BY <1>3, <4>1
                <5> HIDE DEF s, t, u
                <5>2. (s \o t) \o u = s \o (t \o u)
                    BY <5>1, ConcatAssociative
                <5> QED BY <5>2 DEF s, t, u
            <4> QED BY <3>2, <4>2, <4>3, Zenon
        <3> QED BY <3>1, <3>2
    <2>2. [n \in 0 .. N |-> IF n = 0 THEN <<>> ELSE g[n - 1] \o Bits(bytes[n]) \o WireBit(1)]
            = [n \in 0 .. N |-> IF n = 0 THEN <<>> ELSE g[n - 1] \o P[n]]
        BY <2>1
    <2> QED BY <2>2, Zenon DEF IsRow
<1>6. ASSUME NEW g, Defines(g) PROVE g \in [0 .. N -> Seq(Write)]
    <2>1. DEFINE T == {n \in 0 .. N : g[n] \in Seq(Write)}
    <2>2. 0 \in T
        BY <1>2, <1>6
    <2>3. ASSUME NEW n \in 0 .. N - 1, n \in T PROVE n + 1 \in T
        <3>1. n + 1 \in 1 .. N /\ n + 1 \in 0 .. N /\ n + 1 # 0 /\ (n + 1) - 1 = n /\ g[n] \in Seq(Write)
            BY <1>2, <2>3
        <3>2. g[n + 1] = g[n] \o Bits(bytes[n + 1]) \o WireBit(1)
            BY <1>6, <3>1
        <3>3. g[n] \o Bits(bytes[n + 1]) \in Seq(Write)
            BY <1>3, <3>1, ConcatProperties
        <3>4. g[n + 1] \in Seq(Write)
            BY <1>3, <3>1, <3>2, <3>3, ConcatProperties
        <3> QED BY <3>1, <3>4
    <2> HIDE DEF T
    <2>4. \A n \in 0 .. N : n \in T
        BY <1>2, <2>2, <2>3, BoundedInduction
    <2> QED BY <1>6, <2>4 DEF T
<1> HIDE DEF Defines
<1>7. \E g : Defines(g)
    BY <1>2, <1>4, <1>5, RowExists DEF Pieces
<1>8. Defines(f)
    BY <1>7
<1>9. WireBytes(bytes) = f[N]
    BY DEF WireBytes, Defines, N
<1> HIDE DEF f
<1>10. Placed(f[N], Write, 6 * Width + 6, N, P)
    BY <1>2, <1>4, <1>5, <1>6, <1>8, RowElements
<1> QED BY <1>9, <1>10 DEF N, P

-----------------------------------------------------------------------------
Command == CmdStop \/ CmdUart \/ CmdSpi \/ CmdI2c

(* A command was asked for by a request that can be served, and everything *)
(* is stopped before it is.                                                *)
LEMMA CommandFacts ==
    ASSUME ProtoInv, Command
    PROVE  /\ pc = "ready" /\ pc' \in {"ready", "stopped"} /\ budget' \in 0 .. Batch
           /\ req'.op \in {"stop", "Uart", "Spi", "I2c"} /\ req'.bytes \in Seq(Byte)
           /\ pc' = "stopped" <=> req'.op # "stop"
           /\ req'.op # "stop" => req'.bytes # <<>>
           /\ req'.op \in {"Uart", "Spi"} => Sendable(req'.bytes)
           /\ Stop
<1>. TypeOK
    BY DEF ProtoInv
<1>1. ASSUME NEW op \in {"stop", "Uart", "Spi", "I2c"}, NEW bytes \in Seq(Byte), Dispatch(op, bytes)
      PROVE  /\ pc = "ready" /\ budget' \in 0 .. Batch /\ Stop
             /\ req'.op = op /\ req'.bytes = bytes
             /\ pc' = IF op = "stop" THEN "ready" ELSE "stopped"
    <2>1. req' = [op |-> op, bytes |-> bytes]
        BY <1>1 DEF Dispatch
    <2>2. pc = "ready" /\ pc' = (IF op = "stop" THEN "ready" ELSE "stopped") /\ Stop
        BY <1>1, Zenon DEF Dispatch
    <2>3. budget' \in 0 .. Batch
        BY <1>1, ProtoAssumption DEF Dispatch, TypeOK
    <2> QED BY <2>1, <2>2, <2>3
<1>2. CASE CmdStop
    BY <1>1, <1>2, EmptySequence DEF CmdStop
<1>3. CASE CmdUart
    <2>1. PICK p \in Payloads : Sendable(p) /\ Dispatch("Uart", p)
        BY <1>3 DEF CmdUart
    <2>2. p \in Seq(Byte) /\ p # <<>>
        BY <2>1, ProtoAssumption DEF Sendable
    <2> QED BY <1>1, <2>1, <2>2
<1>4. CASE CmdSpi
    <2>1. PICK p \in Payloads : Sendable(p) /\ Dispatch("Spi", p)
        BY <1>4 DEF CmdSpi
    <2>2. p \in Seq(Byte) /\ p # <<>>
        BY <2>1, ProtoAssumption DEF Sendable
    <2> QED BY <1>1, <2>1, <2>2
<1>5. CASE CmdI2c
    <2>1. PICK p \in Payloads, a \in Addresses :
              Sendable(p) /\ a[1] = 0 /\ Dispatch("I2c", <<Append(Tail(a), 0)>> \o p)
        BY <1>5 DEF CmdI2c
    <2>2. p \in Seq(Byte) /\ a \in Seq(Level) /\ Len(a) = Width /\ a # <<>>
        BY ByteIsSeq, ProtoAssumption
    <2>3. Append(Tail(a), 0) \in Seq(Level) /\ Len(Append(Tail(a), 0)) = Width
        BY <2>2, Taken, Added, ByteIsSeq DEF Level
    <2>4. Append(Tail(a), 0) \in Byte
        BY <2>3, ByteIsSeq
    <2>5. <<Append(Tail(a), 0)>> \in Seq(Byte) /\ <<Append(Tail(a), 0)>> \o p \in Seq(Byte)
          /\ <<Append(Tail(a), 0)>> \o p # <<>>
        BY <2>2, <2>4
    <2> QED BY <1>1, <2>1, <2>5
<1> QED BY <1>2, <1>3, <1>4, <1>5 DEF Command

(* After stop() no state machine runs, and those that ran are emptied and  *)
(* have left their lines idle.                                             *)
LEMMA StopFacts ==
    ASSUME TypeOK, Stop
    PROVE  /\ uart' = "Idle" /\ spi' = "Idle"
           /\ uart = "Running" => uartFifo' = <<>> /\ tx' = 1
           /\ uart = "Idle" => UNCHANGED <<uartFifo, tx>>
           /\ spi = "Running" => spiFifo' = <<>> /\ sck' = 0 /\ mosi' = 0
           /\ spi = "Idle" => UNCHANGED <<spiFifo, sck, mosi>>
           /\ active' = "None" /\ payload' = <<>> /\ cursor' = 0
           /\ cs' = 1 /\ scl' = 1 /\ sda' = 1
           /\ transfer' = NoTransfer /\ rx' = Silent /\ heard' = <<>>
           /\ UNCHANGED <<wrote, uphase, ubits, sphase, sbits, spiStall, wire>>
<1>1. uart' = "Idle" /\ (uart = "Running" => uartFifo' = <<>> /\ tx' = 1)
      /\ (uart = "Idle" => UNCHANGED <<uartFifo, tx>>)
    BY DEF TypeOK, Stop, ReleaseUart, IdleUart
<1>2. spi' = "Idle" /\ (spi = "Running" => spiFifo' = <<>> /\ sck' = 0 /\ mosi' = 0)
      /\ (spi = "Idle" => UNCHANGED <<spiFifo, sck, mosi>>)
    BY DEF TypeOK, Stop, ReleaseSpi
<1> QED BY <1>1, <1>2 DEF Stop

(* A step keeps the types: a FIFO takes a byte only where it has room, the *)
(* cursor moves only within the payload, and a shift register holds bits.  *)
LEMMA TypeStep ==
    ASSUME ProtoInv, [Next]_vars
    PROVE  TypeOK'
<1>. TypeOK /\ ModeInv /\ LineInv /\ WireInv
    BY DEF ProtoInv
<1>1. CASE Poll
    BY <1>1 DEF TypeOK, Poll, fields, uartVars, spiVars, i2cVars
<1>2. CASE EndPacket
    BY <1>2 DEF TypeOK, EndPacket, fields, uartVars, spiVars, i2cVars
<1>3. CASE Status
    <2>1. budget' \in 0 .. Batch
        BY <1>3, ProtoAssumption DEF TypeOK, Status
    <2> QED BY <1>3, <2>1 DEF TypeOK, Status, cpuVars, fields, uartVars, spiVars, i2cVars
<1>4. CASE Command
    <2>1. Stop
        BY <1>4, CommandFacts
    <2>2. /\ uart' \in {"Idle", "Running"} /\ tx' \in Level
          /\ uartFifo' \in Seq(Byte) /\ Len(uartFifo') <= FifoDepth
        <3>1. CASE uart = "Running"
            BY <2>1, <3>1, StopFacts, EmptySequence, ProtoAssumption DEF Level
        <3>2. CASE uart = "Idle"
            BY <2>1, <3>2, StopFacts DEF TypeOK
        <3> QED BY <3>1, <3>2 DEF TypeOK
    <2>3. /\ spi' \in {"Idle", "Running"} /\ sck' \in Level /\ mosi' \in Level
          /\ spiFifo' \in Seq(Byte) /\ Len(spiFifo') <= FifoDepth
        <3>1. CASE spi = "Running"
            BY <2>1, <3>1, StopFacts, EmptySequence, ProtoAssumption DEF Level
        <3>2. CASE spi = "Idle"
            BY <2>1, <3>2, StopFacts DEF TypeOK
        <3> QED BY <3>1, <3>2 DEF TypeOK
    <2>4. /\ active' \in {"None", "Uart", "Spi"} /\ payload' \in Seq(Byte) /\ Len(payload') <= MaxPayload
          /\ cursor' \in 0 .. Len(payload') /\ cs' \in Level /\ scl' \in Level /\ sda' \in Level
        BY <2>1, StopFacts, EmptySequence, ProtoAssumption DEF Level
    <2>5. UNCHANGED <<wrote, uphase, ubits, sphase, sbits, spiStall>>
        BY <2>1, StopFacts
    <2>6. /\ pc' \in {"ready", "stopped"} /\ budget' \in 0 .. Batch
          /\ req'.op \in {"stop", "Uart", "Spi", "I2c"} /\ req'.bytes \in Seq(Byte)
        BY <1>4, CommandFacts
    <2> QED BY <2>2, <2>3, <2>4, <2>5, <2>6 DEF TypeOK
<1>5. CASE UartSend
    BY <1>5 DEF TypeOK, ModeInv, UartSend, Queue, Begin, NoReq, Sendable, spiVars, i2cVars
<1>6. CASE SpiSend
    BY <1>6 DEF TypeOK, ModeInv, LineInv, SpiSend, Queue, Begin, NoReq, Sendable, uartVars, i2cVars
<1>7. CASE ClearBeforeService
    BY <1>7 DEF TypeOK, ModeInv, ClearBeforeService, fields, uartVars, i2cVars
<1>8. CASE I2cSend
    BY <1>8 DEF TypeOK, I2cSend, Begin, NoReq, fields, uartVars, spiVars
<1>9. CASE WireStep
    BY <1>9 DEF TypeOK, LetsGo, WireInv, WireStep, HearI2c, Write, fields, uartVars, spiVars
<1>10. CASE PushUart
    <2>1. payload[cursor + 1] \in Byte /\ cursor' \in 0 .. Len(payload)
        BY <1>10 DEF PushUart, Queued, TypeOK
    <2>2. uartFifo' \in Seq(Byte) /\ Len(uartFifo') <= FifoDepth
        BY <1>10, <2>1, Added, ProtoAssumption DEF PushUart, Room, TypeOK
    <2> QED BY <1>10, <2>1, <2>2 DEF TypeOK, PushUart, cpuVars, spiVars, i2cVars
<1>11. CASE PushedUart
    BY <1>11 DEF TypeOK, PushedUart, StopPushingUart, fields, uartVars, spiVars, i2cVars
<1>12. CASE PushSpi
    <2>1. payload[cursor + 1] \in Byte /\ cursor' \in 0 .. Len(payload)
        BY <1>12 DEF PushSpi, Queued, TypeOK
    <2>2. spiFifo' \in Seq(Byte) /\ Len(spiFifo') <= FifoDepth
        BY <1>12, <2>1, Added, ProtoAssumption DEF PushSpi, Room, TypeOK
    <2> QED BY <1>12, <2>1, <2>2 DEF TypeOK, PushSpi, cpuVars, uartVars, i2cVars
<1>13. CASE PushedSpi
    BY <1>13 DEF TypeOK, PushedSpi, uartVars, spiVars, i2cVars
<1>14. CASE ServiceNothing
    BY <1>14 DEF TypeOK, ServiceNothing, fields, uartVars, spiVars, i2cVars
<1>15. CASE ClearStale
    BY <1>15 DEF TypeOK, ModeInv, ClearStale, fields, uartVars, i2cVars
<1>16. CASE Probe
    BY <1>16 DEF TypeOK, LineInv, Probe, uartVars, i2cVars
<1>17. CASE UartPull
    <2>1. /\ uartFifo' \in Seq(Byte) /\ Len(uartFifo') <= FifoDepth
          /\ ubits' \in Seq(Level) /\ uphase' \in {"pull", "start", "data"}
        <3>1. CASE uartFifo = <<>>
            BY <1>17, <3>1 DEF UartPull, TypeOK
        <3>2. CASE uartFifo # <<>>
            <4>1. /\ Head(uartFifo) \in Seq(Level)
                  /\ Tail(uartFifo) \in Seq(Byte) /\ Len(Tail(uartFifo)) <= FifoDepth
                BY <3>2, Taken, ByteIsSeq, ProtoAssumption DEF TypeOK
            <4> QED BY <1>17, <3>2, <4>1 DEF UartPull
        <3> QED BY <3>1, <3>2
    <2> QED BY <1>17, <2>1 DEF TypeOK, Level, UartPull, cpuVars, fields, spiVars, i2cVars
<1>18. CASE UartStart
    BY <1>18 DEF TypeOK, Level, UartStart, cpuVars, fields, spiVars, i2cVars
<1>19. CASE UartBit
    BY <1>19 DEF TypeOK, LineInv, UartBit, cpuVars, fields, spiVars, i2cVars
<1>20. CASE SpiOut
    <2>1. ASSUME NEW b \in Seq(Level), b # <<>>, SpiShift(b)
          PROVE  mosi' \in Level /\ sbits' \in Seq(Level) /\ sphase' \in {"out", "clock"} /\ spiStall' \in BOOLEAN
        BY <2>1, Taken DEF SpiShift, TypeOK
    <2>2. /\ mosi' \in Level /\ sbits' \in Seq(Level) /\ sphase' \in {"out", "clock"} /\ spiStall' \in BOOLEAN
          /\ spiFifo' \in Seq(Byte) /\ Len(spiFifo') <= FifoDepth
        <3>1. CASE sbits # <<>>
            BY <1>20, <2>1, <3>1 DEF SpiOut, TypeOK
        <3>2. CASE sbits = <<>> /\ spiFifo # <<>>
            <4>1. /\ Head(spiFifo) \in Seq(Level) /\ Head(spiFifo) # <<>>
                  /\ Tail(spiFifo) \in Seq(Byte) /\ Len(Tail(spiFifo)) <= FifoDepth
                BY <3>2, Taken, ByteIsSeq, ProtoAssumption DEF TypeOK
            <4> QED BY <1>20, <2>1, <3>2, <4>1 DEF SpiOut
        <3>3. CASE sbits = <<>> /\ spiFifo = <<>>
            BY <1>20, <3>3 DEF SpiOut, TypeOK
        <3> QED BY <3>1, <3>2, <3>3
    <2> QED BY <1>20, <2>2 DEF TypeOK, Level, SpiOut, cpuVars, fields, uartVars, i2cVars
<1>21. CASE SpiClock
    BY <1>21 DEF TypeOK, Level, SpiClock, cpuVars, fields, uartVars, i2cVars
<1>22. CASE UNCHANGED vars
    BY <1>22 DEF TypeOK, vars, cpuVars, fields, uartVars, spiVars, i2cVars, decoder
<1> QED BY <1>1, <1>2, <1>3, <1>4, <1>5, <1>6, <1>7, <1>8, <1>9, <1>10, <1>11, <1>12, <1>13, <1>14, <1>15,
           <1>16, <1>17, <1>18, <1>19, <1>20, <1>21, <1>22
    DEF Next, Command, Cpu, UartMachine, SpiMachine

(* A step keeps what the loop, the slots and the protocol under way say of *)
(* one another: stop() gives both slots back before a transfer takes one,  *)
(* so that none panics.                                                    *)
LEMMA ModeStep ==
    ASSUME ProtoInv, [Next]_vars
    PROVE  ModeInv'
<1>. TypeOK /\ ModeInv /\ LineInv /\ WireInv
    BY DEF ProtoInv
<1>1. CASE Poll
    BY <1>1 DEF ModeInv, ModeInv, Poll, fields, uartVars, spiVars
<1>2. CASE EndPacket
    BY <1>2 DEF ModeInv, ModeInv, EndPacket, fields, uartVars, spiVars
<1>3. CASE Status
    BY <1>3 DEF ModeInv, ModeInv, Status, fields, uartVars, spiVars
<1>4. CASE Command
    BY <1>4, CommandFacts, StopFacts DEF TypeOK, ModeInv, Level, ModeInv
<1>5. CASE UartSend
    BY <1>5 DEF ModeInv, ModeInv, UartSend, Queue, Begin, NoReq, spiVars
<1>6. CASE SpiSend
    BY <1>6 DEF ModeInv, ModeInv, SpiSend, Queue, Begin, NoReq
<1>7. CASE ClearBeforeService
    BY <1>7 DEF ModeInv, ModeInv, ClearBeforeService, fields
<1>8. CASE I2cSend
    BY <1>8 DEF ModeInv, ModeInv, I2cSend, Begin, NoReq, fields, spiVars
<1>9. CASE WireStep
    BY <1>9 DEF ModeInv, ModeInv, WireStep, HearI2c, fields, spiVars
<1>10. CASE PushUart
    BY <1>10 DEF ModeInv, ModeInv, PushUart, cpuVars, spiVars
<1>11. CASE PushedUart
    BY <1>11 DEF ModeInv, ModeInv, PushedUart, StopPushingUart, fields, uartVars, spiVars
<1>12. CASE PushSpi
    BY <1>12 DEF ModeInv, ModeInv, PushSpi, cpuVars
<1>13. CASE PushedSpi
    BY <1>13 DEF ModeInv, ModeInv, PushedSpi, spiVars
<1>14. CASE ServiceNothing
    BY <1>14 DEF ModeInv, ModeInv, ServiceNothing, fields, spiVars
<1>15. CASE ClearStale
    BY <1>15 DEF ModeInv, ModeInv, ClearStale, fields
<1>16. CASE Probe
    BY <1>16 DEF ModeInv, ModeInv, Probe
<1>17. CASE UartPull
    BY <1>17 DEF ModeInv, ModeInv, UartPull, cpuVars, fields, spiVars
<1>18. CASE UartStart
    BY <1>18 DEF ModeInv, ModeInv, UartStart, cpuVars, fields, spiVars
<1>19. CASE UartBit
    BY <1>19 DEF ModeInv, ModeInv, UartBit, cpuVars, fields, spiVars
<1>20. CASE SpiOut
    BY <1>20 DEF ModeInv, ModeInv, SpiOut, cpuVars, fields
<1>21. CASE SpiClock
    BY <1>21 DEF ModeInv, ModeInv, SpiClock, cpuVars, fields
<1>22. CASE UNCHANGED vars
    BY <1>22 DEF ModeInv, vars, cpuVars, fields, uartVars, spiVars, i2cVars, decoder
<1> QED BY <1>1, <1>2, <1>3, <1>4, <1>5, <1>6, <1>7, <1>8, <1>9, <1>10, <1>11, <1>12, <1>13, <1>14, <1>15,
           <1>16, <1>17, <1>18, <1>19, <1>20, <1>21, <1>22
    DEF Next, Command, Cpu, UartMachine, SpiMachine

(* A step keeps the lines of a generator that does not run idle, and bits  *)
(* in the shift register for as long as the UART program has some to       *)
(* shift.                                                                  *)
LEMMA LineStep ==
    ASSUME ProtoInv, [Next]_vars
    PROVE  LineInv'
<1>. TypeOK /\ ModeInv /\ LineInv /\ WireInv
    BY DEF ProtoInv
<1>1. CASE Poll
    BY <1>1 DEF LineInv, Poll, uartVars, spiVars, i2cVars
<1>2. CASE EndPacket
    BY <1>2 DEF LineInv, EndPacket, uartVars, spiVars, i2cVars
<1>3. CASE Status
    BY <1>3 DEF LineInv, Status, uartVars, spiVars, i2cVars
<1>4. CASE Command
    BY <1>4, CommandFacts, StopFacts DEF TypeOK, ModeInv, Level, LineInv
<1>5. CASE UartSend
    BY <1>5 DEF LineInv, UartSend, spiVars, i2cVars
<1>6. CASE SpiSend
    BY <1>6 DEF LineInv, SpiSend, uartVars, i2cVars
<1>7. CASE ClearBeforeService
    BY <1>7 DEF LineInv, ClearBeforeService, uartVars, i2cVars
<1>8. CASE I2cSend
    BY <1>8 DEF LineInv, I2cSend, uartVars, spiVars
<1>9. CASE WireStep
    <2>1. pc' # "wire" => scl' = 1 /\ sda' = 1
        <3>1. SUFFICES ASSUME pc' # "wire" PROVE scl' = 1 /\ sda' = 1
            OBVIOUS
        <3>2. Len(wire) = 1 /\ pc = "wire"
            BY <1>9, <3>1 DEF WireStep
        <3>3. wire[1] = <<"sda", 1>> /\ scl = 1
            BY <3>2 DEF WireInv, LetsGo
        <3>4. Head(wire) = <<"sda", 1>>
            BY <3>2, <3>3, Taken DEF WireInv, LetsGo
        <3> QED BY <1>9, <3>3, <3>4 DEF WireStep
    <2> QED BY <1>9, <2>1 DEF LineInv, WireStep, uartVars, spiVars
<1>10. CASE PushUart
    BY <1>10 DEF LineInv, PushUart, spiVars, i2cVars
<1>11. CASE PushedUart
    BY <1>11 DEF LineInv, PushedUart, uartVars, spiVars, i2cVars
<1>12. CASE PushSpi
    BY <1>12 DEF LineInv, PushSpi, uartVars, i2cVars
<1>13. CASE PushedSpi
    BY <1>13 DEF LineInv, PushedSpi, uartVars, spiVars, i2cVars
<1>14. CASE ServiceNothing
    BY <1>14 DEF LineInv, ServiceNothing, uartVars, spiVars, i2cVars
<1>15. CASE ClearStale
    BY <1>15 DEF LineInv, ClearStale, uartVars, i2cVars
<1>16. CASE Probe
    BY <1>16 DEF LineInv, Probe, uartVars, i2cVars
<1>17. CASE UartPull
    BY <1>17, ByteIsSeq DEF TypeOK, LineInv, UartPull, cpuVars, spiVars, i2cVars
<1>18. CASE UartStart
    BY <1>18 DEF LineInv, UartStart, cpuVars, spiVars, i2cVars
<1>19. CASE UartBit
    <2>1. uphase' = "data" => ubits' # <<>>
        <3>1. ubits \in Seq(Level) /\ ubits # <<>> /\ Len(ubits) \in Nat \ {0}
            BY <1>19, Taken DEF UartBit, LineInv, TypeOK
        <3>2. CASE Len(ubits) = 1
            BY <1>19, <3>2 DEF UartBit
        <3>3. CASE Len(ubits) # 1
            <4>1. ubits' = SubSeq(ubits, 1, Len(ubits) - 1)
                BY <1>19 DEF UartBit
            <4>2. Len(ubits) - 1 \in 1 .. Len(ubits)
                <5>1. \A n \in Nat \ {0} : n # 1 => n - 1 \in 1 .. n
                    OBVIOUS
                <5> QED BY <3>1, <3>3, <5>1
            <4>3. ubits'[1] = ubits[1] /\ Len(ubits') = Len(ubits) - 1
                BY <3>1, <4>1, <4>2
            <4> QED BY <4>2, <4>3, EmptySequence
        <3> QED BY <3>2, <3>3
    <2>2. uart = "Running" /\ uphase' \in {"pull", "data"}
        BY <1>19 DEF UartBit
    <2> QED BY <1>19, <2>1, <2>2 DEF LineInv, UartBit, cpuVars, spiVars, i2cVars
<1>20. CASE SpiOut
    BY <1>20 DEF LineInv, SpiOut, cpuVars, uartVars, i2cVars
<1>21. CASE SpiClock
    BY <1>21 DEF LineInv, SpiClock, cpuVars, uartVars, i2cVars
<1>22. CASE UNCHANGED vars
    BY <1>22 DEF LineInv, vars, cpuVars, fields, uartVars, spiVars, i2cVars, decoder
<1> QED BY <1>1, <1>2, <1>3, <1>4, <1>5, <1>6, <1>7, <1>8, <1>9, <1>10, <1>11, <1>12, <1>13, <1>14, <1>15,
           <1>16, <1>17, <1>18, <1>19, <1>20, <1>21, <1>22
    DEF Next, Command, Cpu, UartMachine, SpiMachine

(* A step keeps the end of an I2C frame: its last two writes let SCL, then *)
(* SDA, go.                                                                *)
LEMMA WireFinish ==
    ASSUME ProtoInv, [Next]_vars
    PROVE  WireInv'
<1>. TypeOK /\ ModeInv /\ LineInv /\ WireInv
    BY DEF ProtoInv
<1>1. CASE Poll
    BY <1>1 DEF WireInv, Poll
<1>2. CASE EndPacket
    BY <1>2 DEF WireInv, EndPacket
<1>3. CASE Status
    BY <1>3 DEF WireInv, Status
<1>4. CASE Command
    BY <1>4, CommandFacts, StopFacts DEF TypeOK, ModeInv, Level, WireInv
<1>5. CASE UartSend
    BY <1>5 DEF WireInv, UartSend
<1>6. CASE SpiSend
    BY <1>6 DEF WireInv, SpiSend
<1>7. CASE ClearBeforeService
    BY <1>7 DEF WireInv, ClearBeforeService
<1>8. CASE I2cSend
    <2>1. wire' = StartCond \o WireBytes(req.bytes) \o StopCond
        BY <1>8 DEF I2cSend
    <2>2. WireBytes(req.bytes) \in Seq(Write)
        BY WireBytesFacts DEF TypeOK, Placed
    <2>3. StartCond \o WireBytes(req.bytes) \in Seq(Write)
        BY <2>2, ConditionTypes, Joined
    <2> DEFINE s == StartCond \o WireBytes(req.bytes)
    <2>4. wire' = s \o StopCond /\ s \in Seq(Write)
        BY <2>1, <2>3
    <2> HIDE DEF s
    <2>5. /\ wire' \in Seq(Write) /\ Len(s) \in Nat /\ Len(wire') = Len(s) + 6
          /\ wire'[Len(s) + 5] = <<"scl", 1>> /\ wire'[Len(s) + 6] = <<"sda", 1>>
        <3> DEFINE t == StopCond
        <3>0. t \in Seq(Write) /\ s \in Seq(Write)
            BY <2>4, ConditionTypes
        <3>1. Len(t) = 6 /\ t[5] = <<"scl", 1>> /\ t[6] = <<"sda", 1>> /\ wire' = s \o t
            BY <2>4, ConditionTypes
        <3> HIDE DEF t
        <3>2. /\ s \o t \in Seq(Write) /\ Len(s) \in Nat /\ Len(s \o t) = Len(s) + Len(t)
              /\ \A i \in 1 .. Len(t) : (s \o t)[Len(s) + i] = t[i]
            BY <3>0, Joined
        <3>3. 5 \in 1 .. Len(t) /\ 6 \in 1 .. Len(t)
            BY <3>1
        <3> QED BY <3>1, <3>2, <3>3
    <2>6. LetsGo(wire')
        BY <2>5, EmptySequence DEF LetsGo
    <2> QED BY <2>5, <2>6 DEF WireInv
<1>9. CASE WireStep
    <2>1. pc = "wire" /\ LetsGo(wire) /\ (Len(wire) = 1 => pc' = "ready") /\ wire' = Tail(wire)
        BY <1>9 DEF WireStep, WireInv
    <2>2. SUFFICES ASSUME Len(wire) # 1 PROVE WireInv'
        BY <2>1 DEF WireInv
    <2>3. /\ wire \in Seq(Write) /\ wire # <<>> /\ Len(wire) \in Nat \ {0, 1}
          /\ wire' \in Seq(Write) /\ Len(wire') = Len(wire) - 1
          /\ \A i \in 1 .. Len(wire) - 1 : wire'[i] = wire[i + 1]
        BY <2>1, <2>2, Taken DEF LetsGo
    <2>4. wire'[Len(wire')] = <<"sda", 1>> /\ wire' # <<>>
        BY <2>1, <2>3, EmptySequence DEF LetsGo
    <2>5. Len(wire') > 1 => wire'[Len(wire') - 1] = <<"scl", 1>>
        BY <2>1, <2>3 DEF LetsGo
    <2>6. ASSUME Len(wire') = 1 PROVE scl' = 1
        <3>1. Len(wire) = 2
            <4>1. \A n \in Nat : n - 1 = 1 => n = 2
                OBVIOUS
            <4> QED BY <2>3, <2>6, <4>1
        <3>2. Head(wire) = <<"scl", 1>>
            BY <2>1, <2>3, <3>1, Taken DEF LetsGo
        <3> QED BY <1>9, <3>2 DEF WireStep
    <2> QED BY <2>3, <2>4, <2>5, <2>6 DEF WireInv, LetsGo
<1>10. CASE PushUart
    BY <1>10 DEF WireInv, PushUart, cpuVars
<1>11. CASE PushedUart
    BY <1>11 DEF WireInv, PushedUart, StopPushingUart
<1>12. CASE PushSpi
    BY <1>12 DEF WireInv, PushSpi, cpuVars
<1>13. CASE PushedSpi
    BY <1>13 DEF WireInv, PushedSpi
<1>14. CASE ServiceNothing
    BY <1>14 DEF WireInv, ServiceNothing
<1>15. CASE ClearStale
    BY <1>15 DEF WireInv, ClearStale
<1>16. CASE Probe
    BY <1>16 DEF WireInv, Probe
<1>17. CASE UartPull
    BY <1>17 DEF WireInv, UartPull, cpuVars, i2cVars
<1>18. CASE UartStart
    BY <1>18 DEF WireInv, UartStart, cpuVars, i2cVars
<1>19. CASE UartBit
    BY <1>19 DEF WireInv, UartBit, cpuVars, i2cVars
<1>20. CASE SpiOut
    BY <1>20 DEF WireInv, SpiOut, cpuVars, i2cVars
<1>21. CASE SpiClock
    BY <1>21 DEF WireInv, SpiClock, cpuVars, i2cVars
<1>22. CASE UNCHANGED vars
    BY <1>22 DEF WireInv, vars, cpuVars, fields, uartVars, spiVars, i2cVars, decoder
<1> QED BY <1>1, <1>2, <1>3, <1>4, <1>5, <1>6, <1>7, <1>8, <1>9, <1>10, <1>11, <1>12, <1>13, <1>14, <1>15,
           <1>16, <1>17, <1>18, <1>19, <1>20, <1>21, <1>22
    DEF Next, Command, Cpu, UartMachine, SpiMachine

(* The generators begin stopped, with every line idle. *)
LEMMA InitProtoInv == Init => ProtoInv
<1>. SUFFICES ASSUME Init PROVE ProtoInv
    OBVIOUS
<1>1. TypeOK
    <2>1. /\ payload \in Seq(Byte) /\ Len(payload) <= MaxPayload /\ cursor \in 0 .. Len(payload)
          /\ uartFifo \in Seq(Byte) /\ Len(uartFifo) <= FifoDepth
          /\ spiFifo \in Seq(Byte) /\ Len(spiFifo) <= FifoDepth
          /\ ubits \in Seq(Level) /\ sbits \in Seq(Level)
        BY EmptySequence, ProtoAssumption DEF Init
    <2>2. req.op = "none" /\ req.bytes \in Seq(Byte)
        BY EmptySequence DEF Init, NoReq
    <2>3. /\ pc = "poll" /\ active = "None" /\ uart = "Idle" /\ spi = "Idle" /\ uphase = "pull" /\ sphase = "out"
          /\ budget = 0 /\ tx = 1 /\ sck = 0 /\ mosi = 0 /\ cs = 1 /\ scl = 1 /\ sda = 1
        BY DEF Init
    <2>4. budget \in 0 .. Batch
        BY <2>3, ProtoAssumption
    <2>5. wrote \in BOOLEAN /\ spiStall \in BOOLEAN
        BY DEF Init
    <2> QED BY <2>1, <2>2, <2>3, <2>4, <2>5 DEF TypeOK, Level
<1>2. ModeInv /\ LineInv /\ WireInv
    BY DEF Init, NoReq, ModeInv, LineInv, WireInv
<1> QED BY <1>1, <1>2 DEF ProtoInv

(* Every step of the CPU, of a state machine or of the host keeps them so. *)
LEMMA ProtoInvStep == ProtoInv /\ [Next]_vars => ProtoInv'
<1>. SUFFICES ASSUME ProtoInv, [Next]_vars PROVE ProtoInv'
    OBVIOUS
<1> QED BY TypeStep, ModeStep, LineStep, WireFinish DEF ProtoInv

(* The mode, the lines and the wire stay as ProtoInv says. *)
THEOREM ProtoInvariance == Spec => []ProtoInv
BY InitProtoInv, ProtoInvStep, PTL DEF Spec

(* Every variable keeps its type: the payload and the cursor into it, the  *)
(* FIFOs within their depth, the bits of the shift registers.              *)
THEOREM TypesCorrect == Spec => []TypeOK
<1>1. ProtoInv => TypeOK
    BY DEF ProtoInv
<1> QED BY <1>1, ProtoInvariance, PTL

(* Whatever a command, or the end of a transfer, cut off, a line whose     *)
(* generator does not run is at its idle level.                            *)
THEOREM LinesIdle == Spec => []IdleLevels
<1>1. ProtoInv => IdleLevels
    BY DEF ProtoInv, TypeOK, ModeInv, LineInv, IdleLevels, Level
<1> QED BY <1>1, ProtoInvariance, PTL

(* Where status can be asked for, it reports SPI as sending exactly while  *)
(* chip select is asserted.                                                *)
THEOREM StatusTellsPins == Spec => []StatusAgreesWithPins
<1>1. ProtoInv => StatusAgreesWithPins
    BY DEF ProtoInv, TypeOK, ModeInv, StatusAgreesWithPins, SpiSending, Busy, Level
<1> QED BY <1>1, ProtoInvariance, PTL

=============================================================================
