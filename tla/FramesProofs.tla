------------------------------ MODULE FramesProofs ------------------------------
(***************************************************************************)
(* The protocol generators implement Frames: whatever the FIFOs, the shift *)
(* registers, the sticky stall flag and the poll loop do, and whenever a   *)
(* command cuts a transfer short, a decoder on the lines hears the bytes   *)
(* of the transfer in order, and its end after the last of them.           *)
(*                                                                         *)
(* FrameInv places every byte of the transfer: what was heard, then the    *)
(* byte split between the shift register, the line and the decoder, then   *)
(* what the FIFO holds, then what is still to be queued (UartInv, SpiInv); *)
(* for I2C, which of the pin writes of the frame comes next (I2cInv).      *)
(***************************************************************************)
EXTENDS ProtoProofs

(* The bytes of the transfer under way, and how many of them were heard. *)
Bytes == transfer.bytes
Count == Len(heard)

Prefixed == heard \in Seq(Byte) /\ Count <= Len(Bytes) /\ \A i \in 1 .. Count : heard[i] = Bytes[i]

(* What the FIFO holds, with n bytes already out of it. *)
Follows(fifo, n) ==
    /\ cursor = Count + n + Len(fifo)
    /\ \A i \in 1 .. Len(fifo) : fifo[i] = Bytes[Count + n + i]

Protocols == {"Uart", "Spi", "I2c"}

TransferInv ==
    /\ transfer = NoTransfer \/ transfer \in [protocol : Protocols, bytes : Seq(Byte) \ {<<>>}]
    /\ uart = "Running" <=> transfer.protocol = "Uart"
    /\ spi = "Running" <=> transfer.protocol = "Spi"
    /\ active = "Uart" <=> transfer.protocol = "Uart"
    /\ uart = "Idle" => uartFifo = <<>>
    /\ spi = "Idle" => spiFifo = <<>>
    /\ wrote => pc = "service" /\ active = "Spi"
    /\ pc = "stopped" => transfer = NoTransfer /\ heard = <<>> /\ rx = Silent /\ req.bytes # <<>>
    /\ pc = "wire" => transfer.protocol = "I2c"
    /\ pc # "wire" /\ transfer.protocol = "I2c" => wire = <<>> /\ rx = Silent
    /\ transfer.protocol \in {"Uart", "Spi"} => payload = Bytes

UartAhead == IF uphase = "pull" /\ ~rx.open THEN 0 ELSE 1

UartInv == transfer.protocol = "Uart" =>
    /\ Prefixed /\ Follows(uartFifo, UartAhead)
    /\ uphase = "pull" /\ ~rx.open => rx = Silent
    /\ uphase = "pull" /\ rx.open => rx = [open |-> TRUE, bits |-> Bytes[Count + 1]]
    /\ uphase = "start" => rx = Silent /\ ubits = Bytes[Count + 1]
    /\ uphase = "data" => rx.open /\ rx.bits \in Seq(Level) /\ ubits \o rx.bits = Bytes[Count + 1]
                           /\ rx = [open |-> TRUE, bits |-> rx.bits]

SpiIdleBetween == sphase = "out" /\ sbits = <<>>
SpiAhead == IF SpiIdleBetween THEN 0 ELSE 1
Drained == SpiIdleBetween /\ spiFifo = <<>>

SpiInv == transfer.protocol = "Spi" =>
    /\ Prefixed /\ Follows(spiFifo, SpiAhead)
    /\ rx.bits \in Seq(Level) /\ rx = [open |-> TRUE, bits |-> rx.bits]
    /\ SpiIdleBetween => rx.bits = <<>>
    /\ sphase = "out" /\ sbits # <<>> => rx.bits \o sbits = Bytes[Count + 1]
    /\ sphase = "clock" => Append(rx.bits, mosi) \o sbits = Bytes[Count + 1]
    /\ active # "Spi" => Drained /\ cursor = Len(Bytes)
    /\ pc = "probe" => cursor = Len(Bytes)
    /\ spiStall /\ active = "Spi" /\ ~wrote /\ pc \notin {"arm", "clear"} => Drained

(* The writes of a frame, and the bit whose 6 writes follow n bytes and k  *)
(* bits: after the last bit of a byte, the acknowledge slot.               *)
Program(bytes) == StartCond \o WireBytes(bytes) \o StopCond
PerByte == 6 * Width + 6
Slot(bytes, n, k) == IF k = Width THEN 1 ELSE bytes[n + 1][k + 1]

(* How many of the writes were made. *)
Made == Len(Program(Bytes)) - Len(wire)

(* The decoder has the first c bits of the byte after n bytes. *)
Begun(n, c) ==
    /\ rx = [open |-> TRUE, bits |-> rx.bits]
    /\ rx.bits \in Seq(Level) /\ Len(rx.bits) = c
    /\ \A i \in 1 .. c : rx.bits[i] = Bytes[n + 1][i]

(* The decoder takes SCL rising in the STOP condition for a bit. *)
Zeroed == [open |-> TRUE, bits |-> <<0>>]

(* In the START condition; in the writes of a bit; in the STOP condition. *)
Starting(j) ==
    /\ Made = j /\ heard = <<>>
    /\ scl = (IF j = 5 THEN 0 ELSE 1) /\ sda = (IF j < 4 THEN 1 ELSE 0)
    /\ rx = (IF j < 4 THEN Silent ELSE Opened)
Sending(n, k, j) ==
    /\ Made = 6 + PerByte * n + 6 * k + j
    /\ scl = (IF j \in {3, 4} THEN 1 ELSE 0) /\ (j >= 2 => sda = Slot(Bytes, n, k))
    /\ Count = (IF k = Width /\ j >= 3 THEN n + 1 ELSE n)
    /\ k = Width /\ j >= 3 => rx = Opened
    /\ ~(k = Width /\ j >= 3) => Begun(n, IF j >= 3 THEN k + 1 ELSE k)
Stopping(j) ==
    /\ Made = 6 + PerByte * Len(Bytes) + j /\ Count = Len(Bytes)
    /\ scl = (IF j < 3 THEN 0 ELSE 1) /\ (j >= 2 => sda = 0)
    /\ rx = (IF j < 3 THEN Opened ELSE Zeroed)

Somewhere ==
    \/ \E j \in 0 .. 5 : Starting(j)
    \/ \E n \in 0 .. Len(Bytes) - 1, k \in 0 .. Width, j \in 0 .. 5 : Sending(n, k, j)
    \/ \E j \in 0 .. 5 : Stopping(j)

I2cInv == pc = "wire" =>
    /\ Prefixed
    /\ Len(wire) <= Len(Program(Bytes))
    /\ \A i \in 1 .. Len(wire) : wire[i] = Program(Bytes)[Made + i]
    /\ Somewhere

FrameInv == TransferInv /\ UartInv /\ SpiInv /\ I2cInv
-----------------------------------------------------------------------------
(* I2C: which write stands where in a frame.                               *)

(* What the writes of the conditions and of a bit are, one by one. *)
LEMMA StartWrites ==
    /\ StartCond[1] = <<"scl", 1>> /\ StartCond[2] = <<"sda", 1>> /\ StartCond[3] = <<"scl", 1>>
    /\ StartCond[4] = <<"sda", 0>> /\ StartCond[5] = <<"scl", 0>> /\ StartCond[6] = <<"sda", 0>>
BY DEF StartCond, Set

(* And of the STOP condition. *)
LEMMA StopWrites ==
    /\ StopCond[1] = <<"scl", 0>> /\ StopCond[2] = <<"sda", 0>> /\ StopCond[3] = <<"scl", 1>>
    /\ StopCond[4] = <<"sda", 0>> /\ StopCond[5] = <<"scl", 1>> /\ StopCond[6] = <<"sda", 1>>
BY DEF StopCond, Set

(* And of a bit. *)
LEMMA BitWrites ==
    ASSUME NEW v
    PROVE  /\ WireBit(v)[1] = <<"scl", 0>> /\ WireBit(v)[2] = <<"sda", v>> /\ WireBit(v)[3] = <<"scl", 1>>
           /\ WireBit(v)[4] = <<"sda", v>> /\ WireBit(v)[5] = <<"scl", 0>> /\ WireBit(v)[6] = <<"sda", v>>
BY DEF WireBit, Set

(* Where the writes of a condition and of a bit stand in a frame. *)
LEMMA ProgramFacts ==
    ASSUME NEW bytes \in Seq(Byte)
    PROVE  /\ Program(bytes) \in Seq(Write) /\ PerByte \in Nat
           /\ Len(Program(bytes)) = 12 + PerByte * Len(bytes)
           /\ \A j \in 1 .. 6 : Program(bytes)[j] = StartCond[j]
           /\ \A n \in 0 .. Len(bytes) - 1, k \in 0 .. Width, j \in 1 .. 6 :
                 Program(bytes)[6 + PerByte * n + 6 * k + j] = WireBit(Slot(bytes, n, k))[j]
           /\ \A j \in 1 .. 6 : Program(bytes)[6 + PerByte * Len(bytes) + j] = StopCond[j]
<1> DEFINE m == PerByte
           N == Len(bytes)
           q == m * N
           P == [n \in 1 .. N |-> ByteWrites(bytes[n])]
           W == WireBytes(bytes)
           s == StartCond \o W
           t == StopCond
<1>1. m \in Nat /\ N \in Nat /\ q \in Nat /\ Width \in Nat /\ m = 6 * Width + 6
    BY ProtoAssumption, LenProperties DEF PerByte
<1>2. /\ W \in Seq(Write) /\ Len(W) = q
      /\ \A i \in 1 .. N, j \in 1 .. m : W[m * (i - 1) + j] = ByteWrites(bytes[i])[j]
    BY WireBytesFacts DEF Placed, PerByte
<1>3. /\ s \in Seq(Write) /\ Len(s) = 6 + q
      /\ \A i \in 1 .. 6 : s[i] = StartCond[i]
      /\ \A i \in 1 .. q : s[6 + i] = W[i]
    <2> DEFINE c == StartCond
    <2>0. c \in Seq(Write) /\ W \in Seq(Write)
        BY <1>2, ConditionTypes
    <2>1. Len(c) = 6
        BY ConditionTypes
    <2> HIDE DEF c, W, q
    <2>2. /\ c \o W \in Seq(Write) /\ Len(c \o W) = Len(c) + Len(W)
          /\ \A i \in 1 .. Len(c) : (c \o W)[i] = c[i]
          /\ \A i \in 1 .. Len(W) : (c \o W)[Len(c) + i] = W[i]
        BY <2>0, Joined
    <2> QED BY <1>2, <2>0, <2>1, <2>2 DEF c
<1>4. t \in Seq(Write) /\ Len(t) = 6 /\ Program(bytes) = s \o t
    BY ConditionTypes DEF Program
<1> HIDE DEF s, t, q, W, m, N
<1>. s \in Seq(Write) /\ t \in Seq(Write)
    BY <1>3, <1>4
<1>5. /\ s \o t \in Seq(Write) /\ Len(s \o t) = Len(s) + Len(t)
      /\ \A i \in 1 .. Len(s) : (s \o t)[i] = s[i]
      /\ \A i \in 1 .. Len(t) : (s \o t)[Len(s) + i] = t[i]
    BY Joined
<1> DEFINE p == s \o t
<1>6. p \in Seq(Write) /\ Len(p) = 12 + q
    BY <1>1, <1>3, <1>4, <1>5
<1>7. \A j \in 1 .. 6 : p[j] = StartCond[j]
    BY <1>1, <1>3, <1>5
<1>8. \A j \in 1 .. 6 : p[6 + q + j] = t[j]
    BY <1>3, <1>4, <1>5
<1>9. \A i \in 1 .. q : p[6 + i] = W[i]
    BY <1>1, <1>3, <1>5
<1> HIDE DEF p
<1>10. ASSUME NEW n \in 0 .. N - 1, NEW k \in 0 .. Width, NEW j \in 1 .. 6
       PROVE  p[6 + m * n + 6 * k + j] = WireBit(Slot(bytes, n, k))[j]
    <2> DEFINE a == m * n
               d == m * (N - (n + 1))
    <2>1. q = a + m + d /\ a \in Nat /\ d \in Nat
        BY <1>1 DEF q
    <2>2. m * ((n + 1) - 1) = a /\ n + 1 \in 1 .. N /\ bytes[n + 1] \in Byte
        BY <1>1 DEF N
    <2> HIDE DEF a, d
    <2>3. 6 * k + j \in 1 .. m /\ a + (6 * k + j) \in 1 .. q
        BY <1>1, <2>1
    <2>4. W[a + (6 * k + j)] = ByteWrites(bytes[n + 1])[6 * k + j]
        BY <1>2, <2>2, <2>3
    <2>5. p[6 + (a + (6 * k + j))] = W[a + (6 * k + j)]
        BY <1>9, <2>3
    <2>6. ByteWrites(bytes[n + 1])[6 * k + j] = WireBit(Slot(bytes, n, k))[j]
        <3>1. CASE k = Width
            BY <2>2, <3>1, ByteWritesFacts DEF Slot
        <3>2. CASE k # Width
            <4>1. k + 1 \in 1 .. Width /\ (k + 1) - 1 = k
                BY <1>1, <3>2
            <4>2. ByteWrites(bytes[n + 1])[6 * ((k + 1) - 1) + j] = WireBit(bytes[n + 1][k + 1])[j]
                BY <2>2, <4>1, ByteWritesFacts
            <4> QED BY <3>2, <4>1, <4>2 DEF Slot
        <3> QED BY <3>1, <3>2
    <2>7. 6 + a + 6 * k + j = 6 + (a + (6 * k + j))
        BY <1>1, <2>1
    <2> QED BY <2>4, <2>5, <2>6, <2>7 DEF a
<1> QED BY <1>1, <1>4, <1>6, <1>7, <1>8, <1>10 DEF m, N, q, t, p

(* What a write does to the lines and to the decoder. *)
LEMMA WriteEffects ==
    ASSUME WireStep, NEW line \in {"scl", "sda"}, NEW v, Head(wire) = <<line, v>>
    PROVE  /\ line = "scl" => scl' = v /\ sda' = sda
           /\ line = "sda" => sda' = v /\ scl' = scl
           /\ line = "scl" /\ ~(scl = 0 /\ v = 1 /\ rx.open) => rx' = rx /\ heard' = heard
           /\ line = "scl" /\ scl = 0 /\ v = 1 /\ rx.open /\ Len(rx.bits) < Width =>
                 rx' = [rx EXCEPT !.bits = Append(@, sda)] /\ heard' = heard
           /\ line = "scl" /\ scl = 0 /\ v = 1 /\ rx.open /\ ~(Len(rx.bits) < Width) =>
                 rx' = Opened /\ heard' = Append(heard, IF sda = 1 THEN rx.bits ELSE "broken")
           /\ line = "sda" /\ ~(scl = 1 /\ v # sda) => rx' = rx /\ heard' = heard
           /\ line = "sda" /\ scl = 1 /\ v # sda =>
                 rx' = (IF v = 0 THEN Opened ELSE Silent) /\ heard' = heard
<1>1. Head(wire)[1] = line /\ Head(wire)[2] = v
    OBVIOUS
<1>2. /\ HearI2c(line, v)
      /\ scl' = (IF line = "scl" THEN v ELSE scl)
      /\ sda' = (IF line = "sda" THEN v ELSE sda)
    BY <1>1 DEF WireStep
<1> QED BY <1>2 DEF HearI2c, Collect, Take, decoder

(* The frame under way has bytes. *)
LEMMA FrameBytes ==
    ASSUME TransferInv, transfer.protocol \in Protocols
    PROVE  Bytes \in Seq(Byte) /\ Bytes # <<>> /\ Len(Bytes) \in Nat \ {0}
<1>1. transfer \in [protocol : Protocols, bytes : Seq(Byte) \ {<<>>}]
    BY DEF TransferInv, NoTransfer, Protocols
<1>2. Bytes \in Seq(Byte) /\ Bytes # <<>>
    BY <1>1 DEF Bytes
<1> QED BY <1>2, Taken

(* The write made is the next of the frame, and those after it follow. *)
LEMMA NextWrite ==
    ASSUME ProtoInv, TransferInv, I2cInv, WireStep
    PROVE  /\ Bytes \in Seq(Byte) /\ Len(Bytes) \in Nat \ {0} /\ Bytes' = Bytes
           /\ Made \in Nat /\ Made + 1 <= Len(Program(Bytes)) /\ Made' = Made + 1
           /\ Head(wire) = Program(Bytes)[Made + 1]
           /\ Len(wire) = 1 <=> Made + 1 = Len(Program(Bytes))
           /\ wire' = <<>> <=> Len(wire) = 1
           /\ Len(wire') <= Len(Program(Bytes))
           /\ \A i \in 1 .. Len(wire') : wire'[i] = Program(Bytes)[Made' + i]
<1>1. pc = "wire" /\ wire' = Tail(wire) /\ transfer' = transfer
    BY DEF WireStep
<1>2. wire \in Seq(Write) /\ wire # <<>>
    BY <1>1 DEF ProtoInv, WireInv, LetsGo
<1>3. Bytes \in Seq(Byte) /\ Len(Bytes) \in Nat \ {0} /\ Bytes' = Bytes
    BY <1>1, FrameBytes DEF TransferInv, Protocols, Bytes
<1> DEFINE p == Program(Bytes)
           n == Len(wire)
           L == Len(p)
<1>4. L \in Nat /\ n \in Nat \ {0} /\ n <= L /\ Made = L - n
    BY <1>1, <1>2, <1>3, ProgramFacts, Taken, LenProperties DEF I2cInv, Made
<1>5. /\ Head(wire) = wire[1] /\ Len(wire') = n - 1 /\ wire' \in Seq(Write)
      /\ \A i \in 1 .. n - 1 : wire'[i] = wire[i + 1]
    BY <1>1, <1>2, Taken
<1>6. Made' = L - Len(wire')
    BY <1>3 DEF Made
<1>7. \A i \in 1 .. n : wire[i] = p[Made + i]
    BY <1>1 DEF I2cInv
<1>8. wire' = <<>> <=> Len(wire') = 0
    BY <1>5, EmptySequence, EmptySeq
<1> HIDE DEF p, n, L
<1>9. Made \in Nat /\ Made + 1 <= L /\ Made' = Made + 1 /\ (n = 1 <=> Made + 1 = L) /\ n - 1 <= L
    BY <1>4, <1>5, <1>6
<1>10. Head(wire) = p[Made + 1]
    BY <1>4, <1>5, <1>7
<1>11. ASSUME NEW i \in 1 .. n - 1 PROVE wire'[i] = p[Made' + i]
    <2>1. i + 1 \in 1 .. n /\ Made' + i = Made + (i + 1)
        BY <1>4, <1>9
    <2> QED BY <1>5, <1>7, <2>1
<1>12. n - 1 = 0 <=> n = 1
    BY <1>4
<1> QED BY <1>3, <1>5, <1>8, <1>9, <1>10, <1>11, <1>12 DEF p, n, L

(* The START condition, up to the first write of the first bit. *)
LEMMA StartStep ==
    ASSUME ProtoInv, TransferInv, I2cInv, WireStep, NEW j \in 0 .. 5, Starting(j)
    PROVE  (Sending(0, 0, 0)' \/ \E i \in 0 .. 5 : Starting(i)') /\ heard' = heard
<1>1. /\ Made' = Made + 1 /\ Made = j /\ heard = <<>> /\ Bytes \in Seq(Byte)
      /\ Head(wire) = Program(Bytes)[j + 1]
    BY NextWrite DEF Starting
<1>2. Head(wire) = StartCond[j + 1]
    BY <1>1, ProgramFacts
<1>3. /\ scl = (IF j = 5 THEN 0 ELSE 1) /\ sda = (IF j < 4 THEN 1 ELSE 0)
      /\ rx = (IF j < 4 THEN Silent ELSE Opened)
    BY DEF Starting
<1>4. CASE j = 0
    <2>1. Head(wire) = <<"scl", 1>>
        BY <1>2, <1>4, StartWrites
    <2>2. scl' = 1 /\ sda' = 1 /\ rx' = Silent /\ heard' = heard
        BY <1>3, <1>4, <2>1, WriteEffects
    <2> QED BY <1>1, <1>4, <2>2 DEF Starting
<1>5. CASE j = 1
    <2>1. Head(wire) = <<"sda", 1>>
        BY <1>2, <1>5, StartWrites
    <2>2. scl' = 1 /\ sda' = 1 /\ rx' = Silent /\ heard' = heard
        BY <1>3, <1>5, <2>1, WriteEffects
    <2> QED BY <1>1, <1>5, <2>2 DEF Starting
<1>6. CASE j = 2
    <2>1. Head(wire) = <<"scl", 1>>
        BY <1>2, <1>6, StartWrites
    <2>2. scl' = 1 /\ sda' = 1 /\ rx' = Silent /\ heard' = heard
        BY <1>3, <1>6, <2>1, WriteEffects
    <2> QED BY <1>1, <1>6, <2>2 DEF Starting
<1>7. CASE j = 3
    <2>1. Head(wire) = <<"sda", 0>>
        BY <1>2, <1>7, StartWrites
    <2>2. scl' = 1 /\ sda' = 0 /\ rx' = Opened /\ heard' = heard
        BY <1>3, <1>7, <2>1, WriteEffects
    <2> QED BY <1>1, <1>7, <2>2 DEF Starting
<1>8. CASE j = 4
    <2>1. Head(wire) = <<"scl", 0>>
        BY <1>2, <1>8, StartWrites
    <2>2. scl' = 0 /\ sda' = 0 /\ rx' = Opened /\ heard' = heard
        BY <1>3, <1>8, <2>1, WriteEffects
    <2> QED BY <1>1, <1>8, <2>2 DEF Starting
<1>9. CASE j = 5
    <2>1. Head(wire) = <<"sda", 0>>
        BY <1>2, <1>9, StartWrites
    <2>2. scl' = 0 /\ rx' = Opened /\ heard' = <<>>
        BY <1>1, <1>3, <1>9, <2>1, WriteEffects
    <2>3. Made' = 6 + PerByte * 0 + 6 * 0 + 0
        <3>1. \A m \in Nat : m * 0 = 0
            OBVIOUS
        <3>2. PerByte * 0 = 0
            BY <1>1, <3>1, ProgramFacts
        <3>3. Made' = 6
            BY <1>1, <1>9
        <3> QED BY <3>2, <3>3
    <2>4. Count' = 0 /\ Width # 0
        BY <2>2, ProtoAssumption DEF Count
    <2>5. Begun(0, 0)'
        BY <2>2, EmptySequence DEF Begun, Opened
    <2>6. Sending(0, 0, 0)'
        BY <2>2, <2>3, <2>4, <2>5 DEF Sending
    <2> QED BY <1>1, <2>2, <2>6
<1> QED BY <1>4, <1>5, <1>6, <1>7, <1>8, <1>9

(* The place after the writes of a bit: the next bit, the next byte, or    *)
(* the STOP condition.                                                     *)
LEMMA NextBit ==
    ASSUME NEW n \in Nat, NEW k \in 0 .. Width
    PROVE  /\ 6 + PerByte * n + 6 * k + 5 + 1 = 6 + PerByte * n + 6 * (k + 1) + 0
           /\ k = Width => 6 + PerByte * n + 6 * k + 5 + 1 = 6 + PerByte * (n + 1) + 0
           /\ PerByte * n \in Nat /\ PerByte \in Nat
<1> DEFINE m == PerByte
           q == m * n
<1>1. m \in Nat /\ Width \in Nat /\ m = 6 * Width + 6 /\ q \in Nat /\ m * (n + 1) = q + m
    BY ProtoAssumption DEF PerByte
<1> HIDE DEF m, q
<1>2. /\ 6 + q + 6 * k + 5 + 1 = 6 + q + 6 * (k + 1) + 0
      /\ k = Width => 6 + q + 6 * k + 5 + 1 = 6 + (q + m) + 0
    BY <1>1
<1> QED BY <1>1, <1>2 DEF m, q

(* The bits of a byte, all of them heard, are the byte. *)
LEMMA WholeByte ==
    ASSUME NEW bits \in Seq(Level), Len(bits) = Width, NEW b \in Byte, \A i \in 1 .. Width : bits[i] = b[i]
    PROVE  bits = b
<1>1. bits \in [1 .. Width -> Level] /\ b \in [1 .. Width -> Level]
    BY ProtoAssumption DEF Byte, Level
<1> QED BY <1>1

(* A frame that is open stays open when its bits change. *)
LEMMA Collected ==
    ASSUME NEW r, NEW bits, r = [open |-> TRUE, bits |-> bits], NEW c
    PROVE  r.open /\ r.bits = bits /\ [r EXCEPT !.bits = c] = [open |-> TRUE, bits |-> c]
<1>1. \A x, d : x = [open |-> TRUE, bits |-> d] => x \in [open : BOOLEAN, bits : {d}] /\ x.open /\ x.bits = d
    OBVIOUS
<1>2. \A x, d : x \in [open : BOOLEAN, bits : {d}] /\ x.open => x = [open |-> TRUE, bits |-> d]
    OBVIOUS
<1>3. \A x, d : x \in [open : BOOLEAN, bits : {d}] /\ x.open =>
                 [x EXCEPT !.bits = c] \in [open : BOOLEAN, bits : {c}] /\ [x EXCEPT !.bits = c].open
    OBVIOUS
<1> DEFINE q == [r EXCEPT !.bits = c]
<1>4. r.open /\ r.bits = bits
    BY <1>1
<1>5. q \in [open : BOOLEAN, bits : {c}] /\ q.open
    BY <1>1, <1>3
<1> HIDE DEF q
<1>6. q = [open |-> TRUE, bits |-> c]
    BY <1>2, <1>5
<1> QED BY <1>4, <1>6 DEF q

(* The writes of a bit: SDA is sampled with the third. *)
LEMMA SendStep ==
    ASSUME ProtoInv, TransferInv, I2cInv, WireStep,
           NEW n \in 0 .. Len(Bytes) - 1, NEW k \in 0 .. Width, NEW j \in 0 .. 4, Sending(n, k, j)
    PROVE  /\ Sending(n, k, j + 1)'
           /\ heard' = heard \/ (Count = n /\ heard' = Append(heard, Bytes[Count + 1]))
<1> DEFINE v == Slot(Bytes, n, k)
           at == 6 + PerByte * n + 6 * k
<1>1. /\ Made' = Made + 1 /\ Made = at + j /\ Bytes \in Seq(Byte) /\ Bytes' = Bytes
      /\ Head(wire) = Program(Bytes)[Made + 1]
    BY NextWrite DEF Sending
<1>2. at \in Nat /\ Width \in Nat /\ n \in Nat
    <2>1. n \in Nat /\ Width \in Nat
        BY NextWrite, ProtoAssumption
    <2>2. PerByte * n \in Nat
        BY <2>1, NextBit
    <2> QED BY <2>1, <2>2
<1>3. Bytes[n + 1] \in Byte /\ v \in Level
    <2>1. n + 1 \in 1 .. Len(Bytes)
        BY <1>1, LenProperties
    <2>2. Bytes[n + 1] \in Byte
        BY <1>1, <2>1
    <2>3. k # Width => k + 1 \in 1 .. Width
        BY <1>2
    <2> QED BY <2>2, <2>3 DEF Slot, Byte, Level
<1>4. Head(wire) = WireBit(v)[j + 1]
    <2>1. Program(Bytes)[at + (j + 1)] = WireBit(v)[j + 1]
        <3>1. \A i \in 1 .. 6 : Program(Bytes)[at + i] = WireBit(v)[i]
            BY <1>1, ProgramFacts
        <3>2. j + 1 \in 1 .. 6
            OBVIOUS
        <3> QED BY <3>1, <3>2
    <2>2. Made + 1 = at + (j + 1)
        BY <1>1, <1>2
    <2> QED BY <1>1, <2>1, <2>2
<1>5. Made' = at + (j + 1)
    BY <1>1, <1>2
<1>6. Sending(n, k, j)
    OBVIOUS
<1> HIDE DEF at, v
<1>7. ASSUME NEW i \in 0 .. 5, Made' = at + i,
             scl' = (IF i \in {3, 4} THEN 1 ELSE 0), i >= 2 => sda' = v,
             Count' = (IF k = Width /\ i >= 3 THEN n + 1 ELSE n),
             k = Width /\ i >= 3 => rx' = Opened,
             ~(k = Width /\ i >= 3) => Begun(n, IF i >= 3 THEN k + 1 ELSE k)'
      PROVE  Sending(n, k, i)'
    BY <1>1, <1>7 DEF Sending, at, v
<1>8. ASSUME rx' = rx, heard' = heard, NEW c, Begun(n, c) PROVE Begun(n, c)'
    BY <1>1, <1>8 DEF Begun
<1>9. ASSUME heard' = heard PROVE Count' = Count
    BY <1>9 DEF Count
<1>10. CASE j = 0
    <2>1. Head(wire) = <<"scl", 0>>
        BY <1>4, <1>10, BitWrites
    <2>2. scl' = 0 /\ rx' = rx /\ heard' = heard
        BY <2>1, WriteEffects
    <2>3. Count = n /\ Begun(n, k)
        BY <1>6, <1>10 DEF Sending
    <2>4. Count' = n /\ Begun(n, k)'
        BY <1>8, <1>9, <2>2, <2>3
    <2>5. Made' = at + 1
        BY <1>5, <1>10
    <2>6. Sending(n, k, 1)'
        BY <1>7, <2>2, <2>4, <2>5
    <2> QED BY <1>10, <2>2, <2>6
<1>11. CASE j = 1
    <2>1. Head(wire) = <<"sda", v>>
        BY <1>4, <1>11, BitWrites
    <2>2. Count = n /\ Begun(n, k) /\ scl = 0
        BY <1>6, <1>11 DEF Sending
    <2>3. scl' = 0 /\ sda' = v /\ rx' = rx /\ heard' = heard
        BY <2>1, <2>2, WriteEffects
    <2>4. Count' = n /\ Begun(n, k)'
        BY <1>8, <1>9, <2>2, <2>3
    <2>5. Made' = at + 2
        BY <1>5, <1>11
    <2>6. Sending(n, k, 2)'
        BY <1>7, <2>3, <2>4, <2>5
    <2> QED BY <1>11, <2>3, <2>6
<1>12. CASE j = 2
    <2>1. Head(wire) = <<"scl", 1>>
        BY <1>4, <1>12, BitWrites
    <2>2. Count = n /\ Begun(n, k) /\ scl = 0 /\ sda = v
        BY <1>6, <1>12 DEF Sending, v
    <2>3. rx = [open |-> TRUE, bits |-> rx.bits] /\ rx.bits \in Seq(Level) /\ Len(rx.bits) = k
        BY <2>2 DEF Begun
    <2>4. rx.open
        BY <2>3
    <2>5. Made' = at + 3
        BY <1>5, <1>12
    <2>6. CASE k # Width
        <3>1. k < Width /\ k + 1 \in 1 .. Width /\ v = Bytes[n + 1][k + 1]
            BY <1>2, <2>6 DEF v, Slot
        <3>2. /\ scl' = 1 /\ sda' = v /\ heard' = heard
              /\ rx' = [rx EXCEPT !.bits = Append(@, sda)]
            BY <2>1, <2>2, <2>3, <2>4, <3>1, WriteEffects
        <3>3. rx' = [open |-> TRUE, bits |-> Append(rx.bits, v)]
            <4>1. [rx EXCEPT !.bits = Append(@, v)] = [open |-> TRUE, bits |-> Append(rx.bits, v)]
                BY <2>3, Collected
            <4> QED BY <2>2, <3>2, <4>1
        <3>4. /\ Append(rx.bits, v) \in Seq(Level) /\ Len(Append(rx.bits, v)) = k + 1
              /\ Append(rx.bits, v)[k + 1] = v
              /\ \A i \in 1 .. k : Append(rx.bits, v)[i] = rx.bits[i]
            BY <1>3, <2>3, Added
        <3>5. rx'.bits = Append(rx.bits, v) /\ rx' = [open |-> TRUE, bits |-> rx'.bits]
            BY <3>3
        <3>6. \A i \in 1 .. k + 1 : rx'.bits[i] = Bytes[n + 1][i]
            BY <2>2, <3>1, <3>4, <3>5 DEF Begun
        <3>7. Begun(n, k + 1)'
            BY <1>1, <3>4, <3>5, <3>6 DEF Begun
        <3>8. Count' = n
            BY <1>9, <2>2, <3>2
        <3>9. Sending(n, k, 3)'
            BY <1>7, <2>5, <2>6, <3>2, <3>7, <3>8
        <3> QED BY <1>12, <3>2, <3>9
    <2>7. CASE k = Width
        <3>1. ~(Len(rx.bits) < Width) /\ v = 1
            BY <1>2, <2>3, <2>7 DEF v, Slot
        <3>2. scl' = 1 /\ sda' = v /\ rx' = Opened /\ heard' = Append(heard, rx.bits)
            BY <2>1, <2>2, <2>3, <2>4, <3>1, WriteEffects
        <3>3. rx.bits = Bytes[n + 1]
            BY <1>3, <2>2, <2>3, <2>7, WholeByte DEF Begun
        <3>4. heard \in Seq(Byte) /\ Count = n
            BY <2>2 DEF I2cInv, Prefixed, WireStep
        <3>5. Count' = n + 1
            BY <1>3, <3>2, <3>3, <3>4, Added DEF Count
        <3>6. Sending(n, k, 3)'
            BY <1>7, <2>5, <2>7, <3>2, <3>5
        <3> QED BY <1>12, <3>2, <3>3, <3>4, <3>6
    <2> QED BY <2>6, <2>7
<1>13. CASE j \in {3, 4}
    <2>1. /\ scl = 1 /\ sda = v
          /\ Count = (IF k = Width THEN n + 1 ELSE n)
          /\ k = Width => rx = Opened
          /\ k # Width => Begun(n, k + 1)
        BY <1>6, <1>13 DEF Sending, v
    <2>2. Head(wire) = (IF j = 3 THEN <<"sda", v>> ELSE <<"scl", 0>>)
        BY <1>4, <1>13, BitWrites
    <2>3. scl' = (IF j = 3 THEN 1 ELSE 0) /\ sda' = v /\ rx' = rx /\ heard' = heard
        BY <1>13, <2>1, <2>2, WriteEffects
    <2>4. Count' = (IF k = Width THEN n + 1 ELSE n) /\ (k # Width => Begun(n, k + 1)')
        BY <1>8, <1>9, <2>1, <2>3
    <2>5. j + 1 \in {4, 5} /\ (j = 3 <=> j + 1 = 4)
        BY <1>13
    <2>6. Sending(n, k, j + 1)'
        BY <1>5, <1>7, <2>1, <2>3, <2>4, <2>5
    <2> QED BY <2>3, <2>6
<1> QED BY <1>10, <1>11, <1>12, <1>13

(* The last write of a bit brings the next bit, the next byte or the STOP  *)
(* condition.                                                              *)
LEMMA SlotEnds ==
    ASSUME ProtoInv, TransferInv, I2cInv, WireStep,
           NEW n \in 0 .. Len(Bytes) - 1, NEW k \in 0 .. Width, Sending(n, k, 5)
    PROVE  heard' = heard /\ Somewhere'
<1> DEFINE v == Slot(Bytes, n, k)
           at == 6 + PerByte * n + 6 * k
<1>1. /\ Made' = Made + 1 /\ Made = at + 5 /\ Bytes \in Seq(Byte) /\ Bytes' = Bytes
      /\ Len(Bytes) \in Nat \ {0} /\ Head(wire) = Program(Bytes)[Made + 1]
    BY NextWrite DEF Sending
<1>2. at \in Nat /\ Width \in Nat \ {0} /\ n \in Nat
    <2>1. n \in Nat /\ Width \in Nat \ {0}
        BY <1>1, ProtoAssumption
    <2>2. PerByte * n \in Nat
        BY <2>1, NextBit
    <2> QED BY <2>1, <2>2
<1>3. Head(wire) = <<"sda", v>>
    <2>1. \A i \in 1 .. 6 : Program(Bytes)[at + i] = WireBit(v)[i]
        BY <1>1, ProgramFacts
    <2>2. Made + 1 = at + 6
        BY <1>1, <1>2
    <2> QED BY <1>1, <2>1, <2>2, BitWrites
<1>4. /\ scl = 0 /\ Count = (IF k = Width THEN n + 1 ELSE n)
      /\ k = Width => rx = Opened
      /\ k # Width => Begun(n, k + 1)
    BY DEF Sending
<1>5. scl' = 0 /\ rx' = rx /\ heard' = heard
    BY <1>3, <1>4, WriteEffects
<1>6. Count' = Count
    BY <1>5 DEF Count
<1>7. Made' = at + 5 + 1
    BY <1>1
<1>8. CASE k # Width
    <2>1. k + 1 \in 0 .. Width
        BY <1>2, <1>8
    <2>2. Made' = 6 + PerByte * n + 6 * (k + 1) + 0
        BY <1>2, <1>7, NextBit
    <2>3. Begun(n, k + 1)'
        BY <1>1, <1>4, <1>5, <1>8 DEF Begun
    <2>4. Sending(n, k + 1, 0)'
        BY <1>4, <1>5, <1>6, <1>8, <2>2, <2>3 DEF Sending
    <2> QED BY <1>1, <1>5, <2>1, <2>4 DEF Somewhere
<1>9. CASE k = Width
    <2>1. Made' = 6 + PerByte * (n + 1) + 0
        BY <1>2, <1>7, <1>9, NextBit
    <2>2. Count' = n + 1 /\ rx' = Opened
        BY <1>4, <1>5, <1>6, <1>9
    <2>3. CASE n + 1 = Len(Bytes)
        <3>1. Stopping(0)'
            BY <1>1, <1>5, <2>1, <2>2, <2>3 DEF Stopping
        <3> QED BY <1>5, <3>1 DEF Somewhere
    <2>4. CASE n + 1 # Len(Bytes)
        <3>1. n + 1 \in 0 .. Len(Bytes) - 1 /\ 0 \in 0 .. Width
            BY <1>1, <1>2, <2>4
        <3>2. Made' = 6 + PerByte * (n + 1) + 6 * 0 + 0
            <4>1. PerByte * (n + 1) \in Nat
                BY <1>2, NextBit
            <4> QED BY <2>1, <4>1
        <3>3. Begun(n + 1, 0)'
            BY <2>2, EmptySequence DEF Begun, Opened
        <3>4. Sending(n + 1, 0, 0)'
            BY <1>2, <1>5, <2>2, <3>2, <3>3 DEF Sending
        <3> QED BY <1>1, <1>5, <3>1, <3>4 DEF Somewhere
    <2> QED BY <2>3, <2>4
<1> QED BY <1>8, <1>9

(* The STOP condition: the decoder leaves the frame with its last write.   *)
LEMMA StopStep ==
    ASSUME ProtoInv, TransferInv, I2cInv, WireStep, NEW j \in 0 .. 5, Stopping(j)
    PROVE  /\ heard' = heard
           /\ j < 5 => \E i \in 0 .. 5 : Stopping(i)'
           /\ j = 5 => rx' = Silent /\ Count = Len(Bytes)
<1> DEFINE at == 6 + PerByte * Len(Bytes)
<1>1. /\ Made' = Made + 1 /\ Made = at + j /\ Bytes \in Seq(Byte) /\ Bytes' = Bytes
      /\ Len(Bytes) \in Nat \ {0} /\ Head(wire) = Program(Bytes)[Made + 1]
    BY NextWrite DEF Stopping
<1>2. at \in Nat
    <2>1. PerByte \in Nat
        BY <1>1, ProgramFacts
    <2>2. PerByte * Len(Bytes) \in Nat
        BY <1>1, <2>1
    <2> QED BY <2>2
<1>3. Head(wire) = StopCond[j + 1]
    <2>1. \A i \in 1 .. 6 : Program(Bytes)[at + i] = StopCond[i]
        BY <1>1, ProgramFacts
    <2>2. Made + 1 = at + (j + 1) /\ j + 1 \in 1 .. 6
        BY <1>1, <1>2
    <2> QED BY <1>1, <2>1, <2>2
<1>4. Made' = at + (j + 1)
    BY <1>1, <1>2
<1>5. /\ Count = Len(Bytes) /\ scl = (IF j < 3 THEN 0 ELSE 1) /\ (j >= 2 => sda = 0)
      /\ rx = (IF j < 3 THEN Opened ELSE Zeroed)
    BY DEF Stopping
<1> HIDE DEF at
<1>6. ASSUME NEW i \in 0 .. 5, i = j + 1, heard' = heard, scl' = (IF i < 3 THEN 0 ELSE 1), i >= 2 => sda' = 0,
             rx' = (IF i < 3 THEN Opened ELSE Zeroed)
      PROVE  Stopping(i)'
    <2>1. Count' = Len(Bytes)'
        BY <1>1, <1>5, <1>6 DEF Count
    <2>2. Made' = 6 + PerByte * Len(Bytes') + i
        BY <1>1, <1>4, <1>6 DEF at
    <2> QED BY <1>6, <2>1, <2>2 DEF Stopping
<1>7. CASE j = 0
    <2>1. Head(wire) = <<"scl", 0>>
        BY <1>3, <1>7, StopWrites
    <2>2. scl' = 0 /\ rx' = Opened /\ heard' = heard
        BY <1>5, <1>7, <2>1, WriteEffects
    <2>3. Stopping(1)'
        BY <1>6, <1>7, <2>2
    <2> QED BY <1>7, <2>2, <2>3
<1>8. CASE j = 1
    <2>1. Head(wire) = <<"sda", 0>>
        BY <1>3, <1>8, StopWrites
    <2>2. scl' = 0 /\ sda' = 0 /\ rx' = Opened /\ heard' = heard
        BY <1>5, <1>8, <2>1, WriteEffects
    <2>3. Stopping(2)'
        BY <1>6, <1>8, <2>2
    <2> QED BY <1>8, <2>2, <2>3
<1>9. CASE j = 2
    <2>1. Head(wire) = <<"scl", 1>>
        BY <1>3, <1>9, StopWrites
    <2>2. scl = 0 /\ sda = 0 /\ rx = [open |-> TRUE, bits |-> <<>>]
        BY <1>5, <1>9 DEF Opened
    <2>3. /\ rx.open /\ rx.bits = <<>>
          /\ [rx EXCEPT !.bits = Append(<<>>, 0)] = [open |-> TRUE, bits |-> Append(<<>>, 0)]
        BY <2>2, Collected
    <2>4. Len(rx.bits) < Width
        BY <2>3, ProtoAssumption
    <2>5. scl' = 1 /\ sda' = 0 /\ heard' = heard /\ rx' = [rx EXCEPT !.bits = Append(@, sda)]
        BY <2>1, <2>2, <2>3, <2>4, WriteEffects
    <2>6. rx' = Zeroed
        <3>1. Append(<<>>, 0) = <<0>>
            OBVIOUS
        <3> QED BY <2>2, <2>3, <2>5, <3>1 DEF Zeroed
    <2>7. Stopping(3)'
        BY <1>6, <1>9, <2>5, <2>6
    <2> QED BY <1>9, <2>5, <2>7
<1>10. CASE j = 3
    <2>1. Head(wire) = <<"sda", 0>>
        BY <1>3, <1>10, StopWrites
    <2>2. scl' = 1 /\ sda' = 0 /\ rx' = rx /\ heard' = heard
        BY <1>5, <1>10, <2>1, WriteEffects
    <2>3. Stopping(4)'
        BY <1>5, <1>6, <1>10, <2>2
    <2> QED BY <1>10, <2>2, <2>3
<1>11. CASE j = 4
    <2>1. Head(wire) = <<"scl", 1>>
        BY <1>3, <1>11, StopWrites
    <2>2. scl' = 1 /\ sda' = 0 /\ rx' = rx /\ heard' = heard
        BY <1>5, <1>11, <2>1, WriteEffects
    <2>3. Stopping(5)'
        BY <1>5, <1>6, <1>11, <2>2
    <2> QED BY <1>11, <2>2, <2>3
<1>12. CASE j = 5
    <2>1. Head(wire) = <<"sda", 1>>
        BY <1>3, <1>12, StopWrites
    <2>2. rx' = Silent /\ heard' = heard
        BY <1>5, <1>12, <2>1, WriteEffects
    <2> QED BY <1>5, <1>12, <2>2
<1> QED BY <1>7, <1>8, <1>9, <1>10, <1>11, <1>12

(* heard agrees with the bytes of the transfer after one more of them. *)
LEMMA PrefixGrows ==
    ASSUME Prefixed, Bytes \in Seq(Byte), Bytes' = Bytes,
           heard' = heard \/ (Count < Len(Bytes) /\ heard' = Append(heard, Bytes[Count + 1]))
    PROVE  Prefixed'
<1>1. heard \in Seq(Byte) /\ Count \in Nat /\ Count <= Len(Bytes) /\ Len(Bytes) \in Nat
    BY LenProperties DEF Prefixed, Count
<1>2. CASE heard' = heard
    BY <1>2 DEF Prefixed, Count
<1>3. CASE Count < Len(Bytes) /\ heard' = Append(heard, Bytes[Count + 1])
    <2>1. Bytes[Count + 1] \in Byte
        BY <1>1, <1>3
    <2>2. /\ heard' \in Seq(Byte) /\ Count' = Count + 1 /\ heard'[Count + 1] = Bytes[Count + 1]
          /\ \A i \in 1 .. Count : heard'[i] = heard[i]
        BY <1>1, <1>3, <2>1, Added DEF Count
    <2>3. \A i \in 1 .. Count' : heard'[i] = Bytes[i]
        BY <1>1, <2>2 DEF Prefixed
    <2>4. Count' <= Len(Bytes)
        BY <1>1, <1>3, <2>2
    <2> QED BY <2>2, <2>3, <2>4 DEF Prefixed
<1> QED BY <1>2, <1>3

(* All that was heard of a transfer, when nothing is missing. *)
LEMMA AllHeard ==
    ASSUME Prefixed, Bytes \in Seq(Byte), Count = Len(Bytes)
    PROVE  heard = Bytes
BY DEF Prefixed, Count

(* A pin write is heard as a bit of the next byte, or not at all; the      *)
(* transfer ends with the last of them, when all of it was heard.          *)
LEMMA WireMoves ==
    ASSUME ProtoInv, TransferInv, I2cInv, WireStep
    PROVE  /\ Len(wire) = 1 => wire' = <<>> /\ rx' = Silent /\ heard' = heard /\ heard = Bytes
           /\ Len(wire) # 1 => wire' # <<>>
           /\ I2cInv'
           /\ heard' = heard \/ (Count < Len(Bytes) /\ heard' = Append(heard, Bytes[Count + 1]))
<1>1. /\ Bytes \in Seq(Byte) /\ Len(Bytes) \in Nat \ {0} /\ Bytes' = Bytes /\ PerByte \in Nat
      /\ Made \in Nat /\ (Len(wire) = 1 <=> Made + 1 = 12 + PerByte * Len(Bytes))
      /\ wire' = <<>> <=> Len(wire) = 1
    BY NextWrite, ProgramFacts
<1>2. pc = "wire" /\ pc' = (IF Len(wire) = 1 THEN "ready" ELSE "wire")
    BY DEF WireStep
<1>3. Prefixed /\ Somewhere
    BY <1>2 DEF I2cInv
<1>4. PerByte * Len(Bytes) \in Nat
    BY <1>1
<1>5. /\ heard' = heard \/ (Count < Len(Bytes) /\ heard' = Append(heard, Bytes[Count + 1]))
      /\ Len(wire) # 1 => Somewhere'
      /\ Len(wire) = 1 => rx' = Silent /\ heard' = heard /\ Count = Len(Bytes)
    <2>1. ASSUME NEW j \in 0 .. 5, Starting(j) PROVE Len(wire) # 1 /\ heard' = heard /\ Somewhere'
        <3>1. Len(wire) # 1
            <4>1. Made = j
                BY <2>1 DEF Starting
            <4> QED BY <1>1, <1>4, <4>1
        <3>2. heard' = heard /\ (Sending(0, 0, 0)' \/ \E i \in 0 .. 5 : Starting(i)')
            BY <2>1, StartStep
        <3>3. 0 \in 0 .. Len(Bytes') - 1 /\ 0 \in 0 .. Width
            BY <1>1, ProtoAssumption
        <3> QED BY <3>1, <3>2, <3>3 DEF Somewhere
    <2>2. ASSUME NEW n \in 0 .. Len(Bytes) - 1, NEW k \in 0 .. Width, NEW j \in 0 .. 5, Sending(n, k, j)
          PROVE  /\ Len(wire) # 1 /\ Somewhere'
                 /\ heard' = heard \/ (Count < Len(Bytes) /\ heard' = Append(heard, Bytes[Count + 1]))
        <3>1. Len(wire) # 1
            <4> DEFINE m == PerByte
                       N == Len(Bytes)
                       a == m * n
                       d == m * (N - (n + 1))
                       q == m * N
            <4>1. q = a + m + d /\ a \in Nat /\ d \in Nat /\ m \in Nat /\ N \in Nat
                BY <1>1
            <4>2. Made = 6 + a + 6 * k + j
                BY <2>2 DEF Sending
            <4>3. m = 6 * Width + 6 /\ Width \in Nat
                BY ProtoAssumption DEF PerByte
            <4> HIDE DEF m, N, a, d, q
            <4>4. Made + 1 # 12 + q
                BY <4>1, <4>2, <4>3
            <4> QED BY <1>1, <4>4 DEF q, m, N
        <3>2. CASE j = 5
            BY <2>2, <3>1, <3>2, SlotEnds
        <3>3. CASE j # 5
            <4>1. j \in 0 .. 4
                BY <3>3
            <4>2. Sending(n, k, j + 1)' /\ (heard' = heard \/ (Count = n /\ heard' = Append(heard, Bytes[Count + 1])))
                BY <2>2, <4>1, SendStep
            <4>3. j + 1 \in 0 .. 5 /\ n \in 0 .. Len(Bytes') - 1 /\ n < Len(Bytes)
                BY <1>1, <4>1
            <4> QED BY <3>1, <4>2, <4>3 DEF Somewhere
        <3> QED BY <3>2, <3>3
    <2>3. ASSUME NEW j \in 0 .. 5, Stopping(j)
          PROVE  /\ heard' = heard
                 /\ Len(wire) # 1 => Somewhere'
                 /\ Len(wire) = 1 => rx' = Silent /\ Count = Len(Bytes)
        <3>1. Len(wire) = 1 <=> j = 5
            <4>1. Made = 6 + PerByte * Len(Bytes) + j
                BY <2>3 DEF Stopping
            <4> QED BY <1>1, <1>4, <4>1
        <3>2. j < 5 <=> j # 5
            OBVIOUS
        <3> QED BY <2>3, <3>1, <3>2, StopStep DEF Somewhere
    <2> QED BY <1>3, <2>1, <2>2, <2>3 DEF Somewhere
<1>6. Prefixed'
    BY <1>1, <1>3, <1>5, PrefixGrows
<1>7. I2cInv'
    <2>1. /\ Len(wire') <= Len(Program(Bytes'))
          /\ \A i \in 1 .. Len(wire') : wire'[i] = Program(Bytes')[Made' + i]
        BY <1>1, NextWrite
    <2> QED BY <1>2, <1>5, <1>6, <2>1 DEF I2cInv
<1>8. Len(wire) = 1 => heard = Bytes
    BY <1>1, <1>3, <1>5, AllHeard
<1> QED BY <1>1, <1>5, <1>7, <1>8

-----------------------------------------------------------------------------
(* UART: a byte moves from the FIFO to the shift register, and bit by bit  *)
(* over the line to the decoder.                                           *)

(* Where the byte on its way stands when a bit of it moves on. *)
LEMMA BitMoves ==
    ASSUME NEW s \in Seq(Level), s # <<>>, NEW t \in Seq(Level)
    PROVE  /\ s[Len(s)] \in Level /\ SubSeq(s, 1, Len(s) - 1) \in Seq(Level) /\ <<s[Len(s)]>> \o t \in Seq(Level)
           /\ SubSeq(s, 1, Len(s) - 1) \o (<<s[Len(s)]>> \o t) = s \o t
           /\ Len(s) = 1 => <<s[Len(s)]>> \o t = s \o t
<1> DEFINE n == Len(s)
           e == s[n]
           a == SubSeq(s, 1, n - 1)
<1>1. n \in Nat \ {0} /\ n - 1 \in Nat /\ e \in Level
    <2>1. n \in Nat \ {0}
        BY Taken
    <2> QED BY <2>1, LenProperties
<1>2. a \in Seq(Level) /\ Len(a) = n - 1 /\ \A i \in 1 .. n - 1 : a[i] = s[i]
    <2> DEFINE m == n - 1
    <2>1. m \in Nat /\ 1 \in Int /\ \A i \in 1 .. m : s[i] \in Level
        BY <1>1
    <2> HIDE DEF m
    <2>2. /\ SubSeq(s, 1, m) \in Seq(Level) /\ Len(SubSeq(s, 1, m)) = (IF 1 <= m THEN m - 1 + 1 ELSE 0)
          /\ \A i \in 1 .. m - 1 + 1 : SubSeq(s, 1, m)[i] = s[1 + i - 1]
        BY <2>1, SubSeqProperties
    <2>3. Len(SubSeq(s, 1, m)) = m /\ \A i \in 1 .. m : SubSeq(s, 1, m)[i] = s[i]
        BY <2>1, <2>2
    <2> QED BY <2>2, <2>3 DEF m
<1>3. s = Append(a, e)
    <2>1. Append(a, e) \in Seq(Level) /\ Len(Append(a, e)) = n
        BY <1>1, <1>2
    <2>2. ASSUME NEW i \in 1 .. n PROVE s[i] = Append(a, e)[i]
        <3>1. CASE i = n
            BY <1>1, <1>2, <3>1
        <3>2. CASE i # n
            <4>1. i \in 1 .. n - 1
                BY <1>1, <3>2
            <4> QED BY <1>1, <1>2, <4>1
        <3> QED BY <3>1, <3>2
    <2> HIDE DEF a, e
    <2> QED BY <2>1, <2>2, SeqEqual
<1>4. Append(a, e) = a \o <<e>> /\ <<e>> \in Seq(Level)
    BY <1>1, <1>2, AppendIsConcat
<1> HIDE DEF a, e, n
<1>5. (a \o <<e>>) \o t = a \o (<<e>> \o t)
    <2> DEFINE u == <<e>>
    <2>1. u \in Seq(Level) /\ a \in Seq(Level)
        BY <1>2, <1>4
    <2> HIDE DEF u
    <2>2. (a \o u) \o t = a \o (u \o t)
        BY <2>1, ConcatAssociative
    <2> QED BY <2>2 DEF u
<1>6. <<e>> \o t \in Seq(Level)
    BY <1>4, ConcatProperties
<1>7. n = 1 => a = <<>>
    BY <1>2, EmptySeq
<1>8. <<>> \o (<<e>> \o t) = <<e>> \o t
    BY <1>6, ConcatEmptySeq
<1> QED BY <1>1, <1>2, <1>3, <1>4, <1>5, <1>6, <1>7, <1>8 DEF a, e, n

(* The byte on its way is one of those still to be heard. *)
LEMMA UartBounds ==
    ASSUME ProtoInv, TransferInv, UartInv, transfer.protocol = "Uart"
    PROVE  /\ Bytes \in Seq(Byte) /\ payload = Bytes /\ Count \in Nat /\ Prefixed
           /\ UartAhead \in {0, 1} /\ Count + UartAhead + Len(uartFifo) = cursor /\ cursor <= Len(Bytes)
           /\ Len(Bytes) \in Nat /\ Len(uartFifo) \in Nat
           /\ UartAhead = 1 => Count < Len(Bytes) /\ Bytes[Count + 1] \in Seq(Level) /\ Len(Bytes[Count + 1]) = Width
<1>1. Bytes \in Seq(Byte) /\ Len(Bytes) \in Nat \ {0}
    BY FrameBytes DEF Protocols
<1>2. payload = Bytes /\ cursor \in 0 .. Len(payload) /\ uartFifo \in Seq(Byte)
    BY DEF ProtoInv, TypeOK, TransferInv
<1>3. Prefixed /\ cursor = Count + UartAhead + Len(uartFifo) /\ UartAhead \in {0, 1}
    BY DEF UartInv, Follows, UartAhead
<1>4. Count \in Nat /\ Len(uartFifo) \in Nat
    BY <1>2, <1>3, LenProperties DEF Prefixed, Count
<1>5. cursor <= Len(Bytes)
    BY <1>1, <1>2
<1>6. ASSUME UartAhead = 1
      PROVE  Count < Len(Bytes) /\ Bytes[Count + 1] \in Seq(Level) /\ Len(Bytes[Count + 1]) = Width
    <2>1. Count < Len(Bytes)
        BY <1>1, <1>3, <1>4, <1>5, <1>6
    <2>2. Count + 1 \in 1 .. Len(Bytes)
        BY <1>1, <1>4, <2>1
    <2>3. Bytes[Count + 1] \in Byte
        BY <1>1, <2>2
    <2> QED BY <2>1, <2>3, ByteIsSeq
<1> QED BY <1>1, <1>2, <1>3, <1>4, <1>5, <1>6

(* `pull`: the line is high, which ends the byte before; the next byte, if *)
(* there is one, goes to the shift register.                               *)
LEMMA PullStep ==
    ASSUME ProtoInv, TransferInv, UartInv, UartPull
    PROVE  /\ UartInv'
           /\ heard' = heard \/ (Count < Len(Bytes) /\ heard' = Append(heard, Bytes[Count + 1]))
<1>0. transfer.protocol = "Uart" /\ uphase = "pull"
    BY DEF TransferInv, UartPull
<1>1. /\ Bytes \in Seq(Byte) /\ payload = Bytes /\ Count \in Nat /\ Prefixed
      /\ Count + UartAhead + Len(uartFifo) = cursor /\ uartFifo \in Seq(Byte) /\ Len(uartFifo) \in Nat
      /\ \A i \in 1 .. Len(uartFifo) : uartFifo[i] = Bytes[Count + UartAhead + i]
    BY <1>0, UartBounds DEF UartInv, Follows, ProtoInv, TypeOK
<1>2. Bytes' = Bytes /\ transfer' = transfer /\ cursor' = cursor /\ HearUart(1)
    BY DEF UartPull, fields, Bytes
<1>3. /\ rx' = Silent
      /\ heard' = heard \/ (Count < Len(Bytes) /\ heard' = Append(heard, Bytes[Count + 1]))
      /\ Count' = Count + UartAhead
    <2>1. CASE ~rx.open
        <3>1. rx = Silent /\ UartAhead = 0
            BY <1>0, <2>1 DEF UartInv, UartAhead
        <3>2. rx' = Silent /\ heard' = heard
            BY <1>2, <2>1, <3>1 DEF HearUart
        <3> QED BY <1>1, <3>1, <3>2 DEF Count
    <2>2. CASE rx.open
        <3>1. UartAhead = 1 /\ rx = [open |-> TRUE, bits |-> Bytes[Count + 1]]
            BY <1>0, <2>2 DEF UartInv, UartAhead
        <3>2. rx.bits = Bytes[Count + 1]
            BY <3>1, Collected
        <3>3. /\ Count < Len(Bytes) /\ Len(rx.bits) = Width /\ Width \in Nat
            BY <1>0, <3>1, <3>2, UartBounds, ProtoAssumption
        <3>4. rx' = Silent /\ heard' = Append(heard, Bytes[Count + 1])
            BY <1>2, <2>2, <3>2, <3>3 DEF HearUart, Take
        <3>5. Bytes[Count + 1] \in Byte
            BY <1>1, <3>3
        <3>6. Count' = Count + 1
            BY <1>1, <3>4, <3>5, Added DEF Prefixed, Count
        <3> QED BY <3>1, <3>3, <3>4, <3>6
    <2> QED BY <2>1, <2>2
<1>4. Prefixed'
    BY <1>1, <1>2, <1>3, PrefixGrows
<1>5. ~(rx'.open)
    BY <1>3 DEF Silent
<1>6. CASE uartFifo = <<>>
    <2>1. uphase' = "pull" /\ uartFifo' = <<>> /\ UartAhead' = 0
        BY <1>0, <1>5, <1>6 DEF UartPull, UartAhead
    <2>2. Follows(uartFifo, UartAhead)'
        <3>1. Len(uartFifo) = 0 /\ Len(uartFifo') = 0
            BY <1>6, <2>1
        <3>2. cursor' = Count' + 0 + 0
            BY <1>1, <1>2, <1>3, <3>1 DEF UartAhead
        <3> QED BY <2>1, <3>1, <3>2 DEF Follows
    <2> QED BY <1>3, <1>4, <1>5, <2>1, <2>2 DEF UartInv
<1>7. CASE uartFifo # <<>>
    <2>1. uphase' = "start" /\ ubits' = Head(uartFifo) /\ uartFifo' = Tail(uartFifo) /\ UartAhead' = 1
        BY <1>7 DEF UartPull, UartAhead
    <2>2. /\ Head(uartFifo) = uartFifo[1] /\ Len(uartFifo') = Len(uartFifo) - 1 /\ 1 \in 1 .. Len(uartFifo)
          /\ \A i \in 1 .. Len(uartFifo) - 1 : uartFifo'[i] = uartFifo[i + 1] /\ i + 1 \in 1 .. Len(uartFifo)
        BY <1>1, <1>7, <2>1, Taken
    <2>3. ubits' = Bytes[Count' + 1]
        BY <1>1, <1>3, <2>1, <2>2
    <2>4. Follows(uartFifo, UartAhead)'
        <3>1. cursor' = Count' + 1 + Len(uartFifo')
            BY <1>1, <1>2, <1>3, <2>2 DEF UartAhead
        <3>2. ASSUME NEW i \in 1 .. Len(uartFifo') PROVE uartFifo'[i] = Bytes'[Count' + 1 + i]
            <4>1. i + 1 \in 1 .. Len(uartFifo) /\ uartFifo'[i] = uartFifo[i + 1]
                BY <2>2
            <4>2. Count + UartAhead + (i + 1) = Count' + 1 + i
                BY <1>1, <1>3 DEF UartAhead
            <4> QED BY <1>1, <1>2, <4>1, <4>2
        <3> QED BY <2>1, <3>1, <3>2 DEF Follows
    <2> QED BY <1>2, <1>3, <1>4, <2>1, <2>3, <2>4 DEF UartInv
<1> QED BY <1>3, <1>6, <1>7

(* The FIFO follows what was heard as long as neither it, nor the cursor,  *)
(* nor the byte on its way changes.                                        *)
LEMMA UartKept ==
    ASSUME transfer.protocol = "Uart", UartInv, UNCHANGED <<transfer, heard, cursor, uartFifo>>, UartAhead' = UartAhead
    PROVE  Prefixed' /\ Follows(uartFifo, UartAhead)' /\ Bytes' = Bytes /\ Count' = Count
<1>1. Bytes' = Bytes /\ Count' = Count
    BY DEF Bytes, Count
<1> QED BY <1>1 DEF UartInv, Prefixed, Follows

(* The start bit opens the frame. *)
LEMMA StartBitStep ==
    ASSUME ProtoInv, TransferInv, UartInv, UartStart
    PROVE  UartInv' /\ heard' = heard
<1>0. transfer.protocol = "Uart" /\ uphase = "start"
    BY DEF TransferInv, UartStart
<1>1. /\ rx = Silent /\ ubits = Bytes[Count + 1] /\ UartAhead = 1
      /\ UNCHANGED <<transfer, cursor, uartFifo, ubits>> /\ uphase' = "data" /\ HearUart(0)
    BY <1>0 DEF UartInv, UartAhead, UartStart, fields
<1>2. rx' = Opened /\ heard' = heard
    BY <1>1 DEF HearUart, Silent
<1>3. UartAhead' = UartAhead
    BY <1>1, <1>2 DEF UartAhead
<1>4. Prefixed' /\ Follows(uartFifo, UartAhead)' /\ Bytes' = Bytes /\ Count' = Count
    BY <1>0, <1>1, <1>2, <1>3, UartKept
<1>5. ubits \in Seq(Level) /\ ubits \o <<>> = ubits
    BY <1>0, <1>1, UartBounds, ConcatEmptySeq
<1>6. rx'.open /\ rx'.bits = <<>> /\ rx' = [open |-> TRUE, bits |-> rx'.bits] /\ rx'.bits \in Seq(Level)
    BY <1>2, EmptySequence DEF Opened
<1>7. ubits' \o rx'.bits = Bytes'[Count' + 1]
    BY <1>1, <1>4, <1>5, <1>6
<1> QED BY <1>1, <1>2, <1>4, <1>6, <1>7 DEF UartInv

(* A bit moves from the shift register to the decoder. *)
LEMMA DataBitStep ==
    ASSUME ProtoInv, TransferInv, UartInv, UartBit
    PROVE  UartInv' /\ heard' = heard
<1>0. transfer.protocol = "Uart" /\ uphase = "data"
    BY DEF TransferInv, UartBit
<1> DEFINE n == Len(ubits)
           bit == ubits[n]
<1>1. /\ rx.open /\ rx.bits \in Seq(Level) /\ rx = [open |-> TRUE, bits |-> rx.bits]
      /\ ubits \o rx.bits = Bytes[Count + 1] /\ UartAhead = 1
    BY <1>0 DEF UartInv, UartAhead
<1>2. ubits \in Seq(Level) /\ ubits # <<>> /\ n \in Nat \ {0}
    BY <1>0, Taken DEF ProtoInv, TypeOK, LineInv
<1>3. Len(rx.bits) < Width
    <2>1. Len(ubits \o rx.bits) = Width
        BY <1>0, <1>1, UartBounds
    <2>2. Len(ubits \o rx.bits) = n + Len(rx.bits) /\ Len(rx.bits) \in Nat
        BY <1>1, <1>2, Joined
    <2> QED BY <1>2, <2>1, <2>2, ProtoAssumption
<1>4. UNCHANGED <<transfer, cursor, uartFifo>>
    BY DEF UartBit, fields
<1>5. /\ uphase' = (IF n = 1 THEN "pull" ELSE "data") /\ ubits' = SubSeq(ubits, 1, n - 1)
      /\ HearUart(bit)
    BY DEF UartBit
<1>6. heard' = heard /\ rx' = [rx EXCEPT !.bits = <<bit>> \o @]
    BY <1>1, <1>3, <1>5, ProtoAssumption, LenProperties DEF HearUart
<1>7. rx' = [open |-> TRUE, bits |-> <<bit>> \o rx.bits]
    BY <1>1, <1>6, Collected
<1>8. /\ SubSeq(ubits, 1, n - 1) \in Seq(Level) /\ <<bit>> \o rx.bits \in Seq(Level)
      /\ SubSeq(ubits, 1, n - 1) \o (<<bit>> \o rx.bits) = ubits \o rx.bits
      /\ n = 1 => <<bit>> \o rx.bits = ubits \o rx.bits
    <2> DEFINE t == rx.bits
               u == ubits
    <2>1. u \in Seq(Level) /\ u # <<>> /\ t \in Seq(Level)
        BY <1>1, <1>2
    <2> HIDE DEF t, u
    <2>2. /\ SubSeq(u, 1, Len(u) - 1) \in Seq(Level) /\ <<u[Len(u)]>> \o t \in Seq(Level)
          /\ SubSeq(u, 1, Len(u) - 1) \o (<<u[Len(u)]>> \o t) = u \o t
          /\ Len(u) = 1 => <<u[Len(u)]>> \o t = u \o t
        BY <2>1, BitMoves
    <2> QED BY <2>2 DEF t, u
<1> HIDE DEF n, bit
<1>9. rx'.open /\ rx'.bits = <<bit>> \o rx.bits
    BY <1>7, Collected
<1>10. UartAhead' = UartAhead
    BY <1>1, <1>9 DEF UartAhead
<1>11. Prefixed' /\ Follows(uartFifo, UartAhead)' /\ Bytes' = Bytes /\ Count' = Count
    BY <1>0, <1>4, <1>6, <1>10, UartKept
<1>12. ubits' \o rx'.bits = Bytes'[Count' + 1] /\ rx'.bits \in Seq(Level)
    BY <1>1, <1>5, <1>8, <1>9, <1>11
<1>13. n = 1 => rx' = [open |-> TRUE, bits |-> Bytes'[Count' + 1]]
    BY <1>1, <1>7, <1>8, <1>11
<1>14. uphase' = "pull" <=> n = 1
    BY <1>5
<1>15. uphase' \in {"pull", "data"} /\ rx' = [open |-> TRUE, bits |-> rx'.bits]
    BY <1>5, <1>7, <1>9
<1> QED BY <1>6, <1>9, <1>11, <1>12, <1>13, <1>14, <1>15 DEF UartInv

(* Another byte of the payload goes into the FIFO. *)
LEMMA PushUartStep ==
    ASSUME ProtoInv, TransferInv, UartInv, PushUart
    PROVE  UartInv'
<1>0. transfer.protocol = "Uart" /\ Queued
    BY DEF TransferInv, PushUart
<1>1. UNCHANGED <<transfer, heard, rx, uphase, ubits>> /\ cursor' = cursor + 1
      /\ uartFifo' = Append(uartFifo, payload[cursor + 1])
    BY DEF PushUart, decoder
<1>2. /\ Bytes \in Seq(Byte) /\ payload = Bytes /\ Count \in Nat /\ Prefixed
      /\ Count + UartAhead + Len(uartFifo) = cursor /\ uartFifo \in Seq(Byte) /\ Len(uartFifo) \in Nat
      /\ UartAhead \in {0, 1} /\ Len(Bytes) \in Nat
      /\ \A i \in 1 .. Len(uartFifo) : uartFifo[i] = Bytes[Count + UartAhead + i]
    BY <1>0, UartBounds DEF UartInv, Follows, ProtoInv, TypeOK
<1>3. Bytes[cursor + 1] \in Byte
    BY <1>0, <1>2 DEF Queued
<1>4. /\ Len(uartFifo') = Len(uartFifo) + 1 /\ uartFifo'[Len(uartFifo) + 1] = Bytes[cursor + 1]
      /\ \A i \in 1 .. Len(uartFifo) : uartFifo'[i] = uartFifo[i]
    BY <1>1, <1>2, <1>3, Added
<1>5. Bytes' = Bytes /\ Count' = Count /\ UartAhead' = UartAhead
    BY <1>1 DEF Bytes, Count, UartAhead
<1>6. \A i \in 1 .. Len(uartFifo') : uartFifo'[i] = Bytes[Count + UartAhead + i]
    <2>1. TAKE i \in 1 .. Len(uartFifo')
    <2>2. CASE i = Len(uartFifo) + 1
        <3>1. Count + UartAhead + i = cursor + 1
            BY <1>2, <2>2
        <3> QED BY <1>4, <2>2, <3>1
    <2>3. CASE i # Len(uartFifo) + 1
        <3>1. i \in 1 .. Len(uartFifo)
            BY <1>2, <1>4, <2>3
        <3> QED BY <1>2, <1>4, <3>1
    <2> QED BY <2>2, <2>3
<1>7. cursor' = Count + UartAhead + Len(uartFifo')
    BY <1>1, <1>2, <1>4
<1>8. Follows(uartFifo, UartAhead)' /\ Prefixed'
    BY <1>1, <1>2, <1>5, <1>6, <1>7 DEF Follows, Prefixed
<1> QED BY <1>0, <1>1, <1>5, <1>8 DEF UartInv

-----------------------------------------------------------------------------
(* SPI: the same, the most significant bit first, and the stall flag.      *)

(* Where the byte on its way stands when its next bit goes out. *)
LEMMA BitOut ==
    ASSUME NEW s \in Seq(Level), s # <<>>, NEW t \in Seq(Level)
    PROVE  /\ Head(s) \in Level /\ Tail(s) \in Seq(Level)
           /\ Append(t, Head(s)) \o Tail(s) = t \o s
<1> DEFINE e == Head(s)
           r == Tail(s)
<1>1. e \in Level /\ r \in Seq(Level) /\ s = <<e>> \o r
    BY Taken, HeadTailProperties
<1>2. <<e>> \in Seq(Level) /\ Append(t, e) = t \o <<e>>
    BY <1>1, AppendIsConcat
<1> HIDE DEF e, r
<1> DEFINE u == <<e>>
<1>3. u \in Seq(Level) /\ r \in Seq(Level) /\ t \in Seq(Level)
    BY <1>1, <1>2
<1> HIDE DEF u
<1>4. (t \o u) \o r = t \o (u \o r)
    BY <1>3, ConcatAssociative
<1> QED BY <1>1, <1>2, <1>4 DEF e, r, u

(* The byte on its way is one of those still to be heard. *)
LEMMA SpiBounds ==
    ASSUME ProtoInv, TransferInv, SpiInv, transfer.protocol = "Spi"
    PROVE  /\ Bytes \in Seq(Byte) /\ payload = Bytes /\ Count \in Nat /\ Prefixed
           /\ SpiAhead \in {0, 1} /\ Count + SpiAhead + Len(spiFifo) = cursor /\ cursor <= Len(Bytes)
           /\ Len(Bytes) \in Nat /\ Len(spiFifo) \in Nat /\ spiFifo \in Seq(Byte)
           /\ \A i \in 1 .. Len(spiFifo) : spiFifo[i] = Bytes[Count + SpiAhead + i]
           /\ SpiAhead = 1 => Count < Len(Bytes) /\ Bytes[Count + 1] \in Seq(Level) /\ Len(Bytes[Count + 1]) = Width
<1>1. Bytes \in Seq(Byte) /\ Len(Bytes) \in Nat \ {0}
    BY FrameBytes DEF Protocols
<1>2. payload = Bytes /\ cursor \in 0 .. Len(payload) /\ spiFifo \in Seq(Byte)
    BY DEF ProtoInv, TypeOK, TransferInv
<1>3. Prefixed /\ cursor = Count + SpiAhead + Len(spiFifo) /\ SpiAhead \in {0, 1}
      /\ \A i \in 1 .. Len(spiFifo) : spiFifo[i] = Bytes[Count + SpiAhead + i]
    BY DEF SpiInv, Follows, SpiAhead
<1>4. Count \in Nat /\ Len(spiFifo) \in Nat
    BY <1>2, <1>3, LenProperties DEF Prefixed, Count
<1>5. cursor <= Len(Bytes)
    BY <1>1, <1>2
<1>6. ASSUME SpiAhead = 1
      PROVE  Count < Len(Bytes) /\ Bytes[Count + 1] \in Seq(Level) /\ Len(Bytes[Count + 1]) = Width
    <2>1. Count < Len(Bytes)
        BY <1>1, <1>3, <1>4, <1>5, <1>6
    <2>2. Count + 1 \in 1 .. Len(Bytes)
        BY <1>1, <1>4, <2>1
    <2>3. Bytes[Count + 1] \in Byte
        BY <1>1, <2>2
    <2> QED BY <2>1, <2>3, ByteIsSeq
<1> QED BY <1>1, <1>2, <1>3, <1>4, <1>5, <1>6

(* The state machine puts the next bit on MOSI, or stalls.                 *)
LEMMA OutStep ==
    ASSUME ProtoInv, TransferInv, SpiInv, SpiOut
    PROVE  SpiInv'
<1>0. transfer.protocol = "Spi" /\ sphase = "out"
    BY DEF TransferInv, SpiOut
<1>1. UNCHANGED <<transfer, heard, rx, cursor, active, wrote, pc, payload>>
    BY DEF SpiOut, cpuVars, fields, decoder
<1>2. Bytes' = Bytes /\ Count' = Count /\ Prefixed'
    <2>1. Prefixed
        BY <1>0 DEF SpiInv
    <2> QED BY <1>1, <2>1 DEF Prefixed, Bytes, Count
<1>3. /\ rx.bits \in Seq(Level) /\ rx = [open |-> TRUE, bits |-> rx.bits]
      /\ sbits = <<>> => rx.bits = <<>>
      /\ sbits # <<>> => rx.bits \o sbits = Bytes[Count + 1]
      /\ active # "Spi" => Drained /\ cursor = Len(Bytes)
      /\ pc = "probe" => cursor = Len(Bytes)
      /\ spiStall /\ active = "Spi" /\ ~wrote /\ pc \notin {"arm", "clear"} => Drained
    BY <1>0 DEF SpiInv, SpiIdleBetween
<1>4. CASE sbits # <<>>
    <2>1. /\ mosi' = Head(sbits) /\ sbits' = Tail(sbits) /\ sphase' = "clock" /\ spiStall' = spiStall
          /\ spiFifo' = spiFifo
        BY <1>4 DEF SpiOut, SpiShift
    <2>2. SpiAhead = 1 /\ SpiAhead' = 1 /\ ~SpiIdleBetween' /\ ~Drained
        BY <1>4, <2>1 DEF SpiAhead, SpiIdleBetween, Drained
    <2>3. Append(rx.bits, mosi') \o sbits' = Bytes[Count + 1]
        <3>1. sbits \in Seq(Level)
            BY DEF ProtoInv, TypeOK
        <3> QED BY <1>3, <1>4, <2>1, <3>1, BitOut
    <2>4. Follows(spiFifo, SpiAhead)'
        <3>1. Follows(spiFifo, SpiAhead)
            BY <1>0 DEF SpiInv
        <3> QED BY <1>1, <1>2, <2>1, <2>2, <3>1 DEF Follows
    <2> QED BY <1>1, <1>2, <1>3, <2>1, <2>2, <2>3, <2>4 DEF SpiInv
<1>5. CASE sbits = <<>> /\ spiFifo # <<>>
    <2>1. /\ mosi' = Head(Head(spiFifo)) /\ sbits' = Tail(Head(spiFifo)) /\ sphase' = "clock"
          /\ spiStall' = spiStall /\ spiFifo' = Tail(spiFifo)
        BY <1>5 DEF SpiOut, SpiShift
    <2>2. SpiAhead = 0 /\ SpiAhead' = 1 /\ ~SpiIdleBetween' /\ ~Drained
        BY <1>0, <1>5, <2>1 DEF SpiAhead, SpiIdleBetween, Drained
    <2>3. /\ spiFifo \in Seq(Byte) /\ Len(spiFifo) \in Nat /\ Count \in Nat
          /\ Count + 0 + Len(spiFifo) = cursor
          /\ \A i \in 1 .. Len(spiFifo) : spiFifo[i] = Bytes[Count + 0 + i]
        BY <1>0, <2>2, SpiBounds
    <2>4. /\ Head(spiFifo) = spiFifo[1] /\ Head(spiFifo) \in Byte /\ Len(spiFifo') = Len(spiFifo) - 1
          /\ 1 \in 1 .. Len(spiFifo)
          /\ \A i \in 1 .. Len(spiFifo) - 1 : spiFifo'[i] = spiFifo[i + 1] /\ i + 1 \in 1 .. Len(spiFifo)
        BY <1>5, <2>1, <2>3, Taken
    <2>5. Head(spiFifo) = Bytes[Count + 1]
        BY <2>3, <2>4
    <2>6. Append(rx.bits, mosi') \o sbits' = Bytes[Count + 1]
        <3> DEFINE h == Head(spiFifo)
                   z == rx.bits
        <3>1. h \in Seq(Level) /\ h # <<>> /\ z \in Seq(Level) /\ z = <<>>
            BY <1>3, <1>5, <2>4, ByteIsSeq
        <3>2. mosi' = Head(h) /\ sbits' = Tail(h)
            BY <2>1
        <3> HIDE DEF h, z
        <3>3. Append(z, Head(h)) \o Tail(h) = z \o h
            BY <3>1, BitOut
        <3>4. z \o h = h
            BY <3>1, ConcatEmptySeq
        <3>5. Append(z, mosi') \o sbits' = h
            BY <3>2, <3>3, <3>4
        <3> QED BY <2>5, <3>5 DEF h, z
    <2>7. Follows(spiFifo, SpiAhead)'
        <3>1. cursor' = Count' + 1 + Len(spiFifo')
            BY <1>1, <1>2, <2>3, <2>4
        <3>2. ASSUME NEW i \in 1 .. Len(spiFifo') PROVE spiFifo'[i] = Bytes'[Count' + 1 + i]
            <4>1. i + 1 \in 1 .. Len(spiFifo) /\ spiFifo'[i] = spiFifo[i + 1]
                BY <2>4
            <4>2. Count + 0 + (i + 1) = Count' + 1 + i
                BY <1>2, <2>3
            <4> QED BY <1>2, <2>3, <4>1, <4>2
        <3> QED BY <2>2, <3>1, <3>2 DEF Follows
    <2> QED BY <1>1, <1>2, <1>3, <2>1, <2>2, <2>6, <2>7 DEF SpiInv
<1>6. CASE sbits = <<>> /\ spiFifo = <<>>
    <2>1. UNCHANGED <<mosi, sbits, sphase, spiFifo>>
        BY <1>6 DEF SpiOut
    <2>2. Drained' /\ SpiIdleBetween' /\ SpiAhead' = SpiAhead
        BY <1>0, <1>6, <2>1 DEF Drained, SpiIdleBetween, SpiAhead
    <2>3. Follows(spiFifo, SpiAhead)'
        <3>1. Follows(spiFifo, SpiAhead)
            BY <1>0 DEF SpiInv
        <3> QED BY <1>1, <1>2, <2>1, <2>2, <3>1 DEF Follows
    <2>4. sphase' = "out" /\ sbits' = <<>>
        BY <1>0, <1>6, <2>1
    <2> QED BY <1>1, <1>2, <1>3, <1>6, <2>2, <2>3, <2>4 DEF SpiInv
<1> QED BY <1>4, <1>5, <1>6

(* SCK rises: the decoder samples MOSI. *)
LEMMA ClockStep ==
    ASSUME ProtoInv, TransferInv, SpiInv, SpiClock
    PROVE  /\ SpiInv'
           /\ heard' = heard \/ (Count < Len(Bytes) /\ heard' = Append(heard, Bytes[Count + 1]))
<1>0. transfer.protocol = "Spi" /\ sphase = "clock" /\ sphase' = "out" /\ HearSpi
    BY DEF TransferInv, SpiClock
<1>1. UNCHANGED <<transfer, cursor, active, wrote, pc, payload, sbits, spiFifo, spiStall, mosi>>
    BY DEF SpiClock, cpuVars, fields
<1>2. SpiAhead = 1 /\ ~SpiIdleBetween /\ ~Drained
    BY <1>0 DEF SpiAhead, SpiIdleBetween, Drained
<1>3. /\ rx.bits \in Seq(Level) /\ rx = [open |-> TRUE, bits |-> rx.bits]
      /\ Append(rx.bits, mosi) \o sbits = Bytes[Count + 1]
      /\ pc = "probe" => cursor = Len(Bytes)
      /\ ~(spiStall /\ active = "Spi" /\ ~wrote /\ pc \notin {"arm", "clear"})
      /\ active = "Spi"
    BY <1>0, <1>2 DEF SpiInv
<1>4. cs = 0
    BY <1>3 DEF ProtoInv, ModeInv
<1>5. /\ Bytes \in Seq(Byte) /\ Count \in Nat /\ Prefixed /\ Count + 1 + Len(spiFifo) = cursor
      /\ \A i \in 1 .. Len(spiFifo) : spiFifo[i] = Bytes[Count + 1 + i]
      /\ Count < Len(Bytes) /\ Len(Bytes[Count + 1]) = Width /\ Bytes[Count + 1] \in Byte
    <2>1. Count < Len(Bytes) /\ Bytes \in Seq(Byte) /\ Count \in Nat /\ Len(Bytes) \in Nat
        BY <1>0, <1>2, SpiBounds
    <2>2. Bytes[Count + 1] \in Byte
        BY <2>1
    <2> QED BY <1>0, <1>2, <2>2, SpiBounds
<1> DEFINE a == Append(rx.bits, mosi)
<1>6. a \in Seq(Level) /\ Len(rx.bits) \in Nat /\ Len(a) = Len(rx.bits) + 1 /\ sbits \in Seq(Level)
    <2>1. mosi \in Level /\ sbits \in Seq(Level)
        BY DEF ProtoInv, TypeOK
    <2> QED BY <1>3, <2>1, Added
<1>7. Len(a) + Len(sbits) = Width /\ Len(sbits) \in Nat /\ Width \in Nat
    <2>1. Len(a \o sbits) = Len(a) + Len(sbits) /\ Len(sbits) \in Nat
        <3> HIDE DEF a
        <3> QED BY <1>6, Joined
    <2> QED BY <1>3, <1>5, <2>1, ProtoAssumption
<1>8. Bytes' = Bytes
    BY <1>1 DEF Bytes
<1>9. CASE Len(rx.bits) + 1 < Width
    <2>1. rx' = [rx EXCEPT !.bits = Append(@, mosi)] /\ heard' = heard
        BY <1>0, <1>4, <1>9 DEF HearSpi, Collect
    <2>2. rx' = [open |-> TRUE, bits |-> a]
        BY <1>3, <2>1, Collected
    <2> HIDE DEF a
    <2>3. rx'.bits = a
        BY <2>2, Collected
    <2>4. sbits # <<>>
        BY <1>6, <1>7, <1>9
    <2>5. Count' = Count /\ Prefixed'
        BY <1>5, <1>8, <2>1 DEF Count, Prefixed
    <2>6. SpiAhead' = 1 /\ ~SpiIdleBetween' /\ ~Drained'
        BY <1>0, <1>1, <2>4 DEF SpiAhead, SpiIdleBetween, Drained
    <2>7. Follows(spiFifo, SpiAhead)'
        BY <1>1, <1>5, <1>8, <2>5, <2>6 DEF Follows
    <2>8. rx'.bits \o sbits' = Bytes'[Count' + 1]
        BY <1>1, <1>3, <1>8, <2>3, <2>5 DEF a
    <2>9. rx' = [open |-> TRUE, bits |-> rx'.bits] /\ rx'.bits \in Seq(Level)
        BY <1>6, <2>2, <2>3
    <2> QED BY <1>0, <1>1, <1>3, <1>8, <2>1, <2>5, <2>6, <2>7, <2>8, <2>9 DEF SpiInv
<1>10. CASE ~(Len(rx.bits) + 1 < Width)
    <2>1. rx' = Opened /\ heard' = Append(heard, a)
        BY <1>0, <1>4, <1>10 DEF HearSpi, Take
    <2> HIDE DEF a
    <2>2. Len(sbits) = 0
        BY <1>6, <1>7, <1>10
    <2>3. sbits = <<>> /\ a \o <<>> = a
        BY <1>6, <2>2, EmptySeq, ConcatEmptySeq
    <2>4. a = Bytes[Count + 1]
        BY <1>3, <2>3 DEF a
    <2>5. Prefixed'
        BY <1>5, <1>8, <2>1, <2>4, PrefixGrows
    <2>6. Count' = Count + 1
        BY <1>5, <2>1, <2>4, Added DEF Count, Prefixed
    <2>7. SpiAhead' = 0 /\ SpiIdleBetween'
        BY <1>0, <1>1, <2>3 DEF SpiAhead, SpiIdleBetween
    <2>8. Follows(spiFifo, SpiAhead)'
        <3>1. Count' + 0 = Count + 1
            BY <1>5, <2>6
        <3> QED BY <1>1, <1>5, <1>8, <2>7, <3>1 DEF Follows
    <2>9. rx'.bits = <<>> /\ rx' = [open |-> TRUE, bits |-> rx'.bits] /\ rx'.bits \in Seq(Level)
        BY <2>1, EmptySequence DEF Opened
    <2>10. sphase' = "out" /\ sbits' = <<>>
        BY <1>0, <1>1, <2>3
    <2> QED BY <1>1, <1>3, <1>5, <1>8, <2>1, <2>4, <2>5, <2>7, <2>8, <2>9, <2>10 DEF SpiInv
<1> QED BY <1>9, <1>10

(* Another byte of the payload goes into the FIFO: a stall seen before it  *)
(* says nothing any more.                                                  *)
LEMMA PushSpiStep ==
    ASSUME ProtoInv, TransferInv, SpiInv, PushSpi
    PROVE  SpiInv'
<1>0. active = "Spi" /\ spi = "Running" /\ Queued /\ pc = "service"
    BY DEF PushSpi
<1>1. /\ UNCHANGED <<transfer, heard, rx, sphase, sbits, mosi, active, pc, spiStall>>
      /\ cursor' = cursor + 1 /\ wrote' = TRUE /\ spiFifo' = Append(spiFifo, payload[cursor + 1])
    BY DEF PushSpi, decoder, cpuVars
<1>2. transfer.protocol = "Spi"
    BY <1>0 DEF TransferInv
<1>3. /\ Bytes \in Seq(Byte) /\ payload = Bytes /\ Count \in Nat /\ Prefixed
      /\ Count + SpiAhead + Len(spiFifo) = cursor /\ spiFifo \in Seq(Byte) /\ Len(spiFifo) \in Nat
      /\ SpiAhead \in {0, 1} /\ Len(Bytes) \in Nat
      /\ \A i \in 1 .. Len(spiFifo) : spiFifo[i] = Bytes[Count + SpiAhead + i]
    BY <1>2, SpiBounds
<1>4. Bytes[cursor + 1] \in Byte
    BY <1>0, <1>3 DEF Queued
<1>5. /\ Len(spiFifo') = Len(spiFifo) + 1 /\ spiFifo'[Len(spiFifo) + 1] = Bytes[cursor + 1]
      /\ \A i \in 1 .. Len(spiFifo) : spiFifo'[i] = spiFifo[i]
    BY <1>1, <1>3, <1>4, Added
<1>6. /\ Bytes' = Bytes /\ Count' = Count /\ SpiAhead' = SpiAhead /\ (SpiIdleBetween' <=> SpiIdleBetween)
    BY <1>1 DEF Bytes, Count, SpiAhead, SpiIdleBetween
<1>7. \A i \in 1 .. Len(spiFifo') : spiFifo'[i] = Bytes[Count + SpiAhead + i]
    <2>1. TAKE i \in 1 .. Len(spiFifo')
    <2>2. CASE i = Len(spiFifo) + 1
        <3>1. Count + SpiAhead + i = cursor + 1
            BY <1>3, <2>2
        <3> QED BY <1>5, <2>2, <3>1
    <2>3. CASE i # Len(spiFifo) + 1
        <3>1. i \in 1 .. Len(spiFifo)
            BY <1>3, <1>5, <2>3
        <3> QED BY <1>3, <1>5, <3>1
    <2> QED BY <2>2, <2>3
<1>8. cursor' = Count + SpiAhead + Len(spiFifo')
    BY <1>1, <1>3, <1>5
<1>9. Follows(spiFifo, SpiAhead)' /\ Prefixed'
    BY <1>1, <1>3, <1>6, <1>7, <1>8 DEF Follows, Prefixed
<1>10. /\ rx.bits \in Seq(Level) /\ rx = [open |-> TRUE, bits |-> rx.bits]
       /\ SpiIdleBetween => rx.bits = <<>>
       /\ sphase = "out" /\ sbits # <<>> => rx.bits \o sbits = Bytes[Count + 1]
       /\ sphase = "clock" => Append(rx.bits, mosi) \o sbits = Bytes[Count + 1]
    BY <1>2 DEF SpiInv
<1> QED BY <1>0, <1>1, <1>2, <1>6, <1>9, <1>10 DEF SpiInv

-----------------------------------------------------------------------------
(* FrameInv is kept: what a step does not touch stays as it was. *)

(* A step that moves no part of a UART transfer keeps its place. *)
LEMMA UartUntouched ==
    ASSUME UartInv, UNCHANGED <<transfer, heard, rx, cursor, uartFifo, uphase, ubits>>
    PROVE  UartInv'
<1>1. Bytes' = Bytes /\ Count' = Count /\ UartAhead' = UartAhead
    BY DEF Bytes, Count, UartAhead
<1>2. Prefixed' = Prefixed /\ (Follows(uartFifo, UartAhead)' <=> Follows(uartFifo, UartAhead))
    BY <1>1 DEF Prefixed, Follows
<1> QED BY <1>1, <1>2 DEF UartInv

(* Nor one that moves no part of a SPI transfer, if the loop does not take *)
(* it for over or for drained when it is not.                              *)
LEMMA SpiUntouched ==
    ASSUME SpiInv, UNCHANGED <<transfer, heard, rx, cursor, spiFifo, sphase, sbits, mosi>>,
           transfer.protocol = "Spi" =>
              /\ active' # "Spi" => Drained /\ cursor = Len(Bytes)
              /\ pc' = "probe" => cursor = Len(Bytes)
              /\ spiStall' /\ active' = "Spi" /\ ~wrote' /\ pc' \notin {"arm", "clear"} => Drained
    PROVE  SpiInv'
<1>1. /\ Bytes' = Bytes /\ Count' = Count /\ SpiAhead' = SpiAhead
      /\ SpiIdleBetween' <=> SpiIdleBetween
      /\ Drained' <=> Drained
    BY DEF Bytes, Count, SpiAhead, SpiIdleBetween, Drained
<1>2. Prefixed' = Prefixed /\ (Follows(spiFifo, SpiAhead)' <=> Follows(spiFifo, SpiAhead))
    BY <1>1 DEF Prefixed, Follows
<1> QED BY <1>1, <1>2 DEF SpiInv

(* Nor one that makes no pin write. *)
LEMMA I2cUntouched ==
    ASSUME I2cInv, UNCHANGED <<transfer, heard, rx, wire, scl, sda>>, pc' = "wire" => pc = "wire"
    PROVE  I2cInv'
<1>1. Bytes' = Bytes /\ Count' = Count /\ Made' = Made
    BY DEF Bytes, Count, Made
<1>2. Prefixed' <=> Prefixed
    BY <1>1 DEF Prefixed
<1>3. ASSUME NEW j \in 0 .. 5 PROVE (Starting(j)' <=> Starting(j)) /\ (Stopping(j)' <=> Stopping(j))
    BY <1>1 DEF Starting, Stopping
<1>4. ASSUME NEW n \in 0 .. Len(Bytes) - 1, NEW k \in 0 .. Width, NEW j \in 0 .. 5, Sending(n, k, j)
      PROVE  Sending(n, k, j)'
    <2>1. ASSUME NEW c, Begun(n, c) PROVE Begun(n, c)'
        BY <1>1, <2>1 DEF Begun
    <2> QED BY <1>1, <1>4, <2>1 DEF Sending
<1>5. Somewhere => Somewhere'
    BY <1>1, <1>3, <1>4 DEF Somewhere
<1> QED BY <1>1, <1>2, <1>5 DEF I2cInv

(* A transfer begins. *)
LEMMA BeginsFollowed ==
    ASSUME ProtoInv, TransferInv, UartSend \/ SpiSend \/ I2cSend
    PROVE  /\ heard' = <<>> /\ Count' = 0 /\ Prefixed' /\ Bytes' \in Seq(Byte) /\ Bytes' = req.bytes /\ Bytes' # <<>>
           /\ transfer = NoTransfer /\ heard = <<>> /\ rx = Silent
           /\ transfer' = [protocol |-> req.op, bytes |-> req.bytes]
           /\ transfer'.protocol = req.op
           /\ uartFifo = <<>> /\ spiFifo = <<>> /\ uart = "Idle" /\ spi = "Idle" /\ ~wrote
<1>1. pc = "stopped" /\ transfer' = [protocol |-> req.op, bytes |-> req.bytes] /\ heard' = heard
    BY DEF UartSend, SpiSend, I2cSend, Begin, decoder
<1>2. transfer = NoTransfer /\ heard = <<>> /\ rx = Silent /\ req.bytes # <<>> /\ req.bytes \in Seq(Byte)
    BY <1>1 DEF TransferInv, ProtoInv, TypeOK
<1>3. transfer'.protocol = req.op /\ Bytes' = req.bytes
    BY <1>1 DEF Bytes
<1>4. Count' = 0 /\ Len(Bytes') \in Nat
    BY <1>1, <1>2, <1>3, LenProperties DEF Count
<1>5. Prefixed'
    BY <1>1, <1>2, <1>4, EmptySequence DEF Prefixed
<1>6. uart = "Idle" /\ spi = "Idle" /\ uartFifo = <<>> /\ spiFifo = <<>> /\ ~wrote
    BY <1>1 DEF ProtoInv, ModeInv, TransferInv
<1> QED BY <1>1, <1>2, <1>3, <1>4, <1>5, <1>6

(* uart_send leaves nothing heard, nothing in the FIFO and the line high. *)
LEMMA UartBegins ==
    ASSUME ProtoInv, TransferInv, UartSend
    PROVE  UartInv' /\ SpiInv' /\ I2cInv'
<1>1. /\ transfer'.protocol = "Uart" /\ Prefixed' /\ Count' = 0 /\ uartFifo' = <<>> /\ rx' = Silent
      /\ uphase' = "pull" /\ cursor' = 0 /\ pc' # "wire"
    BY BeginsFollowed DEF UartSend, Queue, decoder
<1>2. ~(rx'.open) /\ UartAhead' = 0
    BY <1>1 DEF Silent, UartAhead
<1>3. Follows(uartFifo, UartAhead)'
    BY <1>1, <1>2 DEF Follows
<1> QED BY <1>1, <1>2, <1>3 DEF UartInv, SpiInv, I2cInv

(* spi_send leaves nothing heard, nothing in the FIFO and the frame open. *)
LEMMA SpiBegins ==
    ASSUME ProtoInv, TransferInv, SpiSend
    PROVE  UartInv' /\ SpiInv' /\ I2cInv'
<1>1. /\ transfer'.protocol = "Spi" /\ Prefixed' /\ Count' = 0 /\ spiFifo' = <<>> /\ rx' = Opened
      /\ sphase' = "out" /\ sbits' = <<>> /\ cursor' = 0 /\ pc' = "arm" /\ active' = "Spi"
    BY BeginsFollowed DEF SpiSend, Queue
<1>2. /\ rx'.bits = <<>> /\ rx' = [open |-> TRUE, bits |-> rx'.bits] /\ rx'.bits \in Seq(Level)
      /\ SpiAhead' = 0 /\ SpiIdleBetween'
    BY <1>1, EmptySequence DEF Opened, SpiAhead, SpiIdleBetween
<1>3. Follows(spiFifo, SpiAhead)'
    BY <1>1, <1>2 DEF Follows
<1> QED BY <1>1, <1>2, <1>3 DEF UartInv, SpiInv, I2cInv

(* i2c_send stands before the first write of the START condition. *)
LEMMA I2cBegins ==
    ASSUME ProtoInv, TransferInv, I2cSend
    PROVE  UartInv' /\ SpiInv' /\ I2cInv'
<1>1. /\ transfer'.protocol = "I2c" /\ Prefixed' /\ heard' = <<>> /\ rx' = Silent /\ pc' = "wire"
      /\ Bytes' \in Seq(Byte) /\ wire' = Program(Bytes')
    BY BeginsFollowed DEF I2cSend, decoder, Program
<1>2. scl' = 1 /\ sda' = 1
    BY DEF I2cSend, ProtoInv, LineInv
<1>3. Len(wire') \in Nat /\ Len(wire') = Len(Program(Bytes')) /\ Made' = 0
    <2>1. Program(Bytes') \in Seq(Write)
        BY <1>1, ProgramFacts
    <2>2. Len(Program(Bytes')) \in Nat
        BY <2>1, LenProperties
    <2> QED BY <1>1, <2>2 DEF Made
<1>4. Starting(0)'
    BY <1>1, <1>2, <1>3 DEF Starting
<1>5. \A i \in 1 .. Len(wire') : wire'[i] = Program(Bytes')[Made' + i]
    BY <1>1, <1>3
<1> QED BY <1>1, <1>3, <1>4, <1>5 DEF UartInv, SpiInv, I2cInv, Somewhere

(* FrameInv without its first part, after any step. *)
LEMMA PlacesStep ==
    ASSUME ProtoInv, FrameInv, [Next]_vars
    PROVE  UartInv' /\ SpiInv' /\ I2cInv'
<1>. TransferInv /\ UartInv /\ SpiInv /\ I2cInv
    BY DEF FrameInv
<1>1. CASE Command
    <2>1. transfer' = NoTransfer /\ pc' # "wire"
        BY <1>1, CommandFacts, StopFacts DEF ProtoInv
    <2> QED BY <2>1 DEF NoTransfer, UartInv, SpiInv, I2cInv
<1>2. CASE UartSend
    BY <1>2, UartBegins
<1>3. CASE SpiSend
    BY <1>3, SpiBegins
<1>4. CASE I2cSend
    BY <1>4, I2cBegins
<1>5. CASE UartPull \/ UartStart \/ UartBit
    <2>1. UartInv'
        BY <1>5, PullStep, StartBitStep, DataBitStep
    <2>2. transfer'.protocol = "Uart" /\ pc' # "wire"
        BY <1>5 DEF TransferInv, UartPull, UartStart, UartBit, cpuVars
    <2> QED BY <2>1, <2>2 DEF SpiInv, I2cInv
<1>6. CASE SpiOut \/ SpiClock
    <2>1. SpiInv'
        BY <1>6, OutStep, ClockStep
    <2>2. transfer'.protocol = "Spi" /\ pc' # "wire"
        BY <1>6 DEF TransferInv, SpiOut, SpiClock, cpuVars
    <2> QED BY <2>1, <2>2 DEF UartInv, I2cInv
<1>7. CASE WireStep
    <2>1. I2cInv'
        BY <1>7, WireMoves
    <2>2. transfer'.protocol = "I2c"
        BY <1>7 DEF TransferInv, WireStep
    <2> QED BY <2>1, <2>2 DEF UartInv, SpiInv
<1>8. CASE PushUart
    <2>1. UartInv'
        BY <1>8, PushUartStep
    <2>2. transfer'.protocol = "Uart" /\ pc' # "wire"
        BY <1>8 DEF TransferInv, PushUart, cpuVars
    <2> QED BY <2>1, <2>2 DEF SpiInv, I2cInv
<1>9. CASE PushSpi
    <2>1. SpiInv'
        BY <1>9, PushSpiStep
    <2>2. transfer'.protocol = "Spi" /\ pc' # "wire"
        BY <1>9 DEF TransferInv, PushSpi, cpuVars
    <2> QED BY <2>1, <2>2 DEF UartInv, I2cInv
<1>10. CASE PushedSpi
    <2>1. /\ UNCHANGED <<transfer, heard, rx, cursor, spiFifo, sphase, sbits, mosi, active, spiStall>>
          /\ pc = "service" /\ pc' \in {"probe", "clear"} /\ (pc' = "probe" => Fresh) /\ active = "Spi"
        BY <1>10 DEF PushedSpi, spiVars, decoder
    <2>2. transfer.protocol = "Spi" /\ payload = Bytes
        BY <2>1 DEF ProtoInv, ModeInv, TransferInv
    <2>3. cursor \in 0 .. Len(payload) /\ Len(payload) \in Nat
        BY LenProperties DEF ProtoInv, TypeOK
    <2>4. Fresh => cursor = Len(Bytes) /\ ~wrote
        BY <2>2, <2>3 DEF Fresh, Queued
    <2>5. Fresh /\ spiStall => Drained
        BY <2>1, <2>2, <2>4 DEF SpiInv
    <2>6. SpiInv'
        BY <2>1, <2>4, <2>5, SpiUntouched
    <2> QED BY <2>1, <2>2, <2>6 DEF UartInv, I2cInv
<1>11. CASE ClearBeforeService \/ ClearStale
    <2>1. /\ UNCHANGED <<transfer, heard, rx, cursor, spiFifo, sphase, sbits, mosi, active>>
          /\ pc \in {"arm", "clear"} /\ pc' \in {"service", "ready"} /\ spiStall' = FALSE
        BY <1>11 DEF ClearBeforeService, ClearStale, fields, decoder
    <2>2. active = "Spi"
        BY <2>1 DEF ProtoInv, ModeInv
    <2>3. SpiInv'
        BY <2>1, <2>2, SpiUntouched
    <2> QED BY <2>1, <2>2, <2>3 DEF TransferInv, UartInv, I2cInv
<1>12. CASE Probe
    <2>1. /\ UNCHANGED <<transfer, heard, rx, cursor, spiFifo, sphase, sbits, mosi, wrote, spiStall>>
          /\ pc = "probe" /\ pc' = "ready"
          /\ active' = IF spiStall THEN "None" ELSE active
        BY <1>12 DEF Probe, decoder
    <2>2. active = "Spi" /\ ~wrote
        BY <2>1 DEF ProtoInv, ModeInv, TransferInv
    <2>3. transfer.protocol = "Spi"
        BY <2>2 DEF ProtoInv, ModeInv, TransferInv
    <2>4. cursor = Len(Bytes) /\ (spiStall => Drained)
        BY <2>1, <2>2, <2>3 DEF SpiInv
    <2>5. SpiInv'
        BY <2>1, <2>2, <2>4, SpiUntouched
    <2> QED BY <2>1, <2>3, <2>5 DEF UartInv, I2cInv
<1>13. CASE Poll \/ EndPacket \/ Status \/ ServiceNothing \/ PushedUart
    <2>1. /\ UNCHANGED <<transfer, heard, rx, cursor, uartFifo, uphase, ubits, spiFifo, sphase, sbits, mosi,
                         wire, scl, sda, active, wrote, spiStall>>
          /\ pc' \notin {"wire", "probe"} /\ pc \notin {"arm", "clear"}
        BY <1>13 DEF Poll, EndPacket, Status, ServiceNothing, PushedUart, StopPushingUart, fields, uartVars,
                     spiVars, i2cVars, decoder
    <2>2. UartInv'
        BY <2>1, UartUntouched
    <2>3. SpiInv'
        BY <2>1, SpiUntouched DEF SpiInv
    <2> QED BY <2>1, <2>2, <2>3, I2cUntouched
<1>14. CASE UNCHANGED vars
    <2>1. UNCHANGED <<transfer, heard, rx, cursor, uartFifo, uphase, ubits, spiFifo, sphase, sbits, mosi,
                      wire, scl, sda, active, wrote, spiStall, pc>>
        BY <1>14 DEF vars, cpuVars, fields, uartVars, spiVars, i2cVars, decoder
    <2>2. UartInv'
        BY <2>1, UartUntouched
    <2>3. SpiInv'
        BY <2>1, SpiUntouched DEF SpiInv
    <2> QED BY <2>1, <2>2, <2>3, I2cUntouched
<1> QED BY <1>1, <1>2, <1>3, <1>4, <1>5, <1>6, <1>7, <1>8, <1>9, <1>10, <1>11, <1>12, <1>13, <1>14
        DEF Next, Command, Cpu, UartMachine, SpiMachine

(* Which protocol the transfer under way belongs to, and what is idle      *)
(* meanwhile.                                                              *)
LEMMA TransferStep ==
    ASSUME ProtoInv, FrameInv, [Next]_vars
    PROVE  TransferInv'
<1>. TypeOK /\ ModeInv /\ TransferInv /\ I2cInv
    BY DEF ProtoInv, FrameInv
<1>1. CASE Poll
    BY <1>1 DEF Bytes, TransferInv, Poll, fields, uartVars, spiVars, i2cVars, decoder
<1>2. CASE EndPacket
    BY <1>2 DEF Bytes, TransferInv, EndPacket, fields, uartVars, spiVars, i2cVars, decoder
<1>3. CASE Status
    BY <1>3 DEF Bytes, TransferInv, Status, fields, uartVars, spiVars, i2cVars, decoder
<1>4. CASE Command
    BY <1>4, CommandFacts, StopFacts DEF TypeOK, NoTransfer, TransferInv
<1>5. CASE UartSend
    BY <1>5 DEF TypeOK, Bytes, NoTransfer, Protocols, TransferInv, UartSend, Queue, Begin, spiVars
<1>6. CASE SpiSend
    BY <1>6 DEF TypeOK, Bytes, NoTransfer, Protocols, TransferInv, SpiSend, Queue, Begin, uartVars
<1>7. CASE ClearBeforeService
    BY <1>7 DEF Bytes, TransferInv, ClearBeforeService, fields, uartVars, i2cVars, decoder
<1>8. CASE I2cSend
    BY <1>8 DEF TypeOK, NoTransfer, Protocols, TransferInv, I2cSend, Begin, fields, uartVars, spiVars
<1>9. CASE WireStep
    BY <1>9, WireMoves DEF TransferInv, Bytes, WireStep, fields, uartVars, spiVars
<1>10. CASE PushUart
    BY <1>10 DEF Bytes, TransferInv, PushUart, cpuVars, spiVars
<1>11. CASE PushedUart
    BY <1>11 DEF Bytes, TransferInv, PushedUart, StopPushingUart, fields, uartVars, spiVars
<1>12. CASE PushSpi
    BY <1>12 DEF Bytes, TransferInv, PushSpi, cpuVars, uartVars
<1>13. CASE PushedSpi
    BY <1>13 DEF Bytes, TransferInv, PushedSpi, uartVars, spiVars, i2cVars, decoder
<1>14. CASE ServiceNothing
    BY <1>14 DEF Bytes, TransferInv, ServiceNothing, fields, uartVars, spiVars, i2cVars, decoder
<1>15. CASE ClearStale
    BY <1>15 DEF Bytes, TransferInv, ClearStale, fields, uartVars, i2cVars, decoder
<1>16. CASE Probe
    BY <1>16 DEF ModeInv, Bytes, TransferInv, Probe, uartVars
<1>17. CASE UartPull
    BY <1>17 DEF Bytes, NoTransfer, TransferInv, UartPull, cpuVars, fields, spiVars
<1>18. CASE UartStart
    BY <1>18 DEF Bytes, NoTransfer, TransferInv, UartStart, cpuVars, fields, spiVars
<1>19. CASE UartBit
    BY <1>19 DEF Bytes, NoTransfer, TransferInv, UartBit, cpuVars, fields, spiVars
<1>20. CASE SpiOut
    BY <1>20 DEF Bytes, TransferInv, SpiOut, cpuVars, fields, uartVars, decoder
<1>21. CASE SpiClock
    BY <1>21 DEF Bytes, NoTransfer, TransferInv, SpiClock, cpuVars, fields, uartVars
<1>22. CASE UNCHANGED vars
    BY <1>22 DEF TransferInv, Bytes, vars, cpuVars, fields, uartVars, spiVars, i2cVars, decoder
<1> QED BY <1>1, <1>2, <1>3, <1>4, <1>5, <1>6, <1>7, <1>8, <1>9, <1>10, <1>11, <1>12, <1>13, <1>14, <1>15,
           <1>16, <1>17, <1>18, <1>19, <1>20, <1>21, <1>22
    DEF Next, Command, Cpu, UartMachine, SpiMachine


(* Nothing is under way when the loop starts. *)
LEMMA InitFrameInv == Init => FrameInv
BY DEF Init, FrameInv, TransferInv, UartInv, SpiInv, I2cInv, NoTransfer, Silent

(* Every step keeps the place of every byte. *)
LEMMA FrameInvStep ==
    ASSUME ProtoInv, FrameInv, [Next]_vars
    PROVE  FrameInv'
BY TransferStep, PlacesStep DEF FrameInv

(* Of the transfer under way, what the decoder heard is a beginning, and   *)
(* the rest is accounted for byte by byte and bit by bit, at every moment  *)
(* of every interleaving of the CPU with the two state machines.           *)
THEOREM FrameInvariance == Spec => [](ProtoInv /\ FrameInv)
<1>1. ProtoInv /\ FrameInv /\ [Next]_vars => FrameInv'
    BY FrameInvStep
<1> QED BY <1>1, ProtoInvariance, InitFrameInv, PTL DEF Spec

-----------------------------------------------------------------------------
(* FrameInv makes Frames of it.                                            *)

(* A frame is open until its end: for a UART transfer until the last byte, *)
(* for SPI while chip select is low, for I2C until the STOP.               *)
LEMMA OpenMeans ==
    /\ Open \in BOOLEAN /\ Open' \in BOOLEAN
    /\ transfer.protocol = "Uart" => (Open <=> heard # Bytes)
    /\ transfer.protocol = "Spi" => (Open <=> cs = 0)
    /\ transfer.protocol = "I2c" => (Open <=> wire # <<>> \/ rx.open)
    /\ transfer'.protocol = "Uart" => (Open' <=> heard' # Bytes')
    /\ transfer'.protocol = "Spi" => (Open' <=> cs' = 0)
    /\ transfer'.protocol = "I2c" => (Open' <=> wire' # <<>> \/ rx'.open)
    /\ transfer = NoTransfer => ~Open
    /\ transfer' = NoTransfer => ~Open'
<1>1. /\ transfer.protocol = "Uart" => (Open <=> heard # Bytes)
      /\ transfer'.protocol = "Uart" => (Open' <=> heard' # Bytes')
    BY DEF Open, Bytes
<1>2. /\ transfer.protocol = "Spi" => (Open <=> cs = 0)
      /\ transfer'.protocol = "Spi" => (Open' <=> cs' = 0)
    BY DEF Open
<1>3. /\ transfer.protocol = "I2c" => (Open <=> wire # <<>> \/ rx.open)
      /\ transfer'.protocol = "I2c" => (Open' <=> wire' # <<>> \/ rx'.open)
    BY DEF Open
<1>4. /\ transfer.protocol = "none" => ~Open
      /\ transfer'.protocol = "none" => ~Open'
    BY DEF Open
<1>5. Open \in BOOLEAN
    BY DEF Open
<1>6. Open' \in BOOLEAN
    BY DEF Open
<1> QED BY <1>1, <1>2, <1>3, <1>4, <1>5, <1>6 DEF NoTransfer

(* Nothing a decoder can tell. *)
LEMMA Unheard ==
    ASSUME UNCHANGED <<transfer, heard>>, Open' <=> Open
    PROVE  UNCHANGED <<transfer, heard, Open>>
BY OpenMeans

(* The next byte is heard. *)
LEMMA Delivers ==
    ASSUME TransferInv, transfer.protocol \in Protocols, Prefixed, Open, transfer' = transfer,
           Count < Len(Bytes), heard' = Append(heard, Bytes[Count + 1]), Open' \/ heard' = Bytes
    PROVE  Heard!Deliver
BY OpenMeans DEF Heard!Deliver, Bytes, Count

(* A transfer begins, after the one before it was cut. *)
LEMMA BeginsHeard ==
    ASSUME ProtoInv, TransferInv, UartSend \/ SpiSend \/ I2cSend
    PROVE  Heard!Begin
<1>1. /\ heard' = <<>> /\ Bytes' \in Seq(Byte) /\ Bytes' # <<>> /\ Bytes' = req.bytes /\ transfer = NoTransfer
      /\ transfer' = [protocol |-> req.op, bytes |-> req.bytes] /\ transfer'.protocol = req.op
    BY BeginsFollowed
<1>2. req.op \in Protocols
    BY DEF UartSend, SpiSend, I2cSend, Protocols
<1>3. Open'
    <2>1. CASE UartSend
        BY <1>1, <2>1, OpenMeans DEF UartSend
    <2>2. CASE SpiSend
        BY <1>1, <2>2, OpenMeans DEF SpiSend
    <2>3. CASE I2cSend
        <3>1. Len(Program(Bytes')) = 12 + PerByte * Len(Bytes') /\ PerByte \in Nat /\ Len(Bytes') \in Nat
            BY <1>1, ProgramFacts, LenProperties
        <3>2. Len(Program(Bytes')) # 0
            BY <3>1
        <3>3. wire' = Program(Bytes')
            BY <1>1, <2>3 DEF I2cSend, Program
        <3>4. wire' # <<>>
            BY <3>2, <3>3
        <3> QED BY <1>1, <2>3, <3>4, OpenMeans DEF I2cSend
    <2> QED BY <2>1, <2>2, <2>3
<1>4. transfer' \in [protocol : Protocols, bytes : Seq(Byte) \ {<<>>}]
    BY <1>1, <1>2
<1> QED BY <1>1, <1>3, <1>4, OpenMeans DEF Heard!Begin, Heard!Transfer, Heard!Nothing, NoTransfer, Protocols

(* The chip select of a transfer that is over goes high. *)
LEMMA ProbeEnds ==
    ASSUME ProtoInv, FrameInv, Probe, spiStall
    PROVE  Heard!End
<1>1. pc = "probe" /\ cs' = 1 /\ UNCHANGED <<transfer, heard>>
    BY DEF Probe, decoder
<1>2. active = "Spi" /\ cs = 0 /\ ~wrote /\ transfer.protocol = "Spi"
    BY <1>1 DEF ProtoInv, ModeInv, FrameInv, TransferInv
<1>3. Drained /\ cursor = Len(Bytes)
    BY <1>1, <1>2 DEF FrameInv, SpiInv
<1>4. Bytes \in Seq(Byte) /\ Count \in Nat /\ Prefixed /\ Count + SpiAhead + Len(spiFifo) = cursor
    BY <1>2, SpiBounds DEF FrameInv
<1>5. SpiAhead = 0 /\ Len(spiFifo) = 0
    BY <1>3 DEF Drained, SpiAhead
<1>6. Count = Len(Bytes)
    BY <1>3, <1>4, <1>5
<1>7. heard = Bytes
    BY <1>4, <1>6, AllHeard
<1> QED BY <1>1, <1>2, <1>7, OpenMeans DEF Heard!End, Bytes

(* Every step is one of Frames, or is not heard. *)
LEMMA HeardStep ==
    ASSUME ProtoInv, FrameInv, [Next]_vars
    PROVE  [Heard!Next]_<<transfer, heard, Open>>
<1>. TransferInv /\ UartInv /\ SpiInv /\ I2cInv
    BY DEF FrameInv
<1>1. CASE Command
    <2>1. transfer' = NoTransfer /\ heard' = <<>>
        BY <1>1, CommandFacts, StopFacts DEF ProtoInv
    <2>2. Heard!Cut
        BY <2>1, OpenMeans DEF Heard!Cut, Heard!Nothing, NoTransfer
    <2> QED BY <2>2 DEF Heard!Next
<1>2. CASE UartSend \/ SpiSend \/ I2cSend
    <2>1. Heard!Begin
        BY <1>2, BeginsHeard
    <2> QED BY <2>1 DEF Heard!Next
<1>3. CASE UartPull \/ UartStart \/ UartBit
    <2>1. transfer' = transfer /\ transfer.protocol = "Uart" /\ Bytes' = Bytes
        BY <1>3 DEF UartPull, UartStart, UartBit, TransferInv, Bytes
    <2>2. heard' = heard \/ (Count < Len(Bytes) /\ heard' = Append(heard, Bytes[Count + 1]))
        BY <1>3, PullStep, StartBitStep, DataBitStep
    <2>3. CASE heard' = heard
        BY <2>1, <2>3, OpenMeans, Unheard
    <2>4. CASE Count < Len(Bytes) /\ heard' = Append(heard, Bytes[Count + 1])
        <3>1. Prefixed /\ Count \in Nat /\ Len(Bytes) \in Nat
            BY <2>1, UartBounds
        <3>2. heard # Bytes
            BY <2>4, <3>1 DEF Count
        <3>3. Heard!Deliver
            BY <2>1, <2>4, <3>1, <3>2, OpenMeans, Delivers DEF Protocols
        <3> QED BY <3>3 DEF Heard!Next
    <2> QED BY <2>2, <2>3, <2>4
<1>4. CASE SpiClock
    <2>1. /\ transfer' = transfer /\ transfer.protocol = "Spi" /\ Bytes' = Bytes /\ cs' = cs
          /\ cs \in Level /\ (cs = 1 => heard' = heard)
        BY <1>4 DEF SpiClock, HearSpi, TransferInv, Bytes, decoder, ProtoInv, TypeOK
    <2>2. heard' = heard \/ (Count < Len(Bytes) /\ heard' = Append(heard, Bytes[Count + 1]))
        BY <1>4, ClockStep
    <2>3. CASE heard' = heard
        BY <2>1, <2>3, OpenMeans, Unheard
    <2>4. CASE heard' # heard
        <3>1. cs = 0 /\ Prefixed
            BY <2>1, <2>4, SpiBounds DEF Level
        <3>2. Heard!Deliver
            BY <2>1, <2>2, <2>4, <3>1, OpenMeans, Delivers DEF Protocols
        <3> QED BY <3>2 DEF Heard!Next
    <2> QED BY <2>3, <2>4
<1>5. CASE WireStep
    <2>1. /\ transfer' = transfer /\ transfer.protocol = "I2c" /\ Bytes' = Bytes
          /\ wire # <<>> /\ Prefixed /\ pc = "wire"
        BY <1>5 DEF WireStep, TransferInv, I2cInv, Bytes, ProtoInv, WireInv, LetsGo
    <2>2. /\ Len(wire) = 1 => wire' = <<>> /\ rx' = Silent /\ heard' = heard /\ heard = Bytes
          /\ Len(wire) # 1 => wire' # <<>>
          /\ heard' = heard \/ (Count < Len(Bytes) /\ heard' = Append(heard, Bytes[Count + 1]))
        BY <1>5, WireMoves
    <2>3. CASE Len(wire) = 1
        <3>1. ~Open' /\ Open
            BY <2>1, <2>2, <2>3, OpenMeans DEF Silent
        <3>2. Heard!End
            BY <2>1, <2>2, <2>3, <3>1, OpenMeans DEF Heard!End, Bytes
        <3> QED BY <3>2 DEF Heard!Next
    <2>4. CASE Len(wire) # 1
        <3>1. Open' /\ Open
            BY <2>1, <2>2, <2>4, OpenMeans
        <3>2. CASE heard' = heard
            BY <2>1, <3>1, <3>2, Unheard
        <3>3. CASE heard' # heard
            <4>1. Heard!Deliver
                BY <2>1, <2>2, <3>1, <3>3, Delivers DEF Protocols
            <4> QED BY <4>1 DEF Heard!Next
        <3> QED BY <3>2, <3>3
    <2> QED BY <2>3, <2>4
<1>6. CASE Probe
    <2>1. CASE spiStall
        BY <1>6, <2>1, ProbeEnds DEF Heard!Next
    <2>2. CASE ~spiStall
        <3>1. UNCHANGED <<transfer, heard, cs, wire, rx>>
            BY <1>6, <2>2 DEF Probe, i2cVars, decoder
        <3> QED BY <3>1, Unheard DEF Open
    <2> QED BY <2>1, <2>2
<1>7. CASE Poll \/ EndPacket \/ Status \/ ClearBeforeService \/ PushUart \/ PushedUart \/ PushSpi \/ PushedSpi
           \/ ServiceNothing \/ ClearStale \/ SpiOut \/ UNCHANGED vars
    <2>1. UNCHANGED <<transfer, heard, cs, wire, rx>>
        BY <1>7 DEF Poll, EndPacket, Status, ClearBeforeService, PushUart, PushedUart, PushSpi, PushedSpi,
                    ServiceNothing, ClearStale, SpiOut, vars, spiVars, i2cVars, decoder
    <2> QED BY <2>1, Unheard DEF Open
<1> QED BY <1>1, <1>2, <1>3, <1>4, <1>5, <1>6, <1>7 DEF Next, Command, Cpu, UartMachine, SpiMachine

(* Nothing is heard at first. *)
LEMMA InitHeard == Init => Heard!Init
BY OpenMeans DEF Init, Heard!Init, Heard!Nothing, NoTransfer

(* What a decoder hears is what Frames promises: each transfer once, its   *)
(* bytes in order, unaltered and none left out, and its end only after the *)
(* last of them.                                                           *)
THEOREM FramesImplemented == Spec => FramesKept
<1>1. ProtoInv /\ FrameInv /\ [Next]_vars => [Heard!Next]_<<transfer, heard, Open>>
    BY HeardStep
<1> QED BY <1>1, InitHeard, FrameInvariance, PTL DEF Spec, FramesKept, Heard!Spec

================================================================================
