---------------------------------- MODULE Proto ----------------------------------
(***************************************************************************)
(* The protocol generators (src/src/proto.rs) under their commands         *)
(* (src/src/commands.rs) and the poll loop (src/src/main.rs): UART on      *)
(* state machine 0 of PIO1, SPI on state machine 1 with a chip select      *)
(* driven by the CPU, I2C bit-banged by the CPU.                           *)
(*                                                                         *)
(* The CPU takes one step per access to a FIFO, a flag or a line that a    *)
(* state machine can race with; the state machines take one step per       *)
(* instruction that moves a line.  A decoder listens to the lines alone:   *)
(* heard holds the bytes it made out.                                      *)
(*                                                                         *)
(* A byte is the sequence of its bits, the most significant first.         *)
(***************************************************************************)
EXTENDS Naturals, Sequences

CONSTANTS
    Width,       \* bits of a byte (8)
    FifoDepth,   \* bytes a joined TX FIFO holds (8)
    MaxPayload,  \* MAX_PAYLOAD
    Payloads,    \* byte lists the host sends, the empty one and too long ones included
    Addresses,   \* I2C addresses the host sends, some of them above 7 bits
    Batch        \* bound: commands the host sends in one USB packet

Byte == [1 .. Width -> {0, 1}]

ASSUME ProtoAssumption ==
    /\ Width \in Nat \ {0} /\ FifoDepth \in Nat \ {0}
    /\ MaxPayload \in Nat /\ Batch \in Nat
    /\ Payloads \subseteq Seq(Byte) /\ Addresses \subseteq Byte

VARIABLES
    pc,        \* what the CPU is about to do
    req,       \* the command that called stop()
    budget,    \* commands of the packet still to dispatch
    active, payload, cursor,  \* fields of Proto, payload cut to len
    wrote,     \* service's local of that name
    uart, spi, \* the two slots; a state machine runs iff "Running"
    uartFifo, spiFifo,
    uphase, ubits,  \* the UART program: where it is, the bits it has to shift
    sphase, sbits,  \* the SPI program
    spiStall,  \* the sticky TXSTALL bit of the SPI state machine
    wire,      \* the pin writes i2c_send has still to make
    tx, sck, mosi, cs, scl, sda,  \* the lines
    transfer,  \* history: the protocol and the bytes of the transfer under way
    rx,        \* the decoder: inside a frame, and the bits of a byte so far
    heard      \* the bytes it has made out

cpuVars == <<pc, req, budget>>
fields == <<active, payload, cursor, wrote>>
uartVars == <<uart, uartFifo, uphase, ubits, tx>>
spiVars == <<spi, spiFifo, sphase, sbits, spiStall, sck, mosi, cs>>
i2cVars == <<wire, scl, sda>>
decoder == <<rx, heard>>
vars == <<cpuVars, fields, uartVars, spiVars, i2cVars, transfer, decoder>>

NoReq == [op |-> "none", bytes |-> <<>>]
NoTransfer == [protocol |-> "none", bytes |-> <<>>]
Silent == [open |-> FALSE, bits |-> <<>>]

(* Proto::new, then the stop() of main. *)
Init ==
    /\ pc = "poll" /\ req = NoReq /\ budget = 0
    /\ active = "None" /\ payload = <<>> /\ cursor = 0 /\ wrote = FALSE
    /\ uart = "Idle" /\ uartFifo = <<>> /\ uphase = "pull" /\ ubits = <<>>
    /\ spi = "Idle" /\ spiFifo = <<>> /\ sphase = "out" /\ sbits = <<>> /\ spiStall = FALSE
    /\ wire = <<>>
    /\ tx = 1 /\ sck = 0 /\ mosi = 0 /\ cs = 1 /\ scl = 1 /\ sda = 1
    /\ transfer = NoTransfer /\ rx = Silent /\ heard = <<>>

-----------------------------------------------------------------------------
(* The decoder, external.  A byte it cannot make sense of is "broken".     *)

Opened == [open |-> TRUE, bits |-> <<>>]
Collect(bit) == rx' = [rx EXCEPT !.bits = Append(@, bit)]
Take(byte) == heard' = Append(heard, byte)

(* 8N1, the least significant bit first: one level per bit time. *)
HearUart(level) ==
    \/ ~rx.open /\ rx' = (IF level = 0 THEN Opened ELSE rx) /\ UNCHANGED heard
    \/ /\ rx.open /\ Len(rx.bits) < Width
       /\ rx' = [rx EXCEPT !.bits = <<level>> \o @]
       /\ UNCHANGED heard
    \/ /\ rx.open /\ Len(rx.bits) = Width
       /\ rx' = Silent
       /\ Take(IF level = 1 THEN rx.bits ELSE "broken")

(* Mode 0: MOSI is sampled where SCK rises, while CS is low. *)
HearSpi ==
    IF cs = 1 THEN UNCHANGED decoder
    ELSE IF Len(rx.bits) + 1 < Width THEN Collect(mosi) /\ UNCHANGED heard
    ELSE rx' = Opened /\ Take(Append(rx.bits, mosi))

(* SDA moving while SCL is high is a START or a STOP; otherwise it is      *)
(* sampled where SCL rises.  The ninth bit is the acknowledge slot, high   *)
(* when nobody pulls it low.                                               *)
HearI2c(line, level) ==
    \/ line = "sda" /\ scl = 1 /\ level # sda /\ UNCHANGED heard
       /\ rx' = (IF level = 0 THEN Opened ELSE Silent)
    \/ /\ line = "scl" /\ scl = 0 /\ level = 1 /\ rx.open
       /\ IF Len(rx.bits) < Width
          THEN Collect(sda) /\ UNCHANGED heard
          ELSE rx' = Opened /\ Take(IF sda = 1 THEN rx.bits ELSE "broken")
    \/ ~(line = "sda" /\ scl = 1 /\ level # sda)
       /\ ~(line = "scl" /\ scl = 0 /\ level = 1 /\ rx.open)
       /\ UNCHANGED decoder

-----------------------------------------------------------------------------
(* The UART program: `pull side 1`, which waits with the line high, then   *)
(* the start bit, then the bits, the least significant first.              *)

UartPull ==
    /\ uart = "Running" /\ uphase = "pull"
    /\ tx' = 1 /\ HearUart(1)
    /\ IF uartFifo = <<>>
       THEN UNCHANGED <<uphase, ubits, uartFifo>>
       ELSE uphase' = "start" /\ ubits' = Head(uartFifo) /\ uartFifo' = Tail(uartFifo)
    /\ UNCHANGED <<cpuVars, fields, uart, spiVars, i2cVars, transfer>>

UartStart ==
    /\ uart = "Running" /\ uphase = "start"
    /\ tx' = 0 /\ HearUart(0)
    /\ uphase' = "data"
    /\ UNCHANGED <<cpuVars, fields, uart, uartFifo, ubits, spiVars, i2cVars, transfer>>

UartBit ==
    /\ uart = "Running" /\ uphase = "data"
    /\ LET n == Len(ubits)
       IN  /\ tx' = ubits[n] /\ HearUart(ubits[n])
           /\ ubits' = SubSeq(ubits, 1, n - 1)
           /\ uphase' = IF n = 1 THEN "pull" ELSE "data"
    /\ UNCHANGED <<cpuVars, fields, uart, uartFifo, spiVars, i2cVars, transfer>>

(* The SPI program: `out pins, 1 side 0` with autopull, which stalls with  *)
(* the clock low when there is nothing to shift; then `nop side 1`.        *)
SpiShift(bits) ==
    /\ mosi' = Head(bits) /\ sbits' = Tail(bits)
    /\ sphase' = "clock"
    /\ UNCHANGED spiStall

SpiOut ==
    /\ spi = "Running" /\ sphase = "out"
    /\ sck' = 0
    /\ \/ sbits # <<>> /\ SpiShift(sbits) /\ UNCHANGED spiFifo
       \/ sbits = <<>> /\ spiFifo # <<>> /\ SpiShift(Head(spiFifo)) /\ spiFifo' = Tail(spiFifo)
       \/ /\ sbits = <<>> /\ spiFifo = <<>>
          /\ spiStall' = TRUE
          /\ UNCHANGED <<mosi, sbits, sphase, spiFifo>>
    /\ UNCHANGED <<cpuVars, fields, uartVars, spi, cs, i2cVars, transfer, decoder>>

SpiClock ==
    /\ spi = "Running" /\ sphase = "clock"
    /\ sck' = 1 /\ HearSpi
    /\ sphase' = "out"
    /\ UNCHANGED <<cpuVars, fields, uartVars, spi, spiFifo, sbits, spiStall, mosi, cs, i2cVars, transfer>>

-----------------------------------------------------------------------------
(* stop(): each state machine that runs is halted, emptied, left with its  *)
(* lines idle and given back.                                              *)

(* Mutant of IdleUart: the line keeps the level it was stopped at. *)
IdleUartLeft == UNCHANGED tx

IdleUart == tx' = 1

ReleaseUart ==
    IF uart = "Running"
    THEN uart' = "Idle" /\ uartFifo' = <<>> /\ IdleUart
    ELSE UNCHANGED <<uart, uartFifo, tx>>

ReleaseSpi ==
    IF spi = "Running"
    THEN spi' = "Idle" /\ spiFifo' = <<>> /\ sck' = 0 /\ mosi' = 0
    ELSE UNCHANGED <<spi, spiFifo, sck, mosi>>

Stop ==
    /\ ReleaseUart /\ ReleaseSpi
    /\ active' = "None" /\ payload' = <<>> /\ cursor' = 0
    /\ cs' = 1 /\ scl' = 1 /\ sda' = 1
    /\ transfer' = NoTransfer /\ rx' = Silent /\ heard' = <<>>
    /\ UNCHANGED <<wrote, uphase, ubits, sphase, sbits, spiStall, wire>>

(* A command that passes its checks calls stop() before anything else. *)
Dispatch(op, bytes) ==
    /\ pc = "ready" /\ budget > 0
    /\ budget' = budget - 1
    /\ req' = [op |-> op, bytes |-> bytes]
    /\ pc' = IF op = "stop" THEN "ready" ELSE "stopped"
    /\ Stop

Sendable(p) == p # <<>> /\ Len(p) <= MaxPayload

CmdStop == Dispatch("stop", <<>>)
CmdUart == \E p \in Payloads : Sendable(p) /\ Dispatch("Uart", p)
CmdSpi == \E p \in Payloads : Sendable(p) /\ Dispatch("Spi", p)

(* A 7-bit address; on the wire its R/W bit follows it, 0 for a write. *)
CmdI2c ==
    \E p \in Payloads, a \in Addresses :
        Sendable(p) /\ a[1] = 0 /\ Dispatch("I2c", <<Append(Tail(a), 0)>> \o p)

-----------------------------------------------------------------------------
(* uart_send, spi_send and i2c_send after their stop().                    *)

Begin ==
    /\ transfer' = [protocol |-> req.op, bytes |-> req.bytes]
    /\ req' = NoReq

Queue == payload' = req.bytes /\ cursor' = 0 /\ active' = req.op /\ UNCHANGED wrote

UartSend ==
    /\ pc = "stopped" /\ req.op = "Uart"
    /\ IF uart = "Idle" THEN uart' = "Running" /\ pc' = "service" ELSE pc' = "panic" /\ UNCHANGED uart
    /\ Queue /\ Begin
    /\ uphase' = "pull" /\ ubits' = <<>>
    /\ UNCHANGED <<budget, uartFifo, tx, spiVars, i2cVars, decoder>>

(* Chip select low, then the state machine runs, and stalls at once. *)
SpiSend ==
    /\ pc = "stopped" /\ req.op = "Spi"
    /\ IF spi = "Idle" THEN spi' = "Running" /\ pc' = "arm" ELSE pc' = "panic" /\ UNCHANGED spi
    /\ Queue /\ Begin
    /\ cs' = 0 /\ rx' = Opened
    /\ sphase' = "out" /\ sbits' = <<>>
    /\ UNCHANGED <<budget, uartVars, spiFifo, spiStall, sck, mosi, i2cVars, heard>>

ClearBeforeService ==
    /\ pc = "arm"
    /\ spiStall' = FALSE
    /\ pc' = "service"
    /\ UNCHANGED <<req, budget, fields, uartVars, spi, spiFifo, sphase, sbits, sck, mosi, cs, i2cVars,
                   transfer, decoder>>

(* I2cWire: set() writes SCL, then SDA. *)
Set(c, d) == << <<"scl", c>>, <<"sda", d>> >>
StartCond == Set(1, 1) \o Set(1, 0) \o Set(0, 0)
StopCond == Set(0, 0) \o Set(1, 0) \o Set(1, 1)

(* Mutant of WireBit: SDA changes after SCL has risen. *)
WireBitLate(v) == Set(0, 1 - v) \o Set(1, v) \o Set(0, v)

WireBit(v) == Set(0, v) \o Set(1, v) \o Set(0, v)

Bits(byte) == LET f[n \in 0 .. Width] == IF n = 0 THEN <<>> ELSE f[n - 1] \o WireBit(byte[n])
              IN  f[Width]
WireBytes(bytes) ==
    LET f[n \in 0 .. Len(bytes)] == IF n = 0 THEN <<>> ELSE f[n - 1] \o Bits(bytes[n]) \o WireBit(1)
    IN  f[Len(bytes)]

I2cSend ==
    /\ pc = "stopped" /\ req.op = "I2c"
    /\ wire' = StartCond \o WireBytes(req.bytes) \o StopCond
    /\ pc' = "wire"
    /\ Begin
    /\ UNCHANGED <<budget, fields, uartVars, spiVars, scl, sda, decoder>>

(* One pin write; i2c_send returns after the last. *)
WireStep ==
    /\ pc = "wire"
    /\ LET w == Head(wire)
       IN  /\ HearI2c(w[1], w[2])
           /\ scl' = IF w[1] = "scl" THEN w[2] ELSE scl
           /\ sda' = IF w[1] = "sda" THEN w[2] ELSE sda
    /\ wire' = Tail(wire)
    /\ pc' = IF Len(wire) = 1 THEN "ready" ELSE "wire"
    /\ UNCHANGED <<req, budget, fields, uartVars, spiVars, transfer>>

-----------------------------------------------------------------------------
(* service(), from the poll loop and at the end of each send.              *)

Poll ==
    /\ pc = "poll"
    /\ pc' = "service"
    /\ budget' \in 0 .. Batch
    /\ UNCHANGED <<req, fields, uartVars, spiVars, i2cVars, transfer, decoder>>

EndPacket ==
    /\ pc = "ready" /\ budget = 0
    /\ pc' = "poll"
    /\ UNCHANGED <<req, budget, fields, uartVars, spiVars, i2cVars, transfer, decoder>>

(* status, and a command that is refused. *)
Status ==
    /\ pc = "ready" /\ budget > 0
    /\ budget' = budget - 1
    /\ UNCHANGED <<pc, req, fields, uartVars, spiVars, i2cVars, transfer, decoder>>

Queued == cursor < Len(payload)

(* Mutant of Room: is_full() is not asked. *)
RoomAssumed(fifo) == TRUE

Room(fifo) == Len(fifo) < FifoDepth

PushUart ==
    /\ pc = "service" /\ active = "Uart" /\ uart = "Running"
    /\ Queued /\ Room(uartFifo)
    /\ uartFifo' = Append(uartFifo, payload[cursor + 1])
    /\ cursor' = cursor + 1
    /\ UNCHANGED <<cpuVars, active, payload, wrote, uart, uphase, ubits, tx, spiVars, i2cVars, transfer, decoder>>

(* Mutant of StopPushingUart: the first service sends what fits and no more. *)
StopPushingUartForGood == pc' = "ready" /\ active' = "None" /\ UNCHANGED <<payload, cursor, wrote>>

StopPushingUart == pc' = "ready" /\ UNCHANGED fields

PushedUart ==
    /\ pc = "service" /\ active = "Uart" /\ ~(Queued /\ Room(uartFifo))
    /\ StopPushingUart
    /\ UNCHANGED <<req, budget, uartVars, spiVars, i2cVars, transfer, decoder>>

PushSpi ==
    /\ pc = "service" /\ active = "Spi" /\ spi = "Running"
    /\ Queued /\ Room(spiFifo)
    /\ spiFifo' = Append(spiFifo, payload[cursor + 1])
    /\ cursor' = cursor + 1 /\ wrote' = TRUE
    /\ UNCHANGED <<cpuVars, active, payload, uartVars, spi, sphase, sbits, spiStall, sck, mosi, cs, i2cVars,
                   transfer, decoder>>

(* Mutants of Fresh: a write this call does not count; the flag is always  *)
(* taken for stale.                                                        *)
FreshIgnoresWrites == ~Queued
FreshNever == FALSE

(* Nothing left to queue and nothing written by this call. *)
Fresh == ~wrote /\ ~Queued

PushedSpi ==
    /\ pc = "service" /\ active = "Spi" /\ ~(Queued /\ Room(spiFifo))
    /\ pc' = IF Fresh THEN "probe" ELSE "clear"
    /\ wrote' = FALSE
    /\ UNCHANGED <<req, budget, active, payload, cursor, uartVars, spiVars, i2cVars, transfer, decoder>>

ServiceNothing ==
    /\ pc = "service" /\ active = "None"
    /\ pc' = "ready"
    /\ UNCHANGED <<req, budget, fields, uartVars, spiVars, i2cVars, transfer, decoder>>

ClearStale ==
    /\ pc = "clear"
    /\ spiStall' = FALSE
    /\ pc' = "ready"
    /\ UNCHANGED <<req, budget, fields, uartVars, spi, spiFifo, sphase, sbits, sck, mosi, cs, i2cVars,
                   transfer, decoder>>

Probe ==
    /\ pc = "probe"
    /\ IF spiStall THEN cs' = 1 /\ active' = "None" ELSE UNCHANGED <<cs, active>>
    /\ pc' = "ready"
    /\ UNCHANGED <<req, budget, payload, cursor, wrote, uartVars, spi, spiFifo, sphase, sbits, spiStall, sck,
                   mosi, i2cVars, transfer, decoder>>

-----------------------------------------------------------------------------
Cpu ==
    \/ Poll \/ EndPacket \/ Status \/ CmdStop \/ CmdUart \/ CmdSpi \/ CmdI2c
    \/ UartSend \/ SpiSend \/ ClearBeforeService \/ I2cSend \/ WireStep
    \/ PushUart \/ PushedUart \/ PushSpi \/ PushedSpi \/ ServiceNothing \/ ClearStale \/ Probe

UartMachine == UartPull \/ UartStart \/ UartBit
SpiMachine == SpiOut \/ SpiClock

Next == Cpu \/ UartMachine \/ SpiMachine

Spec == Init /\ [][Next]_vars

(* The poll loop never sleeps, and a state machine that can take a step is *)
(* clocked until it does.                                                  *)
FairSpec == Spec /\ WF_vars(Cpu) /\ WF_vars(UartMachine) /\ WF_vars(SpiMachine)

-----------------------------------------------------------------------------
Level == {0, 1}

TypeOK ==
    /\ pc \in {"poll", "service", "clear", "probe", "ready", "stopped", "arm", "wire", "panic"}
    /\ req.op \in {"none", "stop", "Uart", "Spi", "I2c"} /\ req.bytes \in Seq(Byte)
    /\ budget \in 0 .. Batch
    /\ active \in {"None", "Uart", "Spi"}
    /\ payload \in Seq(Byte) /\ Len(payload) <= MaxPayload /\ cursor \in 0 .. Len(payload)
    /\ wrote \in BOOLEAN
    /\ uart \in {"Idle", "Running"} /\ spi \in {"Idle", "Running"}
    /\ uartFifo \in Seq(Byte) /\ Len(uartFifo) <= FifoDepth
    /\ spiFifo \in Seq(Byte) /\ Len(spiFifo) <= FifoDepth
    /\ uphase \in {"pull", "start", "data"} /\ ubits \in Seq(Level)
    /\ sphase \in {"out", "clock"} /\ sbits \in Seq(Level)
    /\ spiStall \in BOOLEAN
    /\ tx \in Level /\ sck \in Level /\ mosi \in Level /\ cs \in Level /\ scl \in Level /\ sda \in Level

(* A line that no transfer is using is at its idle level, whatever bit the *)
(* last transfer was cut in (proto.rs:56-74, 193-204).                     *)
IdleLevels ==
    /\ uart = "Idle" => tx = 1
    /\ spi = "Idle" => sck = 0 /\ mosi = 0 /\ cs = 1
    /\ pc # "wire" => scl = 1 /\ sda = 1

(* Mutant of Busy: a SPI transfer is over when its last byte is queued. *)
BusyWhileQueued == active \in {"Uart", "Spi"} /\ Queued

Busy == active = "Spi" \/ (active = "Uart" /\ Queued)

(* status and the pins agree about SPI: chip select is asserted exactly    *)
(* while a SPI transfer is reported as sending (proto.rs:206-217).         *)
SpiSending == spi = "Running" /\ Busy
StatusAgreesWithPins == pc \in {"poll", "ready"} => (cs = 0 <=> SpiSending)

(* What a decoder hears is what Frames promises: chip select, or the STOP, *)
(* comes after the last bit of the last byte, whatever stalls the sticky   *)
(* flag picked up on the way (proto.rs:322-348).                           *)
Open ==
    CASE transfer.protocol = "Uart" -> heard # transfer.bytes
      [] transfer.protocol = "Spi" -> cs = 0
      [] transfer.protocol = "I2c" -> wire # <<>> \/ rx.open
      [] OTHER -> FALSE
Heard == INSTANCE Frames WITH Protocol <- {"Uart", "Spi", "I2c"}, open <- Open
FramesKept == Heard!Spec

(* Chip select is released: the frame ends without waiting for the next    *)
(* protocol command (proto.rs:342-348).                                    *)
SpiFrameEnds == (transfer.protocol = "Spi") ~> (cs = 1)

(* The poll loop gets every byte of a UART transfer out, however often the *)
(* FIFO is full, unless a command ends the transfer (proto.rs:301-309).    *)
UartDelivered ==
    (transfer.protocol = "Uart") ~> (transfer.protocol # "Uart" \/ heard = transfer.bytes)

=============================================================================
