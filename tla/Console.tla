--------------------------------- MODULE Console ---------------------------------
(***************************************************************************)
(* The poll loop of the firmware (src/src/main.rs) and the assembly of     *)
(* command lines (src/src/console.rs), with the host at the other end of   *)
(* the serial port: it sends packets, reads what is written when it likes, *)
(* and may go away.                                                        *)
(*                                                                         *)
(* One thread runs the loop.  Written text has a kind and a length, and    *)
(* the serial buffer only a fill; what a command does is in Synth, Proto   *)
(* and Bus.  A local variable goes back to its first value when its scope  *)
(* ends.                                                                   *)
(***************************************************************************)
EXTENDS Integers, Sequences, SequencesExt

CONSTANTS
    Keys,         \* printable bytes
    LineLen,      \* LINE_LEN
    LongLines,    \* the lines with output of more than one line
    PacketLen,    \* bytes of a packet
    OutRoom,      \* bytes the serial port holds for the host
    Size,         \* of each part of the output
    MaxAttempts,  \* of write_all, without progress
    MaxSent,      \* bound: bytes the host sends
    MaxLeaves     \* bound: times the host goes away

Parts == {"banner", "text", "reply", "eol", "toolong"}

ASSUME ConsoleAssumption ==
    /\ LineLen \in Nat \ {0} /\ PacketLen \in Nat \ {0} /\ OutRoom \in Nat \ {0}
    /\ Size \in [Parts -> Nat \ {0}]
    /\ {MaxAttempts, MaxSent, MaxLeaves} \subseteq Nat
    /\ Keys \cap {"eol", "backspace", "control"} = {}

VARIABLES
    port,     \* "down"; "up", configured; "gone", and the device has yet to notice
    inbox,    \* the packet received, not read
    held,     \* bytes written that the host has yet to read
    pc,       \* where the loop is
    hasData,  \* what poll returned
    packet,   \* the bytes read, not pushed
    buf, overflowed,  \* LineBuffer
    greeted,
    out,      \* write_all: what it writes, from which byte, and its attempts
    sent, leaves,  \* counters of the bounds
    typed,    \* history: the bytes pushed since the last end of line
    outcome,  \* history: what the last end of line came to
    last,     \* history: up to where the port took which part, and lines ended since
    lost      \* history: write_all gave up since

linebuf == <<buf, overflowed>>
usb == <<port, inbox, held>>
bounds == <<sent, leaves>>
histories == <<typed, outcome, last, lost>>
vars == <<usb, pc, hasData, packet, linebuf, greeted, out, bounds, histories>>

Bytes == Keys \cup {"eol", "backspace", "control"}
TooLong == <<"eol">>  \* no line
Idle == [part |-> "eol", next |-> 1, attempts |-> 0]
Nothing == [part |-> "eol", to |-> Size["eol"], age |-> 0]

Init ==
    /\ port = "down" /\ inbox = <<>> /\ held = 0
    /\ pc = "poll" /\ hasData = FALSE /\ packet = <<>>
    /\ buf = <<>> /\ overflowed = FALSE /\ greeted = FALSE
    /\ out = Idle
    /\ sent = 0 /\ leaves = 0
    /\ typed = <<>> /\ outcome = <<>> /\ last = Nothing /\ lost = FALSE

-----------------------------------------------------------------------------
(* The host.                                                               *)

Send ==
    /\ port = "up" /\ inbox = <<>>
    /\ \E n \in 1 .. PacketLen :
           /\ sent + n <= MaxSent
           /\ inbox' \in [1 .. n -> Bytes]
           /\ sent' = sent + n
    /\ UNCHANGED <<port, held, pc, hasData, packet, linebuf, greeted, out, leaves, histories>>

Drain ==
    /\ port = "up" /\ held > 0
    /\ held' = held - 1
    /\ UNCHANGED <<port, inbox, pc, hasData, packet, linebuf, greeted, out, bounds, histories>>

Leave ==
    /\ port = "up" /\ leaves < MaxLeaves
    /\ port' = "gone" /\ leaves' = leaves + 1
    /\ UNCHANGED <<inbox, held, pc, hasData, packet, linebuf, greeted, out, sent, histories>>

-----------------------------------------------------------------------------
(* The loop.                                                               *)

(* usb_dev.poll: the only place where the device notices what the host     *)
(* did.  A bus reset empties the port; data is reported until it is read,  *)
(* and may be reported when there is none.                                 *)
Poll ==
    /\ pc = "poll" /\ pc' = "service"
    /\ IF port = "gone" THEN /\ port' = "down" /\ inbox' = <<>> /\ held' = 0
                             /\ last' = Nothing /\ lost' = FALSE
       ELSE /\ port' \in {port, "up"}
            /\ UNCHANGED <<inbox, held, last, lost>>
    /\ \E spurious \in BOOLEAN : hasData' = (inbox' # <<>> \/ spurious)
    /\ UNCHANGED <<packet, linebuf, greeted, out, bounds, typed, outcome>>

(* Bus and Proto have what it does. *)
Service ==
    /\ pc = "service" /\ pc' = "greet"
    /\ UNCHANGED <<usb, hasData, packet, linebuf, greeted, out, bounds, histories>>

Writing(part) == pc' = "write" /\ out' = [part |-> part, next |-> 1, attempts |-> 0]

Greet ==
    /\ pc = "greet"
    /\ IF ~greeted /\ port # "down" THEN Writing("banner") ELSE pc' = "read" /\ UNCHANGED out
    /\ UNCHANGED <<usb, hasData, packet, linebuf, greeted, bounds, histories>>

Read ==
    /\ pc = "read"
    /\ IF hasData /\ inbox # <<>> THEN packet' = inbox /\ inbox' = <<>> /\ pc' = "bytes"
       ELSE pc' = "poll" /\ UNCHANGED <<packet, inbox>>
    /\ hasData' = FALSE
    /\ UNCHANGED <<port, held, linebuf, greeted, out, bounds, histories>>

(* LineBuffer::push of a byte that ends no line.  Mutants of Push: a       *)
(* backspace makes up for the overflow; the buffer has no limit.           *)
PushForgiving(b) ==
    CASE b = "backspace" -> buf' = (IF buf = <<>> THEN buf ELSE Front(buf)) /\ overflowed' = FALSE
      [] b \in Keys /\ Len(buf) < LineLen -> buf' = Append(buf, b) /\ UNCHANGED overflowed
      [] b \in Keys /\ Len(buf) >= LineLen -> overflowed' = TRUE /\ UNCHANGED buf
      [] b = "control" -> UNCHANGED linebuf

PushUnlimited(b) ==
    CASE b = "backspace" -> buf' = (IF buf = <<>> THEN buf ELSE Front(buf)) /\ UNCHANGED overflowed
      [] b \in Keys -> buf' = Append(buf, b) /\ overflowed' = (Len(buf) >= LineLen)
      [] b = "control" -> UNCHANGED linebuf

Push(b) ==
    CASE b = "backspace" -> buf' = (IF buf = <<>> THEN buf ELSE Front(buf)) /\ UNCHANGED overflowed
      [] b \in Keys /\ Len(buf) < LineLen -> buf' = Append(buf, b) /\ UNCHANGED overflowed
      [] b \in Keys /\ Len(buf) >= LineLen -> overflowed' = TRUE /\ UNCHANGED buf
      [] b = "control" -> UNCHANGED linebuf

Reset == buf' = <<>> /\ overflowed' = FALSE

Ended == typed # <<>> /\ Last(typed) = "eol"
Typed(b) == typed' = IF Ended THEN <<b>> ELSE Append(typed, b)

NextPacket ==
    /\ pc = "bytes" /\ packet = <<>>
    /\ pc' = "poll"
    /\ IF Ended THEN typed' = <<>> /\ outcome' = <<>> ELSE UNCHANGED <<typed, outcome>>
    /\ UNCHANGED <<usb, hasData, packet, linebuf, greeted, out, bounds, last, lost>>

TakeByte ==
    /\ pc = "bytes" /\ packet # <<>> /\ Head(packet) # "eol"
    /\ Push(Head(packet)) /\ Typed(Head(packet))
    /\ packet' = Tail(packet)
    /\ UNCHANGED <<usb, pc, hasData, greeted, out, bounds, outcome, last, lost>>

(* The three events of an end of line. *)
TakeEol ==
    /\ pc = "bytes" /\ packet # <<>> /\ Head(packet) = "eol"
    /\ packet' = Tail(packet) /\ Typed("eol")
    /\ IF overflowed THEN Reset /\ Writing("toolong") /\ outcome' = TooLong
       ELSE IF buf = <<>> THEN outcome' = <<>> /\ UNCHANGED <<linebuf, pc, out>>
       ELSE /\ IF buf \in LongLines THEN Writing("text") ELSE pc' = "dispatch" /\ UNCHANGED out
            /\ UNCHANGED <<linebuf, outcome>>
    /\ last' = IF pc' # pc /\ last.age < 2 THEN [last EXCEPT !.age = @ + 1] ELSE last
    /\ UNCHANGED <<usb, hasData, greeted, bounds, lost>>

Dispatch ==
    /\ pc = "dispatch"
    /\ outcome' = buf
    /\ Writing("reply")
    /\ UNCHANGED <<usb, hasData, packet, linebuf, greeted, bounds, typed, last, lost>>

-----------------------------------------------------------------------------
(* write_all, and what the loop does when it returns.                      *)

(* Mutant of Greeted: the loop starts over when the banner was not taken. *)
GreetedOrElse(done) == greeted' = done /\ pc' = (IF done THEN "read" ELSE "poll")

Greeted(done) == greeted' = done /\ pc' = "read"

Return(done) ==
    CASE out.part = "banner"  -> Greeted(done) /\ out' = Idle /\ UNCHANGED linebuf
      [] out.part = "text"    -> pc' = "dispatch" /\ out' = Idle /\ UNCHANGED <<linebuf, greeted>>
      [] out.part = "reply"   -> Writing("eol") /\ UNCHANGED <<linebuf, greeted>>
      [] out.part = "eol"     -> Reset /\ pc' = "bytes" /\ out' = Idle /\ UNCHANGED greeted
      [] out.part = "toolong" -> pc' = "bytes" /\ out' = Idle /\ UNCHANGED <<linebuf, greeted>>

Remaining == Size[out.part] - out.next + 1

(* Mutants of Taken: the rest is forgotten; all of it is written again. *)
TakenShort(n) == Return(TRUE)
TakenAgain(n) ==
    IF n = Remaining THEN Return(TRUE)
    ELSE out' = [out EXCEPT !.attempts = 0] /\ UNCHANGED <<pc, linebuf, greeted>>

Taken(n) ==
    IF n = Remaining THEN Return(TRUE)
    ELSE out' = [out EXCEPT !.next = @ + n, !.attempts = 0] /\ UNCHANGED <<pc, linebuf, greeted>>

WriteSome ==
    /\ pc = "write" /\ held < OutRoom
    /\ LET room == OutRoom - held
           n == IF room < Remaining THEN room ELSE Remaining
       IN  /\ held' = held + n
           /\ last' = [part |-> out.part, to |-> out.next + n - 1, age |-> 0]
           /\ Taken(n)
    /\ lost' = FALSE
    /\ UNCHANGED <<port, inbox, hasData, packet, bounds, typed, outcome>>

(* Mutant of GivesUp: never. *)
NeverGivesUp == FALSE
GivesUp == out.attempts + 1 > MaxAttempts

WriteNothing ==
    /\ pc = "write" /\ held = OutRoom
    /\ IF GivesUp THEN Return(FALSE) /\ lost' = TRUE
       ELSE /\ out' = [out EXCEPT !.attempts = IF @ < MaxAttempts THEN @ + 1 ELSE @]
            /\ UNCHANGED <<pc, linebuf, greeted, lost>>
    /\ UNCHANGED <<usb, hasData, packet, bounds, typed, outcome, last>>

Loop ==
    \/ Poll \/ Service \/ Greet \/ Read
    \/ NextPacket \/ TakeByte \/ TakeEol \/ Dispatch
    \/ WriteSome \/ WriteNothing

Next == Send \/ Drain \/ Leave \/ Loop

(* The processor runs the loop; nothing is asked of the host. *)
Spec == Init /\ [][Next]_vars /\ WF_vars(Loop)

-----------------------------------------------------------------------------
(* Types: in particular the line never outgrows its buffer.                *)
TypeOK ==
    /\ port \in {"down", "up", "gone"} /\ inbox \in Seq(Bytes) /\ held \in 0 .. OutRoom
    /\ pc \in {"poll", "service", "greet", "read", "bytes", "dispatch", "write"}
    /\ {hasData, greeted, overflowed, lost} \subseteq BOOLEAN
    /\ packet \in Seq(Bytes) /\ buf \in Seq(Keys) /\ Len(buf) <= LineLen
    /\ out.part \in Parts /\ out.next \in 1 .. Size[out.part] /\ out.attempts \in 0 .. MaxAttempts
    /\ last.part \in Parts /\ last.to \in 1 .. Size[last.part] /\ last.age \in 0 .. 2

(* What an editor without a limit makes of the bytes of a line: the text,  *)
(* and whether it was ever longer than a line can be.                      *)
Edit(line, b) ==
    LET text == IF b \in Keys THEN Append(line.text, b)
                ELSE IF b = "backspace" /\ line.text # <<>> THEN Front(line.text)
                ELSE line.text
    IN  [text |-> text, long |-> line.long \/ Len(text) > LineLen]

Untyped == [text |-> <<>>, long |-> FALSE]
Editing(bytes) ==
    LET f[n \in 0 .. Len(bytes)] == IF n = 0 THEN Untyped ELSE Edit(f[n - 1], bytes[n])
    IN  f[Len(bytes)]
Edited == Editing(typed)

(* However packets cut a line and whatever was erased in it, it is         *)
(* executed as typed, or refused whole if it was ever too long, or ignored *)
(* if nothing is left of it (console.rs:22-24).                            *)
ExecutedAsTyped ==
    pc = "bytes" /\ Ended =>
        outcome = IF Edited.long THEN TooLong ELSE Edited.text

(* Where a piece of output has its place: answers in the order of their    *)
(* lines, and in each the text, the reply and its end of line; the banner  *)
(* between two lines.                                                      *)
Rank(part) == CASE part = "text" -> 1 [] part = "reply" -> 2 [] part = "toolong" -> 2
                [] part = "eol" -> 3 [] part = "banner" -> 4

(* The bytes taken are the rest of the piece begun, or the first of one    *)
(* that has its place after it.                                            *)
FirstTaken == last'.to - (held' - held) + 1
Continued == last.age = 0 /\ last'.part = last.part /\ FirstTaken = last.to + 1
Later == last.age > 0 \/ Rank(last'.part) > Rank(last.part)

(* No byte of a reply is written twice or out of its place, whatever the   *)
(* host reads and whatever write_all gave up; only the banner starts over  *)
(* (main.rs:178-195).                                                      *)
PiecesInOrder ==
    [][held' > held => Continued \/ (FirstTaken = 1 /\ (Later \/ last.part = "banner"))]_vars

(* Output is missing only where write_all gave up: otherwise a piece       *)
(* follows the whole of the piece before it, a reply is followed by its    *)
(* end of line, and no line goes without an answer (console.rs:133-134).   *)
Successor ==
    CASE last.part = "text"  -> last.age = 0 /\ last'.part = "reply"
      [] last.part = "reply" -> last.age = 0 /\ last'.part = "eol"
      [] OTHER -> IF last'.part = "banner" THEN last.age = 0
                  ELSE last.age = 1 /\ last'.part \in {"text", "reply", "toolong"}

WholeUnlessGivenUp ==
    [][held' > held /\ ~lost => Continued \/ (last.to = Size[last.part] /\ Successor)]_vars

(* A host that reads nothing, or goes away in the middle of a reply, never *)
(* keeps the loop from polling and feeding the pattern (main.rs:175-177).  *)
ServiceRecurs == []<>(pc = "service")

(* A packet is always read in the end, although nothing was greeted yet or *)
(* nothing is read by the host.                                            *)
InputTaken == (inbox # <<>>) ~> (inbox = <<>>)

=============================================================================
