--------------------------------- MODULE Frames ---------------------------------
(***************************************************************************)
(* What the protocol generators promise a decoder: one transfer at a time, *)
(* its bytes in order, none lost, altered or repeated, and the end of the  *)
(* transfer only after the last of them (src/src/proto.rs:1-14).  The next *)
(* protocol command, or stop, cuts a transfer short.                       *)
(***************************************************************************)
EXTENDS Naturals, Sequences

CONSTANTS Byte, Protocol

VARIABLES
    transfer,  \* the transfer under way: its protocol and its bytes
    heard,     \* the bytes a decoder has read off the lines
    open       \* the transfer has begun and not ended

Nothing == [protocol |-> "none", bytes |-> <<>>]
Transfer == [protocol : Protocol, bytes : Seq(Byte) \ {<<>>}]

Init == transfer = Nothing /\ heard = <<>> /\ open = FALSE

Begin ==
    /\ transfer = Nothing
    /\ transfer' \in Transfer
    /\ heard' = <<>> /\ open' = TRUE

(* A protocol without an end of its own is over with its last byte. *)
Deliver ==
    /\ open
    /\ Len(heard) < Len(transfer.bytes)
    /\ heard' = Append(heard, transfer.bytes[Len(heard) + 1])
    /\ open' = TRUE \/ (open' = FALSE /\ heard' = transfer.bytes)
    /\ transfer' = transfer

End ==
    /\ open /\ heard = transfer.bytes
    /\ open' = FALSE
    /\ UNCHANGED <<transfer, heard>>

Cut == transfer' = Nothing /\ heard' = <<>> /\ open' = FALSE

Next == Begin \/ Deliver \/ End \/ Cut

Spec == Init /\ [][Next]_<<transfer, heard, open>>

=============================================================================
