----------------------------- MODULE ByteChannel -----------------------------
(***************************************************************************)
(* What the USB-to-serial direction of the bridge promises to the two      *)
(* people who only see its ends: a bounded FIFO of numbered bytes.         *)
(*                                                                         *)
(* Bytes are named by the order in which they enter, so a channel that     *)
(* loses, repeats or reorders nothing always delivers number out + 1 next. *)
(* Nothing is promised across a Close: the firmware throws its buffers     *)
(* away whenever the host sets the line coding.  Glitch is the one defect  *)
(* the implementation has: it can only strike while the channel is empty,  *)
(* and Heal ends it.                                                       *)
(***************************************************************************)
EXTENDS Integers

CONSTANT Capacity     \* bytes that may be inside the channel at once

VARIABLES in,         \* number of the last byte accepted
          out,        \* number of the last byte delivered
          open,       \* bytes can be delivered
          glitched    \* what comes out is not what went in

vars == <<in, out, open, glitched>>

TypeOK == /\ in \in Nat /\ out \in Nat
          /\ open \in BOOLEAN /\ glitched \in BOOLEAN

Init == in = 0 /\ out = 0 /\ ~open /\ ~glitched

Accept == /\ open
          /\ \E k \in 1..Capacity : in' = in + k
          /\ glitched \/ in' - out <= Capacity
          /\ UNCHANGED <<out, open, glitched>>

Deliver == /\ open /\ ~glitched /\ out < in
           /\ out' = out + 1
           /\ UNCHANGED <<in, open, glitched>>

Glitch == /\ open /\ ~glitched /\ out = in
          /\ glitched' = TRUE
          /\ UNCHANGED <<in, out, open>>

Heal == /\ glitched
        /\ glitched' = FALSE /\ out' = in
        /\ UNCHANGED <<in, open>>

Close == open /\ open' = FALSE /\ UNCHANGED <<in, out, glitched>>

Flush == /\ ~open
         /\ out' = in /\ glitched' = FALSE
         /\ open' \in BOOLEAN
         /\ UNCHANGED in

Next == Accept \/ Deliver \/ Glitch \/ Heal \/ Close \/ Flush

Spec == Init /\ [][Next]_vars
=============================================================================
