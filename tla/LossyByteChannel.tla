--------------------------- MODULE LossyByteChannel ---------------------------
(***************************************************************************)
(* What the serial-to-USB direction promises.  Bytes come out in the order *)
(* they went in, none twice and none missing, as long as at most Capacity  *)
(* of them are on their way.  Beyond that the channel, which cannot hold   *)
(* up the serial line, does bounded damage: a byte that was overwritten is *)
(* replaced by one a multiple of Capacity younger, those behind it are not *)
(* shifted, and what is skipped is a multiple of Capacity.                 *)
(***************************************************************************)
EXTENDS Integers

CONSTANT Capacity

VARIABLES in,         \* number of the last byte accepted
          out,        \* number of the last byte whose turn has come
          item,       \* number of the byte delivered in that turn
          open        \* bytes can enter and leave

vars == <<in, out, item, open>>

Init == in = 0 /\ out = 0 /\ item = 0 /\ ~open

Accept == open /\ in' = in + 1 /\ UNCHANGED <<out, item, open>>

Deliver == /\ open /\ out < in
           /\ out' = out + 1
           /\ \E k \in 0..(in - out) : item' = out' + k * Capacity
           /\ item' <= in
           /\ in - out <= Capacity => item' = out'
           /\ UNCHANGED <<in, open>>

Skip == /\ open /\ in - out > Capacity
        /\ \E k \in 1..(in - out) : out' = out + k * Capacity
        /\ out' <= in
        /\ UNCHANGED <<in, item, open>>

Close == open /\ open' = FALSE /\ UNCHANGED <<in, out, item>>

Flush == ~open /\ out' = in /\ open' \in BOOLEAN /\ UNCHANGED <<in, item>>

Next == Accept \/ Deliver \/ Skip \/ Close \/ Flush

Spec == Init /\ [][Next]_vars
=============================================================================
