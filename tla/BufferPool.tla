----------------------------- MODULE BufferPool -----------------------------
(***************************************************************************)
(* What flow control promises the controller: while it is powered, packets *)
(* are sent to it only into buffers it has; it frees them when it likes.   *)
(***************************************************************************)
EXTENDS Naturals

CONSTANT Total  \* transmit buffers of the controller

VARIABLES on,   \* the controller is powered
          busy  \* buffers that hold a packet

PoolInit == ~on /\ busy = 0

SwitchOn  == ~on /\ on' = TRUE /\ UNCHANGED busy
SwitchOff == on /\ on' = FALSE /\ busy' = 0
Fill      == on /\ busy < Total /\ busy' = busy + 1 /\ UNCHANGED on
Drain     == on /\ busy' \in 0..(busy - 1) /\ UNCHANGED on

PoolNext == SwitchOn \/ SwitchOff \/ Fill \/ Drain

PoolSpec == PoolInit /\ [][PoolNext]_<<on, busy>>
=============================================================================
