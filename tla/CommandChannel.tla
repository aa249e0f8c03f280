--------------------------- MODULE CommandChannel ---------------------------
(***************************************************************************)
(* What the driver promises its callers: commands go to a                  *)
(* controller that is powered, one at a time; the controller executes each *)
(* exactly once and answers it; a call returns once its whole answer has   *)
(* been taken, and then nothing of the exchange remains.                   *)
(***************************************************************************)
EXTENDS Naturals

CONSTANT MaxAnswer  \* packets in the longest answer: an event and a data packet

VARIABLES up,     \* the controller is powered
          stage,  \* of the call in progress
          left    \* packets of its answer that have not been taken

chanVars == <<up, stage, left>>

ChanInit == ~up /\ stage = "idle" /\ left = 0

SwitchOn  == ~up /\ up' = TRUE /\ UNCHANGED <<stage, left>>
SwitchOff == up /\ stage = "idle" /\ up' = FALSE /\ UNCHANGED <<stage, left>>

Ask    == up /\ stage = "idle" /\ stage' = "asked" /\ UNCHANGED <<up, left>>
Accept == stage = "asked" /\ stage' = "accepted" /\ UNCHANGED <<up, left>>
Answer == stage = "accepted" /\ stage' = "answered" /\ left' \in 1..MaxAnswer
          /\ UNCHANGED up
Take   == stage = "answered" /\ left > 0 /\ left' = left - 1
          /\ UNCHANGED <<up, stage>>
GiveBack == stage = "answered" /\ left = 0 /\ stage' = "idle"
          /\ UNCHANGED <<up, left>>

ChanNext == SwitchOn \/ SwitchOff \/ Ask \/ Accept \/ Answer \/ Take \/ GiveBack

ChanSpec == ChanInit /\ [][ChanNext]_chanVars
=============================================================================
