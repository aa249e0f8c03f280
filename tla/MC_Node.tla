------------------------------- MODULE MC_Node -------------------------------
(***************************************************************************)
(* Model checking of Node: a week of four minutes, and replies with no     *)
(* body, an empty schedule, a schedule in and out of order of its transition times, *)
(* a changed clock, and a reconnect period of 0, within and beyond the     *)
(* week.                                                                   *)
(***************************************************************************)
EXTENDS Node

Rec(t, b) == [key |-> "record",
              val |-> [transitionTime |-> t, beaconEnabled |-> b]]
Setting(k, v) == [key |-> k, val |-> v]

MCReplies ==
  { <<>>,
    <<Setting("other", 0)>>,
    <<Setting("systemTime", 3), Rec(3, FALSE), Rec(1, TRUE)>>,
    <<Rec(2, TRUE), Rec(4, FALSE), Setting("serverReconnectPeriod", 2)>>,
    <<Setting("serverReconnectPeriod", 0), Rec(1, TRUE)>>,
    <<Setting("serverReconnectPeriod", 9)>> }

MCGarbage ==
  { [transitionTime |-> 7, beaconEnabled |-> TRUE],
    [transitionTime |-> 0, beaconEnabled |-> FALSE] }
=============================================================================
