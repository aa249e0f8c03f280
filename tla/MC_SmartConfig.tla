-------------------------- MODULE MC_SmartConfig --------------------------
(* Keys of every length at which wlan_smart_config_process takes another   *)
(* path: none, one that fits the first block, the shortest that does not,  *)
(* and 30, 31 and 32 bytes; every security type.                           *)
EXTENDS SmartConfig

Pass(n) == <<>> \o [i \in 1..n |-> 32 + ((7 * i) % 95)]

Network(ssid, sec, n, field) ==
  [ssid |-> ssid, sec |-> sec, pass |-> Pass(n), field |-> field]

MCNetworks ==
  { Network(<<65>>, 0, 0, 32), Network(<<65, 66>>, 1, 5, 16),
    Network(<<65>>, 1, 13, 32), Network(<<65>>, 2, 15, 16),
    Network(<<65>>, 3, 16, 32), Network(<<65>>, 2, 30, 32),
    Network(<<65>>, 3, 31, 32),
    Network(<<>> \o [i \in 1..32 |-> 97], 3, 32, 32) }

MCOld == Network(<<90>>, 3, 8, 32)
===========================================================================
