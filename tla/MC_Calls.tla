------------------------------ MODULE MC_Calls ------------------------------
(***************************************************************************)
(* Model checking of Calls: lengths at the edges of the code's limits (an  *)
(* empty and a full SSID, WEP and WPA keys, names at 32 and 230 bytes, a   *)
(* send that fills the buffer and one that does not), service packs of one *)
(* part, a part more or less a byte, and two parts; and two sockets.       *)
(***************************************************************************)
EXTENDS Calls

MCSockets == 0..1
MCSsidLengths == {0, 1, 32}
MCKeyLengths == {0, 5, 13, 32, 63}
MCNameLengths == {7, 32, 113, 230}
MCDataLengths == {4, 104, 131}
MCPatchLengths == {0, 31, 32, 33, 64}
MCErrors == {-57, -2, -1}
=============================================================================
