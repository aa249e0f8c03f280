------------------------------ MODULE MC_Parser ------------------------------
(***************************************************************************)
(* Model checking of StatusParser: replies with the schedule first, last,  *)
(* twice or in the middle, empty or of two records, the keys of a record   *)
(* in two orders and with one the node does not know; every sequence of up *)
(* to seven tokens of a small alphabet; and, to fill the schedule of nine  *)
(* records, sequences of 31 tokens that repeat one to three of them.       *)
(***************************************************************************)
EXTENDS StatusParser

MCText == {"", "true", "false", "1", "7", "x"} \cup Field
            \cup {"currentSchedule", "systemTime", "serverReconnectPeriod",
                  "beaconUUID"}
MCatoi == [t \in MCText |-> IF t = "1" THEN 1 ELSE IF t = "7" THEN 7 ELSE 0]

\* Records of four fields, with the order turned round in half of them
Fields(on, n, m) ==
  <<<<"transitionTime", n>>, <<"beaconEnabled", on>>,
    <<"beaconPeriod", m>>, <<"beaconPower", n>>>>
Records == {Fields(on, n, "7") : on \in {"true", "false"}, n \in {"1", "7"}}
             \cup {Reverse(Fields(on, "7", "1")) : on \in {"true", "false"}}
             \cup {Fields("true", "1", "1") \o <<<<"x", "7">>>>}

Schedule(rs) == [key |-> "currentSchedule", val |-> rs]
Setting(k, v) == [key |-> k, val |-> v]

MCDocs ==
  LET one == {Schedule(<<>>)} \cup {Schedule(<<r>>) : r \in Records}
      two == {Schedule(<<r, s>>) : r, s \in Records}
      set == {Setting("systemTime", "7"), Setting("beaconUUID", "x"),
              Setting("serverReconnectPeriod", "7"), Setting("x", "1")}
  IN  {<<s, a, t>> : s, t \in set, a \in one \cup two}
        \cup {<<a, s, b>> : s \in set, a, b \in one}

MCTokens ==
  {Tok("object", 2, ""), Tok("array", 2, ""), Tok("string", 0, "currentSchedule"),
   Tok("string", 0, "transitionTime"), Tok("primitive", 0, "7")}

Short == UNION {[1..n -> MCTokens] : n \in 0..7}

Start(n) == <<Tok("object", 2, ""), Tok("string", 0, "currentSchedule"),
              Tok("array", n, "")>>
Repeat(unit) == FlattenSeq([n \in 1..28 |-> unit])
Long == {SubSeq(Start(n) \o Repeat(unit), 1, 31) :
           n \in {1, 9, 31}, unit \in UNION {[1..k -> MCTokens] : k \in 1..3}}

RawInputs == Short \cup Long
=============================================================================
