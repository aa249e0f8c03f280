------------------------------ MODULE MC_Jsmn ------------------------------
(***************************************************************************)
(* Every text of up to 4 of the characters that start, end or separate     *)
(* tokens, right or wrong; longer ones with nested containers, the         *)
(* strings and the escapes of JSON/jsmn_test.c, and a reply of the server. *)
(* Buffers hold, behind what has arrived, the rest of the text; where that *)
(* may be read, behind a backslash, other things as well.                  *)
(***************************************************************************)
EXTENDS Jsmn

Short == UNION {[1..n -> {"{", "}", "[", "]", "quote", ",", "0"}] : n \in 0..4}

Key == <<"quote", "x", "quote">>

Long ==
  { <<"[", "[", "]", ",", "[", "[", "]", "]", ",", "0", "]">>,
    <<"[", "0", ",", "x", ",", "[", "0", ",">> \o Key \o <<"]", "]">>,
    <<"{">> \o Key \o <<",", "[", "{">> \o Key \o <<",", "0", "}", ",", "{",
      "}", "]", ",">> \o Key \o <<",", "x", "x", "}">>,
    <<"{">> \o Key \o <<",", "0", "]">>,
    <<"0", "{", "x", "}">>, <<"x", "bad", ",", "0">>, <<"bad">>,
    <<"[", "quote", "backslash", "quote", "quote", "]">>,
    <<"quote", "backslash", "backslash", "b", "quote", "0">>,
    <<"quote", "backslash", "x", "quote">>,
    <<"quote", "bad", "quote", "quote", "{">>,
    <<"[", "quote", "backslash", "u", "0", "b", "0", "b", "quote", "]">>,
    <<"[", "quote", "backslash", "u", "0", "b", "0", "quote", "]">>,
    <<"[", "quote", "backslash", "u", "0", "x", "0", "b", "quote", "]">>,
    <<"quote", "backslash", "u", "0">>, <<"quote", "backslash">> }

MCTexts == Short \union Long

\* A buffer that has r behind the first n characters of t
Buffer(t, n, r) ==
  [i \in 1..(Len(t) + Beyond) |-> IF i <= n THEN t[i]
                                  ELSE IF i <= n + Len(r) THEN r[i - n]
                                  ELSE "nul"]

\* An end, the rest of the text, escapes that are complete, cut off and wrong
Rests(t, n) ==
  { <<>>, SubSeq(t, n + 1, Len(t)), <<"quote", "]">>,
    <<"u", "0", "b", "0", "b">>, <<"u", "0", "b", "0", "x">>,
    <<"b", "b", "b", "b">>, <<"bad">> }

\* What is behind len matters behind a backslash only.
MCBuffers(t, n) ==
  IF \E i \in 1..n : i > n - Beyond /\ t[i] = "backslash"
  THEN {Buffer(t, n, r) : r \in Rests(t, n)}
  ELSE {Buffer(t, n, SubSeq(t, n + 1, Len(t)))}
=============================================================================
