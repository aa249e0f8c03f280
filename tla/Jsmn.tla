-------------------------------- MODULE Jsmn --------------------------------
(***************************************************************************)
(* The JSON tokenizer (JSON/jsmn.c), as it is built here: not strict and   *)
(* without parent links.  A caller reads a text from a stream and has some *)
(* tokens: when there are too few of them, or when the text has not        *)
(* arrived in full, it calls jsmn_parse again with the same parser.        *)
(*                                                                         *)
(* Positions are those of the code, counted from 0; a token's index is     *)
(* counted from 1, and a toksuper of 0 is the -1 of the code.  The         *)
(* characters are those the code tells apart, see the sets below.          *)
(***************************************************************************)
EXTENDS Integers, Sequences, FiniteSets

CONSTANTS
  Texts,          \* the texts, sequences of characters
  Buffers(_, _),  \* what js may be when so much of a text has arrived
  MaxTokens       \* bound on the tokens the caller has

ASSUME MaxTokensAssumption == MaxTokens \in Nat

\* A text has no end within it.
ASSUME TextsAssumption == Texts \subseteq Seq(STRING \ {"nul"})

\* How far behind len jsmn_parse_string reads at most: behind a backslash it
\* does not look at len, so that an escape's 'u' and four digits may be there.
Beyond == 5

\* A buffer begins with what has arrived; what is behind it is arbitrary: the
\* rest of the text (as in jsmn_test.c), an end, or what was there before.
ASSUME BuffersAssumption ==
  \A t \in Texts : \A n \in 0..Len(t) : \A b \in Buffers(t, n) :
    /\ b \in Seq(STRING) /\ Len(b) = Len(t) + Beyond
    /\ \A i \in 1..n : b[i] = t[i]

VARIABLES
  text,     \* the text, of which
  len,      \* so many characters have arrived,
  buffer,   \* js, where they are
  num,      \* num_tokens
  parser,   \* pos, toknext, toksuper
  tokens,   \* the tokens allocated so far
  result    \* what jsmn_parse has returned for this text and these tokens

vars == <<text, len, buffer, num, parser, tokens, result>>

NOMEM == -1
INVAL == -2
PART == -3
NotCalled == -4

Separators == {",", " "}     \* and ':', tab and the ends of a line
Brackets   == {"{", "}", "[", "]"}
Ends       == Separators \union {"}", "]"}   \* of a primitive
Escapes    == {"quote", "backslash", "b"}    \* with a backslash before them
Hex        == {"0", "b"}
NotASCII   == "bad"                          \* below 32 or above 126

\* js[i] for a loop that ends at len as it does at '\0'
Char(js, t, i) == IF i < t THEN js[i + 1] ELSE "nul"

\* js[i] where len is not looked at
Byte(js, i) == IF i < Len(js) THEN js[i + 1] ELSE "nul"

-----------------------------------------------------------------------------
(* A call works on a record of the parser, its tokens, the count of those  *)
(* found, and the result, NotCalled as long as it goes on.  Without tokens *)
(* (tokens == NULL, here num = -1) it counts.                              *)

jsmn_init == [pos |-> 0, toknext |-> 0, toksuper |-> 0]

Without(n) == n = -1

OpenTokens(p) == {i \in 1..p.toknext : p.tokens[i].end = -1}

Last(S) == IF S = {} THEN 0 ELSE CHOOSE i \in S : \A j \in S : j <= i

Failed(p, error) == [p EXCEPT !.result = error]

\* The token above gets one child more.
Grown(p) == IF p.toksuper = 0 THEN p.tokens
            ELSE [p.tokens EXCEPT ![p.toksuper].size = @ + 1]

\* jsmn_alloc_token and jsmn_fill_token, and the parent's size.
Allocated(p, type, start, end) ==
  [p EXCEPT !.tokens = Append(Grown(p), [type |-> type, start |-> start,
                                         end |-> end, size |-> 0]),
            !.toknext = @ + 1,
            !.count = @ + 1]

Counted(p) == [p EXCEPT !.count = @ + 1]

OpenUncounted(p, n, c) ==  \* Mutant: a container is counted with its token.
  IF Without(n) THEN [p EXCEPT !.pos = @ + 1]
  ELSE IF p.toknext >= n THEN Failed(p, NOMEM)
  ELSE [Allocated(p, c, p.pos, -1)
          EXCEPT !.toksuper = p.toknext + 1, !.pos = @ + 1]

Open(p, n, c) ==
  IF Without(n) THEN [Counted(p) EXCEPT !.pos = @ + 1]
  ELSE IF p.toknext >= n THEN Failed(p, NOMEM)
  ELSE [Allocated(p, c, p.pos, -1)
          EXCEPT !.toksuper = p.toknext + 1, !.pos = @ + 1]

Matches(open, close) == <<open, close>> \in {<<"{", "}">>, <<"[", "]">>}

CloseForgets(p, n, c) ==  \* Mutant: the token above the closed one is lost.
  LET i == Last(OpenTokens(p)) IN
  IF Without(n) THEN [p EXCEPT !.pos = @ + 1]
  ELSE IF i = 0 \/ ~Matches(p.tokens[i].type, c) THEN Failed(p, INVAL)
  ELSE [p EXCEPT !.tokens[i].end = p.pos + 1, !.toksuper = 0, !.pos = @ + 1]

\* The last token still open is closed; the one open before it is above now.
Close(p, n, c) ==
  LET i == Last(OpenTokens(p)) IN
  IF Without(n) THEN [p EXCEPT !.pos = @ + 1]
  ELSE IF i = 0 \/ ~Matches(p.tokens[i].type, c) THEN Failed(p, INVAL)
  ELSE [p EXCEPT !.tokens[i].end = p.pos + 1,
                 !.toksuper = Last(OpenTokens(p) \ {i}),
                 !.pos = @ + 1]

-----------------------------------------------------------------------------
(* jsmn_parse_string: the place of the closing quote, or an error.         *)

\* The hexadecimal digits at i, four at most.
Digits(js, i) ==
  CHOOSE k \in 0..4 : /\ \A j \in 0..(k - 1) : Byte(js, i + j) \in Hex
                      /\ k = 4 \/ Byte(js, i + k) \notin Hex

\* One round of its loop, from i to where the next one begins: not beyond i
\* at the closing quote, at the end and at an escape that is none.  Only the
\* character it begins with is checked to be in front of len.
Past(js, t, i) ==
  LET c == Char(js, t, i)
      e == Byte(js, i + 1)
      d == Digits(js, i + 2)
  IN  CASE c \in {"nul", "quote"} -> i
        [] c = "backslash" ->
             IF e \in Escapes THEN i + 2
             ELSE IF e = "u" /\ (d = 4 \/ Byte(js, i + 2 + d) = "nul")
                  THEN i + 2 + d
             ELSE i
        [] OTHER -> i + 1

\* Where its rounds begin
Places(js, t, i) ==
  LET at[k \in 0..Len(js)] == IF k = 0 THEN i ELSE Past(js, t, at[k - 1])
  IN  at

\* After as many rounds as there are characters the loop has ended.
Quote(js, t, i) ==
  LET stop == Places(js, t, i)[Len(js)]
      c == Char(js, t, stop)
  IN  CASE c = "quote" -> stop
        [] c = "nul"   -> PART
        [] OTHER       -> INVAL

jsmn_parse_string(p, t, n, js) ==
  LET end == Quote(js, t, p.pos + 1) IN
  IF end < 0 THEN Failed(p, end)
  ELSE IF Without(n) THEN [Counted(p) EXCEPT !.pos = end + 1]
  ELSE IF p.toknext >= n THEN Failed(p, NOMEM)
  ELSE [Allocated(p, "string", p.pos + 1, end) EXCEPT !.pos = end + 1]

(* jsmn_parse_primitive: up to a separator, a closing bracket or the end   *)
(* of what has arrived.  Back from an error pos is where the token starts. *)
PrimitiveEnd(js, t, start) ==
  CHOOSE i \in start..t :
    /\ i = t \/ Char(js, t, i) \in Ends \union {NotASCII}
    /\ \A j \in start..(i - 1) : Char(js, t, j) \notin Ends \union {NotASCII}

PrimitiveMovesOn(p, t, n, js) ==  \* Mutant: pos stays behind the token.
  LET end == PrimitiveEnd(js, t, p.pos) IN
  IF Char(js, t, end) = NotASCII THEN Failed(p, INVAL)
  ELSE IF Without(n) THEN [Counted(p) EXCEPT !.pos = end]
  ELSE IF p.toknext >= n THEN [Failed(p, NOMEM) EXCEPT !.pos = end]
  ELSE [Allocated(p, "primitive", p.pos, end) EXCEPT !.pos = end]

jsmn_parse_primitive(p, t, n, js) ==
  LET end == PrimitiveEnd(js, t, p.pos) IN
  IF Char(js, t, end) = NotASCII THEN Failed(p, INVAL)
  ELSE IF Without(n) THEN [Counted(p) EXCEPT !.pos = end]
  ELSE IF p.toknext >= n THEN Failed(p, NOMEM)
  ELSE [Allocated(p, "primitive", p.pos, end) EXCEPT !.pos = end]

(* A round of the loop of jsmn_parse; behind the last one the search for   *)
(* an open token.                                                          *)
Round(p, t, n, js) ==
  LET c == Char(js, t, p.pos) IN
  IF p.result # NotCalled THEN p
  ELSE CASE c = "nul" -> [p EXCEPT !.result = IF OpenTokens(p) # {} THEN PART
                                              ELSE p.count]
         [] c \in {"{", "["} -> Open(p, n, c)
         [] c \in {"}", "]"} -> Close(p, n, c)
         [] c = "quote"      -> jsmn_parse_string(p, t, n, js)
         [] c \in Separators -> [p EXCEPT !.pos = @ + 1]
         [] OTHER            -> jsmn_parse_primitive(p, t, n, js)

\* Where each round begins, a round that has a result being the last.
Rounds(p, t, n, js) ==
  LET round[k \in 0..(Len(js) + 1)] ==
        IF k = 0 THEN p ELSE Round(round[k - 1], t, n, js)
  IN  round

\* A round moves on by a character at least, or has a result.
Parsed(p, t, n, js) == Rounds(p, t, n, js)[Len(js) + 1]

\* A call begins with the parser q and the tokens ts.
Called(q, ts) ==
  [pos |-> q.pos, toknext |-> q.toknext, toksuper |-> q.toksuper,
   tokens |-> ts, count |-> 0, result |-> NotCalled]

\* jsmn_parse for the parser q with tokens ts, of which there may be n, on
\* the first t characters of js.
jsmn_parse(q, ts, n, js, t) == Parsed(Called(q, ts), t, n, js)

ParserOf(p) == [pos |-> p.pos, toknext |-> p.toknext, toksuper |-> p.toksuper]

-----------------------------------------------------------------------------
(* The caller.                                                             *)

\* A text with its end behind it
Terminated(t) == t \o [i \in 1..Beyond |-> "nul"]

\* Where the stream may be cut: anywhere but inside a primitive, which the
\* code takes to end where the text that has arrived ends.
Cuts(t) ==
  {n \in 0..Len(t) :
     LET read == jsmn_parse(jsmn_init, <<>>, Len(t), Terminated(t), n).tokens IN
     \/ Char(t, Len(t), n) \in Ends \union {"nul"}
     \/ \A i \in DOMAIN read : read[i].type = "primitive" => read[i].end < n}

Init ==
  /\ text \in Texts /\ len \in Cuts(text) /\ num \in 0..MaxTokens
  /\ buffer \in Buffers(text, len)
  /\ parser = jsmn_init /\ tokens = <<>> /\ result = NotCalled

Parse ==
  /\ result \in {NotCalled, NOMEM, PART}
  /\ LET p == jsmn_parse(parser, tokens, num, buffer, len) IN
       /\ parser' = ParserOf(p)
       /\ tokens' = p.tokens
       /\ result' = p.result
  /\ UNCHANGED <<text, len, buffer, num>>

\* After NOMEM the caller provides more tokens, the old ones copied.
MoreTokens ==
  /\ result = NOMEM
  /\ num' \in (num + 1)..MaxTokens
  /\ buffer' \in Buffers(text, len)
  /\ result' = NotCalled
  /\ UNCHANGED <<text, len, parser, tokens>>

\* More of the text has arrived.
Arrive ==
  /\ result # INVAL
  /\ len' \in {n \in Cuts(text) : n > len}
  /\ buffer' \in Buffers(text, len')
  /\ result' = NotCalled
  /\ UNCHANGED <<text, num, parser, tokens>>

Next == Parse \/ MoreTokens \/ Arrive

Spec == Init /\ [][Next]_vars

-----------------------------------------------------------------------------
\* A container that is still open reaches to the end.
EndOf(i) == IF tokens[i].end = -1 THEN Len(buffer) + 1 ELSE tokens[i].end

Inside(i, j) == tokens[j].start <= tokens[i].start /\ EndOf(i) <= EndOf(j)

(* The tokens of jsmn_parse form a tree at every return, an early one too: *)
(* of two tokens the later one starts behind the earlier one and lies      *)
(* inside it or behind it, and a container's size is the number of tokens  *)
(* directly in it.                                                         *)
TokensNest ==
  /\ \A i, j \in DOMAIN tokens : i < j =>
       /\ tokens[i].start < tokens[j].start
       /\ Inside(j, i) \/ EndOf(i) <= tokens[j].start
  /\ \A i \in DOMAIN tokens :
       tokens[i].size =
         Cardinality({j \in DOMAIN tokens :
                        /\ i < j /\ Inside(j, i)
                        /\ \A k \in (i + 1)..(j - 1) : ~Inside(j, k)})

(* "If you get JSON_ERROR_NOMEM, you can re-allocate more tokens and call  *)
(* jsmn_parse once more", says JSON/README.md, and as much of JSMN_ERROR_  *)
(* PART: however many calls it took, the parser and the tokens are those   *)
(* of a single call, and so is the result, but for the count.              *)
ResumedAsOnce ==
  result # NotCalled =>
    LET once == jsmn_parse(jsmn_init, <<>>, num, buffer, len) IN
    /\ tokens = once.tokens /\ parser = ParserOf(once)
    /\ result = once.result \/ (result >= 0 /\ once.result >= 0)

(* A call without tokens tells "the value of tokens needed to parse the    *)
(* given string" (JSON/README.md): a text that is parsed takes so many     *)
(* tokens, and whoever has so many never gets NOMEM.                       *)
CountSuffices ==
  LET needed == jsmn_parse(jsmn_init, <<>>, -1, buffer, len).result IN
  /\ result >= 0 => parser.toknext = needed
  /\ result = NOMEM => needed < 0 \/ num < needed
=============================================================================
