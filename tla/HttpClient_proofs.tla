------------------------- MODULE HttpClient_proofs -------------------------
(***************************************************************************)
(* Proofs about HttpClient: whatever the server answers and whichever recv *)
(* fails, httpOperation closes its socket and has given every byte of the  *)
(* request to send once, for every length of the request and every size of *)
(* a chunk.                                                                *)
(***************************************************************************)
EXTENDS HttpClient, TLAPS

-----------------------------------------------------------------------------
(* The inductive invariant.  SentOnce speaks of the end of the loop that   *)
(* sends; its invariant says how far the loop has come in between, and     *)
(* that a send is never longer than what is left of the part.              *)

PCs == {"idle", "connect", "send", "header", "parse", "body"}

Typed ==
  /\ pc \in PCs /\ part \in {"text", "payload"}
  /\ length \in Nat \X Nat /\ bytesSent \in Nat /\ offered \in Nat

\* The socket is open exactly while httpOperation runs.
OpenByPc ==
  /\ pc = "idle" => ~open
  /\ pc # "idle" => open

\* What has been given to send at each location.
OfferedByPc ==
  /\ pc = "connect" => part = "text" /\ bytesSent = 0 /\ offered = 0
  /\ pc = "send" =>
       /\ bytesSent <= PartLength
       /\ offered = (IF part = "text" THEN 0 ELSE length[1]) + bytesSent
  /\ SentOnce

IInv == Typed /\ OpenByPc /\ OfferedByPc

\* The smaller of two numbers is one of them and no more than the other.
LEMMA MinOfTwo ==
  ASSUME NEW a \in Int, NEW b \in Int
  PROVE  /\ Min({a, b}) \in {a, b}
         /\ Min({a, b}) <= a /\ Min({a, b}) <= b
<1>1. \E x \in {a, b} : \A y \in {a, b} : x <= y
  <2>1. CASE a <= b
    BY <2>1
  <2>2. CASE b <= a
    BY <2>2
  <2> QED
    BY <2>1, <2>2
<1>2. /\ Min({a, b}) \in {a, b}
      /\ \A y \in {a, b} : Min({a, b}) <= y
  BY <1>1 DEF Min
<1> QED
  BY <1>2

\* It holds when the program starts,
LEMMA InitInv == Init => IInv
  BY DEF Init, IInv, Typed, PCs, OpenByPc, OfferedByPc, SentOnce

\* and every step keeps it.
LEMMA NextInv == ASSUME IInv, [Next]_vars PROVE IInv'
<1> USE DEF IInv, Typed, PCs, OpenByPc, OfferedByPc, SentOnce
<1>1. CASE SpiOpen
  BY <1>1 DEF SpiOpen, recvVars, PartLength
<1>2. CASE Open
  <2>1. length' \in Nat \X Nat
    BY <1>2, LengthsAssumption DEF Open
  <2> QED
    BY <1>2, <2>1 DEF Open
<1>3. CASE ConnectFails
  BY <1>3 DEF ConnectFails, Return, sendVars, recvVars
<1>4. CASE Connect
  BY <1>4 DEF Connect, sendVars, recvVars, PartLength
<1>5. CASE Send
  <2> DEFINE rest == PartLength - bytesSent
             n    == Min({Chunk, rest})
  <2>1. pc = "send" /\ bytesSent < PartLength
    BY <1>5 DEF Send
  <2>2. PartLength \in Nat
    BY DEF PartLength
  <2>3. n \in Nat /\ n <= rest
    <3>1. Chunk \in Nat /\ rest \in Nat
      BY <2>1, <2>2, SizesAssumption
    <3> HIDE DEF rest
    <3>2. n \in {Chunk, rest} /\ n <= rest
      BY <3>1, MinOfTwo
    <3> QED
      BY <3>1, <3>2
  <2>4. /\ bytesSent' = bytesSent + n /\ offered' = offered + n
        /\ UNCHANGED <<pc, open, part, length>>
    BY <1>5 DEF Send
  <2>5. PartLength' = PartLength
    BY <2>4 DEF PartLength
  <2> HIDE DEF n
  <2> QED
    BY <2>1, <2>2, <2>3, <2>4, <2>5
<1>6. CASE SentPart
  BY <1>6 DEF SentPart, recvVars, PartLength
<1>7. CASE HeaderByte
  BY <1>7 DEF HeaderByte, sendVars
<1>8. CASE HeaderNothing
  BY <1>8 DEF HeaderNothing, sendVars
<1>9. CASE HeaderError
  BY <1>9 DEF HeaderError, sendVars
<1>10. CASE HeaderLoopEnds
  BY <1>10 DEF HeaderLoopEnds, Return, sendVars, recvVars
<1>11. CASE ParseHeader
  BY <1>11 DEF ParseHeader, Return, sendVars
<1>12. CASE Body
  BY <1>12 DEF Body, sendVars
<1>13. CASE BodyEnds
  BY <1>13 DEF BodyEnds, Return, sendVars, recvVars
<1>14. CASE UNCHANGED vars
  BY <1>14 DEF vars, sendVars, recvVars, PartLength
<1> QED
  BY <1>1, <1>2, <1>3, <1>4, <1>5, <1>6, <1>7, <1>8, <1>9, <1>10, <1>11,
     <1>12, <1>13, <1>14 DEF Next, Step

LEMMA HttpInv == Spec => []IInv
  BY InitInv, NextInv, PTL DEF Spec

-----------------------------------------------------------------------------
\* No path out of httpOperation leaves its socket open.
THEOREM HttpSocketReleased == Spec => []SocketReleased
<1>1. IInv => SocketReleased
  BY DEF IInv, OpenByPc, SocketReleased
<1> QED
  BY <1>1, HttpInv, PTL

\* Every byte of the text and of the payload is given to send exactly once,
\* for every length of both and every length of a chunk.
THEOREM HttpSentOnce == Spec => []SentOnce
<1>1. IInv => SentOnce
  BY DEF IInv, OfferedByPc
<1> QED
  BY <1>1, HttpInv, PTL
=============================================================================
