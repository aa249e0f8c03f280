----------------------------- MODULE HttpClient -----------------------------
(***************************************************************************)
(* httpOperation (backend_connection.c): one request to the server over    *)
(* one socket, with the calls' results it looks at and those it ignores,   *)
(* and the driver's transmit buffer its send calls fill (socket.c, spi.c). *)
(* One step is one call of the socket interface.                           *)
(***************************************************************************)
EXTENDS Integers, FiniteSetsExt

CONSTANTS
  Lengths,    \* lengths of a request's text and of its payload: <<text, payload>>
  Answers,    \* what the server may answer (see Answer)
  Chunk,      \* bytes per send: CC3000_MINIMAL_TX_SIZE, 131
  TxBuffer,   \* length of wlan_tx_buffer: CC3000_TX_BUFFER_SIZE, 131
  Overhead,   \* bytes in front of the data: HEADERS_SIZE_DATA + 16, 26
  HeaderMax,  \* length of rxBuffer: 1024
  BodyChunk   \* bytes per recv of the body: 80

\* header: bytes of the header, its empty line included; lengthEnd: bytes up
\* to the end of the Content-Length line; size: its value.
Answer == [header : Nat, lengthEnd : Nat, size : Nat]

ASSUME LengthsAssumption ==
  Lengths \subseteq Nat \X Nat /\ Answers \subseteq Answer
ASSUME SizesAssumption ==
  /\ Chunk \in Nat \ {0} /\ BodyChunk \in Nat \ {0}
  /\ TxBuffer \in Nat \ {0} /\ Overhead \in Nat /\ HeaderMax \in Nat

VARIABLES
  pc,       \* location in httpOperation, "idle" outside
  open,     \* the socket is open
  part,     \* what is being sent: "text" or "payload"
  length,   \* <<text, payload>>
  bytesSent,
  offered,  \* bytes given to send so far (history)
  intact,   \* the magic number at the end of wlan_tx_buffer is in place
  answer,   \* what the server answers
  i,        \* of the loop that receives the header
  seen,     \* bytes at the start of rxBuffer, up to its first NUL
  gap,      \* rxBuffer has a NUL before the byte received next
  size,     \* value of Content-Length, 0 without one
  bytesRx,
  result    \* what httpOperation returned last

sendVars == <<part, length, bytesSent, offered, intact>>
recvVars == <<answer, i, seen, gap, size, bytesRx>>
vars == <<pc, open, sendVars, recvVars, result>>

Init ==
  /\ pc = "idle" /\ open = FALSE /\ result = FALSE
  /\ part = "text" /\ length = <<0, 0>> /\ bytesSent = 0 /\ offered = 0
  /\ intact = TRUE
  /\ answer = [header |-> 0, lengthEnd |-> 0, size |-> 0]
  /\ i = 0 /\ seen = 0 /\ gap = FALSE /\ size = 0 /\ bytesRx = 0

Return(value) == pc' = "idle" /\ open' = FALSE /\ result' = value

-----------------------------------------------------------------------------
\* SpiOpen, at the start of a session, writes the magic number.
SpiOpen ==
  /\ pc = "idle" /\ ~intact
  /\ intact' = TRUE
  /\ UNCHANGED <<pc, open, part, length, bytesSent, offered, recvVars, result>>

\* socket, setsockopt and gethostbyname, whose results are not looked at
Open ==
  /\ pc = "idle"
  /\ pc' = "connect"
  /\ open' = TRUE
  /\ length' \in Lengths
  /\ answer' \in Answers
  /\ part' = "text" /\ bytesSent' = 0 /\ offered' = 0
  /\ i' = 0 /\ seen' = 0 /\ gap' = FALSE /\ size' = 0 /\ bytesRx' = 0
  /\ UNCHANGED <<intact, result>>

\* Mutant: returns without closing the socket.
ConnectFailsOpen ==
  /\ pc = "connect"
  /\ pc' = "idle" /\ result' = FALSE
  /\ UNCHANGED <<open, sendVars, recvVars>>

ConnectFails ==
  /\ pc = "connect"
  /\ Return(FALSE)
  /\ UNCHANGED <<sendVars, recvVars>>

Connect ==
  /\ pc = "connect"
  /\ pc' = "send"
  /\ UNCHANGED <<open, sendVars, recvVars, result>>

-----------------------------------------------------------------------------
(* Sending.  A send of n bytes fills wlan_tx_buffer up to Overhead + n and *)
(* so may overwrite the magic number; SpiWrite then lights a LED and goes  *)
(* on.  What send returns is ignored.                                      *)

PartLength == IF part = "text" THEN length[1] ELSE length[2]

SendLastTwice ==  \* Mutant: a last chunk of full length is not the last.
  /\ pc = "send" /\ bytesSent < PartLength
  /\ LET n == Min({Chunk, PartLength - bytesSent})
     IN  /\ bytesSent' = IF PartLength - bytesSent = Chunk THEN bytesSent + n - 1
                                                           ELSE bytesSent + n
         /\ offered' = offered + n
         /\ intact' = (intact /\ Overhead + n < TxBuffer)
  /\ UNCHANGED <<pc, open, part, length, recvVars, result>>

Send ==
  /\ pc = "send" /\ bytesSent < PartLength
  /\ LET n == Min({Chunk, PartLength - bytesSent})
     IN  /\ bytesSent' = bytesSent + n
         /\ offered' = offered + n
         /\ intact' = (intact /\ Overhead + n < TxBuffer)
  /\ UNCHANGED <<pc, open, part, length, recvVars, result>>

SentPart ==
  /\ pc = "send" /\ bytesSent >= PartLength
  /\ IF part = "text" THEN pc' = "send" /\ part' = "payload" /\ bytesSent' = 0
                      ELSE pc' = "header" /\ UNCHANGED <<part, bytesSent>>
  /\ UNCHANGED <<open, length, offered, intact, recvVars, result>>

-----------------------------------------------------------------------------
(* Receiving the header, one byte per recv *)

\* A byte: the loop ends with the one that completes the empty line, unless
\* a NUL in front of it hides it from strstr.
HeaderByte ==
  /\ pc = "header" /\ i < HeaderMax
  /\ seen' = IF gap THEN seen ELSE seen + 1
  /\ IF ~gap /\ seen' = answer.header THEN pc' = "parse" /\ i' = i
                                      ELSE pc' = "header" /\ i' = i + 1
  /\ UNCHANGED <<open, sendVars, answer, gap, size, bytesRx, result>>

\* No byte and no error (0, or a status other than -1): rxBuffer[i] stays NUL.
HeaderNothing ==
  /\ pc = "header" /\ i < HeaderMax
  /\ gap' = TRUE
  /\ i' = i + 1
  /\ UNCHANGED <<pc, open, sendVars, answer, seen, size, bytesRx, result>>

\* -1: i is set to 1024 to end the loop, whose increment makes it 1025.
HeaderError ==
  /\ pc = "header" /\ i < HeaderMax
  /\ i' = HeaderMax + 1
  /\ UNCHANGED <<pc, open, sendVars, answer, seen, gap, size, bytesRx, result>>

HeaderLoopEnds ==
  /\ pc = "header" /\ i >= HeaderMax
  /\ IF i = HeaderMax THEN Return(FALSE)
                      ELSE pc' = "parse" /\ UNCHANGED <<open, result>>
  /\ UNCHANGED <<sendVars, recvVars>>

\* Content-Length counts when its line is among the bytes received.
ParseHeader ==
  /\ pc = "parse"
  /\ IF answer.lengthEnd > 0 /\ seen >= answer.lengthEnd
       THEN pc' = "body" /\ size' = answer.size /\ UNCHANGED <<open, result>>
       ELSE Return(TRUE) /\ UNCHANGED size
  /\ UNCHANGED <<sendVars, answer, i, seen, gap, bytesRx>>

\* Mutant: a failed recv starts the body again.
BodyRestarts ==
  /\ pc = "body" /\ bytesRx < size
  /\ bytesRx' \in {0, bytesRx + Min({BodyChunk, size - bytesRx})}
  /\ UNCHANGED <<pc, open, sendVars, answer, i, seen, gap, size, result>>

\* The body's recv calls: their results are ignored.
Body ==
  /\ pc = "body" /\ bytesRx < size
  /\ bytesRx' = bytesRx + Min({BodyChunk, size - bytesRx})
  /\ UNCHANGED <<pc, open, sendVars, answer, i, seen, gap, size, result>>

BodyEnds ==
  /\ pc = "body" /\ bytesRx >= size
  /\ Return(TRUE)
  /\ UNCHANGED <<sendVars, recvVars>>

-----------------------------------------------------------------------------
Step ==
  \/ ConnectFails \/ Connect \/ Send \/ SentPart
  \/ HeaderByte \/ HeaderNothing \/ HeaderError \/ HeaderLoopEnds
  \/ ParseHeader \/ Body \/ BodyEnds

Next == SpiOpen \/ Open \/ Step

Spec == Init /\ [][Next]_vars

\* Every call of the socket interface returns: recv has a timeout, and
\* CC3000Driver says when the others do.
LiveSpec == Spec /\ WF_vars(Step)

-----------------------------------------------------------------------------
(* Properties *)

\* No path out of httpOperation leaves its socket open: the controller has
\* only eight of them.
SocketReleased == pc = "idle" => ~open

\* By the time the answer is awaited every byte of the text and of the
\* payload has been given to send exactly once.
SentOnce == pc \in {"header", "parse", "body"} => offered = length[1] + length[2]

\* The operation ends, whatever the recv calls return.
OperationEnds == (pc # "idle") ~> (pc = "idle")

\* When httpOperation goes on to parse the header it has received all of
\* it: an error of recv ends the operation, as the messages "Error on recv"
\* and "Error trying to recieve header" say.  It does not: the increment of
\* the loop hides the error.
HeaderReceived == pc = "parse" => seen = answer.header

\* The data of a send and the headers in front of it fit into the transmit
\* buffer, as cc3000_common.h demands of whoever sets its size.
SendFits == intact
=============================================================================
