---------------------------- MODULE Calls_proofs ----------------------------
(***************************************************************************)
(* Proofs about Calls: a socket's mark never outlives the socket unless    *)
(* the controller dropped it by itself; nvmem_write_patch reports success  *)
(* only for a service pack that is in place, byte by byte; and every call, *)
(* for every length of its arguments, marshals a request whose offsets     *)
(* reach their data, declares the bytes it has written and has room for    *)
(* the answer.                                                             *)
(***************************************************************************)
EXTENDS Calls, Recursion

-----------------------------------------------------------------------------
(* Marks of sockets.  A mark alone is not inductive: that an answer which  *)
(* is no descriptor changes no mark needs that all marks are descriptors.  *)

MarksOK == active \subseteq Sockets /\ ActiveMeansOpen

\* The other actions leave the marks and the controller's sockets alone.
MarksKept == UNCHANGED <<active, open, lost>>

\* An answer of the controller that creates a socket, or an error, keeps the
\* marks in order, whatever else is marked inactive.
LEMMA NewSocket ==
  ASSUME MarksOK, NEW v \in (Sockets \ open) \cup Errors, NEW gone,
         active' = (active \ gone) \cup {t \in {v} : IsSocket(t)},
         open' = open \cup (Sockets \cap {v}), lost' = lost \ {v}
  PROVE  MarksOK'
<1>1. CASE v \in Sockets
  BY <1>1 DEF MarksOK, ActiveMeansOpen
<1>2. CASE v \notin Sockets
  <2>1. v \in Int /\ v < 0
    BY <1>2, ErrorsAssumption
  <2>2. ~IsSocket(v)
    BY <2>1 DEF IsSocket
  <2>3. active' \subseteq active /\ open' = open /\ v \notin active
    BY <1>2, <2>2 DEF MarksOK
  <2> QED
    BY <2>3 DEF MarksOK, ActiveMeansOpen
<1> QED
  BY <1>1, <1>2

\* Every step keeps the marks in order.
LEMMA MarksStep == ASSUME MarksOK, [Next]_vars PROVE MarksOK'
<1>1. CASE MarksKept
  BY <1>1 DEF MarksKept, MarksOK, ActiveMeansOpen
<1>2. CASE wlan_stop
  BY <1>2 DEF wlan_stop, MarksOK, ActiveMeansOpen
<1>3. CASE SocketAnswered
  <2>1. PICK v \in (Sockets \ open) \cup Errors :
          /\ Activate(v)
          /\ open' = open \cup (Sockets \cap {v})
          /\ lost' = lost \ {v}
    BY <1>3 DEF SocketAnswered
  <2>2. active' = (active \ {}) \cup {t \in {v} : IsSocket(t)}
    BY <2>1 DEF Activate
  <2> QED
    BY <2>1, <2>2, NewSocket
<1>4. CASE AcceptAnswered
  <2>1. PICK v \in Errors \cup (IF sd \in open THEN Sockets \ open ELSE {}) :
          /\ IF IsSocket(v) THEN Activate(v) ELSE Deactivate(sd)
          /\ open' = open \cup (Sockets \cap {v})
          /\ lost' = lost \ {v}
    BY <1>4 DEF AcceptAnswered
  <2>2. v \in (Sockets \ open) \cup Errors
    BY <2>1
  <2>3. CASE IsSocket(v)
    <3>1. active' = (active \ {}) \cup {t \in {v} : IsSocket(t)}
      BY <2>1, <2>3 DEF Activate
    <3> QED
      BY <2>1, <2>2, <3>1, NewSocket
  <2>4. CASE ~IsSocket(v)
    <3>1. active' = (active \ {sd}) \cup {t \in {v} : IsSocket(t)}
      BY <2>1, <2>4 DEF Deactivate
    <3> QED
      BY <2>1, <2>2, <3>1, NewSocket
  <2> QED
    BY <2>3, <2>4
<1>5. CASE CloseAnswered
  BY <1>5 DEF CloseAnswered, Deactivate, MarksOK, ActiveMeansOpen
<1>6. CASE RecvAnswered
  BY <1>6 DEF RecvAnswered, Deactivate, MarksOK, ActiveMeansOpen
<1>7. CASE \E s \in Sockets : DevCloses(s)
  BY <1>7 DEF DevCloses, MarksOK, ActiveMeansOpen
<1>8. CASE wlan_start \/ Started \/ Plain \/ Refuse \/ Answered
  BY <1>1, <1>8
  DEF wlan_start, Started, Plain, Refuse, Answered, sockVars, MarksKept
<1>9. CASE \E tx, other \in BOOLEAN : SetEventMask(tx, other)
  BY <1>1, <1>9 DEF SetEventMask, sockVars, MarksKept
<1>10. CASE Read \/ ReadStatus \/ DataReceived \/ PatchAnswered
  BY <1>1, <1>10
  DEF Read, ReadStatus, DataReceived, PatchAnswered, sockVars, MarksKept
<1>11. CASE \E n \in PatchLengths : WritePatch(n)
  BY <1>1, <1>11 DEF WritePatch, sockVars, MarksKept
<1>12. CASE Socket \/ SendAnswered
  BY <1>1, <1>12 DEF Socket, SendAnswered, sockVars, MarksKept
<1>13. CASE \E s \in Descriptors :
              CloseSocket(s) \/ Accept(s) \/ OnSocket(s) \/ SendRefused(s)
              \/ Send(s)
  BY <1>1, <1>13
  DEF CloseSocket, Accept, OnSocket, SendRefused, Send, sockVars, MarksKept
<1>14. CASE UNCHANGED vars
  BY <1>1, <1>14 DEF vars, MarksKept
<1> QED
  BY <1>2, <1>3, <1>4, <1>5, <1>6, <1>7, <1>8, <1>9, <1>10, <1>11, <1>12,
     <1>13, <1>14
  DEF Next

\* For every set of sockets and of error codes, no order of socket, accept
\* and closesocket, of failures, restarts and closures marks a socket active
\* that the controller neither has nor has dropped (socket.c,
\* set_socket_active_status).
THEOREM CallsActiveMeansOpen == Spec => []ActiveMeansOpen
<1>1. Init => MarksOK
  BY DEF Init, MarksOK, ActiveMeansOpen
<1>2. MarksOK /\ [Next]_vars => MarksOK'
  BY MarksStep
<1>3. MarksOK => ActiveMeansOpen
  BY DEF MarksOK
<1> QED
  BY <1>1, <1>2, <1>3, PTL DEF Spec

-----------------------------------------------------------------------------
(* The service pack.  While nvmem_write_patch runs, the file is the pack's *)
(* first bytes, as many as have been written, and the offset, cut to 16    *)
(* bits, has not wrapped.                                                  *)

Upto(n) == [k \in 1..n |-> k]

ShortPatches == \A n \in PatchLengths : n <= 65536
ErrorsShow == \A e \in Errors : e % 256 # 0   \* status is an unsigned char

PatchOK ==
  patch # NoPatch =>
    /\ pc = "event" /\ req.op = "NVMEM_WRITE"
    /\ patch \in [left : Nat \ {0}, offset : Nat, source : Nat]
    /\ patch.offset = patch.source
    /\ patch.source + patch.left <= 65536
    /\ file = Upto(patch.source)

\* A step that leaves the patch and its call alone.
PatchKept == UNCHANGED <<patch, file, pc, req>>

\* The file of the first n bytes has n bytes.
LEMMA UptoLen == ASSUME NEW n \in Nat PROVE Len(Upto(n)) = n
  BY DEF Upto

\* A part written behind the first bytes makes them longer by its length.
LEMMA StoredNext ==
  ASSUME NEW s \in Nat, NEW n \in Nat \ {0}, file = Upto(s)
  PROVE  Stored(s, n, s) = Upto(s + n)
<1>1. Len(file) = s
  BY UptoLen
<1>2. Stored(s, n, s)
        = [k \in 1..(s + n) |-> IF s < k /\ k <= s + n THEN s + k - s
                                ELSE IF k <= s THEN file[k] ELSE 0]
  BY <1>1 DEF Stored
<1>3. ASSUME NEW k \in 1..(s + n)
      PROVE  (IF s < k /\ k <= s + n THEN s + k - s
              ELSE IF k <= s THEN file[k] ELSE 0) = k
  BY DEF Upto
<1> QED
  BY <1>2, <1>3 DEF Upto

\* A part is not empty and no longer than what is left.
LEMMA PartBounds ==
  ASSUME NEW left \in Nat \ {0} PROVE Part(left) \in 1..left
  BY LengthsAssumption DEF Part

\* An answer to a part: either all of the pack is written, or an error is
\* returned, or the next part goes out behind the bytes there are.
LEMMA AnswerStep ==
  ASSUME ErrorsShow, PatchOK, PatchAnswered
  PROVE  /\ PatchOK'
         /\ patch' = NoPatch /\ ret'.value = 0
              => file' = Upto(patch.source + patch.left)
<1> DEFINE n == Part(patch.left)
           p == Written(patch, n)
<1>1. /\ patch # NoPatch
      /\ patch \in [left : Nat \ {0}, offset : Nat, source : Nat]
      /\ patch.offset = patch.source /\ file = Upto(patch.source)
      /\ patch.source + patch.left <= 65536
  BY DEF PatchAnswered, PatchOK
<1>2. n \in 1..patch.left
  BY <1>1, PartBounds
<1>3. PICK v \in Errors \cup {0} :
        /\ file' = IF v = 0 THEN Stored(patch.offset, n, patch.source)
                            ELSE file
        /\ IF v % 256 # 0 \/ p.left = 0
             THEN Return(Value(v % 256)) /\ patch' = NoPatch
                  /\ UNCHANGED intact
             ELSE Issue(nvmem_write("part", Part(p.left)), -1) /\ patch' = p
                  /\ UNCHANGED ret
  BY DEF PatchAnswered
<1>4. v = 0 => file' = Upto(patch.source + n)
  <2>1. n \in Nat \ {0} /\ patch.source \in Nat
    BY <1>1, <1>2
  <2> QED
    BY <1>1, <1>3, <2>1, StoredNext
<1>5. /\ p.left = patch.left - n /\ p.source = patch.source + n
      /\ p.offset = (patch.offset + n) % 65536
  BY DEF Written
<1>6. v # 0 => v % 256 # 0
  BY DEF ErrorsShow
<1>7. CASE v % 256 # 0
  <2>1. patch' = NoPatch /\ ret'.value # 0
    BY <1>3, <1>7 DEF Return, Value
  <2> QED
    BY <2>1 DEF PatchOK, NoPatch
<1>8. CASE v % 256 = 0 /\ p.left = 0
  <2>1. patch' = NoPatch /\ file' = Upto(patch.source + n)
    BY <1>3, <1>4, <1>6, <1>8
  <2>2. n = patch.left
    BY <1>1, <1>2, <1>5, <1>8
  <2> QED
    BY <2>1, <2>2 DEF PatchOK, NoPatch
<1>9. CASE v % 256 = 0 /\ p.left # 0
  <2>1. /\ pc' = "event" /\ req' = nvmem_write("part", Part(p.left))
        /\ patch' = p /\ file' = Upto(p.source)
    BY <1>3, <1>4, <1>5, <1>6, <1>9 DEF Issue
  <2>2. req'.op = "NVMEM_WRITE"
    BY <2>1 DEF nvmem_write, DataCommand
  <2>3. /\ p.left \in Nat \ {0} /\ p.source \in Nat
        /\ p.source + p.left <= 65536
    BY <1>1, <1>2, <1>5, <1>9
  <2>4. p.offset = p.source
    BY <1>1, <1>2, <1>5, <2>3
  <2>5. p \in [left : Nat \ {0}, offset : Nat, source : Nat]
    BY <2>3, <2>4 DEF Written
  <2>6. p # NoPatch
    BY <1>9 DEF NoPatch
  <2> QED
    BY <2>1, <2>2, <2>3, <2>4, <2>5, <2>6 DEF PatchOK
<1> QED
  BY <1>7, <1>8, <1>9

\* Every step keeps the invariant; one that ends a patch without an error
\* has written all of it.
LEMMA PatchStep ==
  ASSUME ShortPatches, ErrorsShow, PatchOK, [Next]_vars
  PROVE  /\ PatchOK'
         /\ patch # NoPatch /\ patch' = NoPatch /\ ret'.value = 0
              => file' = Upto(patch.source + patch.left)
<1>1. CASE PatchAnswered
  BY <1>1, AnswerStep
<1>2. CASE \E n \in PatchLengths : WritePatch(n)
  <2>1. PICK n \in PatchLengths : WritePatch(n)
    BY <1>2
  <2>2. patch = NoPatch
    BY <2>1 DEF WritePatch, PatchOK
  <2>3. n \in Nat /\ n <= 65536
    BY LengthsAssumption DEF ShortPatches
  <2>4. CASE n = 0
    BY <2>1, <2>2, <2>4 DEF WritePatch, PatchOK
  <2>5. CASE n # 0
    <3>1. /\ pc' = "event" /\ req' = nvmem_write("part", Part(n))
          /\ file' = <<>>
          /\ patch' = [left |-> n, offset |-> 0, source |-> 0]
      BY <2>1, <2>5 DEF WritePatch, Issue
    <3>2. req'.op = "NVMEM_WRITE"
      BY <3>1 DEF nvmem_write, DataCommand
    <3>3. <<>> = Upto(0)
      BY DEF Upto
    <3>4. patch' \in [left : Nat \ {0}, offset : Nat, source : Nat]
      BY <2>3, <2>5, <3>1
    <3>5. /\ patch'.offset = patch'.source /\ patch'.source = 0
          /\ patch'.source + patch'.left <= 65536
      BY <2>3, <3>1
    <3>6. file' = Upto(patch'.source)
      BY <3>1, <3>3, <3>5
    <3> QED
      BY <2>2, <3>1, <3>2, <3>4, <3>5, <3>6 DEF PatchOK
  <2> QED
    BY <2>4, <2>5
<1>3. CASE patch = NoPatch /\ UNCHANGED patch
  BY <1>3 DEF PatchOK
<1>4. CASE PatchKept
  BY <1>4 DEF PatchKept, PatchOK
<1>5. UNCHANGED fileVars /\ (pc # "event" \/ req.op # "NVMEM_WRITE") => 
        patch = NoPatch /\ UNCHANGED patch
  BY DEF PatchOK, fileVars
<1>6. CASE wlan_start \/ wlan_stop \/ Plain \/ Refuse \/ Read \/ DataReceived
           \/ Socket
  BY <1>3, <1>5, <1>6
  DEF wlan_start, wlan_stop, Plain, Refuse, Read, DataReceived, Socket
<1>7. CASE Started \/ ReadStatus \/ SocketAnswered \/ CloseAnswered
           \/ AcceptAnswered \/ RecvAnswered \/ SendAnswered
  BY <1>3, <1>5, <1>7
  DEF Started, ReadStatus, SocketAnswered, CloseAnswered, AcceptAnswered,
      RecvAnswered, SendAnswered
<1>8. CASE Answered
  <2>1. patch = NoPatch /\ UNCHANGED fileVars
    BY <1>8 DEF Answered
  <2> QED
    BY <1>3, <2>1 DEF fileVars
<1>9. CASE \E tx, other \in BOOLEAN : SetEventMask(tx, other)
  BY <1>3, <1>5, <1>9 DEF SetEventMask
<1>10. CASE \E s \in Descriptors :
              CloseSocket(s) \/ Accept(s) \/ OnSocket(s) \/ SendRefused(s)
              \/ Send(s)
  BY <1>3, <1>5, <1>10 DEF CloseSocket, Accept, OnSocket, SendRefused, Send
<1>11. CASE \E s \in Sockets : DevCloses(s)
  BY <1>4, <1>11 DEF DevCloses, fileVars, PatchKept
<1>12. CASE UNCHANGED vars
  BY <1>4, <1>12 DEF vars, PatchKept
<1> QED
  BY <1>1, <1>2, <1>6, <1>7, <1>8, <1>9, <1>10, <1>11, <1>12 DEF Next

\* Whatever the length of a part and of the service pack, up to the 65536
\* bytes its unsigned short offset can address, and whatever the errors, as
\* long as none is 0 in its lowest byte, nvmem_write_patch returns 0 only
\* when the controller has the whole pack in its place (nvmem.c).
THEOREM CallsPatchWhole ==
  ASSUME ShortPatches, ErrorsShow PROVE Spec => PatchWhole
<1>1. Init => PatchOK
  BY DEF Init, PatchOK
<1>2. PatchOK /\ [Next]_vars => PatchOK'
  BY PatchStep
<1>3. PatchOK /\ [Next]_vars
        => [patch # NoPatch /\ patch' = NoPatch /\ ret'.value = 0
              => file' = [k \in 1..patch.source + patch.left |-> k]]_vars
  BY PatchStep DEF Upto
<1> QED
  BY <1>1, <1>2, <1>3, PTL DEF Spec, PatchWhole

-----------------------------------------------------------------------------
(* The layout of a request.  Position is defined by recursion on the place *)
(* in the sequence: with Recursion it has its values for every length, and *)
(* a request is laid out right when the places its author had in mind      *)
(* start at 0, lie a width apart and agree with its offsets.               *)

\* Position starts at 0 and grows by the widths of the fields.
LEMMA PositionStep ==
  ASSUME NEW fields, Len(fields) \in Nat,
         \A i \in 1..Len(fields) : fields[i].width \in Int
  PROVE  /\ Position(fields)[1] = 0
         /\ \A i \in 1..Len(fields) :
              Position(fields)[i + 1] = Position(fields)[i] + fields[i].width
         /\ \A i \in 1..(Len(fields) + 1) : Position(fields)[i] \in Int
<1> DEFINE N == Len(fields)
           h == [k \in Nat |->
                   [x \in Int |-> IF k \in 1..N THEN x + fields[k].width
                                                 ELSE x]]
           Made(p) == p = [i \in 1..(N + 1) |->
                             IF i = 1 THEN 0
                             ELSE p[i - 1] + fields[i - 1].width]
<1>1. h \in [Nat -> [Int -> Int]] /\ N \in Nat
  OBVIOUS
<1>2. \A k \in 1..N : \A x \in Int : h[k][x] = x + fields[k].width
  OBVIOUS
<1>3. PICK g : Recursive(g, N, Int, 0, h)
  <2> DEFINE z == 0
  <2>1. z \in Int
    OBVIOUS
  <2> HIDE DEF h, N, z
  <2>2. \E g : Recursive(g, N, Int, z, h)
    BY <1>1, <2>1, RecursionExists
  <2> QED
    BY <2>2 DEF z
<1>4. /\ g \in [0..N -> Int] /\ g[0] = 0
      /\ \A k \in 1..N : g[k] = g[k - 1] + fields[k].width
  <2> HIDE DEF h, N
  <2>1. \A k \in 1..N : g[k - 1] \in Int
    BY <1>1, <1>3 DEF Recursive
  <2> QED
    BY <1>2, <1>3, <2>1 DEF Recursive
<1> DEFINE q == [i \in 1..(N + 1) |-> g[i - 1]]
<1>5. Made(q)
  BY <1>4
<1>6. Made(Position(fields))
  <2>1. \E p : Made(p)
    BY <1>5
  <2>2. Position(fields) = CHOOSE p : Made(p)
    BY DEF Position
  <2> HIDE DEF Made
  <2> QED
    BY <2>1, <2>2
<1> DEFINE P == Position(fields)
<1>7. P[1] = 0 /\ \A i \in 1..N : P[i + 1] = P[i] + fields[i].width
  BY <1>6
<1>8. \A k \in 0..N : P[k + 1] \in Int
  <2> DEFINE T == {k \in Nat : k <= N => P[k + 1] \in Int}
  <2>1. 0 \in T
    BY <1>7
  <2>2. \A k \in T : k < N => k + 1 \in T
    BY <1>7
  <2>3. T \in SUBSET Nat
    OBVIOUS
  <2> HIDE DEF T, N
  <2>4. \A k \in 0..N : k \in T
    BY <1>1, <2>1, <2>2, <2>3, InductUpTo
  <2> QED
    BY <1>1, <2>4 DEF T
<1>9. \A i \in 1..(N + 1) : P[i] \in Int
  <2> SUFFICES ASSUME NEW i \in 1..(N + 1) PROVE P[i] \in Int
    OBVIOUS
  <2>1. i - 1 \in 0..N /\ i - 1 + 1 = i
    OBVIOUS
  <2> QED
    BY <1>8, <2>1
<1> QED
  BY <1>7, <1>9

\* An offset reaches its data when it adds up to their position, a length
\* when it is theirs or less.
Points(f, d, from, to) ==
  d.kind = "data" /\ d.of = f.of =>
    /\ f.kind = "offset" => from + f.value = to
    /\ f.kind = "length" => f.value <= d.width

\* The fields are n bytes long, and their offsets and lengths reach the data.
Laid(fields, n) ==
  /\ Marshalled(fields) = n
  /\ \A i, j \in DOMAIN fields :
       Points(fields[i], fields[j], Position(fields)[i], Position(fields)[j])

\* Fields laid out at the places in P
LEMMA Layout ==
  ASSUME NEW fields, NEW n \in Nat, Len(fields) = n, DOMAIN fields = 1..n,
         NEW P, P[1] = 0,
         \A i \in 1..n :
           fields[i].width \in Int /\ P[i + 1] = P[i] + fields[i].width,
         \A i, j \in 1..n : Points(fields[i], fields[j], P[i], P[j])
  PROVE  Laid(fields, P[n + 1])
<1> DEFINE p == Position(fields)
           T == {k \in Nat : k <= n => p[k + 1] = P[k + 1]}
<1>1. Len(fields) \in Nat /\ \A i \in 1..Len(fields) : fields[i].width \in Int
  OBVIOUS
<1>2. /\ Position(fields)[1] = 0
      /\ \A i \in 1..Len(fields) :
           Position(fields)[i + 1] = Position(fields)[i] + fields[i].width
  BY ONLY <1>1, PositionStep, SMT
<1>3. p[1] = 0 /\ \A i \in 1..n : p[i + 1] = p[i] + fields[i].width
  BY <1>2
<1> HIDE DEF p
<1>4. 0 \in T
  BY <1>3
<1>5. \A k \in T : k < n => k + 1 \in T
  BY <1>3
<1>6. T \in SUBSET Nat
  OBVIOUS
<1> HIDE DEF T
<1>7. \A k \in 0..n : k \in T
  BY <1>4, <1>5, <1>6, InductUpTo
<1>8. \A i \in 1..(n + 1) : p[i] = P[i]
  <2> SUFFICES ASSUME NEW i \in 1..(n + 1) PROVE p[i] = P[i]
    OBVIOUS
  <2>1. i - 1 \in 0..n /\ i - 1 + 1 = i
    OBVIOUS
  <2> QED
    BY <1>7, <2>1 DEF T
<1> QED
  BY <1>8 DEF p, Laid, Marshalled

\* Where the fields of each request lie, whatever the lengths of its data.
LEMMA StartLaid ==
  Laid(SimpleLink_Init_Start.fields, 1)
<1> DEFINE f == SimpleLink_Init_Start.fields
           P == <<0, 1>>
<1>1. Len(f) = 1 /\ DOMAIN f = 1..1
  BY DEF SimpleLink_Init_Start, Command
<1>2. \A i \in 1..1 : f[i].width \in Int /\ P[i + 1] = P[i] + f[i].width
  BY DEF SimpleLink_Init_Start, Command, Byte
<1>3. \A i, j \in 1..1 : Points(f[i], f[j], P[i], P[j])
  BY DEF SimpleLink_Init_Start, Command, Byte, Points
<1>4. P[1] = 0 /\ P[2] = 1
  OBVIOUS
<1> HIDE DEF f, P
<1>5. Laid(f, P[1 + 1])
  BY <1>1, <1>2, <1>3, <1>4, Layout
<1> QED
  BY <1>4, <1>5 DEF f

LEMMA ConnectLaid ==
  ASSUME NEW ssid \in Nat, NEW key \in Nat
  PROVE  Laid(wlan_connect(ssid, key).fields, 28 + ssid + key)
<1> DEFINE f == wlan_connect(ssid, key).fields
           P == <<0, 4, 8, 12, 16, 20, 22, 28, 28 + ssid, 28 + ssid + key>>
<1>1. Len(f) = 9 /\ DOMAIN f = 1..9
  BY DEF wlan_connect, Command
<1>2. \A i \in 1..9 : f[i].width \in Int /\ P[i + 1] = P[i] + f[i].width
  BY DEF wlan_connect, Command, Offset, Length, Data, Word, Half
<1>3. \A i, j \in 1..9 : Points(f[i], f[j], P[i], P[j])
  BY DEF wlan_connect, Command, Offset, Length, Data, Word, Half, Points
<1>4. P[1] = 0 /\ P[10] = 28 + ssid + key
  OBVIOUS
<1> HIDE DEF f, P
<1>5. Laid(f, P[9 + 1])
  BY <1>1, <1>2, <1>3, <1>4, Layout
<1> QED
  BY <1>4, <1>5 DEF f

LEMMA OpenLaid ==
  ASSUME NEW ssid \in Nat
  PROVE  Laid(add_profile_open(ssid).fields, 24 + ssid)
<1> DEFINE f == add_profile_open(ssid).fields
           P == <<0, 4, 8, 12, 14, 20, 24, 24 + ssid>>
<1>1. Len(f) = 7 /\ DOMAIN f = 1..7
  BY DEF add_profile_open, Command
<1>2. \A i \in 1..7 : f[i].width \in Int /\ P[i + 1] = P[i] + f[i].width
  BY DEF add_profile_open, Command, Offset, Length, Data, Word, Half
<1>3. \A i, j \in 1..7 : Points(f[i], f[j], P[i], P[j])
  BY DEF add_profile_open, Command, Offset, Length, Data, Word, Half, Points
<1>4. P[1] = 0 /\ P[8] = 24 + ssid
  OBVIOUS
<1> HIDE DEF f, P
<1>5. Laid(f, P[7 + 1])
  BY <1>1, <1>2, <1>3, <1>4, Layout
<1> QED
  BY <1>4, <1>5 DEF f

LEMMA WepLaid ==
  ASSUME NEW ssid \in Nat, NEW key \in Nat
  PROVE  Laid(add_profile_wep(ssid, key).fields, 36 + ssid + 4 * key)
<1> DEFINE f == add_profile_wep(ssid, key).fields
           P == <<0, 4, 8, 12, 14, 20, 24, 28, 32, 36, 36 + ssid,
                  36 + ssid + 4 * key>>
<1>1. Len(f) = 11 /\ DOMAIN f = 1..11
  BY DEF add_profile_wep, Command
<1>2. \A i \in 1..11 : f[i].width \in Int /\ P[i + 1] = P[i] + f[i].width
  BY DEF add_profile_wep, Command, Offset, Length, Data, Word, Half
<1>3. \A i, j \in 1..11 : Points(f[i], f[j], P[i], P[j])
  BY DEF add_profile_wep, Command, Offset, Length, Data, Word, Half, Points
<1>4. P[1] = 0 /\ P[12] = 36 + ssid + 4 * key
  OBVIOUS
<1> HIDE DEF f, P
<1>5. Laid(f, P[11 + 1])
  BY <1>1, <1>2, <1>3, <1>4, Layout
<1> QED
  BY <1>4, <1>5 DEF f

LEMMA WpaLaid ==
  ASSUME NEW ssid \in Nat, NEW key \in Nat
  PROVE  Laid(add_profile_wpa(ssid, key).fields, 44 + ssid + key)
<1> DEFINE f == add_profile_wpa(ssid, key).fields
           P == <<0, 4, 8, 12, 14, 20, 24, 28, 32, 36, 40, 44, 44 + ssid, 44 +
                    ssid + key>>
<1>1. Len(f) = 13 /\ DOMAIN f = 1..13
  BY DEF add_profile_wpa, Command
<1>2. \A i \in 1..13 : f[i].width \in Int /\ P[i + 1] = P[i] + f[i].width
  BY DEF add_profile_wpa, Command, Offset, Length, Data, Word, Half
<1>3. \A i, j \in 1..13 : Points(f[i], f[j], P[i], P[j])
  BY DEF add_profile_wpa, Command, Offset, Length, Data, Word, Half, Points
<1>4. P[1] = 0 /\ P[14] = 44 + ssid + key
  OBVIOUS
<1> HIDE DEF f, P
<1>5. Laid(f, P[13 + 1])
  BY <1>1, <1>2, <1>3, <1>4, Layout
<1> QED
  BY <1>4, <1>5 DEF f

LEMMA PrefixLaid ==
  Laid(wlan_smart_config_set_prefix.fields, 3)
<1> DEFINE f == wlan_smart_config_set_prefix.fields
           P == <<0, 3>>
<1>1. Len(f) = 1 /\ DOMAIN f = 1..1
  BY DEF wlan_smart_config_set_prefix, Command
<1>2. \A i \in 1..1 : f[i].width \in Int /\ P[i + 1] = P[i] + f[i].width
  BY DEF wlan_smart_config_set_prefix, Command, Data
<1>3. \A i, j \in 1..1 : Points(f[i], f[j], P[i], P[j])
  BY DEF wlan_smart_config_set_prefix, Command, Data, Points
<1>4. P[1] = 0 /\ P[2] = 3
  OBVIOUS
<1> HIDE DEF f, P
<1>5. Laid(f, P[1 + 1])
  BY <1>1, <1>2, <1>3, <1>4, Layout
<1> QED
  BY <1>4, <1>5 DEF f

LEMMA WriteLaid ==
  ASSUME NEW d, NEW n \in Nat
  PROVE  Laid(nvmem_write(d, n).fields, 16 + n)
<1> DEFINE f == nvmem_write(d, n).fields
           P == <<0, 4, 8, 12, 16, 16 + n>>
<1>1. Len(f) = 5 /\ DOMAIN f = 1..5
  BY DEF nvmem_write, DataCommand
<1>2. \A i \in 1..5 : f[i].width \in Int /\ P[i + 1] = P[i] + f[i].width
  BY DEF nvmem_write, DataCommand, Offset, Length, Data, Word
<1>3. \A i, j \in 1..5 : Points(f[i], f[j], P[i], P[j])
  BY DEF nvmem_write, DataCommand, Offset, Length, Data, Word, Points
<1>4. P[1] = 0 /\ P[6] = 16 + n
  OBVIOUS
<1> HIDE DEF f, P
<1>5. Laid(f, P[5 + 1])
  BY <1>1, <1>2, <1>3, <1>4, Layout
<1> QED
  BY <1>4, <1>5 DEF f

LEMMA SendLaid ==
  ASSUME NEW n \in Nat
  PROVE  Laid(send(n).fields, 16 + n)
<1> DEFINE f == send(n).fields
           P == <<0, 4, 8, 12, 16, 16 + n>>
<1>1. Len(f) = 5 /\ DOMAIN f = 1..5
  BY DEF send, DataCommand
<1>2. \A i \in 1..5 : f[i].width \in Int /\ P[i + 1] = P[i] + f[i].width
  BY DEF send, DataCommand, Offset, Length, Data, Word
<1>3. \A i, j \in 1..5 : Points(f[i], f[j], P[i], P[j])
  BY DEF send, DataCommand, Offset, Length, Data, Word, Points
<1>4. P[1] = 0 /\ P[6] = 16 + n
  OBVIOUS
<1> HIDE DEF f, P
<1>5. Laid(f, P[5 + 1])
  BY <1>1, <1>2, <1>3, <1>4, Layout
<1> QED
  BY <1>4, <1>5 DEF f

LEMMA SendtoLaid ==
  ASSUME NEW n \in Nat
  PROVE  Laid(sendto(n).fields, 40 + n)
<1> DEFINE f == sendto(n).fields
           P == <<0, 4, 8, 12, 16, 20, 24, 24 + n, 40 + n>>
<1>1. Len(f) = 8 /\ DOMAIN f = 1..8
  BY DEF sendto, DataCommand
<1>2. \A i \in 1..8 : f[i].width \in Int /\ P[i + 1] = P[i] + f[i].width
  BY DEF sendto, DataCommand, Offset, Length, Data, Word
<1>3. \A i, j \in 1..8 : Points(f[i], f[j], P[i], P[j])
  BY DEF sendto, DataCommand, Offset, Length, Data, Word, Points
<1>4. P[1] = 0 /\ P[9] = 40 + n
  OBVIOUS
<1> HIDE DEF f, P
<1>5. Laid(f, P[8 + 1])
  BY <1>1, <1>2, <1>3, <1>4, Layout
<1> QED
  BY <1>4, <1>5 DEF f

LEMMA BindLaid ==
  Laid(bind.fields, 20)
<1> DEFINE f == bind.fields
           P == <<0, 4, 8, 12, 20>>
<1>1. Len(f) = 4 /\ DOMAIN f = 1..4
  BY DEF bind, Command
<1>2. \A i \in 1..4 : f[i].width \in Int /\ P[i + 1] = P[i] + f[i].width
  BY DEF bind, Command, Offset, Length, Data, Word
<1>3. \A i, j \in 1..4 : Points(f[i], f[j], P[i], P[j])
  BY DEF bind, Command, Offset, Length, Data, Word, Points
<1>4. P[1] = 0 /\ P[5] = 20
  OBVIOUS
<1> HIDE DEF f, P
<1>5. Laid(f, P[4 + 1])
  BY <1>1, <1>2, <1>3, <1>4, Layout
<1> QED
  BY <1>4, <1>5 DEF f

LEMMA NameLaid ==
  ASSUME NEW n \in Nat
  PROVE  Laid(gethostbyname(n).fields, 8 + n)
<1> DEFINE f == gethostbyname(n).fields
           P == <<0, 4, 8, 8 + n>>
<1>1. Len(f) = 3 /\ DOMAIN f = 1..3
  BY DEF gethostbyname, Command
<1>2. \A i \in 1..3 : f[i].width \in Int /\ P[i + 1] = P[i] + f[i].width
  BY DEF gethostbyname, Command, Offset, Length, Data
<1>3. \A i, j \in 1..3 : Points(f[i], f[j], P[i], P[j])
  BY DEF gethostbyname, Command, Offset, Length, Data, Points
<1>4. P[1] = 0 /\ P[4] = 8 + n
  OBVIOUS
<1> HIDE DEF f, P
<1>5. Laid(f, P[3 + 1])
  BY <1>1, <1>2, <1>3, <1>4, Layout
<1> QED
  BY <1>4, <1>5 DEF f

LEMMA MdnsLaid ==
  ASSUME NEW n \in Nat
  PROVE  Laid(mdnsAdvertiser(n).fields, 12 + n)
<1> DEFINE f == mdnsAdvertiser(n).fields
           P == <<0, 4, 8, 12, 12 + n>>
<1>1. Len(f) = 4 /\ DOMAIN f = 1..4
  BY DEF mdnsAdvertiser, Command
<1>2. \A i \in 1..4 : f[i].width \in Int /\ P[i + 1] = P[i] + f[i].width
  BY DEF mdnsAdvertiser, Command, Offset, Length, Data, Word
<1>3. \A i, j \in 1..4 : Points(f[i], f[j], P[i], P[j])
  BY DEF mdnsAdvertiser, Command, Offset, Length, Data, Word, Points
<1>4. P[1] = 0 /\ P[5] = 12 + n
  OBVIOUS
<1> HIDE DEF f, P
<1>5. Laid(f, P[4 + 1])
  BY <1>1, <1>2, <1>3, <1>4, Layout
<1> QED
  BY <1>4, <1>5 DEF f

LEMMA OptionLaid ==
  ASSUME NEW n \in Nat
  PROVE  Laid(setsockopt(n).fields, 20 + n)
<1> DEFINE f == setsockopt(n).fields
           P == <<0, 4, 8, 12, 16, 20, 20 + n>>
<1>1. Len(f) = 6 /\ DOMAIN f = 1..6
  BY DEF setsockopt, Command
<1>2. \A i \in 1..6 : f[i].width \in Int /\ P[i + 1] = P[i] + f[i].width
  BY DEF setsockopt, Command, Offset, Length, Data, Word
<1>3. \A i, j \in 1..6 : Points(f[i], f[j], P[i], P[j])
  BY DEF setsockopt, Command, Offset, Length, Data, Word, Points
<1>4. P[1] = 0 /\ P[7] = 20 + n
  OBVIOUS
<1> HIDE DEF f, P
<1>5. Laid(f, P[6 + 1])
  BY <1>1, <1>2, <1>3, <1>4, Layout
<1> QED
  BY <1>4, <1>5 DEF f

LEMMA ScanLaid ==
  Laid(wlan_ioctl_set_scan_params.fields, 100)
<1> DEFINE f == wlan_ioctl_set_scan_params.fields
           P == <<0, 4, 8, 12, 16, 20, 24, 28, 32, 36, 100>>
<1>1. Len(f) = 10 /\ DOMAIN f = 1..10
  BY DEF wlan_ioctl_set_scan_params, Command, Words
<1>2. \A i \in 1..10 : f[i].width \in Int /\ P[i + 1] = P[i] + f[i].width
  BY DEF wlan_ioctl_set_scan_params, Command, Words, Offset, Data, Word
<1>3. \A i, j \in 1..10 : Points(f[i], f[j], P[i], P[j])
  BY DEF wlan_ioctl_set_scan_params, Command, Words, Offset, Data, Word, Points
<1>4. P[1] = 0 /\ P[11] = 100
  OBVIOUS
<1> HIDE DEF f, P
<1>5. Laid(f, P[10 + 1])
  BY <1>1, <1>2, <1>3, <1>4, Layout
<1> QED
  BY <1>4, <1>5 DEF f

LEMMA SelectLaid ==
  ASSUME NEW t, ~t
  PROVE  Laid(select(t).fields, 36)
<1> DEFINE f == select(t).fields
           P == <<0, 4, 8, 12, 16, 20, 24, 28, 32, 36>>
<1>1. f = select(t).fields /\ Len(f) = 9 /\ DOMAIN f = 1..9
  BY DEF select, Command
<1>2. \A i \in 1..9 : f[i].width \in Int /\ P[i + 1] = P[i] + f[i].width
  BY DEF select, Command, Offset, Data, Word
<1>3. \A i, j \in 1..9 : Points(f[i], f[j], P[i], P[j])
  BY DEF select, Command, Offset, Data, Word, Points
<1>4. P[1] = 0 /\ P[10] = 36
  OBVIOUS
<1> HIDE DEF f, P
<1>5. Laid(f, P[9 + 1])
  BY <1>1, <1>2, <1>3, <1>4, Layout
<1>6. Laid(f, 36)
  BY ONLY <1>4, <1>5
<1> QED
  BY ONLY <1>6, Zenon DEF f

LEMMA SelectTimeoutLaid ==
  ASSUME NEW t \in BOOLEAN, t
  PROVE  Laid(select(t).fields, 44)
<1> DEFINE f == select(t).fields
           P == <<0, 4, 8, 12, 16, 20, 24, 28, 32, 36, 44>>
<1>1. f = select(t).fields /\ Len(f) = 10 /\ DOMAIN f = 1..10
  BY DEF select, Command
<1>2. \A i \in 1..10 : f[i].width \in Int /\ P[i + 1] = P[i] + f[i].width
  BY DEF select, Command, Offset, Data, Word
<1>3. \A i, j \in 1..10 : Points(f[i], f[j], P[i], P[j])
  BY DEF select, Command, Offset, Data, Word, Points
<1>4. P[1] = 0 /\ P[11] = 44
  OBVIOUS
<1> HIDE DEF f, P
<1>5. Laid(f, P[10 + 1])
  BY <1>1, <1>2, <1>3, <1>4, Layout
<1>6. Laid(f, 44)
  BY ONLY <1>4, <1>5
<1> QED
  BY ONLY <1>6, Zenon DEF f

\* The requests made of words, and those without arguments
LEMMA WordsLaid ==
  ASSUME NEW n \in Nat PROVE Laid(Words(n), 4 * n)
<1> DEFINE f == Words(n)
           P == [i \in 1..(n + 1) |-> 4 * (i - 1)]
<1>1. Len(f) = n /\ DOMAIN f = 1..n
  BY DEF Words
<1>2. \A i \in 1..n : f[i].width \in Int /\ P[i + 1] = P[i] + f[i].width
  BY DEF Words, Word
<1>3. \A i, j \in 1..n : Points(f[i], f[j], P[i], P[j])
  BY DEF Words, Word, Points
<1>4. P[1] = 0 /\ P[n + 1] = 4 * n
  OBVIOUS
<1> HIDE DEF f, P
<1>5. Laid(f, P[n + 1])
  BY <1>1, <1>2, <1>3, <1>4, Layout
<1> QED
  BY <1>4, <1>5 DEF f

LEMMA EmptyLaid == Laid(<<>>, 0)
<1>1. Laid(Words(0), 0)
  BY WordsLaid
<1>2. Words(0) = <<>>
  BY DEF Words
<1> QED
  BY <1>1, <1>2

-----------------------------------------------------------------------------
(* Requests that are right: laid out right, declared right and with room   *)
(* for the answer.                                                         *)

\* What FreshBytes allows between the declared and the written bytes.
Spare(r) == CASE r.op = "SET_TIMERS" -> 4
              [] r.op = "SELECT" /\ Len(r.fields) = 9 -> 8
              [] OTHER -> 0

\* Arguments whose length the one byte of hci_command_send can declare: the
\* SSID's bound is the documented one (wlan.h:169), the bounds of the keys and
\* of an option are what the byte then leaves.
ShortArguments ==
  /\ \A s \in SsidLengths : s <= 32
  /\ \A k \in KeyLengths : k <= 179
  /\ \A n \in DataLengths : n <= 235

\* The lengths are checked for DataReached and AnswerFits without a bound.
Right(r) ==
  /\ \E n \in Nat : /\ Laid(r.fields, n)
                    /\ ShortArguments => r.declared - n = Spare(r)
  /\ r.header \in Nat /\ r.declared \in Int
  /\ ResultBytes(r.op) <= r.result.size

\* The numbers of words the calls marshal
LEMMA FewWordsLaid ==
  /\ Laid(<<>>, 0) /\ Laid(<<Word>>, 4) /\ Laid(Words(2), 8)
  /\ Laid(Words(3), 12) /\ Laid(Words(4), 16) /\ Laid(Words(5), 20)
<1>1. Words(1) = <<Word>>
  BY DEF Words
<1>2. /\ 4 * 1 = 4 /\ 4 * 2 = 8 /\ 4 * 3 = 12 /\ 4 * 4 = 16 /\ 4 * 5 = 20
      /\ {1, 2, 3, 4, 5} \subseteq Nat
  OBVIOUS
<1> QED
  BY EmptyLaid, WordsLaid, <1>1, <1>2

\* The calls without arguments, those with one word, and those with more
LEMMA EmptyCalls ==
  \A r \in
        {ReadBufferSize, wlan_disconnect, wlan_ioctl_statusget,
         wlan_smart_config_stop, netapp_ping_report, netapp_ping_stop,
         netapp_ipconfig, netapp_arp_flush, nvmem_read_sp_version} :
    Right(r)
<1> USE FewWordsLaid
<1> USE DEF Right, Command, Spare, ResultBytes, StatusByte, StatusWord, Var,
            Long, SChar, None
<1>1. Right(ReadBufferSize)
  BY DEF ReadBufferSize
<1>2. Right(wlan_disconnect)
  BY DEF wlan_disconnect
<1>3. Right(wlan_ioctl_statusget)
  BY DEF wlan_ioctl_statusget
<1>4. Right(wlan_smart_config_stop)
  BY DEF wlan_smart_config_stop
<1>5. Right(netapp_ping_report)
  BY DEF netapp_ping_report
<1>6. Right(netapp_ping_stop)
  BY DEF netapp_ping_stop
<1>7. Right(netapp_ipconfig)
  BY DEF netapp_ipconfig
<1>8. Right(netapp_arp_flush)
  BY DEF netapp_arp_flush
<1>9. Right(nvmem_read_sp_version)
  BY DEF nvmem_read_sp_version
<1> QED
  BY ONLY <1>1, <1>2, <1>3, <1>4, <1>5, <1>6, <1>7, <1>8, <1>9

LEMMA WordCalls ==
  \A r \in
        {wlan_ioctl_del_profile, wlan_ioctl_get_scan_results,
         wlan_set_event_mask, wlan_smart_config_start, netapp_set_debug_level,
         closesocket, accept} :
    Right(r)
<1> USE FewWordsLaid
<1> USE DEF Right, Command, Spare, ResultBytes, StatusByte, StatusWord, Var,
            Long, SChar, None
<1>1. Right(wlan_ioctl_del_profile)
  BY DEF wlan_ioctl_del_profile
<1>2. Right(wlan_ioctl_get_scan_results)
  BY DEF wlan_ioctl_get_scan_results
<1>3. Right(wlan_set_event_mask)
  BY DEF wlan_set_event_mask
<1>4. Right(wlan_smart_config_start)
  BY DEF wlan_smart_config_start
<1>5. Right(netapp_set_debug_level)
  BY DEF netapp_set_debug_level
<1>6. Right(closesocket)
  BY DEF closesocket
<1>7. Right(accept)
  BY DEF accept
<1> QED
  BY ONLY <1>1, <1>2, <1>3, <1>4, <1>5, <1>6, <1>7

LEMMA WordsCalls ==
  \A r \in
        {nvmem_create_entry, listen, wlan_ioctl_set_connection_policy,
         nvmem_read, socket, getsockopt, simple_link_recv,
         netapp_timeout_values, netapp_ping_send, netapp_dhcp} :
    Right(r)
<1> USE FewWordsLaid
<1> USE DEF Right, Command, Spare, ResultBytes, StatusByte, StatusWord, Var,
            Long, SChar, None
<1>1. Right(nvmem_create_entry)
  BY DEF nvmem_create_entry
<1>2. Right(listen)
  BY DEF listen
<1>3. Right(wlan_ioctl_set_connection_policy)
  BY DEF wlan_ioctl_set_connection_policy
<1>4. Right(nvmem_read)
  BY DEF nvmem_read
<1>5. Right(socket)
  BY DEF socket
<1>6. Right(getsockopt)
  BY DEF getsockopt
<1>7. Right(simple_link_recv)
  BY DEF simple_link_recv
<1>8. Right(netapp_timeout_values)
  BY DEF netapp_timeout_values
<1>9. Right(netapp_ping_send)
  BY DEF netapp_ping_send
<1>10. Right(netapp_dhcp)
  BY DEF netapp_dhcp
<1> QED
  BY ONLY <1>1, <1>2, <1>3, <1>4, <1>5, <1>6, <1>7, <1>8, <1>9, <1>10

\* The calls with data of any length: 44 bytes beside the SSID and the key are
\* the most a command has.
LEMMA ConnectRight ==
  ASSUME NEW ssid \in SsidLengths, NEW key \in KeyLengths
  PROVE  Right(wlan_connect(ssid, key))
  BY ConnectLaid, LengthsAssumption
  DEF Right, Command, Spare, ResultBytes, StatusByte, StatusWord, Var, Long,
      SChar, None, wlan_connect, ShortArguments

LEMMA OpenRight ==
  ASSUME NEW ssid \in SsidLengths PROVE Right(add_profile_open(ssid))
  BY OpenLaid, LengthsAssumption
  DEF Right, Command, Spare, ResultBytes, StatusByte, StatusWord, Var, Long,
      SChar, None, add_profile_open, ShortArguments

LEMMA WepRight ==
  ASSUME NEW ssid \in SsidLengths, NEW key \in KeyLengths \cap 0..13
  PROVE  Right(add_profile_wep(ssid, key))
  BY WepLaid, LengthsAssumption
  DEF Right, Command, Spare, ResultBytes, StatusByte, StatusWord, Var, Long,
      SChar, None, add_profile_wep, ShortArguments

LEMMA WpaRight ==
  ASSUME NEW ssid \in SsidLengths, NEW key \in KeyLengths
  PROVE  Right(add_profile_wpa(ssid, key))
<1>1. /\ 44 + ssid + key \in Nat
      /\ Laid(add_profile_wpa(ssid, key).fields, 44 + ssid + key)
  BY WpaLaid, LengthsAssumption
<1>2. ShortArguments => (44 + ssid + key) % 256 = 44 + ssid + key
  BY LengthsAssumption DEF ShortArguments
<1> QED
  BY <1>1, <1>2
  DEF Right, Command, Spare, ResultBytes, StatusByte, StatusWord, Var, Long,
      SChar, None, add_profile_wpa

LEMMA WriteRight ==
  ASSUME NEW d, NEW n \in Nat PROVE Right(nvmem_write(d, n))
  BY WriteLaid
  DEF Right, Command, Spare, ResultBytes, StatusByte, StatusWord, Var, Long,
      SChar, None, nvmem_write, DataCommand

LEMMA SendRight ==
  ASSUME NEW n \in Nat PROVE Right(send(n)) /\ Right(sendto(n))
  BY SendLaid, SendtoLaid
  DEF Right, Command, Spare, ResultBytes, StatusByte, StatusWord, Var, Long,
      SChar, None, send, sendto, DataCommand

LEMMA NameRight ==
  ASSUME NEW n \in 0..HOSTNAME_MAX_LENGTH PROVE Right(gethostbyname(n))
<1>1. 8 + n \in Nat /\ Laid(gethostbyname(n).fields, 8 + n)
  BY NameLaid DEF HOSTNAME_MAX_LENGTH
<1>2. (9 + n - 1) % 256 = 8 + n
  BY DEF HOSTNAME_MAX_LENGTH
<1> QED
  BY <1>1, <1>2
  DEF Right, Command, Spare, ResultBytes, StatusByte, StatusWord, Var, Long,
      SChar, None, gethostbyname

LEMMA MdnsRight ==
  ASSUME NEW n \in 0..MDNS_DEVICE_SERVICE_MAX_LENGTH
  PROVE  Right(mdnsAdvertiser(n))
<1>1. 12 + n \in Nat /\ Laid(mdnsAdvertiser(n).fields, 12 + n)
  BY MdnsLaid DEF MDNS_DEVICE_SERVICE_MAX_LENGTH
<1>2. (12 + n) % 256 = 12 + n
  BY DEF MDNS_DEVICE_SERVICE_MAX_LENGTH
<1> QED
  BY <1>1, <1>2
  DEF Right, Command, Spare, ResultBytes, StatusByte, StatusWord, Var, Long,
      SChar, None, mdnsAdvertiser

LEMMA OptionRight ==
  ASSUME NEW n \in DataLengths PROVE Right(setsockopt(n))
  BY OptionLaid, LengthsAssumption
  DEF Right, Command, Spare, ResultBytes, StatusByte, StatusWord, Var, Long,
      SChar, None, setsockopt, ShortArguments

\* The calls whose data have a fixed length
LEMMA FixedRight ==
  \A r \in
        {SimpleLink_Init_Start, wlan_smart_config_set_prefix,
         wlan_ioctl_set_scan_params, bind, connect} :
    Right(r)
<1> USE DEF Right, Command, Spare, ResultBytes, StatusByte, StatusWord, Var,
            Long, SChar, None
<1>1. Right(SimpleLink_Init_Start)
  BY StartLaid DEF SimpleLink_Init_Start
<1>2. Right(wlan_smart_config_set_prefix)
  BY PrefixLaid DEF wlan_smart_config_set_prefix
<1>3. Right(wlan_ioctl_set_scan_params)
  BY ScanLaid DEF wlan_ioctl_set_scan_params
<1>4. Right(bind)
  BY BindLaid DEF bind
<1>5. connect.fields = bind.fields
  BY DEF connect, bind, Command
<1>6. Right(connect)
  BY <1>5, BindLaid DEF connect
<1> QED
  BY <1>1, <1>2, <1>3, <1>4, <1>6

\* select, with and without its timeout
LEMMA SelectRight ==
  ASSUME NEW t \in BOOLEAN, NEW r, r = select(t) PROVE Right(r)
<1>1. /\ r.op = "SELECT" /\ r.header = 4 /\ r.declared = 44
      /\ r.result.size = 16
  BY DEF select, Command, Var
<1>2. \/ Laid(r.fields, 36) /\ Len(r.fields) = 9
      \/ Laid(r.fields, 44) /\ Len(r.fields) = 10
  <2>1. CASE t
    <3>1. Laid(select(t).fields, 44)
      BY <2>1, SelectTimeoutLaid, Zenon
    <3>2. Len(r.fields) = 10
      BY <2>1 DEF select, Command
    <3> QED
      BY ONLY <3>1, <3>2, r = select(t)
  <2>2. CASE ~t
    <3>1. Laid(select(t).fields, 36)
      BY <2>2, SelectLaid, Zenon
    <3>2. Len(r.fields) = 9
      BY <2>2 DEF select, Command
    <3> QED
      BY ONLY <3>1, <3>2, r = select(t)
  <2> QED
    BY <2>1, <2>2
<1> QED
  BY ONLY <1>1, <1>2 DEF Right, Spare, ResultBytes, StatusByte, StatusWord

\* Every call that only sends and returns its status
LEMMA PlainRight == ASSUME NEW r \in PlainRequests PROVE Right(r)
<1>1. CASE \E s \in SsidLengths, k \in KeyLengths :
             r = wlan_connect(s, k) \/ r = add_profile_wpa(s, k)
  BY <1>1, ConnectRight, WpaRight
<1>2. CASE \E s \in SsidLengths, k \in KeyLengths \cap 0..13 :
             r = add_profile_wep(s, k)
  BY <1>2, WepRight
<1>3. CASE \E s \in SsidLengths : r = add_profile_open(s)
  BY <1>3, OpenRight
<1>4. CASE \/ \E n \in DataLengths : r = nvmem_write("part", n)
           \/ r \in {nvmem_set_mac_address, netapp_config_mac_adrress}
  BY <1>4, WriteRight, LengthsAssumption
  DEF netapp_config_mac_adrress, nvmem_set_mac_address, MAC_ADDR_LEN
<1>5. CASE \E n \in NameLengths \cap 0..HOSTNAME_MAX_LENGTH :
             r = gethostbyname(n)
  BY <1>5, NameRight
<1>6. CASE \E n \in NameLengths \cap 0..MDNS_DEVICE_SERVICE_MAX_LENGTH :
             r = mdnsAdvertiser(n)
  BY <1>6, MdnsRight
<1>7. CASE \E t \in BOOLEAN : r = select(t)
  BY <1>7, SelectRight
<1>8. CASE r \in {wlan_disconnect, wlan_ioctl_statusget,
                  wlan_smart_config_stop, netapp_ping_report,
                  netapp_ping_stop, netapp_ipconfig, netapp_arp_flush,
                  nvmem_read_sp_version}
  BY ONLY <1>8, EmptyCalls
<1>9. CASE r \in {wlan_ioctl_del_profile, wlan_ioctl_get_scan_results,
                  wlan_smart_config_start, netapp_set_debug_level}
  BY ONLY <1>9, WordCalls
<1>10. CASE r \in {nvmem_create_entry, wlan_ioctl_set_connection_policy,
                   netapp_timeout_values, netapp_ping_send, netapp_dhcp}
  BY ONLY <1>10, WordsCalls
<1>11. CASE r \in {wlan_smart_config_set_prefix, wlan_ioctl_set_scan_params}
  BY ONLY <1>11, FixedRight
<1> QED
  BY <1>1, <1>2, <1>3, <1>4, <1>5, <1>6, <1>7, <1>8, <1>9, <1>10, <1>11
  DEF PlainRequests

\* Every call on a socket that leaves its mark alone
LEMMA SocketRight == ASSUME NEW r \in SocketRequests PROVE Right(r)
<1>1. CASE r \in {bind, connect}
  BY <1>1, FixedRight, Zenon
<1>2. CASE r \in {listen, getsockopt, simple_link_recv}
  BY <1>2, WordsCalls, Zenon
<1>3. CASE \E n \in DataLengths : r = setsockopt(n)
  BY <1>3, OptionRight
<1> QED
  BY <1>1, <1>2, <1>3 DEF SocketRequests

\* The running call's request is right, and what is left of a patch is a
\* length: the next part's request depends on it.
CallRight ==
  /\ pc = "event" => Right(req)
  /\ \E n \in Nat : Laid(req.fields, n)
  /\ patch.left \in Nat

\* A call that marshals a right request, and one that returns, keep it so.
LEMMA IssueRight ==
  ASSUME NEW r, NEW s, Right(r), Issue(r, s), patch'.left \in Nat
  PROVE  CallRight'
<1>1. \E n \in Nat : Laid(r.fields, n)
  BY DEF Right
<1> QED
  BY <1>1 DEF Issue, CallRight

LEMMA ReturnRight ==
  ASSUME NEW v, Return(v), patch'.left \in Nat PROVE CallRight'
<1>1. NoRequest.fields = <<>>
  BY DEF NoRequest
<1> QED
  BY <1>1, EmptyLaid DEF Return, CallRight

\* Every step keeps it so.
LEMMA CallStep == ASSUME CallRight, [Next]_vars PROVE CallRight'
<1>1. patch.left \in Nat /\ NoPatch.left \in Nat
  BY DEF CallRight, NoPatch
<1>2. CASE wlan_start
  <2>1. Right(SimpleLink_Init_Start)
    BY FixedRight, Zenon
  <2>2. Right(req') /\ patch' = patch
    BY <1>2, <2>1 DEF wlan_start, fileVars
  <2> QED
    BY <1>1, <2>2 DEF CallRight, Right
<1>3. CASE Started
  <2>1. Right(ReadBufferSize)
    BY EmptyCalls, Zenon
  <2> QED
    BY <1>1, <1>3, <2>1, IssueRight DEF Started, fileVars
<1>4. CASE wlan_stop
  BY <1>4 DEF wlan_stop, CallRight, fileVars
<1>5. CASE Plain
  BY <1>1, <1>5, PlainRight, IssueRight DEF Plain, fileVars
<1>6. CASE Refuse \/ Answered \/ DataReceived \/ SocketAnswered
           \/ CloseAnswered \/ AcceptAnswered \/ SendAnswered
  <2>1. patch'.left \in Nat /\ \E v : Return(v)
    BY <1>1, <1>6
    DEF Refuse, Answered, DataReceived, SocketAnswered, CloseAnswered,
        AcceptAnswered, SendAnswered, fileVars
  <2> QED
    BY <2>1, ReturnRight
<1>7. CASE \E tx, other \in BOOLEAN : SetEventMask(tx, other)
  <2>1. Right(wlan_set_event_mask)
    BY WordCalls, Zenon
  <2> QED
    BY <1>1, <1>7, <2>1, IssueRight, ReturnRight DEF SetEventMask, fileVars
<1>8. CASE Read
  <2>1. Right(nvmem_read)
    BY WordsCalls, Zenon
  <2> QED
    BY <1>1, <1>8, <2>1, IssueRight DEF Read, nvmem_get_mac_address, fileVars
<1>9. CASE ReadStatus
  BY <1>1, <1>9 DEF ReadStatus, CallRight, fileVars
<1>10. CASE \E n \in PatchLengths : WritePatch(n)
  <2>1. PICK n \in PatchLengths : WritePatch(n)
    BY <1>10
  <2>2. n \in Nat /\ Part(n) \in Nat
    BY LengthsAssumption DEF Part
  <2>3. CASE n = 0
    BY <1>1, <2>1, <2>3, ReturnRight DEF WritePatch
  <2>4. CASE n # 0
    BY <2>1, <2>2, <2>4, WriteRight, IssueRight DEF WritePatch
  <2> QED
    BY <2>3, <2>4
<1>11. CASE PatchAnswered
  <2> DEFINE n == Part(patch.left)
             p == Written(patch, n)
  <2>1. n \in Nat /\ n <= patch.left
    BY <1>1, LengthsAssumption DEF Part
  <2>2. p.left \in Nat /\ Part(p.left) \in Nat
    BY <1>1, <2>1, LengthsAssumption DEF Written, Part
  <2>3. \/ (\E v : Return(v)) /\ patch' = NoPatch
        \/ Issue(nvmem_write("part", Part(p.left)), -1) /\ patch' = p
    BY <1>11 DEF PatchAnswered
  <2> QED
    BY <1>1, <2>2, <2>3, WriteRight, IssueRight, ReturnRight
<1>12. CASE Socket
  <2>1. Right(socket)
    BY WordsCalls, Zenon
  <2> QED
    BY <1>1, <1>12, <2>1, IssueRight DEF Socket, fileVars
<1>13. CASE RecvAnswered
  <2>1. patch'.left \in Nat
    BY <1>1, <1>13 DEF RecvAnswered, fileVars
  <2>2. \/ \E v : Return(v)
        \/ pc' = "data" /\ UNCHANGED <<req, sd>>
    BY <1>13 DEF RecvAnswered
  <2> QED
    BY <2>1, <2>2, ReturnRight DEF CallRight
<1>14. CASE \E s \in Descriptors : CloseSocket(s) \/ Accept(s)
  <2>1. Right(closesocket) /\ Right(accept)
    BY WordCalls, Zenon
  <2> QED
    BY <1>1, <1>14, <2>1, IssueRight DEF CloseSocket, Accept, fileVars
<1>15. CASE \E s \in Descriptors : OnSocket(s)
  BY <1>1, <1>15, SocketRight, IssueRight DEF OnSocket, fileVars
<1>16. CASE \E s \in Descriptors : SendRefused(s)
  BY <1>1, <1>16, ReturnRight DEF SendRefused, fileVars
<1>17. CASE \E s \in Descriptors : Send(s)
  BY <1>1, <1>17, SendRight, LengthsAssumption, IssueRight
  DEF Send, fileVars
<1>18. CASE \E s \in Sockets : DevCloses(s)
  BY <1>18 DEF DevCloses, CallRight, fileVars
<1>19. CASE UNCHANGED vars
  BY <1>19 DEF vars, CallRight
<1> QED
  BY <1>2, <1>3, <1>4, <1>5, <1>6, <1>7, <1>8, <1>9, <1>10, <1>11, <1>12,
     <1>13, <1>14, <1>15, <1>16, <1>17, <1>18, <1>19
  DEF Next

\* The running call's request is right in every behaviour.
LEMMA CallAlways == Spec => []CallRight
<1>1. Init => CallRight
  <2>1. NoRequest.fields = <<>> /\ NoPatch.left \in Nat
    BY DEF NoRequest, NoPatch
  <2> QED
    BY <2>1, EmptyLaid DEF Init, CallRight
<1>2. CallRight /\ [Next]_vars => CallRight'
  BY CallStep
<1> QED
  BY <1>1, <1>2, PTL DEF Spec

\* Whatever the lengths of the arguments, every offset that a call marshals
\* points at the data it is for, and no length reaches past its data (wlan.c,
\* nvmem.c, socket.c).
THEOREM CallsDataReached == Spec => []DataReached
<1>1. CallRight => DataReached
  BY DEF CallRight, Laid, Points, DataReached
<1> QED
  BY <1>1, CallAlways, PTL

\* The answer that hci_event_handler copies is never longer than the variable
\* the call waiting for it has (evnt_handler.c).
THEOREM CallsAnswerFits == Spec => []AnswerFits
<1>1. CallRight => AnswerFits
  BY DEF CallRight, Right, AnswerFits
<1> QED
  BY <1>1, CallAlways, PTL

\* While the arguments are short enough for the one byte of a command's
\* length, the controller gets the bytes the call has written, all of them
\* and no others, but for the spare ones of two calls (hci.c).
THEOREM CallsFreshBytes == ASSUME ShortArguments PROVE Spec => []FreshBytes
<1>1. ASSUME CallRight, pc = "event"
      PROVE  5 + req.header + req.declared - Filled(req) = Spare(req)
  BY <1>1 DEF CallRight, Right, Laid, Filled
<1>2. CallRight => FreshBytes
  BY <1>1 DEF FreshBytes, Spare
<1> QED
  BY <1>2, CallAlways, PTL
=============================================================================
