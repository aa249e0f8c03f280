------------------------- MODULE FlowControl_proofs -------------------------
(***************************************************************************)
(* Proofs about FlowControl, for every number of buffers and of packets.   *)
(***************************************************************************)
EXTENDS FlowControl, TLAPS

-----------------------------------------------------------------------------
(* The inductive invariant.  NeverOversubscribed and KeepsOneBuffer are    *)
(* not inductive alone: the step that stores the decremented count is      *)
(* harmless only because the register holds at least one buffer and no     *)
(* more than free, which the interrupt can only have raised since.         *)

\* What the main program knows of free between its reads and its write.
Registers ==
  /\ pc = "load" => free >= 1
  /\ pc = "store" => reg >= 1 /\ reg <= free

\* Every packet counted as sent is still to be transmitted, in the
\* controller, freed and unreported, or released.
Ledger ==
  IF Running
    THEN sent = released + owed + inflight + (IF pc = "transmit" THEN 1 ELSE 0)
    ELSE /\ inflight = 0 /\ owed = 0
         /\ pc = "starting" => sent = 0 /\ released = 0

IInv ==
  /\ TypeOK
  /\ Registers
  /\ Ledger
  /\ NeverOversubscribed
  /\ KeepsOneBuffer

\* The invariant holds when the node starts.
LEMMA InitInv == Init => IInv
<1> SUFFICES ASSUME Init
             PROVE  IInv
  OBVIOUS
<1>1. active \in BOOLEAN
  BY DEF Init
<1>2. TypeOK
  BY <1>1, TotalAssumption DEF Init, TypeOK, Locs
<1>3. ~Running
  BY DEF Init, Running
<1>4. QED
  BY <1>2, <1>3
  DEF Init, IInv, Registers, Ledger, NeverOversubscribed, KeepsOneBuffer

\* Sessions and sockets preserve the invariant: the credit is Total when
\* READ_BUFFER_SIZE has been answered.
LEMMA SessionInv ==
  ASSUME IInv,
         Start \/ ReadBufferSize \/ Stop \/ OpenSocket \/ CloseSocket
  PROVE  IInv'
<1> USE TotalAssumption
    DEF IInv, TypeOK, Locs, Registers, Ledger, NeverOversubscribed,
        KeepsOneBuffer, Running, Credit, Held, hostVars, devVars, Goto
<1>1. CASE Start
  BY <1>1 DEF Start
<1>2. CASE ReadBufferSize
  BY <1>2 DEF ReadBufferSize
<1>3. CASE Stop
  BY <1>3 DEF Stop
<1>4. CASE OpenSocket
  BY <1>4 DEF OpenSocket
<1>5. CASE CloseSocket
  BY <1>5 DEF CloseSocket
<1>6. QED
  BY <1>1, <1>2, <1>3, <1>4, <1>5

\* The steps of send() preserve the invariant.
LEMMA SendInv ==
  ASSUME IInv, Send \/ SendStep
  PROVE  IInv'
<1> USE TotalAssumption
    DEF IInv, TypeOK, Locs, Registers, Ledger, NeverOversubscribed,
        KeepsOneBuffer, Running, Credit, Held, hostVars, devVars, Goto
<1>1. CASE Send
  BY <1>1 DEF Send
<1>2. CASE Refuse
  BY <1>2 DEF Refuse
<1>3. CASE Spin
  BY <1>3 DEF Spin
<1>4. CASE Load
  BY <1>4 DEF Load
<1>5. CASE Store  \* the credit may drop, from at most Total to at least 1
  BY <1>5 DEF Store
<1>6. CASE Count
  BY <1>6 DEF Count
<1>7. CASE Transmit
  BY <1>7 DEF Transmit
<1>8. CASE SendAnswered
  BY <1>8 DEF SendAnswered
<1>9. QED
  BY <1>1, <1>2, <1>3, <1>4, <1>5, <1>6, <1>7, <1>8 DEF SendStep

\* Buffers move from inflight to owed to free; none appears or vanishes.
LEMMA ReleaseInv ==
  ASSUME IInv, DevFree \/ FreeEvent
  PROVE  IInv'
<1> USE TotalAssumption
    DEF IInv, TypeOK, Locs, Registers, Ledger, NeverOversubscribed,
        KeepsOneBuffer, Running, Credit, Held, hostVars, devVars
<1>1. CASE DevFree
  <2>1. PICK k \in 1..inflight :
          inflight' = inflight - k /\ owed' = owed + k
          /\ UNCHANGED <<pc, active, hostVars>>
    BY <1>1 DEF DevFree
  <2>2. Running
    BY <2>1
  <2>3. QED
    BY <2>1, <2>2
<1>2. CASE FreeEvent
  <2>1. PICK k \in 1..owed :
          /\ owed' = owed - k
          /\ free' = free + k
          /\ released' = released + k
          /\ UNCHANGED <<pc, active, reg, sent, inflight>>
    BY <1>2 DEF FreeEvent
  <2>2. Running
    BY <2>1
  <2>3. QED
    BY <2>1, <2>2
<1>3. QED
  BY <1>1, <1>2

\* Every step preserves the invariant.
LEMMA NextInv == IInv /\ [Next]_vars => IInv'
<1> SUFFICES ASSUME IInv, [Next]_vars
             PROVE  IInv'
  OBVIOUS
<1>1. CASE Next
  BY <1>1, SessionInv, SendInv, ReleaseInv DEF Next
<1>2. CASE UNCHANGED vars
  BY <1>2
  DEF IInv, TypeOK, Registers, Ledger, NeverOversubscribed, KeepsOneBuffer,
      Running, Credit, Held, vars, hostVars, devVars
<1>3. QED
  BY <1>1, <1>2

LEMMA FlowInv == Spec => []IInv
BY InitInv, NextInv, PTL DEF Spec

-----------------------------------------------------------------------------
(* Theorems *)

\* The host's counters stay in their types: free never goes below 0 or
\* above the controller's number of buffers.
THEOREM FlowTypeOK == Spec => []TypeOK
<1>1. IInv => TypeOK
  BY DEF IInv
<1>2. QED
  BY FlowInv, <1>1, PTL

\* The lost update of usNumberOfFreeBuffers never makes the host believe in
\* a buffer the controller does not have.
THEOREM FlowNeverOversubscribed == Spec => []NeverOversubscribed
<1>1. IInv => NeverOversubscribed
  BY DEF IInv
<1>2. QED
  BY FlowInv, <1>1, PTL

\* Nor does it ever take the last buffer from the host.
THEOREM FlowKeepsOneBuffer == Spec => []KeepsOneBuffer
<1>1. IInv => KeepsOneBuffer
  BY DEF IInv
<1>2. QED
  BY FlowInv, <1>1, PTL

\* The host is told it can shut down only when no packet is left in the
\* controller and no report is outstanding.
THEOREM FlowShutDownSafe == Spec => ShutDownSafe
<1> DEFINE Safe == (Running /\ released' > released /\ released' = sent)
                     => (inflight = 0 /\ owed' = 0)
<1>1. ASSUME IInv, Next
      PROVE  Safe
  <2> SUFFICES ASSUME Running, released' > released, released' = sent
               PROVE  inflight = 0 /\ owed' = 0
    OBVIOUS
  <2>1. released \in Nat
    BY <1>1 DEF IInv, TypeOK
  <2>2. FreeEvent
    BY <1>1, <2>1
    DEF Next, SendStep, Start, ReadBufferSize, Stop, OpenSocket, CloseSocket,
        Send, Refuse, Spin, Load, Store, Count, Transmit, SendAnswered, DevFree,
        hostVars, devVars, Goto, Running
  <2>3. PICK k \in 1..owed : owed' = owed - k /\ released' = released + k
    BY <2>2 DEF FreeEvent
  <2>4. QED
    BY <1>1, <2>3, TotalAssumption DEF IInv, TypeOK, Ledger, Running
<1>2. ASSUME IInv, [Next]_vars
      PROVE  [Safe]_vars
  BY <1>1, <1>2
<1>3. QED
  BY <1>2, FlowInv, PTL DEF Spec, ShutDownSafe

\* FlowControl implements BufferPool: a packet is sent only into a buffer
\* the controller has, whatever the race does to the host's count.
THEOREM FlowImplementsPool == Spec => ImplementsPool
<1>1. Init => Pool!PoolInit
  BY DEF Init, Pool!PoolInit
<1>2. ASSUME IInv, [Next]_vars
      PROVE  [Pool!PoolNext]_<<pc # "off", inflight>>
  <2> USE TotalAssumption DEF IInv, TypeOK, Locs, Pool!PoolNext, hostVars,
                              devVars, Goto
  <2>1. CASE Start
    BY <1>2, <2>1 DEF Start, Pool!SwitchOn
  <2>2. CASE Stop
    BY <1>2, <2>2 DEF Stop, Pool!SwitchOff
  <2>3. CASE Transmit
    BY <1>2, <2>3
    DEF Transmit, Pool!Fill, NeverOversubscribed, Running, Credit, Held
  <2>4. CASE DevFree
    <3>1. PICK k \in 1..inflight :
            inflight' = inflight - k /\ UNCHANGED pc
      BY <2>4 DEF DevFree
    <3>2. pc # "off"
      BY <1>2, <3>1 DEF Ledger, Running
    <3>3. QED
      BY <1>2, <3>1, <3>2 DEF Pool!Drain
  <2>5. CASE \/ ReadBufferSize \/ OpenSocket \/ CloseSocket \/ Send \/ Refuse
             \/ Spin \/ Load \/ Store \/ Count \/ SendAnswered \/ FreeEvent
    BY <1>2, <2>5
    DEF ReadBufferSize, OpenSocket, CloseSocket, Send, Refuse, Spin, Load,
        Store, Count, SendAnswered, FreeEvent
  <2>6. CASE UNCHANGED vars
    BY <2>6 DEF vars
  <2>7. QED
    BY <1>2, <2>1, <2>2, <2>3, <2>4, <2>5, <2>6 DEF Next, SendStep
<1>3. QED
  BY <1>1, <1>2, FlowInv, PTL DEF Spec, ImplementsPool, Pool!PoolSpec
=============================================================================
