----------------------------- MODULE FlowControl -----------------------------
(***************************************************************************)
(* Flow control of send(): the host counts the controller's free transmit  *)
(* buffers.  HostFlowControlConsumeBuff (socket.c) takes one with an       *)
(* unprotected read-modify-write in the main program; the interrupt's      *)
(* handler of HCI_EVNT_DATA_UNSOL_FREE_BUFF (evnt_handler.c) gives buffers *)
(* back, possibly between the read and the write.                          *)
(*                                                                         *)
(* The transport underneath is CC3000Driver's subject and is one step      *)
(* here.  A SEND that fails with -57 never returns (CC3000Driver), so      *)
(* slTransmitDataError is 0 whenever a send begins and is left out.        *)
(***************************************************************************)
EXTENDS Integers

CONSTANTS Total,     \* transmit buffers of the controller
          MaxSends   \* bound: packets sent per session

ASSUME TotalAssumption == Total \in 1..255  \* READ_BUFFER_SIZE reports a byte
ASSUME MaxSendsAssumption == MaxSends \in Nat

VARIABLES
  pc,        \* location of the main program
  active,    \* the socket's status is SOCKET_STATUS_ACTIVE
  free,      \* usNumberOfFreeBuffers
  reg,       \* the register the decrement of free works in
  sent,      \* NumberOfSentPackets
  released,  \* NumberOfReleasedPackets
  inflight,  \* buffers of the controller that hold a packet
  owed       \* buffers it has freed and not yet reported

hostVars == <<free, reg, sent, released>>
devVars  == <<inflight, owed>>
vars == <<pc, active, hostVars, devVars>>

Locs == {"off", "starting", "idle", "spin", "load", "store", "count",
         "transmit", "wait"}

Init ==
  /\ pc = "off" /\ active = FALSE
  /\ free = 0 /\ reg = 0 /\ sent = 0 /\ released = 0
  /\ inflight = 0 /\ owed = 0

Goto(from, to) == pc = from /\ pc' = to

-----------------------------------------------------------------------------
(* Sessions and sockets *)

\* Mutant: wlan_start does not reset NumberOfReleasedPackets.
StartKeepsReleased ==
  /\ Goto("off", "starting")
  /\ free' = 0 /\ sent' = 0
  /\ UNCHANGED <<active, reg, released, devVars>>

\* wlan_start resets the counters
Start ==
  /\ Goto("off", "starting")
  /\ free' = 0 /\ sent' = 0 /\ released' = 0
  /\ UNCHANGED <<active, reg, devVars>>

\* and ends when the answer to READ_BUFFER_SIZE has set the buffer count.
ReadBufferSize ==
  /\ Goto("starting", "idle")
  /\ free' = Total
  /\ UNCHANGED <<active, reg, sent, released, devVars>>

\* wlan_stop: the controller loses power, and with it every packet.
Stop ==
  /\ Goto("idle", "off")
  /\ inflight' = 0 /\ owed' = 0
  /\ UNCHANGED <<active, hostVars>>

\* socket() marks the handle it was given active; an error marks nothing.
OpenSocket ==
  /\ pc = "idle" /\ ~active
  /\ active' = TRUE
  /\ UNCHANGED <<pc, hostVars, devVars>>

CloseSocket ==
  /\ pc = "idle" /\ active
  /\ active' = FALSE
  /\ UNCHANGED <<pc, hostVars, devVars>>

-----------------------------------------------------------------------------
(* send() *)

Send ==
  /\ sent < MaxSends
  /\ Goto("idle", "spin")
  /\ UNCHANGED <<active, hostVars, devVars>>

Refuse ==  \* the socket is not active: -1, no buffer taken
  /\ ~active
  /\ Goto("spin", "idle")
  /\ UNCHANGED <<active, hostVars, devVars>>

\* Mutant: does not wait for a free buffer.
SpinNoWait ==
  /\ active
  /\ Goto("spin", "load")
  /\ UNCHANGED <<active, hostVars, devVars>>

Spin ==  \* the busy loop ends when it reads a nonzero count
  /\ active /\ free # 0
  /\ Goto("spin", "load")
  /\ UNCHANGED <<active, hostVars, devVars>>

Load ==
  /\ Goto("load", "store")
  /\ reg' = free
  /\ UNCHANGED <<active, free, sent, released, devVars>>

\* Mutant: the buffer is not taken.
StoreUnchanged ==
  /\ Goto("store", "count")
  /\ free' = reg
  /\ UNCHANGED <<active, reg, sent, released, devVars>>

Store ==
  /\ Goto("store", "count")
  /\ free' = reg - 1
  /\ UNCHANGED <<active, reg, sent, released, devVars>>

Count ==
  /\ Goto("count", "transmit")
  /\ sent' = sent + 1
  /\ UNCHANGED <<active, free, reg, released, devVars>>

Transmit ==  \* the packet reaches a buffer of the controller
  /\ Goto("transmit", "wait")
  /\ inflight' = inflight + 1
  /\ UNCHANGED <<active, hostVars, owed>>

SendAnswered ==  \* SimpleLinkWaitEvent(HCI_EVNT_SEND) returns
  /\ Goto("wait", "idle")
  /\ UNCHANGED <<active, hostVars, devVars>>

-----------------------------------------------------------------------------
(* The controller frees k buffers and later reports some of them.  The     *)
(* report is handled in the interrupt or, while the main program waits for *)
(* an answer, by the main program: at any location, in one step.           *)

DevFree ==
  \E k \in 1..inflight :
    /\ inflight' = inflight - k
    /\ owed' = owed + k
    /\ UNCHANGED <<pc, active, hostVars>>

\* Mutant: the event is counted, the buffers are not given back.
FreeEventUncounted ==
  \E k \in 1..owed :
    /\ owed' = owed - k
    /\ released' = released + k
    /\ UNCHANGED <<pc, active, free, reg, sent, inflight>>

FreeEvent ==
  \E k \in 1..owed :
    /\ owed' = owed - k
    /\ free' = free + k
    /\ released' = released + k
    /\ UNCHANGED <<pc, active, reg, sent, inflight>>

-----------------------------------------------------------------------------
SendStep == Refuse \/ Spin \/ Load \/ Store \/ Count \/ Transmit \/ SendAnswered

Next ==
  \/ Start \/ ReadBufferSize \/ Stop \/ OpenSocket \/ CloseSocket
  \/ Send \/ SendStep
  \/ DevFree \/ FreeEvent

Spec == Init /\ [][Next]_vars

\* A send that has begun takes its steps, the controller frees the buffers
\* it filled, and what it freed is reported to the host.
Fairness == WF_vars(SendStep) /\ WF_vars(DevFree) /\ WF_vars(FreeEvent)

LiveSpec == Spec /\ Fairness

-----------------------------------------------------------------------------
(* Properties *)

Running == pc \notin {"off", "starting"}

\* A buffer the current send has taken and not yet filled.
Held == IF pc \in {"count", "transmit"} THEN 1 ELSE 0

\* Buffers the host can still use, now or after the reports under way.
Credit == free + Held + inflight + owed

\* Every variable has its type; the host's count is an unsigned short that
\* holds a number of the controller's buffers.
TypeOK ==
  /\ pc \in Locs
  /\ active \in BOOLEAN
  /\ free \in 0..Total /\ reg \in 0..Total
  /\ sent \in Nat /\ released \in Nat
  /\ inflight \in 0..Total /\ owed \in 0..Total

\* Whatever updates the race loses, the host never believes in more buffers
\* than the controller has.
NeverOversubscribed == Running => Credit <= Total

\* The lost update costs buffers but never the last one: a session keeps at
\* least one buffer with which send() can go on.
KeepsOneBuffer == Running => Credit >= 1

\* The event that makes NumberOfReleasedPackets equal NumberOfSentPackets,
\* for which the host is told it can shut down, comes only when no packet
\* is left in the controller and no report is outstanding.
ShutDownSafe ==
  [][(Running /\ released' > released /\ released' = sent)
       => (inflight = 0 /\ owed' = 0)]_vars

\* A send waiting for a buffer gets one (or finds its socket closed).
SendProceeds == (pc = "spin") ~> (pc # "spin")

\* The host's count tracks the controller's free buffers, as the comment on
\* hci_event_unsol_flowcontrol_handler says.  It does not: see the README.
CountExact == Running => Credit = Total

Pool == INSTANCE BufferPool WITH
  on   <- pc # "off",
  busy <- inflight

\* Packets are sent only into buffers the controller has.
ImplementsPool == Pool!PoolSpec
=============================================================================
