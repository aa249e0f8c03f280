---------------------------- MODULE CC3000Driver ----------------------------
(***************************************************************************)
(* The host driver of the CC3000 WiFi controller: SPI transport (spi.c),   *)
(* HCI event handling (evnt_handler.c), start and stop of the controller   *)
(* (wlan.c) and the command calls built on them (socket.c, netapp.c,       *)
(* nvmem.c), with the interrupt of the IRQ line (gpio.c).                  *)
(*                                                                         *)
(* Two host activities share the driver's state: the main program, whose   *)
(* location is pc, and the GPIOTE interrupt.  The core is single and       *)
(* nothing preempts the interrupt, so one interrupt is one step, taken     *)
(* before the main program's next step when it is pending and enabled.     *)
(* The controller is external: it runs beside both, and is modelled from   *)
(* how the driver uses its IRQ line, its commands and its events.          *)
(***************************************************************************)
EXTENDS Integers, Sequences, FiniteSets

CONSTANTS
  MaxCmds,        \* bound: commands after START and READBUF, per session
  MaxUnsol,       \* bound: unsolicited events the controller sends, per session
  MaxPatch,       \* bound: patch requests the controller makes while starting
  PromptRelease,  \* the controller raises IRQ as soon as CS is deasserted
  SendErrors,     \* the controller may complete a SEND with "inactive" (-57)
  UnknownEvents,  \* it may send an unsolicited event the host does not support
  EarlyEvents     \* it may send unsolicited events before START is answered

ASSUME BoundsAssumption ==
  /\ MaxCmds \in Nat
  /\ MaxUnsol \in Nat
  /\ MaxPatch \in Nat
ASSUME SwitchesAssumption ==
  /\ PromptRelease \in BOOLEAN
  /\ SendErrors \in BOOLEAN
  /\ UnknownEvents \in BOOLEAN
  /\ EarlyEvents \in BOOLEAN

VARIABLES
  pc,        \* location of the main program in the driver
  op,        \* the command it is running
  wr,        \* what SpiWrite is sending: the command, or a patch response
  rcvd,      \* usReceivedEventOpcode: the packet hci_event_handler works on
  more,      \* iNumberOfBytes > 0 in the answer to recv: a data packet follows
  waited,    \* waitForDHCP has returned in this session
  ncmd,      \* commands issued in this session, START and READBUF not counted
  spiState,  \* sSpiInformation.ulSpiState
  rx,        \* spi_buffer: the packet read last
  flag,      \* usEventOrDataReceived
  waitOp,    \* usRxEventOpcode, "none" for 0
  waitData,  \* usRxDataPending
  dhcp,      \* ulCC3000DHCP
  inten,     \* GPIOTE INTENSET, channel 0: the IRQ line's interrupt is enabled
  latch,     \* EVENTS_IN[0]: a falling edge of IRQ has been latched
  cs,        \* the host asserts chip select
  irqLow,    \* the controller holds the IRQ line low
  releasing, \* IRQ is still low for a transaction that has ended
  dev,       \* the controller's power state
  devq,      \* packets the controller has for the host, in order
  inbox,     \* commands the controller has accepted and not answered
  patchLeft, \* patch requests it may still make
  devWait,   \* it has asked for a patch and awaits the response
  nunsol,    \* unsolicited events it may still send
  devDhcp,   \* it has reported an address to the host
  acc        \* times the controller accepted the current command (history)

locals   == <<op, wr, rcvd, more, waited, ncmd>>
hciVars  == <<rx, flag, waitOp, waitData, dhcp>>
spiVars  == <<spiState, inten>>
wireVars == <<cs, irqLow, releasing>>
devVars  == <<dev, devq, inbox, patchLeft, devWait, nunsol, devDhcp>>
vars == <<pc, locals, hciVars, spiVars, latch, wireVars, devVars, acc>>

-----------------------------------------------------------------------------
(* Packets.  An event carries an opcode, and a status where the driver     *)
(* looks at it; "DATA" is a data packet and "JUNK" is what a read returns  *)
(* when the controller has nothing to send.                                *)

WorkCmds == {"CMD", "SEND", "RECV"}
Cmds     == {"START", "READBUF"} \cup WorkCmds
Writes   == Cmds \cup {"PATCH"}
Opcodes  == Writes \cup {"DHCP", "DISC", "UNKNOWN", "DATA", "JUNK"}
Statuses == {"ok", "inactive", "empty", "refused"}
Packet   == [opcode : Opcodes, status : Statuses]
DevPacket == [opcode : Opcodes \ {"JUNK"}, status : Statuses]

Pkt(o, s) == [opcode |-> o, status |-> s]
Junk      == Pkt("JUNK", "ok")
Unsol     == {Pkt("DISC", "ok"), Pkt("DHCP", "refused")}
             \cup (IF UnknownEvents THEN {Pkt("UNKNOWN", "ok")} ELSE {})
IsEvent(p) == p.opcode \notin {"DATA", "JUNK"}

\* hci_unsol_event_handler returns 1: the event needs no further handling
HandledUnsol(p) ==
  \/ p.opcode \in {"DHCP", "DISC"}
  \/ p.opcode = "SEND" /\ p.status = "inactive"

-----------------------------------------------------------------------------
(* The wires.  CS going inactive ends the transaction: the controller then *)
(* raises IRQ, at once or (PromptRelease = FALSE) a while later.           *)

AssertCs == cs' = TRUE
DeassertCs ==
  /\ cs' = FALSE
  /\ irqLow' = (irqLow /\ ~PromptRelease)
  /\ releasing' = (irqLow /\ ~PromptRelease)

\* The controller takes a packet written while CS was asserted.
Accepts(w) ==
  /\ inbox' = IF w = "PATCH" THEN inbox ELSE Append(inbox, w)
  /\ devWait' = (devWait /\ w # "PATCH")
  /\ acc' = IF w = "PATCH" THEN acc ELSE acc + 1
  /\ UNCHANGED <<dev, devq, patchLeft, nunsol, devDhcp>>

Written == IF wr = "patch" THEN "PATCH" ELSE op

\* What DEASSERT_CS after a transfer of the packet does: with CS already
\* inactive the controller saw neither the bytes nor an edge.
EndWrite ==
  IF cs
    THEN DeassertCs /\ Accepts(Written)
    ELSE UNCHANGED <<wireVars, devVars, acc>>

\* A pending, enabled interrupt runs before the main program's next step.
MainMayRun == ~(latch /\ inten)

Main(from, to) == MainMayRun /\ pc = from /\ pc' = to

-----------------------------------------------------------------------------
(* wlan_start and wlan_stop *)

\* wlan_start resets the driver and opens the SPI interface; the IRQ
\* interrupt is enabled, and whatever edge was latched before is served.
Start ==
  /\ Main("off", "power")
  /\ flag' = FALSE /\ waitOp' = "none" /\ waitData' = FALSE /\ dhcp' = FALSE
  /\ spiState' = "POWERUP" /\ inten' = TRUE
  /\ more' = FALSE /\ waited' = FALSE /\ ncmd' = 0
  /\ UNCHANGED <<op, wr, rcvd, rx, latch, wireVars, devVars, acc>>

\* The IRQ line is sampled high (wlan_stop left it so: LineHighAtPowerUp) and
\* the controller is switched on.
PowerUp ==
  /\ Main("power", "low")
  /\ ~irqLow
  /\ dev' = "boot" /\ patchLeft' = MaxPatch /\ nunsol' = MaxUnsol
  /\ devWait' = FALSE /\ devDhcp' = FALSE
  /\ UNCHANGED <<locals, hciVars, spiVars, latch, wireVars, devq, inbox, acc>>

Call(o) == /\ op' = o
           /\ wr' = "cmd"
           /\ acc' = 0

\* Mutant: wlan_start does not wait for the IRQ line.
SkipLineWait ==
  /\ Main("low", "write")
  /\ Call("START")
  /\ UNCHANGED <<rcvd, more, waited, ncmd, hciVars, spiVars, latch, wireVars,
                 devVars>>

\* The polling loop on the IRQ pin ends, and SimpleLink_Init_Start is called.
SeeLineLow ==
  /\ Main("low", "write")
  /\ irqLow
  /\ Call("START")
  /\ UNCHANGED <<rcvd, more, waited, ncmd, hciVars, spiVars, latch, wireVars,
                 devVars>>

Stop ==
  /\ Main("ready", "high")
  /\ dev' = "off" /\ devq' = <<>> /\ inbox' = <<>> /\ devWait' = FALSE
  /\ UNCHANGED <<locals, hciVars, spiVars, latch, wireVars, patchLeft,
                 nunsol, devDhcp, acc>>

\* Mutant: wlan_stop does not wait for the IRQ line.
SpiCloseAtOnce ==
  /\ Main("high", "off")
  /\ inten' = FALSE
  /\ UNCHANGED <<locals, spiState, hciVars, latch, wireVars, devVars, acc>>

SpiClose ==
  /\ Main("high", "off")
  /\ ~irqLow
  /\ inten' = FALSE
  /\ UNCHANGED <<locals, spiState, hciVars, latch, wireVars, devVars, acc>>

-----------------------------------------------------------------------------
(* SpiWrite.  It runs on the main program's side and shares ulSpiState,    *)
(* the interrupt enable and CS with the interrupt.                         *)

\* The first transaction is written with the IRQ already low.
WriteFirst ==
  /\ Main("write", "first")
  /\ spiState = "INITIALIZED"
  /\ AssertCs
  /\ UNCHANGED <<locals, hciVars, spiVars, latch, irqLow, releasing, devVars,
                 acc>>

\* The state is idle before CS goes away, and the interrupt is enabled: that
\* none comes is due to the line, which stays low until CS does.
WriteFirstIdle ==
  /\ Main("first", "firstend")
  /\ spiState' = "IDLE"
  /\ UNCHANGED <<locals, hciVars, inten, latch, wireVars, devVars, acc>>

WriteFirstEnd ==
  /\ Main("firstend", "done")
  /\ EndWrite
  /\ UNCHANGED <<locals, hciVars, spiVars, latch>>

\* Mutant: the first packet is written like any other.
WriteLockFirst ==
  /\ Main("write", "idle")
  /\ spiState # "POWERUP"
  /\ inten' = FALSE
  /\ UNCHANGED <<locals, spiState, hciVars, latch, wireVars, devVars, acc>>

WriteLock ==
  /\ Main("write", "idle")
  /\ spiState \notin {"POWERUP", "INITIALIZED"}
  /\ inten' = FALSE
  /\ UNCHANGED <<locals, spiState, hciVars, latch, wireVars, devVars, acc>>

\* Mutant: CS is asserted and the state stays IDLE.
WriteAssertIdle ==
  /\ Main("idle", "enable")
  /\ spiState = "IDLE"
  /\ AssertCs
  /\ UNCHANGED <<locals, hciVars, spiVars, latch, irqLow, releasing, devVars,
                 acc>>

WriteAssert ==
  /\ Main("idle", "enable")
  /\ spiState = "IDLE"
  /\ spiState' = "WRITE_IRQ"
  /\ AssertCs
  /\ UNCHANGED <<locals, hciVars, inten, latch, irqLow, releasing, devVars,
                 acc>>

WriteEnable ==
  /\ Main("enable", "pin")
  /\ inten' = TRUE
  /\ UNCHANGED <<locals, spiState, hciVars, latch, wireVars, devVars, acc>>

\* Mutant: the interrupt is enabled again for the direct write.
WritePinLowEnabled ==
  /\ Main("pin", "direct")
  /\ irqLow
  /\ inten' = TRUE
  /\ UNCHANGED <<locals, hciVars, spiState, latch, wireVars, devVars, acc>>

\* "check for a missing interrupt": a low pin makes the main program transmit.
WritePinLow ==
  /\ Main("pin", "direct")
  /\ irqLow
  /\ UNCHANGED <<locals, hciVars, spiVars, latch, wireVars, devVars, acc>>

WritePinHigh ==
  /\ Main("pin", "done")
  /\ ~irqLow
  /\ UNCHANGED <<locals, hciVars, spiVars, latch, wireVars, devVars, acc>>

WriteDirect ==
  /\ Main("direct", "deassert")
  /\ spiState' = "IDLE"
  /\ UNCHANGED <<locals, hciVars, inten, latch, wireVars, devVars, acc>>

WriteDirectEnd ==
  /\ Main("deassert", "done")
  /\ EndWrite
  /\ UNCHANGED <<locals, hciVars, spiVars, latch>>

\* Mutant: SpiWrite returns without waiting for the idle state.
WriteDoneAtOnce ==
  /\ MainMayRun
  /\ pc = "done"
  /\ pc' = IF wr = "cmd" THEN "setop" ELSE "check"
  /\ UNCHANGED <<locals, hciVars, spiVars, latch, wireVars, devVars, acc>>

\* SpiWrite waits for the end of the transaction and returns to its caller.
WriteDone ==
  /\ MainMayRun
  /\ pc = "done"
  /\ spiState = "IDLE"
  /\ pc' = IF wr = "cmd" THEN "setop" ELSE "check"
  /\ UNCHANGED <<locals, hciVars, spiVars, latch, wireVars, devVars, acc>>

-----------------------------------------------------------------------------
(* SimpleLinkWaitEvent, SimpleLinkWaitData and hci_event_handler.  They run *)
(* on the main program's side; usEventOrDataReceived and the packet buffer  *)
(* are written by the interrupt.                                            *)

WaitEvent ==
  /\ Main("setop", "wait")
  /\ waitOp' = op
  /\ UNCHANGED <<locals, rx, flag, waitData, dhcp, spiVars, latch, wireVars,
                 devVars, acc>>

\* The busy loop ends: the opcode is read from the buffer.
TakePacket ==
  /\ Main("wait", "apply")
  /\ flag
  /\ rcvd' = rx
  /\ UNCHANGED <<op, wr, more, waited, ncmd, hciVars, spiVars, latch, wireVars,
                 devVars, acc>>

\* Mutant: simple_link_recv does not go on to wait for the data.
ApplyNoMore ==
  /\ Main("apply", "clear")
  /\ waitOp' = IF IsEvent(rcvd) /\ rcvd.opcode = waitOp THEN "none" ELSE waitOp
  /\ waitData' = (waitData /\ IsEvent(rcvd))
  /\ more' = IF rcvd.opcode = "RECV" THEN FALSE ELSE more
  /\ UNCHANGED <<op, wr, rcvd, waited, ncmd, rx, flag, dhcp, spiVars, latch,
                 wireVars, devVars, acc>>

\* The parameters are copied out and what was awaited is cleared.  They are
\* read from the buffer: of another packet there they are any bytes.
ApplyPacket ==
  /\ Main("apply", "clear")
  /\ waitOp' = IF IsEvent(rcvd) /\ rcvd.opcode = waitOp THEN "none" ELSE waitOp
  /\ waitData' = (waitData /\ IsEvent(rcvd))
  /\ more' \in IF rcvd.opcode # "RECV" THEN {more}
               ELSE IF rx = rcvd THEN {rx.status = "ok"} ELSE BOOLEAN
  /\ UNCHANGED <<op, wr, rcvd, waited, ncmd, rx, flag, dhcp, spiVars, latch,
                 wireVars, devVars, acc>>

ClearFlag ==
  /\ Main("clear", "resume")
  /\ flag' = FALSE
  /\ UNCHANGED <<locals, rx, waitOp, waitData, dhcp, spiVars, latch, wireVars,
                 devVars, acc>>

\* Mutant: the interrupt stays disabled after a packet was handled.
NoResume ==
  /\ Main("resume", "patch")
  /\ inten' = inten
  /\ UNCHANGED <<locals, hciVars, spiState, latch, wireVars, devVars, acc>>

ResumeSpi ==
  /\ Main("resume", "patch")
  /\ inten' = TRUE
  /\ UNCHANGED <<locals, hciVars, spiState, latch, wireVars, devVars, acc>>

\* Mutant: the patch is sent only when no event is awaited.
HandlePatchLate ==
  /\ Main("patch", "write")
  /\ waitOp = "none" /\ rcvd.opcode = "PATCH" /\ IsEvent(rx)
  /\ wr' = "patch"
  /\ UNCHANGED <<op, rcvd, more, waited, ncmd, hciVars, spiVars, latch,
                 wireVars, devVars, acc>>

\* The patch response is sent after the buffer was released to the interrupt,
\* and its type is read from the buffer again: another packet there decides,
\* with its own bytes, whether a response is sent at all.
HandlePatch ==
  /\ Main("patch", "write")
  /\ rcvd.opcode = "PATCH" /\ IsEvent(rx)
  /\ wr' = "patch"
  /\ UNCHANGED <<op, rcvd, more, waited, ncmd, hciVars, spiVars, latch,
                 wireVars, devVars, acc>>

NoPatch ==
  /\ Main("patch", "check")
  /\ rcvd.opcode # "PATCH" \/ rx.opcode # "PATCH"
  /\ UNCHANGED <<locals, hciVars, spiVars, latch, wireVars, devVars, acc>>

\* Mutant: either awaited item ends the wait.
CheckDoneEither ==
  /\ MainMayRun
  /\ pc = "check"
  /\ pc' = IF waitOp = "none" \/ ~waitData THEN "ret" ELSE "wait"
  /\ UNCHANGED <<locals, hciVars, spiVars, latch, wireVars, devVars, acc>>

\* hci_event_handler returns when nothing is awaited any more.
CheckDone ==
  /\ MainMayRun
  /\ pc = "check"
  /\ pc' = IF waitOp = "none" /\ ~waitData THEN "ret" ELSE "wait"
  /\ UNCHANGED <<locals, hciVars, spiVars, latch, wireVars, devVars, acc>>

-----------------------------------------------------------------------------
(* The calls of the main program *)

\* simple_link_recv goes on to wait for the data packet.
WaitData ==
  /\ Main("ret", "wait")
  /\ more
  /\ more' = FALSE
  /\ waitData' = TRUE
  /\ UNCHANGED <<op, wr, rcvd, waited, ncmd, rx, flag, waitOp, dhcp, spiVars,
                 latch, wireVars, devVars, acc>>

\* wlan_start reads the buffer size once START has completed.
ReadBufferSize ==
  /\ Main("ret", "write")
  /\ ~more
  /\ op = "START"
  /\ Call("READBUF")
  /\ UNCHANGED <<rcvd, more, waited, ncmd, hciVars, spiVars, latch, wireVars,
                 devVars>>

Return ==
  /\ Main("ret", "ready")
  /\ ~more
  /\ op # "START"
  /\ UNCHANGED <<locals, hciVars, spiVars, latch, wireVars, devVars, acc>>

Command ==
  /\ Main("ready", "write")
  /\ ncmd < MaxCmds
  /\ ncmd' = ncmd + 1
  /\ \E o \in WorkCmds : Call(o)
  /\ UNCHANGED <<rcvd, more, waited, hciVars, spiVars, latch, wireVars, devVars>>

\* waitForDHCP: only an interrupt can end the loop.
EnterWaitForDHCP ==
  /\ Main("ready", "dhcp")
  /\ ~waited
  /\ UNCHANGED <<locals, hciVars, spiVars, latch, wireVars, devVars, acc>>

LeaveWaitForDHCP ==
  /\ Main("dhcp", "ready")
  /\ dhcp
  /\ waited' = TRUE
  /\ UNCHANGED <<op, wr, rcvd, more, ncmd, hciVars, spiVars, latch, wireVars,
                 devVars, acc>>

-----------------------------------------------------------------------------
(* The GPIOTE interrupt: GPIOTE_IRQHandler and IntSpiGPIOHandler *)

Interrupt(state) ==
  /\ latch /\ inten
  /\ spiState = state
  /\ latch' = FALSE
  /\ UNCHANGED <<pc, locals>>

\* Mutant: the wrong state is set when the controller is up.
IsrPowerUpWrong ==
  /\ Interrupt("POWERUP")
  /\ spiState' = "READ_IRQ"
  /\ UNCHANGED <<hciVars, inten, wireVars, devVars, acc>>

IsrPowerUp ==
  /\ Interrupt("POWERUP")
  /\ spiState' = "INITIALIZED"
  /\ UNCHANGED <<hciVars, inten, wireVars, devVars, acc>>

\* Mutant: the unsolicited event callback is not made.
NoCallback(p) == dhcp

\* CC3000_UsynchCallback: what an event does to ulCC3000DHCP.
DhcpAfter(p) ==
  IF p.opcode = "DHCP" THEN p.status = "ok" ELSE dhcp /\ p.opcode # "DISC"

\* Mutant: the interrupt stays enabled while the packet waits.
NoPause(p) == TRUE

\* The interrupt is paused for a packet the main program must handle.
IrqAfter(p) == HandledUnsol(p)

\* Read a packet, disable the interrupt, end the transaction and hand the
\* packet to SpiReceiveHandler, which deals with the unsolicited events it
\* supports, their callback included, and enables the interrupt again for them.
IsrRead ==
  /\ Interrupt("IDLE")
  /\ LET p == IF devq = <<>> THEN Junk ELSE Head(devq) IN
       /\ rx' = p
       /\ flag' = ~HandledUnsol(p)
       /\ inten' = IrqAfter(p)
       /\ dhcp' = DhcpAfter(p)
       /\ devq' = IF devq = <<>> THEN <<>> ELSE Tail(devq)
  /\ DeassertCs
  /\ UNCHANGED <<waitOp, waitData, spiState, dev, inbox, patchLeft, devWait,
                 nunsol, devDhcp, acc>>

IsrWrite ==
  /\ Interrupt("WRITE_IRQ")
  /\ spiState' = "IDLE"
  /\ EndWrite
  /\ UNCHANGED <<hciVars, inten>>

IsrIgnore ==
  /\ Interrupt("INITIALIZED")
  /\ UNCHANGED <<hciVars, spiVars, wireVars, devVars, acc>>

-----------------------------------------------------------------------------
(* The controller (external) *)

host == <<pc, locals, hciVars, spiVars, acc>>

FallingEdge == irqLow' = TRUE /\ latch' = TRUE

DevBoot ==
  /\ dev = "boot" /\ ~irqLow
  /\ dev' = "ready"
  /\ FallingEdge
  /\ UNCHANGED <<host, cs, releasing, devq, inbox, patchLeft, devWait, nunsol,
                 devDhcp>>

\* It answers CS, or announces a packet.
DevLowerLine ==
  /\ dev \in {"ready", "up"} /\ ~irqLow
  /\ cs \/ devq # <<>>
  /\ FallingEdge
  /\ UNCHANGED <<host, cs, releasing, devVars>>

DevRaiseLine ==
  /\ releasing \/ (dev = "off" /\ irqLow)
  /\ irqLow' = FALSE /\ releasing' = FALSE
  /\ UNCHANGED <<host, latch, cs, devVars>>

Replies(o) ==
  CASE o = "RECV" -> {<<Pkt(o, "empty")>>, <<Pkt(o, "ok"), Pkt("DATA", "ok")>>}
    [] o = "SEND" /\ SendErrors -> {<<Pkt(o, "ok")>>, <<Pkt(o, "inactive")>>}
    [] OTHER -> {<<Pkt(o, "ok")>>}

DevAnswer ==
  /\ inbox # <<>> /\ ~devWait
  /\ \E r \in Replies(Head(inbox)) : devq' = devq \o r
  /\ inbox' = Tail(inbox)
  /\ dev' = IF Head(inbox) = "START" THEN "up" ELSE dev
  /\ UNCHANGED <<host, latch, wireVars, patchLeft, devWait, nunsol, devDhcp>>

DevRequestPatch ==
  /\ inbox # <<>> /\ Head(inbox) = "START"
  /\ ~devWait /\ patchLeft > 0
  /\ devWait' = TRUE
  /\ patchLeft' = patchLeft - 1
  /\ devq' = Append(devq, Pkt("PATCH", "ok"))
  /\ UNCHANGED <<host, latch, wireVars, dev, inbox, nunsol, devDhcp>>

DevDhcp ==
  /\ dev = "up" /\ ~devDhcp
  /\ devDhcp' = TRUE
  /\ devq' = Append(devq, Pkt("DHCP", "ok"))
  /\ UNCHANGED <<host, latch, wireVars, dev, inbox, patchLeft, devWait, nunsol>>

DevUnsol ==
  /\ dev = "up" \/ (EarlyEvents /\ dev = "ready")
  /\ nunsol > 0
  /\ nunsol' = nunsol - 1
  /\ \E p \in Unsol :
       /\ devq' = Append(devq, p)
       /\ devDhcp' = (devDhcp /\ p.opcode = "UNKNOWN")
  /\ UNCHANGED <<host, latch, wireVars, dev, inbox, patchLeft, devWait>>

-----------------------------------------------------------------------------
Init ==
  /\ pc = "off" /\ op = "START" /\ wr = "cmd" /\ rcvd = Junk
  /\ more = FALSE /\ waited = FALSE /\ ncmd = 0
  /\ spiState = "POWERUP" /\ inten = FALSE /\ latch = FALSE
  /\ rx = Junk /\ flag = FALSE /\ waitOp = "none" /\ waitData = FALSE
  /\ dhcp = FALSE
  /\ cs = FALSE /\ irqLow = FALSE /\ releasing = FALSE
  /\ dev = "off" /\ devq = <<>> /\ inbox = <<>> /\ patchLeft = 0
  /\ devWait = FALSE /\ nunsol = 0 /\ devDhcp = FALSE
  /\ acc = 0

SpiWriteStep ==
  \/ WriteFirst \/ WriteFirstIdle \/ WriteFirstEnd
  \/ WriteLock \/ WriteAssert \/ WriteEnable
  \/ WritePinLow \/ WritePinHigh \/ WriteDirect \/ WriteDirectEnd \/ WriteDone

EventStep ==
  \/ WaitEvent \/ TakePacket \/ ApplyPacket \/ ClearFlag \/ ResumeSpi
  \/ HandlePatch \/ NoPatch \/ CheckDone

CallStep ==
  \/ Start \/ PowerUp \/ SeeLineLow \/ Stop \/ SpiClose
  \/ WaitData \/ ReadBufferSize \/ Return \/ Command
  \/ EnterWaitForDHCP \/ LeaveWaitForDHCP

MainStep == SpiWriteStep \/ EventStep \/ CallStep
Isr      == IsrPowerUp \/ IsrRead \/ IsrWrite \/ IsrIgnore
DevStep  == DevBoot \/ DevLowerLine \/ DevRaiseLine \/ DevAnswer \/ DevDhcp

Next == MainStep \/ Isr \/ DevStep \/ DevRequestPatch \/ DevUnsol

Spec == Init /\ [][Next]_vars

\* The core runs on, a pending interrupt is served, and the controller does
\* what it has started; it owes the host no patch request and no unsolicited
\* event except an address.
Fairness ==
  /\ WF_vars(MainStep) /\ WF_vars(Isr)
  /\ WF_vars(DevBoot) /\ WF_vars(DevLowerLine) /\ WF_vars(DevRaiseLine)
  /\ WF_vars(DevAnswer) /\ WF_vars(DevDhcp)

LiveSpec == Spec /\ Fairness

-----------------------------------------------------------------------------
(* Properties *)

PCs == {"off", "power", "low", "write", "first", "firstend", "idle",
        "enable", "pin", "direct", "deassert", "done", "setop", "wait",
        "apply", "clear", "resume", "patch", "check", "ret", "ready", "dhcp",
        "high"}

FlagsOK ==
  /\ more \in BOOLEAN /\ waited \in BOOLEAN /\ flag \in BOOLEAN
  /\ waitData \in BOOLEAN /\ dhcp \in BOOLEAN
  /\ inten \in BOOLEAN /\ latch \in BOOLEAN
  /\ cs \in BOOLEAN /\ irqLow \in BOOLEAN /\ releasing \in BOOLEAN
  /\ devWait \in BOOLEAN /\ devDhcp \in BOOLEAN

DataOK ==
  /\ pc \in PCs /\ op \in Cmds /\ wr \in {"cmd", "patch"} /\ rcvd \in Packet
  /\ ncmd \in 0..MaxCmds
  /\ spiState \in {"POWERUP", "INITIALIZED", "IDLE", "WRITE_IRQ"}
  /\ rx \in Packet /\ waitOp \in Cmds \cup {"none"}
  /\ dev \in {"off", "boot", "ready", "up"}
  /\ devq \in Seq(DevPacket) /\ inbox \in Seq(Cmds)
  /\ patchLeft \in 0..MaxPatch /\ nunsol \in 0..MaxUnsol
  /\ acc \in Nat

\* Every variable stays in its range.
TypeOK == FlagsOK /\ DataOK

\* The controller accepts each command once: not twice, when the interrupt
\* and the pin check of SpiWrite both transmit, and not never, when
\* SimpleLinkWaitEvent begins to wait for the answer.
AcceptedOnce ==
  /\ acc <= 1
  /\ pc \in {"setop", "wait", "apply", "clear", "resume", "ret"} => acc = 1

\* The interrupt never moves bytes over the SPI while the main program is in
\* the middle of a transfer of its own (SpiFirstWrite, or the direct write).
ExclusiveBus ==
  pc \in {"first", "firstend", "direct", "deassert"}
    => ~(latch /\ inten /\ spiState \in {"IDLE", "WRITE_IRQ"})

\* When SpiWrite waits for the idle state with the interrupt disabled, the
\* state is idle already: no interrupt could come to change it.
NoSpinWithIrqOff == pc = "idle" => spiState = "IDLE"

\* The interrupt handler reads only when the controller has a packet: neither
\* an edge latched before the controller was powered off nor its answer to CS
\* is taken for one.  It needs a prompt controller.
NoJunkRead == flag => rx # Junk

\* From the moment hci_event_handler looks at the packet until it re-enables
\* the interrupt, nothing replaces the packet in the shared buffer, and while
\* it works on the packet nothing clears usEventOrDataReceived.
BufferHeld ==
  /\ pc \in {"apply", "clear"} => flag
  /\ pc \in {"apply", "clear", "resume"} => rx = rcvd

\* wlan_start talks to a controller that has booted, although an edge left
\* latched from the session before already moved the SPI state on.
FirstWriteAfterBoot ==
  pc \in {"write", "first", "firstend"} => dev \in {"ready", "up"}

\* wlan_start always finds the IRQ line high: wlan_stop waited for it.
LineHighAtPowerUp == pc = "power" => ~irqLow

\* When a call has returned, its exchange with the controller is over: no
\* command, answer or data packet of it is left in the controller or in the
\* buffer, to be taken for the answer to the next command.
AnswerOrData(p) == p.opcode \in Cmds \cup {"DATA"}
CallsLeaveNothing ==
  pc = "ready" =>
    /\ inbox = <<>>
    /\ \A i \in 1..Len(devq) : ~AnswerOrData(devq[i])
    /\ flag => ~AnswerOrData(rx)

\* Each call returns.
CallsReturn == (pc = "write") ~> (pc = "ready")

\* Each request for a patch is answered.
PatchAnswered == devWait ~> ~devWait

\* Each session ends: it is neither stuck in a call nor in waitForDHCP.
SessionEnds == (pc = "power") ~> (pc = "off")

-----------------------------------------------------------------------------
(* The driver implements CommandChannel.  A call is in progress from Call   *)
(* to the return of hci_event_handler with nothing awaited and no data      *)
(* packet to wait for.                                                      *)

InCall ==
  \/ pc \in {"write", "first", "firstend", "idle", "enable", "pin", "direct",
             "deassert", "done", "setop", "wait", "apply", "clear", "resume",
             "patch", "check"}
  \/ pc = "ret" /\ more

Untaken == Cardinality({i \in DOMAIN devq : AnswerOrData(devq[i])})
           + (IF flag /\ AnswerOrData(rx) THEN 1 ELSE 0)

Channel == INSTANCE CommandChannel WITH
  MaxAnswer <- 2,
  up    <- dev # "off",
  stage <- IF ~InCall THEN "idle" ELSE IF acc = 0 THEN "asked"
           ELSE IF inbox # <<>> THEN "accepted" ELSE "answered",
  left  <- Untaken

\* Every step of the driver and the controller is a step of the channel.
ImplementsChannel == Channel!ChanSpec

=============================================================================
