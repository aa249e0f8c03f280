------------------------ MODULE CC3000Driver_proofs ------------------------
(***************************************************************************)
(* Proofs about CC3000Driver, for every bound and every environment switch *)
(* except where PromptRelease (the controller releases the IRQ line with   *)
(* CS) or ~UnknownEvents is assumed.                                       *)
(*                                                                         *)
(* The first part follows the SPI transport and the buffers (IInv).  The   *)
(* second, the exchange (ExInv), is about what a call of the driver        *)
(* exchanges with the controller: a call that returns leaves nothing of    *)
(* its exchange behind, the packet hci_event_handler works on stays in the *)
(* buffer, and the driver implements CommandChannel.                       *)
(***************************************************************************)
EXTENDS CC3000Driver, FiniteSetTheorems, FunctionTheorems, TLAPS

-----------------------------------------------------------------------------
(* Type correctness *)

\* Packets are packets, and what the controller queues is never junk.
LEMMA PacketFacts ==
  /\ DevPacket \subseteq Packet
  /\ Junk \in Packet
  /\ \A o \in Opcodes \ {"JUNK"}, s \in Statuses : Pkt(o, s) \in DevPacket
  /\ \A o \in Cmds : Replies(o) \subseteq Seq(DevPacket)
  /\ Unsol \subseteq DevPacket
  <1>1. DevPacket \subseteq Packet
    BY DEF DevPacket, Packet
  <1>2. \A o \in Opcodes \ {"JUNK"}, s \in Statuses : Pkt(o, s) \in DevPacket
    BY DEF DevPacket, Pkt
  <1>3. Junk \in Packet
    BY DEF Junk, Pkt, Packet, Opcodes, Statuses
  <1>4. ASSUME NEW o \in Cmds PROVE Replies(o) \subseteq Seq(DevPacket)
    <2>1. /\ o \in Opcodes \ {"JUNK"} /\ "DATA" \in Opcodes \ {"JUNK"}
          /\ "ok" \in Statuses /\ "empty" \in Statuses /\ "inactive" \in Statuses
      BY DEF Cmds, WorkCmds, Opcodes, Writes, Statuses
    <2>2. /\ Pkt(o, "ok") \in DevPacket /\ Pkt(o, "empty") \in DevPacket
          /\ Pkt(o, "inactive") \in DevPacket /\ Pkt("DATA", "ok") \in DevPacket
      BY <1>2, <2>1
    <2>3. /\ <<Pkt(o, "ok")>> \in Seq(DevPacket)
          /\ <<Pkt(o, "empty")>> \in Seq(DevPacket)
          /\ <<Pkt(o, "inactive")>> \in Seq(DevPacket)
          /\ <<Pkt(o, "ok"), Pkt("DATA", "ok")>> \in Seq(DevPacket)
      BY <2>2
    <2>4. QED
      BY <2>3 DEF Replies
  <1>5. Unsol \subseteq DevPacket
    <2>1. /\ {"DISC", "DHCP", "UNKNOWN"} \subseteq Opcodes \ {"JUNK"}
          /\ {"ok", "refused"} \subseteq Statuses
      BY DEF Opcodes, Statuses
    <2>2. QED
      BY <1>2, <2>1 DEF Unsol
  <1>6. QED
    BY <1>1, <1>2, <1>3, <1>4, <1>5

\* Every variable starts in its range.
LEMMA InitTypeOK == Init => TypeOK
  <1>1. Init => FlagsOK
    BY Zenon DEF Init, FlagsOK
  <1>2. Init => DataOK
    BY BoundsAssumption, PacketFacts DEF Init, DataOK, PCs, Cmds, WorkCmds
  <1>3. QED
    BY <1>1, <1>2 DEF TypeOK

\* Ending a transfer changes the command queue and its history only by one
\* accepted command, and the controller's other data not at all.
LEMMA EndWriteData ==
  ASSUME DataOK, EndWrite
  PROVE  /\ inbox' \in Seq(Cmds) /\ acc' \in Nat
         /\ UNCHANGED <<dev, devq, patchLeft, nunsol>>
  <1>1. CASE cs /\ wr # "patch"
    <2>1. inbox' = Append(inbox, op) /\ acc' = acc + 1
      <3>1. op # "PATCH"
        BY DEF DataOK, Cmds, WorkCmds
      <3>2. QED
        BY <1>1, <3>1 DEF EndWrite, Accepts, Written
    <2>2. UNCHANGED <<dev, devq, patchLeft, nunsol>>
      BY <1>1 DEF EndWrite, Accepts
    <2>3. QED
      BY <2>1, <2>2 DEF DataOK
  <1>2. CASE cs /\ wr = "patch"
    <2>1. UNCHANGED <<inbox, acc, dev, devq, patchLeft, nunsol>>
      BY <1>2 DEF EndWrite, Accepts, Written
    <2>2. QED
      BY <2>1 DEF DataOK
  <1>3. CASE ~cs
    <2>1. UNCHANGED <<inbox, acc, dev, devq, patchLeft, nunsol>>
      BY <1>3 DEF EndWrite, devVars
    <2>2. QED
      BY <2>1 DEF DataOK
  <1>4. QED
    BY <1>1, <1>2, <1>3

\* The steps of SpiWrite keep the ranges.
LEMMA SpiWriteTypeOK == TypeOK /\ SpiWriteStep => TypeOK'
  <1> SUFFICES ASSUME FlagsOK, DataOK, SpiWriteStep
               PROVE  FlagsOK' /\ DataOK'
    BY DEF TypeOK
  <1> USE PacketFacts
  <1>1. CASE WriteFirst
    <2>1. FlagsOK'
      BY <1>1, Zenon DEF FlagsOK, WriteFirst, Main, locals, hciVars, spiVars,
        wireVars, devVars, AssertCs
    <2>2. DataOK'
      BY <1>1, BoundsAssumption, SwitchesAssumption DEF DataOK, PCs,
        WriteFirst, Main, locals, hciVars, spiVars, devVars
    <2>3. QED
      BY <2>1, <2>2
  <1>2. CASE WriteFirstEnd
    <2>1. FlagsOK'
      BY <1>2, Zenon DEF FlagsOK, WriteFirstEnd, Main, locals, hciVars,
        spiVars, wireVars, devVars, EndWrite, Accepts, DeassertCs
    <2>2. DataOK'
      <3>1. EndWrite
        BY <1>2 DEF WriteFirstEnd
      <3>2. QED
        BY <1>2, <3>1, EndWriteData
        DEF DataOK, PCs, WriteFirstEnd, Main, locals, hciVars, spiVars
    <2>3. QED
      BY <2>1, <2>2
  <1>3. CASE WriteLock
    <2>1. FlagsOK'
      BY <1>3, Zenon DEF FlagsOK, WriteLock, Main, locals, hciVars, spiVars,
        wireVars, devVars
    <2>2. DataOK'
      BY <1>3, BoundsAssumption, SwitchesAssumption DEF DataOK, PCs,
        WriteLock, Main, locals, hciVars, spiVars, devVars
    <2>3. QED
      BY <2>1, <2>2
  <1>4. CASE WriteAssert
    <2>1. FlagsOK'
      BY <1>4, Zenon DEF FlagsOK, WriteAssert, Main, locals, hciVars, spiVars,
        wireVars, devVars, AssertCs
    <2>2. DataOK'
      BY <1>4, BoundsAssumption, SwitchesAssumption DEF DataOK, PCs,
        WriteAssert, Main, locals, hciVars, spiVars, devVars
    <2>3. QED
      BY <2>1, <2>2
  <1>5. CASE WriteEnable
    <2>1. FlagsOK'
      BY <1>5, Zenon DEF FlagsOK, WriteEnable, Main, locals, hciVars, spiVars,
        wireVars, devVars
    <2>2. DataOK'
      BY <1>5, BoundsAssumption, SwitchesAssumption DEF DataOK, PCs,
        WriteEnable, Main, locals, hciVars, spiVars, devVars
    <2>3. QED
      BY <2>1, <2>2
  <1>6. CASE WritePinLow
    <2>1. FlagsOK'
      BY <1>6, Zenon DEF FlagsOK, WritePinLow, Main, locals, hciVars, spiVars,
        wireVars, devVars
    <2>2. DataOK'
      BY <1>6, BoundsAssumption, SwitchesAssumption DEF DataOK, PCs,
        WritePinLow, Main, locals, hciVars, spiVars, devVars
    <2>3. QED
      BY <2>1, <2>2
  <1>7. CASE WritePinHigh
    <2>1. FlagsOK'
      BY <1>7, Zenon DEF FlagsOK, WritePinHigh, Main, locals, hciVars,
        spiVars, wireVars, devVars
    <2>2. DataOK'
      BY <1>7, BoundsAssumption, SwitchesAssumption DEF DataOK, PCs,
        WritePinHigh, Main, locals, hciVars, spiVars, devVars
    <2>3. QED
      BY <2>1, <2>2
  <1>8. CASE WriteDirect
    <2>1. FlagsOK'
      BY <1>8, Zenon DEF FlagsOK, WriteDirect, Main, locals, hciVars, spiVars,
        wireVars, devVars
    <2>2. DataOK'
      BY <1>8, BoundsAssumption, SwitchesAssumption DEF DataOK, PCs,
        WriteDirect, Main, locals, hciVars, spiVars, devVars
    <2>3. QED
      BY <2>1, <2>2
  <1>9. CASE WriteDirectEnd
    <2>1. FlagsOK'
      BY <1>9, Zenon DEF FlagsOK, WriteDirectEnd, Main, locals, hciVars,
        spiVars, wireVars, devVars, EndWrite, Accepts, DeassertCs
    <2>2. DataOK'
      <3>1. EndWrite
        BY <1>9 DEF WriteDirectEnd
      <3>2. QED
        BY <1>9, <3>1, EndWriteData
        DEF DataOK, PCs, WriteDirectEnd, Main, locals, hciVars, spiVars
    <2>3. QED
      BY <2>1, <2>2
  <1>10. CASE WriteDone
    <2>1. FlagsOK'
      BY <1>10, Zenon DEF FlagsOK, WriteDone, Main, locals, hciVars, spiVars,
        wireVars, devVars
    <2>2. DataOK'
      BY <1>10, BoundsAssumption, SwitchesAssumption DEF DataOK, PCs,
        WriteDone, Main, locals, hciVars, spiVars, devVars
    <2>3. QED
      BY <2>1, <2>2
  <1>11. CASE WriteFirstIdle
    <2>1. FlagsOK'
      BY <1>11, Zenon DEF FlagsOK, WriteFirstIdle, Main, locals, hciVars,
        spiVars, wireVars, devVars
    <2>2. DataOK'
      BY <1>11 DEF DataOK, PCs, WriteFirstIdle, Main, locals, hciVars, devVars
    <2>3. QED
      BY <2>1, <2>2
  <1> QED
    BY <1>1, <1>2, <1>3, <1>4, <1>5, <1>6, <1>7, <1>8, <1>9, <1>10, <1>11
    DEF SpiWriteStep

\* So do those of the event handler,
LEMMA EventTypeOK == TypeOK /\ EventStep => TypeOK'
  <1> SUFFICES ASSUME FlagsOK, DataOK, EventStep
               PROVE  FlagsOK' /\ DataOK'
    BY DEF TypeOK
  <1> USE PacketFacts
  <1>1. CASE WaitEvent
    <2>1. FlagsOK'
      BY <1>1, Zenon DEF FlagsOK, WaitEvent, Main, locals, hciVars, spiVars,
        wireVars, devVars
    <2>2. DataOK'
      BY <1>1, BoundsAssumption, SwitchesAssumption DEF DataOK, PCs,
        WaitEvent, Main, locals, hciVars, spiVars, devVars
    <2>3. QED
      BY <2>1, <2>2
  <1>2. CASE TakePacket
    <2>1. FlagsOK'
      BY <1>2, Zenon DEF FlagsOK, TakePacket, Main, locals, hciVars, spiVars,
        wireVars, devVars
    <2>2. DataOK'
      BY <1>2, BoundsAssumption, SwitchesAssumption DEF DataOK, PCs,
        TakePacket, Main, locals, hciVars, spiVars, devVars
    <2>3. QED
      BY <2>1, <2>2
  <1>3. CASE ApplyPacket
    <2>1. FlagsOK'
      BY <1>3, Zenon DEF FlagsOK, ApplyPacket, Main, locals, hciVars, spiVars,
        wireVars, devVars
    <2>2. DataOK'
      BY <1>3, BoundsAssumption, SwitchesAssumption DEF DataOK, PCs,
        ApplyPacket, Main, locals, hciVars, spiVars, devVars
    <2>3. QED
      BY <2>1, <2>2
  <1>4. CASE ClearFlag
    <2>1. FlagsOK'
      BY <1>4, Zenon DEF FlagsOK, ClearFlag, Main, locals, hciVars, spiVars,
        wireVars, devVars
    <2>2. DataOK'
      BY <1>4, BoundsAssumption, SwitchesAssumption DEF DataOK, PCs,
        ClearFlag, Main, locals, hciVars, spiVars, devVars
    <2>3. QED
      BY <2>1, <2>2
  <1>5. CASE ResumeSpi
    <2>1. FlagsOK'
      BY <1>5, Zenon DEF FlagsOK, ResumeSpi, Main, locals, hciVars, spiVars,
        wireVars, devVars
    <2>2. DataOK'
      BY <1>5, BoundsAssumption, SwitchesAssumption DEF DataOK, PCs,
        ResumeSpi, Main, locals, hciVars, spiVars, devVars
    <2>3. QED
      BY <2>1, <2>2
  <1>6. CASE HandlePatch
    <2>1. FlagsOK'
      BY <1>6, Zenon DEF FlagsOK, HandlePatch, Main, locals, hciVars, spiVars,
        wireVars, devVars
    <2>2. DataOK'
      BY <1>6, BoundsAssumption, SwitchesAssumption DEF DataOK, PCs,
        HandlePatch, Main, locals, hciVars, spiVars, devVars
    <2>3. QED
      BY <2>1, <2>2
  <1>7. CASE NoPatch
    <2>1. FlagsOK'
      BY <1>7, Zenon DEF FlagsOK, NoPatch, Main, locals, hciVars, spiVars,
        wireVars, devVars
    <2>2. DataOK'
      BY <1>7, BoundsAssumption, SwitchesAssumption DEF DataOK, PCs, NoPatch,
        Main, locals, hciVars, spiVars, devVars
    <2>3. QED
      BY <2>1, <2>2
  <1>8. CASE CheckDone
    <2>1. FlagsOK'
      BY <1>8, Zenon DEF FlagsOK, CheckDone, Main, locals, hciVars, spiVars,
        wireVars, devVars
    <2>2. DataOK'
      BY <1>8, BoundsAssumption, SwitchesAssumption DEF DataOK, PCs,
        CheckDone, Main, locals, hciVars, spiVars, devVars
    <2>3. QED
      BY <2>1, <2>2
  <1> QED
    BY <1>1, <1>2, <1>3, <1>4, <1>5, <1>6, <1>7, <1>8 DEF EventStep

\* of the calls,
LEMMA CallTypeOK == TypeOK /\ CallStep => TypeOK'
  <1> SUFFICES ASSUME FlagsOK, DataOK, CallStep
               PROVE  FlagsOK' /\ DataOK'
    BY DEF TypeOK
  <1> USE PacketFacts
  <1>1. CASE Start
    <2>1. FlagsOK'
      BY <1>1, Zenon DEF FlagsOK, Start, Main, locals, hciVars, spiVars,
        wireVars, devVars
    <2>2. DataOK'
      BY <1>1, BoundsAssumption, SwitchesAssumption DEF DataOK, PCs, Start,
        Main, locals, hciVars, spiVars, devVars
    <2>3. QED
      BY <2>1, <2>2
  <1>2. CASE PowerUp
    <2>1. FlagsOK'
      BY <1>2, Zenon DEF FlagsOK, PowerUp, Main, locals, hciVars, spiVars,
        wireVars, devVars
    <2>2. DataOK'
      BY <1>2, BoundsAssumption, SwitchesAssumption DEF DataOK, PCs, PowerUp,
        Main, locals, hciVars, spiVars, devVars
    <2>3. QED
      BY <2>1, <2>2
  <1>3. CASE SeeLineLow
    <2>1. FlagsOK'
      BY <1>3, Zenon DEF FlagsOK, SeeLineLow, Main, locals, hciVars, spiVars,
        wireVars, devVars
    <2>2. DataOK'
      BY <1>3, BoundsAssumption, SwitchesAssumption DEF DataOK, PCs,
        SeeLineLow, Main, locals, hciVars, spiVars, devVars, Call, Cmds,
        WorkCmds
    <2>3. QED
      BY <2>1, <2>2
  <1>4. CASE Stop
    <2>1. FlagsOK'
      BY <1>4, Zenon DEF FlagsOK, Stop, Main, locals, hciVars, spiVars,
        wireVars, devVars
    <2>2. DataOK'
      BY <1>4, BoundsAssumption, SwitchesAssumption DEF DataOK, PCs, Stop,
        Main, locals, hciVars, spiVars, devVars
    <2>3. QED
      BY <2>1, <2>2
  <1>5. CASE SpiClose
    <2>1. FlagsOK'
      BY <1>5, Zenon DEF FlagsOK, SpiClose, Main, locals, hciVars, spiVars,
        wireVars, devVars
    <2>2. DataOK'
      BY <1>5, BoundsAssumption, SwitchesAssumption DEF DataOK, PCs, SpiClose,
        Main, locals, hciVars, spiVars, devVars
    <2>3. QED
      BY <2>1, <2>2
  <1>6. CASE WaitData
    <2>1. FlagsOK'
      BY <1>6, Zenon DEF FlagsOK, WaitData, Main, locals, hciVars, spiVars,
        wireVars, devVars
    <2>2. DataOK'
      BY <1>6, BoundsAssumption, SwitchesAssumption DEF DataOK, PCs, WaitData,
        Main, locals, hciVars, spiVars, devVars
    <2>3. QED
      BY <2>1, <2>2
  <1>7. CASE ReadBufferSize
    <2>1. FlagsOK'
      BY <1>7, Zenon DEF FlagsOK, ReadBufferSize, Main, locals, hciVars,
        spiVars, wireVars, devVars
    <2>2. DataOK'
      BY <1>7, BoundsAssumption, SwitchesAssumption DEF DataOK, PCs,
        ReadBufferSize, Main, locals, hciVars, spiVars, devVars, Call, Cmds,
        WorkCmds
    <2>3. QED
      BY <2>1, <2>2
  <1>8. CASE Return
    <2>1. FlagsOK'
      BY <1>8, Zenon DEF FlagsOK, Return, Main, locals, hciVars, spiVars,
        wireVars, devVars
    <2>2. DataOK'
      BY <1>8, BoundsAssumption, SwitchesAssumption DEF DataOK, PCs, Return,
        Main, locals, hciVars, spiVars, devVars
    <2>3. QED
      BY <2>1, <2>2
  <1>9. CASE Command
    <2>1. FlagsOK'
      BY <1>9, Zenon DEF FlagsOK, Command, Main, locals, hciVars, spiVars,
        wireVars, devVars
    <2>2. DataOK'
      BY <1>9, BoundsAssumption, SwitchesAssumption DEF DataOK, PCs, Command,
        Main, locals, hciVars, spiVars, devVars, Call, Cmds, WorkCmds
    <2>3. QED
      BY <2>1, <2>2
  <1>10. CASE EnterWaitForDHCP
    <2>1. FlagsOK'
      BY <1>10, Zenon DEF FlagsOK, EnterWaitForDHCP, Main, locals, hciVars,
        spiVars, wireVars, devVars
    <2>2. DataOK'
      BY <1>10, BoundsAssumption, SwitchesAssumption DEF DataOK, PCs,
        EnterWaitForDHCP, Main, locals, hciVars, spiVars, devVars
    <2>3. QED
      BY <2>1, <2>2
  <1>11. CASE LeaveWaitForDHCP
    <2>1. FlagsOK'
      BY <1>11, Zenon DEF FlagsOK, LeaveWaitForDHCP, Main, locals, hciVars,
        spiVars, wireVars, devVars
    <2>2. DataOK'
      BY <1>11, BoundsAssumption, SwitchesAssumption DEF DataOK, PCs,
        LeaveWaitForDHCP, Main, locals, hciVars, spiVars, devVars
    <2>3. QED
      BY <2>1, <2>2
  <1> QED
    BY <1>1, <1>2, <1>3, <1>4, <1>5, <1>6, <1>7, <1>8, <1>9, <1>10, <1>11 DEF
      CallStep

\* of the interrupt,
LEMMA IsrTypeOK == TypeOK /\ Isr => TypeOK'
  <1> SUFFICES ASSUME FlagsOK, DataOK, Isr
               PROVE  FlagsOK' /\ DataOK'
    BY DEF TypeOK
  <1> USE PacketFacts
  <1>1. CASE IsrPowerUp
    <2>1. FlagsOK'
      BY <1>1, Zenon DEF FlagsOK, IsrPowerUp, locals, hciVars, spiVars,
        wireVars, devVars, Interrupt
    <2>2. DataOK'
      BY <1>1, BoundsAssumption, SwitchesAssumption DEF DataOK, PCs,
        IsrPowerUp, locals, hciVars, spiVars, devVars, Interrupt
    <2>3. QED
      BY <2>1, <2>2
  <1>2. CASE IsrRead
    <2>1. FlagsOK'
      <3>1. /\ flag' \in BOOLEAN /\ inten' \in BOOLEAN /\ dhcp' \in BOOLEAN
            /\ latch' \in BOOLEAN /\ cs' \in BOOLEAN /\ irqLow' \in BOOLEAN
            /\ releasing' \in BOOLEAN
        BY <1>2, Zenon DEF IsrRead, IrqAfter, DhcpAfter, HandledUnsol, DeassertCs,
             Interrupt
      <3>2. UNCHANGED <<more, waited, waitData, devWait, devDhcp>>
        BY <1>2 DEF IsrRead, Interrupt, locals
      <3>3. QED
        BY <3>1, <3>2 DEF FlagsOK
    <2>2. DataOK'
      <3>1. rx' \in Packet /\ devq' \in Seq(DevPacket)
        <4>1. CASE devq = <<>>
          BY <1>2, <4>1 DEF IsrRead, DataOK
        <4>2. CASE devq # <<>>
          <5>1. Head(devq) \in DevPacket /\ Tail(devq) \in Seq(DevPacket)
            BY <4>2 DEF DataOK
          <5>2. QED
            BY <1>2, <4>2, <5>1 DEF IsrRead
        <4>3. QED
          BY <4>1, <4>2
      <3>2. UNCHANGED <<pc, locals, spiState, waitOp, dev, inbox, patchLeft,
                        nunsol, acc>>
        BY <1>2 DEF IsrRead, Interrupt
      <3>3. QED
        BY <3>1, <3>2 DEF DataOK, locals
    <2>3. QED
      BY <2>1, <2>2
  <1>3. CASE IsrWrite
    <2>1. FlagsOK'
      BY <1>3, Zenon DEF FlagsOK, IsrWrite, locals, hciVars, spiVars,
        wireVars, devVars, EndWrite, Accepts, DeassertCs, Interrupt
    <2>2. DataOK'
      <3>1. EndWrite
        BY <1>3 DEF IsrWrite
      <3>2. QED
        BY <1>3, <3>1, EndWriteData
        DEF DataOK, PCs, IsrWrite, Interrupt, locals, hciVars
    <2>3. QED
      BY <2>1, <2>2
  <1>4. CASE IsrIgnore
    <2>1. FlagsOK'
      BY <1>4, Zenon DEF FlagsOK, IsrIgnore, locals, hciVars, spiVars,
        wireVars, devVars, Interrupt
    <2>2. DataOK'
      BY <1>4, BoundsAssumption, SwitchesAssumption DEF DataOK, PCs,
        IsrIgnore, locals, hciVars, spiVars, devVars, Interrupt
    <2>3. QED
      BY <2>1, <2>2
  <1> QED
    BY <1>1, <1>2, <1>3, <1>4 DEF Isr

\* and of the controller.
LEMMA DevTypeOK == TypeOK /\ (DevStep \/ DevRequestPatch \/ DevUnsol) => TypeOK'
  <1> SUFFICES ASSUME FlagsOK, DataOK, DevStep \/ DevRequestPatch \/ DevUnsol
               PROVE  FlagsOK' /\ DataOK'
    BY DEF TypeOK
  <1> USE PacketFacts
  <1>1. CASE DevBoot
    <2>1. FlagsOK'
      BY <1>1, Zenon DEF FlagsOK, DevBoot, locals, hciVars, spiVars, wireVars,
        devVars, host, FallingEdge
    <2>2. DataOK'
      BY <1>1, BoundsAssumption, SwitchesAssumption DEF DataOK, PCs, DevBoot,
        locals, hciVars, spiVars, devVars, host
    <2>3. QED
      BY <2>1, <2>2
  <1>2. CASE DevLowerLine
    <2>1. FlagsOK'
      BY <1>2, Zenon DEF FlagsOK, DevLowerLine, locals, hciVars, spiVars,
        wireVars, devVars, host, FallingEdge
    <2>2. DataOK'
      BY <1>2, BoundsAssumption, SwitchesAssumption DEF DataOK, PCs,
        DevLowerLine, locals, hciVars, spiVars, devVars, host
    <2>3. QED
      BY <2>1, <2>2
  <1>3. CASE DevRaiseLine
    <2>1. FlagsOK'
      BY <1>3, Zenon DEF FlagsOK, DevRaiseLine, locals, hciVars, spiVars,
        wireVars, devVars, host, FallingEdge
    <2>2. DataOK'
      BY <1>3, BoundsAssumption, SwitchesAssumption DEF DataOK, PCs,
        DevRaiseLine, locals, hciVars, spiVars, devVars, host
    <2>3. QED
      BY <2>1, <2>2
  <1>4. CASE DevAnswer
    <2>1. FlagsOK'
      BY <1>4, Zenon DEF FlagsOK, DevAnswer, locals, hciVars, spiVars,
        wireVars, devVars, host, FallingEdge
    <2>2. DataOK'
      BY <1>4, BoundsAssumption, SwitchesAssumption DEF DataOK, PCs,
        DevAnswer, locals, hciVars, spiVars, devVars, host
    <2>3. QED
      BY <2>1, <2>2
  <1>5. CASE DevDhcp
    <2>1. FlagsOK'
      BY <1>5, Zenon DEF FlagsOK, DevDhcp, locals, hciVars, spiVars, wireVars,
        devVars, host, FallingEdge
    <2>2. DataOK'
      BY <1>5, BoundsAssumption, SwitchesAssumption DEF DataOK, PCs, DevDhcp,
        locals, hciVars, spiVars, devVars, host, Opcodes, Writes, Cmds,
        WorkCmds, Statuses, Unsol
    <2>3. QED
      BY <2>1, <2>2
  <1>6. CASE DevRequestPatch
    <2>1. FlagsOK'
      BY <1>6, Zenon DEF FlagsOK, DevRequestPatch, locals, hciVars, spiVars,
        wireVars, devVars, host, FallingEdge
    <2>2. DataOK'
      BY <1>6, BoundsAssumption, SwitchesAssumption DEF DataOK, PCs,
        DevRequestPatch, locals, hciVars, spiVars, devVars, host, Opcodes,
        Writes, Cmds, WorkCmds, Statuses, Unsol
    <2>3. QED
      BY <2>1, <2>2
  <1>7. CASE DevUnsol
    <2>1. FlagsOK'
      BY <1>7, Zenon DEF FlagsOK, DevUnsol, locals, hciVars, spiVars,
        wireVars, devVars, host, FallingEdge
    <2>2. DataOK'
      BY <1>7, BoundsAssumption, SwitchesAssumption DEF DataOK, PCs, DevUnsol,
        locals, hciVars, spiVars, devVars, host, Opcodes, Writes, Cmds,
        WorkCmds, Statuses, Unsol
    <2>3. QED
      BY <2>1, <2>2
  <1> QED
    BY <1>1, <1>2, <1>3, <1>4, <1>5, <1>6, <1>7 DEF DevStep

\* Every variable stays in its range, for every value of the constants.
THEOREM DriverTypeOK == Spec => []TypeOK
  <1>1. TypeOK /\ UNCHANGED vars => TypeOK'
    BY DEF TypeOK, FlagsOK, DataOK, vars, locals, hciVars, spiVars, wireVars,
           devVars
  <1>2. TypeOK /\ [Next]_vars => TypeOK'
    BY <1>1, SpiWriteTypeOK, EventTypeOK, CallTypeOK, IsrTypeOK, DevTypeOK
    DEF Next, MainStep
  <1>3. QED
    BY InitTypeOK, <1>2, PTL DEF Spec

-----------------------------------------------------------------------------
(* For any controller, prompt or not: what keeps SpiWrite from waiting for *)
(* an interrupt it has disabled, and the power state of the controller.    *)

Closed   == {"high", "off", "power"}
Calling  == {"setop", "wait", "apply", "clear", "resume", "patch", "check", "ret"}

\* Where the SPI state machine can be at each location; outside a session
\* and from "idle" to "enable" no interrupt can move it.
AnyStateByPc ==
  /\ pc \in {"power", "low"} => spiState \in {"POWERUP", "INITIALIZED"}
  /\ pc = "write" => spiState # "WRITE_IRQ"
  /\ pc = "first" => spiState = "INITIALIZED"
  /\ pc = "enable" => spiState = "WRITE_IRQ"
  /\ pc \in {"pin", "direct", "done"} => spiState \in {"IDLE", "WRITE_IRQ"}
  /\ pc \in {"firstend", "idle", "deassert", "ready", "dhcp", "high"} \cup Calling
       => spiState = "IDLE"
  /\ pc = "off" => spiState \in {"POWERUP", "IDLE"}
  /\ pc \in {"off", "idle", "enable"} => ~inten

\* The controller's power state, seen from the main program.
DevByPc ==
  /\ dev = "off" <=> pc \in Closed
  /\ dev = "boot" => pc = "low" /\ ~irqLow
  /\ pc \in {"off", "power"} => ~irqLow
  /\ inbox # <<>> => dev \in {"ready", "up"}

AnyInv == AnyStateByPc /\ DevByPc

\* The steps of SpiWrite keep it,
LEMMA SpiWriteAnyInv ==
  ASSUME TypeOK, AnyInv, SpiWriteStep, TypeOK'
  PROVE  AnyInv'
<1> USE DEF TypeOK, DataOK, AnyInv, AnyStateByPc, DevByPc, Closed, Calling,
  PCs
<1>1. CASE WriteFirst
  BY <1>1 DEF WriteFirst, Main, MainMayRun, locals, hciVars, spiVars,
    wireVars, devVars, AssertCs
<1>2. CASE WriteFirstEnd
  BY <1>2 DEF WriteFirstEnd, Main, MainMayRun, locals, hciVars, spiVars,
    wireVars, devVars, EndWrite, DeassertCs, Accepts
<1>3. CASE WriteLock
  BY <1>3 DEF WriteLock, Main, MainMayRun, locals, hciVars, spiVars, wireVars,
    devVars
<1>4. CASE WriteAssert
  BY <1>4 DEF WriteAssert, Main, MainMayRun, locals, hciVars, spiVars,
    wireVars, devVars, AssertCs
<1>5. CASE WriteEnable
  BY <1>5 DEF WriteEnable, Main, MainMayRun, locals, hciVars, spiVars,
    wireVars, devVars
<1>6. CASE WritePinLow
  BY <1>6 DEF WritePinLow, Main, MainMayRun, locals, hciVars, spiVars,
    wireVars, devVars
<1>7. CASE WritePinHigh
  BY <1>7 DEF WritePinHigh, Main, MainMayRun, locals, hciVars, spiVars,
    wireVars, devVars
<1>8. CASE WriteDirect
  BY <1>8 DEF WriteDirect, Main, MainMayRun, locals, hciVars, spiVars,
    wireVars, devVars
<1>9. CASE WriteDirectEnd
  BY <1>9 DEF WriteDirectEnd, Main, MainMayRun, locals, hciVars, spiVars,
    wireVars, devVars, EndWrite, DeassertCs, Accepts
<1>10. CASE WriteDone
  BY <1>10 DEF WriteDone, Main, MainMayRun, locals, hciVars, spiVars,
    wireVars, devVars
<1>11. CASE WriteFirstIdle
  BY <1>11 DEF WriteFirstIdle, Main, MainMayRun, locals, hciVars, wireVars,
    devVars
<1> QED
  BY <1>1, <1>2, <1>3, <1>4, <1>5, <1>6, <1>7, <1>8, <1>9, <1>10, <1>11
  DEF SpiWriteStep

\* so do those of the event handler,
LEMMA EventAnyInv ==
  ASSUME TypeOK, AnyInv, EventStep, TypeOK'
  PROVE  AnyInv'
<1> USE DEF TypeOK, DataOK, AnyInv, AnyStateByPc, DevByPc, Closed, Calling,
  PCs
<1>1. CASE WaitEvent
  BY <1>1 DEF WaitEvent, Main, MainMayRun, locals, hciVars, spiVars, wireVars,
    devVars
<1>2. CASE TakePacket
  BY <1>2 DEF TakePacket, Main, MainMayRun, locals, hciVars, spiVars,
    wireVars, devVars
<1>3. CASE ApplyPacket
  BY <1>3 DEF ApplyPacket, Main, MainMayRun, locals, hciVars, spiVars,
    wireVars, devVars
<1>4. CASE ClearFlag
  BY <1>4 DEF ClearFlag, Main, MainMayRun, locals, hciVars, spiVars, wireVars,
    devVars
<1>5. CASE ResumeSpi
  BY <1>5 DEF ResumeSpi, Main, MainMayRun, locals, hciVars, spiVars, wireVars,
    devVars
<1>6. CASE HandlePatch
  BY <1>6 DEF HandlePatch, Main, MainMayRun, locals, hciVars, spiVars,
    wireVars, devVars
<1>7. CASE NoPatch
  BY <1>7 DEF NoPatch, Main, MainMayRun, locals, hciVars, spiVars, wireVars,
    devVars
<1>8. CASE CheckDone
  BY <1>8 DEF CheckDone, Main, MainMayRun, locals, hciVars, spiVars, wireVars,
    devVars
<1> QED
  BY <1>1, <1>2, <1>3, <1>4, <1>5, <1>6, <1>7, <1>8 DEF EventStep

\* of the calls,
LEMMA CallAnyInv ==
  ASSUME TypeOK, AnyInv, CallStep, TypeOK'
  PROVE  AnyInv'
<1> USE DEF TypeOK, DataOK, AnyInv, AnyStateByPc, DevByPc, Closed, Calling,
  PCs
<1>1. CASE Start
  BY <1>1 DEF Start, Main, MainMayRun, locals, hciVars, spiVars, wireVars,
    devVars
<1>2. CASE PowerUp
  BY <1>2 DEF PowerUp, Main, MainMayRun, locals, hciVars, spiVars, wireVars,
    devVars
<1>3. CASE SeeLineLow
  BY <1>3 DEF SeeLineLow, Main, MainMayRun, locals, hciVars, spiVars,
    wireVars, devVars, Call
<1>4. CASE Stop
  BY <1>4 DEF Stop, Main, MainMayRun, locals, hciVars, spiVars, wireVars,
    devVars
<1>5. CASE SpiClose
  BY <1>5 DEF SpiClose, Main, MainMayRun, locals, hciVars, spiVars, wireVars,
    devVars
<1>6. CASE WaitData
  BY <1>6 DEF WaitData, Main, MainMayRun, locals, hciVars, spiVars, wireVars,
    devVars
<1>7. CASE ReadBufferSize
  BY <1>7 DEF ReadBufferSize, Main, MainMayRun, locals, hciVars, spiVars,
    wireVars, devVars, Call
<1>8. CASE Return
  BY <1>8 DEF Return, Main, MainMayRun, locals, hciVars, spiVars, wireVars,
    devVars
<1>9. CASE Command
  BY <1>9 DEF Command, Main, MainMayRun, locals, hciVars, spiVars, wireVars,
    devVars, Call
<1>10. CASE EnterWaitForDHCP
  BY <1>10 DEF EnterWaitForDHCP, Main, MainMayRun, locals, hciVars, spiVars,
    wireVars, devVars
<1>11. CASE LeaveWaitForDHCP
  BY <1>11 DEF LeaveWaitForDHCP, Main, MainMayRun, locals, hciVars, spiVars,
    wireVars, devVars
<1> QED
  BY <1>1, <1>2, <1>3, <1>4, <1>5, <1>6, <1>7, <1>8, <1>9, <1>10, <1>11 DEF
    CallStep

\* of the interrupt
LEMMA IsrAnyInv ==
  ASSUME TypeOK, AnyInv, Isr, TypeOK'
  PROVE  AnyInv'
<1> USE DEF TypeOK, DataOK, AnyInv, AnyStateByPc, DevByPc, Closed, Calling,
  PCs
<1>1. CASE IsrPowerUp
  BY <1>1 DEF IsrPowerUp, Interrupt, locals, hciVars, spiVars, wireVars,
    devVars
<1>2. CASE IsrRead
  <2>1. irqLow' => irqLow
    BY <1>2, Zenon DEF IsrRead, DeassertCs
  <2>2. /\ pc' = pc /\ dev' = dev /\ inbox' = inbox
        /\ spiState = "IDLE" /\ spiState' = "IDLE"
    BY <1>2 DEF IsrRead, Interrupt
  <2>3. latch /\ inten
    BY <1>2 DEF IsrRead, Interrupt
  <2>4. AnyStateByPc'
    BY <2>2, <2>3
  <2>5. DevByPc'
    BY <2>1, <2>2
  <2> QED
    BY <2>4, <2>5
<1>3. CASE IsrWrite
  BY <1>3 DEF IsrWrite, Interrupt, locals, hciVars, spiVars, wireVars,
    devVars, EndWrite, DeassertCs, Accepts
<1>4. CASE IsrIgnore
  BY <1>4 DEF IsrIgnore, Interrupt, locals, hciVars, spiVars, wireVars,
    devVars
<1> QED
  BY <1>1, <1>2, <1>3, <1>4 DEF Isr

\* and of the controller.
LEMMA DevAnyInv ==
  ASSUME TypeOK, AnyInv, DevStep \/ DevRequestPatch \/ DevUnsol, TypeOK'
  PROVE  AnyInv'
<1> USE DEF TypeOK, DataOK, AnyInv, AnyStateByPc, DevByPc, Closed, Calling,
  PCs
<1>1. CASE DevBoot
  BY <1>1 DEF DevBoot, host, FallingEdge, locals, hciVars, spiVars, wireVars,
    devVars
<1>2. CASE DevLowerLine
  BY <1>2 DEF DevLowerLine, host, FallingEdge, locals, hciVars, spiVars,
    wireVars, devVars
<1>3. CASE DevRaiseLine
  BY <1>3 DEF DevRaiseLine, host, FallingEdge, locals, hciVars, spiVars,
    wireVars, devVars
<1>4. CASE DevAnswer
  BY <1>4 DEF DevAnswer, host, FallingEdge, locals, hciVars, spiVars,
    wireVars, devVars
<1>5. CASE DevDhcp
  BY <1>5 DEF DevDhcp, host, FallingEdge, locals, hciVars, spiVars, wireVars,
    devVars
<1>6. CASE DevRequestPatch
  BY <1>6 DEF DevRequestPatch, host, FallingEdge, locals, hciVars, spiVars,
    wireVars, devVars
<1>7. CASE DevUnsol
  BY <1>7 DEF DevUnsol, host, FallingEdge, locals, hciVars, spiVars, wireVars,
    devVars
<1> QED
  BY <1>1, <1>2, <1>3, <1>4, <1>5, <1>6, <1>7 DEF DevStep


\* Whatever the controller does, the invariant holds throughout.
LEMMA DriverAnyInv == Spec => [](TypeOK /\ AnyInv)
<1>1. Init => TypeOK /\ AnyInv
  BY InitTypeOK DEF Init, AnyInv, AnyStateByPc, DevByPc, Closed, Calling
<1>2. ASSUME TypeOK, AnyInv, [Next]_vars, TypeOK' PROVE AnyInv'
  <2>1. CASE UNCHANGED vars
    BY <1>2, <2>1 DEF vars, locals, hciVars, spiVars, wireVars, devVars,
      AnyInv, AnyStateByPc, DevByPc
  <2>2. CASE Next
    BY <1>2, <2>2, SpiWriteAnyInv, EventAnyInv, CallAnyInv, IsrAnyInv,
       DevAnyInv DEF Next, MainStep
  <2> QED
    BY <1>2, <2>1, <2>2
<1> QED
  BY <1>1, <1>2, DriverTypeOK, PTL DEF Spec

-----------------------------------------------------------------------------
(* With a controller that releases the IRQ line with CS, the location of   *)
(* the main program also fixes the wires, the interrupt and what of the    *)
(* current command the controller has accepted.                            *)

\* Where the SPI state machine can be at each location.
StateByPc ==
  /\ pc \in {"power", "low"} => spiState \in {"POWERUP", "INITIALIZED"}
  /\ pc = "write" => spiState # "WRITE_IRQ"
  /\ pc = "first" => spiState = "INITIALIZED"
  /\ pc = "enable" => spiState = "WRITE_IRQ"
  /\ pc \in {"pin", "done"} => spiState \in {"IDLE", "WRITE_IRQ"}
  /\ pc \in {"firstend", "idle", "direct", "deassert", "ready", "dhcp", "high"}
            \cup Calling
       => spiState = "IDLE"
  /\ pc = "off" => spiState \in {"POWERUP", "IDLE"}

\* Where the interrupt is enabled, disabled, or depends on the last packet.
IntenByPc ==
  /\ pc \in {"off", "idle", "enable", "direct", "deassert"} => ~inten
  /\ pc # "off" /\ spiState \in {"POWERUP", "INITIALIZED"} => inten
  /\ spiState = "WRITE_IRQ" => pc = "enable" \/ inten
  /\ pc = "high" => ~(latch /\ inten)

\* CS is asserted from WriteFirst or WriteAssert until the packet is sent; the
\* first is written while the line is low, so that no edge can come.
Wires ==
  /\ ~releasing
  /\ cs <=> (pc \in {"first", "firstend"} \/ spiState = "WRITE_IRQ")
  /\ irqLow => latch \/ spiState = "INITIALIZED" \/ pc = "firstend"
  /\ pc = "write" /\ spiState \in {"POWERUP", "INITIALIZED"} => irqLow
  /\ pc = "first" => irqLow
  /\ pc = "firstend" => irqLow /\ inten /\ ~latch
  /\ latch /\ spiState = "IDLE" /\ pc \notin Closed => devq # <<>>

\* How often the controller has accepted the current command.
AccByPc ==
  /\ acc \in {0, 1}
  /\ wr = "cmd" /\ (\/ pc \in {"write", "first", "firstend", "idle"}
                    \/ spiState = "WRITE_IRQ")
       => acc = 0
  /\ wr = "cmd" /\ pc \in {"pin", "direct", "deassert", "done"}
     /\ spiState = "IDLE" => acc = 1
  /\ pc \in {"write", "first", "firstend", "idle", "enable", "pin", "direct",
            "deassert", "done"}
     /\ wr = "patch" => acc = 1
  /\ pc \in Calling => acc = 1

LocInv == StateByPc /\ IntenByPc /\ Wires /\ AccByPc /\ NoJunkRead

IInv == TypeOK /\ AnyInv /\ LocInv

-----------------------------------------------------------------------------
(* The invariant is preserved *)

\* DEASSERT_CS after a transfer with CS asserted, when the line is released at
\* once: the wires go idle and a command is counted as accepted.
LEMMA EndWriteEffect ==
  ASSUME PromptRelease, TypeOK, cs, EndWrite
  PROVE  /\ ~cs' /\ ~irqLow' /\ ~releasing'
         /\ dev' = dev /\ devq' = devq
         /\ wr = "cmd" => acc' = acc + 1
         /\ wr = "patch" => acc' = acc
  <1>1. ~cs' /\ ~irqLow' /\ ~releasing'
    BY Zenon DEF EndWrite, DeassertCs
  <1>2. dev' = dev /\ devq' = devq
    BY DEF EndWrite, Accepts
  <1>3. acc' = IF Written = "PATCH" THEN acc ELSE acc + 1
    BY DEF EndWrite, Accepts
  <1>4. op # "PATCH"
    BY DEF TypeOK, DataOK, Cmds, WorkCmds
  <1>5. QED
    BY <1>1, <1>2, <1>3, <1>4 DEF Written

\* The steps of SpiWrite keep the location invariant.
LEMMA SpiWriteInv ==
  ASSUME PromptRelease, TypeOK, AnyInv, LocInv, SpiWriteStep, TypeOK'
  PROVE  LocInv'
  <1> USE DEF TypeOK, FlagsOK, DataOK, AnyInv, AnyStateByPc, DevByPc, LocInv,
              StateByPc, IntenByPc, Wires, AccByPc, NoJunkRead, Closed, Calling,
              PCs
  <1>1. CASE WriteFirst
    BY <1>1 DEF WriteFirst, Main, MainMayRun, locals, hciVars, spiVars,
      wireVars, devVars, AssertCs
  <1>2. CASE WriteFirstEnd
    <2>1. cs /\ EndWrite
      BY <1>2 DEF WriteFirstEnd, Main
    <2>2. ~latch' /\ rx' = rx /\ flag' = flag /\ wr' = wr
      BY <1>2 DEF WriteFirstEnd, Main, MainMayRun, locals, hciVars
    <2>3. spiState' = "IDLE" /\ pc = "firstend" /\ pc' = "done"
      BY <1>2 DEF WriteFirstEnd, Main, spiVars
    <2>4. QED
      BY <2>1, <2>2, <2>3, EndWriteEffect
  <1>3. CASE WriteLock
    BY <1>3 DEF WriteLock, Main, MainMayRun, locals, hciVars, spiVars,
      wireVars, devVars
  <1>4. CASE WriteAssert
    BY <1>4 DEF WriteAssert, Main, MainMayRun, locals, hciVars, spiVars,
      wireVars, devVars, AssertCs
  <1>5. CASE WriteEnable
    BY <1>5 DEF WriteEnable, Main, MainMayRun, locals, hciVars, spiVars,
      wireVars, devVars
  <1>6. CASE WritePinLow
    BY <1>6 DEF WritePinLow, Main, MainMayRun, locals, hciVars, spiVars,
      wireVars, devVars
  <1>7. CASE WritePinHigh
    BY <1>7 DEF WritePinHigh, Main, MainMayRun, locals, hciVars, spiVars,
      wireVars, devVars
  <1>8. CASE WriteDirect
    BY <1>8 DEF WriteDirect, Main, MainMayRun, locals, hciVars, spiVars,
      wireVars, devVars
  <1>9. CASE WriteDirectEnd
    BY <1>9 DEF WriteDirectEnd, Main, MainMayRun, locals, hciVars, spiVars,
      wireVars, devVars, EndWrite, DeassertCs, Accepts, Written
  <1>10. CASE WriteDone
    BY <1>10 DEF WriteDone, Main, MainMayRun, locals, hciVars, spiVars,
      wireVars, devVars
  <1>11. CASE WriteFirstIdle
    BY <1>11 DEF WriteFirstIdle, Main, MainMayRun, locals, hciVars, wireVars,
      devVars
  <1> QED
    BY <1>1, <1>2, <1>3, <1>4, <1>5, <1>6, <1>7, <1>8, <1>9, <1>10, <1>11
    DEF SpiWriteStep

\* So do those of the event handler,
LEMMA EventInv ==
  ASSUME PromptRelease, TypeOK, AnyInv, LocInv, EventStep, TypeOK'
  PROVE  LocInv'
  <1> USE DEF TypeOK, FlagsOK, DataOK, AnyInv, AnyStateByPc, DevByPc, LocInv,
              StateByPc, IntenByPc, Wires, AccByPc, NoJunkRead, Closed, Calling,
              PCs
  <1>1. CASE WaitEvent
    BY <1>1 DEF WaitEvent, Main, MainMayRun, locals, hciVars, spiVars,
      wireVars, devVars
  <1>2. CASE TakePacket
    BY <1>2 DEF TakePacket, Main, MainMayRun, locals, hciVars, spiVars,
      wireVars, devVars
  <1>3. CASE ApplyPacket
    BY <1>3 DEF ApplyPacket, Main, MainMayRun, locals, hciVars, spiVars,
      wireVars, devVars
  <1>4. CASE ClearFlag
    BY <1>4 DEF ClearFlag, Main, MainMayRun, locals, hciVars, spiVars,
      wireVars, devVars
  <1>5. CASE ResumeSpi
    BY <1>5 DEF ResumeSpi, Main, MainMayRun, locals, hciVars, spiVars,
      wireVars, devVars
  <1>6. CASE HandlePatch
    BY <1>6 DEF HandlePatch, Main, MainMayRun, locals, hciVars, spiVars,
      wireVars, devVars
  <1>7. CASE NoPatch
    BY <1>7 DEF NoPatch, Main, MainMayRun, locals, hciVars, spiVars, wireVars,
      devVars
  <1>8. CASE CheckDone
    BY <1>8 DEF CheckDone, Main, MainMayRun, locals, hciVars, spiVars,
      wireVars, devVars
  <1> QED
    BY <1>1, <1>2, <1>3, <1>4, <1>5, <1>6, <1>7, <1>8 DEF EventStep

\* of the calls,
LEMMA CallInv ==
  ASSUME PromptRelease, TypeOK, AnyInv, LocInv, CallStep, TypeOK'
  PROVE  LocInv'
  <1> USE DEF TypeOK, FlagsOK, DataOK, AnyInv, AnyStateByPc, DevByPc, LocInv,
              StateByPc, IntenByPc, Wires, AccByPc, NoJunkRead, Closed, Calling,
              PCs
  <1>1. CASE Start
    BY <1>1 DEF Start, Main, MainMayRun, locals, hciVars, spiVars, wireVars,
      devVars
  <1>2. CASE PowerUp
    BY <1>2 DEF PowerUp, Main, MainMayRun, locals, hciVars, spiVars, wireVars,
      devVars
  <1>3. CASE SeeLineLow
    BY <1>3 DEF SeeLineLow, Main, MainMayRun, locals, hciVars, spiVars,
      wireVars, devVars, Call
  <1>4. CASE Stop
    BY <1>4 DEF Stop, Main, MainMayRun, locals, hciVars, spiVars, wireVars,
      devVars
  <1>5. CASE SpiClose
    BY <1>5 DEF SpiClose, Main, MainMayRun, locals, hciVars, spiVars,
      wireVars, devVars
  <1>6. CASE WaitData
    BY <1>6 DEF WaitData, Main, MainMayRun, locals, hciVars, spiVars,
      wireVars, devVars
  <1>7. CASE ReadBufferSize
    BY <1>7 DEF ReadBufferSize, Main, MainMayRun, locals, hciVars, spiVars,
      wireVars, devVars, Call
  <1>8. CASE Return
    BY <1>8 DEF Return, Main, MainMayRun, locals, hciVars, spiVars, wireVars,
      devVars
  <1>9. CASE Command
    BY <1>9 DEF Command, Main, MainMayRun, locals, hciVars, spiVars, wireVars,
      devVars, Call
  <1>10. CASE EnterWaitForDHCP
    BY <1>10 DEF EnterWaitForDHCP, Main, MainMayRun, locals, hciVars, spiVars,
      wireVars, devVars
  <1>11. CASE LeaveWaitForDHCP
    BY <1>11 DEF LeaveWaitForDHCP, Main, MainMayRun, locals, hciVars, spiVars,
      wireVars, devVars
  <1> QED
    BY <1>1, <1>2, <1>3, <1>4, <1>5, <1>6, <1>7, <1>8, <1>9, <1>10, <1>11 DEF
      CallStep

\* of the interrupt,
LEMMA IsrInv ==
  ASSUME PromptRelease, TypeOK, AnyInv, LocInv, Isr, TypeOK'
  PROVE  LocInv'
  <1> USE DEF TypeOK, FlagsOK, DataOK, AnyInv, AnyStateByPc, DevByPc, LocInv,
              StateByPc, IntenByPc, Wires, AccByPc, NoJunkRead, Closed, Calling,
              PCs
  <1>1. CASE IsrPowerUp
    BY <1>1 DEF IsrPowerUp, locals, hciVars, spiVars, wireVars, devVars,
      Interrupt
  <1>2. CASE IsrRead
    <2>1. devq # <<>>
      BY <1>2 DEF IsrRead, Interrupt
    <2>2. Head(devq) # Junk
      <3>1. Head(devq) \in DevPacket
        BY <2>1
      <3>2. QED
        BY <3>1 DEF DevPacket, Junk, Pkt
    <2>3. rx' # Junk
      BY <1>2, <2>1, <2>2 DEF IsrRead
    <2>4. ~latch' /\ ~cs' /\ ~irqLow' /\ ~releasing'
      BY <1>2, Zenon DEF IsrRead, Interrupt, DeassertCs
    <2>5. pc' = pc /\ wr' = wr /\ acc' = acc /\ dev' = dev
          /\ spiState = "IDLE" /\ spiState' = "IDLE"
      BY <1>2 DEF IsrRead, Interrupt, locals
    <2>6. latch /\ inten
      BY <1>2 DEF IsrRead, Interrupt
    <2>7. QED
      BY <2>3, <2>4, <2>5, <2>6
  <1>3. CASE IsrWrite
    <2>1. cs /\ EndWrite
      BY <1>3 DEF IsrWrite, Interrupt
    <2>2. ~latch' /\ inten' /\ rx' = rx /\ flag' = flag /\ wr' = wr /\ pc' = pc
      BY <1>3 DEF IsrWrite, Interrupt, locals, hciVars
    <2>3. spiState = "WRITE_IRQ" /\ spiState' = "IDLE"
      BY <1>3 DEF IsrWrite, Interrupt
    <2>4. pc \in {"pin", "done"}
      BY <1>3, <2>3 DEF IsrWrite, Interrupt
    <2>5. dev \in {"ready", "up"} /\ dev' = dev /\ devq' = devq
      BY <2>1, <2>4, EndWriteEffect
    <2>6. /\ wr = "cmd" => acc' = 1
          /\ wr = "patch" => acc' = 1
      BY <2>1, <2>3, <2>4, EndWriteEffect
    <2>7. QED
      BY <2>1, <2>2, <2>3, <2>4, <2>5, <2>6, EndWriteEffect
  <1>4. CASE IsrIgnore
    BY <1>4 DEF IsrIgnore, locals, hciVars, spiVars, wireVars, devVars,
      Interrupt
  <1> QED
    BY <1>1, <1>2, <1>3, <1>4 DEF Isr

\* and of the controller.
LEMMA DevInv ==
  ASSUME PromptRelease, TypeOK, AnyInv, LocInv, DevStep \/ DevRequestPatch \/ DevUnsol, TypeOK'
  PROVE  LocInv'
  <1> USE DEF TypeOK, FlagsOK, DataOK, AnyInv, AnyStateByPc, DevByPc, LocInv,
              StateByPc, IntenByPc, Wires, AccByPc, NoJunkRead, Closed, Calling,
              PCs
  <1>1. CASE DevBoot
    BY <1>1 DEF DevBoot, locals, hciVars, spiVars, wireVars, devVars, host,
      FallingEdge
  <1>2. CASE DevLowerLine
    BY <1>2 DEF DevLowerLine, locals, hciVars, spiVars, wireVars, devVars,
      host, FallingEdge
  <1>3. CASE DevRaiseLine
    BY <1>3 DEF DevRaiseLine, locals, hciVars, spiVars, wireVars, devVars,
      host, FallingEdge
  <1>4. CASE DevAnswer
    <2>1. devq # <<>> => devq' # <<>>
      <3>1. PICK r \in Replies(Head(inbox)) : devq' = devq \o r
        BY <1>4 DEF DevAnswer
      <3>2. Head(inbox) \in Cmds
        BY <1>4 DEF DevAnswer
      <3>3. r \in Seq(DevPacket)
        BY <3>1, <3>2, PacketFacts
      <3>4. QED
        BY <3>1, <3>3
    <2>2. /\ dev' = (IF Head(inbox) = "START" THEN "up" ELSE dev)
          /\ UNCHANGED <<pc, wr, acc, spiState, inten, rx, flag, latch, cs,
                        irqLow, releasing>>
      BY <1>4 DEF DevAnswer, host, locals, hciVars, spiVars, wireVars
    <2>3. dev \in {"ready", "up"}
      BY <1>4 DEF DevAnswer
    <2>4. QED
      BY <2>1, <2>2, <2>3
  <1>5. CASE DevDhcp
    BY <1>5 DEF DevDhcp, locals, hciVars, spiVars, wireVars, devVars, host,
      FallingEdge
  <1>6. CASE DevRequestPatch
    BY <1>6 DEF DevRequestPatch, locals, hciVars, spiVars, wireVars, devVars,
      host, FallingEdge
  <1>7. CASE DevUnsol
    BY <1>7 DEF DevUnsol, locals, hciVars, spiVars, wireVars, devVars, host,
      FallingEdge
  <1> QED
    BY <1>1, <1>2, <1>3, <1>4, <1>5, <1>6, <1>7 DEF DevStep

\* The location invariant holds initially,
LEMMA InitInv == Init => LocInv
  BY DEF Init, LocInv, StateByPc, IntenByPc, Wires, AccByPc, NoJunkRead, Closed,
         Calling

\* and every step keeps it.
LEMMA NextInv ==
  ASSUME PromptRelease, TypeOK, AnyInv, LocInv, [Next]_vars, TypeOK'
  PROVE  LocInv'
  <1>1. CASE UNCHANGED vars
    BY <1>1 DEF vars, locals, hciVars, spiVars, wireVars, devVars, LocInv,
                StateByPc, IntenByPc, Wires, AccByPc, NoJunkRead
  <1>2. CASE Next
    BY <1>2, SpiWriteInv, EventInv, CallInv, IsrInv, DevInv DEF Next, MainStep
  <1>3. QED
    BY <1>1, <1>2

\* The location invariant holds throughout, when the controller releases the
\* IRQ line with CS.
LEMMA DriverInv == ASSUME PromptRelease PROVE Spec => []IInv
  <1>1. Init => LocInv
    BY InitInv
  <1>2. ASSUME TypeOK, AnyInv, LocInv, [Next]_vars, TypeOK' PROVE LocInv'
    BY <1>2, NextInv
  <1>3. TypeOK /\ AnyInv /\ LocInv => IInv
    BY DEF IInv
  <1>4. QED
    BY <1>1, <1>2, <1>3, DriverAnyInv, DriverTypeOK, PTL DEF Spec

-----------------------------------------------------------------------------
(* What the invariant gives *)

\* Each command is accepted by the controller once: the interrupt and the pin
\* check of SpiWrite never both deliver it, and the wait for the answer never
\* begins before it was delivered.
THEOREM CommandsAcceptedOnce == ASSUME PromptRelease PROVE Spec => []AcceptedOnce
  <1>1. IInv => AcceptedOnce
    BY DEF IInv, LocInv, AccByPc, Calling, AcceptedOnce
  <1>2. QED
    BY <1>1, DriverInv, PTL

\* The interrupt moves no bytes during a transfer of the main program.
THEOREM BusIsExclusive == ASSUME PromptRelease PROVE Spec => []ExclusiveBus
  <1>1. IInv => ExclusiveBus
    BY DEF IInv, LocInv, IntenByPc, StateByPc, Wires, ExclusiveBus
  <1>2. QED
    BY <1>1, DriverInv, PTL

\* SpiWrite never waits, with the interrupt off, for what only it can bring:
\* for any controller, prompt or not, with all it may send.
THEOREM NoSelfDeadlock == Spec => []NoSpinWithIrqOff
  <1>1. AnyInv => NoSpinWithIrqOff
    BY DEF AnyInv, AnyStateByPc, NoSpinWithIrqOff
  <1>2. QED
    BY <1>1, DriverAnyInv, PTL

\* wlan_start finds the IRQ line high: wlan_stop has waited for it, and a
\* controller that is off does not lower it, whatever was left of the session.
THEOREM LineIsHighAtPowerUp == Spec => []LineHighAtPowerUp
  <1>1. AnyInv => LineHighAtPowerUp
    BY DEF AnyInv, DevByPc, LineHighAtPowerUp
  <1>2. QED
    BY <1>1, DriverAnyInv, PTL

\* The interrupt reads only packets the controller has, edges latched in an
\* earlier session included.
THEOREM ReadsAreReal == ASSUME PromptRelease PROVE Spec => []NoJunkRead
  <1>1. IInv => NoJunkRead
    BY DEF IInv, LocInv
  <1>2. QED
    BY <1>1, DriverInv, PTL

\* The first command of a session goes to a controller that has booted, for
\* any controller and whatever edge an earlier session left latched.
THEOREM FirstWriteReady == Spec => []FirstWriteAfterBoot
  <1>1. TypeOK /\ AnyInv => FirstWriteAfterBoot
    BY DEF TypeOK, DataOK, AnyInv, DevByPc, Closed, FirstWriteAfterBoot
  <1>2. QED
    BY <1>1, DriverAnyInv, PTL

-----------------------------------------------------------------------------
(* The invariant of the exchange.  It follows the answer to the command in *)
(* progress, and the data packet that may come behind it, from the         *)
(* controller's queue through the buffer to the call that awaits them.     *)

Sending  == {"write", "first", "firstend", "idle", "enable", "pin", "direct",
             "deassert", "done"}
Handling == Calling \ {"setop"}

\* The command of the call has been accepted and its answer is awaited, or
\* has been: also while a patch response is sent in between.
After == pc \in Handling \/ (wr = "patch" /\ pc \in Sending)

IsAnswer(p) == p.opcode \in Cmds
IsData(p)   == p.opcode = "DATA"

AnswerIn == flag /\ IsAnswer(rx)
DataIn   == flag /\ IsData(rx)
NoAnswer == \A i \in DOMAIN devq : ~IsAnswer(devq[i])
NoData   == \A i \in DOMAIN devq : ~IsData(devq[i])

\* Nothing of an exchange is on its way,
Quiet == inbox = <<>> /\ NoAnswer /\ NoData /\ ~AnswerIn /\ ~DataIn

\* and the event handler awaits nothing.
AwaitsNothing == waitOp = "none" /\ ~more /\ ~waitData

\* What the controller has queued: at most one answer, to the command in
\* progress, and at most one data packet, behind the answer that announced it.
QueueInv ==
  /\ \A i \in DOMAIN devq :
       IsAnswer(devq[i]) => devq[i].opcode = op
  /\ \A i, j \in DOMAIN devq :
       /\ IsAnswer(devq[i]) /\ IsAnswer(devq[j]) => i = j
       /\ IsData(devq[i]) /\ IsData(devq[j]) => i = j
       /\ IsAnswer(devq[i]) /\ IsData(devq[j])
            => i < j /\ devq[i].status = "ok"
  /\ NoData \/ op = "RECV"

\* An answer in the buffer is the only one, and announces what data follow;
\* nothing follows data.
BufferInv ==
  /\ flag => rx.opcode # "JUNK"
  /\ AnswerIn => rx.opcode = op /\ NoAnswer /\ (rx.status = "ok" \/ NoData)
  /\ DataIn => NoAnswer /\ NoData /\ op = "RECV"

\* A command the controller has accepted and not answered is the one in
\* progress, and nothing of an answer exists yet.
InboxInv ==
  inbox # <<>> =>
    /\ inbox = <<op>> /\ acc = 1
    /\ pc \in Sending \cup Calling
    /\ NoAnswer /\ NoData /\ ~AnswerIn /\ ~DataIn
    /\ After => waitOp = op

\* The packet the event handler has taken.
TakenInv ==
  /\ pc = "apply" => rcvd.opcode # "JUNK"
  /\ pc = "apply" /\ IsAnswer(rcvd) =>
       /\ rcvd.opcode = op /\ waitOp = op /\ inbox = <<>> /\ NoAnswer
       /\ rcvd.status = "ok" \/ (NoData /\ ~DataIn)
  /\ pc = "apply" /\ IsData(rcvd) => inbox = <<>> /\ NoAnswer /\ NoData

\* What is awaited at each location.
WaitInv ==
  /\ pc \in Closed \cup {"low", "ready", "dhcp"} => Quiet /\ AwaitsNothing
  /\ pc \in Sending /\ acc = 0 => Quiet
  /\ pc \in Sending \cup {"setop"} /\ ~After => AwaitsNothing
  /\ After =>
       /\ waitOp \in {op, "none"}
       /\ waitOp = op => ~more /\ ~waitData
       /\ waitOp = "none" =>
            /\ inbox = <<>> /\ NoAnswer
            /\ AnswerIn => pc = "clear"
            /\ ~NoData \/ (DataIn /\ pc # "clear") => more \/ waitData
  /\ pc = "ret" => waitOp = "none" /\ ~waitData

ExInv == QueueInv /\ BufferInv /\ InboxInv /\ TakenInv /\ WaitInv

-----------------------------------------------------------------------------
(* Steps that leave the controller's queue alone *)

\* A queue that does not change holds the same packets.
LEMMA SameQueue ==
  ASSUME devq' = devq
  PROVE  NoAnswer' = NoAnswer /\ NoData' = NoData
BY DEF NoAnswer, NoData

\* A step that leaves the queue alone, and gives the buffer no new packet,
\* keeps what is said of both; a new command begins when nothing is in them.
LEMMA SameQueueInv ==
  ASSUME QueueInv, BufferInv, UNCHANGED <<devq, rx>>, flag' => flag,
         op' = op \/ Quiet
  PROVE  QueueInv' /\ BufferInv'
<1>1. CASE op' = op
  BY <1>1 DEF QueueInv, BufferInv, AnswerIn, DataIn, NoAnswer, NoData
<1>2. CASE Quiet
  <2>1. NoAnswer' /\ NoData' /\ ~AnswerIn' /\ ~DataIn'
    BY <1>2 DEF Quiet, NoAnswer, NoData, AnswerIn, DataIn
  <2>2. QueueInv'
    BY <2>1 DEF QueueInv, NoAnswer, NoData
  <2> QED
    BY <2>1, <2>2 DEF BufferInv
<1> QED
  BY <1>1, <1>2

\* The command in progress is a command; answers to commands and data are
\* different packets.
LEMMA OpFacts ==
  ASSUME TypeOK
  PROVE  /\ op \in Cmds /\ op # "none"
         /\ \A p : ~(IsAnswer(p) /\ IsData(p))
         /\ \A p : IsAnswer(p) \/ IsData(p) => p.opcode # "PATCH"
BY DEF TypeOK, DataOK, Cmds, WorkCmds, IsAnswer, IsData

\* A packet that is written while CS is asserted is accepted: a command when
\* nothing of an earlier exchange is left, a patch response beside it.
LEMMA SentPacket ==
  ASSUME IInv, ExInv, cs, EndWrite
  PROVE  /\ devq' = devq /\ pc \in Sending
         /\ wr = "cmd" => Quiet /\ inbox' = <<op>> /\ acc' = 1
         /\ wr = "patch" => inbox' = inbox /\ acc' = acc
<1> USE DEF IInv, TypeOK, DataOK, LocInv, StateByPc, Wires, AccByPc, Sending,
            Closed, Calling, PCs
<1>1. devq' = devq
  BY DEF EndWrite, Accepts
<1>2. pc \in Sending
  OBVIOUS
<1>3. ASSUME wr = "cmd" PROVE Quiet /\ inbox' = <<op>> /\ acc' = 1
  <2>1. acc = 0
    BY <1>3
  <2>2. Quiet
    BY <1>2, <2>1 DEF ExInv, WaitInv
  <2>3. Written = op /\ op # "PATCH"
    BY <1>3 DEF Written, Cmds, WorkCmds
  <2>4. inbox' = Append(inbox, op) /\ acc' = acc + 1
    BY <2>3 DEF EndWrite, Accepts
  <2> QED
    BY <2>1, <2>2, <2>4 DEF Quiet
<1>4. ASSUME wr = "patch" PROVE inbox' = inbox /\ acc' = acc
  BY <1>4 DEF EndWrite, Accepts, Written
<1> QED
  BY <1>1, <1>2, <1>3, <1>4

\* The steps of SpiWrite keep the invariant of the exchange,
LEMMA SpiWriteExInv ==
  ASSUME IInv, IInv', ExInv, SpiWriteStep
  PROVE  ExInv'
<1> USE DEF IInv, TypeOK, FlagsOK, DataOK, ExInv, Sending, Handling, Calling,
            Closed, After, InboxInv, TakenInv, WaitInv, Quiet, AwaitsNothing,
            AnswerIn, DataIn
<1>1. CASE WriteFirst
  <2>1. QueueInv' /\ BufferInv'
    BY <1>1, SameQueueInv DEF WriteFirst, Main, locals, hciVars, spiVars,
      wireVars, devVars, AssertCs
  <2>2. InboxInv' /\ TakenInv' /\ WaitInv'
    BY <1>1, SameQueue DEF WriteFirst, Main, locals, hciVars, spiVars,
      wireVars, devVars, AssertCs
  <2> QED
    BY <2>1, <2>2
<1>2. CASE WriteFirstEnd
  <2>1. /\ pc = "firstend" /\ pc' = "done" /\ EndWrite
        /\ UNCHANGED <<op, wr, rcvd, more, rx, flag, waitOp, waitData>>
    BY <1>2 DEF WriteFirstEnd, Main, locals, hciVars
  <2>2. cs
    BY <2>1 DEF LocInv, Wires
  <2>3. QueueInv' /\ BufferInv'
    BY <2>1, <2>2, SentPacket, SameQueueInv
  <2>4. InboxInv' /\ TakenInv' /\ WaitInv'
    BY <2>1, <2>2, SentPacket, SameQueue, OpFacts
  <2> QED
    BY <2>3, <2>4
<1>3. CASE WriteLock
  <2>1. QueueInv' /\ BufferInv'
    BY <1>3, SameQueueInv DEF WriteLock, Main, locals, hciVars, spiVars,
      wireVars, devVars
  <2>2. InboxInv' /\ TakenInv' /\ WaitInv'
    BY <1>3, SameQueue DEF WriteLock, Main, locals, hciVars, spiVars,
      wireVars, devVars
  <2> QED
    BY <2>1, <2>2
<1>4. CASE WriteAssert
  <2>1. QueueInv' /\ BufferInv'
    BY <1>4, SameQueueInv DEF WriteAssert, Main, locals, hciVars, spiVars,
      wireVars, devVars, AssertCs
  <2>2. InboxInv' /\ TakenInv' /\ WaitInv'
    BY <1>4, SameQueue DEF WriteAssert, Main, locals, hciVars, spiVars,
      wireVars, devVars, AssertCs
  <2> QED
    BY <2>1, <2>2
<1>5. CASE WriteEnable
  <2>1. QueueInv' /\ BufferInv'
    BY <1>5, SameQueueInv DEF WriteEnable, Main, locals, hciVars, spiVars,
      wireVars, devVars
  <2>2. InboxInv' /\ TakenInv' /\ WaitInv'
    BY <1>5, SameQueue DEF WriteEnable, Main, locals, hciVars, spiVars,
      wireVars, devVars
  <2> QED
    BY <2>1, <2>2
<1>6. CASE WritePinLow
  <2>1. QueueInv' /\ BufferInv'
    BY <1>6, SameQueueInv DEF WritePinLow, Main, locals, hciVars, spiVars,
      wireVars, devVars
  <2>2. InboxInv' /\ TakenInv' /\ WaitInv'
    BY <1>6, SameQueue DEF WritePinLow, Main, locals, hciVars, spiVars,
      wireVars, devVars
  <2> QED
    BY <2>1, <2>2
<1>7. CASE WritePinHigh
  <2>1. QueueInv' /\ BufferInv'
    BY <1>7, SameQueueInv DEF WritePinHigh, Main, locals, hciVars, spiVars,
      wireVars, devVars
  <2>2. InboxInv' /\ TakenInv' /\ WaitInv'
    BY <1>7, SameQueue DEF WritePinHigh, Main, locals, hciVars, spiVars,
      wireVars, devVars
  <2> QED
    BY <2>1, <2>2
<1>8. CASE WriteDirect
  <2>1. QueueInv' /\ BufferInv'
    BY <1>8, SameQueueInv DEF WriteDirect, Main, locals, hciVars, spiVars,
      wireVars, devVars
  <2>2. InboxInv' /\ TakenInv' /\ WaitInv'
    BY <1>8, SameQueue DEF WriteDirect, Main, locals, hciVars, spiVars,
      wireVars, devVars
  <2> QED
    BY <2>1, <2>2
<1>9. CASE WriteDirectEnd
  <2>1. ~cs
    BY <1>9 DEF WriteDirectEnd, Main, LocInv, StateByPc, Wires
  <2>2. /\ pc = "deassert" /\ pc' = "done"
        /\ UNCHANGED <<locals, hciVars, devVars, acc>>
    BY <1>9, <2>1 DEF WriteDirectEnd, Main, EndWrite
  <2>3. QueueInv' /\ BufferInv'
    BY <2>2, SameQueueInv DEF locals, hciVars, devVars
  <2>4. InboxInv' /\ TakenInv' /\ WaitInv'
    BY <2>2, SameQueue DEF locals, hciVars, devVars
  <2> QED
    BY <2>3, <2>4
<1>10. CASE WriteDone
  <2>1. QueueInv' /\ BufferInv'
    BY <1>10, SameQueueInv DEF WriteDone, Main, locals, hciVars, spiVars,
      wireVars, devVars
  <2>2. InboxInv' /\ TakenInv' /\ WaitInv'
    BY <1>10, SameQueue DEF WriteDone, Main, locals, hciVars, spiVars,
      wireVars, devVars
  <2> QED
    BY <2>1, <2>2
<1>11. CASE WriteFirstIdle
  <2>1. QueueInv' /\ BufferInv'
    BY <1>11, SameQueueInv DEF WriteFirstIdle, Main, locals, hciVars, wireVars,
      devVars
  <2>2. InboxInv' /\ TakenInv' /\ WaitInv'
    BY <1>11, SameQueue DEF WriteFirstIdle, Main, locals, hciVars, wireVars,
      devVars
  <2> QED
    BY <2>1, <2>2
<1> QED
  BY <1>1, <1>2, <1>3, <1>4, <1>5, <1>6, <1>7, <1>8, <1>9, <1>10, <1>11
  DEF SpiWriteStep

\* so do those of the event handler
LEMMA EventExInv ==
  ASSUME IInv, IInv', ExInv, EventStep, pc = "apply" => rx = rcvd
  PROVE  ExInv'
<1> USE DEF IInv, TypeOK, FlagsOK, DataOK, ExInv, Sending, Handling, Calling,
            Closed, After, InboxInv, TakenInv, WaitInv, Quiet, AwaitsNothing,
            AnswerIn, DataIn
<1>1. CASE WaitEvent
  <2>1. QueueInv' /\ BufferInv'
    BY <1>1, SameQueueInv DEF WaitEvent, Main, locals, hciVars, spiVars,
      wireVars, devVars
  <2>2. InboxInv'
    BY <1>1, SameQueue DEF WaitEvent, Main, locals, hciVars, spiVars,
      wireVars, devVars
  <2>3. TakenInv'
    BY <1>1, SameQueue DEF WaitEvent, Main, locals, hciVars, spiVars,
      wireVars, devVars
  <2>4. WaitInv'
    BY <1>1, OpFacts, SameQueue DEF WaitEvent, Main, locals, hciVars, spiVars,
      wireVars, devVars
  <2> QED
    BY <2>1, <2>2, <2>3, <2>4
<1>2. CASE TakePacket
  <2>1. QueueInv' /\ BufferInv'
    BY <1>2, SameQueueInv DEF TakePacket, Main, locals, hciVars, spiVars,
      wireVars, devVars
  <2>2. InboxInv'
    BY <1>2, SameQueue DEF TakePacket, Main, locals, hciVars, spiVars,
      wireVars, devVars
  <2>3. TakenInv'
    BY <1>2, OpFacts, SameQueue DEF BufferInv, TakePacket, Main, locals, hciVars, spiVars,
      wireVars, devVars
  <2>4. WaitInv'
    BY <1>2, SameQueue DEF TakePacket, Main, locals, hciVars, spiVars,
      wireVars, devVars
  <2> QED
    BY <2>1, <2>2, <2>3, <2>4
<1>3. CASE ApplyPacket
  <2>1. QueueInv' /\ BufferInv'
    BY <1>3, SameQueueInv DEF ApplyPacket, Main, locals, hciVars, spiVars,
      wireVars, devVars
  <2>2. InboxInv'
    BY <1>3, OpFacts, SameQueue DEF IsAnswer, ApplyPacket, Main, locals, hciVars, spiVars,
      wireVars, devVars
  <2>3. TakenInv'
    BY <1>3, SameQueue DEF ApplyPacket, Main, locals, hciVars, spiVars,
      wireVars, devVars
  <2>4. WaitInv'
    <3>1. /\ pc = "apply" /\ pc' = "clear"
          /\ UNCHANGED <<op, wr, rcvd, rx, flag, inbox, acc, devq>>
          /\ waitOp' = IF IsEvent(rcvd) /\ rcvd.opcode = waitOp THEN "none"
                                                              ELSE waitOp
          /\ waitData' = (waitData /\ IsEvent(rcvd))
          /\ more' = IF rcvd.opcode = "RECV" THEN rcvd.status = "ok" ELSE more
      BY <1>3 DEF ApplyPacket, Main, devVars
    <3>2. NoAnswer' = NoAnswer /\ NoData' = NoData
      BY <3>1, SameQueue
    <3>3. CASE IsAnswer(rcvd)
      <4>1. waitOp' = "none" /\ inbox' = <<>> /\ NoAnswer'
        BY <3>1, <3>2, <3>3, OpFacts DEF IsAnswer, IsEvent, Cmds, WorkCmds
      <4>2. ~waitData'
        BY <3>1, <3>3
      <4>3. ~NoData => more'
        BY <3>1, <3>3 DEF QueueInv
      <4> QED
        BY <3>1, <3>2, <4>1, <4>2, <4>3, OpFacts
    <3>4. CASE IsData(rcvd)
      <4>1. waitOp' = waitOp /\ more' = more /\ NoData /\ ~waitData'
        BY <3>1, <3>4 DEF IsData, IsEvent
      <4> QED
        BY <3>1, <3>2, <4>1
    <3>5. CASE ~IsAnswer(rcvd) /\ ~IsData(rcvd)
      <4>1. rcvd.opcode # op /\ rcvd.opcode # "RECV"
        BY <3>5, OpFacts DEF IsAnswer, Cmds, WorkCmds
      <4>2. waitOp' = waitOp /\ more' = more
        BY <3>1, <4>1
      <4>3. waitData' = waitData
        BY <3>1, <3>5 DEF IsData, IsEvent
      <4> QED
        BY <3>1, <3>2, <4>2, <4>3
    <3> QED
      BY <3>3, <3>4, <3>5
  <2> QED
    BY <2>1, <2>2, <2>3, <2>4
<1>4. CASE ClearFlag
  <2>1. QueueInv' /\ BufferInv'
    BY <1>4, SameQueueInv DEF ClearFlag, Main, locals, hciVars, spiVars,
      wireVars, devVars
  <2>2. InboxInv' /\ TakenInv' /\ WaitInv'
    BY <1>4, SameQueue DEF ClearFlag, Main, locals, hciVars, spiVars,
      wireVars, devVars
  <2> QED
    BY <2>1, <2>2
<1>5. CASE ResumeSpi
  <2>1. QueueInv' /\ BufferInv'
    BY <1>5, SameQueueInv DEF ResumeSpi, Main, locals, hciVars, spiVars,
      wireVars, devVars
  <2>2. InboxInv' /\ TakenInv' /\ WaitInv'
    BY <1>5, SameQueue DEF ResumeSpi, Main, locals, hciVars, spiVars,
      wireVars, devVars
  <2> QED
    BY <2>1, <2>2
<1>6. CASE HandlePatch
  <2>1. QueueInv' /\ BufferInv'
    BY <1>6, SameQueueInv DEF HandlePatch, Main, locals, hciVars, spiVars,
      wireVars, devVars
  <2>2. InboxInv'
    BY <1>6, SameQueue DEF HandlePatch, Main, locals, hciVars, spiVars,
      wireVars, devVars
  <2>3. TakenInv'
    BY <1>6, SameQueue DEF HandlePatch, Main, locals, hciVars, spiVars,
      wireVars, devVars
  <2>4. WaitInv'
    BY <1>6, OpFacts, SameQueue DEF LocInv, AccByPc, HandlePatch, Main, locals, hciVars, spiVars,
      wireVars, devVars
  <2> QED
    BY <2>1, <2>2, <2>3, <2>4
<1>7. CASE NoPatch
  <2>1. QueueInv' /\ BufferInv'
    BY <1>7, SameQueueInv DEF NoPatch, Main, locals, hciVars, spiVars,
      wireVars, devVars
  <2>2. InboxInv' /\ TakenInv' /\ WaitInv'
    BY <1>7, SameQueue DEF NoPatch, Main, locals, hciVars, spiVars, wireVars,
      devVars
  <2> QED
    BY <2>1, <2>2
<1>8. CASE CheckDone
  <2>1. QueueInv' /\ BufferInv'
    BY <1>8, SameQueueInv DEF CheckDone, Main, locals, hciVars, spiVars,
      wireVars, devVars
  <2>2. InboxInv' /\ TakenInv' /\ WaitInv'
    BY <1>8, SameQueue DEF CheckDone, Main, locals, hciVars, spiVars,
      wireVars, devVars
  <2> QED
    BY <2>1, <2>2
<1> QED
  BY <1>1, <1>2, <1>3, <1>4, <1>5, <1>6, <1>7, <1>8 DEF EventStep

\* and of the calls.
LEMMA CallExInv ==
  ASSUME IInv, IInv', ExInv, CallStep
  PROVE  ExInv'
<1> USE DEF IInv, TypeOK, FlagsOK, DataOK, ExInv, Sending, Handling, Calling,
            Closed, After, InboxInv, TakenInv, WaitInv, Quiet, AwaitsNothing,
            AnswerIn, DataIn
<1>1. CASE Start
  <2>1. QueueInv' /\ BufferInv'
    BY <1>1, SameQueueInv DEF Start, Main, locals, hciVars, spiVars, wireVars,
      devVars
  <2>2. InboxInv' /\ TakenInv' /\ WaitInv'
    BY <1>1, SameQueue DEF Start, Main, locals, hciVars, spiVars, wireVars,
      devVars
  <2> QED
    BY <2>1, <2>2
<1>2. CASE PowerUp
  <2>1. QueueInv' /\ BufferInv'
    BY <1>2, SameQueueInv DEF PowerUp, Main, locals, hciVars, spiVars,
      wireVars, devVars
  <2>2. InboxInv' /\ TakenInv' /\ WaitInv'
    BY <1>2, SameQueue DEF PowerUp, Main, locals, hciVars, spiVars, wireVars,
      devVars
  <2> QED
    BY <2>1, <2>2
<1>3. CASE SeeLineLow
  <2>1. QueueInv' /\ BufferInv'
    BY <1>3, SameQueueInv DEF SeeLineLow, Main, locals, hciVars, spiVars,
      wireVars, devVars, Call
  <2>2. InboxInv' /\ TakenInv' /\ WaitInv'
    BY <1>3, SameQueue DEF SeeLineLow, Main, locals, hciVars, spiVars,
      wireVars, devVars, Call
  <2> QED
    BY <2>1, <2>2
<1>4. CASE Stop
  <2>1. /\ pc = "ready" /\ pc' = "high" /\ devq' = <<>> /\ inbox' = <<>>
        /\ UNCHANGED <<locals, hciVars, acc>>
    BY <1>4 DEF Stop, Main
  <2>2. NoAnswer' /\ NoData'
    BY <2>1 DEF NoAnswer, NoData
  <2>3. QueueInv' /\ BufferInv'
    BY <2>1, <2>2 DEF QueueInv, BufferInv, locals, hciVars
  <2>4. InboxInv' /\ TakenInv' /\ WaitInv'
    BY <2>1, <2>2 DEF locals, hciVars
  <2> QED
    BY <2>3, <2>4
<1>5. CASE SpiClose
  <2>1. QueueInv' /\ BufferInv'
    BY <1>5, SameQueueInv DEF SpiClose, Main, locals, hciVars, spiVars,
      wireVars, devVars
  <2>2. InboxInv' /\ TakenInv' /\ WaitInv'
    BY <1>5, SameQueue DEF SpiClose, Main, locals, hciVars, spiVars, wireVars,
      devVars
  <2> QED
    BY <2>1, <2>2
<1>6. CASE WaitData
  <2>1. QueueInv' /\ BufferInv'
    BY <1>6, SameQueueInv DEF WaitData, Main, locals, hciVars, spiVars,
      wireVars, devVars
  <2>2. InboxInv' /\ TakenInv' /\ WaitInv'
    BY <1>6, SameQueue DEF WaitData, Main, locals, hciVars, spiVars, wireVars,
      devVars
  <2> QED
    BY <2>1, <2>2
<1>7. CASE ReadBufferSize
  <2>1. QueueInv' /\ BufferInv'
    BY <1>7, SameQueueInv DEF ReadBufferSize, Main, locals, hciVars, spiVars,
      wireVars, devVars, Call
  <2>2. InboxInv' /\ TakenInv' /\ WaitInv'
    BY <1>7, SameQueue DEF ReadBufferSize, Main, locals, hciVars, spiVars,
      wireVars, devVars, Call
  <2> QED
    BY <2>1, <2>2
<1>8. CASE Return
  <2>1. QueueInv' /\ BufferInv'
    BY <1>8, SameQueueInv DEF Return, Main, locals, hciVars, spiVars,
      wireVars, devVars
  <2>2. InboxInv' /\ TakenInv' /\ WaitInv'
    BY <1>8, SameQueue DEF Return, Main, locals, hciVars, spiVars, wireVars,
      devVars
  <2> QED
    BY <2>1, <2>2
<1>9. CASE Command
  <2>1. QueueInv' /\ BufferInv'
    BY <1>9, SameQueueInv DEF Command, Main, locals, hciVars, spiVars,
      wireVars, devVars, Call
  <2>2. InboxInv' /\ TakenInv' /\ WaitInv'
    BY <1>9, SameQueue DEF Command, Main, locals, hciVars, spiVars, wireVars,
      devVars, Call
  <2> QED
    BY <2>1, <2>2
<1>10. CASE EnterWaitForDHCP
  <2>1. QueueInv' /\ BufferInv'
    BY <1>10, SameQueueInv DEF EnterWaitForDHCP, Main, locals, hciVars,
      spiVars, wireVars, devVars
  <2>2. InboxInv' /\ TakenInv' /\ WaitInv'
    BY <1>10, SameQueue DEF EnterWaitForDHCP, Main, locals, hciVars, spiVars,
      wireVars, devVars
  <2> QED
    BY <2>1, <2>2
<1>11. CASE LeaveWaitForDHCP
  <2>1. QueueInv' /\ BufferInv'
    BY <1>11, SameQueueInv DEF LeaveWaitForDHCP, Main, locals, hciVars,
      spiVars, wireVars, devVars
  <2>2. InboxInv' /\ TakenInv' /\ WaitInv'
    BY <1>11, SameQueue DEF LeaveWaitForDHCP, Main, locals, hciVars, spiVars,
      wireVars, devVars
  <2> QED
    BY <2>1, <2>2
<1> QED
  BY <1>1, <1>2, <1>3, <1>4, <1>5, <1>6, <1>7, <1>8, <1>9, <1>10, <1>11 DEF
    CallStep


-----------------------------------------------------------------------------
(* Steps that take a packet from the queue or put one into it *)

\* Reading the first packet of the queue moves the others up by one.
LEMMA ReadQueue ==
  ASSUME devq \in Seq(DevPacket), devq # <<>>, devq' = Tail(devq)
  PROVE  /\ 1 \in DOMAIN devq /\ Head(devq) = devq[1] /\ devq[1] \in DevPacket
         /\ \A i \in DOMAIN devq' : i + 1 \in DOMAIN devq /\ devq'[i] = devq[i + 1]
         /\ \A i, j \in DOMAIN devq' : i \in Int /\ j \in Int
OBVIOUS

\* The interrupt's reading of a packet keeps the invariant of the exchange.
LEMMA ReadExInv == ASSUME IInv, ExInv, IsrRead PROVE ExInv'
<1> USE DEF IInv, TypeOK, DataOK
<1>1. devq # <<>>
  BY DEF IsrRead, Interrupt, LocInv, StateByPc, IntenByPc, Wires, Closed
<1>2. /\ rx' = devq[1] /\ (flag' => ~HandledUnsol(devq[1]))
      /\ devq' = Tail(devq)
      /\ UNCHANGED <<pc, op, wr, rcvd, more, waitOp, waitData, inbox, acc>>
  BY <1>1, ReadQueue DEF IsrRead, Interrupt, locals
<1>3. /\ 1 \in DOMAIN devq /\ devq[1] \in DevPacket
      /\ \A i \in DOMAIN devq' : i + 1 \in DOMAIN devq /\ devq'[i] = devq[i + 1]
      /\ \A i, j \in DOMAIN devq' : i \in Int /\ j \in Int
  BY <1>1, <1>2, ReadQueue
<1>4. \A i \in DOMAIN devq' : i + 1 # 1 /\ 1 < i + 1 /\ ~(i + 1 < 1)
  <2> SUFFICES ASSUME NEW i \in DOMAIN devq' PROVE i >= 1
    BY <1>3
  <2> QED
    BY <1>1, <1>2
<1>5. /\ NoAnswer => NoAnswer' /\ ~IsAnswer(devq[1])
      /\ NoData => NoData' /\ ~IsData(devq[1])
  BY <1>3 DEF NoAnswer, NoData
<1>6. IsAnswer(devq[1]) =>
        devq[1].opcode = op /\ NoAnswer' /\ (devq[1].status = "ok" \/ NoData')
  BY <1>3, <1>4 DEF ExInv, QueueInv, NoAnswer, NoData
<1>7. IsData(devq[1]) => NoAnswer' /\ NoData' /\ op = "RECV"
  BY <1>3, <1>4 DEF ExInv, QueueInv, NoAnswer, NoData
<1>9. QueueInv'
  BY <1>2, <1>3, <1>5 DEF ExInv, QueueInv
<1>10. BufferInv'
  <2>1. rx'.opcode # "JUNK"
    BY <1>2, <1>3 DEF DevPacket
  <2> QED
    BY <1>2, <1>6, <1>7, <2>1 DEF BufferInv, AnswerIn, DataIn
<1>11. InboxInv'
  BY <1>2, <1>5 DEF ExInv, InboxInv, After, AnswerIn, DataIn
<1>12. TakenInv'
  BY <1>2, <1>5 DEF ExInv, TakenInv, DataIn
<1>13. WaitInv'
  BY <1>2, <1>5 DEF ExInv, WaitInv, After, Quiet, AwaitsNothing, AnswerIn, DataIn
<1> QED
  BY <1>9, <1>10, <1>11, <1>12, <1>13 DEF ExInv

\* So do the other interrupts.
LEMMA IsrExInv == ASSUME IInv, IInv', ExInv, Isr PROVE ExInv'
<1> USE DEF IInv, TypeOK, FlagsOK, DataOK, ExInv, Sending, Handling, Calling,
            Closed, After, InboxInv, TakenInv, WaitInv, Quiet, AwaitsNothing,
            AnswerIn, DataIn
<1>1. CASE IsrPowerUp \/ IsrIgnore
  <2>1. UNCHANGED <<pc, locals, hciVars, devVars, acc>>
    BY <1>1 DEF IsrPowerUp, IsrIgnore, Interrupt
  <2>2. QueueInv' /\ BufferInv'
    BY <2>1, SameQueueInv DEF locals, hciVars, devVars
  <2>3. InboxInv' /\ TakenInv' /\ WaitInv'
    BY <2>1, SameQueue DEF locals, hciVars, devVars
  <2> QED
    BY <2>2, <2>3
<1>2. CASE IsrRead
  BY <1>2, ReadExInv
<1>3. CASE IsrWrite
  <2>1. /\ EndWrite /\ spiState = "WRITE_IRQ"
        /\ UNCHANGED <<pc, op, wr, rcvd, more, rx, flag, waitOp, waitData>>
    BY <1>3 DEF IsrWrite, Interrupt, locals, hciVars
  <2>2. cs
    BY <2>1 DEF LocInv, Wires
  <2>3. QueueInv' /\ BufferInv'
    BY <2>1, <2>2, SentPacket, SameQueueInv
  <2>4. InboxInv' /\ TakenInv' /\ WaitInv'
    BY <2>1, <2>2, SentPacket, SameQueue, OpFacts
  <2> QED
    BY <2>3, <2>4
<1> QED
  BY <1>1, <1>2, <1>3 DEF Isr

\* An event that is no answer changes nothing about the exchange.
LEMMA EventQueued ==
  ASSUME TypeOK, ExInv,
         NEW p, ~IsAnswer(p), ~IsData(p),
         devq' = Append(devq, p),
         UNCHANGED <<pc, op, wr, rcvd, more, rx, flag, waitOp, waitData, inbox, acc>>
  PROVE  ExInv'
<1>1. \A i \in DOMAIN devq' :
        \/ i \in DOMAIN devq /\ devq'[i] = devq[i]
        \/ devq'[i] = p
  BY DEF TypeOK, DataOK
<1>2. \A i \in DOMAIN devq : i \in DOMAIN devq' /\ devq'[i] = devq[i]
  BY DEF TypeOK, DataOK
<1>3. NoAnswer' = NoAnswer /\ NoData' = NoData
  BY <1>1, <1>2 DEF NoAnswer, NoData
<1>4. QueueInv'
  BY <1>1, <1>3 DEF ExInv, QueueInv
<1>5. BufferInv' /\ InboxInv' /\ TakenInv' /\ WaitInv'
  BY <1>3 DEF ExInv, BufferInv, InboxInv, TakenInv, WaitInv, After, Quiet,
    AwaitsNothing, AnswerIn, DataIn
<1> QED
  BY <1>4, <1>5 DEF ExInv

\* What the controller may answer to a command.
LEMMA RepliesFacts ==
  ASSUME NEW o \in Cmds, NEW r \in Replies(o)
  PROVE  \/ \E s \in Statuses : r = <<Pkt(o, s)>>
         \/ o = "RECV" /\ r = <<Pkt(o, "ok"), Pkt("DATA", "ok")>>
BY DEF Replies, Statuses

\* The answer finds the queue and the buffer without another.
LEMMA AnswerExInv == ASSUME IInv, ExInv, DevAnswer PROVE ExInv'
<1> USE DEF IInv, TypeOK, DataOK
<1>1. /\ inbox = <<op>> /\ acc = 1 /\ pc \in Sending \cup Calling
      /\ NoAnswer /\ NoData /\ ~AnswerIn /\ ~DataIn
      /\ After => waitOp = op
  BY DEF DevAnswer, ExInv, InboxInv
<1>2. PICK r \in Replies(op) : devq' = devq \o r
  BY <1>1 DEF DevAnswer
<1>3. /\ inbox' = <<>>
      /\ UNCHANGED <<pc, op, wr, rcvd, more, rx, flag, waitOp, waitData, acc>>
  BY <1>1 DEF DevAnswer, host, locals, hciVars
<1>4. QueueInv'
  <2> DEFINE n == Len(devq)
             Plain(p) == ~IsAnswer(p) /\ ~IsData(p)
  <2>1. n \in Nat /\ \A i \in 1..n : Plain(devq[i])
    BY <1>1 DEF NoAnswer, NoData
  <2>2. CASE \E s \in Statuses : r = <<Pkt(op, s)>>
    <3>1. PICK s \in Statuses : r = <<Pkt(op, s)>>
      BY <2>2
    <3>2. /\ DOMAIN devq' = 1..(n + 1) /\ devq'[n + 1] = Pkt(op, s)
          /\ \A i \in 1..n : devq'[i] = devq[i]
      BY <1>2, <3>1
    <3>3. IsAnswer(devq'[n + 1]) /\ devq'[n + 1].opcode = op
          /\ ~IsData(devq'[n + 1])
      BY <3>2, OpFacts DEF Pkt, IsAnswer
    <3> HIDE DEF n
    <3>4. \A i \in 1..(n + 1) : i \in 1..n \/ i = n + 1
      BY <2>1
    <3>5. \A i \in DOMAIN devq' : i = n + 1 \/ Plain(devq'[i])
      BY <2>1, <3>2, <3>4
    <3> QED
      BY <1>3, <3>3, <3>5 DEF QueueInv, NoData
  <2>3. CASE op = "RECV" /\ r = <<Pkt(op, "ok"), Pkt("DATA", "ok")>>
    <3>1. /\ DOMAIN devq' = 1..(n + 2) /\ devq'[n + 1] = Pkt(op, "ok")
          /\ devq'[n + 2] = Pkt("DATA", "ok")
          /\ \A i \in 1..n : devq'[i] = devq[i]
      BY <1>2, <2>3
    <3>2. /\ IsAnswer(devq'[n + 1]) /\ ~IsData(devq'[n + 1])
          /\ devq'[n + 1].opcode = op /\ devq'[n + 1].status = "ok"
          /\ IsData(devq'[n + 2]) /\ ~IsAnswer(devq'[n + 2])
      BY <3>1, OpFacts DEF Pkt, IsAnswer, IsData
    <3> HIDE DEF n
    <3>3. \A i \in 1..(n + 2) : i \in 1..n \/ i = n + 1 \/ i = n + 2
      BY <2>1
    <3>4. \A i \in DOMAIN devq' : i = n + 1 \/ i = n + 2 \/ Plain(devq'[i])
      BY <2>1, <3>1, <3>3
    <3>5. \A i \in DOMAIN devq' :
            /\ IsAnswer(devq'[i]) => i = n + 1
            /\ IsData(devq'[i]) => i = n + 2
      BY <3>2, <3>4
    <3>6. \A i \in DOMAIN devq' :
            IsAnswer(devq'[i]) => devq'[i].opcode = op'
      BY <1>3, <3>2, <3>4
    <3>7. n + 1 < n + 2 /\ op' = "RECV"
      BY <1>3, <2>1, <2>3
    <3> QED
      BY <3>2, <3>5, <3>6, <3>7 DEF QueueInv
  <2> QED
    BY <2>2, <2>3, RepliesFacts
<1>5. BufferInv'
  BY <1>1, <1>3 DEF ExInv, BufferInv, AnswerIn, DataIn
<1>6. InboxInv' /\ TakenInv'
  BY <1>1, <1>3 DEF ExInv, InboxInv, TakenInv
<1>7. WaitInv'
  BY <1>1, <1>3, OpFacts DEF ExInv, WaitInv, After, AwaitsNothing, Sending,
    Handling, Calling, Closed
<1> QED
  BY <1>4, <1>5, <1>6, <1>7 DEF ExInv

\* The controller's steps keep the invariant of the exchange.
LEMMA DevExInv ==
  ASSUME IInv, IInv', ExInv, DevStep \/ DevRequestPatch \/ DevUnsol
  PROVE  ExInv'
<1> USE DEF IInv, TypeOK, FlagsOK, DataOK
<1>1. CASE DevBoot \/ DevLowerLine \/ DevRaiseLine
  <2>1. UNCHANGED <<host, devq, inbox>>
    BY <1>1 DEF DevBoot, DevLowerLine, DevRaiseLine, devVars
  <2>2. QueueInv' /\ BufferInv'
    BY <2>1, SameQueueInv DEF ExInv, host, locals, hciVars
  <2>3. InboxInv' /\ TakenInv' /\ WaitInv'
    BY <2>1, SameQueue DEF ExInv, InboxInv, TakenInv, WaitInv, After, Quiet,
      AwaitsNothing, AnswerIn, DataIn, host, locals, hciVars
  <2> QED
    BY <2>2, <2>3 DEF ExInv
<1>2. CASE DevAnswer
  BY <1>2, AnswerExInv
<1>3. ASSUME NEW p, p \in {Pkt("PATCH", "ok"), Pkt("DHCP", "ok")} \cup Unsol,
             devq' = Append(devq, p), UNCHANGED <<host, inbox>>
      PROVE  ExInv'
  <2>1. ~IsAnswer(p) /\ ~IsData(p)
    BY <1>3 DEF Unsol, Pkt, IsAnswer, IsData, Cmds, WorkCmds
  <2> QED
    BY <1>3, <2>1, EventQueued DEF host, locals, hciVars
<1>4. CASE DevDhcp \/ DevRequestPatch
  BY <1>3, <1>4 DEF DevDhcp, DevRequestPatch
<1>5. CASE DevUnsol
  BY <1>3, <1>5 DEF DevUnsol
<1> QED
  BY <1>1, <1>2, <1>4, <1>5 DEF DevStep

LEMMA InitExInv == Init => ExInv
BY DEF Init, Junk, Pkt, ExInv, QueueInv, BufferInv, InboxInv, TakenInv, WaitInv,
  After, Quiet, AwaitsNothing, Sending, Handling, Calling, Closed, AnswerIn,
  DataIn, NoAnswer, NoData, IsAnswer, IsData

LEMMA NextExInv ==
  ASSUME PromptRelease, IInv, IInv', ExInv, [Next]_vars,
         pc = "apply" => rx = rcvd
  PROVE  ExInv'
<1>1. CASE SpiWriteStep
  BY <1>1, SpiWriteExInv
<1>2. CASE EventStep
  BY <1>2, EventExInv
<1>3. CASE CallStep
  BY <1>3, CallExInv
<1>4. CASE Isr
  BY <1>4, IsrExInv
<1>5. CASE DevStep \/ DevRequestPatch \/ DevUnsol
  BY <1>5, DevExInv
<1>6. CASE UNCHANGED vars
  BY <1>6, SameQueue DEF vars, locals, hciVars, spiVars, wireVars, devVars,
    ExInv, QueueInv, BufferInv, InboxInv, TakenInv, WaitInv, After, Quiet,
    AwaitsNothing, AnswerIn, DataIn
<1> QED
  BY <1>1, <1>2, <1>3, <1>4, <1>5, <1>6 DEF Next, MainStep

-----------------------------------------------------------------------------
(* The buffer, when every event the controller sends is one the driver     *)
(* supports: it fills only with a packet that is awaited, or with the      *)
(* request for a patch, and these come one at a time.                      *)

IsPatch(p) == p.opcode = "PATCH"

PatchIn == flag /\ IsPatch(rx)
NoPatchQueued == \A i \in DOMAIN devq : ~IsPatch(devq[i])
OnePatchQueued == \A i, j \in DOMAIN devq :
                    IsPatch(devq[i]) /\ IsPatch(devq[j]) => i = j
NoUnknownQueued == \A i \in DOMAIN devq : devq[i].opcode # "UNKNOWN"

\* The interrupt is off while a packet waits in the buffer, and until the
\* event handler has taken and released it.
FlagInv ==
  /\ NoUnknownQueued
  /\ flag => ~inten /\ (IsAnswer(rx) \/ IsData(rx) \/ IsPatch(rx))
  /\ pc \in {"apply", "clear"} => flag /\ rx = rcvd
  /\ pc = "resume" => ~flag /\ ~inten /\ rx = rcvd

\* A patch response is on its way, from the packet that asked for it to the
\* end of the transfer.
Responding ==
  \/ pc \in {"resume", "patch"} /\ IsPatch(rcvd)
  \/ wr = "patch" /\ pc \in {"write", "first", "firstend", "idle", "enable"}
  \/ wr = "patch" /\ spiState = "WRITE_IRQ"

\* The controller asks for one patch at a time, before it answers START.
PatchInv ==
  /\ devWait => inbox = <<"START">>
  /\ OnePatchQueued
  /\ ~NoPatchQueued \/ PatchIn \/ Responding => devWait
  /\ PatchIn => NoPatchQueued
  /\ Responding => NoPatchQueued /\ ~PatchIn

HeldInv == FlagInv /\ PatchInv

\* A queue that does not change holds the same packets; a patch response is
\* no reason for a packet of an exchange to be in the buffer.
LEMMA SamePatches ==
  ASSUME devq' = devq
  PROVE  /\ NoPatchQueued' = NoPatchQueued
         /\ OnePatchQueued' = OnePatchQueued
         /\ NoUnknownQueued' = NoUnknownQueued
BY DEF NoPatchQueued, OnePatchQueued, NoUnknownQueued

\* The controller asks for a patch while START waits for its answer.
LEMMA PatchInExchange ==
  ASSUME ExInv, PatchInv, devWait
  PROVE  ~Quiet /\ ~AnswerIn /\ ~DataIn
<1>1. inbox = <<"START">>
  BY DEF PatchInv
<1>2. inbox # <<>>
  BY <1>1
<1> QED
  BY <1>2 DEF ExInv, InboxInv, Quiet

\* While a packet is being sent nothing waits in the buffer: not when the
\* command is new, and not while the controller awaits a patch.
LEMMA SendsWithBufferFree ==
  ASSUME IInv, ExInv, HeldInv, pc = "enable"
  PROVE  ~flag
<1> USE DEF IInv, TypeOK, DataOK, ExInv, HeldInv, FlagInv, PatchInv, Responding,
            Sending
<1>1. CASE wr = "cmd"
  <2>1. acc = 0
    BY <1>1 DEF LocInv, StateByPc, AccByPc
  <2>2. Quiet
    BY <2>1 DEF WaitInv
  <2> QED
    BY <2>2, <1>1 DEF Quiet, AnswerIn, DataIn, PatchIn
<1>2. CASE wr = "patch"
  <2>1. devWait /\ ~PatchIn
    BY <1>2
  <2>2. ~AnswerIn /\ ~DataIn
    BY <2>1, PatchInExchange
  <2> QED
    BY <2>1, <2>2 DEF AnswerIn, DataIn, PatchIn
<1> QED
  BY <1>1, <1>2

\* The end of a transfer ends a patch response.
LEMMA SentHeldInv ==
  ASSUME IInv, IInv', ExInv, HeldInv, cs, EndWrite, spiState' = "IDLE",
         pc' = "done" \/ (pc' = pc /\ pc \in {"pin", "done"}),
         UNCHANGED <<wr, rcvd, rx, flag, inten>>
  PROVE  HeldInv'
<1> USE DEF IInv, TypeOK, FlagsOK, DataOK, HeldInv, FlagInv, PatchInv, Responding,
            PatchIn
<1>1. devq' = devq
  BY DEF EndWrite, Accepts
<1>2. CASE wr = "cmd"
  <2>1. Quiet /\ pc \in Sending
    BY <1>2, SentPacket
  <2>2. ~devWait
    BY <2>1, PatchInExchange
  <2>3. ~devWait'
    BY <1>2, <2>2 DEF EndWrite, Accepts
  <2> QED
    BY <1>1, <1>2, <2>1, <2>2, <2>3, SamePatches DEF Sending
<1>3. CASE wr = "patch"
  <2>1. ~devWait'
    BY <1>3 DEF EndWrite, Accepts, Written
  <2>2. NoPatchQueued /\ ~PatchIn /\ pc \in Sending
    BY <1>3, SentPacket DEF LocInv, Wires
  <2> QED
    BY <1>1, <1>3, <2>1, <2>2, SamePatches DEF Sending
<1> QED
  BY <1>2, <1>3

\* The steps of SpiWrite keep what is said of the buffer,
LEMMA SpiWriteHeldInv ==
  ASSUME IInv, IInv', ExInv, HeldInv, SpiWriteStep
  PROVE  HeldInv'
<1> USE DEF IInv, TypeOK, FlagsOK, DataOK, HeldInv, FlagInv, PatchInv, Responding,
            PatchIn
<1>1. CASE WriteFirst
  BY <1>1, SamePatches DEF WriteFirst, Main, MainMayRun, locals, hciVars,
    spiVars, wireVars, devVars, AssertCs
<1>2. CASE WriteFirstEnd
  <2>1. /\ pc = "firstend" /\ pc' = "done" /\ EndWrite /\ spiState' = "IDLE"
        /\ UNCHANGED <<wr, rcvd, rx, flag, inten>>
    BY <1>2 DEF WriteFirstEnd, Main, locals, hciVars, spiVars, LocInv, StateByPc
  <2>2. cs
    BY <2>1 DEF LocInv, Wires
  <2> QED
    BY <2>1, <2>2, SentHeldInv
<1>3. CASE WriteLock
  BY <1>3, SamePatches DEF WriteLock, Main, MainMayRun, locals, hciVars,
    spiVars, wireVars, devVars
<1>4. CASE WriteAssert
  BY <1>4, SamePatches DEF WriteAssert, Main, MainMayRun, locals, hciVars,
    spiVars, wireVars, devVars, AssertCs
<1>5. CASE WriteEnable
  BY <1>5, SamePatches, SendsWithBufferFree DEF WriteEnable, Main, MainMayRun,
    locals, hciVars, spiVars, wireVars, devVars
<1>6. CASE WritePinLow
  BY <1>6, SamePatches DEF WritePinLow, Main, MainMayRun, locals, hciVars,
    spiVars, wireVars, devVars
<1>7. CASE WritePinHigh
  BY <1>7, SamePatches DEF WritePinHigh, Main, MainMayRun, locals, hciVars,
    spiVars, wireVars, devVars
<1>8. CASE WriteDirect
  BY <1>8, SamePatches DEF WriteDirect, Main, MainMayRun, locals, hciVars,
    spiVars, wireVars, devVars
<1>9. CASE WriteDirectEnd
  <2>1. ~cs
    BY <1>9 DEF WriteDirectEnd, Main, LocInv, StateByPc, Wires
  <2>2. /\ pc = "deassert" /\ pc' = "done"
        /\ UNCHANGED <<locals, hciVars, spiVars, devVars>>
    BY <1>9, <2>1 DEF WriteDirectEnd, Main, EndWrite
  <2> QED
    BY <2>2, SamePatches DEF locals, hciVars, spiVars, devVars
<1>10. CASE WriteDone
  BY <1>10, SamePatches DEF WriteDone, Main, MainMayRun, locals, hciVars,
    spiVars, wireVars, devVars
<1>11. CASE WriteFirstIdle
  BY <1>11, SamePatches DEF WriteFirstIdle, Main, MainMayRun, locals, hciVars,
    wireVars, devVars
<1> QED
  BY <1>1, <1>2, <1>3, <1>4, <1>5, <1>6, <1>7, <1>8, <1>9, <1>10, <1>11
  DEF SpiWriteStep

\* so do those of the event handler
LEMMA EventHeldInv ==
  ASSUME IInv, IInv', ExInv, HeldInv, EventStep
  PROVE  HeldInv'
<1> USE DEF IInv, TypeOK, FlagsOK, DataOK, HeldInv, FlagInv, PatchInv, Responding,
            PatchIn
<1>1. CASE WaitEvent
  BY <1>1, SamePatches DEF WaitEvent, Main, MainMayRun, locals, hciVars,
    spiVars, wireVars, devVars
<1>2. CASE TakePacket
  BY <1>2, SamePatches DEF TakePacket, Main, MainMayRun, locals, hciVars,
    spiVars, wireVars, devVars
<1>3. CASE ApplyPacket
  BY <1>3, SamePatches DEF ApplyPacket, Main, MainMayRun, locals, hciVars,
    spiVars, wireVars, devVars
<1>4. CASE ClearFlag
  BY <1>4, SamePatches DEF ClearFlag, Main, MainMayRun, locals, hciVars,
    spiVars, wireVars, devVars
<1>5. CASE ResumeSpi
  BY <1>5, SamePatches DEF ResumeSpi, Main, MainMayRun, locals, hciVars,
    spiVars, wireVars, devVars
<1>6. CASE HandlePatch
  BY <1>6, SamePatches DEF HandlePatch, IsPatch, Main, MainMayRun, locals,
    hciVars, spiVars, wireVars, devVars
<1>7. CASE NoPatch
  BY <1>7, SamePatches DEF NoPatch, Main, MainMayRun, locals, hciVars,
    spiVars, wireVars, devVars
<1>8. CASE CheckDone
  BY <1>8, SamePatches DEF CheckDone, Main, MainMayRun, locals, hciVars,
    spiVars, wireVars, devVars
<1> QED
  BY <1>1, <1>2, <1>3, <1>4, <1>5, <1>6, <1>7, <1>8 DEF EventStep

\* and of the calls.
LEMMA CallHeldInv ==
  ASSUME IInv, IInv', ExInv, HeldInv, CallStep
  PROVE  HeldInv'
<1> USE DEF IInv, TypeOK, FlagsOK, DataOK, HeldInv, FlagInv, PatchInv, Responding,
            PatchIn
<1>1. CASE Start
  BY <1>1, SamePatches DEF Start, Main, MainMayRun, locals, hciVars, spiVars,
    wireVars, devVars
<1>2. CASE PowerUp
  <2>1. Quiet
    BY <1>2 DEF PowerUp, Main, ExInv, WaitInv, Closed
  <2>2. ~devWait
    BY <2>1, PatchInExchange
  <2> QED
    BY <1>2, <2>2, SamePatches DEF PowerUp, Main, locals, hciVars, spiVars
<1>3. CASE SeeLineLow
  BY <1>3, SamePatches DEF SeeLineLow, Main, MainMayRun, locals, hciVars,
    spiVars, wireVars, devVars, Call
<1>4. CASE Stop
  <2>1. Quiet
    BY <1>4 DEF Stop, Main, ExInv, WaitInv
  <2>2. ~devWait
    BY <2>1, PatchInExchange
  <2>3. NoPatchQueued' /\ OnePatchQueued' /\ NoUnknownQueued'
    BY <1>4 DEF Stop, NoPatchQueued, OnePatchQueued, NoUnknownQueued
  <2> QED
    BY <1>4, <2>2, <2>3 DEF Stop, Main, locals, hciVars, spiVars
<1>5. CASE SpiClose
  BY <1>5, SamePatches DEF SpiClose, Main, MainMayRun, locals, hciVars,
    spiVars, wireVars, devVars
<1>6. CASE WaitData
  BY <1>6, SamePatches DEF WaitData, Main, MainMayRun, locals, hciVars,
    spiVars, wireVars, devVars
<1>7. CASE ReadBufferSize
  BY <1>7, SamePatches DEF ReadBufferSize, Main, MainMayRun, locals, hciVars,
    spiVars, wireVars, devVars, Call
<1>8. CASE Return
  BY <1>8, SamePatches DEF Return, Main, MainMayRun, locals, hciVars, spiVars,
    wireVars, devVars
<1>9. CASE Command
  BY <1>9, SamePatches DEF Command, Main, MainMayRun, locals, hciVars,
    spiVars, wireVars, devVars, Call
<1>10. CASE EnterWaitForDHCP
  BY <1>10, SamePatches DEF EnterWaitForDHCP, Main, MainMayRun, locals,
    hciVars, spiVars, wireVars, devVars
<1>11. CASE LeaveWaitForDHCP
  BY <1>11, SamePatches DEF LeaveWaitForDHCP, Main, MainMayRun, locals,
    hciVars, spiVars, wireVars, devVars
<1> QED
  BY <1>1, <1>2, <1>3, <1>4, <1>5, <1>6, <1>7, <1>8, <1>9, <1>10, <1>11 DEF
    CallStep

\* The interrupt reads only when the buffer is free; what it leaves there is
\* awaited, or the request for a patch.
LEMMA ReadHeldInv ==
  ASSUME IInv, IInv', ExInv, HeldInv, IsrRead
  PROVE  HeldInv'
<1> USE DEF IInv, TypeOK, FlagsOK, DataOK, HeldInv
<1>1. devq # <<>>
  BY DEF IsrRead, Interrupt, LocInv, StateByPc, IntenByPc, Wires, Closed
<1>2. /\ rx' = devq[1] /\ devq' = Tail(devq)
      /\ flag' = ~HandledUnsol(devq[1]) /\ inten' = HandledUnsol(devq[1])
      /\ UNCHANGED <<pc, wr, rcvd, devWait, inbox, spiState>>
  BY <1>1, ReadQueue DEF IsrRead, Interrupt, locals, IrqAfter
<1>3. ~flag /\ pc \notin {"apply", "clear", "resume"}
  BY DEF IsrRead, Interrupt, FlagInv
<1>4. /\ 1 \in DOMAIN devq /\ devq[1] \in DevPacket
      /\ \A i \in DOMAIN devq' : i + 1 \in DOMAIN devq /\ devq'[i] = devq[i + 1]
      /\ \A i, j \in DOMAIN devq' : i \in Int /\ j \in Int
  BY <1>1, <1>2, ReadQueue
<1>5. \A i \in DOMAIN devq' : i + 1 # 1
  BY <1>1, <1>2
<1>6. NoUnknownQueued' /\ devq[1].opcode # "UNKNOWN"
  BY <1>4 DEF FlagInv, NoUnknownQueued
<1>7. OnePatchQueued'
  <2> SUFFICES ASSUME NEW i \in DOMAIN devq', NEW j \in DOMAIN devq',
                      IsPatch(devq'[i]), IsPatch(devq'[j])
               PROVE  i = j
    BY DEF OnePatchQueued
  <2>1. i + 1 = j + 1
    BY <1>4 DEF PatchInv, OnePatchQueued
  <2>2. i \in Int /\ j \in Int
    BY <1>4
  <2> HIDE DEF IInv
  <2> QED
    BY <2>1, <2>2
<1>8. /\ IsPatch(devq[1]) => NoPatchQueued' /\ ~NoPatchQueued
      /\ ~NoPatchQueued' => ~NoPatchQueued
  BY <1>4, <1>5 DEF PatchInv, OnePatchQueued, NoPatchQueued
<1>9. \/ HandledUnsol(devq[1])
      \/ IsAnswer(devq[1]) \/ IsData(devq[1]) \/ IsPatch(devq[1])
  BY <1>4, <1>6 DEF DevPacket, Opcodes, Writes, HandledUnsol, IsAnswer, IsData,
    IsPatch
<1>10. FlagInv'
  <2>1. flag' => ~inten'
    BY <1>2
  <2> QED
    BY <1>2, <1>3, <1>6, <1>9, <2>1 DEF FlagInv
<1>11. PatchInv'
  BY <1>2, <1>7, <1>8 DEF PatchInv, PatchIn, Responding
<1> QED
  BY <1>10, <1>11

LEMMA IsrHeldInv == ASSUME IInv, IInv', ExInv, HeldInv, Isr PROVE HeldInv'
<1> USE DEF IInv, TypeOK, FlagsOK, DataOK, HeldInv, FlagInv, PatchInv, Responding,
            PatchIn
<1>1. CASE IsrPowerUp \/ IsrIgnore
  BY <1>1, SamePatches DEF IsrPowerUp, IsrIgnore, Interrupt, locals, hciVars,
    spiVars, devVars
<1>2. CASE IsrRead
  BY <1>2, ReadHeldInv
<1>3. CASE IsrWrite
  <2>1. /\ EndWrite /\ spiState = "WRITE_IRQ" /\ inten /\ spiState' = "IDLE"
        /\ UNCHANGED <<pc, wr, rcvd, rx, flag, inten>>
    BY <1>3 DEF IsrWrite, Interrupt, locals, hciVars
  <2>2. cs /\ pc \in {"pin", "done"}
    BY <2>1 DEF LocInv, StateByPc, IntenByPc, Wires, Closed, Calling, PCs, AnyInv
  <2> QED
    BY <2>1, <2>2, SentHeldInv
<1> QED
  BY <1>1, <1>2, <1>3 DEF Isr

\* Packets put behind the queue, none of them a request for a patch.
LEMMA BehindPatches ==
  ASSUME TypeOK, HeldInv, UNCHANGED <<pc, wr, rcvd, rx, flag, spiState, inten>>,
         \A i \in DOMAIN devq : i \in DOMAIN devq' /\ devq'[i] = devq[i],
         \A i \in DOMAIN devq' :
           \/ i \in DOMAIN devq /\ devq'[i] = devq[i]
           \/ ~IsPatch(devq'[i]) /\ devq'[i].opcode # "UNKNOWN",
         UNCHANGED <<inbox, devWait>> \/ (~devWait /\ ~devWait')
  PROVE  HeldInv'
<1>1. NoPatchQueued' = NoPatchQueued
  BY DEF NoPatchQueued
<1>2. OnePatchQueued' /\ NoUnknownQueued'
  BY DEF HeldInv, FlagInv, PatchInv, OnePatchQueued, NoUnknownQueued
<1>3. FlagInv'
  BY <1>2 DEF HeldInv, FlagInv
<1>4. PatchInv'
  BY <1>1, <1>2 DEF HeldInv, PatchInv, PatchIn, Responding
<1> QED
  BY <1>3, <1>4 DEF HeldInv

\* The controller's steps keep it too, when it sends no unknown event.
LEMMA DevHeldInv ==
  ASSUME ~UnknownEvents, IInv, IInv', ExInv, HeldInv,
         DevStep \/ DevRequestPatch \/ DevUnsol
  PROVE  HeldInv'
<1> USE DEF IInv, TypeOK, FlagsOK, DataOK
<1>1. CASE DevBoot \/ DevLowerLine \/ DevRaiseLine
  <2>1. UNCHANGED <<pc, wr, rcvd, rx, flag, spiState, inten, devq, inbox, devWait>>
    BY <1>1 DEF DevBoot, DevLowerLine, DevRaiseLine, host, locals, hciVars,
      spiVars, devVars
  <2> QED
    BY <2>1, SamePatches DEF HeldInv, FlagInv, PatchInv, PatchIn, Responding
<1>2. CASE DevAnswer
  <2>1. /\ inbox = <<op>> /\ ~devWait /\ devWait' = devWait
        /\ UNCHANGED <<pc, wr, rcvd, rx, flag, spiState, inten>>
    BY <1>2 DEF DevAnswer, ExInv, InboxInv, host, locals, hciVars, spiVars
  <2>2. PICK r \in Replies(op) : devq' = devq \o r
    BY <1>2, <2>1 DEF DevAnswer
  <2>3. /\ r \in Seq(Packet)
        /\ \A i \in DOMAIN r : IsAnswer(r[i]) \/ IsData(r[i])
    <3>1. op \in Cmds /\ \A s \in Statuses : Pkt(op, s) \in Packet
      BY DEF Pkt, Packet, Opcodes, Writes
    <3>2. Pkt("DATA", "ok") \in Packet /\ Pkt(op, "ok") \in Packet
      BY <3>1 DEF Pkt, Packet, Opcodes, Writes, Statuses
    <3>3. /\ \A s \in Statuses : IsAnswer(Pkt(op, s))
          /\ IsAnswer(Pkt(op, "ok")) /\ IsData(Pkt("DATA", "ok"))
      BY <3>1 DEF Pkt, IsAnswer, IsData
    <3>4. CASE \E s \in Statuses : r = <<Pkt(op, s)>>
      BY <3>1, <3>3, <3>4
    <3>5. CASE op = "RECV" /\ r = <<Pkt(op, "ok"), Pkt("DATA", "ok")>>
      BY <3>2, <3>3, <3>5
    <3> QED
      BY <3>1, <3>4, <3>5, RepliesFacts
  <2>4. \A p : IsAnswer(p) \/ IsData(p) => ~IsPatch(p) /\ p.opcode # "UNKNOWN"
    BY DEF IsAnswer, IsData, IsPatch, Cmds, WorkCmds
  <2>5. \A i \in DOMAIN devq : i \in DOMAIN devq' /\ devq'[i] = devq[i]
    BY <2>2, <2>3
  <2>6. \A i \in DOMAIN devq' :
          \/ i \in DOMAIN devq /\ devq'[i] = devq[i]
          \/ \E j \in DOMAIN r : devq'[i] = r[j]
    BY <2>2, <2>3
  <2> QED
    BY <2>1, <2>3, <2>4, <2>5, <2>6, BehindPatches
<1>3. ASSUME NEW p, p.opcode \in {"DHCP", "DISC"}, devq' = Append(devq, p),
             UNCHANGED <<host, inbox, devWait>>
      PROVE  HeldInv'
  <2>1. ~IsPatch(p) /\ p.opcode # "UNKNOWN"
    BY <1>3 DEF IsPatch
  <2>2. \A i \in DOMAIN devq : i \in DOMAIN devq' /\ devq'[i] = devq[i]
    BY <1>3
  <2>3. \A i \in DOMAIN devq' :
          (i \in DOMAIN devq /\ devq'[i] = devq[i]) \/ devq'[i] = p
    BY <1>3
  <2> QED
    BY <1>3, <2>1, <2>2, <2>3, BehindPatches DEF host, locals, hciVars, spiVars
<1>4. CASE DevDhcp
  BY <1>3, <1>4 DEF DevDhcp, Pkt
<1>5. CASE DevUnsol
  BY <1>3, <1>5 DEF DevUnsol, Unsol, Pkt
<1>6. CASE DevRequestPatch
  <2>1. /\ inbox = <<"START">> /\ inbox' = inbox /\ ~devWait /\ devWait'
        /\ UNCHANGED <<pc, wr, rcvd, rx, flag, spiState, inten>>
        /\ devq' = Append(devq, Pkt("PATCH", "ok"))
    BY <1>6 DEF DevRequestPatch, ExInv, InboxInv, host, locals, hciVars, spiVars
  <2>2. NoPatchQueued /\ ~PatchIn /\ ~Responding
    BY <2>1 DEF HeldInv, PatchInv
  <2>3. \A i \in DOMAIN devq' :
          \/ i \in DOMAIN devq /\ devq'[i] = devq[i]
          \/ i = Len(devq) + 1 /\ devq'[i].opcode = "PATCH"
    BY <2>1 DEF Pkt
  <2>4. OnePatchQueued' /\ NoUnknownQueued'
    BY <2>2, <2>3 DEF HeldInv, FlagInv, NoPatchQueued, OnePatchQueued,
      NoUnknownQueued
  <2>5. FlagInv'
    BY <2>1, <2>4 DEF HeldInv, FlagInv
  <2>6. PatchInv'
    BY <2>1, <2>2, <2>4 DEF PatchInv, PatchIn, Responding
  <2> QED
    BY <2>5, <2>6 DEF HeldInv
<1> QED
  BY <1>1, <1>2, <1>4, <1>5, <1>6 DEF DevStep

LEMMA InitHeldInv == Init => HeldInv
BY DEF Init, Junk, Pkt, HeldInv, FlagInv, PatchInv, PatchIn, Responding,
  NoPatchQueued, OnePatchQueued, NoUnknownQueued, IsPatch

LEMMA NextHeldInv ==
  ASSUME ~UnknownEvents, IInv, IInv', ExInv, HeldInv, [Next]_vars
  PROVE  HeldInv'
<1>1. CASE SpiWriteStep
  BY <1>1, SpiWriteHeldInv
<1>2. CASE EventStep
  BY <1>2, EventHeldInv
<1>3. CASE CallStep
  BY <1>3, CallHeldInv
<1>4. CASE Isr
  BY <1>4, IsrHeldInv
<1>5. CASE DevStep \/ DevRequestPatch \/ DevUnsol
  BY <1>5, DevHeldInv
<1>6. CASE UNCHANGED vars
  BY <1>6, SamePatches DEF vars, locals, hciVars, spiVars, wireVars, devVars,
    HeldInv, FlagInv, PatchInv, PatchIn, Responding
<1> QED
  BY <1>1, <1>2, <1>3, <1>4, <1>5, <1>6 DEF Next, MainStep

\* Each of the two rests on the other: what an answer announces is read from
\* the buffer, and the buffer is free when the next answer comes.
LEMMA ExchangeInv ==
  ASSUME PromptRelease, ~UnknownEvents PROVE Spec => [](IInv /\ ExInv /\ HeldInv)
<1>1. Init => ExInv /\ HeldInv
  BY InitExInv, InitHeldInv
<1>2. HeldInv => (pc = "apply" => rx = rcvd)
  BY DEF HeldInv, FlagInv
<1>3. IInv /\ IInv' /\ ExInv /\ HeldInv /\ [Next]_vars => ExInv' /\ HeldInv'
  BY <1>2, NextExInv, NextHeldInv
<1> QED
  BY <1>1, <1>3, DriverInv, PTL DEF Spec

\* When a call has returned, no command, answer or data packet of it is left
\* in the controller or in the buffer.
THEOREM CallsLeaveNothingBehind ==
  ASSUME PromptRelease, ~UnknownEvents PROVE Spec => []CallsLeaveNothing
<1>1. IInv /\ ExInv => CallsLeaveNothing
  BY DEF IInv, TypeOK, DataOK, ExInv, WaitInv, Quiet, CallsLeaveNothing,
    AnswerOrData, AnswerIn, DataIn, NoAnswer, NoData, IsAnswer, IsData
<1> QED
  BY <1>1, ExchangeInv, PTL

\* From the moment hci_event_handler looks at the packet until it re-enables
\* the interrupt, nothing replaces the packet in the shared buffer: the
\* controller sends only events the driver supports.
THEOREM BufferIsHeld ==
  ASSUME PromptRelease, ~UnknownEvents PROVE Spec => []BufferHeld
<1>1. HeldInv => BufferHeld
  BY DEF HeldInv, FlagInv, BufferHeld
<1> QED
  BY <1>1, ExchangeInv, PTL

-----------------------------------------------------------------------------
(* Counting the packets of an answer that have not been taken              *)

Queued   == {i \in DOMAIN devq : AnswerOrData(devq[i])}
Buffered == flag /\ AnswerOrData(rx)

LEMMA UntakenCount ==
  /\ Untaken = Cardinality(Queued) + (IF Buffered THEN 1 ELSE 0)
  /\ Untaken' = Cardinality(Queued') + (IF Buffered' THEN 1 ELSE 0)
BY DEF Untaken, Queued, Buffered

\* In terms of the invariant of the exchange.
LEMMA CountedPackets ==
  /\ \A p : AnswerOrData(p) <=> IsAnswer(p) \/ IsData(p)
  /\ Buffered <=> AnswerIn \/ DataIn
  /\ Queued = {} <=> NoAnswer /\ NoData
<1>1. \A p : AnswerOrData(p) <=> IsAnswer(p) \/ IsData(p)
  BY DEF AnswerOrData, IsAnswer, IsData
<1> QED
  BY <1>1 DEF Buffered, AnswerIn, DataIn, Queued, NoAnswer, NoData

LEMMA QueuedFinite ==
  ASSUME TypeOK
  PROVE  IsFiniteSet(Queued) /\ Cardinality(Queued) \in Nat
<1>1. DOMAIN devq = 1..Len(devq) /\ Len(devq) \in Nat
  BY DEF TypeOK, DataOK
<1>2. IsFiniteSet(DOMAIN devq)
  BY <1>1, FS_Interval
<1>3. IsFiniteSet(Queued)
  BY <1>2, FS_Subset DEF Queued
<1> QED
  BY <1>3, FS_CardinalityType

\* Quiet leaves nothing to take, before a step and after it.
LEMMA QuietCount == (Quiet => Untaken = 0) /\ (Quiet' => Untaken' = 0)
<1>1. Quiet => Queued = {} /\ ~Buffered
  BY CountedPackets DEF Quiet
<1>2. Quiet' => Queued' = {} /\ ~Buffered'
  BY DEF Quiet, NoAnswer, NoData, AnswerIn, DataIn, Queued, Buffered, AnswerOrData,
    IsAnswer, IsData
<1> QED
  BY <1>1, <1>2, UntakenCount, FS_EmptySet

\* Counting does not depend on where the packets stand.
LEMMA ShiftedCount ==
  ASSUME NEW S, NEW T, S \subseteq Int, T \subseteq Int, IsFiniteSet(T),
         \A i \in S : i + 1 \in T, \A j \in T : j - 1 \in S
  PROVE  Cardinality(S) = Cardinality(T)
<1> DEFINE f == [j \in T |-> j - 1]
<1>1. f \in [T -> S]
  OBVIOUS
<1>2. \A a, b \in T : f[a] = f[b] => a = b
  OBVIOUS
<1>3. \A i \in S : \E j \in T : f[j] = i
  <2> SUFFICES ASSUME NEW i \in S PROVE \E j \in T : f[j] = i
    OBVIOUS
  <2>1. i + 1 \in T /\ i + 1 - 1 = i
    OBVIOUS
  <2> QED
    BY <2>1
<1> HIDE DEF f
<1>4. f \in Bijection(T, S)
  BY <1>1, <1>2, <1>3, Fun_IsBij
<1>5. ExistsBijection(T, S)
  BY <1>4, Fun_ExistsBij, Zenon
<1> QED
  BY <1>5, FS_Bijection

\* Reading a packet takes it off the count, if it was one to count.
LEMMA ReadCount ==
  ASSUME TypeOK, devq # <<>>, devq' = Tail(devq)
  PROVE  Cardinality(Queued') =
           Cardinality(Queued) - (IF AnswerOrData(devq[1]) THEN 1 ELSE 0)
<1> USE DEF TypeOK, DataOK
<1>1. /\ 1 \in DOMAIN devq
      /\ \A i \in DOMAIN devq' : i + 1 \in DOMAIN devq /\ devq'[i] = devq[i + 1]
  BY ReadQueue
<1>2. \A i \in DOMAIN devq : i = 1 \/ i - 1 \in DOMAIN devq'
  OBVIOUS
<1>3. /\ DOMAIN devq \subseteq Int /\ DOMAIN devq' \subseteq Int
      /\ \A i \in DOMAIN devq' : i + 1 # 1
      /\ \A i \in Int : i - 1 + 1 = i
  OBVIOUS
<1>4. \A i \in Queued' : i + 1 \in Queued \ {1}
  BY <1>1, <1>3 DEF Queued
<1>5. \A j \in Queued \ {1} : j - 1 \in Queued'
  BY <1>1, <1>2, <1>3 DEF Queued
<1>6. Queued \subseteq Int /\ Queued' \subseteq Int
  BY <1>3 DEF Queued
<1>7. IsFiniteSet(Queued) /\ IsFiniteSet(Queued \ {1})
  BY QueuedFinite, FS_RemoveElement
<1>8. Cardinality(Queued') = Cardinality(Queued \ {1})
  BY <1>4, <1>5, <1>6, <1>7, ShiftedCount
<1>9. 1 \in Queued <=> AnswerOrData(devq[1])
  BY <1>1 DEF Queued
<1> QED
  BY <1>7, <1>8, <1>9, QueuedFinite, FS_RemoveElement

\* Other packets that are put behind the queue are not counted.
LEMMA BehindCount ==
  ASSUME TypeOK, NEW p, devq' = Append(devq, p), ~AnswerOrData(p)
  PROVE  Queued' = Queued
<1>1. \A i \in DOMAIN devq :  i \in DOMAIN devq' /\ devq'[i] = devq[i]
  BY DEF TypeOK, DataOK
<1>2. \A i \in DOMAIN devq' :
        (i \in DOMAIN devq /\ devq'[i] = devq[i]) \/ devq'[i] = p
  BY DEF TypeOK, DataOK
<1> QED
  BY <1>1, <1>2 DEF Queued

LEMMA PairCount ==
  ASSUME NEW a, NEW b, a # b
  PROVE  Cardinality({a} \cup {b}) = 2
<1> DEFINE S == {a}
<1>1. IsFiniteSet(S) /\ Cardinality(S) = 1
  BY FS_Singleton
<1>2. b \notin S
  OBVIOUS
<1> HIDE DEF S
<1>3. Cardinality(S \cup {b}) = Cardinality(S) + 1
  BY <1>1, <1>2, FS_AddElement
<1> QED
  BY <1>1, <1>3 DEF S

\* An answer, put behind a queue without one, counts for one or two packets.
LEMMA AnswerCount ==
  ASSUME TypeOK, Queued = {}, NEW r \in Replies(op), devq' = devq \o r
  PROVE  Cardinality(Queued') \in 1..2
<1> DEFINE n == Len(devq)
<1> USE DEF TypeOK, DataOK
<1>1. n \in Nat /\ DOMAIN devq = 1..n /\ \A i \in 1..n : ~AnswerOrData(devq[i])
  BY DEF Queued
<1>2. /\ \A s \in Statuses : AnswerOrData(Pkt(op, s))
      /\ AnswerOrData(Pkt(op, "ok")) /\ AnswerOrData(Pkt("DATA", "ok"))
  BY DEF Pkt, AnswerOrData
<1>3. CASE \E s \in Statuses : r = <<Pkt(op, s)>>
  <2>1. PICK s \in Statuses : r = <<Pkt(op, s)>>
    BY <1>3
  <2>2. /\ DOMAIN devq' = 1..(n + 1) /\ devq'[n + 1] = Pkt(op, s)
        /\ \A i \in 1..n : devq'[i] = devq[i]
    BY <2>1
  <2> HIDE DEF n
  <2>3. \A i \in 1..(n + 1) : i \in 1..n \/ i = n + 1
    BY <1>1
  <2>4. n + 1 \in 1..(n + 1)
    BY <1>1
  <2>5. Queued' = {n + 1}
    BY <1>1, <1>2, <2>2, <2>3, <2>4 DEF Queued
  <2>6. Cardinality(Queued') = 1
    BY <2>5, FS_Singleton
  <2> QED
    BY <2>6
<1>4. CASE op = "RECV" /\ r = <<Pkt(op, "ok"), Pkt("DATA", "ok")>>
  <2>1. /\ DOMAIN devq' = 1..(n + 2) /\ devq'[n + 1] = Pkt(op, "ok")
        /\ devq'[n + 2] = Pkt("DATA", "ok")
        /\ \A i \in 1..n : devq'[i] = devq[i]
    BY <1>4
  <2> HIDE DEF n
  <2>2. \A i \in 1..(n + 2) : i \in 1..n \/ i = n + 1 \/ i = n + 2
    BY <1>1
  <2>3. n + 1 \in 1..(n + 2) /\ n + 2 \in 1..(n + 2) /\ n + 1 # n + 2
    BY <1>1
  <2>4. Queued' = {n + 1} \cup {n + 2}
    BY <1>1, <1>2, <2>1, <2>2, <2>3 DEF Queued
  <2>5. Cardinality(Queued') = 2
    BY <2>3, <2>4, PairCount
  <2> QED
    BY <2>5
<1> QED
  BY <1>3, <1>4, RepliesFacts

-----------------------------------------------------------------------------
(* The driver implements CommandChannel                                    *)

\* A step that changes nothing the channel shows.
LEMMA Stutters ==
  ASSUME (dev # "off")' = (dev # "off"), InCall' = InCall,
         InCall => UNCHANGED <<acc, inbox>>, Untaken' = Untaken
  PROVE  [Channel!ChanNext]_(Channel!chanVars)
BY DEF Channel!chanVars

\* While something of an exchange is on its way its call is in progress, and
\* the controller has answered.
LEMMA Answered ==
  ASSUME IInv, ExInv, ~NoAnswer \/ ~NoData \/ AnswerIn \/ DataIn
  PROVE  InCall /\ acc # 0 /\ inbox = <<>> /\ dev # "off"
<1>1. inbox = <<>>
  BY DEF ExInv, InboxInv
<1>2. ~Quiet
  BY DEF Quiet
<1>3. pc \in Sending \cup Calling /\ acc # 0
  BY <1>2 DEF IInv, TypeOK, DataOK, PCs, ExInv, WaitInv, LocInv, AccByPc,
    Sending, Calling, Closed
<1>4. pc = "ret" => more
  BY DEF ExInv, WaitInv, After, Handling, Calling
<1>5. dev # "off"
  BY <1>3 DEF IInv, AnyInv, DevByPc, Sending, Calling, Closed
<1> QED
  BY <1>1, <1>3, <1>4, <1>5 DEF InCall, Sending, Calling

\* A transfer sends the command, which the controller accepts, or a patch
\* response, which the channel does not show.
LEMMA SentImplements ==
  ASSUME IInv, IInv', ExInv, ExInv', cs, EndWrite, UNCHANGED <<flag, rx, wr>>,
         pc \in Sending, pc' \in Sending
  PROVE  [Channel!ChanNext]_(Channel!chanVars)
<1>1. Untaken' = Untaken /\ dev' = dev
  BY UntakenCount, SentPacket DEF Queued, Buffered, EndWrite, Accepts
<1>2. InCall /\ InCall'
  BY DEF InCall, Sending
<1>3. CASE wr = "cmd"
  <2>1. inbox' = <<op>> /\ acc' = 1
    BY <1>3, SentPacket
  <2>2. inbox' # <<>>
    BY <2>1
  <2>3. acc' = acc + 1 /\ acc \in Nat
    BY <1>3, OpFacts DEF IInv, TypeOK, DataOK, EndWrite, Accepts, Written, Cmds,
      WorkCmds
  <2>4. acc = 0
    BY <2>1, <2>3
  <2> QED
    BY <1>1, <1>2, <2>1, <2>2, <2>4 DEF Channel!ChanNext, Channel!Accept
<1>4. CASE wr = "patch"
  BY <1>1, <1>2, <1>4, SentPacket, Stutters
<1> QED
  BY <1>3, <1>4 DEF IInv, TypeOK, DataOK

LEMMA SpiWriteImplements ==
  ASSUME IInv, IInv', ExInv, ExInv', SpiWriteStep
  PROVE  [Channel!ChanNext]_(Channel!chanVars)
<1>1. CASE SpiWriteStep /\ UNCHANGED <<devq, dev, inbox, acc, flag, rx>>
  <2>1. InCall /\ InCall'
    BY <1>1 DEF SpiWriteStep, WriteFirst, WriteFirstIdle, WriteFirstEnd,
      WriteLock, WriteAssert, WriteEnable, WritePinLow, WritePinHigh,
      WriteDirect, WriteDirectEnd, WriteDone, Main, InCall
  <2> QED
    BY <1>1, <2>1, UntakenCount, Stutters DEF Queued, Buffered
<1>2. CASE WriteFirstEnd
  <2>1. cs
    BY <1>2 DEF WriteFirstEnd, Main, IInv, LocInv, Wires
  <2> QED
    BY <1>2, <2>1, SentImplements DEF WriteFirstEnd, Main, locals, hciVars, Sending
<1>3. CASE WriteDirectEnd
  <2>1. ~cs
    BY <1>3 DEF WriteDirectEnd, Main, IInv, LocInv, StateByPc, Wires
  <2> QED
    BY <1>1, <1>3, <2>1 DEF WriteDirectEnd, EndWrite, hciVars, devVars, SpiWriteStep
<1> QED
  BY <1>1, <1>2, <1>3
  DEF SpiWriteStep, WriteFirst, WriteFirstIdle, WriteLock, WriteAssert,
    WriteEnable, WritePinLow, WritePinHigh, WriteDirect, WriteDone, hciVars, devVars

LEMMA EventImplements ==
  ASSUME IInv, IInv', ExInv, ExInv', EventStep
  PROVE  [Channel!ChanNext]_(Channel!chanVars)
<1>1. /\ UNCHANGED <<devq, dev, inbox, acc, rx>>
      /\ Queued' = Queued
  BY DEF EventStep, WaitEvent, TakePacket, ApplyPacket, ClearFlag, ResumeSpi,
    HandlePatch, NoPatch, CheckDone, hciVars, devVars, Queued
<1>2. CASE flag' = flag /\ InCall' = InCall
  BY <1>1, <1>2, UntakenCount, Stutters DEF Buffered
<1>3. CASE ClearFlag
  <2>1. InCall /\ InCall' /\ ~Buffered'
    BY <1>3 DEF ClearFlag, Main, InCall, Buffered
  <2>2. CASE Buffered
    <3>1. acc # 0 /\ inbox = <<>> /\ dev # "off"
      BY <2>2, CountedPackets, Answered
    <3>2. Untaken > 0 /\ Untaken' = Untaken - 1
      BY <1>1, <2>1, <2>2, UntakenCount, QueuedFinite DEF IInv
    <3> QED
      BY <1>1, <2>1, <3>1, <3>2 DEF Channel!ChanNext, Channel!Take
  <2>3. CASE ~Buffered
    BY <1>1, <2>1, <2>3, UntakenCount, Stutters
  <2> QED
    BY <2>2, <2>3
<1>4. CASE CheckDone
  <2>1. pc = "check" /\ flag' = flag /\ more' = more
    BY <1>4 DEF CheckDone, locals, hciVars
  <2>2. CASE pc' = "ret" /\ ~more
    <3>1. waitOp = "none" /\ ~waitData /\ InCall /\ ~InCall'
      BY <1>4, <2>1, <2>2 DEF CheckDone, InCall
    <3>2. inbox = <<>> /\ acc # 0 /\ Quiet
      BY <2>1, <2>2, <3>1 DEF IInv, LocInv, AccByPc, Calling, ExInv, WaitInv, After,
        Handling, Quiet
    <3>3. Untaken = 0 /\ Untaken' = Untaken
      BY <1>1, <2>1, <3>2, QuietCount, UntakenCount DEF Buffered
    <3> QED
      BY <1>1, <3>1, <3>2, <3>3 DEF Channel!ChanNext, Channel!GiveBack
  <2>3. CASE ~(pc' = "ret" /\ ~more)
    <3>1. InCall /\ InCall'
      BY <1>4, <2>1, <2>3 DEF CheckDone, InCall
    <3> QED
      BY <1>2, <2>1, <3>1
  <2> QED
    BY <2>2, <2>3
<1> QED
  BY <1>2, <1>3, <1>4 DEF EventStep, WaitEvent, TakePacket, ApplyPacket,
    ResumeSpi, HandlePatch, NoPatch, Main, hciVars, InCall

LEMMA CallImplements ==
  ASSUME IInv, IInv', ExInv, ExInv', CallStep
  PROVE  [Channel!ChanNext]_(Channel!chanVars)
<1>1. CASE Start
  <2>1. Quiet /\ Quiet'
    BY <1>1 DEF Start, Main, ExInv, WaitInv, Closed
  <2>2. ~InCall /\ InCall' = InCall /\ dev' = dev
    BY <1>1 DEF Start, Main, InCall, devVars
  <2>3. Untaken = 0 /\ Untaken' = 0
    BY <2>1, QuietCount
  <2> QED
    BY <2>2, <2>3, Stutters
<1>2. CASE PowerUp
  <2>1. Quiet /\ Quiet'
    BY <1>2 DEF PowerUp, Main, ExInv, WaitInv, Closed
  <2>2. ~InCall /\ ~InCall' /\ dev = "off" /\ dev' # "off"
    BY <1>2 DEF PowerUp, Main, InCall, IInv, AnyInv, DevByPc, Closed
  <2>3. Untaken = 0 /\ Untaken' = 0
    BY <2>1, QuietCount
  <2> QED
    BY <2>2, <2>3 DEF Channel!ChanNext, Channel!SwitchOn
<1>3. CASE Stop
  <2>1. Quiet /\ Quiet'
    BY <1>3 DEF Stop, Main, ExInv, WaitInv, Closed
  <2>2. ~InCall /\ ~InCall' /\ dev # "off" /\ dev' = "off"
    BY <1>3 DEF Stop, Main, InCall, IInv, AnyInv, DevByPc, Closed
  <2>3. Untaken = 0 /\ Untaken' = 0
    BY <2>1, QuietCount
  <2> QED
    BY <2>2, <2>3 DEF Channel!ChanNext, Channel!SwitchOff
<1>4. CASE SeeLineLow \/ ReadBufferSize \/ Command
  <2>1. /\ ~InCall /\ InCall' /\ acc' = 0
        /\ UNCHANGED <<dev, devq, flag, rx>> /\ pc \in {"low", "ret", "ready"}
    BY <1>4 DEF SeeLineLow, ReadBufferSize, Command, Call, Main, InCall, hciVars,
      devVars
  <2>2. dev # "off"
    BY <2>1 DEF IInv, AnyInv, DevByPc, Closed
  <2>3. Untaken' = Untaken
    BY <2>1, UntakenCount DEF Queued, Buffered
  <2> QED
    BY <2>1, <2>2, <2>3 DEF Channel!ChanNext, Channel!Ask
<1>5. CASE SpiClose \/ WaitData \/ Return \/ EnterWaitForDHCP \/ LeaveWaitForDHCP
  <2>1. UNCHANGED <<dev, devq, inbox, acc, flag, rx>> /\ InCall' = InCall
    BY <1>5 DEF SpiClose, WaitData, Return, EnterWaitForDHCP, LeaveWaitForDHCP,
      Main, InCall, locals, hciVars, devVars
  <2> QED
    BY <2>1, UntakenCount, Stutters DEF Queued, Buffered
<1> QED
  BY <1>1, <1>2, <1>3, <1>4, <1>5 DEF CallStep

\* Reading a packet loses at most one of an answer: the one that waited in
\* the buffer, or an answer to SEND that counts as an unsolicited event.
LEMMA ReadImplements ==
  ASSUME IInv, IInv', ExInv, ExInv', IsrRead
  PROVE  [Channel!ChanNext]_(Channel!chanVars)
<1>1. devq # <<>>
  BY DEF IInv, IsrRead, Interrupt, LocInv, StateByPc, IntenByPc, Wires, Closed,
    Calling, PCs, TypeOK, DataOK
<1>2. /\ rx' = devq[1] /\ flag' = ~HandledUnsol(devq[1]) /\ devq' = Tail(devq)
      /\ UNCHANGED <<pc, more, dev, inbox, acc>>
  BY <1>1, ReadQueue DEF IsrRead, Interrupt, locals, IInv, TypeOK, DataOK
<1>3. InCall' = InCall
  BY <1>2 DEF InCall
<1> DEFINE p == devq[1]
<1>4. Buffered' <=> AnswerOrData(p) /\ ~HandledUnsol(p)
  BY <1>2 DEF Buffered
<1>5. 1 \in DOMAIN devq
  BY <1>1, <1>2, ReadQueue DEF IInv, TypeOK, DataOK
<1>6. AnswerOrData(p) /\ HandledUnsol(p) => IsAnswer(p) /\ ~NoAnswer
  BY <1>5 DEF AnswerOrData, HandledUnsol, IsAnswer, NoAnswer, Cmds
<1>7. ~(Buffered /\ AnswerOrData(p) /\ HandledUnsol(p))
  BY <1>6, CountedPackets DEF ExInv, BufferInv
<1>8. Cardinality(Queued') = Cardinality(Queued) - (IF AnswerOrData(p) THEN 1 ELSE 0)
  BY <1>1, <1>2, ReadCount DEF IInv
<1>9. Cardinality(Queued) \in Nat /\ (AnswerOrData(p) => Cardinality(Queued) > 0)
  BY <1>5, QueuedFinite, FS_EmptySet DEF IInv, Queued
<1> HIDE DEF p
<1>10. CASE Buffered \/ (AnswerOrData(p) /\ HandledUnsol(p))
  <2>1. InCall /\ acc # 0 /\ inbox = <<>> /\ dev # "off"
    BY <1>6, <1>10, CountedPackets, Answered
  <2>2. CASE Buffered
    <3>1. Buffered' <=> AnswerOrData(p)
      BY <1>4, <1>7, <2>2
    <3> QED
      BY <1>8, <1>9, <2>1, <2>2, <3>1, <1>2, <1>3, UntakenCount
      DEF Channel!ChanNext, Channel!Take
  <2>3. CASE ~Buffered
    <3>1. AnswerOrData(p) /\ ~Buffered'
      BY <1>4, <1>10, <2>3
    <3>2. Untaken = Cardinality(Queued) /\ Untaken' = Cardinality(Queued) - 1
      BY <1>8, <1>9, <2>3, <3>1, UntakenCount
    <3> QED
      BY <1>2, <1>3, <1>9, <2>1, <3>1, <3>2 DEF Channel!ChanNext, Channel!Take
  <2> QED
    BY <2>2, <2>3
<1>11. CASE ~(Buffered \/ (AnswerOrData(p) /\ HandledUnsol(p)))
  <2>1. Untaken' = Untaken
    BY <1>4, <1>8, <1>9, <1>11, UntakenCount
  <2> QED
    BY <1>2, <1>3, <2>1, Stutters
<1> QED
  BY <1>10, <1>11

LEMMA IsrImplements ==
  ASSUME IInv, IInv', ExInv, ExInv', Isr
  PROVE  [Channel!ChanNext]_(Channel!chanVars)
<1>1. CASE IsrPowerUp \/ IsrIgnore
  <2>1. UNCHANGED <<pc, more, dev, devq, inbox, acc, flag, rx>>
    BY <1>1 DEF IsrPowerUp, IsrIgnore, Interrupt, locals, hciVars, devVars
  <2> QED
    BY <2>1, UntakenCount, Stutters DEF InCall, Queued, Buffered
<1>2. CASE IsrRead
  BY <1>2, ReadImplements
<1>3. CASE IsrWrite
  <2>1. /\ EndWrite /\ spiState = "WRITE_IRQ"
        /\ UNCHANGED <<pc, wr, rx, flag>>
    BY <1>3 DEF IsrWrite, Interrupt, locals, hciVars
  <2>2. cs
    BY <2>1 DEF IInv, LocInv, Wires
  <2> QED
    BY <2>1, <2>2, SentPacket, SentImplements
<1> QED
  BY <1>1, <1>2, <1>3 DEF Isr

LEMMA DevImplements ==
  ASSUME IInv, IInv', ExInv, ExInv', DevStep \/ DevRequestPatch \/ DevUnsol
  PROVE  [Channel!ChanNext]_(Channel!chanVars)
<1>1. /\ UNCHANGED <<pc, more, acc, flag, rx>>
      /\ InCall' = InCall /\ Buffered' = Buffered
  BY DEF DevStep, DevBoot, DevLowerLine, DevRaiseLine, DevAnswer, DevDhcp,
    DevRequestPatch, DevUnsol, host, locals, hciVars, InCall, Buffered
<1>2. ASSUME (dev # "off")' = (dev # "off"), inbox' = inbox, Queued' = Queued
      PROVE  [Channel!ChanNext]_(Channel!chanVars)
  BY <1>1, <1>2, UntakenCount, Stutters
<1>3. CASE DevBoot \/ DevLowerLine \/ DevRaiseLine
  BY <1>2, <1>3 DEF DevBoot, DevLowerLine, DevRaiseLine, devVars, Queued
<1>4. CASE DevDhcp \/ DevRequestPatch \/ DevUnsol
  <2>1. PICK p \in {Pkt("PATCH", "ok"), Pkt("DHCP", "ok")} \cup Unsol :
               devq' = Append(devq, p)
    BY <1>4 DEF DevDhcp, DevRequestPatch, DevUnsol
  <2>2. ~AnswerOrData(p)
    BY <2>1 DEF Unsol, Pkt, AnswerOrData, Cmds, WorkCmds
  <2>3. Queued' = Queued
    BY <2>1, <2>2, BehindCount DEF IInv
  <2> QED
    BY <1>2, <1>4, <2>3 DEF DevDhcp, DevRequestPatch, DevUnsol
<1>5. CASE DevAnswer
  <2>1. /\ inbox = <<op>> /\ inbox' = <<>> /\ acc = 1
        /\ pc \in Sending \cup Calling
        /\ NoAnswer /\ NoData /\ ~AnswerIn /\ ~DataIn
        /\ After => waitOp = op
    BY <1>5 DEF DevAnswer, ExInv, InboxInv
  <2>2. PICK r \in Replies(op) : devq' = devq \o r
    BY <1>5, <2>1 DEF DevAnswer
  <2>3. Queued = {} /\ ~Buffered
    BY <2>1, CountedPackets
  <2>4. Untaken' \in 1..2
    BY <1>1, <2>2, <2>3, AnswerCount, UntakenCount DEF IInv
  <2>5. pc # "ret"
    BY <2>1, OpFacts DEF IInv, ExInv, WaitInv, After, Handling, Calling
  <2>6. InCall
    BY <2>1, <2>5 DEF InCall, Sending, Calling
  <2>7. inbox # <<>>
    BY <2>1
  <2>8. dev # "off" /\ dev' # "off"
    BY <1>5, <2>7 DEF DevAnswer, IInv, AnyInv, DevByPc
  <2> QED
    BY <1>1, <2>1, <2>4, <2>6, <2>7, <2>8 DEF Channel!ChanNext, Channel!Answer
<1> QED
  BY <1>3, <1>4, <1>5 DEF DevStep

\* The driver implements CommandChannel: commands go to a powered controller,
\* one at a time, each is executed once and answered, and a call returns once
\* its whole answer has been taken.
THEOREM DriverImplementsChannel ==
  ASSUME PromptRelease, ~UnknownEvents PROVE Spec => ImplementsChannel
<1>1. Init => Channel!ChanInit
  <2>1. Init => ~InCall /\ Untaken = 0
    BY InitExInv, QuietCount DEF Init, InCall, ExInv, WaitInv, Closed
  <2> QED
    BY <2>1 DEF Init, Channel!ChanInit
<1>2. ASSUME IInv, IInv', ExInv, ExInv', [Next]_vars
      PROVE  [Channel!ChanNext]_(Channel!chanVars)
  <2>1. CASE UNCHANGED vars
    BY <2>1, UntakenCount, Stutters DEF vars, locals, hciVars, devVars, InCall,
      Queued, Buffered
  <2>2. CASE Next
    BY <1>2, <2>2, SpiWriteImplements, EventImplements, CallImplements,
       IsrImplements, DevImplements DEF Next, MainStep
  <2> QED
    BY <1>2, <2>1, <2>2
<1> QED
  BY <1>1, <1>2, ExchangeInv, PTL DEF Spec, ImplementsChannel, Channel!ChanSpec

=============================================================================
