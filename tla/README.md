# A verification project for the SmartNode firmware

The firmware (`src/SmartNode`) runs on an nRF51 without an operating system. A
node transmits BLE beacons on a schedule, and now and then switches on a TI
CC3000 WiFi controller, reports to a server over HTTP, fetches its settings as
JSON and switches the controller off again. One main program and a handful of
interrupt handlers share global variables without locks. This directory holds
TLA+ models of that program, their TLC configurations and TLAPS proofs.

    tlc -workers 2 -config MC_Driver_all.cfg MC_Driver     # check a run
    tlapm CC3000Driver_proofs.tla                          # check the proofs

## 1. The system

| Component | Source | State | Operations | Talks to |
|---|---|---|---|---|
| SPI transport | `spi.c` | `ulSpiState`, packet buffers, magic numbers | `SpiOpen/Close/Write`, `IntSpiGPIOHandler` | IRQ pin and CS, calls `SpiReceiveHandler` from the interrupt |
| HCI events | `WifiDriver/evnt_handler.c` | `usRxEventOpcode`, `usRxDataPending`, `usEventOrDataReceived`, `usNumberOfFreeBuffers` | `SimpleLinkWaitEvent/Data`, `hci_event_handler`, `hci_unsol_event_handler` | polled by every call; run in the interrupt for unsolicited events |
| HCI commands | `WifiDriver/hci.c` | the transmit buffer | `hci_command_send`, `hci_data_send`, patches | `SpiWrite` |
| WLAN control | `WifiDriver/wlan.c` | `tSLInformation` | `wlan_start`, `wlan_stop`, profiles, policies | HCI |
| Sockets | `WifiDriver/socket.c` | `socket_active_status`, flow control | `socket`, `connect`, `send`, `recv`, ... | HCI |
| netapp, nvmem | `WifiDriver/netapp.c`, `nvmem.c` | none on the host; files in the controller | commands with one answer, `nvmem_write_patch` in parts | HCI |
| security | `WifiDriver/security.c` | AES tables, `expandedKey` | AES-128 for smart config | nvmem |
| WiFi glue | `wifi.c` | `ulCC3000DHCP`, `ulCC3000Connected`, `ulSmartConfigFinished` | `wifi_init`, `waitForDHCP`, `StartSmartConfig`, the event callback | called from the interrupt |
| GPIO | `gpio.c` | IRQ edge latch and enable | `GPIOTE_IRQHandler` | SPI transport, main's flag |
| HTTP client | `backend_connection.c` | local | `httpOperation` | sockets |
| Report, status, parser | `backend_connection.c` | local | `reportStatusToServer`, `getStatusFromServer`, `parseJSONObject` | schedule, time, BLE |
| jsmn | `JSON/jsmn.c` | parser record | `jsmn_parse` | used by the parser |
| Main loop | `main.c` | `reportStatus` | `main` | everything |
| Time | `time.c` | `time`, `count`, `beaconCount`, period | `RTC0_IRQHandler` | schedule, BLE, main's flag |
| Schedule | `schedule.c` | `schedule[64]`, `currentSchedule` | add, reset, check | written by main, read by the RTC interrupt |
| BLE | `ble.c` | payload, period, power | `sendBLEBeacon` | radio |
| Serial | `serial.c` | UART registers | `send_byte`, `debug_print` | called by main and by interrupts |
| adc, nrf_nvmc | `adc.c`, `nrf_nvmc.c` | none | one conversion; unused vendor code | - |

What is hard to test here: the interrupt and the main program share the SPI
state, the packet buffer, the flow-control counter, the schedule and the
request flag; the controller answers at times of its own; edges stay latched
across sessions; most waits have no timeout. PROJECT.json lists the hazards at
their lines, with the properties that watch over them.

The Makefile compiles without an optimization option, so the busy loops
re-read variables that are not declared `volatile` (`sSpiInformation`,
`reportStatus`); the models rely on that.

What makes each component correct:

* driver: each command is executed once and answered once, the bus has one
  user, a packet is not replaced while it is read, nobody waits for an
  interrupt that is disabled, every call returns;
* flow control: never more packets in the controller than it has buffers, and
  never none left to go on with;
* main loop and interrupts: no request is lost or left lying, no beacon is
  counted twice, the record the schedule asks for is in force;
* parser: what the reply says is what is set, and the array is big enough;
* HTTP client: sockets are closed, bytes are sent once, it ends;
* the driver's calls: a packet's offsets and lengths describe its bytes and
  nothing else, an answer fits the variable it is copied to, a socket marked
  active is one the controller has or has dropped since, a service pack
  reported as written is whole;
* smart configuration: the profile added is the one announced, key and all,
  and every wait ends;
* jsmn: the tokens form a tree, and calling again is as good as calling once.

## 2. The modules

| Module | What it is | Checked by | Proofs |
|---|---|---|---|
| `CommandChannel` | abstract: what the driver promises its callers | as a property | |
| `CC3000Driver` | SPI transport, event handler, session and calls, IRQ interrupt, controller | `MC_Driver` | `CC3000Driver_proofs` |
| `BufferPool` | abstract: what flow control promises the controller | as a property | |
| `FlowControl` | `send`'s buffer counting against the free-buffer event | `MC_Flow` | `FlowControl_proofs` |
| `Node` | main loop, RTC and button interrupts, schedule | `MC_Node` | `Node_proofs` |
| `StatusParser` | `parseJSONObject` token by token | `MC_Parser` | `StatusParser_proofs` |
| `HttpClient` | `httpOperation` call by call | `MC_Http` | `HttpClient_proofs` |
| `Calls` | every call of `wlan.c`, `netapp.c`, `nvmem.c`, `socket.c`: request, answer, effect | `MC_Calls` | `Calls_proofs` |
| `AesStandard` | reference: AES-128 defined over GF(2^8) | by `SmartConfig` | |
| `Aes` | `security.c` as written: tables, shortcuts | by `SmartConfig` | |
| `SmartConfig` | `StartSmartConfig` and `wlan_smart_config_process` | `MC_SmartConfig` | |
| `Jsmn` | `jsmn_parse` over characters, with a caller that resumes it | `MC_Jsmn` | `Jsmn_proofs` |
| `Recursion` | lemmas: induction on the naturals and functions defined by recursion, used by four of the proofs | | itself |

PROJECT.json maps every definition to the lines it models.

### CC3000Driver

The main program is at location `pc`; a step is a stretch of code between two
accesses to state it shares with the interrupt. `SpiWrite` is eleven steps
(`WriteLock` disables the interrupt, `WriteAssert` takes the state and CS,
`WriteEnable` enables the interrupt, `WritePinLow` is the check of the pin, and
so on). The first write of a session has three of them, `WriteFirst` for the
transfer, `WriteFirstIdle` for the state and `WriteFirstEnd` for CS: `SpiOpen`
has enabled the interrupt by then, so that it may come between the last two.
`hci_event_handler` is eight, of which `ApplyPacket`, `ClearFlag` and
`ResumeSpi` are separate because the order they come in matters. The interrupt
is one step and comes before any step of the main program when it is pending
and enabled (`MainMayRun`): the Cortex-M0 takes it at the next instruction. A
falling edge is latched (`latch`) even when the interrupt is disabled.

All calls that are one command and one answer are one command `CMD`; `SEND`
and `RECV` differ in what the driver does with their answers. The type of an
event is all the driver decides on, so packets carry an opcode and, where the
handler or the callback looks at it, a status. `hci_event_handler` reads the
type of a packet once and its parameters later, from the buffer: were another
packet there by then, what `recv` takes for the status of its answer would be
any bytes (`ApplyPacket`). An unsolicited event is a disconnection or a failed
DHCP, which both take the address away (`DhcpAfter`).

The controller is external. Its model is no more than the driver's code
assumes of it: it lowers IRQ when it is selected or has a packet, raises it
when CS goes away, takes one command per transaction, answers in order. Four
switches select its behaviour: `PromptRelease` (IRQ goes up with CS, or a
while later), `SendErrors`, `UnknownEvents`, `EarlyEvents`.

### FlowControl

The decrement `usNumberOfFreeBuffers--` is a load and a store; the event that
adds buffers may come between them. `inflight` and `owed` are the controller's
own count. `Credit` is what the host can still come to use.

### Node

An interrupt is one step between any two steps of the main program. Which RTC
tick ends a minute or sends a beacon follows from the tick counter; here any
tick may do either. The schedule is rebuilt record by record while the
interrupt may read it. A local that C leaves uninitialized is any member of
`Garbage`; the remainder by a period of 0 may be either outcome. A report's
delivery is a choice: the server may have received it whatever the client saw.

### StatusParser

`Init` takes the tokens of a well-formed reply (`DocTokens`, as the jsmn in
the repository counts sizes: an object's size is its keys plus its values), or
any sequence of tokens. Texts are members of a set; `atoi` is a constant
function on them. A well-formed reply (`DocsAssumption`) has all four fields in
every record, in any order, perhaps twice and with other keys between them: the
code keeps the fields of the record before for one that is missing.

### HttpClient

One step is one call of the socket interface. A `recv` of the header gives a
byte, nothing (0 or an error other than -1) or -1. `seen` is the part of the
header before the first NUL, as `strstr` sees it.

### Calls

`CC3000Driver` has one command `CMD` for every call that is one command and
one answer; `Calls` opens it up. A request is the sequence of fields a call
marshals, with their widths, and the length it declares to `hci_command_send`
(cut to 8 bits) or `hci_data_command_send`. An offset and a length name the
datum they describe, so that a property can compare them with where the datum
ends up. `ResultBytes` is the switch of `hci_event_handler`: how much it copies
for an answer; a request knows the variable it is copied to.

State is what a call leaves for another: `active` (`socket_active_status`)
against the controller's sockets (`open`, and those it has dropped by itself,
`lost`), the magic number behind the transmit buffer (`intact`), the flag
`InformHostOnTxComplete`, and the service pack being written (`patch`, `file`).
How a packet travels and what interrupts do meanwhile stays in `CC3000Driver`,
the wait for transmit buffers in `FlowControl`: a step here is the part of a
call before or after its wait. `recv`'s handler looks for -57 behind the
caller's variable, so any of its answers may mark socket 0 inactive.

### Aes, AesStandard, SmartConfig

`Aes` follows `security.c` operation by operation: the tables as literals, the
round constants, the column mixing with its running sum. `AesStandard` defines
the same cipher from the field's multiplication and inverse. `SmartConfig` has
a phone encrypt the key with the standard's cipher and the code decrypt it with
its own; file 13 has the layout that the comment in
`wlan_smart_config_process` gives. A call of the driver is one step, which may
fail; `StartSmartConfig` ignores that and goes on, and so does the model. The
`while` over `ulCC3000Connected` has an empty body in the source, the block
behind it runs once, and the model says the same. Controller, network and
phone are external.

### Jsmn

A text is a sequence of the characters the code tells apart. `jsmn_parse` is
one step that takes the parser where the last call left it, the tokens there
are (or none, to count) and the characters that have arrived. The caller
resumes it after `JSMN_ERROR_NOMEM` with more tokens and whenever more text is
there. A text is not cut inside a primitive: the code takes a primitive to end
where the text ends (see section 5).

The characters are in a `buffer`, which is longer than what has arrived. The
loops of jsmn look at `len` before they read a character (`Char`), but behind a
backslash `jsmn_parse_string` does not (`Byte`): it may read the escape's letter
and four digits from behind `len` (`Beyond`). What is there is the rest of the
text, as in `jsmn_test.c`, an end, or anything else; each call may find
something else there (`Buffers`).

The code's two loops are recursive functions: `Rounds` has the parser at the
beginning of each round of `jsmn_parse`, a round with a result being the last
one, and `Places` has the places `jsmn_parse_string` comes to. Both have as
many rounds as the text can take, one for each character and one for its end;
that these are enough is proved (`Returns`, `QuoteEnds`).

## 3. The runs

Every passing run includes liveness where the module has any, under the
`LiveSpec` of its module.

| Run | Instance | Shows |
|---|---|---|
| `driver_all` | prompt controller, 2 commands, 1 unsolicited event (a disconnection or a DHCP failure), 1 patch request per session, any number of sessions; 76,173 states | `AcceptedOnce`, `ExclusiveBus`, `BufferHeld`, `NoJunkRead`, `CallsLeaveNothing`; refines `CommandChannel`; `CallsReturn`, `PatchAnswered`, `SessionEnds` |
| `driver_late` | IRQ released late, early and unknown events, 1 command, 2 events | `NoSpinWithIrqOff`, `LineHighAtPowerUp`, `FirstWriteAfterBoot` |
| `driver_senderr` | a SEND may end with -57 | `CallsReturn` is violated |
| `flow_all` | 3 buffers, 5 packets per session | `NeverOversubscribed`, `KeepsOneBuffer`, `ShutDownSafe`, `SendProceeds`; refines `BufferPool` |
| `node_all` | a week of 4 minutes, six replies, 2 beacons | `NoLostRequest`, `NoDoubleCount`, `ScheduleFollowed`, `ReportServed` |
| `node_garbage` | the same | `CurrentFromServer` is violated |
| `parser_all` | 1168 replies; all sequences of up to 7 tokens of 5; long periodic sequences | `ParsedAsSent`, `ScheduleFits` |
| `http_all` | 4 pairs of lengths, 18 answers | `SocketReleased`, `SentOnce`, `OperationEnds` |
| `http_recverr` | the same | `HeaderReceived` is violated |
| `calls_all` | two sockets, lengths at the code's limits, service packs of 0, 31, 32, 33 and 64 bytes; 574,350 states | `DataReached`, `FreshBytes`, `AnswerFits`, `ActiveMeansOpen`, `PatchWhole` |
| `smart_all` | eight networks, first and later provisioning, any call failing; 5,901 states | `KeyRecovered`, `AesAsStandard`, `ProvisioningEnds` |
| `jsmn_all` | 2801 short texts and 16 longer ones, up to 8 tokens, other things behind a cut escape; 292,669 states | `TokensNest`, `ResumedAsOnce`, `CountSuffices` |

Bounds, and why they are enough. Driver: the driver's state is the same after
each call, so a second command already follows everything a call can leave
behind, one event and one patch request can meet every step of it, and
sessions repeat without bound. Flow: three buffers and five packets run out of
buffers, lose two updates in a session and go on with what is left. Node: four
minutes have a transition before, between and after; replies carry the
schedule in and out of order, a changed clock, periods of 0, within and beyond
the week, and an empty body; the second beacon tells double counting from
counting. Parser: the replies put the schedule first, in the middle, last and
twice, with records in two orders of keys; `Capacity` is 9 and `MaxTokens` 31,
in the ratio of 64 to 128 tokens or worse. HTTP: lengths at, below and above
one and two chunks; the header buffer is cut from 1024 to 5 bytes because only
its end matters. Calls: an empty and a full SSID, keys of WEP's two sizes and
of WPA's limits, names at 32 and 230 bytes, data that fill the transmit buffer
and data that do not; two sockets tell the one a call is about from another;
packs of one part, of a part more or less a byte and of two parts, the offset's
16 bits being the theorem's concern. SmartConfig: keys of 0, 5, 13, 15, 16, 30,
31 and 32 bytes take every path of the key's length, all security types occur,
and with two pending events one may meet the program while another waits behind
it, which is as much as an interrupt that is served at once lets pile up. Jsmn: all texts of up to four of seven
characters, right or wrong, cut wherever the stream may be; the longer ones
nest containers three deep and have every escape of `jsmn_test.c`; behind an
escape that is cut off stands an end, the rest of the text, or the end of an
escape that is complete, cut off or wrong; eight tokens
are enough for most of them and too few for one, so `NOMEM` happens at every
token.

`CC3000Driver`, `FlowControl` and `StatusParser` have a type invariant, which
their proofs need; in the other modules none is checked on its own, as nothing
rests on it.

`CHECK_DEADLOCK FALSE` appears where the program really stops: the parser at
its last token, the driver when an event it does not support leaves the
interrupt disabled or a SEND never completes, `Calls` for the same SEND on a
socket the controller has dropped, `SmartConfig` when a failed call leaves
nothing to wait for, and the caller of jsmn when there is no more text.

Fairness. Main program: the core runs whenever no interrupt does, and
interrupts end (`WF(MainStep)`, `WF(Main)`). An enabled, pending interrupt is
served (`WF(Isr)`). The RTC runs on (`WF(Tick)`). The controller boots,
signals and answers what it has accepted, and gets an address, again when an
event has taken it away; it owes no patch request and no other event. Network
calls in `Node` return, which is what
`CallsReturn` shows of the driver under the stated controller, and what
`driver_senderr` shows to be false of a controller that reports -57. In
`SmartConfig` the program and the interrupt go on, a phone announces a network
in the end (`WF(Announce)`), the controller connects when a profile fits
(`WF(Associate)`), and a DHCP server that is asked again and again grants an
address some time (`SF(Lease(TRUE))`): without it `waitForDHCP`, which has no
timeout, need not end, and nothing in the code says it should.

## 4. What is proved

Each theorem holds for every value of the constants under the module's named
assumptions; the theorems below say when another assumption is used. TLC checked
the inductive invariants, or what they are made of, on the runs' instances
before they were proved.

**`CC3000Driver_proofs`: the SPI transport.** `DriverTypeOK` holds for every
controller. So does `AnyInv`, which says where the SPI state machine can be at
each location of the main program (`AnyStateByPc`: outside a session, and while
the interrupt is disabled, nothing but the main program moves it) and which
power state the controller is in (`DevByPc`). From it follow, whatever the
controller does and however late it releases the line, `NoSpinWithIrqOff`,
`LineHighAtPowerUp` and `FirstWriteAfterBoot`. With `PromptRelease` the
invariant is `IInv`, which adds `LocInv`: a sharper `StateByPc`, whether the
interrupt is enabled (`IntenByPc`), what the wires show (`Wires`) and how often
the command was accepted (`AccByPc`). `AcceptedOnce` alone is not inductive:
that the pin check does not send a packet the interrupt has sent depends on the
line being low only for a CS that is still asserted or for a packet, which is
what `Wires` and `StateByPc` say together. `Wires` also says that during the
first write, where the interrupt is enabled, the line stays low until CS goes
away, so that no edge can come between the store of the state and the end of
the transaction. From it follow `AcceptedOnce`,
`ExclusiveBus` and `NoJunkRead`.

**`CC3000Driver_proofs`: the command channel.** On top of `IInv`, `ExInv`
follows the answer of a call on its way. `QueueInv`: the controller has queued
at most one answer, to the command in progress, and at most one data packet,
behind the answer that announces it; `BufferInv` and `TakenInv` say the same of
the packet buffer and of the packet the event handler has taken; `InboxInv`:
while a command is unanswered nothing of an answer exists; `WaitInv`: at each
location, what is awaited is what is on its way. Whether an answer of `RECV`
announces data is read from the buffer, so `ExInv` needs that the buffer still
holds that answer, and this is `HeldInv`: the interrupt is off while a packet is
in the buffer (`FlagInv`), which a patch request must not upset (`PatchInv`:
one request at a time, until it is answered). The two are proved together. At
the return of a call all that `ExInv` speaks of is empty: `CallsLeaveNothing`.
`BufferHeld` is `HeldInv`'s. The same invariant shows every step to be a step
of `CommandChannel` or a stutter (`ImplementsChannel`); the mapping counts the
data packets not yet taken, so that part of the proof is about cardinalities.
These three theorems assume `~UnknownEvents`, and with reason: an event without
a case stays in the buffer with the interrupt off, the next `SpiWrite` enables
the interrupt again, and another packet may then replace the one the handler
works on (section 5 has the other effect of such an event).

**`FlowControl_proofs`.** The strengthening relates the register to the counter
(`Registers`: what was loaded is at most what is there, because only the main
program takes) and the two counts of packets to each other (`Ledger`). From
it: `NeverOversubscribed`, `KeepsOneBuffer`, `ShutDownSafe`, and the
refinement of `BufferPool`.

**`Node_proofs`.** `NoLostRequest`; `NoDoubleCount` needs that between the
snapshot and the reset what was reported is part of what the counter holds.
`ScheduleFollowed` is about what `checkSchedule`'s loop computes:
`LoopBest` proves by induction on the records passed that the loop holds the
best of them, the latest that is in time and of several at the same minute the
first, for schedules of any length and order.

**`StatusParser_proofs`.** `ScheduleFits` is not inductive; the invariant charges
three tokens to each record, two to the array and the pending ones to the
next record, and compares the sum with the tokens consumed (`Paid`). With 128
tokens and 64 records the assumption `MaxTokens <= 3 * Capacity + 4` holds.
`ParsedAsSent` compares a parser that sees one token at a time with the reply
as a whole. Its invariant `SentInv` has, for every moment, the place in the
reply that the next token belongs to (`Standing`: before the first entry,
between entries, behind a key, between records, between pairs, behind a pair's
key) and what must have been made of everything in front of it. Three layers of
lemmas carry it: where each sequence begins and ends in a flattened one (`Ends`,
`Joins`), hence what stands at each place of the token array (`DocTokensAt`);
what the pairs, records and entries read so far mean, the last of several with
the same key deciding (`FieldsOf`, `SettingsOf`, `ScheduleOf`, `GivenIs`); and
one lemma per step. That the parser has come to the end only where the reply
ends (`EndsBetween`) closes it.

**`HttpClient_proofs`.** `SentOnce` speaks of the moment the answer is awaited; the
invariant says how far the loop has come at any moment: what was offered is the
part that is done and `bytesSent` of the current one, and a chunk is never
longer than what is left (`OfferedByPc`). `SocketReleased` follows from which
locations have the socket open (`OpenByPc`). Both hold for every length and
every result of the socket calls.

**`Calls_proofs`.** `ActiveMeansOpen` needs that every mark is a descriptor
(`MarksOK`), or an error taken for one could be marked. `PatchWhole` needs
that what the controller has is exactly what was sent so far, in its place,
and that offset, bytes left and part agree (`PatchOK`). It rests on two
assumptions, both about the code's narrow types: `ShortPatches` (a pack has
at most 65,536 bytes, for the 16-bit offset) and `ErrorsShow` (no error of
the controller has a low byte of 0, for the 8-bit status). `DataReached`,
`AnswerFits` and `FreshBytes` follow from `CallRight`: for each request of each
call a lemma gives the places of its fields for data of any length (`Layout`
compares them with `Position`, which is defined by recursion), and its offsets,
lengths and declared length are compared with them. `FreshBytes` assumes
`ShortArguments` (an SSID of at most 32 bytes, a key of at most 179, data of at
most 235), because the declared length is cut to 8 bits; the other two need no
bound.

**`Jsmn_proofs`.** What a call makes of its parser is followed round by round.
`Steps` says what a round may do: end with the parser as it was, pass over
something, find a token, open a container or close one, and move on by a
character at least, so that every call returns, with the parser and the tokens
within what has arrived (`JsmnReturns`). A call may have read more than that:
`JsmnIgnoresRest` compares it with the same call on any other buffer that begins
with the same text (`RunOfBoth`). They go the same way round by round; an escape
that reaches behind `len` ends a call with the parser as it was, and only
which of `JSMN_ERROR_INVAL` and `JSMN_ERROR_PART` it returns depends on what is
there. For `JsmnTokensNest` the invariant `Good` adds to the tree (`Nested`, `Sized`) that
`toksuper` is the last open token and `pos` is behind all that are closed: a
new token is then a child of that one and of no other (`AppendKeeps`), and
closing the last open token takes no token out of another (`CloseKeeps`).
`ResumedAsOnce` compares the state with a call that was never made. It is not
inductive: a call that stopped early says nothing of where a longer one would
be. `Reached` says it: the caller's parser is that of some round of the one
call, on the text that has arrived and with the tokens there are. Three facts
keep it true: a round does not depend on what was counted (`RoundSame`), the
parser a call returns is that of the round it stopped in (`LastBegun`), and a
round that goes on goes the same way with more tokens and more text
(`RunLonger`), unless a primitive was cut off, which is what `Cuts` rules out
(`CutStays`). For `JsmnCountSuffices` a call with tokens and one without run
side by side (`Counting`): they are at the same place, one having counted the
tokens the other has allocated, until the first has a result; from then on the
second's count only grows. Texts are any sequences of characters: the theorems
assume no bound on their length or on the number of tokens.

**`Recursion`.** The library's induction theorems take an operator as a parameter,
which the provers cannot instantiate. Induction over the natural numbers is
stated here for a set instead (`Induct`, `InductUpTo`), from the
well-foundedness of `<`, and so is the existence of a function that is defined
by recursion on an initial segment (`RecursionExists`). With these the values
of `Position`, of the loop of `checkSchedule`, of `FlattenSeq` and of the
rounds of jsmn are proved for every length.

Only model-checked: all liveness and with it what needs ENABLED (out of the
prover's reach), and `KeyRecovered` and `AesAsStandard`: that AES as
`security.c` has it is the standard's, and that it gives back the key, is a
computation over tables and bits, which TLC does for the keys of the run.

## 5. What the models found

With a run that shows it:

* A `send` that completes with -57 never returns (`driver_senderr`): the event
  is handled as an unsolicited one, and the opcode waited for is never cleared.
* Before the first transition of the week `checkSchedule` copies an
  uninitialized record (`node_garbage`).
* A failed `recv` of the header is not noticed (`http_recverr`).

Stated in the modules, false of the code, and in no run; adding the property to
the named configuration shows the counterexample:

* An unsolicited event without a case of its own leaves the interrupt disabled
  outside a call; `waitForDHCP` then waits forever (`SessionEnds` in
  `MC_Driver_all` with `UnknownEvents = TRUE`).
* The decrement of the buffer count loses updates (`CountExact` in
  `MC_Flow_all`); it costs buffers until the next session, but never the last
  (`KeepsOneBuffer`).
* Full chunks overrun the transmit buffer by their headers (`SendFits` in
  `MC_Http_all`).
* `accept` marks the listening socket inactive when no connection is pending,
  although "The original socket sd is unaffected by this call" (`socket.c:285`;
  `ListenerUnaffected` in `MC_Calls_all`).
* `mdnsAdvertiser` and `nvmem_create_entry` return bytes nothing has set
  (`ReturnIsStatus` in `MC_Calls_all`).

Seen while modelling:

* `netapp_timeout_values` declares 20 bytes and marshals 16; `select` without a
  timeout declares 8 bytes it does not marshal. Both send what an earlier call
  left in the buffer; `FreshBytes` has them as its two exceptions.
* `recv`'s check for an inactive socket reads past the variable its answer was
  copied to.
* jsmn: the count returned by a resumed call is that of this call alone, not
  "the number of tokens actually used by the parser" (`JSON/README.md:141`); a
  stream cut inside a primitive splits it in two, and outside any container the
  first part is reported as complete, though "You will get this error until you
  reach the end of JSON data" (`JSON/README.md:155`). `ResumedAsOnce` leaves
  the count out and `Cuts` the cut.
* jsmn: of a stream cut behind a backslash, or within `\uXXXX`, the parser reads
  up to five characters from behind `len` (`jsmn.c:117-131`), and what it finds
  decides the error: `JSMN_ERROR_PART` when it looks like the rest of an escape
  or ends behind the `u`, and `JSMN_ERROR_INVAL` otherwise, an end right behind
  the backslash included, where `JSON/README.md:153-155` promises
  `JSMN_ERROR_PART`. `jsmn_test.c:430-446` passes a text with something else
  behind `len`. The parser and the tokens are the same after either error
  (`JsmnIgnoresRest`), and going on would lose nothing, but a caller
  that takes `JSMN_ERROR_INVAL` at its word gives up a text that was right.
* A socket may stay marked active when the controller no longer has it: nothing
  resets `socket_active_status` at `wlan_stop` (`evnt_handler.c:118`), and a
  socket the controller closes for inactivity stays marked until an answer says
  so. `ActiveMeansOpen` allows these marks (`lost`); it speaks of all others.
* A `send` that has taken its buffer but is not yet counted in
  `NumberOfSentPackets` is not seen by the event handler, which may then report
  that the controller can shut down. `ShutDownSafe` is about the packets the
  controller has; nothing in `src/` waits for that report.
* `StartSmartConfig` (called from nowhere): the block meant as the body of the
  wait for the disconnection runs once, behind it; the results of its calls are
  ignored, so that after a failed `wlan_smart_config_start` it waits forever;
  `ulCC3000DHCP` is not reset when the controller is restarted, so that
  `waitForDHCP` may return on an address of the old connection. A key of 32
  bytes whose first byte is 31 is taken for one of 31.

With a controller that releases IRQ late, `NoJunkRead` does not hold: the pin
check of `SpiWrite` takes the end of the previous transaction for the answer to
its CS. The driver's promises depend on a prompt controller, and the theorems
say so.

## 6. Not modelled

* Byte order, and the reading of a long packet in parts: the models' packets
  arrive whole.
* The UART (`serial.c`): busy waits on `TXDRDY` that interrupts share; its text
  has no reader in the program. The battery voltage (`adc.c`): one busy wait
  and one expression.
* `getTime` and the timers of `time.c`: their readings go into no decision of
  the program. Radio registers, the beacon's payload and its period (`ble.c`).
* `nrf_nvmc.c` is vendor code, not linked. The tests and documents of jsmn are
  read as its reference.
* Texts longer than the arrays they are copied to: the parser copies a token
  into `activeKey[32]` and `activeValue[128]` without looking at its length
  (`backend_connection.c:243-244`, `281-282`, `319-320`), and texts are members
  of a set in `StatusParser`. `httpOperation` ends its payload with a NUL behind
  its last byte (`backend_connection.c:136-139`) and searches a header buffer
  that may have been filled without one (`:108`, `:121`); `HttpClient` has the
  header as a sequence with an end, and no byte behind the payload.
* Calls outside their interface, which nothing in `src/` makes:
  `wlan_add_profile` with an unknown security type, which declares an
  uninitialized length (`wlan.c:607-692`), and `wlan_connect` with a key length
  but no key (`wlan.c:412-419`), which sends what is in the buffer.
* The store of `wlan_smart_config_set_prefix` into its argument
  (`wlan.c:1104-1106`), which the only caller lets point to a constant
  (`wifi.c:18`): it stores what is there already.
* Clock start-up, LED effects, the text of debug messages, `errno` (written,
  never read). The effect of the optimizer is left out because there is none.

## 7. Plan

1. `CC3000Driver`, `CommandChannel`, then `FlowControl` (done): the core.
2. `Node`, `StatusParser`, `HttpClient` (done): the application.
3. `Calls`: what each call sends, which variable its answer goes to, sockets,
   `nvmem_write_patch` (done, with two theorems).
4. `SmartConfig` with `Aes` against `AesStandard` (done); `Jsmn` (done).
5. Next: `getTime` against the overflow interrupt, the beacon's period and
   payload against the RTC interrupt, `send_byte` from two levels.
6. Jsmn composed with `StatusParser`, so that the tokens of one are what the
   other reads; today `DocTokens` states what jsmn makes of a well-formed reply.
7. Proofs: all safety invariants of the runs but those of `SmartConfig`, and
   both refinements (done). Next: that the phone's key survives the way through
   file 13 and the profile for every length, given the cipher.
