------------------------------- MODULE Calls -------------------------------
(***************************************************************************)
(* The calls the driver offers: wlan.c, netapp.c, nvmem.c and socket.c.    *)
(* Each marshals its arguments into wlan_tx_buffer (cc3000_common.c,       *)
(* hci.c), writes the packet (spi.c), waits for the controller's answer,   *)
(* which hci_event_handler copies into a variable of the call              *)
(* (evnt_handler.c), and returns.                                          *)
(*                                                                         *)
(* A request is what a call marshals: a sequence of fields with their      *)
(* widths, and the length the call declares to hci_command_send.  How the  *)
(* bytes travel, and what interrupts do meanwhile, is CC3000Driver; the    *)
(* transmit buffers a send waits for are FlowControl.  errno is written    *)
(* by these calls and read by nothing, and is left out.                    *)
(***************************************************************************)
EXTENDS Integers, Sequences

CONSTANTS
  Sockets,      \* descriptors the controller gives out, part of 0..7
  SsidLengths,  \* lengths of an SSID
  KeyLengths,   \* lengths of a key or a pass phrase
  NameLengths,  \* lengths of a host or a service name
  DataLengths,  \* lengths of what is sent, of an option or of a file's part
  PatchLengths, \* lengths of a service pack
  Portion,      \* SP_PORTION_SIZE, 32
  Errors        \* error codes the controller answers, negative

ASSUME SocketsAssumption == Sockets \subseteq 0..7
ASSUME LengthsAssumption ==
  /\ SsidLengths \subseteq Nat /\ KeyLengths \subseteq Nat
  /\ NameLengths \subseteq Nat /\ DataLengths \subseteq Nat
  /\ PatchLengths \subseteq Nat /\ Portion \in Nat \ {0}
ASSUME ErrorsAssumption == Errors \subseteq {e \in Int : e < 0}

VARIABLES
  pc,      \* "down", "idle", "event" or "data": what the running call awaits
  req,     \* its request
  sd,      \* its socket descriptor
  active,  \* socket_active_status: the sockets marked active
  open,    \* sockets the controller has (external)
  lost,    \* sockets it dropped since the host last opened or closed them
  intact,  \* the magic number at the end of wlan_tx_buffer is in place
  inform,  \* tSLInformation.InformHostOnTxComplete
  ret,     \* what the last call returned, if it was made of known bytes
  patch,   \* nvmem_write_patch: spLength left, offset, spDataPtr
  file     \* the service pack's bytes the controller has, by their source

vars == <<pc, req, sd, active, open, lost, intact, inform, ret, patch, file>>

EFAIL == -1
ERROR_SOCKET_INACTIVE == -57
TxBuffer == 131         \* CC3000_TX_BUFFER_SIZE
HOSTNAME_MAX_LENGTH == 230
MDNS_DEVICE_SERVICE_MAX_LENGTH == 32
MAC_ADDR_LEN == 6
IsSocket(s) == 0 <= s /\ s <= 7    \* M_IS_VALID_SD

-----------------------------------------------------------------------------
(* Fields.  An offset tells the controller where a piece of data starts,   *)
(* counted from the offset's own place; a length says how long it is.      *)

Word == [kind |-> "value", width |-> 4, of |-> "none", value |-> 0]
Half == [kind |-> "value", width |-> 2, of |-> "none", value |-> 0]
Byte == [kind |-> "value", width |-> 1, of |-> "none", value |-> 0]
Words(n) == [i \in 1..n |-> Word]
Offset(d, v) == [kind |-> "offset", width |-> 4, of |-> d, value |-> v]
Length(d, n) == [kind |-> "length", width |-> 4, of |-> d, value |-> n]
Data(d, n)   == [kind |-> "data", width |-> n, of |-> d, value |-> 0]

\* Where field i starts, counted from the first; Position(f)[Len(f) + 1] is
\* the length of all.
Position(fields) ==
  LET p[i \in 1..Len(fields) + 1] ==
        IF i = 1 THEN 0 ELSE p[i - 1] + fields[i - 1].width
  IN  p
Marshalled(fields) == Position(fields)[Len(fields) + 1]

\* The variable the answer is copied to: its size, and whether it is set
\* before the call.
Var(size, set) == [size |-> size, set |-> set]
Long  == Var(4, TRUE)
SChar == Var(1, TRUE)
None  == Var(0, TRUE)

\* hci_command_send takes its length as an unsigned char.
Command(op, fields, declared, result) ==
  [op |-> op, fields |-> fields, header |-> 4, declared |-> declared % 256,
   result |-> result]

\* hci_data_send and hci_data_command_send
DataCommand(op, fields, args, data, result) ==
  [op |-> op, fields |-> fields, header |-> 5, declared |-> args + data,
   result |-> result]

\* What of the transmit buffer is written, SpiWrite's header of 5 bytes included.
Filled(r) == 5 + r.header + Marshalled(r.fields)

-----------------------------------------------------------------------------
(* wlan.c *)

SimpleLink_Init_Start == Command("SIMPLE_LINK_START", <<Byte>>, 1, None)

ReadBufferSize == Command("READ_BUFFER_SIZE", <<>>, 0, None)

\* with a key of length 0 the pointer is NULL
wlan_connect(ssid, key) ==
  Command("WLAN_CONNECT",
    <<Offset("ssid", 28), Length("ssid", ssid), Word, Offset("key", 16 + ssid),
      Length("key", key), Half, Data("bssid", 6), Data("ssid", ssid),
      Data("key", key)>>,
    29 + ssid + key - 1, Long)

wlan_disconnect == Command("WLAN_DISCONNECT", <<>>, 0, Long)

wlan_ioctl_set_connection_policy ==
  Command("SET_CONNECTION_POLICY", Words(3), 12, Long)

\* WLAN_SEC_UNSEC
add_profile_open(ssid) ==
  Command("ADD_PROFILE",
    <<Word, Offset("ssid", 20), Length("ssid", ssid), Half, Data("bssid", 6),
      Word, Data("ssid", ssid)>>,
    24 + ssid, Var(4, FALSE))

\* WLAN_SEC_WEP: four keys of the same length
add_profile_wep(ssid, key) ==
  Command("ADD_PROFILE",
    <<Word, Offset("ssid", 32), Length("ssid", ssid), Half, Data("bssid", 6),
      Word, Offset("keys", 12 + ssid), Length("keys", key), Word,
      Data("ssid", ssid), Data("keys", 4 * key)>>,
    36 + ssid + key * 4, Var(4, FALSE))

\* Mutant: the key's offset does not count the SSID in front of it.
add_profile_wpa_unshifted(ssid, key) ==
  Command("ADD_PROFILE",
    <<Word, Offset("ssid", 40), Length("ssid", ssid), Half, Data("bssid", 6),
      Word, Word, Word, Word, Offset("key", 8), Length("key", key),
      Data("ssid", ssid), Data("key", key)>>,
    44 + ssid + key, Var(4, FALSE))

\* WLAN_SEC_WPA and WLAN_SEC_WPA2
add_profile_wpa(ssid, key) ==
  Command("ADD_PROFILE",
    <<Word, Offset("ssid", 40), Length("ssid", ssid), Half, Data("bssid", 6),
      Word, Word, Word, Word, Offset("key", 8 + ssid), Length("key", key),
      Data("ssid", ssid), Data("key", key)>>,
    44 + ssid + key, Var(4, FALSE))

\* Mutant: the length of no argument is declared.
wlan_ioctl_del_profile_short == Command("DEL_PROFILE", <<Word>>, 0, Long)

wlan_ioctl_del_profile == Command("DEL_PROFILE", <<Word>>, 4, Long)

\* into the caller's tWlanFullScanResults
wlan_ioctl_get_scan_results ==
  Command("GET_SCAN_RESULTS", <<Word>>, 4, Var(50, FALSE))

wlan_ioctl_set_scan_params ==
  Command("SET_SCANPARAM",
    <<Offset("interval", 36)>> \o Words(8) \o <<Data("interval", 64)>>,
    100, Var(4, FALSE))

wlan_set_event_mask == Command("EVENT_MASK", <<Word>>, 4, Long)

wlan_ioctl_statusget == Command("STATUSGET", <<>>, 0, Long)

wlan_smart_config_start == Command("SIMPLE_CONFIG_START", <<Word>>, 4, Long)

wlan_smart_config_stop == Command("SIMPLE_CONFIG_STOP", <<>>, 0, Long)

wlan_smart_config_set_prefix ==
  Command("SIMPLE_CONFIG_SET_PREFIX", <<Data("prefix", 3)>>, 3, Long)

-----------------------------------------------------------------------------
(* netapp.c *)

\* address, mask, gateway, 0 and name server
netapp_dhcp == Command("DHCP", Words(5), 20, SChar)

\* the values below MIN_TIMER_VAL_SECONDS are raised, which is left out
netapp_timeout_values == Command("SET_TIMERS", Words(4), 20, SChar)

netapp_ping_send   == Command("PING_SEND", Words(4), 16, SChar)

netapp_ping_report == Command("PING_REPORT", <<>>, 0, SChar)

netapp_ping_stop   == Command("PING_STOP", <<>>, 0, SChar)

\* into the caller's tNetappIpconfigRetArgs
netapp_ipconfig    == Command("IPCONFIG", <<>>, 0, Var(58, FALSE))

netapp_arp_flush   == Command("ARP_FLUSH", <<>>, 0, SChar)

netapp_set_debug_level == Command("SET_DEBUG_LEVEL", <<Word>>, 4, SChar)

-----------------------------------------------------------------------------
(* nvmem.c *)

nvmem_read == Command("NVMEM_READ", Words(3), 12, Var(1, TRUE))

\* of n bytes of d: the file's number is not told apart otherwise
nvmem_write(d, n) ==
  DataCommand("NVMEM_WRITE",
    <<Word, Offset(d, 12), Length(d, n), Word, Data(d, n)>>, 16, n, Long)

nvmem_set_mac_address == nvmem_write("mac", MAC_ADDR_LEN)
nvmem_get_mac_address == nvmem_read
netapp_config_mac_adrress == nvmem_set_mac_address

nvmem_read_sp_version ==
  Command("READ_SP_VERSION", <<>>, 0, Var(5, FALSE))

nvmem_create_entry == Command("NVMEM_CREATE_ENTRY", Words(2), 8, Var(2, FALSE))

-----------------------------------------------------------------------------
(* socket.c *)

socket == Command("SOCKET", Words(3), 12, Long)

closesocket == Command("CLOSE_SOCKET", <<Word>>, 4, Long)

\* Mutant: the variable is a long, as in the other socket calls.
accept_long == Command("ACCEPT", <<Word>>, 4, Long)

\* into a tBsdReturnParams: descriptor, status and address
accept == Command("ACCEPT", <<Word>>, 4, Var(24, FALSE))

bind ==
  Command("BIND",
    <<Word, Offset("addr", 8), Length("addr", 8), Data("addr", 8)>>, 20, Long)

listen == Command("LISTEN", Words(2), 8, Long)

\* for names up to HOSTNAME_MAX_LENGTH
gethostbyname(n) ==
  Command("GETHOSTNAME",
    <<Offset("name", 8), Length("name", n), Data("name", n)>>,
    9 + n - 1, Var(8, FALSE))

connect ==
  Command("CONNECT",
    <<Word, Offset("addr", 8), Length("addr", 8), Data("addr", 8)>>, 20, Long)

\* Without a timeout its two words are not marshalled.
select(timeout) ==
  Command("SELECT",
    <<Word, Offset("read", 20), Offset("write", 20), Offset("except", 20),
      Offset("timeout", 20), Word, Data("read", 4), Data("write", 4),
      Data("except", 4)>>
      \o (IF timeout THEN <<Data("timeout", 8)>> ELSE <<>>),
    44, Var(16, FALSE))

setsockopt(n) ==
  Command("SETSOCKOPT",
    <<Word, Word, Word, Offset("opt", 8), Length("opt", n), Data("opt", n)>>,
    20 + n, Var(4, FALSE))

getsockopt == Command("GETSOCKOPT", Words(3), 12, Var(5, FALSE))

\* recv and recvfrom
simple_link_recv == Command("RECV", Words(3), 12, Var(12, FALSE))

send(n) ==
  DataCommand("SEND",
    <<Word, Offset("data", 12), Length("data", n), Word, Data("data", n)>>,
    16, n, Var(12, FALSE))

\* a sockaddr follows the data, of which 8 bytes are announced
sendto(n) ==
  DataCommand("SENDTO",
    <<Word, Offset("data", 20), Length("data", n), Word,
      Offset("to", n + 8), Length("to", 8), Data("data", n), Data("to", 16)>>,
    24, n + 16, Var(12, FALSE))

\* for names up to MDNS_DEVICE_SERVICE_MAX_LENGTH
mdnsAdvertiser(n) ==
  Command("MDNS_ADVERTISE",
    <<Word, Offset("name", 8), Length("name", n), Data("name", n)>>,
    12 + n, Var(4, FALSE))

-----------------------------------------------------------------------------
(* The answers.  ResultBytes says how much hci_event_handler copies into   *)
(* the call's variable for each kind of answer.                            *)

StatusByte == {"DHCP", "PING_SEND", "PING_STOP", "ARP_FLUSH", "SET_TIMERS",
               "SET_DEBUG_LEVEL", "NVMEM_READ", "NVMEM_CREATE_ENTRY",
               "PING_REPORT", "MDNS_ADVERTISE"}
StatusWord == {"SETSOCKOPT", "WLAN_CONNECT", "STATUSGET", "ADD_PROFILE",
               "DEL_PROFILE", "SET_CONNECTION_POLICY", "SET_SCANPARAM",
               "SIMPLE_CONFIG_START", "SIMPLE_CONFIG_STOP",
               "SIMPLE_CONFIG_SET_PREFIX", "EVENT_MASK", "WLAN_DISCONNECT",
               "SOCKET", "BIND", "LISTEN", "CLOSE_SOCKET", "CONNECT",
               "NVMEM_WRITE"}

ResultBytes(op) ==
  CASE op \in StatusByte         -> 1
    [] op \in StatusWord         -> 4
    [] op = "READ_SP_VERSION"    -> 1 + 4
    [] op = "GETHOSTNAME"        -> 4 + 4
    [] op = "ACCEPT"             -> 4 + 4 + 16
    [] op = "RECV"               -> 4 + 4 + 4
    [] op \in {"SEND", "SENDTO"} -> 4 + 4
    [] op = "SELECT"             -> 4 * 4
    [] op = "GETSOCKOPT"         -> 4 + 1
    [] op = "GET_SCAN_RESULTS"   -> 4 + 4 + 4 + 38
    [] op = "IPCONFIG"           -> 5 * 4 + 6 + 32
    [] OTHER                     -> 0

\* What a call returns: a value, known when each of its bytes was set.
Value(v) == [known |-> TRUE, value |-> v]
Unknown  == [known |-> FALSE, value |-> 0]

\* The status in the call's variable after the answer: a narrow answer leaves
\* the rest of a wide variable as it was.
Status(v) ==
  IF req.result.set \/ ResultBytes(req.op) >= req.result.size THEN Value(v)
                                                            ELSE Unknown

-----------------------------------------------------------------------------
NoRequest == [op |-> "none", fields |-> <<>>, header |-> 4, declared |-> 0,
              result |-> None]
NoPatch == [left |-> 0, offset |-> 0, source |-> 0]

Init ==
  /\ pc = "down" /\ req = NoRequest /\ sd = -1
  /\ active = {} /\ open = {} /\ lost = {}
  /\ intact = FALSE /\ inform = TRUE /\ ret = Value(0)
  /\ patch = NoPatch /\ file = <<>>

\* A call marshals its arguments, past the end of the buffer if there are
\* too many, and sends the packet; SpiWrite, finding the magic number gone,
\* lights a LED and goes on.
Issue(r, s) ==
  /\ req' = r /\ sd' = s
  /\ intact' = (intact /\ Filled(r) < TxBuffer)
  /\ pc' = "event"

Return(v) == pc' = "idle" /\ ret' = v /\ req' = NoRequest /\ sd' = -1

sockVars == <<active, open, lost>>
fileVars == <<patch, file>>

\* The controller has lost its sockets since wlan_stop: socket_active_status
\* is not reset.  SpiOpen sets the magic number.
wlan_start ==
  /\ pc = "down"
  /\ req' = SimpleLink_Init_Start /\ sd' = -1
  /\ intact' = TRUE
  /\ pc' = "event"
  /\ UNCHANGED <<sockVars, inform, ret, fileVars>>

Started ==
  /\ pc = "event" /\ req.op = "SIMPLE_LINK_START"
  /\ Issue(ReadBufferSize, -1)
  /\ UNCHANGED <<sockVars, inform, ret, fileVars>>

wlan_stop ==
  /\ pc = "idle"
  /\ pc' = "down"
  /\ open' = {} /\ lost' = lost \cup open
  /\ UNCHANGED <<req, sd, active, intact, inform, ret, fileVars>>

\* The calls that only send and return their status
PlainRequests ==
  {wlan_disconnect, wlan_ioctl_set_connection_policy, wlan_ioctl_del_profile,
   wlan_ioctl_set_scan_params, wlan_ioctl_statusget, wlan_smart_config_start,
   wlan_smart_config_stop, wlan_smart_config_set_prefix, netapp_dhcp,
   netapp_timeout_values, netapp_ping_send, netapp_ping_report,
   netapp_ping_stop, netapp_ipconfig, netapp_arp_flush,
   netapp_set_debug_level, nvmem_read_sp_version, nvmem_create_entry,
   wlan_ioctl_get_scan_results}
  \cup {wlan_connect(s, k) : s \in SsidLengths, k \in KeyLengths}
  \cup {add_profile_open(s) : s \in SsidLengths}
  \cup {add_profile_wep(s, k) : s \in SsidLengths, k \in KeyLengths \cap 0..13}
  \cup {add_profile_wpa(s, k) : s \in SsidLengths, k \in KeyLengths}
  \cup {nvmem_write("part", n) : n \in DataLengths}
  \cup {nvmem_set_mac_address, netapp_config_mac_adrress}
  \cup {gethostbyname(n) : n \in NameLengths \cap 0..HOSTNAME_MAX_LENGTH}
  \cup {mdnsAdvertiser(n) :
          n \in NameLengths \cap 0..MDNS_DEVICE_SERVICE_MAX_LENGTH}
  \cup {select(t) : t \in BOOLEAN}

Plain ==
  /\ pc = "idle"
  /\ \E r \in PlainRequests : Issue(r, -1)
  /\ UNCHANGED <<sockVars, inform, ret, fileVars>>

\* gethostbyname and mdnsAdvertiser with too long a name, and
\* wlan_smart_config_set_prefix without one, return before they marshal.
Refuse ==
  /\ pc = "idle"
  /\ Return(Value(EFAIL))
  /\ UNCHANGED <<sockVars, intact, inform, fileVars>>

\* TX_COMPLETE is no event of the controller's: the mask's bit for it is kept
\* in the host, and a mask of nothing else is not sent.
SetEventMask(tx, other) ==
  /\ pc = "idle"
  /\ inform' = ~tx
  /\ IF tx /\ ~other
       THEN Return(Value(0)) /\ UNCHANGED intact
       ELSE Issue(wlan_set_event_mask, -1) /\ UNCHANGED ret
  /\ UNCHANGED <<sockVars, fileVars>>

\* The answers to them.  Zero or more is success: select, whose sets are
\* then copied, statusget and gethostbyname answer with more than one value.
\* nvmem_set_mac_address returns an unsigned char, and so what
\* netapp_config_mac_adrress returns is the status's low byte as well.
Answered ==
  /\ pc = "event"
  /\ req.op \notin {"SIMPLE_LINK_START", "NVMEM_READ", "SOCKET", "CLOSE_SOCKET",
                    "ACCEPT", "RECV", "SEND", "SENDTO"}
  /\ patch = NoPatch
  /\ \E v \in Errors \cup {0, 1} :
       Return(CASE req.op = "GET_SCAN_RESULTS" -> Value(0)
                [] req.op = "SETSOCKOPT" -> Status(IF v >= 0 THEN 0 ELSE v)
                [] req.op = "GETSOCKOPT" -> Status(IF v >= 0 THEN 0 ELSE v)
                [] req.op = "SELECT" -> Status(IF v >= 0 THEN v ELSE -1)
                [] req = nvmem_set_mac_address -> Status(v % 256)
                [] OTHER -> Status(v))
  /\ UNCHANGED <<sockVars, intact, inform, fileVars>>

-----------------------------------------------------------------------------
(* Files of the controller's memory *)

Read ==
  /\ pc = "idle"
  /\ \E r \in {nvmem_read, nvmem_get_mac_address} : Issue(r, -1)
  /\ UNCHANGED <<sockVars, inform, ret, fileVars>>

\* The data are awaited even when the status is an error: the controller
\* sends them in any case.
ReadStatus ==
  /\ pc = "event" /\ req.op = "NVMEM_READ"
  /\ pc' = "data"
  /\ \E v \in {0, 255} : ret' = Status(v)
  /\ UNCHANGED <<req, sd, sockVars, intact, inform, fileVars>>

DataReceived ==
  /\ pc = "data"
  /\ Return(ret)
  /\ UNCHANGED <<sockVars, intact, inform, fileVars>>

\* nvmem_write_patch: parts of Portion bytes while so many are left, then the
\* rest; the offset is an unsigned short, the status an unsigned char.
Part(left) == IF left >= Portion THEN Portion ELSE left

WritePatch(n) ==
  /\ pc = "idle"
  /\ file' = <<>>
  /\ IF n = 0
       THEN Return(Value(0)) /\ UNCHANGED <<intact, patch>>
       ELSE /\ Issue(nvmem_write("part", Part(n)), -1)
            /\ patch' = [left |-> n, offset |-> 0, source |-> 0]
            /\ UNCHANGED ret
  /\ UNCHANGED <<sockVars, inform>>

\* The controller writes n bytes at offset (external).
Stored(offset, n, source) ==
  LET size == IF offset + n > Len(file) THEN offset + n ELSE Len(file)
  IN  [k \in 1..size |-> IF offset < k /\ k <= offset + n
                           THEN source + k - offset
                           ELSE IF k <= Len(file) THEN file[k] ELSE 0]

\* Mutant: every part is written to the start of the file.
WrittenInPlace(p, n) == [left |-> p.left - n, offset |-> p.offset,
                         source |-> p.source + n]

Written(p, n) == [left |-> p.left - n, offset |-> (p.offset + n) % 65536,
                  source |-> p.source + n]

PatchAnswered ==
  /\ pc = "event" /\ patch # NoPatch
  /\ \E v \in Errors \cup {0} :
       LET n == Part(patch.left)
           p == Written(patch, n)
       IN  /\ file' = IF v = 0 THEN Stored(patch.offset, n, patch.source)
                               ELSE file
           /\ IF v % 256 # 0 \/ p.left = 0
                THEN Return(Value(v % 256)) /\ patch' = NoPatch
                     /\ UNCHANGED intact
                ELSE Issue(nvmem_write("part", Part(p.left)), -1) /\ patch' = p
                     /\ UNCHANGED ret
  /\ UNCHANGED <<sockVars, inform>>

-----------------------------------------------------------------------------
(* Sockets.  set_socket_active_status ignores what is no descriptor. *)

Descriptors == Sockets \cup {-1}

Activate(s)   == active' = active \cup {t \in {s} : IsSocket(t)}
Deactivate(s) == active' = active \ {s}

Socket ==
  /\ pc = "idle"
  /\ Issue(socket, -1)
  /\ UNCHANGED <<sockVars, inform, ret, fileVars>>

\* The controller gives out a free descriptor, or an error.
SocketAnswered ==
  /\ pc = "event" /\ req.op = "SOCKET"
  /\ \E v \in (Sockets \ open) \cup Errors :
       /\ Activate(v)
       /\ open' = open \cup (Sockets \cap {v})
       /\ lost' = lost \ {v}
       /\ Return(Status(v))
  /\ UNCHANGED <<intact, inform, fileVars>>

CloseSocket(s) ==
  /\ pc = "idle"
  /\ Issue(closesocket, s)
  /\ UNCHANGED <<sockVars, inform, ret, fileVars>>

\* Mutant: the mark stays.
CloseKeepsMark ==
  /\ pc = "event" /\ req.op = "CLOSE_SOCKET"
  /\ open' = open \ {sd} /\ lost' = lost \ {sd}
  /\ Return(Status(IF sd \in open THEN 0 ELSE EFAIL))
  /\ UNCHANGED <<active, intact, inform, fileVars>>

\* Whatever the answer, the socket is marked inactive.
CloseAnswered ==
  /\ pc = "event" /\ req.op = "CLOSE_SOCKET"
  /\ Deactivate(sd)
  /\ open' = open \ {sd} /\ lost' = lost \ {sd}
  /\ Return(Status(IF sd \in open THEN 0 ELSE EFAIL))
  /\ UNCHANGED <<intact, inform, fileVars>>

Accept(s) ==
  /\ pc = "idle"
  /\ Issue(accept, s)
  /\ UNCHANGED <<sockVars, inform, ret, fileVars>>

\* A negative answer, "pending" (-2) included, marks the listener inactive.
AcceptAnswered ==
  /\ pc = "event" /\ req.op = "ACCEPT"
  /\ \E v \in Errors \cup (IF sd \in open THEN Sockets \ open ELSE {}) :
       /\ IF IsSocket(v) THEN Activate(v) ELSE Deactivate(sd)
       /\ open' = open \cup (Sockets \cap {v})
       /\ lost' = lost \ {v}
       /\ Return(Status(v))
  /\ UNCHANGED <<intact, inform, fileVars>>

\* The calls on a socket that leave its mark alone
SocketRequests ==
  {bind, listen, connect, getsockopt, simple_link_recv}
  \cup {setsockopt(n) : n \in DataLengths}

OnSocket(s) ==
  /\ pc = "idle"
  /\ \E r \in SocketRequests : Issue(r, s)
  /\ UNCHANGED <<sockVars, inform, ret, fileVars>>

\* The answer to recv.  hci_event_handler looks for ERROR_SOCKET_INACTIVE not
\* in it but in what lies past the call's variable, and takes its flags for
\* the descriptor: any answer may mark socket 0 inactive (the flags are 0),
\* and none marks the socket of the call.
RecvAnswered ==
  /\ pc = "event" /\ req.op = "RECV"
  /\ \E v \in (IF sd \in open THEN Errors \cup {0, 1}
                               ELSE {ERROR_SOCKET_INACTIVE}) :
       IF v > 0 THEN pc' = "data" /\ ret' = Status(v) /\ UNCHANGED <<req, sd>>
                ELSE Return(Status(v))
  /\ active' = active \/ Deactivate(0)
  /\ UNCHANGED <<open, lost, intact, inform, fileVars>>

\* HostFlowControlConsumeBuff refuses a socket that is not marked active.
SendRefused(s) ==
  /\ pc = "idle" /\ s \notin active
  /\ Return(Value(-1))
  /\ UNCHANGED <<sockVars, intact, inform, fileVars>>

Send(s) ==
  /\ pc = "idle" /\ s \in active
  /\ \E n \in DataLengths : \E r \in {send(n), sendto(n)} : Issue(r, s)
  /\ UNCHANGED <<sockVars, inform, ret, fileVars>>

\* The length is returned, whatever the answer.  For a socket the controller
\* does not have the answer is ERROR_SOCKET_INACTIVE and the call does not
\* return (CC3000Driver).
SendAnswered ==
  /\ pc = "event" /\ req.op \in {"SEND", "SENDTO"} /\ sd \in open
  /\ Return(Value(req.fields[3].value))
  /\ UNCHANGED <<sockVars, intact, inform, fileVars>>

\* The controller closes a socket by itself, after its time of inactivity.
DevCloses(s) ==
  /\ pc # "down" /\ s \in open
  /\ open' = open \ {s} /\ lost' = lost \cup {s}
  /\ UNCHANGED <<pc, req, sd, active, intact, inform, ret, fileVars>>

-----------------------------------------------------------------------------
Next ==
  \/ wlan_start \/ Started \/ wlan_stop
  \/ Plain \/ Refuse \/ Answered
  \/ \E tx, other \in BOOLEAN : SetEventMask(tx, other)
  \/ Read \/ ReadStatus \/ DataReceived
  \/ \E n \in PatchLengths : WritePatch(n)
  \/ PatchAnswered
  \/ Socket \/ SocketAnswered
  \/ CloseAnswered \/ AcceptAnswered \/ RecvAnswered \/ SendAnswered
  \/ \E s \in Descriptors :
       \/ CloseSocket(s) \/ Accept(s) \/ OnSocket(s)
       \/ SendRefused(s) \/ Send(s)
  \/ \E s \in Sockets : DevCloses(s)

Spec == Init /\ [][Next]_vars

-----------------------------------------------------------------------------
(* Properties *)

\* Every offset a call marshals points at the data it is for, and its length
\* does not reach past them, whatever the lengths of the SSID, the key, the
\* name or the data in front.
DataReached ==
  \A i, j \in DOMAIN req.fields :
    LET f == req.fields[i]
        d == req.fields[j]
        p == Position(req.fields)
    IN  d.kind = "data" /\ d.of = f.of =>
          /\ f.kind = "offset" => p[i] + f.value = p[j]
          /\ f.kind = "length" => f.value <= d.width

\* A packet's declared length covers exactly the bytes the call has written,
\* so that the controller sees no byte of an earlier call and misses none of
\* this one; but for the last word of netapp_timeout_values, which declares
\* a word too many, and the timeout of a select without one.
FreshBytes ==
  pc = "event" =>
    5 + req.header + req.declared - Filled(req) =
      CASE req.op = "SET_TIMERS" -> 4
        [] req.op = "SELECT" /\ Len(req.fields) = 9 -> 8
        [] OTHER -> 0

\* What hci_event_handler copies of an answer fits the variable the call
\* has for it.
AnswerFits == pc = "event" => ResultBytes(req.op) <= req.result.size

\* A socket marked active is one the controller has, or one it has dropped
\* since the host last opened or closed it: no order of socket, accept and
\* closesocket, of failures, restarts and closures marks another.
ActiveMeansOpen == active \subseteq open \cup lost

\* When nvmem_write_patch returns 0 the controller has every byte of the
\* service pack in its place.
PatchWhole ==
  [][patch # NoPatch /\ patch' = NoPatch /\ ret'.value = 0
       => file' = [k \in 1..patch.source + patch.left |-> k]]_vars

\* What a call returns was set by its answer: "On success, zero is returned"
\* by mdnsAdvertiser, "on success 0" by nvmem_create_entry.  The answers to
\* these two set one byte of an int and of an unsigned short.
ReturnIsStatus == pc = "idle" => ret.known

\* "The original socket sd is unaffected by this call", says accept.  A
\* negative answer, a pending connection included, marks it inactive.
ListenerUnaffected ==
  [][pc = "event" /\ req.op = "ACCEPT" /\ pc' = "idle" =>
       (sd \in active' <=> sd \in active)]_vars
=============================================================================
