---------------------------- MODULE SmartConfig ----------------------------
(***************************************************************************)
(* Provisioning: StartSmartConfig (wifi.c) forgets every network, has the  *)
(* controller listen until a phone has announced one, decrypts the key of  *)
(* that network with AES (security.c), stores it as a profile              *)
(* (wlan_smart_config_process, wlan.c) and restarts the controller, which  *)
(* then connects by itself.  Nothing calls StartSmartConfig at this        *)
(* commit; the module starts where it would be called.                     *)
(*                                                                         *)
(* A call to the driver is one step here: CC3000Driver and Calls say how   *)
(* it gets its answer.  Every call may fail, and StartSmartConfig ignores  *)
(* that.  Events come between the steps, in the order the controller       *)
(* raised them, and are handled by CC3000_UsynchCallback.                  *)
(***************************************************************************)
EXTENDS AesStandard

CONSTANTS
  Networks,   \* what a phone may announce: [ssid, sec, pass, field]
  Old,        \* the network known from before, a record of the same form
  None,       \* no network, no file
  MaxEvents   \* bound on the events the controller has pending

SmartNetwork(n) ==
  /\ Len(n.ssid) <= 32 /\ n.sec \in 0..3 /\ n.field \in {16, 32}
  /\ IF n.sec = 0 THEN n.pass = <<>>
     ELSE Len(n.pass) <= IF n.field = 16 THEN 15 ELSE 32

ASSUME NetworksAssumption == \A n \in Networks \union {Old} : SmartNetwork(n)
ASSUME MaxEventsAssumption == MaxEvents \in Nat \ {0}

VARIABLES
  pc,         \* the next step of StartSmartConfig
  finished,   \* ulSmartConfigFinished
  connected,  \* ulCC3000Connected
  dhcp,       \* ulCC3000DHCP
  keyRead,    \* key: what aes_read_key read
  failed      \* a call of StartSmartConfig has failed

(* The controller: its files and profiles are in non-volatile memory. *)
VARIABLES
  power,      \* it is started
  auto,       \* its policy is to connect to its profiles
  profiles,   \* its profiles
  link,       \* the network it is connected to, or None
  listening,  \* smart configuration is on
  keyFile,    \* file 12, NVMEM_AES128_KEY_FILEID
  shared,     \* the network whose Stored bytes are in file 13, or None
  events,     \* events it has raised that are not handled yet
  sent        \* the network a phone has announced last, or None

flags == <<finished, connected, dhcp>>
host == <<pc, flags, keyRead, failed>>
files == <<keyFile, shared>>
controller == <<power, auto, profiles, link, listening, files, events, sent>>
vars == <<host, controller>>

smartconfigkey == << 115, 109, 97, 114, 116, 99, 111, 110,
                     102, 105, 103, 65, 69, 83, 49, 54 >>

WLAN_SEC_UNSEC == 0
WLAN_SEC_WEP == 1
WLAN_SEC_WPA == 2
WLAN_SEC_WPA2 == 3

-----------------------------------------------------------------------------
(* The announcement, as the comment in wlan_smart_config_process describes *)
(* the file: the SSID's length, the SSID, the length of the encrypted key, *)
(* the security type, and the key with its length in front, encrypted, but *)
(* for a key of 32 bytes, which leaves no room for its length.             *)

Zeros(n) == <<>> \o [i \in 1..n |-> 0]

KeyArea(n) ==
  IF Len(n.pass) = 32 THEN n.pass
  ELSE << Len(n.pass) >> \o n.pass \o Zeros(31 - Len(n.pass))

Encrypted(n) ==
  Cipher(SubSeq(KeyArea(n), 1, 16), smartconfigkey)
    \o IF n.field > 16 THEN Cipher(SubSeq(KeyArea(n), 17, 32), smartconfigkey)
       ELSE Zeros(16)

Stored(n) ==
  << Len(n.ssid) >> \o n.ssid \o << n.field, n.sec >> \o Encrypted(n)
    \o Zeros(32 - Len(n.ssid))

(* What the controller holds of a profile, as it was added. *)
Profile(sec, ssid, pass) == [sec |-> sec, ssid |-> ssid, pass |-> pass]

(* The profile connects to the network. *)
Fits(p, n) ==
  /\ p.ssid = n.ssid
  /\ p.pass = n.pass
  /\ CASE n.sec = WLAN_SEC_UNSEC -> p.sec = WLAN_SEC_UNSEC
       [] n.sec = WLAN_SEC_WEP   -> p.sec = WLAN_SEC_WEP
       [] OTHER                  -> p.sec \in {WLAN_SEC_WPA, WLAN_SEC_WPA2}

-----------------------------------------------------------------------------
(* wlan_smart_config_process from the bytes it has read: the key at        *)
(* decKeyPtr, decrypted in place, its length, and the profile it adds.     *)

Unread == -1    \* a byte behind profileArray

Decrypted(bytes, k) ==
  LET at == bytes[1] + 4
      second == SubSeq(bytes, at + 16, at + 31)
  IN  aes_decrypt(SubSeq(bytes, at, at + 15), k)
        \o IF bytes[bytes[1] + 2] > 16 THEN aes_decrypt(second, k) ELSE second

TrueKeyByLength(dec) ==  \* Mutant: no test for the length byte of a 31-byte key.
  IF dec[32] # 0 THEN dec
  ELSE <<>> \o [i \in 1..dec[1] |-> IF i < 32 THEN dec[i + 1] ELSE Unread]

TrueKey(dec) ==
  IF dec[32] # 0
  THEN IF dec[1] = 31 THEN Tail(dec) ELSE dec
  ELSE <<>> \o [i \in 1..dec[1] |-> IF i < 32 THEN dec[i + 1] ELSE Unread]

ProfilesAdded(bytes, k) ==
  LET sec  == bytes[bytes[1] + 3]
      ssid == SubSeq(bytes, 2, bytes[1] + 1)
      pass == TrueKey(Decrypted(bytes, k))
  IN  CASE sec = WLAN_SEC_UNSEC -> {Profile(sec, ssid, <<>>)}
        [] sec = WLAN_SEC_WEP   -> {Profile(sec, ssid, pass)}
        [] sec \in {WLAN_SEC_WPA, WLAN_SEC_WPA2} ->
             {Profile(WLAN_SEC_WPA2, ssid, pass)}
        [] OTHER -> {}

(* What is added for each network with each key that file 12 may hold: a   *)
(* constant, which TLC computes once.                                      *)
Added ==
  [n \in Networks \union {Old}, k \in {Zeros(16), smartconfigkey} |->
     ProfilesAdded(Stored(n), k)]

-----------------------------------------------------------------------------
\* The profile of the network known from before.
Remembered == Profile(Old.sec, Old.ssid, Old.pass)

(* A first provisioning, or one after an earlier one whose flag and files  *)
(* are still there.                                                        *)
Init ==
  /\ pc = "start" /\ keyRead = Zeros(16) /\ failed = FALSE
  /\ connected \in 0..1 /\ dhcp = connected
  /\ link = IF connected = 1 THEN Remembered ELSE None
  /\ power = TRUE /\ auto = TRUE /\ listening = FALSE
  /\ events = <<>> /\ sent = None
  /\ \/ /\ finished = 0 /\ keyFile = None /\ shared = None
        /\ profiles = {} /\ link = None
     \/ /\ finished = 1 /\ keyFile = smartconfigkey /\ shared = Old
        /\ profiles = {Remembered}
-----------------------------------------------------------------------------
(* The controller. *)

\* The controller raises the events of a step.
Raised(es) == /\ events' = events \o es
              /\ Len(events') <= MaxEvents

\* It leaves its network, if it is on one.
Leave == /\ link' = None
         /\ Raised(IF link = None THEN <<>> ELSE <<"DISCONNECT">>)

Associate ==
  /\ power /\ auto /\ link = None /\ ~listening
  /\ \E p \in profiles :
        /\ \E n \in {Old, sent} \ {None} : Fits(p, n)
        /\ link' = p
  /\ Raised(<<"CONNECT">>)
  /\ UNCHANGED <<host, power, auto, profiles, listening, files, sent>>

\* The DHCP server grants an address, or refuses one it has not granted.
Lease(granted) ==
  /\ power /\ link # None
  /\ granted \/ (dhcp = 0 /\ \A i \in DOMAIN events : events[i] # "DHCP")
  /\ Raised(IF granted THEN <<"DHCP">> ELSE <<"NO_DHCP">>)
  /\ UNCHANGED <<host, power, auto, profiles, link, listening, files, sent>>

Announce ==
  /\ listening
  /\ \E n \in Networks : sent' = n /\ shared' = n
  /\ listening' = FALSE
  /\ Raised(<<"DONE">>)
  /\ UNCHANGED <<host, power, auto, profiles, link, keyFile>>

-----------------------------------------------------------------------------
(* The flags: CC3000_UsynchCallback, in an interrupt or while a call waits *)
(* for its answer.                                                         *)
CC3000_UsynchCallback ==
  /\ events # <<>>
  /\ events' = Tail(events)
  /\ LET e == Head(events) IN
       /\ finished' = IF e = "DONE" THEN 1 ELSE finished
       /\ connected' = CASE e = "CONNECT" -> 1
                         [] e = "DISCONNECT" -> 0
                         [] OTHER -> connected
       /\ dhcp' = CASE e = "DHCP" -> 1
                    [] e \in {"DISCONNECT", "NO_DHCP"} -> 0
                    [] OTHER -> dhcp
  /\ UNCHANGED <<pc, keyRead, failed, power, auto, profiles, link, listening,
                 files, sent>>

-----------------------------------------------------------------------------
(* The steps of StartSmartConfig. *)

Goto(from, to) == pc = from /\ pc' = to

\* The call of this step gets an error for an answer.
Fails == failed' = TRUE

Works == UNCHANGED failed

\* A step whose call changes nothing modelled here, whatever its answer.
NoEffect == UNCHANGED <<flags, keyRead, controller>>

Reset ==
  /\ Goto("start", "policyOff")
  /\ finished' = 0 /\ connected' = 0 /\ dhcp' = 0
  /\ UNCHANGED <<keyRead, failed, controller>>

(* wlan_ioctl_set_connection_policy(0, 0, use). *)
SetPolicy(use) ==
  /\ \/ auto' = use /\ Works
     \/ UNCHANGED auto /\ Fails
  /\ UNCHANGED <<flags, keyRead, power, profiles, link, listening, files,
                 events, sent>>

PolicyOff == Goto("policyOff", "delProfile") /\ SetPolicy(FALSE)

(* wlan_ioctl_del_profile(255) deletes every profile. *)
DelProfiles ==
  /\ Goto("delProfile", "waitDisconnect")
  /\ \/ profiles' = {} /\ Leave /\ Works
     \/ UNCHANGED <<profiles, link, events>> /\ Fails
  /\ UNCHANGED <<flags, keyRead, power, auto, listening, files, sent>>

(* The while has an empty body; the block behind it runs once, and finds   *)
(* no event that the interrupt has not handled.                            *)
WaitDisconnect ==
  /\ Goto("waitDisconnect", "setPrefix") /\ connected # 1
  /\ NoEffect /\ UNCHANGED failed

SetPrefix ==
  /\ Goto("setPrefix", "configStart") /\ NoEffect
  /\ Works \/ Fails

ConfigStart ==
  /\ Goto("configStart", "waitFinished")
  /\ \/ listening' = TRUE /\ Leave /\ Works
     \/ UNCHANGED <<listening, link, events>> /\ Fails
  /\ UNCHANGED <<flags, keyRead, power, auto, profiles, files, sent>>

WaitFinished ==
  /\ Goto("waitFinished", "createEntry") /\ finished # 0
  /\ NoEffect /\ UNCHANGED failed

(* nvmem_create_entry(12, 16): a new file, or the one there was. *)
CreateEntry ==
  /\ Goto("createEntry", "writeKey")
  /\ \/ keyFile' = (IF keyFile = None THEN Zeros(16) ELSE keyFile) /\ Works
     \/ UNCHANGED keyFile /\ Fails
  /\ UNCHANGED <<flags, keyRead, power, auto, profiles, link, listening, shared,
                 events, sent>>

(* aes_write_key(smartconfigkey), which fails if there is no file. *)
aes_write_key ==
  /\ Goto("writeKey", "readKey")
  /\ \/ keyFile # None /\ keyFile' = smartconfigkey /\ Works
     \/ UNCHANGED keyFile /\ Fails
  /\ UNCHANGED <<flags, keyRead, power, auto, profiles, link, listening, shared,
                 events, sent>>

(* wlan_smart_config_process: both reads return early on an error. *)
aes_read_key ==
  /\ pc = "readKey"
  /\ \/ keyFile # None /\ keyRead' = keyFile /\ pc' = "readProfile" /\ Works
     \/ UNCHANGED keyRead /\ pc' = "policyOn" /\ Fails
  /\ UNCHANGED <<flags, controller>>

ReadProfile ==
  /\ pc = "readProfile"
  /\ \/ shared # None /\ pc' = "addProfile" /\ Works
     \/ pc' = "policyOn" /\ Fails
  /\ NoEffect /\ UNCHANGED keyRead

(* The rest of wlan_smart_config_process; profileArray is the copy of  *)
(* file 13.                                                                *)
wlan_smart_config_process ==
  /\ Goto("addProfile", "policyOn")
  /\ \/ profiles' = profiles \union Added[shared, keyRead] /\ Works
     \/ UNCHANGED profiles /\ Fails
  /\ UNCHANGED <<flags, keyRead, power, auto, link, listening, files, events,
                 sent>>

\* Mutant: the policy is set as before.
PolicyStaysOff == Goto("policyOn", "stop") /\ SetPolicy(FALSE)

PolicyOn == Goto("policyOn", "stop") /\ SetPolicy(TRUE)

(* wlan_stop: what the controller had not reported is lost. *)
Stop ==
  /\ Goto("stop", "restart")
  /\ power' = FALSE /\ link' = None /\ listening' = FALSE /\ events' = <<>>
  /\ UNCHANGED <<flags, keyRead, failed, auto, profiles, files, sent>>

Restart ==
  /\ Goto("restart", "mask")
  /\ power' = TRUE
  /\ UNCHANGED <<flags, keyRead, failed, auto, profiles, link, listening, files,
                 events, sent>>

SetEventMask ==
  /\ Goto("mask", "waitDHCP") /\ NoEffect
  /\ Works \/ Fails

waitForDHCP ==
  /\ Goto("waitDHCP", "mdns") /\ dhcp # 0
  /\ NoEffect /\ UNCHANGED failed

(* mdnsAdvertiser, three times. *)
Advertise ==
  /\ Goto("mdns", "done") /\ NoEffect
  /\ Works \/ Fails

StartSmartConfig ==
  \/ Reset \/ PolicyOff \/ DelProfiles \/ WaitDisconnect \/ SetPrefix
  \/ ConfigStart \/ WaitFinished \/ CreateEntry \/ aes_write_key
  \/ aes_read_key \/ ReadProfile \/ wlan_smart_config_process \/ PolicyOn
  \/ Stop \/ Restart \/ SetEventMask \/ waitForDHCP \/ Advertise

Next ==
  \/ StartSmartConfig
  \/ CC3000_UsynchCallback
  \/ Associate
  \/ Announce
  \/ \E granted \in BOOLEAN : Lease(granted)

(* The program and the interrupt go on; a phone announces a network in     *)
(* the end, the network accepts a profile that fits, and its DHCP server   *)
(* grants an address if it is asked again and again.                       *)
Fairness ==
  /\ WF_vars(StartSmartConfig) /\ WF_vars(CC3000_UsynchCallback)
  /\ WF_vars(Announce) /\ WF_vars(Associate) /\ SF_vars(Lease(TRUE))

Spec == Init /\ [][Next]_vars /\ Fairness

-----------------------------------------------------------------------------
(* If no call of the steps before it has failed, the profile that          *)
(* wlan_smart_config_process adds is that of the network announced last,   *)
(* with the very key: whatever the key's length, and whatever an earlier   *)
(* provisioning has left in the flags and the files.                       *)
KeyRecovered ==
  ~failed /\ pc \in {"policyOn", "stop", "restart", "mask", "waitDHCP",
                         "mdns", "done"}
    => sent # None /\ profiles # {} /\ \A p \in profiles : Fits(p, sent)

(* aes_encrypt, which only a sender would call, and aes_decrypt are the    *)
(* cipher of the standard and its inverse: the tables of security.c        *)
(* at the first start, both functions on every block that is announced. *)
AesAsStandard ==
  /\ pc = "start" /\ finished = 0 => TablesStandard
  /\ pc = "createEntry" /\ sent # None =>
       LET area == KeyArea(sent) IN
       \A block \in {SubSeq(area, 1, 16), SubSeq(area, 17, 32)} :
          LET c == Cipher(block, smartconfigkey) IN
          /\ aes_encrypt(block, smartconfigkey) = c
          /\ aes_decrypt(c, smartconfigkey) = block

(* Provisioning ends unless a call fails: no wait of StartSmartConfig      *)
(* misses the event it waits for, though the flags are reset only at its   *)
(* start and the controller is restarted in between.                       *)
ProvisioningEnds == <>(pc = "done" \/ failed)
=============================================================================
