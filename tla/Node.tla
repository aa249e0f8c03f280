-------------------------------- MODULE Node --------------------------------
(***************************************************************************)
(* The application: the main loop that reports to the server (main.c,      *)
(* backend_connection.c), the RTC interrupt that transmits beacons and     *)
(* keeps the time (time.c), the button's interrupt (gpio.c) and the        *)
(* schedule of beacons, which the main loop rebuilds and the RTC interrupt *)
(* reads (schedule.c).  An interrupt preempts the main program between any *)
(* two of its steps and runs to its end, so an interrupt is one step.      *)
(*                                                                         *)
(* Which ticks transmit and which end a minute follows from counters       *)
(* (count % period, count % 600); here a tick may be any of them, so the   *)
(* beacon period has no effect and is left out, as are the radio's power,  *)
(* the payload and the other contents of a report.                         *)
(***************************************************************************)
EXTENDS Integers, Sequences

CONSTANTS
  Week,       \* the time at which the week wraps: 7 * 24 * 60 in time.c
  Replies,    \* the settings a server's reply may carry: sequences of entries
  Garbage,    \* what an uninitialized ScheduleRecord may hold
  MaxBeacons  \* bound: beacons transmitted

Record == [transitionTime : Int, beaconEnabled : BOOLEAN]

\* A key and its value in the reply; one "record" for each element of the
\* array "currentSchedule"; "other" for keys that change no state kept here.
Entry ==
  [key : {"systemTime", "serverReconnectPeriod"}, val : Nat]
    \cup [key : {"record"}, val : Record]
    \cup [key : {"other"}, val : {0}]

ASSUME WeekAssumption == Week \in Nat
ASSUME RepliesAssumption == Replies \subseteq Seq(Entry)
ASSUME GarbageAssumption == Garbage # {} /\ \A g \in Garbage : g \in Record
ASSUME MaxBeaconsAssumption == MaxBeacons \in Nat

VARIABLES
  pc,           \* location of the main program
  booted,       \* the first status has been fetched
  snapshot,     \* beaconCount as it stands in the report being sent
  reply,        \* entries of the reply still to be parsed
  reportStatus,
  beaconCount,
  time,
  period,       \* serverReconnectPeriod
  schedule,     \* schedule[0 .. scheduleLength - 1]
  current,      \* currentSchedule
  unserved,     \* a report was requested and none has begun since (history)
  transmitted,  \* beacons transmitted (history)
  credited      \* beacons in the reports the server received (history)

mainVars == <<booted, snapshot, reply>>
timeVars == <<time, period, reportStatus>>
schedVars == <<schedule, current>>
history == <<unserved, transmitted, credited>>
vars == <<pc, mainVars, timeVars, beaconCount, schedVars, history>>

NoRecord == [transitionTime |-> 0, beaconEnabled |-> FALSE]

Init ==
  /\ pc = "boot" /\ booted = FALSE /\ snapshot = 0 /\ reply = <<>>
  /\ reportStatus = FALSE /\ beaconCount = 0
  /\ time = 0 /\ period = 1
  /\ schedule = <<>> /\ current = NoRecord
  /\ unserved = FALSE /\ transmitted = 0 /\ credited = 0

Goto(from, to) == pc = from /\ pc' = to

-----------------------------------------------------------------------------
(* The schedule *)

isBeaconEnabled == schedule # <<>> /\ current.beaconEnabled

\* The loop of checkSchedule over recs: the records it may end with.  It
\* starts from an uninitialized record and transition time 0.
FirstMatch(recs, now) ==  \* Mutant: stops at the first record in force.
  LET found == SelectSeq(recs, LAMBDA r : 0 < r.transitionTime
                                          /\ r.transitionTime <= now)
  IN  IF found = <<>> THEN Garbage ELSE {Head(found)}

LastTransition(recs, now) ==
  LET best[k \in 0..Len(recs)] ==
        IF k = 0 THEN {}
        ELSE IF /\ recs[k].transitionTime \in 1..now
                /\ \A b \in best[k - 1] :
                     recs[k].transitionTime > b.transitionTime
          THEN {recs[k]}
          ELSE best[k - 1]
  IN  best[Len(recs)]

Selected(recs, now) ==
  IF LastTransition(recs, now) = {} THEN Garbage ELSE LastTransition(recs, now)

checkSchedule(now) ==
  /\ IF schedule = <<>> THEN current' = current
                        ELSE current' \in Selected(schedule, now)
  /\ UNCHANGED schedule

-----------------------------------------------------------------------------
(* The RTC interrupt *)

\* time % p in C; % 0 is undefined, so either outcome of the test is possible
Divides(p, t) == IF p = 0 THEN BOOLEAN ELSE {t % p = 0}

\* The minute boundary: the time advances, the schedule is checked and a
\* report may be requested.
Minute ==
  LET now == IF time + 1 > Week THEN 0 ELSE time + 1
  IN  /\ time' = now
      /\ checkSchedule(now)
      /\ \E due \in Divides(period, now) :
           LET request == now # 0 /\ due
           IN  /\ reportStatus' = (reportStatus \/ request)
               /\ unserved' = (unserved \/ request)
      /\ UNCHANGED period

Beacon ==
  /\ isBeaconEnabled
  /\ transmitted < MaxBeacons
  /\ beaconCount' = beaconCount + 1
  /\ transmitted' = transmitted + 1

\* An interrupt ends __WFI.
Wake == pc' = IF pc = "asleep" THEN "check" ELSE pc

Tick(minute) ==
  /\ Wake
  /\ Beacon \/ UNCHANGED <<beaconCount, transmitted>>
  /\ IF minute THEN Minute ELSE UNCHANGED <<timeVars, schedVars, unserved>>
  /\ UNCHANGED <<mainVars, credited>>

\* The button's interrupt requests a report, too.
Button ==
  /\ Wake
  /\ reportStatus' = TRUE /\ unserved' = TRUE
  /\ UNCHANGED <<mainVars, time, period, beaconCount, schedVars, transmitted,
                 credited>>

-----------------------------------------------------------------------------
(* The main loop *)

\* Mutant: the flag is cleared before it is tested.
CheckClears ==
  /\ Goto("check", "doze")
  /\ reportStatus' = FALSE
  /\ UNCHANGED <<mainVars, time, period, beaconCount, schedVars, history>>

CheckReport ==
  /\ pc = "check"
  /\ pc' = IF reportStatus THEN "clear" ELSE "doze"
  /\ UNCHANGED <<mainVars, timeVars, beaconCount, schedVars, history>>

ClearReport ==
  /\ Goto("clear", "connect")
  /\ reportStatus' = FALSE
  /\ UNCHANGED <<mainVars, time, period, beaconCount, schedVars, history>>

\* connectToWifi: a report requested until now is served by what follows.
Connect ==
  /\ Goto("connect", "report")
  /\ unserved' = FALSE
  /\ UNCHANGED <<mainVars, timeVars, beaconCount, schedVars, transmitted,
                 credited>>

BootConnect ==
  /\ Goto("boot", "get")
  /\ UNCHANGED <<mainVars, timeVars, beaconCount, schedVars, history>>

\* getSystemInfoJson
Report ==
  /\ Goto("report", "put")
  /\ snapshot' = beaconCount
  /\ UNCHANGED <<booted, reply, timeVars, beaconCount, schedVars, history>>

\* Mutant: the count is reset only when the server's answer arrived.
PutChecked ==
  /\ pc = "put"
  /\ \E received, answered \in BOOLEAN :
       /\ answered => received
       /\ credited' = IF received THEN credited + snapshot ELSE credited
       /\ pc' = IF answered THEN "reset" ELSE "get"
  /\ UNCHANGED <<mainVars, timeVars, beaconCount, schedVars, unserved,
                 transmitted>>

\* reportStatusToServer: the server may or may not receive the report, and
\* whatever httpOperation returns, it returns true.
Put ==
  /\ Goto("put", "reset")
  /\ credited' \in {credited, credited + snapshot}
  /\ UNCHANGED <<mainVars, timeVars, beaconCount, schedVars, unserved,
                 transmitted>>

ResetBeaconCount ==
  /\ Goto("reset", "get")
  /\ beaconCount' = 0
  /\ UNCHANGED <<mainVars, timeVars, schedVars, history>>

\* getStatusFromServer, when the request fails or its reply is not JSON
GetFails ==
  /\ Goto("get", "stop")
  /\ UNCHANGED <<mainVars, timeVars, beaconCount, schedVars, history>>

\* and when parseJSONObject goes on to rebuild the schedule.
GetReply ==
  /\ Goto("get", "parse")
  /\ reply' \in Replies
  /\ schedule' = <<>>
  /\ UNCHANGED <<booted, snapshot, timeVars, beaconCount, current, history>>

ParseEntry ==
  /\ pc = "parse" /\ reply # <<>>
  /\ reply' = Tail(reply)
  /\ LET e == Head(reply)
     IN  /\ time' = IF e.key = "systemTime" THEN e.val ELSE time
         /\ period' = IF e.key = "serverReconnectPeriod" THEN e.val ELSE period
         /\ schedule' = IF e.key = "record" THEN Append(schedule, e.val)
                                            ELSE schedule
  /\ UNCHANGED <<pc, booted, snapshot, reportStatus, beaconCount, current,
                 history>>

ParseDone ==
  /\ reply = <<>>
  /\ Goto("parse", "stop")
  /\ UNCHANGED <<mainVars, timeVars, beaconCount, schedVars, history>>

\* Mutant: requests made during the report are dropped with it.
StopClears ==
  /\ pc = "stop"
  /\ pc' = IF booted THEN "doze" ELSE "check"
  /\ booted' = TRUE
  /\ reportStatus' = FALSE
  /\ UNCHANGED <<snapshot, reply, time, period, beaconCount, schedVars, history>>

\* wlan_stop: before the loop when booting, before __WFI in it
Stop ==
  /\ pc = "stop"
  /\ pc' = IF booted THEN "doze" ELSE "check"
  /\ booted' = TRUE
  /\ UNCHANGED <<snapshot, reply, timeVars, beaconCount, schedVars, history>>

\* __WFI: an interrupt since the flag was tested does not prevent the sleep.
Sleep ==
  /\ Goto("doze", "asleep")
  /\ UNCHANGED <<mainVars, timeVars, beaconCount, schedVars, history>>

-----------------------------------------------------------------------------
Main ==
  \/ CheckReport \/ ClearReport \/ Connect \/ BootConnect
  \/ Report \/ Put \/ ResetBeaconCount
  \/ GetFails \/ GetReply \/ ParseEntry \/ ParseDone
  \/ Stop \/ Sleep

Next == Main \/ Tick(FALSE) \/ Tick(TRUE) \/ Button

Spec == Init /\ [][Next]_vars

\* The main program runs between interrupts, its calls return (CC3000Driver
\* says when), and the RTC never stops.
LiveSpec == Spec /\ WF_vars(Main) /\ WF_vars(Tick(FALSE)) /\ WF_vars(Tick(TRUE))

-----------------------------------------------------------------------------
(* Properties *)

\* A report requested by the interrupt, at any moment of the main loop and
\* also while another report is under way, is still requested until a
\* report begins.
NoLostRequest == unserved => reportStatus \/ pc = "connect"

\* A requested report begins, although the flag is tested before __WFI.
ReportServed == unserved ~> ~unserved

\* No beacon is counted twice: what the server has been told and what is
\* still to be told do not exceed what was transmitted.  A report received
\* whose answer is lost must not be sent again.
NoDoubleCount ==
  credited + (IF pc = "reset" THEN 0 ELSE beaconCount) <= transmitted

\* The record in force at now: the latest transition, the first if several.
InForce(recs, now) ==
  {i \in DOMAIN recs :
     /\ 0 < recs[i].transitionTime /\ recs[i].transitionTime <= now
     /\ \A j \in DOMAIN recs :
          recs[j].transitionTime <= now
            => \/ recs[j].transitionTime < recs[i].transitionTime
               \/ recs[j].transitionTime = recs[i].transitionTime /\ i <= j}

\* After a minute boundary the record of the latest transition of the
\* schedule is in force, whatever was in force before: a minute that fell
\* into the rebuilding of the schedule is put right by the next one.
ScheduleFollowed ==
  [][(pc # "parse" /\ time' # time)
       => \A i \in InForce(schedule, time') : current' = schedule[i]]_vars

\* The record in force came from the server, as checkSchedule's comment
\* says ("Find max transition time of records ...").  It need not: before
\* the first transition of the week it is an uninitialized local.
CurrentFromServer ==
  \/ current = NoRecord
  \/ \E r \in Replies : \E i \in DOMAIN r :
       r[i].key = "record" /\ r[i].val = current
=============================================================================
