----------------------------- MODULE Node_proofs -----------------------------
(***************************************************************************)
(* Proofs about Node, for every week, reply, reconnect period and number   *)
(* of beacons.                                                             *)
(***************************************************************************)
EXTENDS Node, Recursion

\* The flag and its history are Booleans; only then do the disjunctions of
\* Minute say what they seem to.
FlagsOK == reportStatus \in BOOLEAN /\ unserved \in BOOLEAN

FlagInv == FlagsOK /\ NoLostRequest

\* The interrupt only sets the flag, together with the request.
LEMMA TickFlag ==
  ASSUME FlagInv, NEW minute \in BOOLEAN, Tick(minute)
  PROVE  FlagInv'
<1>1. pc = "connect" => pc' = "connect"
  BY DEF Tick, Wake
<1>2. CASE minute
  <2>1. Minute
    BY <1>2 DEF Tick
  <2>2. PICK request \in BOOLEAN :
          /\ reportStatus' = (reportStatus \/ request)
          /\ unserved' = (unserved \/ request)
    <3>1. PICK now, due : /\ reportStatus' = (reportStatus \/ (now # 0 /\ due))
                          /\ unserved' = (unserved \/ (now # 0 /\ due))
      BY <2>1, Zenon DEF Minute
    <3>2. (now # 0 /\ due) \in BOOLEAN
      OBVIOUS
    <3>3. QED
      BY <3>1, <3>2, Zenon
  <2>3. QED
    BY <1>1, <2>2, Zenon DEF FlagInv, FlagsOK, NoLostRequest
<1>3. CASE ~minute
  <2>1. UNCHANGED <<reportStatus, unserved>>
    BY <1>3 DEF Tick, timeVars
  <2>2. QED
    BY <1>1, <2>1, Zenon DEF FlagInv, FlagsOK, NoLostRequest
<1>4. QED
  BY <1>2, <1>3

LEMMA ButtonFlag ==
  ASSUME FlagInv, Button
  PROVE  FlagInv'
<1>1. reportStatus' = TRUE /\ unserved' = TRUE
  BY DEF Button
<1>2. QED
  BY <1>1, Zenon DEF FlagInv, FlagsOK, NoLostRequest

\* Clearing the flag and beginning the report are the only steps of the
\* main loop that touch either, and they come in this order.
LEMMA MainFlag ==
  ASSUME FlagInv, Main
  PROVE  FlagInv'
<1> USE DEF FlagInv, FlagsOK, NoLostRequest, Goto, timeVars, history
<1>1. CASE ClearReport
  BY <1>1, Zenon DEF ClearReport
<1>2. CASE Connect
  BY <1>2, Zenon DEF Connect
<1>3. CASE \/ CheckReport \/ BootConnect \/ Report \/ Put \/ ResetBeaconCount
           \/ GetFails \/ GetReply \/ ParseEntry \/ ParseDone \/ Stop \/ Sleep
  <2>1. UNCHANGED <<reportStatus, unserved>> /\ pc # "connect"
    BY <1>3
    DEF CheckReport, BootConnect, Report, Put, ResetBeaconCount, GetFails,
        GetReply, ParseEntry, ParseDone, Stop, Sleep
  <2>2. QED
    BY <2>1, Zenon
<1>4. QED
  BY <1>1, <1>2, <1>3 DEF Main

LEMMA FlagAlways == Spec => []FlagInv
<1>1. Init => FlagInv
  BY Zenon DEF Init, FlagInv, FlagsOK, NoLostRequest
<1>2. FlagInv /\ [Next]_vars => FlagInv'
  <2> SUFFICES ASSUME FlagInv, [Next]_vars
               PROVE  FlagInv'
    OBVIOUS
  <2>1. CASE Next
    BY <2>1, TickFlag, ButtonFlag, MainFlag DEF Next
  <2>2. CASE UNCHANGED vars
    BY <2>2, Zenon
    DEF vars, timeVars, history, FlagInv, FlagsOK, NoLostRequest
  <2>3. QED
    BY <2>1, <2>2
<1>3. QED
  BY <1>1, <1>2, PTL DEF Spec

\* A request to report is never lost, whenever the interrupt makes it.
THEOREM NodeNoLostRequest == Spec => []NoLostRequest
<1>1. FlagInv => NoLostRequest
  BY DEF FlagInv
<1>2. QED
  BY FlagAlways, <1>1, PTL

-----------------------------------------------------------------------------
(* The count of beacons.  NoDoubleCount is not inductive: while a report   *)
(* is under way the server may hold beacons that are still counted here,   *)
(* at most those of the snapshot, and the count has not gone below it.     *)

CountInv ==
  /\ beaconCount \in Nat /\ snapshot \in Nat
  /\ transmitted \in Nat /\ credited \in Nat
  /\ pc \in {"put", "reset"} => snapshot <= beaconCount
  /\ IF pc = "reset" THEN credited + beaconCount <= transmitted + snapshot
                     ELSE credited + beaconCount <= transmitted

LEMMA TickCount ==
  ASSUME CountInv, NEW minute \in BOOLEAN, Tick(minute)
  PROVE  CountInv'
<1>1. /\ UNCHANGED <<snapshot, credited>>
      /\ \/ beaconCount' = beaconCount + 1 /\ transmitted' = transmitted + 1
         \/ UNCHANGED <<beaconCount, transmitted>>
  BY DEF Tick, Beacon, mainVars
<1>2. pc' \in {pc, "check"} /\ (pc' # pc => pc = "asleep")
  BY Zenon DEF Tick, Wake
<1>3. /\ pc' = "put" => pc = "put"
      /\ pc' = "reset" <=> pc = "reset"
  BY <1>2
<1>4. QED
  BY <1>1, <1>3 DEF CountInv

LEMMA ButtonCount ==
  ASSUME CountInv, Button
  PROVE  CountInv'
<1>1. UNCHANGED <<snapshot, credited, beaconCount, transmitted>>
  BY DEF Button, mainVars
<1>2. pc' \in {pc, "check"} /\ (pc' # pc => pc = "asleep")
  BY Zenon DEF Button, Wake
<1>3. /\ pc' = "put" => pc = "put"
      /\ pc' = "reset" <=> pc = "reset"
  BY <1>2
<1>4. QED
  BY <1>1, <1>3 DEF CountInv

LEMMA MainCount ==
  ASSUME CountInv, Main
  PROVE  CountInv'
<1> USE DEF CountInv, Goto, mainVars, history
<1>1. CASE Report
  BY <1>1 DEF Report
<1>2. CASE Put
  <2>1. /\ pc = "put" /\ pc' = "reset"
        /\ UNCHANGED <<snapshot, beaconCount, transmitted>>
        /\ credited' = credited \/ credited' = credited + snapshot
    BY <1>2 DEF Put
  <2>2. QED
    BY <2>1
<1>3. CASE ResetBeaconCount
  BY <1>3 DEF ResetBeaconCount
<1>4. CASE \/ CheckReport \/ ClearReport \/ Connect \/ BootConnect
           \/ GetFails \/ GetReply \/ ParseEntry \/ ParseDone \/ Stop \/ Sleep
  <2>1. /\ UNCHANGED <<snapshot, beaconCount, transmitted, credited>>
        /\ pc \notin {"put", "reset"} /\ pc' \notin {"put", "reset"}
    BY <1>4
    DEF CheckReport, ClearReport, Connect, BootConnect, GetFails, GetReply,
        ParseEntry, ParseDone, Stop, Sleep
  <2>2. QED
    BY <2>1
<1>5. QED
  BY <1>1, <1>2, <1>3, <1>4 DEF Main

\* No beacon is reported twice, whichever reports and answers are lost and
\* wherever in the report the interrupt transmits.
THEOREM NodeNoDoubleCount == Spec => []NoDoubleCount
<1>1. Init => CountInv
  BY DEF Init, CountInv
<1>2. CountInv /\ [Next]_vars => CountInv'
  <2> SUFFICES ASSUME CountInv, [Next]_vars
               PROVE  CountInv'
    OBVIOUS
  <2>1. CASE Next
    BY <2>1, TickCount, ButtonCount, MainCount DEF Next
  <2>2. CASE UNCHANGED vars
    BY <2>2 DEF vars, mainVars, history, CountInv
  <2>3. QED
    BY <2>1, <2>2
<1>3. CountInv => NoDoubleCount
  BY DEF CountInv, NoDoubleCount
<1>4. QED
  BY <1>1, <1>2, <1>3, PTL DEF Spec

-----------------------------------------------------------------------------
(* The schedule.  The loop of checkSchedule is a function defined by       *)
(* recursion on the records passed; that its last value is the best of all *)
(* of them is proved by induction on their number.                         *)

\* The best record of the first k: none, if none is in time, or the one that
\* none of them beats.
BestOf(recs, k, now, best) ==
  \/ /\ best = {}
     /\ \A j \in 1..k : recs[j].transitionTime \notin 1..now
  \/ \E m \in 1..k :
       /\ best = {recs[m]} /\ recs[m].transitionTime \in 1..now
       /\ \A j \in 1..k :
            recs[j].transitionTime <= now =>
              \/ recs[j].transitionTime < recs[m].transitionTime
              \/ recs[j].transitionTime = recs[m].transitionTime /\ m <= j

\* The loop of checkSchedule ends with the best of all the records.
LEMMA LoopBest ==
  ASSUME NEW recs \in Seq(Record), NEW now \in Nat
  PROVE  BestOf(recs, Len(recs), now, LastTransition(recs, now))
<1> DEFINE N == Len(recs)
           In(k, b) == /\ recs[k].transitionTime \in 1..now
                       /\ \A r \in b : recs[k].transitionTime > r.transitionTime
           Best(k, b) == IF In(k, b) THEN {recs[k]} ELSE b
           h == [k \in Nat |-> [b \in SUBSET Record |->
                  IF k \in 1..N THEN Best(k, b) ELSE b]]
           Made(p) == p = [k \in 0..N |-> IF k = 0 THEN {}
                                          ELSE Best(k, p[k - 1])]
<1>1. N \in Nat /\ \A k \in 1..N : recs[k].transitionTime \in Int
  <2>1. N \in Nat /\ \A k \in 1..N : recs[k] \in Record
    OBVIOUS
  <2>2. \A r \in Record : r.transitionTime \in Int
    BY DEF Record
  <2> QED
    BY <2>1, <2>2
<1>2. h \in [Nat -> [SUBSET Record -> SUBSET Record]]
  <2>1. \A k \in 1..N, b \in SUBSET Record : Best(k, b) \in SUBSET Record
    OBVIOUS
  <2> HIDE DEF Best
  <2> QED
    BY <2>1
<1>3. PICK g : Recursive(g, N, SUBSET Record, {}, h)
  <2> DEFINE z == {}
             D == SUBSET Record
  <2>1. z \in D
    OBVIOUS
  <2>2. h \in [Nat -> [D -> D]]
    BY <1>2
  <2> HIDE DEF h, N, z, D
  <2>3. \E g : Recursive(g, N, D, z, h)
    BY <1>1, <2>1, <2>2, RecursionExists
  <2> QED
    BY <2>3 DEF z, D
<1>4. g \in [0..N -> SUBSET Record] /\ g[0] = {}
  BY <1>3 DEF Recursive
<1>5. \A k \in 1..N : g[k - 1] \in SUBSET Record
  BY <1>1, <1>4
<1>6. \A k \in 1..N : g[k] = Best(k, g[k - 1])
  <2> SUFFICES ASSUME NEW k \in 1..N
               PROVE  g[k] = Best(k, g[k - 1])
    OBVIOUS
  <2>1. g[k] = h[k][g[k - 1]]
    BY <1>3 DEF Recursive
  <2>2. k \in Nat
    BY <1>1
  <2> QED
    BY <1>5, <2>1, <2>2
<1>7. Made(g)
  <2> HIDE DEF Best, N
  <2> QED
    BY <1>1, <1>4, <1>6
<1> DEFINE p == CHOOSE q : Made(q)
<1>8. Made(p)
  <2> HIDE DEF Made
  <2> QED
    BY <1>7
<1>9. LastTransition(recs, now) = p[N]
  BY DEF LastTransition
<1>10. /\ p[0] = {}
       /\ \A k \in 1..N : p[k] = Best(k, p[k - 1])
  <2>1. ASSUME NEW q, Made(q)
        PROVE  q[0] = {} /\ \A k \in 1..N : q[k] = Best(k, q[k - 1])
    <3> HIDE DEF Best, N
    <3>1. q = [k \in 0..N |-> IF k = 0 THEN {} ELSE Best(k, q[k - 1])]
      BY <2>1
    <3>2. q[0] = {}
      BY <1>1, <3>1
    <3>3. ASSUME NEW k \in 1..N PROVE q[k] = Best(k, q[k - 1])
      <4>1. k \in 0..N /\ k # 0
        BY <1>1
      <4> HIDE DEF Made
      <4> QED
        BY ONLY <3>1, <4>1
    <3> QED
      BY <3>2, <3>3
  <2> HIDE DEF Made, Best, p, N
  <2> QED
    BY <1>8, <2>1
<1> HIDE DEF p, Best
<1> DEFINE T == {k \in Nat : k <= N => BestOf(recs, k, now, p[k])}
<1>11. 0 \in T
  BY <1>10 DEF BestOf
<1>12. \A k \in T : k < N => k + 1 \in T
  <2> SUFFICES ASSUME NEW k \in T, k < N PROVE k + 1 \in T
    OBVIOUS
  <2>1. /\ k \in Nat /\ k + 1 \in 1..N /\ k + 1 - 1 = k
        /\ BestOf(recs, k, now, p[k])
    BY <1>1
  <2>2. p[k + 1] = IF In(k + 1, p[k]) THEN {recs[k + 1]} ELSE p[k]
    <3>1. p[k + 1] = Best(k + 1, p[k + 1 - 1])
      BY <1>10, <2>1
    <3> QED
      BY <2>1, <3>1 DEF Best
  <2> HIDE DEF T
  <2>3. BestOf(recs, k + 1, now, p[k + 1])
    <3> DEFINE t(j) == recs[j].transitionTime
    <3>0. \A j \in 1..(k + 1) : t(j) \in Int /\ (j \in 1..k \/ j = k + 1)
      BY <1>1, <2>1
    <3>1. CASE p[k] = {} /\ \A j \in 1..k : t(j) \notin 1..now
      <4>1. CASE t(k + 1) \in 1..now
        <5>1. p[k + 1] = {recs[k + 1]}
          BY <2>2, <3>1, <4>1
        <5> QED
          BY <2>1, <3>0, <3>1, <4>1, <5>1 DEF BestOf
      <4>2. CASE t(k + 1) \notin 1..now
        BY <2>1, <2>2, <3>0, <3>1, <4>2 DEF BestOf
      <4> QED
        BY <4>1, <4>2
    <3>2. ASSUME NEW m \in 1..k, p[k] = {recs[m]}, t(m) \in 1..now,
                 \A j \in 1..k : t(j) <= now =>
                    t(j) < t(m) \/ (t(j) = t(m) /\ m <= j)
          PROVE  BestOf(recs, k + 1, now, p[k + 1])
      <4>1. CASE t(k + 1) \in 1..now /\ t(k + 1) > t(m)
        <5>1. p[k + 1] = {recs[k + 1]}
          BY <2>2, <3>2, <4>1
        <5>2. \A j \in 1..(k + 1) : t(j) <= now =>
                 t(j) < t(k + 1) \/ (t(j) = t(k + 1) /\ k + 1 <= j)
          BY <2>1, <3>0, <3>2, <4>1
        <5> QED
          BY <2>1, <4>1, <5>1, <5>2 DEF BestOf
      <4>2. CASE ~(t(k + 1) \in 1..now /\ t(k + 1) > t(m))
        <5>1. p[k + 1] = {recs[m]} /\ m \in 1..(k + 1)
          BY <2>1, <2>2, <3>2, <4>2
        <5>2. \A j \in 1..(k + 1) : t(j) <= now =>
                 t(j) < t(m) \/ (t(j) = t(m) /\ m <= j)
          BY <2>1, <3>0, <3>2, <4>2
        <5> QED
          BY <3>2, <5>1, <5>2 DEF BestOf
      <4> QED
        BY <4>1, <4>2
    <3> QED
      BY <2>1, <3>1, <3>2 DEF BestOf
  <2> QED
    BY <2>1, <2>3 DEF T
<1>13. T \in SUBSET Nat
  OBVIOUS
<1> HIDE DEF T
<1>14. N \in T
  <2> HIDE DEF N
  <2>1. \A k \in 0..N : k \in T
    BY <1>1, <1>11, <1>12, <1>13, InductUpTo
  <2> QED
    BY <1>1, <2>1
<1> QED
  BY <1>1, <1>9, <1>14 DEF T

\* The record in force is the one that checkSchedule selects.
LEMMA ForceIsBest ==
  ASSUME NEW recs \in Seq(Record), NEW now \in Nat,
         NEW i \in InForce(recs, now)
  PROVE  LastTransition(recs, now) = {recs[i]}
<1> DEFINE t(j) == recs[j].transitionTime
           best == LastTransition(recs, now)
<1>1. /\ Len(recs) \in Nat /\ DOMAIN recs = 1..Len(recs)
      /\ \A j \in 1..Len(recs) : t(j) \in Int
  <2>1. \A r \in Record : r.transitionTime \in Int
    BY DEF Record
  <2> QED
    BY <2>1
<1>2. /\ i \in 1..Len(recs) /\ t(i) \in 1..now
      /\ \A j \in 1..Len(recs) : t(j) <= now =>
           t(j) < t(i) \/ (t(j) = t(i) /\ i <= j)
  BY <1>1 DEF InForce
<1>3. BestOf(recs, Len(recs), now, best)
  BY LoopBest
<1> HIDE DEF best
<1>4. PICK m \in 1..Len(recs) :
        /\ best = {recs[m]} /\ t(m) \in 1..now
        /\ \A j \in 1..Len(recs) : t(j) <= now =>
             t(j) < t(m) \/ (t(j) = t(m) /\ m <= j)
  BY <1>2, <1>3 DEF BestOf
<1>5. m = i
  BY <1>1, <1>2, <1>4
<1> QED
  BY <1>4, <1>5 DEF best

\* The schedule and what is left of the reply are made of records, and the
\* time is a natural number.
SchedInv ==
  /\ schedule \in Seq(Record) /\ reply \in Seq(Entry) /\ time \in Nat

\* What the interrupt does to them.
LEMMA TickSched ==
  ASSUME NEW minute \in BOOLEAN, Tick(minute), SchedInv
  PROVE  /\ SchedInv'
         /\ time' # time => \A i \in InForce(schedule, time') :
                              current' = schedule[i]
<1>1. reply' = reply /\ schedule' = schedule
  BY DEF Tick, mainVars, Minute, checkSchedule, schedVars
<1>2. time' \in Nat
  BY WeekAssumption DEF SchedInv, Tick, Minute, timeVars
<1>3. ASSUME time' # time, NEW i \in InForce(schedule, time')
      PROVE  current' = schedule[i]
  <2>1. Minute
    BY <1>3 DEF Tick, timeVars
  <2>2. checkSchedule(time')
    BY <2>1 DEF Minute
  <2>3. LastTransition(schedule, time') = {schedule[i]}
    BY <1>2, ForceIsBest DEF SchedInv
  <2>4. schedule # <<>>
    BY DEF InForce
  <2> QED
    BY <2>2, <2>3, <2>4 DEF checkSchedule, Selected
<1> QED
  BY <1>1, <1>2, <1>3 DEF SchedInv

\* The main program changes the time and the schedule only while it parses.
LEMMA MainSched ==
  ASSUME Main \/ Button \/ UNCHANGED vars, SchedInv
  PROVE  SchedInv' /\ (pc # "parse" => time' = time)
<1>1. CASE ParseEntry
  <2> DEFINE e == Head(reply)
  <2>1. reply # <<>> /\ reply' = Tail(reply)
        /\ time' = (IF e.key = "systemTime" THEN e.val ELSE time)
        /\ schedule' = (IF e.key = "record" THEN Append(schedule, e.val)
                                            ELSE schedule)
    BY <1>1 DEF ParseEntry
  <2>2. e \in Entry /\ reply' \in Seq(Entry)
    BY <2>1 DEF SchedInv
  <2>3. /\ e.key = "systemTime" => e.val \in Nat
        /\ e.key = "record" => e.val \in Record
    BY <2>2 DEF Entry
  <2> HIDE DEF e
  <2> QED
    BY <1>1, <2>1, <2>2, <2>3 DEF SchedInv, ParseEntry
<1>2. CASE GetReply
  BY <1>2, RepliesAssumption DEF GetReply, Goto, SchedInv, timeVars
<1>3. CASE UNCHANGED <<schedule, reply, time>>
  BY <1>3 DEF SchedInv
<1>4. CASE \/ CheckReport \/ ClearReport \/ Connect \/ BootConnect \/ Report
           \/ Put \/ ResetBeaconCount \/ GetFails \/ ParseDone \/ Stop \/ Sleep
           \/ Button \/ UNCHANGED vars
  <2>1. UNCHANGED <<schedule, reply, time>>
    BY <1>4
    DEF CheckReport, ClearReport, Connect, BootConnect, Report, Put,
        ResetBeaconCount, GetFails, ParseDone, Stop, Sleep, Button, vars,
        mainVars, timeVars, schedVars
  <2> QED
    BY <1>3, <2>1
<1> QED
  BY <1>1, <1>2, <1>4 DEF Main

\* After every minute the record of the latest transition of the week is in
\* force, whatever the schedule's length and order and whatever was in force
\* before (schedule.c, checkSchedule).
THEOREM NodeScheduleFollowed == Spec => ScheduleFollowed
<1>1. Init => SchedInv
  BY DEF Init, SchedInv
<1>2. SchedInv /\ [Next]_vars => SchedInv'
  BY TickSched, MainSched DEF Next
<1>3. SchedInv /\ [Next]_vars
        => [(pc # "parse" /\ time' # time) =>
              \A i \in InForce(schedule, time') : current' = schedule[i]]_vars
  BY TickSched, MainSched DEF Next
<1> QED
  BY <1>1, <1>2, <1>3, PTL DEF Spec, ScheduleFollowed
=============================================================================
