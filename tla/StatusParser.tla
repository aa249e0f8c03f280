---------------------------- MODULE StatusParser ----------------------------
(***************************************************************************)
(* parseJSONObject (backend_connection.c): one pass over the tokens jsmn   *)
(* makes of the server's reply, with five local variables that say where   *)
(* in the document a token stands.  It sets the node's settings and        *)
(* rebuilds the schedule.  One step is one iteration of the loop.          *)
(***************************************************************************)
EXTENDS Integers, Sequences, SequencesExt

CONSTANTS
  Text,       \* what a token may spell
  atoi,       \* libc's conversion of a text
  Inputs,     \* token sequences that jsmn may return
  Docs,       \* well-formed replies (see below)
  MaxTokens,  \* tokenArray's length: 128 in the code
  Capacity    \* schedule's length: 64 in schedule.c

Token == [type : {"object", "array", "string", "primitive"},
          size : Nat, text : Text]

ASSUME AtoiAssumption == atoi \in [Text -> Int]
ASSUME CapacityAssumption ==
  /\ MaxTokens \in Nat /\ Capacity \in Nat
  /\ MaxTokens <= 3 * Capacity + 4
ASSUME InputsAssumption ==
  \A s \in Inputs : /\ DOMAIN s = 1..Len(s) /\ Len(s) <= MaxTokens
                    /\ \A n \in DOMAIN s : s[n] \in Token

-----------------------------------------------------------------------------
(* A well-formed reply is a sequence of top-level keys with their values:  *)
(* a setting, or the schedule, a sequence of records, each a sequence of   *)
(* <<key, value>>.  These are the tokens jsmn makes of it: an object's     *)
(* size counts its keys and its values.                                    *)

Tok(t, n, s) == [type |-> t, size |-> n, text |-> s]
NoText == ""     \* an object and an array have no text

FieldTokens(f) ==
  <<Tok("string", 0, f[1]),
    Tok(IF f[2] \in {"true", "false"} THEN "primitive" ELSE "string", 0, f[2])>>

FlatMap(Op(_), s) == FlattenSeq([n \in DOMAIN s |-> Op(s[n])])

RecordTokens(r) == <<Tok("object", 2 * Len(r), NoText)>> \o FlatMap(FieldTokens, r)

EntryTokens(e) ==
  IF e.key = "currentSchedule"
    THEN <<Tok("string", 0, e.key), Tok("array", Len(e.val), NoText)>>
           \o FlatMap(RecordTokens, e.val)
    ELSE FieldTokens(<<e.key, e.val>>)

DocTokens(d) == <<Tok("object", 2 * Len(d), NoText)>> \o FlatMap(EntryTokens, d)

\* A record has all of the fields, in any order, a field perhaps twice and
\* other keys between them.
Field == {"beaconEnabled", "beaconPeriod", "beaconPower", "transitionTime"}
IsRecord(r) == \A key \in Field : \E n \in DOMAIN r : r[n][1] = key
IsEntry(e) ==
  /\ e.key \in Text
  /\ IF e.key = "currentSchedule"
       THEN /\ e.val \in Seq(Seq(Text \X Text))
            /\ \A n \in DOMAIN e.val : IsRecord(e.val[n])
       ELSE e.val \in Text

ASSUME DocsAssumption ==
  \A d \in Docs :
    /\ Len(d) \in Nat /\ DOMAIN d = 1..Len(d)
    /\ \A n \in DOMAIN d : IsEntry(d[n])
    /\ LET s == DocTokens(d)
       IN  /\ DOMAIN s = 1..Len(s) /\ Len(s) <= MaxTokens
           /\ \A n \in DOMAIN s : s[n] \in Token

-----------------------------------------------------------------------------
VARIABLES
  tokens,           \* tokenArray[0 .. retval - 1]
  doc,              \* the reply they stand for, <<>> for none (history)
  i,                \* tokens consumed
  keyFound,
  activeKey,
  arrayObjects,
  arrayObjectSize,
  fields,           \* beaconEnabled, beaconPeriod, beaconPower, transitionTime
  schedule,
  settings          \* the system time, beacon UUID and reconnect period

vars == <<tokens, doc, i, keyFound, activeKey, arrayObjects, arrayObjectSize,
          fields, schedule, settings>>

\* What the settings are before the first reply (time.c, ble.c)
Defaults ==
  [systemTime |-> 0, serverReconnectPeriod |-> 1, beaconUUID |-> NoText]

Init ==
  /\ \/ tokens \in Inputs /\ doc = <<>>
     \/ \E d \in Docs : tokens = DocTokens(d) /\ doc = d
  /\ i = 0 /\ keyFound = FALSE /\ activeKey = NoText
  /\ arrayObjects = 0 /\ arrayObjectSize = 0
  /\ fields = [f \in Field |-> 0]
  /\ schedule = <<>>
  /\ settings = Defaults

token == tokens[i + 1]

NextToken == i < Len(tokens) /\ i' = i + 1 /\ UNCHANGED <<tokens, doc>>

\* What a field's value is converted to: beaconEnabled is compared with
\* "true", the others are numbers; an unknown field changes none.
WithField(key, text) ==
  IF key \in Field
    THEN [fields EXCEPT ![key] =
            IF key = "beaconEnabled" THEN (IF text = "true" THEN 1 ELSE 0)
                                     ELSE atoi[text]]
    ELSE fields

\* addScheduleRecord's record: a disabled one has no power and no period
RecordTimeOnly(fs) ==  \* Mutant: a disabled record has only its time.
  [f \in {"transitionTime", "beaconEnabled"} |-> fs[f]]

RecordOf(fs) ==
  [f \in Field |-> IF /\ f \in {"beaconPower", "beaconPeriod"}
                      /\ fs["beaconEnabled"] = 0
                     THEN 0 ELSE fs[f]]

WithSetting(key, text) ==
  CASE key \in {"systemTime", "serverReconnectPeriod"} ->
         [settings EXCEPT ![key] = atoi[text]]
    [] key = "beaconUUID" -> [settings EXCEPT ![key] = text]
    [] OTHER -> settings

\* An object of the array begins.
ArrayObject ==
  /\ NextToken
  /\ arrayObjects > 0 /\ token.type = "object"
  /\ arrayObjectSize' = token.size \div 2
  /\ keyFound' = FALSE
  /\ UNCHANGED <<activeKey, arrayObjects, fields, schedule, settings>>

\* Mutant: a record is added by every value once the object is exhausted.
ArrayValueAgain ==
  /\ NextToken
  /\ arrayObjects > 0 /\ token.type # "object" /\ keyFound
  /\ arrayObjectSize' = arrayObjectSize - 1
  /\ arrayObjects' = IF arrayObjectSize' = 0 THEN arrayObjects - 1
                                             ELSE arrayObjects
  /\ fields' = WithField(activeKey, token.text)
  /\ schedule' = IF arrayObjectSize' <= 0
                   THEN Append(schedule, RecordOf(fields')) ELSE schedule
  /\ keyFound' = FALSE
  /\ UNCHANGED <<activeKey, settings>>

\* Mutant: the array's objects are not counted down.
ArrayValueNoCount ==
  /\ NextToken
  /\ arrayObjects > 0 /\ token.type # "object" /\ keyFound
  /\ arrayObjectSize' = arrayObjectSize - 1
  /\ fields' = WithField(activeKey, token.text)
  /\ schedule' = IF arrayObjectSize' = 0
                   THEN Append(schedule, RecordOf(fields')) ELSE schedule
  /\ keyFound' = FALSE
  /\ UNCHANGED <<arrayObjects, activeKey, settings>>

\* A value of such an object; its last one completes the record.
ArrayValue ==
  /\ NextToken
  /\ arrayObjects > 0 /\ token.type # "object" /\ keyFound
  /\ arrayObjectSize' = arrayObjectSize - 1
  /\ arrayObjects' = IF arrayObjectSize' = 0 THEN arrayObjects - 1
                                             ELSE arrayObjects
  /\ fields' = WithField(activeKey, token.text)
  /\ schedule' = IF arrayObjectSize' = 0
                   THEN Append(schedule, RecordOf(fields')) ELSE schedule
  /\ keyFound' = FALSE
  /\ UNCHANGED <<activeKey, settings>>

\* A value outside the array.
TopValue ==
  /\ NextToken
  /\ arrayObjects = 0 /\ keyFound
  /\ IF token.type = "array"
       THEN /\ arrayObjects' = IF activeKey = "currentSchedule" THEN token.size
                                                                ELSE 0
            /\ settings' = settings
       ELSE /\ settings' = WithSetting(activeKey, token.text)
            /\ arrayObjects' = 0
  /\ keyFound' = FALSE
  /\ UNCHANGED <<activeKey, arrayObjectSize, fields, schedule>>

Key ==
  /\ NextToken
  /\ ~keyFound /\ token.type = "string"
  /\ activeKey' = token.text
  /\ keyFound' = TRUE
  /\ UNCHANGED <<arrayObjects, arrayObjectSize, fields, schedule, settings>>

\* Any other token is passed over: the document's own object, for one.
Skip ==
  /\ NextToken
  /\ ~keyFound /\ token.type # "string"
  /\ ~(arrayObjects > 0 /\ token.type = "object")
  /\ UNCHANGED <<keyFound, activeKey, arrayObjects, arrayObjectSize, fields,
                 schedule, settings>>

Next == ArrayObject \/ ArrayValue \/ TopValue \/ Key \/ Skip

Spec == Init /\ [][Next]_vars

-----------------------------------------------------------------------------
(* Properties *)

\* The locals of parseJSONObject stay in their ranges, records are complete.
TypeOK ==
  /\ Len(tokens) <= MaxTokens
  /\ i \in 0..Len(tokens)
  /\ keyFound \in BOOLEAN
  /\ arrayObjects \in Nat /\ arrayObjectSize \in Int
  /\ schedule \in Seq([Field -> Int])

\* addScheduleRecord's unchecked index stays inside schedule: a record
\* takes at least three tokens, whatever the tokens are.
ScheduleFits == Len(schedule) <= Capacity

\* The value that a sequence of <<key, value>> gives to key: the last one.
Given(r, key) == r[CHOOSE n \in DOMAIN r :
                     /\ r[n][1] = key
                     /\ \A m \in DOMAIN r : r[m][1] = key => m <= n][2]

\* The records of a document, each field converted.
MeantRecord(r) ==
  LET on == Given(r, "beaconEnabled") = "true"
  IN  [f \in Field |->
         CASE f = "beaconEnabled"  -> IF on THEN 1 ELSE 0
           [] f = "transitionTime" -> atoi[Given(r, f)]
           [] OTHER                -> IF on THEN atoi[Given(r, f)] ELSE 0]
MeantRecords(e) ==
  IF e.key = "currentSchedule"
    THEN [n \in DOMAIN e.val |-> MeantRecord(e.val[n])] ELSE <<>>
Meant(d) == FlatMap(MeantRecords, d)

\* The settings of a document: for each key its last value, if it has one.
MeantSettings(d) ==
  LET pairs == [n \in DOMAIN d |-> <<d[n].key, d[n].val>>]
  IN  [k \in DOMAIN Defaults |->
         IF \A n \in DOMAIN d : d[n].key # k THEN Defaults[k]
         ELSE IF k = "beaconUUID" THEN Given(pairs, k) ELSE atoi[Given(pairs, k)]]

\* Of a well-formed reply, wherever the schedule stands in it and in
\* whatever order a record has its keys, the parser makes the records and
\* the settings the reply gives, and takes no key of the one for the other.
ParsedAsSent ==
  i = Len(tokens) /\ doc # <<>> =>
    schedule = Meant(doc) /\ settings = MeantSettings(doc)
=============================================================================
