-------------------------- MODULE PagerRelayProofs --------------------------
(***************************************************************************)
(* The theorems about the operator pager relay (README, section 6).        *)
(*                                                                         *)
(* Calls says of one invocation how its sends add up: what was taken, what *)
(* of that had its answer lost, and how many sends were made at each of    *)
(* its points.  The properties of what becomes of a page follow from it;   *)
(* those of drill and real are in PagerDrillProofs.                        *)
(***************************************************************************)
EXTENDS PagerRelay, OrderLemmas

-----------------------------------------------------------------------------
(* What becomes of a page.                                                 *)

\* What a step may leave in out: nothing, a read, or the record of an end.
OutType ==
  /\ out.record \in {"none", "suppressed", "dropped", "accepted", "fell back", "rejected"}
  /\ out.metrics \subseteq {"VendorAccepted", "VendorRejected", "FallbackForwarded", "Dropped"}
  /\ out.dead \in BOOLEAN /\ out.read \in BOOLEAN

\* Where an invocation is and what its sends have come to.
Call(i) ==
  /\ i.pc \in {"free", "topic", "record"} => i.taken = 0 /\ i.lost = 0
  /\ i.pc \in {"topic", "send"} /\ i.attempts = 0 => i.taken = 0
  /\ i.pc = "topic" => i.attempts = 0
  /\ i.pc = "sleep" => i.attempts = 1
  /\ i.pc \in {"send", "sleep", "fallback", "rejected"} => i.taken = i.lost
  /\ i.pc \in {"accepted", "fell back"} => i.taken = i.lost + 1
  /\ i.pc \in {"send", "sleep"} => i.attempts \in 0..1 /\ i.taken <= i.attempts
  /\ i.pc = "fallback" => i.taken <= 2
  /\ i.pc = "record" => ~i.parsed.page

Calls == \A s \in Slot : Call(inv[s])

CallInv == TypeOK /\ Calls

\* A slot that nothing is in, and a message on the topic.
LEMMA WaitingType ==
  ASSUME NEW m \in Notification \cup Document
  PROVE  Waiting(m) \in InvType /\ Call(Waiting(m))
  BY DEF Waiting, Unparsed, Drop, InvType, Parsed, DropReason, Call

LEMMA FreeType == Free \in InvType /\ Call(Free)
<1>1. NoMessage \in Notification \cup Document
  BY DEF NoMessage, Document
<1>2. Waiting(NoMessage) \in InvType /\ Waiting(NoMessage).taken = 0 /\ Waiting(NoMessage).lost = 0
  BY <1>1, WaitingType DEF Waiting
<1> QED BY <1>2 DEF Free, InvType, Call

\* The history is a sequence of steps.
LEMMA HistoryType ==
  ASSUME history \in Seq([at : 0..now, old : State, new : State, id : 0..MaxDrills])
  PROVE  /\ Len(history) \in Nat
         /\ \A h \in 1..Len(history) :
              history[h] \in [at : 0..now, old : State, new : State, id : 0..MaxDrills]
<1> DEFINE S == [at : 0..now, old : State, new : State, id : 0..MaxDrills]
<1>1. history \in Seq(S)
  OBVIOUS
<1> HIDE DEF S
<1>2. Len(history) \in Nat /\ \A h \in 1..Len(history) : history[h] \in S
  BY <1>1
<1> QED BY <1>2 DEF S

\* The newest of some steps of the history.
LEMMA NewestStep ==
  ASSUME TypeOK, NEW items \in SUBSET (1..Len(history)), items # {}
  PROVE  Newest(items) \in items /\ \A j \in items : j <= Newest(items)
<1>0. Len(history) \in Nat
  BY HistoryType DEF TypeOK
<1>1. items \in SUBSET Nat /\ \A j \in items : j <= Len(history)
  BY <1>0
<1>2. \E h \in items : \A j \in items : j <= h
  BY <1>0, <1>1, NatMax
<1> QED BY <1>2 DEF Newest

\* An id read from the history is that of one of its steps.
LEMMA DetectType ==
  ASSUME TypeOK, NEW doc \in Notification, NEW read \in BOOLEAN
  PROVE  Detect(doc, read) \in [drill : BOOLEAN, id : 0..MaxDrills]
<1>1. \A h \in 1..Len(history) : history[h].id \in 0..MaxDrills
  BY HistoryType DEF TypeOK
<1>2. MaxDrills \in Nat
  BY PagerAssumption
<1>3. ASSUME NEW items \in SUBSET (1..Len(history))
      PROVE  DrillIdFromHistory(items) \in 0..MaxDrills
  <2> DEFINE set == {h \in items : OfADrill(h)}
  <2>1. CASE set # {}
    <3>1. Newest(set) \in 1..Len(history)
      BY <2>1, NewestStep
    <3> QED BY <1>1, <2>1, <3>1 DEF DrillIdFromHistory
  <2> QED BY <1>2, <2>1 DEF DrillIdFromHistory
<1>4. ASSUME NEW items \in SUBSET (1..Len(history)), NEW at, NEW state
      PROVE  DrillFromHistory(items, at, state) \in [drill : BOOLEAN, id : 0..MaxDrills]
  <2> DEFINE steps == {h \in items : history[h].at <= at + Skew}
             begun == IF state = "OK" THEN steps \ {Newest(steps)} ELSE steps
  <2>1. CASE begun # {}
    <3>1. Newest(begun) \in 1..Len(history)
      BY <2>1, NewestStep
    <3> QED BY <1>1, <1>2, <3>1 DEF DrillFromHistory, NotDrill
  <2>2. CASE begun = {}
    BY <1>2, <2>2 DEF DrillFromHistory, NotDrill
  <2> QED BY <2>1, <2>2
<1>5. Items(doc.at) \in SUBSET (1..Len(history))
  BY DEF Items
<1> QED BY <1>2, <1>3, <1>4, <1>5 DEF Detect, NotDrill

\* A parse gives a page or a reason to drop it, and an id of some drill so far.
LEMMA ParseType ==
  ASSUME TypeOK, NEW doc \in Notification \cup Document, NEW map \in BOOLEAN, NEW read \in BOOLEAN
  PROVE  Parse(doc, map, read) \in Parsed
<1>0. ASSUME NEW r \in DropReason
      PROVE  Drop(r) \in Parsed
  BY <1>0 DEF Drop, Parsed
<1>1. ASSUME NEW kind \in Kind, NEW drill \in BOOLEAN, NEW id \in 0..MaxDrills
      PROVE  Page(kind, drill, id) \in Parsed
  BY <1>1 DEF Page, Parsed
<1>2. CASE doc.shape = "alarm"
  <2>1. doc \in Notification
    BY <1>2 DEF Notification, Document
  <2>2. Detect(doc, read) \in [drill : BOOLEAN, id : 0..MaxDrills]
    BY <2>1, DetectType
  <2>3. ParseAlarm(doc, map, read) \in Parsed
    BY <1>0, <1>1, <2>2 DEF ParseAlarm, Kind, DropReason
  <2> QED BY <1>0, <1>2, <2>3 DEF Parse, Rendered, DropReason
<1>3. CASE doc.shape = "page_v1"
  <2>1. 0 \in 0..MaxDrills
    BY PagerAssumption
  <2>2. ParsePageV1(doc) \in Parsed
    BY <1>0, <1>1, <2>1 DEF ParsePageV1, DropReason, Kind
  <2> QED BY <1>0, <1>3, <2>2 DEF Parse, Rendered, DropReason
<1>4. CASE doc.shape \notin {"alarm", "page_v1"}
  BY <1>0, <1>4 DEF Parse, Rendered, DropReason, Drop
<1> QED BY <1>2, <1>3, <1>4

\* What the state of the slots and of the last step must be.
SlotsType == inv \in [Slot -> InvType] /\ OutType

LEMMA SilentType == out' = Silent => OutType'
  BY DEF Silent, OutType

\* A message that goes to the topic, followed or not.
LEMMA PublishKeeps ==
  ASSUME CallInv, NEW m \in Notification \cup Document, Publish(m)
  PROVE  SlotsType' /\ Calls'
<1>1. OutType'
  BY SilentType DEF Publish
<1>2. CASE UNCHANGED inv
  BY <1>1, <1>2 DEF CallInv, TypeOK, SlotsType, Calls
<1>3. ASSUME NEW s \in Slot, inv' = [inv EXCEPT ![s] = Waiting(m)]
      PROVE  SlotsType' /\ Calls'
  BY <1>1, <1>3, WaitingType DEF CallInv, TypeOK, SlotsType, Calls
<1> QED BY <1>2, <1>3 DEF Publish

\* An invocation that ends.
LEMMA EndKeeps ==
  ASSUME CallInv, NEW s \in Slot, inv' = [inv EXCEPT ![s] = Free]
  PROVE  inv' \in [Slot -> InvType] /\ Calls'
  BY FreeType DEF CallInv, TypeOK, Calls

\* The message is parsed.
LEMMA InvokeKeeps ==
  ASSUME CallInv, NEW s \in Slot, Invoke(s)
  PROVE  SlotsType' /\ Calls'
<1>1. inv[s] \in InvType /\ Call(inv[s]) /\ inv[s].pc = "topic"
  BY DEF Invoke, CallInv, TypeOK, Calls
<1>2. PICK map, read \in BOOLEAN, adapter \in {"sns_forward", "vendor"} :
        LET parsed == Parse(inv[s].message, map, read) IN
        /\ inv' = [inv EXCEPT ![s].message = NoMessage, ![s].parsed = parsed,
                              ![s].adapter = adapter,
                              ![s].pc = IF parsed.page THEN "send" ELSE "record"]
        /\ out' = [Silent EXCEPT !.read = read]
  BY DEF Invoke
<1> DEFINE parsed == Parse(inv[s].message, map, read)
           pc == IF parsed.page THEN "send" ELSE "record"
           i == [inv[s] EXCEPT !.message = NoMessage, !.parsed = parsed,
                               !.adapter = adapter, !.pc = pc]
<1>3. parsed \in Parsed
  BY <1>1, ParseType DEF CallInv, InvType
<1>4. inv' = [inv EXCEPT ![s] = i]
  BY <1>2 DEF CallInv, TypeOK
<1> HIDE DEF parsed
<1>5. NoMessage \in Notification \cup Document
  BY DEF NoMessage, Document
<1>6. i \in InvType
  BY <1>1, <1>3, <1>5 DEF InvType
<1>7. Call(i)
  <2>1. /\ i.pc = pc /\ i.parsed = parsed
        /\ i.attempts = inv[s].attempts /\ i.taken = inv[s].taken /\ i.lost = inv[s].lost
    BY <1>1 DEF InvType
  <2>2. i.attempts = 0 /\ i.taken = 0 /\ i.lost = 0
    BY <1>1, <2>1 DEF Call
  <2>3. parsed.page \in BOOLEAN
    BY <1>3 DEF Parsed
  <2>4. CASE parsed.page
    BY <2>1, <2>2, <2>4 DEF Call
  <2>5. CASE ~parsed.page
    BY <2>1, <2>2, <2>5 DEF Call
  <2> QED BY <2>3, <2>4, <2>5
<1>8. inv' \in [Slot -> InvType] /\ Calls'
  BY <1>4, <1>6, <1>7 DEF CallInv, TypeOK, Calls
<1>9. OutType'
  BY <1>2 DEF Silent, OutType
<1> QED BY <1>8, <1>9 DEF SlotsType

\* A send with its answer, and where the invocation goes from there.
Sends(i, answer, n, pc) ==
  /\ pc \in {"sleep", "fallback", "accepted", "fell back", "rejected"}
  /\ pc \in {"accepted", "fell back"} <=> answer.status = "2xx"
  /\ \/ i.pc = "send" /\ n = i.attempts + 1 /\ (pc = "sleep" => n = 1)
     \/ i.pc = "fallback" /\ n = i.attempts /\ pc \in {"fell back", "rejected"}

\* What an answer adds to what was taken and to what was lost.
LEMMA AnswerCounts ==
  ASSUME NEW answer \in Answers, NEW k \in 0..2
  PROVE  LET t == k + (IF answer.taken THEN 1 ELSE 0)
             l == k + (IF answer.taken /\ answer.status # "2xx" THEN 1 ELSE 0)
         IN /\ t \in 0..3 /\ l \in 0..3 /\ t <= k + 1
            /\ IF answer.status = "2xx" THEN t = l + 1 ELSE t = l
<1>1. CASE answer = [taken |-> TRUE, status |-> "2xx"]
  BY <1>1
<1>2. CASE answer = [taken |-> FALSE, status |-> "4xx"]
  BY <1>2
<1>3. CASE answer = [taken |-> FALSE, status |-> "5xx"]
  BY <1>3
<1>4. CASE answer = [taken |-> TRUE, status |-> "5xx"]
  BY <1>4
<1> QED BY <1>1, <1>2, <1>3, <1>4 DEF Answers

LEMMA TakenAtMost ==
  ASSUME NEW n, NEW a \in 0..1, NEW k \in 0..2, NEW t \in 0..3, n = a + 1, k <= a, t <= k + 1
  PROVE  t <= n /\ n \in 0..2
  OBVIOUS

\* So a send keeps the counts within their bounds.
LEMMA SendCounts ==
  ASSUME NEW i \in InvType, Call(i), NEW answer \in Answers, NEW n, NEW pc,
         Sends(i, answer, n, pc)
  PROVE  LET t == i.taken + (IF answer.taken THEN 1 ELSE 0)
             l == i.lost + (IF answer.taken /\ answer.status # "2xx" THEN 1 ELSE 0)
         IN /\ n \in 0..2 /\ t \in 0..3 /\ l \in 0..3
            /\ IF answer.status = "2xx" THEN t = l + 1 ELSE t = l
            /\ pc = "sleep" => n = 1 /\ t <= 1
            /\ pc = "fallback" => t <= 2
<1> DEFINE t == i.taken + (IF answer.taken THEN 1 ELSE 0)
           l == i.lost + (IF answer.taken /\ answer.status # "2xx" THEN 1 ELSE 0)
<1>1. i.taken \in 0..3 /\ i.attempts \in 0..2
  BY DEF InvType
<1>2. CASE i.pc = "send"
  <2>1. i.attempts \in 0..1 /\ i.lost = i.taken /\ i.taken <= i.attempts
    BY <1>1, <1>2 DEF Call
  <2>2. n = i.attempts + 1 /\ (pc = "sleep" => n = 1)
    BY <1>2 DEF Sends
  <2>3. i.taken \in 0..2
    BY <1>1, <2>1
  <2>4. t \in 0..3 /\ l \in 0..3 /\ t <= i.taken + 1
        /\ (IF answer.status = "2xx" THEN t = l + 1 ELSE t = l)
    BY <2>1, <2>3, AnswerCounts
  <2> HIDE DEF t, l
  <2>5. t <= n /\ n \in 0..2
    BY ONLY <2>1, <2>2, <2>3, <2>4, TakenAtMost
  <2> QED BY <2>2, <2>4, <2>5 DEF t, l
<1>3. CASE i.pc = "fallback"
  <2>1. i.taken \in 0..2 /\ i.lost = i.taken
    BY <1>1, <1>3 DEF Call
  <2>2. n = i.attempts /\ pc \notin {"sleep", "fallback"}
    BY <1>3 DEF Sends
  <2>3. t \in 0..3 /\ l \in 0..3 /\ (IF answer.status = "2xx" THEN t = l + 1 ELSE t = l)
    BY <2>1, AnswerCounts
  <2> QED BY <1>1, <2>2, <2>3
<1> QED BY <1>2, <1>3 DEF Sends

\* What the invocation is after the send.
LEMMA SendGives ==
  ASSUME NEW i \in InvType, Call(i), NEW answer \in Answers, NEW n, NEW pc,
         Sends(i, answer, n, pc)
  PROVE  LET j == [i EXCEPT !.pc = pc, !.attempts = n,
                     !.taken = @ + (IF answer.taken THEN 1 ELSE 0),
                     !.lost = @ + (IF answer.taken /\ answer.status # "2xx" THEN 1 ELSE 0)]
         IN j \in InvType /\ Call(j)
<1> DEFINE t == i.taken + (IF answer.taken THEN 1 ELSE 0)
           l == i.lost + (IF answer.taken /\ answer.status # "2xx" THEN 1 ELSE 0)
           j == [i EXCEPT !.pc = pc, !.attempts = n, !.taken = t, !.lost = l]
<1>1. /\ n \in 0..2 /\ t \in 0..3 /\ l \in 0..3
      /\ IF answer.status = "2xx" THEN t = l + 1 ELSE t = l
      /\ pc = "sleep" => n = 1 /\ t <= 1
      /\ pc = "fallback" => t <= 2
  BY SendCounts
<1>2. /\ pc \in {"sleep", "fallback", "accepted", "fell back", "rejected"}
      /\ pc \in {"accepted", "fell back"} <=> answer.status = "2xx"
  BY DEF Sends
<1> HIDE DEF t, l
<1>3. j \in InvType
  BY <1>1, <1>2 DEF InvType
<1>4. j.pc = pc /\ j.attempts = n /\ j.taken = t /\ j.lost = l
  BY DEF InvType
<1> HIDE DEF j
<1>5. /\ j.pc \in {"sleep", "fallback", "accepted", "fell back", "rejected"}
      /\ j.attempts \in 0..2 /\ j.lost \in 0..3
  BY <1>1, <1>2, <1>4
<1>6. IF j.pc \in {"accepted", "fell back"} THEN j.taken = j.lost + 1 ELSE j.taken = j.lost
  BY <1>1, <1>2, <1>4
<1>7. /\ j.pc = "sleep" => j.attempts = 1 /\ j.taken <= 1
      /\ j.pc = "fallback" => j.taken <= 2
  BY <1>1, <1>4
<1>8. Call(j)
  <2>1. CASE j.pc = "sleep"
    <3>1. j.attempts = 1 /\ j.taken = j.lost /\ j.taken <= 1
      BY <1>6, <1>7, <2>1
    <3> QED BY ONLY <2>1, <3>1 DEF Call
  <2>2. CASE j.pc = "fallback"
    BY <1>5, <1>6, <1>7, <2>2 DEF Call
  <2>3. CASE j.pc \in {"accepted", "fell back"}
    BY <1>6, <2>3 DEF Call
  <2>4. CASE j.pc = "rejected"
    BY <1>6, <2>4 DEF Call
  <2> QED BY <1>5, <2>1, <2>2, <2>3, <2>4
<1> QED BY <1>3, <1>8 DEF j, t, l

\* A send is answered: it is taken or not, and an answer that is not 2xx loses
\* what was taken.
LEMMA SentKeeps ==
  ASSUME CallInv, NEW s \in Slot, NEW answer \in Answers, NEW n, NEW pc,
         Sent(s, answer, n, pc), Sends(inv[s], answer, n, pc)
  PROVE  SlotsType' /\ Calls'
<1>1. inv[s] \in InvType /\ Call(inv[s])
  BY DEF CallInv, TypeOK, Calls
<1> DEFINE j == [inv[s] EXCEPT !.pc = pc, !.attempts = n,
                   !.taken = @ + (IF answer.taken THEN 1 ELSE 0),
                   !.lost = @ + (IF answer.taken /\ answer.status # "2xx" THEN 1 ELSE 0)]
<1>2. inv' = [inv EXCEPT ![s] = j]
  BY DEF CallInv, TypeOK, Sent
<1>3. j \in InvType /\ Call(j)
  BY <1>1, SendGives
<1> HIDE DEF j
<1>4. inv' \in [Slot -> InvType] /\ Calls'
  BY <1>2, <1>3 DEF CallInv, TypeOK, Calls
<1> QED BY <1>4, SilentType DEF SlotsType, Sent

LEMMA SendKeeps ==
  ASSUME CallInv, NEW s \in Slot, Send(s)
  PROVE  SlotsType' /\ Calls'
<1> DEFINE n == IF inv[s].attempts = 0 THEN 1 ELSE 2
<1>1. PICK answer \in Answers : Sent(s, answer, n, NextSend(inv[s].adapter, answer.status, n))
  BY DEF Send
<1> DEFINE pc == NextSend(inv[s].adapter, answer.status, n)
<1>2. inv[s].pc = "send"
  BY DEF Send
<1>3. inv[s].attempts \in 0..1
  BY <1>2 DEF CallInv, Calls, Call
<1>4. n = inv[s].attempts + 1 /\ n \in 1..2
  BY <1>3
<1> HIDE DEF n
<1>5. /\ pc \in {"sleep", "fallback", "accepted", "fell back", "rejected"}
      /\ pc \in {"accepted", "fell back"} <=> answer.status = "2xx"
      /\ pc = "sleep" => n = 1
  BY <1>4 DEF NextSend
<1>6. Sends(inv[s], answer, n, pc)
  BY <1>2, <1>4, <1>5 DEF Sends
<1> QED BY <1>1, <1>6, SentKeeps

LEMMA FallbackKeeps ==
  ASSUME CallInv, NEW s \in Slot, Fallback(s)
  PROVE  SlotsType' /\ Calls'
<1>1. PICK answer \in Answers :
        Sent(s, answer, inv[s].attempts, IF answer.status = "2xx" THEN "fell back" ELSE "rejected")
  BY DEF Fallback
<1>2. Sends(inv[s], answer, inv[s].attempts,
            IF answer.status = "2xx" THEN "fell back" ELSE "rejected")
  BY DEF Sends, Fallback
<1> QED BY <1>1, <1>2, SentKeeps

LEMMA SleepKeeps ==
  ASSUME CallInv, NEW s \in Slot, Sleep(s)
  PROVE  SlotsType' /\ Calls'
<1>1. inv[s] \in InvType /\ Call(inv[s]) /\ inv[s].pc = "sleep"
  BY DEF CallInv, TypeOK, Calls, Sleep
<1> DEFINE j == [inv[s] EXCEPT !.pc = "send"]
<1>2. inv' = [inv EXCEPT ![s] = j]
  BY DEF CallInv, TypeOK, Sleep
<1>3. j \in InvType
  BY <1>1 DEF InvType
<1>4. /\ j.pc = "send" /\ j.attempts = inv[s].attempts
      /\ j.taken = inv[s].taken /\ j.lost = inv[s].lost
  BY <1>1 DEF InvType
<1> HIDE DEF j
<1>6. Call(j)
  <2>1. inv[s].attempts = 1 /\ inv[s].taken = inv[s].lost /\ inv[s].taken <= 1
    BY <1>1 DEF Call
  <2> QED BY <1>4, <2>1 DEF Call
<1>5. inv' \in [Slot -> InvType] /\ Calls'
  BY <1>2, <1>3, <1>6 DEF CallInv, TypeOK, Calls
<1> QED BY <1>5, SilentType DEF SlotsType, Sleep

\* The record of an end has a type.
LEMMA EmitKeeps ==
  ASSUME CallInv, NEW s \in Slot, Emit(s)
  PROVE  SlotsType' /\ Calls'
<1>1. inv' \in [Slot -> InvType] /\ Calls'
  BY EndKeeps DEF Emit
<1>2. Outcome(s) \in {"suppressed", "dropped", "accepted", "fell back", "rejected"}
  BY DEF Outcome, Emit
<1>3. Metrics(Outcome(s)) \subseteq {"VendorAccepted", "VendorRejected", "FallbackForwarded", "Dropped"}
  BY <1>2 DEF Metrics
<1>4. OutType'
  BY <1>2, <1>3 DEF Emit, OutType, Silent, Raises
<1> QED BY <1>1, <1>4 DEF SlotsType

LEMMA KilledKeeps ==
  ASSUME CallInv, NEW s \in Slot, Killed(s)
  PROVE  SlotsType' /\ Calls'
<1>1. inv' \in [Slot -> InvType] /\ Calls'
  BY EndKeeps DEF Killed
<1>2. OutType'
  BY DEF Killed, OutType, Silent
<1> QED BY <1>1, <1>2 DEF SlotsType

\* The type of the clock and of what the alarms are.
AlarmType ==
  /\ now \in 0..MaxTime /\ since \in 0..now
  /\ child \in [Child -> State] /\ composite \in State /\ moved \subseteq Child
  /\ history \in Seq([at : 0..now, old : State, new : State, id : 0..MaxDrills])

LEMMA TypeParts ==
  /\ TypeOK <=> AlarmType /\ SlotsType
  /\ TypeOK' <=> AlarmType' /\ SlotsType'
  BY DEF TypeOK, AlarmType, SlotsType, OutType

\* Of those, what is said of numbers and of the children.
LEMMA AlarmParts ==
  ASSUME TypeOK
  PROVE  /\ MaxTime \in Nat /\ now \in Nat /\ now <= MaxTime
         /\ since \in Nat /\ since <= now
         /\ child \in [Child -> State] /\ composite \in State /\ moved \subseteq Child
<1>1. MaxTime \in Nat
  BY PagerAssumption
<1>2. now \in 0..MaxTime /\ since \in 0..now
      /\ child \in [Child -> State] /\ composite \in State /\ moved \subseteq Child
  BY DEF TypeOK
<1> QED BY <1>1, <1>2

\* A step that leaves the slots alone.
LEMMA SlotsKept ==
  ASSUME CallInv, UNCHANGED inv, out' = Silent
  PROVE  SlotsType' /\ Calls'
<1>1. inv \in [Slot -> InvType] /\ Calls
  BY DEF CallInv, TypeOK
<1>2. inv' \in [Slot -> InvType] /\ Calls'
  BY <1>1 DEF Calls
<1> QED BY <1>2, SilentType DEF SlotsType

\* The drills so far are counted.
LEMMA DrillsType ==
  ASSUME TypeOK
  PROVE  Drills \in Nat
<1>1. Len(history) \in Nat
  BY HistoryType DEF TypeOK
<1>2. IsFiniteSet(1..Len(history))
  BY <1>1, FS_Interval
<1>3. IsFiniteSet({h \in 1..Len(history) : history[h].new = "ALARM"})
  BY <1>2, FS_Subset
<1> QED BY <1>3, FS_CardinalityType DEF Drills

\* A child that steps.
LEMMA StepsKeep ==
  ASSUME CallInv, NEW c \in Child, NEW to \in State, Steps(c, to)
  PROVE  /\ SlotsType' /\ Calls' /\ now' = now /\ composite' = composite
         /\ child' \in [Child -> State] /\ moved' \subseteq Child /\ since' \in 0..now
<1>1. SlotsType' /\ Calls'
  BY SlotsKept DEF Steps
<1>2. /\ now' = now /\ composite' = composite
      /\ child' \in [Child -> State] /\ moved' \subseteq Child /\ since' \in 0..now
  BY AlarmParts DEF Steps, CallInv
<1> QED BY <1>1, <1>2

\* A step of the drill child, recorded.
LEMMA DrillStepKeeps ==
  ASSUME CallInv, NEW to \in State, NEW id \in 0..MaxDrills, DrillStep(to, id)
  PROVE  CallInv'
<1> DEFINE S == [at : 0..now, old : State, new : State, id : 0..MaxDrills]
           e == [at |-> now, old |-> child["drill"], new |-> to, id |-> id]
<1>1. /\ SlotsType' /\ Calls' /\ now' = now /\ composite' = composite
      /\ child' \in [Child -> State] /\ moved' \subseteq Child /\ since' \in 0..now
  BY StepsKeep DEF DrillStep, Child
<1>2. now \in 0..MaxTime /\ MaxTime \in Nat /\ child["drill"] \in State /\ composite \in State
  BY PagerAssumption DEF CallInv, TypeOK, Child
<1>3. e \in S
  BY <1>2
<1>4. history \in Seq(S) /\ history' = Append(history, e)
  BY DEF CallInv, TypeOK, DrillStep
<1> HIDE DEF S, e
<1>5. history' \in Seq(S)
  BY <1>3, <1>4
<1>6. AlarmType'
  BY <1>1, <1>2, <1>5 DEF AlarmType, S
<1> QED BY <1>1, <1>6, TypeParts DEF CallInv

\* The notification of a composite, which is what it carries.
Notice(at, named, cause) ==
  [shape |-> "alarm", mapped |-> TRUE, at |-> at, id |-> Drills, state |-> Rule,
   named |-> named, cause |-> cause]

LEMMA NoticeType ==
  ASSUME TypeOK, NEW at \in 0..now, NEW named \in SUBSET Child, NEW cause \in SUBSET Child
  PROVE  Notice(at, named, cause) \in Notification
<1>1. Drills \in Nat
  BY DrillsType
<1>2. at \in Nat
  BY AlarmParts
<1>3. Rule \in State
  BY DEF Rule, State
<1> QED BY <1>1, <1>2, <1>3 DEF Notice, Notification

LEMMA EvaluateKeeps ==
  ASSUME CallInv, Evaluate
  PROVE  CallInv'
<1> DEFINE cause == {c \in moved : child[c] = Rule}
<1>1. /\ moved' = {} /\ since' = 0 /\ composite' = Rule /\ Rule \in State
      /\ now' = now /\ child' = child /\ history' = history
  BY DEF Evaluate, Rule, State
<1>2. cause \in SUBSET Child
  BY DEF CallInv, TypeOK
<1>3. SlotsType' /\ Calls'
  <2>1. CASE Rule = composite
    BY <2>1, SlotsKept DEF Evaluate
  <2>2. CASE Rule # composite
    <3>1. PICK named \in {{}, cause}, at \in {t \in 0..now : t + Skew >= now} :
            Publish(Notice(at, named, cause))
      BY <2>2 DEF Evaluate, Notice
    <3>2. Notice(at, named, cause) \in Notification
      BY <1>2, <3>1, NoticeType DEF CallInv
    <3> QED BY <3>1, <3>2, PublishKeeps
  <2> QED BY <2>1, <2>2
<1>4. now \in 0..MaxTime /\ 0 \in 0..now
  BY AlarmParts DEF CallInv
<1>5. AlarmType'
  BY <1>1, <1>4 DEF CallInv, TypeOK, AlarmType
<1> QED BY <1>3, <1>5, TypeParts DEF CallInv

\* Time passes.
LEMMA TickKeeps ==
  ASSUME CallInv, Tick
  PROVE  CallInv'
<1> DEFINE S(n) == [at : 0..n, old : State, new : State, id : 0..MaxDrills]
<1>1. now' = now + 1 /\ now' \in 0..MaxTime /\ now \in Nat /\ UNCHANGED alarms
  BY AlarmParts DEF Tick, CallInv
<1>2. S(now) \subseteq S(now')
  BY <1>1
<1>3. history \in Seq(S(now)) /\ history' = history
  BY <1>1 DEF CallInv, TypeOK, alarms
<1> HIDE DEF S
<1>4. history' \in Seq(S(now'))
  BY <1>2, <1>3
<1>5. AlarmType'
  <2>1. since' \in 0..now'
    BY <1>1, AlarmParts DEF CallInv, alarms
  <2> QED BY <1>1, <1>4, <2>1, AlarmParts DEF CallInv, AlarmType, alarms, S
<1>6. SlotsType' /\ Calls'
  BY SlotsKept DEF Tick
<1> QED BY <1>5, <1>6, TypeParts DEF CallInv

\* The relay changes nothing but the slots and what a step leaves.
LEMMA AlarmsKept ==
  ASSUME CallInv, UNCHANGED <<now, alarms>>, SlotsType', Calls'
  PROVE  CallInv'
<1>1. AlarmType'
  BY DEF CallInv, TypeOK, AlarmType, alarms
<1> QED BY <1>1, TypeParts DEF CallInv

\* What an action of the relay's does to one message.
LEMMA RelayKeeps ==
  ASSUME CallInv, NEW s \in Slot, Handler(s) \/ Killed(s)
  PROVE  CallInv'
<1>1. CASE Invoke(s)
  BY <1>1, InvokeKeeps, AlarmsKept DEF Invoke
<1>2. CASE Send(s)
  BY <1>2, SendKeeps, AlarmsKept DEF Send, Sent
<1>3. CASE Sleep(s)
  BY <1>3, SleepKeeps, AlarmsKept DEF Sleep
<1>4. CASE Fallback(s)
  BY <1>4, FallbackKeeps, AlarmsKept DEF Fallback, Sent
<1>5. CASE Emit(s)
  BY <1>5, EmitKeeps, AlarmsKept DEF Emit
<1>6. CASE Killed(s)
  BY <1>6, KilledKeeps, AlarmsKept DEF Killed
<1> QED BY <1>1, <1>2, <1>3, <1>4, <1>5, <1>6 DEF Handler

LEMMA InitCalls == Init => CallInv
<1> SUFFICES ASSUME Init PROVE CallInv
  OBVIOUS
<1>1. inv \in [Slot -> InvType] /\ Calls
  BY FreeType DEF Init, Calls
<1>2. OutType
  BY DEF Init, OutType, Silent
<1>3. AlarmType
  <2>1. <<>> \in Seq([at : 0..now, old : State, new : State, id : 0..MaxDrills])
    OBVIOUS
  <2> QED BY <2>1, PagerAssumption DEF Init, AlarmType, Child, State
<1> QED BY <1>1, <1>2, <1>3, TypeParts DEF CallInv, SlotsType

LEMMA StepKeepsCalls == CallInv /\ [Next]_vars => CallInv'
<1> SUFFICES ASSUME CallInv, [Next]_vars PROVE CallInv'
  OBVIOUS
<1>0. MaxDrills \in Nat /\ "ALARM" \in State /\ "OK" \in State /\ "real" \in Child
  BY PagerAssumption DEF State, Child
<1>1. CASE RealAlarm \/ RealOk
  <2>1. /\ SlotsType' /\ Calls' /\ now' = now /\ composite' = composite
        /\ child' \in [Child -> State] /\ moved' \subseteq Child /\ since' \in 0..now
    BY <1>0, <1>1, StepsKeep DEF RealAlarm, RealOk
  <2>2. AlarmType'
    BY <1>1, <2>1 DEF RealAlarm, RealOk, CallInv, TypeOK, AlarmType
  <2> QED BY <2>1, <2>2, TypeParts DEF CallInv
<1>2. CASE DrillSet
  <2>1. Drills \in Nat
    BY DrillsType DEF CallInv
  <2>2. Drills + 1 \in 0..MaxDrills
    BY <1>0, <1>2, <2>1 DEF DrillSet
  <2> QED BY <1>0, <1>2, <2>2, DrillStepKeeps DEF DrillSet
<1>3. CASE DrillReturns
  BY <1>0, <1>3, DrillStepKeeps DEF DrillReturns
<1>4. CASE Evaluate
  BY <1>4, EvaluateKeeps
<1>5. CASE PublishDocument
  <2>1. PICK d \in Documents : Publish(d)
    BY <1>5 DEF PublishDocument
  <2>2. d \in Notification \cup Document
    BY PagerAssumption
  <2> QED BY <1>5, <2>1, <2>2, PublishKeeps, AlarmsKept DEF PublishDocument
<1>6. CASE Tick
  BY <1>6, TickKeeps
<1>7. CASE \E s \in Slot : Handler(s) \/ Killed(s)
  BY <1>7, RelayKeeps
<1>8. CASE UNCHANGED vars
  <2>1. SlotsType' /\ Calls'
    BY <1>8 DEF vars, CallInv, TypeOK, SlotsType, OutType, Calls
  <2> QED BY <1>8, <2>1, AlarmsKept DEF vars
<1> QED BY <1>1, <1>2, <1>3, <1>4, <1>5, <1>6, <1>7, <1>8 DEF Next

LEMMA CallsAlways == Spec => []CallInv
  BY InitCalls, StepKeepsCalls, PTL DEF Spec

\* Every variable keeps its type, with any skew, window, follow time and lag in
\* the order the code has them, any documents and any number of slots.
THEOREM TypeCorrect == Spec => []TypeOK
<1>1. CallInv => TypeOK
  BY DEF CallInv
<1> QED BY <1>1, CallsAlways, PTL

\* deliver gives its page to the channel a second time only after an answer
\* was lost.
THEOREM NotSentTwiceHolds == Spec => []NotSentTwice
<1>1. CallInv => NotSentTwice
  <2> SUFFICES ASSUME CallInv, NEW s \in Slot PROVE inv[s].taken <= 1 + inv[s].lost
    BY DEF NotSentTwice
  <2>1. inv[s] \in InvType /\ Call(inv[s])
    BY DEF CallInv, TypeOK, Calls
  <2>2. inv[s].taken \in 0..3 /\ inv[s].lost \in 0..3
    BY <2>1 DEF InvType
  <2>3. inv[s].taken = inv[s].lost \/ inv[s].taken = inv[s].lost + 1
    BY <2>1 DEF InvType, Call
  <2> QED BY <2>2, <2>3
<1> QED BY <1>1, CallsAlways, PTL

\* A step on one slot leaves the others.
LEMMA OthersKept ==
  ASSUME CallInv, NEW s \in Slot, NEW t \in Slot, s # t, NEW i, inv' = [inv EXCEPT ![t] = i]
  PROVE  inv'[s] = inv[s]
  BY DEF CallInv, TypeOK

\* An invocation ends with its record, or killed.
LEMMA Ended ==
  ASSUME CallInv, [Next]_vars, NEW s \in Slot, inv[s].pc # "free", inv'[s].pc = "free"
  PROVE  Emit(s) \/ Killed(s)
<1>1. inv[s] \in InvType /\ inv \in [Slot -> InvType]
  BY DEF CallInv, TypeOK
<1>2. ASSUME NEW m, Publish(m) PROVE FALSE
  <2>1. CASE UNCHANGED inv
    BY <2>1
  <2>2. ASSUME NEW t \in Slot, inv[t].pc = "free", inv' = [inv EXCEPT ![t] = Waiting(m)]
        PROVE  FALSE
    BY <1>1, <2>2
  <2> QED BY <1>2, <2>1, <2>2 DEF Publish
<1>3. CASE RealAlarm \/ RealOk \/ DrillSet \/ DrillReturns \/ Tick \/ UNCHANGED vars
  BY <1>3 DEF RealAlarm, RealOk, DrillSet, DrillReturns, DrillStep, Steps, Tick, vars
<1>4. CASE Evaluate
  BY <1>2, <1>4 DEF Evaluate
<1>5. CASE PublishDocument
  BY <1>2, <1>5 DEF PublishDocument
<1>6. ASSUME NEW t \in Slot, Handler(t) \/ Killed(t)
      PROVE  Emit(s) \/ Killed(s)
  <2>1. CASE Emit(t) \/ Killed(t)
    <3>1. inv' = [inv EXCEPT ![t] = Free]
      BY <2>1 DEF Emit, Killed
    <3>2. s = t
      BY <1>1, <3>1
    <3> QED BY <2>1, <3>2
  <2>2. CASE Invoke(t)
    <3>1. PICK map, read \in BOOLEAN, adapter \in {"sns_forward", "vendor"} :
            LET parsed == Parse(inv[t].message, map, read) IN
            inv' = [inv EXCEPT ![t].message = NoMessage, ![t].parsed = parsed,
                               ![t].adapter = adapter,
                               ![t].pc = IF parsed.page THEN "send" ELSE "record"]
      BY <2>2 DEF Invoke
    <3>2. inv'[s].pc \in {inv[s].pc, "send", "record"}
      BY <1>1, <3>1 DEF InvType
    <3> QED BY <3>2
  <2>3. ASSUME NEW answer, NEW n, NEW pc, pc # "free", Sent(t, answer, n, pc)
        PROVE  FALSE
    <3>1. inv'[s].pc \in {inv[s].pc, pc}
      BY <1>1, <2>3 DEF Sent, InvType
    <3> QED BY <2>3, <3>1
  <2>4. CASE Send(t)
    <3>1. \A adapter, status, n : NextSend(adapter, status, n) # "free"
      BY DEF NextSend
    <3> QED BY <2>3, <2>4, <3>1 DEF Send
  <2>5. CASE Fallback(t)
    BY <2>3, <2>5 DEF Fallback
  <2>6. CASE Sleep(t)
    BY <1>1, <2>6 DEF Sleep, InvType
  <2> QED BY <1>6, <2>1, <2>2, <2>4, <2>5, <2>6 DEF Handler
<1> QED BY <1>3, <1>4, <1>5, <1>6 DEF Next

\* What the record of an end says, by where the invocation was.
LEMMA EmitSays ==
  ASSUME CallInv, NEW s \in Slot, Emit(s)
  PROVE  /\ out'.record \in {"accepted", "fell back"} => inv[s].taken > 0
         /\ out'.record = "rejected" => out'.dead /\ inv[s].taken = inv[s].lost
         /\ out'.record \in {"dropped", "suppressed"} => inv[s].taken = 0
         /\ out'.record = "dropped" => "Dropped" \in out'.metrics
         /\ out'.record \in {"accepted", "fell back", "rejected", "dropped", "suppressed"}
<1>1. inv[s] \in InvType /\ Call(inv[s])
  BY DEF CallInv, TypeOK, Calls
<1>2. inv[s].lost \in 0..3
  BY <1>1 DEF InvType
<1>3. /\ out'.record = Outcome(s) /\ out'.dead = Raises(Outcome(s))
      /\ out'.metrics = Metrics(Outcome(s))
  BY DEF Emit, Silent
<1>4. CASE inv[s].pc = "record"
  <2>1. inv[s].taken = 0
    BY <1>1, <1>4 DEF Call
  <2>2. Outcome(s) \in {"suppressed", "dropped"}
    BY <1>4 DEF Outcome
  <2> QED BY <1>3, <2>1, <2>2 DEF Metrics
<1>5. CASE inv[s].pc \in {"accepted", "fell back"}
  <2>1. inv[s].taken = inv[s].lost + 1
    BY <1>1, <1>5 DEF Call
  <2>2. inv[s].taken > 0
    BY ONLY <1>2, <2>1
  <2>3. Outcome(s) \in {"accepted", "fell back"}
    BY <1>5 DEF Outcome
  <2> QED BY <1>3, <2>3, <2>2
<1>6. CASE inv[s].pc = "rejected"
  <2>1. inv[s].taken = inv[s].lost
    BY <1>1, <1>6 DEF Call
  <2>2. Outcome(s) = "rejected"
    BY <1>6 DEF Outcome
  <2> QED BY <1>3, <2>1, <2>2 DEF Raises
<1> QED BY <1>4, <1>5, <1>6 DEF Emit

\* handler ends with a page that was taken, a dead letter, the metric of a drop
\* or the end of a drill, whatever is published and however the sends go.
THEOREM NoSilentLossHolds == Spec => NoSilentLoss
<1> DEFINE A == \A s \in Slot : inv[s].pc # "free" /\ inv'[s].pc = "free" =>
                  \/ inv[s].taken > 0 \/ out'.dead \/ "Dropped" \in out'.metrics
                  \/ out'.record = "suppressed"
<1>1. CallInv /\ [Next]_vars => A
  <2> SUFFICES ASSUME CallInv, [Next]_vars, NEW s \in Slot,
                      inv[s].pc # "free", inv'[s].pc = "free"
               PROVE  \/ inv[s].taken > 0 \/ out'.dead \/ "Dropped" \in out'.metrics
                      \/ out'.record = "suppressed"
    OBVIOUS
  <2>1. CASE Emit(s)
    BY <2>1, EmitSays
  <2>2. CASE Killed(s)
    BY <2>2 DEF Killed, Silent
  <2> QED BY <2>1, <2>2, Ended
<1> QED BY <1>1, CallsAlways, PTL DEF Spec, NoSilentLoss

\* outcome_record says what became of its page.
THEOREM RecordIsTrueHolds == Spec => RecordIsTrue
<1> DEFINE A == \A s \in Slot : inv[s].pc # "free" /\ inv'[s].pc = "free" =>
                  /\ out'.record \in {"accepted", "fell back"} => inv[s].taken > 0
                  /\ out'.record = "rejected" => out'.dead /\ inv[s].taken = inv[s].lost
                  /\ out'.record \in {"dropped", "suppressed"} => inv[s].taken = 0
<1>1. CallInv /\ [Next]_vars => A
  <2> SUFFICES ASSUME CallInv, [Next]_vars, NEW s \in Slot,
                      inv[s].pc # "free", inv'[s].pc = "free"
               PROVE  /\ out'.record \in {"accepted", "fell back"} => inv[s].taken > 0
                      /\ out'.record = "rejected" => out'.dead /\ inv[s].taken = inv[s].lost
                      /\ out'.record \in {"dropped", "suppressed"} => inv[s].taken = 0
    OBVIOUS
  <2>1. CASE Emit(s)
    BY <2>1, EmitSays
  <2>2. CASE Killed(s)
    BY <2>2 DEF Killed, Silent
  <2> QED BY <2>1, <2>2, Ended
<1> QED BY <1>1, CallsAlways, PTL DEF Spec, RecordIsTrue

=============================================================================
