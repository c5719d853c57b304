-------------------------- MODULE PagerDrillProofs --------------------------
(***************************************************************************)
(* The theorems about drill and real at the operator pager relay (README,  *)
(* section 6).                                                             *)
(*                                                                         *)
(* History and Children say how the drill child, its history and the       *)
(* composite keep together, and Heard what a notification still says of    *)
(* the history when it is read, however long the topic kept it: the steps  *)
(* there were when it was written, and the later ones.  What Detect reads  *)
(* of the history is compared with the step the notification is of.        *)
(***************************************************************************)
EXTENDS PagerRelayProofs

\* The steps of the drill child alternate, in the order of their times, and each
\* drill has an id above those before it.
History ==
  /\ \A g, h \in 1..Len(history) : g < h =>
       /\ history[g].at <= history[h].at
       /\ history[g].new = "ALARM" /\ history[h].new = "ALARM" => history[g].id < history[h].id
  /\ \A h \in 1..Len(history) :
       /\ history[h].old # history[h].new
       /\ history[h].old = (IF h = 1 THEN "OK" ELSE history[h - 1].new)
       /\ history[h].new = "ALARM" => history[h].id > 0 /\ history[h].id <= Drills
  /\ Drills > 0 => \E h \in 1..Len(history) : history[h].new = "ALARM" /\ history[h].id = Drills

\* The drill child is where its last step left it; the composite trails its
\* children by no more than Lag, and is in ALARM if one that did not step since is.
Children ==
  /\ child["drill"] = (IF history = <<>> THEN "OK" ELSE history[Len(history)].new)
  /\ "drill" \in moved => history # <<>> /\ since <= history[Len(history)].at
  /\ moved # {} => now <= since + Lag
  /\ \A c \in Child : c \notin moved /\ child[c] = "ALARM" => composite = "ALARM"

\* Of the steps the first n were there when the notification was written.
Told(m, n) ==
  /\ m.at <= now /\ m.state \in State /\ m.mapped /\ m.named \in {{}, m.cause} /\ m.id <= Drills
  /\ \A h \in 1..n : /\ history[h].at <= m.at + Skew
                     /\ history[h].new = "ALARM" => history[h].id <= m.id
  /\ \A h \in (n + 1)..Len(history) : /\ m.at <= history[h].at
                                      /\ history[h].new = "ALARM" => history[h].id > m.id
  /\ m.id > 0 => \E h \in 1..n : history[h].new = "ALARM" /\ history[h].id = m.id
  /\ m.cause = {"real"} => n = 0 \/ history[n].new = "OK"
  /\ m.cause = {"drill"} => n > 0 /\ history[n].new = m.state /\ m.at <= history[n].at + Lag

Heard(m) == m.shape = "alarm" /\ m.cause # {} => \E n \in 0..Len(history) : Told(m, n)

DrillInv == CallInv /\ History /\ Children /\ \A s \in Slot : Heard(inv[s].message)

-----------------------------------------------------------------------------
(* The steps of the drill child.                                           *)

\* Of a step of the history: what it is made of.
LEMMA StepType ==
  ASSUME TypeOK, NEW h \in 1..Len(history)
  PROVE  /\ h \in Nat /\ Len(history) \in Nat
         /\ history[h].at \in Nat /\ history[h].at <= now
         /\ history[h].old \in State /\ history[h].new \in State /\ history[h].id \in Nat
<1>1. Len(history) \in Nat /\ history[h] \in [at : 0..now, old : State, new : State, id : 0..MaxDrills]
  BY HistoryType DEF TypeOK
<1>2. now \in Nat /\ MaxDrills \in Nat
  BY AlarmParts, PagerAssumption
<1> QED BY <1>1, <1>2

LEMMA LenType == TypeOK => Len(history) \in Nat /\ (history = <<>> <=> Len(history) = 0)
<1> SUFFICES ASSUME TypeOK PROVE Len(history) \in Nat /\ (history = <<>> <=> Len(history) = 0)
  OBVIOUS
<1> DEFINE S == [at : 0..now, old : State, new : State, id : 0..MaxDrills]
<1>1. history \in Seq(S)
  BY DEF TypeOK
<1> HIDE DEF S
<1> QED BY <1>1

\* A history with one more step.
LEMMA AppendedSteps ==
  ASSUME TypeOK, NEW e, history' = Append(history, e)
  PROVE  /\ Len(history') = Len(history) + 1 /\ history' # <<>>
         /\ \A h \in 1..Len(history) : history'[h] = history[h]
         /\ history'[Len(history) + 1] = e
<1> DEFINE S == [at : 0..now, old : State, new : State, id : 0..MaxDrills]
<1>1. history \in Seq(S)
  BY DEF TypeOK
<1> HIDE DEF S
<1> QED BY <1>1

\* The drills so far, with one more step.
LEMMA DrillsStep ==
  ASSUME TypeOK, NEW e, history' = Append(history, e)
  PROVE  Drills' = IF e.new = "ALARM" THEN Drills + 1 ELSE Drills
<1> DEFINE L == Len(history)
           D == {h \in 1..L : history[h].new = "ALARM"}
           E == {h \in 1..Len(history') : history'[h].new = "ALARM"}
<1>1. L \in Nat
  BY LenType
<1>2. IsFiniteSet(D) /\ (L + 1) \notin D
  <2>1. IsFiniteSet(1..L)
    BY <1>1, FS_Interval
  <2> QED BY <1>1, <2>1, FS_Subset
<1>3. E = IF e.new = "ALARM" THEN D \cup {L + 1} ELSE D
  BY <1>1, AppendedSteps
<1>4. Cardinality(D \cup {L + 1}) = Cardinality(D) + 1
  BY <1>2, FS_AddElement
<1> QED BY <1>3, <1>4 DEF Drills

\* A step of the drill child keeps the order of the steps.
LEMMA HistoryStep ==
  ASSUME DrillInv, NEW to \in State, NEW id,
         id = (IF to = "ALARM" THEN Drills + 1 ELSE 0), DrillStep(to, id)
  PROVE  History'
<1> DEFINE L == Len(history)
           e == [at |-> now, old |-> child["drill"], new |-> to, id |-> id]
<1>1. TypeOK /\ History /\ Children
  BY DEF DrillInv, CallInv
<1>2. L \in Nat /\ Drills \in Nat /\ (history = <<>> <=> L = 0)
  BY <1>1, LenType, DrillsType
<1>3. history' = Append(history, e) /\ child["drill"] # to
  BY DEF DrillStep, Steps
<1>4. e.at = now /\ e.old = child["drill"] /\ e.new = to /\ e.id = id
  OBVIOUS
<1> HIDE DEF e
<1>5. /\ Len(history') = L + 1
      /\ \A h \in 1..L : history'[h] = history[h]
      /\ history'[L + 1] = e
  BY <1>1, <1>3, AppendedSteps
<1>6. Drills' = (IF to = "ALARM" THEN Drills + 1 ELSE Drills)
  BY <1>1, <1>3, <1>4, DrillsStep
<1>7. \A h \in 1..L : history[h].at <= e.at
  BY <1>1, <1>4, StepType
<1>8. \A g, h \in 1..Len(history') : g < h =>
        /\ history'[g].at <= history'[h].at
        /\ history'[g].new = "ALARM" /\ history'[h].new = "ALARM" => history'[g].id < history'[h].id
  <2> TAKE g, h \in 1..Len(history')
  <2> HAVE g < h
  <2>1. CASE h <= L
    BY <1>1, <1>2, <1>5, <2>1 DEF History
  <2>2. CASE h = L + 1
    <3>1. g \in 1..L /\ history'[g] = history[g] /\ history'[h] = e
      BY <1>2, <1>5, <2>2
    <3>2. history[g].new = "ALARM" => history[g].id <= Drills
      BY <1>1, <3>1 DEF History
    <3>3. history[g].id \in Nat
      BY <1>1, <3>1, StepType
    <3>4. e.new = "ALARM" => e.id = Drills + 1
      BY <1>4
    <3> QED BY <1>2, <1>7, <3>1, <3>2, <3>3, <3>4
  <2> QED BY <1>2, <1>5, <2>1, <2>2
<1>9. \A h \in 1..Len(history') :
        /\ history'[h].old # history'[h].new
        /\ history'[h].old = (IF h = 1 THEN "OK" ELSE history'[h - 1].new)
        /\ history'[h].new = "ALARM" => history'[h].id > 0 /\ history'[h].id <= Drills'
  <2> TAKE h \in 1..Len(history')
  <2>1. CASE h <= L
    <3>1. h \in 1..L /\ history'[h] = history[h]
      BY <1>2, <1>5, <2>1
    <3>2. h # 1 => h - 1 \in 1..L /\ history'[h - 1] = history[h - 1]
      BY <1>2, <1>5, <3>1
    <3>3. history[h].id \in Nat
      BY <1>1, <3>1, StepType
    <3>4. /\ history[h].old # history[h].new
          /\ history[h].old = (IF h = 1 THEN "OK" ELSE history[h - 1].new)
          /\ history[h].new = "ALARM" => history[h].id > 0 /\ history[h].id <= Drills
      BY <1>1, <3>1 DEF History
    <3> QED BY <1>2, <1>6, <3>1, <3>2, <3>3, <3>4
  <2>2. CASE h = L + 1
    <3>1. history'[h] = e
      BY <1>5, <2>2
    <3>2. e.old = (IF h = 1 THEN "OK" ELSE history'[h - 1].new)
      <4>1. e.old = (IF L = 0 THEN "OK" ELSE history[L].new)
        BY <1>1, <1>2, <1>4 DEF Children
      <4>2. L # 0 => history'[L] = history[L]
        BY <1>2, <1>5
      <4> QED BY <1>2, <2>2, <4>1, <4>2
    <3> QED BY <1>2, <1>3, <1>4, <1>6, <3>1, <3>2
  <2> QED BY <1>2, <1>5, <2>1, <2>2
<1>10. Drills' > 0 => \E h \in 1..Len(history') : history'[h].new = "ALARM" /\ history'[h].id = Drills'
  <2>1. CASE to = "ALARM"
    <3>1. L + 1 \in 1..Len(history') /\ history'[L + 1].new = "ALARM" /\ history'[L + 1].id = Drills'
      BY <1>2, <1>4, <1>5, <1>6, <2>1
    <3> QED BY <3>1
  <2>2. CASE to # "ALARM"
    <3>1. SUFFICES ASSUME Drills > 0
                   PROVE  \E h \in 1..Len(history') : history'[h].new = "ALARM" /\ history'[h].id = Drills
      BY <1>6, <2>2
    <3>2. PICK h \in 1..L : history[h].new = "ALARM" /\ history[h].id = Drills
      BY <1>1, <3>1 DEF History
    <3> QED BY <1>2, <1>5, <3>2
  <2> QED BY <2>1, <2>2
<1> QED BY <1>8, <1>9, <1>10 DEF History

\* What a notification says of the steps it still says after one more.
LEMMA HeardStep ==
  ASSUME DrillInv, NEW to \in State, NEW id,
         id = (IF to = "ALARM" THEN Drills + 1 ELSE 0), DrillStep(to, id),
         NEW m \in Notification \cup Document, Heard(m)
  PROVE  Heard(m)'
<1>0. SUFFICES ASSUME m.shape = "alarm", m.cause # {}
               PROVE  \E n \in 0..Len(history') : Told(m, n)'
  BY DEF Heard
<1> DEFINE L == Len(history)
           e == [at |-> now, old |-> child["drill"], new |-> to, id |-> id]
<1>1. TypeOK
  BY DEF DrillInv, CallInv
<1>2. L \in Nat /\ Drills \in Nat
  BY <1>1, LenType, DrillsType
<1>3. history' = Append(history, e)
  BY DEF DrillStep
<1>4. e.at = now /\ e.new = to /\ e.id = id
  OBVIOUS
<1> HIDE DEF e
<1>5. /\ Len(history') = L + 1
      /\ \A h \in 1..L : history'[h] = history[h]
      /\ history'[L + 1] = e
  BY <1>1, <1>3, AppendedSteps
<1>6. Drills' = (IF to = "ALARM" THEN Drills + 1 ELSE Drills)
  BY <1>1, <1>3, <1>4, DrillsStep
<1>7. PICK n \in 0..L : Told(m, n)
  BY <1>0 DEF Heard
<1>8. m \in Notification
  BY <1>0 DEF Document, Notification
<1>9. m.id \in Nat /\ m.at \in Nat /\ now' = now
  BY <1>8 DEF Notification, DrillStep, Steps
<1>10. \A h \in 1..n : history'[h] = history[h]
  BY <1>2, <1>5
<1>11. \A h \in (n + 1)..Len(history') : /\ m.at <= history'[h].at
                                         /\ history'[h].new = "ALARM" => history'[h].id > m.id
  <2> TAKE h \in (n + 1)..Len(history')
  <2>1. CASE h <= L
    BY <1>2, <1>5, <1>7, <2>1 DEF Told
  <2>2. CASE h = L + 1
    <3>1. m.at <= now /\ m.id <= Drills
      BY <1>7 DEF Told
    <3>2. e.new = "ALARM" => e.id = Drills + 1
      BY <1>4
    <3> QED BY <1>2, <1>4, <1>5, <1>9, <2>2, <3>1, <3>2
  <2> QED BY <1>2, <1>5, <2>1, <2>2
<1>12. m.id <= Drills'
  BY <1>2, <1>6, <1>7, <1>9 DEF Told
<1>13. n # 0 => n \in 1..n
  OBVIOUS
<1>14. Told(m, n)'
  BY <1>7, <1>9, <1>10, <1>11, <1>12, <1>13 DEF Told
<1>15. n \in 0..Len(history')
  BY <1>2, <1>5
<1> QED BY <1>14, <1>15

\* Nor does a step without one change it.
LEMMA HeardKept ==
  ASSUME UNCHANGED history, DrillInv, now' \in Nat, now <= now', NEW m \in Notification \cup Document, Heard(m)
  PROVE  Heard(m)'
<1>0. SUFFICES ASSUME m.shape = "alarm", m.cause # {}
               PROVE  \E n \in 0..Len(history') : Told(m, n)'
  BY DEF Heard
<1>1. PICK n \in 0..Len(history) : Told(m, n)
  BY <1>0 DEF Heard
<1>2. m \in Notification
  BY <1>0 DEF Document, Notification
<1>3. now \in Nat /\ m.at \in Nat
  BY <1>2, AlarmParts DEF DrillInv, CallInv, Notification
<1>4. m.at <= now'
  BY <1>1, <1>3 DEF Told
<1>5. Drills' = Drills
  BY DEF Drills
<1>6. Told(m, n)'
  BY <1>1, <1>4, <1>5 DEF Told
<1> QED BY <1>1, <1>6

-----------------------------------------------------------------------------
(* The children, the composite and its notifications.                      *)

\* A child that steps.
LEMMA ChildSteps ==
  ASSUME DrillInv, NEW c \in Child, NEW to \in State, Steps(c, to),
         \/ c = "real" /\ UNCHANGED history
         \/ c = "drill" /\ \E id \in Nat :
              history' = Append(history, [at |-> now, old |-> child["drill"], new |-> to, id |-> id])
  PROVE  Children'
<1>1. TypeOK /\ Children
  BY DEF DrillInv, CallInv
<1>2. /\ now \in Nat /\ since \in Nat /\ since <= now /\ Lag \in Nat
      /\ child \in [Child -> State]
  BY <1>1, AlarmParts, PagerAssumption
<1>3. /\ child' = [child EXCEPT ![c] = to] /\ moved' = moved \cup {c}
      /\ since' = (IF moved = {} THEN now ELSE since)
      /\ now' = now /\ composite' = composite
  BY DEF Steps
<1>4. since' <= now
  BY <1>2, <1>3
<1>5. moved' # {} => now' <= since' + Lag
  BY <1>1, <1>2, <1>3 DEF Children
<1>6. \A d \in Child : d \notin moved' /\ child'[d] = "ALARM" => composite' = "ALARM"
  BY <1>1, <1>2, <1>3 DEF Children
<1>7. CASE c = "real" /\ UNCHANGED history
  <2>1. child'["drill"] = child["drill"]
    BY <1>2, <1>3, <1>7 DEF Child
  <2>2. "drill" \in moved' => "drill" \in moved /\ since' = since
    BY <1>3, <1>7
  <2>3. /\ child["drill"] = (IF history = <<>> THEN "OK" ELSE history[Len(history)].new)
        /\ "drill" \in moved => history # <<>> /\ since <= history[Len(history)].at
    BY <1>1 DEF Children
  <2>4. history' = history
    BY <1>7
  <2> QED BY <1>5, <1>6, <2>1, <2>2, <2>3, <2>4 DEF Children
<1>8. CASE c = "drill" /\ \E id \in Nat :
             history' = Append(history, [at |-> now, old |-> child["drill"], new |-> to, id |-> id])
  <2>1. PICK id \in Nat :
          history' = Append(history, [at |-> now, old |-> child["drill"], new |-> to, id |-> id])
    BY <1>8
  <2> DEFINE e == [at |-> now, old |-> child["drill"], new |-> to, id |-> id]
  <2>2. e.at = now /\ e.new = to
    OBVIOUS
  <2> HIDE DEF e
  <2>3. history' # <<>> /\ history'[Len(history')] = e
    BY <1>1, <2>1, AppendedSteps DEF e
  <2>4. child'["drill"] = to
    BY <1>2, <1>3, <1>8 DEF Child
  <2> QED BY <1>4, <1>5, <1>6, <2>2, <2>3, <2>4 DEF Children
<1> QED BY <1>7, <1>8

\* The composite's evaluation, which takes in every child.
LEMMA ChildrenEvaluated ==
  ASSUME DrillInv, Evaluate
  PROVE  Children'
<1>1. moved' = {} /\ composite' = Rule /\ child' = child /\ history' = history
  BY DEF Evaluate
<1>2. Children
  BY DEF DrillInv
<1>3. \A c \in Child : child[c] = "ALARM" => Rule = "ALARM"
  BY DEF Rule
<1> QED BY <1>1, <1>2, <1>3 DEF Children

\* The notification is true of the steps there are when it is written.
LEMMA NoticeHeard ==
  ASSUME DrillInv, moved # {}, Rule # composite,
         NEW named \in {{}, {c \in moved : child[c] = Rule}},
         NEW at \in {t \in 0..now : t + Skew >= now}
  PROVE  Heard(Notice(at, named, {c \in moved : child[c] = Rule}))
<1> DEFINE cause == {c \in moved : child[c] = Rule}
           m == Notice(at, named, cause)
           L == Len(history)
<1>1. TypeOK /\ History /\ Children
  BY DEF DrillInv, CallInv
<1>2. /\ now \in Nat /\ since \in Nat /\ Lag \in Nat /\ Skew \in Nat
      /\ child \in [Child -> State] /\ composite \in State /\ moved \subseteq Child
  BY <1>1, AlarmParts, PagerAssumption
<1>3. L \in Nat /\ Drills \in Nat /\ (history = <<>> <=> L = 0)
  BY <1>1, LenType, DrillsType
<1>4. /\ m.at = at /\ m.state = Rule /\ m.mapped /\ m.named = named /\ m.id = Drills
      /\ m.cause = cause
  BY DEF Notice
<1>5. Rule \in State /\ at \in Nat /\ at <= now /\ now <= at + Skew
  BY <1>2 DEF Rule, State
<1> HIDE DEF m
<1>6. \A h \in 1..L : /\ history[h].at <= m.at + Skew
                      /\ history[h].new = "ALARM" => history[h].id <= m.id
  <2> TAKE h \in 1..L
  <2>1. history[h].at \in Nat /\ history[h].at <= now
    BY <1>1, StepType
  <2>2. history[h].new = "ALARM" => history[h].id <= Drills
    BY <1>1 DEF History
  <2> QED BY <1>2, <1>4, <1>5, <2>1, <2>2
<1>7. m.id > 0 => \E h \in 1..L : history[h].new = "ALARM" /\ history[h].id = m.id
  BY <1>1, <1>4 DEF History
<1>8. child["drill"] = (IF L = 0 THEN "OK" ELSE history[L].new)
  BY <1>1, <1>3 DEF Children
<1>9. cause = {"real"} => L = 0 \/ history[L].new = "OK"
  <2>1. SUFFICES ASSUME cause = {"real"} PROVE child["drill"] = "OK"
    BY <1>8
  <2>2. "drill" \notin cause
    BY <2>1
  <2>3. CASE Rule = "OK"
    BY <1>2, <2>3 DEF Rule, Child, State
  <2>4. CASE Rule = "ALARM"
    <3>1. composite = "OK"
      BY <1>2, <2>4 DEF State
    <3>2. CASE "drill" \in moved
      BY <1>2, <2>2, <2>4, <3>2 DEF State, Child
    <3>3. CASE "drill" \notin moved
      BY <1>1, <1>2, <3>1, <3>3 DEF Children, State, Child
    <3> QED BY <3>2, <3>3
  <2> QED BY <1>5, <2>3, <2>4 DEF State
<1>10. cause = {"drill"} => L > 0 /\ history[L].new = Rule /\ at <= history[L].at + Lag
  <2>1. SUFFICES ASSUME cause = {"drill"}
                 PROVE  L > 0 /\ history[L].new = Rule /\ at <= history[L].at + Lag
    OBVIOUS
  <2>2. "drill" \in moved /\ child["drill"] = Rule
    BY <2>1
  <2>3. history # <<>> /\ since <= history[L].at /\ now <= since + Lag
    BY <1>1, <2>2 DEF Children
  <2>4. L > 0 /\ L \in 1..L
    BY <1>3, <2>3
  <2>5. history[L].at \in Nat
    BY <1>1, <2>4, StepType
  <2>6. at <= history[L].at + Lag
    BY <1>2, <1>5, <2>3, <2>5
  <2> QED BY <1>8, <2>2, <2>4, <2>6
<1>11. Told(m, L)
  <2>1. \A h \in (L + 1)..L : FALSE
    BY <1>3
  <2> QED BY <1>3, <1>4, <1>5, <1>6, <1>7, <1>9, <1>10, <2>1 DEF Told
<1>12. L \in 0..L
  BY <1>3
<1> QED BY <1>11, <1>12 DEF Heard, m

\* A message that goes to the topic, and those that stay.
LEMMA PublishHeard ==
  ASSUME DrillInv, UNCHANGED <<now, history>>, NEW m \in Notification \cup Document,
         Heard(m), Publish(m)
  PROVE  (\A s \in Slot : Heard(inv[s].message))'
<1>1. SUFFICES ASSUME NEW s \in Slot PROVE Heard(inv[s].message)'
  OBVIOUS
<1>2. inv[s] \in InvType /\ Heard(inv[s].message) /\ inv \in [Slot -> InvType]
  BY DEF DrillInv, CallInv, TypeOK
<1>3. inv[s].message \in Notification \cup Document
  BY <1>2 DEF InvType
<1>4. PICK k : k = inv'[s].message
  OBVIOUS
<1>5. k \in {inv[s].message, m}
  BY <1>2, <1>4 DEF Publish, Waiting
<1>6. now' \in Nat /\ now <= now' /\ UNCHANGED history
  BY AlarmParts DEF DrillInv, CallInv
<1>7. k \in Notification \cup Document /\ Heard(k)
  BY <1>2, <1>3, <1>5
<1>8. Heard(k)'
  BY <1>6, <1>7, HeardKept
<1> QED BY <1>4, <1>8 DEF Heard, Told

\* A step that sends nothing to the topic.
LEMMA MessagesKept ==
  ASSUME DrillInv, \A s \in Slot : inv'[s].message \in {inv[s].message, NoMessage},
         \/ UNCHANGED history /\ now' \in Nat /\ now <= now'
         \/ \E to \in State : DrillStep(to, IF to = "ALARM" THEN Drills + 1 ELSE 0)
  PROVE  (\A s \in Slot : Heard(inv[s].message))'
<1>1. SUFFICES ASSUME NEW s \in Slot PROVE Heard(inv[s].message)'
  OBVIOUS
<1>2. inv[s] \in InvType /\ Heard(inv[s].message)
  BY DEF DrillInv, CallInv, TypeOK
<1>3. PICK k : k = inv'[s].message
  OBVIOUS
<1>4. k \in {inv[s].message, NoMessage}
  BY <1>3
<1>5. k \in Notification \cup Document /\ Heard(k)
  <2>1. CASE k = inv[s].message
    BY <1>2, <2>1 DEF InvType
  <2>2. CASE k = NoMessage
    BY <2>2 DEF NoMessage, Document, Heard
  <2> QED BY <1>4, <2>1, <2>2
<1>6. Heard(k)'
  BY <1>5, HeardKept, HeardStep
<1> QED BY <1>3, <1>6 DEF Heard, Told

\* The messages of a step of the relay's, which takes one and brings none.
LEMMA MessagesTaken ==
  ASSUME CallInv, NEW s \in Slot, Handler(s) \/ Killed(s)
  PROVE  \A t \in Slot : inv'[t].message \in {inv[t].message, NoMessage}
<1> TAKE t \in Slot
<1>1. inv \in [Slot -> InvType] /\ inv[t] \in InvType
  BY DEF CallInv, TypeOK
<1>2. CASE Emit(s) \/ Killed(s)
  <2>1. inv' = [inv EXCEPT ![s] = Free]
    BY <1>2 DEF Emit, Killed
  <2> QED BY <1>1, <2>1 DEF Free, Waiting
<1>3. CASE Invoke(s)
  <2>1. PICK map, read \in BOOLEAN, adapter \in {"sns_forward", "vendor"} :
          LET parsed == Parse(inv[s].message, map, read) IN
          inv' = [inv EXCEPT ![s].message = NoMessage, ![s].parsed = parsed,
                             ![s].adapter = adapter,
                             ![s].pc = IF parsed.page THEN "send" ELSE "record"]
    BY <1>3 DEF Invoke
  <2> QED BY <1>1, <2>1 DEF InvType
<1>4. CASE Send(s) \/ Fallback(s)
  <2>1. PICK answer, n, pc : Sent(s, answer, n, pc)
    BY <1>4 DEF Send, Fallback
  <2> QED BY <1>1, <2>1 DEF Sent, InvType
<1>5. CASE Sleep(s)
  BY <1>1, <1>5 DEF Sleep, InvType
<1> QED BY <1>2, <1>3, <1>4, <1>5 DEF Handler

LEMMA AlarmsStay ==
  ASSUME DrillInv, UNCHANGED <<now, alarms>>
  PROVE  /\ History' /\ Children' /\ UNCHANGED history /\ now' \in Nat /\ now <= now'
<1>1. now \in Nat
  BY AlarmParts DEF DrillInv, CallInv
<1>2. Drills' = Drills
  BY DEF Drills, alarms
<1> QED BY <1>1, <1>2 DEF DrillInv, History, Children, alarms

LEMMA InitDrills == Init => DrillInv
<1> SUFFICES ASSUME Init PROVE DrillInv
  OBVIOUS
<1>1. Len(history) = 0 /\ history = <<>>
  BY DEF Init
<1>2. Drills = 0
  <2>1. {h \in 1..Len(history) : history[h].new = "ALARM"} = {}
    BY <1>1
  <2> QED BY <2>1, FS_EmptySet DEF Drills
<1>3. History
  BY <1>1, <1>2 DEF History
<1>4. Children
  BY <1>1 DEF Init, Children, Child
<1>5. \A s \in Slot : Heard(inv[s].message)
  BY DEF Init, Free, Waiting, NoMessage, Heard
<1> QED BY <1>3, <1>4, <1>5, InitCalls DEF DrillInv

LEMMA StepKeepsDrills == DrillInv /\ [Next]_vars => DrillInv'
<1> SUFFICES ASSUME DrillInv, [Next]_vars PROVE DrillInv'
  OBVIOUS
<1>1. CallInv /\ CallInv'
  BY StepKeepsCalls DEF DrillInv
<1>2. /\ now \in Nat /\ "ALARM" \in State /\ "OK" \in State /\ "real" \in Child /\ "drill" \in Child
      /\ Drills \in Nat
  BY <1>1, AlarmParts, DrillsType DEF State, Child, CallInv
<1>3. UNCHANGED history => History'
  BY DEF DrillInv, History, Drills
<1>4. UNCHANGED inv => \A s \in Slot : inv'[s].message \in {inv[s].message, NoMessage}
  OBVIOUS
<1>5. CASE RealAlarm \/ RealOk
  <2>1. UNCHANGED <<now, history, inv>>
    BY <1>5 DEF RealAlarm, RealOk, Steps
  <2>2. Children'
    BY <1>2, <1>5, ChildSteps DEF RealAlarm, RealOk
  <2>3. (\A s \in Slot : Heard(inv[s].message))'
    BY <1>2, <1>4, <2>1, MessagesKept
  <2> QED BY <1>1, <1>3, <2>1, <2>2, <2>3 DEF DrillInv
<1>6. ASSUME NEW to \in State, NEW id \in Nat, id = (IF to = "ALARM" THEN Drills + 1 ELSE 0),
             DrillStep(to, id)
      PROVE  DrillInv'
  <2>1. History'
    BY <1>6, HistoryStep
  <2>2. Children'
    <3>1. Steps("drill", to) /\ \E k \in Nat :
            history' = Append(history, [at |-> now, old |-> child["drill"], new |-> to, id |-> k])
      BY <1>6 DEF DrillStep
    <3> QED BY <1>2, <3>1, ChildSteps
  <2>3. UNCHANGED inv
    BY <1>6 DEF DrillStep, Steps
  <2>4. (\A s \in Slot : Heard(inv[s].message))'
    BY <1>4, <1>6, <2>3, MessagesKept
  <2> QED BY <1>1, <2>1, <2>2, <2>4 DEF DrillInv
<1>7. CASE DrillSet
  BY <1>2, <1>6, <1>7 DEF DrillSet
<1>8. CASE DrillReturns
  BY <1>2, <1>6, <1>8 DEF DrillReturns
<1>9. CASE Evaluate
  <2>1. UNCHANGED <<now, history>> /\ moved # {}
    BY <1>9 DEF Evaluate
  <2>2. Children'
    BY <1>9, ChildrenEvaluated
  <2>3. (\A s \in Slot : Heard(inv[s].message))'
    <3>1. CASE Rule = composite
      <4>1. UNCHANGED inv
        BY <1>9, <3>1 DEF Evaluate
      <4> QED BY <1>2, <1>4, <2>1, <4>1, MessagesKept
    <3>2. CASE Rule # composite
      <4> DEFINE cause == {c \in moved : child[c] = Rule}
      <4>1. PICK named \in {{}, cause}, at \in {t \in 0..now : t + Skew >= now} :
              Publish(Notice(at, named, cause))
        BY <1>9, <3>2 DEF Evaluate, Notice
      <4>2. cause \in SUBSET Child
        BY <1>1 DEF CallInv, TypeOK
      <4>3. Notice(at, named, cause) \in Notification
        BY <1>1, <4>1, <4>2, NoticeType DEF CallInv
      <4>4. Heard(Notice(at, named, cause))
        BY <2>1, <3>2, <4>1, NoticeHeard
      <4>5. PICK m : m = Notice(at, named, cause)
        OBVIOUS
      <4> QED BY <2>1, <4>1, <4>3, <4>4, <4>5, PublishHeard
    <3> QED BY <3>1, <3>2
  <2> QED BY <1>1, <1>3, <2>1, <2>2, <2>3 DEF DrillInv
<1>10. CASE PublishDocument
  <2>1. PICK d \in Documents : Publish(d)
    BY <1>10 DEF PublishDocument
  <2>2. d \in Notification \cup Document /\ (d.shape = "alarm" => d.cause = {})
    BY PagerAssumption
  <2>3. UNCHANGED <<now, alarms>> /\ UNCHANGED <<now, history>>
    BY <1>10 DEF PublishDocument, alarms
  <2>4. (\A s \in Slot : Heard(inv[s].message))'
    BY <2>1, <2>2, <2>3, PublishHeard DEF Heard
  <2> QED BY <1>1, <2>3, <2>4, AlarmsStay DEF DrillInv
<1>11. CASE Tick
  <2>1. UNCHANGED <<alarms, inv>> /\ now' = now + 1 /\ (moved = {} \/ now < since + Lag)
    BY <1>11 DEF Tick
  <2>2. UNCHANGED history /\ now' \in Nat /\ now <= now'
    BY <1>2, <2>1 DEF alarms
  <2>3. Children'
    <3>1. since \in Nat /\ Lag \in Nat
      BY <1>1, AlarmParts, PagerAssumption DEF CallInv
    <3>2. moved' # {} => now' <= since' + Lag
      BY <1>2, <2>1, <3>1 DEF alarms
    <3> QED BY <2>1, <3>2 DEF DrillInv, Children, alarms
  <2>4. (\A s \in Slot : Heard(inv[s].message))'
    BY <1>4, <2>1, <2>2, MessagesKept
  <2> QED BY <1>1, <1>3, <2>2, <2>3, <2>4 DEF DrillInv
<1>12. CASE \E s \in Slot : Handler(s) \/ Killed(s)
  <2>1. PICK s \in Slot : Handler(s) \/ Killed(s)
    BY <1>12
  <2>2. UNCHANGED <<now, alarms>>
    BY <2>1 DEF Handler, Killed, Invoke, Send, Sleep, Fallback, Emit, Sent
  <2>3. (\A t \in Slot : Heard(inv[t].message))'
    BY <1>1, <2>1, <2>2, MessagesTaken, MessagesKept, AlarmsStay
  <2> QED BY <1>1, <2>2, <2>3, AlarmsStay DEF DrillInv
<1>13. CASE UNCHANGED vars
  <2>1. UNCHANGED <<now, alarms>> /\ UNCHANGED inv
    BY <1>13 DEF vars
  <2>2. (\A t \in Slot : Heard(inv[t].message))'
    BY <1>4, <2>1, MessagesKept, AlarmsStay
  <2> QED BY <1>1, <2>1, <2>2, AlarmsStay DEF DrillInv
<1> QED BY <1>5, <1>7, <1>8, <1>9, <1>10, <1>11, <1>12, <1>13 DEF Next

LEMMA DrillsAlways == Spec => []DrillInv
  BY InitDrills, StepKeepsDrills, PTL DEF Spec

-----------------------------------------------------------------------------
(* What a notification is read as.                                         *)

\* What Detect takes from the history: the steps that were read and came by
\* the time of the notification, and the one that began the drill.
Came(at) == {h \in Items(at) : history[h].at <= at + Skew}
Begun(at, state) == IF state = "OK" THEN Came(at) \ {Newest(Came(at))} ELSE Came(at)
Found(at, state) ==
  /\ Came(at) # {} /\ Begun(at, state) # {} /\ OfADrill(Newest(Begun(at, state)))
  /\ state = "OK" => LET last == Newest(Came(at)) IN
                     /\ history[last].new = "OK" /\ history[last].old = "ALARM"
                     /\ at <= history[last].at + Follow

LEMMA FromHistory ==
  ASSUME NEW at, NEW state
  PROVE  DrillFromHistory(Items(at), at, state) =
           IF Found(at, state) THEN [drill |-> TRUE, id |-> history[Newest(Begun(at, state))].id]
           ELSE [drill |-> FALSE, id |-> 0]
  BY DEF DrillFromHistory, NotDrill, Came, Begun, Found

\* The skew is within the window that is read.
LEMMA CameRead ==
  ASSUME TypeOK, NEW at \in Nat
  PROVE  /\ Came(at) \in SUBSET (1..Len(history))
         /\ \A h \in 1..Len(history) :
              h \in Came(at) <=> at <= history[h].at + Back /\ history[h].at <= at + Skew
<1>1. \A h \in 1..Len(history) : history[h].at \in Nat
  BY StepType
<1>2. Skew \in Nat /\ Ahead \in Nat /\ Skew <= Ahead
  BY PagerAssumption
<1> QED BY <1>1, <1>2 DEF Items, Came

\* A real child's notification is read as a drill's only by a step of the drill
\* child at its own time.
LEMMA RealRead ==
  ASSUME DrillInv, NEW m \in Notification, NEW n \in 0..Len(history), Told(m, n),
         m.cause = {"real"}, NEW read \in BOOLEAN, Detect(m, read).drill
  PROVE  /\ m.named = {} /\ read
         /\ DrillStepped(m.state, IF m.state = "ALARM" THEN m.at
                                  ELSE IF m.at > Follow THEN m.at - Follow ELSE 0, m.at + Skew)
<1> DEFINE steps == Came(m.at)
           last == Newest(steps)
           begun == Begun(m.at, m.state)
<1>1. TypeOK /\ History /\ Len(history) \in Nat
  BY LenType DEF DrillInv, CallInv
<1>2. m.at \in Nat /\ Follow \in Nat /\ Skew \in Nat /\ Back \in Nat
  BY PagerAssumption DEF Notification
<1>3. m.state \in State /\ m.named \in {{}, {"real"}} /\ (n = 0 \/ history[n].new = "OK")
  BY DEF Told
<1>4. m.named = {} /\ read
  BY <1>3 DEF Detect, NotDrill
<1>5. DrillFromHistory(Items(m.at), m.at, m.state).drill
  BY <1>4 DEF Detect
<1>6. /\ steps # {} /\ begun # {} /\ OfADrill(Newest(begun))
      /\ begun = IF m.state = "OK" THEN steps \ {last} ELSE steps
      /\ m.state = "OK" => /\ history[last].new = "OK" /\ history[last].old = "ALARM"
                           /\ m.at <= history[last].at + Follow
  <2>1. Found(m.at, m.state)
    BY <1>5, FromHistory
  <2> QED BY <2>1 DEF Found, Begun
<1>7. /\ steps \in SUBSET (1..Len(history))
      /\ \A h \in 1..Len(history) :
           h \in steps <=> m.at <= history[h].at + Back /\ history[h].at <= m.at + Skew
  BY <1>1, <1>2, CameRead
<1> HIDE DEF steps, begun
<1>8. last \in steps /\ \A h \in steps : h <= last
  BY <1>1, <1>6, <1>7, NewestStep
<1>9. last \in 1..Len(history) /\ history[last].at \in Nat /\ history[last].at <= m.at + Skew
      /\ m.at <= history[last].at + Back
  BY <1>1, <1>7, <1>8, StepType
<1>10. CASE m.state = "ALARM"
  <2>1. history[last].new = "ALARM"
    BY <1>6, <1>10 DEF OfADrill
  <2>2. n < last
    <3>1. SUFFICES ASSUME last <= n PROVE FALSE
      BY <1>1, <1>9
    <3>2. n \in 1..Len(history) /\ last < n
      BY <1>1, <1>3, <1>9, <2>1, <3>1
    <3>3. history[last].at <= history[n].at /\ history[n].at \in Nat
      BY <1>1, <1>9, <3>2, StepType DEF History
    <3>4. history[n].at <= m.at + Skew
      BY <3>2 DEF Told
    <3>5. m.at <= history[n].at + Back
      BY ONLY <1>2, <1>9, <3>3
    <3>6. n \in steps
      BY ONLY <1>7, <3>2, <3>4, <3>5
    <3> QED BY <1>8, <1>9, <3>2, <3>6
  <2>3. m.at <= history[last].at
    BY <1>9, <2>2 DEF Told
  <2> QED BY <1>4, <1>9, <1>10, <2>1, <2>3 DEF DrillStepped
<1>11. CASE m.state = "OK"
  <2>1. history[last].new = "OK" /\ m.at <= history[last].at + Follow
    BY <1>6, <1>11
  <2>2. (IF m.at > Follow THEN m.at - Follow ELSE 0) <= history[last].at
    BY <1>2, <1>9, <2>1
  <2> QED BY <1>4, <1>9, <1>11, <2>1, <2>2 DEF DrillStepped
<1> QED BY <1>3, <1>10, <1>11 DEF State

\* The drill child's own notification is read as real only unread, or by a step
\* after its own within the skew, or for want of the step that began the drill.
LEMMA DrillRead ==
  ASSUME DrillInv, NEW m \in Notification, NEW n \in 0..Len(history), Told(m, n),
         m.cause = {"drill"}, NEW read \in BOOLEAN, ~Detect(m, read).drill
  PROVE  /\ m.named = {}
         /\ \/ ~read
            \/ DrillStepped(IF m.state = "OK" THEN "ALARM" ELSE "OK", m.at, m.at + Skew)
            \/ /\ m.state = "OK"
               /\ ~DrillStepped("ALARM", IF m.at > Back THEN m.at - Back ELSE 0, m.at + Skew)
<1> DEFINE steps == Came(m.at)
           last == Newest(steps)
           begun == Begun(m.at, m.state)
<1>1. TypeOK /\ History /\ Len(history) \in Nat
  BY LenType DEF DrillInv, CallInv
<1>2. m.at \in Nat /\ Follow \in Nat /\ Skew \in Nat /\ Back \in Nat /\ Lag \in Nat
      /\ Lag <= Follow /\ Follow <= Back
  BY PagerAssumption DEF Notification
<1>3. /\ m.state \in State /\ m.named \in {{}, {"drill"}}
      /\ n > 0 /\ history[n].new = m.state /\ m.at <= history[n].at + Lag
  BY DEF Told
<1>4. m.named = {}
  BY <1>3 DEF Detect
<1>5. SUFFICES ASSUME read
               PROVE  \/ DrillStepped(IF m.state = "OK" THEN "ALARM" ELSE "OK", m.at, m.at + Skew)
                      \/ /\ m.state = "OK"
                         /\ ~DrillStepped("ALARM", IF m.at > Back THEN m.at - Back ELSE 0, m.at + Skew)
  BY <1>4
<1>6. /\ begun = IF m.state = "OK" THEN steps \ {last} ELSE steps
      /\ ~(/\ steps # {} /\ begun # {} /\ OfADrill(Newest(begun))
           /\ m.state = "OK" => /\ history[last].new = "OK" /\ history[last].old = "ALARM"
                                /\ m.at <= history[last].at + Follow)
  <2>1. ~DrillFromHistory(Items(m.at), m.at, m.state).drill
    BY <1>4, <1>5 DEF Detect
  <2>2. ~Found(m.at, m.state)
    BY <2>1, FromHistory
  <2> QED BY <2>2 DEF Found, Begun
<1>7. /\ steps \in SUBSET (1..Len(history))
      /\ \A h \in 1..Len(history) :
           h \in steps <=> m.at <= history[h].at + Back /\ history[h].at <= m.at + Skew
  BY <1>1, <1>2, CameRead
<1> HIDE DEF steps, begun
<1>8. n \in 1..Len(history) /\ history[n].at \in Nat /\ history[n].at <= m.at + Skew
  BY <1>1, <1>3, StepType DEF Told
<1>9. n \in steps
  BY <1>2, <1>3, <1>7, <1>8
<1>10. last \in steps /\ \A h \in steps : h <= last
  BY <1>1, <1>7, <1>9, NewestStep
<1>11. last \in 1..Len(history) /\ n <= last /\ history[last].at \in Nat
       /\ history[last].at <= m.at + Skew /\ history[last].new \in State
  BY <1>1, <1>7, <1>9, <1>10, StepType
<1>12. CASE m.state = "ALARM"
  <2>1. begun = steps /\ ~OfADrill(last)
    BY <1>6, <1>9, <1>12
  <2>2. history[last].new # "ALARM"
    BY <1>1, <1>11, <2>1 DEF OfADrill, History
  <2>3. n < last
    BY <1>3, <1>8, <1>11, <1>12, <2>2
  <2>4. m.at <= history[last].at
    BY <1>11, <2>3 DEF Told
  <2> QED BY <1>11, <1>12, <2>2, <2>4 DEF DrillStepped, State
<1>13. CASE m.state = "OK" /\ n < last
  <2>1. n + 1 \in 1..Len(history) /\ n + 1 \in (n + 1)..Len(history)
    BY <1>1, <1>8, <1>11, <1>13
  <2>2. history[n + 1].old = history[n].new /\ history[n + 1].old # history[n + 1].new
        /\ history[n + 1].new \in State
    <3>1. n + 1 # 1 /\ (n + 1) - 1 = n
      BY <1>8
    <3> QED BY <1>1, <2>1, <3>1, StepType DEF History
  <2>3. history[n + 1].new = "ALARM"
    BY <1>3, <1>13, <2>2 DEF State
  <2>4. m.at <= history[n + 1].at
    BY <2>1 DEF Told
  <2>5. history[n + 1].at <= history[last].at /\ history[n + 1].at \in Nat
    <3>1. CASE n + 1 = last
      BY <1>1, <2>1, <3>1, StepType
    <3>2. CASE n + 1 < last
      BY <1>1, <1>11, <2>1, <3>2, StepType DEF History
    <3> QED BY <1>8, <1>11, <1>13, <3>1, <3>2
  <2>6. history[n + 1].at <= m.at + Skew
    BY <1>2, <1>11, <2>5
  <2> QED BY <1>13, <2>1, <2>3, <2>4, <2>6 DEF DrillStepped
<1>14. CASE m.state = "OK" /\ n = last
  <2>1. history[n].old = "ALARM" /\ n # 1 /\ history[n - 1].new = "ALARM" /\ n - 1 \in 1..Len(history)
    BY <1>1, <1>3, <1>8, <1>14, StepType DEF History, State
  <2>2. m.at <= history[last].at + Follow /\ history[last].new = "OK" /\ history[last].old = "ALARM"
    BY <1>2, <1>3, <1>8, <1>14, <2>1
  <2>3. begun = steps \ {n} /\ begun \in SUBSET (1..Len(history))
    BY <1>6, <1>7, <1>14
  <2>4. CASE begun = {}
    <3>1. ASSUME DrillStepped("ALARM", IF m.at > Back THEN m.at - Back ELSE 0, m.at + Skew)
          PROVE  FALSE
      <4>1. PICK h \in 1..Len(history) :
              /\ history[h].new = "ALARM" /\ history[h].at <= m.at + Skew
              /\ (IF m.at > Back THEN m.at - Back ELSE 0) <= history[h].at
        BY <3>1 DEF DrillStepped
      <4>2. history[h].at \in Nat
        BY <1>1, StepType
      <4>3. h \in steps
        BY <1>2, <4>1, <1>7, <4>2
      <4>4. h # n
        BY <1>3, <1>14, <4>1
      <4> QED BY <2>3, <2>4, <4>3, <4>4
    <3> QED BY <1>14, <3>1
  <2>5. CASE begun # {}
    <3> DEFINE b == Newest(begun)
    <3>1. b \in begun /\ \A h \in begun : h <= b
      BY <1>1, <2>3, <2>5, NewestStep
    <3> HIDE DEF b
    <3>2. /\ b \in 1..Len(history) /\ b < n
          /\ m.at <= history[b].at + Back /\ history[b].at \in Nat
      <4>1. b \in steps /\ b # n /\ b \in 1..Len(history)
        BY <2>3, <3>1
      <4>2. b <= n
        BY <1>10, <1>14, <4>1
      <4>3. history[b].at \in Nat
        BY <1>1, <4>1, StepType
      <4> QED BY <1>7, <1>8, <4>1, <4>2, <4>3
    <3>3. history[b].at <= history[n - 1].at /\ history[n - 1].at <= history[n].at
          /\ history[n - 1].at \in Nat
      <4>1. history[n - 1].at \in Nat /\ n - 1 < n
        BY <1>1, <1>8, <2>1, StepType
      <4>2. history[n - 1].at <= history[n].at
        BY <1>1, <1>8, <2>1, <4>1 DEF History
      <4>3. CASE b = n - 1
        BY <4>1, <4>2, <4>3
      <4>4. CASE b < n - 1
        BY <1>1, <2>1, <3>2, <4>1, <4>2, <4>4 DEF History
      <4> QED BY <1>8, <3>2, <4>3, <4>4
    <3>4. n - 1 \in begun
      <4>1. history[n - 1].at <= m.at + Skew
        BY <1>2, <1>8, <3>3
      <4>2. m.at <= history[n - 1].at + Back
        BY ONLY <1>2, <3>2, <3>3
      <4>3. n - 1 \in steps
        BY ONLY <1>7, <2>1, <4>1, <4>2
      <4> QED BY <1>8, <2>3, <4>3
    <3>5. b = n - 1
      BY <1>8, <3>1, <3>2, <3>4
    <3>6. OfADrill(b)
      BY <1>1, <2>1, <3>5 DEF OfADrill, History
    <3> QED BY <1>6, <1>9, <2>2, <2>5, <3>6 DEF b
  <2> QED BY <2>4, <2>5
<1> QED BY <1>3, <1>8, <1>11, <1>12, <1>13, <1>14 DEF State

\* The id that is read is that of the newest drill in the window: no drill that
\* the notification is told of comes after it.
LEMMA IdStep ==
  ASSUME DrillInv, NEW m \in Notification, NEW n \in 0..Len(history), Told(m, n),
         NEW read \in BOOLEAN, Detect(m, read).id # 0
  PROVE  \E k \in 1..Len(history) :
           /\ OfADrill(k) /\ history[k].id = Detect(m, read).id /\ history[k].at <= m.at + Ahead
           /\ \A g \in 1..n : history[g].new = "ALARM" /\ k < g => FALSE
<1>1. TypeOK /\ History /\ Len(history) \in Nat
  BY LenType DEF DrillInv, CallInv
<1>2. m.at \in Nat /\ Skew \in Nat /\ Back \in Nat /\ Ahead \in Nat /\ Skew <= Ahead
  BY PagerAssumption DEF Notification
<1>3. ASSUME NEW k \in 1..Len(history), NEW g \in 1..n, k < g, m.at <= history[k].at + Back
      PROVE  /\ g \in 1..Len(history)
             /\ m.at <= history[g].at + Back /\ history[g].at <= m.at + Skew
  <2>1. g \in 1..Len(history)
    BY <1>1
  <2>2. history[k].at <= history[g].at /\ history[k].at \in Nat /\ history[g].at \in Nat
    BY <1>1, <1>3, <2>1, StepType DEF History
  <2>3. m.at <= history[g].at + Back
    BY ONLY <1>2, <1>3, <2>2
  <2> QED BY <2>1, <2>3 DEF Told
<1>4. CASE m.named # {}
  <2> DEFINE set == {h \in Items(m.at) : OfADrill(h)}
             k == Newest(set)
  <2>1. DrillIdFromHistory(Items(m.at)) # 0 /\ Detect(m, read).id = DrillIdFromHistory(Items(m.at))
    BY <1>4 DEF Detect
  <2>2. set # {} /\ history[k].id = Detect(m, read).id
    BY <2>1 DEF DrillIdFromHistory
  <2>3. set \in SUBSET (1..Len(history))
    BY DEF Items
  <2>4. k \in set /\ \A h \in set : h <= k
    BY <1>1, <2>2, <2>3, NewestStep
  <2>5. k \in 1..Len(history) /\ m.at <= history[k].at + Back /\ history[k].at <= m.at + Ahead
        /\ OfADrill(k)
    BY <2>4 DEF Items
  <2>6. ASSUME NEW g \in 1..n, history[g].new = "ALARM", k < g
        PROVE  FALSE
    <3>1. /\ g \in 1..Len(history)
          /\ m.at <= history[g].at + Back /\ history[g].at <= m.at + Skew
      BY <1>3, <2>5, <2>6
    <3>2. OfADrill(g)
      BY <1>1, <2>6, <3>1 DEF OfADrill, History
    <3>3. history[g].at <= m.at + Ahead
      <4>1. history[g].at \in Nat
        BY <1>1, <3>1, StepType
      <4> QED BY ONLY <1>2, <3>1, <4>1
    <3>4. g \in set
      BY <3>1, <3>2, <3>3 DEF Items
    <3>5. g <= k
      BY <2>4, <3>4
    <3> QED BY <2>5, <2>6, <3>5
  <2> QED BY <2>2, <2>5, <2>6
<1>5. CASE m.named = {}
  <2> DEFINE steps == Came(m.at)
             begun == Begun(m.at, m.state)
             k == Newest(begun)
  <2>1. DrillFromHistory(Items(m.at), m.at, m.state).id # 0
        /\ Detect(m, read).id = DrillFromHistory(Items(m.at), m.at, m.state).id
    BY <1>5 DEF Detect, NotDrill
  <2>2. Found(m.at, m.state) /\ history[k].id = Detect(m, read).id
    BY <2>1, FromHistory
  <2>3. /\ begun # {} /\ OfADrill(k)
        /\ begun = IF m.state = "OK" THEN steps \ {Newest(steps)} ELSE steps
        /\ m.state = "OK" => history[Newest(steps)].new = "OK"
    BY <2>2 DEF Found, Begun
  <2>4. /\ steps \in SUBSET (1..Len(history))
        /\ \A h \in 1..Len(history) :
             h \in steps <=> m.at <= history[h].at + Back /\ history[h].at <= m.at + Skew
    BY <1>1, <1>2, CameRead
  <2> HIDE DEF steps, begun
  <2>5. begun \in SUBSET (1..Len(history))
    BY <2>3, <2>4
  <2>6. k \in begun /\ \A h \in begun : h <= k
    BY <1>1, <2>3, <2>5, NewestStep
  <2> HIDE DEF k
  <2>7. k \in 1..Len(history) /\ m.at <= history[k].at + Back /\ history[k].at <= m.at + Skew
    BY <2>3, <2>4, <2>6
  <2>8. history[k].at <= m.at + Ahead
    <3>1. history[k].at \in Nat
      BY <1>1, <2>7, StepType
    <3> QED BY ONLY <1>2, <2>7, <3>1
  <2>9. ASSUME NEW g \in 1..n, history[g].new = "ALARM", k < g
        PROVE  FALSE
    <3>1. /\ g \in 1..Len(history)
          /\ m.at <= history[g].at + Back /\ history[g].at <= m.at + Skew
      BY <1>3, <2>7, <2>9
    <3>2. g \in steps
      BY <2>4, <3>1
    <3>3. m.state = "OK" => g # Newest(steps)
      BY <2>3, <2>9
    <3>4. g \in begun
      BY <2>3, <3>2, <3>3
    <3>5. g <= k
      BY <2>6, <3>4
    <3> QED BY <2>7, <2>9, <3>5
  <2> QED BY <2>2, <2>3, <2>7, <2>8, <2>9 DEF k
<1> QED BY <1>4, <1>5

\* An id that is read and is not of the last drill by then is of a later one.
LEMMA IdRead ==
  ASSUME DrillInv, NEW m \in Notification, NEW n \in 0..Len(history), Told(m, n),
         NEW read \in BOOLEAN, Detect(m, read).id \notin {0, m.id}
  PROVE  \E h \in 1..Len(history) : history[h].id > m.id /\ history[h].at <= m.at + Ahead
<1>1. TypeOK /\ History /\ Len(history) \in Nat /\ m.id \in Nat
  BY LenType DEF DrillInv, CallInv, Notification
<1>2. PICK k \in 1..Len(history) :
        /\ OfADrill(k) /\ history[k].id = Detect(m, read).id /\ history[k].at <= m.at + Ahead
        /\ \A g \in 1..n : history[g].new = "ALARM" /\ k < g => FALSE
  BY IdStep
<1>3. history[k].new = "ALARM" /\ history[k].id # m.id /\ history[k].id \in Nat
  BY <1>1, <1>2, StepType DEF OfADrill
<1>4. CASE n < k
  <2>1. k \in (n + 1)..Len(history)
    BY <1>1, <1>2, <1>4
  <2> QED BY <1>2, <1>3, <2>1 DEF Told
<1>5. CASE k <= n
  <2>1. k \in 1..n
    BY <1>1, <1>2, <1>5
  <2>2. history[k].id <= m.id
    BY <1>3, <2>1 DEF Told
  <2>3. m.id > 0
    BY <1>1, <1>3, <2>2
  <2>4. PICK g \in 1..n : history[g].new = "ALARM" /\ history[g].id = m.id
    BY <2>3 DEF Told
  <2>5. g <= k /\ g # k
    BY <1>2, <1>3, <2>1, <2>4
  <2>6. history[g].id < history[k].id
    <3>1. g \in 1..Len(history) /\ g < k
      BY <1>1, <2>1, <2>4, <2>5
    <3> QED BY <1>1, <1>3, <2>4, <3>1 DEF History
  <2> QED BY <1>1, <1>3, <2>2, <2>4, <2>6
<1> QED BY <1>1, <1>2, <1>4, <1>5

-----------------------------------------------------------------------------
(* What a step that parses a notification makes of it.                     *)

\* Only Invoke parses.
LEMMA Parsing ==
  ASSUME CallInv, [Next]_vars, NEW s \in Slot, NEW cause, Parses(s, cause)
  PROVE  Invoke(s)
<1>1. inv[s] \in InvType /\ inv \in [Slot -> InvType] /\ inv[s].pc = "topic"
      /\ inv'[s].pc \in {"send", "record"}
  BY DEF CallInv, TypeOK, Parses
<1>2. ASSUME NEW m, Publish(m) PROVE FALSE
  <2>1. CASE UNCHANGED inv
    BY <1>1, <2>1
  <2>2. ASSUME NEW t \in Slot, inv[t].pc = "free", inv' = [inv EXCEPT ![t] = Waiting(m)]
        PROVE  FALSE
    BY <1>1, <2>2
  <2> QED BY <1>2, <2>1, <2>2 DEF Publish
<1>3. CASE RealAlarm \/ RealOk \/ DrillSet \/ DrillReturns \/ Tick \/ UNCHANGED vars
  BY <1>1, <1>3 DEF RealAlarm, RealOk, DrillSet, DrillReturns, DrillStep, Steps, Tick, vars
<1>4. CASE Evaluate
  BY <1>1, <1>2, <1>4 DEF Evaluate
<1>5. CASE PublishDocument
  BY <1>2, <1>5 DEF PublishDocument
<1>6. ASSUME NEW t \in Slot, Handler(t) \/ Killed(t)
      PROVE  Invoke(s)
  <2>1. CASE s = t
    <3>1. ~(Emit(t) \/ Killed(t))
      <4>1. SUFFICES ASSUME inv' = [inv EXCEPT ![t] = Free] PROVE FALSE
        BY DEF Emit, Killed
      <4> QED BY <1>1, <2>1, <4>1 DEF Free, Waiting
    <3> QED BY <1>1, <1>6, <2>1, <3>1 DEF Handler, Send, Sleep, Fallback
  <2>2. CASE s # t
    <3>1. inv'[s] = inv[s]
      <4>1. CASE Invoke(t)
        BY <1>1, <2>2, <4>1 DEF Invoke
      <4>2. CASE Send(t) \/ Fallback(t)
        BY <1>1, <2>2, <4>2 DEF Send, Fallback, Sent
      <4>3. CASE Sleep(t) \/ Emit(t) \/ Killed(t)
        BY <1>1, <2>2, <4>3 DEF Sleep, Emit, Killed
      <4> QED BY <1>6, <4>1, <4>2, <4>3 DEF Handler
    <3> QED BY <1>1, <3>1
  <2> QED BY <2>1, <2>2
<1> QED BY <1>3, <1>4, <1>5, <1>6 DEF Next

\* What it makes of a composite's notification it has a map for.
LEMMA ParsedAs ==
  ASSUME DrillInv, [Next]_vars, NEW s \in Slot, NEW cause, cause # {}, Parses(s, cause)
  PROVE  LET m == inv[s].message IN
         /\ m \in Notification /\ m.cause = cause /\ \E n \in 0..Len(history) : Told(m, n)
         /\ out'.read \in BOOLEAN
         /\ Hidden(inv'[s].parsed) <=> Detect(m, out'.read).drill
         /\ inv'[s].parsed.id \in {0, Detect(m, out'.read).id}
<1> DEFINE m == inv[s].message
<1>1. CallInv /\ TypeOK /\ inv \in [Slot -> InvType] /\ inv[s] \in InvType /\ Heard(m)
  BY DEF DrillInv, CallInv, TypeOK
<1>2. /\ m.shape = "alarm" /\ m.cause = cause /\ inv'[s].parsed.kind # "unmapped_alarm"
  BY DEF Parses
<1>3. m \in Notification
  <2>1. m \in Notification \cup Document
    BY <1>1 DEF InvType
  <2> QED BY <1>2, <2>1 DEF Document
<1>4. PICK n \in 0..Len(history) : Told(m, n)
  BY <1>1, <1>2 DEF Heard
<1>5. m.mapped /\ m.state \in State
  BY <1>4 DEF Told
<1>6. PICK map, read \in BOOLEAN, adapter \in {"sns_forward", "vendor"} :
        LET parsed == Parse(m, map, read) IN
        /\ inv' = [inv EXCEPT ![s].message = NoMessage, ![s].parsed = parsed,
                              ![s].adapter = adapter,
                              ![s].pc = IF parsed.page THEN "send" ELSE "record"]
        /\ out' = [Silent EXCEPT !.read = read]
  BY <1>1, Parsing DEF Invoke
<1> HIDE DEF m
<1>7. inv'[s].parsed = Parse(m, map, read) /\ out'.read = read
  BY <1>1, <1>6 DEF InvType, Silent
<1>8. Parse(m, map, read) = ParseAlarm(m, map, read)
  BY <1>2 DEF Parse, Rendered
<1> DEFINE is == Detect(m, read)
<1>9. is \in [drill : BOOLEAN, id : 0..MaxDrills]
  BY <1>1, <1>3, DetectType
<1> HIDE DEF is
<1>10. map
  BY <1>2, <1>7, <1>8 DEF ParseAlarm, Drop
<1>11. inv'[s].parsed = IF is.drill /\ m.state = "OK" THEN Drop("drill_returned_to_ok")
                        ELSE Page(IF is.drill THEN "drill" ELSE IF m.state = "ALARM" THEN "page" ELSE "resolved",
                                  is.drill, is.id)
  BY <1>5, <1>7, <1>8, <1>10 DEF ParseAlarm, is
<1>12. CASE is.drill /\ m.state = "OK"
  BY <1>2, <1>3, <1>4, <1>7, <1>11, <1>12 DEF Drop, Hidden, m, is
<1>13. CASE ~(is.drill /\ m.state = "OK")
  <2>1. inv'[s].parsed.id = is.id /\ inv'[s].parsed.drill = is.drill
        /\ inv'[s].parsed.kind # "drill_returned_to_ok"
    BY <1>11, <1>13 DEF Page
  <2>2. Hidden(inv'[s].parsed) <=> is.drill
    BY <2>1 DEF Hidden
  <2> QED BY <1>2, <1>3, <1>4, <1>7, <2>1, <2>2 DEF m, is
<1> QED BY <1>12, <1>13

\* parse_alarm never takes a real child's alarm for a drill, nor its recovery for
\* the end of one, whatever drills went before and however late it is read, but
\* for what RealIsNotHidden names.
THEOREM RealIsNotHiddenHolds == Spec => RealIsNotHidden
<1> DEFINE A == \A s \in Slot : LET m == inv[s].message IN
                  Parses(s, {"real"}) /\ Hidden(inv'[s].parsed) =>
                    /\ m.named = {} /\ out'.read
                    /\ DrillStepped(m.state, IF m.state = "ALARM" THEN m.at
                                             ELSE IF m.at > Follow THEN m.at - Follow ELSE 0, m.at + Skew)
<1>1. DrillInv /\ [Next]_vars => A
  <2> SUFFICES ASSUME DrillInv, [Next]_vars, NEW s \in Slot, Parses(s, {"real"}), Hidden(inv'[s].parsed)
               PROVE  LET m == inv[s].message IN
                      /\ m.named = {} /\ out'.read
                      /\ DrillStepped(m.state, IF m.state = "ALARM" THEN m.at
                                               ELSE IF m.at > Follow THEN m.at - Follow ELSE 0, m.at + Skew)
    OBVIOUS
  <2> QED BY ParsedAs, RealRead
<1> QED BY <1>1, DrillsAlways, PTL DEF Spec, RealIsNotHidden

\* parse_alarm never pages a drill as real, nor its end as a recovery, but for
\* what DrillIsNotReal names.
THEOREM DrillIsNotRealHolds == Spec => DrillIsNotReal
<1> DEFINE A == \A s \in Slot : LET m == inv[s].message IN
                  Parses(s, {"drill"}) /\ ~Hidden(inv'[s].parsed) =>
                    /\ m.named = {}
                    /\ \/ ~out'.read
                       \/ DrillStepped(IF m.state = "OK" THEN "ALARM" ELSE "OK", m.at, m.at + Skew)
                       \/ /\ m.state = "OK"
                          /\ ~DrillStepped("ALARM", IF m.at > Back THEN m.at - Back ELSE 0, m.at + Skew)
<1>1. DrillInv /\ [Next]_vars => A
  <2> SUFFICES ASSUME DrillInv, [Next]_vars, NEW s \in Slot, Parses(s, {"drill"}), ~Hidden(inv'[s].parsed)
               PROVE  LET m == inv[s].message IN
                      /\ m.named = {}
                      /\ \/ ~out'.read
                         \/ DrillStepped(IF m.state = "OK" THEN "ALARM" ELSE "OK", m.at, m.at + Skew)
                         \/ /\ m.state = "OK"
                            /\ ~DrillStepped("ALARM", IF m.at > Back THEN m.at - Back ELSE 0, m.at + Skew)
    OBVIOUS
  <2> QED BY ParsedAs, DrillRead
<1> QED BY <1>1, DrillsAlways, PTL DEF Spec, DrillIsNotReal

\* The id on a drill's page is that of the drill it is of, unless a later one was
\* set in the window of the history that drill_id_from_history reads.
THEOREM DrillIdIsItsOwnHolds == Spec => DrillIdIsItsOwn
<1> DEFINE A == \A s \in Slot : LET m == inv[s].message IN
                  Parses(s, {"drill"}) /\ inv'[s].parsed.id \notin {0, m.id} =>
                    \E h \in 1..Len(history) : history[h].id > m.id /\ history[h].at <= m.at + Ahead
<1>1. DrillInv /\ [Next]_vars => A
  <2> SUFFICES ASSUME DrillInv, [Next]_vars, NEW s \in Slot, Parses(s, {"drill"}),
                      inv'[s].parsed.id \notin {0, inv[s].message.id}
               PROVE  \E h \in 1..Len(history) :
                        history[h].id > inv[s].message.id /\ history[h].at <= inv[s].message.at + Ahead
    OBVIOUS
  <2> QED BY ParsedAs, IdRead
<1> QED BY <1>1, DrillsAlways, PTL DEF Spec, DrillIdIsItsOwn
=============================================================================
