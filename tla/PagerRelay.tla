----------------------------- MODULE PagerRelay -----------------------------
(***************************************************************************)
(* The operator pager relay                                                *)
(* (aws/lambdas/operator_pager_relay/handler.py) between the alarms and    *)
(* publishers that write its topic and the channel that reaches the        *)
(* operator.                                                               *)
(*                                                                         *)
(* A pager alarm is a composite, ALARM when a real child or its drill      *)
(* child is; only the composite notifies, and only when its own state      *)
(* changes.  The relay tells a drill from a real alarm by the child the    *)
(* notification names or, when it names none, by the drill child's         *)
(* history.  A page is sent once, once more when the answer was neither    *)
(* 2xx nor 4xx, and then to the email topic when the adapter is not the    *)
(* email topic itself.  An invocation that fails leaves its message in the *)
(* dead-letter queue.                                                      *)
(*                                                                         *)
(* SNS delivers a message at least once, at any time and in any order, one *)
(* record per invocation.  Invocations share nothing (the handler builds   *)
(* its clients on every call), so the model follows the messages in Slot   *)
(* and lets any other be handled unseen; a second delivery of a message is *)
(* such another one, which may be the one followed.                        *)
(***************************************************************************)
EXTENDS Naturals, Sequences, FiniteSets

CONSTANTS
  Documents,    \* what else may be published on the topic
  Slot,         \* the messages followed at one time
  Follow,       \* DRILL_OK_FOLLOW_SECS
  Skew,         \* HISTORY_SKEW_SECS, the skew the clocks do have
  Back, Ahead,  \* the window of the history read: 10 minutes, 1 minute
  Lag,          \* how far a composite may trail its children
  MaxTime,      \* bound: the clock
  MaxDrills     \* bound: drills

Child == {"real", "drill"}
State == {"ALARM", "OK"}
Kind  == {"page", "update", "resolved", "drill", "drill_summary"}
Text  == {"informs", "asks", "insists"}  \* "insists": asks even withheld

\* A composite's notification: the children it names, and (history) those that
\* moved it and the last drill by then.
Notification == [shape : {"alarm"}, mapped : BOOLEAN, at : Nat, id : Nat,
                 state : State \cup {"INSUFFICIENT_DATA"},
                 named : SUBSET Child, cause : SUBSET Child]
Document == [shape : {"page_v1"}, kind : Kind \cup {"other"}, listed : BOOLEAN,
             source : {"aws", "qontinui.drill"}, text : Text]
            \cup [shape : {"junk"}]

ASSUME PagerAssumption ==
  /\ {Follow, Skew, Back, Ahead, Lag, MaxTime, MaxDrills} \subseteq Nat
  /\ Lag <= Follow /\ Follow <= Back /\ Skew <= Ahead
  /\ Documents \subseteq Notification \cup Document
  /\ \A d \in Documents : d.shape = "alarm" => d.cause = {}  \* not a composite's

VARIABLES
  now,        \* the clock
  child,      \* the state of the real and of the drill child
  history,    \* the drill child's state history
  moved,      \* children that stepped since the composite was evaluated
  since,      \* when the first of them did
  composite,  \* the state of the composite
  inv,        \* the message in each slot and its invocation
  out         \* what the last step left: whether it read the history, the
              \* outcome record it wrote, whether it left a dead letter

alarms == <<child, history, moved, since, composite>>
vars == <<now, alarms, inv, out>>

-----------------------------------------------------------------------------
(* CloudWatch, the drill script and the publishers. *)

Drop(reason) == [page |-> FALSE, kind |-> reason, drill |-> FALSE, id |-> 0]
Page(kind, drill, id) == [page |-> TRUE, kind |-> kind, drill |-> drill, id |-> id]
Unparsed == Drop("none")

\* An invocation has the message, then what it was parsed into.
Waiting(message) == [pc |-> "topic", message |-> message, parsed |-> Unparsed,
                     adapter |-> "sns_forward", attempts |-> 0, taken |-> 0, lost |-> 0]
NoMessage == [shape |-> "junk"]
Free == [Waiting(NoMessage) EXCEPT !.pc = "free"]
Silent == [read |-> FALSE, record |-> "none", metrics |-> {}, dead |-> FALSE]

Init ==
  /\ now = 0
  /\ child = [c \in Child |-> "OK"]
  /\ history = <<>>
  /\ moved = {} /\ since = 0 /\ composite = "OK"
  /\ inv = [s \in Slot |-> Free]
  /\ out = Silent

\* A message goes to the topic, where it is followed or not.
Publish(message) ==
  /\ out' = Silent
  /\ \/ \E s \in Slot : inv[s].pc = "free" /\ inv' = [inv EXCEPT ![s] = Waiting(message)]
     \/ UNCHANGED inv

Steps(c, to) ==
  /\ child[c] # to
  /\ child' = [child EXCEPT ![c] = to]
  /\ moved' = moved \cup {c}
  /\ since' = IF moved = {} THEN now ELSE since
  /\ out' = Silent
  /\ UNCHANGED <<now, composite, inv>>

RealAlarm == Steps("real", "ALARM") /\ UNCHANGED history
RealOk == Steps("real", "OK") /\ UNCHANGED history

Drills == Cardinality({h \in 1..Len(history) : history[h].new = "ALARM"})

DrillStep(to, id) ==
  /\ Steps("drill", to)
  /\ history' = Append(history, [at |-> now, old |-> child["drill"], new |-> to, id |-> id])

\* scripts/operator-pager-drill.sh: set-alarm-state with the reason DRILL <id>.
DrillSet == Drills < MaxDrills /\ DrillStep("ALARM", Drills + 1)

\* Its metric has no data and that is not breaching.
DrillReturns == DrillStep("OK", 0)

Rule == IF \E c \in Child : child[c] = "ALARM" THEN "ALARM" ELSE "OK"

\* The composite is evaluated.  Its actions run when its own state changes; the
\* notification may name the children that moved it.
Evaluate ==
  LET cause == {c \in moved : child[c] = Rule} IN
  /\ moved # {} /\ moved' = {} /\ since' = 0
  /\ composite' = Rule
  /\ IF Rule = composite THEN out' = Silent /\ UNCHANGED inv
     ELSE \E named \in {{}, cause}, at \in {t \in 0..now : t + Skew >= now} :
            Publish([shape |-> "alarm", mapped |-> TRUE, at |-> at, id |-> Drills,
                     state |-> Rule, named |-> named, cause |-> cause])
  /\ UNCHANGED <<now, child, history>>

\* EventBridge, coord, CI, the drill script, or a mistake.
PublishDocument ==
  /\ \E d \in Documents : Publish(d)
  /\ UNCHANGED <<now, alarms>>

Tick ==
  /\ now < MaxTime
  /\ moved = {} \/ now < since + Lag
  /\ now' = now + 1
  /\ out' = Silent
  /\ UNCHANGED <<alarms, inv>>

-----------------------------------------------------------------------------
(* Parsing: parse_message and what it calls. *)

DropReason == {"none", "unparseable", "unmapped_alarm", "state_not_paged", "unknown_kind",
               "condition_not_in_the_five", "asks", "drill_returned_to_ok"}

NotDrill == [drill |-> FALSE, id |-> 0]

\* The items of the history read, by their place in it: those around the time
\* the composite changed.
Items(at) == {h \in 1..Len(history) : at <= history[h].at + Back /\ history[h].at <= at + Ahead}

Newest(items) == CHOOSE h \in items : \A j \in items : j <= h
OfADrill(h) == history[h].new = "ALARM" /\ history[h].id # 0

\* The oldest one.
DrillIdOldest(items) ==
  LET set == {h \in items : OfADrill(h)}
  IN IF set = {} THEN 0 ELSE history[CHOOSE h \in set : \A j \in set : h <= j].id

DrillIdFromHistory(items) ==
  LET set == {h \in items : OfADrill(h)}
  IN IF set = {} THEN 0 ELSE history[Newest(set)].id

\* A drill some time earlier counts as well.
DrillFromAnyStep(items, at, state) ==
  LET set == {h \in items : history[h].at <= at + Skew /\ history[h].id # 0}
  IN IF set = {} THEN NotDrill ELSE [drill |-> TRUE, id |-> history[CHOOSE h \in set : TRUE].id]

\* No skew is allowed for.
DrillFromHistoryUnskewed(items, at, state) ==
  LET steps == {h \in items : history[h].at <= at}
      last == Newest(steps)
      begun == IF state = "OK" THEN steps \ {last} ELSE steps
  IN IF steps # {} /\ begun # {} /\ history[last].new = state
     THEN [drill |-> TRUE, id |-> history[Newest(begun)].id]
     ELSE NotDrill

\* The newest step by then: the drill's own, or the end of the one before it.
DrillFromHistory(items, at, state) ==
  LET steps == {h \in items : history[h].at <= at + Skew}
      last == Newest(steps)
      begun == IF state = "OK" THEN steps \ {last} ELSE steps
  IN IF /\ steps # {} /\ begun # {} /\ OfADrill(Newest(begun))
        /\ state = "OK" => /\ history[last].new = "OK" /\ history[last].old = "ALARM"
                           /\ at <= history[last].at + Follow
     THEN [drill |-> TRUE, id |-> history[Newest(begun)].id]
     ELSE NotDrill

\* A child that is named decides; then the history; an unread one means real.
Detect(doc, read) ==
  LET items == Items(doc.at)
      drill == "drill" \in doc.named
  IN IF doc.named # {}
     THEN [drill |-> drill, id |-> IF drill /\ read THEN DrillIdFromHistory(items) ELSE 0]
     ELSE IF read THEN DrillFromHistory(items, doc.at, doc.state) ELSE NotDrill

ParseAlarm(doc, map, read) ==
  LET is == Detect(doc, read) IN
  IF ~map \/ ~doc.mapped THEN Drop("unmapped_alarm")
  ELSE IF doc.state \notin State THEN Drop("state_not_paged")
  ELSE IF is.drill /\ doc.state = "OK" THEN Drop("drill_returned_to_ok")
  ELSE Page(IF is.drill THEN "drill" ELSE IF doc.state = "ALARM" THEN "page" ELSE "resolved",
            is.drill, is.id)

ParsePageV1(doc) ==
  IF doc.kind \notin Kind THEN Drop("unknown_kind")
  ELSE IF ~doc.listed THEN Drop("condition_not_in_the_five")
  ELSE LET drill == doc.kind \in {"drill", "drill_summary"} \/ doc.source = "qontinui.drill"
       IN Page(IF drill /\ doc.kind # "drill_summary" THEN "drill" ELSE doc.kind, drill, 0)

\* The text is rendered with what the source said, then without; a page that
\* still asks is dropped.
Rendered(doc, parsed) ==
  IF parsed.page /\ doc.shape = "page_v1" /\ doc.text = "insists" THEN Drop("asks") ELSE parsed

Parse(doc, map, read) ==
  Rendered(doc, IF doc.shape = "alarm" THEN ParseAlarm(doc, map, read)
                ELSE IF doc.shape = "page_v1" THEN ParsePageV1(doc)
                ELSE Drop("unparseable"))

-----------------------------------------------------------------------------
(* The invocation: parse, send, record. *)

\* SNS invokes the relay.  The environment gives the adapter, the email topic or
\* a vendor's, and the alarm map, which parses or not; the drill child's history
\* is read or not.
Invoke(s) ==
  /\ inv[s].pc = "topic"
  /\ \E map, read \in BOOLEAN, adapter \in {"sns_forward", "vendor"} :
       LET parsed == Parse(inv[s].message, map, read) IN
       /\ inv' = [inv EXCEPT ![s].message = NoMessage, ![s].parsed = parsed,
                             ![s].adapter = adapter,
                             ![s].pc = IF parsed.page THEN "send" ELSE "record"]
       /\ out' = [Silent EXCEPT !.read = read]
  /\ UNCHANGED <<now, alarms>>

\* What a send may come to: taken or not, and the class of its answer; "5xx"
\* stands for a transport error as well.
Answers == {[taken |-> TRUE, status |-> "2xx"], [taken |-> FALSE, status |-> "4xx"],
            [taken |-> FALSE, status |-> "5xx"], [taken |-> TRUE, status |-> "5xx"]}

\* The retry is decided on the number of sends alone.
NextSendTwice(adapter, status, n) ==
  IF n < 2 THEN "sleep"
  ELSE IF status = "2xx" THEN "accepted"
  ELSE IF adapter = "vendor" THEN "fallback" ELSE "rejected"

\* Anything but a 5xx passes for an acceptance.
NextSendLax(adapter, status, n) ==
  IF status # "5xx" THEN "accepted"
  ELSE IF n < 2 THEN "sleep"
  ELSE IF adapter = "vendor" THEN "fallback" ELSE "rejected"

\* A refusal is sent again until it is not one.
NextSendStubborn(adapter, status, n) ==
  IF status = "2xx" THEN "accepted"
  ELSE IF status = "4xx" \/ n < 2 THEN "sleep"
  ELSE IF adapter = "vendor" THEN "fallback" ELSE "rejected"

\* The retry has no limit.
NextSendForever(adapter, status, n) ==
  IF status = "2xx" THEN "accepted"
  ELSE IF status # "4xx" THEN "sleep"
  ELSE IF adapter = "vendor" THEN "fallback" ELSE "rejected"

\* Where deliver goes when the n-th send of the adapter was answered so.
NextSend(adapter, status, n) ==
  IF status = "2xx" THEN "accepted"
  ELSE IF status # "4xx" /\ n < 2 THEN "sleep"
  ELSE IF adapter = "vendor" THEN "fallback" ELSE "rejected"

Sent(s, answer, attempts, pc) ==
  /\ inv' = [inv EXCEPT ![s].pc = pc, ![s].attempts = attempts,
       ![s].taken = @ + (IF answer.taken THEN 1 ELSE 0),
       ![s].lost = @ + (IF answer.taken /\ answer.status # "2xx" THEN 1 ELSE 0)]
  /\ out' = Silent
  /\ UNCHANGED <<now, alarms>>

Send(s) ==
  LET n == IF inv[s].attempts = 0 THEN 1 ELSE 2 IN
  /\ inv[s].pc = "send"
  /\ \E answer \in Answers : Sent(s, answer, n, NextSend(inv[s].adapter, answer.status, n))

\* At least RETRY_DELAY_SECS pass.
Sleep(s) ==
  /\ inv[s].pc = "sleep"
  /\ inv' = [inv EXCEPT ![s].pc = "send"]
  /\ out' = Silent
  /\ UNCHANGED <<now, alarms>>

Fallback(s) ==
  /\ inv[s].pc = "fallback"
  /\ \E answer \in Answers :
       Sent(s, answer, inv[s].attempts, IF answer.status = "2xx" THEN "fell back" ELSE "rejected")

Outcome(s) == IF inv[s].pc # "record" THEN inv[s].pc
              ELSE IF inv[s].parsed.kind = "drill_returned_to_ok" THEN "suppressed" ELSE "dropped"

\* The metrics an outcome record emits.
Metrics(outcome) ==
  CASE outcome = "accepted"  -> {"VendorAccepted"}
    [] outcome = "fell back" -> {"VendorRejected", "FallbackForwarded"}
    [] outcome = "rejected"  -> {"VendorRejected"}
    [] outcome = "dropped"   -> {"Dropped"}
    [] OTHER                 -> {}

\* No failure is raised: nothing reaches the dead-letter queue.
RaisesNever(outcome) == FALSE

Raises(outcome) == outcome = "rejected"

\* The record is written; a rejected page then raises, which, with no retries,
\* puts the message in the dead-letter queue.
Emit(s) ==
  /\ inv[s].pc \in {"record", "accepted", "fell back", "rejected"}
  /\ out' = [Silent EXCEPT !.record = Outcome(s), !.metrics = Metrics(Outcome(s)),
                             !.dead = Raises(Outcome(s))]
  /\ inv' = [inv EXCEPT ![s] = Free]
  /\ UNCHANGED <<now, alarms>>

\* The invocation is killed, or SNS cannot make it: a dead letter and no record.
Killed(s) ==
  /\ inv[s].pc # "free"
  /\ out' = [Silent EXCEPT !.dead = TRUE]
  /\ inv' = [inv EXCEPT ![s] = Free]
  /\ UNCHANGED <<now, alarms>>

Handler(s) == Invoke(s) \/ Send(s) \/ Sleep(s) \/ Fallback(s) \/ Emit(s)

Next ==
  \/ RealAlarm \/ RealOk \/ DrillSet \/ DrillReturns \/ Evaluate
  \/ PublishDocument \/ Tick
  \/ \E s \in Slot : Handler(s) \/ Killed(s)

\* SNS delivers what it holds and an invocation runs to its end.
Fairness == \A s \in Slot : WF_vars(Handler(s))

Spec == Init /\ [][Next]_vars /\ Fairness

-----------------------------------------------------------------------------
(* Properties. *)

Parsed == [page : {TRUE}, kind : Kind, drill : BOOLEAN, id : 0..MaxDrills]
          \cup [page : {FALSE}, kind : DropReason, drill : {FALSE}, id : {0}]

InvType ==
  [pc : {"free", "topic", "send", "sleep", "fallback", "record", "accepted", "fell back",
         "rejected"},
   message : Notification \cup Document, parsed : Parsed, adapter : {"sns_forward", "vendor"},
   attempts : 0..2, taken : 0..3, lost : 0..3]

\* Every variable keeps its type.
TypeOK ==
  /\ now \in 0..MaxTime /\ since \in 0..now
  /\ child \in [Child -> State] /\ composite \in State /\ moved \subseteq Child
  /\ history \in Seq([at : 0..now, old : State, new : State, id : 0..MaxDrills])
  /\ inv \in [Slot -> InvType]
  /\ out.record \in {"none", "suppressed", "dropped", "accepted", "fell back", "rejected"}
  /\ out.metrics \subseteq {"VendorAccepted", "VendorRejected", "FallbackForwarded", "Dropped"}
  /\ out.dead \in BOOLEAN /\ out.read \in BOOLEAN

\* Steps of the drill child to a state within a time.
DrillStepped(to, from, until) ==
  \E h \in 1..Len(history) :
    history[h].new = to /\ from <= history[h].at /\ history[h].at <= until

Hidden(parsed) == parsed.drill \/ parsed.kind = "drill_returned_to_ok"

\* The step parses a notification that such a child moved, with a map to know it by.
Parses(s, cause) ==
  /\ inv[s].pc = "topic" /\ inv'[s].pc \in {"send", "record"}
  /\ inv[s].message.shape = "alarm" /\ inv[s].message.cause = cause
  /\ inv'[s].parsed.kind # "unmapped_alarm"

\* A change that a real child alone made is never read as a drill, nor its
\* recovery as the end of one, however many drills went before; except when the
\* notification names no child and the drill child stepped the same way at that
\* moment (within the skew) or, for a recovery, in the time an OK may follow.
RealIsNotHidden ==
  [][\A s \in Slot : LET m == inv[s].message IN
       Parses(s, {"real"}) /\ Hidden(inv'[s].parsed) =>
         /\ m.named = {} /\ out'.read
         /\ DrillStepped(m.state, IF m.state = "ALARM" THEN m.at
                                  ELSE IF m.at > Follow THEN m.at - Follow ELSE 0, m.at + Skew)]_vars

\* A drill never pages as real, and its end is not a recovery; except when the
\* notification names no child and the history was not read, the drill child
\* stepped again within the skew, or the drill began before the window.
DrillIsNotReal ==
  [][\A s \in Slot : LET m == inv[s].message IN
       Parses(s, {"drill"}) /\ ~Hidden(inv'[s].parsed) =>
         /\ m.named = {}
         /\ \/ ~out'.read
            \/ DrillStepped(IF m.state = "OK" THEN "ALARM" ELSE "OK", m.at, m.at + Skew)
            \/ /\ m.state = "OK"
               /\ ~DrillStepped("ALARM", IF m.at > Back THEN m.at - Back ELSE 0, m.at + Skew)]_vars

\* A drill page carries the id of the drill that caused it, if it carries one,
\* unless another drill was set in the window of the history read.
DrillIdIsItsOwn ==
  [][\A s \in Slot : LET m == inv[s].message IN
       Parses(s, {"drill"}) /\ inv'[s].parsed.id \notin {0, m.id} =>
         \E h \in 1..Len(history) : history[h].id > m.id /\ history[h].at <= m.at + Ahead]_vars

\* An invocation ends with its page taken, with a dead letter, with the metric
\* that alarms on a drop, or it was the end of a drill: nothing is lost unseen.
NoSilentLoss ==
  [][\A s \in Slot : inv[s].pc # "free" /\ inv'[s].pc = "free" =>
       \/ inv[s].taken > 0 \/ out'.dead \/ "Dropped" \in out'.metrics
       \/ out'.record = "suppressed"]_vars

\* A record says what became of its page: one that says it was accepted is of a
\* page that was taken, one of a page that was refused comes with a dead letter,
\* one of a message dropped or suppressed is of a message that was not sent.
RecordIsTrue ==
  [][\A s \in Slot : inv[s].pc # "free" /\ inv'[s].pc = "free" =>
       /\ out'.record \in {"accepted", "fell back"} => inv[s].taken > 0
       /\ out'.record = "rejected" => out'.dead /\ inv[s].taken = inv[s].lost
       /\ out'.record \in {"dropped", "suppressed"} => inv[s].taken = 0]_vars

\* An invocation delivers its page a second time only after an answer was lost.
NotSentTwice == \A s \in Slot : inv[s].taken <= 1 + inv[s].lost

\* Whatever is published is settled in the end.
EverythingSettles == \A s \in Slot : inv[s].pc = "topic" ~> inv[s].pc = "free"
=============================================================================
