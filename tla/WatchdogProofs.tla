--------------------------- MODULE WatchdogProofs ---------------------------
(***************************************************************************)
(* The theorems about the watchdog (README, section 6).                    *)
(*                                                                         *)
(* Known says that what the file records as noticed was noticed no earlier *)
(* than the file says, and Pending the same of what the run will save once *)
(* it has noticed what is left; whatever dies in between keeps the first.  *)
(* Counted says that no time the file counts is longer than apply was      *)
(* disabled.                                                               *)
(***************************************************************************)
EXTENDS Watchdog, OrderLemmas

\* An entry, a state and a run are records of such fields.
IsEntry(e) ==
  /\ e = [check |-> e.check, status |-> e.status, message |-> e.message, age |-> e.age]
  /\ e.check \in watched /\ e.age \in 0..Renotify
IsState(s) ==
  /\ s = [sent |-> s.sent, since |-> s.since, errors |-> s.errors]
  /\ \A e \in s.sent : IsEntry(e)
  /\ s.since \in {None} \cup 0..(Limit + 2) /\ s.errors \in {None} \cup 0..MaxErrors
IsRun(r) ==
  /\ r = [pc |-> r.pc, left |-> r.left, found |-> r.found, state |-> r.state, todo |-> r.todo,
          dry |-> r.dry]
  /\ r.pc \in {"idle", "check", "notice"} /\ r.left \subseteq watched /\ r.todo \subseteq watched
  /\ r.found = [c \in watched |-> r.found[c]] /\ IsState(r.state)

Types ==
  /\ watched \in Watches /\ sick \subseteq watched
  /\ IsState(file) /\ IsRun(run) /\ \A h \in heard : IsEntry(h)
  /\ lately \in 0..(Limit + 1) /\ faults \in 0..MaxFaults

OneEach(entries) == \A e, f \in entries : e.check = f.check => e = f

\* Outside a run there is nothing left of one, and nothing to save before its
\* checks are over.
Phases == run.pc # "notice" => run.state = EmptyState /\ run.todo = {}

\* Two entries are the same but for their ages.
Same(e, f) == e.check = f.check /\ e.status = f.status /\ e.message = f.message

\* That an entry was noticed, no earlier than it says.
NoticedIn(entries, e) == \E h \in entries : Same(h, e) /\ h.age <= e.age
Noticed(e) == NoticedIn(heard, e)

Known == \A e \in file.sent : Noticed(e)
Pending ==
  \A e \in run.state.sent :
    Noticed(e) \/ (e.check \in run.todo /\ Same(e, Entry(e.check)))

Counted(s) == s.since # None => s.since <= lately \/ lately > Limit

WatchInv ==
  /\ Types /\ OneEach(file.sent) /\ OneEach(run.state.sent)
  /\ Phases /\ Known /\ Pending /\ Counted(file) /\ Counted(run.state)

-----------------------------------------------------------------------------
(* What the checks find.                                                   *)

LEMMA Numbers ==
  /\ Limit \in Nat /\ MaxErrors \in Nat /\ MaxFaults \in Nat /\ Renotify \in Nat /\ Renotify > 0
  /\ \A w \in Watches : w \subseteq All
  BY WatchdogAssumption

\* There is a first of some checks.
LEMMA FirstIn ==
  ASSUME NEW S \in SUBSET All, S # {}
  PROVE  First(S) \in S
<1> DEFINE I == {i \in DOMAIN Order : Order[i] \in S}
<1>1. DOMAIN Order = 1..8
  BY DEF Order
<1>2. PICK i \in I : TRUE
  BY DEF All
<1>3. I \in SUBSET Nat /\ I # {}
  BY <1>1, <1>2
<1> HIDE DEF I
<1>4. PICK k \in I : \A j \in I : k <= j
  BY <1>3, NatMin
<1> USE DEF I
<1>5. k \in DOMAIN Order /\ Order[k] \in S /\ k \in 1..8
  BY <1>1, <1>4
<1>6. \A j \in 1..(k - 1) : Order[j] \notin S
  <2>1. SUFFICES ASSUME NEW j \in 1..(k - 1), Order[j] \in S PROVE FALSE
    OBVIOUS
  <2>2. j \in DOMAIN Order /\ j < k
    BY <1>1, <1>5, <2>1
  <2>3. j \in I /\ j \in Nat /\ k \in Nat
    BY <1>5, <2>1, <2>2
  <2> QED BY <1>4, <2>2, <2>3
<1> QED BY <1>5, <1>6 DEF First

\* A check that keeps nothing never finds that apply is disabled.
LEMMA VerdictSays ==
  ASSUME NEW c \in DOMAIN Readings, NEW r
  PROVE  Verdict(c, r).status = "ALERT" => Verdict(c, r).message[1] # "disabled"
<1> DEFINE v == Verdict(c, r)
           Fine(x) == x.status = "ALERT" => x.message[1] # "disabled"
<1>1. \A status, text, n : text # "disabled" => Fine(Check(status, text, n))
  BY DEF Check
<1>2. c \in {"slot", "orphan_sync_slots", "follower", "free_space", "archiver", "replica_identity"}
  BY DEF Readings
<1> SUFFICES Fine(v)
  OBVIOUS
<1> HIDE DEF Fine
<1>3. CASE c = "slot"
  <2>1. Fine(CheckSlot(r))
    BY <1>1 DEF CheckSlot, Ok
  <2> QED BY <1>3, <2>1 DEF Verdict
<1>4. CASE c = "orphan_sync_slots"
  <2>1. Fine(CheckOrphanSyncSlots(r))
    BY <1>1 DEF CheckOrphanSyncSlots, Ok, Unread
  <2> QED BY <1>4, <2>1 DEF Verdict
<1>5. CASE c = "follower"
  <2>1. Fine(CheckFollower(r))
    BY <1>1 DEF CheckFollower, Ok
  <2> QED BY <1>5, <2>1 DEF Verdict
<1>6. CASE c = "free_space"
  <2>1. Fine(CheckFreeSpace(r))
    BY <1>1 DEF CheckFreeSpace, Ok
  <2> QED BY <1>6, <2>1 DEF Verdict
<1>7. CASE c = "archiver"
  <2>1. Fine(CheckArchiver(r))
    BY <1>1 DEF CheckArchiver, Ok
  <2> QED BY <1>7, <2>1 DEF Verdict
<1>8. CASE c = "replica_identity"
  <2>1. Fine(CheckReplicaIdentity(r))
    BY <1>1 DEF CheckReplicaIdentity, Ok
  <2> QED BY <1>8, <2>1 DEF Verdict
<1> QED BY <1>2, <1>3, <1>4, <1>5, <1>6, <1>7, <1>8

\* Nor does the check of the reverse subscription, or that of apply when it is
\* enabled; when it is disabled it alerts past the limit only.
LEMMA OthersSay ==
  /\ \A running, age : Progress(running, age).message[1] # "disabled"
  /\ \A before, errors, age : Rising(before, errors, age).message[1] # "disabled"
  /\ Check("UNKNOWN", "absent", 0).message[1] # "disabled" /\ Unread.message[1] # "disabled"
  BY DEF Progress, Rising, Check, Ok, Unread

LEMMA HeldSays == \A since : Held(since).status = "ALERT" => since > Limit
  BY DEF Held, Check

-----------------------------------------------------------------------------
(* Entries and their ages.                                                 *)

\* An entry with another age.
LEMMA WithAge ==
  ASSUME NEW e, IsEntry(e), NEW n \in 0..Renotify
  PROVE  /\ [e EXCEPT !.age = n] = [check |-> e.check, status |-> e.status,
                                    message |-> e.message, age |-> n]
         /\ IsEntry([e EXCEPT !.age = n])
<1> DEFINE f == [check |-> e.check, status |-> e.status, message |-> e.message, age |-> n]
<1>1. e = [check |-> e.check, status |-> e.status, message |-> e.message, age |-> e.age]
  BY DEF IsEntry
<1>2. [e EXCEPT !.age = n] = f
  BY <1>1
<1>3. IsEntry(f)
  BY DEF IsEntry
<1> QED BY <1>2, <1>3

LEMMA SameUnaged ==
  ASSUME NEW e, IsEntry(e), NEW f, IsEntry(f)
  PROVE  [e EXCEPT !.age = 0] = [f EXCEPT !.age = 0] <=> Same(e, f)
<1>1. 0 \in 0..Renotify
  BY Numbers
<1>2. /\ [e EXCEPT !.age = 0] = [check |-> e.check, status |-> e.status, message |-> e.message, age |-> 0]
      /\ [f EXCEPT !.age = 0] = [check |-> f.check, status |-> f.status, message |-> f.message, age |-> 0]
  BY <1>1, WithAge
<1> QED BY <1>2 DEF Same

\* A minute makes an entry one older, up to Renotify.
Older(e) == [e EXCEPT !.age = IF @ < Renotify THEN @ + 1 ELSE @]

LEMMA OlderAge ==
  ASSUME NEW e, IsEntry(e)
  PROVE  /\ IsEntry(Older(e)) /\ Same(Older(e), e)
         /\ Older(e).age = IF e.age < Renotify THEN e.age + 1 ELSE e.age
<1> DEFINE n == IF e.age < Renotify THEN e.age + 1 ELSE e.age
<1>1. n \in 0..Renotify /\ Older(e) = [e EXCEPT !.age = n]
  BY Numbers DEF IsEntry, Older
<1> HIDE DEF n
<1>2. Older(e) = [check |-> e.check, status |-> e.status, message |-> e.message, age |-> n]
      /\ IsEntry(Older(e))
  BY <1>1, WithAge
<1>3. Older(e).age = n /\ Same(Older(e), e)
  BY <1>2 DEF Same
<1> QED BY <1>2, <1>3 DEF n

\* What a notice is made of.
LEMMA EntryIs ==
  ASSUME NEW c \in watched
  PROVE  IsEntry(Entry(c)) /\ Entry(c).check = c /\ Entry(c).age = 0
                /\ [Entry(c) EXCEPT !.age = 0] = Entry(c)
  BY Numbers DEF Entry, IsEntry

\* What is kept of the notices is what the file records.
LEMMA RecordedKeeps ==
  ASSUME NEW entries, \A h \in entries : IsEntry(h),
         NEW state, \A e \in state.sent : IsEntry(e)
  PROVE  /\ Recorded(entries, state) \subseteq entries
         /\ \A e \in state.sent : NoticedIn(entries, e) => NoticedIn(Recorded(entries, state), e)
<1>1. Recorded(entries, state) \subseteq entries
  BY DEF Recorded
<1>2. ASSUME NEW e \in state.sent, NEW h \in entries, Same(h, e)
      PROVE  h \in Recorded(entries, state)
  <2>1. [h EXCEPT !.age = 0] = [e EXCEPT !.age = 0]
    BY <1>2, SameUnaged
  <2> QED BY <2>1 DEF Recorded, Unaged
<1> QED BY <1>1, <1>2 DEF NoticedIn

\* A notice of a check, among those made before.
LEMMA NowKeeps ==
  ASSUME NEW entries, \A h \in entries : IsEntry(h), NEW c \in watched
  PROVE  /\ \A h \in Now(entries, Entry(c)) : IsEntry(h)
         /\ \A e : IsEntry(e) /\ (NoticedIn(entries, e) \/ Same(e, Entry(c)))
                     => NoticedIn(Now(entries, Entry(c)), e)
<1>1. IsEntry(Entry(c)) /\ Entry(c).age = 0 /\ [Entry(c) EXCEPT !.age = 0] = Entry(c)
  BY EntryIs
<1>2. \A h \in Now(entries, Entry(c)) : IsEntry(h)
  BY <1>1 DEF Now
<1>3. \A e : IsEntry(e) => 0 <= e.age
  BY Numbers DEF IsEntry
<1>4. Entry(c) \in Now(entries, Entry(c))
  BY DEF Now
<1>5. \A e : IsEntry(e) /\ Same(e, Entry(c)) => NoticedIn(Now(entries, Entry(c)), e)
  BY <1>1, <1>3, <1>4 DEF NoticedIn, Same
<1>6. ASSUME NEW e, IsEntry(e), NoticedIn(entries, e)
      PROVE  NoticedIn(Now(entries, Entry(c)), e)
  <2>1. PICK h \in entries : Same(h, e) /\ h.age <= e.age
    BY <1>6 DEF NoticedIn
  <2>2. CASE [h EXCEPT !.age = 0] = Entry(c)
    <3>1. Same(h, Entry(c))
      BY <1>1, <2>2, SameUnaged
    <3>2. Same(e, Entry(c))
      BY <2>1, <3>1 DEF Same
    <3> QED BY <1>5, <1>6, <3>2
  <2>3. CASE [h EXCEPT !.age = 0] # Entry(c)
    <3>1. h \in Now(entries, Entry(c))
      BY <2>1, <2>3 DEF Now
    <3> QED BY <2>1, <3>1 DEF NoticedIn
  <2> QED BY <2>2, <2>3
<1> QED BY <1>2, <1>5, <1>6

\* A minute keeps what was noticed no later than it was.
LEMMA AgedKeeps ==
  ASSUME NEW entries, \A h \in entries : IsEntry(h)
  PROVE  /\ \A h \in Aged(entries) : IsEntry(h)
         /\ Aged(entries) = {Older(h) : h \in entries}
         /\ \A e : IsEntry(e) /\ NoticedIn(entries, e) => NoticedIn(Aged(entries), Older(e))
<1>1. Aged(entries) = {Older(h) : h \in entries}
  BY DEF Aged, Older
<1>2. \A h \in Aged(entries) : IsEntry(h)
  BY <1>1, OlderAge
<1>3. ASSUME NEW e, IsEntry(e), NoticedIn(entries, e)
      PROVE  NoticedIn(Aged(entries), Older(e))
  <2>1. PICK h \in entries : Same(h, e) /\ h.age <= e.age
    BY <1>3 DEF NoticedIn
  <2>2. /\ Older(h).age = IF h.age < Renotify THEN h.age + 1 ELSE h.age
        /\ Older(e).age = IF e.age < Renotify THEN e.age + 1 ELSE e.age
        /\ Same(Older(h), h) /\ Same(Older(e), e)
    BY <1>3, <2>1, OlderAge
  <2>3. h.age \in Nat /\ e.age \in Nat /\ h.age <= e.age /\ h.age <= Renotify /\ e.age <= Renotify
    BY <1>3, <2>1, Numbers DEF IsEntry
  <2>4. Older(h).age <= Older(e).age
    BY ONLY <2>2, <2>3, Numbers
  <2>5. Same(Older(h), Older(e))
    BY <2>1, <2>2 DEF Same
  <2> QED BY <1>1, <2>1, <2>4, <2>5 DEF NoticedIn
<1> QED BY <1>1, <1>2, <1>3

-----------------------------------------------------------------------------
(* The steps.                                                              *)

\* The fields of a run.
Run(pc, left, found, state, todo, dry) ==
  [pc |-> pc, left |-> left, found |-> found, state |-> state, todo |-> todo, dry |-> dry]

\* Nothing of a run.
LEMMA IdleIs ==
  /\ IsState(EmptyState) /\ EmptyState.sent = {} /\ EmptyState.since = None
  /\ IsRun(Idle) /\ Idle.pc = "idle" /\ Idle.state = EmptyState /\ Idle.todo = {}
<1>1. IsState(EmptyState) /\ EmptyState.sent = {} /\ EmptyState.since = None
  BY DEF EmptyState, IsState
<1>2. IsRun(Idle) /\ Idle.pc = "idle" /\ Idle.state = EmptyState /\ Idle.todo = {}
  BY <1>1 DEF Idle, IsRun
<1> QED BY <1>1, <1>2

\* A run with the fields of another but for those that a step changes.
LEMMA RunParts ==
  ASSUME WatchInv
  PROVE  /\ run = [pc |-> run.pc, left |-> run.left, found |-> run.found, state |-> run.state,
                   todo |-> run.todo, dry |-> run.dry]
         /\ run.pc \in {"idle", "check", "notice"} /\ run.left \subseteq watched
         /\ run.todo \subseteq watched /\ run.found = [c \in watched |-> run.found[c]]
         /\ IsState(run.state) /\ IsState(file) /\ watched \subseteq All
         /\ \A h \in heard : IsEntry(h)
  BY Numbers DEF WatchInv, Types, IsRun

\* The set of watched checks does not change, and what depends on it alone.
LEMMA SameWatched ==
  ASSUME UNCHANGED watched
  PROVE  /\ \A x : IsEntry(x)' <=> IsEntry(x)
         /\ \A x : IsState(x)' <=> IsState(x)
         /\ \A x : IsRun(x)' <=> IsRun(x)
  BY DEF IsEntry, IsState, IsRun

\* What is left when a run ends, or starts.
LEMMA EndKeeps ==
  ASSUME WatchInv, UNCHANGED <<watched, sick, lately>>, faults' \in 0..MaxFaults,
         IsState(file'), OneEach(file'.sent), Counted(file'),
         \A h \in heard' : IsEntry(h), \A e \in file'.sent : NoticedIn(heard', e),
         NEW r, run' = r, IsRun(r), r.state = EmptyState, r.todo = {}
  PROVE  WatchInv'
<1>1. PICK f, hs : f = file' /\ hs = heard'
  OBVIOUS
<1>2. IsState(f)' /\ IsRun(r)' /\ \A h \in hs : IsEntry(h)'
  BY <1>1, SameWatched
<1>3. Types'
  BY <1>1, <1>2 DEF WatchInv, Types, IsState, IsRun, IsEntry
<1>4. Counted(file)'
  BY DEF Counted
<1>5. OneEach(run.state.sent)' /\ Pending' /\ Counted(run.state)'
  BY IdleIs DEF OneEach, Pending, Counted
<1>6. Phases' /\ Known' /\ OneEach(file.sent)'
  BY DEF Phases, Known, Noticed, NoticedIn, Same, OneEach
<1> QED BY <1>3, <1>4, <1>5, <1>6 DEF WatchInv

LEMMA StartKeeps ==
  ASSUME WatchInv, Start \/ StartDry
  PROVE  WatchInv'
<1>1. PICK d \in BOOLEAN : run' = [Idle EXCEPT !.pc = "check", !.dry = d]
  BY DEF Start, StartDry, Idle
<1> DEFINE r == [Idle EXCEPT !.pc = "check", !.dry = d]
<1>2. r = Run("check", watched, [c \in watched |-> Ok], EmptyState, {}, d)
  <2>1. PICK f : f = [c \in watched |-> Ok]
    OBVIOUS
  <2>2. Idle = Run("idle", watched, f, EmptyState, {}, FALSE)
    BY <2>1 DEF Idle, Run
  <2>3. PICK q : q = [Idle EXCEPT !.pc = "check"]
    OBVIOUS
  <2>4. r = [[Idle EXCEPT !.pc = "check"] EXCEPT !.dry = d]
    OBVIOUS
  <2>5. q = Run("check", watched, f, EmptyState, {}, FALSE)
    BY <2>2, <2>3 DEF Run
  <2>6. r = [q EXCEPT !.dry = d]
    BY <2>3, <2>4, Zenon
  <2>7. r = Run("check", watched, f, EmptyState, {}, d)
    BY <2>5, <2>6 DEF Run
  <2> QED BY <2>1, <2>7
<1>3. IsRun(r) /\ r.state = EmptyState /\ r.todo = {}
  BY <1>2, IdleIs DEF IsRun, Run
<1> HIDE DEF r
<1>4. UNCHANGED <<watched, file, sick, heard, lately>> /\ faults' \in 0..MaxFaults
  BY Numbers DEF Start, StartDry, Fault, WatchInv, Types
<1>5. /\ IsState(file') /\ OneEach(file'.sent) /\ Counted(file')
      /\ \A h \in heard' : IsEntry(h)
      /\ \A e \in file'.sent : NoticedIn(heard', e)
  BY <1>4, RunParts DEF WatchInv, Known, Noticed
<1> QED BY <1>1, <1>3, <1>4, <1>5, EndKeeps DEF r

\* A check is made.
LEMMA FindsKeep ==
  ASSUME WatchInv, run.pc = "check", NEW c \in watched, NEW check, NEW state,
         Finds(c, check, state), IsState(state), state.sent = file.sent,
         UNCHANGED <<watched, heard, faults>>, lately' \in 0..(Limit + 1),
         state.since # None => state.since <= lately' \/ lately' > Limit
  PROVE  WatchInv'
<1> DEFINE r == [run EXCEPT !.left = @ \ {c}, !.found[c] = check]
<1>1. run' = r /\ file' = state /\ sick' \subseteq watched
  BY DEF Finds, WatchInv, Types
<1>2. r = Run(run.pc, run.left \ {c}, [run.found EXCEPT ![c] = check], run.state, run.todo, run.dry)
  <2>1. run = Run(run.pc, run.left, run.found, run.state, run.todo, run.dry)
    BY RunParts DEF Run
  <2>2. PICK q : q = [run EXCEPT !.left = @ \ {c}]
    OBVIOUS
  <2>3. q = Run(run.pc, run.left \ {c}, run.found, run.state, run.todo, run.dry)
    BY <2>1, <2>2 DEF Run
  <2>4. r = [[run EXCEPT !.left = @ \ {c}] EXCEPT !.found = [[run EXCEPT !.left = @ \ {c}].found EXCEPT ![c] = check]]
    OBVIOUS
  <2>5. r = [q EXCEPT !.found = [q.found EXCEPT ![c] = check]]
    BY <2>2, <2>4, Zenon
  <2>6. q.found = run.found
    BY <2>3 DEF Run
  <2>7. PICK g : g = [run.found EXCEPT ![c] = check]
    OBVIOUS
  <2>8. r = [q EXCEPT !.found = g]
    BY <2>5, <2>6, <2>7, Zenon
  <2>9. r = Run(run.pc, run.left \ {c}, g, run.state, run.todo, run.dry)
    BY <2>3, <2>8 DEF Run
  <2> QED BY <2>7, <2>9
<1>3. [run.found EXCEPT ![c] = check] =
        [d \in watched |-> [run.found EXCEPT ![c] = check][d]]
  BY RunParts
<1>4. IsRun(r)
  BY <1>2, <1>3, RunParts DEF IsRun, Run
<1>5. run.state = EmptyState /\ run.todo = {}
  BY DEF WatchInv, Phases
<1>6. r.state = EmptyState /\ r.todo = {}
  BY <1>2, <1>5 DEF Run
<1> HIDE DEF r
<1>7. PICK q, f, hs : q = run' /\ f = file' /\ hs = heard'
  OBVIOUS
<1>8. Types'
  <2>1. IsRun(q)' /\ IsState(f)' /\ \A h \in hs : IsEntry(h)'
    BY <1>1, <1>4, <1>7, RunParts, SameWatched
  <2> QED BY <1>1, <1>7, <2>1 DEF WatchInv, Types, IsState, IsRun, IsEntry
<1>9. OneEach(run.state.sent)' /\ Pending' /\ Counted(run.state)' /\ Phases'
  BY <1>1, <1>6, IdleIs DEF OneEach, Pending, Counted, Phases
<1>10. OneEach(file.sent)' /\ Known' /\ Counted(file)'
  BY <1>1 DEF WatchInv, OneEach, Known, Noticed, NoticedIn, Same, Counted
<1> QED BY <1>8, <1>9, <1>10 DEF WatchInv

\* The state that a check leaves in the file.
LEMMA StateWith ==
  ASSUME WatchInv, NEW since \in {None} \cup 0..(Limit + 2), NEW errors \in {None} \cup 0..MaxErrors
  PROVE  LET s == [sent |-> file.sent, since |-> since, errors |-> errors]
         IN IsState(s) /\ s.sent = file.sent /\ s.since = since
  BY RunParts DEF IsState

LEMMA CheckKeeps ==
  ASSUME WatchInv, MakeCheck
  PROVE  WatchInv'
<1> DEFINE c == First(run.left)
<1>1. c \in watched
  BY FirstIn, RunParts DEF MakeCheck
<1>2. /\ run.pc = "check" /\ UNCHANGED <<watched, heard, faults>>
      /\ lately \in 0..(Limit + 1) /\ Counted(file)
  BY DEF MakeCheck, WatchInv, Types
<1>3. /\ file = [sent |-> file.sent, since |-> file.since, errors |-> file.errors]
      /\ file.since \in {None} \cup 0..(Limit + 2) /\ file.errors \in {None} \cup 0..MaxErrors
  BY RunParts DEF IsState
<1>4. ASSUME NEW check, Finds(c, check, file), UNCHANGED lately
      PROVE  WatchInv'
  BY <1>1, <1>2, <1>4, RunParts, FindsKeep DEF Counted
<1>5. CASE FindsUnread(c) \/ FindsAbsent(c)
  BY <1>4, <1>5 DEF FindsUnread, FindsAbsent
<1>6. CASE FindsPlain(c)
  BY <1>4, <1>6 DEF FindsPlain
<1>7. CASE c = "apply_lag" /\ FindsDisabled
  <2> DEFINE since == IF file.since = None THEN 0 ELSE file.since
             state == [sent |-> file.sent, since |-> since, errors |-> file.errors]
  <2>1. since \in 0..(Limit + 2) /\ (since <= lately \/ lately > Limit)
    BY <1>2, <1>3, Numbers DEF Counted, None
  <2>2. Finds(c, Held(since), state) /\ UNCHANGED lately
    BY <1>3, <1>7 DEF FindsDisabled
  <2>3. IsState(state) /\ state.sent = file.sent /\ state.since = since
    BY <1>3, <2>1, StateWith
  <2> HIDE DEF since, state
  <2> QED BY <1>1, <1>2, <2>1, <2>2, <2>3, FindsKeep
<1>8. CASE c = "apply_lag" /\ FindsEnabled
  <2> DEFINE state == [sent |-> file.sent, since |-> None, errors |-> file.errors]
  <2>1. PICK running \in BOOLEAN, age \in {None, 0, Limit + 1} :
          Finds(c, Progress(running, age), state)
    BY <1>3, <1>8 DEF FindsEnabled
  <2>2. IsState(state) /\ state.sent = file.sent /\ state.since = None
    BY <1>3, StateWith
  <2>3. lately' \in 0..(Limit + 1)
    BY <1>8, Numbers DEF FindsEnabled
  <2> HIDE DEF state
  <2> QED BY <1>1, <1>2, <2>1, <2>2, <2>3, FindsKeep
<1>9. CASE c = "reverse" /\ FindsReverse
  <2>1. PICK errors \in 0..MaxErrors, age \in {None, 0, Limit + 1} :
          Finds(c, Rising(file.errors, errors, age),
                [sent |-> file.sent, since |-> file.since, errors |-> errors])
    BY <1>3, <1>9 DEF FindsReverse
  <2> DEFINE state == [sent |-> file.sent, since |-> file.since, errors |-> errors]
  <2>2. IsState(state) /\ state.sent = file.sent /\ state.since = file.since
    BY <1>3, StateWith
  <2>3. UNCHANGED lately
    BY <1>9 DEF FindsReverse
  <2> HIDE DEF state
  <2> QED BY <1>1, <1>2, <2>1, <2>2, <2>3, FindsKeep DEF Counted, state
<1> QED BY <1>5, <1>6, <1>7, <1>8, <1>9 DEF MakeCheck

\* What is noticed, and what is silent because it was.
LEMMA FreshIs ==
  ASSUME WatchInv
  PROVE  /\ Todo \subseteq watched
         /\ \A e \in Fresh : IsEntry(e) /\ (e \in file.sent \/ (e.check \in Todo /\ e = Entry(e.check)))
         /\ OneEach(Fresh)
<1>1. Todo \subseteq watched /\ BadChecks \subseteq watched
  BY DEF Todo, BadChecks
<1>2. \A c \in watched : IsEntry(Entry(c)) /\ Entry(c).check = c
  BY EntryIs
<1>3. \A e \in file.sent : IsEntry(e)
  BY RunParts DEF IsState
<1>4. ASSUME NEW e \in Silent
      PROVE  e \in file.sent /\ e.check \in BadChecks /\ Recent(file.sent, e.check) # {}
  <2>1. PICK c \in BadChecks : e \in Recent(file.sent, c)
    BY <1>4 DEF Silent
  <2>2. e \in file.sent /\ [e EXCEPT !.age = 0] = Entry(c)
    BY <2>1 DEF Recent
  <2>3. IsEntry(Entry(c)) /\ Entry(c).check = c /\ [Entry(c) EXCEPT !.age = 0] = Entry(c)
    BY <1>1, EntryIs
  <2>4. [e EXCEPT !.age = 0] = [Entry(c) EXCEPT !.age = 0]
    BY <2>2, <2>3
  <2>5. Same(e, Entry(c))
    BY <1>3, <2>2, <2>3, <2>4, SameUnaged
  <2>6. e.check = c
    BY <2>3, <2>5 DEF Same
  <2> QED BY <2>1, <2>2, <2>6
<1>5. \A e \in Fresh : e \in Silent \/ (e.check \in Todo /\ e = Entry(e.check))
  BY <1>1, <1>2 DEF Fresh
<1>6. \A e \in Fresh : IsEntry(e)
  BY <1>1, <1>2, <1>3, <1>4, <1>5
<1>7. ASSUME NEW e \in Fresh, NEW f \in Fresh, e.check = f.check
      PROVE  e = f
  <2>1. CASE e \in Silent /\ f \in Silent
    BY <1>4, <1>7, <2>1 DEF WatchInv, OneEach
  <2>2. \A g \in Silent : g.check \notin Todo
    BY <1>4 DEF Todo
  <2> QED BY <1>5, <1>7, <2>1, <2>2
<1> QED BY <1>1, <1>4, <1>5, <1>6, <1>7 DEF OneEach

LEMMA LoadKeeps ==
  ASSUME WatchInv, Load
  PROVE  WatchInv'
<1> DEFINE s == [file EXCEPT !.sent = Fresh]
<1>1. /\ run' = [run EXCEPT !.pc = "notice", !.todo = Todo, !.state = s]
      /\ UNCHANGED <<watched, file, sick, heard, lately, faults>>
  BY DEF Load
<1>2. s = [sent |-> Fresh, since |-> file.since, errors |-> file.errors]
  BY RunParts DEF IsState
<1>3. IsState(s) /\ OneEach(s.sent) /\ s.since = file.since
  BY <1>2, RunParts, FreshIs DEF IsState
<1> HIDE DEF s
<1>4. run' = Run("notice", run.left, run.found, s, Todo, run.dry)
  <2>1. run = Run(run.pc, run.left, run.found, run.state, run.todo, run.dry)
    BY RunParts DEF Run
  <2>2. PICK q, r : q = [run EXCEPT !.pc = "notice"] /\ r = [q EXCEPT !.todo = Todo]
    OBVIOUS
  <2>3. q = Run("notice", run.left, run.found, run.state, run.todo, run.dry)
    BY <2>1, <2>2 DEF Run
  <2>4. r = Run("notice", run.left, run.found, run.state, Todo, run.dry)
    BY <2>2, <2>3 DEF Run
  <2>5. run' = [[[run EXCEPT !.pc = "notice"] EXCEPT !.todo = Todo] EXCEPT !.state = s]
    BY <1>1
  <2>6. run' = [r EXCEPT !.state = s]
    BY <2>2, <2>5, Zenon
  <2> QED BY <2>4, <2>6 DEF Run
<1>5. /\ run'.pc = "notice" /\ run'.todo = Todo /\ run'.state = s /\ run'.found = run.found
  BY <1>4 DEF Run
<1>6. PICK q, f, hs : q = run' /\ f = file' /\ hs = heard'
  OBVIOUS
<1>7. Types'
  <2>1. IsRun(q)
    BY <1>3, <1>4, <1>6, RunParts, FreshIs DEF IsRun, Run
  <2>2. IsRun(q)' /\ IsState(f)' /\ \A h \in hs : IsEntry(h)'
    BY <1>1, <1>6, <2>1, RunParts, SameWatched
  <2> QED BY <1>1, <1>6, <2>2 DEF WatchInv, Types, IsState, IsRun, IsEntry
<1>8. OneEach(file.sent)' /\ OneEach(run.state.sent)' /\ Known' /\ Counted(file)' /\ Counted(run.state)'
  BY <1>1, <1>3, <1>5 DEF WatchInv, OneEach, Known, Noticed, NoticedIn, Same, Counted
<1>9. Phases'
  BY <1>5 DEF Phases
<1>10. Pending'
  <2>1. \A e \in s.sent : NoticedIn(heard, e) \/ (e.check \in Todo /\ Same(e, Entry(e.check)))
    BY <1>2, FreshIs DEF WatchInv, Known, Noticed, Same
  <2>2. \A c : Entry(c)' = Entry(c)
    BY <1>5 DEF Entry
  <2> QED BY <1>1, <1>5, <2>1, <2>2 DEF Pending, Noticed, NoticedIn, Same
<1> QED BY <1>7, <1>8, <1>9, <1>10 DEF WatchInv

\* A fault is within the bound.
LEMMA FaultIn ==
  ASSUME WatchInv, Fault \/ UNCHANGED faults
  PROVE  faults' \in 0..MaxFaults
  BY Numbers DEF Fault, WatchInv, Types

\* A notice raises: the run ends, with the file as it is.
LEMMA RaiseKeeps ==
  ASSUME WatchInv, run.pc = "notice", run.todo # {}, Notify("raised"), Fault
  PROVE  WatchInv'
<1> DEFINE c == First(run.todo)
           all == Now(heard, Entry(c))
<1>1. c \in watched
  BY FirstIn, RunParts
<1>2. run' = Idle /\ heard' = Recorded(all, file) /\ UNCHANGED <<watched, file, sick, lately>>
  BY DEF Notify
<1>3. /\ \A e \in file.sent : IsEntry(e)
      /\ \A h \in all : IsEntry(h)
      /\ \A e \in file.sent : NoticedIn(all, e)
  BY <1>1, RunParts, NowKeeps DEF IsState, WatchInv, Known, Noticed
<1> HIDE DEF c, all
<1>4. (\A h \in heard' : IsEntry(h)) /\ \A e \in file.sent : NoticedIn(heard', e)
  BY <1>2, <1>3, RecordedKeeps
<1>5. IsState(file') /\ OneEach(file'.sent) /\ Counted(file')
  BY <1>2, RunParts DEF WatchInv
<1> QED BY <1>2, <1>4, <1>5, FaultIn, IdleIs, EndKeeps

LEMMA NotifyKeeps ==
  ASSUME WatchInv, NEW outcome, outcome # "raised", Notify(outcome), Fault \/ UNCHANGED faults
  PROVE  WatchInv'
<1> DEFINE c == First(run.todo)
           all == Now(heard, Entry(c))
<1>1. c \in watched /\ run.pc = "notice"
  BY FirstIn, RunParts DEF Notify
<1>2. /\ run' = [run EXCEPT !.todo = run.todo \ {c}] /\ heard' = all
      /\ UNCHANGED <<watched, file, sick, lately>>
  BY DEF Notify
<1>3. run' = Run(run.pc, run.left, run.found, run.state, run.todo \ {c}, run.dry)
  BY <1>2, RunParts DEF Run
<1>4. /\ run'.pc = run.pc /\ run'.todo = run.todo \ {c} /\ run'.state = run.state
      /\ run'.found = run.found
  BY <1>3 DEF Run
<1>5. /\ \A h \in all : IsEntry(h)
      /\ \A e : IsEntry(e) /\ (NoticedIn(heard, e) \/ Same(e, Entry(c))) => NoticedIn(all, e)
  BY <1>1, RunParts, NowKeeps
<1>6. (\A e \in file.sent : IsEntry(e)) /\ \A e \in run.state.sent : IsEntry(e)
  BY RunParts DEF IsState
<1> HIDE DEF all, c
<1>7. PICK q, f, hs : q = run' /\ f = file' /\ hs = heard'
  OBVIOUS
<1>8. Types'
  <2>1. IsRun(q)
    BY <1>3, <1>7, RunParts DEF IsRun, Run
  <2>2. IsRun(q)' /\ IsState(f)' /\ \A h \in hs : IsEntry(h)'
    BY <1>2, <1>5, <1>7, <2>1, RunParts, SameWatched
  <2> QED BY <1>2, <1>7, <2>2, FaultIn DEF WatchInv, Types, IsState, IsRun, IsEntry
<1>9. /\ OneEach(file.sent)' /\ OneEach(run.state.sent)' /\ Counted(file)' /\ Counted(run.state)'
      /\ Phases'
  BY <1>1, <1>2, <1>4 DEF WatchInv, OneEach, Counted, Phases
<1>10. Known'
  <2>1. \A e \in file.sent : NoticedIn(all, e)
    BY <1>5, <1>6 DEF WatchInv, Known, Noticed
  <2> QED BY <1>2, <2>1 DEF Known, Noticed, NoticedIn, Same
<1>11. Pending'
  <2>1. \A e \in run.state.sent :
          NoticedIn(all, e) \/ (e.check \in run.todo \ {c} /\ Same(e, Entry(e.check)))
    BY <1>5, <1>6 DEF WatchInv, Pending, Noticed
  <2>2. \A d : Entry(d)' = Entry(d)
    BY <1>4 DEF Entry
  <2> QED BY <1>2, <1>4, <2>1, <2>2 DEF Pending, Noticed, NoticedIn, Same
<1> QED BY <1>8, <1>9, <1>10, <1>11 DEF WatchInv

LEMMA SaveKeeps ==
  ASSUME WatchInv, Save
  PROVE  WatchInv'
<1>1. /\ run' = Idle /\ heard' = Recorded(heard, file') /\ UNCHANGED <<watched, sick, lately>>
      /\ (file' = run.state \/ file' = file) /\ (Fault \/ UNCHANGED faults) /\ run.todo = {}
  BY DEF Save
<1>2. IsState(file') /\ OneEach(file'.sent) /\ Counted(file')
  BY <1>1, RunParts DEF WatchInv, Counted
<1>3. \A e \in file'.sent : IsEntry(e) /\ NoticedIn(heard, e)
  BY <1>1, <1>2 DEF WatchInv, Known, Pending, Noticed, IsState
<1>4. (\A h \in heard' : IsEntry(h)) /\ \A e \in file'.sent : NoticedIn(heard', e)
  <2>1. PICK f : f = file'
    OBVIOUS
  <2> QED BY <1>1, <1>3, <2>1, RunParts, RecordedKeeps
<1> QED BY <1>1, <1>2, <1>4, FaultIn, IdleIs, EndKeeps

LEMMA DieKeeps ==
  ASSUME WatchInv, Die
  PROVE  WatchInv'
<1>1. /\ run' = Idle /\ heard' = Recorded(heard, file) /\ UNCHANGED <<watched, file, sick, lately>>
      /\ Fault
  BY DEF Die
<1>2. IsState(file') /\ OneEach(file'.sent) /\ Counted(file')
  BY <1>1, RunParts DEF WatchInv
<1>3. \A e \in file.sent : IsEntry(e) /\ NoticedIn(heard, e)
  BY RunParts DEF WatchInv, Known, Noticed, IsState
<1>4. (\A h \in heard' : IsEntry(h)) /\ \A e \in file.sent : NoticedIn(heard', e)
  BY <1>1, <1>3, RunParts, RecordedKeeps
<1> QED BY <1>1, <1>2, <1>4, FaultIn, IdleIs, EndKeeps

LEMMA LoseFileKeeps ==
  ASSUME WatchInv, LoseFile
  PROVE  WatchInv'
<1>1. file' = EmptyState /\ UNCHANGED <<watched, run, sick, heard, lately>> /\ Fault
  BY DEF LoseFile
<1>2. PICK q, f, hs : q = run' /\ f = file' /\ hs = heard'
  OBVIOUS
<1>3. Types'
  <2>1. IsRun(q)' /\ IsState(f)' /\ \A h \in hs : IsEntry(h)'
    BY <1>1, <1>2, RunParts, IdleIs, SameWatched DEF WatchInv, Types
  <2> QED BY <1>1, <1>2, <2>1, FaultIn DEF WatchInv, Types, IsState, IsRun, IsEntry
<1>4. OneEach(file.sent)' /\ Known' /\ Counted(file)'
  BY <1>1, IdleIs DEF OneEach, Known, Counted
<1>5. OneEach(run.state.sent)' /\ Counted(run.state)' /\ Phases'
  BY <1>1 DEF WatchInv, OneEach, Counted, Phases, EmptyState
<1>6. Pending'
  <2>1. \A d : Entry(d)' = Entry(d)
    BY <1>1 DEF Entry
  <2> QED BY <1>1, <2>1 DEF WatchInv, Pending, Noticed, NoticedIn, Same
<1> QED BY <1>3, <1>4, <1>5, <1>6 DEF WatchInv

\* A minute more in a state.
LEMMA LaterIs ==
  ASSUME NEW s, IsState(s), OneEach(s.sent)
  PROVE  /\ IsState(Later(s)) /\ OneEach(Later(s).sent)
         /\ Later(s).sent = {Older(e) : e \in s.sent} /\ Later(s).errors = s.errors
         /\ Later(s).since = IF s.since = None THEN None
                             ELSE IF s.since > Limit + 1 THEN Limit + 1 ELSE s.since + 1
<1> DEFINE since == IF s.since = None THEN None
                    ELSE IF s.since > Limit + 1 THEN Limit + 1 ELSE s.since + 1
           l == [sent |-> Aged(s.sent), since |-> since, errors |-> s.errors]
<1>1. s = [sent |-> s.sent, since |-> s.since, errors |-> s.errors]
  BY DEF IsState
<1>2. Later(s) = l
  <2>1. PICK a, b : a = Aged(s.sent) /\ b = since
    OBVIOUS
  <2>2. PICK q : q = [s EXCEPT !.sent = a]
    OBVIOUS
  <2>3. q = [sent |-> a, since |-> s.since, errors |-> s.errors]
    BY <1>1, <2>2
  <2>4. PICK r : r = [q EXCEPT !.since = b]
    OBVIOUS
  <2>5. r = [sent |-> a, since |-> b, errors |-> s.errors]
    BY <2>3, <2>4
  <2>6. Later(s) = [s EXCEPT !.sent = Aged(s.sent), !.since = since]
    BY DEF Later
  <2>7. [s EXCEPT !.sent = Aged(s.sent), !.since = since]
          = [[s EXCEPT !.sent = Aged(s.sent)] EXCEPT !.since = since]
    OBVIOUS
  <2>8. Later(s) = [[s EXCEPT !.sent = Aged(s.sent)] EXCEPT !.since = since]
    BY <2>6, <2>7, Zenon
  <2> HIDE DEF since
  <2>9. Later(s) = r
    BY <2>1, <2>2, <2>4, <2>8, Zenon
  <2> QED BY <2>1, <2>5, <2>9
<1>3. since \in {None} \cup 0..(Limit + 2)
  BY Numbers DEF IsState, None
<1>4. Aged(s.sent) = {Older(e) : e \in s.sent} /\ \A e \in Aged(s.sent) : IsEntry(e)
  BY AgedKeeps DEF IsState
<1> HIDE DEF since
<1>5. IsState(l)
  BY <1>3, <1>4 DEF IsState
<1>6. OneEach(l.sent)
  <2>1. \A e \in s.sent : Older(e).check = e.check
    BY OlderAge DEF IsState, Same
  <2> QED BY <1>4, <2>1 DEF OneEach
<1> QED BY <1>2, <1>4, <1>5, <1>6 DEF since

LEMMA LaterCounted ==
  ASSUME NEW s, IsState(s), OneEach(s.sent), Counted(s), lately \in 0..(Limit + 1),
         lately' = IF lately > Limit THEN lately ELSE lately + 1
  PROVE  Later(s).since # None => Later(s).since <= lately' \/ lately' > Limit
<1>1. Later(s).since = IF s.since = None THEN None
                       ELSE IF s.since > Limit + 1 THEN Limit + 1 ELSE s.since + 1
  BY LaterIs
<1>2. s.since # None => s.since \in 0..(Limit + 2) /\ (s.since <= lately \/ lately > Limit)
  BY DEF IsState, Counted
<1> QED BY <1>1, <1>2, Numbers

LEMMA TickKeeps ==
  ASSUME WatchInv, Tick
  PROVE  WatchInv'
<1>1. /\ file' = Later(file) /\ heard' = Aged(heard)
      /\ run' = [run EXCEPT !.state = Later(run.state)]
      /\ lately' = (IF lately > Limit THEN lately ELSE lately + 1)
      /\ UNCHANGED <<watched, sick, faults>>
  BY DEF Tick
<1>2. run' = Run(run.pc, run.left, run.found, Later(run.state), run.todo, run.dry)
  BY <1>1, RunParts DEF Run
<1>3. /\ run'.pc = run.pc /\ run'.todo = run.todo /\ run'.state = Later(run.state)
      /\ run'.found = run.found
  BY <1>2 DEF Run
<1>4. /\ IsState(file) /\ OneEach(file.sent) /\ IsState(run.state) /\ OneEach(run.state.sent)
      /\ Counted(file) /\ Counted(run.state) /\ lately \in 0..(Limit + 1)
  BY RunParts DEF WatchInv, Types
<1>5. /\ IsState(Later(file)) /\ OneEach(Later(file).sent)
      /\ Later(file).sent = {Older(e) : e \in file.sent}
  BY <1>4, LaterIs
<1>6. /\ IsState(Later(run.state)) /\ OneEach(Later(run.state).sent)
      /\ Later(run.state).sent = {Older(e) : e \in run.state.sent}
      /\ (run.state.since = None => Later(run.state).since = None)
  BY <1>4, LaterIs
<1>7. PICK q, f, hs : q = run' /\ f = file' /\ hs = heard'
  OBVIOUS
<1>8. Types'
  <2>1. IsRun(q)
    BY <1>2, <1>6, <1>7, RunParts DEF IsRun, Run
  <2>2. \A h \in hs : IsEntry(h)
    BY <1>1, <1>7, RunParts, AgedKeeps
  <2>3. IsRun(q)' /\ IsState(f)' /\ \A h \in hs : IsEntry(h)'
    BY <1>1, <1>5, <1>7, <2>1, <2>2, SameWatched
  <2>4. lately' \in 0..(Limit + 1)
    BY <1>1, <1>4, Numbers
  <2> QED BY <1>1, <1>7, <2>3, <2>4 DEF WatchInv, Types, IsState, IsRun, IsEntry
<1>9. OneEach(file.sent)' /\ OneEach(run.state.sent)'
  BY <1>1, <1>3, <1>5, <1>6 DEF OneEach
<1>10. Counted(file)' /\ Counted(run.state)'
  BY <1>1, <1>3, <1>4, LaterCounted DEF Counted
<1>11. \A e : IsEntry(e) /\ NoticedIn(heard, e) => NoticedIn(heard', Older(e))
  BY <1>1, RunParts, AgedKeeps
<1>12. Known'
  <2>1. \A e \in file.sent : IsEntry(e) /\ NoticedIn(heard, e)
    BY <1>4 DEF WatchInv, Known, Noticed, IsState
  <2>2. \A e \in file'.sent : NoticedIn(heard', e)
    BY <1>1, <1>5, <1>11, <2>1
  <2> QED BY <2>2 DEF Known, Noticed, NoticedIn, Same
<1>13. Pending'
  <2>1. \A e \in run.state.sent :
          IsEntry(e) /\ (NoticedIn(heard, e) \/ (e.check \in run.todo /\ Same(e, Entry(e.check))))
    BY <1>4 DEF WatchInv, Pending, Noticed, IsState
  <2>2. \A e \in run.state.sent : Same(Older(e), e)
    BY <2>1, OlderAge
  <2>3. \A e \in run'.state.sent :
          NoticedIn(heard', e) \/ (e.check \in run.todo /\ Same(e, Entry(e.check)))
    BY <1>3, <1>6, <1>11, <2>1, <2>2 DEF Same
  <2>4. \A d : Entry(d)' = Entry(d)
    BY <1>3 DEF Entry
  <2> QED BY <1>3, <2>3, <2>4 DEF Pending, Noticed, NoticedIn, Same
<1>14. Phases'
  <2>1. SUFFICES ASSUME run.pc # "notice" PROVE run'.state = EmptyState /\ run'.todo = {}
    BY <1>3 DEF Phases
  <2>2. run.state = EmptyState /\ run.todo = {}
    BY <2>1 DEF WatchInv, Phases
  <2>3. Later(run.state).sent = {} /\ Later(run.state).since = None
    BY <1>6, <2>2, IdleIs
  <2>4. Later(run.state).errors = None
    <3>1. run.state.errors = None
      BY <2>2 DEF EmptyState
    <3>2. Later(run.state).errors = run.state.errors
      BY <1>4, LaterIs
    <3> QED BY <3>1, <3>2
  <2>5. Later(run.state) = EmptyState
    BY <1>6, <2>3, <2>4 DEF IsState, EmptyState
  <2> QED BY <1>3, <2>2, <2>5
<1> QED BY <1>8, <1>9, <1>10, <1>12, <1>13, <1>14 DEF WatchInv

-----------------------------------------------------------------------------
(* The theorems.                                                           *)

LEMMA WatchInit == Init => WatchInv
<1> SUFFICES ASSUME Init PROVE WatchInv
  OBVIOUS
<1>1. IsRun(run) /\ IsState(file) /\ run.state = EmptyState /\ run.todo = {} /\ file.sent = {}
      /\ file.since = None /\ watched \in Watches /\ sick = {} /\ heard = {}
  BY IdleIs DEF Init
<1>2. Types
  BY <1>1, Numbers DEF Init, Types
<1> QED BY <1>1, <1>2, IdleIs DEF WatchInv, OneEach, Phases, Known, Pending, Counted

LEMMA WatchStep == WatchInv /\ [Next]_vars => WatchInv'
<1> SUFFICES ASSUME WatchInv, [Next]_vars PROVE WatchInv'
  OBVIOUS
<1>1. CASE Start \/ StartDry
  BY <1>1, StartKeeps
<1>2. CASE MakeCheck
  BY <1>2, CheckKeeps
<1>3. CASE Load
  BY <1>3, LoadKeeps
<1>4. CASE Post \/ NotPosted
  <2>1. CASE Notify("raised") /\ Fault
    BY <2>1, RaiseKeeps DEF Notify
  <2>2. CASE Notify("posted") /\ UNCHANGED faults
    BY <2>2, NotifyKeeps
  <2>3. CASE Notify("logged") /\ UNCHANGED faults
    BY <2>3, NotifyKeeps
  <2>4. CASE Notify("refused") /\ Fault
    BY <2>4, NotifyKeeps
  <2> QED BY <1>4, <2>1, <2>2, <2>3, <2>4 DEF Post, NotPosted
<1>5. CASE Save
  BY <1>5, SaveKeeps
<1>6. CASE Die
  BY <1>6, DieKeeps
<1>7. CASE LoseFile
  BY <1>7, LoseFileKeeps
<1>8. CASE Tick
  BY <1>8, TickKeeps
<1>9. CASE UNCHANGED vars
  BY <1>9 DEF vars, WatchInv, Types, IsState, IsRun, IsEntry, OneEach, Phases, Known, Pending,
                  Noticed, NoticedIn, Same, Entry, Counted
<1> QED BY <1>1, <1>2, <1>3, <1>4, <1>5, <1>6, <1>7, <1>8, <1>9 DEF Next, Proceed

\* Every reachable state satisfies the inductive invariant.
THEOREM WatchInvariant == Spec => []WatchInv
  BY WatchInit, WatchStep, PTL DEF Spec

\* Every variable keeps its type; the file holds one entry for a check and a
\* status at most.
THEOREM TypeCorrect == Spec => []TypeOK
<1>1. WatchInv => TypeOK
  BY Numbers DEF WatchInv, Types, IsRun, IsState, IsEntry, OneEach, TypeOK
<1> QED BY <1>1, WatchInvariant, PTL

\* A run passes over what it found bad only if that was noticed, with the same
\* status and text, in the last Renotify minutes, whatever run died in between
\* and whatever became of its file.
THEOREM NotPassedOverHolds == Spec => NotPassedOver
<1>1. ASSUME WatchInv, [Next]_vars
      PROVE  [run.pc = "check" /\ run'.pc = "notice" =>
                \A c \in watched : Bad(run.found[c]) => c \in run'.todo \/ Recent(heard, c) # {}]_vars
  <2>1. SUFFICES ASSUME run.pc = "check", run'.pc = "notice",
                        NEW c \in watched, Bad(run.found[c]), c \notin run'.todo
                 PROVE  Recent(heard, c) # {}
    OBVIOUS
  <2>2. Load
    <3>1. ~Start /\ ~StartDry /\ ~Post /\ ~NotPosted /\ ~Save
      BY <2>1 DEF Start, StartDry, Post, NotPosted, Notify, Save
    <3>2. ~Die
      BY <2>1, IdleIs DEF Die
    <3>3. ~LoseFile /\ ~UNCHANGED vars
      BY <2>1 DEF LoseFile, vars
    <3>4. ~Tick
      BY <2>1, <1>1, RunParts DEF Tick
    <3>5. ~MakeCheck
      BY <2>1, <1>1, RunParts DEF MakeCheck, FindsUnread, FindsAbsent, FindsPlain, FindsDisabled,
                           FindsEnabled, FindsReverse, Finds
    <3> QED BY <1>1, <3>1, <3>2, <3>3, <3>4, <3>5 DEF Next, Proceed
  <2>3. run'.todo = Todo
    BY <1>1, <2>2, RunParts DEF Load
  <2>4. PICK e \in file.sent : [e EXCEPT !.age = 0] = Entry(c) /\ e.age < Renotify
    BY <2>1, <2>3 DEF Todo, BadChecks, Recent
  <2>5. IsEntry(e) /\ IsEntry(Entry(c)) /\ [Entry(c) EXCEPT !.age = 0] = Entry(c)
    BY <1>1, RunParts, EntryIs DEF IsState
  <2>6. Same(e, Entry(c))
    BY <2>4, <2>5, SameUnaged
  <2>7. PICK h \in heard : Same(h, e) /\ h.age <= e.age
    BY <1>1 DEF WatchInv, Known, Noticed, NoticedIn
  <2>8. IsEntry(h) /\ Same(h, Entry(c))
    BY <1>1, <2>6, <2>7, RunParts DEF Same
  <2>9. [h EXCEPT !.age = 0] = Entry(c)
    BY <2>5, <2>8, SameUnaged
  <2>10. h.age < Renotify
    BY <2>4, <2>5, <2>7, <2>8, Numbers DEF IsEntry
  <2> QED BY <2>7, <2>9, <2>10 DEF Recent
<1> QED BY <1>1, WatchInvariant, PTL DEF Spec, NotPassedOver

\* What a check made finds is all that changes of what the run found, and that
\* apply is disabled past the limit is found of such a value in the file only.
LEMMA FoundDisabled ==
  ASSUME WatchInv, MakeCheck, NEW c \in watched, run'.found[c] # run.found[c],
         run'.found[c].status = "ALERT", run'.found[c].message[1] = "disabled"
  PROVE  lately > Limit
<1> DEFINE d == First(run.left)
           Says(check) == check.status = "ALERT" /\ check.message[1] = "disabled"
<1>1. ASSUME NEW check, NEW state, NEW e, Finds(e, check, state)
      PROVE  Says(check)
  <2>1. run'.found = [run.found EXCEPT ![e] = check]
    BY <1>1, RunParts DEF Finds
  <2>2. run'.found[c] = check
    BY <2>1, RunParts
  <2> QED BY <2>2
<1> HIDE DEF Says
<1>2. CASE FindsUnread(d) \/ FindsAbsent(d)
  <2>1. Says(Unread) \/ Says(Check("UNKNOWN", "absent", 0))
    BY <1>1, <1>2 DEF FindsUnread, FindsAbsent
  <2> QED BY <2>1, OthersSay DEF Says
<1>3. CASE FindsPlain(d)
  <2>1. PICK r \in Readings[d] : Finds(d, Verdict(d, r), file)
    BY <1>3 DEF FindsPlain
  <2>2. Says(Verdict(d, r)) /\ d \in DOMAIN Readings
    BY <1>1, <1>3, <2>1 DEF FindsPlain
  <2> QED BY <2>2, VerdictSays DEF Says
<1>4. CASE FindsDisabled
  <2> DEFINE since == IF file.since = None THEN 0 ELSE file.since
  <2>1. Finds("apply_lag", Held(since), [file EXCEPT !.since = since])
    BY <1>4 DEF FindsDisabled
  <2>2. Says(Held(since))
    BY <1>1, <2>1
  <2>3. since > Limit
    BY <2>2, HeldSays DEF Says
  <2>4. file.since # None /\ file.since > Limit /\ file.since \in 0..(Limit + 2)
    BY <2>3, RunParts, Numbers DEF IsState
  <2>5. lately \in 0..(Limit + 1) /\ (file.since <= lately \/ lately > Limit)
    BY <2>4 DEF WatchInv, Types, Counted
  <2> QED BY <2>4, <2>5, Numbers
<1>5. CASE FindsEnabled
  <2>1. PICK running \in BOOLEAN, age \in {None, 0, Limit + 1} :
          Finds("apply_lag", Progress(running, age), [file EXCEPT !.since = None])
    BY <1>5 DEF FindsEnabled
  <2>2. Says(Progress(running, age))
    BY <1>1, <2>1
  <2> QED BY <2>2, OthersSay DEF Says
<1>6. CASE FindsReverse
  <2>1. PICK errors \in 0..MaxErrors, age \in {None, 0, Limit + 1} :
          Finds("reverse", Rising(file.errors, errors, age), [file EXCEPT !.errors = errors])
    BY <1>6 DEF FindsReverse
  <2>2. Says(Rising(file.errors, errors, age))
    BY <1>1, <2>1
  <2> QED BY <2>2, OthersSay DEF Says
<1> QED BY <1>2, <1>3, <1>4, <1>5, <1>6 DEF MakeCheck

\* Apply is said to have been disabled for longer than the limit only when no run
\* reported it enabled in that time: a migration's own disable never alerts
\* because of an earlier one's.
THEOREM DisabledIsTrueHolds == Spec => DisabledIsTrue
<1>1. ASSUME WatchInv, [Next]_vars
      PROVE  [\A c \in watched : run'.found[c] # run.found[c] /\ run'.found[c].status = "ALERT"
                /\ run'.found[c].message[1] = "disabled" => lately > Limit]_vars
  <2>1. SUFFICES ASSUME NEW c \in watched, run'.found[c] # run.found[c],
                        run'.found[c].status = "ALERT", run'.found[c].message[1] = "disabled"
                 PROVE  lately > Limit
    OBVIOUS
  <2>2. MakeCheck
    <3>1. Idle.found[c].status = "OK" /\ [Idle EXCEPT !.pc = "check"].found[c].status = "OK"
      BY <2>1 DEF Idle, Ok, Check
    <3>2. ~Start
      BY <2>1, <3>1 DEF Start
    <3>3. ~StartDry
      <4>1. ASSUME StartDry PROVE run'.found = Idle.found
        BY <4>1 DEF StartDry, Idle
      <4> QED BY <2>1, <3>1, <4>1
    <3>4. run' # Idle
      BY <2>1, <3>1
    <3>5. ~Load
      <4>1. ASSUME Load PROVE run'.found = run.found
        BY <1>1, <4>1, RunParts DEF Load
      <4> QED BY <2>1, <4>1
    <3>6. \A outcome : ~Notify(outcome)
      <4>1. ASSUME NEW outcome, Notify(outcome) PROVE run'.found = run.found
        BY <1>1, <3>4, <4>1, RunParts DEF Notify
      <4> QED BY <2>1, <4>1
    <3>7. ~Save /\ ~Die /\ ~LoseFile /\ ~UNCHANGED vars
      BY <2>1, <3>4 DEF Save, Die, LoseFile, vars
    <3>8. ~Tick
      <4>1. ASSUME Tick PROVE run'.found = run.found
        BY <1>1, <4>1, RunParts DEF Tick
      <4> QED BY <2>1, <4>1
    <3> QED BY <1>1, <3>2, <3>3, <3>5, <3>6, <3>7, <3>8 DEF Next, Proceed, Post, NotPosted
  <2> QED BY <1>1, <2>1, <2>2, FoundDisabled
<1> QED BY <1>1, WatchInvariant, PTL DEF Spec, DisabledIsTrue

=============================================================================
