------------------------------ MODULE Watchdog ------------------------------
(***************************************************************************)
(* The watchdog (local/postgres/lib/qpg/watchdog.py, run) and its notices  *)
(* (notify.py).                                                            *)
(*                                                                         *)
(* A timer starts a run a minute after it started the last one, unless     *)
(* that one still runs.  A run makes the checks in order, then reads what  *)
(* earlier runs noticed from its state file, notices what is bad and new   *)
(* or was last noticed long ago, and writes what it noticed to the file.   *)
(* Two checks keep a value of their own in that file: when apply was first *)
(* found disabled, and the reverse subscription's error count.             *)
(*                                                                         *)
(* A check that cannot read its signal is UNKNOWN and is noticed as well.  *)
(* A notice that is refused counts as noticed; one that raises (curl does  *)
(* not end or is not there, no room for its file) ends the run where it    *)
(* is, with the file as the checks left it.                                *)
(*                                                                         *)
(* The clock counts minutes; the file and the run hold ages, kept up to    *)
(* where they stop mattering.                                              *)
(***************************************************************************)
EXTENDS Integers, Sequences, FiniteSets

CONSTANTS
  Watches,    \* sets of checks: those of one change, all others stay OK
  Limit,      \* lag_alert_seconds and follower_lag_alert_seconds
  Renotify,   \* renotify_minutes
  MaxErrors,  \* bound: the reverse subscription's error count
  MaxFaults   \* bound: kills, notices or saves that fail, lost files, dry runs

None == -1
Order == <<"slot", "orphan_sync_slots", "apply_lag", "follower", "free_space",
           "archiver", "replica_identity", "reverse">>
All == {Order[i] : i \in DOMAIN Order}

\* The first of some checks.
First(checks) ==
  Order[CHOOSE i \in DOMAIN Order : Order[i] \in checks /\ \A j \in 1..(i - 1) : Order[j] \notin checks]

ASSUME WatchdogAssumption ==
  /\ Watches \subseteq SUBSET All
  /\ {Limit, MaxErrors, MaxFaults} \subseteq Nat /\ Renotify \in Nat \ {0}

VARIABLES
  watched,  \* the checks that change
  file,     \* the state file
  run,      \* the run: the checks to make and to notice, what it found, what it
            \* will save
  sick,     \* the checks last found bad, or apply disabled
  heard,    \* the notices made of what the file records, and when
  lately,   \* minutes since a run last reported apply enabled
  faults    \* faults so far

vars == <<watched, file, run, sick, heard, lately, faults>>

-----------------------------------------------------------------------------
(* The checks.  A message is its text and the number in it. *)

Check(status, text, n) == [status |-> status, message |-> <<text, n>>]
Ok == Check("OK", "", 0)
Unread == Check("UNKNOWN", "could not read", 0)
Bad(check) == check.status \in {"ALERT", "UNKNOWN"}

CheckSlot(r) ==
  IF ~r.named THEN Check("UNKNOWN", "absent", 0)
  ELSE IF ~r.row THEN Check("ALERT", "missing", 0)
  ELSE IF r.lost THEN Check("ALERT", "lost", r.retained)
  ELSE IF r.retained < 0 THEN Check("UNKNOWN", "retained", r.retained)
  ELSE IF r.retained >= Limit THEN Check("ALERT", "retained", r.retained)
  ELSE Ok

\* The inactive tablesync slots, and those of the tables still syncing.
CheckOrphanSyncSlots(r) ==
  LET own == r.found \cap r.syncing
      orphans == r.found \ own IN
  IF ~r.sysid THEN Unread
  ELSE IF r.found = {} THEN Ok
  ELSE IF orphans = {} THEN Check("INFO", "own", Cardinality(own))
  ELSE Check("ALERT", IF own = {} THEN "orphans" ELSE "orphans and own", Cardinality(orphans))

CheckFollower(r) ==
  IF ~r.row THEN Check("UNKNOWN", "empty", 0)
  ELSE IF r.status = "halted" THEN Check("ALERT", "halted", 0)
  ELSE IF r.status = "in_progress" /\ r.age > Limit THEN Check("ALERT", "step", r.age)
  ELSE IF r.mismatch # None /\ r.mismatch > Limit THEN Check("ALERT", "differ", r.mismatch)
  ELSE Ok

CheckFreeSpace(r) == IF r.free < r.floor THEN Check("ALERT", "free", r.free) ELSE Ok

CheckArchiver(r) == IF r.enabled /\ r.failing THEN Check("ALERT", "failing", 0) ELSE Ok

CheckReplicaIdentity(r) ==
  IF r.offenders > 0 THEN Check("ALERT", "offenders", r.offenders) ELSE Ok

Readings ==
  [slot |-> [named : BOOLEAN, row : BOOLEAN, lost : BOOLEAN, retained : {None, 0, Limit}],
   orphan_sync_slots |-> [sysid : BOOLEAN, found : SUBSET {"s", "t"}, syncing : SUBSET {"s", "t"}],
   follower |-> [row : BOOLEAN, status : {"idle", "in_progress", "halted"},
                 age : {0, Limit + 1}, mismatch : {None, 0, Limit + 1}],
   free_space |-> [free : 0..1, floor : {1}],
   archiver |-> [enabled : BOOLEAN, failing : BOOLEAN],
   replica_identity |-> [offenders : 0..1]]

\* What a check that keeps nothing may find.
Verdict(c, r) ==
  CASE c = "slot" -> CheckSlot(r)
    [] c = "orphan_sync_slots" -> CheckOrphanSyncSlots(r)
    [] c = "follower" -> CheckFollower(r)
    [] c = "free_space" -> CheckFreeSpace(r)
    [] c = "archiver" -> CheckArchiver(r)
    [] c = "replica_identity" -> CheckReplicaIdentity(r)

\* apply_lag of an enabled subscription: whether its worker runs and its age.
Progress(running, age) ==
  IF ~running THEN Check("ALERT", "no worker", 0)
  ELSE IF age = None THEN Check("UNKNOWN", "no latest_end_time", 0)
  ELSE IF age > Limit THEN Check("ALERT", "no progress", age)
  ELSE Ok

Held(since) == Check(IF since > Limit THEN "ALERT" ELSE "OK", "disabled", since)

\* The reverse subscription: the count of the run before and this one's.
Rising(before, errors, age) ==
  IF before # None /\ errors > before
  THEN Check("ALERT", "rose", (MaxErrors + 1) * before + errors)
  ELSE IF age = None \/ age > Limit THEN Check("ALERT", "lag", age)
  ELSE Ok

-----------------------------------------------------------------------------
(* The run. *)

EmptyState == [sent |-> {}, since |-> None, errors |-> None]
Idle == [pc |-> "idle", left |-> watched, found |-> [c \in watched |-> Ok], state |-> EmptyState,
         todo |-> {}, dry |-> FALSE]

Init ==
  /\ watched \in Watches
  /\ file = EmptyState
  /\ run = Idle
  /\ sick = {}
  /\ heard = {}
  /\ lately = Limit + 1
  /\ faults = 0

Fault == faults < MaxFaults /\ faults' = faults + 1

\* A run, the timer's or an operator's: one a minute at least.
Start ==
  /\ run.pc = "idle"
  /\ run' = [Idle EXCEPT !.pc = "check"]
  /\ UNCHANGED <<watched, file, sick, heard, lately, faults>>

\* An operator's run with --dry-run-notify, while no other runs.
StartDry ==
  /\ run.pc = "idle" /\ Fault
  /\ run' = [Idle EXCEPT !.pc = "check", !.dry = TRUE]
  /\ UNCHANGED <<watched, file, sick, heard, lately>>

\* A check is made: what it reports, and the state it leaves in the file.
Finds(c, check, state) ==
  /\ run' = [run EXCEPT !.left = @ \ {c}, !.found[c] = check]
  /\ file' = state
  /\ sick' = IF Bad(check) \/ check.message[1] = "disabled" THEN sick \cup {c} ELSE sick \ {c}

\* _guard: a signal, or the state file, that cannot be read or written.
FindsUnread(c) == Finds(c, Unread, file) /\ UNCHANGED lately

FindsPlain(c) ==
  /\ c \in DOMAIN Readings
  /\ \E r \in Readings[c] : Finds(c, Verdict(c, r), file)
  /\ UNCHANGED lately

\* check_apply_lag of a disabled and of an enabled subscription.
FindsDisabled ==
  LET since == IF file.since = None THEN 0 ELSE file.since IN
  Finds("apply_lag", Held(since), [file EXCEPT !.since = since]) /\ UNCHANGED lately

\* Variant: the value is dropped and not saved.
FindsEnabledUnsaved ==
  /\ \E running \in BOOLEAN, age \in {None, 0, Limit + 1} :
       Finds("apply_lag", Progress(running, age), file)
  /\ lately' = 0

FindsEnabled ==
  /\ \E running \in BOOLEAN, age \in {None, 0, Limit + 1} :
       Finds("apply_lag", Progress(running, age), [file EXCEPT !.since = None])
  /\ lately' = 0

FindsReverse ==
  /\ \E errors \in 0..MaxErrors, age \in {None, 0, Limit + 1} :
       Finds("reverse", Rising(file.errors, errors, age), [file EXCEPT !.errors = errors])
  /\ UNCHANGED lately

\* pg_subscription has no row of the name.
FindsAbsent(c) == Finds(c, Check("UNKNOWN", "absent", 0), file) /\ UNCHANGED lately

MakeCheck ==
  /\ run.pc = "check" /\ run.left # {}
  /\ LET c == First(run.left) IN
     \/ FindsUnread(c)
     \/ FindsPlain(c)
     \/ c = "apply_lag" /\ (FindsAbsent(c) \/ FindsDisabled \/ FindsEnabled)
     \/ c = "reverse" /\ (FindsAbsent(c) \/ FindsReverse)
  /\ UNCHANGED <<watched, heard, faults>>

Entry(c) == [check |-> c, status |-> run.found[c].status, message |-> run.found[c].message, age |-> 0]

\* The entries of a set for the same alert that are recent enough to stay silent.
Recent(entries, c) == {e \in entries : [e EXCEPT !.age = 0] = Entry(c) /\ e.age < Renotify}

Unaged(entries) == {[e EXCEPT !.age = 0] : e \in entries}
Recorded(entries, state) == {e \in entries : [e EXCEPT !.age = 0] \in Unaged(state.sent)}

\* What is bad, what of it is noticed, and what will be saved.
BadChecks == {c \in watched : Bad(run.found[c])}
Todo == {c \in BadChecks : Recent(file.sent, c) = {}}
Silent == UNION {Recent(file.sent, c) : c \in BadChecks}

\* Variants: the old entries are kept; a silent alert counts as noticed now.
FreshKeepsOld == {Entry(c) : c \in Todo} \cup file.sent
FreshRenews == {Entry(c) : c \in BadChecks}

Fresh == {Entry(c) : c \in Todo} \cup Silent

\* Variant: what will be noticed is saved before it is.
LoadSaves ==
  /\ run.pc = "check" /\ run.left = {}
  /\ file' = [file EXCEPT !.sent = Fresh]
  /\ run' = [run EXCEPT !.pc = "notice", !.todo = Todo, !.state = file']
  /\ UNCHANGED <<watched, sick, heard, lately, faults>>

Load ==
  /\ run.pc = "check" /\ run.left = {}
  /\ run' = [run EXCEPT !.pc = "notice", !.todo = Todo, !.state = [file EXCEPT !.sent = Fresh]]
  /\ UNCHANGED <<watched, file, sick, heard, lately, faults>>

Now(entries, entry) == {e \in entries : [e EXCEPT !.age = 0] # entry} \cup {entry}

\* Notifier.notice is called for the next of them.
Notify(outcome) ==
  /\ run.pc = "notice" /\ run.todo # {}
  /\ LET c == First(run.todo)
         all == Now(heard, Entry(c)) IN
     IF outcome = "raised" THEN run' = Idle /\ heard' = Recorded(all, file)
     ELSE run' = [run EXCEPT !.todo = @ \ {c}] /\ heard' = all
  /\ UNCHANGED <<watched, file, sick, lately>>

\* It logs the notice and, but in a dry run, posts it, which may be refused or raise.
Post == ~run.dry /\ Notify("posted") /\ UNCHANGED faults

NotPosted ==
  \/ run.dry /\ Notify("logged") /\ UNCHANGED faults
  \/ ~run.dry /\ (Notify("refused") \/ Notify("raised")) /\ Fault

Save ==
  /\ run.pc = "notice" /\ run.todo = {}
  /\ \/ file' = run.state /\ UNCHANGED faults
     \/ Fault /\ UNCHANGED file
  /\ run' = Idle
  /\ heard' = Recorded(heard, file')
  /\ UNCHANGED <<watched, sick, lately>>

Die ==
  /\ run.pc # "idle" /\ Fault
  /\ run' = Idle
  /\ heard' = Recorded(heard, file)
  /\ UNCHANGED <<watched, file, sick, lately>>

\* The file is gone, or a crash left no JSON in it.
LoseFile ==
  /\ file # EmptyState /\ Fault
  /\ file' = EmptyState
  /\ UNCHANGED <<watched, run, sick, heard, lately>>

\* A minute.  Past Limit two ages tell one minute's text from the next's.
Aged(entries) == {[e EXCEPT !.age = IF @ < Renotify THEN @ + 1 ELSE @] : e \in entries}
Later(state) ==
  [state EXCEPT !.sent = Aged(@),
     !.since = IF @ = None THEN None ELSE IF @ > Limit + 1 THEN Limit + 1 ELSE @ + 1]

Tick ==
  /\ file' = Later(file)
  /\ run' = [run EXCEPT !.state = Later(@)]
  /\ heard' = Aged(heard)
  /\ lately' = IF lately > Limit THEN lately ELSE lately + 1
  /\ UNCHANGED <<watched, sick, faults>>

Proceed == Start \/ MakeCheck \/ Load \/ Post \/ NotPosted \/ Save

Next == Proceed \/ StartDry \/ Die \/ LoseFile \/ Tick

\* The timer fires, a run's queries and commands have timeouts, time passes.
Spec == Init /\ [][Next]_vars /\ WF_vars(Proceed) /\ WF_vars(Tick)

-----------------------------------------------------------------------------
(* Properties. *)

\* Every variable keeps its type; the file holds one entry for a check and a
\* status at most.
TypeOK ==
  /\ watched \in Watches /\ sick \subseteq watched
  /\ run.pc \in {"idle", "check", "notice"} /\ run.left \cup run.todo \subseteq watched
  /\ \A s \in {file, run.state} :
       /\ s.since \in {None} \cup 0..Limit + 2 /\ s.errors \in {None} \cup 0..MaxErrors
       /\ \A e \in s.sent : e.check \in watched /\ e.age \in 0..Renotify
       /\ \A e, f \in s.sent : e.check = f.check => e = f
  /\ lately \in 0..Limit + 1 /\ faults \in 0..MaxFaults

\* A run passes over what it found bad only if that was noticed, with the same
\* status and text, in the last Renotify minutes, whatever run died in between
\* and whatever became of its file.
NotPassedOver ==
  [][run.pc = "check" /\ run'.pc = "notice" =>
       \A c \in watched : Bad(run.found[c]) => c \in run'.todo \/ Recent(heard, c) # {}]_vars

\* Apply is said to have been disabled for longer than the limit only when no run
\* reported it enabled in that time: a migration's own disable never alerts
\* because of an earlier one's.
DisabledIsTrue ==
  [][\A c \in watched : run'.found[c] # run.found[c] /\ run'.found[c].status = "ALERT"
       /\ run'.found[c].message[1] = "disabled" => lately > Limit]_vars

\* A check that stays bad, whatever it says, or apply that stays disabled or
\* unread, is posted again and again.
StaysBadStaysNoticed ==
  \A c \in All :
    <>[](c \in sick) => []<><<Post /\ First(run.todo) = c>>_vars

=============================================================================
