------------------------------ MODULE Follower ------------------------------
(***************************************************************************)
(* The schema follower of local/postgres (qpg/follower.py and the triggers *)
(* of qpg/follower_schema.py).                                             *)
(*                                                                         *)
(* A publisher commits transactions; an apply worker on the subscriber     *)
(* carries them over in commit order.  Logical replication carries no DDL, *)
(* so a migration stops apply at a trigger (the stall marker); the         *)
(* follower finds the error in the log, identifies the migration, disables *)
(* the subscription, replays the migration locally, undoes the rows the    *)
(* replay inserted, and enables the subscription again, so that apply      *)
(* carries production's own rows onto the migrated tables.                 *)
(*                                                                         *)
(* A transaction is known by its place in the commit order, which stands   *)
(* for its xid, its LSN and, for a migration, its version.  The psql       *)
(* calls of the daemon and of the operator's commands are steps of their   *)
(* own wherever the publisher, apply or another command can act between    *)
(* them; the daemon can die or lose its database connection at the points  *)
(* FaultPoints names, and a call that fails has had no effect.             *)
(*                                                                         *)
(* A definition marked "Variant" is the one below it with a mistake; none  *)
(* is used.  Each shows that a property notices the mistake (README).      *)
(***************************************************************************)
EXTENDS Naturals, Sequences, FiniteSets

CONSTANTS
  Tx,           \* the transactions the publisher may commit
  Target,       \* the pre-existing tables a migration may change
  CoordLane,    \* [follower] coord_lane
  MaxFailures,  \* [follower] max_step_failures
  ErrCodes,     \* what an apply error may carry: "schema", "refused"
  A4,           \* the operator may load a configuration that violates A4
  FaultPoints,  \* the pc values at which a fault may strike
  MaxTx,        \* bound: transactions committed
  MaxFaults     \* bound: crashes and database errors

\* The halt cases an operator can resolve, in the order the checks run.
CaseOrder == <<"rename", "key-change", "rewrite", "missing-value">>
Case == {"rename", "key-change", "rewrite", "missing-value"}
Shape == Case \X Target

\* A publisher transaction.  creates: it creates a published table.
\* quirk: "misfit" - its rows do not fit the subscriber whatever is replayed
\* (DML before later DDL; for an app transaction, local data in the way);
\* "moves" - it moves a table out of the publication (A3);
\* "alters" - it adds a column to the tables created before it.
TxType ==
  {t \in [kind : {"app", "web", "coord"}, creates : BOOLEAN,
          quirk : {"none", "misfit", "moves", "alters"}, cases : SUBSET Shape] :
     t.kind = "app" => ~t.creates /\ t.cases = {}}

ASSUME FollowerAssumption ==
  /\ Tx \subseteq TxType
  /\ CoordLane \in BOOLEAN
  /\ MaxFailures \in Nat \ {0}
  /\ MaxTx \in Nat
  /\ MaxFaults \in Nat
  /\ ErrCodes \subseteq {"schema", "refused"}
  /\ A4 \in BOOLEAN

Xid == 1 .. MaxTx

VARIABLES
  \* the publisher and PostgreSQL's own state on the subscriber
  pub,       \* committed transactions, in commit order
  origin,    \* pg_replication_origin_progress: transactions applied
  enabled,   \* pg_subscription.subenabled
  worker,    \* an apply worker is running
  err,       \* the newest apply error in the jsonlog
  subs,      \* created tables in pg_subscription_rel
  ready,     \* ... whose initial copy is done (srsubstate past 'd')
  \* the replicated database
  done,      \* migrations whose schema change is in place
  rows,      \* whose copy of a transaction's rows the database holds
  dirty,     \* tables whose rows differ from production's (history variable)
  trig,      \* replay-log and rewrite triggers installed
  \* the follower schema
  armed,     \* armed_versions
  replayLog, \* replay_log
  heads,     \* publisher_heads
  applied,   \* applied_revisions and applied_coord_versions, by remote_xid
  resolved,  \* resolutions
  owed,      \* owed
  repaired,  \* misfits an operator has repaired by hand
  st,        \* follower.state
  \* the processes
  pc,        \* where the daemon's cycle is
  mem,       \* what the cycle holds in memory
  fails,     \* the run loop's failures and notified_step
  op,        \* the operator's command
  lost,      \* a halt dropped what the state held (history variable)
  faults     \* faults so far (bound)

pgVars    == <<origin, enabled, worker, err, subs, ready>>
dbVars    == <<done, rows, dirty, trig>>
tabVars   == <<armed, replayLog, heads, applied, resolved, owed>>
loopVars  == <<pc, mem, fails>>
vars == <<pub, pgVars, dbVars, tabVars, repaired, st, loopVars, op, lost, faults>>

-----------------------------------------------------------------------------
\* "unknown": the detail of a migration in progress names no step.
Steps == {"none", "disable", "log", "relog", "migrate", "undo", "enable", "unknown"}
Reasons == {"none", "restall", "notMigration", "refused", "moved", "marker",
            "workers", "command", "shape", "others", "unknown", "failing", "a4"}
ResumeAt == {"resolved", "resuming", "enabled"}
CopyAt == {"waiting", "draining", "copied", "ending"}

StateType == [status : {"idle", "in_progress", "halted"}, reason : Reasons,
              step : Steps, xid : 0 .. MaxTx, was : BOOLEAN, off : BOOLEAN,
              targets : SUBSET Shape, stamped : BOOLEAN]

MemType == [lsn : 0 .. MaxTx, coord : 0 .. MaxTx, reason : Reasons,
            targets : SUBSET Shape, off : BOOLEAN,
            keep : {"step", "nothing", "unknown"}, a4 : BOOLEAN]

TypePublished ==
  /\ pub \in Seq(Tx) /\ Len(pub) \in 0 .. MaxTx
  /\ repaired \in SUBSET Xid

TypeReplication ==
  /\ origin \in 0 .. MaxTx
  /\ enabled \in BOOLEAN /\ worker \in BOOLEAN
  /\ err \in [xid : 0 .. MaxTx, code : {"schema", "refused"},
              fresh : BOOLEAN, hist : BOOLEAN, current : BOOLEAN]
  /\ subs \in SUBSET Xid /\ ready \in SUBSET Xid

TypeDatabase ==
  /\ done \in SUBSET Xid
  /\ rows \in [Xid -> {"none", "local", "prod", "twice"}]
  /\ dirty \in SUBSET Target
  /\ trig \in BOOLEAN

TypeTables ==
  /\ armed \in SUBSET Xid
  /\ replayLog \in [inserts : BOOLEAN, shapes : SUBSET Shape]
  /\ heads \in SUBSET Xid /\ applied \in SUBSET Xid
  /\ resolved \in SUBSET (Xid \X Shape)
  /\ owed \in SUBSET Target

TypeProcesses ==
  /\ st \in StateType
  /\ pc \in {"sleep", "coord", "look", "compare", "passed", "step", "drain", "save",
             "refresh", "stamp", "halt", "halted"}
  /\ mem \in MemType
  /\ fails \in [count : 0 .. MaxFailures, noted : BOOLEAN]
  /\ op \in [at : {"none"} \cup ResumeAt \cup CopyAt, lsn : 0 .. MaxTx,
            copied : SUBSET Target, read : StateType]
  /\ lost \in BOOLEAN
  /\ faults \in 0 .. MaxFaults

\* What the follower's state, PostgreSQL's and the processes' can be.
TypeOK ==
  TypePublished /\ TypeReplication /\ TypeDatabase /\ TypeTables /\ TypeProcesses

-----------------------------------------------------------------------------
(* The publisher. *)
IsMigration(i) == pub[i].kind # "app"
Committed(kind) == {i \in 1 .. Len(pub) : pub[i].kind = kind}
Created == {i \in 1 .. Len(pub) : pub[i].creates}
UpTo(S, n) == {i \in S : i <= n}

\* The version row of a single-head version table names the last one.
Head1(S) == {i \in S : \A j \in S : j <= i}

Commit ==
  /\ Len(pub) < MaxTx
  /\ \E t \in Tx : pub' = Append(pub, t)
  /\ UNCHANGED <<repaired, pgVars, dbVars, tabVars, st, loopVars, op, lost, faults>>

-----------------------------------------------------------------------------
(* The apply worker, with the stall marker.  A web migration UPDATEs its   *)
(* version row: the subscriber finds the old row only while the migration  *)
(* is not replayed, and then the marker raises.  A coord migration INSERTs *)
(* its history row, which the marker lets through only when it is armed,   *)
(* consuming the arming.  Before the replay a schema error stops apply too.*)

MarkerPasses(n) ==
  CASE pub[n].kind = "app"   -> TRUE
    [] pub[n].kind = "web"   -> n \in done
    [] pub[n].kind = "coord" -> n \in armed

Applicable(n) == MarkerPasses(n) /\ (pub[n].quirk = "misfit" => n \in repaired)
Clashes(n) == rows[n] = "local"

\* Variant: an armed version passes for ever.
ConsumedNever(n) == armed

\* The marker DELETEs the arming it lets through.
Consumed(n) == armed \ {n}

\* A row the replay inserted and nobody undid either raises a unique
\* violation or, in a table without a key, is there twice.
Apply ==
  LET n == origin + 1 IN
  /\ worker
  /\ n <= Len(pub)
  /\ Applicable(n)
  /\ origin' = n
  /\ rows' = [rows EXCEPT ![n] = IF Clashes(n) THEN "twice" ELSE "prod"]
  /\ armed' = Consumed(n)
  /\ UNCHANGED <<pub, repaired, enabled, worker, err, subs, ready, done, dirty, trig,
                 replayLog, heads, applied, resolved, owed, st, loopVars, op, lost, faults>>

\* Apply retries the failed transaction, and logs it again, every few seconds.
ApplyError ==
  LET n == origin + 1 IN
  /\ worker
  /\ n <= Len(pub)
  /\ ~Applicable(n) \/ Clashes(n)
  /\ \E code \in ErrCodes :
       err' = [xid |-> n, code |-> code, fresh |-> TRUE, hist |-> FALSE,
               current |-> TRUE]
  /\ UNCHANGED <<pub, repaired, origin, enabled, worker, subs, ready, dbVars, tabVars, st,
                 loopVars, op, lost, faults>>

WorkerStart ==
  /\ enabled /\ ~worker
  /\ worker' = TRUE
  /\ UNCHANGED <<pub, repaired, origin, enabled, err, subs, ready, dbVars, tabVars, st, loopVars,
                 op, lost, faults>>

\* A disabled subscription's worker exits some time later.
WorkerExit ==
  /\ ~enabled /\ worker
  /\ worker' = FALSE
  /\ UNCHANGED <<pub, repaired, origin, enabled, err, subs, ready, dbVars, tabVars, st, loopVars,
                 op, lost, faults>>

\* An error that apply has not repeated for stall_fresh_seconds.
ErrorAges ==
  /\ err.fresh /\ ~worker
  /\ err' = [err EXCEPT !.fresh = FALSE]
  /\ UNCHANGED <<pub, repaired, origin, enabled, worker, subs, ready, dbVars, tabVars, st, loopVars,
                 op, lost, faults>>

\* The initial copy of a created table needs every column the publisher has.
TableSync(i) ==
  /\ enabled /\ worker
  /\ i \in subs \ ready
  /\ \A j \in i + 1 .. Len(pub) : pub[j].quirk = "alters" => j \in done
  /\ ready' = ready \cup {i}
  /\ UNCHANGED <<pub, repaired, origin, enabled, worker, err, subs, dbVars, tabVars, st, loopVars,
                 op, lost, faults>>

-----------------------------------------------------------------------------
(* follower.state and what is read from it.                                *)
Idle(stamped) ==
  [status |-> "idle", reason |-> "none", step |-> "none", xid |-> 0, was |-> FALSE,
   off |-> FALSE, targets |-> {}, stamped |-> stamped]

InProgress(step, xid, was) ==
  [status |-> "in_progress", reason |-> "none", step |-> step, xid |-> xid, was |-> was,
   off |-> FALSE, targets |-> {}, stamped |-> FALSE]

NoFailures == [count |-> 0, noted |-> FALSE]
NoCommand == [at |-> "none", lsn |-> 0, copied |-> {}, read |-> Idle(FALSE)]
CopyRunning == op.at \in CopyAt

\* Variant: once the follower has enabled apply no error is a stall.
StallReadOnce == err.xid > origin /\ ~st.stamped /\ err.fresh

\* current_stall: the newest error, unless applied since, logged before the
\* follower last enabled apply, or not repeated recently.
StallRead ==
  /\ err.xid > origin
  /\ ~(st.stamped /\ err.hist)
  /\ err.fresh

SyncsInFlight == subs \ ready

\* caught_up: apply has passed the position and no table copy is in flight.
CaughtUp(lsn) == origin >= lsn /\ SyncsInFlight = {}

\* A coord history row is one of the rows its migration inserts.
LocalCoord == {i \in Committed("coord") : rows[i] # "none"}
SameVersions(lsn, coord) ==
  /\ Head1(UpTo(Committed("web"), lsn)) = Head1(Committed("web") \cap done)
  /\ CoordLane => UpTo(Committed("coord"), coord) = LocalCoord

MovedOut == \E i \in 1 .. Len(pub) : pub[i].quirk = "moves"

\* Variant: enables exactly when it should not.
EnableIfNot(cond) ==
  /\ enabled' = (enabled \/ ~cond)
  /\ err' = [err EXCEPT !.current = @ /\ (enabled \/ cond)]

\* ALTER SUBSCRIPTION ... ENABLE, if cond: what was logged before a change is past.
EnableIf(cond) ==
  /\ enabled' = (enabled \/ cond)
  /\ err' = [err EXCEPT !.current = @ /\ (enabled \/ ~cond)]

-----------------------------------------------------------------------------
(* The daemon's cycle: halting.                                            *)

\* keep: what the saved detail will hold of a migration in progress - what the
\* state holds of it ("step"), nothing, or a detail that names no step.
HaltKeeping(keep, reason, targets) ==
  /\ pc' = "halt"
  /\ mem' = [mem EXCEPT !.reason = reason, !.targets = targets, !.keep = keep]
  /\ lost' = (lost \/ keep = "unknown" \/ (keep = "nothing" /\ st.status # "idle"))

\* A Halt raised in the cycle keeps the migration in progress.
HaltWith(reason, targets) == HaltKeeping("step", reason, targets)

\* halt(): drop the replay triggers, then DISABLE if enabled; each may fail.
Halting(cleaned, disabled) ==
  /\ pc = "halt"
  /\ trig' = (trig /\ ~cleaned)
  /\ enabled' = (enabled /\ ~disabled)
  /\ mem' = [mem EXCEPT !.off = enabled /\ disabled]
  /\ pc' = "halted"
  /\ UNCHANGED <<pub, repaired, origin, worker, err, subs, ready, done, rows, dirty, tabVars, st,
                 fails, op, lost>>

\* "sleep" names the first query of a cycle, the read of the state.
MayFault ==
  /\ pc \in FaultPoints
  /\ faults < MaxFaults
  /\ pc = "sleep" => ~CopyRunning /\ ~mem.a4

HaltDisable == Halting(TRUE, TRUE) /\ UNCHANGED faults

\* A database error in the clean-up or the DISABLE is reported, and halt() goes on.
HaltPartly ==
  /\ MayFault
  /\ faults' = faults + 1
  /\ Halting(FALSE, TRUE) \/ Halting(TRUE, FALSE) \/ Halting(FALSE, FALSE)

Saved ==
  LET kept == mem.keep = "step" IN
  [status |-> "halted", reason |-> mem.reason,
   step |-> CASE mem.keep = "step"    -> st.step
              [] mem.keep = "nothing" -> "none"
              [] mem.keep = "unknown" -> "unknown",
   xid |-> IF kept THEN st.xid ELSE 0, was |-> kept /\ st.was,
   off |-> mem.off, targets |-> mem.targets, stamped |-> FALSE]

\* halt(): the halted state is written last, over whatever is there.
\* Halting from run() leaves the failure count to the next cycle.
HaltSave ==
  /\ pc = "halted"
  /\ st' = Saved
  /\ pc' = "sleep"
  /\ fails' = IF mem.reason = "failing" THEN fails ELSE NoFailures
  /\ UNCHANGED <<pub, repaired, pgVars, dbVars, tabVars, mem, op, lost, faults>>

-----------------------------------------------------------------------------
(* The daemon's cycle: the A4 guard and the publisher's snapshot.          *)

\* _guard_a4: a configuration that violates A4 halts every cycle before the
\* state is read, a halted follower's too, and with no detail.
PollViolated ==
  /\ pc = "sleep"
  /\ ~CopyRunning                       \* follower_lock
  /\ mem.a4
  /\ HaltKeeping("nothing", "a4", {})
  /\ UNCHANGED <<pub, repaired, pgVars, dbVars, tabVars, st, fails, op, faults>>

\* Variant: a position the publisher has not reached.
PublisherLsnNext == Len(pub) + 1

PublisherLsn == Len(pub)

\* pub_snapshot: the LSN and the web version row come from one query ...
Poll ==
  /\ pc = "sleep"
  /\ ~CopyRunning                       \* follower_lock
  /\ ~mem.a4
  /\ st.status # "halted"
  /\ mem' = [mem EXCEPT !.lsn = PublisherLsn]
  /\ pc' = "coord"
  /\ UNCHANGED <<pub, repaired, pgVars, dbVars, tabVars, st, fails, op, lost, faults>>

\* With the guard satisfied, a cycle of a halted follower only ends the run of
\* failures.
PollHalted ==
  /\ pc = "sleep"
  /\ ~mem.a4
  /\ st.status = "halted"
  /\ fails # NoFailures
  /\ fails' = NoFailures
  /\ UNCHANGED <<pub, repaired, pgVars, dbVars, tabVars, st, pc, mem, op, lost, faults>>

\* ... each coord history table from a later one; then record_heads.
RecordHeads ==
  /\ pc = "coord"
  /\ mem' = [mem EXCEPT !.coord = Len(pub)]
  /\ heads' = heads \cup Head1(UpTo(Committed("web"), mem.lsn))
                    \cup (IF CoordLane THEN Committed("coord") ELSE {})
  /\ pc' = IF st.status = "in_progress" THEN "step" ELSE "look"
  /\ UNCHANGED <<pub, repaired, pgVars, dbVars, armed, replayLog, applied, resolved, owed, st,
                 fails,
                 op, lost, faults>>

NoStall ==
  /\ pc = "look"
  /\ ~StallRead
  /\ pc' = "compare"
  /\ UNCHANGED <<pub, repaired, pgVars, dbVars, tabVars, st, mem, fails, op, lost, faults>>

\* _compare_heads: the subscriber's versions are read ...
CompareSame ==
  /\ pc = "compare"
  /\ SameVersions(mem.lsn, mem.coord)
  /\ pc' = "sleep"
  /\ fails' = NoFailures
  /\ UNCHANGED <<pub, repaired, pgVars, dbVars, tabVars, st, mem, op, lost, faults>>

CompareDiffers ==
  /\ pc = "compare"
  /\ ~SameVersions(mem.lsn, mem.coord)
  /\ pc' = "passed"
  /\ UNCHANGED <<pub, repaired, pgVars, dbVars, tabVars, st, mem, fails, op, lost, faults>>

\* ... and, where they differ, whether apply has passed the snapshot is read
\* after them (confirmed_flush_lsn may lag behind origin).
PassedRests ==
  /\ pc = "passed"
  /\ pc' = "sleep"
  /\ fails' = NoFailures
  /\ UNCHANGED <<pub, repaired, pgVars, dbVars, tabVars, st, mem, op, lost, faults>>

PassedHalts ==
  /\ pc = "passed"
  /\ CaughtUp(mem.lsn)
  /\ HaltWith("marker", {})
  /\ UNCHANGED <<pub, repaired, pgVars, dbVars, tabVars, st, fails, op, faults>>

-----------------------------------------------------------------------------
(* The daemon's cycle: _handle_stall.                                      *)
StallReason ==
  CASE err.xid \in applied     -> "restall"
    [] err.xid \notin heads    -> "notMigration"
    [] err.code = "refused"    -> "refused"
    [] MovedOut                -> "moved"
    [] OTHER                   -> "none"

StallHalts ==
  /\ pc = "look"
  /\ StallRead
  /\ StallReason # "none"
  /\ HaltWith(StallReason, {})
  /\ UNCHANGED <<pub, repaired, pgVars, dbVars, tabVars, st, fails, op, faults>>

\* DISABLE would abandon a table copy, so the stall waits for it.
StallWaits ==
  /\ pc = "look"
  /\ StallRead
  /\ StallReason = "none"
  /\ SyncsInFlight # {}
  /\ pc' = "sleep"
  /\ fails' = NoFailures
  /\ UNCHANGED <<pub, repaired, pgVars, dbVars, tabVars, st, mem, op, lost, faults>>

StallTaken ==
  /\ pc = "look"
  /\ StallRead
  /\ StallReason = "none"
  /\ SyncsInFlight = {}
  /\ st' = InProgress("disable", err.xid, enabled)
  /\ pc' = "step"
  /\ UNCHANGED <<pub, repaired, pgVars, dbVars, tabVars, mem, fails, op, lost, faults>>

-----------------------------------------------------------------------------
(* The step machine, _advance: a step runs, then the next one is persisted.*)
AtStep(step) == pc = "step" /\ st.status = "in_progress" /\ st.step = step

Disable ==
  /\ AtStep("disable")
  /\ enabled' = FALSE
  /\ pc' = "drain"
  /\ UNCHANGED <<pub, repaired, origin, worker, err, subs, ready, dbVars, tabVars, st, mem, fails,
                 op, lost, faults>>

\* Variant: DISABLE returned, so apply has stopped.
WorkersAssumedGone == TRUE

\* pg_stat_subscription shows no worker of the subscription.
WorkersGone == ~worker

Drained ==
  /\ pc = "drain"
  /\ WorkersGone
  /\ pc' = "save"
  /\ UNCHANGED <<pub, repaired, pgVars, dbVars, tabVars, st, mem, fails, op, lost, faults>>

DrainTimeout ==
  /\ pc = "drain"
  /\ ~WorkersGone
  /\ HaltWith("workers", {})
  /\ UNCHANGED <<pub, repaired, pgVars, dbVars, tabVars, st, fails, op, faults>>

\* _advance: the detail names no step.
StepUnknown ==
  /\ AtStep("unknown")
  /\ HaltWith("unknown", {})
  /\ UNCHANGED <<pub, repaired, pgVars, dbVars, tabVars, st, fails, op, faults>>

\* TRUNCATE replay_log and install the triggers.
StartLog ==
  /\ AtStep("log")
  /\ replayLog' = [inserts |-> FALSE, shapes |-> {}]
  /\ trig' = TRUE
  /\ pc' = "save"
  /\ UNCHANGED <<pub, repaired, pgVars, done, rows, dirty, armed, heads, applied, resolved, owed,
                 st,
                 mem, fails, op, lost, faults>>

\* Resuming before the undo: the log is kept, the triggers come back.
Relog ==
  /\ AtStep("relog")
  /\ trig' = TRUE
  /\ pc' = "save"
  /\ UNCHANGED <<pub, repaired, pgVars, done, rows, dirty, tabVars, st, mem, fails, op, lost,
                 faults>>

\* Variant: the touch trigger logs no insert.
ReplayCommitUnlogged(shapes) ==
  /\ rows' = [rows EXCEPT ![st.xid] = IF @ = "none" THEN "local" ELSE @]
  /\ replayLog' = [replayLog EXCEPT !.shapes = @ \cup (IF trig THEN shapes ELSE {})]

\* The rows one commit of the migration command leaves behind; the triggers
\* log them if they are installed.
ReplayCommit(shapes) ==
  /\ rows' = [rows EXCEPT ![st.xid] = IF @ = "none" THEN "local" ELSE @]
  /\ replayLog' = [inserts |-> replayLog.inserts \/ (trig /\ rows[st.xid] = "none"),
                   shapes  |-> replayLog.shapes \cup (IF trig THEN shapes ELSE {})]

\* A command that commits in parts may stop after one of them.
MigratePart ==
  /\ AtStep("migrate")
  /\ st.xid \notin done
  /\ rows[st.xid] = "none"
  /\ ReplayCommit({})
  /\ UNCHANGED <<pub, repaired, pgVars, done, dirty, trig, armed, heads, applied, resolved, owed,
                 st,
                 loopVars, op, lost, faults>>

\* Run to the recorded versions; it does nothing once they are in place.
Migrate ==
  /\ AtStep("migrate")
  /\ pc' = "save"
  /\ IF st.xid \in done
     THEN UNCHANGED <<done, rows, dirty, replayLog>>
     ELSE LET cases == pub[st.xid].cases IN
          /\ done' = done \cup {st.xid}
          /\ ReplayCommit({s \in cases : s[1] \in {"key-change", "rewrite"}})
          /\ dirty' = dirty \cup {t \in Target : \E c \in Case \ {"rename"} : <<c, t>> \in cases}
  /\ UNCHANGED <<pub, repaired, pgVars, trig, armed, heads, applied, resolved, owed, st, mem, fails,
                 op, lost, faults>>

MigrateFails ==
  /\ AtStep("migrate")
  /\ st.xid \notin done
  /\ HaltWith("command", {})
  /\ UNCHANGED <<pub, repaired, pgVars, dbVars, tabVars, st, fails, op, faults>>

\* _check_replay_shape: what still blocks the migration, case by case.
Blocking(c) ==
  {s \in Shape :
     /\ s[1] = c
     /\ IF c \in {"key-change", "rewrite"}
        THEN s \in replayLog.shapes
        ELSE s \in pub[st.xid].cases /\ <<st.xid, s>> \notin resolved}

UndoHalts ==
  /\ AtStep("undo")
  /\ \E k \in 1 .. 4 :
       /\ Blocking(CaseOrder[k]) # {}
       /\ \A j \in 1 .. k - 1 : Blocking(CaseOrder[j]) = {}
       /\ HaltWith("shape", Blocking(CaseOrder[k]))
  /\ trig' = FALSE
  /\ UNCHANGED <<pub, repaired, pgVars, done, rows, dirty, tabVars, st, fails, op, faults>>

\* Variant: the replay's rows stay.
UndoneNot == rows

\* The logged inserts are deleted, and a coord row among them is armed.
Undone == IF replayLog.inserts THEN [rows EXCEPT ![st.xid] = "none"] ELSE rows

Armed == IF replayLog.inserts /\ pub[st.xid].kind = "coord" THEN armed \cup {st.xid} ELSE armed

Recorded == applied \cup {st.xid}

\* _undo_replay_inserts: the deletions, the arming, the record of the migration,
\* the log's truncation and the step change are one transaction.
Undo ==
  /\ AtStep("undo")
  /\ \A c \in Case : Blocking(c) = {}
  /\ st.xid \in done                    \* _verify_local
  /\ trig' = FALSE
  /\ rows' = Undone
  /\ armed' = Armed
  /\ replayLog' = [inserts |-> FALSE, shapes |-> {}]
  /\ resolved' = {r \in resolved : r[1] # st.xid}
  /\ applied' = Recorded
  /\ st' = [st EXCEPT !.step = "enable"]
  /\ UNCHANGED <<pub, repaired, pgVars, done, dirty, heads, owed, loopVars, op, lost, faults>>

\* Variant: the replay is not undone.
NextStepSkipsUndo(step) ==
  CASE step = "disable" -> "log"
    [] step = "log"     -> "migrate"
    [] step = "relog"   -> "migrate"
    [] step = "migrate" -> "enable"

NextStep(step) ==
  CASE step = "disable" -> "log"
    [] step = "log"     -> "migrate"
    [] step = "relog"   -> "migrate"
    [] step = "migrate" -> "undo"

SaveStep ==
  /\ pc = "save"
  /\ st' = [st EXCEPT !.step = NextStep(st.step)]
  /\ pc' = "step"
  /\ UNCHANGED <<pub, repaired, pgVars, dbVars, tabVars, mem, fails, op, lost, faults>>

\* Variant: refreshes for the tables that are subscribed already.
RefreshesAgain == pub[st.xid].creates /\ st.xid \in subs

\* The migration's own tables are published and not yet subscribed.
NeedsRefresh == pub[st.xid].creates /\ st.xid \notin subs

\* _enable: tables other than the migration's are published and not yet
\* subscribed; a REFRESH would copy them too.
EnableHalts ==
  /\ AtStep("enable")
  /\ pub[st.xid].creates
  /\ Created \ (subs \cup {st.xid}) # {}
  /\ HaltWith("others", {})
  /\ UNCHANGED <<pub, repaired, pgVars, dbVars, tabVars, st, fails, op, faults>>

Enable ==
  /\ AtStep("enable")
  /\ pub[st.xid].creates => Created \ (subs \cup {st.xid}) = {}
  /\ EnableIf(st.was)
  /\ pc' = IF NeedsRefresh THEN "refresh" ELSE "stamp"
  /\ UNCHANGED <<pub, repaired, origin, worker, subs, ready, dbVars, tabVars, st, mem, fails,
                 op, lost, faults>>

\* REFRESH PUBLICATION adds every published table; each must exist locally,
\* and the subscription must be enabled.
Refreshable == enabled /\ Created \subseteq done

Refresh ==
  /\ pc = "refresh"
  /\ Refreshable
  /\ subs' = subs \cup Created
  /\ pc' = "stamp"
  /\ UNCHANGED <<pub, repaired, origin, enabled, worker, err, ready, dbVars, tabVars, st, mem,
                 fails,
                 op, lost, faults>>

\* enabled_at is read after enabling: errors logged until then are history.
Stamp ==
  /\ pc = "stamp"
  /\ st' = Idle(TRUE)
  /\ err' = [err EXCEPT !.hist = TRUE]
  /\ pc' = "sleep"
  /\ fails' = NoFailures
  /\ UNCHANGED <<pub, repaired, origin, enabled, worker, subs, ready, dbVars, tabVars, mem, op,
                 lost, faults>>

-----------------------------------------------------------------------------
(* Failures of the daemon.  run(): a database error ends the cycle.  It is *)
(* counted while the step notified_step names is one in progress, and      *)
(* MaxFailures of them halt (bound: a count past MaxFailures is no         *)
(* different).  If that halt fails too, the next cycle goes on.            *)

\* _notify_stuck_step: known - its read of the state, s, succeeds.  A state
\* that is not in progress leaves notified_step as it was.
Noted(s, known) == known /\ (fails.noted \/ s.status = "in_progress")

Count(noted) ==
  IF noted THEN IF fails.count < MaxFailures THEN fails.count + 1 ELSE MaxFailures ELSE 0

\* _halt_failing_step keeps the detail it reads as the migration in progress,
\* whatever the status beside it.
Kept(s) ==
  CASE s.status = "in_progress"                -> "step"
    [] s.stamped \/ s.step # "none" \/ s.off   -> "unknown"
    [] OTHER                                   -> "nothing"

HaltingFailed == pc \in {"halt", "halted"} /\ mem.reason = "failing"

CycleError(s, known, count) ==
  IF HaltingFailed
  THEN pc' = "sleep" /\ UNCHANGED <<mem, fails, lost>>
  ELSE /\ fails' = [count |-> count, noted |-> Noted(s, known)]
       /\ IF count = MaxFailures
          THEN HaltKeeping(Kept(s), "failing", {})
          ELSE pc' = "sleep" /\ UNCHANGED <<mem, lost>>

RefreshFails ==
  /\ pc = "refresh"
  /\ ~Refreshable
  /\ CycleError(st, TRUE, Count(Noted(st, TRUE)))
  /\ UNCHANGED <<pub, repaired, pgVars, dbVars, tabVars, st, op, faults>>

DatabaseError ==
  /\ MayFault
  /\ \E known \in BOOLEAN : CycleError(st, known, Count(Noted(st, known)))
  /\ faults' = faults + 1
  /\ UNCHANGED <<pub, repaired, pgVars, dbVars, tabVars, st, op>>

\* A publisher outage never counts.
PublisherError ==
  /\ MayFault
  /\ pc \in {"coord", "look", "passed", "step"}
  /\ \E known \in BOOLEAN : CycleError(st, known, fails.count)
  /\ faults' = faults + 1
  /\ UNCHANGED <<pub, repaired, pgVars, dbVars, tabVars, st, op>>

\* The cycle's last read of the state fails (FaultPoints names it "report"): the
\* error finds an idle follower.
StampUnreported ==
  /\ pc = "stamp"
  /\ "report" \in FaultPoints /\ faults < MaxFaults
  /\ st' = Idle(TRUE)
  /\ err' = [err EXCEPT !.hist = TRUE]
  /\ \E known \in BOOLEAN : CycleError(st', known, Count(Noted(st', known)))
  /\ faults' = faults + 1
  /\ UNCHANGED <<pub, repaired, origin, enabled, worker, subs, ready, dbVars, tabVars, op>>

\* The process dies; systemd starts it again and the state is read anew.
Crash ==
  /\ MayFault
  /\ pc' = "sleep"
  /\ fails' = NoFailures
  /\ faults' = faults + 1
  /\ UNCHANGED <<pub, repaired, pgVars, dbVars, tabVars, st, mem, op, lost>>

\* The operator edits the configuration and restarts the daemon.
Reconfigure ==
  /\ A4
  /\ pc = "sleep"
  /\ mem' = [mem EXCEPT !.a4 = ~@]
  /\ fails' = NoFailures
  /\ UNCHANGED <<pub, repaired, pgVars, dbVars, tabVars, st, pc, op, lost, faults>>

-----------------------------------------------------------------------------
(* The operator: resume, resolve, copy-columns.                            *)

\* Variant: a resume forgets the migration in progress.
ResumedIdle(s) == Idle(FALSE)

\* Variant: a resume goes on without the triggers the halt dropped.
ResumedAsItWas(s) == InProgress(s.step, s.xid, s.was)

\* A migration that halted before its undo re-installs the triggers.  (The
\* scope is recorded with step "migrate", so a halted "log" step starts anew.)
Resumed(s) == InProgress(IF s.step = "migrate" THEN "relog" ELSE s.step, s.xid, s.was)

\* resume(): the halted state is read ...
ResumeRead ==
  /\ op.at \in {"none", "resolved"}
  /\ st.status = "halted"
  /\ op' = [op EXCEPT !.at = "resuming", !.read = st]
  /\ UNCHANGED <<pub, repaired, pgVars, dbVars, tabVars, st, loopVars, lost, faults>>

\* ... a migration it holds goes on ...
ResumeMigration ==
  /\ op.at = "resuming"
  /\ op.read.step # "none"
  /\ st' = Resumed(op.read)
  /\ op' = NoCommand
  /\ UNCHANGED <<pub, repaired, pgVars, dbVars, tabVars, loopVars, lost, faults>>

\* ... and else: ENABLE when it was the halt that disabled, then idle.
ResumeEnable ==
  /\ op.at = "resuming"
  /\ op.read.step = "none"
  /\ EnableIf(op.read.off)
  /\ op' = [NoCommand EXCEPT !.at = "enabled"]
  /\ UNCHANGED <<pub, repaired, origin, worker, subs, ready, dbVars, tabVars, st, loopVars, lost,
                 faults>>

ResumeIdle ==
  /\ op.at = "enabled"
  /\ st' = Idle(FALSE)
  /\ op' = NoCommand
  /\ UNCHANGED <<pub, repaired, pgVars, dbVars, tabVars, loopVars, lost, faults>>

\* Variant: a table whose key changed is not owed.
OwedForValues(s) == IF s[1] \in {"rename", "key-change"} THEN owed ELSE owed \cup {s[2]}

\* Every case but a rename owes a copy of the table.
Owed(s) == IF s[1] = "rename" THEN owed ELSE owed \cup {s[2]}

\* resolve(): one target of the current halt; the last one goes on to resume().
Resolve(s) ==
  /\ op.at = "none"
  /\ st.status = "halted"
  /\ st.step # "none"
  /\ s \in st.targets
  /\ resolved' = resolved \cup {<<st.xid, s>>}
  /\ replayLog' = IF s[1] \in {"rewrite", "key-change"}
                  THEN [replayLog EXCEPT !.shapes = @ \ {s}] ELSE replayLog
  /\ owed' = Owed(s)
  /\ op' = IF \A r \in st.targets : <<st.xid, r>> \in resolved'
           THEN [op EXCEPT !.at = "resolved"] ELSE op
  /\ UNCHANGED <<pub, repaired, pgVars, dbVars, armed, heads, applied, st, loopVars, lost, faults>>

\* The manual remedy of a halt that is not a migration step's: the row in the
\* way of the stalled transaction is removed or the table re-seeded.
Repair ==
  LET n == origin + 1 IN
  /\ op.at = "none"
  /\ st.status = "halted"
  /\ n <= Len(pub) /\ pub[n].quirk = "misfit"
  /\ repaired' = repaired \cup {n}
  /\ UNCHANGED <<pub, pgVars, dbVars, tabVars, st, loopVars, op, lost, faults>>

\* copy-columns: under the follower lock, on an idle follower.
CopyStart ==
  /\ op.at = "none"
  /\ pc = "sleep"                       \* follower_lock
  /\ st.status = "idle"
  /\ enabled
  /\ op' = [op EXCEPT !.at = "waiting", !.lsn = Len(pub)]
  /\ UNCHANGED <<pub, repaired, pgVars, dbVars, tabVars, st, loopVars, lost, faults>>

CopyDisable ==
  /\ op.at = "waiting"
  /\ CaughtUp(op.lsn)
  /\ enabled' = FALSE
  /\ op' = [op EXCEPT !.at = "draining"]
  /\ UNCHANGED <<pub, repaired, origin, worker, err, subs, ready, dbVars, tabVars, st, loopVars,
                 lost, faults>>

\* Apply did not catch up in time.
CopyGivesUp ==
  /\ op.at = "waiting"
  /\ ~CaughtUp(op.lsn)
  /\ op' = NoCommand
  /\ UNCHANGED <<pub, repaired, pgVars, dbVars, tabVars, st, loopVars, lost, faults>>

\* The copy, if the publisher has no version the subscriber lacks ...
CopyRows(t) ==
  /\ op.at = "draining"
  /\ WorkersGone
  /\ SameVersions(Len(pub), Len(pub))
  /\ dirty' = dirty \ {t}
  /\ op' = [op EXCEPT !.at = "copied", !.copied = {t}]
  /\ UNCHANGED <<pub, repaired, pgVars, done, rows, trig, tabVars, st, loopVars, lost, faults>>

\* ... and then the owed rows it covers.
CopyClears ==
  /\ op.at = "copied"
  /\ owed' = owed \ op.copied
  /\ op' = [op EXCEPT !.at = "ending", !.copied = {}]
  /\ UNCHANGED <<pub, repaired, pgVars, dbVars, armed, replayLog, heads, applied, resolved, st,
                 loopVars, lost, faults>>

\* Refused by the version guard, by an unmatched row, or by the drain timeout.
CopyRefused ==
  /\ op.at = "draining"
  /\ op' = [op EXCEPT !.at = "ending"]
  /\ UNCHANGED <<pub, repaired, pgVars, dbVars, tabVars, st, loopVars, lost, faults>>

\* finally: ENABLE.
CopyEnable ==
  /\ op.at = "ending"
  /\ EnableIf(TRUE)
  /\ op' = NoCommand
  /\ UNCHANGED <<pub, repaired, origin, worker, subs, ready, dbVars, tabVars, st, loopVars, lost,
                 faults>>

\* The command dies (FaultPoints names it "command"): the lock goes with it.
CommandDies ==
  /\ op.at # "none"
  /\ "command" \in FaultPoints /\ faults < MaxFaults
  /\ op' = NoCommand
  /\ faults' = faults + 1
  /\ UNCHANGED <<pub, repaired, pgVars, dbVars, tabVars, st, loopVars, lost>>

-----------------------------------------------------------------------------
Init ==
  /\ pub = <<>>
  /\ origin = 0 /\ enabled = TRUE /\ worker = FALSE
  /\ err = [xid |-> 0, code |-> "schema", fresh |-> FALSE, hist |-> FALSE, current |-> FALSE]
  /\ subs = {} /\ ready = {}
  /\ done = {} /\ rows = [i \in Xid |-> "none"] /\ dirty = {} /\ trig = FALSE
  /\ armed = {} /\ replayLog = [inserts |-> FALSE, shapes |-> {}]
  /\ heads = {} /\ applied = {} /\ resolved = {} /\ owed = {}
  /\ repaired = {}
  /\ st = Idle(FALSE)
  /\ pc = "sleep" /\ fails = NoFailures /\ lost = FALSE /\ faults = 0
  /\ mem = [lsn |-> 0, coord |-> 0, reason |-> "none", targets |-> {}, off |-> FALSE,
            keep |-> "step", a4 |-> FALSE]
  /\ op = NoCommand

Subscriber ==
  \/ Apply \/ ApplyError \/ WorkerStart \/ WorkerExit \/ ErrorAges
  \/ \E i \in Xid : TableSync(i)

Daemon ==
  \/ PollViolated \/ Poll \/ PollHalted \/ RecordHeads \/ NoStall \/ CompareSame \/ CompareDiffers
  \/ PassedRests \/ PassedHalts \/ StallHalts \/ StallWaits \/ StallTaken
  \/ Disable \/ Drained \/ DrainTimeout \/ StepUnknown \/ StartLog \/ Relog
  \/ MigratePart \/ Migrate \/ MigrateFails \/ UndoHalts \/ Undo \/ SaveStep
  \/ EnableHalts \/ Enable \/ Refresh \/ RefreshFails \/ Stamp
  \/ HaltDisable \/ HaltSave

Operator ==
  \/ Reconfigure
  \/ ResumeRead \/ ResumeMigration \/ ResumeEnable \/ ResumeIdle
  \/ \E s \in Shape : Resolve(s)
  \/ Repair
  \/ CopyStart \/ CopyDisable \/ CopyGivesUp \/ CopyRefused \/ CopyClears \/ CopyEnable
  \/ \E t \in Target : CopyRows(t)

Fault ==
  \/ HaltPartly \/ DatabaseError \/ PublisherError \/ StampUnreported \/ Crash \/ CommandDies

Next == Commit \/ Subscriber \/ Daemon \/ Operator \/ Fault

Spec == Init /\ [][Next]_vars

-----------------------------------------------------------------------------
(* Safety.                                                                 *)

\* Every transaction apply has passed is there once, with production's rows,
\* and a migration only with its schema change: no crash, halt, resume or
\* resolution makes one skipped, doubled or kept with the replay's own rows
\* (the promise at the head of follower.py).
CarriedExactly ==
  \A i \in 1 .. origin : rows[i] = "prod" /\ (IsMigration(i) => i \in done)

\* While a row of the replay is in the database, apply is not running and
\* nothing has enabled it (step 4: replay with the subscription DISABLED).
ApplyNeverMeetsReplay ==
  (\E i \in Xid : rows[i] = "local") => ~worker /\ ~enabled

Replaying == {"log", "relog", "migrate", "undo"}

\* Until its undo commits, a migration is replayed on a subscriber that holds
\* exactly the transactions before it.
ReplayOnExactPrefix ==
  st.step \in Replaying \cup {"disable"} => st.xid = origin + 1

\* No replay trigger and no rewrite event trigger outlives the replay it was
\* installed for (the leftover check of follower check).  A halt may fail to
\* remove them, and says so; where it also dropped the replay, they stay.
TriggersOnlyInReplay ==
  trig => st.step \in Replaying \/ lost

\* A version let through the marker once belongs to a migration whose undo is
\* committed and whose rows apply has yet to bring: an arming never survives
\* its transaction.
ArmedIsPending ==
  \A i \in armed : i > origin /\ i \in applied /\ rows[i] = "none"

\* Once a migration is past its undo, every table whose rows the operator let
\* diverge is on record as owed until copy-columns has covered it.
NoSilentDivergence ==
  st.step \in {"none", "enable"} => dirty \subseteq owed \/ lost

\* When the follower reports that it has settled, every table the publisher's
\* migrations created is subscribed and copied.
SettledIsComplete ==
  st.status = "idle" /\ CaughtUp(Len(pub)) => Created \subseteq ready \/ lost

Dropped == st.step \notin {"none", "unknown"} /\ st'.step \in {"none", "unknown"}
Ended == st.xid \in applied /\ (st.was => enabled)

\* A migration in progress ends only after its undo has committed and with the
\* subscription as it was before, unless a halt that does not carry it over has
\* dropped it.
NeverAbandoned ==
  [][Dropped => Ended \/ lost']_vars

\* What follower.py says of it: "Every step is persisted in follower.state so a
\* restart resumes where it stopped".
EveryStepResumes ==
  [][Dropped => Ended]_vars

Finishes == op.at = "enabled" /\ op'.at = "none"

\* A finished resume leaves the subscription enabled, whatever halts went
\* before, unless one of them has dropped what the state held.
ResumeReenables ==
  [][Finishes => enabled' \/ lost]_vars

-----------------------------------------------------------------------------
(* The promise, and how this module keeps it: a migration is carried when  *)
(* its undo commits; the replay's rows, there only while apply is stopped, *)
(* are not an effect.                                                      *)
Promise == INSTANCE SchemaCarry WITH
  carried <- applied,
  image   <- [i \in Xid |-> IF rows[i] = "local" THEN "none" ELSE rows[i]]

\* The follower keeps its promise: each of its steps is one of SchemaCarry's
\* or changes nothing the promise speaks of.
KeepsPromise == Promise!CarrySpec

-----------------------------------------------------------------------------
(* Liveness: PostgreSQL's workers run, the daemon polls, systemd restarts  *)
(* it, and a command once begun ends.                                      *)
CommandEnds ==
  \/ (op.at = "resolved" /\ ResumeRead) \/ ResumeMigration \/ ResumeEnable \/ ResumeIdle
  \/ CopyDisable \/ CopyGivesUp \/ CopyRefused \/ CopyClears \/ CopyEnable

Fairness ==
  /\ WF_vars(Apply) /\ WF_vars(ApplyError)
  /\ WF_vars(WorkerStart) /\ WF_vars(WorkerExit)
  /\ \A i \in Xid : WF_vars(TableSync(i))
  /\ WF_vars(Daemon)
  /\ WF_vars(CommandEnds)

FairSpec == Spec /\ Fairness

\* Every committed transaction is applied in the end, or the follower halts,
\* unless an operator keeps running copy-columns, which holds the lock, or a
\* halt has dropped what the state held.
AppliedOrHalted ==
  <>[](~CopyRunning) =>
    \A i \in Xid : i <= Len(pub) ~> (origin >= i \/ st.status = "halted" \/ lost)

=============================================================================
