--------------------------- MODULE FollowerProofs ---------------------------
(***************************************************************************)
(* The theorems about the schema follower (README, section 6).             *)
(*                                                                         *)
(* That apply brings each row once depends on the replay's copy being      *)
(* gone, which depends on its having been logged, which depends on the     *)
(* triggers being there whenever the migration command can run, which      *)
(* depends on where a halt or a crash left the step machine.  IInv says    *)
(* so part by part.  A halt that does not carry over the migration in hand *)
(* leaves its rows where they are; then apply is stopped, and nothing that *)
(* is left would start it (Stranded).                                      *)
(*                                                                         *)
(* One lemma per action shows that the action keeps IInv, part by part;    *)
(* Frame takes the parts the action does not touch, and CycleMoves the     *)
(* actions that only move the daemon's cycle.                              *)
(*                                                                         *)
(* Faults may strike anywhere.  The parts of IInv that a fault between the *)
(* two halves of halt() breaks are stated under NoFaultInHalt, and so are  *)
(* the theorems that rest on them.                                         *)
(***************************************************************************)
EXTENDS Follower, TLAPS

-----------------------------------------------------------------------------
(* The inductive invariant.                                                *)

\* No fault strikes halt() between its DISABLE and the saving of the halted
\* state: the one window in which CarriedExactly does not survive a crash.
NoFaultInHalt == "halted" \notin FaultPoints

\* Where the cycle, the command and follower.state can be together.
Control ==
  /\ st.status = "halted" => pc \in {"sleep", "halt", "halted"}
  /\ CopyRunning => pc = "sleep" /\ st.status = "idle"
  /\ op.at \in ResumeAt => st.status = "halted"
  /\ op.at = "enabled" => st.step \in {"none", "unknown"}
  /\ op.at # "resuming" => op.read.step = "none" /\ ~op.read.was /\ ~op.read.off
  /\ st.targets # {} => st.status = "halted"
  /\ st.status = "idle" => st.step = "none"
  /\ st.status = "in_progress" => st.step # "none"
  /\ pc \in {"look", "compare", "passed"} => st.status = "idle"
  /\ pc \in {"step", "drain", "save", "refresh", "stamp"} => st.status = "in_progress"
  /\ pc = "drain" => st.step = "disable"
  /\ pc = "save" => st.step \in {"disable", "log", "relog", "migrate"}
  /\ pc \in {"refresh", "stamp"} => st.step = "enable"

\* A halt that does not carry over what the state holds is on record as such,
\* and names no targets.
Losing ==
  pc \in {"halt", "halted"} =>
    /\ mem.keep # "step" => lost \/ (mem.keep = "nothing" /\ st.status = "idle")
    /\ st.status = "halted" => mem.keep # "step"
    /\ mem.targets # {} => mem.keep = "step" /\ st.step = "undo"

\* What a resume has read is still the state, or a halt has dropped it since.
Reading ==
  op.at = "resuming" =>
    \/ st = op.read
    \/ /\ lost /\ st.step \in {"none", "unknown"} /\ ~st.was
       /\ op.read.step \in Replaying => ~st.off

\* From the drain to the enable step apply is stopped, and no halt meanwhile
\* found it running; after it, apply is back.
Quiesced ==
  /\ pc = "drain" => ~enabled
  /\ pc = "save" \/ st.step \in Replaying \/ op.read.step \in Replaying =>
       ~enabled /\ ~worker /\ (pc = "halted" => ~mem.off)
  /\ pc \in {"refresh", "stamp"} /\ st.was => enabled

\* The triggers are there whenever the migration command can run, and only
\* inside a replay.
Triggers ==
  /\ NoFaultInHalt =>
       (st.status = "in_progress" /\ st.step = "migrate" /\ pc # "halted" => trig)
  /\ pc = "save" /\ st.step \in {"log", "relog"} => trig
  /\ TriggersOnlyInReplay

\* The migration s speaks of.
Holds(s) ==
  /\ s.step \notin {"none", "unknown"} => s.xid \in 1 .. Len(pub) /\ IsMigration(s.xid)
  /\ s.step \in Replaying \cup {"disable"} => s.xid = origin + 1 /\ s.xid \notin applied
  /\ s.step = "enable" => s.xid \in applied
  /\ s.targets # {} => s.step = "undo"

\* The migration in hand, and the one a resume has read.
InHand == Holds(st) /\ Holds(op.read)

\* What the database and the follower's tables say of each transaction.
Books ==
  /\ origin <= Len(pub)
  /\ err.xid <= origin + 1 /\ err.xid <= Len(pub)
  /\ heads \subseteq {i \in 1 .. Len(pub) : IsMigration(i)}
  /\ applied \subseteq done /\ applied \subseteq 1 .. Len(pub)
  /\ \A i \in done \ applied : rows[i] = "local"
  /\ \A i \in 1 .. origin : IsMigration(i) => i \in applied
  /\ \A i \in Xid : i > origin => rows[i] \in {"none", "local"}

\* The tables of a replayed migration are subscribed before it is closed.
Subscribed ==
  \A i \in applied : pub[i].creates =>
    i \in subs \/ (st.step = "enable" /\ i = st.xid /\ pc # "stamp") \/ lost

\* A replay the daemon or a resume goes on with.
Replays(s, i) == s.xid = i /\ s.step \in Replaying \ {"log"}
Replayed(i) == Replays(st, i) \/ Replays(op.read, i)

\* A halt has dropped the migration, apply is stopped and nothing is left that
\* would start it.
Stranded ==
  /\ lost /\ ~enabled /\ ~worker /\ ~CopyRunning
  /\ ~st.was /\ ~st.off /\ ~op.read.was /\ ~op.read.off
  /\ pc = "halted" => ~mem.off

\* The replay's rows belong to the migration in hand, and are logged; or apply
\* never comes to them.
LocalRows ==
  \A i \in Xid : rows[i] = "local" /\ (NoFaultInHalt \/ i \notin applied) =>
    Stranded \/ (Replayed(i) /\ (NoFaultInHalt => replayLog.inserts))

\* The rows of CarriedExactly.
CarriedRows ==
  NoFaultInHalt => \A i \in 1 .. origin : rows[i] = "prod"

IInv ==
  /\ TypeOK /\ Control /\ Losing /\ Reading /\ Quiesced /\ Triggers /\ InHand /\ Books
  /\ Subscribed /\ LocalRows /\ CarriedRows /\ ArmedIsPending

\* A step keeps every part of the invariant whose variables it leaves alone.
LEMMA Frame ==
  ASSUME IInv
  PROVE  /\ UNCHANGED <<pub, repaired>> => TypePublished'
         /\ UNCHANGED <<origin, enabled, worker, err, subs, ready>> => TypeReplication'
         /\ UNCHANGED <<done, rows, dirty, trig>> => TypeDatabase'
         /\ UNCHANGED <<armed, replayLog, heads, applied, resolved, owed>> => TypeTables'
         /\ UNCHANGED <<st, pc, mem, fails, op, lost, faults>> => TypeProcesses'
         /\ UNCHANGED <<st, pc, op>> => Control'
         /\ UNCHANGED <<st, pc, mem, lost>> => Losing'
         /\ UNCHANGED <<st, op, lost>> => Reading'
         /\ UNCHANGED <<pc, st, op, mem, enabled, worker>> => Quiesced'
         /\ UNCHANGED <<st, pc, trig, lost>> => Triggers'
         /\ UNCHANGED <<st, op, pub, origin, applied>> => InHand'
         /\ UNCHANGED <<applied, pub, subs, st, pc, lost>> => Subscribed'
         /\ UNCHANGED <<rows, applied, replayLog, st, op, lost, enabled, worker, pc, mem>>
              => LocalRows'
         /\ UNCHANGED <<origin, pub, err, heads, applied, done, rows>> => Books'
         /\ UNCHANGED <<origin, rows>> => CarriedRows'
         /\ UNCHANGED <<armed, origin, applied, rows>> => ArmedIsPending'
<1>1. UNCHANGED <<pub, repaired>> => TypePublished'
  BY DEF IInv, TypeOK, TypePublished
<1>2. UNCHANGED <<origin, enabled, worker, err, subs, ready>> => TypeReplication'
  BY DEF IInv, TypeOK, TypeReplication
<1>3. UNCHANGED <<done, rows, dirty, trig>> => TypeDatabase'
  BY DEF IInv, TypeOK, TypeDatabase
<1>4. UNCHANGED <<armed, replayLog, heads, applied, resolved, owed>> => TypeTables'
  BY DEF IInv, TypeOK, TypeTables
<1>5. UNCHANGED <<st, pc, mem, fails, op, lost, faults>> => TypeProcesses'
  BY DEF IInv, TypeOK, TypeProcesses
<1>6. UNCHANGED <<st, pc, op>> => Control'
  BY DEF IInv, Control, CopyRunning
<1>7. UNCHANGED <<st, pc, mem, lost>> => Losing'
  BY DEF IInv, Losing
<1>8. UNCHANGED <<st, op, lost>> => Reading'
  BY DEF IInv, Reading
<1>9. UNCHANGED <<pc, st, op, mem, enabled, worker>> => Quiesced'
  BY DEF IInv, Quiesced
<1>10. UNCHANGED <<st, pc, trig, lost>> => Triggers'
  BY DEF IInv, Triggers, TriggersOnlyInReplay
<1>11. UNCHANGED <<st, op, pub, origin, applied>> => InHand'
  BY DEF IInv, InHand, Holds, IsMigration
<1>12. UNCHANGED <<applied, pub, subs, st, pc, lost>> => Subscribed'
  BY DEF IInv, Subscribed
<1>13. UNCHANGED <<rows, applied, replayLog, st, op, lost, enabled, worker, pc, mem>>
         => LocalRows'
  BY DEF IInv, LocalRows, Stranded, Replayed, Replays, CopyRunning
<1>14. UNCHANGED <<origin, pub, err, heads, applied, done, rows>> => Books'
  BY DEF IInv, Books, IsMigration
<1>15. UNCHANGED <<origin, rows>> => CarriedRows'
  BY DEF IInv, CarriedRows
<1>16. UNCHANGED <<armed, origin, applied, rows>> => ArmedIsPending'
  BY DEF IInv, ArmedIsPending
<1> QED BY <1>1, <1>2, <1>3, <1>4, <1>5, <1>6, <1>7, <1>8, <1>9, <1>10, <1>11, <1>12,
     <1>13, <1>14, <1>15, <1>16

-----------------------------------------------------------------------------
(* Steps several actions share.                                            *)

\* The daemon's cycle goes on, ends, or raises a halt, and changes nothing
\* else.
LEMMA CycleMoves ==
  ASSUME IInv, TypeProcesses', Control', Losing',
         pc' \in {"sleep", "coord", "look", "compare", "passed", "step", "halt"},
         lost => lost', NoFaultInHalt => pc # "halted",
         UNCHANGED <<pub, repaired, pgVars, dbVars, tabVars, st, op>>
  PROVE  IInv'
<1>1. Reading' /\ Quiesced'
  BY DEF IInv, Reading, Quiesced, pgVars
<1>2. Triggers' /\ Subscribed'
  BY DEF IInv, Triggers, TriggersOnlyInReplay, Subscribed, pgVars, dbVars, tabVars
<1>3. LocalRows'
  BY DEF IInv, LocalRows, Stranded, Replayed, Replays, CopyRunning, pgVars, dbVars, tabVars
<1> QED BY Frame, <1>1, <1>2, <1>3 DEF IInv, TypeOK, pgVars, dbVars, tabVars

\* Raising a halt leaves the cycle in its type.
LEMMA HaltType ==
  ASSUME mem \in MemType, lost \in BOOLEAN, NEW reason \in Reasons,
         NEW targets \in SUBSET Shape, NEW keep \in {"step", "nothing", "unknown"},
         HaltKeeping(keep, reason, targets)
  PROVE  /\ mem' \in MemType /\ lost' \in BOOLEAN
         /\ mem'.keep = keep /\ mem'.targets = targets
<1>1. [mem EXCEPT !.reason = reason] \in MemType
  BY DEF MemType
<1> DEFINE m == [mem EXCEPT !.reason = reason]
<1>2. [m EXCEPT !.targets = targets] \in MemType
  BY <1>1 DEF MemType
<1> DEFINE n == [m EXCEPT !.targets = targets]
<1>3. [n EXCEPT !.keep = keep] \in MemType
  BY <1>2 DEF MemType
<1>4. mem' = [n EXCEPT !.keep = keep]
  BY DEF HaltKeeping
<1> HIDE DEF n
<1>5. mem'.keep = keep
  BY <1>2, <1>4 DEF MemType
<1>6. mem'.targets = targets
  BY DEF HaltKeeping, MemType
<1>7. lost' \in BOOLEAN
  BY DEF HaltKeeping
<1> QED BY <1>3, <1>4, <1>5, <1>6, <1>7

\* A halt raised in the cycle is on record if it drops what the state holds.
LEMMA HaltRaised ==
  ASSUME IInv, NEW reason \in Reasons, NEW targets \in SUBSET Shape,
         NEW keep \in {"step", "nothing", "unknown"}, HaltKeeping(keep, reason, targets),
         st.status = "halted" => keep # "step", ~CopyRunning,
         targets # {} => keep = "step" /\ st.step = "undo",
         UNCHANGED <<st, op>>
  PROVE  /\ mem' \in MemType /\ lost' \in BOOLEAN /\ pc' = "halt"
         /\ Control' /\ Losing' /\ (lost => lost')
<1>1. /\ pc' = "halt" /\ (lost => lost')
      /\ mem' \in MemType /\ lost' \in BOOLEAN
      /\ mem'.keep = keep /\ mem'.targets = targets
  BY HaltType DEF HaltKeeping, IInv, TypeOK, TypeProcesses
<1>2. Control'
  BY <1>1 DEF IInv, Control, CopyRunning
<1>3. lost' = (lost \/ keep = "unknown" \/ (keep = "nothing" /\ st.status # "idle"))
  BY DEF HaltKeeping
<1>4. Losing'
  BY <1>1, <1>3 DEF Losing
<1> QED BY <1>1, <1>2, <1>4

\* A Halt raised in the middle of a cycle, which changes nothing else.
LEMMA HaltKeeps ==
  ASSUME IInv, NEW reason \in Reasons, HaltWith(reason, {}),
         pc \in {"look", "passed", "step", "drain"}, fails' = fails, faults' = faults,
         UNCHANGED <<pub, repaired, pgVars, dbVars, tabVars, st, op>>
  PROVE  IInv'
<1>1. HaltKeeping("step", reason, {})
  BY DEF HaltWith
<1>2. st.status # "halted" /\ ~CopyRunning
  BY DEF IInv, Control
<1>3. /\ mem' \in MemType /\ lost' \in BOOLEAN /\ pc' = "halt"
      /\ Control' /\ Losing' /\ (lost => lost')
  BY <1>1, <1>2, HaltRaised
<1>4. TypeProcesses'
  BY <1>3 DEF IInv, TypeOK, TypeProcesses
<1> QED BY <1>3, <1>4, CycleMoves

\* The failures counted are at most MaxFailures.
LEMMA CountType ==
  ASSUME IInv, NEW noted
  PROVE  Count(noted) \in 0 .. MaxFailures
<1>1. CASE noted
  BY <1>1, FollowerAssumption DEF Count, IInv, TypeOK, TypeProcesses
<1>2. CASE ~noted
  BY <1>2, FollowerAssumption DEF Count
<1> QED BY <1>1, <1>2

\* A cycle that failed is counted, or turned into a halt.
LEMMA CycleErrorKeeps ==
  ASSUME IInv, NEW known \in BOOLEAN, NEW count \in 0 .. MaxFailures,
         CycleError(st, known, count), NoFaultInHalt => pc # "halted",
         ~CopyRunning, faults' \in 0 .. MaxFaults,
         UNCHANGED <<pub, repaired, pgVars, dbVars, tabVars, st, op>>
  PROVE  IInv'
<1>1. Noted(st, known) \in BOOLEAN
  BY DEF Noted
<1>2. [count |-> count, noted |-> Noted(st, known)] \in [count : 0 .. MaxFailures, noted : BOOLEAN]
  BY <1>1
<1>3. CASE pc' = "sleep" /\ UNCHANGED <<mem, lost>>
           /\ fails' \in {fails, [count |-> count, noted |-> Noted(st, known)]}
  <2>1. TypeProcesses'
    BY <1>2, <1>3 DEF IInv, TypeOK, TypeProcesses
  <2>2. Control' /\ Losing'
    BY <1>3 DEF IInv, Control, Losing, CopyRunning
  <2> QED BY <1>3, <2>1, <2>2, CycleMoves
<1>4. CASE /\ HaltKeeping(Kept(st), "failing", {})
           /\ fails' = [count |-> count, noted |-> Noted(st, known)]
  <2>1. Kept(st) \in {"step", "nothing", "unknown"} /\ (st.status = "halted" => Kept(st) # "step")
    BY DEF Kept
  <2>2. /\ mem' \in MemType /\ lost' \in BOOLEAN /\ pc' = "halt"
        /\ Control' /\ Losing' /\ (lost => lost')
    BY <1>4, <2>1, HaltRaised DEF Reasons
  <2>3. TypeProcesses'
    BY <1>2, <1>4, <2>2 DEF IInv, TypeOK, TypeProcesses
  <2> QED BY <2>2, <2>3, CycleMoves
<1> QED BY <1>3, <1>4 DEF CycleError

\* The clean-up and DISABLE of a halt, whole or in part: triggers go, apply
\* stops, and the halted state is still to be saved.
LEMMA HaltingKeeps ==
  ASSUME IInv, NEW cleaned \in BOOLEAN, NEW disabled \in BOOLEAN, Halting(cleaned, disabled),
         faults' \in 0 .. MaxFaults
  PROVE  IInv'
<1>1. /\ pc = "halt" /\ pc' = "halted"
      /\ trig' => trig
      /\ enabled' => enabled
      /\ trig' \in BOOLEAN /\ enabled' \in BOOLEAN
      /\ UNCHANGED <<pub, repaired, origin, worker, err, subs, ready, done, rows, dirty, tabVars,
                     st, fails, op, lost>>
  BY DEF Halting
<1>2. TypeReplication' /\ TypeDatabase'
  BY <1>1 DEF IInv, TypeOK, TypeReplication, TypeDatabase
<1>3. mem' \in MemType /\ mem'.keep = mem.keep /\ mem'.targets = mem.targets
      /\ (~enabled => ~mem'.off)
  <2>1. (enabled /\ disabled) \in BOOLEAN
    OBVIOUS
  <2>2. mem' = [mem EXCEPT !.off = enabled /\ disabled]
    BY DEF Halting
  <2> QED BY <2>1, <2>2 DEF IInv, TypeOK, TypeProcesses, MemType
<1>4. TypeProcesses'
  BY <1>1, <1>3 DEF IInv, TypeOK, TypeProcesses
<1>5. Control' /\ Losing' /\ Subscribed'
  BY <1>1, <1>3 DEF IInv, Control, Losing, CopyRunning, Subscribed, tabVars
<1>6. Quiesced'
  BY <1>1, <1>3 DEF IInv, Quiesced
<1>7. Triggers'
  BY <1>1 DEF IInv, Triggers, TriggersOnlyInReplay
<1>8. LocalRows'
  BY <1>1, <1>3 DEF IInv, LocalRows, Stranded, Replayed, Replays, CopyRunning, tabVars
<1> QED BY Frame, <1>1, <1>2, <1>4, <1>5, <1>6, <1>7, <1>8 DEF IInv, TypeOK, tabVars

-----------------------------------------------------------------------------
(* The publisher and the subscriber's workers.                             *)

\* A new transaction is behind everything the follower has done.
LEMMA CommitKeeps == ASSUME IInv, Commit PROVE IInv'
<1>1. TypePublished'
  BY FollowerAssumption DEF Commit, IInv, TypeOK, TypePublished
<1>2. InHand'
  BY DEF Commit, IInv, InHand, Holds, IsMigration, pgVars, tabVars
<1>3. Subscribed'
  BY DEF Commit, IInv, Subscribed, Books, pgVars, tabVars, loopVars
<1>4. Books'
  BY DEF Commit, IInv, Books, IsMigration, TypeOK, TypeReplication, pgVars, dbVars, tabVars
<1> QED BY Frame, <1>1, <1>2, <1>3, <1>4
  DEF Commit, IInv, TypeOK, pgVars, dbVars, tabVars, loopVars

\* Apply passes the next transaction: while it can, no replay is in the
\* database, and a migration has been carried, so production's rows are the
\* only ones.
LEMMA ApplyPasses ==
  ASSUME IInv, Apply
  PROVE  LET n == origin + 1 IN
         /\ n \in Xid /\ n \in 1 .. Len(pub) /\ pub[n] \in TxType
         /\ ~Stranded /\ (\A i \in Xid : ~Replayed(i))
         /\ IsMigration(n) => n \in applied
         /\ n \notin done \ applied
         /\ NoFaultInHalt => rows[n] = "none"
<1> DEFINE n == origin + 1
<1>1. ~Stranded /\ \A i \in Xid : ~Replayed(i)
  BY DEF Apply, IInv, Quiesced, Stranded, Replayed, Replays
<1>2. n \in Xid /\ n \in 1 .. Len(pub) /\ pub[n] \in TxType /\ MarkerPasses(n)
  BY FollowerAssumption
  DEF Apply, Applicable, IInv, TypeOK, TypePublished, TypeReplication, Xid
<1>3. n \notin done \ applied
  BY <1>1, <1>2 DEF IInv, Books, LocalRows
<1>4. IsMigration(n) => n \in applied
  BY <1>2, <1>3 DEF MarkerPasses, TxType, IsMigration, IInv, ArmedIsPending
<1>5. NoFaultInHalt => rows[n] = "none"
  BY <1>1, <1>2 DEF IInv, Books, LocalRows, TypeOK, TypeReplication
<1> QED BY <1>1, <1>2, <1>3, <1>4, <1>5

LEMMA ApplyKeeps == ASSUME IInv, Apply PROVE IInv'
<1> DEFINE n == origin + 1
<1>1. /\ n \in Xid /\ n \in 1 .. Len(pub) /\ pub[n] \in TxType
      /\ ~Stranded /\ (\A i \in Xid : ~Replayed(i))
      /\ IsMigration(n) => n \in applied
      /\ n \notin done \ applied
      /\ NoFaultInHalt => rows[n] = "none"
  BY ApplyPasses
<1>2. /\ origin' = n /\ armed' = armed \ {n}
      /\ \E r \in {"prod", "twice"} :
           rows' = [rows EXCEPT ![n] = r] /\ (NoFaultInHalt => r = "prod")
      /\ UNCHANGED <<pub, repaired, enabled, worker, err, subs, ready, done, dirty, trig,
                     replayLog, heads, applied, resolved, owed, st, loopVars, op, lost, faults>>
  BY <1>1 DEF Apply, Clashes, Consumed
<1>3. TypeReplication' /\ TypeDatabase' /\ TypeTables'
  BY <1>1, <1>2 DEF IInv, TypeOK, TypeReplication, TypeDatabase, TypeTables, Xid
<1>4. LocalRows'
  BY <1>1, <1>2 DEF IInv, LocalRows, TypeOK, TypeDatabase
<1>5. InHand'
  <2>1. \A s \in {st, op.read} : s.step \notin Replaying \cup {"disable"}
    BY <1>1 DEF Apply, IInv, Quiesced, InHand, Holds
  <2> QED BY <1>2, <2>1 DEF IInv, InHand, Holds, IsMigration
<1>6. Books'
  BY <1>1, <1>2
  DEF Apply, IInv, Books, TypeOK, TypeReplication, TypeDatabase, TypePublished,
      IsMigration
<1>7. CarriedRows'
  BY <1>1, <1>2 DEF IInv, CarriedRows, TypeOK, TypeReplication, TypeDatabase
<1>8. ArmedIsPending'
  BY <1>1, <1>2 DEF IInv, ArmedIsPending, TypeOK, TypeReplication, TypeTables, Xid
<1> QED BY Frame, <1>2, <1>3, <1>4, <1>5, <1>6, <1>7, <1>8 DEF IInv, TypeOK, loopVars

\* The error names the transaction after origin, which the publisher has
\* committed.
LEMMA ApplyErrorKeeps == ASSUME IInv, ApplyError PROVE IInv'
<1>1. TypeReplication'
  BY FollowerAssumption DEF ApplyError, IInv, TypeOK, TypePublished, TypeReplication
<1>2. Books'
  BY DEF ApplyError, IInv, Books, IsMigration, TypeOK, TypeReplication, dbVars, tabVars
<1> QED BY Frame, <1>1, <1>2 DEF ApplyError, IInv, TypeOK, pgVars, dbVars, tabVars, loopVars

\* A worker starts only when the subscription is enabled, never in a replay.
LEMMA WorkerStartKeeps == ASSUME IInv, WorkerStart PROVE IInv'
<1>1. TypeReplication'
  BY DEF WorkerStart, IInv, TypeOK, TypeReplication
<1>2. Quiesced'
  BY DEF WorkerStart, IInv, Quiesced, loopVars
<1>3. LocalRows'
  BY DEF WorkerStart, IInv, LocalRows, Stranded, Replayed, Replays, dbVars, tabVars
<1> QED BY Frame, <1>1, <1>2, <1>3
  DEF WorkerStart, IInv, TypeOK, pgVars, dbVars, tabVars, loopVars

\* A worker that leaves after DISABLE takes nothing with it.
LEMMA WorkerExitKeeps == ASSUME IInv, WorkerExit PROVE IInv'
<1>1. TypeReplication'
  BY DEF WorkerExit, IInv, TypeOK, TypeReplication
<1>2. Quiesced'
  BY DEF WorkerExit, IInv, Quiesced, loopVars
<1>3. LocalRows'
  BY DEF WorkerExit, IInv, LocalRows, Stranded, Replayed, Replays, CopyRunning, dbVars,
         tabVars, loopVars
<1> QED BY Frame, <1>1, <1>2, <1>3
  DEF WorkerExit, IInv, TypeOK, pgVars, dbVars, tabVars, loopVars

\* An error grows old without naming another transaction.
LEMMA ErrorAgesKeeps == ASSUME IInv, ErrorAges PROVE IInv'
<1>1. TypeReplication'
  BY DEF ErrorAges, IInv, TypeOK, TypeReplication
<1>2. Books'
  BY DEF ErrorAges, IInv, Books, IsMigration, dbVars, tabVars
<1> QED BY Frame, <1>1, <1>2 DEF ErrorAges, IInv, TypeOK, pgVars, dbVars, tabVars, loopVars

\* A table's copy changes nothing but its own state.
LEMMA TableSyncKeeps == ASSUME IInv, NEW i \in Xid, TableSync(i) PROVE IInv'
<1>1. TypeReplication'
  BY DEF TableSync, IInv, TypeOK, TypeReplication, StateType
<1> QED BY Frame, <1>1 DEF TableSync, IInv, TypeOK, pgVars, dbVars, tabVars, loopVars

-----------------------------------------------------------------------------
(* The daemon: looking, comparing, taking a stall.                         *)

\* A configuration that violates A4 raises a halt, whatever the state holds.
LEMMA PollViolatedKeeps == ASSUME IInv, PollViolated PROVE IInv'
<1>1. /\ mem' \in MemType /\ lost' \in BOOLEAN /\ pc' = "halt"
      /\ Control' /\ Losing' /\ (lost => lost')
  BY HaltRaised DEF PollViolated, Reasons
<1>2. TypeProcesses'
  BY <1>1 DEF PollViolated, IInv, TypeOK, TypeProcesses
<1> QED BY <1>1, <1>2, CycleMoves DEF PollViolated

\* A cycle begins and remembers what the publisher had.
LEMMA PollKeeps == ASSUME IInv, Poll PROVE IInv'
<1>1. TypeProcesses'
  BY DEF Poll, PublisherLsn, IInv, TypeOK, TypeProcesses, MemType, Xid, TypePublished
<1>2. Control' /\ Losing'
  BY DEF Poll, IInv, Control, Losing, CopyRunning
<1> QED BY <1>1, <1>2, CycleMoves DEF Poll

\* A halted follower only polls.
LEMMA PollHaltedKeeps == ASSUME IInv, PollHalted PROVE IInv'
<1>1. TypeProcesses'
  BY FollowerAssumption DEF PollHalted, NoFailures, IInv, TypeOK, TypeProcesses
<1> QED BY Frame, <1>1 DEF PollHalted, IInv, TypeOK, pgVars, dbVars, tabVars, loopVars

\* Only migrations' version rows are recorded.
LEMMA RecordHeadsKeeps == ASSUME IInv, RecordHeads PROVE IInv'
<1>1. TypeTables'
  <2>1. Head1(UpTo(Committed("web"), mem.lsn)) \subseteq 1 .. Len(pub)
    BY DEF Head1, UpTo, Committed
  <2>2. Committed("coord") \subseteq 1 .. Len(pub)
    BY DEF Committed
  <2>3. 1 .. Len(pub) \subseteq Xid
    BY FollowerAssumption DEF IInv, TypeOK, TypePublished, Xid
  <2> QED BY <2>1, <2>2, <2>3 DEF RecordHeads, IInv, TypeOK, TypeTables
<1>2. TypeProcesses'
  BY DEF RecordHeads, IInv, TypeOK, TypeProcesses, MemType, Reasons, TypePublished
<1>3. Control' /\ Losing'
  BY DEF RecordHeads, IInv, Control, Losing, CopyRunning, TypeOK, TypeProcesses, StateType
<1>4. Quiesced'
  BY DEF RecordHeads, IInv, Quiesced, pgVars
<1>5. Triggers' /\ Subscribed'
  BY DEF RecordHeads, IInv, Triggers, TriggersOnlyInReplay, Subscribed, pgVars, dbVars
<1>6. Books'
  BY DEF RecordHeads, Committed, UpTo, Head1, IInv, Books, IsMigration, pgVars, dbVars
<1>7. LocalRows'
  BY DEF RecordHeads, IInv, LocalRows, Stranded, Replayed, Replays, CopyRunning, pgVars,
         dbVars
<1> QED BY Frame, <1>1, <1>2, <1>3, <1>4, <1>5, <1>6, <1>7
  DEF RecordHeads, IInv, TypeOK, pgVars, dbVars, tabVars

\* No stall: the idle follower goes on to the comparison.
LEMMA NoStallKeeps == ASSUME IInv, NoStall PROVE IInv'
<1>1. TypeProcesses' /\ Control' /\ Losing'
  BY DEF NoStall, IInv, TypeOK, TypeProcesses, Control, Losing, CopyRunning
<1> QED BY <1>1, CycleMoves DEF NoStall

\* Equal versions end the cycle.
LEMMA CompareSameKeeps == ASSUME IInv, CompareSame PROVE IInv'
<1>1. TypeProcesses' /\ Control' /\ Losing'
  BY FollowerAssumption
  DEF CompareSame, NoFailures, IInv, TypeOK, TypeProcesses, Control, Losing, CopyRunning
<1> QED BY <1>1, CycleMoves DEF CompareSame

\* Different versions lead to the question whether apply has passed.
LEMMA CompareDiffersKeeps == ASSUME IInv, CompareDiffers PROVE IInv'
<1>1. TypeProcesses' /\ Control' /\ Losing'
  BY DEF CompareDiffers, IInv, TypeOK, TypeProcesses, Control, Losing, CopyRunning
<1> QED BY <1>1, CycleMoves DEF CompareDiffers

\* Apply is not past the snapshot: the cycle ends.
LEMMA PassedRestsKeeps == ASSUME IInv, PassedRests PROVE IInv'
<1>1. TypeProcesses' /\ Control' /\ Losing'
  BY FollowerAssumption
  DEF PassedRests, NoFailures, IInv, TypeOK, TypeProcesses, Control, Losing, CopyRunning
<1> QED BY <1>1, CycleMoves DEF PassedRests

\* Apply is past the snapshot: a halt is raised.
LEMMA PassedHaltsKeeps == ASSUME IInv, PassedHalts PROVE IInv'
  BY HaltKeeps DEF PassedHalts, Reasons

\* A stall that is no replayable migration raises a halt.
LEMMA StallHaltsKeeps == ASSUME IInv, StallHalts PROVE IInv'
<1>1. StallReason \in Reasons
  BY DEF StallReason, Reasons
<1> QED BY <1>1, HaltKeeps DEF StallHalts

\* A stall found while tables are copied waits.
LEMMA StallWaitsKeeps == ASSUME IInv, StallWaits PROVE IInv'
<1>1. TypeProcesses' /\ Control' /\ Losing'
  BY FollowerAssumption
  DEF StallWaits, NoFailures, IInv, TypeOK, TypeProcesses, Control, Losing, CopyRunning
<1> QED BY <1>1, CycleMoves DEF StallWaits

\* The stalled migration is taken in hand; it is the transaction after
\* origin.
LEMMA StallTakenKeeps == ASSUME IInv, StallTaken PROVE IInv'
<1>1. TypeProcesses'
  BY DEF StallTaken, InProgress, IInv, TypeOK, TypeProcesses, StateType, Steps, Reasons,
         TypeReplication
<1>2. Control' /\ Losing' /\ Reading'
  BY DEF StallTaken, InProgress, IInv, Control, Losing, Reading, CopyRunning, ResumeAt
<1>3. Quiesced'
  BY DEF StallTaken, InProgress, IInv, Control, Quiesced, Replaying, ResumeAt
<1>4. LocalRows'
  BY DEF StallTaken, InProgress, IInv, LocalRows, Stranded, Replayed, Replays, Control,
         CopyRunning, Replaying, ResumeAt, pgVars, dbVars, tabVars
<1>5. Triggers'
  BY DEF StallTaken, InProgress, IInv, Triggers, TriggersOnlyInReplay, Replaying, Control,
         dbVars
<1>6. InHand'
  BY DEF StallTaken, StallRead, StallReason, InProgress, IInv, InHand, Holds, Books, TypeOK,
         TypeReplication, IsMigration, Replaying, pgVars, tabVars
<1>7. Subscribed'
  BY DEF StallTaken, IInv, Subscribed, Control, pgVars, tabVars
<1> QED BY Frame, <1>1, <1>2, <1>3, <1>4, <1>5, <1>6, <1>7
  DEF StallTaken, IInv, TypeOK, pgVars, dbVars, tabVars

-----------------------------------------------------------------------------
(* The daemon: the steps of a migration.                                   *)

\* No resume is under way and no copy-columns runs while a step does.
LEMMA StepAlone ==
  ASSUME IInv, st.status = "in_progress"
  PROVE  op.at \notin ResumeAt /\ ~CopyRunning /\ op.read.step = "none"
         /\ ~op.read.was /\ ~op.read.off
  BY DEF IInv, Control, ResumeAt

\* DISABLE; the worker may still run.
LEMMA DisableKeeps == ASSUME IInv, Disable PROVE IInv'
<1>1. TypeReplication' /\ TypeProcesses'
  BY DEF Disable, IInv, TypeOK, TypeReplication, TypeProcesses
<1>2. Control' /\ Losing'
  BY DEF Disable, AtStep, IInv, Control, Losing, CopyRunning
<1>3. Quiesced'
  BY DEF Disable, IInv, Quiesced
<1>4. Triggers' /\ Subscribed'
  BY DEF Disable, AtStep, IInv, Triggers, TriggersOnlyInReplay, Subscribed, dbVars, tabVars
<1>5. LocalRows'
  BY DEF Disable, IInv, LocalRows, Stranded, Replayed, Replays, CopyRunning, dbVars, tabVars
<1> QED BY Frame, <1>1, <1>2, <1>3, <1>4, <1>5
  DEF Disable, IInv, TypeOK, pgVars, dbVars, tabVars

\* The drain ends with no worker and nothing that can start one.
LEMMA DrainedKeeps == ASSUME IInv, Drained PROVE IInv'
<1>1. TypeProcesses' /\ Control' /\ Losing'
  BY DEF Drained, IInv, TypeOK, TypeProcesses, Control, Losing, CopyRunning
<1>2. Quiesced'
  BY DEF Drained, WorkersGone, IInv, Quiesced, pgVars
<1>3. Triggers' /\ Subscribed'
  BY DEF Drained, IInv, Triggers, TriggersOnlyInReplay, Control, Subscribed, pgVars, dbVars,
         tabVars
<1>4. LocalRows'
  BY DEF Drained, IInv, LocalRows, Stranded, Replayed, Replays, CopyRunning, pgVars, dbVars,
         tabVars
<1> QED BY Frame, <1>1, <1>2, <1>3, <1>4 DEF Drained, IInv, TypeOK, pgVars, dbVars, tabVars

\* A worker that stays raises a halt.
LEMMA DrainTimeoutKeeps == ASSUME IInv, DrainTimeout PROVE IInv'
  BY HaltKeeps DEF DrainTimeout, Reasons

\* A detail that names no step raises a halt.
LEMMA StepUnknownKeeps == ASSUME IInv, StepUnknown PROVE IInv'
  BY HaltKeeps DEF StepUnknown, AtStep, Reasons

\* A first replay starts an empty log with the triggers in place; no row of
\* the replay is there yet.
LEMMA StartLogKeeps == ASSUME IInv, StartLog PROVE IInv'
<1>1. TypeDatabase' /\ TypeTables' /\ TypeProcesses'
  BY DEF StartLog, IInv, TypeOK, TypeDatabase, TypeTables, TypeProcesses
<1>2. Control' /\ Losing'
  BY DEF StartLog, AtStep, IInv, Control, Losing, CopyRunning
<1>3. Quiesced'
  BY DEF StartLog, AtStep, IInv, Quiesced, Replaying, pgVars
<1>4. LocalRows'
  BY StepAlone
  DEF StartLog, AtStep, IInv, LocalRows, Stranded, Replayed, Replays, CopyRunning, Replaying,
      pgVars
<1>5. Triggers' /\ Subscribed'
  BY DEF StartLog, AtStep, IInv, Triggers, TriggersOnlyInReplay, Replaying, Subscribed, pgVars
<1> QED BY Frame, <1>1, <1>2, <1>3, <1>4, <1>5 DEF StartLog, IInv, TypeOK, pgVars

\* A further replay puts the triggers back and keeps the log.
LEMMA RelogKeeps == ASSUME IInv, Relog PROVE IInv'
<1>1. TypeDatabase' /\ TypeProcesses'
  BY DEF Relog, IInv, TypeOK, TypeDatabase, TypeProcesses
<1>2. Control' /\ Losing'
  BY DEF Relog, AtStep, IInv, Control, Losing, CopyRunning
<1>3. Quiesced'
  BY DEF Relog, AtStep, IInv, Quiesced, Replaying, pgVars
<1>4. LocalRows'
  BY DEF Relog, IInv, LocalRows, Stranded, Replayed, Replays, CopyRunning, pgVars, tabVars
<1>5. Triggers' /\ Subscribed'
  BY DEF Relog, AtStep, IInv, Triggers, TriggersOnlyInReplay, Replaying, Subscribed, pgVars,
         tabVars
<1> QED BY Frame, <1>1, <1>2, <1>3, <1>4, <1>5 DEF Relog, IInv, TypeOK, pgVars, tabVars

\* The rows a commit of the migration command leaves are the migration's in
\* hand, and in the log if the triggers are there.
LEMMA ReplayCommitKeeps ==
  ASSUME IInv, AtStep("migrate"), NEW shapes \in SUBSET Shape, ReplayCommit(shapes),
         pc' \in {"step", "save"},
         UNCHANGED <<applied, st, op, lost, enabled, worker, trig, origin, armed, pub>>
  PROVE  /\ LocalRows' /\ CarriedRows' /\ ArmedIsPending'
         /\ st.xid \in Xid /\ st.xid \in 1 .. Len(pub) /\ IsMigration(st.xid)
         /\ st.xid = origin + 1 /\ st.xid \notin applied
<1>1. /\ st.xid \in Xid /\ IsMigration(st.xid) /\ (NoFaultInHalt => trig)
      /\ st.xid = origin + 1 /\ st.xid \notin applied /\ st.xid \in 1 .. Len(pub)
  BY FollowerAssumption
  DEF AtStep, IInv, InHand, Holds, Triggers, TypeOK, TypePublished, Replaying, Xid
<1>2. /\ rows' = [rows EXCEPT ![st.xid] = IF @ = "none" THEN "local" ELSE @]
      /\ replayLog'.inserts = (replayLog.inserts \/ (trig /\ rows[st.xid] = "none"))
  BY DEF ReplayCommit
<1>3. LocalRows'
  <2>1. Replayed(st.xid)' /\ (Stranded => Stranded') /\ \A i \in Xid : Replayed(i) => Replayed(i)'
    BY DEF AtStep, Stranded, Replayed, Replays, CopyRunning, Replaying
  <2> QED BY <1>1, <1>2, <2>1 DEF IInv, LocalRows, TypeOK, TypeDatabase
<1>4. CarriedRows'
  BY <1>1, <1>2 DEF IInv, CarriedRows, TypeOK, TypeReplication
<1>5. ArmedIsPending'
  BY <1>1, <1>2 DEF IInv, ArmedIsPending, TypeOK, TypeDatabase, TypeTables
<1> QED BY <1>1, <1>3, <1>4, <1>5

\* A part of the migration commits.
LEMMA MigratePartKeeps == ASSUME IInv, MigratePart PROVE IInv'
<1>1. TypeDatabase' /\ TypeTables'
  BY DEF MigratePart, ReplayCommit, IInv, TypeOK, TypeDatabase, TypeTables
<1>2. /\ LocalRows' /\ CarriedRows' /\ ArmedIsPending'
      /\ st.xid \in Xid /\ st.xid = origin + 1
  BY ReplayCommitKeeps DEF MigratePart, AtStep, pgVars, loopVars
<1>3. Books'
  BY <1>2
  DEF MigratePart, ReplayCommit, IInv, Books, IsMigration, TypeOK, TypeDatabase, pgVars
<1> QED BY Frame, <1>1, <1>2, <1>3 DEF MigratePart, IInv, TypeOK, pgVars, loopVars

\* The migration commits: its schema is in place, its rows are in the log.
LEMMA MigrateKeeps == ASSUME IInv, Migrate PROVE IInv'
<1> DEFINE cases == pub[st.xid].cases
           logged == {s \in cases : s[1] \in {"key-change", "rewrite"}}
<1>1. /\ AtStep("migrate") /\ pc' = "save"
      /\ UNCHANGED <<pub, repaired, pgVars, trig, armed, heads, applied, resolved, owed, st, mem,
                     fails, op, lost, faults>>
  BY DEF Migrate
<1>2. Control' /\ Losing' /\ Quiesced' /\ Triggers'
  BY <1>1
  DEF AtStep, IInv, Control, Losing, Quiesced, Triggers, TriggersOnlyInReplay, CopyRunning,
      Replaying, pgVars
<1>3. TypeProcesses' /\ Subscribed'
  BY <1>1 DEF IInv, TypeOK, TypeProcesses, Subscribed, pgVars
<1>4. CASE st.xid \in done
  <2>1. UNCHANGED <<done, rows, dirty, replayLog>>
    BY <1>4 DEF Migrate
  <2>2. LocalRows'
    BY <1>1, <2>1 DEF IInv, LocalRows, Stranded, Replayed, Replays, CopyRunning, pgVars
  <2> QED BY Frame, <1>1, <1>2, <1>3, <2>1, <2>2 DEF IInv, TypeOK, pgVars
<1>5. CASE st.xid \notin done
  <2>1. /\ done' = done \cup {st.xid}
        /\ ReplayCommit(logged)
        /\ dirty' = dirty \cup {t \in Target : \E c \in Case \ {"rename"} : <<c, t>> \in cases}
    BY <1>5 DEF Migrate
  <2>2. st.xid \in 1 .. Len(pub) /\ cases \subseteq Shape
    BY FollowerAssumption, <1>1
    DEF AtStep, IInv, InHand, Holds, TypeOK, TypePublished, TxType
  <2>3. logged \in SUBSET Shape
    BY <2>2
  <2>4. /\ LocalRows' /\ CarriedRows' /\ ArmedIsPending'
        /\ st.xid \in Xid /\ IsMigration(st.xid)
        /\ st.xid = origin + 1 /\ st.xid \notin applied
    <3> HIDE DEF logged
    <3> QED BY <1>1, <2>1, <2>3, ReplayCommitKeeps DEF pgVars
  <2>5. TypeDatabase' /\ TypeTables'
    BY <1>1, <2>1, <2>3, <2>4 DEF ReplayCommit, IInv, TypeOK, TypeDatabase, TypeTables
  <2>6. Books'
    <3>1. rows[st.xid] \in {"none", "local"}
      BY <2>4 DEF IInv, Books, TypeOK, TypeReplication
    <3>2. rows' = [rows EXCEPT ![st.xid] = "local"]
      BY <2>1, <3>1 DEF ReplayCommit
    <3>3. \A i \in done' \ applied' : rows'[i] = "local"
      BY <1>1, <2>1, <2>4, <3>2 DEF IInv, Books, TypeOK, TypeDatabase
    <3>4. \A i \in Xid : i > origin' => rows'[i] \in {"none", "local"}
      BY <1>1, <3>2 DEF IInv, Books, TypeOK, TypeDatabase, pgVars
    <3> QED BY <1>1, <2>1, <3>3, <3>4 DEF IInv, Books, IsMigration, pgVars
  <2> QED BY Frame, <1>1, <1>2, <1>3, <2>4, <2>5, <2>6 DEF IInv, TypeOK, pgVars
<1> QED BY <1>4, <1>5

\* The migration command fails and raises a halt.
LEMMA MigrateFailsKeeps == ASSUME IInv, MigrateFails PROVE IInv'
  BY HaltKeeps DEF MigrateFails, AtStep, Reasons

\* An unresolved shape raises a halt before anything is undone.
LEMMA UndoHaltsKeeps == ASSUME IInv, UndoHalts PROVE IInv'
<1>1. PICK targets \in SUBSET Shape : HaltKeeping("step", "shape", targets)
  BY DEF UndoHalts, HaltWith, Blocking
<1>2. /\ AtStep("undo") /\ ~CopyRunning
      /\ UNCHANGED <<pub, repaired, pgVars, done, rows, dirty, tabVars, st, fails, op, faults>>
      /\ trig' = FALSE
  BY DEF UndoHalts, IInv, Control, AtStep
<1>3. /\ mem' \in MemType /\ lost' \in BOOLEAN /\ pc' = "halt"
      /\ Control' /\ Losing' /\ (lost => lost')
  BY <1>1, <1>2, HaltRaised DEF AtStep, Reasons
<1>4. TypeDatabase' /\ TypeProcesses'
  BY <1>2, <1>3 DEF IInv, TypeOK, TypeDatabase, TypeProcesses
<1>5. Reading' /\ Quiesced'
  BY <1>2, <1>3 DEF IInv, Reading, Quiesced, pgVars
<1>6. Triggers' /\ Subscribed'
  BY <1>2, <1>3
  DEF AtStep, IInv, Triggers, TriggersOnlyInReplay, Subscribed, pgVars, tabVars
<1>7. LocalRows'
  BY <1>2, <1>3
  DEF IInv, LocalRows, Stranded, Replayed, Replays, CopyRunning, pgVars, tabVars
<1> QED BY Frame, <1>2, <1>3, <1>4, <1>5, <1>6, <1>7 DEF IInv, TypeOK, pgVars, tabVars

\* The undo takes the replay's rows, records the migration, arms it and
\* moves to enable, all at once.
LEMMA UndoKeeps == ASSUME IInv, Undo PROVE IInv'
<1>1. /\ AtStep("undo") /\ st.xid \in done /\ trig' = FALSE /\ rows' = Undone
      /\ armed' = Armed /\ applied' = applied \cup {st.xid}
      /\ UNCHANGED <<pub, repaired, pgVars, done, dirty, heads, owed, loopVars, op, lost, faults>>
      /\ op.at \notin ResumeAt /\ op.read.step = "none"
  BY StepAlone DEF Undo, Recorded, AtStep
<1>2. /\ st.xid \in Xid /\ st.xid \in 1 .. Len(pub) /\ st.xid = origin + 1
      /\ st.xid \notin applied /\ IsMigration(st.xid)
  BY <1>1, FollowerAssumption
  DEF AtStep, IInv, InHand, Holds, TypeOK, TypePublished, Replaying, Xid
<1>3. /\ st' \in StateType /\ st'.step = "enable" /\ st'.xid = st.xid /\ st'.was = st.was
      /\ st'.off = st.off /\ st'.status = st.status /\ st'.targets = st.targets
  BY DEF Undo, IInv, TypeOK, TypeProcesses, StateType, Steps
<1>4. st.targets = {} /\ st.step = "undo" /\ st.status = "in_progress" /\ pc = "step"
  BY <1>1 DEF AtStep, IInv, Control
<1>5. TypeDatabase'
  BY <1>1 DEF Undone, IInv, TypeOK, TypeDatabase
<1>6. TypeTables'
  BY <1>1, <1>2 DEF Undo, Armed, IInv, TypeOK, TypeTables
<1>7. TypeProcesses'
  BY <1>1, <1>3 DEF IInv, TypeOK, TypeProcesses, loopVars
<1>8. Control' /\ Losing' /\ Reading'
  BY <1>1, <1>3, <1>4 DEF IInv, Control, Losing, Reading, CopyRunning, ResumeAt, loopVars
<1>9. Quiesced' /\ Triggers'
  BY <1>1, <1>3, <1>4
  DEF Quiesced, Triggers, TriggersOnlyInReplay, Replaying, loopVars
<1>10. InHand'
  <2>1. Holds(st)'
    BY <1>1, <1>2, <1>3, <1>4 DEF Holds, Replaying, IsMigration
  <2>2. Holds(op.read)'
    BY <1>1 DEF IInv, InHand, Holds, Replaying
  <2> QED BY <2>1, <2>2 DEF InHand
<1>11. Subscribed'
  BY <1>1, <1>3, <1>4 DEF IInv, Subscribed, pgVars, loopVars
<1>12. LocalRows'
  <2> SUFFICES ASSUME NEW i \in Xid, rows'[i] = "local", NoFaultInHalt \/ i \notin applied'
               PROVE  Stranded'
    BY DEF LocalRows
  <2>1. rows[i] = "local" /\ (NoFaultInHalt => i # st.xid \/ ~replayLog.inserts)
    BY <1>1, <1>2 DEF Undone, IInv, TypeOK, TypeDatabase
  <2>2. Replayed(i) => i = st.xid
    BY <1>1 DEF Replayed, Replays, Replaying
  <2>3. Stranded
    BY <1>1, <2>1, <2>2 DEF IInv, LocalRows
  <2> QED BY <1>1, <1>3, <1>4, <2>3 DEF Stranded, CopyRunning, pgVars, loopVars
<1>13. Books'
  <2>1. \A i \in done' \ applied' : rows'[i] = "local"
    BY <1>1 DEF Undone, IInv, Books, TypeOK, TypeDatabase
  <2>2. \A i \in Xid : i > origin' => rows'[i] \in {"none", "local"}
    BY <1>1 DEF Undone, IInv, Books, TypeOK, TypeDatabase, pgVars
  <2> QED BY <1>1, <1>2, <2>1, <2>2 DEF IInv, Books, IsMigration, pgVars
<1>14. CarriedRows'
  BY <1>1, <1>2 DEF Undone, IInv, CarriedRows, TypeOK, TypeDatabase, TypeReplication, pgVars
<1>15. ArmedIsPending'
  BY <1>1, <1>2
  DEF Undone, Armed, IInv, ArmedIsPending, TypeOK, TypeDatabase, TypeTables, TypeReplication,
      pgVars
<1> QED BY Frame, <1>1, <1>5, <1>6, <1>7, <1>8, <1>9, <1>10, <1>11, <1>12, <1>13, <1>14, <1>15
  DEF IInv, TypeOK, pgVars

\* The next step is persisted; the state the step needs is already there.
LEMMA SaveStepKeeps == ASSUME IInv, SaveStep PROVE IInv'
<1>1. TypeProcesses'
  <2>1. NextStep(st.step) \in Steps
    BY DEF SaveStep, NextStep, IInv, Control, Steps
  <2> QED BY <2>1 DEF SaveStep, IInv, TypeOK, TypeProcesses, StateType
<1>2. st.status = "in_progress" /\ op.at \notin ResumeAt /\ ~CopyRunning
  BY StepAlone DEF SaveStep, IInv, Control
<1>3. Control' /\ Losing' /\ Reading'
  BY <1>2
  DEF SaveStep, NextStep, IInv, Control, Losing, Reading, CopyRunning, ResumeAt
<1>4. Quiesced'
  BY DEF SaveStep, IInv, Quiesced, pgVars
<1>5. LocalRows'
  BY DEF SaveStep, NextStep, IInv, LocalRows, Stranded, Replayed, Replays, CopyRunning,
         Control, Replaying, pgVars, dbVars, tabVars
<1>6. Triggers'
  BY DEF SaveStep, NextStep, IInv, Triggers, TriggersOnlyInReplay, Replaying, Control,
         dbVars
<1>7. InHand'
  <2>1. Holds(st)'
    BY <1>2
    DEF SaveStep, NextStep, IInv, InHand, Holds, Control, Replaying, IsMigration, pgVars,
        tabVars
  <2>2. Holds(op.read)'
    BY DEF SaveStep, IInv, InHand, Holds, IsMigration, pgVars, tabVars
  <2> QED BY <2>1, <2>2 DEF InHand
<1>8. Subscribed'
  BY DEF SaveStep, IInv, Subscribed, Control, pgVars, tabVars
<1> QED BY Frame, <1>1, <1>3, <1>4, <1>5, <1>6, <1>7, <1>8
  DEF SaveStep, IInv, TypeOK, pgVars, dbVars, tabVars

\* Tables of a later migration published already raise a halt.
LEMMA EnableHaltsKeeps == ASSUME IInv, EnableHalts PROVE IInv'
  BY HaltKeeps DEF EnableHalts, AtStep, Reasons

\* The subscription is what it was before the migration, which is recorded.
LEMMA EnableKeeps == ASSUME IInv, Enable PROVE IInv'
<1>1. TypeReplication' /\ TypeProcesses'
  BY DEF Enable, EnableIf, IInv, TypeOK, TypeReplication, TypeProcesses
<1>2. st.step = "enable" /\ st.status = "in_progress" /\ op.read.step = "none"
  BY StepAlone DEF Enable, AtStep
<1>3. Control' /\ Losing'
  BY <1>2 DEF Enable, AtStep, IInv, Control, Losing, CopyRunning
<1>4. Quiesced'
  BY <1>2
  DEF Enable, EnableIf, IInv, Quiesced, TypeOK, TypeProcesses, StateType, Replaying
<1>5. Triggers'
  BY <1>2 DEF Enable, IInv, Triggers, TriggersOnlyInReplay, dbVars
<1>6. Subscribed'
  BY DEF Enable, IInv, Subscribed, NeedsRefresh, tabVars
<1>7. Books'
  BY DEF Enable, EnableIf, IInv, Books, IsMigration, dbVars, tabVars
<1>8. LocalRows'
  BY <1>2
  DEF Enable, EnableIf, IInv, LocalRows, Stranded, Replayed, Replays, CopyRunning, Replaying,
      dbVars, tabVars
<1> QED BY Frame, <1>1, <1>3, <1>4, <1>5, <1>6, <1>7, <1>8
  DEF Enable, IInv, TypeOK, dbVars, tabVars

\* REFRESH subscribes the migration's table.
LEMMA RefreshKeeps == ASSUME IInv, Refresh PROVE IInv'
<1>1. TypeReplication'
  <2>1. Created \subseteq Xid
    BY FollowerAssumption DEF Created, IInv, TypeOK, TypePublished, Xid
  <2> QED BY <2>1 DEF Refresh, IInv, TypeOK, TypeReplication
<1>2. TypeProcesses' /\ Control' /\ Losing'
  BY DEF Refresh, IInv, TypeOK, TypeProcesses, Control, Losing, CopyRunning
<1>3. Quiesced' /\ Triggers'
  BY DEF Refresh, IInv, Quiesced, Triggers, TriggersOnlyInReplay, dbVars
<1>4. Subscribed'
  BY DEF Refresh, Created, IInv, Subscribed, Books, tabVars
<1>5. LocalRows'
  BY DEF Refresh, IInv, LocalRows, Stranded, Replayed, Replays, CopyRunning, dbVars, tabVars
<1> QED BY Frame, <1>1, <1>2, <1>3, <1>4, <1>5 DEF Refresh, IInv, TypeOK, dbVars, tabVars

\* A REFRESH that fails ends the cycle, counted, or raises a halt.
LEMMA RefreshFailsKeeps == ASSUME IInv, RefreshFails PROVE IInv'
<1>1. Count(Noted(st, TRUE)) \in 0 .. MaxFailures
  BY CountType
<1>2. ~CopyRunning /\ faults' \in 0 .. MaxFaults /\ pc # "halted"
  BY DEF RefreshFails, IInv, Control, TypeOK, TypeProcesses
<1> QED BY <1>1, <1>2, CycleErrorKeeps DEF RefreshFails

\* The migration is closed: its table is subscribed.  What the cycle does then
\* is the action's: it ends, or a failure raises a halt.
LEMMA Closing ==
  ASSUME IInv, pc = "stamp", st' = Idle(TRUE), err' = [err EXCEPT !.hist = TRUE],
         TypeProcesses', Losing', pc' \in {"sleep", "halt"}, lost => lost',
         UNCHANGED <<pub, repaired, origin, enabled, worker, subs, ready, dbVars, tabVars, op>>
  PROVE  IInv'
<1>1. st.status = "in_progress" /\ st.step = "enable" /\ op.at \notin ResumeAt /\ ~CopyRunning
      /\ op.read.step = "none"
  BY StepAlone DEF IInv, Control
<1>2. TypeReplication' /\ Books'
  BY DEF IInv, TypeOK, TypeReplication, Books, IsMigration, dbVars, tabVars
<1>3. Control' /\ Reading'
  BY <1>1 DEF Idle, IInv, Control, Reading, CopyRunning, ResumeAt
<1>4. Quiesced' /\ Triggers'
  BY <1>1 DEF Idle, IInv, Quiesced, Triggers, TriggersOnlyInReplay, Replaying, dbVars
<1>5. InHand'
  BY <1>1 DEF Idle, IInv, InHand, Holds, Replaying
<1>6. Subscribed'
  BY DEF Idle, IInv, Subscribed, tabVars
<1>7. LocalRows'
  BY <1>1
  DEF Idle, IInv, LocalRows, Stranded, Replayed, Replays, CopyRunning, Replaying, dbVars,
      tabVars
<1> QED BY Frame, <1>2, <1>3, <1>4, <1>5, <1>6, <1>7 DEF IInv, TypeOK, dbVars, tabVars

LEMMA StampKeeps == ASSUME IInv, Stamp PROVE IInv'
<1>1. TypeProcesses' /\ Losing'
  BY FollowerAssumption
  DEF Stamp, Idle, NoFailures, IInv, TypeOK, TypeProcesses, StateType, Steps, Reasons, Losing
<1> QED BY <1>1, Closing DEF Stamp

\* The error after the stamp is counted, or raises a halt that drops nothing
\* but what the idle state holds.
LEMMA StampUnreportedKeeps == ASSUME IInv, StampUnreported PROVE IInv'
<1>1. PICK known \in BOOLEAN : CycleError(st', known, Count(Noted(st', known)))
  BY DEF StampUnreported
<1>2. pc = "stamp" /\ st' = Idle(TRUE) /\ st' \in StateType
      /\ Kept(st') = "unknown" /\ faults' \in 0 .. MaxFaults
  BY FollowerAssumption
  DEF StampUnreported, Idle, Kept, StateType, Steps, Reasons, IInv, TypeOK, TypeProcesses
<1>3. Noted(st', known) \in BOOLEAN
  BY DEF Noted
<1>4. Count(Noted(st', known)) \in 0 .. MaxFailures
  BY CountType
<1>5. [count |-> Count(Noted(st', known)), noted |-> Noted(st', known)]
        \in [count : 0 .. MaxFailures, noted : BOOLEAN]
  BY <1>3, <1>4
<1>6. fails' = [count |-> Count(Noted(st', known)), noted |-> Noted(st', known)]
  BY <1>1, <1>2 DEF CycleError, HaltingFailed
<1>7. CASE pc' = "sleep" /\ UNCHANGED <<mem, lost>>
  <2>1. TypeProcesses' /\ Losing'
    BY <1>2, <1>5, <1>6, <1>7 DEF StampUnreported, IInv, TypeOK, TypeProcesses, Losing
  <2> QED BY <1>2, <1>7, <2>1, Closing DEF StampUnreported
<1>8. CASE HaltKeeping("unknown", "failing", {})
  <2>1. /\ mem' \in MemType /\ lost' \in BOOLEAN /\ mem'.keep = "unknown"
        /\ mem'.targets = {} /\ pc' = "halt" /\ lost'
    BY <1>8, HaltType DEF HaltKeeping, IInv, TypeOK, TypeProcesses, Reasons
  <2>2. TypeProcesses' /\ Losing'
    BY <1>2, <1>5, <1>6, <2>1
    DEF StampUnreported, Idle, IInv, TypeOK, TypeProcesses, Losing
  <2> QED BY <1>2, <2>1, <2>2, Closing DEF StampUnreported
<1> QED BY <1>1, <1>2, <1>7, <1>8 DEF CycleError, HaltingFailed

-----------------------------------------------------------------------------
(* The halt.                                                               *)

\* The first half of a halt.
LEMMA HaltDisableKeeps == ASSUME IInv, HaltDisable PROVE IInv'
<1>1. faults' \in 0 .. MaxFaults
  BY DEF HaltDisable, IInv, TypeOK, TypeProcesses
<1> QED BY <1>1, HaltingKeeps DEF HaltDisable

\* The first half of a halt with a part of it failed.
LEMMA HaltPartlyKeeps == ASSUME IInv, HaltPartly PROVE IInv'
<1>1. faults' \in 0 .. MaxFaults
  BY FollowerAssumption DEF HaltPartly, MayFault, IInv, TypeOK, TypeProcesses
<1> QED BY <1>1, HaltingKeeps DEF HaltPartly

\* What the halted state holds: the migration in hand, or nothing of it.
LEMMA SavedHolds ==
  ASSUME IInv
  PROVE  /\ Saved \in StateType /\ Saved.status = "halted"
         /\ Saved.off = mem.off /\ Saved.targets = mem.targets
         /\ mem.keep = "step" =>
              Saved.step = st.step /\ Saved.xid = st.xid /\ Saved.was = st.was
         /\ mem.keep # "step" => Saved.step \in {"none", "unknown"} /\ ~Saved.was
<1>1. st \in StateType /\ mem \in MemType
  BY DEF IInv, TypeOK, TypeProcesses
<1>2. CASE mem.keep = "step"
  <2>1. Saved = [status |-> "halted", reason |-> mem.reason, step |-> st.step, xid |-> st.xid,
                 was |-> st.was, off |-> mem.off, targets |-> mem.targets, stamped |-> FALSE]
    BY <1>1, <1>2 DEF Saved, StateType
  <2> QED BY <1>1, <1>2, <2>1 DEF StateType, MemType
<1>3. CASE mem.keep # "step"
  <2>1. PICK s \in {"none", "unknown"} :
          Saved = [status |-> "halted", reason |-> mem.reason, step |-> s, xid |-> 0,
                   was |-> FALSE, off |-> mem.off, targets |-> mem.targets, stamped |-> FALSE]
    BY <1>1, <1>3 DEF Saved, MemType
  <2>2. /\ Saved.status = "halted" /\ Saved.off = mem.off /\ Saved.targets = mem.targets
        /\ Saved.step \in {"none", "unknown"} /\ Saved.was = FALSE
    BY <2>1
  <2>3. /\ mem.reason \in Reasons /\ mem.off \in BOOLEAN /\ mem.targets \in SUBSET Shape
        /\ s \in Steps /\ 0 \in 0 .. MaxTx
    BY <1>1, FollowerAssumption DEF MemType, Steps
  <2>4. Saved \in StateType
    BY <2>1, <2>3 DEF StateType
  <2> QED BY <1>3, <2>2, <2>4
<1> QED BY <1>2, <1>3

\* The halted state keeps the migration in hand; or it is dropped, on record,
\* with apply stopped.
LEMMA HaltSaveKeeps == ASSUME IInv, HaltSave PROVE IInv'
<1>1. /\ st' \in StateType /\ st'.status = "halted"
      /\ st'.off = mem.off /\ st'.targets = mem.targets
      /\ mem.keep = "step" => st'.step = st.step /\ st'.xid = st.xid /\ st'.was = st.was
      /\ mem.keep # "step" => st'.step \in {"none", "unknown"} /\ ~st'.was
  BY SavedHolds DEF HaltSave
<1>2. /\ pc = "halted" /\ pc' = "sleep"
      /\ UNCHANGED <<pub, repaired, pgVars, dbVars, tabVars, mem, op, lost, faults>>
  BY DEF HaltSave
<1>3. /\ ~CopyRunning
      /\ mem.keep # "step" => lost \/ (st.status = "idle" /\ st.step = "none")
      /\ mem.targets # {} => mem.keep = "step" /\ st.step = "undo"
      /\ st.status = "halted" => mem.keep # "step"
  BY <1>2 DEF IInv, Control, Losing
<1>4. TypeProcesses'
  BY FollowerAssumption, <1>1, <1>2 DEF HaltSave, NoFailures, IInv, TypeOK, TypeProcesses
<1>5. Control' /\ Losing'
  BY <1>1, <1>2, <1>3 DEF IInv, Control, Losing, CopyRunning
<1>6. Reading'
  BY <1>1, <1>2, <1>3 DEF IInv, Reading, Control, Quiesced, ResumeAt
<1>7. Quiesced'
  BY <1>1, <1>2 DEF IInv, Quiesced, Replaying, pgVars
<1>8. Triggers'
  BY <1>1, <1>2, <1>3 DEF IInv, Triggers, TriggersOnlyInReplay, Replaying, dbVars
<1>9. InHand'
  <2>1. Holds(st)'
    BY <1>1, <1>2, <1>3
    DEF IInv, InHand, Holds, Replaying, IsMigration, pgVars, tabVars
  <2>2. Holds(op.read)'
    BY <1>2 DEF IInv, InHand, Holds, IsMigration, pgVars, tabVars
  <2> QED BY <2>1, <2>2 DEF InHand
<1>10. Subscribed'
  BY <1>1, <1>2, <1>3 DEF IInv, Subscribed, pgVars, tabVars
<1>11. LocalRows'
  <2> SUFFICES ASSUME NEW i \in Xid, rows[i] = "local", NoFaultInHalt \/ i \notin applied
               PROVE  Stranded' \/ (Replayed(i)' /\ (NoFaultInHalt => replayLog.inserts))
    BY <1>2 DEF LocalRows, dbVars, tabVars
  <2>1. CASE Stranded
    BY <1>1, <1>2, <2>1 DEF Stranded, CopyRunning, pgVars
  <2>2. CASE Replays(op.read, i) /\ (NoFaultInHalt => replayLog.inserts)
    BY <1>2, <2>2 DEF Replayed, Replays
  <2>3. CASE Replays(st, i) /\ (NoFaultInHalt => replayLog.inserts)
    <3>1. CASE mem.keep = "step"
      BY <1>1, <2>3, <3>1 DEF Replayed, Replays
    <3>2. CASE mem.keep # "step"
      <4>1. lost /\ ~enabled /\ ~worker /\ ~mem.off
        BY <1>2, <1>3, <2>3, <3>2 DEF IInv, Quiesced, Replays, Replaying
      <4>2. CASE op.at = "resuming"
        <5>1. st = op.read
          BY <2>3, <4>2 DEF IInv, Reading, Replays, Replaying
        <5> QED BY <2>2, <2>3, <5>1
      <4>3. CASE op.at # "resuming"
        <5>1. ~op.read.was /\ ~op.read.off
          BY <4>3 DEF IInv, Control
        <5> QED BY <1>1, <1>2, <1>3, <3>2, <4>1, <5>1 DEF Stranded, CopyRunning, pgVars
      <4> QED BY <4>2, <4>3
    <3> QED BY <3>1, <3>2
  <2> QED BY <2>1, <2>2, <2>3 DEF IInv, LocalRows, Replayed
<1> QED BY Frame, <1>2, <1>4, <1>5, <1>6, <1>7, <1>8, <1>9, <1>10, <1>11
  DEF IInv, TypeOK, pgVars, dbVars, tabVars

-----------------------------------------------------------------------------
(* The operator's commands.                                                *)

CommandType == [at : {"none"} \cup ResumeAt \cup CopyAt, lsn : 0 .. MaxTx,
                copied : SUBSET Target, read : StateType]

\* No command is one.
LEMMA NoCommandType ==
  /\ Idle(FALSE) \in StateType
  /\ NoCommand \in CommandType
  /\ [NoCommand EXCEPT !.at = "enabled"] \in CommandType
<1>1. Idle(FALSE) \in StateType
  BY FollowerAssumption DEF Idle, StateType, Steps, Reasons
<1> DEFINE nothing == Idle(FALSE)
<1>2. NoCommand \in CommandType
  <2>1. NoCommand = [at |-> "none", lsn |-> 0, copied |-> {}, read |-> nothing]
    BY DEF NoCommand
  <2> HIDE DEF nothing
  <2>2. nothing \in StateType
    BY <1>1, Zenon DEF nothing
  <2> QED BY <2>1, <2>2, FollowerAssumption DEF CommandType
<1>3. [NoCommand EXCEPT !.at = "enabled"] \in CommandType
  BY <1>2 DEF CommandType, ResumeAt
<1> QED BY <1>1, <1>2, <1>3

\* What no command has read.
LEMMA NothingRead ==
  /\ NoCommand.at = "none" /\ NoCommand.read.step = "none"
  /\ ~NoCommand.read.was /\ ~NoCommand.read.off /\ NoCommand.read.targets = {}
  BY DEF NoCommand, Idle

\* Reading the halted state starts a resume.
LEMMA ResumeReadKeeps == ASSUME IInv, ResumeRead PROVE IInv'
<1>1. op' \in CommandType /\ op'.at = "resuming" /\ op'.read = st
  BY DEF ResumeRead, CommandType, ResumeAt, IInv, TypeOK, TypeProcesses
<1>2. st.status = "halted" /\ op.read.step = "none" /\ ~op.read.was /\ ~op.read.off
  BY DEF ResumeRead, IInv, Control
<1>3. UNCHANGED <<pub, repaired, pgVars, dbVars, tabVars, st, loopVars, lost, faults>>
  BY DEF ResumeRead
<1>4. TypeProcesses'
  BY <1>1, <1>3 DEF CommandType, IInv, TypeOK, TypeProcesses, loopVars
<1>5. Control' /\ Losing' /\ Reading'
  BY <1>1, <1>2, <1>3
  DEF IInv, Control, Losing, Reading, CopyRunning, CopyAt, ResumeAt, loopVars
<1>6. Quiesced'
  BY <1>1, <1>3 DEF IInv, Quiesced, pgVars, loopVars
<1>7. InHand'
  BY <1>1, <1>3 DEF IInv, InHand, Holds, IsMigration, pgVars, tabVars
<1>8. LocalRows'
  BY <1>1, <1>2, <1>3
  DEF IInv, LocalRows, Stranded, Replayed, Replays, Replaying, CopyRunning, CopyAt, pgVars,
      dbVars, tabVars, loopVars
<1> QED BY Frame, <1>3, <1>4, <1>5, <1>6, <1>7, <1>8
  DEF IInv, TypeOK, pgVars, dbVars, tabVars, loopVars

\* A resumed migration is the one the resume has read, at its step, or at
\* relog where the triggers are gone.
LEMMA ResumedType ==
  ASSUME NEW s \in StateType
  PROVE  /\ Resumed(s) \in StateType /\ Resumed(s).status = "in_progress"
         /\ Resumed(s).xid = s.xid /\ Resumed(s).was = s.was /\ Resumed(s).off = FALSE
         /\ Resumed(s).targets = {}
         /\ Resumed(s).step = IF s.step = "migrate" THEN "relog" ELSE s.step
<1> DEFINE step == IF s.step = "migrate" THEN "relog" ELSE s.step
<1>1. step \in Steps /\ s.xid \in 0 .. MaxTx /\ s.was \in BOOLEAN
  BY DEF StateType, Steps
<1>2. Resumed(s) = InProgress(step, s.xid, s.was)
  BY DEF Resumed
<1> HIDE DEF step
<1>3. Resumed(s) \in StateType
  BY <1>1, <1>2 DEF InProgress, StateType, Reasons
<1>4. /\ Resumed(s).status = "in_progress" /\ Resumed(s).xid = s.xid
      /\ Resumed(s).was = s.was /\ Resumed(s).off = FALSE /\ Resumed(s).targets = {}
      /\ Resumed(s).step = step
  BY <1>2 DEF InProgress
<1> QED BY <1>3, <1>4 DEF step

\* It goes on; a halt that came between and dropped it is on record.
LEMMA ResumeMigrationKeeps == ASSUME IInv, ResumeMigration PROVE IInv'
<1> DEFINE s == op.read
<1>1. /\ st' \in StateType /\ st'.status = "in_progress"
      /\ st'.xid = s.xid /\ st'.was = s.was /\ st'.off = FALSE /\ st'.targets = {}
      /\ st'.step = IF s.step = "migrate" THEN "relog" ELSE s.step
  BY ResumedType DEF ResumeMigration, IInv, TypeOK, TypeProcesses
<1>2. /\ op.at = "resuming" /\ s.step # "none"
      /\ op' = NoCommand /\ op' \in CommandType /\ op'.at = "none" /\ op'.read.step = "none"
      /\ ~op'.read.was /\ ~op'.read.off /\ op'.read.targets = {}
      /\ UNCHANGED <<pub, repaired, pgVars, dbVars, tabVars, loopVars, lost, faults>>
  BY NoCommandType, NothingRead DEF ResumeMigration
<1>3. st.status = "halted" /\ pc \in {"sleep", "halt", "halted"}
  BY <1>2 DEF IInv, Control, ResumeAt
<1>4. TypeProcesses'
  BY <1>1, <1>2 DEF CommandType, IInv, TypeOK, TypeProcesses, loopVars
<1>5. Control'
  BY <1>1, <1>2, <1>3 DEF Control, CopyRunning, CopyAt, ResumeAt, loopVars
<1>6. Losing' /\ Reading'
  BY <1>1, <1>2, <1>3 DEF IInv, Losing, Reading, loopVars
<1>7. Quiesced'
  BY <1>1, <1>2, <1>3 DEF IInv, Quiesced, Replaying, pgVars, loopVars
<1>8. Triggers'
  BY <1>1, <1>2, <1>3
  DEF IInv, Triggers, TriggersOnlyInReplay, Reading, Replaying, dbVars, loopVars
<1>9. InHand'
  <2>1. Holds(st)'
    BY <1>1, <1>2 DEF IInv, InHand, Holds, Replaying, IsMigration, pgVars, tabVars
  <2>2. Holds(op.read)'
    BY <1>2 DEF Holds, Replaying
  <2> QED BY <2>1, <2>2 DEF InHand
<1>10. Subscribed'
  BY <1>1, <1>2, <1>3 DEF IInv, Subscribed, Reading, pgVars, tabVars, loopVars
<1>11. LocalRows'
  <2>1. \A i : Replayed(i) => Replayed(i)'
    BY <1>1, <1>2 DEF IInv, Reading, Replayed, Replays, Replaying
  <2>2. Stranded => Stranded'
    BY <1>1, <1>2 DEF Stranded, CopyRunning, CopyAt, pgVars, loopVars
  <2> QED BY <1>2, <2>1, <2>2 DEF IInv, LocalRows, dbVars, tabVars
<1> QED BY Frame, <1>2, <1>4, <1>5, <1>6, <1>7, <1>8, <1>9, <1>10, <1>11
  DEF IInv, TypeOK, pgVars, dbVars, tabVars

\* The first half of an ordinary resume enables what the halt disabled.
LEMMA ResumeEnableKeeps == ASSUME IInv, ResumeEnable PROVE IInv'
<1>1. /\ op.at = "resuming" /\ op.read.step = "none"
      /\ op' \in CommandType /\ op'.at = "enabled" /\ op'.read.step = "none"
      /\ ~op'.read.was /\ ~op'.read.off /\ op'.read.targets = {}
      /\ UNCHANGED <<pub, repaired, origin, worker, subs, ready, dbVars, tabVars, st, loopVars, lost,
                     faults>>
  BY NoCommandType, NothingRead DEF ResumeEnable, NoCommand
<1>2. st.status = "halted" /\ st.step \in {"none", "unknown"} /\ pc \in {"sleep", "halt", "halted"}
  BY <1>1 DEF IInv, Control, Reading, ResumeAt
<1>3. TypeReplication' /\ Books'
  BY <1>1
  DEF ResumeEnable, EnableIf, IInv, TypeOK, TypeReplication, Books, IsMigration, dbVars, tabVars
<1>4. TypeProcesses'
  BY <1>1 DEF CommandType, IInv, TypeOK, TypeProcesses, loopVars
<1>5. Control' /\ Reading'
  BY <1>1, <1>2
  DEF IInv, Control, Reading, CopyRunning, CopyAt, ResumeAt, loopVars
<1>6. Quiesced'
  BY <1>1, <1>2 DEF Quiesced, Replaying, loopVars
<1>7. InHand'
  BY <1>1 DEF IInv, InHand, Holds, Replaying, IsMigration, tabVars
<1>8. LocalRows'
  <2>1. \A i : ~Replayed(i)
    BY <1>1, <1>2 DEF Replayed, Replays, Replaying
  <2>2. Stranded => Stranded'
    <3>1. enabled' => enabled \/ op.read.off
      BY DEF ResumeEnable, EnableIf
    <3> QED BY <1>1, <3>1 DEF Stranded, CopyRunning, CopyAt, loopVars
  <2> QED BY <1>1, <2>1, <2>2 DEF IInv, LocalRows, dbVars, tabVars
<1> QED BY Frame, <1>1, <1>3, <1>4, <1>5, <1>6, <1>7, <1>8
  DEF IInv, TypeOK, dbVars, tabVars, loopVars

\* The second half saves the idle state.
LEMMA ResumeIdleKeeps == ASSUME IInv, ResumeIdle PROVE IInv'
<1>1. /\ op.at = "enabled" /\ op.read.step = "none"
      /\ op' \in CommandType /\ op'.at = "none" /\ op'.read.step = "none"
      /\ ~op'.read.was /\ ~op'.read.off /\ op'.read.targets = {}
      /\ UNCHANGED <<pub, repaired, pgVars, dbVars, tabVars, loopVars, lost, faults>>
  BY NoCommandType, NothingRead DEF ResumeIdle, IInv, Control
<1>2. st.status = "halted" /\ st.step \in {"none", "unknown"} /\ pc \in {"sleep", "halt", "halted"}
  BY <1>1 DEF IInv, Control, ResumeAt
<1>3. /\ st' \in StateType /\ st'.status = "idle" /\ st'.step = "none" /\ ~st'.was /\ ~st'.off
      /\ st'.targets = {}
  BY NoCommandType DEF ResumeIdle, Idle
<1>4. TypeProcesses'
  BY <1>1, <1>3 DEF CommandType, IInv, TypeOK, TypeProcesses, loopVars
<1>5. Control' /\ Reading'
  BY <1>1, <1>2, <1>3 DEF Control, Reading, CopyRunning, CopyAt, ResumeAt, loopVars
<1>6. Losing' /\ Quiesced'
  BY <1>1, <1>2, <1>3 DEF IInv, Losing, Quiesced, Replaying, loopVars
<1>7. Triggers' /\ Subscribed'
  BY <1>1, <1>2, <1>3
  DEF IInv, Triggers, TriggersOnlyInReplay, Subscribed, Replaying, pgVars, dbVars, tabVars,
      loopVars
<1>8. InHand'
  BY <1>1, <1>3 DEF InHand, Holds, Replaying
<1>9. LocalRows'
  <2>1. \A i : ~Replayed(i)
    BY <1>1, <1>2 DEF Replayed, Replays, Replaying
  <2>2. Stranded => Stranded'
    BY <1>1, <1>3 DEF Stranded, CopyRunning, CopyAt, pgVars, loopVars
  <2> QED BY <1>1, <2>1, <2>2 DEF IInv, LocalRows, dbVars, tabVars
<1> QED BY Frame, <1>1, <1>4, <1>5, <1>6, <1>7, <1>8, <1>9
  DEF IInv, TypeOK, pgVars, dbVars, tabVars

\* A resolution is recorded; the last one goes on to a resume.
LEMMA ResolveKeeps == ASSUME IInv, NEW s \in Shape, Resolve(s) PROVE IInv'
<1>1. TypeTables'
  <2>1. st.xid \in Xid
    BY FollowerAssumption
    DEF Resolve, Replaying, IInv, InHand, Holds, TypeOK, TypePublished, Xid
  <2>2. s \in Shape /\ s[2] \in Target
    BY DEF Shape
  <2>3. resolved' \in SUBSET (Xid \X Shape) /\ owed' \in SUBSET Target
    BY <2>1, <2>2 DEF Resolve, Owed, IInv, TypeOK, TypeTables
  <2>4. replayLog' \in [inserts : BOOLEAN, shapes : SUBSET Shape]
    BY DEF Resolve, IInv, TypeOK, TypeTables
  <2> QED BY <2>3, <2>4 DEF Resolve, IInv, TypeOK, TypeTables
<1>2. /\ op.at = "none" /\ op' \in CommandType /\ op'.at \in {"none", "resolved"}
      /\ op'.read = op.read /\ st.status = "halted" /\ replayLog'.inserts = replayLog.inserts
      /\ UNCHANGED <<pub, repaired, pgVars, dbVars, armed, heads, applied, st, loopVars, lost, faults>>
  BY DEF Resolve, CommandType, ResumeAt, IInv, TypeOK, TypeProcesses, TypeTables
<1>3. TypeProcesses'
  BY <1>2 DEF CommandType, IInv, TypeOK, TypeProcesses, loopVars
<1>4. Control' /\ Reading'
  BY <1>2 DEF IInv, Control, Reading, CopyRunning, CopyAt, ResumeAt, loopVars
<1>5. Quiesced' /\ InHand'
  BY <1>2 DEF IInv, Quiesced, InHand, Holds, IsMigration, pgVars, loopVars
<1>6. LocalRows'
  BY <1>2
  DEF IInv, LocalRows, Stranded, Replayed, Replays, CopyRunning, CopyAt, pgVars, dbVars,
      loopVars
<1> QED BY Frame, <1>1, <1>2, <1>3, <1>4, <1>5, <1>6 DEF IInv, TypeOK, pgVars, dbVars, loopVars

\* A repair makes a transaction fit and changes no row.
LEMMA RepairKeeps == ASSUME IInv, Repair PROVE IInv'
<1>1. TypePublished'
  <2>1. origin + 1 \in Xid
    BY FollowerAssumption DEF Repair, IInv, TypeOK, TypePublished, TypeReplication, Xid
  <2> QED BY <2>1 DEF Repair, IInv, TypeOK, TypePublished
<1> QED BY Frame, <1>1 DEF Repair, IInv, TypeOK, pgVars, dbVars, tabVars, loopVars

\* copy-columns runs on an idle follower: no replay is in the database.
LEMMA CopyAlone ==
  ASSUME IInv, CopyRunning \/ (op.at = "none" /\ st.status = "idle" /\ enabled)
  PROVE  /\ st.status = "idle" /\ st.step = "none" /\ op.at # "resuming"
         /\ op.read.step = "none" /\ ~op.read.was /\ ~op.read.off
         /\ \A i \in Xid : rows[i] = "local" => i \in applied /\ ~NoFaultInHalt
<1>1. /\ st.status = "idle" /\ st.step = "none" /\ op.at # "resuming"
      /\ op.read.step = "none" /\ ~op.read.was /\ ~op.read.off
  BY DEF IInv, Control, CopyRunning, CopyAt
<1>2. ~Stranded /\ \A i : ~Replayed(i)
  BY <1>1 DEF Stranded, Replayed, Replays, Replaying
<1> QED BY <1>1, <1>2 DEF IInv, LocalRows

\* So its steps, which change nothing else of it, keep the invariant.
LEMMA CopyKeeps ==
  ASSUME IInv, CopyRunning \/ (op.at = "none" /\ st.status = "idle" /\ enabled),
         pc = "sleep", op' \in CommandType, op'.at \in {"none"} \cup CopyAt,
         op'.read \in {op.read, NoCommand.read},
         UNCHANGED <<pub, repaired, origin, worker, subs, ready, done, rows, trig, armed, replayLog,
                     heads, applied, resolved, st, loopVars, lost, faults>>,
         TypeReplication', TypeDatabase', TypeTables', Books'
  PROVE  IInv'
<1>1. /\ st.status = "idle" /\ st.step = "none" /\ op.at # "resuming"
      /\ op.read.step = "none" /\ ~op.read.was /\ ~op.read.off
      /\ \A i \in Xid : rows[i] = "local" => i \in applied /\ ~NoFaultInHalt
  BY CopyAlone
<1>2. op'.read.step = "none" /\ ~op'.read.was /\ ~op'.read.off /\ Holds(op.read)'
  BY <1>1, NothingRead DEF IInv, InHand, Holds, Replaying
<1>3. TypeProcesses'
  BY DEF CommandType, IInv, TypeOK, TypeProcesses, loopVars
<1>4. Control' /\ Reading'
  BY <1>1, <1>2 DEF IInv, Control, Reading, CopyRunning, CopyAt, ResumeAt, loopVars
<1>5. Quiesced'
  BY <1>1, <1>2 DEF Quiesced, Replaying, loopVars
<1>6. InHand'
  BY <1>2 DEF IInv, InHand, Holds, IsMigration
<1>7. LocalRows'
  BY <1>1 DEF LocalRows
<1> QED BY Frame, <1>3, <1>4, <1>5, <1>6, <1>7 DEF IInv, TypeOK, loopVars

\* copy-columns starts on an idle follower and holds its lock.
LEMMA CopyStartKeeps == ASSUME IInv, CopyStart PROVE IInv'
<1>1. /\ op' \in CommandType /\ op'.at = "waiting" /\ op'.read = op.read
      /\ Len(pub) \in 0 .. MaxTx
  BY DEF CopyStart, CommandType, CopyAt, IInv, TypeOK, TypeProcesses, TypePublished
<1>2. TypeReplication' /\ TypeDatabase' /\ TypeTables' /\ Books'
  BY Frame DEF CopyStart, IInv, TypeOK, pgVars, dbVars, tabVars
<1> QED BY <1>1, <1>2, CopyKeeps DEF CopyStart, CopyAt, pgVars, dbVars, tabVars

\* copy-columns disables apply.
LEMMA CopyDisableKeeps == ASSUME IInv, CopyDisable PROVE IInv'
<1>1. /\ op' \in CommandType /\ op'.at = "draining" /\ op'.read = op.read
      /\ CopyRunning /\ pc = "sleep"
  BY DEF CopyDisable, CommandType, CopyAt, CopyRunning, IInv, Control, TypeOK, TypeProcesses
<1>2. TypeReplication'
  BY DEF CopyDisable, IInv, TypeOK, TypeReplication
<1>3. TypeDatabase' /\ TypeTables' /\ Books'
  BY Frame DEF CopyDisable, IInv, TypeOK, dbVars, tabVars
<1> QED BY <1>1, <1>2, <1>3, CopyKeeps DEF CopyDisable, CopyAt, dbVars, tabVars

\* copy-columns gives up waiting for the worker.
LEMMA CopyGivesUpKeeps == ASSUME IInv, CopyGivesUp PROVE IInv'
<1>1. /\ op' \in CommandType /\ op'.at = "none" /\ op'.read = NoCommand.read
      /\ CopyRunning /\ pc = "sleep"
  BY NoCommandType, NothingRead DEF CopyGivesUp, CopyAt, CopyRunning, IInv, Control
<1>2. TypeReplication' /\ TypeDatabase' /\ TypeTables' /\ Books'
  BY Frame DEF CopyGivesUp, IInv, TypeOK, pgVars, dbVars, tabVars
<1> QED BY <1>1, <1>2, CopyKeeps DEF CopyGivesUp, pgVars, dbVars, tabVars

\* copy-columns copies a table from the publisher.
LEMMA CopyRowsKeeps == ASSUME IInv, NEW t \in Target, CopyRows(t) PROVE IInv'
<1>1. /\ op' \in CommandType /\ op'.at = "copied" /\ op'.read = op.read
      /\ CopyRunning /\ pc = "sleep"
  BY DEF CopyRows, CommandType, CopyAt, CopyRunning, IInv, Control, TypeOK, TypeProcesses
<1>2. TypeDatabase'
  BY DEF CopyRows, IInv, TypeOK, TypeDatabase
<1>3. TypeReplication' /\ TypeTables' /\ Books'
  BY Frame DEF CopyRows, IInv, TypeOK, pgVars, tabVars
<1> QED BY <1>1, <1>2, <1>3, CopyKeeps DEF CopyRows, CopyAt, pgVars, tabVars

\* copy-columns refuses a table.
LEMMA CopyRefusedKeeps == ASSUME IInv, CopyRefused PROVE IInv'
<1>1. /\ op' \in CommandType /\ op'.at = "ending" /\ op'.read = op.read
      /\ CopyRunning /\ pc = "sleep"
  BY DEF CopyRefused, CommandType, CopyAt, CopyRunning, IInv, Control, TypeOK, TypeProcesses
<1>2. TypeReplication' /\ TypeDatabase' /\ TypeTables' /\ Books'
  BY Frame DEF CopyRefused, IInv, TypeOK, pgVars, dbVars, tabVars
<1> QED BY <1>1, <1>2, CopyKeeps DEF CopyRefused, CopyAt, pgVars, dbVars, tabVars

\* copy-columns clears what was owed.
LEMMA CopyClearsKeeps == ASSUME IInv, CopyClears PROVE IInv'
<1>1. /\ op' \in CommandType /\ op'.at = "ending" /\ op'.read = op.read
      /\ CopyRunning /\ pc = "sleep"
  BY DEF CopyClears, CommandType, CopyAt, CopyRunning, IInv, Control, TypeOK, TypeProcesses
<1>2. TypeTables'
  BY DEF CopyClears, IInv, TypeOK, TypeTables
<1>3. TypeReplication' /\ TypeDatabase' /\ Books'
  BY Frame DEF CopyClears, IInv, TypeOK, pgVars, dbVars
<1> QED BY <1>1, <1>2, <1>3, CopyKeeps DEF CopyClears, CopyAt, pgVars, dbVars

\* copy-columns enables apply again; no migration is in hand.
LEMMA CopyEnableKeeps == ASSUME IInv, CopyEnable PROVE IInv'
<1>1. /\ op' \in CommandType /\ op'.at = "none" /\ op'.read = NoCommand.read
      /\ CopyRunning /\ pc = "sleep"
  BY NoCommandType, NothingRead DEF CopyEnable, CopyAt, CopyRunning, IInv, Control
<1>2. TypeReplication' /\ Books'
  BY DEF CopyEnable, EnableIf, IInv, TypeOK, TypeReplication, Books, IsMigration, dbVars, tabVars
<1>3. TypeDatabase' /\ TypeTables'
  BY Frame DEF CopyEnable, IInv, TypeOK, dbVars, tabVars
<1> QED BY <1>1, <1>2, <1>3, CopyKeeps DEF CopyEnable, dbVars, tabVars

-----------------------------------------------------------------------------
(* Faults, and what stops the daemon.                                      *)

\* A failed call ends the cycle, counted, or raises a halt; the step is as
\* it was saved.
LEMMA DatabaseErrorKeeps == ASSUME IInv, DatabaseError PROVE IInv'
<1>1. /\ ~CopyRunning /\ faults' \in 0 .. MaxFaults
      /\ NoFaultInHalt => pc # "halted"
  BY FollowerAssumption
  DEF DatabaseError, MayFault, NoFaultInHalt, IInv, Control, TypeOK, TypeProcesses
<1>2. PICK known \in BOOLEAN : CycleError(st, known, Count(Noted(st, known)))
  BY DEF DatabaseError
<1>3. Count(Noted(st, known)) \in 0 .. MaxFailures
  BY CountType
<1> QED BY <1>1, <1>2, <1>3, CycleErrorKeeps DEF DatabaseError

\* An unreachable publisher ends the cycle.
LEMMA PublisherErrorKeeps == ASSUME IInv, PublisherError PROVE IInv'
<1>1. ~CopyRunning /\ faults' \in 0 .. MaxFaults /\ pc # "halted"
  BY FollowerAssumption
  DEF PublisherError, MayFault, IInv, Control, TypeOK, TypeProcesses
<1>2. PICK known \in BOOLEAN : CycleError(st, known, fails.count)
  BY DEF PublisherError
<1>3. fails.count \in 0 .. MaxFailures
  BY DEF IInv, TypeOK, TypeProcesses
<1> QED BY <1>1, <1>2, <1>3, CycleErrorKeeps DEF PublisherError

\* A crash loses the memory and nothing else.
LEMMA CrashKeeps == ASSUME IInv, Crash PROVE IInv'
<1>1. TypeProcesses' /\ Control' /\ Losing'
  BY FollowerAssumption
  DEF Crash, MayFault, NoFailures, IInv, TypeOK, TypeProcesses, Control, Losing, CopyRunning
<1> QED BY <1>1, CycleMoves DEF Crash, MayFault, NoFaultInHalt

\* Another configuration.
LEMMA ReconfigureKeeps == ASSUME IInv, Reconfigure PROVE IInv'
<1>1. mem' \in MemType
  BY DEF Reconfigure, MemType, IInv, TypeOK, TypeProcesses
<1>2. TypeProcesses' /\ Control' /\ Losing'
  BY <1>1, FollowerAssumption
  DEF Reconfigure, NoFailures, IInv, TypeOK, TypeProcesses, Control, Losing, CopyRunning
<1> QED BY <1>2, CycleMoves DEF Reconfigure

\* A killed command stops where it is; a resume leaves what it has read, or the
\* state a halt has left since.
LEMMA CommandDiesKeeps == ASSUME IInv, CommandDies PROVE IInv'
<1>1. /\ op' \in CommandType /\ op'.at = "none" /\ op'.read.step = "none"
      /\ ~op'.read.was /\ ~op'.read.off /\ op'.read.targets = {}
      /\ UNCHANGED <<pub, repaired, pgVars, dbVars, tabVars, st, loopVars, lost>>
      /\ faults' \in 0 .. MaxFaults
  BY NoCommandType, NothingRead, FollowerAssumption
  DEF CommandDies, IInv, TypeOK, TypeProcesses
<1>2. TypeProcesses'
  BY <1>1 DEF CommandType, IInv, TypeOK, TypeProcesses, loopVars
<1>3. Control' /\ Reading'
  BY <1>1 DEF IInv, Control, Reading, CopyRunning, CopyAt, ResumeAt, loopVars
<1>4. Quiesced'
  BY <1>1 DEF IInv, Quiesced, Replaying, pgVars, loopVars
<1>5. InHand'
  BY <1>1 DEF IInv, InHand, Holds, Replaying, IsMigration, pgVars, tabVars
<1>6. LocalRows'
  <2> SUFFICES ASSUME NEW i \in Xid, rows[i] = "local", NoFaultInHalt \/ i \notin applied
               PROVE  Stranded' \/ (Replays(st, i) /\ (NoFaultInHalt => replayLog.inserts))
    BY <1>1 DEF LocalRows, Replayed, Replays, dbVars, tabVars
  <2>1. CASE Stranded
    BY <1>1, <2>1 DEF Stranded, CopyRunning, CopyAt, pgVars, loopVars
  <2>2. CASE Replays(op.read, i) /\ (NoFaultInHalt => replayLog.inserts) /\ ~Replays(st, i)
    <3>1. op.at = "resuming"
      BY <2>2 DEF IInv, Control, Replays, Replaying
    <3>2. lost /\ ~st.was /\ ~st.off
      BY <2>2, <3>1 DEF IInv, Reading, Replays
    <3>3. ~enabled /\ ~worker /\ (pc = "halted" => ~mem.off)
      BY <2>2 DEF IInv, Quiesced, Replays
    <3> QED BY <1>1, <3>2, <3>3 DEF Stranded, CopyRunning, CopyAt, pgVars, loopVars
  <2> QED BY <2>1, <2>2 DEF IInv, LocalRows, Replayed
<1> QED BY Frame, <1>1, <1>2, <1>3, <1>4, <1>5, <1>6
  DEF IInv, TypeOK, pgVars, dbVars, tabVars, loopVars

-----------------------------------------------------------------------------
(* The invariant holds initially, and every step preserves it.             *)

\* The initial state satisfies the invariant.
LEMMA InitEstablishes == Init => IInv
<1> SUFFICES ASSUME Init PROVE IInv
  OBVIOUS
<1>1. TypePublished /\ TypeReplication
  <2>1. TypePublished
    BY FollowerAssumption DEF Init, TypePublished
  <2>2. 0 \in 0 .. MaxTx
    BY FollowerAssumption
  <2>3. err \in [xid : 0 .. MaxTx, code : {"schema", "refused"},
               fresh : BOOLEAN, hist : BOOLEAN, current : BOOLEAN]
    BY <2>2 DEF Init
  <2> QED BY <2>1, <2>2, <2>3 DEF Init, TypeReplication
<1>2. TypeDatabase /\ TypeTables
  BY DEF Init, TypeDatabase, TypeTables
<1>3. /\ op \in CommandType /\ op.at = "none" /\ op.read.step = "none"
      /\ ~op.read.was /\ ~op.read.off /\ op.read.targets = {}
  BY NoCommandType, NothingRead DEF Init
<1>4. /\ st \in StateType /\ st.status = "idle" /\ st.step = "none" /\ ~st.was
      /\ st.targets = {}
  BY NoCommandType DEF Init, Idle
<1>5. TypeProcesses
  <2>1. mem \in MemType
    BY FollowerAssumption DEF Init, MemType, Reasons
  <2>2. fails \in [count : 0 .. MaxFailures, noted : BOOLEAN] /\ faults \in 0 .. MaxFaults
    BY FollowerAssumption DEF Init, NoFailures
  <2>3. lost \in BOOLEAN /\ pc = "sleep"
    BY DEF Init
  <2> QED BY <1>3, <1>4, <2>1, <2>2, <2>3 DEF TypeProcesses, CommandType
<1>6. Control /\ Losing /\ Reading /\ Quiesced
  BY <1>3, <1>4
  DEF Init, Control, Losing, Reading, Quiesced, Replaying, CopyRunning, CopyAt, ResumeAt
<1>7. LocalRows /\ Triggers /\ InHand /\ Subscribed
  BY <1>3, <1>4
  DEF Init, LocalRows, Triggers, TriggersOnlyInReplay, InHand, Holds, Subscribed, Replaying
<1>8. Books /\ CarriedRows /\ ArmedIsPending
  BY DEF Init, Books, CarriedRows, ArmedIsPending
<1> QED BY <1>1, <1>2, <1>5, <1>6, <1>7, <1>8 DEF IInv, TypeOK

\* A step that changes nothing keeps it.
LEMMA StutterKeeps == ASSUME IInv, UNCHANGED vars PROVE IInv'
  BY Frame DEF vars, pgVars, dbVars, tabVars, loopVars, IInv, TypeOK

\* Every step keeps it, action by action.
LEMMA NextKeeps ==
  ASSUME IInv, [Next]_vars
  PROVE  IInv'
<1>1. CASE Commit
  BY <1>1, CommitKeeps
<1>2. CASE Subscriber
  BY <1>2, ApplyKeeps, ApplyErrorKeeps, WorkerStartKeeps, WorkerExitKeeps, ErrorAgesKeeps,
     TableSyncKeeps
  DEF Subscriber
<1>3. CASE Daemon
  <2>1. CASE PollViolated \/ Poll \/ PollHalted \/ RecordHeads \/ NoStall
    BY <2>1, PollViolatedKeeps, PollKeeps, PollHaltedKeeps, RecordHeadsKeeps, NoStallKeeps
  <2>2. CASE CompareSame \/ CompareDiffers \/ PassedRests \/ PassedHalts
    BY <2>2, CompareSameKeeps, CompareDiffersKeeps, PassedRestsKeeps, PassedHaltsKeeps
  <2>3. CASE StallHalts \/ StallWaits \/ StallTaken
    BY <2>3, StallHaltsKeeps, StallWaitsKeeps, StallTakenKeeps
  <2>4. CASE Disable \/ Drained \/ DrainTimeout \/ StepUnknown \/ StartLog \/ Relog
    BY <2>4, DisableKeeps, DrainedKeeps, DrainTimeoutKeeps, StepUnknownKeeps, StartLogKeeps,
       RelogKeeps
  <2>5. CASE MigratePart \/ Migrate \/ MigrateFails \/ UndoHalts \/ Undo \/ SaveStep
    BY <2>5, MigratePartKeeps, MigrateKeeps, MigrateFailsKeeps, UndoHaltsKeeps, UndoKeeps,
       SaveStepKeeps
  <2>6. CASE EnableHalts \/ Enable \/ Refresh \/ RefreshFails \/ Stamp
    BY <2>6, EnableHaltsKeeps, EnableKeeps, RefreshKeeps, RefreshFailsKeeps, StampKeeps
  <2>7. CASE HaltDisable \/ HaltSave
    BY <2>7, HaltDisableKeeps, HaltSaveKeeps
  <2> QED BY <1>3, <2>1, <2>2, <2>3, <2>4, <2>5, <2>6, <2>7 DEF Daemon
<1>4. CASE Operator
  <2>1. CASE Reconfigure \/ ResumeRead \/ ResumeMigration \/ ResumeEnable \/ ResumeIdle \/ Repair
    BY <2>1, ReconfigureKeeps, ResumeReadKeeps, ResumeMigrationKeeps, ResumeEnableKeeps,
       ResumeIdleKeeps, RepairKeeps
  <2>2. CASE \E s \in Shape : Resolve(s)
    BY <2>2, ResolveKeeps
  <2>3. CASE CopyStart \/ CopyDisable \/ CopyGivesUp \/ CopyRefused \/ CopyClears \/ CopyEnable
    BY <2>3, CopyStartKeeps, CopyDisableKeeps, CopyGivesUpKeeps, CopyRefusedKeeps,
       CopyClearsKeeps, CopyEnableKeeps
  <2>4. CASE \E t \in Target : CopyRows(t)
    BY <2>4, CopyRowsKeeps
  <2> QED BY <1>4, <2>1, <2>2, <2>3, <2>4 DEF Operator
<1>5. CASE Fault
  BY <1>5, HaltPartlyKeeps, DatabaseErrorKeeps, PublisherErrorKeeps, StampUnreportedKeeps,
     CrashKeeps, CommandDiesKeeps
  DEF Fault
<1>6. CASE UNCHANGED vars
  BY <1>6, StutterKeeps
<1> QED BY <1>1, <1>2, <1>3, <1>4, <1>5, <1>6 DEF Next

\* IInv is an invariant of every instance, whatever faults strike where.
THEOREM Invariance == Spec => []IInv
<1>1. Init => IInv
  BY InitEstablishes
<1>2. IInv /\ [Next]_vars => IInv'
  BY NextKeeps
<1> QED BY <1>1, <1>2, PTL DEF Spec

-----------------------------------------------------------------------------
(* What follows from it.                                                   *)

\* The follower's state, PostgreSQL's and the processes' stay in their types.
THEOREM TypeCorrect == Spec => []TypeOK
<1>1. IInv => TypeOK
  BY DEF IInv
<1> QED BY <1>1, Invariance, PTL

\* Every transaction apply has passed is there exactly once, with production's
\* rows, and a migration only with its schema change (the follower's promise);
\* halts that drop the migration in hand included.
THEOREM CarriedExactlyHolds == NoFaultInHalt => (Spec => []CarriedExactly)
<1>1. NoFaultInHalt /\ IInv => CarriedExactly
  BY DEF IInv, CarriedRows, Books, CarriedExactly
<1>2. CASE NoFaultInHalt
  <2>1. IInv => CarriedExactly
    BY <1>1, <1>2
  <2> QED BY <2>1, Invariance, PTL
<1> QED BY <1>2

\* While a row of the replay is in the database apply is stopped (_disable's
\* drain, and no enable before the undo, nor after a halt that drops it).
THEOREM ApplyNeverMeetsReplayHolds == NoFaultInHalt => (Spec => []ApplyNeverMeetsReplay)
<1>1. NoFaultInHalt /\ IInv => ApplyNeverMeetsReplay
  BY DEF IInv, ApplyNeverMeetsReplay, LocalRows, Stranded, Replayed, Replays, Quiesced
<1>2. CASE NoFaultInHalt
  <2>1. IInv => ApplyNeverMeetsReplay
    BY <1>1, <1>2
  <2> QED BY <2>1, Invariance, PTL
<1> QED BY <1>2

\* A migration is replayed on exactly the transactions before it.
THEOREM ReplayOnExactPrefixHolds == Spec => []ReplayOnExactPrefix
<1>1. IInv => ReplayOnExactPrefix
  BY DEF IInv, ReplayOnExactPrefix, InHand, Holds
<1> QED BY <1>1, Invariance, PTL

\* No replay trigger is left outside a replay, unless a halt has dropped it.
THEOREM TriggersOnlyInReplayHolds == Spec => []TriggersOnlyInReplay
<1>1. IInv => TriggersOnlyInReplay
  BY DEF IInv, Triggers
<1> QED BY <1>1, Invariance, PTL

\* A version let through the marker once belongs to a transaction apply has
\* yet to bring: an arming is never left behind.
THEOREM ArmedIsPendingHolds == Spec => []ArmedIsPending
<1>1. IInv => ArmedIsPending
  BY DEF IInv
<1> QED BY <1>1, Invariance, PTL

\* When the follower reports that it has settled, every table the publisher's
\* migrations created is subscribed and copied, unless a halt has dropped a
\* migration.
THEOREM SettledIsCompleteHolds == Spec => []SettledIsComplete
<1>1. IInv => SettledIsComplete
  <2> SUFFICES ASSUME IInv, st.status = "idle", CaughtUp(Len(pub)), ~lost, NEW i \in Created
               PROVE  i \in ready
    BY DEF SettledIsComplete
  <2>1. i \in 1 .. origin /\ pub[i] \in TxType /\ pub[i].creates
    BY FollowerAssumption
    DEF CaughtUp, Created, IInv, Books, TypeOK, TypePublished, TypeReplication
  <2>2. IsMigration(i)
    BY <2>1 DEF IsMigration, TxType
  <2>3. st.step = "none"
    BY DEF IInv, Control
  <2>4. i \in applied
    BY <2>1, <2>2 DEF IInv, Books
  <2>5. i \in subs
    BY <2>1, <2>3, <2>4 DEF IInv, Subscribed
  <2> QED BY <2>5 DEF CaughtUp, SyncsInFlight
<1> QED BY <1>1, Invariance, PTL

\* The steps that leave the step in follower.state alone.
LEMMA StepStays ==
  ASSUME Next, ~Stamp, ~StampUnreported, ~StallTaken, ~Undo, ~SaveStep, ~HaltSave,
         ~ResumeMigration, ~ResumeIdle
  PROVE  st' = st
<1>1. CASE Commit \/ Subscriber
  BY <1>1
  DEF Commit, Subscriber, Apply, ApplyError, WorkerStart, WorkerExit, ErrorAges, TableSync
<1>2. CASE Fault
  BY <1>2
  DEF Fault, HaltPartly, Halting, DatabaseError, PublisherError, Crash, CommandDies
<1>3. CASE Daemon
  BY <1>3
  DEF Daemon, PollViolated, Poll, PollHalted, RecordHeads, NoStall, CompareSame,
      CompareDiffers, PassedRests, PassedHalts, StallHalts, StallWaits, Disable, Drained,
      DrainTimeout, StepUnknown, StartLog, Relog, MigratePart, Migrate, MigrateFails,
      UndoHalts, EnableHalts, Enable, Refresh, RefreshFails, HaltDisable, Halting
<1>4. CASE Operator
  BY <1>4
  DEF Operator, Reconfigure, ResumeRead, ResumeEnable, Resolve, Repair, CopyStart,
      CopyDisable, CopyGivesUp, CopyRows, CopyRefused, CopyClears, CopyEnable
<1> QED BY <1>1, <1>2, <1>3, <1>4 DEF Next

\* A migration in progress ends only after its undo has committed and with the
\* subscription as it was before, whatever crashes, halts and resumes happen,
\* unless a halt that does not carry it over has dropped it.
THEOREM NeverAbandonedHolds == Spec => NeverAbandoned
<1>1. IInv /\ [Next]_vars => [Dropped => Ended \/ lost']_vars
  <2> SUFFICES ASSUME IInv, Next, Dropped
               PROVE  Ended \/ lost'
    OBVIOUS
  <2>1. st.step \notin {"none", "unknown"} /\ st'.step \in {"none", "unknown"}
    BY DEF Dropped
  <2>2. CASE Stamp \/ StampUnreported
    BY <2>2 DEF Stamp, StampUnreported, Ended, IInv, Control, InHand, Holds, Quiesced
  <2>3. CASE HaltSave
    <3>1. mem.keep # "step"
      BY <2>1, <2>3, SavedHolds DEF HaltSave
    <3> QED BY <2>1, <2>3, <3>1 DEF HaltSave, IInv, Control, Losing
  <2>4. ~StallTaken
    BY <2>1 DEF StallTaken, InProgress
  <2>5. ~Undo
    BY <2>1 DEF Undo, IInv, TypeOK, TypeProcesses, StateType
  <2>6. ~SaveStep
    BY <2>1 DEF SaveStep, NextStep, IInv, Control, TypeOK, TypeProcesses, StateType
  <2>7. ~ResumeMigration
    <3> SUFFICES ASSUME ResumeMigration PROVE FALSE
      OBVIOUS
    <3>1. st'.step = IF op.read.step = "migrate" THEN "relog" ELSE op.read.step
      BY ResumedType DEF ResumeMigration, IInv, TypeOK, TypeProcesses
    <3>2. st = op.read
      BY <2>1 DEF ResumeMigration, IInv, Reading
    <3> QED BY <2>1, <3>1, <3>2
  <2>8. ~ResumeIdle
    BY <2>1 DEF ResumeIdle, IInv, Control
  <2> QED BY <2>1, <2>2, <2>3, <2>4, <2>5, <2>6, <2>7, <2>8, StepStays
<1> QED BY <1>1, Invariance, PTL DEF Spec, NeverAbandoned

-----------------------------------------------------------------------------
(* The follower implements SchemaCarry.                                    *)

\* A step that changes neither the transactions, the versions applied nor the
\* rows is not one the promise speaks of.
LEMMA PromiseFrame ==
  UNCHANGED <<pub, origin, applied, rows>> => UNCHANGED Promise!carryVars
  BY DEF Promise!carryVars

\* The follower starts where the promise starts.
LEMMA InitPromised == Init => Promise!CarryInit
  BY DEF Init, Promise!CarryInit, Xid

\* A commit is the promise's Publish.
LEMMA CommitPublishes == Commit => Promise!Publish
  BY DEF Commit, Promise!Publish, pgVars, dbVars, tabVars

\* Apply is TakeEffect: the migration was carried, and no replay's row is in
\* the way.
LEMMA ApplyTakesEffect ==
  ASSUME IInv, NoFaultInHalt, Apply
  PROVE  Promise!TakeEffect
<1> DEFINE n == origin + 1
<1>1. /\ n \in Xid /\ n \in 1 .. Len(pub)
      /\ IsMigration(n) => n \in applied
      /\ rows[n] = "none"
  BY ApplyPasses
<1>2. rows' = [rows EXCEPT ![n] = "prod"] /\ UNCHANGED <<pub, applied>> /\ origin' = n
  BY <1>1 DEF Apply, Clashes
<1> DEFINE image(r) == [i \in Xid |-> IF r[i] = "local" THEN "none" ELSE r[i]]
<1>3. image(rows') = [image(rows) EXCEPT ![n] = "prod"]
  BY <1>1, <1>2 DEF IInv, TypeOK, TypeDatabase
<1>4. n <= Len(pub) /\ (pub[n].kind # "app" => n \in applied)
  BY <1>1 DEF IsMigration
<1> QED BY <1>2, <1>3, <1>4 DEF Promise!TakeEffect

\* The undo is Carry: what it deletes is the replay's rows, which the
\* promise does not see.
LEMMA UndoCarries == ASSUME IInv, Undo PROVE Promise!Carry
<1>1. st.xid = origin + 1 /\ st.xid \in 1 .. Len(pub) /\ pub[st.xid].kind # "app"
      /\ st.xid \notin applied
  BY DEF Undo, AtStep, IInv, InHand, Holds, IsMigration, Replaying
<1>2. [i \in Xid |-> IF rows[i] = "local" THEN "none" ELSE rows[i]]
        = [i \in Xid |-> IF rows'[i] = "local" THEN "none" ELSE rows'[i]]
  <2>1. rows[st.xid] \in {"none", "local"}
    BY <1>1, FollowerAssumption DEF IInv, Books, TypeOK, TypePublished, TypeReplication, Xid
  <2> QED BY <2>1 DEF Undo, Undone, IInv, TypeOK, TypeDatabase
<1>3. applied' = applied \cup {st.xid} /\ UNCHANGED <<pub, origin>>
  BY DEF Undo, Recorded, pgVars
<1> QED BY <1>1, <1>2, <1>3 DEF Promise!Carry

\* The replay itself changes nothing the promise speaks of.
LEMMA ReplayStutters ==
  ASSUME IInv, MigratePart \/ Migrate
  PROVE  UNCHANGED Promise!carryVars
<1>1. UNCHANGED <<pub, origin, applied>>
  BY DEF MigratePart, Migrate, pgVars
<1>2. rows' = rows \/ rows' = [rows EXCEPT ![st.xid] = IF @ = "none" THEN "local" ELSE @]
  BY DEF MigratePart, Migrate, ReplayCommit
<1>3. [i \in Xid |-> IF rows[i] = "local" THEN "none" ELSE rows[i]]
        = [i \in Xid |-> IF rows'[i] = "local" THEN "none" ELSE rows'[i]]
  BY <1>2 DEF IInv, TypeOK, TypeDatabase
<1> QED BY <1>1, <1>3 DEF Promise!carryVars

\* Every step is one of the promise's, or none.
LEMMA StepPromised ==
  ASSUME IInv, NoFaultInHalt, [Next]_vars
  PROVE  [Promise!CarryNext]_(Promise!carryVars)
<1>1. CASE Commit
  BY <1>1, CommitPublishes DEF Promise!CarryNext
<1>2. CASE Subscriber
  <2>1. CASE Apply
    BY <2>1, ApplyTakesEffect DEF Promise!CarryNext
  <2>2. CASE ApplyError \/ WorkerStart \/ WorkerExit \/ ErrorAges \/ (\E i \in Xid : TableSync(i))
    BY <2>2, PromiseFrame
    DEF ApplyError, WorkerStart, WorkerExit, ErrorAges, TableSync, dbVars, tabVars
  <2> QED BY <1>2, <2>1, <2>2 DEF Subscriber
<1>3. CASE Daemon
  <2>1. CASE Undo
    BY <2>1, UndoCarries DEF Promise!CarryNext
  <2>2. CASE MigratePart \/ Migrate
    BY <2>2, ReplayStutters
  <2>3. CASE Daemon /\ ~Undo /\ ~MigratePart /\ ~Migrate
    BY <2>3, PromiseFrame
    DEF Daemon, PollViolated, Poll, PollHalted, RecordHeads, NoStall, CompareSame,
        CompareDiffers, PassedRests, PassedHalts, StallHalts, StallWaits, StallTaken, Disable,
        Drained, DrainTimeout, StepUnknown, StartLog, Relog, MigrateFails, UndoHalts, SaveStep,
        EnableHalts, Enable, Refresh, RefreshFails, Stamp, HaltDisable, Halting, HaltSave,
        pgVars, dbVars, tabVars
  <2> QED BY <1>3, <2>1, <2>2, <2>3
<1>4. CASE Operator
  BY <1>4, PromiseFrame
  DEF Operator, Reconfigure, ResumeRead, ResumeMigration, ResumeEnable, ResumeIdle, Resolve,
      Repair, CopyStart, CopyDisable, CopyGivesUp, CopyRows, CopyRefused, CopyClears,
      CopyEnable, pgVars, dbVars, tabVars
<1>5. CASE Fault
  BY <1>5, PromiseFrame
  DEF Fault, HaltPartly, Halting, DatabaseError, PublisherError, StampUnreported, Crash,
      CommandDies, pgVars, dbVars, tabVars
<1>6. CASE UNCHANGED vars
  BY <1>6, PromiseFrame DEF vars, pgVars, dbVars, tabVars
<1> QED BY <1>1, <1>2, <1>3, <1>4, <1>5, <1>6 DEF Next

\* The follower keeps its promise: every transaction takes effect once, in
\* order and with production's rows, and each migration is carried first.
THEOREM Refinement == NoFaultInHalt => (Spec => KeepsPromise)
<1>1. Init => Promise!CarryInit
  BY InitPromised
<1>2. CASE NoFaultInHalt
  <2>1. IInv /\ [Next]_vars => [Promise!CarryNext]_(Promise!carryVars)
    BY <1>2, StepPromised
  <2> QED BY <1>1, <2>1, Invariance, PTL DEF Spec, KeepsPromise, Promise!CarrySpec
<1> QED BY <1>2

=============================================================================
