------------------------- MODULE FollowerHaltProofs -------------------------
(***************************************************************************)
(* Theorems about the follower's halts (README, section 6): that a table   *)
(* the operator let diverge is on record, and that a resume leaves the     *)
(* subscription enabled.                                                   *)
(*                                                                         *)
(* Each adds an invariant of its own to IInv of FollowerProofs, which      *)
(* holds until a halt drops what the state held.                           *)
(***************************************************************************)
EXTENDS FollowerProofs

-----------------------------------------------------------------------------
(* A halt that drops what the state held is on record for ever.            *)

\* While nothing is lost a halt on its way carries over the migration in hand,
\* or there is none, and the follower had not halted before.
LEMMA NothingLost ==
  ASSUME IInv, ~lost, pc \in {"halt", "halted"}
  PROVE  /\ st.status # "halted" /\ op.at \notin ResumeAt
         /\ mem.keep # "step" => mem.keep = "nothing" /\ st.step = "none"
  BY DEF IInv, Losing, Control, TypeOK, TypeProcesses, MemType

\* Raising a halt forgets no earlier loss.
LEMMA HaltKeepsLost ==
  ASSUME NEW keep, NEW reason, NEW targets, HaltKeeping(keep, reason, targets), lost
  PROVE  lost'
  BY DEF HaltKeeping

\* Nor does a cycle that failed.
LEMMA CycleErrorKeepsLost ==
  ASSUME NEW s, NEW known, NEW count, CycleError(s, known, count), lost
  PROVE  lost'
  BY HaltKeepsLost DEF CycleError

\* Nor does any step.
LEMMA LossIsForEver ==
  ASSUME [Next]_vars, lost
  PROVE  lost'
<1>1. CASE Commit \/ Subscriber
  BY <1>1 DEF Commit, Subscriber, Apply, ApplyError, WorkerStart, WorkerExit, ErrorAges, TableSync
<1>2. CASE Daemon
  BY <1>2, HaltKeepsLost, CycleErrorKeepsLost
  DEF Daemon, PollViolated, Poll, PollHalted, RecordHeads, NoStall, CompareSame, CompareDiffers,
      PassedRests, PassedHalts, StallHalts, StallWaits, StallTaken, Disable, Drained, DrainTimeout,
      StepUnknown, StartLog, Relog, MigratePart, Migrate, MigrateFails, UndoHalts, Undo, SaveStep,
      EnableHalts, Enable, Refresh, RefreshFails, Stamp, HaltDisable, Halting, HaltSave, HaltWith
<1>3. CASE Operator
  BY <1>3
  DEF Operator, Reconfigure, ResumeRead, ResumeMigration, ResumeEnable, ResumeIdle, Resolve, Repair,
      CopyStart, CopyDisable, CopyGivesUp, CopyRefused, CopyClears, CopyEnable, CopyRows
<1>4. CASE Fault
  BY <1>4, CycleErrorKeepsLost
  DEF Fault, HaltPartly, Halting, DatabaseError, PublisherError, StampUnreported, Crash, CommandDies
<1>5. CASE UNCHANGED vars
  BY <1>5 DEF vars
<1> QED BY <1>1, <1>2, <1>3, <1>4, <1>5 DEF Next

-----------------------------------------------------------------------------
(* Diverged tables.                                                        *)

\* The migration in hand, not yet past its undo, made the table diverge, and
\* what the replay checks will stop at says so still.
OnRecord(t) ==
  /\ st.step \in {"migrate", "relog", "undo"}
  /\ \E c \in Case \ {"rename"} :
       /\ <<c, t>> \in pub[st.xid].cases
       /\ IF c \in {"key-change", "rewrite"} THEN <<c, t>> \in replayLog.shapes
          ELSE <<st.xid, <<c, t>>>> \notin resolved

\* A diverged table is owed, or its migration cannot pass the checks without it.
Divergence == \A t \in dirty \ owed : OnRecord(t)

\* Resolutions are of the migration that is at its undo: none is there when the
\* next one is replayed.
Resolutions == \A r \in resolved : r[1] = st.xid /\ st.step = "undo"

\* What copy-columns has copied does not diverge before it is cleared.
Copies == op.at = "copied" => dirty \cap op.copied = {}

HaltInv == Divergence /\ Resolutions /\ Copies

\* A step that keeps the tables, the log and the migration in hand keeps what
\* is on record of it.
LEMMA DivergenceFrame ==
  ASSUME Divergence, UNCHANGED <<dirty, owed, replayLog, resolved, pub>>, st'.xid = st.xid,
         st.step \in {"migrate", "relog", "undo"} => st'.step \in {"migrate", "relog", "undo"}
  PROVE  Divergence'
  BY DEF Divergence, OnRecord

\* Outside the replay nothing need be on record: a step from there to there.
LEMMA DivergenceOutside ==
  ASSUME Divergence, UNCHANGED <<dirty, owed>>, st.step \notin {"migrate", "relog", "undo"}
  PROVE  Divergence'
  BY DEF Divergence, OnRecord

\* The same for resolutions.
LEMMA ResolutionsFrame ==
  ASSUME Resolutions, UNCHANGED <<resolved, st>>
  PROVE  Resolutions'
  BY DEF Resolutions

\* And for copies.
LEMMA CopiesFrame ==
  ASSUME Copies, dirty' \subseteq dirty, op'.at = "copied" => op' = op
  PROVE  Copies'
  BY DEF Copies

\* A step of the cycle or of a command that leaves all of it alone.
LEMMA HaltFrame ==
  ASSUME HaltInv, UNCHANGED <<dirty, owed, replayLog, resolved, pub, st>>,
         op'.at = "copied" => op' = op
  PROVE  HaltInv'
  BY DivergenceFrame, ResolutionsFrame, CopiesFrame DEF HaltInv

\* No command copies.
LEMMA NoCommandAt ==
  NoCommand.at = "none" /\ [NoCommand EXCEPT !.at = "enabled"].at = "enabled"
<1>1. NoCommand.at = "none"
  BY DEF NoCommand
<1> QED BY <1>1, NoCommandType DEF CommandType

\* The publisher and the subscriber's workers touch none of it.
LEMMA SubscriberKeepsHalt ==
  ASSUME IInv, HaltInv, Commit \/ Subscriber
  PROVE  HaltInv'
<1>1. CASE Commit
  <2>1. UNCHANGED <<dirty, owed, replayLog, resolved, st, op>>
    BY <1>1 DEF Commit, dbVars, tabVars
  <2>2. Divergence'
    <3>1. CASE st.step \notin {"migrate", "relog", "undo"}
      BY <2>1, <3>1, DivergenceOutside DEF HaltInv
    <3>2. CASE st.step \in {"migrate", "relog", "undo"}
      <4>1. pub'[st.xid] = pub[st.xid]
        BY <1>1, <3>2 DEF Commit, IInv, InHand, Holds, TypeOK, TypePublished
      <4> QED BY <2>1, <4>1 DEF HaltInv, Divergence, OnRecord
    <3> QED BY <3>1, <3>2
  <2> QED BY <2>1, <2>2, ResolutionsFrame, CopiesFrame DEF HaltInv
<1>2. CASE Subscriber
  BY <1>2, HaltFrame
  DEF Subscriber, Apply, ApplyError, WorkerStart, WorkerExit, ErrorAges, TableSync, dbVars, tabVars
<1> QED BY <1>1, <1>2

\* The cycle up to the step machine takes a stalled migration in hand, or
\* leaves all of it alone.
LEMMA LookingKeepsHalt ==
  ASSUME IInv, HaltInv,
         \/ PollViolated \/ Poll \/ PollHalted \/ RecordHeads \/ NoStall \/ CompareSame
         \/ CompareDiffers \/ PassedRests \/ PassedHalts \/ StallHalts \/ StallWaits \/ StallTaken
  PROVE  HaltInv'
<1>1. CASE ~StallTaken
  BY <1>1, HaltFrame
  DEF PollViolated, Poll, PollHalted, RecordHeads, NoStall, CompareSame, CompareDiffers,
      PassedRests, PassedHalts, StallHalts, StallWaits, dbVars, tabVars
<1>2. CASE StallTaken
  <2>1. st.step = "none" /\ UNCHANGED <<dirty, owed, resolved, op>>
    BY <1>2 DEF StallTaken, IInv, Control, dbVars, tabVars
  <2>2. resolved = {}
    BY <2>1 DEF HaltInv, Resolutions
  <2> QED BY <2>1, <2>2, DivergenceOutside, CopiesFrame DEF HaltInv, Resolutions
<1> QED BY <1>1, <1>2

\* Until the migration command runs nothing is on record but what was.
LEMMA PreparingKeepsHalt ==
  ASSUME IInv, HaltInv,
         Disable \/ Drained \/ DrainTimeout \/ StepUnknown \/ StartLog \/ Relog
  PROVE  HaltInv'
<1>1. CASE StartLog
  <2>1. st.step = "log" /\ UNCHANGED <<dirty, owed, resolved, st, op>>
    BY <1>1 DEF StartLog, AtStep
  <2> QED BY <2>1, DivergenceOutside, ResolutionsFrame, CopiesFrame DEF HaltInv
<1>2. CASE ~StartLog
  BY <1>2, HaltFrame DEF Disable, Drained, DrainTimeout, StepUnknown, Relog, dbVars, tabVars
<1> QED BY <1>1, <1>2

\* The command: what it makes diverge is logged, for the triggers are there, or
\* is of a case nobody has resolved yet.
LEMMA MigrateKeepsHalt ==
  ASSUME IInv, HaltInv, NoFaultInHalt, Migrate
  PROVE  HaltInv'
<1>1. /\ st.step = "migrate" /\ st.status = "in_progress" /\ pc = "step" /\ pc' = "save"
      /\ UNCHANGED <<owed, resolved, pub, st, op>>
  BY DEF Migrate, AtStep
<1>2. trig
  BY <1>1 DEF IInv, Triggers
<1>3. Resolutions'
  BY <1>1, ResolutionsFrame DEF HaltInv
<1>4. op.at # "copied"
  BY <1>1 DEF IInv, Control, CopyRunning, CopyAt
<1>5. Copies'
  BY <1>1, <1>4 DEF Copies
<1>6. CASE st.xid \in done
  <2>1. UNCHANGED <<dirty, replayLog>>
    BY <1>6 DEF Migrate
  <2> QED BY <1>1, <1>3, <1>5, <2>1, DivergenceFrame DEF HaltInv
<1>7. CASE st.xid \notin done
  <2> DEFINE cases == pub[st.xid].cases
  <2> DEFINE logged == {s \in cases : s[1] \in {"key-change", "rewrite"}}
  <2>1. dirty' = dirty \cup {t \in Target : \E c \in Case \ {"rename"} : <<c, t>> \in cases}
    BY <1>7 DEF Migrate
  <2>2. ReplayCommit(logged)
    BY <1>7 DEF Migrate
  <2>3. replayLog'.shapes = replayLog.shapes \cup logged
    BY <1>2, <2>2 DEF ReplayCommit
  <2>4. resolved = {}
    BY <1>1 DEF HaltInv, Resolutions
  <2>5. ASSUME NEW t \in dirty' \ owed' PROVE OnRecord(t)'
    <3>1. CASE t \in dirty
      <4>1. PICK c \in Case \ {"rename"} :
              /\ <<c, t>> \in cases
              /\ c \in {"key-change", "rewrite"} => <<c, t>> \in replayLog.shapes
        BY <1>1, <2>5, <3>1 DEF HaltInv, Divergence, OnRecord
      <4> QED BY <1>1, <2>3, <2>4, <4>1 DEF OnRecord
    <3>2. CASE t \notin dirty
      <4>1. PICK c \in Case \ {"rename"} : <<c, t>> \in cases
        BY <2>1, <2>5, <3>2
      <4>2. c \in {"key-change", "rewrite"} => <<c, t>> \in replayLog'.shapes
        BY <2>3, <4>1
      <4> QED BY <1>1, <2>4, <4>1, <4>2 DEF OnRecord
    <3> QED BY <3>1, <3>2
  <2>6. Divergence'
    BY <2>5 DEF Divergence
  <2> QED BY <1>3, <1>5, <2>6 DEF HaltInv
<1> QED BY <1>6, <1>7

\* A part of the command, or its failure, makes nothing diverge.
LEMMA MigratePartKeepsHalt ==
  ASSUME IInv, HaltInv, MigratePart \/ MigrateFails
  PROVE  HaltInv'
<1>1. CASE MigratePart
  <2>1. /\ UNCHANGED <<dirty, owed, resolved, pub, st, op>>
        /\ replayLog.shapes \subseteq replayLog'.shapes
    BY <1>1 DEF MigratePart, ReplayCommit
  <2>2. Divergence'
    BY <2>1 DEF HaltInv, Divergence, OnRecord
  <2> QED BY <2>1, <2>2, ResolutionsFrame, CopiesFrame DEF HaltInv
<1>2. CASE MigrateFails
  BY <1>2, HaltFrame DEF MigrateFails, dbVars, tabVars
<1> QED BY <1>1, <1>2

\* The undo passes only when nothing blocks, so that no diverged table of the
\* migration is left that is not owed.
LEMMA UndoKeepsHalt ==
  ASSUME IInv, HaltInv, Undo
  PROVE  HaltInv'
<1>1. /\ UNCHANGED <<dirty, owed, pub, op>>
      /\ st.step = "undo" /\ \A c \in Case : Blocking(c) = {}
      /\ resolved' = {r \in resolved : r[1] # st.xid}
  BY DEF Undo, AtStep
<1>2. dirty \subseteq owed
  <2> SUFFICES ASSUME NEW t \in dirty \ owed PROVE FALSE
    OBVIOUS
  <2>1. PICK c \in Case \ {"rename"} :
          /\ <<c, t>> \in pub[st.xid].cases
          /\ IF c \in {"key-change", "rewrite"} THEN <<c, t>> \in replayLog.shapes
             ELSE <<st.xid, <<c, t>>>> \notin resolved
    BY DEF HaltInv, Divergence, OnRecord
  <2>2. <<c, t>> \in Shape
    BY DEF Shape, IInv, TypeOK, TypeDatabase
  <2>3. <<c, t>> \in Blocking(c)
    BY <2>1, <2>2 DEF Blocking
  <2> QED BY <1>1, <2>3
<1>3. Divergence'
  BY <1>1, <1>2 DEF Divergence
<1>4. resolved' = {}
  BY <1>1 DEF HaltInv, Resolutions
<1>5. Resolutions'
  BY <1>4 DEF Resolutions
<1> QED BY <1>1, <1>3, <1>5, CopiesFrame DEF HaltInv

\* Steps of the machine that keep the migration in hand on its way.
LEMMA SaveStepKeepsHalt ==
  ASSUME IInv, HaltInv, SaveStep
  PROVE  HaltInv'
<1>1. /\ UNCHANGED <<dirty, owed, replayLog, resolved, pub, op>>
      /\ st.step \in {"disable", "log", "relog", "migrate"}
  BY DEF SaveStep, IInv, Control, dbVars, tabVars
<1>2. st'.step = NextStep(st.step) /\ st'.xid = st.xid
  BY DEF SaveStep, IInv, TypeOK, TypeProcesses, StateType
<1>3. st.step \in {"migrate", "relog"} => st'.step \in {"migrate", "relog", "undo"}
  BY <1>2 DEF NextStep
<1>4. Divergence'
  BY <1>1, <1>2, <1>3, DivergenceFrame DEF HaltInv
<1>5. resolved = {}
  BY <1>1 DEF HaltInv, Resolutions
<1> QED BY <1>1, <1>4, <1>5, CopiesFrame DEF HaltInv, Resolutions

\* Past the undo.
LEMMA EnablingKeepsHalt ==
  ASSUME IInv, HaltInv,
         EnableHalts \/ Enable \/ Refresh \/ RefreshFails \/ Stamp \/ StampUnreported
  PROVE  HaltInv'
<1>1. CASE Stamp \/ StampUnreported
  <2>1. st.step = "enable" /\ UNCHANGED <<dirty, owed, resolved, op>>
    BY <1>1 DEF Stamp, StampUnreported, IInv, Control, dbVars, tabVars
  <2>2. resolved = {}
    BY <2>1 DEF HaltInv, Resolutions
  <2> QED BY <2>1, <2>2, DivergenceOutside, CopiesFrame DEF HaltInv, Resolutions
<1>2. CASE EnableHalts \/ Enable \/ Refresh \/ RefreshFails
  BY <1>2, HaltFrame DEF EnableHalts, Enable, Refresh, RefreshFails, dbVars, tabVars
<1> QED BY <1>1, <1>2

\* While nothing is lost the saved state holds the migration that was in hand.
LEMMA HaltingKeepsHalt ==
  ASSUME IInv, HaltInv, ~lost, UndoHalts \/ HaltDisable \/ HaltPartly \/ HaltSave
  PROVE  HaltInv'
<1>1. UNCHANGED <<dirty, owed, replayLog, resolved, pub, op>>
  BY DEF UndoHalts, HaltDisable, HaltPartly, HaltSave, Halting, dbVars, tabVars
<1>2. CASE UndoHalts \/ HaltDisable \/ HaltPartly
  <2>1. UNCHANGED st
    BY <1>2 DEF UndoHalts, HaltDisable, HaltPartly, Halting
  <2> QED BY <1>1, <2>1, HaltFrame
<1>3. CASE HaltSave
  <2>1. pc = "halted" /\ st' = Saved
    BY <1>3 DEF HaltSave
  <2>2. CASE mem.keep = "step"
    <3>1. st'.step = st.step /\ st'.xid = st.xid
      BY <2>1, <2>2 DEF Saved
    <3>2. Resolutions'
      BY <1>1, <3>1 DEF HaltInv, Resolutions
    <3> QED BY <1>1, <3>1, <3>2, DivergenceFrame, CopiesFrame DEF HaltInv
  <2>3. CASE mem.keep # "step"
    <3>1. st.step = "none"
      BY <2>1, <2>3, NothingLost
    <3>2. resolved = {}
      BY <3>1 DEF HaltInv, Resolutions
    <3> QED BY <1>1, <3>1, <3>2, DivergenceOutside, CopiesFrame DEF HaltInv, Resolutions
  <2> QED BY <2>2, <2>3
<1> QED BY <1>2, <1>3

\* A resume takes up the migration where its halt left it.
LEMMA ResumeKeepsHalt ==
  ASSUME IInv, HaltInv, ~lost,
         Reconfigure \/ ResumeRead \/ ResumeMigration \/ ResumeEnable \/ ResumeIdle \/ Repair
  PROVE  HaltInv'
<1>1. UNCHANGED <<dirty, owed, replayLog, resolved, pub>>
  BY DEF Reconfigure, ResumeRead, ResumeMigration, ResumeEnable, ResumeIdle, Repair, dbVars, tabVars
<1>2. op'.at = "copied" => op' = op
  <2>1. CASE ResumeMigration \/ ResumeEnable \/ ResumeIdle
    BY <2>1, NoCommandAt DEF ResumeMigration, ResumeEnable, ResumeIdle
  <2>2. CASE ResumeRead
    BY <2>2 DEF ResumeRead, IInv, TypeOK, TypeProcesses
  <2>3. CASE Reconfigure \/ Repair
    BY <2>3 DEF Reconfigure, Repair
  <2> QED BY <2>1, <2>2, <2>3
<1>3. CASE ResumeMigration
  <2>1. st' = Resumed(st)
    BY <1>3 DEF ResumeMigration, IInv, Reading
  <2>2. st'.xid = st.xid
        /\ (st.step \in {"migrate", "relog", "undo"} => st'.step \in {"migrate", "relog", "undo"})
        /\ (st.step = "undo" => st'.step = "undo")
    BY <2>1 DEF Resumed, InProgress
  <2>3. Resolutions'
    BY <1>1, <2>2 DEF HaltInv, Resolutions
  <2> QED BY <1>1, <1>2, <2>2, <2>3, DivergenceFrame, CopiesFrame DEF HaltInv
<1>4. CASE ResumeIdle
  <2>1. st.step \in {"none", "unknown"}
    BY <1>4 DEF ResumeIdle, IInv, Control
  <2>2. resolved = {}
    BY <2>1 DEF HaltInv, Resolutions
  <2> QED BY <1>1, <1>2, <2>1, <2>2, DivergenceOutside, CopiesFrame DEF HaltInv, Resolutions
<1>5. CASE Reconfigure \/ ResumeRead \/ ResumeEnable \/ Repair
  <2>1. UNCHANGED st
    BY <1>5 DEF Reconfigure, ResumeRead, ResumeEnable, Repair
  <2> QED BY <1>1, <1>2, <2>1, HaltFrame
<1> QED BY <1>3, <1>4, <1>5

\* A resolution takes its target off the record only with the table owed; a
\* rename leaves the rows as they are.
LEMMA ResolveKeepsHalt ==
  ASSUME IInv, HaltInv, NEW s \in Shape, Resolve(s)
  PROVE  HaltInv'
<1>1. /\ UNCHANGED <<dirty, pub, st>> /\ op'.at # "copied"
      /\ resolved' = resolved \cup {<<st.xid, s>>}
      /\ st.step = "undo"
  BY DEF Resolve, IInv, InHand, Holds, dbVars, TypeOK, TypeProcesses
<1>2. /\ replayLog.shapes \ {s} \subseteq replayLog'.shapes
      /\ s[1] \notin {"rewrite", "key-change"} => replayLog' = replayLog
  BY DEF Resolve, IInv, TypeOK, TypeTables
<1>3. owed \subseteq owed' /\ (s[1] # "rename" => s[2] \in owed')
  BY DEF Resolve, Owed
<1>4. ASSUME NEW t \in dirty' \ owed' PROVE OnRecord(t)'
  <2>1. PICK c \in Case \ {"rename"} :
          /\ <<c, t>> \in pub[st.xid].cases
          /\ IF c \in {"key-change", "rewrite"} THEN <<c, t>> \in replayLog.shapes
             ELSE <<st.xid, <<c, t>>>> \notin resolved
    BY <1>1, <1>3, <1>4 DEF HaltInv, Divergence, OnRecord
  <2>2. <<c, t>> # s
    BY <1>3, <1>4, <2>1
  <2>3. IF c \in {"key-change", "rewrite"} THEN <<c, t>> \in replayLog'.shapes
        ELSE <<st.xid, <<c, t>>>> \notin resolved'
    BY <1>1, <1>2, <2>1, <2>2
  <2> QED BY <1>1, <2>1, <2>3 DEF OnRecord
<1>5. Divergence'
  BY <1>4 DEF Divergence
<1>6. Resolutions'
  BY <1>1 DEF HaltInv, Resolutions
<1> QED BY <1>1, <1>5, <1>6, CopiesFrame DEF HaltInv

\* copy-columns clears a table only when its rows are production's again; the
\* step machine cannot move while it runs.
LEMMA CopyKeepsHalt ==
  ASSUME IInv, HaltInv,
         \/ CopyStart \/ CopyDisable \/ CopyGivesUp \/ CopyRefused \/ CopyClears \/ CopyEnable
         \/ CommandDies \/ \E t \in Target : CopyRows(t)
  PROVE  HaltInv'
<1>1. UNCHANGED <<replayLog, resolved, pub, st, pc, mem>>
  BY DEF CopyStart, CopyDisable, CopyGivesUp, CopyRefused, CopyClears, CopyEnable, CommandDies,
         CopyRows, dbVars, tabVars, loopVars
<1>2. Resolutions'
  BY <1>1, ResolutionsFrame DEF HaltInv
<1>3. ASSUME NEW t \in Target, CopyRows(t) PROVE HaltInv'
  <2>1. dirty' = dirty \ {t} /\ UNCHANGED owed /\ op'.copied = {t}
    BY <1>3 DEF CopyRows, tabVars, IInv, TypeOK, TypeProcesses
  <2>2. Divergence'
    BY <1>1, <2>1 DEF HaltInv, Divergence, OnRecord
  <2> QED BY <1>2, <2>1, <2>2 DEF HaltInv, Copies
<1>4. CASE CopyClears
  <2>1. dirty' = dirty /\ owed' = owed \ op.copied /\ op'.at = "ending"
        /\ dirty \cap op.copied = {}
    BY <1>4 DEF CopyClears, dbVars, HaltInv, Copies, IInv, TypeOK, TypeProcesses
  <2>2. Divergence'
    BY <1>1, <2>1 DEF HaltInv, Divergence, OnRecord
  <2> QED BY <1>2, <2>1, <2>2 DEF HaltInv, Copies
<1>5. CASE CopyStart \/ CopyDisable \/ CopyGivesUp \/ CopyRefused \/ CopyEnable \/ CommandDies
  <2>1. UNCHANGED <<dirty, owed>>
    BY <1>5 DEF CopyStart, CopyDisable, CopyGivesUp, CopyRefused, CopyEnable, CommandDies,
                dbVars, tabVars
  <2>2. op'.at # "copied"
    <3>1. CASE CopyStart \/ CopyDisable \/ CopyRefused
      BY <1>5, <3>1 DEF CopyStart, CopyDisable, CopyRefused, IInv, TypeOK, TypeProcesses
    <3>2. CASE CopyGivesUp \/ CopyEnable \/ CommandDies
      BY <3>2, NoCommandAt DEF CopyGivesUp, CopyEnable, CommandDies
    <3> QED BY <1>5, <3>1, <3>2
  <2>3. Divergence'
    BY <1>1, <2>1, DivergenceFrame DEF HaltInv
  <2> QED BY <1>2, <2>2, <2>3 DEF HaltInv, Copies
<1> QED BY <1>3, <1>4, <1>5

\* A fault of the daemon loses the cycle and nothing on record.
LEMMA FaultKeepsHalt ==
  ASSUME HaltInv, DatabaseError \/ PublisherError \/ Crash
  PROVE  HaltInv'
  BY HaltFrame DEF DatabaseError, PublisherError, Crash, dbVars, tabVars

\* Every step that loses nothing keeps it.
LEMMA NextKeepsHalt ==
  ASSUME IInv, lost \/ HaltInv, NoFaultInHalt, [Next]_vars
  PROVE  (lost \/ HaltInv)'
<1> SUFFICES ASSUME ~lost, HaltInv PROVE HaltInv'
  BY LossIsForEver
<1>1. CASE Commit \/ Subscriber
  BY <1>1, SubscriberKeepsHalt
<1>2. CASE Daemon
  BY <1>2, LookingKeepsHalt, PreparingKeepsHalt, MigratePartKeepsHalt, MigrateKeepsHalt,
     UndoKeepsHalt, SaveStepKeepsHalt, EnablingKeepsHalt, HaltingKeepsHalt
  DEF Daemon
<1>3. CASE Operator
  BY <1>3, ResumeKeepsHalt, ResolveKeepsHalt, CopyKeepsHalt DEF Operator
<1>4. CASE Fault
  BY <1>4, HaltingKeepsHalt, EnablingKeepsHalt, FaultKeepsHalt, CopyKeepsHalt DEF Fault
<1>5. CASE UNCHANGED vars
  BY <1>5, HaltFrame DEF vars, dbVars, tabVars
<1> QED BY <1>1, <1>2, <1>3, <1>4, <1>5 DEF Next

\* Nothing has diverged, or been resolved, at the start.
LEMMA InitEstablishesHalt == Init => HaltInv
  BY DEF Init, NoCommand, HaltInv, Divergence, Resolutions, Copies

\* Once a migration is past its undo, every table whose rows the operator let
\* diverge is owed until copy-columns has covered it, however many halts,
\* resolutions, relogs and crashes it took, unless a halt has dropped what the
\* state held.
THEOREM NoSilentDivergenceHolds == NoFaultInHalt => (Spec => []NoSilentDivergence)
<1>1. lost \/ HaltInv => NoSilentDivergence
  BY DEF HaltInv, Divergence, OnRecord, NoSilentDivergence
<1>2. CASE NoFaultInHalt
  <2>1. IInv /\ (lost \/ HaltInv) /\ [Next]_vars => (lost \/ HaltInv)'
    BY <1>2, NextKeepsHalt
  <2> QED BY <1>1, <2>1, InitEstablishesHalt, Invariance, PTL DEF Spec
<1> QED BY <1>2

-----------------------------------------------------------------------------
(* Resuming.                                                               *)

\* No copy-columns is killed: one that is leaves an idle follower disabled, for
\* the next halt to find.
NoKilledCopy == "command" \notin FaultPoints

\* Outside a migration only a halt, which says so, and copy-columns, which ends,
\* leave the subscription disabled; inside one, it was enabled before.
Restorable ==
  /\ st.step = "none" /\ ~enabled =>
        \/ pc = "halted" /\ mem.off
        \/ st.status = "halted" /\ st.off
        \/ op.at \in {"draining", "copied", "ending"}
  /\ st.step # "none" => st.was
  /\ op.at = "enabled" => enabled

\* The cycle moves, or the subscription is enabled, and nothing else.
LEMMA RestorableFrame ==
  ASSUME Restorable, enabled => enabled', UNCHANGED <<st, op>>,
         pc = "halted" => pc' = "halted" /\ mem'.off = mem.off
  PROVE  Restorable'
  BY DEF Restorable

\* With nothing in hand or lost a cycle that has not halted finds apply
\* enabled.
LEMMA CycleFindsEnabled ==
  ASSUME IInv, Restorable, ~lost, st.step = "none", pc \notin {"sleep", "halted"}
  PROVE  enabled
<1>1. st.status # "halted" /\ ~CopyRunning
  BY NothingLost DEF IInv, Control
<1> QED BY <1>1 DEF Restorable, CopyRunning, CopyAt

\* The publisher, the workers and the cycle up to the step machine.
LEMMA LookingKeepsRestorable ==
  ASSUME IInv, Restorable, ~lost,
         \/ Commit \/ Subscriber
         \/ PollViolated \/ Poll \/ PollHalted \/ RecordHeads \/ NoStall \/ CompareSame
         \/ CompareDiffers \/ PassedRests \/ PassedHalts \/ StallHalts \/ StallWaits \/ StallTaken
  PROVE  Restorable'
<1>1. CASE StallTaken
  <2>1. /\ st.step = "none" /\ pc = "look" /\ UNCHANGED <<enabled, op>> /\ op.at # "enabled"
        /\ st'.step = "disable" /\ st'.was = enabled
    BY <1>1 DEF StallTaken, InProgress, IInv, Control, ResumeAt, pgVars
  <2> QED BY <2>1, CycleFindsEnabled DEF Restorable
<1>2. CASE Commit \/ Subscriber
  BY <1>2, RestorableFrame
  DEF Commit, Subscriber, Apply, ApplyError, WorkerStart, WorkerExit, ErrorAges, TableSync,
      pgVars, loopVars
<1>3. CASE \/ PollViolated \/ Poll \/ PollHalted \/ RecordHeads \/ NoStall \/ CompareSame
           \/ CompareDiffers \/ PassedRests \/ PassedHalts \/ StallHalts \/ StallWaits
  BY <1>3, RestorableFrame
  DEF PollViolated, Poll, PollHalted, RecordHeads, NoStall, CompareSame, CompareDiffers,
      PassedRests, PassedHalts, StallHalts, StallWaits, pgVars
<1> QED BY <1>1, <1>2, <1>3

\* The step machine stops apply with a migration in hand, and gives it back
\* before it lets it go.
LEMMA SteppingKeepsRestorable ==
  ASSUME IInv, Restorable,
         \/ Disable \/ Drained \/ DrainTimeout \/ StepUnknown \/ StartLog \/ Relog
         \/ MigratePart \/ Migrate \/ MigrateFails \/ UndoHalts \/ Undo \/ SaveStep
         \/ EnableHalts \/ Enable \/ Refresh \/ RefreshFails \/ Stamp \/ StampUnreported
  PROVE  Restorable'
<1>1. CASE Disable
  BY <1>1 DEF Disable, AtStep, Restorable, IInv, Control, ResumeAt
<1>2. CASE Stamp \/ StampUnreported
  <2>1. pc = "stamp" /\ UNCHANGED <<enabled, op>> /\ st' = Idle(TRUE)
    BY <1>2 DEF Stamp, StampUnreported
  <2>2. enabled
    BY <2>1 DEF Restorable, IInv, Control, Quiesced
  <2> QED BY <2>1, <2>2 DEF Restorable, Idle
<1>3. CASE Undo \/ SaveStep
  <2>1. st.step # "none" /\ UNCHANGED <<enabled, op>> /\ op.at # "enabled"
    BY <1>3 DEF Undo, SaveStep, AtStep, IInv, Control, ResumeAt, pgVars
  <2>2. st'.was = st.was /\ st'.step # "none"
    <3>1. CASE Undo
      BY <3>1 DEF Undo, IInv, TypeOK, TypeProcesses, StateType
    <3>2. CASE SaveStep
      BY <3>2 DEF SaveStep, NextStep, IInv, Control, TypeOK, TypeProcesses, StateType
    <3> QED BY <1>3, <3>1, <3>2
  <2> QED BY <2>1, <2>2 DEF Restorable
<1>4. CASE \/ Drained \/ DrainTimeout \/ StepUnknown \/ StartLog \/ Relog \/ MigratePart \/ Migrate
           \/ MigrateFails \/ UndoHalts \/ EnableHalts \/ Enable \/ Refresh \/ RefreshFails
  <2>1. pc # "halted" /\ UNCHANGED <<st, op>>
    BY <1>4 DEF Drained, DrainTimeout, StepUnknown, StartLog, Relog, MigratePart, Migrate,
                MigrateFails, UndoHalts, EnableHalts, Enable, Refresh, RefreshFails, AtStep,
                loopVars
  <2>2. CASE Enable
    <3>1. enabled => enabled'
      BY <2>2 DEF Enable, EnableIf, IInv, TypeOK, TypeReplication
    <3> QED BY <2>1, <3>1, RestorableFrame
  <2>3. CASE ~Enable
    <3>1. UNCHANGED enabled
      BY <1>4, <2>3 DEF Drained, DrainTimeout, StepUnknown, StartLog, Relog, MigratePart, Migrate,
          MigrateFails, UndoHalts, EnableHalts, Refresh, RefreshFails, pgVars
    <3> QED BY <2>1, <3>1, RestorableFrame
  <2> QED BY <2>2, <2>3
<1> QED BY <1>1, <1>2, <1>3, <1>4

\* A halt that disables says so, and the saved state says what the halt said.
LEMMA HaltingKeepsRestorable ==
  ASSUME IInv, Restorable, ~lost, HaltDisable \/ HaltPartly \/ HaltSave
  PROVE  Restorable'
<1>1. ASSUME NEW cleaned \in BOOLEAN, NEW disabled \in BOOLEAN, Halting(cleaned, disabled)
      PROVE  Restorable'
  <2>1. /\ pc = "halt" /\ pc' = "halted" /\ UNCHANGED <<st, op>>
        /\ enabled' = (enabled /\ ~disabled) /\ mem'.off = (enabled /\ disabled)
    BY <1>1 DEF Halting, IInv, TypeOK, TypeProcesses, MemType
  <2>2. op.at # "enabled"
    BY <2>1, NothingLost DEF ResumeAt
  <2>3. st.step = "none" => enabled
    BY <2>1, CycleFindsEnabled
  <2> QED BY <2>1, <2>2, <2>3 DEF Restorable
<1>2. CASE HaltSave
  <2>1. /\ pc = "halted" /\ UNCHANGED <<enabled, op>> /\ st' = Saved
        /\ st'.off = mem.off /\ st'.status = "halted"
    BY <1>2 DEF HaltSave, Saved, pgVars
  <2>2. op.at \notin {"draining", "copied", "ending", "enabled"} /\ st.status # "halted"
    BY <2>1, NothingLost DEF IInv, Control, CopyRunning, CopyAt, ResumeAt
  <2>3. CASE mem.keep = "step"
    <3>1. st'.step = st.step /\ (st.was => st'.was)
      BY <2>1, <2>3 DEF Saved
    <3> QED BY <2>1, <2>2, <3>1 DEF Restorable
  <2>4. CASE mem.keep # "step"
    <3>1. st.step = "none" /\ st'.step = "none"
      BY <2>1, <2>4, NothingLost DEF Saved
    <3> QED BY <2>1, <2>2, <3>1 DEF Restorable
  <2> QED BY <2>3, <2>4
<1> QED BY <1>1, <1>2 DEF HaltDisable, HaltPartly

\* The operator's commands: a resume enables what a halt disabled, copy-columns
\* what it disabled itself.
LEMMA OperatorKeepsRestorable ==
  ASSUME IInv, Restorable, ~lost, Operator
  PROVE  Restorable'
<1>1. CASE \/ Reconfigure \/ ResumeRead \/ Repair \/ \E s \in Shape : Resolve(s)
  <2>1. /\ UNCHANGED <<enabled, st, pc>> /\ mem'.off = mem.off
    BY <1>1 DEF Reconfigure, ResumeRead, Repair, Resolve, pgVars, loopVars, IInv, TypeOK,
                TypeProcesses, MemType
  <2>2. op'.at # "enabled" \/ op'.at = op.at
    BY <1>1 DEF Reconfigure, ResumeRead, Repair, Resolve, IInv, TypeOK, TypeProcesses
  <2>3. op.at \in {"draining", "copied", "ending"} => op' = op
    BY <1>1 DEF Reconfigure, ResumeRead, Repair, Resolve
  <2> QED BY <2>1, <2>2, <2>3 DEF Restorable
<1>2. CASE ResumeMigration
  <2>1. /\ UNCHANGED enabled /\ op'.at = "none"
        /\ st.step # "none" /\ st' = Resumed(st)
    BY <1>2 DEF ResumeMigration, NoCommand, pgVars, IInv, Reading
  <2>2. st'.was = st.was /\ st'.step # "none"
    BY <2>1 DEF Resumed, InProgress
  <2> QED BY <2>1, <2>2 DEF Restorable
<1>3. CASE ResumeEnable
  <2>1. /\ op.at = "resuming" /\ st.step = "none" /\ enabled' = (enabled \/ st.off)
        /\ UNCHANGED st
    BY <1>3 DEF ResumeEnable, EnableIf, IInv, Reading
  <2>2. st.status = "halted"
    BY <2>1 DEF IInv, Control, ResumeAt
  <2>3. pc \notin {"halt", "halted"}
    BY <2>2, NothingLost
  <2>4. enabled'
    BY <2>1, <2>3 DEF Restorable
  <2> QED BY <2>1, <2>4 DEF Restorable
<1>4. CASE ResumeIdle
  <2>1. enabled'
    BY <1>4 DEF ResumeIdle, Restorable, pgVars
  <2> QED BY <1>4, <2>1 DEF ResumeIdle, Idle, Restorable
<1>5. CASE CopyStart \/ CopyDisable \/ CopyGivesUp \/ CopyRefused \/ CopyClears \/ CopyEnable
           \/ \E t \in Target : CopyRows(t)
  <2>1. UNCHANGED <<st, pc, mem>> /\ pc = "sleep"
    BY <1>5 DEF CopyStart, CopyDisable, CopyGivesUp, CopyRefused, CopyClears, CopyEnable, CopyRows,
                loopVars, IInv, Control, CopyRunning, CopyAt
  <2>2. CASE CopyStart \/ CopyEnable
    <3>1. enabled'
      <4>1. CopyStart => enabled'
        BY DEF CopyStart, pgVars
      <4>2. CopyEnable => enabled'
        BY DEF CopyEnable, EnableIf
      <4> QED BY <2>2, <4>1, <4>2
    <3> QED BY <2>1, <3>1 DEF Restorable
  <2>3. CASE CopyGivesUp
    <3>1. UNCHANGED enabled /\ op.at = "waiting" /\ op'.at = "none"
      BY <2>3 DEF CopyGivesUp, NoCommand, pgVars
    <3> QED BY <2>1, <3>1 DEF Restorable
  <2>4. CASE CopyDisable \/ CopyRefused \/ CopyClears \/ \E t \in Target : CopyRows(t)
    <3>1. op'.at \in {"draining", "copied", "ending"}
      BY <2>4 DEF CopyDisable, CopyRefused, CopyClears, CopyRows, IInv, TypeOK, TypeProcesses
    <3> QED BY <2>1, <3>1 DEF Restorable
  <2> QED BY <1>5, <2>2, <2>3, <2>4
<1> QED BY <1>1, <1>2, <1>3, <1>4, <1>5 DEF Operator

\* A fault outside halt() leaves what is enabled and what the state says.
LEMMA FaultKeepsRestorable ==
  ASSUME IInv, Restorable, ~lost, NoFaultInHalt, NoKilledCopy, Fault
  PROVE  Restorable'
<1>1. CASE HaltPartly
  BY <1>1, HaltingKeepsRestorable
<1>2. ~CommandDies
  BY DEF CommandDies, NoKilledCopy
<1>3. CASE StampUnreported
  BY <1>3, SteppingKeepsRestorable
<1>4. CASE DatabaseError \/ PublisherError \/ Crash
  <2>1. pc # "halted"
    BY <1>4 DEF DatabaseError, PublisherError, Crash, MayFault, NoFaultInHalt
  <2> QED BY <1>4, <2>1, RestorableFrame DEF DatabaseError, PublisherError, Crash, pgVars
<1> QED BY <1>1, <1>2, <1>3, <1>4 DEF Fault

\* Every step that loses nothing keeps it.
LEMMA NextKeepsRestorable ==
  ASSUME IInv, lost \/ Restorable, NoFaultInHalt, NoKilledCopy, [Next]_vars
  PROVE  (lost \/ Restorable)'
<1> SUFFICES ASSUME ~lost, Restorable PROVE Restorable'
  BY LossIsForEver
<1>1. CASE Daemon
  BY <1>1, LookingKeepsRestorable, SteppingKeepsRestorable, HaltingKeepsRestorable DEF Daemon
<1>2. CASE Commit \/ Subscriber \/ Operator \/ Fault
  BY <1>2, LookingKeepsRestorable, OperatorKeepsRestorable, FaultKeepsRestorable
<1>3. CASE UNCHANGED vars
  BY <1>3, RestorableFrame DEF vars, pgVars, loopVars
<1> QED BY <1>1, <1>2, <1>3 DEF Next

\* A command that ends a resume is the resume, or a kill.
LEMMA FinishedByResume ==
  ASSUME Next, Finishes
  PROVE  ResumeIdle \/ CommandDies
<1>1. op' # op
  BY DEF Finishes
<1>2. ~Commit /\ ~Subscriber
  BY <1>1 DEF Commit, Subscriber, Apply, ApplyError, WorkerStart, WorkerExit, ErrorAges, TableSync
<1>3. ~Daemon
  BY <1>1
  DEF Daemon, PollViolated, Poll, PollHalted, RecordHeads, NoStall, CompareSame, CompareDiffers,
      PassedRests, PassedHalts, StallHalts, StallWaits, StallTaken, Disable, Drained,
      DrainTimeout, StepUnknown, StartLog, Relog, MigratePart, Migrate, MigrateFails, UndoHalts,
      Undo, SaveStep, EnableHalts, Enable, Refresh, RefreshFails, Stamp, HaltDisable, Halting,
      HaltSave, loopVars
<1>4. CASE Operator
  BY <1>1, <1>4
  DEF Finishes, Operator, Reconfigure, ResumeRead, ResumeMigration, ResumeEnable, Resolve, Repair,
      CopyStart, CopyDisable, CopyGivesUp, CopyRefused, CopyClears, CopyEnable, CopyRows
<1>5. CASE Fault
  BY <1>1, <1>5
  DEF Fault, HaltPartly, Halting, DatabaseError, PublisherError, StampUnreported, Crash
<1> QED BY <1>2, <1>3, <1>4, <1>5 DEF Next

\* A finished resume leaves the subscription enabled, whatever halts, crashes
\* and failed halts went before, unless a halt has dropped what the state held.
THEOREM ResumeReenablesHolds == NoFaultInHalt /\ NoKilledCopy => (Spec => ResumeReenables)
<1>1. Init => Restorable
  BY DEF Init, Idle, NoCommand, Restorable
<1>2. (lost \/ Restorable) /\ [Next]_vars => [Finishes => enabled' \/ lost]_vars
  <2> SUFFICES ASSUME Restorable, Next, Finishes PROVE enabled'
    OBVIOUS
  <2>1. enabled
    BY DEF Finishes, Restorable
  <2>2. UNCHANGED enabled
    BY FinishedByResume DEF ResumeIdle, CommandDies, pgVars
  <2> QED BY <2>1, <2>2
<1>3. CASE NoFaultInHalt /\ NoKilledCopy
  <2>1. IInv /\ (lost \/ Restorable) /\ [Next]_vars => (lost \/ Restorable)'
    BY <1>3, NextKeepsRestorable
  <2> QED BY <1>1, <1>2, <2>1, Invariance, PTL DEF Spec, ResumeReenables
<1> QED BY <1>3
=============================================================================
