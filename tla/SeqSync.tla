------------------------------- MODULE SeqSync -------------------------------
(***************************************************************************)
(* The sequence sync of local/postgres (qpg/seqsync.py).                   *)
(*                                                                         *)
(* Logical replication carries no sequence values, so a command copies     *)
(* them: it reads every sequence of the source, then of the target, works  *)
(* out a margin from the samples earlier runs left, and moves the target   *)
(* to source + margin.  The application draws values from one side; it     *)
(* changes sides only after a final run in that direction, or, on a        *)
(* restored database, after from-data.                                     *)
(*                                                                         *)
(* Each database call of a run is a step of its own, so that a second run  *)
(* (the timer's and an operator's share no lock) and the application can   *)
(* act between them.  A run may die, or its call fail, at any of them.     *)
(***************************************************************************)
EXTENDS Naturals, FiniteSets, FiniteSetsExt

CONSTANTS
  Seq,          \* the sequences of the published schemas
  Runner,       \* the runs that may be under way at one time
  Command,      \* the commands they may be
  OneWay,       \* TRUE: no run against the direction the application left
  MayRestore,   \* TRUE: the local database may be restored from a backup
  Unreadable,   \* sequences the replication role may not SELECT
  Early,        \* sequences that exist on both sides from the start
  Owned,        \* sequences OWNED BY a column
  Floor,        \* [seqsync] floor
  FinalFloor,   \* [seqsync] final_floor
  Window,       \* [seqsync] window_hours
  Keep,         \* the age at which a sample is deleted (48 hours)
  FiveMinutes,  \* the interval advances are scaled to
  MinGap,       \* the shortest interval between samples (60 s)
  Burst,        \* how many values the application may draw at once
  MaxValue,     \* the MAXVALUE of the sequences
  MaxTime       \* bound: the clock

Side == {"rds", "local"}
Other(side) == CHOOSE x \in Side : x # side
Commands == {"forward", "final", "reverse", "reverse-final", "from-data"}

ASSUME SeqSyncAssumption ==
  /\ Command \subseteq Commands
  /\ OneWay \in BOOLEAN /\ MayRestore \in BOOLEAN
  /\ Unreadable \subseteq Seq /\ Early \subseteq Seq /\ Owned \subseteq Seq
  /\ {Floor, FinalFloor, Window, Keep, MaxValue, MaxTime} \subseteq Nat
  /\ Floor <= FinalFloor /\ Window <= Keep
  /\ FiveMinutes \in Nat \ {0} /\ MinGap \in Nat \ {0}
  /\ Burst \subseteq Nat \ {0}

VARIABLES
  last,     \* last_value of each sequence on each side; 0 stands for NULL
  created,  \* the sequences each side has
  app,      \* the side the application draws from, or "down"
  home,     \* the side it drew from last
  fit,      \* the sides it may be started on
  high,     \* the highest value it has drawn of each sequence (history
            \* variable); after a restore, the highest that is still held
  held,     \* the highest value of each owned sequence in a row; 0 for others
  samples,  \* follower.sequence_samples
  now,      \* the clock
  run       \* the runs under way

vars == <<last, created, app, home, fit, high, held, samples, now, run>>

\* Variant: the reverse command reads the publisher.
SourceFixed(c) == "rds"

Reversed(c) == c \in {"reverse", "reverse-final"}
Final(c) == c \in {"final", "reverse-final"}
Source(c) == IF Reversed(c) THEN "local" ELSE "rds"
TargetOf(c) == IF Reversed(c) THEN "rds" ELSE "local"
FloorOf(c) == IF Final(c) THEN FinalFloor ELSE Floor

\* A run: where it is, its command, what it read of the source (src, and the
\* sequences whose NULL it may not explain) and of the target (has, tgt), the
\* values it will set (0: none), and whether the application has been down
\* since it read the source.
Zero == [s \in Seq |-> 0]
NoRun == [at |-> "idle", cmd |-> "forward", src |-> Zero, null |-> {}, has |-> {},
          tgt |-> Zero, wanted |-> Zero, clean |-> FALSE]

Init ==
  /\ last = [side \in Side |-> Zero]
  /\ created = [side \in Side |-> Early]
  /\ app = "rds" /\ home = "rds" /\ fit = {"rds"}
  /\ high = Zero /\ held = Zero
  /\ samples = {}
  /\ now = 0
  /\ run = [p \in Runner |-> NoRun]

-----------------------------------------------------------------------------
(* The application and the two databases.                                  *)

\* The application draws n values, and the last may get into a row of a column
\* that owns the sequence; a sequence at its MAXVALUE refuses.
NextVal(s, n) ==
  /\ app # "down" /\ s \in created[app]
  /\ last[app][s] + n <= MaxValue
  /\ last' = [last EXCEPT ![app][s] = @ + n]
  /\ high' = [high EXCEPT ![s] = Max({@, last[app][s] + n})]
  /\ \/ s \in Owned /\ held' = [held EXCEPT ![s] = Max({@, last[app][s] + n})]
     \/ UNCHANGED held
  /\ UNCHANGED <<created, app, home, fit, samples, now, run>>

\* The application deletes the rows with the highest values.
Delete(s) ==
  /\ app # "down"
  /\ \E v \in 0 .. held[s] : held' = [held EXCEPT ![s] = v]
  /\ UNCHANGED <<last, created, app, home, fit, high, samples, now, run>>

\* A migration creates a sequence where the application runs; a replay, or an
\* operator, creates it on the other side later.
Create(side, s) ==
  /\ s \notin created[side]
  /\ app = side \/ s \in created[Other(side)]
  /\ created' = [created EXCEPT ![side] = @ \cup {s}]
  /\ UNCHANGED <<last, app, home, fit, high, held, samples, now, run>>

Unclean == [p \in Runner |-> [run[p] EXCEPT !.clean = FALSE]]

\* A switch of sides: the application stops, and starts on a side that fits.
\* Reverse runs have no timer: whoever switches back has none under way.
Stop ==
  /\ app # "down"
  /\ app' = "down" /\ fit' = {app}
  /\ UNCHANGED <<last, created, home, high, held, samples, now, run>>

Start(side) ==
  /\ app = "down" /\ side \in fit
  /\ OneWay => \A p \in Runner : run[p].at = "idle" \/ ~Reversed(run[p].cmd)
  /\ app' = side /\ home' = side
  /\ run' = Unclean
  /\ UNCHANGED <<last, created, fit, high, held, samples, now>>

\* The local database is restored from a backup: the rows come back with the
\* archived WAL, the sequences with whatever position the backup had.  What no
\* row holds is not known any more.
Restore ==
  /\ MayRestore /\ app = "down" /\ home = "local"
  /\ \E s \in Seq : \E v \in 0 .. last["local"][s] :
       last' = [last EXCEPT !["local"][s] = v]
  /\ fit' = fit \ {"local"} /\ high' = held
  /\ run' = Unclean
  /\ UNCHANGED <<created, app, home, held, samples, now>>

Tick ==
  /\ now < MaxTime
  /\ now' = now + 1
  /\ UNCHANGED <<last, created, app, home, fit, high, held, samples, run>>

-----------------------------------------------------------------------------
(* The margin.                                                             *)

\* int(x + 0.999) of the fraction num / den.
RoundUp(num, den) == (1000 * num + 999 * den) \div (1000 * den)

Before(a, b) == a[1] < b[1] \/ (a[1] = b[1] /\ a[2] < b[2])
Consecutive(points) ==
  {ab \in points \X points :
     Before(ab[1], ab[2]) /\ ~\E c \in points : Before(ab[1], c) /\ Before(c, ab[2])}

\* margin_for: three times the largest advance per five minutes between
\* consecutive points <<time, value>>, and never under the floor.  Points of
\* one tick of the clock are less than a tick apart, never at one instant.
MarginFor(points, floor) ==
  Max({floor} \cup
      {RoundUp(3 * (ab[2][2] - ab[1][2]) * FiveMinutes, Max({ab[2][1] - ab[1][1], MinGap})) :
         ab \in {x \in Consecutive(points) : x[2][2] > x[1][2]}})

SamplesOf(c, s) ==
  {<<x.at, x.val>> : x \in {y \in samples :
     y.reverse = Reversed(c) /\ y.seq = s /\ y.at + Window > now}}

Margin(c, s, value) == MarginFor(SamplesOf(c, s) \cup {<<now, value>>}, FloorOf(c))

-----------------------------------------------------------------------------
(* A run.                                                                  *)

Go(p, at) == run' = [run EXCEPT ![p].at = at]

\* The direction a run may take: the timer is for one side only.
Allowed(c) == OneWay /\ c # "from-data" => Source(c) = home

\* Sequences that read NULL for want of the privilege; the local role is an
\* administrator's.
Hidden(c) == IF Reversed(c) THEN {} ELSE Unreadable

\* read_source.
ReadSource(p, c) ==
  /\ run[p].at = "idle" /\ c # "from-data" /\ Allowed(c)
  /\ run' = [run EXCEPT ![p] =
       [NoRun EXCEPT !.at = "source", !.cmd = c,
          !.clean = (app = "down" /\ Source(c) \in fit),
          !.null = Hidden(c) \cap created[Source(c)],
          !.src = [s \in Seq |-> IF s \in Hidden(c) THEN 0 ELSE last[Source(c)][s]]]]
  /\ UNCHANGED <<last, created, app, home, fit, high, held, samples, now>>

\* The query of the target.
ReadTarget(p) ==
  /\ run[p].at = "source"
  /\ run' = [run EXCEPT ![p] =
       [run[p] EXCEPT !.at = "target", !.has = created[TargetOf(run[p].cmd)],
                      !.tgt = last[TargetOf(run[p].cmd)]]]
  /\ UNCHANGED <<last, created, app, home, fit, high, held, samples, now>>

\* Variant: a NULL read is taken for a sequence nobody has called.
FailedNoNull(r) == {s \in Seq \ r.has : r.src[s] # 0}

\* A sequence that reads NULL without the privilege, or that the target lacks.
Failed(r) == r.null \cup {s \in Seq \ r.has : r.src[s] # 0}

\* Variant: the target is set whether or not it is ahead.
WantedAlways(r, s) ==
  LET wanted == r.src[s] + Margin(r.cmd, s, r.src[s])
  IN IF r.src[s] = 0 \/ s \notin r.has THEN 0 ELSE wanted

\* Variant: the margin is added to the target's own value.
WantedFromTarget(r, s) ==
  IF r.src[s] = 0 \/ s \notin r.has THEN 0
  ELSE Max({r.src[s], r.tgt[s]}) + Margin(r.cmd, s, r.src[s])

\* Variant: the errors are raised before anything is set.
WantedUnlessErrors(r, s) ==
  IF Failed(r) # {} \/ r.src[s] = 0 \/ s \notin r.has THEN 0
  ELSE LET wanted == r.src[s] + Margin(r.cmd, s, r.src[s])
       IN IF r.tgt[s] >= wanted THEN 0 ELSE wanted

\* What one sequence is moved to: 0 when it is unused, in error or ahead.
Wanted(r, s) ==
  LET wanted == r.src[s] + Margin(r.cmd, s, r.src[s])
  IN IF r.src[s] = 0 \/ s \notin r.has \/ r.tgt[s] >= wanted THEN 0 ELSE wanted

\* The loop over the sequences: samples and clock are read, margins worked out.
Compute(p) ==
  /\ run[p].at = "target"
  /\ run' = [run EXCEPT ![p] =
       [run[p] EXCEPT !.at = "set", !.wanted = [s \in Seq |-> Wanted(run[p], s)]]]
  /\ UNCHANGED <<last, created, app, home, fit, high, held, samples, now>>

Statements(r) == {s \in Seq : r.wanted[s] # 0}

\* Variant: from-data sets its value whatever the sequence holds.
MovedBlindly(r, done) ==
  [last EXCEPT ![TargetOf(r.cmd)] = [s \in Seq |-> IF s \notin done THEN @[s] ELSE r.wanted[s]]]

\* setval of the sequences in done.  from-data takes the greater of its value
\* and the sequence's own; run does not look again.
Moved(r, done) ==
  [last EXCEPT ![TargetOf(r.cmd)] = [s \in Seq |->
     IF s \notin done THEN @[s]
     ELSE IF r.cmd = "from-data" THEN Max({@[s], r.wanted[s]})
     ELSE r.wanted[s]]]

SetAll(p) ==
  /\ run[p].at = "set"
  /\ \A s \in Statements(run[p]) : run[p].wanted[s] <= MaxValue
  /\ last' = Moved(run[p], Statements(run[p]))
  /\ Go(p, "record")
  /\ UNCHANGED <<created, app, home, fit, high, held, samples, now>>

\* The call fails on a value out of bounds, or the run dies in it: setval is
\* not undone by the rollback, so those already executed stay.
SetPart(p) ==
  /\ run[p].at = "set"
  /\ \E done \in SUBSET {s \in Statements(run[p]) : run[p].wanted[s] <= MaxValue} :
       last' = Moved(run[p], done)
  /\ run' = [run EXCEPT ![p] = NoRun]
  /\ UNCHANGED <<created, app, home, fit, high, held, samples, now>>

\* Variant: a sequence nobody has called is used.
UsedUncalled(r) == r.has

\* The sequences that both sides have and the source has called.
Used(r) == {s \in r.has : r.src[s] # 0}

\* The samples of this run are stored and old ones deleted; the errors are
\* raised only now.
Record(p) ==
  LET r == run[p]
      new == {[reverse |-> Reversed(r.cmd), seq |-> s, at |-> now, val |-> r.src[s]] :
                s \in Used(r)}
  IN /\ r.at = "record"
     /\ samples' = IF r.cmd = "from-data" THEN samples
                   ELSE {x \in samples \cup new : x.at + Keep >= now}
     /\ fit' = IF r.clean /\ (r.cmd = "from-data" \/ (Final(r.cmd) /\ Failed(r) = {}))
               THEN fit \cup {TargetOf(r.cmd)} ELSE fit
     /\ run' = [run EXCEPT ![p] = NoRun]
     /\ UNCHANGED <<last, created, app, home, high, held, now>>

\* from_data: of the sequences OWNED BY a column, the largest value in the local
\* rows, plus the floor.  Rows written on the publisher may not have been
\* replicated yet, nor their deletion.
FromData(p) ==
  /\ run[p].at = "idle" /\ "from-data" \in Command
  /\ \E top \in [Owned -> 0 .. MaxValue] :
       /\ \A s \in Owned : IF home = "local" THEN top[s] = held[s] ELSE top[s] <= high[s]
       /\ run' = [run EXCEPT ![p] =
            [NoRun EXCEPT !.at = "set", !.cmd = "from-data",
               !.clean = (app = "down" /\ home = "local"),
               !.wanted = [s \in Seq |-> IF s \in Owned \cap created["local"] /\ top[s] # 0
                                         THEN top[s] + Floor ELSE 0]]]
  /\ UNCHANGED <<last, created, app, home, fit, high, held, samples, now>>

Die(p) ==
  /\ run[p].at # "idle"
  /\ run' = [run EXCEPT ![p] = NoRun]
  /\ UNCHANGED <<last, created, app, home, fit, high, held, samples, now>>

World ==
  \/ \E s \in Seq : \E n \in Burst : NextVal(s, n)
  \/ \E s \in Owned : Delete(s)
  \/ \E s \in Seq : \E side \in Side : Create(side, s)
  \/ Stop
  \/ \E side \in Side : Start(side)
  \/ Restore
  \/ Tick

Run(p) ==
  \/ \E c \in Command : ReadSource(p, c)
  \/ ReadTarget(p) \/ Compute(p) \/ SetAll(p) \/ SetPart(p) \/ Record(p)
  \/ FromData(p) \/ Die(p)

Next == World \/ \E p \in Runner : Run(p)

Spec == Init /\ [][Next]_vars

-----------------------------------------------------------------------------
(* Properties.                                                             *)

RunType ==
  [at : {"idle", "source", "target", "set", "record"}, cmd : Commands,
   src : [Seq -> 0 .. MaxValue], null : SUBSET Seq, has : SUBSET Seq,
   tgt : [Seq -> 0 .. MaxValue], wanted : [Seq -> Nat], clean : BOOLEAN]

\* Every variable has its type; a sample has a value ("A NULL read is an error,
\* never a zero").
TypeOK ==
  /\ last \in [Side -> [Seq -> 0 .. MaxValue]]
  /\ created \in [Side -> SUBSET Seq]
  /\ app \in Side \cup {"down"} /\ home \in Side /\ fit \subseteq Side
  /\ high \in [Seq -> 0 .. MaxValue] /\ held \in [Seq -> 0 .. MaxValue]
  /\ samples \subseteq [reverse : BOOLEAN, seq : Seq, at : 0 .. MaxTime, val : 1 .. MaxValue]
  /\ now \in 0 .. MaxTime
  /\ run \in [Runner -> RunType]

\* The application never draws a value it has had: on whichever side it runs,
\* every sequence stands at or above the highest value drawn on either side.
\* A restore leaves of that the values which rows hold, and only of sequences
\* that a column owns: from-data has nothing else to go by.
NoReuse == app # "down" => \A s \in created[app] : last[app][s] >= high[s]

\* "The command never moves a value backwards" (README.md:21): no setval of a
\* run, complete or cut short, lowers a sequence.
NeverBackwards ==
  [][(\E p \in Runner : SetAll(p) \/ SetPart(p)) =>
        \A side \in Side : \A s \in Seq : last'[side][s] >= last[side][s]]_vars

\* When a run has made its calls, every sequence it could read is a floor
\* ahead of what it read, whatever went wrong with the others.
RunCovers ==
  \A p \in Runner : run[p].at = "record" /\ run[p].cmd # "from-data" =>
    \A s \in run[p].has : run[p].src[s] # 0 =>
      last[TargetOf(run[p].cmd)][s] >= run[p].src[s] + FloorOf(run[p].cmd)

\* "A second run with no publisher movement changes nothing" (test_ops.py:297):
\* a value some run has recorded moves no sequence again, but for a final run.
StillSourceStillTarget ==
  [][\A p \in Runner : SetAll(p) /\ run[p].cmd \in {"forward", "reverse"} =>
       \A s \in Seq :
         (\E x \in samples : /\ x.reverse = Reversed(run[p].cmd) /\ x.seq = s
                            /\ x.val = run[p].src[s])
         => last'[TargetOf(run[p].cmd)][s] = last[TargetOf(run[p].cmd)][s]]_vars
=============================================================================
