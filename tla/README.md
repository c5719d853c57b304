# Formal models of qontinui-stack

TLA+ models of the parts of this repository that keep state, the TLC runs that
check them on small instances, and TLAPS proofs of the theorems that matter
most. Paths below are relative to the repository root; `qpg/` stands for
`local/postgres/lib/qpg/`.

Contents

1. The system: components, state, operations, interactions
2. What is modelled, and how the model corresponds to the code
3. The properties
4. The runs: what each checks and shows, its bounds, its fairness
5. Where the code and its documentation part
6. What is proved
7. What is only model-checked, and what is not modelled
8. Plan

## 1. The system

The repository is the infrastructure of a small product: a local PostgreSQL
that follows production, the Terraform of a cloud deployment with two Lambda
functions, a migrator container, and the scripts and hooks its developers work
with. Most of its files are declarative. The program logic is in the parts
below; the schema follower is by far the most stateful of them.

| component | source | state it keeps | operations |
|---|---|---|---|
| schema follower | `qpg/follower.py` | `follower.state` (a step machine) and seven tables beside it; the subscription's `subenabled`; triggers on the replicated tables; one failure count in memory | the daemon's cycle, halt, `resume`, `resolve`, `copy-columns`, `install`, `seed`, `coord_adopt`, `check` |
| follower schema | `qpg/follower_schema.py` | `armed_versions`, `replay_log`, `publisher_heads`, `applied_revisions`, `applied_coord_versions`, `resolutions`, `owed` | the stall marker, the replay-log and rewrite triggers, run by PostgreSQL inside other transactions |
| sequence sync | `qpg/seqsync.py` | the target's sequence values | `run` forward every 5 minutes, reverse and final by hand, `from-data` |
| watchdog, notices | `qpg/watchdog.py`, `qpg/notify.py` | a JSON file: what was notified when, error counts | `run` every minute: eight checks, each may raise or clear an alert |
| partitions | `qpg/partitions.py` | the partition children | `run`: create ahead; `parity`: compare with the publisher |
| roles, credential, security diff | `qpg/roles.py`, `qpg/credential.py`, `qpg/secdiff.py` | role attributes, a password file | provisioning and comparison, by hand |
| configuration, psql, command line | `qpg/config.py`, `qpg/pg.py`, `qpg/cli.py` | none | parse, quote, dispatch |
| host installer | `local/postgres/install.sh`, `qpg/hostcfg.py`, `local/postgres/templates` | files on the host | render, copy, enable units |
| operator pager relay | `aws/lambdas/operator_pager_relay/handler.py` | none of its own; SNS, the outcome log and a dead-letter queue around it | classify a message, recognise a drill, drop what is not one of five conditions, deliver with one retry and a fallback, record the outcome |
| Cognito auto-link | `aws/lambdas/cognito_presignup_autolink/handler.py` | the user pool | link a federated sign-up to the one native user with its address |
| migrator | `migrator/entrypoint.sh`, `migrator/alembic_at_head.sh` | the database's Alembic versions | do nothing when the one stamped revision is the one head, else upgrade; a health check that must agree |
| pre-checkout guard | `hooks/pre-checkout-coord-guard.sh` | none; reads coord's worktree claims | allow, warn or block a branch-changing git command; report branch events |
| plan graph and dependencies | `scripts/plan-graph.py`, `scripts/resolve-plan-deps.py` | none | dependency graph, cycles, readiness |
| symbol claims | `scripts/symbol-claims-by-machine.py` | none | group and compare claims |
| Terraform checks | `scripts/terraform-plan-drift.py`, `scripts/terraform-sensitive-lint.py` | none | classify planned changes; scan for secrets |
| image, seed and drill scripts | `scripts/*.sh`, `aws/scripts/*.sh` | image tags, a database dump | run by an operator |
| sccache statistics | `sccache/stats_server.py` | none | serve a snapshot |
| infrastructure | `docker-compose.yml`, `aws/modules`, `aws/staging`, `nats-config`, `init-scripts`, `web-prod`, `.github` | - | declarative |

### How they interact

* **Publisher -> apply worker -> stall marker.** PostgreSQL carries rows, never
  DDL. A migration's transaction always writes a version row, and the trigger on
  the subscriber's copy of that table (`qpg/follower_schema.py:159-189`) raises,
  so apply stops at exactly that transaction and logs the error every few seconds.
* **Apply worker -> jsonlog -> follower.** The daemon (one cycle every 60 s)
  reads the newest apply error from the log, matches its transaction id with the
  version rows it recorded, and takes the migration through *disable, log,
  migrate, undo, enable*, persisting each step in `follower.state`.
* **Follower -> replicated database.** The migration command runs as the
  application role with triggers that log what it inserts; the undo deletes those
  rows, arms coord history rows, records the migration and changes the step in
  one transaction.
* **Operator -> follower.** `resume`, `resolve` and `copy-columns` are other
  processes. Only `copy-columns` shares the daemon's lock (`follower_lock`);
  `resume` and `resolve` write `follower.state` beside a daemon that is only
  polling, because it is halted.
* **Configuration -> daemon.** It is read when the daemon starts. One that violates A4
  (`phase8_complete` and still a coord source) halts every cycle before anything is read.
* **systemd -> daemon.** `Restart=on-failure`, 30 s; exit code 2 (configuration)
  is not restarted.
* **Sequence sync and watchdog -> the same databases.** They read the publisher
  and the subscriber on timers of their own and share no lock with the follower.
* **SNS -> pager relay -> SNS.** An alarm or page arrives at the relay, which
  sends it through an adapter, and through the email topic when that fails for good;
  an invocation with a rejected page fails and its message goes to the dead-letter queue.
* **CloudWatch and the drill script -> pager relay.** A pager alarm is a composite,
  ALARM when a real child or its drill child is. The script sets the drill child;
  the composite notifies; the relay works out from the notification, or from the
  drill child's history, which of the two it was.
* **git -> guard -> coord; sign-up -> auto-link -> Cognito; compose -> migrator
  -> PostgreSQL**: each is one call with a decision at the end.

### What is hard in it, and what makes each part correct

* **Schema follower.** Four processes that share state without a common lock
  (publisher, apply and table-copy workers, daemon, operator's commands), every
  step a separate psql call, a crash possible between any two, and facts read at
  different times compared as if read at one. Correct means: each publisher
  transaction takes effect exactly once, in order and with production's rows; a
  replay never runs beside apply and never leaves rows; what cannot be carried
  halts, and what an operator lets diverge stays on record.
* **Sequence sync.** The source's sequences advance between the read and the
  `setval`; a restored database has only its rows to tell where a sequence stood.
  Correct: no sequence moves back, and after the final run none is
  behind a value in use.
* **Watchdog.** Alerts with a renotification window kept in a file that two of
  the checks write as well, notices that are refused or end the run, a process
  that may die between any two writes. Correct: what is bad is passed over only
  if it was noticed lately; what stays bad is noticed for ever; a value kept for a
  check is never of an earlier episode.
* **Pager relay.** At-least-once delivery in any order, one retry, a fallback,
  a send that was taken though its answer was lost, drills and real alarms that
  overlap. Correct: no page is lost in silence; a drill is never taken for a real
  alarm nor a real alarm for a drill; the record says what happened.
* **Auto-link.** A read and a call with time between them. Correct: a federated
  identity is linked only to the one verified native user of an allowed provider.
* **Migrator.** Probes that fail or read ambiguously. Correct: a run that exits 0
  has left the database at the chain's one head.
* **Guard.** Identities of two parts, a coord that does not answer. Correct: in
  enforce mode a tree the caller holds no live claim for is not switched, and no
  failure of the guard's own blocks anything.
* **Plan graph.** Four traversals of a graph that may have cycles, over sets in
  arbitrary order, and two scripts that find and read the same plans each in its own way.
  Correct: they end, select what a reference definition selects, and agree.
* **Claims, drift.** Pure functions. Correct: equal to a reference definition.

`PROJECT.json` lists the hazards one by one, each at its line, with the
properties that would notice it.

## 2. What is modelled, and how the model corresponds to the code

| module | what it is |
|---|---|
| `SchemaCarry` | the abstract promise of the follower: three actions, four variables |
| `Follower` | the follower, PostgreSQL as the follower uses it, and the operator |
| `MCFollower` | the small transaction sets the runs use |
| `FollowerProofs`, `FollowerHaltProofs` | the theorems about `Follower` |
| `SeqSync` | the sequence sync, next to the application, the operator who moves it, and another run |
| `PagerRelay` | the relay, next to CloudWatch, the drill script, the other publishers and SNS |
| `MCPagerRelay` | the documents the run publishes |
| `Watchdog` | the watchdog's runs, its state file and its notices |
| `MCWatchdog` | the sets of checks the runs watch |
| `PlanGraph` | `plan-graph.py` and `resolve-plan-deps.py` |
| `MCPlanGraph` | the directories the run reads |
| `SeqSyncProofs`, `PagerRelayProofs`, `PagerDrillProofs`, `WatchdogProofs`, `PlanGraphProofs` | the theorems about the module they are named for |
| `OrderLemmas` | least and greatest elements, for the proofs |

### The follower: state

A publisher transaction is known by its place in the commit order. That one
number stands for its xid, its LSN and, for a migration, the version it leaves,
which the code keeps apart and joins through `publisher_heads`; what the code
compares (is this LSN passed, is this xid recorded) the model compares on places.

| variable | code |
|---|---|
| `pub` | the publisher's committed transactions; each is an app transaction or a web or coord migration, and says whether it creates a published table, which halt cases its replay meets on which table, and its quirk |
| `origin` | `pg_replication_origin_progress`, `confirmed_flush_lsn` |
| `enabled`, `worker` | `pg_subscription.subenabled`; whether an apply worker runs. They are two variables because DISABLE returns before the worker exits |
| `err` | the newest apply error of the jsonlog. `fresh`: repeated within `stall_fresh_seconds`; `hist`: logged before `enabled_at`; `current`: logged since the subscription was last enabled (a history variable no code reads) |
| `subs`, `ready` | `pg_subscription_rel`, `srsubstate` |
| `done`, `rows`, `dirty` | the replicated database: migrations whose schema is in place; whose copy of each transaction's rows is there (`none`, the replay's `local`, production's `prod`, or `twice`); tables an operator let diverge (a history variable) |
| `trig` | the replay-log triggers and the rewrite event trigger |
| `armed`, `replayLog`, `heads`, `applied`, `resolved`, `owed` | the tables of `qpg/follower_schema.py` |
| `st` | `follower.state`: `step` and `xid` are the migration in progress, also under a halt (`"unknown"`: a detail in which no step is found); `was` is `was_enabled`; `off` is `subscription_disabled_by_halt`; `stamped` says `enabled_at` is there |
| `pc`, `mem`, `fails` | where the daemon's cycle is; what it holds in memory, `mem.a4` being a loaded configuration that violates A4 and `mem.keep` what a halt under way will save of the state; the run loop's failure count and whether `notified_step` names a step in progress |
| `op` | which operator command runs, and where; `op.read` is the state a `resume` has read |
| `lost` | a halt that does not carry over what the state held has dropped it (a history variable) |

### The follower: actions

An action is one psql call of the daemon or of a command, or several where
nobody else can act on what they touch between them. Between any two, apply,
the publisher and the operator may act and the daemon may crash.

| code | actions |
|---|---|
| `Follower.cycle`, up to the snapshot | `PollViolated`, the A4 guard, which halts before the state is read, whatever it is, and with no detail; `Poll`; `PollHalted` |
| `pub_snapshot`, `record_heads` | `Poll` (LSN and web version in one query), `RecordHeads` (coord rows in a later one) |
| `current_stall`, `_compare_heads`, `caught_up` | `NoStall`, `CompareSame`, `CompareDiffers`, `PassedRests`, `PassedHalts` |
| `_handle_stall`, `_identify`, `_restall_reason` | `StallHalts`, `StallWaits`, `StallTaken` |
| `_advance`, `_disable`, `_migrate`, `_undo_replay_inserts`, `_enable` | `Disable`, `Drained`, `DrainTimeout`, `StartLog`, `Relog`, `MigratePart`, `Migrate`, `MigrateFails`, `UndoHalts`, `Undo`, `EnableHalts`, `Enable`, `Refresh`, `Stamp`, `StepUnknown`, and `SaveStep`, the write of the next step, after which a crash resumes there |
| `halt` | `HaltKeeping` (what the caller has of the state), `HaltDisable` (clean-up and DISABLE), `HaltPartly` (one of them failed and was swallowed), `HaltSave` (the halted state, written over whatever is there by then) |
| `run`, `_notify_stuck_step`, `_halt_failing_step` | `DatabaseError`, `RefreshFails` (counted), `PublisherError` (not counted), `StampUnreported` (the read after the last step), `Crash`; `Noted` and `Count` keep `notified_step` and the count, `Kept` is the detail a failing step halts with. That halt does not reset the count |
| `resume` | `ResumeRead`, the state; then `ResumeMigration`, or `ResumeEnable` and `ResumeIdle` |
| the operator edits the configuration and restarts the daemon (external) | `Reconfigure` |
| `resolve` | `Resolve`, one target at a time; the last one resumes |
| `copy-columns` | `CopyStart`, `CopyDisable`, `CopyGivesUp`, `CopyRows`, `CopyClears`, `CopyRefused`, `CopyEnable`; `CommandDies` |
| stall marker and replay triggers | `MarkerPasses` and `Consumed` inside `Apply`; `ReplayCommit` inside `MigratePart` and `Migrate` |
| PostgreSQL | `Commit`, `Apply`, `ApplyError`, `WorkerStart`, `WorkerExit`, `TableSync`, `ErrorAges` |
| the README's manual remedies | `Repair` |

### The follower: abstractions

* What a migration does is its record in `pub`: the tables it creates, its halt
  cases, its quirk. SQL text, catalogs, values and table names are not modelled.
* A halt case is a fact of the transaction (`cases`), met when the checks of
  `_check_replay_shape` run, in the code's order; `key-change` and `rewrite`
  are seen only through the triggers' log, as in the code, and so are lost when
  the triggers are not there.
* A coord migration INSERTs its history row, a web migration UPDATEs the one
  version row. The difference matters: a replayed web version lets the marker's
  transaction through by itself, a coord version must be armed.
* `confirmed_flush_lsn` may lag behind what apply has done; `PassedRests` is
  always possible, so a comparison made too early never decides anything.
* Time is not modelled. "Within a while" is a choice: an error ages (`ErrorAges`),
  a drain or a wait gives up (`DrainTimeout`, `CopyGivesUp`).
* A psql call that fails has had no effect. The follower's calls are transactions
  or single statements, so the other outcome, a call that took effect and whose
  answer was lost, is a fault at the next point.

### The sequence sync

`SeqSync` models both databases' sequences and the commands that copy positions
between them. State: `last` (each side's `last_value`, 0 for NULL), `created`
(which sequences a side has), `samples` (`follower.sequence_samples`), `now`,
and `run`, what each run under way has read. `app`, `home`, `fit`, `high` and `held` are
the surroundings: the side the application draws from or drew from last, the
sides it may be started on, the highest value it has drawn, and the highest that is in a
row of a column which owns the sequence (`Owned`).

| code | actions |
|---|---|
| `read_source`; `run`, lines 103 to 109 | `ReadSource`, `ReadTarget`: two queries on two servers |
| `run`, the loop; `max_advance`, `margin_for` | `Compute`, with `Margin`, `Failed` and `Wanted` |
| `run`, `target.execute` and `local.execute` | `SetAll`, `Record`; `SetPart` when the call fails on a value out of bounds or the run dies in it, for `setval` is not undone by a rollback |
| `from_data` | `FromData`: of the sequences a column owns the largest value in a row, and nothing of the others; then `SetAll`, to the greater of that and the sequence's own |
| a run that dies | `Die` |
| the application, a migration, the operator, a restored backup (external) | `NextVal`, `Delete`, `Create`, `Stop`, `Start`, `Restore`, `Tick` |

A drawn value gets into a row or not, and rows are deleted: `held` may be anything up to
`high`. `Restore` brings back the rows and a position of each sequence no later than it had;
what no row holds is not known after that, so `high` is `held` from there on, and nothing of
a sequence no column owns. On RDS, `from-data` may read rows that apply has not brought yet or not
deleted yet: any value that was drawn.

The errors of a run are raised after everything else; a run is good for a switch
only if it had none, was a final run (or `from-data` after a restore) and the
application was down throughout. That rule, and with `OneWay` that forward and
reverse runs are never under way against each other, is the operator's procedure, not the
command's: it says which environments the command is checked in. The clock is coarse:
two points of one tick are less than a tick apart, and the sort puts them in order of
their values. `dry_run`, which changes nothing, is left out. The values of `MinGap` and
`FiveMinutes` keep their order only; the arithmetic, rounding included, is the code's.

### The pager relay

`PagerRelay` models one pager alarm and everything that writes the relay's topic.
State: `child`, `history`, `moved`, `since`, `composite` and `now` are CloudWatch
(`aws/modules/operator-pager/alarms.tf`: the children, the drill child's state
history, which children have stepped since the composite was last evaluated and
since when, the composite, the clock); `inv` is, for each message followed, its
invocation: where it is, the message or what it was parsed into, the adapter, how
many sends were made, how many were taken and how many of those had their answer
lost; `out` is what the last step wrote: a record, its metrics, a dead letter.

| code | actions |
|---|---|
| the real child, the drill child and the composite; `scripts/operator-pager-drill.sh` | `RealAlarm`, `RealOk`, `DrillSet`, `DrillReturns`, `Evaluate`, `Tick` |
| EventBridge, coord, CI, the drill script's events | `PublishDocument` |
| `handler` up to the first send: `load_alarm_map`, `parse_message`, `parse_alarm`, `parse_page_v1`, `drill_from_history`, `drill_id_from_history`, `render` | `Invoke`, with `Parse`, `Detect`, `DrillFromHistory`, `DrillIdFromHistory`, `Rendered` |
| `deliver` | `Send`, `Sleep`, `Fallback`, with `NextSend` |
| `outcome_record`, the rest of `handler` | `Emit`, with `Outcome`, `Metrics`, `Raises` |
| Lambda's timeout, SNS that cannot invoke, the dead-letter queue (`main.tf`) | `Killed` |

The notification's `cause`, the children that moved the composite, and `id`, the
last drill by then, are for the properties; the relay does not see them. It sees
`named`, which is the cause or nothing, for a composite's notification may name no
child. The history is read when the relay runs, not when the composite changed: the
window is around the change, and what stepped since is in it; `Items` are the places of the steps
it holds. Invocations share
nothing, so one message is followed (`Slot`) and any other may come and go unseen;
a second delivery of a message is such another. A `page_v1` document's text is one
of three: it informs, it asks and the source's text is withheld, or it asks still.
The map's entries without a condition of the five are `unmapped` here: both are
dropped. `_default_adapter` knows the email topic only; the adapter `"vendor"` is
what `deliver`'s fallback is written for. An unknown adapter raises before
anything is recorded, as `Killed` does.

### The watchdog

`Watchdog` models runs one after the other, as systemd makes them. State: `file`
is the state file (`sent`, `disabled_since` as an age, `reverse_apply_errors`);
`run` is the run under way: the checks left to it (the first of them, in the code's
order, is next), what it found, the notices still to make, the state it will save; `sick`, `heard` and `lately` are for the properties:
what was last found bad, the notices made of what the file now records, and when
a run last reported apply enabled.

| code | actions |
|---|---|
| the timer; an operator's run by hand, `--dry-run-notify` | `Start`, `StartDry` |
| `_guard` and the eight `check_*` | `MakeCheck`: `FindsUnread`, `FindsPlain` (the checks that keep nothing, over every reading), `FindsDisabled`, `FindsEnabled`, `FindsReverse`, `FindsAbsent` |
| `run` after the checks: what is bad, silent, new | `Load`, with `Recent`, `Todo`, `Fresh` |
| `Notifier.notice` | `Post`; `NotPosted` when it is only logged, refused, or raises, which ends the run |
| `_save_state` | `Save`, which may fail |
| a kill, a lost or corrupt file | `Die`, `LoseFile` |
| the clock | `Tick` |

A message is a text and a number, so that two alerts differ when the code's
messages do. Ages replace times: an entry older than the window and one much
older are alike, and so are two disables past the limit, but that one tells a
minute's text from the next's (the text has the seconds in it, so a long disable is
noticed every minute, not every `renotify_minutes`). Limits of all checks are
one number, `Limit`. Queries are instantaneous; their failures are `FindsUnread`.

### The plan scripts

`PlanGraph` models both scripts over the same directories: what goes by a plan's name is a
file of text, one that may not be read, one that is not UTF-8, or no regular file (a directory, a
dangling link); a text is its lines, a line its marks (quoted, `**Status:`, first lifecycle
word, stems to the right of `Depends-On:`). The scripts look a plan up each in its own way:
`File` is the glob of `plan-graph.py`, which takes the first directory's entry whatever it is;
`Candidate` is `is_file()` of `resolve-plan-deps.py`, which passes over what is not a regular
file and falls through to the archive. A `UnicodeDecodeError` is caught by neither (`Raises`,
`BuildFails`). `resolve-plan-deps.py` has no state and is the operators down to
`ExitStatus`, run on the path the graph has for a plan; of `plan-graph.py` every iteration of a loop is a step.

| code | actions |
|---|---|
| `build_graph` | `Build`, with `FindStatusBlock`, `ExtractLifecycle`, `ParseDependsOn`, `File`; `BuildFails` on a file that is not UTF-8 |
| `_detect_cycles` | `Enter`, `Look`, `Leave` (the recursion's stack is `stack`) |
| `restrict_to_root` | `Select`, `TakeBelow`, `Restricted` |
| `_filter_visible` | `Filter`, `SpreadUp`, `SpreadDown` (both `Spread`), `Turn` |
| `_render_text` | `FindRoots`, `Draw`, `Drawn` |

`cycles` holds loops in their canonical form, which is what the code tells two
of them apart by. `root` and `shipped`, the options, are chosen where the code
reads them. A queue is a set: the code pops lists it filled from Python sets, so
any order may come, and more orders than the code has are harmless. Indentation,
JSON and mermaid are left out.

### Variants

Some definitions of the models have a sibling marked `Variant`: the same
definition with a mistake a change to the code could plausibly make (a missing
guard, a forgotten reset, a step too many). Nothing uses them. With the variant
in its sibling's place the named run finds a violation, which shows that the
property can fail and that the run would notice. `PROJECT.json` pairs every
property of every passing run with one.

## 3. The properties

| property | what it says | where it could go wrong |
|---|---|---|
| `TypeOK` | the shape of the state | |
| `CarriedExactly` | every transaction apply has passed is there once, with production's rows, and a migration only with its schema change | a replay repeated after a crash, a log lost, an undo skipped, a migration let through by the marker unreplayed |
| `ApplyNeverMeetsReplay` | while a row of a replay is in the database no apply worker runs and none can start | DISABLE returns while the worker runs; halts, resumes and `copy-columns` enable and disable too |
| `ReplayOnExactPrefix` | a migration in hand is the next transaction, from `disable` to `undo` | apply runs on during the drain, or after a resume |
| `TriggersOnlyInReplay` | no replay trigger outlives its replay (*) | a crash or a failed clean-up between two steps |
| `ArmedIsPending` | an armed coord version is of a migration replayed and undone and not yet applied | an arming written before the undo commits, or left when its transaction has passed |
| `NoSilentDivergence` | past the undo, every table whose rows an operator let diverge is owed a copy (*) | several halts of one migration, resolutions target by target, relogs, a copy of another table |
| `SettledIsComplete` | a follower that is caught up and idle has subscribed and copied every created table (*) | a crash between ENABLE and REFRESH |
| `NeverAbandoned` | a migration in progress ends only after its undo, with the subscription as it was (*) | halts and resumes at every step |
| `ResumeReenables` | a finished resume leaves the subscription enabled (*) | whose DISABLE was it: the halt's, the step's, an earlier halt's |
| `KeepsPromise` | the follower implements `SchemaCarry` | all of the above |
| `AppliedOrHalted` | every committed transaction is applied in the end, or the follower halts (*) | a stall nobody takes: an old error, a count that never halts, waiting on each other |
| `EveryStepResumes` | `NeverAbandoned` without its exception, which the code does not keep: section 5 | a halt that does not read the state it writes over |

(*) Unless `lost`: a halt that does not carry over what the state held has dropped it before.
There are two such halts, both reached: the A4 guard's, and the second of two halts on the same
run of failures. What they drop is gone, so none of the six can hold after them, and the run
`A4Drops` and section 5 show it; what they do *not* break is the point of
checking the others next to them: `CarriedExactly`, `ApplyNeverMeetsReplay`, `ReplayOnExactPrefix`,
`ArmedIsPending` and `KeepsPromise` have no exception.

Of the sequence sync:

| property | what it says | where it could go wrong |
|---|---|---|
| `TypeOK` | the shape of the state; no sequence stands past its MAXVALUE, no sample is of a sequence nobody called | |
| `NoReuse` | where the application runs, no sequence stands behind a value drawn on either side; of a database restored since, behind one that a row of an owned sequence holds | a sequence unreadable or missing when the sides are switched, a direction mixed up, a restore, a run cut short |
| `NeverBackwards` | no `setval` of a run lowers a sequence | the margin shrinks as samples leave the window; the target is read before it is set |
| `RunCovers` | a run that made its calls has left each sequence it could read a floor ahead of what it read | one sequence's error holds up the others; a target barely ahead is left alone |
| `StillSourceStillTarget` | a source value some run has recorded moves no sequence again | margins added to margins; a sample counted twice |

Of the pager relay:

| property | what it says | where it could go wrong |
|---|---|---|
| `TypeOK` | the shape of the state; two sends at most | |
| `RealIsNotHidden` | what a real child alone did is never read as a drill or a drill's end, except when the notification names no child and the drill child stepped the same way within the skew (or, for an OK, within the time it may follow) | a drill minutes earlier, later steps in the window, an unread history |
| `DrillIsNotReal` | a drill never pages as real nor its end as a recovery, except when no child is named and the history was not read, was stepped in again within the skew, or the drill began before its window | skewed clocks, a drill that ended before the relay looked |
| `DrillIdIsItsOwn` | a drill's page has the id of the drill that caused it, unless a later one is in the window | the id is of the newest of the window, not of the step |
| `NoSilentLoss` | an invocation ends with its page taken, a dead letter, a `Dropped` metric, or was a drill's end | a rejected page that raises nothing; a kill |
| `RecordIsTrue` | a record that says accepted is of a page that was taken, one that says rejected comes with a dead letter and no acknowledged send, one that says dropped is of nothing sent | retries, the fallback, classes of status |
| `NotSentTwice` | an invocation delivers twice only after a lost answer | the retry after a success |
| `EverythingSettles` | whatever is published is settled | a retry without end |

The exceptions in the second and third are behaviours the run has: without any one of
them TLC finds the property violated. They follow from what the relay has to go on when a
notification names no child: a history that could not be read says nothing, it reaches
back a bounded time, and `drill_from_history` decides on the newest step in it, which a
step within the skew after the composite's change can be.

Of the watchdog:

| property | what it says | where it could go wrong |
|---|---|---|
| `TypeOK` | the shape of the state; one entry for a check in the file | |
| `NotPassedOver` | a run passes over what it found bad only if that was noticed, same status and text, within the window | a save before the notices, a run that dies between them, an entry of an alert that went away |
| `DisabledIsTrue` | apply is said to be disabled for longer than the limit only if no run reported it enabled in that time | the clearing of `disabled_since` is not saved, or a stale state brings it back |
| `StaysBadStaysNoticed` | a check that stays bad is posted for ever | an entry renewed while silent, a run that never gets to its notices |

`NotPassedOver` counts the notices a run makes. That coord refused one is not in the
file: the code takes a refused notice for a made one, and so does the property. None speaks
of a rise of the error count, which the code may lose (section 5).

Of the plan scripts:

| property | what it says | where it could go wrong |
|---|---|---|
| `TypeOK` | the searches stay in the graph | a dependency without a node |
| `CyclesAreFlagged` | every reported cycle is one, and every plan that depends on itself has a reported cycle in its component, below a root as well. Not that each cycle is reported: a node done with is not searched again | visited nodes cut a search short; a loop extracted with its tail |
| `RootSelects` | `--root` selects exactly what the root depends on, with every edge | the order of the sets |
| `OpenIsVisible` | exactly this is visible: what is in motion, what waits for it, and of the rest what one in motion depends on past nothing else that waits | two searches that share one set |
| `VisibleIsDrawn` | what is visible is drawn, unless a visible cycle is | what a node drawn before cuts off |
| `ScriptsAgree` | a plan whose dependencies the graph has all as shipped is ready for the other script; one that is ready has them so in the graph, but for an entry that `is_file()` passes over; missing for one is no file or an unread one for the other, unless it raises | two lookups; two rules for files without a word, without a block, unreadable, in both directories |
| `Ends` | the searches end, cycles or not | a node taken twice |

The reference they are held to, `Below`, is the least set closed under the edges.

## 4. The runs

A `.cfg` instantiates the `MC` module of its component; those of the sequence
sync instantiate `SeqSync` itself.

| run | `.cfg` | instance | shows |
|---|---|---|---|
| `Carry` | `FollowerCarry` | app transactions, web migrations that create a table, coord migrations; 3 transactions, 1 fault anywhere outside the gap of `halt` | the exactly-once promise, no replay beside apply and only on the exact prefix, complete subscription, arming, and the refinement of `SchemaCarry` |
| `Halts` | `FollowerHalts` | app transactions, misfits, refused migrations, moves, and each replay halt case on two tables; 2 transactions, 1 fault, commands may be killed | halts, resolutions and copies carry rows exactly and never lose a divergence |
| `Live` | `FollowerLive` | app transactions, web migrations that create a table; 2 transactions, 1 fault outside the gap of `halt`, no killed command, and an operator who may load and correct a configuration that violates A4 at any restart; fairness | halts of the A4 guard at every point of a migration and over every other halt: apply still never meets a replay; and unless a halt drops what the state held, nothing is abandoned, no trigger is left, a resume enables, and every transaction is applied or the follower halts |
| `SeqForward` | `SeqForward` | two sequences, neither there at first, one of which the role cannot read; forward and final runs; 3 points in time, a window of 1 | every property of the sequence sync |
| `SeqReturn` | `SeqReturn` | one sequence a column owns, whose rows may be deleted at any time; final runs both ways, `from-data`, restores | no value twice and none backwards when the application comes back; of a restored database, none that a row holds |
| `PagerRelay` | `PagerRelay` | one real child, two drills, a clock of 4 points, nine kinds of other document, one message followed; skew, lag and the time an OK follows 1, a window of 2 back and 1 ahead | every property of the relay |
| `Watchdog` | `Watchdog` | two pairs of checks that share the file or the run's end, and each other check alone; limit 1, window 2, error count up to 1, 1 fault | every property of the watchdog |
| `PlanGraph` | `PlanGraph` | every graph over three plans that have shipped or not; two directories, the first with odd files (three that are no readable text, four odd texts) over and beside archived ones; every root, with and without what has shipped | every property of the plan scripts |

In the follower's instances `Tx` is what the publisher may commit, in any order
and number up to `MaxTx`; `FaultPoints` are the points of the cycle at which a
fault (a crash, a database error, a publisher outage, a killed command; at most
`MaxFaults`) may strike; `MaxFailures = 2` stands for `max_step_failures`, so
that both "count on" and "halt" happen; in `FaultPoints`, `"sleep"` is the cycle's first
query, `"report"` its last and `"command"` an operator's. `A4 = TRUE` lets `Reconfigure` happen: in `Live` and `A4Drops`
only, as it multiplies the states of the others, whose subject it is not. The theorems have it everywhere.
In the sequence sync's, `Floor` is 1
and `FinalFloor` 2 for 1,000 and 10,000, `MaxValue` 5 and 6 bounds the sequences
(the model refuses a greater `setval`, as PostgreSQL does), `MaxTime` 2 and 0 the clock.

The other four runs find the violations of section 5, in the smallest instances that show one.

**Why these bounds are enough to be interesting.** The follower handles one
migration at a time, on a subscriber stopped right before it. Two transactions
give a migration behind or before anything else; three give a migration with one
replayed before it and one committed while it is in hand, which is what the
heads, the stale errors, the arming and `REFRESH` can confuse. One fault at each
point, followed by everything a restart, a halt and a resume do, reaches every
recorded step twice. Two tables are what a resolution target by target needs.
Symmetry is not used: places in the commit order are numbers.
For the sequence sync, a margin that widens and shrinks again takes a sample
older than the window and one inside it, hence three points in time; with values
up to 5 a burst widens the margin and a run meets the MAXVALUE. `SeqReturn` needs
values up to 6 for a switch there, a drawn value and a switch back, deleted rows, a restore to
any earlier position, and `from-data` over what is left. A sequence no column owns is not in it:
after a restore nothing is known of one, and `NoReuse` says nothing of it (section 5); the theorem
is for any mix of the two.
In `PagerRelay` four points of time put a drill before, in and after the window, within
the skew and past it, and the second drill is the one an id may be confused with;
a second followed message would add nothing, as invocations share nothing. In
`Watchdog` a window of 2 lets an entry be silent once and lapse; one fault is enough
to lose a file, a notice or a save at any point, and the next run begins from
what it left; `{"apply_lag", "archiver"}` and `{"archiver", "reverse"}` have a check that
writes the file before another's notice is made. Three plans give every shape a search
can meet up to a cycle of three, two cycles that share a plan, and a cycle
with a tail.

`CHECK_DEADLOCK FALSE`: the publisher stops committing after `MaxTx`
transactions, and a follower that has settled, or a halted one nobody resumes,
rests; so does the pager's clock at `MaxTime` with nothing to deliver, and the
script that has ended. The watchdog's and the sequence sync's runs never rest: the clock goes on, a run can begin.
The latter check for deadlock.

**Fairness** (`Live`, `SyncDeadlock`). Weak fairness of `Apply`, `ApplyError`
(PostgreSQL retries a failed transaction every few seconds), `WorkerStart` and
`WorkerExit` (the launcher), each `TableSync`, the daemon's steps taken together
(the poll timer and systemd's restart bring the next one), and of the commands
that have begun. None is assumed of the operator (an unresolved halt stays), of
the publisher, of faults, or of `ErrorAges`. The daemon's fairness is of the
disjunction: it never says which way a choice goes, so a drain may time out and
a migration command may fail every time. `AppliedOrHalted` excludes behaviours
in which an operator runs `copy-columns` for ever, since it holds the lock.

(`PagerRelay`) Weak fairness of each followed message's `Handler`: SNS delivers what it
holds and an invocation runs on; which answer a send gets is left open, for ever.
(`Watchdog`) Weak fairness of `Proceed`, the run's own next step or the
timer's next run (`OnUnitActiveSec=1min`; every query and command has a timeout), and
of the clock; none of faults, and none of what a check finds. (`PlanGraph`) Weak
fairness of `Next`: the script runs.

## 5. Where the code and its documentation part

Four runs check what a doc or comment of the code says and end in a
counterexample. Each is a real behaviour of the code at the modelled grain.

| run | property | what happens |
|---|---|---|
| `HaltCrashReplay` | `CarriedExactly` | `halt()` drops the replay triggers (`qpg/follower.py:270`) before it writes the halted state (286). A crash between them with `migrate` in progress restarts at `migrate` without triggers: the replay is not logged, the undo deletes nothing, production's rows meet the replay's |
| `SyncDeadlock` | `AppliedOrHalted` | a stall waits for a table copy that cannot finish before the stalled migration is replayed |
| `A4Drops` | `EveryStepResumes` | the A4 guard of a cycle halts with no detail and before the state is read (715-719), so `set_state` (286) writes over a migration in progress, or over the `in_progress` a halt keeps: the operator restarts with a configuration that violates A4 in the middle of one, and a resume after the correction goes idle. Lines 59-60 say "Every step is persisted in ``follower.state`` so a restart resumes where it stopped" |
| `SeqTwoRuns` | `NeverBackwards` | a run compares with the target it read (`qpg/seqsync.py:104`, 132) and sets it unconditionally (139), with no lock: the timer, next to an operator's final run, sets the sequence back. `local/postgres/README.md:21` says "The command never moves a value backwards" |

Met while modelling, in the models, and without a run of their own:

* the A4 guard halts again at every poll of a follower that is halted already
  (`qpg/follower.py:715-719`): the second halt finds the subscription disabled and saves a detail
  without `subscription_disabled_by_halt` (269-286), so a `resume` after the configuration is corrected
  leaves apply disabled, where `local/postgres/README.md:94` says "`follower resume` re-enables the
  subscription when it was the halt that disabled it".
* a halt on repeated failures does not end the run of failures (1199-1201): one more database error,
  at the read of the state in the next cycle say, halts again, and `_halt_failing_step` saves the
  halted state's detail as the migration in progress (1151). A resume finds no step in it, and every
  cycle after halts on an unknown step (879). Also against lines 59-60.
* a crash between the DISABLE of a halt (275) and its saved state (286): the next halt finds the
  subscription disabled and does not claim it, and `resume` leaves it so. Also against `README.md:94`.
* the coord history tables are read (530) after the LSN they are compared at (519). A coord migration
  that commits in between makes the versions differ though apply is past the LSN, and the follower
  halts (759-765) as if the marker had let it by, where 760-761 say "Apply has passed the transaction
  that moved the publisher's head without stalling on it". Without the coord lane that halt is never
  raised: every migration apply has passed is done (`CarriedExactly`).
* of a restored database `from-data` (`qpg/seqsync.py:153-174`) sets only the sequences a column owns,
  and from the rows that are left: a value drawn for a row since deleted, or never stored, may be
  drawn again, and another sequence stays where the backup has it. The docstring claims no more.
* `check_reverse` saves the new error count (`qpg/watchdog.py:272`) before any notice is made (339): a
  run killed in between, or ended by the exception of an earlier check's notice, loses the rise for
  ever, where line 40 says "A notice is sent when an alert first appears".
* a shipped plan whose dependencies have all shipped, with nothing open above it, is hidden
  (`scripts/plan-graph.py:378-382`), where 36-37 say "Non-leaf shipped nodes are always rendered".
* the forward search stops at a node the backward one made visible (421): a shipped dependency below
  a shipped plan that waits for an anchor is hidden, though an anchor depends on both, where 393-394
  say "mark every descendant of an anchor as visible".
* the glob (173) takes a directory or a dangling link named `*.md` before the archived file,
  `is_file()` (`scripts/resolve-plan-deps.py:322`) does not: a plan is ready for one script and its
  dependency "?" for the other, where `plan-graph.py:165-166` say that the order "matches
  resolve-plan-deps.py lookup order". `ScriptsAgree` excepts such an entry by name (`PassedOver`).
* the version row is read before the log (`qpg/follower.py:729`, 734): a migration
  that commits in between, or the first of two between polls, is halted on as "not a
  migration" (808), where lines 15-16 say that one that matches a version row is one.
* resuming an ordinary halt forgets `enabled_at` (316): an error logged before the
  last migration was enabled is taken for "apply failed again" (785).
* a drill in progress hides a real episode of the same composite: its state does not change
  and nothing is sent, where `aws/modules/operator-pager/alarms.tf:7` says "one episode
  produces one page". The drill lasts seconds.
* under `--root` the list of missing plans stays empty (`scripts/plan-graph.py:340-345`:
  a dependency without a file has a node already), so the warning of 520-526 is not printed.
* a shipped leaf that something in motion depends on is shown, where the usage text (33-35) says
  that shipped leaves are hidden and the docstring of `_filter_visible` (365-368) that a hidden
  status needs a visible descendant; the comment at 411-416 says why it is shown.
* a file whose block has no lifecycle word keeps its dependencies in the graph (197-199), where
  the docstring of `_parse_plan` (184) says "deps = `[]`".
* a file that is not UTF-8 ends either script with a trace: `UnicodeDecodeError` is no `OSError`
  (`plan-graph.py:189`, `resolve-plan-deps.py:179`, 325). The resolver's exit status is then 1, which
  line 20 keeps for an unsatisfied dependency, where 21 has 2 for an input error.
* a cycle that nothing outside leads to is not drawn when another component has a root (473);
  it is listed under the tree.
* a file whose block has no lifecycle word is "?" in the graph (`plan-graph.py:197`) and DRAFT to
  the resolver (`resolve-plan-deps.py:347`); `ScriptsAgree` says that this changes no verdict.

The remedy of the crash inside `halt()` is to write the halted state before touching
triggers and subscription; that of the halts that drop something, to read the state in
`halt()` and keep its `in_progress` and `subscription_disabled_by_halt`. Two consequences for
everything else here. The properties about rows and `ResumeReenables` are
checked and proved for faults everywhere except between the two halves of
`halt()` (its `pc` is `"halted"`). Those about the step machine hold there too
(section 6). And `NeverAbandoned`, `ResumeReenables`, `TriggersOnlyInReplay`, `SettledIsComplete`,
`NoSilentDivergence` and `AppliedOrHalted` say nothing once `lost`; `EveryStepResumes` is the first of them
without the exception. `ResumeReenables` also leaves out a killed `copy-columns`, which
leaves an idle follower's subscription disabled for the next halt to find.

## 6. What is proved

Every safety invariant and every action property of the passing runs is a theorem, with the
exceptions the property itself states (section 3), for every value of the constants that the assumption of its module allows. TLC
evaluates those assumptions (`FollowerAssumption`, `SeqSyncAssumption`, `PagerAssumption`,
`WatchdogAssumption`, `PlanAssumption`) in the runs; they give the constants their types
and, where the code has one, their order.

| theorem | property | further assumption |
|---|---|---|
| `FollowerProofs`: `TypeCorrect` | `TypeOK` | none |
| `ReplayOnExactPrefixHolds` | `ReplayOnExactPrefix` | none |
| `TriggersOnlyInReplayHolds` | `TriggersOnlyInReplay` | none |
| `ArmedIsPendingHolds` | `ArmedIsPending` | none |
| `SettledIsCompleteHolds` | `SettledIsComplete` | none |
| `NeverAbandonedHolds` | `NeverAbandoned` | none |
| `CarriedExactlyHolds` | `CarriedExactly` | `NoFaultInHalt` |
| `ApplyNeverMeetsReplayHolds` | `ApplyNeverMeetsReplay` | `NoFaultInHalt` |
| `Refinement` | `KeepsPromise` | `NoFaultInHalt` |
| `FollowerHaltProofs`: `NoSilentDivergenceHolds` | `NoSilentDivergence` | `NoFaultInHalt` |
| `ResumeReenablesHolds` | `ResumeReenables` | `NoFaultInHalt`, `NoKilledCopy` |
| `SeqSyncProofs`: `TypeCorrect` | `TypeOK` | none |
| `NoReuseHolds` | `NoReuse` | `OneWay`, `OneRun` |
| `NeverBackwardsHolds` | `NeverBackwards` | `OneWay`, `OneRun` |
| `RunCoversHolds` | `RunCovers` | `OneWay`, `OneRun`, no restore |
| `StillHolds` | `StillSourceStillTarget` | `OneWay`, `OneRun`, no restore |
| `PagerRelayProofs`: `TypeCorrect` | `TypeOK` | none |
| `NotSentTwiceHolds` | `NotSentTwice` | none |
| `NoSilentLossHolds` | `NoSilentLoss` | none |
| `RecordIsTrueHolds` | `RecordIsTrue` | none |
| `PagerDrillProofs`: `RealIsNotHiddenHolds` | `RealIsNotHidden` | none |
| `DrillIsNotRealHolds` | `DrillIsNotReal` | none |
| `DrillIdIsItsOwnHolds` | `DrillIdIsItsOwn` | none |
| `WatchdogProofs`: `TypeCorrect` | `TypeOK` | none |
| `NotPassedOverHolds` | `NotPassedOver` | none |
| `DisabledIsTrueHolds` | `DisabledIsTrue` | none |
| `PlanGraphProofs`: `TypeCorrect` | `TypeOK` | none |
| `CyclesAreFlaggedHolds` | `CyclesAreFlagged` | none |
| `RootSelectsHolds` | `RootSelects` | none |
| `OpenIsVisibleHolds` | `OpenIsVisible` | none |
| `VisibleIsDrawnHolds` | `VisibleIsDrawn` | none |
| `ScriptsAgreeHolds` | `ScriptsAgree` | none |

**The further assumptions** are those of the runs, and each excludes what makes
the property false. `NoFaultInHalt == "halted" \notin FaultPoints` excludes the one
window in which the properties about rows are false (run `HaltCrashReplay`); faults
everywhere else are allowed, in any number. `NoKilledCopy` excludes a
killed `copy-columns`. None excludes a configuration that violates A4.
`OneRun` (no two runs of the sequence sync overlap) excludes what `SeqTwoRuns` finds;
`OneWay`, and no restored database for the last two, are the operator's procedure. `NoReuseHolds` does
cover restored databases, as far as `from-data` can: for the values that rows of owned sequences hold.

### The follower's promise

`CarriedExactly` is not inductive: that apply brings a row
once depends on the replay's copy being gone, which depends on its having been
logged, which depends on the triggers being installed whenever the migration
command can run, which depends on where a halt or a crash left the step machine.
The inductive invariant `IInv` (theorem `Invariance`) says so part by part, and
holds whatever faults strike: the parts that a fault inside `halt()` breaks are
stated under `NoFaultInHalt`.

* `Control`: which points of the cycle, commands and states go together. It
  stands for the mutual exclusion the code gets from `follower_lock` and from the
  halted state.
* `Losing`, `Reading`: a halt that will not carry over what the state holds has set `lost`; what a
  resume has read is still the state, or a halt has dropped it since. A halted follower's state can
  be written over between `resume`'s read and its write, which is why the two are two steps.
* `Quiesced`: once the drain is over and until the enable step, the subscription
  is disabled *and* its worker gone. Every action that enables must be shown
  impossible there.
* `LocalRows`: a row of a replay belongs to the migration in hand, or to one a resume under way
  has read, at a step from `relog` to `undo`, and is in the log (under `NoFaultInHalt`); or it is
  `Stranded`: a halt has dropped its migration, apply is stopped, and neither the state nor a command
  holds anything that would start it. That apply cannot be enabled over rows a dropped migration
  left is what keeps `CarriedExactly` true next to the A4 guard.
* `CarriedRows`: what apply has passed has production's rows (under
  `NoFaultInHalt`).
* `Triggers`: triggers only inside a replay, unless one was dropped; and, under `NoFaultInHalt`, the
  triggers are there whenever `migrate` can run. The exception is the gap inside
  `halt()`, where a fault falls back to `migrate` without them.
* `InHand`: the migration in hand is the transaction after `origin`, not yet
  recorded; at `enable` it is recorded.
* `Books`: `applied`, `done`, `heads` and the error log agree with what the
  publisher has committed and apply has passed, and no migration is passed
  without its schema change.
* `Subscribed`: a recorded migration's table is subscribed, or its `enable` step
  has still to subscribe it, or was dropped.

Each action has a lemma, `<Action>Keeps`, that splits the invariant into these
parts; the lemma `Frame` takes those whose variables the action leaves alone.
`CarriedExactly` is `CarriedRows` with the last part of `Books`;
`ApplyNeverMeetsReplay` is `LocalRows` with `Quiesced`. `Refinement` follows
from `Invariance` action by action: `Commit` is `Publish`, `Undo` is `Carry`,
`Apply` is `TakeEffect`, and every other action leaves the promise's variables alone, `Migrate` because the replay's rows count
for nothing in the promise.

### The follower's halts

Each of the two theorems of `FollowerHaltProofs` adds an invariant to `IInv`, which holds until a
halt drops what the state held; `LossIsForEver` says that `lost` stays.

* `Divergence`, for `NoSilentDivergence`: a diverged table that is not owed is one
  the migration in hand made diverge, not yet past its undo, *and* the checks of the
  replay's shape will stop at it again: its case is logged or its resolution not recorded. So
  no later halt, relog or crash lets the undo by without owing it. `Resolutions`
  (those recorded are of the migration in hand, at its undo) and
  `Copies` (what `copy-columns` has copied does not diverge before it is cleared)
  carry it.
* `Restorable`, for `ResumeReenables`: a subscription that is disabled with no
  migration in hand was disabled by a halt that says so (in memory or in the state), or by a
  `copy-columns` that runs.

### The sequence sync

`NoReuse` depends on the target standing ahead of what the application may draw before the
switch, `NeverBackwards` on nobody moving the target between a run's read and its
`setval`. `SyncInv` has a part for each:

* `Sides`: the application runs where its home is, a sequence that is not there
  yet stands at nothing, and rows hold no more than was drawn.
* `Fits`: a side the application draws from, or may be started on, stands at or above
  every value drawn, or after a restore above every one a row of an owned sequence holds.
* `Sampled`: no sample is of the future, nor above where its source stands.
* `Prepared`: when the application has left RDS and the local side is fit for it, the
  local side is ahead of RDS by the margin of the final run.
* `Runs`: of a run under way, what it read of the source is no greater than what the source
  has; what it read of the target is what the target has, unless the application may draw from
  the target; and what it will set is ahead of what it read. Of a `from-data` under way, what it
  will set, or the sequence itself, is at or above what the rows hold.

The argument turns on the margin. `MarginShrinks` proves, rounding and
division included, that for a source that stands still the margin never grows
as time passes: samples leave the window, and a point of the same value adds no rate. A target once set
ahead by it needs nothing more, which is `Settled`, the invariant of `StillHolds`: wherever
the source stands at a recorded sample, the target is ahead by the margin, and a
run that read such a value sets nothing.

### The pager relay

`Calls` says of one invocation how its sends add up at each point: a sleep comes after one
refused send, a page reaches `"accepted"` with one acknowledged send, and every other
send that was taken had its answer lost. `NotSentTwice` follows, and with `Emit`'s three
outcomes `NoSilentLoss` and `RecordIsTrue`.

For drill and real `DrillInv` adds three parts. `History`: the steps of the drill child alternate
in the order of their times, with ids that grow. `Children`: the child is where its
last step left it, and the composite trails by no more than the lag. `Heard`: for every
notification, however long it was under way, there is a place in today's history that
was the end of the history when it was written; what is before is not later than the skew
allows, what is after is not earlier than the notification, the drill of its
id is before, and the step at that place says whether the drill child was in ALARM.
What `Detect` reads is compared with that place: the newest step in the window is
the one the notification is of, or is one of the exceptions the property names.

### The watchdog

`WatchInv`: `Known`, what the file says was noticed was, with the same status and text and no
earlier than it says; `Pending`, the same of what the run will save, once it has
made the notices it has left; `Counted`, no time the file or the run counts is longer than apply
was disabled; `OneEach`, one entry for a check and a status. A run that dies keeps
`Known` and loses `Pending`, a lost file makes both empty, and the clock ages the file and what
was heard together.

### The plan scripts

`PlanInv` has a part for each search.

* `Searched`: the stack is a path of the graph. Of a node on it or done with, and on no
  reported cycle, all the dependencies that were looked at are done with, but for the
  one being searched; and *every set of nodes that are done with has one on a reported cycle
  or without a dependency in the set*. When the search is over this says that a cycle that
  was not reported cannot be: `SearchEnds` takes for the set all the
  plans one shares a cycle with. `LoopIs` proves that what is reported of a path is a closed path,
  and `CanonicalIs` that turning it to start at its least plan leaves it one.
* `Taken`, `Spreading`, `Drawing`: what was taken, made visible or drawn leads
  to what was, or is queued still; with empty queues these are closed sets, which
  `BelowIs` compares with the least one.
* `Spreading` says of the filter more than that: the nodes visible after the backward search are
  `Open`, those that wait for an anchor, and the forward search adds to them only what the anchors
  reach over edges that lead to no open node (`Shut`), and all of that: the exact set of `OpenIsVisible`.
* `UnderSame`: in a part of the graph closed under its edges a node leads to the same nodes
  as before. With it the cycles found in the whole graph are those below a root.
* `CycleWithin`: in a finite set where everyone has an edge from within, someone is on a
  cycle. `VisibleIsDrawn` follows: what was not drawn would be such a set.

`ScriptsAgree` needs of the invariant only that the graph is still the one built and that it was
built from files that decode; the rest is
`BlockHolds`, `BuildIs` and a comparison of the two scripts, and of their lookups, case by case.

## 7. What is only model-checked, and what is not modelled

Only model-checked:

* `AppliedOrHalted`, `EverythingSettles`, `StaysBadStaysNoticed`, `Ends`: liveness under
  fairness is out of the prover's reach.
* the counterexamples of section 5.

`AppliedOrHalted` needs its exception: when the A4 guard's halt has dropped a migration and the
operator has corrected the configuration and resumed, an idle follower may rest with apply disabled,
and neither applies nor halts.

The proofs suggested three changes of form to the models, which change none of their
behaviours: the watchdog's checks and the items of a drill's history are sets of which
the first or newest is taken, not sequences; and `PlanGraph` finds the first line or node with
`Min` of a set of places. `TypeCorrect` of the sequence sync has no assumption about how
many runs overlap; everything else about it does, as `SeqTwoRuns` shows it must.

Not modelled of the follower: `install` and `seed` (they build the initial state
once); the coord lane's adoption (`coord_adopt`, `coord_gate`, `coord_refresh`), whose halt
(1230) takes no lock and drops the state as the A4 guard's does; the halts for a subscription that
does not exist, parallel streaming, or several alembic heads (504-528, 726), which go through
`HaltWith` as the others do; that `resolve` reads the state and records its resolution in two calls;
`follower check`, which only reads; a psql call or migration command that times
out, which ends the process (a `Crash` here) and is tried again for ever;
`--allow-unmatched` and the column bookkeeping of `copy-columns` (a copy covers a
table or is refused). The shapes the code's own README lists as undetectable
(`local/postgres/README.md`, gaps 10 to 12) are outside the model as they are outside the
code's checks.

Not modelled of the others: `seqsync --dry-run`; two watchdog runs at once (no
lock keeps an operator's from the timer's; the later save brings back what the
other cleared) and `allocated_storage`'s text; the wording of a page, its length limits and the
dead-letter queue's readers; the JSON and mermaid output of the graph; a plans directory that does
not exist (an `InputError`, exit status 2, of either script) or may not be searched, and an entry
that blocks its reader, a FIFO say.

The other components of section 1 are not modelled yet, or not at all, for the
reasons `PROJECT.json` gives with each.

## 8. Plan

Modules, in order of what is at stake. Each gets its MC module, a type
invariant, the properties named and their variants.

1. `Follower` and `SchemaCarry`: done, with their proofs. To add: the coord lane's
   adoption and gate; a command that exits by timeout.
2. `SeqSync`: done, with its proofs. To add: forward and reverse runs against each
   other.
3. `PagerRelay`, `Watchdog`, `PlanGraph`: done, with their proofs.
4. `FollowerWatch`, composing 1 and `Watchdog`: *a halted follower is reported*.
5. `Migrator` (the entry point against the health check), `CoordGuard` (identity,
   claim, fail-open), `AutoLink` (the read and the link, concurrent sign-ups).
6. `PlanDrift`, `Partitions`, the symbol claims: pure operators against reference
   definitions.

Proofs to add: that the marker halt is raised over a migration let by only, under the condition that
no coord migration commits between the two reads; abstract specifications of the pager relay (a page
is settled once) and of the watchdog (an episode is noticed), and that the models
implement them.
