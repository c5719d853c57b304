---------------------------- MODULE SeqSyncProofs ----------------------------
(***************************************************************************)
(* The theorems about the sequence sync (README, section 6).  All but the  *)
(* types need that one run is under way at a time: two of them do move a   *)
(* sequence backwards (README, section 5).                                 *)
(*                                                                         *)
(* The argument turns on the margin: for a source that stands still it     *)
(* never grows as time passes (MarginShrinks), so that a target set ahead  *)
(* of the source once stays ahead by what any later run would ask for.     *)
(* Prepared says so of the side the application may move to, and Runs of   *)
(* what a run under way read and will set, whoever draws values meanwhile. *)
(***************************************************************************)
EXTENDS SeqSync, OrderLemmas

\* One run at a time.
OneRun == \A p, q \in Runner : p = q

\* No value of the command's source is ever lowered: only a restored local
\* database is.
Steady(c) == ~Reversed(c) \/ ~MayRestore

\* The points of some samples at a moment; how far ahead of v the target is to
\* be: by the margin, or by the floor where the source may be lowered; and that
\* a level is so far ahead.
SamplesIn(all, time, c, s) ==
  {<<x.at, x.val>> : x \in {y \in all :
     y.reverse = Reversed(c) /\ y.seq = s /\ y.at + Window > time}}
Gap(all, time, c, s, v) ==
  IF Steady(c) THEN MarginFor(SamplesIn(all, time, c, s) \cup {<<time, v>>}, FloorOf(c))
  ELSE FloorOf(c)
Ahead(level, c, s, v) == level >= v + Gap(samples, now, c, s, v)

\* The application draws from the side it was started on, of sequences which
\* that side has; the rows hold nothing it has not drawn, and of a restored
\* database they hold all that is known.
Sides ==
  /\ app # "down" => app = home
  /\ \A side \in Side : \A s \in Seq \ created[side] : last[side][s] = 0
  /\ \A s \in Seq \ created[home] : high[s] = 0
  /\ (\A s \in Seq : held[s] <= high[s]) /\ (\A s \in Seq \ Owned : held[s] = 0)
  /\ app = "down" /\ home = "local" /\ "local" \notin fit => \A s \in Seq : high[s] <= held[s]

\* The sides that the application draws from, or may, are past what it drew.
Fits ==
  /\ \A side \in Side : app = side \/ (app = "down" /\ side \in fit) =>
       \A s \in Seq : last[side][s] >= high[s]
  /\ app = "down" /\ home = "rds" => "rds" \in fit

\* No sample is of the future, nor above its source.
Sampled ==
  \A x \in samples :
    /\ x.at <= now
    /\ \A c \in Commands \ {"from-data"} :
         Steady(c) /\ Reversed(c) = x.reverse => x.val <= last[Source(c)][x.seq]

\* The application has left RDS, and the local side fits.
Leaving == app = "down" /\ home = "rds" /\ "local" \in fit

Prepared ==
  Leaving =>
    \A s \in Seq : last["rds"][s] = 0 \/ Ahead(last["local"][s], "final", s, last["rds"][s])

\* The application may draw from the target of a run under way.
Open(r) == ~Reversed(r.cmd) /\ (app = "local" \/ (app = "down" /\ "local" \in fit))

\* No restore undoes what the run did or read.
Sure(r) == r.clean \/ ~MayRestore

\* A run that reads a source.
Reads(r) ==
  /\ Reversed(r.cmd) => home = "local"
  /\ Leaving /\ ~Reversed(r.cmd) => r.clean
  /\ (\A s \in r.null : r.src[s] = 0) /\ r.has \subseteq created[TargetOf(r.cmd)]
  /\ r.clean => app = "down" /\ \A s \in Seq \ r.null :
                                  r.src[s] = last[Source(r.cmd)][s] /\ high[s] <= r.src[s]
  /\ Steady(r.cmd) => \A s \in Seq :
       /\ r.src[s] <= last[Source(r.cmd)][s]
       /\ r.src[s] # 0 => \A x \in samples :
            x.reverse = Reversed(r.cmd) /\ x.seq = s => x.val <= r.src[s]

AtSource(r) ==
  Open(r) => \A s \in Seq : r.src[s] # 0 =>
                Ahead(last["local"][s], r.cmd, s, r.src[s])

AtTarget(r) ==
  \A s \in Used(r) :
    /\ Sure(r) => last[TargetOf(r.cmd)][s] >= r.tgt[s]
    /\ \/ ~Open(r) /\ r.tgt[s] >= last[TargetOf(r.cmd)][s]
       \/ ~Reversed(r.cmd) /\ Ahead(r.tgt[s], r.cmd, s, r.src[s])

AtSet(r) ==
  /\ \A s \in Seq : r.wanted[s] # 0 =>
       s \in Used(r) /\ ~Open(r) /\ r.wanted[s] >= last[TargetOf(r.cmd)][s]
  /\ \A s \in Used(r) :
       IF r.wanted[s] # 0 THEN Ahead(r.wanted[s], r.cmd, s, r.src[s])
       ELSE Sure(r) => Ahead(last[TargetOf(r.cmd)][s], r.cmd, s, r.src[s])

AtRecord(r) ==
  Sure(r) => \A s \in Used(r) : Ahead(last[TargetOf(r.cmd)][s], r.cmd, s, r.src[s])

\* A run of from-data.
FromRows(r) ==
  /\ r.at \in {"set", "record"}
  /\ r.at = "set" => \A s \in Seq : r.wanted[s] # 0 => s \in created["local"]
  /\ r.clean => app = "down" /\ home = "local" /\ \A s \in Seq :
       high[s] = 0 \/ (r.at = "set" /\ r.wanted[s] >= high[s]) \/ last["local"][s] >= high[s]

RunOk(r) ==
  /\ r.at # "idle" /\ r.cmd = "from-data" => FromRows(r)
  /\ r.at # "idle" /\ r.cmd # "from-data" => Reads(r)
  /\ r.at = "source" => AtSource(r)
  /\ r.at = "target" => AtTarget(r)
  /\ r.at = "set" /\ r.cmd # "from-data" => AtSet(r)
  /\ r.at = "record" /\ r.cmd # "from-data" => AtRecord(r)
Runs == \A p \in Runner : RunOk(run[p])

SyncInv == TypeOK /\ Sides /\ Fits /\ Sampled /\ Prepared /\ Runs

\* A sample of v, in the direction of a command.
Seen(all, c, s, v) == \E x \in all : x.reverse = Reversed(c) /\ x.seq = s /\ x.val = v

\* Where the source stands at a sample, the target is ahead of it; and a run
\* that read such a value sets nothing.
SourceStill ==
  \A c \in {"forward", "reverse"} : \A s \in Seq :
    Seen(samples, c, s, last[Source(c)][s]) =>
      Ahead(last[TargetOf(c)][s], c, s, last[Source(c)][s])

StillOk(r) ==
  r.cmd \in {"forward", "reverse"} =>
    \A s \in Seq : r.src[s] # 0 /\ Seen(samples, r.cmd, s, r.src[s]) =>
      /\ r.at = "source" => Ahead(last[TargetOf(r.cmd)][s], r.cmd, s, r.src[s])
      /\ r.at = "target" /\ s \in r.has => Ahead(r.tgt[s], r.cmd, s, r.src[s])
      /\ r.at = "set" => r.wanted[s] = 0

Settled == SourceStill /\ \A p \in Runner : StillOk(run[p])

-----------------------------------------------------------------------------
(* The margin.                                                             *)

LEMMA Numbers ==
  /\ Floor \in Nat /\ FinalFloor \in Nat /\ Window \in Nat /\ Keep \in Nat /\ MaxValue \in Nat
  /\ MaxTime \in Nat /\ FiveMinutes \in Nat /\ MinGap \in Nat /\ MinGap > 0
  /\ Floor <= FinalFloor /\ Window <= Keep
  /\ \A n \in Burst : n \in Nat
  /\ Command \subseteq Commands /\ Unreadable \subseteq Seq /\ Early \subseteq Seq
  /\ Owned \subseteq Seq
  BY SeqSyncAssumption

\* Division rounds down.
LEMMA DivIs ==
  ASSUME NEW a \in Nat, NEW b \in Nat, b > 0
  PROVE  a \div b \in Nat /\ b * (a \div b) <= a /\ a < b * (a \div b) + b
  OBVIOUS

LEMMA DivLess ==
  ASSUME NEW a \in Nat, NEW b \in Nat, b > 0, NEW q \in Nat, b * q <= a
  PROVE  q <= a \div b
<1>1. a \div b \in Nat /\ a < b * ((a \div b) + 1)
  BY DivIs
<1>2. ASSUME q >= (a \div b) + 1 PROVE FALSE
  <2> DEFINE d == a \div b
  <2>1. d \in Nat /\ q - (d + 1) \in Nat
    BY <1>1, <1>2
  <2> HIDE DEF d
  <2>2. b * (q - (d + 1)) \in Nat /\ b * (q - (d + 1)) = b * q - b * (d + 1)
    BY <2>1
  <2> QED BY <1>1, <2>1, <2>2 DEF d
<1> QED BY <1>1, <1>2

\* A product grows with its factor.
LEMMA Times ==
  ASSUME NEW a \in Nat, NEW b \in Nat, NEW c \in Nat, b <= c
  PROVE  a * b \in Nat /\ a * b <= a * c
<1>1. c - b \in Nat
  OBVIOUS
<1>2. a * (c - b) \in Nat /\ a * (c - b) = a * c - a * b
  BY <1>1
<1> QED BY <1>2

\* A longer interval asks for no more.
LEMMA RoundUpIs ==
  ASSUME NEW num \in Nat, NEW den \in Nat, den > 0
  PROVE  /\ RoundUp(num, den) \in Nat
         /\ \A less \in 1 .. den : RoundUp(num, den) <= RoundUp(num, less)
<1> DEFINE q == RoundUp(num, den)
<1>1. q \in Nat /\ 1000 * den * q <= 1000 * num + 999 * den
  BY DivIs DEF RoundUp
<1>2. ASSUME NEW less \in 1 .. den
      PROVE  q <= RoundUp(num, less)
  <2> HIDE DEF q
  <2>0. less \in Nat /\ less > 0 /\ less <= den
    OBVIOUS
  <2>1. CASE q = 0
    BY <2>0, <2>1, DivIs DEF RoundUp
  <2>2. CASE q > 0
    <3>1. 1000 * q - 999 \in Nat
      BY <1>1, <2>2
    <3>2. (1000 * q - 999) * less <= (1000 * q - 999) * den
      BY <2>0, <3>1, Times
    <3>3. (1000 * q - 999) * den = 1000 * den * q - 999 * den
      BY <1>1
    <3>4. (1000 * q - 999) * less = 1000 * less * q - 999 * less
      BY <1>1, <2>0
    <3>5. 1000 * less * q <= 1000 * num + 999 * less
      <4>1. less * q \in Nat /\ den * q \in Nat
        BY <1>1, <2>0
      <4> QED BY <1>1, <2>0, <3>2, <3>3, <3>4, <4>1
    <3> QED BY <1>1, <2>0, <3>5, DivLess DEF RoundUp
  <2> QED BY <1>1, <2>1, <2>2
<1> QED BY <1>1, <1>2

LEMMA MaxIs ==
  ASSUME NEW S \in SUBSET Nat, S # {}, IsFiniteSet(S)
  PROVE  Max(S) \in S /\ \A x \in S : x <= Max(S)
<1>1. \E x \in S : \A y \in S : x >= y
  BY FiniteMax
<1> QED BY <1>1 DEF Max

LEMMA MaxOfTwo ==
  ASSUME NEW a \in Nat, NEW b \in Nat
  PROVE  Max({a, b}) = IF a >= b THEN a ELSE b
<1>1. IsFiniteSet({a} \cup {b}) /\ {a} \cup {b} = {a, b}
  BY FS_Singleton, FS_AddElement
<1>2. {a, b} \in SUBSET Nat /\ {a, b} # {} /\ IsFiniteSet({a, b})
  BY <1>1
<1> QED BY <1>2, MaxIs

\* The advances between consecutive points, and the margin each asks for.
Advances(points) == {x \in Consecutive(points) : x[2][2] > x[1][2]}
Need(ab) ==
  RoundUp(3 * (ab[2][2] - ab[1][2]) * FiveMinutes, Max({ab[2][1] - ab[1][1], MinGap}))

LEMMA AdvanceIs ==
  ASSUME NEW P \in SUBSET (Nat \X Nat), NEW ab \in Advances(P)
  PROVE  /\ ab \in P \X P /\ ab[1] \in P /\ ab[2] \in P /\ Before(ab[1], ab[2])
         /\ ~\E c \in P : Before(ab[1], c) /\ Before(c, ab[2])
         /\ ab[2][2] > ab[1][2] /\ ab[1][1] <= ab[2][1] /\ ab = <<ab[1], ab[2]>>
         /\ Need(ab) \in Nat
<1>1. /\ ab \in P \X P /\ ab[1] \in P /\ ab[2] \in P /\ Before(ab[1], ab[2])
      /\ ~\E c \in P : Before(ab[1], c) /\ Before(c, ab[2])
      /\ ab[2][2] > ab[1][2] /\ ab = <<ab[1], ab[2]>>
  BY DEF Advances, Consecutive
<1>2. /\ ab[1][1] \in Nat /\ ab[1][2] \in Nat /\ ab[2][1] \in Nat /\ ab[2][2] \in Nat
      /\ ab[1][1] <= ab[2][1]
  BY <1>1 DEF Before
<1>3. Need(ab) \in Nat
  <2> DEFINE d == ab[2][2] - ab[1][2]
             t == ab[2][1] - ab[1][1]
  <2>1. d \in Nat /\ t \in Nat
    BY <1>1, <1>2
  <2> HIDE DEF d, t
  <2>2. 3 * d * FiveMinutes \in Nat
    BY <2>1, Numbers
  <2>3. Max({t, MinGap}) \in Nat /\ Max({t, MinGap}) > 0
    BY <2>1, Numbers, MaxOfTwo
  <2>4. RoundUp(3 * d * FiveMinutes, Max({t, MinGap})) \in Nat
    BY <2>2, <2>3, RoundUpIs
  <2> QED BY <2>4 DEF Need, d, t
<1> QED BY <1>1, <1>2, <1>3

\* The margin is the floor, or what some advance asks for, and no less than any.
LEMMA MarginIs ==
  ASSUME NEW P \in SUBSET (Nat \X Nat), IsFiniteSet(P), NEW floor \in Nat
  PROVE  /\ MarginFor(P, floor) \in Nat /\ floor <= MarginFor(P, floor)
         /\ \A ab \in Advances(P) : Need(ab) <= MarginFor(P, floor)
         /\ MarginFor(P, floor) = floor \/ \E ab \in Advances(P) : MarginFor(P, floor) = Need(ab)
<1> DEFINE needs == {Need(ab) : ab \in Advances(P)}
<1>1. IsFiniteSet(P \X P)
  BY FS_Product
<1>2. IsFiniteSet(Advances(P))
  BY <1>1, FS_Subset DEF Advances, Consecutive
<1>3. IsFiniteSet(needs)
  <2> DEFINE f == [ab \in Advances(P) |-> Need(ab)]
  <2>1. f \in Surjection(Advances(P), needs)
    BY DEF Surjection
  <2> QED BY <1>2, <2>1, FS_Surjection
<1>4. needs \subseteq Nat
  BY AdvanceIs
<1>5. {floor} \cup needs \in SUBSET Nat /\ IsFiniteSet({floor} \cup needs)
  BY <1>3, <1>4, FS_Union, FS_Singleton
<1>6. MarginFor(P, floor) = Max({floor} \cup needs)
  BY DEF MarginFor, Advances, Need
<1> HIDE DEF needs
<1>7. MarginFor(P, floor) \in {floor} \cup needs /\ \A x \in {floor} \cup needs : x <= MarginFor(P, floor)
  BY <1>5, <1>6, MaxIs
<1> QED BY <1>5, <1>7 DEF needs

\* A margin is no greater than another whose advances ask for as much.
LEMMA MarginLess ==
  ASSUME NEW P \in SUBSET (Nat \X Nat), IsFiniteSet(P), NEW floor \in Nat,
         NEW Q \in SUBSET (Nat \X Nat), IsFiniteSet(Q), NEW lower \in Nat, lower <= floor,
         \A ab \in Advances(Q) : \E cd \in Advances(P) : Need(ab) <= Need(cd)
  PROVE  MarginFor(Q, lower) <= MarginFor(P, floor)
<1>1. MarginFor(P, floor) \in Nat /\ floor <= MarginFor(P, floor)
      /\ \A cd \in Advances(P) : Need(cd) <= MarginFor(P, floor)
  BY MarginIs
<1>2. CASE MarginFor(Q, lower) = lower
  BY <1>1, <1>2
<1>3. CASE \E ab \in Advances(Q) : MarginFor(Q, lower) = Need(ab)
  <2>1. PICK ab \in Advances(Q), cd \in Advances(P) :
          MarginFor(Q, lower) = Need(ab) /\ Need(ab) <= Need(cd)
    BY <1>3
  <2>2. Need(ab) \in Nat /\ Need(cd) \in Nat
    BY <2>1, AdvanceIs
  <2> QED BY <1>1, <2>1, <2>2
<1> QED BY <1>2, <1>3, MarginIs

\* The same advance over a longer interval asks for no more.
LEMMA NeedLess ==
  ASSUME NEW a \in Nat \X Nat, NEW b \in Nat \X Nat, NEW c \in Nat \X Nat,
         b[2] = c[2], a[2] < b[2], a[1] <= b[1], b[1] <= c[1]
  PROVE  Need(<<a, c>>) <= Need(<<a, b>>)
<1> DEFINE d == b[2] - a[2]
           t == b[1] - a[1]
           u == c[1] - a[1]
<1>1. d \in Nat /\ t \in Nat /\ u \in Nat /\ t <= u /\ c[2] - a[2] = d
  OBVIOUS
<1> HIDE DEF d, t, u
<1>2. 3 * d * FiveMinutes \in Nat
  BY <1>1, Numbers
<1>3. /\ Max({t, MinGap}) \in 1 .. Max({u, MinGap}) /\ Max({u, MinGap}) \in Nat
      /\ Max({u, MinGap}) > 0
  BY <1>1, Numbers, MaxOfTwo
<1>4. RoundUp(3 * d * FiveMinutes, Max({u, MinGap})) <= RoundUp(3 * d * FiveMinutes, Max({t, MinGap}))
  BY <1>2, <1>3, RoundUpIs
<1>5. Need(<<a, c>>) = RoundUp(3 * (c[2] - a[2]) * FiveMinutes, Max({u, MinGap}))
      /\ Need(<<a, b>>) = RoundUp(3 * d * FiveMinutes, Max({t, MinGap}))
  BY DEF Need, d, t, u
<1> QED BY <1>1, <1>4, <1>5

\* While the source stands at v, a margin of a later moment, with what is then
\* left of the samples, is no greater.
LEMMA MarginShrinks ==
  ASSUME NEW S \in SUBSET (Nat \X Nat), IsFiniteSet(S), NEW n \in Nat, NEW v \in Nat,
         \A x \in S : x[1] <= n /\ x[2] <= v,
         NEW T \in SUBSET S, \A x \in T, y \in S : x[1] <= y[1] => y \in T,
         NEW floor \in Nat, NEW lower \in Nat, lower <= floor
  PROVE  MarginFor(T \cup {<<n + 1, v>>}, lower) <= MarginFor(S \cup {<<n, v>>}, floor)
<1> DEFINE P == S \cup {<<n, v>>}
           Q == T \cup {<<n + 1, v>>}
<1>1. /\ P \in SUBSET (Nat \X Nat) /\ IsFiniteSet(P)
      /\ Q \in SUBSET (Nat \X Nat) /\ IsFiniteSet(Q)
  BY FS_AddElement, FS_Subset
<1>2. ASSUME NEW ab \in Advances(Q)
      PROVE  \E cd \in Advances(P) : Need(ab) <= Need(cd)
  <2>1. /\ ab[1] \in Q /\ ab[2] \in Q /\ Before(ab[1], ab[2]) /\ ab[2][2] > ab[1][2]
        /\ ~(\E c \in Q : Before(ab[1], c) /\ Before(c, ab[2])) /\ ab = <<ab[1], ab[2]>>
        /\ ab[1][1] <= ab[2][1] /\ Need(ab) \in Nat
    BY <1>1, AdvanceIs
  <2>2. PICK a, b : a = ab[1] /\ b = ab[2] /\ ab = <<a, b>>
    BY <2>1
  <2>3. a \in Nat \X Nat /\ b \in Nat \X Nat /\ a \in Q /\ b \in Q
    BY <1>1, <2>1, <2>2
  <2>4. a \in T
    <3>1. \A x \in S : x[1] \in Nat /\ x[2] \in Nat /\ x[1] <= n
      OBVIOUS
    <3>2. b[1] <= n + 1 /\ b[2] <= v
      BY <2>3, <3>1
    <3>3. a # <<n + 1, v>>
      BY <2>1, <2>2, <2>3, <3>2
    <3> QED BY <2>3, <3>3
  <2>5. \A c \in S : Before(a, c) => c \in T
    <3>1. \A c \in S : Before(a, c) => a[1] <= c[1]
      BY <2>3 DEF Before
    <3> QED BY <2>4, <3>1
  <2>6. CASE b \in T
    <3>1. ~Before(<<n, v>>, b)
      BY <2>6 DEF Before
    <3>2. ~\E c \in P : Before(a, c) /\ Before(c, b)
      BY <2>1, <2>2, <2>5, <3>1
    <3>3. <<a, b>> \in Advances(P)
      BY <2>1, <2>2, <2>4, <2>6, <3>2 DEF Advances, Consecutive
    <3> QED BY <2>1, <2>2, <3>3
  <2>7. CASE b = <<n + 1, v>>
    <3>1. a[2] < v /\ a[1] <= n
      BY <2>1, <2>2, <2>3, <2>4, <2>7
    <3>2. Before(a, <<n, v>>)
      BY <2>3, <3>1 DEF Before
    <3>3. \A c \in S : c[1] \in Nat /\ Before(c, <<n + 1, v>>)
      BY DEF Before
    <3>4. ~Before(<<n, v>>, <<n, v>>)
      BY DEF Before
    <3>5. ~\E c \in P : Before(a, c) /\ Before(c, <<n, v>>)
      BY <2>1, <2>2, <2>5, <2>7, <3>3, <3>4
    <3>6. <<a, <<n, v>>>> \in Advances(P)
      BY <2>4, <3>1, <3>2, <3>5 DEF Advances, Consecutive
    <3>7. Need(<<a, b>>) <= Need(<<a, <<n, v>>>>)
      BY <2>3, <2>7, <3>1, NeedLess
    <3> QED BY <2>2, <3>6, <3>7
  <2> QED BY <2>3, <2>6, <2>7
<1> QED BY <1>1, <1>2, MarginLess

-----------------------------------------------------------------------------
(* The types.                                                              *)

LEMMA Commanded ==
  /\ \A c \in Commands : Source(c) \in Side /\ TargetOf(c) \in Side /\ Source(c) # TargetOf(c)
  /\ \A c : FloorOf(c) \in Nat
  BY Numbers DEF Commands, Side, Source, TargetOf, FloorOf

\* The samples in use, and the margin worked out of them.
LEMMA SamplesAre ==
  ASSUME NEW all, all \subseteq [reverse : BOOLEAN, seq : Seq, at : 0 .. MaxTime, val : 1 .. MaxValue],
         NEW time \in Nat, NEW c, NEW s
  PROVE  /\ SamplesIn(all, time, c, s) \in SUBSET (Nat \X Nat)
         /\ IsFiniteSet(SamplesIn(all, time, c, s))
<1>1. SamplesIn(all, time, c, s) \subseteq (0 .. MaxTime) \X (0 .. MaxValue)
  BY DEF SamplesIn
<1>2. IsFiniteSet((0 .. MaxTime) \X (0 .. MaxValue))
  <2>1. IsFiniteSet(0 .. MaxTime) /\ IsFiniteSet(0 .. MaxValue)
    BY Numbers, FS_Interval
  <2> QED BY <2>1, FS_Product
<1>3. SamplesIn(all, time, c, s) \in SUBSET (Nat \X Nat)
  BY <1>1, Numbers
<1> QED BY <1>1, <1>2, <1>3, FS_Subset

LEMMA GapIs ==
  ASSUME NEW all, all \subseteq [reverse : BOOLEAN, seq : Seq, at : 0 .. MaxTime, val : 1 .. MaxValue],
         NEW time \in Nat, NEW c, NEW s, NEW v \in Nat
  PROVE  LET m == MarginFor(SamplesIn(all, time, c, s) \cup {<<time, v>>}, FloorOf(c)) IN
         /\ m \in Nat /\ Gap(all, time, c, s, v) \in Nat
         /\ FloorOf(c) <= Gap(all, time, c, s, v) /\ Gap(all, time, c, s, v) <= m
         /\ Steady(c) => Gap(all, time, c, s, v) = m
<1> DEFINE P == SamplesIn(all, time, c, s) \cup {<<time, v>>}
<1>1. P \in SUBSET (Nat \X Nat) /\ IsFiniteSet(P)
  <2>1. /\ SamplesIn(all, time, c, s) \in SUBSET (Nat \X Nat)
        /\ IsFiniteSet(SamplesIn(all, time, c, s))
    BY SamplesAre
  <2>2. <<time, v>> \in Nat \X Nat
    OBVIOUS
  <2> QED BY <2>1, <2>2, FS_AddElement
<1> HIDE DEF P
<1>2. MarginFor(P, FloorOf(c)) \in Nat /\ FloorOf(c) <= MarginFor(P, FloorOf(c)) /\ FloorOf(c) \in Nat
  BY <1>1, MarginIs, Commanded
<1> QED BY <1>2 DEF Gap, P

LEMMA MarginNat ==
  ASSUME TypeOK, NEW c, NEW s, NEW v \in Nat
  PROVE  /\ Margin(c, s, v) \in Nat /\ Gap(samples, now, c, s, v) \in Nat
         /\ FloorOf(c) <= Gap(samples, now, c, s, v) /\ Gap(samples, now, c, s, v) <= Margin(c, s, v)
         /\ Steady(c) => Gap(samples, now, c, s, v) = Margin(c, s, v)
<1>1. Margin(c, s, v) = MarginFor(SamplesIn(samples, now, c, s) \cup {<<now, v>>}, FloorOf(c))
  BY DEF Margin, SamplesOf, SamplesIn
<1>2. now \in Nat
  BY Numbers DEF TypeOK
<1>3. samples \subseteq [reverse : BOOLEAN, seq : Seq, at : 0 .. MaxTime, val : 1 .. MaxValue]
  BY DEF TypeOK
<1> QED BY <1>1, <1>2, <1>3, GapIs

\* What a run is.
LEMMA RunIs ==
  ASSUME TypeOK, NEW p \in Runner
  PROVE  /\ run[p] \in RunType /\ DOMAIN run = Runner
         /\ run[p].cmd \in Commands /\ TargetOf(run[p].cmd) \in Side
         /\ \A s \in Seq : run[p].wanted[s] \in Nat /\ run[p].src[s] \in 0 .. MaxValue
                             /\ run[p].tgt[s] \in 0 .. MaxValue
         /\ \A side \in Side : \A s \in Seq : last[side][s] \in 0 .. MaxValue
         /\ DOMAIN last = Side /\ \A side \in Side : DOMAIN last[side] = Seq
  BY Commanded DEF TypeOK, RunType

LEMMA NoRunIs == NoRun \in RunType /\ NoRun.at = "idle"
  BY Numbers DEF NoRun, RunType, Zero, Commands

LEMMA WantedIs ==
  ASSUME TypeOK, NEW p \in Runner, NEW s \in Seq
  PROVE  Wanted(run[p], s) \in Nat
<1>1. run[p].src[s] \in Nat
  BY RunIs, Numbers
<1>2. Margin(run[p].cmd, s, run[p].src[s]) \in Nat
  BY <1>1, MarginNat
<1> QED BY <1>1, <1>2 DEF Wanted

\* What setval may leave of the sequences.
LEMMA MovedIs ==
  ASSUME TypeOK, NEW p \in Runner, NEW done \in SUBSET Statements(run[p]),
         \A s \in done : run[p].wanted[s] <= MaxValue
  PROVE  LET m == Moved(run[p], done)
             t == TargetOf(run[p].cmd) IN
         /\ m \in [Side -> [Seq -> 0 .. MaxValue]]
         /\ \A side \in Side \ {t} : m[side] = last[side]
         /\ \A s \in Seq \ done : m[t][s] = last[t][s]
         /\ \A s \in done : m[t][s] = IF run[p].cmd # "from-data" \/ last[t][s] < run[p].wanted[s]
                                      THEN run[p].wanted[s] ELSE last[t][s]
<1> DEFINE r == run[p]
           t == TargetOf(r.cmd)
           f == [s \in Seq |-> IF s \notin done THEN last[t][s]
                               ELSE IF r.cmd = "from-data" THEN Max({last[t][s], r.wanted[s]})
                               ELSE r.wanted[s]]
<1>1. Moved(r, done) = [last EXCEPT ![t] = f]
  BY DEF Moved
<1>2. t \in Side /\ last \in [Side -> [Seq -> 0 .. MaxValue]] /\ done \subseteq Seq
  BY RunIs DEF TypeOK, Statements
<1>3. \A s \in done : /\ r.wanted[s] \in 0 .. MaxValue /\ last[t][s] \in 0 .. MaxValue
                      /\ Max({last[t][s], r.wanted[s]}) =
                           IF last[t][s] >= r.wanted[s] THEN last[t][s] ELSE r.wanted[s]
  <2> TAKE s \in done
  <2>1. r.wanted[s] \in Nat /\ last[t][s] \in Nat /\ last[t][s] <= MaxValue
    BY <1>2, RunIs, Numbers
  <2> QED BY <2>1, MaxOfTwo, Numbers
<1> HIDE DEF t, r
<1>4. /\ \A s \in Seq \ done : f[s] = last[t][s]
      /\ \A s \in done : f[s] = IF r.cmd # "from-data" \/ last[t][s] < r.wanted[s]
                                THEN r.wanted[s] ELSE last[t][s]
  BY <1>2, <1>3
<1>5. f \in [Seq -> 0 .. MaxValue]
  BY <1>2, <1>3
<1> HIDE DEF f
<1>6. [last EXCEPT ![t] = f] \in [Side -> [Seq -> 0 .. MaxValue]]
      /\ [last EXCEPT ![t] = f][t] = f /\ \A side \in Side \ {t} : [last EXCEPT ![t] = f][side] = last[side]
  BY <1>2, <1>5
<1> QED BY <1>1, <1>4, <1>6 DEF r, t

\* A step keeps the types.
LEMMA TypeRun ==
  ASSUME TypeOK, NEW p \in Runner, Run(p)
  PROVE  TypeOK'
<1> DEFINE r == run[p]
<1>1. r \in RunType /\ NoRun \in RunType /\ DOMAIN run = Runner /\ run \in [Runner -> RunType]
  BY RunIs, NoRunIs DEF TypeOK
<1>2. ASSUME UNCHANGED <<last, created, app, home, fit, high, held, samples, now>>,
             NEW q \in RunType, run' = [run EXCEPT ![p] = q]
      PROVE  TypeOK'
  BY <1>1, <1>2 DEF TypeOK
<1>3. ASSUME NEW c \in Command, ReadSource(p, c) PROVE TypeOK'
  <2> DEFINE src == [s \in Seq |-> IF s \in Hidden(c) THEN 0 ELSE last[Source(c)][s]]
             q == [NoRun EXCEPT !.at = "source", !.cmd = c,
                     !.clean = (app = "down" /\ Source(c) \in fit),
                     !.null = Hidden(c) \cap created[Source(c)], !.src = src]
  <2>1. c \in Commands /\ Source(c) \in Side
    BY Numbers, Commanded
  <2>2. src \in [Seq -> 0 .. MaxValue]
    BY <2>1, Numbers DEF TypeOK
  <2>3. Hidden(c) \cap created[Source(c)] \subseteq Seq
    BY <2>1 DEF TypeOK
  <2>4. q \in RunType
    BY <1>1, <2>1, <2>2, <2>3 DEF RunType
  <2> QED BY <1>2, <1>3, <2>4 DEF ReadSource
<1>4. CASE ReadTarget(p)
  <2> DEFINE q == [r EXCEPT !.at = "target", !.has = created[TargetOf(r.cmd)],
                            !.tgt = last[TargetOf(r.cmd)]]
  <2>1. q \in RunType
    BY <1>1, RunIs DEF RunType, TypeOK
  <2> QED BY <1>2, <1>4, <2>1 DEF ReadTarget
<1>5. CASE Compute(p)
  <2> DEFINE q == [r EXCEPT !.at = "set", !.wanted = [s \in Seq |-> Wanted(r, s)]]
  <2>1. [s \in Seq |-> Wanted(r, s)] \in [Seq -> Nat]
    BY WantedIs
  <2>2. q \in RunType
    BY <1>1, <2>1 DEF RunType
  <2> QED BY <1>2, <1>5, <2>2 DEF Compute
<1>6. CASE SetAll(p)
  <2>1. last' \in [Side -> [Seq -> 0 .. MaxValue]]
    BY <1>6, MovedIs DEF SetAll
  <2>2. [r EXCEPT !.at = "record"] \in RunType
    BY <1>1 DEF RunType
  <2>3. run' = [run EXCEPT ![p] = [r EXCEPT !.at = "record"]]
    BY <1>6, <1>1 DEF SetAll, Go
  <2>4. run' \in [Runner -> RunType]
    BY <1>1, <2>2, <2>3
  <2> QED BY <1>6, <2>1, <2>4 DEF SetAll, TypeOK
<1>7. CASE SetPart(p)
  <2>1. PICK done \in SUBSET {s \in Statements(r) : r.wanted[s] <= MaxValue} : last' = Moved(r, done)
    BY <1>7 DEF SetPart
  <2>2. last' \in [Side -> [Seq -> 0 .. MaxValue]]
    BY <2>1, MovedIs
  <2>3. run' \in [Runner -> RunType]
    BY <1>1, <1>7 DEF SetPart
  <2> QED BY <1>7, <2>2, <2>3 DEF SetPart, TypeOK
<1>8. CASE Record(p)
  <2>1. run' \in [Runner -> RunType]
    BY <1>1, <1>8 DEF Record
  <2>2. fit' \subseteq Side
    BY <1>8, RunIs DEF Record, TypeOK
  <2>3. samples' \subseteq [reverse : BOOLEAN, seq : Seq, at : 0 .. MaxTime, val : 1 .. MaxValue]
    <3> DEFINE new == {[reverse |-> Reversed(r.cmd), seq |-> s, at |-> now, val |-> r.src[s]] :
                         s \in Used(r)}
    <3>1. Reversed(r.cmd) \in BOOLEAN /\ r.has \subseteq Seq /\ now \in 0 .. MaxTime
      BY <1>1 DEF Reversed, RunType, TypeOK
    <3>2. new \subseteq [reverse : BOOLEAN, seq : Seq, at : 0 .. MaxTime, val : 1 .. MaxValue]
      BY <3>1, RunIs DEF Used
    <3>3. samples' \subseteq samples \cup new
      BY <1>8 DEF Record
    <3> QED BY <3>2, <3>3 DEF TypeOK
  <2> QED BY <1>8, <2>1, <2>2, <2>3 DEF Record, TypeOK
<1>9. CASE FromData(p)
  <2>1. PICK top \in [Owned -> 0 .. MaxValue] : run' = [run EXCEPT ![p] =
            [NoRun EXCEPT !.at = "set", !.cmd = "from-data",
               !.clean = (app = "down" /\ home = "local"),
               !.wanted = [s \in Seq |-> IF s \in Owned \cap created["local"] /\ top[s] # 0
                                         THEN top[s] + Floor ELSE 0]]]
    BY <1>9 DEF FromData
  <2> DEFINE w == [s \in Seq |-> IF s \in Owned \cap created["local"] /\ top[s] # 0
                                 THEN top[s] + Floor ELSE 0]
             q == [NoRun EXCEPT !.at = "set", !.cmd = "from-data",
                     !.clean = (app = "down" /\ home = "local"), !.wanted = w]
  <2>2. w \in [Seq -> Nat]
    BY Numbers
  <2>3. q \in RunType
    BY <1>1, <2>2 DEF RunType, Commands
  <2> QED BY <1>2, <1>9, <2>1, <2>3 DEF FromData
<1>10. CASE Die(p)
  BY <1>1, <1>2, <1>10 DEF Die
<1> QED BY <1>3, <1>4, <1>5, <1>6, <1>7, <1>8, <1>9, <1>10 DEF Run

LEMMA TypeWorld ==
  ASSUME TypeOK, World
  PROVE  TypeOK'
<1>1. "rds" \in Side /\ "local" \in Side /\ now \in Nat /\ MaxTime \in Nat /\ MaxValue \in Nat
  BY Numbers DEF Side, TypeOK
<1>2. ASSUME NEW s \in Seq, NEW n \in Burst, NextVal(s, n) PROVE TypeOK'
  <2>1. app \in Side /\ n \in Nat /\ last[app][s] \in Nat /\ high[s] \in Nat /\ held[s] \in Nat
    BY <1>2, Numbers DEF NextVal, TypeOK
  <2>2. last[app][s] + n \in 0 .. MaxValue
    BY <1>1, <1>2, <2>1 DEF NextVal
  <2>3. last' = [last EXCEPT ![app] = [last[app] EXCEPT ![s] = last[app][s] + n]]
    BY <1>2 DEF NextVal
  <2>4. last' \in [Side -> [Seq -> 0 .. MaxValue]]
    BY <2>1, <2>2, <2>3 DEF TypeOK
  <2>5. /\ Max({high[s], last[app][s] + n}) \in 0 .. MaxValue
        /\ Max({held[s], last[app][s] + n}) \in 0 .. MaxValue
    <3>1. last[app][s] + n \in Nat /\ high[s] \in 0 .. MaxValue /\ held[s] \in 0 .. MaxValue
      BY <2>1 DEF TypeOK
    <3> QED BY <2>1, <2>2, <3>1, MaxOfTwo
  <2>6. high' \in [Seq -> 0 .. MaxValue]
    BY <1>2, <2>5 DEF NextVal, TypeOK
  <2>7. held' \in [Seq -> 0 .. MaxValue]
    BY <1>2, <2>5 DEF NextVal, TypeOK
  <2> QED BY <1>2, <2>4, <2>6, <2>7 DEF NextVal, TypeOK
<1>3. ASSUME NEW s \in Seq, NEW side \in Side, Create(side, s) PROVE TypeOK'
  BY <1>3 DEF Create, TypeOK
<1>4. Unclean \in [Runner -> RunType]
  <2>1. \A p \in Runner : [run[p] EXCEPT !.clean = FALSE] \in RunType
    BY RunIs DEF RunType
  <2> QED BY <2>1 DEF Unclean
<1>5. CASE Stop
  BY <1>5 DEF Stop, TypeOK
<1>6. ASSUME NEW side \in Side, Start(side) PROVE TypeOK'
  BY <1>4, <1>6 DEF Start, TypeOK
<1>7. CASE Restore
  <2>1. PICK s \in Seq : \E v \in 0 .. last["local"][s] : last' = [last EXCEPT !["local"][s] = v]
    BY <1>7 DEF Restore
  <2>2. PICK v \in 0 .. last["local"][s] :
          last' = [last EXCEPT !["local"] = [last["local"] EXCEPT ![s] = v]]
    BY <2>1
  <2>3. v \in 0 .. MaxValue
    BY <1>1, <2>2 DEF TypeOK
  <2>4. last' \in [Side -> [Seq -> 0 .. MaxValue]]
    BY <1>1, <2>2, <2>3 DEF TypeOK
  <2> QED BY <1>4, <1>7, <2>4 DEF Restore, TypeOK
<1>8. CASE Tick
  BY <1>1, <1>8 DEF Tick, TypeOK
<1>9. ASSUME NEW s \in Owned, Delete(s) PROVE TypeOK'
  <2>1. PICK v \in 0 .. held[s] : held' = [held EXCEPT ![s] = v]
    BY <1>9 DEF Delete
  <2>2. s \in Seq /\ held[s] \in 0 .. MaxValue
    BY Numbers DEF TypeOK
  <2>3. held' \in [Seq -> 0 .. MaxValue]
    BY <1>1, <2>1, <2>2 DEF TypeOK
  <2> QED BY <1>9, <2>3 DEF Delete, TypeOK
<1> QED BY <1>2, <1>3, <1>5, <1>6, <1>7, <1>8, <1>9 DEF World

LEMMA TypeStep == TypeOK /\ [Next]_vars => TypeOK'
<1>1. TypeOK /\ UNCHANGED vars => TypeOK'
  BY DEF vars, TypeOK
<1> QED BY <1>1, TypeRun, TypeWorld DEF Next

LEMMA TypeInit == Init => TypeOK
<1>1. Zero \in [Seq -> 0 .. MaxValue]
  BY Numbers DEF Zero
<1> QED BY <1>1, NoRunIs, Numbers DEF Init, TypeOK, Side

\* Every variable has its type.
THEOREM TypeCorrect == Spec => []TypeOK
  BY TypeInit, TypeStep, PTL DEF Spec

-----------------------------------------------------------------------------
(* The gap, from one moment to the next.                                   *)

\* No time or sample: no change.  A minute: no growth, where no sample is above v.
LEMMA GapShrinks ==
  ASSUME TypeOK, NEW c, NEW s, NEW v \in Nat, \A x \in samples : x.at <= now,
         Steady(c) => \A x \in samples : x.reverse = Reversed(c) /\ x.seq = s => x.val <= v
  PROVE  Gap(samples, now + 1, c, s, v) <= Gap(samples, now, c, s, v)
<1>1. now \in Nat /\ now + 1 \in Nat
  BY Numbers DEF TypeOK
<1>2. samples \subseteq [reverse : BOOLEAN, seq : Seq, at : 0 .. MaxTime, val : 1 .. MaxValue]
  BY DEF TypeOK
<1> DEFINE S == SamplesIn(samples, now, c, s)
           T == SamplesIn(samples, now + 1, c, s)
<1>3. CASE Steady(c)
  <2>1. S \in SUBSET (Nat \X Nat) /\ IsFiniteSet(S)
    BY <1>1, <1>2, SamplesAre
  <2>2. T \in SUBSET S
    BY <1>1, <1>2, Numbers DEF SamplesIn
  <2>3. \A x \in S : x[1] <= now /\ x[2] <= v
    BY <1>3 DEF SamplesIn
  <2>4. \A x \in T, y \in S : x[1] <= y[1] => y \in T
    <3> SUFFICES ASSUME NEW x \in T, NEW y \in S, x[1] <= y[1] PROVE y \in T
      OBVIOUS
    <3>1. PICK a \in samples : x = <<a.at, a.val>> /\ a.at + Window > now + 1
      BY DEF SamplesIn
    <3>2. PICK b \in samples : y = <<b.at, b.val>> /\ b.reverse = Reversed(c) /\ b.seq = s
      BY DEF SamplesIn
    <3>3. a.at \in Nat /\ b.at \in Nat /\ a.at <= b.at
      BY <1>2, <3>1, <3>2, Numbers
    <3>4. b.at + Window > now + 1
      BY <1>1, <3>1, <3>3, Numbers
    <3> QED BY <3>2, <3>4 DEF SamplesIn
  <2> HIDE DEF S, T
  <2>5. MarginFor(T \cup {<<now + 1, v>>}, FloorOf(c)) <= MarginFor(S \cup {<<now, v>>}, FloorOf(c))
    <3>1. FloorOf(c) \in Nat /\ FloorOf(c) <= FloorOf(c)
      BY Commanded
    <3> QED BY <1>1, <2>1, <2>2, <2>3, <2>4, <3>1, MarginShrinks
  <2> QED BY <1>3, <2>5 DEF Gap, S, T
<1>4. CASE ~Steady(c)
  BY <1>4, Commanded DEF Gap
<1> QED BY <1>3, <1>4

\* With the higher floor of the same direction, no less.
LEMMA GapOfFinal ==
  ASSUME TypeOK, NEW c, NEW d, Reversed(c) = Reversed(d), FloorOf(c) <= FloorOf(d),
         NEW s, NEW v \in Nat
  PROVE  Gap(samples, now, c, s, v) <= Gap(samples, now, d, s, v)
<1> DEFINE P == SamplesIn(samples, now, c, s) \cup {<<now, v>>}
<1>1. P \in SUBSET (Nat \X Nat) /\ IsFiniteSet(P)
  <2>0. samples \subseteq [reverse : BOOLEAN, seq : Seq, at : 0 .. MaxTime, val : 1 .. MaxValue]
        /\ now \in Nat
    BY Numbers DEF TypeOK
  <2>1. /\ SamplesIn(samples, now, c, s) \in SUBSET (Nat \X Nat)
        /\ IsFiniteSet(SamplesIn(samples, now, c, s)) /\ now \in Nat
    BY <2>0, SamplesAre
  <2>2. <<now, v>> \in Nat \X Nat
    BY <2>1
  <2> QED BY <2>1, <2>2, FS_AddElement
<1>2. Steady(c) = Steady(d) /\ SamplesIn(samples, now, c, s) = SamplesIn(samples, now, d, s)
  BY DEF Steady, SamplesIn
<1> HIDE DEF P
<1>3. MarginFor(P, FloorOf(c)) <= MarginFor(P, FloorOf(d))
  <2>1. \A ab \in Advances(P) : Need(ab) <= Need(ab)
    BY <1>1, AdvanceIs
  <2> QED BY <1>1, <2>1, MarginLess, Commanded
<1> QED BY <1>2, <1>3 DEF Gap, P

\* The samples that a run at hand stores and deletes.
Stored(r) ==
  {[reverse |-> Reversed(r.cmd), seq |-> s, at |-> now, val |-> r.src[s]] : s \in Used(r)}
After(r) ==
  IF r.cmd = "from-data" THEN samples ELSE {x \in samples \cup Stored(r) : x.at + Keep >= now}

\* The sample of a value is where the margin for it has its last point anyway.
LEMMA GapRecords ==
  ASSUME TypeOK, NEW p \in Runner, NEW c, NEW s, NEW v,
         Reversed(run[p].cmd) = Reversed(c) /\ s \in Used(run[p]) => run[p].src[s] = v
  PROVE  Gap(After(run[p]), now, c, s, v) = Gap(samples, now, c, s, v)
<1> DEFINE r == run[p]
           S == SamplesIn(samples, now, c, s)
           T == SamplesIn(After(r), now, c, s)
<1>1. CASE r.cmd = "from-data"
  BY <1>1 DEF After
<1>2. CASE r.cmd # "from-data"
  <2>1. \A x \in samples : x.at \in Nat
    BY Numbers DEF TypeOK
  <2>2. now \in Nat /\ Window \in Nat /\ Keep \in Nat /\ Window <= Keep
    BY Numbers DEF TypeOK
  <2>3. S \subseteq T
    <3> SUFFICES ASSUME NEW x \in samples, x.reverse = Reversed(c) /\ x.seq = s /\ x.at + Window > now
                 PROVE  x \in After(r)
      BY DEF SamplesIn
    <3>1. x.at + Keep >= now
      BY <2>1, <2>2
    <3> QED BY <1>2, <3>1 DEF After
  <2>4. T \subseteq S \cup {<<now, v>>}
    <3> SUFFICES ASSUME NEW x \in After(r), x.reverse = Reversed(c) /\ x.seq = s /\ x.at + Window > now,
                        x \notin samples
                 PROVE  <<x.at, x.val>> = <<now, v>>
      BY DEF SamplesIn
    <3>1. x \in Stored(r)
      BY <1>2 DEF After
    <3> QED BY <3>1 DEF Stored
  <2>5. T \cup {<<now, v>>} = S \cup {<<now, v>>}
    BY <2>3, <2>4
  <2> QED BY <2>5 DEF Gap
<1> QED BY <1>1, <1>2

-----------------------------------------------------------------------------
(* The steps of the application and of the clock.                          *)

\* The numbers that the invariant compares.
LEMMA Values ==
  ASSUME TypeOK
  PROVE  /\ \A side \in Side : \A s \in Seq : last[side][s] \in Nat
         /\ \A s \in Seq : high[s] \in Nat /\ held[s] \in Nat
         /\ \A p \in Runner : /\ run[p].cmd \in Commands /\ run[p].has \subseteq Seq
                              /\ \A s \in Seq : run[p].src[s] \in Nat /\ run[p].tgt[s] \in Nat
                                                /\ run[p].wanted[s] \in Nat
         /\ \A c, s : \A v \in Nat : Gap(samples, now, c, s, v) \in Nat
         /\ "rds" \in Side /\ "local" \in Side /\ home \in Side
<1>1. \A c, s : \A v \in Nat : Gap(samples, now, c, s, v) \in Nat
  BY MarginNat
<1>2. MaxValue \in Nat
  BY Numbers
<1> QED BY <1>1, <1>2 DEF TypeOK, RunType, Side

LEMMA CommandIs ==
  ASSUME NEW c \in Commands
  PROVE  /\ Source(c) \in Side /\ TargetOf(c) \in Side
         /\ ~Reversed(c) => Source(c) = "rds" /\ TargetOf(c) = "local"
         /\ Reversed(c) => Source(c) = "local" /\ TargetOf(c) = "rds"
  BY DEF Source, TargetOf, Side

\* The application draws values, or a sequence is created.
LEMMA DrawKeeps ==
  ASSUME SyncInv, TypeOK', UNCHANGED <<app, home, fit, samples, now, run>>,
         \A side \in Side : created[side] \subseteq created'[side],
         \A side \in Side : \A s \in Seq : last'[side][s] >= last[side][s],
         \A side \in Side : side # app => last'[side] = last[side],
         app = "down" => UNCHANGED <<high, held>>,
         (\A s \in Seq : held'[s] <= high'[s]) /\ (\A s \in Seq \ Owned : held'[s] = 0),
         \A s \in Seq : high'[s] # high[s] => s \in created[home] /\ app = home /\ last'[home][s] >= high'[s],
         \A side \in Side : \A s \in Seq : last'[side][s] # last[side][s] => s \in created[side]
  PROVE  SyncInv'
<1>1. /\ TypeOK /\ Sides /\ Fits /\ Sampled /\ Prepared /\ \A p \in Runner : RunOk(run[p])
  BY DEF SyncInv, Runs
<1>2. Sides'
  BY <1>1, Values DEF Sides
<1>3. Fits'
  <2>1. \A side \in Side : \A s \in Seq : last'[side][s] \in Nat /\ last[side][s] \in Nat /\ high[s] \in Nat
    BY <1>1, Values DEF TypeOK
  <2> QED BY <1>1, <2>1 DEF Fits, Sides
<1>4. Sampled'
  <2>1. ASSUME NEW x \in samples, NEW c \in Commands \ {"from-data"}, Steady(c), Reversed(c) = x.reverse
        PROVE  x.val <= last'[Source(c)][x.seq]
    <3>1. x.val <= last[Source(c)][x.seq] /\ x.seq \in Seq /\ x.val \in Nat
      BY <1>1, <2>1, Numbers DEF Sampled, TypeOK
    <3> QED BY <1>1, <3>1, Values, CommandIs DEF TypeOK
  <2> QED BY <1>1, <2>1 DEF Sampled
<1>5. Prepared'
  BY <1>1, Values DEF Prepared, Leaving, Ahead
<1>6. ASSUME NEW p \in Runner PROVE RunOk(run[p])'
  <2> DEFINE r == run[p]
  <2>1. /\ RunOk(r) /\ run' = run /\ r.cmd \in Commands
        /\ \A s \in Seq : /\ r.src[s] \in Nat /\ r.tgt[s] \in Nat /\ r.wanted[s] \in Nat
                            /\ Gap(samples, now, r.cmd, s, r.src[s]) \in Nat
    BY <1>1, Values
  <2>2. /\ Source(r.cmd) \in Side /\ TargetOf(r.cmd) \in Side
        /\ r.has \subseteq Seq /\ Used(r) \subseteq Seq
    BY <1>1, <2>1, Values, CommandIs DEF Used
  <2>3. \A side \in Side : \A s \in Seq : last'[side][s] \in Nat /\ last[side][s] \in Nat
    BY <1>1, Values DEF TypeOK
  <2>4. FromRows(r) => FromRows(run[p])'
    BY <1>1, <2>1, <2>3, Values DEF FromRows, Sides
  <2>5. r.at # "idle" /\ r.cmd # "from-data" /\ Reads(r) => Reads(run[p])'
    <3> SUFFICES ASSUME r.at # "idle", r.cmd # "from-data", Reads(r) PROVE Reads(run[p])'
      OBVIOUS
    <3>1. r.clean => last'[Source(r.cmd)] = last[Source(r.cmd)] /\ UNCHANGED high
      BY <2>2 DEF Reads, Side
    <3>2. r.has \subseteq created'[TargetOf(r.cmd)]
      BY <2>2 DEF Reads
    <3>3. Steady(r.cmd) => \A s \in Seq : r.src[s] <= last'[Source(r.cmd)][s]
      <4> SUFFICES ASSUME Steady(r.cmd), NEW s \in Seq PROVE r.src[s] <= last'[Source(r.cmd)][s]
        OBVIOUS
      <4>1. r.src[s] <= last[Source(r.cmd)][s]
        BY DEF Reads
      <4> QED BY <2>1, <2>2, <2>3, <4>1
    <3>4. /\ Reversed(r.cmd) => home = "local"
          /\ Leaving /\ ~Reversed(r.cmd) => r.clean
          /\ \A s \in r.null : r.src[s] = 0
          /\ r.clean => app = "down" /\ \A s \in Seq \ r.null :
                                        r.src[s] = last[Source(r.cmd)][s] /\ high[s] <= r.src[s]
          /\ Steady(r.cmd) => \A s \in Seq : r.src[s] # 0 => \A x \in samples :
                x.reverse = Reversed(r.cmd) /\ x.seq = s => x.val <= r.src[s]
      BY DEF Reads
    <3>5. r.clean => \A s \in Seq \ r.null : r.src[s] = last'[Source(r.cmd)][s] /\ high'[s] <= r.src[s]
      BY <3>1, <3>4
    <3> QED BY <2>1, <3>2, <3>3, <3>4, <3>5 DEF Reads, Leaving
  <2>6. AtSource(r) => AtSource(run[p])'
    BY <1>1, <2>1, <2>2, <2>3, Values DEF AtSource, Open, Ahead
  <2>7. ~Open(r) /\ (Reversed(r.cmd) => home = "local") => last'[TargetOf(r.cmd)] = last[TargetOf(r.cmd)]
    BY <1>1, <2>1, <2>2, CommandIs DEF Open, Sides, Side
  <2>8. r.at = "target" /\ Reads(r) /\ AtTarget(r) => AtTarget(run[p])'
    BY <2>1, <2>2, <2>3, <2>7 DEF AtTarget, Reads, Sure, Open, Used, Ahead
  <2>9. Reads(r) /\ AtSet(r) => AtSet(run[p])'
    BY <2>1, <2>2, <2>3, <2>7 DEF AtSet, Reads, Sure, Open, Used, Ahead
  <2>10. AtRecord(r) => AtRecord(run[p])'
    BY <2>1, <2>2, <2>3 DEF AtRecord, Sure, Used, Ahead
  <2>11. r.at \in {"source", "target"} => r.cmd # "from-data"
    BY <2>1 DEF RunOk, FromRows
  <2> QED BY <2>1, <2>4, <2>5, <2>6, <2>8, <2>9, <2>10, <2>11 DEF RunOk
<1> QED BY <1>2, <1>3, <1>4, <1>5, <1>6 DEF SyncInv, Runs

LEMMA NextValKeeps ==
  ASSUME SyncInv, TypeOK', NEW s \in Seq, NEW n \in Burst, NextVal(s, n)
  PROVE  SyncInv'
<1>1. /\ TypeOK /\ app \in Side /\ app = home /\ app # "down" /\ s \in created[home] /\ n \in Nat
      /\ UNCHANGED <<created, app, home, fit, samples, now, run>>
  BY Numbers DEF NextVal, SyncInv, Sides, TypeOK
<1>2. last[home][s] \in Nat /\ high[s] \in Nat /\ last[home][s] + n \in Nat
  BY <1>1, Values
<1>3. /\ last' = [last EXCEPT ![home] = [last[home] EXCEPT ![s] = last[home][s] + n]]
      /\ high' = [high EXCEPT ![s] = Max({high[s], last[home][s] + n})]
  BY <1>1 DEF NextVal
<1>4. /\ \A side \in Side \ {home} : last'[side] = last[side]
      /\ \A z \in Seq \ {s} : last'[home][z] = last[home][z] /\ high'[z] = high[z]
      /\ last'[home][s] = last[home][s] + n
      /\ high'[s] = Max({high[s], last[home][s] + n})
  BY <1>1, <1>3 DEF TypeOK
<1>5. last'[home][s] >= high'[s]
  <2>1. last[home][s] >= high[s]
    BY <1>1 DEF SyncInv, Fits
  <2>2. PICK a, b : a = high[s] /\ b = last[home][s] + n
    OBVIOUS
  <2>3. a \in Nat /\ b \in Nat /\ Max({a, b}) = IF a >= b THEN a ELSE b
    BY <1>2, <2>2, MaxOfTwo
  <2> QED BY <1>1, <1>2, <1>4, <2>1, <2>2, <2>3
<1>6. \A side \in Side : \A z \in Seq :
        last'[side][z] >= last[side][z] /\ (last'[side][z] # last[side][z] => side = home /\ z = s)
  BY <1>1, <1>2, <1>4, Values
<1>7. (\A z \in Seq : held'[z] <= high'[z]) /\ (\A z \in Seq \ Owned : held'[z] = 0)
  <2>0. /\ \A z \in Seq : held[z] \in Nat /\ high[z] \in Nat /\ held[z] <= high[z]
        /\ \A z \in Seq \ Owned : held[z] = 0
    BY <1>1, Values DEF SyncInv, Sides
  <2>1. PICK a, b, c : a = held[s] /\ b = last[home][s] + n /\ c = high[s]
    OBVIOUS
  <2>2. /\ a \in Nat /\ b \in Nat /\ c \in Nat /\ a <= c
        /\ Max({a, b}) = (IF a >= b THEN a ELSE b) /\ Max({c, b}) = (IF c >= b THEN c ELSE b)
    BY <1>2, <2>0, <2>1, MaxOfTwo
  <2>3. a <= Max({c, b}) /\ Max({a, b}) <= Max({c, b})
    BY <2>2
  <2>4. UNCHANGED held \/ (s \in Owned /\ held' = [held EXCEPT ![s] = Max({a, b})])
    BY <1>1, <2>1 DEF NextVal
  <2>5. held \in [Seq -> 0 .. MaxValue]
    BY <1>1 DEF TypeOK
  <2>6. CASE UNCHANGED held
    BY <1>4, <2>0, <2>1, <2>3, <2>6
  <2>7. CASE s \in Owned /\ held' = [held EXCEPT ![s] = Max({a, b})]
    <3>1. held'[s] = Max({a, b}) /\ \A z \in Seq \ {s} : held'[z] = held[z]
      BY <2>5, <2>7
    <3> QED BY <1>4, <2>0, <2>1, <2>3, <2>7, <3>1
  <2> QED BY <2>4, <2>6, <2>7
<1> QED BY <1>1, <1>4, <1>5, <1>6, <1>7, DrawKeeps

LEMMA DeleteKeeps ==
  ASSUME SyncInv, TypeOK', NEW s \in Owned, Delete(s)
  PROVE  SyncInv'
<1>1. /\ TypeOK /\ app # "down" /\ s \in Seq
      /\ UNCHANGED <<last, created, app, home, fit, high, samples, now, run>>
  BY Numbers DEF Delete, SyncInv
<1>2. PICK v \in 0 .. held[s] : held' = [held EXCEPT ![s] = v]
  BY DEF Delete
<1>3. /\ held'[s] = v /\ \A z \in Seq \ {s} : held'[z] = held[z]
      /\ \A z \in Seq : held[z] \in Nat /\ high[z] \in Nat
  BY <1>1, <1>2, Values DEF TypeOK
<1>4. (\A z \in Seq : held'[z] <= high'[z]) /\ (\A z \in Seq \ Owned : held'[z] = 0)
  BY <1>1, <1>2, <1>3 DEF SyncInv, Sides
<1>5. \A d \in Side : \A z \in Seq : last'[d][z] = last[d][z] /\ last'[d][z] >= last[d][z]
  BY <1>1, Values
<1> QED BY <1>1, <1>4, <1>5, DrawKeeps

LEMMA CreateKeeps ==
  ASSUME SyncInv, TypeOK', NEW side \in Side, NEW s \in Seq, Create(side, s)
  PROVE  SyncInv'
<1>1. /\ TypeOK /\ UNCHANGED <<last, app, home, fit, high, held, samples, now, run>>
      /\ \A d \in Side : created[d] \subseteq created'[d]
      /\ (\A z \in Seq : held[z] <= high[z]) /\ (\A z \in Seq \ Owned : held[z] = 0)
  BY DEF Create, SyncInv, TypeOK, Sides
<1>2. \A d \in Side : \A z \in Seq : last'[d][z] = last[d][z] /\ last'[d][z] >= last[d][z]
  BY <1>1, Values
<1> QED BY <1>1, <1>2, DrawKeeps

\* The application stops.
LEMMA StopKeeps ==
  ASSUME SyncInv, TypeOK', Stop
  PROVE  SyncInv'
<1>1. /\ TypeOK /\ app = home /\ app' = "down" /\ fit' = {home} /\ app # "down" /\ "down" \notin Side
      /\ home \in Side /\ UNCHANGED <<last, created, home, high, held, samples, now, run>>
  BY DEF Stop, SyncInv, Sides, TypeOK, Side
<1>2. Sides' /\ Fits'
  BY <1>1 DEF SyncInv, Sides, Fits
<1>3. Sampled' /\ Prepared'
  BY <1>1 DEF SyncInv, Sampled, Prepared, Leaving
<1>4. ASSUME NEW p \in Runner PROVE RunOk(run[p])'
  <2> DEFINE r == run[p]
  <2>1. RunOk(r) /\ run' = run
    BY <1>1 DEF SyncInv, Runs
  <2>2. Open(r) <=> Open(run[p])'
    BY <1>1 DEF Open
  <2>3. FromRows(r) => FromRows(run[p])'
    BY <1>1 DEF FromRows
  <2>4. Reads(r) => Reads(run[p])'
    BY <1>1 DEF Reads, Leaving
  <2>5. /\ AtSource(r) => AtSource(run[p])'
        /\ AtTarget(r) => AtTarget(run[p])'
        /\ AtSet(r) => AtSet(run[p])'
        /\ AtRecord(r) => AtRecord(run[p])'
    BY <1>1, <2>2 DEF AtSource, AtTarget, AtSet, AtRecord, Ahead, Used, Sure, Open
  <2> QED BY <2>1, <2>3, <2>4, <2>5 DEF RunOk
<1> QED BY <1>2, <1>3, <1>4 DEF SyncInv, Runs

\* It starts: what is under way is no longer of a source at rest.
LEMMA UncleanIs ==
  ASSUME TypeOK, NEW p \in Runner, run' = Unclean
  PROVE  /\ run'[p].at = run[p].at /\ run'[p].cmd = run[p].cmd /\ run'[p].src = run[p].src
         /\ run'[p].null = run[p].null /\ run'[p].has = run[p].has /\ run'[p].tgt = run[p].tgt
         /\ run'[p].wanted = run[p].wanted /\ run'[p].clean = FALSE
<1>1. run'[p] = [run[p] EXCEPT !.clean = FALSE] /\ run[p] \in RunType
  BY RunIs DEF Unclean
<1> QED BY <1>1 DEF RunType

LEMMA StartKeeps ==
  ASSUME SyncInv, TypeOK', OneWay, NEW side \in Side, Start(side)
  PROVE  SyncInv'
<1>1. /\ TypeOK /\ app = "down" /\ side \in fit /\ app' = side /\ home' = side /\ "down" \notin Side
      /\ run' = Unclean /\ UNCHANGED <<last, created, fit, high, held, samples, now>>
      /\ \A p \in Runner : run[p].at = "idle" \/ ~Reversed(run[p].cmd)
  BY DEF Start, SyncInv, Side
<1>2. \A s \in Seq : last[side][s] >= high[s]
  BY <1>1 DEF SyncInv, Fits
<1>3. Sides'
  <2>1. \A s \in Seq \ created[side] : high[s] = 0
    <3> TAKE s \in Seq \ created[side]
    <3>1. last[side][s] = 0 /\ last[side][s] >= high[s] /\ high[s] \in Nat
      BY <1>1, <1>2, Values DEF SyncInv, Sides
    <3> QED BY <3>1
  <2> QED BY <1>1, <2>1 DEF SyncInv, Sides
<1>4. Fits' /\ Sampled' /\ Prepared'
  BY <1>1, <1>2 DEF SyncInv, Fits, Sampled, Prepared, Leaving
<1>5. ASSUME NEW p \in Runner PROVE RunOk(run[p])'
  <2> DEFINE r == run[p]
  <2>1. RunOk(r) /\ r.cmd \in Commands
    BY <1>1, Values DEF SyncInv, Runs
  <2>2. /\ run'[p].at = r.at /\ run'[p].cmd = r.cmd /\ run'[p].src = r.src
        /\ run'[p].null = r.null /\ run'[p].has = r.has /\ run'[p].tgt = r.tgt
        /\ run'[p].wanted = r.wanted /\ run'[p].clean = FALSE
    BY <1>1, UncleanIs
  <2>3. Open(run[p])' => Open(r)
    BY <1>1, <2>2 DEF Open
  <2>4. FromRows(r) => FromRows(run[p])'
    BY <1>1, <2>2 DEF FromRows
  <2>5. r.at # "idle" /\ Reads(r) => Reads(run[p])'
    BY <1>1, <2>2 DEF Reads, Leaving
  <2>6. Sure(run[p])' => Sure(r)
    BY <2>2 DEF Sure
  <2>7. /\ AtSource(r) => AtSource(run[p])'
        /\ AtTarget(r) => AtTarget(run[p])'
        /\ AtSet(r) => AtSet(run[p])'
        /\ AtRecord(r) => AtRecord(run[p])'
    BY <1>1, <2>2, <2>3, <2>6 DEF AtSource, AtTarget, AtSet, AtRecord, Ahead, Used, Sure, Open
  <2> QED BY <2>1, <2>2, <2>4, <2>5, <2>7 DEF RunOk
<1> QED BY <1>3, <1>4, <1>5 DEF SyncInv, Runs

\* The local database is restored.
LEMMA RestoreKeeps ==
  ASSUME SyncInv, TypeOK', Restore
  PROVE  SyncInv'
<1>1. /\ TypeOK /\ MayRestore /\ app = "down" /\ home = "local" /\ fit' = fit \ {"local"}
      /\ run' = Unclean /\ UNCHANGED <<created, app, home, held, samples, now>> /\ high' = held
      /\ (\A s \in Seq : high'[s] \in Nat /\ high[s] \in Nat /\ high'[s] <= high[s])
      /\ "rds" \in Side /\ "local" \in Side /\ "down" \notin Side
  <2>1. TypeOK /\ high' = held /\ \A s \in Seq : held[s] <= high[s]
    BY DEF Restore, SyncInv, Sides
  <2> QED BY <2>1, Values DEF Restore, Side
<1>2. PICK z \in Seq : \E v \in 0 .. last["local"][z] : last' = [last EXCEPT !["local"][z] = v]
  BY DEF Restore
<1>3. PICK v \in 0 .. last["local"][z] : last' = [last EXCEPT !["local"] = [last["local"] EXCEPT ![z] = v]]
  BY <1>2
<1>4. /\ last'["rds"] = last["rds"]
      /\ \A s \in Seq : last'["local"][s] \in Nat /\ last'["local"][s] <= last["local"][s]
  <2>1. last'["rds"] = last["rds"] /\ last'["local"] = [last["local"] EXCEPT ![z] = v]
    BY <1>1, <1>3 DEF TypeOK
  <2>2. last["local"] \in [Seq -> 0 .. MaxValue] /\ \A s \in Seq : last["local"][s] \in Nat
    BY <1>1, Values DEF TypeOK
  <2> QED BY <2>1, <2>2
<1>5. Sides'
  BY <1>1, <1>4, Values DEF SyncInv, Sides, Side
<1>6. Fits' /\ Prepared'
  <2>1. \A s \in Seq : last["rds"][s] \in Nat
    BY <1>1, Values
  <2> QED BY <1>1, <1>4, <2>1 DEF SyncInv, Fits, Prepared, Leaving, Side
<1>7. \A c \in Commands : Steady(c) => Source(c) = "rds"
  BY <1>1, CommandIs DEF Steady
<1>8. Sampled'
  BY <1>1, <1>4, <1>7 DEF SyncInv, Sampled
<1>9. ASSUME NEW p \in Runner PROVE RunOk(run[p])'
  <2> DEFINE r == run[p]
  <2>1. RunOk(r) /\ r.cmd \in Commands /\ r.has \subseteq Seq /\ Used(r) \subseteq Seq
        /\ TargetOf(r.cmd) \in Side
        /\ \A s \in Seq : r.tgt[s] \in Nat /\ r.wanted[s] \in Nat
    BY <1>1, Values, CommandIs DEF SyncInv, Runs, Used
  <2>2. /\ run'[p].at = r.at /\ run'[p].cmd = r.cmd /\ run'[p].src = r.src
        /\ run'[p].null = r.null /\ run'[p].has = r.has /\ run'[p].tgt = r.tgt
        /\ run'[p].wanted = r.wanted /\ run'[p].clean = FALSE
    BY <1>1, UncleanIs
  <2>3. ~Open(run[p])' /\ ~Sure(run[p])'
    BY <1>1, <2>2 DEF Open, Sure
  <2>4. FromRows(r) => FromRows(run[p])'
    BY <1>1, <2>2 DEF FromRows
  <2>5. r.at # "idle" /\ Reads(r) => Reads(run[p])'
    BY <1>1, <1>4, <1>7, <2>1, <2>2 DEF Reads, Leaving
  <2>6. \A s \in Seq : /\ last[TargetOf(r.cmd)][s] \in Nat /\ last'[TargetOf(r.cmd)][s] \in Nat
                       /\ last'[TargetOf(r.cmd)][s] <= last[TargetOf(r.cmd)][s]
    BY <1>1, <1>4, <2>1, Values DEF Side
  <2>7. AtTarget(r) => AtTarget(run[p])'
    BY <1>1, <2>1, <2>2, <2>3, <2>6 DEF AtTarget, Ahead, Used, Sure, Open
  <2>8. AtSet(r) => AtSet(run[p])'
    BY <1>1, <2>1, <2>2, <2>3, <2>6 DEF AtSet, Ahead, Used, Sure, Open
  <2>9. AtSource(run[p])' /\ AtRecord(run[p])'
    BY <2>3 DEF AtSource, AtRecord
  <2> QED BY <2>1, <2>2, <2>4, <2>5, <2>7, <2>8, <2>9 DEF RunOk
<1> QED BY <1>5, <1>6, <1>8, <1>9 DEF SyncInv, Runs

\* Time passes: what was far enough ahead still is.
LEMMA TickAhead ==
  ASSUME SyncInv, NEW c \in Commands, NEW s \in Seq, NEW v \in Nat, NEW level \in Nat,
         Steady(c) => \A x \in samples : x.reverse = Reversed(c) /\ x.seq = s => x.val <= v,
         Ahead(level, c, s, v)
  PROVE  level >= v + Gap(samples, now + 1, c, s, v)
<1>1. TypeOK /\ \A x \in samples : x.at <= now
  BY DEF SyncInv, Sampled
<1>2. Gap(samples, now + 1, c, s, v) <= Gap(samples, now, c, s, v)
  BY <1>1, GapShrinks
<1>3. Gap(samples, now + 1, c, s, v) \in Nat /\ Gap(samples, now, c, s, v) \in Nat
  <2>1. now + 1 \in Nat /\ now \in Nat
    BY <1>1, Numbers DEF TypeOK
  <2>2. samples \subseteq [reverse : BOOLEAN, seq : Seq, at : 0 .. MaxTime, val : 1 .. MaxValue]
    BY <1>1 DEF TypeOK
  <2> QED BY <2>1, <2>2, GapIs
<1> QED BY <1>2, <1>3 DEF Ahead

LEMMA TickKeeps ==
  ASSUME SyncInv, TypeOK', Tick
  PROVE  SyncInv'
<1>1. TypeOK /\ now' = now + 1 /\ now \in Nat
      /\ UNCHANGED <<last, created, app, home, fit, high, held, samples, run>>
  BY Numbers DEF Tick, SyncInv, TypeOK
<1>2. Sides' /\ Fits'
  BY <1>1 DEF SyncInv, Sides, Fits
<1>3. Sampled'
  <2>1. \A x \in samples : x.at \in Nat /\ x.at <= now
    BY <1>1, Numbers DEF SyncInv, Sampled, TypeOK
  <2> QED BY <1>1, <2>1 DEF SyncInv, Sampled
<1>4. Prepared'
  <2>1. SUFFICES ASSUME Leaving, NEW s \in Seq, last["rds"][s] # 0
                 PROVE  last["local"][s] >= last["rds"][s] + Gap(samples, now + 1, "final", s, last["rds"][s])
    BY <1>1 DEF Prepared, Leaving, Ahead
  <2>2. /\ Ahead(last["local"][s], "final", s, last["rds"][s])
        /\ last["local"][s] \in Nat /\ last["rds"][s] \in Nat
    BY <1>1, <2>1, Values DEF SyncInv, Prepared
  <2>3. /\ "final" \in Commands \ {"from-data"} /\ ~Reversed("final") /\ Steady("final")
        /\ Source("final") = "rds"
    BY DEF Commands, Reversed, Steady, Source
  <2>4. \A x \in samples : x.reverse = Reversed("final") /\ x.seq = s => x.val <= last["rds"][s]
    BY <2>3 DEF SyncInv, Sampled
  <2> QED BY <2>2, <2>3, <2>4, TickAhead
<1>5. ASSUME NEW p \in Runner PROVE RunOk(run[p])'
  <2> DEFINE r == run[p]
  <2>1. /\ RunOk(r) /\ r.cmd \in Commands /\ r.has \subseteq Seq /\ Used(r) \subseteq Seq
        /\ TargetOf(r.cmd) \in Side
        /\ \A s \in Seq : r.src[s] \in Nat /\ r.tgt[s] \in Nat /\ r.wanted[s] \in Nat
        /\ \A s \in Seq : last[TargetOf(r.cmd)][s] \in Nat /\ last["local"][s] \in Nat
    BY <1>1, Values, CommandIs DEF SyncInv, Runs, Used
  <2>2. FromRows(r) => FromRows(run[p])'
    BY <1>1 DEF FromRows
  <2>3. Reads(r) => Reads(run[p])'
    BY <1>1 DEF Reads, Leaving
  <2>4. ASSUME Reads(r), NEW s \in Seq, r.src[s] # 0, NEW level \in Nat, Ahead(level, r.cmd, s, r.src[s])
        PROVE  level >= r.src[s] + Gap(samples, now', r.cmd, s, r.src[s])
    BY <1>1, <2>1, <2>4, TickAhead DEF Reads
  <2>5. Reads(r) /\ AtSource(r) => AtSource(run[p])'
    BY <1>1, <2>1, <2>4 DEF AtSource, Open, Ahead
  <2>6. Reads(r) /\ AtTarget(r) => AtTarget(run[p])'
    <3> SUFFICES ASSUME Reads(r), AtTarget(r), NEW s \in Used(r)
                 PROVE  (/\ Sure(r) => last[TargetOf(r.cmd)][s] >= r.tgt[s]
                         /\ \/ ~Open(r) /\ r.tgt[s] >= last[TargetOf(r.cmd)][s]
                            \/ ~Reversed(r.cmd) /\ r.tgt[s] >= r.src[s] + Gap(samples, now', r.cmd, s, r.src[s]))
      BY <1>1 DEF AtTarget, Used, Sure, Open, Ahead
    <3> QED BY <2>1, <2>4 DEF AtTarget, Used
  <2>7. Reads(r) /\ AtSet(r) => AtSet(run[p])'
    <3> SUFFICES ASSUME Reads(r), AtSet(r), NEW s \in Used(r)
                 PROVE  IF r.wanted[s] # 0 THEN r.wanted[s] >= r.src[s] + Gap(samples, now', r.cmd, s, r.src[s])
                        ELSE Sure(r) => last[TargetOf(r.cmd)][s]
                                          >= r.src[s] + Gap(samples, now', r.cmd, s, r.src[s])
      BY <1>1 DEF AtSet, Used, Sure, Open, Ahead
    <3> QED BY <2>1, <2>4 DEF AtSet, Used
  <2>8. Reads(r) /\ AtRecord(r) => AtRecord(run[p])'
    <3> SUFFICES ASSUME Reads(r), AtRecord(r), Sure(r), NEW s \in Used(r)
                 PROVE  last[TargetOf(r.cmd)][s] >= r.src[s] + Gap(samples, now', r.cmd, s, r.src[s])
      BY <1>1 DEF AtRecord, Used, Sure, Ahead
    <3> QED BY <2>1, <2>4 DEF AtRecord, Used
  <2>9. r.at \in {"source", "target"} => r.cmd # "from-data"
    BY <2>1 DEF RunOk, FromRows
  <2> QED BY <1>1, <2>1, <2>2, <2>3, <2>5, <2>6, <2>7, <2>8, <2>9 DEF RunOk
<1> QED BY <1>2, <1>3, <1>4, <1>5 DEF SyncInv, Runs

-----------------------------------------------------------------------------
(* The steps of a run.                                                     *)

\* A step of a run that only reads.
LEMMA ReadKeeps ==
  ASSUME SyncInv, TypeOK', UNCHANGED <<last, created, app, home, fit, high, held, samples, now>>,
         \A p \in Runner : RunOk(run[p])'
  PROVE  SyncInv'
<1>1. Sides' /\ Fits' /\ Sampled' /\ Prepared'
  BY DEF SyncInv, Sides, Fits, Sampled, Prepared, Leaving, Ahead
<1> QED BY <1>1 DEF SyncInv, Runs

LEMMA ReadSourceKeeps ==
  ASSUME SyncInv, TypeOK', OneWay, OneRun, NEW p \in Runner, NEW c \in Command, ReadSource(p, c)
  PROVE  SyncInv'
<1>1. /\ UNCHANGED <<last, created, app, home, fit, high, held, samples, now>>
      /\ c # "from-data" /\ Source(c) = home /\ c \in Commands /\ TypeOK
  BY Numbers DEF ReadSource, Allowed, SyncInv
<1>2. ASSUME NEW q \in Runner PROVE RunOk(run[q])'
  <2>1. q = p
    BY OneRun DEF OneRun
  <2>2. /\ run'[q].at = "source" /\ run'[q].cmd = c /\ run'[q].has = {}
        /\ run'[q].clean = (app = "down" /\ Source(c) \in fit)
        /\ run'[q].null = Hidden(c) \cap created[Source(c)]
        /\ run'[q].src = [s \in Seq |-> IF s \in Hidden(c) THEN 0 ELSE last[Source(c)][s]]
    BY <2>1, <1>1, RunIs DEF ReadSource, NoRun
  <2>3. \A s \in Seq : run'[q].src[s] = IF s \in Hidden(c) THEN 0 ELSE last[Source(c)][s]
    BY <2>2
  <2>4. Source(c) \in Side /\ \A s \in Seq : last[Source(c)][s] \in Nat /\ high[s] \in Nat
                                  /\ last["local"][s] \in Nat
    BY <1>1, CommandIs, Values
  <2>5. Reads(run[q])'
    <3>1. Reversed(c) => home = "local"
      BY <1>1, CommandIs
    <3>2. Leaving /\ ~Reversed(c) => run'[q].clean
      BY <1>1, <2>2, CommandIs DEF Leaving, SyncInv, Fits
    <3>3. \A s \in run'[q].null : run'[q].src[s] = 0
      BY <1>1, <2>2, <2>3, <2>4 DEF TypeOK
    <3>4. ASSUME run'[q].clean, NEW s \in Seq \ run'[q].null
          PROVE  run'[q].src[s] = last[Source(c)][s] /\ high[s] <= run'[q].src[s]
      <4>1. last[Source(c)][s] >= high[s]
        BY <2>2, <2>4, <3>4 DEF SyncInv, Fits
      <4>2. run'[q].src[s] = last[Source(c)][s]
        BY <2>2, <2>3, <2>4, <3>4 DEF SyncInv, Sides
      <4> QED BY <4>1, <4>2
    <3>5. ASSUME Steady(c), NEW s \in Seq
          PROVE  /\ run'[q].src[s] <= last[Source(c)][s]
                 /\ run'[q].src[s] # 0 => \A x \in samples :
                      x.reverse = Reversed(c) /\ x.seq = s => x.val <= run'[q].src[s]
      BY <1>1, <2>3, <2>4, <3>5 DEF SyncInv, Sampled
    <3> QED BY <1>1, <2>2, <3>1, <3>2, <3>3, <3>4, <3>5 DEF Reads, Leaving
  <2>6. AtSource(run[q])'
    <3>1. SUFFICES ASSUME ~Reversed(c), app = "local" \/ (app = "down" /\ "local" \in fit),
                          NEW s \in Seq, run'[q].src[s] # 0
                   PROVE  last["local"][s] >= run'[q].src[s] + Gap(samples, now, c, s, run'[q].src[s])
      BY <1>1, <2>2 DEF AtSource, Open, Ahead
    <3>2. home = "rds" /\ Leaving
      BY <1>1, <3>1, CommandIs DEF Leaving, SyncInv, Sides
    <3>3. PICK v \in Nat : v = run'[q].src[s]
      BY <2>3, <2>4
    <3>4. v = last["rds"][s] /\ v # 0
      BY <1>1, <2>3, <3>1, <3>2, <3>3
    <3>5. last["local"][s] >= v + Gap(samples, now, "final", s, v)
      BY <3>2, <3>4 DEF SyncInv, Prepared, Ahead
    <3>6. Reversed(c) = Reversed("final") /\ FloorOf(c) <= FloorOf("final")
      BY <3>1, Numbers DEF Reversed, FloorOf, Final
    <3>7. Gap(samples, now, c, s, v) <= Gap(samples, now, "final", s, v)
      BY <1>1, <3>6, GapOfFinal
    <3>8. Gap(samples, now, c, s, v) \in Nat /\ Gap(samples, now, "final", s, v) \in Nat
      BY <1>1, Values
    <3> QED BY <2>4, <3>3, <3>5, <3>7, <3>8
  <2> QED BY <1>1, <2>2, <2>5, <2>6 DEF RunOk
<1> QED BY <1>1, <1>2, ReadKeeps

LEMMA ReadTargetKeeps ==
  ASSUME SyncInv, TypeOK', OneRun, NEW p \in Runner, ReadTarget(p)
  PROVE  SyncInv'
<1>1. /\ UNCHANGED <<last, created, app, home, fit, high, held, samples, now>> /\ TypeOK
  BY DEF ReadTarget, SyncInv
<1>2. ASSUME NEW q \in Runner PROVE RunOk(run[q])'
  <2> DEFINE r == run[q]
  <2>1. q = p /\ RunOk(r) /\ r.at = "source" /\ r.cmd \in Commands
    BY <1>1, OneRun, Values DEF OneRun, ReadTarget, SyncInv, Runs
  <2>2. r.cmd # "from-data" /\ Reads(r) /\ AtSource(r)
    BY <2>1 DEF RunOk, FromRows
  <2>3. /\ run'[q].at = "target" /\ run'[q].cmd = r.cmd /\ run'[q].src = r.src
        /\ run'[q].null = r.null /\ run'[q].clean = r.clean
        /\ run'[q].has = created[TargetOf(r.cmd)] /\ run'[q].tgt = last[TargetOf(r.cmd)]
    BY <1>1, <2>1, RunIs DEF ReadTarget, RunType
  <2>4. TargetOf(r.cmd) \in Side /\ created[TargetOf(r.cmd)] \subseteq Seq
        /\ \A s \in Seq : last[TargetOf(r.cmd)][s] \in Nat
    BY <1>1, <2>1, CommandIs, Values DEF TypeOK
  <2>5. Reads(run[q])'
    BY <1>1, <2>2, <2>3 DEF Reads, Leaving
  <2>6. AtTarget(run[q])'
    <3>1. Open(r) => ~Reversed(r.cmd) /\ TargetOf(r.cmd) = "local"
      BY <2>1, CommandIs DEF Open
    <3> QED BY <1>1, <2>2, <2>3, <2>4, <3>1 DEF AtTarget, AtSource, Ahead, Used, Sure, Open
  <2> QED BY <2>2, <2>3, <2>5, <2>6 DEF RunOk
<1> QED BY <1>1, <1>2, ReadKeeps

LEMMA ComputeKeeps ==
  ASSUME SyncInv, TypeOK', OneRun, NEW p \in Runner, Compute(p)
  PROVE  SyncInv'
<1>1. /\ UNCHANGED <<last, created, app, home, fit, high, held, samples, now>> /\ TypeOK
  BY DEF Compute, SyncInv
<1>2. ASSUME NEW q \in Runner PROVE RunOk(run[q])'
  <2> DEFINE r == run[q]
             t == TargetOf(r.cmd)
  <2>1. q = p /\ RunOk(r) /\ r.at = "target" /\ r.cmd \in Commands
    BY <1>1, OneRun, Values DEF OneRun, Compute, SyncInv, Runs
  <2>2. r.cmd # "from-data" /\ Reads(r) /\ AtTarget(r)
    BY <2>1 DEF RunOk, FromRows
  <2>3. /\ run'[q].at = "set" /\ run'[q].cmd = r.cmd /\ run'[q].src = r.src
        /\ run'[q].null = r.null /\ run'[q].clean = r.clean
        /\ run'[q].has = r.has /\ run'[q].tgt = r.tgt
        /\ run'[q].wanted = [s \in Seq |-> Wanted(r, s)]
    BY <1>1, <2>1, RunIs DEF Compute, RunType
  <2>4. Reads(run[q])'
    BY <1>1, <2>2, <2>3 DEF Reads, Leaving
  <2>5. ASSUME NEW s \in Seq, Wanted(r, s) # 0
        PROVE  /\ s \in Used(r) /\ ~Open(r) /\ Wanted(r, s) >= last[t][s]
               /\ Ahead(Wanted(r, s), r.cmd, s, r.src[s])
    <3>1. /\ r.src[s] # 0 /\ s \in r.has /\ ~(r.tgt[s] >= Wanted(r, s))
          /\ Wanted(r, s) = r.src[s] + Margin(r.cmd, s, r.src[s])
      BY <2>5 DEF Wanted
    <3>2. /\ r.src[s] \in Nat /\ r.tgt[s] \in Nat /\ last[t][s] \in Nat
      BY <1>1, <2>1, Values, CommandIs
    <3>3. /\ Margin(r.cmd, s, r.src[s]) \in Nat /\ Gap(samples, now, r.cmd, s, r.src[s]) \in Nat
          /\ Gap(samples, now, r.cmd, s, r.src[s]) <= Margin(r.cmd, s, r.src[s])
          /\ (Steady(r.cmd) => Gap(samples, now, r.cmd, s, r.src[s]) = Margin(r.cmd, s, r.src[s]))
      BY <1>1, <3>2, MarginNat
    <3>4. ~(~Reversed(r.cmd) /\ Ahead(r.tgt[s], r.cmd, s, r.src[s]))
      BY <3>1, <3>2, <3>3 DEF Steady, Ahead
    <3>5. s \in Used(r)
      BY <3>1 DEF Used
    <3>6. ~Open(r) /\ r.tgt[s] >= last[t][s]
      BY <2>2, <3>4, <3>5 DEF AtTarget
    <3> QED BY <3>1, <3>2, <3>3, <3>5, <3>6 DEF Ahead
  <2>6. ASSUME NEW s \in Used(r), Wanted(r, s) = 0, Sure(r)
        PROVE  Ahead(last[t][s], r.cmd, s, r.src[s])
    <3>1. s \in Seq /\ r.src[s] # 0 /\ s \in r.has /\ last[t][s] >= r.tgt[s]
      BY <1>1, <2>1, <2>2, <2>6, Values DEF AtTarget, Used
    <3>2. /\ r.src[s] \in Nat /\ r.tgt[s] \in Nat /\ last[t][s] \in Nat
      BY <1>1, <2>1, <3>1, Values, CommandIs
    <3>3. /\ Margin(r.cmd, s, r.src[s]) \in Nat /\ Gap(samples, now, r.cmd, s, r.src[s]) \in Nat
          /\ Gap(samples, now, r.cmd, s, r.src[s]) <= Margin(r.cmd, s, r.src[s])
      BY <1>1, <3>2, MarginNat
    <3>4. r.tgt[s] >= r.src[s] + Margin(r.cmd, s, r.src[s])
      BY <2>6, <3>1, <3>2, <3>3 DEF Wanted
    <3> QED BY <3>1, <3>2, <3>3, <3>4 DEF Ahead
  <2>7. r.has \subseteq Seq
    BY <1>1, Values
  <2>8. AtSet(run[q])'
    <3>1. \A s \in Seq : run'[q].wanted[s] = Wanted(r, s)
      BY <2>3
    <3>2. run'[q].src = r.src /\ run'[q].has = r.has /\ run'[q].cmd = r.cmd /\ run'[q].clean = r.clean
      BY <2>3
    <3> HIDE DEF r, t
    <3> QED BY <1>1, <2>5, <2>6, <2>7, <3>1, <3>2 DEF AtSet, Used, Sure, Open, Ahead, t
  <2> QED BY <2>2, <2>3, <2>4, <2>8 DEF RunOk
<1> QED BY <1>1, <1>2, ReadKeeps

\* What a run sets it raises, on its target only.
LEMMA MovedGrows ==
  ASSUME SyncInv, NEW p \in Runner, run[p].at = "set", NEW done \in SUBSET Statements(run[p]),
         \A s \in done : run[p].wanted[s] <= MaxValue, last' = Moved(run[p], done)
  PROVE  /\ \A side \in Side \ {TargetOf(run[p].cmd)} : last'[side] = last[side]
         /\ \A side \in Side : \A s \in Seq :
              /\ last'[side][s] \in Nat /\ last'[side][s] >= last[side][s]
              /\ last'[side][s] # last[side][s] => s \in created[side]
         /\ \A s \in done : last'[TargetOf(run[p].cmd)][s] >= run[p].wanted[s]
         /\ \A s \in Seq \ done : last'[TargetOf(run[p].cmd)][s] = last[TargetOf(run[p].cmd)][s]
<1> DEFINE r == run[p]
           t == TargetOf(r.cmd)
<1>1. /\ TypeOK /\ RunOk(r) /\ r.cmd \in Commands /\ t \in Side /\ done \subseteq Seq
      /\ \A s \in Seq : r.wanted[s] \in Nat /\ last[t][s] \in Nat
      /\ \A side \in Side : \A s \in Seq : last[side][s] \in Nat
  BY Values, CommandIs DEF SyncInv, Runs, Statements
<1>2. /\ \A side \in Side \ {t} : last'[side] = last[side]
      /\ \A s \in Seq \ done : last'[t][s] = last[t][s]
      /\ \A s \in done : last'[t][s] = IF r.cmd # "from-data" \/ last[t][s] < r.wanted[s]
                                       THEN r.wanted[s] ELSE last[t][s]
  BY <1>1, MovedIs
<1>3. \A s \in done : (r.cmd # "from-data" => r.wanted[s] >= last[t][s]) /\ s \in created[t]
  <2> TAKE s \in done
  <2>1. r.wanted[s] # 0 /\ s \in Seq
    BY <1>1 DEF Statements
  <2>2. CASE r.cmd = "from-data"
    <3>1. t = "local"
      BY <2>2 DEF TargetOf, Reversed
    <3> QED BY <1>1, <2>1, <2>2, <3>1 DEF RunOk, FromRows
  <2>3. CASE r.cmd # "from-data"
    <3>1. AtSet(r) /\ Reads(r)
      BY <1>1, <2>3 DEF RunOk
    <3> QED BY <2>1, <3>1 DEF AtSet, Reads, Used
  <2> QED BY <2>2, <2>3
<1>4. \A s \in done : last'[t][s] \in Nat /\ last'[t][s] >= last[t][s] /\ last'[t][s] >= r.wanted[s]
  BY <1>1, <1>2, <1>3
<1> HIDE DEF r, t
<1>5. \A side \in Side : \A s \in Seq :
        /\ last'[side][s] \in Nat /\ last'[side][s] >= last[side][s]
        /\ last'[side][s] # last[side][s] => s \in created[side]
  BY <1>1, <1>2, <1>3, <1>4
<1> QED BY <1>2, <1>4, <1>5 DEF r, t

LEMMA MovedKeeps ==
  ASSUME SyncInv, NEW p \in Runner, run[p].at = "set",
         \A side \in Side \ {TargetOf(run[p].cmd)} : last'[side] = last[side],
         \A side \in Side : \A s \in Seq :
              /\ last'[side][s] \in Nat /\ last'[side][s] >= last[side][s]
              /\ last'[side][s] # last[side][s] => s \in created[side],
         UNCHANGED <<created, app, home, fit, high, held, samples, now>>
  PROVE  Sides' /\ Fits' /\ Sampled' /\ Prepared'
<1>1. /\ TypeOK /\ RunOk(run[p]) /\ run[p].cmd \in Commands
      /\ \A side \in Side : \A s \in Seq : last[side][s] \in Nat
      /\ \A s \in Seq : high[s] \in Nat
  BY Values DEF SyncInv, Runs
<1>2. Sides'
  BY <1>1 DEF SyncInv, Sides
<1>3. Fits'
  BY <1>1 DEF SyncInv, Fits
<1>4. Sampled'
  <2>1. ASSUME NEW x \in samples, NEW c \in Commands \ {"from-data"}, Steady(c), Reversed(c) = x.reverse
        PROVE  x.val <= last'[Source(c)][x.seq]
    <3>1. x.val <= last[Source(c)][x.seq] /\ x.seq \in Seq /\ x.val \in Nat /\ Source(c) \in Side
      BY <1>1, <2>1, Numbers, CommandIs DEF SyncInv, Sampled, TypeOK
    <3> QED BY <1>1, <3>1
  <2> QED BY <2>1 DEF SyncInv, Sampled
<1>5. Prepared'
  <2>1. SUFFICES ASSUME Leaving, NEW s \in Seq, last'["rds"][s] # 0
                 PROVE  last'["local"][s] >= last'["rds"][s] + Gap(samples, now, "final", s, last'["rds"][s])
    BY DEF Prepared, Leaving, Ahead
  <2>2. TargetOf(run[p].cmd) = "local"
    <3>1. ~Reversed(run[p].cmd)
      BY <1>1, <2>1 DEF RunOk, Reads, Leaving, Reversed
    <3> QED BY <1>1, <3>1, CommandIs
  <2>3. last'["rds"] = last["rds"] /\ "rds" \in Side /\ "local" \in Side
    BY <2>2 DEF Side
  <2>4. last["local"][s] >= last["rds"][s] + Gap(samples, now, "final", s, last["rds"][s])
    BY <2>1, <2>3 DEF SyncInv, Prepared, Ahead
  <2>5. Gap(samples, now, "final", s, last["rds"][s]) \in Nat
    BY <1>1, <2>3, Values
  <2>6. last'["local"][s] \in Nat /\ last'["local"][s] >= last["local"][s] /\ last["rds"][s] \in Nat
    BY <1>1, <2>3
  <2> QED BY <1>1, <2>3, <2>4, <2>5, <2>6
<1> QED BY <1>2, <1>3, <1>4, <1>5

\* No run at all.
LEMMA IdleOk ==
  ASSUME OneRun, NEW p \in Runner, run'[p] = NoRun
  PROVE  \A q \in Runner : RunOk(run[q])'
<1> TAKE q \in Runner
<1>1. q = p
  BY OneRun DEF OneRun
<1>2. run'[q].at = "idle"
  BY <1>1, NoRunIs
<1> QED BY <1>2 DEF RunOk

LEMMA SetPartKeeps ==
  ASSUME SyncInv, TypeOK', OneRun, NEW p \in Runner, SetPart(p)
  PROVE  SyncInv'
<1>1. PICK done \in SUBSET {s \in Statements(run[p]) : run[p].wanted[s] <= MaxValue} :
        last' = Moved(run[p], done)
  BY DEF SetPart
<1>2. /\ UNCHANGED <<created, app, home, fit, high, held, samples, now>> /\ run[p].at = "set"
      /\ run'[p] = NoRun
  BY RunIs DEF SetPart, SyncInv
<1>3. done \in SUBSET Statements(run[p]) /\ \A s \in done : run[p].wanted[s] <= MaxValue
  BY <1>1
<1>4. Sides' /\ Fits' /\ Sampled' /\ Prepared'
  BY <1>1, <1>2, <1>3, MovedGrows, MovedKeeps
<1> QED BY <1>2, <1>4, IdleOk DEF SyncInv, Runs

LEMMA SetAllKeeps ==
  ASSUME SyncInv, TypeOK', OneRun, NEW p \in Runner, SetAll(p)
  PROVE  SyncInv'
<1>1. /\ UNCHANGED <<created, app, home, fit, high, held, samples, now>> /\ run[p].at = "set"
      /\ \A s \in Statements(run[p]) : run[p].wanted[s] <= MaxValue
      /\ last' = Moved(run[p], Statements(run[p])) /\ TypeOK
  BY DEF SetAll, SyncInv
<1>2. /\ \A side \in Side \ {TargetOf(run[p].cmd)} : last'[side] = last[side]
      /\ \A side \in Side : \A s \in Seq :
           /\ last'[side][s] \in Nat /\ last'[side][s] >= last[side][s]
           /\ last'[side][s] # last[side][s] => s \in created[side]
      /\ \A s \in Statements(run[p]) : last'[TargetOf(run[p].cmd)][s] >= run[p].wanted[s]
      /\ \A s \in Seq \ Statements(run[p]) :
           last'[TargetOf(run[p].cmd)][s] = last[TargetOf(run[p].cmd)][s]
  BY <1>1, MovedGrows
<1>3. Sides' /\ Fits' /\ Sampled' /\ Prepared'
  BY <1>1, <1>2, MovedKeeps
<1>4. ASSUME NEW q \in Runner PROVE RunOk(run[q])'
  <2> DEFINE r == run[q]
             t == TargetOf(r.cmd)
  <2>1. /\ q = p /\ RunOk(r) /\ r.at = "set" /\ r.cmd \in Commands /\ t \in Side
        /\ \A s \in Seq : r.wanted[s] \in Nat /\ r.src[s] \in Nat /\ high[s] \in Nat
                          /\ last[t][s] \in Nat /\ Gap(samples, now, r.cmd, s, r.src[s]) \in Nat
        /\ r.has \subseteq Seq
    BY <1>1, OneRun, Values, CommandIs DEF OneRun, SyncInv, Runs
  <2>2. /\ run'[q].at = "record" /\ run'[q].cmd = r.cmd /\ run'[q].src = r.src
        /\ run'[q].null = r.null /\ run'[q].clean = r.clean
        /\ run'[q].has = r.has /\ run'[q].tgt = r.tgt /\ run'[q].wanted = r.wanted
    <3>1. run'[q] = [r EXCEPT !.at = "record"]
      BY <1>1, <2>1, RunIs DEF SetAll, Go
    <3> QED BY <1>1, <3>1, RunIs DEF RunType
  <2>3. CASE r.cmd = "from-data"
    <3>1. t = "local" /\ FromRows(r)
      BY <2>1, <2>3 DEF TargetOf, Reversed, RunOk
    <3>2. ASSUME r.clean, NEW s \in Seq PROVE high[s] = 0 \/ last'["local"][s] >= high[s]
      <4>1. CASE s \in Statements(run[p])
        <5>1. last'["local"][s] >= r.wanted[s] /\ last'["local"][s] >= last["local"][s]
              /\ last'["local"][s] \in Nat
          BY <1>2, <2>1, <3>1, <4>1
        <5> QED BY <2>1, <3>1, <3>2, <5>1 DEF FromRows
      <4>2. CASE s \notin Statements(run[p])
        <5>1. last'["local"][s] = last["local"][s] /\ r.wanted[s] = 0
          BY <1>2, <2>1, <3>1, <4>2 DEF Statements
        <5> QED BY <2>1, <3>1, <3>2, <5>1 DEF FromRows
      <4> QED BY <4>1, <4>2
    <3>3. FromRows(run[q])'
      BY <1>1, <2>2, <3>1, <3>2 DEF FromRows
    <3> QED BY <2>2, <2>3, <3>3 DEF RunOk
  <2>4. CASE r.cmd # "from-data"
    <3>1. Reads(r) /\ AtSet(r)
      BY <2>1, <2>4 DEF RunOk
    <3>2. /\ Source(r.cmd) \in Side \ {t}
          /\ last'[Source(r.cmd)] = last[Source(r.cmd)]
      BY <1>2, <2>1, CommandIs DEF Side
    <3>3. Reads(run[q])'
      BY <1>1, <2>2, <3>1, <3>2 DEF Reads, Leaving
    <3>4. ASSUME Sure(r), NEW s \in Used(r)
          PROVE  last'[t][s] >= r.src[s] + Gap(samples, now, r.cmd, s, r.src[s])
      <4>1. s \in Seq /\ last'[t][s] \in Nat /\ last[t][s] \in Nat /\ r.wanted[s] \in Nat
            /\ r.src[s] + Gap(samples, now, r.cmd, s, r.src[s]) \in Nat
        BY <1>2, <2>1, <3>4 DEF Used
      <4>2. CASE r.wanted[s] # 0
        <5>1. last'[t][s] >= r.wanted[s]
          BY <1>2, <2>1, <4>1, <4>2 DEF Statements
        <5> QED BY <3>1, <3>4, <4>1, <4>2, <5>1 DEF AtSet, Ahead
      <4>3. CASE r.wanted[s] = 0
        BY <1>2, <2>1, <3>1, <3>4, <4>1, <4>3 DEF AtSet, Ahead, Statements
      <4> QED BY <4>2, <4>3
    <3>5. AtRecord(run[q])'
      BY <1>1, <2>2, <3>4 DEF AtRecord, Sure, Used, Ahead
    <3> QED BY <2>2, <2>4, <3>3, <3>5 DEF RunOk
  <2> QED BY <2>3, <2>4
<1> QED BY <1>3, <1>4 DEF SyncInv, Runs

LEMMA DieKeeps ==
  ASSUME SyncInv, TypeOK', OneRun, NEW p \in Runner, Die(p)
  PROVE  SyncInv'
<1>1. /\ UNCHANGED <<last, created, app, home, fit, high, held, samples, now>> /\ run'[p] = NoRun
  BY RunIs DEF Die, SyncInv
<1> QED BY <1>1, IdleOk, ReadKeeps

LEMMA FromDataKeeps ==
  ASSUME SyncInv, TypeOK', OneRun, NEW p \in Runner, FromData(p)
  PROVE  SyncInv'
<1>1. /\ UNCHANGED <<last, created, app, home, fit, high, held, samples, now>> /\ TypeOK
  BY DEF FromData, SyncInv
<1>2. ASSUME NEW q \in Runner PROVE RunOk(run[q])'
  <2>1. q = p
    BY OneRun DEF OneRun
  <2>2. PICK top \in [Owned -> 0 .. MaxValue] :
          /\ \A s \in Owned : IF home = "local" THEN top[s] = held[s] ELSE top[s] <= high[s]
          /\ run' = [run EXCEPT ![p] =
               [NoRun EXCEPT !.at = "set", !.cmd = "from-data",
                  !.clean = (app = "down" /\ home = "local"),
                  !.wanted = [s \in Seq |-> IF s \in Owned \cap created["local"] /\ top[s] # 0
                                            THEN top[s] + Floor ELSE 0]]]
    BY DEF FromData
  <2>3. /\ run'[q].at = "set" /\ run'[q].cmd = "from-data"
        /\ run'[q].clean = (app = "down" /\ home = "local")
        /\ run'[q].wanted = [s \in Seq |-> IF s \in Owned \cap created["local"] /\ top[s] # 0
                                           THEN top[s] + Floor ELSE 0]
    BY <1>1, <2>1, <2>2, RunIs DEF NoRun
  <2>4. \A s \in Seq : run'[q].wanted[s] # 0 => s \in created["local"]
    BY <2>3
  <2>5. ASSUME app = "down", home = "local", NEW s \in Seq
        PROVE  high[s] = 0 \/ run'[q].wanted[s] >= high[s] \/ last["local"][s] >= high[s]
    <3>1. CASE "local" \in fit
      BY <1>1, <2>5, <3>1, Values DEF SyncInv, Fits
    <3>2. CASE "local" \notin fit
      <4>1. /\ high[s] <= held[s] /\ high[s] \in Nat /\ held[s] \in Nat
            /\ s \notin created["local"] => high[s] = 0
            /\ s \notin Owned => held[s] = 0
        BY <1>1, <2>5, <3>2, Values DEF SyncInv, Sides
      <4>2. s \in Owned => top[s] = held[s]
        BY <2>2, <2>5
      <4> QED BY <2>3, <4>1, <4>2, Numbers
    <3> QED BY <3>1, <3>2
  <2>6. FromRows(run[q])'
    BY <1>1, <2>3, <2>4, <2>5 DEF FromRows
  <2> QED BY <2>3, <2>6 DEF RunOk
<1> QED BY <1>1, <1>2, ReadKeeps

\* The samples are stored, and the target may fit.
LEMMA RecordIs ==
  ASSUME SyncInv, NEW p \in Runner, Record(p)
  PROVE  /\ TypeOK /\ run[p].at = "record" /\ RunOk(run[p]) /\ run[p].cmd \in Commands
         /\ samples' = After(run[p]) /\ run'[p] = NoRun
         /\ UNCHANGED <<last, created, app, home, high, held, now>>
         /\ fit' = fit \/ (/\ fit' = fit \cup {TargetOf(run[p].cmd)} /\ run[p].clean
                           /\ run[p].cmd = "from-data" \/ (Final(run[p].cmd) /\ Failed(run[p]) = {}))
<1>1. TypeOK /\ RunOk(run[p]) /\ run[p].cmd \in Commands
  BY Values DEF SyncInv, Runs
<1>2. samples' = After(run[p])
  BY DEF Record, After, Stored, Used
<1>3. run'[p] = NoRun
  BY <1>1, RunIs DEF Record
<1> QED BY <1>1, <1>2, <1>3 DEF Record

LEMMA RecordFits ==
  ASSUME SyncInv, NEW p \in Runner, Record(p)
  PROVE  Fits'
<1> DEFINE r == run[p]
           t == TargetOf(r.cmd)
<1>1. /\ TypeOK /\ r.at = "record" /\ RunOk(r) /\ r.cmd \in Commands
      /\ UNCHANGED <<last, created, app, home, high, held, now>>
      /\ fit' = fit \/ (/\ fit' = fit \cup {t} /\ r.clean
                        /\ r.cmd = "from-data" \/ (Final(r.cmd) /\ Failed(r) = {}))
  BY RecordIs
<1>2. \A s \in Seq : /\ high[s] \in Nat /\ last[t][s] \in Nat /\ r.src[s] \in Nat
                     /\ Gap(samples, now, r.cmd, s, r.src[s]) \in Nat
  BY <1>1, Values, CommandIs
<1>3. CASE fit' = fit
  BY <1>1, <1>3 DEF SyncInv, Fits
<1>4. CASE r.clean /\ r.cmd = "from-data"
  <2>1. t = "local"
    BY <1>4 DEF TargetOf, Reversed
  <2>2. \A s \in Seq : last[t][s] >= high[s]
    BY <1>1, <1>2, <1>4, <2>1 DEF RunOk, FromRows
  <2> QED BY <1>1, <2>2 DEF SyncInv, Fits
<1>5. CASE r.clean /\ r.cmd # "from-data" /\ Failed(r) = {}
  <2>1. Reads(r) /\ AtRecord(r)
    BY <1>1, <1>5 DEF RunOk
  <2>2. ASSUME NEW s \in Seq PROVE last[t][s] >= high[s]
    <3>1. s \notin r.null /\ high[s] <= r.src[s] /\ (s \in r.has \/ r.src[s] = 0)
      BY <1>5, <2>1 DEF Failed, Reads
    <3>2. CASE r.src[s] = 0
      BY <1>2, <3>1, <3>2
    <3>3. CASE r.src[s] # 0
      <4>1. s \in Used(r) /\ Sure(r)
        BY <1>5, <3>1, <3>3 DEF Used, Sure
      <4>2. last[t][s] >= r.src[s] + Gap(samples, now, r.cmd, s, r.src[s])
        BY <2>1, <4>1 DEF AtRecord, Ahead
      <4> QED BY <1>2, <3>1, <4>2
    <3> QED BY <3>2, <3>3
  <2> QED BY <1>1, <2>2 DEF SyncInv, Fits
<1> QED BY <1>1, <1>3, <1>4, <1>5

LEMMA RecordSampled ==
  ASSUME SyncInv, NEW p \in Runner, Record(p)
  PROVE  Sampled'
<1> DEFINE r == run[p]
<1>1. /\ TypeOK /\ r.at = "record" /\ RunOk(r) /\ r.cmd \in Commands
      /\ UNCHANGED <<last, created, app, home, high, held, now>> /\ samples' = After(r)
  BY RecordIs
<1>2. CASE r.cmd = "from-data"
  BY <1>1, <1>2 DEF After, SyncInv, Sampled
<1>3. CASE r.cmd # "from-data"
  <2>1. Reads(r)
    BY <1>1, <1>3 DEF RunOk
  <2>2. ASSUME NEW x \in Stored(r)
        PROVE  /\ x.at <= now
               /\ \A c \in Commands \ {"from-data"} :
                    Steady(c) /\ Reversed(c) = x.reverse => x.val <= last[Source(c)][x.seq]
    <3>1. PICK s \in Used(r) : x = [reverse |-> Reversed(r.cmd), seq |-> s, at |-> now, val |-> r.src[s]]
      BY <2>2 DEF Stored
    <3>2. x.at = now /\ x.reverse = Reversed(r.cmd) /\ x.seq = s /\ x.val = r.src[s] /\ now \in Nat
          /\ s \in Seq
      BY <1>1, <3>1, Values, Numbers DEF Used, TypeOK
    <3>3. \A c \in Commands : Steady(c) /\ Reversed(c) = Reversed(r.cmd) =>
            Steady(r.cmd) /\ Source(c) = Source(r.cmd)
      BY DEF Steady, Source
    <3> QED BY <2>1, <3>2, <3>3 DEF Reads
  <2>3. \A x \in samples' : x \in samples \/ x \in Stored(r)
    BY <1>1, <1>3 DEF After
  <2> QED BY <1>1, <2>2, <2>3 DEF SyncInv, Sampled
<1> QED BY <1>2, <1>3

LEMMA RecordPrepared ==
  ASSUME SyncInv, NEW p \in Runner, Record(p)
  PROVE  Prepared'
<1> DEFINE r == run[p]
<1>1. /\ TypeOK /\ r.at = "record" /\ RunOk(r) /\ r.cmd \in Commands
      /\ UNCHANGED <<last, created, app, home, high, held, now>> /\ samples' = After(r)
      /\ fit' = fit \/ (/\ fit' = fit \cup {TargetOf(r.cmd)} /\ r.clean
                        /\ r.cmd = "from-data" \/ (Final(r.cmd) /\ Failed(r) = {}))
  BY RecordIs
<1>2. SUFFICES ASSUME app = "down", home = "rds", "local" \in fit', NEW s \in Seq, last["rds"][s] # 0
               PROVE  last["local"][s] >= last["rds"][s] + Gap(After(r), now, "final", s, last["rds"][s])
  BY <1>1 DEF Prepared, Leaving, Ahead
<1>3. last["local"][s] \in Nat /\ last["rds"][s] \in Nat /\ r.src[s] \in Nat
  BY <1>1, Values
<1>4. ~Reversed("final")
  BY DEF Reversed
<1>5. ASSUME Reversed(r.cmd) = Reversed("final") /\ s \in Used(r) => r.src[s] = last["rds"][s]
      PROVE  Gap(After(r), now, "final", s, last["rds"][s]) = Gap(samples, now, "final", s, last["rds"][s])
  BY <1>1, <1>5, GapRecords
<1>6. CASE r.cmd = "from-data"
  <2>1. "local" \in fit
    BY <1>1, <1>2, <1>6 DEF RunOk, FromRows
  <2>2. After(r) = samples
    BY <1>6 DEF After
  <2> QED BY <1>2, <2>1, <2>2 DEF SyncInv, Prepared, Leaving, Ahead
<1>7. CASE r.cmd # "from-data"
  <2>1. Reads(r) /\ AtRecord(r) /\ ~Reversed(r.cmd) /\ Source(r.cmd) = "rds" /\ TargetOf(r.cmd) = "local"
    BY <1>1, <1>2, <1>7, CommandIs DEF RunOk, Reads
  <2>2. r.clean
    BY <1>1, <1>2, <2>1 DEF Reads, Leaving
  <2>3. s \in r.null \/ r.src[s] = last["rds"][s]
    BY <2>1, <2>2 DEF Reads
  <2>4. Gap(After(r), now, "final", s, last["rds"][s]) = Gap(samples, now, "final", s, last["rds"][s])
    BY <1>5, <2>1, <2>3 DEF Reads, Used
  <2>5. CASE "local" \in fit
    BY <1>2, <2>4, <2>5 DEF SyncInv, Prepared, Leaving, Ahead
  <2>6. CASE "local" \notin fit
    <3>1. r.cmd = "final" /\ Failed(r) = {}
      BY <1>1, <1>2, <1>7, <2>1, <2>6 DEF Final, Reversed
    <3>2. s \in Used(r) /\ Sure(r) /\ r.src[s] = last["rds"][s]
      BY <1>2, <2>2, <2>3, <3>1 DEF Failed, Used, Sure
    <3> QED BY <2>1, <2>4, <3>1, <3>2 DEF AtRecord, Ahead
  <2> QED BY <2>5, <2>6
<1> QED BY <1>6, <1>7

LEMMA RecordKeeps ==
  ASSUME SyncInv, TypeOK', OneRun, NEW p \in Runner, Record(p)
  PROVE  SyncInv'
<1>1. Sides'
  <2>1. /\ UNCHANGED <<last, created, app, home, high, held, now>>
        /\ fit' = fit \/ fit' = fit \cup {TargetOf(run[p].cmd)}
    BY RecordIs
  <2> QED BY <2>1 DEF SyncInv, Sides
<1>2. \A q \in Runner : RunOk(run[q])'
  BY RecordIs, IdleOk
<1> QED BY <1>1, <1>2, RecordFits, RecordSampled, RecordPrepared DEF SyncInv, Runs

-----------------------------------------------------------------------------
(* The theorems.                                                           *)

LEMMA SyncInit == Init => SyncInv
<1> SUFFICES ASSUME Init PROVE SyncInv
  OBVIOUS
<1>1. TypeOK
  BY TypeInit
<1>2. \A p \in Runner : run[p].at = "idle"
  BY NoRunIs DEF Init
<1>3. \A side \in Side : \A s \in Seq : last[side][s] = 0 /\ high[s] = 0 /\ held[s] = 0
  BY DEF Init, Zero
<1>4. Sides /\ Fits /\ Sampled /\ Prepared
  BY <1>3 DEF Init, Sides, Fits, Sampled, Prepared, Leaving, Side
<1> QED BY <1>1, <1>2, <1>4 DEF SyncInv, Runs, RunOk

LEMMA SyncStep == OneWay /\ OneRun /\ SyncInv /\ [Next]_vars => SyncInv'
<1> SUFFICES ASSUME OneWay, OneRun, SyncInv, [Next]_vars PROVE SyncInv'
  OBVIOUS
<1>1. TypeOK'
  BY TypeStep DEF SyncInv
<1>2. CASE World
  BY <1>1, <1>2, NextValKeeps, DeleteKeeps, CreateKeeps, StopKeeps, StartKeeps, RestoreKeeps, TickKeeps DEF World
<1>3. ASSUME NEW p \in Runner, Run(p) PROVE SyncInv'
  BY <1>1, <1>3, ReadSourceKeeps, ReadTargetKeeps, ComputeKeeps, SetAllKeeps, SetPartKeeps, RecordKeeps,
     FromDataKeeps, DieKeeps DEF Run
<1>4. CASE UNCHANGED vars
  <2>1. \A p \in Runner : RunOk(run[p])'
    <3> TAKE p \in Runner
    <3>1. RunOk(run[p]) /\ run' = run
      BY <1>4 DEF SyncInv, Runs, vars
    <3> QED BY <1>4, <3>1 DEF vars, RunOk, FromRows, Reads, Leaving, AtSource, AtTarget, AtSet, AtRecord,
                              Ahead, Used, Sure, Open
  <2> QED BY <1>1, <1>4, <2>1, ReadKeeps DEF vars
<1> QED BY <1>2, <1>3, <1>4 DEF Next

\* Every state that one run at a time, of the direction the application left,
\* can reach satisfies the inductive invariant.
THEOREM SyncInvariant == OneWay /\ OneRun => (Spec => []SyncInv)
<1> SUFFICES ASSUME OneWay, OneRun PROVE Spec => []SyncInv
  OBVIOUS
<1>1. SyncInv /\ [Next]_vars => SyncInv'
  BY SyncStep
<1> QED BY <1>1, SyncInit, PTL DEF Spec

\* The application never draws a value it has had: on whichever side it runs,
\* every sequence stands at or above the highest value drawn on either side; and
\* after a restore, at or above the highest that an owned sequence has in a row.
THEOREM NoReuseHolds == OneWay /\ OneRun => (Spec => []NoReuse)
<1>0. OneWay /\ OneRun => (Spec => []SyncInv)
  BY SyncInvariant
<1>1. SyncInv => NoReuse
  BY DEF SyncInv, Fits, TypeOK, NoReuse
<1> QED BY <1>0, <1>1, PTL

\* The command never moves a value backwards: no setval of a run, complete or
\* cut short, lowers a sequence.
THEOREM NeverBackwardsHolds == OneWay /\ OneRun => (Spec => NeverBackwards)
<1>1. ASSUME SyncInv, NEW p \in Runner, SetAll(p) \/ SetPart(p)
      PROVE  \A side \in Side : \A s \in Seq : last'[side][s] >= last[side][s]
  <2>1. PICK done \in SUBSET Statements(run[p]) :
          (\A s \in done : run[p].wanted[s] <= MaxValue) /\ last' = Moved(run[p], done)
    <3>1. CASE SetAll(p)
      BY <3>1 DEF SetAll
    <3>2. CASE SetPart(p)
      BY <3>2 DEF SetPart
    <3> QED BY <1>1, <3>1, <3>2
  <2>2. run[p].at = "set"
    BY <1>1 DEF SetAll, SetPart
  <2> QED BY <1>1, <2>1, <2>2, MovedGrows
<1>2. SyncInv => [(\E p \in Runner : SetAll(p) \/ SetPart(p)) =>
                     \A side \in Side : \A s \in Seq : last'[side][s] >= last[side][s]]_vars
  BY <1>1
<1> QED BY <1>2, SyncInvariant, PTL DEF Spec, NeverBackwards

\* When a run has made its calls, every sequence it could read is a floor
\* ahead of what it read, whatever went wrong with the others.
THEOREM RunCoversHolds == OneWay /\ OneRun /\ ~MayRestore => (Spec => []RunCovers)
<1> SUFFICES ASSUME OneWay, OneRun, ~MayRestore PROVE Spec => []RunCovers
  OBVIOUS
<1>0. Spec => []SyncInv
  BY SyncInvariant
<1>1. ASSUME SyncInv PROVE RunCovers
  <2> SUFFICES ASSUME NEW p \in Runner, run[p].at = "record", run[p].cmd # "from-data",
                      NEW s \in run[p].has, run[p].src[s] # 0
               PROVE  last[TargetOf(run[p].cmd)][s] >= run[p].src[s] + FloorOf(run[p].cmd)
    BY DEF RunCovers
  <2>1. TypeOK /\ AtRecord(run[p]) /\ run[p].cmd \in Commands /\ s \in Seq /\ run[p].src[s] \in Nat
        /\ last[TargetOf(run[p].cmd)][s] \in Nat
    BY <1>1, Values, CommandIs DEF SyncInv, Runs, RunOk
  <2>2. Ahead(last[TargetOf(run[p].cmd)][s], run[p].cmd, s, run[p].src[s])
    BY <1>1, <2>1 DEF AtRecord, Sure, Used
  <2>3. /\ FloorOf(run[p].cmd) <= Gap(samples, now, run[p].cmd, s, run[p].src[s])
        /\ FloorOf(run[p].cmd) \in Nat /\ Gap(samples, now, run[p].cmd, s, run[p].src[s]) \in Nat
    BY <2>1, MarginNat, Commanded
  <2> QED BY <2>1, <2>2, <2>3 DEF Ahead
<1> QED BY <1>0, <1>1, PTL

-----------------------------------------------------------------------------
(* A source that stands still.                                             *)

\* Setting and drawing keep what was settled, for a value that grows is of no
\* sample.
LEMMA GrowsSettled ==
  ASSUME SyncInv, ~MayRestore, SourceStill, UNCHANGED <<samples, now>>,
         \A side \in Side : \A s \in Seq : last'[side][s] \in Nat /\ last'[side][s] >= last[side][s]
  PROVE  /\ SourceStill'
         /\ \A p \in Runner :
              StillOk(run[p]) /\ run'[p].at = run[p].at /\ run'[p].cmd = run[p].cmd
                /\ run'[p].src = run[p].src /\ run'[p].has = run[p].has /\ run'[p].tgt = run[p].tgt
                /\ run'[p].wanted = run[p].wanted => StillOk(run[p])'
<1>1. /\ TypeOK /\ \A c \in Commands : Source(c) \in Side /\ TargetOf(c) \in Side /\ Steady(c)
      /\ \A side \in Side : \A s \in Seq : last[side][s] \in Nat
      /\ \A c, s : \A v \in Nat : Gap(samples, now, c, s, v) \in Nat
  BY Values, CommandIs DEF SyncInv, Steady
<1>2. SourceStill'
  <2> SUFFICES ASSUME NEW c \in {"forward", "reverse"}, NEW s \in Seq,
                      Seen(samples, c, s, last'[Source(c)][s])
               PROVE  last'[TargetOf(c)][s] >= last'[Source(c)][s] + Gap(samples, now, c, s, last'[Source(c)][s])
    BY DEF SourceStill, Ahead
  <2>1. c \in Commands \ {"from-data"}
    BY DEF Commands
  <2>2. PICK x \in samples : x.reverse = Reversed(c) /\ x.seq = s /\ x.val = last'[Source(c)][s]
    BY DEF Seen
  <2>3. x.val <= last[Source(c)][s]
    BY <1>1, <2>1, <2>2 DEF SyncInv, Sampled
  <2>4. last'[Source(c)][s] = last[Source(c)][s]
    BY <1>1, <2>1, <2>2, <2>3
  <2>5. last[TargetOf(c)][s] >= last[Source(c)][s] + Gap(samples, now, c, s, last[Source(c)][s])
    BY <2>4 DEF SourceStill, Ahead
  <2>6. /\ last[TargetOf(c)][s] \in Nat /\ last'[TargetOf(c)][s] \in Nat
        /\ last'[TargetOf(c)][s] >= last[TargetOf(c)][s] /\ last[Source(c)][s] \in Nat
        /\ Gap(samples, now, c, s, last[Source(c)][s]) \in Nat
    BY <1>1, <2>1
  <2> QED BY <2>4, <2>5, <2>6
<1>3. ASSUME NEW p \in Runner, StillOk(run[p]), run'[p].at = run[p].at, run'[p].cmd = run[p].cmd,
             run'[p].src = run[p].src, run'[p].has = run[p].has, run'[p].tgt = run[p].tgt,
             run'[p].wanted = run[p].wanted
      PROVE  StillOk(run[p])'
  <2>1. /\ TargetOf(run[p].cmd) \in Side
        /\ \A s \in Seq : run[p].src[s] \in Nat /\ Gap(samples, now, run[p].cmd, s, run[p].src[s]) \in Nat
    BY <1>1, Values
  <2>2. \A s \in Seq : last'[TargetOf(run[p].cmd)][s] \in Nat /\ last[TargetOf(run[p].cmd)][s] \in Nat
                       /\ last'[TargetOf(run[p].cmd)][s] >= last[TargetOf(run[p].cmd)][s]
    BY <1>1, <2>1
  <2> QED BY <1>3, <2>1, <2>2 DEF StillOk, Ahead
<1> QED BY <1>2, <1>3

LEMMA WorldSettled ==
  ASSUME SyncInv, ~MayRestore, Settled, World
  PROVE  Settled'
<1>1. TypeOK /\ \A side \in Side : \A s \in Seq : last[side][s] \in Nat
  BY Values DEF SyncInv
<1>2. ASSUME NEW s \in Seq, NEW n \in Burst, NextVal(s, n) PROVE Settled'
  <2>1. /\ UNCHANGED <<samples, now, run>> /\ n \in Nat /\ app \in Side
        /\ last' = [last EXCEPT ![app] = [last[app] EXCEPT ![s] = last[app][s] + n]]
    BY <1>1, <1>2, Numbers DEF NextVal, TypeOK
  <2>2. \A side \in Side : \A z \in Seq : last'[side][z] = IF side = app /\ z = s THEN last[app][s] + n
                                                           ELSE last[side][z]
    BY <1>1, <2>1 DEF TypeOK
  <2>3. \A side \in Side : \A z \in Seq : last'[side][z] \in Nat /\ last'[side][z] >= last[side][z]
    BY <1>1, <2>1, <2>2
  <2> QED BY <2>1, <2>3, GrowsSettled DEF Settled
<1>3. ASSUME UNCHANGED <<last, samples, now, run>> PROVE Settled'
  BY <1>1, <1>3, GrowsSettled DEF Settled
<1>4. ASSUME NEW side \in Side, Start(side) PROVE Settled'
  <2>1. UNCHANGED <<last, samples, now>> /\ run' = Unclean
    BY <1>4 DEF Start
  <2>2. \A p \in Runner :
          /\ run'[p].at = run[p].at /\ run'[p].cmd = run[p].cmd /\ run'[p].src = run[p].src
          /\ run'[p].has = run[p].has /\ run'[p].tgt = run[p].tgt /\ run'[p].wanted = run[p].wanted
    BY <1>1, <2>1, UncleanIs
  <2> QED BY <1>1, <2>1, <2>2, GrowsSettled DEF Settled
<1>5. CASE Tick
  <2>1. now' = now + 1 /\ UNCHANGED <<last, samples, run>>
    BY <1>5 DEF Tick
  <2>2. SourceStill'
    <3> SUFFICES ASSUME NEW c \in {"forward", "reverse"}, NEW s \in Seq,
                        Seen(samples, c, s, last[Source(c)][s])
                 PROVE  last[TargetOf(c)][s] >= last[Source(c)][s] + Gap(samples, now + 1, c, s, last[Source(c)][s])
      BY <2>1 DEF SourceStill, Ahead
    <3>1. c \in Commands \ {"from-data"} /\ Steady(c)
      BY DEF Commands, Steady
    <3>2. \A x \in samples : x.reverse = Reversed(c) /\ x.seq = s => x.val <= last[Source(c)][s]
      BY <3>1 DEF SyncInv, Sampled
    <3>3. last[TargetOf(c)][s] \in Nat /\ last[Source(c)][s] \in Nat
      BY <1>1, <3>1, CommandIs
    <3> QED BY <3>1, <3>2, <3>3, TickAhead DEF Settled, SourceStill
  <2>3. ASSUME NEW p \in Runner PROVE StillOk(run[p])'
    <3> DEFINE r == run[p]
    <3>1. StillOk(r) /\ RunOk(r) /\ r.cmd \in Commands /\ TargetOf(r.cmd) \in Side /\ Steady(r.cmd)
          /\ \A s \in Seq : r.src[s] \in Nat /\ r.tgt[s] \in Nat /\ last[TargetOf(r.cmd)][s] \in Nat
      BY <1>1, Values, CommandIs DEF SyncInv, Runs, Settled, Steady
    <3>2. SUFFICES ASSUME r.cmd \in {"forward", "reverse"}, NEW s \in Seq, r.src[s] # 0,
                          Seen(samples, r.cmd, s, r.src[s])
                   PROVE  /\ r.at = "source" => last[TargetOf(r.cmd)][s]
                                                  >= r.src[s] + Gap(samples, now + 1, r.cmd, s, r.src[s])
                          /\ r.at = "target" /\ s \in r.has =>
                               r.tgt[s] >= r.src[s] + Gap(samples, now + 1, r.cmd, s, r.src[s])
                          /\ r.at = "set" => r.wanted[s] = 0
      BY <2>1 DEF StillOk, Ahead
    <3>3. r.at \in {"source", "target"} => \A x \in samples :
            x.reverse = Reversed(r.cmd) /\ x.seq = s => x.val <= r.src[s]
      BY <3>1, <3>2 DEF RunOk, Reads
    <3> QED BY <3>1, <3>2, <3>3, TickAhead DEF StillOk
  <2> QED BY <2>2, <2>3 DEF Settled
<1>6. ~Restore
  BY DEF Restore
<1>7. ASSUME NEW s \in Seq, NEW side \in Side, Create(side, s) PROVE Settled'
  BY <1>3, <1>7 DEF Create
<1>8. CASE Stop
  BY <1>3, <1>8 DEF Stop
<1>9. ASSUME NEW s \in Owned, Delete(s) PROVE Settled'
  BY <1>3, <1>9 DEF Delete
<1> QED BY <1>2, <1>4, <1>5, <1>6, <1>7, <1>8, <1>9 DEF World

LEMMA NoRunStill ==
  ASSUME NEW p \in Runner, run'[p] = NoRun
  PROVE  StillOk(run[p])'
<1>1. run'[p].src = Zero
  BY DEF NoRun
<1> QED BY <1>1 DEF StillOk, Zero

LEMMA ReadsSettled ==
  ASSUME SyncInv, OneRun, Settled, NEW p \in Runner,
         (\E c \in Command : ReadSource(p, c)) \/ ReadTarget(p) \/ FromData(p) \/ Die(p)
  PROVE  Settled'
<1>1. /\ UNCHANGED <<last, created, app, home, fit, high, held, samples, now>> /\ TypeOK
  BY DEF ReadSource, ReadTarget, FromData, Die, SyncInv
<1>2. SourceStill'
  BY <1>1 DEF Settled, SourceStill, Ahead
<1>3. ASSUME NEW q \in Runner PROVE StillOk(run[q])'
  <2> DEFINE r == run[q]
  <2>1. q = p /\ StillOk(r) /\ r.cmd \in Commands
    BY <1>1, OneRun, Values DEF OneRun, Settled
  <2>2. ASSUME NEW c \in Command, ReadSource(p, c) PROVE StillOk(run[q])'
    <3>1. /\ run'[q].at = "source" /\ run'[q].cmd = c
          /\ run'[q].src = [s \in Seq |-> IF s \in Hidden(c) THEN 0 ELSE last[Source(c)][s]]
      BY <1>1, <2>1, <2>2, RunIs DEF ReadSource, NoRun
    <3>2. \A s \in Seq : run'[q].src[s] # 0 => run'[q].src[s] = last[Source(c)][s]
      BY <3>1
    <3> QED BY <1>1, <3>1, <3>2 DEF StillOk, Settled, SourceStill, Ahead
  <2>3. CASE ReadTarget(p)
    <3>1. /\ r.at = "source" /\ run'[q].at = "target" /\ run'[q].cmd = r.cmd /\ run'[q].src = r.src
          /\ run'[q].tgt = last[TargetOf(r.cmd)]
      BY <1>1, <2>1, <2>3, RunIs DEF ReadTarget, RunType
    <3> QED BY <1>1, <2>1, <3>1 DEF StillOk, Ahead
  <2>4. CASE FromData(p)
    <3>1. run'[q].cmd = "from-data"
      BY <1>1, <2>1, <2>4, RunIs DEF FromData, NoRun
    <3> QED BY <3>1 DEF StillOk
  <2>5. CASE Die(p)
    <3>1. run'[q] = NoRun
      BY <1>1, <2>1, <2>5, RunIs DEF Die
    <3> QED BY <3>1, NoRunStill
  <2> QED BY <2>2, <2>3, <2>4, <2>5
<1> QED BY <1>2, <1>3 DEF Settled

\* What the target was ahead of is not moved.
LEMMA ComputeSettled ==
  ASSUME SyncInv, OneRun, ~MayRestore, Settled, NEW p \in Runner, Compute(p)
  PROVE  Settled'
<1>1. /\ UNCHANGED <<last, created, app, home, fit, high, held, samples, now>> /\ TypeOK
  BY DEF Compute, SyncInv
<1>2. SourceStill'
  BY <1>1 DEF Settled, SourceStill, Ahead
<1>3. ASSUME NEW q \in Runner PROVE StillOk(run[q])'
  <2> DEFINE r == run[q]
  <2>1. q = p /\ StillOk(r) /\ r.cmd \in Commands /\ r.at = "target"
    BY <1>1, OneRun, Values DEF OneRun, Settled, Compute
  <2>2. /\ run'[q].at = "set" /\ run'[q].cmd = r.cmd /\ run'[q].src = r.src
        /\ run'[q].wanted = [s \in Seq |-> Wanted(r, s)]
    BY <1>1, <2>1, RunIs DEF Compute, RunType
  <2>3. ASSUME r.cmd \in {"forward", "reverse"}, NEW s \in Seq, r.src[s] # 0,
               Seen(samples, r.cmd, s, r.src[s])
        PROVE  Wanted(r, s) = 0
    <3>1. s \in r.has => r.tgt[s] >= r.src[s] + Gap(samples, now, r.cmd, s, r.src[s])
      BY <2>1, <2>3 DEF StillOk, Ahead
    <3>2. Gap(samples, now, r.cmd, s, r.src[s]) = Margin(r.cmd, s, r.src[s])
      <4>1. r.src[s] \in Nat /\ Steady(r.cmd)
        BY <1>1, Values DEF Steady
      <4> QED BY <1>1, <4>1, MarginNat
    <3> QED BY <3>1, <3>2 DEF Wanted
  <2> QED BY <1>1, <2>2, <2>3 DEF StillOk
<1> QED BY <1>2, <1>3 DEF Settled

LEMMA SetsSettled ==
  ASSUME SyncInv, TypeOK', OneRun, ~MayRestore, Settled, NEW p \in Runner, SetAll(p) \/ SetPart(p)
  PROVE  Settled'
<1>1. UNCHANGED <<samples, now>> /\ TypeOK /\ run[p].at = "set"
  BY DEF SetAll, SetPart, SyncInv
<1>2. PICK done \in SUBSET Statements(run[p]) :
        (\A s \in done : run[p].wanted[s] <= MaxValue) /\ last' = Moved(run[p], done)
  <2>1. CASE SetAll(p)
    BY <2>1 DEF SetAll
  <2>2. CASE SetPart(p)
    BY <2>2 DEF SetPart
  <2> QED BY <2>1, <2>2
<1>3. \A side \in Side : \A s \in Seq : last'[side][s] \in Nat /\ last'[side][s] >= last[side][s]
  BY <1>1, <1>2, MovedGrows
<1>4. SourceStill'
  BY <1>1, <1>3, GrowsSettled DEF Settled
<1>5. ASSUME NEW q \in Runner PROVE StillOk(run[q])'
  <2>1. q = p
    BY OneRun DEF OneRun
  <2>2. CASE SetPart(p)
    <3>1. run'[q] = NoRun
      BY <1>1, <2>1, <2>2, RunIs DEF SetPart
    <3> QED BY <3>1, NoRunStill
  <2>3. CASE SetAll(p)
    <3>1. run'[q] = [run[p] EXCEPT !.at = "record"]
      BY <1>1, <2>1, <2>3, RunIs DEF SetAll, Go
    <3>2. run'[q].at = "record"
      BY <1>1, <3>1, RunIs DEF RunType
    <3> QED BY <3>2 DEF StillOk
  <2> QED BY <2>2, <2>3
<1> QED BY <1>4, <1>5 DEF Settled

\* What a run stores it left its target ahead of.
LEMMA RecordSettled ==
  ASSUME SyncInv, OneRun, ~MayRestore, Settled, NEW p \in Runner, Record(p)
  PROVE  Settled'
<1> DEFINE r == run[p]
<1>1. /\ TypeOK /\ r.at = "record" /\ RunOk(r) /\ r.cmd \in Commands
      /\ UNCHANGED <<last, created, app, home, high, held, now>> /\ samples' = After(r)
      /\ run'[p] = NoRun
  BY RecordIs
<1>2. \A q \in Runner : StillOk(run[q])'
  <2> TAKE q \in Runner
  <2>1. run'[q] = NoRun
    BY <1>1, OneRun DEF OneRun
  <2> QED BY <2>1, NoRunStill
<1>3. CASE r.cmd = "from-data"
  <2>1. samples' = samples
    BY <1>1, <1>3 DEF After
  <2> QED BY <1>1, <1>2, <2>1 DEF Settled, SourceStill, Ahead
<1>4. CASE r.cmd # "from-data"
  <2>1. Reads(r) /\ AtRecord(r) /\ Sure(r)
    BY <1>1, <1>4 DEF RunOk, Sure
  <2>2. ASSUME NEW c \in {"forward", "reverse"}, NEW s \in Seq, NEW v \in Nat, v = last[Source(c)][s],
               Seen(After(r), c, s, v)
        PROVE  last[TargetOf(c)][s] >= v + Gap(After(r), now, c, s, v)
    <3>1. PICK x \in After(r) : x.reverse = Reversed(c) /\ x.seq = s /\ x.val = v
      BY <2>2 DEF Seen
    <3>2. c \in Commands /\ Steady(c)
      BY DEF Commands, Steady
    <3>3. Reversed(r.cmd) = Reversed(c) => Source(r.cmd) = Source(c) /\ TargetOf(r.cmd) = TargetOf(c)
      BY DEF Source, TargetOf
    <3>4. r.src[s] \in Nat /\ last[TargetOf(c)][s] \in Nat /\ Steady(r.cmd)
          /\ Gap(samples, now, c, s, v) \in Nat /\ Gap(samples, now, r.cmd, s, v) \in Nat
      BY <1>1, <3>2, Values, CommandIs DEF Steady
    <3>5. CASE x \in samples
      <4>1. last[TargetOf(c)][s] >= v + Gap(samples, now, c, s, v)
        BY <2>2, <3>1, <3>5 DEF Settled, SourceStill, Seen, Ahead
      <4>2. Reversed(r.cmd) = Reversed(c) /\ s \in Used(r) => r.src[s] = v
        <5> SUFFICES ASSUME Reversed(r.cmd) = Reversed(c), s \in Used(r) PROVE r.src[s] = v
          OBVIOUS
        <5>1. r.src[s] <= v /\ v <= r.src[s]
          BY <2>1, <2>2, <3>1, <3>3, <3>4, <3>5 DEF Reads, Used
        <5> QED BY <3>4, <5>1
      <4>3. Gap(After(r), now, c, s, v) = Gap(samples, now, c, s, v)
        BY <1>1, <4>2, GapRecords
      <4> QED BY <4>1, <4>3
    <3>6. CASE x \notin samples
      <4>1. x \in Stored(r)
        BY <1>4, <3>1, <3>6 DEF After
      <4>2. Reversed(r.cmd) = Reversed(c) /\ s \in Used(r) /\ r.src[s] = v
        BY <3>1, <4>1 DEF Stored
      <4>3. last[TargetOf(c)][s] >= v + Gap(samples, now, r.cmd, s, v)
        BY <2>1, <3>3, <4>2 DEF AtRecord, Ahead
      <4>4. FloorOf(c) <= FloorOf(r.cmd)
        BY Numbers DEF FloorOf, Final
      <4>5. Gap(samples, now, c, s, v) <= Gap(samples, now, r.cmd, s, v)
        BY <1>1, <4>2, <4>4, GapOfFinal
      <4>6. Gap(After(r), now, c, s, v) = Gap(samples, now, c, s, v)
        BY <1>1, <4>2, GapRecords
      <4> QED BY <3>4, <4>3, <4>5, <4>6
    <3> QED BY <3>5, <3>6
  <2>3. \A c \in {"forward", "reverse"} : \A s \in Seq : last[Source(c)][s] \in Nat
    BY <1>1, Values, CommandIs DEF Commands
  <2> QED BY <1>1, <1>2, <2>2, <2>3 DEF Settled, SourceStill, Ahead
<1> QED BY <1>3, <1>4

LEMMA SettledInit == Init => Settled
<1> SUFFICES ASSUME Init PROVE Settled
  OBVIOUS
<1>1. \A p \in Runner : run[p].src = Zero
  BY DEF Init, NoRun
<1> QED BY <1>1 DEF Init, Settled, SourceStill, StillOk, Seen, Zero

LEMMA SettledStep == OneWay /\ OneRun /\ ~MayRestore /\ SyncInv /\ Settled /\ [Next]_vars => Settled'
<1> SUFFICES ASSUME OneWay, OneRun, ~MayRestore, SyncInv, Settled, [Next]_vars PROVE Settled'
  OBVIOUS
<1>1. TypeOK'
  BY TypeStep DEF SyncInv
<1>2. ASSUME NEW p \in Runner, Run(p) PROVE Settled'
  BY <1>1, <1>2, ReadsSettled, ComputeSettled, SetsSettled, RecordSettled DEF Run
<1>3. CASE UNCHANGED vars
  <2>1. UNCHANGED <<last, samples, now, run>> /\ \A side \in Side : \A s \in Seq : last[side][s] \in Nat
    BY <1>3, Values DEF vars, SyncInv
  <2> QED BY <2>1, GrowsSettled DEF Settled
<1> QED BY <1>2, <1>3, WorldSettled DEF Next

\* A second run with no publisher movement changes nothing: a value some run
\* has recorded moves no sequence again, but for a final run.
THEOREM StillHolds == OneWay /\ OneRun /\ ~MayRestore => (Spec => StillSourceStillTarget)
<1> SUFFICES ASSUME OneWay, OneRun, ~MayRestore PROVE Spec => StillSourceStillTarget
  OBVIOUS
<1>0. Spec => []SyncInv
  BY SyncInvariant
<1>1. Settled /\ SyncInv /\ [Next]_vars => Settled'
  BY SettledStep
<1>2. SyncInv /\ Settled =>
  [\A p \in Runner : SetAll(p) /\ run[p].cmd \in {"forward", "reverse"} =>
       \A s \in Seq :
         (\E x \in samples : /\ x.reverse = Reversed(run[p].cmd) /\ x.seq = s
                            /\ x.val = run[p].src[s])
         => last'[TargetOf(run[p].cmd)][s] = last[TargetOf(run[p].cmd)][s]]_vars
  <2> SUFFICES ASSUME SyncInv, Settled,
                      NEW p \in Runner, SetAll(p), run[p].cmd \in {"forward", "reverse"}, NEW s \in Seq,
                      NEW x \in samples, x.reverse = Reversed(run[p].cmd), x.seq = s, x.val = run[p].src[s]
               PROVE  last'[TargetOf(run[p].cmd)][s] = last[TargetOf(run[p].cmd)][s]
    OBVIOUS
  <2>1. run[p].at = "set" /\ StillOk(run[p]) /\ RunOk(run[p])
    BY DEF SetAll, Settled, SyncInv, Runs
  <2>2. AtSet(run[p])
    BY <2>1 DEF RunOk
  <2>3. run[p].wanted[s] = 0
    <3>1. CASE run[p].src[s] = 0
      BY <2>2, <3>1 DEF AtSet, Used
    <3>2. CASE run[p].src[s] # 0
      BY <2>1, <3>2 DEF StillOk, Seen
    <3> QED BY <3>1, <3>2
  <2>4. s \notin Statements(run[p])
    BY <2>3 DEF Statements
  <2>5. /\ \A z \in Statements(run[p]) : run[p].wanted[z] <= MaxValue
        /\ last' = Moved(run[p], Statements(run[p])) /\ TypeOK
    BY DEF SetAll, SyncInv
  <2>6. \A z \in Seq \ Statements(run[p]) : last'[TargetOf(run[p].cmd)][z] = last[TargetOf(run[p].cmd)][z]
    BY <2>5, MovedIs
  <2> QED BY <2>4, <2>6
<1> QED BY <1>0, <1>1, <1>2, SettledInit, PTL DEF Spec, StillSourceStillTarget

=============================================================================
