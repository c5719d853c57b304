--------------------------- MODULE PlanGraphProofs ---------------------------
(***************************************************************************)
(* The theorems about the plan graph and the dependencies of one plan      *)
(* (README, section 6), for every set of plans and whatever their files    *)
(* hold.                                                                   *)
(*                                                                         *)
(* The invariant has a part for each of the script's searches.  Searched   *)
(* says of the search for cycles that its stack is a path, and that among  *)
(* the nodes it is done with every set has one that is on a reported cycle *)
(* or has no edge into the set: what is left of the graph without the      *)
(* reported cycles holds none.  Taken, Spreading and Drawing say of the    *)
(* others what is closed under the edges but for what is still queued.     *)
(***************************************************************************)
EXTENDS PlanGraph, OrderLemmas, SequenceTheorems

LEMMA MinIs ==
  ASSUME NEW S \in SUBSET Nat, S # {}
  PROVE  Min(S) \in S /\ \A y \in S : Min(S) <= y
<1>1. \E x \in S : \A y \in S : x <= y
  BY NatMin
<1> QED BY <1>1 DEF Min

-----------------------------------------------------------------------------
(* What nodes lead to.                                                     *)

Closed(edges, set) == \A e \in edges : e[1] \in set => e[2] \in set

\* The least set that holds the nodes and is closed.
LEMMA BelowIs ==
  ASSUME NEW E \in SUBSET (Stem \X Stem), NEW F \in SUBSET Stem
  PROVE  /\ F \subseteq Below(E, F) /\ Below(E, F) \subseteq Stem /\ Closed(E, Below(E, F))
         /\ \A C \in SUBSET Stem : F \subseteq C /\ Closed(E, C) => Below(E, F) \subseteq C
<1>1. F \subseteq Below(E, F) /\ Below(E, F) \subseteq Stem
  BY DEF Below
<1>2. \A C \in SUBSET Stem : F \subseteq C /\ Closed(E, C) => Below(E, F) \subseteq C
  BY DEF Below, Closed
<1>3. Closed(E, Below(E, F))
  <2> SUFFICES ASSUME NEW e \in E, e[1] \in Below(E, F) PROVE e[2] \in Below(E, F)
    BY DEF Closed
  <2>1. e[2] \in Stem
    OBVIOUS
  <2>2. ASSUME NEW C \in SUBSET Stem, F \subseteq C, \A d \in E : d[1] \in C => d[2] \in C
        PROVE  e[2] \in C
    BY <2>2 DEF Below
  <2> QED BY <2>1, <2>2 DEF Below
<1> QED BY <1>1, <1>2, <1>3

\* More edges or nodes lead to more.
LEMMA BelowGrows ==
  ASSUME NEW E \in SUBSET (Stem \X Stem), NEW F \in SUBSET Stem,
         NEW D \in SUBSET E, NEW G \in SUBSET Stem, G \subseteq Below(E, F)
  PROVE  Below(D, G) \subseteq Below(E, F)
<1>1. Closed(D, Below(E, F)) /\ Below(E, F) \in SUBSET Stem
  BY BelowIs DEF Closed
<1> QED BY <1>1, BelowIs

\* What a node leads to: one of its edges, and what lies behind.
LEMMA UnderIs ==
  ASSUME NEW E \in SUBSET (Stem \X Stem), NEW n
  PROVE  /\ Under(E, n) \subseteq Stem /\ Closed(E, Under(E, n))
         /\ \A e \in E : e[1] = n => e[2] \in Under(E, n)
         /\ \A C \in SUBSET Stem : (\A e \in E : e[1] = n => e[2] \in C) /\ Closed(E, C) => Under(E, n) \subseteq C
<1> DEFINE F == {e[2] : e \in {f \in E : f[1] = n}}
<1>1. F \in SUBSET Stem
  OBVIOUS
<1>2. Under(E, n) = Below(E, F)
  BY DEF Under
<1>3. \A e \in E : e[1] = n => e[2] \in F
  OBVIOUS
<1>4. \A C : (\A e \in E : e[1] = n => e[2] \in C) => F \subseteq C
  OBVIOUS
<1> HIDE DEF F
<1> QED BY <1>1, <1>2, <1>3, <1>4, BelowIs

LEMMA UnderTrans ==
  ASSUME NEW E \in SUBSET (Stem \X Stem), NEW n, NEW m \in Under(E, n)
  PROVE  Under(E, m) \subseteq Under(E, n)
<1>1. /\ Closed(E, Under(E, n)) /\ Under(E, n) \in SUBSET Stem
      /\ \A e \in E : e[1] = m => e[2] \in Under(E, n)
  BY UnderIs DEF Closed
<1> QED BY <1>1, UnderIs

LEMMA UnderStep ==
  ASSUME NEW E \in SUBSET (Stem \X Stem), NEW n, NEW m \in Under(E, n)
  PROVE  \E e \in E : e[1] = n /\ (m = e[2] \/ m \in Under(E, e[2]))
<1> DEFINE C == {k \in Stem : \E e \in E : e[1] = n /\ (k = e[2] \/ k \in Under(E, e[2]))}
<1>1. \A e \in E : e[1] = n => e[2] \in C
  OBVIOUS
<1>2. Closed(E, C)
  <2> SUFFICES ASSUME NEW d \in E, d[1] \in C PROVE d[2] \in C
    BY DEF Closed
  <2>1. PICK e \in E : e[1] = n /\ (d[1] = e[2] \/ d[1] \in Under(E, e[2]))
    OBVIOUS
  <2>2. d[2] \in Under(E, e[2])
    BY <2>1, UnderIs DEF Closed
  <2> QED BY <2>1, <2>2
<1>3. Under(E, n) \subseteq C
  <2> HIDE DEF C
  <2>1. C \in SUBSET Stem
    BY DEF C
  <2> QED BY <1>1, <1>2, <2>1, UnderIs
<1> QED BY <1>3

LEMMA BelowOne ==
  ASSUME NEW E \in SUBSET (Stem \X Stem), NEW n \in Stem
  PROVE  Below(E, {n}) = {n} \cup Under(E, n)
<1>1. Below(E, {n}) \subseteq {n} \cup Under(E, n)
  <2>1. Closed(E, {n} \cup Under(E, n)) /\ {n} \cup Under(E, n) \in SUBSET Stem
    BY UnderIs DEF Closed
  <2> QED BY <2>1, BelowIs
<1>2. {n} \subseteq Below(E, {n}) /\ Below(E, {n}) \in SUBSET Stem /\ Closed(E, Below(E, {n}))
  BY BelowIs
<1>3. Under(E, n) \subseteq Below(E, {n})
  <2>1. \A e \in E : e[1] = n => e[2] \in Below(E, {n})
    BY <1>2 DEF Closed
  <2> QED BY <1>2, <2>1, UnderIs
<1> QED BY <1>1, <1>2, <1>3

\* Fewer edges lead to less; and to no less from a closed set whose edges are there.
LEMMA UnderLess ==
  ASSUME NEW E \in SUBSET (Stem \X Stem), NEW D \in SUBSET E, NEW n
  PROVE  Under(D, n) \subseteq Under(E, n)
<1>1. /\ Under(E, n) \in SUBSET Stem /\ Closed(D, Under(E, n))
      /\ \A e \in D : e[1] = n => e[2] \in Under(E, n)
  BY UnderIs DEF Closed
<1> QED BY <1>1, UnderIs

LEMMA UnderSame ==
  ASSUME NEW E \in SUBSET (Stem \X Stem), NEW R \in SUBSET Stem, Closed(E, R), NEW n \in R
  PROVE  LET D == {e \in E : e[1] \in R} IN Under(D, n) = Under(E, n) /\ Under(E, n) \subseteq R
<1> DEFINE D == {e \in E : e[1] \in R}
<1>1. D \in SUBSET E /\ D \in SUBSET (Stem \X Stem)
  OBVIOUS
<1>2. Under(E, n) \subseteq R
  BY UnderIs DEF Closed
<1>3. Under(D, n) \subseteq Under(E, n)
  BY <1>1, UnderLess
<1>4. Under(E, n) \subseteq Under(D, n)
  <2>1. /\ Under(D, n) \subseteq Stem /\ Closed(D, Under(D, n))
        /\ \A e \in D : e[1] = n => e[2] \in Under(D, n)
    BY <1>1, UnderIs
  <2>2. Closed(E, Under(D, n))
    BY <1>2, <1>3, <2>1 DEF Closed
  <2>3. \A e \in E : e[1] = n => e[2] \in Under(D, n)
    BY <2>1
  <2> HIDE DEF D
  <2> QED BY <2>1, <2>2, <2>3, UnderIs
<1> QED BY <1>2, <1>3, <1>4

\* Where every node of a finite set has an edge from within, one is on a cycle.
LEMMA CycleWithin ==
  ASSUME NEW E \in SUBSET (Stem \X Stem), NEW U \in SUBSET Stem, U # {},
         \A n \in U : \E e \in E : e[2] = n /\ e[1] \in U
  PROVE  \E n \in U : OnCycle(E, n)
<1> SUFFICES ASSUME \A n \in U : n \notin Under(E, n) PROVE FALSE
  BY DEF OnCycle
<1> DEFINE from(n) == {m \in U : n \in Under(E, m)}
           B == {from(n) : n \in U}
           W == StrictSubsetOrdering(U)
           F == FiniteSubsetsOf(U)
<1>1. IsFiniteSet(U)
  BY PlanAssumption, FS_Subset
<1>2. IsWellFoundedOn(W, F) /\ B \subseteq F /\ B # {}
  <2>1. IsWellFoundedOn(W, F)
    BY FS_StrictSubsetOrderingWellFounded
  <2>2. \A n \in U : from(n) \in SUBSET U
    OBVIOUS
  <2>3. B \subseteq F
    BY <1>1, <2>2, FS_Subset DEF FiniteSubsetsOf
  <2>4. B # {}
    <3>1. PICK u \in U : TRUE
      OBVIOUS
    <3>2. from(u) \in B
      BY <3>1
    <3> QED BY <3>2
  <2> QED BY ONLY <2>1, <2>3, <2>4
<1>3. PICK X \in B : \A Y \in B : ~(<<Y, X>> \in W)
  <2> HIDE DEF B, W, F
  <2> QED BY <1>2, WFMin
<1>4. PICK n \in U : X = from(n)
  BY <1>3
<1>5. PICK e \in E : e[2] = n /\ e[1] \in U
  BY <1>4
<1> DEFINE p == e[1]
<1>6. p \in from(n) /\ p \notin from(p)
  BY <1>5, UnderIs
<1>7. from(p) \subseteq from(n)
  <2> SUFFICES ASSUME NEW m \in U, p \in Under(E, m) PROVE n \in Under(E, m)
    OBVIOUS
  <2>1. n \in Under(E, p) /\ Under(E, p) \subseteq Under(E, m)
    BY <1>5, UnderIs, UnderTrans
  <2> QED BY <2>1
<1>8. <<from(p), from(n)>> \in W
  BY <1>6, <1>7 DEF StrictSubsetOrdering
<1> QED BY <1>3, <1>4, <1>5, <1>8

\* A closed path.
Around(E, c) ==
  /\ c \in Seq(Stem) /\ c # <<>>
  /\ \A i \in DOMAIN c : <<c[i], IF i = Len(c) THEN c[1] ELSE c[i + 1]>> \in E

LEMMA Upward ==
  ASSUME NEW L \in Nat, NEW K \in SUBSET (1 .. L), NEW k \in K, \A i \in K : i < L => i + 1 \in K
  PROVE  \A i \in k .. L : i \in K
<1> DEFINE S == {i \in k .. L : i \notin K}
<1>1. SUFFICES ASSUME S # {} PROVE FALSE
  OBVIOUS
<1>2. S \in SUBSET Nat
  OBVIOUS
<1>3. PICK i \in S : \A j \in S : i <= j
  BY <1>1, <1>2, NatMin
<1>4. i \in k .. L /\ i \notin K /\ i # k
  BY <1>3
<1>5. i - 1 \in k .. L /\ i - 1 \notin S
  BY <1>3, <1>4
<1> QED BY <1>4, <1>5

\* All of it leads to all of it.
LEMMA AroundIs ==
  ASSUME NEW E \in SUBSET (Stem \X Stem), NEW c, Around(E, c), NEW i \in DOMAIN c, NEW j \in DOMAIN c
  PROVE  c[j] \in Under(E, c[i])
<1> DEFINE L == Len(c)
           K == {k \in 1 .. L : c[k] \in Under(E, c[i])}
<1>1. L \in Nat /\ DOMAIN c = 1 .. L /\ L >= 1
  <2>1. L \in Nat /\ DOMAIN c = 1 .. L
    BY LenProperties DEF Around
  <2> QED BY <2>1
<1>2. ASSUME NEW k \in K PROVE (IF k = L THEN 1 ELSE k + 1) \in K
  <2>1. <<c[k], IF k = L THEN c[1] ELSE c[k + 1]>> \in E
    BY <1>1 DEF Around
  <2>2. (IF k = L THEN c[1] ELSE c[k + 1]) \in Under(E, c[i])
    BY <2>1, UnderIs DEF Closed
  <2>3. CASE k = L
    <3>1. c[1] \in Under(E, c[i]) /\ 1 \in 1 .. L
      BY <1>1, <2>2, <2>3
    <3> QED BY <2>3, <3>1
  <2>4. CASE k # L
    <3>1. c[k + 1] \in Under(E, c[i])
      BY <2>2, <2>4
    <3>2. k + 1 \in 1 .. L
      <4>1. k \in 1 .. L
        OBVIOUS
      <4> HIDE DEF L
      <4> QED BY <1>1, <2>4, <4>1
    <3> QED BY <2>4, <3>1, <3>2
  <2> QED BY <2>3, <2>4
<1>3. (IF i = L THEN 1 ELSE i + 1) \in K
  <2>1. <<c[i], IF i = L THEN c[1] ELSE c[i + 1]>> \in E
    BY <1>1 DEF Around
  <2>2. (IF i = L THEN c[1] ELSE c[i + 1]) \in Under(E, c[i])
    BY <2>1, UnderIs
  <2> QED BY <1>1, <2>2
<1>4. \A k \in K : k < L => k + 1 \in K
  <2> TAKE k \in K
  <2> HAVE k < L
  <2>1. (IF k = L THEN 1 ELSE k + 1) \in K
    BY <1>2
  <2> HIDE DEF K
  <2> QED BY <1>1, <2>1
<1>5. PICK k \in K : TRUE
  BY <1>3
<1>6. L \in K
  <2>1. \A h \in k .. L : h \in K
    BY <1>1, <1>4, Upward
  <2> QED BY <1>1, <2>1
<1>7. 1 \in K
  <2>1. (IF L = L THEN 1 ELSE L + 1) \in K
    BY <1>2, <1>6
  <2> QED BY <2>1
<1>8. \A h \in 1 .. L : h \in K
  BY <1>1, <1>4, <1>7, Upward
<1> QED BY <1>1, <1>8

-----------------------------------------------------------------------------
(* The graph.                                                              *)

LEMMA FileIs ==
  ASSUME dirs \in Layouts
  PROVE  /\ Plans \subseteq Stem /\ \A p \in Plans : File(p) \in Content
         /\ \A p \in Stem : Candidates(p) # {} => Candidate(p) \in Content
         /\ \A p \in Plans : File(p).kind # "irregular" =>
              Candidates(p) # {} /\ Candidate(p) = File(p)
         /\ \A p : Candidates(p) # {} => p \in Plans
<1>1. /\ DOMAIN dirs \subseteq Nat
      /\ \A d \in DOMAIN dirs : DOMAIN dirs[d] \subseteq Stem /\ dirs[d] \in [DOMAIN dirs[d] -> Content]
  BY PlanAssumption
<1>2. Plans \subseteq Stem
  BY <1>1 DEF Plans
<1>3. ASSUME NEW p \in Plans PROVE File(p) \in Content
  <2> DEFINE D == {d \in DOMAIN dirs : p \in DOMAIN dirs[d]}
  <2>1. D \in SUBSET Nat /\ D # {}
    BY <1>1 DEF Plans
  <2>2. Min(D) \in D
    BY <2>1, MinIs
  <2>3. dirs[Min(D)][p] \in Content
    BY <1>1, <2>2
  <2> QED BY <2>3 DEF File
<1>4. ASSUME NEW p, Candidates(p) # {} PROVE Candidate(p) \in Content /\ p \in Plans
  <2>1. Candidates(p) \in SUBSET Nat
    BY <1>1 DEF Candidates
  <2>2. Min(Candidates(p)) \in Candidates(p)
    BY <1>4, <2>1, MinIs
  <2>3. Min(Candidates(p)) \in DOMAIN dirs /\ p \in DOMAIN dirs[Min(Candidates(p))]
    BY <2>2 DEF Candidates
  <2> QED BY <1>1, <2>3 DEF Candidate, Plans
<1>5. ASSUME NEW p \in Plans, File(p).kind # "irregular"
      PROVE  Candidates(p) # {} /\ Candidate(p) = File(p)
  <2> DEFINE D == {d \in DOMAIN dirs : p \in DOMAIN dirs[d]}
             C == Candidates(p)
  <2>1. D \in SUBSET Nat /\ D # {}
    BY <1>1 DEF Plans
  <2>2. C \subseteq D /\ \A d \in D : dirs[d][p].kind # "irregular" => d \in C
    BY DEF Candidates
  <2>3. File(p) = dirs[Min(D)][p]
    BY DEF File
  <2>4. Candidate(p) = dirs[Min(C)][p]
    BY DEF Candidate
  <2> HIDE DEF C, D
  <2>5. Min(D) \in D /\ \A y \in D : Min(D) <= y
    BY <2>1, MinIs
  <2>6. Min(D) \in C /\ C \in SUBSET Nat
    BY <1>5, <2>1, <2>2, <2>3, <2>5
  <2>7. Min(C) \in C /\ \A y \in C : Min(C) <= y
    BY <2>6, MinIs
  <2>8. Min(C) = Min(D)
    <3>1. Min(C) <= Min(D) /\ Min(D) <= Min(C) /\ Min(C) \in Nat /\ Min(D) \in Nat
      BY <2>1, <2>2, <2>5, <2>6, <2>7
    <3> QED BY <3>1
  <2> QED BY <2>3, <2>4, <2>6, <2>8 DEF C
<1> QED BY <1>2, <1>3, <1>4, <1>5

LEMMA BlockIs ==
  ASSUME NEW lines \in Seq(Line)
  PROVE  FindStatusBlock(lines) \in Seq(Line)
<1> DEFINE starts == {i \in DOMAIN lines : lines[i].quoted /\ lines[i].status}
           ends(s) == {i \in s..Len(lines) : ~lines[i].quoted} \cup {Len(lines) + 1}
<1>1. Len(lines) \in Nat /\ DOMAIN lines = 1 .. Len(lines)
  BY LenProperties
<1>2. CASE starts = {}
  BY <1>2, EmptySeq DEF FindStatusBlock
<1>3. CASE starts # {}
  <2>0. starts \in SUBSET Nat
    BY <1>1
  <2>1. Min(starts) \in starts
    <3> HIDE DEF starts
    <3> QED BY <1>3, <2>0, MinIs
  <2> DEFINE s == Min(starts)
  <2>2. s \in 1 .. Len(lines)
    BY <1>1, <2>1
  <2> HIDE DEF s
  <2>3. ends(s) \in SUBSET Nat /\ ends(s) # {} /\ \A i \in ends(s) : i >= s /\ i <= Len(lines) + 1
    BY <1>1, <2>2
  <2>4. Min(ends(s)) \in ends(s)
    BY <2>3, MinIs
  <2> DEFINE e == Min(ends(s))
  <2>5. e \in Nat /\ e >= s /\ e <= Len(lines) + 1
    BY <2>3, <2>4
  <2> HIDE DEF e
  <2>6. SubSeq(lines, s, e - 1) \in Seq(Line)
    BY <1>1, <2>2, <2>5, SubSeqProperties
  <2>7. FindStatusBlock(lines) = SubSeq(lines, s, e - 1)
    BY <1>3 DEF FindStatusBlock, s, e
  <2> QED BY <2>6, <2>7
<1> QED BY <1>2, <1>3

LEMMA BlockHolds ==
  ASSUME NEW block \in Seq(Line)
  PROVE  /\ ParseDependsOn(block) \subseteq Stem
         /\ ExtractLifecycle(block) \in Word \cup {"none"}
         /\ block = <<>> => ExtractLifecycle(block) = "none"
<1>1. DOMAIN block = 1 .. Len(block) /\ Len(block) \in Nat /\ \A i \in DOMAIN block : block[i] \in Line
  BY LenProperties, ElementOfSeq
<1>2. ParseDependsOn(block) \subseteq Stem
  BY <1>1 DEF ParseDependsOn, ToSet, Line
<1> DEFINE worded == {i \in DOMAIN block : block[i].word # "none"}
<1>3. CASE worded = {}
  BY <1>2, <1>3 DEF ExtractLifecycle
<1>4. CASE worded # {}
  <2>0. worded \in SUBSET Nat
    BY <1>1
  <2>1. Min(worded) \in worded
    <3> HIDE DEF worded
    <3> QED BY <1>4, <2>0, MinIs
  <2>2. ExtractLifecycle(block) = block[Min(worded)].word
    BY <1>4 DEF ExtractLifecycle
  <2>3. block # <<>>
    BY <1>4
  <2> QED BY <1>1, <1>2, <2>1, <2>2, <2>3 DEF Line
<1> QED BY <1>3, <1>4

\* What the graph holds of one plan.
LEMMA PlanIs ==
  ASSUME dirs \in Layouts, NEW p \in Plans
  PROVE  /\ Deps(p) \subseteq Stem /\ Status(p) \in Word \cup {"?"}
         /\ FindStatusBlock(File(p).lines) \in Seq(Line)
<1>1. FindStatusBlock(File(p).lines) \in Seq(Line)
  BY FileIs, BlockIs DEF Content
<1>2. "DRAFT" \in Word
  BY DEF Word
<1> QED BY <1>1, <1>2, BlockHolds DEF Deps, Status

\* Edges seen from either end.
LEMMA ChildIs ==
  ASSUME NEW A, NEW B, NEW g, g.edges \subseteq A \X B, NEW n, NEW m
  PROVE  /\ m \in Children(g, n) <=> <<n, m>> \in g.edges
         /\ m \in Parents(g, n) <=> <<m, n>> \in g.edges
<1>1. \A e \in g.edges : e = <<e[1], e[2]>>
  OBVIOUS
<1>2. m \in Children(g, n) <=> \E e \in g.edges : e[1] = n /\ e[2] = m
  BY DEF Children
<1>3. m \in Parents(g, n) <=> \E e \in g.edges : e[2] = n /\ e[1] = m
  BY DEF Parents
<1>4. (\E e \in g.edges : e[1] = n /\ e[2] = m) <=> <<n, m>> \in g.edges
  BY <1>1
<1>5. (\E e \in g.edges : e[2] = n /\ e[1] = m) <=> <<m, n>> \in g.edges
  BY <1>1
<1> QED BY <1>2, <1>3, <1>4, <1>5

\* The nodes and edges of a graph.
Shaped(g) ==
  /\ DOMAIN g = {"nodes", "edges", "missing", "cycles"}
  /\ Nodes(g) \subseteq Stem /\ g.edges \subseteq Nodes(g) \X Nodes(g)
  /\ \A n \in Nodes(g) : g.nodes[n] \in Word \cup {"?", "MISSING"}
  /\ g.missing \subseteq Nodes(g)

LEMMA BuildIs ==
  ASSUME dirs \in Layouts
  PROVE  /\ Shaped(BuildGraph) /\ BuildGraph.cycles = {} /\ Plans \subseteq Nodes(BuildGraph)
         /\ \A p \in Plans : /\ BuildGraph.nodes[p] = Status(p)
                             /\ Children(BuildGraph, p) = Deps(p)
         /\ \A n \in Nodes(BuildGraph) \ Plans : BuildGraph.nodes[n] = "MISSING"
<1> DEFINE named == UNION {Deps(p) : p \in Plans}
<1>1. /\ BuildGraph.nodes = [p \in Plans \cup named |-> IF p \in Plans THEN Status(p) ELSE "MISSING"]
      /\ BuildGraph.edges = {e \in Plans \X named : e[2] \in Deps(e[1])}
      /\ BuildGraph.missing = named \ Plans /\ BuildGraph.cycles = {}
  BY DEF BuildGraph
<1>2. Plans \subseteq Stem /\ named \subseteq Stem /\ \A p \in Plans : Status(p) \in Word \cup {"?"}
  BY FileIs, PlanIs
<1>3. Nodes(BuildGraph) = Plans \cup named
  BY <1>1 DEF Nodes
<1>4. Shaped(BuildGraph)
  <2>1. DOMAIN BuildGraph = {"nodes", "edges", "missing", "cycles"}
    BY DEF BuildGraph
  <2> HIDE DEF named
  <2> QED BY <1>1, <1>2, <1>3, <2>1 DEF Shaped
<1>5. ASSUME NEW p \in Plans PROVE Children(BuildGraph, p) = Deps(p)
  <2>1. \A d : d \in Deps(p) => <<p, d>> \in BuildGraph.edges
    BY <1>1
  <2>2. \A d : <<p, d>> \in BuildGraph.edges => d \in Deps(p)
    BY <1>1
  <2>3. BuildGraph.edges \subseteq Plans \X named
    BY <1>1
  <2>4. \A m : m \in Children(BuildGraph, p) <=> <<p, m>> \in BuildGraph.edges
    <3> HIDE DEF named
    <3> QED BY <2>3, ChildIs
  <2>5. \A m : m \in Children(BuildGraph, p) <=> m \in Deps(p)
    BY <2>1, <2>2, <2>4
  <2>6. \A m \in Children(BuildGraph, p) : m \in Deps(p)
    BY <2>5
  <2> QED BY <2>5, <2>6
<1> QED BY <1>1, <1>3, <1>4, <1>5

LEMMA BuildSame ==
  ASSUME dirs' = dirs
  PROVE  BuildGraph' = BuildGraph /\ Undecodable' = Undecodable
  BY DEF BuildGraph, Undecodable, Plans, Status, Deps, File

-----------------------------------------------------------------------------
(* The inductive invariant.                                                *)

\* On a reported cycle.
Flagged(g, n) == \E c \in g.cycles : n \in ToSet(c)
Reported(g) == \A c \in g.cycles : Around(g.edges, c)

\* Whoever is on a cycle is with some reported one.
AllFlagged(g) ==
  \A n \in Nodes(g) : OnCycle(g.edges, n) =>
    \E c \in g.cycles : \A m \in ToSet(c) : m \in Under(g.edges, n) /\ n \in Under(g.edges, m)

\* The search's stack is a path.
Frames == [node : Stem, todo : SUBSET Stem]
Path(g, s) ==
  /\ s \in Seq(Frames)
  /\ \A i \in DOMAIN s :
       /\ s[i].node \in Nodes(g) /\ s[i].todo \subseteq Children(g, s[i].node)
       /\ i < Len(s) => <<s[i].node, s[i + 1].node>> \in g.edges
       /\ \A j \in DOMAIN s : s[i].node = s[j].node => i = j

\* Of a node on no reported cycle, the dependencies looked at are done with, but
\* for the one being searched; and what is done with holds no other cycle.
Explored(g, s, v) ==
  /\ v \subseteq Nodes(g)
  /\ \A i \in DOMAIN s : s[i].node \notin v
  /\ \A i \in DOMAIN s :
       Flagged(g, s[i].node) \/ \A m \in Children(g, s[i].node) \ s[i].todo :
                                  m \in v \/ (i < Len(s) /\ m = s[i + 1].node)
  /\ \A n \in v : Flagged(g, n) \/ Children(g, n) \subseteq v
  /\ \A X \in SUBSET v : X = {} \/ \E n \in X : Flagged(g, n) \/ Children(g, n) \cap X = {}

Searched == pc = "cycles" => Path(graph, stack) /\ Explored(graph, stack, visited)

\* The graph is the one built until it is restricted.
Kept ==
  pc \in {"cycles", "below"} =>
    /\ graph.nodes = BuildGraph.nodes /\ graph.edges = BuildGraph.edges /\ Reported(graph)
    /\ graph.missing = BuildGraph.missing

\* What was taken is copied; what it leads to is taken or queued.
Taken ==
  pc = "below" =>
    /\ visited \subseteq Nodes(graph) /\ queue \subseteq Nodes(graph)
    /\ DOMAIN sub = DOMAIN graph
    /\ Nodes(sub) = visited /\ \A n \in visited : sub.nodes[n] = graph.nodes[n]
    /\ sub.edges = {e \in graph.edges : e[1] \in visited} /\ sub.missing = {}
    /\ root \in visited \cup queue /\ visited \cup queue \subseteq Below(graph.edges, {root})
    /\ \A n \in visited : Children(graph, n) \subseteq visited \cup queue
    /\ AllFlagged(graph)

\* A node that waits for a plan in motion; those that do; and the edges to others.
Waits(g, n, some) == Below(g.edges, {n}) \cap some # {}
Open == {n \in Nodes(graph) : Waits(graph, n, Anchors)}
Shut == {e \in graph.edges : e[2] \notin Open}
Spreading ==
  /\ pc \in {"up", "down"} => shipped = FALSE /\ Anchors \subseteq visible /\ queue \subseteq visible
  /\ pc = "up" =>
       /\ \A n \in visible : Waits(graph, n, Anchors)
       /\ \A n \in visible \ queue : Parents(graph, n) \subseteq visible
  /\ pc = "down" =>
       /\ Open \subseteq visible /\ visible \subseteq Open \cup Below(Shut, Anchors)
       /\ queue \subseteq Below(Shut, Anchors)
       /\ \A n \in (Anchors \cup (visible \ Open)) \ queue : Children(graph, n) \subseteq visible

\* What is drawn leads to what is drawn or still to draw, and so do the roots.
Drawing ==
  pc \in {"draw", "done"} =>
    /\ stack \in Seq(visible) /\ drawn \subseteq visible /\ Roots \subseteq drawn \cup ToSet(stack)
    /\ \A n \in drawn : Children(graph, n) \cap visible \subseteq drawn \cup ToSet(stack)
    /\ pc = "done" => stack = <<>>

\* What each search finds and leaves.
Fresh ==
  /\ pc \in {"build", "cycles", "below", "filter", "up", "down", "roots", "draw", "done", "failed"}
  /\ dirs \in Layouts /\ (pc \notin {"build", "failed"} => Undecodable = {})
  /\ pc = "build" => graph = Empty /\ stack = <<>> /\ visited = {}
  /\ pc \in {"build", "cycles", "filter"} => queue = {}
  /\ pc \in {"build", "cycles", "below", "filter"} => visible = {}
  /\ pc \notin {"draw", "done"} => drawn = {}
  /\ pc # "below" => sub = Empty
  /\ visited \cup queue \cup visible \subseteq Nodes(graph)

PlanInv ==
  /\ Shaped(graph) /\ Fresh /\ Kept /\ Searched /\ Taken /\ Spreading /\ Drawing
  /\ CyclesAreFlagged /\ RootSelects /\ OpenIsVisible

-----------------------------------------------------------------------------
(* The search for cycles.                                                  *)

\* A closed path may start at any of its nodes.
LEMMA CanonicalIs ==
  ASSUME NEW E \in SUBSET (Stem \X Stem), NEW c, Around(E, c)
  PROVE  Around(E, Canonical(c)) /\ ToSet(c) \subseteq ToSet(Canonical(c))
<1> DEFINE L == Len(c)
           I == {k \in DOMAIN c : c[k] = Min(ToSet(c))}
           i == Min(I)
           A == SubSeq(c, i, L)
           B == SubSeq(c, 1, i - 1)
           d == A \o B
<1>1. L \in Nat /\ DOMAIN c = 1 .. L /\ L >= 1 /\ \A k \in 1 .. L : c[k] \in Stem
  <2>1. c \in Seq(Stem) /\ c # <<>>
    BY DEF Around
  <2> QED BY <2>1, LenProperties, ElementOfSeq, EmptySeq
<1>2. i \in 1 .. L
  <2>0. \A k \in 1 .. L : c[k] \in Nat
    BY <1>1, PlanAssumption
  <2>1. ToSet(c) \in SUBSET Nat /\ ToSet(c) # {}
    <3>1. 1 \in 1 .. L /\ c[1] \in ToSet(c)
      BY <1>1 DEF ToSet
    <3>2. ToSet(c) = {c[k] : k \in 1 .. L}
      BY <1>1 DEF ToSet
    <3> HIDE DEF L
    <3> QED BY <2>0, <3>1, <3>2
  <2>2. Min(ToSet(c)) \in ToSet(c)
    BY <2>1, MinIs
  <2>3. I \in SUBSET Nat /\ I # {}
    <3>1. PICK k \in DOMAIN c : c[k] = Min(ToSet(c))
      BY <2>2 DEF ToSet
    <3>2. k \in I
      BY <3>1
    <3>3. I \subseteq 1 .. L
      BY <1>1
    <3> HIDE DEF I, L
    <3> QED BY <1>1, <3>2, <3>3
  <2>4. i \in I
    <3> HIDE DEF I
    <3> QED BY <2>3, MinIs
  <2> QED BY <1>1, <2>4
<1>3. Canonical(c) = d
  BY DEF Canonical
<1> HIDE DEF i
<1>4. /\ A \in Seq(Stem) /\ Len(A) = L - i + 1 /\ \A j \in 1 .. L - i + 1 : A[j] = c[i + j - 1]
  <2>1. i \in Int /\ L \in Int /\ i <= L /\ \A k \in i .. L : c[k] \in Stem
    BY <1>1, <1>2
  <2> QED BY <2>1, SubSeqProperties
<1>5. /\ B \in Seq(Stem) /\ Len(B) = i - 1 /\ \A j \in 1 .. i - 1 : B[j] = c[j]
  <2>1. 1 \in Int /\ i - 1 \in Int /\ \A k \in 1 .. i - 1 : c[k] \in Stem
    BY <1>1, <1>2
  <2>2. B \in Seq(Stem) /\ Len(B) = (IF 1 <= i - 1 THEN i - 1 - 1 + 1 ELSE 0)
        /\ \A j \in 1 .. i - 1 - 1 + 1 : B[j] = c[1 + j - 1]
    BY <2>1, SubSeqProperties
  <2>3. Len(B) = i - 1
    BY <1>2, <2>2
  <2>4. \A j \in 1 .. i - 1 : B[j] = c[j]
    <3> TAKE j \in 1 .. i - 1
    <3>1. j \in 1 .. i - 1 - 1 + 1 /\ 1 + j - 1 = j
      BY <1>2
    <3> QED BY <2>2, <3>1
  <2> QED BY <2>2, <2>3, <2>4
<1> HIDE DEF A, B
<1>6. d \in Seq(Stem) /\ Len(d) = L /\ \A j \in 1 .. L : d[j] = IF j <= L - i + 1 THEN c[i + j - 1]
                                                                ELSE c[j - (L - i + 1)]
  <2>1. d \in Seq(Stem) /\ Len(d) = Len(A) + Len(B)
        /\ \A j \in 1 .. Len(A) + Len(B) : d[j] = IF j <= Len(A) THEN A[j] ELSE B[j - Len(A)]
    BY <1>4, <1>5, ConcatProperties
  <2>2. Len(A) + Len(B) = L
    BY <1>1, <1>2, <1>4, <1>5
  <2>3. ASSUME NEW j \in 1 .. L
        PROVE  d[j] = IF j <= L - i + 1 THEN c[i + j - 1] ELSE c[j - (L - i + 1)]
    <3>1. CASE j <= L - i + 1
      <4>1. j \in 1 .. L - i + 1
        BY <1>1, <1>2, <3>1
      <4> QED BY <1>4, <2>1, <2>2, <3>1, <4>1
    <3>2. CASE ~(j <= L - i + 1)
      <4>1. j - (L - i + 1) \in 1 .. i - 1
        BY <1>1, <1>2, <3>2
      <4> QED BY <1>4, <1>5, <2>1, <2>2, <3>2, <4>1
    <3> QED BY <3>1, <3>2
  <2> QED BY <2>1, <2>2, <2>3
<1> HIDE DEF d
<1>11. ASSUME NEW q \in 1 .. L, ~(q <= L - i + 1), NEW k, k = q - (L - i + 1) PROVE d[q] = c[k]
  BY <1>6, <1>11
<1>7. DOMAIN d = 1 .. L
  BY <1>6, LenProperties
<1>8. ASSUME NEW j \in DOMAIN d
      PROVE  <<d[j], IF j = Len(d) THEN d[1] ELSE d[j + 1]>> \in E
  <2>0. \A k \in 1 .. L : <<c[k], IF k = L THEN c[1] ELSE c[k + 1]>> \in E
    BY <1>1 DEF Around
  <2>1. CASE j < L - i + 1
    <3>1. i + j - 1 \in 1 .. L - 1 /\ j # L /\ j + 1 \in 1 .. L /\ j <= L - i + 1 /\ j + 1 <= L - i + 1
          /\ i + (j + 1) - 1 = (i + j - 1) + 1 /\ j \in 1 .. L /\ i + j - 1 \in 1 .. L /\ i + j - 1 # L
      BY <1>1, <1>2, <1>7, <2>1
    <3> QED BY <1>6, <2>0, <3>1
  <2>2. CASE j = L - i + 1
    <3>1. d[j] = c[L]
      <4>1. i + j - 1 = L /\ j <= L - i + 1 /\ j \in 1 .. L
        BY <1>1, <1>2, <1>7, <2>2
      <4> QED BY <1>6, <4>1
    <3>2. (IF j = L THEN d[1] ELSE d[j + 1]) = c[1]
      <4>1. CASE j = L
        <5>1. i = 1 /\ 1 \in 1 .. L /\ 1 <= L - i + 1 /\ i + 1 - 1 = 1
          BY <1>1, <1>2, <2>2, <4>1
        <5>2. d[1] = c[1]
          BY <1>6, <5>1
        <5> QED BY <4>1, <5>2
      <4>2. CASE j # L
        <5>1. j + 1 \in 1 .. L /\ ~(j + 1 <= L - i + 1) /\ j + 1 - (L - i + 1) = 1
          BY <1>1, <1>2, <1>7, <2>2, <4>2
        <5>3. d[j + 1] = c[1]
          <6> HIDE DEF L
          <6> QED BY <1>1, <1>2, <1>7, <1>11, <5>1
        <5> QED BY <4>2, <5>3
      <4> QED BY <4>1, <4>2
    <3>3. <<c[L], c[1]>> \in E
      <4>1. L \in 1 .. L
        BY <1>1
      <4>2. <<c[L], IF L = L THEN c[1] ELSE c[L + 1]>> \in E
        BY <2>0, <4>1
      <4> QED BY <4>2
    <3> QED BY <1>6, <3>1, <3>2, <3>3
  <2>3. CASE j > L - i + 1
    <3>1. /\ j - (L - i + 1) \in 1 .. L /\ j - (L - i + 1) < i - 1 + 1 /\ ~(j <= L - i + 1) /\ j \in 1 .. L
          /\ j - (L - i + 1) # L
      BY <1>1, <1>2, <1>7, <2>3
    <3>2. d[j] = c[j - (L - i + 1)]
      BY <1>6, <3>1
    <3>3. <<c[j - (L - i + 1)], c[j - (L - i + 1) + 1]>> \in E
      BY <2>0, <3>1
    <3>4. (IF j = L THEN d[1] ELSE d[j + 1]) = c[j - (L - i + 1) + 1]
      <4>1. CASE j = L
        <5>1. 1 \in 1 .. L /\ 1 <= L - i + 1 /\ i + 1 - 1 = j - (L - i + 1) + 1
          BY <1>1, <1>2, <4>1
        <5>2. d[1] = c[i + 1 - 1]
          BY <1>6, <5>1
        <5> QED BY <4>1, <5>1, <5>2
      <4>2. CASE j # L
        <5>1. j + 1 \in 1 .. L /\ ~(j + 1 <= L - i + 1) /\ j + 1 - (L - i + 1) = j - (L - i + 1) + 1
          BY <1>1, <1>2, <3>1, <4>2
        <5>2. d[j + 1] = c[j - (L - i + 1) + 1]
          <6> HIDE DEF L
          <6> QED BY <1>1, <1>2, <1>7, <1>11, <5>1
        <5> QED BY <4>2, <5>2
      <4> QED BY <4>1, <4>2
    <3> QED BY <1>6, <3>2, <3>3, <3>4
  <2> QED BY <1>1, <1>2, <1>7, <2>1, <2>2, <2>3
<1>9. ToSet(c) \subseteq ToSet(d)
  <2> SUFFICES ASSUME NEW k \in 1 .. L PROVE \E j \in 1 .. L : d[j] = c[k]
    BY <1>1, <1>7 DEF ToSet
  <2>1. CASE k >= i
    <3>1. k - i + 1 \in 1 .. L /\ k - i + 1 <= L - i + 1 /\ i + (k - i + 1) - 1 = k
      BY <1>1, <1>2, <2>1
    <3> QED BY <1>6, <3>1
  <2>2. CASE k < i
    <3>1. k + (L - i + 1) \in 1 .. L /\ ~(k + (L - i + 1) <= L - i + 1) /\ k + (L - i + 1) - (L - i + 1) = k
      BY <1>1, <1>2, <2>2
    <3>2. d[k + (L - i + 1)] = c[k]
      <4> HIDE DEF L
      <4> QED BY <1>1, <1>2, <1>11, <3>1
    <3> QED BY <3>1, <3>2
  <2>3. k \in Nat /\ i \in Nat
    BY <1>1, <1>2
  <2> QED BY <2>1, <2>2, <2>3
<1>10. d # <<>>
  BY <1>1, <1>6, EmptySeq
<1> QED BY <1>3, <1>6, <1>8, <1>9, <1>10 DEF Around


\* The path from a node on, closed by the edge back to it.
LEMMA LoopIs ==
  ASSUME Shaped(graph), Path(graph, stack), stack # <<>>, NEW n \in OnStack,
         <<Last(stack).node, n>> \in graph.edges
  PROVE  Around(graph.edges, Loop(n)) /\ Last(stack).node \in ToSet(Loop(n))
<1> DEFINE L == Len(stack)
           nodes == [i \in DOMAIN stack |-> stack[i].node]
           I == {i \in DOMAIN nodes : nodes[i] = n}
           s == Min(I)
           c == SubSeq(nodes, s, L)
<1>1. /\ L \in Nat /\ L >= 1 /\ DOMAIN stack = 1 .. L
      /\ \A i \in 1 .. L : stack[i].node \in Stem
      /\ \A i \in 1 .. L : i < L => <<stack[i].node, stack[i + 1].node>> \in graph.edges
  <2>1. stack \in Seq(Frames)
    BY DEF Path
  <2>2. L \in Nat /\ L # 0 /\ DOMAIN stack = 1 .. L /\ \A i \in 1 .. L : stack[i] \in Frames
    BY <2>1, LenProperties, EmptySeq, ElementOfSeq
  <2> QED BY <2>2 DEF Path, Frames
<1>2. nodes \in Seq(Stem) /\ Len(nodes) = L /\ DOMAIN nodes = 1 .. L
      /\ \A i \in 1 .. L : nodes[i] = stack[i].node
  <2> HIDE DEF L
  <2> QED BY <1>1
<1> HIDE DEF nodes
<1>3. s \in 1 .. L /\ nodes[s] = n
  <2>1. PICK f \in ToSet(stack) : n = f.node
    BY DEF OnStack
  <2>2. PICK i \in DOMAIN stack : f = stack[i]
    BY DEF ToSet
  <2>3. i \in I
    BY <1>1, <1>2, <2>1, <2>2
  <2>4. I \in SUBSET Nat
    BY <1>2
  <2>5. s \in I
    <3> HIDE DEF I
    <3> QED BY <2>3, <2>4, MinIs
  <2> QED BY <1>2, <2>5
<1>4. Loop(n) = c
  BY <1>2 DEF Loop, nodes
<1> HIDE DEF s
<1>5. c \in Seq(Stem) /\ Len(c) = L - s + 1 /\ \A j \in 1 .. L - s + 1 : c[j] = nodes[s + j - 1]
  <2>1. s \in Int /\ L \in Int /\ s <= L /\ \A k \in s .. L : nodes[k] \in Stem
    BY <1>1, <1>2, <1>3
  <2> QED BY <2>1, SubSeqProperties
<1> HIDE DEF c
<1>6. DOMAIN c = 1 .. L - s + 1 /\ L - s + 1 \in 1 .. L - s + 1 /\ 1 \in 1 .. L - s + 1
  <2>1. DOMAIN c = 1 .. Len(c)
    BY <1>5, LenProperties
  <2>2. L - s + 1 >= 1 /\ L - s + 1 \in Nat
    BY <1>1, <1>3
  <2> QED BY <1>5, <2>1, <2>2
<1>7. c[L - s + 1] = stack[L].node /\ c[1] = n
  <2>1. s + (L - s + 1) - 1 = L /\ s + 1 - 1 = s /\ L \in 1 .. L
    BY <1>1, <1>3
  <2>2. c[L - s + 1] = nodes[L] /\ c[1] = nodes[s]
    BY <1>5, <1>6, <2>1
  <2> QED BY <1>2, <1>3, <2>1, <2>2
<1>8. ASSUME NEW j \in DOMAIN c PROVE <<c[j], IF j = Len(c) THEN c[1] ELSE c[j + 1]>> \in graph.edges
  <2>1. CASE j = Len(c)
    BY <1>5, <1>7, <2>1 DEF Last
  <2>2. CASE j # Len(c)
    <3> DEFINE k == s + j - 1
    <3>0. j \in 1 .. L - s + 1 /\ j # L - s + 1
      BY <1>5, <1>6, <2>2
    <3> HIDE DEF L
    <3>1. k \in 1 .. L /\ k + 1 \in 1 .. L /\ k < L /\ s + (j + 1) - 1 = k + 1
          /\ j \in 1 .. L - s + 1 /\ j + 1 \in 1 .. L - s + 1
      BY <1>1, <1>3, <3>0
    <3>2. c[j] = nodes[k] /\ c[j + 1] = nodes[k + 1]
      <4>1. s + j - 1 = k
        OBVIOUS
      <4>2. c[j] = nodes[s + j - 1]
        BY <1>5, <3>0
      <4>3. c[j + 1] = nodes[s + (j + 1) - 1]
        <5> HIDE DEF k
        <5> QED BY <1>1, <1>3, <1>5, <3>0, <3>1
      <4> QED BY <3>1, <4>1, <4>2, <4>3
    <3> HIDE DEF k
    <3>3. <<nodes[k], nodes[k + 1]>> \in graph.edges
      BY <1>1, <1>2, <3>1
    <3> QED BY <2>2, <3>2, <3>3
  <2> QED BY <2>1, <2>2
<1>9. c # <<>>
  BY <1>6, EmptySeq
<1> QED BY <1>4, <1>5, <1>6, <1>7, <1>8, <1>9 DEF Around, ToSet, Last

\* A dependency of the last frame has been looked at.
Rest(n) == [stack EXCEPT ![Len(stack)].todo = @ \ {n}]

LEMMA RestIs ==
  ASSUME stack \in Seq(Frames), stack # <<>>, NEW n
  PROVE  /\ Len(stack) \in Nat /\ Len(stack) >= 1 /\ DOMAIN stack = 1 .. Len(stack)
         /\ Rest(n) \in Seq(Frames) /\ Len(Rest(n)) = Len(stack)
         /\ \A i \in 1 .. Len(stack) :
              /\ stack[i] \in Frames /\ Rest(n)[i].node = stack[i].node
              /\ Rest(n)[i].todo = IF i = Len(stack) THEN stack[i].todo \ {n} ELSE stack[i].todo
<1> DEFINE L == Len(stack)
           f == [stack[L] EXCEPT !.todo = @ \ {n}]
<1>1. L \in Nat /\ L # 0 /\ DOMAIN stack = 1 .. L /\ \A i \in 1 .. L : stack[i] \in Frames
  BY LenProperties, EmptySeq, ElementOfSeq
<1>2. f \in Frames /\ f.node = stack[L].node /\ f.todo = stack[L].todo \ {n}
  BY <1>1 DEF Frames
<1>3. Rest(n) = [stack EXCEPT ![L] = f]
  BY DEF Rest
<1> HIDE DEF f
<1>4. Rest(n) \in Seq(Frames) /\ Len(Rest(n)) = L
      /\ \A i \in 1 .. L : Rest(n)[i] = IF i = L THEN f ELSE stack[i]
  BY <1>1, <1>2, <1>3, ExceptSeq
<1>5. L >= 1
  BY <1>1
<1>6. ASSUME NEW i \in 1 .. L
      PROVE  /\ stack[i] \in Frames /\ Rest(n)[i].node = stack[i].node
             /\ Rest(n)[i].todo = IF i = L THEN stack[i].todo \ {n} ELSE stack[i].todo
  BY <1>1, <1>2, <1>4
<1> QED BY <1>1, <1>4, <1>5, <1>6


\* A step of the search leaves all but the stack, what it is done with and what it reports.
Found ==
  /\ PlanInv /\ pc = "cycles" /\ pc' = "cycles"
  /\ UNCHANGED <<args, queue, sub, visible, drawn>>
  /\ graph'.nodes = graph.nodes /\ graph'.edges = graph.edges /\ graph'.missing = graph.missing
  /\ DOMAIN graph' = DOMAIN graph

LEMMA FoundKeeps ==
  ASSUME Found, Reported(graph)', Path(graph, stack)', Explored(graph, stack, visited)'
  PROVE  PlanInv'
<1>1. BuildGraph' = BuildGraph
  BY BuildSame DEF Found, args
<1>2. Nodes(graph)' = Nodes(graph)
  BY DEF Found, Nodes
<1>3. Shaped(graph)'
  BY <1>2 DEF Found, PlanInv, Shaped
<1>4. visited' \subseteq Nodes(graph)'
  BY DEF Explored
<1>5. Fresh'
  BY <1>2, <1>4, BuildSame DEF Found, PlanInv, Fresh, args
<1>6. Kept' /\ Searched'
  BY <1>1 DEF Found, PlanInv, Kept, Searched
<1>7. Taken' /\ Spreading' /\ Drawing' /\ CyclesAreFlagged' /\ RootSelects' /\ OpenIsVisible'
  BY DEF Found, Taken, Spreading, Drawing, CyclesAreFlagged, RootSelects, OpenIsVisible
<1> QED BY <1>3, <1>5, <1>6, <1>7 DEF PlanInv

\* Edges of the graph, from either end.
LEMMA EdgeIs ==
  ASSUME NEW g, Shaped(g), NEW n, NEW m
  PROVE  /\ m \in Children(g, n) <=> <<n, m>> \in g.edges
         /\ m \in Parents(g, n) <=> <<m, n>> \in g.edges
         /\ <<n, m>> \in g.edges => n \in Nodes(g) /\ m \in Nodes(g)
<1>1. g.edges \subseteq Nodes(g) \X Nodes(g)
  BY DEF Shaped
<1> QED BY <1>1, ChildIs

LEMMA KinAreNodes ==
  ASSUME NEW g, Shaped(g), NEW n
  PROVE  Children(g, n) \subseteq Nodes(g) /\ Parents(g, n) \subseteq Nodes(g) /\ Nodes(g) \in SUBSET Stem
         /\ g.edges \in SUBSET (Stem \X Stem)
  BY EdgeIs DEF Shaped

LEMMA SearchIs ==
  ASSUME PlanInv, pc = "cycles"
  PROVE  /\ Shaped(graph) /\ Reported(graph) /\ Path(graph, stack) /\ Explored(graph, stack, visited)
  BY DEF PlanInv, Kept, Searched

LEMMA BuildKeeps ==
  ASSUME PlanInv, Build
  PROVE  PlanInv'
<1>1. BuildGraph' = BuildGraph
  BY BuildSame DEF Build, args
<1>2. Shaped(BuildGraph) /\ BuildGraph.cycles = {}
  BY BuildIs DEF PlanInv, Fresh
<1>3. Shaped(graph)' /\ Kept'
  BY <1>1, <1>2 DEF Build, Kept, Reported
<1>4. Fresh'
  BY BuildSame DEF Build, PlanInv, Fresh, args, Empty, Nodes
<1>5. stack' = <<>> /\ visited' = {}
  BY DEF Build, PlanInv, Fresh
<1>6. Searched'
  <2>1. stack' \in Seq(Frames) /\ DOMAIN stack' = {}
    BY <1>5, EmptySeq
  <2>2. Path(graph, stack)' /\ Explored(graph, stack, visited)'
    BY <1>5, <2>1 DEF Path, Explored
  <2> QED BY <2>2 DEF Searched
<1>7. Taken' /\ Spreading' /\ Drawing' /\ CyclesAreFlagged' /\ RootSelects' /\ OpenIsVisible'
  BY DEF Build, Taken, Spreading, Drawing, CyclesAreFlagged, RootSelects, OpenIsVisible
<1> QED BY <1>3, <1>4, <1>6, <1>7 DEF PlanInv

LEMMA BuildFailsKeeps ==
  ASSUME PlanInv, BuildFails
  PROVE  PlanInv'
<1>1. /\ UNCHANGED <<args, graph, stack, visited, queue, sub, visible, drawn>>
      /\ pc = "build" /\ pc' = "failed" /\ Shaped(graph) /\ Fresh
  BY DEF BuildFails, PlanInv
<1>2. Shaped(graph)' /\ Fresh'
  BY <1>1 DEF Fresh, Nodes, args
<1>3. /\ Kept' /\ Searched' /\ Taken' /\ Spreading' /\ Drawing'
      /\ CyclesAreFlagged' /\ RootSelects' /\ OpenIsVisible'
  BY <1>1 DEF Kept, Searched, Taken, Spreading, Drawing, CyclesAreFlagged, RootSelects, OpenIsVisible
<1> QED BY <1>2, <1>3 DEF PlanInv

LEMMA EnterKeeps ==
  ASSUME PlanInv, Enter
  PROVE  PlanInv'
<1> DEFINE n == Min(Nodes(graph) \ visited)
<1>1. Shaped(graph) /\ Reported(graph) /\ Explored(graph, stack, visited)
  BY SearchIs DEF Enter, Search
<1>2. n \in Nodes(graph) \ visited
  <2>1. Nodes(graph) \ visited \in SUBSET Nat /\ Nodes(graph) \ visited # {}
    BY <1>1, PlanAssumption DEF Enter, Shaped
  <2> QED BY <2>1, MinIs
<1> HIDE DEF n
<1>3. Found /\ UNCHANGED <<graph, visited>> /\ stack' = <<Frame(n)>>
  BY DEF Enter, Search, Found, n
<1>4. /\ stack' \in Seq(Frames) /\ DOMAIN stack' = {1} /\ Len(stack') = 1
      /\ stack'[1].node = n /\ stack'[1].todo = Children(graph, n)
  <2>1. Frame(n) \in Frames /\ Frame(n).node = n /\ Frame(n).todo = Children(graph, n)
    BY <1>1, <1>2, KinAreNodes DEF Frame, Frames, Shaped
  <2> QED BY <1>3, <2>1
<1>5. Path(graph, stack)'
  BY <1>2, <1>3, <1>4 DEF Path
<1>6. Explored(graph, stack, visited)'
  BY <1>1, <1>2, <1>3, <1>4 DEF Explored
<1> QED BY <1>1, <1>3, <1>5, <1>6, FoundKeeps DEF Reported


LEMMA LookKeeps ==
  ASSUME PlanInv, Look
  PROVE  PlanInv'
<1> DEFINE L == Len(stack)
           x == Last(stack).node
           n == Min(Last(stack).todo)
<1>1. Shaped(graph) /\ Reported(graph) /\ Path(graph, stack) /\ Explored(graph, stack, visited)
  BY SearchIs DEF Look, Search
<1>2. stack \in Seq(Frames) /\ stack # <<>> /\ Last(stack) = stack[L]
  BY <1>1 DEF Look, Path, Last
<1>3. n \in Last(stack).todo
  <2>1. Last(stack).todo \in SUBSET Nat
    <3>1. L \in Nat /\ L >= 1 /\ \A i \in 1 .. L : stack[i] \in Frames
      BY <1>2, RestIs
    <3>2. L \in 1 .. L
      <4> HIDE DEF L
      <4> QED BY <3>1
    <3>3. stack[L].todo \in SUBSET Stem
      BY <3>1, <3>2 DEF Frames
    <3> QED BY <1>2, <3>3, PlanAssumption
  <2> QED BY <2>1, MinIs DEF Look
<1> HIDE DEF n
<1>4. /\ L \in Nat /\ L >= 1 /\ L \in 1 .. L /\ DOMAIN stack = 1 .. L /\ x = stack[L].node
      /\ Rest(n) \in Seq(Frames) /\ DOMAIN Rest(n) = 1 .. L /\ Len(Rest(n)) = L
      /\ \A i \in 1 .. L : /\ Rest(n)[i].node = stack[i].node /\ Rest(n)[i].todo \subseteq stack[i].todo
                           /\ stack[i].todo \subseteq Rest(n)[i].todo \cup {n}
                           /\ i # L => Rest(n)[i].todo = stack[i].todo
  <2>1. /\ L \in Nat /\ L >= 1 /\ DOMAIN stack = 1 .. L /\ Rest(n) \in Seq(Frames) /\ Len(Rest(n)) = L
        /\ \A i \in 1 .. L :
             /\ Rest(n)[i].node = stack[i].node
             /\ Rest(n)[i].todo = IF i = L THEN stack[i].todo \ {n} ELSE stack[i].todo
    BY <1>2, RestIs
  <2>2. DOMAIN Rest(n) = 1 .. Len(Rest(n))
    BY <2>1, LenProperties
  <2>3. L \in 1 .. L
    <3> HIDE DEF L
    <3> QED BY <2>1
  <2> QED BY <1>2, <2>1, <2>2, <2>3
<1>5. <<x, n>> \in graph.edges /\ n \in Nodes(graph)
  <2>1. n \in Children(graph, stack[L].node)
    BY <1>1, <1>2, <1>3, <1>4 DEF Path
  <2> QED BY <1>1, <1>4, <2>1, EdgeIs
<1>6. /\ Search /\ UNCHANGED <<pc, visited>>
      /\ \/ /\ n \in OnStack /\ stack' = Rest(n)
            /\ graph' = [graph EXCEPT !.cycles = @ \cup {Canonical(Loop(n))}]
         \/ /\ n \notin OnStack /\ n \in visited /\ stack' = Rest(n) /\ UNCHANGED graph
         \/ /\ n \notin OnStack /\ n \notin visited /\ UNCHANGED graph
            /\ stack' = Append(Rest(n), Frame(n))
  BY DEF Look, n, Rest
<1> HIDE DEF L, x
<1>7. /\ \A i \in 1 .. L : /\ Rest(n)[i].node \in Nodes(graph)
                            /\ Rest(n)[i].todo \subseteq Children(graph, Rest(n)[i].node)
      /\ \A i \in 1 .. L : i < L => <<Rest(n)[i].node, Rest(n)[i + 1].node>> \in graph.edges
      /\ \A i, j \in 1 .. L : Rest(n)[i].node = Rest(n)[j].node => i = j
  <2>1. \A i \in 1 .. L : i < L => i + 1 \in 1 .. L
    BY <1>4
  <2>2. \A i \in 1 .. L : /\ stack[i].node \in Nodes(graph) /\ stack[i].todo \subseteq Children(graph, stack[i].node)
                          /\ i < L => <<stack[i].node, stack[i + 1].node>> \in graph.edges
                          /\ \A j \in 1 .. L : stack[i].node = stack[j].node => i = j
    BY <1>1, <1>4 DEF Path, L
  <2> QED BY <1>4, <2>1, <2>2
<1>13. Path(graph, Rest(n))
  BY <1>4, <1>7 DEF Path
<1>12. Flagged(graph, x) \/ \A m \in Children(graph, x) \ stack[L].todo : m \in visited
  <2>1. Flagged(graph, stack[L].node) \/ \A m \in Children(graph, stack[L].node) \ stack[L].todo :
          m \in visited \/ (L < L /\ m = stack[L + 1].node)
    BY <1>1, <1>4 DEF Explored, L
  <2>2. ~(L < L)
    BY <1>4
  <2> QED BY <1>4, <2>1, <2>2
<1>8. \A i \in 1 .. L : i # L =>
        Flagged(graph, stack[i].node) \/ \A m \in Children(graph, stack[i].node) \ Rest(n)[i].todo :
                                           m \in visited \/ (i < L /\ m = stack[i + 1].node)
  BY <1>1, <1>4 DEF Explored, L
<1>9. CASE n \in OnStack /\ stack' = Rest(n) /\ graph' = [graph EXCEPT !.cycles = @ \cup {Canonical(Loop(n))}]
  <2> DEFINE c == Canonical(Loop(n))
  <2>1. Around(graph.edges, c) /\ x \in ToSet(c)
    <3>1. Around(graph.edges, Loop(n)) /\ x \in ToSet(Loop(n))
      BY <1>1, <1>2, <1>5, <1>9, LoopIs DEF x
    <3>2. graph.edges \in SUBSET (Stem \X Stem)
      BY <1>1, KinAreNodes
    <3> QED BY <3>1, <3>2, CanonicalIs
  <2>2. /\ DOMAIN graph' = DOMAIN graph /\ graph'.nodes = graph.nodes /\ graph'.edges = graph.edges
        /\ graph'.missing = graph.missing /\ graph'.cycles = graph.cycles \cup {c}
    BY <1>1, <1>9 DEF Shaped
  <2>3. Found
    BY <1>6, <2>2 DEF Found, Search
  <2>4. Reported(graph)'
    BY <1>1, <2>1, <2>2 DEF Reported
  <2>5. \A m : /\ Children(graph, m)' = Children(graph, m) /\ (Flagged(graph, m) => Flagged(graph, m)')
    BY <2>2 DEF Children, Flagged
  <2>6. Nodes(graph)' = Nodes(graph) /\ Flagged(graph', x)
    BY <2>1, <2>2 DEF Nodes, Flagged
  <2> HIDE DEF c
  <2>7. Path(graph, stack)'
    BY <1>13, <1>9, <2>2, <2>5, <2>6 DEF Path
  <2>8. Explored(graph, stack, visited)'
    <3>1. visited' \subseteq Nodes(graph)' /\ \A i \in DOMAIN stack' : stack'[i].node \notin visited'
      BY <1>1, <1>4, <1>6, <1>9, <2>6 DEF Explored
    <3>2. ASSUME NEW i \in DOMAIN stack'
          PROVE  Flagged(graph, stack[i].node)' \/ \A m \in Children(graph, stack[i].node)' \ stack'[i].todo :
                   m \in visited' \/ (i < Len(stack)' /\ m = stack'[i + 1].node)
      <4>1. CASE i = L
        <5>1. stack'[i].node = x
          BY <1>4, <1>9, <4>1
        <5> QED BY <2>6, <5>1
      <4>2. CASE i # L
        <5>1. i \in 1 .. L
          BY <1>4, <1>9
        <5>2. i < L => i + 1 \in 1 .. L
          BY <1>4, <5>1
        <5>3. /\ stack'[i].node = stack[i].node /\ Len(stack)' = L /\ stack'[i].todo = Rest(n)[i].todo
              /\ i < L => stack'[i + 1].node = stack[i + 1].node
          BY <1>4, <1>9, <5>1, <5>2
        <5> QED BY <1>6, <1>8, <2>5, <4>2, <5>1, <5>3
      <4> QED BY <4>1, <4>2
    <3>3. \A m \in visited' : Flagged(graph, m)' \/ Children(graph, m)' \subseteq visited'
      BY <1>1, <1>6, <2>5 DEF Explored
    <3>4. \A X \in SUBSET visited' : X = {} \/ \E m \in X : Flagged(graph, m)' \/ Children(graph, m)' \cap X = {}
      BY <1>1, <1>6, <2>5 DEF Explored
    <3> QED BY <3>1, <3>2, <3>3, <3>4 DEF Explored
  <2> QED BY <2>3, <2>4, <2>7, <2>8, FoundKeeps
<1>10. CASE n \in visited /\ stack' = Rest(n) /\ UNCHANGED graph
  <2>1. Found
    BY <1>6, <1>10 DEF Found, Search
  <2>2. Path(graph, stack)' /\ Reported(graph)'
    BY <1>1, <1>13, <1>10 DEF Path, Reported
  <2>3. ASSUME NEW i \in DOMAIN stack'
        PROVE  Flagged(graph, Rest(n)[i].node) \/ \A m \in Children(graph, Rest(n)[i].node) \ Rest(n)[i].todo :
                 m \in visited \/ (i < Len(Rest(n)) /\ m = Rest(n)[i + 1].node)
    <3>1. i \in 1 .. L
      BY <1>4, <1>10
    <3>2. i < L => i + 1 \in 1 .. L
      BY <1>4, <3>1
    <3>3. CASE i = L
      BY <1>4, <1>10, <1>12, <3>1, <3>3
    <3>4. CASE i # L
      BY <1>4, <1>8, <3>1, <3>2, <3>4
    <3> QED BY <3>3, <3>4
  <2>4. Explored(graph, stack, visited)'
    BY <1>1, <1>4, <1>6, <1>10, <2>3 DEF Explored
  <2> QED BY <2>1, <2>2, <2>4, FoundKeeps
<1>11. CASE n \notin OnStack /\ n \notin visited /\ UNCHANGED graph /\ stack' = Append(Rest(n), Frame(n))
  <2>1. Found
    BY <1>6, <1>11 DEF Found, Search
  <2>2. /\ stack' \in Seq(Frames) /\ Len(stack') = L + 1 /\ DOMAIN stack' = 1 .. L + 1
        /\ \A i \in 1 .. L : stack'[i] = Rest(n)[i]
        /\ stack'[L + 1].node = n /\ stack'[L + 1].todo = Children(graph, n)
    <3>1. Frame(n) \in Frames /\ Frame(n).node = n /\ Frame(n).todo = Children(graph, n)
      BY <1>1, <1>5, KinAreNodes DEF Frame, Frames, Shaped
    <3>2. /\ stack' \in Seq(Frames) /\ Len(stack') = L + 1 /\ stack'[L + 1] = Frame(n)
          /\ \A i \in 1 .. L : stack'[i] = Rest(n)[i]
      BY <1>4, <1>11, <3>1, AppendProperties
    <3> QED BY <3>1, <3>2, LenProperties
  <2>3. \A i \in 1 .. L : stack[i].node # n
    BY <1>4, <1>11 DEF OnStack, ToSet
  <2>4. \A i \in 1 .. L + 1 : i = L + 1 \/ i \in 1 .. L
    BY <1>4
  <2>5. \A i \in 1 .. L : i < L + 1 /\ i + 1 \in 1 .. L + 1 /\ (i < L => i + 1 \in 1 .. L) /\ (i # L => i < L)
    BY <1>4
  <2>6. Path(graph, stack)'
    <3>1. \A i \in 1 .. L + 1 : stack'[i].node \in Nodes(graph) /\ stack'[i].todo \subseteq Children(graph, stack'[i].node)
      BY <1>4, <1>5, <1>7, <2>2, <2>4
    <3>2. \A i \in 1 .. L + 1 : i < L + 1 => <<stack'[i].node, stack'[i + 1].node>> \in graph.edges
      <4> TAKE i \in 1 .. L + 1
      <4> HAVE i < L + 1
      <4>1. i \in 1 .. L /\ i # L + 1
        BY <1>4, <2>4
      <4>2. CASE i = L
        BY <1>4, <1>5, <2>2, <4>1, <4>2
      <4>3. CASE i # L
        BY <1>4, <1>7, <2>2, <2>5, <4>1, <4>3
      <4> QED BY <4>2, <4>3
    <3>3. \A i, j \in 1 .. L + 1 : stack'[i].node = stack'[j].node => i = j
      <4> TAKE i, j \in 1 .. L + 1
      <4> HAVE stack'[i].node = stack'[j].node
      <4>1. CASE i = L + 1 /\ j = L + 1
        BY <4>1
      <4>2. CASE i \in 1 .. L /\ j \in 1 .. L
        BY <1>7, <2>2, <4>2
      <4>3. \A k \in 1 .. L : stack'[k].node # n
        BY <1>4, <2>2, <2>3
      <4> QED BY <2>2, <2>4, <4>1, <4>2, <4>3
    <3> QED BY <1>11, <2>2, <3>1, <3>2, <3>3 DEF Path
  <2>7. ASSUME NEW i \in 1 .. L + 1
        PROVE  Flagged(graph, stack'[i].node) \/ \A m \in Children(graph, stack'[i].node) \ stack'[i].todo :
                 m \in visited \/ (i < L + 1 /\ m = stack'[i + 1].node)
    <3>1. CASE i = L + 1
      BY <2>2, <3>1
    <3>2. CASE i = L
      <4>2. i < L + 1 /\ stack'[i + 1].node = n /\ stack'[i] = Rest(n)[i]
        BY <1>4, <2>2, <3>2
      <4> QED BY <1>4, <1>12, <3>2, <4>2
    <3>3. CASE i \in 1 .. L /\ i # L
      <4>1. i < L /\ i + 1 \in 1 .. L /\ i < L + 1
        BY <2>5, <3>3
      <4>2. stack'[i] = Rest(n)[i] /\ stack'[i + 1].node = stack[i + 1].node /\ stack'[i].node = stack[i].node
        BY <1>4, <2>2, <3>3, <4>1
      <4> QED BY <1>8, <3>3, <4>1, <4>2
    <3> QED BY <2>4, <3>1, <3>2, <3>3
  <2>8. \A i \in 1 .. L + 1 : stack'[i].node \notin visited
    BY <1>1, <1>4, <1>11, <2>2, <2>4 DEF Explored
  <2>9. Explored(graph, stack, visited)'
    <3>1. /\ visited \subseteq Nodes(graph)
          /\ \A m \in visited : Flagged(graph, m) \/ Children(graph, m) \subseteq visited
          /\ \A X \in SUBSET visited : X = {} \/ \E m \in X : Flagged(graph, m) \/ Children(graph, m) \cap X = {}
      BY <1>1 DEF Explored
    <3>2. Explored(graph, stack', visited)
      BY <2>2, <2>7, <2>8, <3>1 DEF Explored
    <3> QED BY <1>6, <1>11, <3>2
  <2> QED BY <1>1, <1>11, <2>1, <2>6, <2>9, FoundKeeps DEF Reported
<1> QED BY <1>6, <1>9, <1>10, <1>11


LEMMA LeaveKeeps ==
  ASSUME PlanInv, Leave
  PROVE  PlanInv'
<1> DEFINE L == Len(stack)
           x == stack[L].node
           v == visited \cup {x}
           s == Front(stack)
<1>1. Shaped(graph) /\ Reported(graph) /\ Path(graph, stack) /\ Explored(graph, stack, visited)
  BY SearchIs DEF Leave, Search
<1>2. L \in Nat /\ L >= 1 /\ DOMAIN stack = 1 .. L /\ \A i \in 1 .. L : stack[i] \in Frames
  BY <1>1, RestIs DEF Leave, Path
<1>3. Found /\ graph' = graph /\ stack' = s /\ visited' = v /\ stack[L].todo = {}
  BY DEF Leave, Search, Found, Last
<1> HIDE DEF L
<1>4. /\ L \in 1 .. L /\ \A i \in 1 .. L - 1 : i \in 1 .. L /\ i < L /\ i # L /\ i + 1 \in 1 .. L
      /\ \A i \in 1 .. L - 1 : (i + 1 = L /\ ~(i < L - 1)) \/ (i < L - 1 /\ i + 1 \in 1 .. L - 1)
  BY <1>2
<1>5. s \in Seq(Frames) /\ Len(s) = L - 1 /\ DOMAIN s = 1 .. L - 1 /\ \A i \in 1 .. L - 1 : s[i] = stack[i]
  <2>1. \A i \in 1 .. L - 1 : stack[i] \in Frames
    BY <1>2, <1>4
  <2>2. 1 \in Int /\ L - 1 \in Int
    BY <1>2
  <2>3. s = SubSeq(stack, 1, L - 1)
    BY DEF Front, L
  <2>4. /\ s \in Seq(Frames) /\ Len(s) = (IF 1 <= L - 1 THEN L - 1 - 1 + 1 ELSE 0)
        /\ \A i \in 1 .. L - 1 - 1 + 1 : s[i] = stack[1 + i - 1]
    BY <2>1, <2>2, <2>3, SubSeqProperties
  <2>5. Len(s) = L - 1
    BY <1>2, <2>4
  <2>6. \A i \in 1 .. L - 1 : s[i] = stack[i]
    <3> TAKE i \in 1 .. L - 1
    <3>1. i \in 1 .. L - 1 - 1 + 1 /\ 1 + i - 1 = i
      BY <1>2
    <3> QED BY <2>4, <3>1
  <2> QED BY <2>4, <2>5, <2>6, LenProperties
<1> HIDE DEF s
<1>6. /\ x \in Nodes(graph) /\ x \notin visited
      /\ \A i \in 1 .. L : stack[i].node \notin visited /\ (stack[i].node = x => i = L)
      /\ Flagged(graph, x) \/ Children(graph, x) \subseteq visited
  <2>1. /\ \A i \in 1 .. L : stack[i].node \in Nodes(graph) /\ \A j \in 1 .. L : stack[i].node = stack[j].node => i = j
        /\ \A i \in 1 .. L : stack[i].node \notin visited
        /\ Flagged(graph, x) \/ \A m \in Children(graph, x) \ {} : m \in visited \/ (L < L /\ m = stack[L + 1].node)
    BY <1>1, <1>2, <1>3, <1>4 DEF Path, Explored, L
  <2>2. ~(L < L)
    BY <1>2
  <2> QED BY <1>4, <2>1, <2>2
<1> HIDE DEF x
<1>7. Path(graph, s)
  <2>1. \A i \in 1 .. L : /\ stack[i].node \in Nodes(graph) /\ stack[i].todo \subseteq Children(graph, stack[i].node)
                          /\ i < L => <<stack[i].node, stack[i + 1].node>> \in graph.edges
                          /\ \A j \in 1 .. L : stack[i].node = stack[j].node => i = j
    BY <1>1, <1>2 DEF Path, L
  <2>2. \A i \in 1 .. L - 1 : i < L - 1 => <<s[i].node, s[i + 1].node>> \in graph.edges
    BY <1>4, <1>5, <2>1
  <2> QED BY <1>4, <1>5, <2>1, <2>2 DEF Path
<1>8. ASSUME NEW i \in 1 .. L - 1
      PROVE  Flagged(graph, s[i].node) \/ \A m \in Children(graph, s[i].node) \ s[i].todo :
               m \in v \/ (i < L - 1 /\ m = s[i + 1].node)
  <2>1. Flagged(graph, stack[i].node) \/ \A m \in Children(graph, stack[i].node) \ stack[i].todo :
          m \in visited \/ m = stack[i + 1].node
    BY <1>1, <1>2, <1>4 DEF Explored
  <2>2. stack[i + 1].node = x \/ (i < L - 1 /\ s[i + 1] = stack[i + 1])
    BY <1>4, <1>5 DEF x
  <2> QED BY <1>5, <2>1, <2>2
<1>9. \A m \in v : Flagged(graph, m) \/ Children(graph, m) \subseteq v
  BY <1>1, <1>6 DEF Explored
<1>10. ASSUME NEW X \in SUBSET v, X # {}
       PROVE  \E m \in X : Flagged(graph, m) \/ Children(graph, m) \cap X = {}
  <2>1. \A Y \in SUBSET visited : Y = {} \/ \E m \in Y : Flagged(graph, m) \/ Children(graph, m) \cap Y = {}
    BY <1>1 DEF Explored
  <2>2. CASE X \ {x} = {}
    <3>1. X = {x}
      BY <1>10, <2>2
    <3> QED BY <1>6, <3>1
  <2>3. CASE X \ {x} # {}
    <3>1. X \ {x} \in SUBSET visited
      OBVIOUS
    <3>2. PICK m \in X \ {x} : Flagged(graph, m) \/ Children(graph, m) \cap (X \ {x}) = {}
      BY <2>1, <2>3, <3>1
    <3>3. Flagged(graph, m) \/ Children(graph, m) \subseteq visited
      BY <1>1, <3>2 DEF Explored
    <3> QED BY <1>6, <3>2, <3>3
  <2> QED BY <2>2, <2>3
<1>11. Explored(graph, s, v)
  <2>1. v \subseteq Nodes(graph)
    BY <1>1, <1>6 DEF Explored
  <2>2. \A i \in 1 .. L - 1 : s[i].node \notin v
    BY <1>4, <1>5, <1>6
  <2> HIDE DEF v
  <2> QED BY <1>5, <1>8, <1>9, <1>10, <2>1, <2>2 DEF Explored
<1> QED BY <1>1, <1>3, <1>7, <1>11, FoundKeeps DEF Reported


\* When the search is over, no cycle is left without a report.
LEMMA SearchEnds ==
  ASSUME PlanInv, pc = "cycles", stack = <<>>, Nodes(graph) \subseteq visited
  PROVE  AllFlagged(graph)
<1> DEFINE E == graph.edges
<1>1. Shaped(graph) /\ Reported(graph) /\ Explored(graph, stack, visited)
  BY SearchIs
<1>2. E \in SUBSET (Stem \X Stem)
  BY <1>1, KinAreNodes
<1> HIDE DEF E
<1>3. SUFFICES ASSUME NEW n \in Nodes(graph), n \in Under(E, n)
               PROVE  \E c \in graph.cycles : \A m \in ToSet(c) : m \in Under(E, n) /\ n \in Under(E, m)
  BY DEF AllFlagged, OnCycle, E
<1> DEFINE X == {m \in Nodes(graph) : m \in Under(E, n) /\ n \in Under(E, m)}
<1>4. PICK x \in X : Flagged(graph, x) \/ Children(graph, x) \cap X = {}
  <2>1. n \in X /\ X \in SUBSET visited
    BY <1>3
  <2> HIDE DEF X
  <2> QED BY <1>1, <2>1 DEF Explored
<1>5. Children(graph, x) \cap X # {}
  <2>1. PICK e \in E : e[1] = x /\ (n = e[2] \/ n \in Under(E, e[2]))
    BY <1>2, UnderStep
  <2> DEFINE d == e[2]
  <2>2. <<x, d>> \in E
    BY <1>2, <2>1
  <2>3. d \in Children(graph, x) /\ d \in Nodes(graph)
    BY <1>1, <2>2, EdgeIs DEF E
  <2>4. d \in Under(E, n)
    BY <1>2, <2>1, UnderIs DEF Closed
  <2>5. n \in Under(E, d)
    BY <1>3, <2>1
  <2> QED BY <2>3, <2>4, <2>5
<1>6. PICK c \in graph.cycles : x \in ToSet(c)
  BY <1>4, <1>5 DEF Flagged
<1>7. ASSUME NEW m \in ToSet(c) PROVE m \in Under(E, n) /\ n \in Under(E, m)
  <2>1. Around(E, c)
    BY <1>1, <1>6 DEF Reported, E
  <2>2. m \in Under(E, x) /\ x \in Under(E, m)
    BY <1>2, <1>6, <2>1, AroundIs DEF ToSet
  <2>3. Under(E, x) \subseteq Under(E, n) /\ Under(E, x) \subseteq Under(E, m)
    BY <1>2, <2>2, UnderTrans
  <2> QED BY <2>2, <2>3
<1> QED BY <1>6, <1>7

LEMMA SelectKeeps ==
  ASSUME PlanInv, Select
  PROVE  PlanInv'
<1>1. Shaped(graph) /\ Reported(graph) /\ AllFlagged(graph)
  BY SearchIs, SearchEnds DEF Select
<1>2. /\ BuildGraph' = BuildGraph /\ Shaped(BuildGraph)
      /\ graph.nodes = BuildGraph.nodes /\ graph.edges = BuildGraph.edges /\ graph.missing = BuildGraph.missing
  BY BuildSame, BuildIs DEF Select, PlanInv, Kept, Fresh
<1>3. /\ dirs \in Layouts /\ dirs' = dirs /\ Undecodable = {} /\ visited' = {} /\ visible' = {} /\ drawn' = {} /\ sub' = Empty /\ queue = {}
      /\ pc' \in {"filter", "below"} /\ root' \in Stem \cup {0}
  BY DEF Select, PlanInv, Fresh
<1>4. Searched' /\ Spreading' /\ Drawing' /\ OpenIsVisible'
  BY <1>3 DEF Searched, Spreading, Drawing, OpenIsVisible
<1>5. CASE root' = 0 /\ pc' = "filter" /\ UNCHANGED <<graph, queue>>
  <2>1. Shaped(graph)' /\ Fresh' /\ Kept' /\ Taken'
    BY <1>1, <1>3, <1>5, BuildSame DEF Fresh, Kept, Taken, Nodes
  <2>2. CyclesAreFlagged'
    BY <1>1, <1>5 DEF CyclesAreFlagged, Reported, Around, AllFlagged
  <2>3. RootSelects'
    BY <1>2, <1>5, PlanAssumption DEF RootSelects, Shaped, Nodes
  <2> QED BY <1>4, <2>1, <2>2, <2>3 DEF PlanInv
<1>6. CASE /\ root' # 0 /\ root' \notin Nodes(graph) /\ pc' = "filter" /\ UNCHANGED queue
           /\ graph' = [Empty EXCEPT !.nodes = [n \in {root'} |-> "MISSING"], !.missing = {root'}]
  <2>1. /\ graph'.nodes = [n \in {root'} |-> "MISSING"] /\ graph'.edges = {} /\ graph'.cycles = {}
        /\ graph'.missing = {root'} /\ DOMAIN graph' = {"nodes", "edges", "missing", "cycles"}
    BY <1>6 DEF Empty
  <2>2. Nodes(graph') = {root'}
    BY <2>1 DEF Nodes
  <2>3. Shaped(graph') /\ Fresh' /\ Kept' /\ Taken'
    BY <1>3, <1>6, <2>1, <2>2, BuildSame DEF Shaped, Fresh, Kept, Taken
  <2>4. \A n : ~OnCycle({}, n)
    <3> TAKE n
    <3>1. {} \in SUBSET (Stem \X Stem) /\ {} \in SUBSET Stem /\ Closed({}, {})
      BY DEF Closed
    <3>2. \A C \in SUBSET Stem : (\A e \in {} : e[1] = n => e[2] \in C) /\ Closed({}, C) => Under({}, n) \subseteq C
      BY <3>1, UnderIs
    <3> QED BY <3>1, <3>2 DEF OnCycle
  <2>5. CyclesAreFlagged'
    BY <2>1, <2>2, <2>4 DEF CyclesAreFlagged
  <2>6. RootSelects'
    BY <1>2, <1>6 DEF RootSelects, Nodes
  <2> QED BY <1>4, <2>3, <2>5, <2>6 DEF PlanInv
<1>7. CASE root' \in Nodes(graph) /\ queue' = {root'} /\ pc' = "below" /\ UNCHANGED graph
  <2>1. Shaped(graph)' /\ Fresh' /\ Kept' /\ CyclesAreFlagged' /\ RootSelects'
    BY <1>1, <1>2, <1>3, <1>7, BuildSame DEF Fresh, Kept, CyclesAreFlagged, RootSelects
  <2>2. root' \in Below(graph.edges, {root'})
    BY <1>1, <1>7, BelowIs, KinAreNodes
  <2>3. /\ Nodes(sub)' = {} /\ sub'.edges = {} /\ sub'.missing = {} /\ DOMAIN sub' = DOMAIN graph
    BY <1>1, <1>3 DEF Empty, Nodes, Shaped
  <2>4. Taken'
    BY <1>1, <1>3, <1>7, <2>2, <2>3 DEF Taken
  <2> QED BY <1>4, <2>1, <2>4 DEF PlanInv
<1> QED BY <1>5, <1>6, <1>7 DEF Select


LEMMA TakeBelowKeeps ==
  ASSUME PlanInv, TakeBelow
  PROVE  PlanInv'
<1>1. /\ Shaped(graph) /\ dirs \in Layouts /\ Undecodable = {} /\ visible = {} /\ drawn = {}
      /\ pc = "below" /\ pc' = "below" /\ UNCHANGED <<dirs, root, graph, visible, drawn>>
  BY DEF TakeBelow, PlanInv, Fresh, args
<1>2. /\ visited \subseteq Nodes(graph) /\ queue \subseteq Nodes(graph)
      /\ DOMAIN sub = DOMAIN graph
      /\ Nodes(sub) = visited /\ \A n \in visited : sub.nodes[n] = graph.nodes[n]
      /\ sub.edges = {e \in graph.edges : e[1] \in visited} /\ sub.missing = {}
      /\ root \in visited \cup queue /\ visited \cup queue \subseteq Below(graph.edges, {root})
      /\ \A n \in visited : Children(graph, n) \subseteq visited \cup queue
      /\ AllFlagged(graph)
  BY <1>1 DEF PlanInv, Taken
<1>3. /\ Shaped(graph)' /\ Searched' /\ Spreading' /\ Drawing' /\ CyclesAreFlagged' /\ RootSelects' /\ OpenIsVisible'
  BY <1>1 DEF Searched, Spreading, Drawing, CyclesAreFlagged, RootSelects, OpenIsVisible
<1>4. Kept'
  BY <1>1, BuildSame DEF PlanInv, Kept
<1>5. PICK n \in queue :
        IF n \in visited THEN queue' = queue \ {n} /\ UNCHANGED <<visited, sub>>
        ELSE /\ queue' = (queue \ {n}) \cup Children(graph, n)
             /\ visited' = visited \cup {n}
             /\ sub' = Copied(n)
  BY DEF TakeBelow
<1>6. CASE n \in visited
  <2>1. Fresh'
    BY <1>1, <1>2, <1>5, <1>6, BuildSame DEF Fresh, Nodes
  <2>2. Taken'
    BY <1>1, <1>2, <1>5, <1>6 DEF Taken, Nodes
  <2> QED BY <1>3, <1>4, <2>1, <2>2 DEF PlanInv
<1>7. CASE n \notin visited
  <2>1. /\ queue' = (queue \ {n}) \cup Children(graph, n) /\ visited' = visited \cup {n} /\ sub' = Copied(n)
    BY <1>5, <1>7
  <2>2. n \in Nodes(graph) /\ Children(graph, n) \subseteq Nodes(graph)
    BY <1>1, <1>2, <1>5, KinAreNodes
  <2>3. /\ sub'.nodes = [m \in DOMAIN sub.nodes \cup {n} |-> IF m # n THEN sub.nodes[m]
                                         ELSE IF n \in Nodes(graph) THEN graph.nodes[n] ELSE "MISSING"]
        /\ sub'.missing = (IF n \in Nodes(graph) THEN sub.missing ELSE sub.missing \cup {n})
        /\ sub'.edges = sub.edges \cup {e \in graph.edges : e[1] = n}
        /\ DOMAIN sub' = DOMAIN sub
    BY <1>1, <1>2, <2>1 DEF Copied, Shaped
  <2>4. /\ DOMAIN sub' = DOMAIN graph /\ Nodes(sub)' = visited' /\ sub'.missing = {}
        /\ \A m \in visited' : sub'.nodes[m] = graph.nodes[m]
        /\ sub'.edges = {e \in graph.edges : e[1] \in visited'}
    BY <1>2, <2>1, <2>2, <2>3 DEF Nodes
  <2>5. /\ visited' \subseteq Nodes(graph) /\ queue' \subseteq Nodes(graph) /\ root \in visited' \cup queue'
        /\ \A m \in visited' : Children(graph, m) \subseteq visited' \cup queue'
    BY <1>2, <1>5, <2>1, <2>2
  <2>6. Children(graph, n) \subseteq Below(graph.edges, {root})
    <3>1. root \in Stem /\ graph.edges \in SUBSET (Stem \X Stem)
      BY <1>1, <1>2, KinAreNodes
    <3>2. Closed(graph.edges, Below(graph.edges, {root})) /\ n \in Below(graph.edges, {root})
      BY <1>2, <1>5, <3>1, BelowIs
    <3>3. \A m : <<n, m>> \in graph.edges => m \in Below(graph.edges, {root})
      BY <3>2 DEF Closed
    <3> QED BY <1>1, <3>3, EdgeIs
  <2>7. Fresh'
    BY <1>1, <2>5, BuildSame DEF Fresh, Nodes
  <2>8. Taken'
    <3>1. visited' \cup queue' \subseteq Below(graph.edges, {root})
      BY <1>2, <1>5, <2>1, <2>6
    <3> QED BY <1>1, <1>2, <2>4, <2>5, <3>1 DEF Taken, Nodes
  <2> QED BY <1>3, <1>4, <2>7, <2>8 DEF PlanInv
<1> QED BY <1>6, <1>7

LEMMA RestrictedKeeps ==
  ASSUME PlanInv, Restricted
  PROVE  PlanInv'
<1> DEFINE E == graph.edges
           D == {e \in E : e[1] \in visited}
<1>1. /\ Shaped(graph) /\ Reported(graph) /\ AllFlagged(graph) /\ dirs \in Layouts /\ Undecodable = {}
      /\ visible = {} /\ drawn = {} /\ queue = {} /\ pc' = "filter" /\ sub' = Empty
      /\ UNCHANGED <<dirs, root, visited, queue, visible, drawn>>
      /\ graph' = [sub EXCEPT !.cycles = {c \in graph.cycles : ToSet(c) \subseteq visited}]
  BY DEF Restricted, PlanInv, Fresh, Kept, Taken, args
<1>2. /\ visited \subseteq Nodes(graph) /\ DOMAIN sub = DOMAIN graph
      /\ Nodes(sub) = visited /\ \A n \in visited : sub.nodes[n] = graph.nodes[n]
      /\ sub.edges = D /\ sub.missing = {}
      /\ root \in visited /\ visited \subseteq Below(E, {root})
      /\ \A n \in visited : Children(graph, n) \subseteq visited
  BY <1>1 DEF Restricted, PlanInv, Taken
<1>3. E \in SUBSET (Stem \X Stem) /\ visited \in SUBSET Stem /\ Closed(E, visited)
  <2>1. \A n \in visited : \A m : <<n, m>> \in E => m \in visited
    BY <1>1, <1>2, EdgeIs
  <2>2. E \in SUBSET (Stem \X Stem) /\ visited \in SUBSET Stem
    BY <1>1, <1>2, KinAreNodes
  <2>3. \A e \in E : e = <<e[1], e[2]>>
    BY <2>2
  <2> QED BY <2>1, <2>2, <2>3 DEF Closed
<1>4. /\ graph'.nodes = sub.nodes /\ graph'.edges = D /\ graph'.missing = {} /\ DOMAIN graph' = DOMAIN graph
      /\ graph'.cycles = {c \in graph.cycles : ToSet(c) \subseteq visited}
      /\ Nodes(graph)' = visited
  BY <1>1, <1>2 DEF Shaped, Nodes
<1>5. Shaped(graph)'
  <2>1. D \subseteq visited \X visited
    BY <1>3 DEF Closed
  <2> HIDE DEF D
  <2> QED BY <1>1, <1>2, <1>3, <1>4, <2>1 DEF Shaped
<1>6. Fresh' /\ Searched' /\ Kept' /\ Taken' /\ Spreading' /\ Drawing' /\ OpenIsVisible'
  BY <1>1, <1>4, BuildSame DEF Fresh, Searched, Kept, Taken, Spreading, Drawing, OpenIsVisible
<1>7. \A n \in visited : Under(D, n) = Under(E, n) /\ Under(E, n) \subseteq visited
  BY <1>3, UnderSame
<1>8. CyclesAreFlagged'
  <2>1. ASSUME NEW c \in graph'.cycles, NEW i \in DOMAIN c
        PROVE  <<c[i], IF i = Len(c) THEN c[1] ELSE c[i + 1]>> \in D
    <3>1. c \in graph.cycles /\ c[i] \in visited
      BY <1>4, <2>1 DEF ToSet
    <3>2. <<c[i], IF i = Len(c) THEN c[1] ELSE c[i + 1]>> \in E
      BY <1>1, <2>1, <3>1 DEF Reported, Around
    <3> QED BY <3>1, <3>2
  <2>2. ASSUME NEW n \in visited, OnCycle(D, n)
        PROVE  \E c \in graph'.cycles : \A m \in ToSet(c) : m \in Under(D, n) /\ n \in Under(D, m)
    <3>1. OnCycle(E, n)
      BY <1>7, <2>2 DEF OnCycle
    <3>2. PICK c \in graph.cycles : \A m \in ToSet(c) : m \in Under(E, n) /\ n \in Under(E, m)
      BY <1>1, <1>2, <3>1 DEF AllFlagged
    <3>3. \A m \in ToSet(c) : m \in visited
      BY <1>7, <3>2
    <3>4. c \in graph'.cycles
      BY <1>4, <3>3
    <3> HIDE DEF D, E
    <3> QED BY <1>7, <3>2, <3>3, <3>4
  <2> HIDE DEF D
  <2> QED BY <1>4, <2>1, <2>2 DEF CyclesAreFlagged
<1>9. RootSelects'
  <2>1. BuildGraph' = BuildGraph /\ graph.nodes = BuildGraph.nodes /\ E = BuildGraph.edges
    BY <1>1, BuildSame DEF Restricted, PlanInv, Kept
  <2>2. visited = Below(E, {root})
    <3>1. {root} \in SUBSET Stem /\ {root} \subseteq visited
      BY <1>2, <1>3
    <3> HIDE DEF E
    <3>2. Below(E, {root}) \subseteq visited
      BY <1>3, <3>1, BelowIs
    <3> QED BY <1>2, <3>2
  <2> HIDE DEF D, E
  <2>3. D = {e \in E : e[1] \in visited}
    BY DEF D
  <2> QED BY <1>1, <1>2, <1>4, <2>1, <2>2, <2>3 DEF RootSelects
<1> QED BY <1>5, <1>6, <1>8, <1>9 DEF PlanInv


-----------------------------------------------------------------------------
(* What is hidden.                                                         *)

\* What held of the graph before holds on, and is asked for no more.
LEMMA LaterKeeps ==
  ASSUME Shaped(graph), pc' \in {"up", "down", "roots", "draw", "done"}, UNCHANGED graph
  PROVE  Shaped(graph)' /\ Kept' /\ Searched' /\ Taken' /\ CyclesAreFlagged' /\ RootSelects'
  BY DEF Kept, Searched, Taken, CyclesAreFlagged, RootSelects

\* Whoever depends on a node that waits, waits.
LEMMA WaitsUp ==
  ASSUME NEW g, Shaped(g), NEW n, NEW m, <<m, n>> \in g.edges, NEW some, Waits(g, n, some)
  PROVE  Waits(g, m, some)
<1>1. g.edges \in SUBSET (Stem \X Stem) /\ m \in Stem /\ n \in Stem
  BY EdgeIs, KinAreNodes
<1>2. {m} \subseteq Below(g.edges, {m}) /\ Closed(g.edges, Below(g.edges, {m}))
  BY <1>1, BelowIs
<1>3. n \in Below(g.edges, {m})
  BY <1>2 DEF Closed
<1>4. Below(g.edges, {n}) \subseteq Below(g.edges, {m})
  BY <1>1, <1>3, BelowGrows
<1> QED BY <1>4 DEF Waits

\* What the filter goes by stands still while the graph does.
LEMMA OpenIs ==
  ASSUME Shaped(graph)
  PROVE  /\ Anchors \subseteq Open /\ Open \in SUBSET Stem /\ Anchors \in SUBSET Stem
         /\ Shut \in SUBSET (Stem \X Stem)
         /\ Anchors \subseteq Below(Shut, Anchors) /\ Closed(Shut, Below(Shut, Anchors))
         /\ UNCHANGED graph => Anchors' = Anchors /\ Open' = Open /\ Shut' = Shut
         /\ OpenIsVisible <=>
              (pc = "roots" => visible = IF shipped THEN Nodes(graph) ELSE Open \cup Below(Shut, Anchors))
<1>1. Nodes(graph) \in SUBSET Stem /\ graph.edges \in SUBSET (Stem \X Stem)
  BY KinAreNodes
<1>2. Anchors \subseteq Open
  <2> SUFFICES ASSUME NEW n \in Anchors PROVE n \in Open
    OBVIOUS
  <2>1. n \in Nodes(graph) /\ n \in Below(graph.edges, {n})
    BY <1>1, BelowIs DEF Anchors
  <2> QED BY <2>1 DEF Open, Waits
<1>3. Open \in SUBSET Stem /\ Anchors \in SUBSET Stem /\ Shut \in SUBSET (Stem \X Stem)
  BY <1>1 DEF Open, Anchors, Shut
<1>4. UNCHANGED graph => Anchors' = Anchors /\ Open' = Open /\ Shut' = Shut
  BY DEF Anchors, Open, Shut, Nodes, Waits
<1>5. Open = {n \in Nodes(graph) : Below(graph.edges, {n}) \cap Anchors # {}}
  BY DEF Open, Waits
<1>6. OpenIsVisible <=>
        (pc = "roots" => visible = IF shipped THEN Nodes(graph) ELSE Open \cup Below(Shut, Anchors))
  BY <1>5 DEF OpenIsVisible, Shut
<1> QED BY <1>2, <1>3, <1>4, <1>6, BelowIs

LEMMA FilterKeeps ==
  ASSUME PlanInv, Filter
  PROVE  PlanInv'
<1>1. /\ Shaped(graph) /\ dirs \in Layouts /\ Undecodable = {} /\ queue = {} /\ visible = {} /\ drawn = {} /\ sub = Empty
      /\ UNCHANGED <<dirs, graph, sub, drawn>> /\ visited' = {} /\ pc' \in {"up", "roots"}
  BY DEF Filter, PlanInv, Fresh
<1>2. Shaped(graph)' /\ Kept' /\ Searched' /\ Taken' /\ CyclesAreFlagged' /\ RootSelects' /\ Drawing'
  BY <1>1, LaterKeeps DEF Drawing
<1>3. CASE shipped' = TRUE /\ visible' = Nodes(graph) /\ pc' = "roots" /\ UNCHANGED queue
  <2>1. OpenIsVisible'
    BY <1>1, <1>3 DEF OpenIsVisible, Nodes
  <2> QED BY <1>1, <1>2, <1>3, <2>1, BuildSame DEF PlanInv, Fresh, Spreading, Nodes
<1>4. CASE shipped' = FALSE /\ visible' = Anchors /\ queue' = Anchors /\ pc' = "up"
  <2>1. Anchors' = Anchors /\ Anchors \subseteq Nodes(graph)
    BY <1>1 DEF Anchors, Nodes
  <2>2. \A n \in Anchors : Waits(graph, n, Anchors)
    <3> TAKE n \in Anchors
    <3>1. n \in Stem /\ graph.edges \in SUBSET (Stem \X Stem)
      BY <1>1, <2>1, KinAreNodes
    <3>2. n \in Below(graph.edges, {n})
      BY <3>1, BelowIs
    <3> QED BY <3>2 DEF Waits
  <2>3. Spreading'
    BY <1>1, <1>4, <2>1, <2>2 DEF Spreading, Waits
  <2> QED BY <1>1, <1>2, <1>4, <2>1, <2>3, BuildSame DEF PlanInv, Fresh, OpenIsVisible, Nodes
<1> QED BY <1>3, <1>4 DEF Filter

LEMMA SpreadUpKeeps ==
  ASSUME PlanInv, SpreadUp
  PROVE  PlanInv'
<1>1. /\ pc = "up" /\ pc' = "up" /\ UNCHANGED <<args, graph, stack, visited, sub, drawn>>
      /\ Shaped(graph) /\ Fresh /\ Spreading
  BY DEF SpreadUp, Spread, PlanInv
<1>2. Shaped(graph)' /\ Kept' /\ Searched' /\ Taken' /\ CyclesAreFlagged' /\ RootSelects' /\ Drawing' /\ OpenIsVisible'
  BY <1>1, LaterKeeps DEF Drawing, OpenIsVisible
<1>3. PICK n \in queue : /\ visible' = visible \cup (Parents(graph, n) \ visible)
                         /\ queue' = (queue \ {n}) \cup (Parents(graph, n) \ visible)
  BY DEF SpreadUp, Spread
<1>4. Parents(graph, n) \subseteq Nodes(graph) /\ Anchors' = Anchors /\ n \in visible
  BY <1>1, <1>3, KinAreNodes DEF Anchors, Nodes, Spreading
<1>5. \A m \in Parents(graph, n) : Waits(graph, m, Anchors)
  <2> TAKE m \in Parents(graph, n)
  <2>1. <<m, n>> \in graph.edges
    BY <1>1, EdgeIs
  <2>2. Waits(graph, n, Anchors)
    BY <1>1, <1>4 DEF Spreading
  <2> QED BY <1>1, <2>1, <2>2, WaitsUp
<1>6. \A m \in visible' \ queue' : Parents(graph, m) \subseteq visible'
  BY <1>1, <1>3 DEF Spreading
<1>7. Spreading'
  BY <1>1, <1>3, <1>4, <1>5, <1>6 DEF Spreading, Waits, Parents, args
<1>8. Fresh'
  BY <1>1, <1>3, <1>4, BuildSame DEF Fresh, Nodes, args
<1> QED BY <1>2, <1>7, <1>8 DEF PlanInv

LEMMA SpreadDownKeeps ==
  ASSUME PlanInv, SpreadDown
  PROVE  PlanInv'
<1>1. /\ pc = "down" /\ pc' = "down" /\ UNCHANGED <<args, graph, stack, visited, sub, drawn>>
      /\ Shaped(graph) /\ Fresh /\ Spreading
  BY DEF SpreadDown, Spread, PlanInv
<1>2. Shaped(graph)' /\ Kept' /\ Searched' /\ Taken' /\ CyclesAreFlagged' /\ RootSelects' /\ Drawing' /\ OpenIsVisible'
  BY <1>1, LaterKeeps DEF Drawing, OpenIsVisible
<1>3. PICK n \in queue : /\ visible' = visible \cup (Children(graph, n) \ visible)
                         /\ queue' = (queue \ {n}) \cup (Children(graph, n) \ visible)
  BY DEF SpreadDown, Spread
<1> DEFINE new == Children(graph, n) \ visible
<1>4. /\ Children(graph, n) \subseteq Nodes(graph) /\ n \in Below(Shut, Anchors)
      /\ Anchors' = Anchors /\ Open' = Open /\ Shut' = Shut /\ Closed(Shut, Below(Shut, Anchors))
      /\ \A m : Children(graph, m)' = Children(graph, m)
  BY <1>1, <1>3, KinAreNodes, OpenIs DEF Spreading, Children
<1>5. new \subseteq Below(Shut, Anchors) /\ new \cap Open = {}
  <2> SUFFICES ASSUME NEW m \in new PROVE m \in Below(Shut, Anchors) /\ m \notin Open
    OBVIOUS
  <2>1. <<n, m>> \in graph.edges /\ m \notin Open
    BY <1>1, EdgeIs DEF Spreading
  <2>2. <<n, m>> \in Shut
    BY <2>1 DEF Shut
  <2> QED BY <1>4, <2>1, <2>2 DEF Closed
<1>6. /\ shipped = FALSE /\ Anchors \subseteq visible /\ queue \subseteq visible /\ shipped' = shipped
      /\ Open \subseteq visible /\ visible \subseteq Open \cup Below(Shut, Anchors)
      /\ queue \subseteq Below(Shut, Anchors)
      /\ \A m \in (Anchors \cup (visible \ Open)) \ queue : Children(graph, m) \subseteq visible
  BY <1>1 DEF Spreading, args
<1>7. /\ visible' = visible \cup new /\ queue' = (queue \ {n}) \cup new
      /\ Children(graph, n) \subseteq visible'
  BY <1>3
<1> HIDE DEF new
<1>8. \A m \in (Anchors \cup (visible' \ Open)) \ queue' : Children(graph, m) \subseteq visible'
  BY <1>6, <1>7
<1>9. Spreading'
  BY <1>1, <1>4, <1>5, <1>6, <1>7, <1>8 DEF Spreading
<1>10. Fresh'
  BY <1>1, <1>3, <1>4, BuildSame DEF Fresh, Nodes, args
<1> QED BY <1>2, <1>9, <1>10 DEF PlanInv

LEMMA TurnKeeps ==
  ASSUME PlanInv, Turn
  PROVE  PlanInv'
<1>1. /\ UNCHANGED <<args, graph, stack, visited, sub, visible, drawn>> /\ queue = {}
      /\ Shaped(graph) /\ Fresh /\ Spreading /\ pc' \in {"down", "roots"}
  BY DEF Turn, PlanInv
<1>2. Shaped(graph)' /\ Kept' /\ Searched' /\ Taken' /\ CyclesAreFlagged' /\ RootSelects' /\ Drawing'
  BY <1>1, LaterKeeps DEF Drawing
<1>3. /\ Anchors' = Anchors /\ Nodes(graph)' = Nodes(graph) /\ Anchors \subseteq Nodes(graph)
      /\ Anchors \in SUBSET Stem /\ graph.edges \in SUBSET (Stem \X Stem)
  BY <1>1, KinAreNodes DEF Anchors, Nodes
<1>4. CASE pc = "up" /\ pc' = "down" /\ queue' = Anchors
  <2>1. ASSUME NEW n \in Nodes(graph), Waits(graph, n, Anchors), n \notin visible PROVE FALSE
    <3> DEFINE C == Stem \ visible
    <3>1. ASSUME NEW e \in graph.edges, e[1] \in C PROVE e[2] \in C
      <4>1. e = <<e[1], e[2]>> /\ e[2] \in Stem
        BY <1>3
      <4>2. e[1] \in Parents(graph, e[2])
        BY <1>1, <4>1, EdgeIs
      <4>3. \A m \in visible : Parents(graph, m) \subseteq visible
        BY <1>1, <1>4 DEF Spreading
      <4> QED BY <3>1, <4>1, <4>2, <4>3
    <3>2. C \in SUBSET Stem /\ {n} \in SUBSET Stem /\ {n} \subseteq C /\ Closed(graph.edges, C)
      BY <1>1, <2>1, <3>1 DEF Closed, Shaped
    <3>3. Below(graph.edges, {n}) \subseteq C
      <4> HIDE DEF C
      <4> QED BY <1>3, <3>2, BelowIs
    <3> QED BY <1>1, <1>4, <2>1, <3>3 DEF Waits, Spreading
  <2>2. /\ visible = Open /\ Anchors \subseteq Below(Shut, Anchors)
        /\ Open' = Open /\ Shut' = Shut
    <3>1. Open \subseteq visible
      BY <2>1 DEF Open
    <3>2. visible \subseteq Open
      BY <1>1, <1>4 DEF Open, Spreading, Fresh
    <3> QED BY <1>1, <3>1, <3>2, OpenIs
  <2>3. Spreading'
    BY <1>1, <1>3, <1>4, <2>2 DEF Spreading, args
  <2> QED BY <1>1, <1>2, <1>3, <1>4, <2>3, BuildSame DEF PlanInv, Fresh, args, OpenIsVisible
<1>5. CASE pc = "down" /\ pc' = "roots" /\ UNCHANGED queue
  <2> DEFINE R == Anchors \cup (visible \ Open)
  <2>1. /\ Shut \in SUBSET (Stem \X Stem) /\ Open' = Open /\ Shut' = Shut
        /\ OpenIsVisible' <=> (visible = IF shipped THEN Nodes(graph) ELSE Open \cup Below(Shut, Anchors))
    <3>1. Shaped(graph)' /\ UNCHANGED <<graph, visible, shipped>>
      BY <1>1, <1>2 DEF args
    <3>2. Open = {n \in Nodes(graph) : Below(graph.edges, {n}) \cap Anchors # {}}
      BY DEF Open, Waits
    <3> QED BY <1>1, <1>3, <1>5, <3>1, <3>2, OpenIs DEF OpenIsVisible, Shut
  <2>2. /\ Open \subseteq visible /\ visible \subseteq Open \cup Below(Shut, Anchors) /\ shipped = FALSE
        /\ \A m \in R : Children(graph, m) \subseteq visible
        /\ Anchors \subseteq visible
    BY <1>1, <1>5 DEF Spreading
  <2>3. Closed(Shut, R)
    <3> SUFFICES ASSUME NEW e \in Shut, e[1] \in R PROVE e[2] \in visible \ Open
      BY DEF Closed
    <3>1. e \in graph.edges /\ e[2] \notin Open /\ e = <<e[1], e[2]>>
      BY <1>3 DEF Shut
    <3>2. e[2] \in Children(graph, e[1])
      BY <1>1, <3>1, EdgeIs
    <3> QED BY <2>2, <3>1, <3>2
  <2>4. Anchors \subseteq R /\ R \in SUBSET Stem /\ R \subseteq visible
    BY <1>1, <1>3, <2>2, KinAreNodes DEF Fresh
  <2> HIDE DEF R
  <2>5. Below(Shut, Anchors) \subseteq visible
    BY <1>3, <2>1, <2>3, <2>4, BelowIs
  <2>6. OpenIsVisible'
    BY <2>1, <2>2, <2>5
  <2> QED BY <1>1, <1>2, <1>3, <1>5, <2>6, BuildSame DEF PlanInv, Fresh, args, Spreading
<1> QED BY <1>4, <1>5 DEF Turn

-----------------------------------------------------------------------------
(* The tree.                                                               *)

Rising(s) == \A i, j \in DOMAIN s : i < j => s[i] < s[j]

\* Every set of plans can be put in order.
LEMMA OrderExists ==
  ASSUME NEW S \in SUBSET Stem
  PROVE  \E s \in [1 .. Cardinality(S) -> S] : Rising(s)
<1> DEFINE B == {T \in SUBSET Stem : ~\E s \in [1 .. Cardinality(T) -> T] : Rising(s)}
           W == StrictSubsetOrdering(Stem)
           F == FiniteSubsetsOf(Stem)
<1>1. SUFFICES ASSUME B # {} PROVE FALSE
  OBVIOUS
<1>2. IsWellFoundedOn(W, F) /\ B \subseteq F
  BY PlanAssumption, FS_StrictSubsetOrderingWellFounded, FS_Subset DEF FiniteSubsetsOf
<1> HIDE DEF B, W, F
<1>3. PICK T \in B : \A U \in B : ~(<<U, T>> \in W)
  BY <1>1, <1>2, WFMin
<1>4. T \in SUBSET Stem /\ T \in SUBSET Nat /\ IsFiniteSet(T) /\ ~\E s \in [1 .. Cardinality(T) -> T] : Rising(s)
  BY <1>3, PlanAssumption, FS_Subset DEF B
<1>5. T # {}
  <2> SUFFICES ASSUME T = {} PROVE FALSE
    OBVIOUS
  <2>1. Cardinality(T) = 0
    BY FS_EmptySet
  <2>2. 1 .. 0 = {} /\ <<>> \in [{} -> T] /\ Rising(<<>>)
    BY DEF Rising
  <2> QED BY <1>4, <2>1, <2>2
<1>6. PICK m \in T : \A y \in T : y <= m
  BY <1>4, <1>5, FiniteMax
<1> DEFINE U == T \ {m}
           n == Cardinality(T)
<1>7. n \in Nat /\ n >= 1 /\ Cardinality(U) = n - 1
  <2>1. n \in Nat /\ Cardinality(U) \in Nat /\ Cardinality(U) = n - 1
    BY <1>4, <1>6, FS_RemoveElement, FS_CardinalityType
  <2> QED BY <2>1
<1>8. PICK u \in [1 .. n - 1 -> U] : Rising(u)
  <2>1. <<U, T>> \in W
    BY <1>4, <1>6 DEF W, StrictSubsetOrdering
  <2>2. U \notin B /\ U \in SUBSET Stem
    BY <1>3, <1>4, <2>1
  <2>3. \E s \in [1 .. Cardinality(U) -> U] : Rising(s)
    BY <2>2 DEF B
  <2> QED BY <1>7, <2>3
<1> DEFINE s == [i \in 1 .. n |-> IF i = n THEN m ELSE u[i]]
<1> HIDE DEF n
<1>9. \A i \in 1 .. n : i # n => i \in 1 .. n - 1 /\ u[i] \in U
  <2> TAKE i \in 1 .. n
  <2> HAVE i # n
  <2>1. i \in 1 .. n - 1
    BY <1>7
  <2> QED BY <2>1
<1>10. s \in [1 .. n -> T]
  BY <1>6, <1>9
<1>11. Rising(s)
  <2>1. SUFFICES ASSUME NEW i \in 1 .. n, NEW j \in 1 .. n, i < j PROVE s[i] < s[j]
    BY DEF Rising
  <2>2. i # n /\ i \in 1 .. n - 1 /\ u[i] \in U
    <3>1. i # n
      BY <1>7, <2>1
    <3> QED BY <1>9, <3>1
  <2>3. CASE j = n
    <3>1. u[i] \in Nat /\ m \in Nat /\ u[i] <= m /\ u[i] # m
      BY <1>4, <1>6, <2>2
    <3>2. u[i] < m
      BY ONLY <3>1
    <3> QED BY <2>2, <2>3, <3>2
  <2>4. CASE j # n
    <3>1. j \in 1 .. n - 1 /\ DOMAIN u = 1 .. n - 1
      BY <1>9, <2>4
    <3>2. u[i] < u[j]
      BY <1>8, <2>1, <2>2, <3>1 DEF Rising
    <3> QED BY <2>2, <2>4, <3>2
  <2> QED BY <2>3, <2>4
<1> QED BY <1>4, <1>10, <1>11 DEF n

LEMMA SortedIs ==
  ASSUME NEW S \in SUBSET Stem
  PROVE  Sorted(S) \in Seq(S) /\ ToSet(Sorted(S)) = S
<1> DEFINE n == Cardinality(S)
           s == Sorted(S)
<1>1. IsFiniteSet(S) /\ n \in Nat
  BY PlanAssumption, FS_Subset, FS_CardinalityType
<1>2. s \in [1 .. n -> S] /\ \A i, j \in 1 .. n : i < j => s[i] < s[j]
  <2>1. \E t \in [1 .. n -> S] : \A i, j \in DOMAIN t : i < j => t[i] < t[j]
    BY OrderExists DEF Rising
  <2>2. s \in [1 .. n -> S] /\ \A i, j \in DOMAIN s : i < j => s[i] < s[j]
    BY <2>1 DEF Sorted
  <2> QED BY <2>2
<1> HIDE DEF n, s
<1>3. \A i, j \in 1 .. n : s[i] = s[j] => i = j
  <2> SUFFICES ASSUME NEW i \in 1 .. n, NEW j \in 1 .. n, s[i] = s[j], i # j PROVE FALSE
    OBVIOUS
  <2>1. s[i] \in Nat /\ s[j] \in Nat
    BY <1>2, PlanAssumption
  <2>2. i < j \/ j < i
    BY <1>1
  <2>3. s[i] < s[j] \/ s[j] < s[i]
    BY <1>2, <2>2
  <2> QED BY <2>1, <2>3
<1>4. s \in Injection(1 .. n, S)
  BY <1>2, <1>3 DEF Injection, IsInjective
<1>5. Cardinality(1 .. n) = Cardinality(S)
  <2>1. Cardinality(1 .. n) = IF 1 > n THEN 0 ELSE n - 1 + 1
    BY <1>1, FS_Interval
  <2>2. Cardinality(1 .. n) = n
    BY <1>1, <2>1
  <2> QED BY <2>2 DEF n
<1>6. s \in Surjection(1 .. n, S)
  BY <1>1, <1>4, <1>5, FS_Injection
<1>7. \A t \in S : \E i \in 1 .. n : s[i] = t
  BY <1>6 DEF Surjection
<1>8. s \in Seq(S) /\ DOMAIN s = 1 .. n
  BY <1>1, <1>2
<1> QED BY <1>2, <1>7, <1>8 DEF ToSet, s


LEMMA TailIs ==
  ASSUME NEW S, NEW s \in Seq(S), s # <<>>
  PROVE  Head(s) \in S /\ Tail(s) \in Seq(S) /\ ToSet(s) = {Head(s)} \cup ToSet(Tail(s))
<1> DEFINE n == Len(s)
<1>1. /\ n \in Nat /\ n # 0 /\ DOMAIN s = 1 .. n
      /\ Tail(s) \in Seq(S) /\ Len(Tail(s)) = n - 1 /\ DOMAIN Tail(s) = 1 .. Len(Tail(s))
      /\ \A i \in 1 .. Len(Tail(s)) : Tail(s)[i] = s[i + 1]
      /\ Head(s) \in S
  BY LenProperties, EmptySeq, HeadTailProperties
<1> HIDE DEF n
<1>2. \A i \in 1 .. n - 1 : i + 1 \in 1 .. n /\ Tail(s)[i] = s[i + 1]
  BY <1>1
<1>3. 1 \in 1 .. n /\ Head(s) = s[1]
  BY <1>1
<1>4. \A i \in 1 .. n : i = 1 \/ (i - 1 \in 1 .. n - 1 /\ s[i] = Tail(s)[i - 1])
  <2> TAKE i \in 1 .. n
  <2>1. i = 1 \/ (i - 1 \in 1 .. n - 1 /\ (i - 1) + 1 = i)
    BY <1>1
  <2> QED BY <1>2, <2>1
<1>5. DOMAIN Tail(s) = 1 .. n - 1
  BY <1>1
<1>6. \A x \in ToSet(Tail(s)) : x \in ToSet(s)
  BY <1>1, <1>2, <1>5 DEF ToSet
<1>7. \A x \in ToSet(s) : x = Head(s) \/ x \in ToSet(Tail(s))
  <2> TAKE x \in ToSet(s)
  <2>1. PICK i \in 1 .. n : x = s[i]
    BY <1>1 DEF ToSet
  <2>2. CASE i = 1
    BY <1>3, <2>1, <2>2
  <2>3. CASE i - 1 \in 1 .. n - 1 /\ s[i] = Tail(s)[i - 1]
    <3> DEFINE j == i - 1
    <3>1. j \in DOMAIN Tail(s) /\ x = Tail(s)[j]
      BY <1>5, <2>1, <2>3
    <3> HIDE DEF j
    <3> QED BY <3>1 DEF ToSet
  <2> QED BY <1>4, <2>2, <2>3
<1>8. Head(s) \in ToSet(s)
  BY <1>1, <1>3 DEF ToSet
<1> QED BY <1>1, <1>6, <1>7, <1>8

LEMMA ConcatIs ==
  ASSUME NEW S, NEW s \in Seq(S), NEW t \in Seq(S)
  PROVE  s \o t \in Seq(S) /\ ToSet(s \o t) = ToSet(s) \cup ToSet(t)
<1> DEFINE m == Len(s)
           n == Len(t)
           c == s \o t
<1>1. m \in Nat /\ n \in Nat /\ DOMAIN s = 1 .. m /\ DOMAIN t = 1 .. n
  BY LenProperties
<1>2. c \in Seq(S) /\ Len(c) = m + n /\ \A i \in 1 .. m + n : c[i] = IF i <= m THEN s[i] ELSE t[i - m]
  BY ConcatProperties
<1>3. DOMAIN c = 1 .. m + n
  BY <1>2, LenProperties
<1> HIDE DEF m, n, c
<1>4. \A i \in 1 .. m : i \in 1 .. m + n /\ c[i] = s[i]
  BY <1>1, <1>2
<1>5. ASSUME NEW i \in 1 .. n PROVE i + m \in 1 .. m + n /\ c[i + m] = t[i]
  <2>1. i + m \in 1 .. m + n /\ ~(i + m <= m) /\ (i + m) - m = i
    BY <1>1
  <2>2. c[i + m] = t[(i + m) - m]
    BY <1>1, <1>2, <2>1
  <2> QED BY <2>1, <2>2
<1>6. \A i \in 1 .. m + n : (i \in 1 .. m /\ c[i] = s[i]) \/ (i - m \in 1 .. n /\ c[i] = t[i - m])
  BY <1>1, <1>2
<1>7. \A i \in DOMAIN s : \E j \in DOMAIN c : c[j] = s[i]
  BY <1>1, <1>3, <1>4
<1>8. \A i \in DOMAIN t : \E j \in DOMAIN c : c[j] = t[i]
  BY <1>1, <1>3, <1>5
<1>9. \A j \in DOMAIN c : (\E i \in DOMAIN s : c[j] = s[i]) \/ (\E i \in DOMAIN t : c[j] = t[i])
  BY <1>1, <1>3, <1>6
<1>10. \A x \in ToSet(s) \cup ToSet(t) : x \in ToSet(c)
  BY <1>7, <1>8 DEF ToSet
<1>11. \A x \in ToSet(c) : x \in ToSet(s) \cup ToSet(t)
  BY <1>9 DEF ToSet
<1>12. ToSet(c) = ToSet(s) \cup ToSet(t)
  BY <1>10, <1>11
<1> QED BY <1>2, <1>12 DEF c

LEMMA FindRootsKeeps ==
  ASSUME PlanInv, FindRoots
  PROVE  PlanInv'
<1>1. /\ UNCHANGED <<args, graph, visited, queue, sub, visible, drawn>> /\ drawn = {}
      /\ Shaped(graph) /\ Fresh /\ pc = "roots" /\ pc' = "draw" /\ stack' = Sorted(Roots)
  BY DEF FindRoots, PlanInv, Fresh
<1>2. Shaped(graph)' /\ Kept' /\ Searched' /\ Taken' /\ CyclesAreFlagged' /\ RootSelects'
  BY <1>1, LaterKeeps
<1>3. visible \in SUBSET Stem /\ visible \in SUBSET Nat
  BY <1>1, KinAreNodes, PlanAssumption DEF Fresh
<1>4. Roots \subseteq visible /\ Roots' = Roots
  <2>1. visible # {} => Min(visible) \in visible
    BY <1>3, MinIs
  <2> QED BY <1>1, <2>1 DEF Roots, Parents
<1>5. stack' \in Seq(visible) /\ ToSet(stack') = Roots
  <2>1. Sorted(Roots) \in Seq(Roots) /\ ToSet(Sorted(Roots)) = Roots
    BY <1>3, <1>4, SortedIs
  <2> QED BY <1>1, <1>4, <2>1
<1>6. Drawing'
  BY <1>1, <1>4, <1>5 DEF Drawing
<1>7. Fresh' /\ Spreading' /\ OpenIsVisible'
  BY <1>1, BuildSame DEF Fresh, Nodes, args, Spreading, OpenIsVisible
<1> QED BY <1>2, <1>6, <1>7 DEF PlanInv

LEMMA DrawKeeps ==
  ASSUME PlanInv, Draw
  PROVE  PlanInv'
<1> DEFINE n == Head(stack)
           K == Children(graph, n) \cap visible
<1>1. /\ UNCHANGED <<args, pc, graph, visited, queue, sub, visible>> /\ pc = "draw" /\ stack # <<>>
      /\ Shaped(graph) /\ Fresh /\ Drawing
  BY DEF Draw, PlanInv
<1>2. Shaped(graph)' /\ Kept' /\ Searched' /\ Taken' /\ CyclesAreFlagged' /\ RootSelects'
  BY <1>1, LaterKeeps
<1>3. /\ stack \in Seq(visible) /\ drawn \subseteq visible /\ Roots \subseteq drawn \cup ToSet(stack)
      /\ \A m \in drawn : Children(graph, m) \cap visible \subseteq drawn \cup ToSet(stack)
  BY <1>1 DEF Drawing
<1>4. n \in visible /\ Tail(stack) \in Seq(visible) /\ ToSet(stack) = {n} \cup ToSet(Tail(stack))
  BY <1>1, <1>3, TailIs
<1>5. IF n \in drawn THEN stack' = Tail(stack) /\ UNCHANGED drawn
      ELSE stack' = Sorted(K) \o Tail(stack) /\ drawn' = drawn \cup {n}
  BY DEF Draw
<1>6. Roots' = Roots /\ \A m : Children(graph, m)' = Children(graph, m)
  BY <1>1 DEF Roots, Parents, Children
<1> HIDE DEF n
<1>7. ASSUME n \in drawn PROVE Drawing'
  BY <1>1, <1>3, <1>4, <1>5, <1>6, <1>7 DEF Drawing
<1>8. ASSUME n \notin drawn PROVE Drawing'
  <2>1. Sorted(K) \in Seq(visible) /\ ToSet(Sorted(K)) = K
    <3>1. K \in SUBSET Stem /\ K \subseteq visible
      BY <1>1, KinAreNodes
    <3> HIDE DEF K
    <3>2. Sorted(K) \in Seq(K) /\ ToSet(Sorted(K)) = K
      BY <3>1, SortedIs
    <3> QED BY <3>1, <3>2
  <2>2. stack' \in Seq(visible) /\ ToSet(stack') = K \cup ToSet(Tail(stack))
    <3>1. stack' = Sorted(K) \o Tail(stack)
      BY <1>5, <1>8
    <3> DEFINE s == Sorted(K)
               t == Tail(stack)
    <3>2. s \in Seq(visible) /\ t \in Seq(visible) /\ ToSet(s) = K /\ stack' = s \o t
      BY <1>4, <2>1, <3>1
    <3>3. t = Tail(stack)
      OBVIOUS
    <3> HIDE DEF K, s, t
    <3>4. s \o t \in Seq(visible) /\ ToSet(s \o t) = ToSet(s) \cup ToSet(t)
      BY <3>2, ConcatIs
    <3> QED BY <3>2, <3>3, <3>4
  <2>3. drawn' = drawn \cup {n}
    BY <1>5, <1>8
  <2> QED BY <1>1, <1>3, <1>4, <1>6, <2>2, <2>3 DEF Drawing
<1>9. Drawing'
  BY <1>7, <1>8
<1>10. Fresh' /\ Spreading' /\ OpenIsVisible'
  BY <1>1, BuildSame DEF Fresh, Nodes, args, Spreading, OpenIsVisible
<1> QED BY <1>2, <1>9, <1>10 DEF PlanInv

LEMMA DrawnKeeps ==
  ASSUME PlanInv, Drawn
  PROVE  PlanInv'
<1>1. /\ UNCHANGED <<args, graph, stack, visited, queue, sub, visible, drawn>> /\ pc = "draw" /\ pc' = "done"
      /\ stack = <<>> /\ Shaped(graph) /\ Fresh /\ Drawing
  BY DEF Drawn, PlanInv
<1>2. Shaped(graph)' /\ Kept' /\ Searched' /\ Taken' /\ CyclesAreFlagged' /\ RootSelects'
  BY <1>1, LaterKeeps
<1>3. Roots' = Roots /\ \A m : Children(graph, m)' = Children(graph, m)
  BY <1>1 DEF Roots, Parents, Children
<1>4. Drawing'
  BY <1>1, <1>3 DEF Drawing
<1>5. Fresh' /\ Spreading' /\ OpenIsVisible'
  BY <1>1, BuildSame DEF Fresh, Nodes, args, Spreading, OpenIsVisible
<1> QED BY <1>2, <1>4, <1>5 DEF PlanInv


-----------------------------------------------------------------------------
(* The theorems.                                                           *)

LEMMA InitHolds ==
  ASSUME Init
  PROVE  PlanInv
<1>1. /\ Nodes(Empty) = {} /\ Empty.edges = {} /\ Empty.missing = {}
      /\ DOMAIN Empty = {"nodes", "edges", "missing", "cycles"}
  BY DEF Nodes, Empty
<1>2. Shaped(graph) /\ Fresh
  BY <1>1 DEF Init, Shaped, Fresh
<1>3. Kept /\ Searched /\ Taken /\ Spreading /\ Drawing /\ CyclesAreFlagged /\ RootSelects /\ OpenIsVisible
  BY DEF Init, Kept, Searched, Taken, Spreading, Drawing, CyclesAreFlagged, RootSelects, OpenIsVisible
<1> QED BY <1>2, <1>3 DEF PlanInv

LEMMA StutterHolds ==
  ASSUME PlanInv, UNCHANGED vars
  PROVE  PlanInv'
<1>1. /\ dirs' = dirs /\ root' = root /\ shipped' = shipped /\ pc' = pc /\ graph' = graph /\ stack' = stack
      /\ visited' = visited /\ queue' = queue /\ sub' = sub /\ visible' = visible /\ drawn' = drawn
  BY DEF vars
<1>2. BuildGraph' = BuildGraph
  BY <1>1, BuildSame
<1>3. Anchors' = Anchors /\ Roots' = Roots /\ Open' = Open /\ Shut' = Shut
  <2>1. Anchors' = Anchors /\ Roots' = Roots
    BY <1>1 DEF Anchors, Roots, Nodes, Parents
  <2> QED BY <1>1, <2>1, OpenIs DEF PlanInv
<1>4. Shaped(graph)' /\ Fresh' /\ Kept' /\ Searched' /\ Taken'
  BY <1>1, <1>2, BuildSame DEF PlanInv, Fresh, Kept, Searched, Taken, Nodes
<1>5. Spreading' /\ Drawing'
  BY <1>1, <1>3 DEF PlanInv, Spreading, Drawing, Nodes, Children
<1>6. CyclesAreFlagged' /\ OpenIsVisible'
  BY <1>1, <1>3 DEF PlanInv, CyclesAreFlagged, OpenIsVisible, Nodes
<1>7. RootSelects'
  BY <1>1, <1>2 DEF PlanInv, RootSelects, Nodes
<1> QED BY <1>4, <1>5, <1>6, <1>7 DEF PlanInv

\* The inductive invariant of both scripts' searches.
THEOREM PlanInvariant == Spec => []PlanInv
<1>1. Init => PlanInv
  BY InitHolds
<1>2. PlanInv /\ [Next]_vars => PlanInv'
  <2> SUFFICES ASSUME PlanInv, [Next]_vars PROVE PlanInv'
    OBVIOUS
  <2> QED BY BuildKeeps, BuildFailsKeeps, EnterKeeps, LookKeeps, LeaveKeeps, SelectKeeps, TakeBelowKeeps, RestrictedKeeps,
             FilterKeeps, SpreadUpKeeps, SpreadDownKeeps, TurnKeeps, FindRootsKeeps, DrawKeeps, DrawnKeeps,
             StutterHolds DEF Next
<1> QED BY <1>1, <1>2, PTL DEF Spec

\* The graph holds its own nodes only, and every search of plan-graph.py stays in it.
THEOREM TypeCorrect == Spec => []TypeOK
<1>1. ASSUME PlanInv PROVE TypeOK
  <2>1. drawn \subseteq visible /\ Nodes(sub) \subseteq visited
    <3>1. Nodes(Empty) = {}
      BY DEF Nodes, Empty
    <3> QED BY <1>1, <3>1 DEF PlanInv, Fresh, Drawing, Taken
  <2> QED BY <1>1, <2>1 DEF PlanInv, Fresh, Shaped, TypeOK
<1> QED BY <1>1, PlanInvariant, PTL

\* Every cycle plan-graph.py reports is one, and every plan on a cycle is with a
\* reported one, in the whole graph and below a root, however many plans there are
\* and whatever order the depth-first search leaves them in.
THEOREM CyclesAreFlaggedHolds == Spec => []CyclesAreFlagged
<1>1. PlanInv => CyclesAreFlagged
  BY DEF PlanInv
<1> QED BY <1>1, PlanInvariant, PTL

\* Below a root plan-graph.py keeps exactly what the root depends on and every edge
\* among it.
THEOREM RootSelectsHolds == Spec => []RootSelects
<1>1. PlanInv => RootSelects
  BY DEF PlanInv
<1> QED BY <1>1, PlanInvariant, PTL

\* Visible is every plan in motion and every plan that waits for one, and of the
\* others exactly those that one in motion depends on past no other that waits.
THEOREM OpenIsVisibleHolds == Spec => []OpenIsVisible
<1>1. PlanInv => OpenIsVisible
  BY DEF PlanInv
<1> QED BY <1>1, PlanInvariant, PTL

\* The tree shows all that is visible, unless a visible plan is on a cycle.
THEOREM VisibleIsDrawnHolds == Spec => []VisibleIsDrawn
<1>1. ASSUME PlanInv PROVE VisibleIsDrawn
  <2> SUFFICES ASSUME pc = "done", \A n \in visible : ~OnCycle(graph.edges, n) PROVE drawn = visible
    BY DEF VisibleIsDrawn
  <2>1. Shaped(graph) /\ Fresh /\ Drawing /\ stack = <<>>
    BY <1>1 DEF PlanInv, Drawing
  <2>2. /\ drawn \subseteq visible /\ Roots \subseteq drawn
        /\ \A n \in drawn : Children(graph, n) \cap visible \subseteq drawn
    <3>1. ToSet(stack) = {}
      BY <2>1 DEF ToSet
    <3> QED BY <2>1, <3>1 DEF Drawing
  <2>3. graph.edges \in SUBSET (Stem \X Stem) /\ visible \in SUBSET Stem
    BY <2>1, KinAreNodes DEF Fresh
  <2> DEFINE tops == {n \in visible : Parents(graph, n) \cap visible = {}}
             U == visible \ drawn
  <2>4. \A n, p : p \in Parents(graph, n) => <<p, n>> \in graph.edges /\ n \in Children(graph, p)
    BY <2>1, EdgeIs
  <2>5. CASE tops = {} /\ visible # {}
    <3>1. \A n \in visible : \E e \in graph.edges : e[2] = n /\ e[1] \in visible
      <4> TAKE n \in visible
      <4>1. PICK p \in Parents(graph, n) : p \in visible
        BY <2>5
      <4>2. <<p, n>> \in graph.edges
        BY <2>4
      <4> QED BY <4>1, <4>2
    <3> QED BY <2>3, <2>5, <3>1, CycleWithin
  <2>6. CASE ~(tops = {} /\ visible # {})
    <3>1. tops \subseteq drawn
      BY <2>2, <2>6 DEF Roots
    <3>2. \A n \in U : \E e \in graph.edges : e[2] = n /\ e[1] \in U
      <4> TAKE n \in U
      <4>1. PICK p \in Parents(graph, n) : p \in visible
        BY <3>1
      <4>2. <<p, n>> \in graph.edges /\ p \in U
        BY <2>2, <2>4, <4>1
      <4> QED BY <4>2
    <3>3. U = {}
      <4>1. U \in SUBSET Stem /\ U \subseteq visible
        BY <2>3
      <4> HIDE DEF U
      <4> QED BY <2>3, <3>2, <4>1, CycleWithin
    <3> QED BY <2>2, <3>3
  <2> QED BY <2>5, <2>6
<1> QED BY <1>1, PlanInvariant, PTL

\* Whatever the files hold, and whatever else goes by a plan's name:
\* resolve-plan-deps.py calls the dependencies shipped that plan-graph.py draws as
\* shipped, and no other but one whose entry it passes over; and one of them
\* missing only where the graph has no file or could not read it.
THEOREM ScriptsAgreeHolds == Spec => []ScriptsAgree
<1>1. ASSUME PlanInv PROVE ScriptsAgree
  <2> SUFFICES ASSUME pc = "cycles", NEW p \in Plans, ExitStatus(p) # 2
               PROVE  /\ (\A d \in Children(graph, p) : graph.nodes[d] = "SHIPPED") => ExitStatus(p) = 0
                      /\ ExitStatus(p) = 0 =>
                           \A d \in Children(graph, p) : graph.nodes[d] = "SHIPPED" \/ PassedOver(d)
                      /\ \A u \in Unsatisfied(p) : ~Raises(p) => u.stem \in Children(graph, p)
                           /\ (u.reason = "missing_file" => graph.nodes[u.stem] \in {"MISSING", "?"})
    BY DEF ScriptsAgree
  <2>1. /\ dirs \in Layouts /\ graph.nodes = BuildGraph.nodes /\ graph.edges = BuildGraph.edges
        /\ \A d \in Plans : File(d).kind # "undecodable"
    BY <1>1 DEF PlanInv, Fresh, Kept, Undecodable
  <2> DEFINE C == Children(graph, p)
             D == {e \in C : ResolveDep(e) # "SHIPPED"}
  <2>2. /\ C = ParseDependsOn(FindStatusBlock(File(p).lines)) /\ C \subseteq Nodes(BuildGraph)
        /\ ExitStatus(p) = IF Raises(p) \/ Unsatisfied(p) # {} THEN 1 ELSE 0
        /\ Raises(p) <=> \E d \in C : ResolveDep(d) = "raises"
    <3>1. /\ File(p).kind \notin {"irregular", "unreadable"}
          /\ ExitStatus(p) = IF Raises(p) \/ Unsatisfied(p) # {} THEN 1 ELSE 0
      BY DEF ExitStatus
    <3>2. File(p).kind = "text"
      BY <2>1, <3>1, FileIs DEF Content, Kind
    <3>3. Children(BuildGraph, p) = Deps(p) /\ Shaped(BuildGraph)
      BY <2>1, BuildIs
    <3>4. C = Children(BuildGraph, p)
      BY <2>1 DEF Children
    <3>5. C \subseteq Nodes(BuildGraph)
      BY <3>3, <3>4, KinAreNodes
    <3>6. C = ParseDependsOn(FindStatusBlock(File(p).lines))
      BY <3>2, <3>3, <3>4 DEF Deps
    <3> HIDE DEF C
    <3>7. Raises(p) <=> \E d \in C : ResolveDep(d) = "raises"
      BY <3>2, <3>6 DEF Raises
    <3> QED BY <3>1, <3>5, <3>6, <3>7
  <2>3. ASSUME NEW d \in C
        PROVE  /\ graph.nodes[d] = "SHIPPED" => ResolveDep(d) = "SHIPPED"
               /\ ResolveDep(d) = "SHIPPED" => graph.nodes[d] = "SHIPPED" \/ PassedOver(d)
               /\ ResolveDep(d) = "MISSING" => graph.nodes[d] \in {"MISSING", "?"}
    <3>1. CASE d \notin Plans
      <4>1. graph.nodes[d] = "MISSING"
        BY <2>1, <2>2, <3>1, BuildIs
      <4>2. Candidates(d) = {}
        BY <2>1, <3>1, FileIs
      <4> QED BY <3>1, <4>1, <4>2 DEF ResolveDep
    <3>2. CASE d \in Plans /\ File(d).kind = "irregular"
      <4>1. graph.nodes[d] = "?"
        BY <2>1, <3>2, BuildIs DEF Status
      <4> QED BY <3>2, <4>1 DEF PassedOver
    <3>3. CASE d \in Plans /\ File(d).kind # "irregular"
      <4>1. graph.nodes[d] = Status(d) /\ File(d).kind \in {"text", "unreadable"}
        BY <2>1, <3>3, BuildIs, FileIs DEF Content, Kind
      <4>2. FindStatusBlock(File(d).lines) \in Seq(Line)
        BY <2>1, <3>3, PlanIs
      <4>3. Candidates(d) # {} /\ Candidate(d) = File(d)
        BY <2>1, <3>3, FileIs
      <4> DEFINE block == FindStatusBlock(File(d).lines)
                 word == ExtractLifecycle(block)
      <4>4. /\ word \in Word \cup {"none"} /\ (block = <<>> => word = "none")
        BY <4>2, BlockHolds
      <4>5. "MISSING" \notin Word \cup {"none"}
        BY DEF Word, Hidden, Terminal
      <4>6. ResolveDep(d) = IF File(d).kind = "unreadable" THEN "MISSING"
                            ELSE IF word = "none" THEN "DRAFT" ELSE word
        BY <4>1, <4>3 DEF ResolveDep
      <4>7. Status(d) = IF File(d).kind # "text" THEN "?" ELSE IF block = <<>> THEN "DRAFT"
                        ELSE IF word = "none" THEN "?" ELSE word
        BY DEF Status
      <4> HIDE DEF block, word
      <4> QED BY <4>1, <4>4, <4>5, <4>6, <4>7
    <3> QED BY <3>1, <3>2, <3>3
  <2>4. Unsatisfied(p) = {[stem |-> d, reason |-> CASE ResolveDep(d) = "MISSING" -> "missing_file"
                               [] ResolveDep(d) \in Terminal -> "terminal_blocker"
                               [] OTHER -> "not_yet_shipped"] : d \in D}
    BY <2>2 DEF Unsatisfied
  <2>5. Unsatisfied(p) = {} <=> D = {}
    BY <2>4
  <2>6. ASSUME NEW u \in Unsatisfied(p)
        PROVE  u.stem \in C /\ (u.reason = "missing_file" => graph.nodes[u.stem] \in {"MISSING", "?"})
    <3>1. PICK d \in D : u = [stem |-> d, reason |-> CASE ResolveDep(d) = "MISSING" -> "missing_file"
                               [] ResolveDep(d) \in Terminal -> "terminal_blocker"
                               [] OTHER -> "not_yet_shipped"]
      BY <2>4
    <3>2. u.stem = d /\ (u.reason = "missing_file" => ResolveDep(d) = "MISSING")
      BY <3>1
    <3> QED BY <2>3, <3>2
  <2> HIDE DEF C
  <2>7. (\A d \in C : graph.nodes[d] = "SHIPPED") => ExitStatus(p) = 0
    BY <2>2, <2>3, <2>5
  <2>8. ExitStatus(p) = 0 => \A d \in C : graph.nodes[d] = "SHIPPED" \/ PassedOver(d)
    BY <2>2, <2>3, <2>5
  <2> QED BY <2>6, <2>7, <2>8 DEF C
<1> QED BY <1>1, PlanInvariant, PTL

=============================================================================
