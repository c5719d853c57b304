----------------------------- MODULE PlanGraph ------------------------------
(***************************************************************************)
(* The two scripts that read what plans depend on:                         *)
(* scripts/resolve-plan-deps.py, whose exit status says whether one plan's *)
(* dependencies have shipped, and scripts/plan-graph.py, which draws the   *)
(* graph of all plans.                                                     *)
(*                                                                         *)
(* A plan is a file of the plans directory or, when one is configured, of  *)
(* the archive directory, which the former takes precedence over: for      *)
(* plan-graph.py with whatever goes by the plan's name, for the other      *)
(* script with a regular file only.  The graph is built from the files,    *)
(* searched for cycles, restricted to what a root depends on when one is   *)
(* given, filtered, and drawn as a tree.                                   *)
(* Each iteration of a search is a step, and where the code walks a Python *)
(* set, whose order is arbitrary, the step takes any member.               *)
(***************************************************************************)
EXTENDS Integers, Sequences, FiniteSets, SequencesExt, FiniteSetsExt

CONSTANTS
  Stem,     \* the plans' names, in the order they are sorted in
  Layouts   \* the directories looked at: the files of each

Terminal == {"SUPERSEDED", "OBSOLETE"}  \* UNSATISFIED_TERMINAL
Hidden == Terminal \cup {"SHIPPED"}      \* HIDDEN_LEAF_STATUSES
Word == Hidden \cup {"DRAFT", "VETTED", "IN PROGRESS", "PARTIAL", "NOT STARTED"}

\* A line of a file: whether it begins with ">", whether it holds "**Status:",
\* its first lifecycle word, and the stems to the right of a "Depends-On:" in it.
Line == [quoted : BOOLEAN, status : BOOLEAN, word : Word \cup {"none"}, deps : SUBSET Stem]

\* What goes by a plan's name: a file of text; one that may not be read; one that
\* is not UTF-8; a directory, or a link that leads nowhere.
Kind == {"text", "unreadable", "undecodable", "irregular"}
Content == [kind : Kind, lines : Seq(Line)]

ASSUME PlanAssumption ==
  /\ Stem \subseteq Nat /\ IsFiniteSet(Stem) /\ 0 \notin Stem
  /\ \A layout \in Layouts : \A d \in DOMAIN layout :
       /\ d \in Nat /\ DOMAIN layout[d] \subseteq Stem
       /\ layout[d] \in [DOMAIN layout[d] -> Content]

VARIABLES
  dirs,     \* the directories: of each, its files by stem
  root,     \* --root, or 0, from where it is read on
  shipped,  \* --include-shipped, likewise
  pc,       \* what is being done
  graph,    \* the graph
  stack,    \* the depth-first search, or the nodes still to draw
  visited,  \* nodes whose search has ended, or that have been taken
  queue,    \* the breadth-first search's queue
  sub,      \* the graph below the root
  visible,  \* what is not hidden
  drawn     \* what has been drawn with its dependencies

vars == <<dirs, root, shipped, pc, graph, stack, visited, queue, sub, visible, drawn>>
args == <<dirs, root, shipped>>

-----------------------------------------------------------------------------
(* Files. *)

\* The status block: from the first quoted line with a status to the last
\* quoted line that follows without a break.
FindStatusBlock(lines) ==
  LET starts == {i \in DOMAIN lines : lines[i].quoted /\ lines[i].status}
      ends(s) == {i \in s..Len(lines) : ~lines[i].quoted} \cup {Len(lines) + 1}
  IN IF starts = {} THEN <<>> ELSE SubSeq(lines, Min(starts), Min(ends(Min(starts))) - 1)

ParseDependsOn(block) == UNION {line.deps : line \in ToSet(block)}

ExtractLifecycle(block) ==
  LET worded == {i \in DOMAIN block : block[i].word # "none"}
  IN IF worded = {} THEN "none" ELSE block[Min(worded)].word

Plans == UNION {DOMAIN dirs[d] : d \in DOMAIN dirs}

\* What plan-graph.py takes a plan from: the first directory's entry.
File(p) == dirs[Min({d \in DOMAIN dirs : p \in DOMAIN dirs[d]})][p]

\* What resolve-plan-deps.py does: the first that is_file().
Candidates(p) == {d \in DOMAIN dirs : p \in DOMAIN dirs[d] /\ dirs[d][p].kind # "irregular"}
Candidate(p) == dirs[Min(Candidates(p))][p]

-----------------------------------------------------------------------------
(* resolve-plan-deps.py. *)

\* UnicodeDecodeError is no OSError: nothing catches it.
ResolveDep(p) ==
  IF Candidates(p) = {} \/ Candidate(p).kind = "unreadable" THEN "MISSING"
  ELSE IF Candidate(p).kind = "undecodable" THEN "raises"
  ELSE LET word == ExtractLifecycle(FindStatusBlock(Candidate(p).lines))
       IN IF word = "none" THEN "DRAFT" ELSE word

\* The unsatisfied dependencies of a plan, and why.
Unsatisfied(p) ==
  {[stem |-> d, reason |-> CASE ResolveDep(d) = "MISSING" -> "missing_file"
                               [] ResolveDep(d) \in Terminal -> "terminal_blocker"
                               [] OTHER -> "not_yet_shipped"] :
     d \in {e \in ParseDependsOn(FindStatusBlock(File(p).lines)) : ResolveDep(e) # "SHIPPED"}}

\* No more than the trace of the error is printed.
Raises(p) ==
  \/ File(p).kind = "undecodable"
  \/ \E d \in ParseDependsOn(FindStatusBlock(File(p).lines)) : ResolveDep(d) = "raises"

\* Of the path that the graph has for the plan.
ExitStatus(p) ==
  IF p \notin Plans \/ File(p).kind \in {"irregular", "unreadable"} THEN 2
  ELSE IF Raises(p) \/ Unsatisfied(p) # {} THEN 1 ELSE 0

-----------------------------------------------------------------------------
(* plan-graph.py: the graph and its cycles. *)

\* A file that cannot be read or whose block has no word is "?" here, one
\* without a block is a draft.
Status(p) ==
  LET block == FindStatusBlock(File(p).lines) IN
  IF File(p).kind # "text" THEN "?"
  ELSE IF block = <<>> THEN "DRAFT"
  ELSE IF ExtractLifecycle(block) = "none" THEN "?" ELSE ExtractLifecycle(block)

\* Variant: the headline's only.
DepsOfHeadline(p) ==
  LET block == FindStatusBlock(File(p).lines) IN
  IF File(p).kind = "text" /\ block # <<>> THEN Head(block).deps ELSE {}

Deps(p) == IF File(p).kind = "text" THEN ParseDependsOn(FindStatusBlock(File(p).lines)) ELSE {}

\* Variant: a dependency without a file gets no node.
BuildGraphNoStub ==
  LET named == UNION {Deps(p) : p \in Plans} IN
  [nodes |-> [p \in Plans |-> Status(p)],
   edges |-> {e \in Plans \X named : e[2] \in Deps(e[1])},
   missing |-> named \ Plans,
   cycles |-> {}]

BuildGraph ==
  LET named == UNION {Deps(p) : p \in Plans} IN
  [nodes |-> [p \in Plans \cup named |-> IF p \in Plans THEN Status(p) ELSE "MISSING"],
   edges |-> {e \in Plans \X named : e[2] \in Deps(e[1])},
   missing |-> named \ Plans,
   cycles |-> {}]

Nodes(g) == DOMAIN g.nodes
Children(g, n) == {e[2] : e \in {f \in g.edges : f[1] = n}}
Parents(g, n) == {e[1] : e \in {f \in g.edges : f[2] = n}}
Empty == [nodes |-> <<>>, edges |-> {}, missing |-> {}, cycles |-> {}]

Init ==
  /\ dirs \in Layouts
  /\ root = 0 /\ shipped = FALSE
  /\ pc = "build"
  /\ graph = Empty /\ sub = Empty
  /\ stack = <<>> /\ visited = {} /\ queue = {}
  /\ visible = {} /\ drawn = {}

\* A file of the graph that is not UTF-8 ends the script.
Undecodable == {p \in Plans : File(p).kind = "undecodable"}

Build ==
  /\ pc = "build" /\ Undecodable = {} /\ pc' = "cycles"
  /\ graph' = BuildGraph
  /\ UNCHANGED <<args, stack, visited, queue, sub, visible, drawn>>

BuildFails ==
  /\ pc = "build" /\ Undecodable # {} /\ pc' = "failed"
  /\ UNCHANGED <<args, graph, stack, visited, queue, sub, visible, drawn>>

\* A node is entered: its dependencies are to be looked at in order.
Frame(n) == [node |-> n, todo |-> Children(graph, n)]
OnStack == {frame.node : frame \in ToSet(stack)}

\* Variant: the whole path, not from the node on.
LoopWhole(n) == [i \in DOMAIN stack |-> stack[i].node]

Loop(n) == LET nodes == [i \in DOMAIN stack |-> stack[i].node]
           IN SubSeq(nodes, Min({i \in DOMAIN nodes : nodes[i] = n}), Len(nodes))

\* A loop that starts at its smallest stem, which two reports of it share.
Canonical(loop) ==
  LET i == Min({k \in DOMAIN loop : loop[k] = Min(ToSet(loop))})
  IN SubSeq(loop, i, Len(loop)) \o SubSeq(loop, 1, i - 1)

Search == pc = "cycles" /\ UNCHANGED <<args, queue, sub, visible, drawn>>

Enter ==
  /\ Search /\ stack = <<>> /\ Nodes(graph) \ visited # {}
  /\ stack' = <<Frame(Min(Nodes(graph) \ visited))>>
  /\ UNCHANGED <<pc, graph, visited>>

Look ==
  /\ Search /\ stack # <<>> /\ Last(stack).todo # {}
  /\ LET n == Min(Last(stack).todo)
         rest == [stack EXCEPT ![Len(stack)].todo = @ \ {n}] IN
     \/ /\ n \in OnStack
        /\ graph' = [graph EXCEPT !.cycles = @ \cup {Canonical(Loop(n))}]
        /\ stack' = rest
     \/ /\ n \notin OnStack
        /\ stack' = IF n \in visited THEN rest ELSE Append(rest, Frame(n))
        /\ UNCHANGED graph
  /\ UNCHANGED <<pc, visited>>

Leave ==
  /\ Search /\ stack # <<>> /\ Last(stack).todo = {}
  /\ stack' = Front(stack)
  /\ visited' = visited \cup {Last(stack).node}
  /\ UNCHANGED <<pc, graph>>

-----------------------------------------------------------------------------
(* plan-graph.py: the graph below a root. *)

\* The search for cycles is over.  A root nobody names is shown as missing.
Select ==
  /\ pc = "cycles" /\ stack = <<>> /\ Nodes(graph) \subseteq visited
  /\ root' \in Stem \cup {0}
  /\ \/ root' = 0 /\ pc' = "filter" /\ UNCHANGED <<graph, queue>>
     \/ /\ root' # 0 /\ root' \notin Nodes(graph)
        /\ graph' = [Empty EXCEPT !.nodes = [n \in {root'} |-> "MISSING"], !.missing = {root'}]
        /\ pc' = "filter" /\ UNCHANGED queue
     \/ /\ root' \in Nodes(graph)
        /\ queue' = {root'} /\ pc' = "below" /\ UNCHANGED graph
  /\ visited' = {}
  /\ UNCHANGED <<dirs, shipped, stack, sub, visible, drawn>>

\* Variant: an edge only when its end was copied before.
CopiedBack(n) ==
  [sub EXCEPT !.nodes = [m \in Nodes(sub) \cup {n} |-> graph.nodes[m]],
     !.edges = @ \cup {e \in graph.edges : e[1] = n /\ e[2] \in Nodes(sub)}]

\* A node taken from the queue is copied with its edges.
Copied(n) ==
  LET known == n \in Nodes(graph) IN
  [sub EXCEPT
     !.nodes = [m \in DOMAIN @ \cup {n} |-> IF m # n THEN @[m]
                                         ELSE IF known THEN graph.nodes[n] ELSE "MISSING"],
     !.missing = IF known THEN @ ELSE @ \cup {n},
     !.edges = @ \cup {e \in graph.edges : e[1] = n}]

\* Variant: what was taken is not remembered.
TakeBelowUnmarked ==
  /\ pc = "below"
  /\ \E n \in queue :
       queue' = (queue \ {n}) \cup Children(graph, n) /\ sub' = Copied(n)
  /\ UNCHANGED <<args, pc, graph, stack, visited, visible, drawn>>

TakeBelow ==
  /\ pc = "below"
  /\ \E n \in queue :
       IF n \in visited THEN queue' = queue \ {n} /\ UNCHANGED <<visited, sub>>
       ELSE /\ queue' = (queue \ {n}) \cup Children(graph, n)
            /\ visited' = visited \cup {n}
            /\ sub' = Copied(n)
  /\ UNCHANGED <<args, pc, graph, stack, visible, drawn>>

Restricted ==
  /\ pc = "below" /\ queue = {} /\ pc' = "filter"
  /\ graph' = [sub EXCEPT !.cycles = {c \in graph.cycles : ToSet(c) \subseteq visited}]
  /\ sub' = Empty
  /\ UNCHANGED <<args, stack, visited, queue, visible, drawn>>

-----------------------------------------------------------------------------
(* plan-graph.py: what is hidden, and the tree. *)

Anchors == {n \in Nodes(graph) : graph.nodes[n] \notin Hidden}

Filter ==
  /\ pc = "filter"
  /\ \/ shipped' = TRUE /\ visible' = Nodes(graph) /\ pc' = "roots" /\ UNCHANGED queue
     \/ shipped' = FALSE /\ visible' = Anchors /\ queue' = Anchors /\ pc' = "up"
  /\ visited' = {}
  /\ UNCHANGED <<dirs, root, graph, stack, sub, drawn>>

\* What a node of the queue leads to and is not visible yet becomes visible.
Spread(next(_, _)) ==
  /\ \E n \in queue : LET new == next(graph, n) \ visible IN
       visible' = visible \cup new /\ queue' = (queue \ {n}) \cup new
  /\ UNCHANGED <<args, pc, graph, stack, visited, sub, drawn>>

\* Variant: down, twice.
SpreadUpDown == pc = "up" /\ Spread(Children)

SpreadUp == pc = "up" /\ Spread(Parents)

SpreadDown == pc = "down" /\ Spread(Children)

Turn ==
  /\ queue = {}
  /\ \/ pc = "up" /\ pc' = "down" /\ queue' = Anchors
     \/ pc = "down" /\ pc' = "roots" /\ UNCHANGED queue
  /\ UNCHANGED <<args, graph, stack, visited, sub, visible, drawn>>

Sorted(nodes) ==
  CHOOSE s \in [1 .. Cardinality(nodes) -> nodes] : \A i, j \in DOMAIN s : i < j => s[i] < s[j]
Roots ==
  LET tops == {n \in visible : Parents(graph, n) \cap visible = {}}
  IN IF tops = {} /\ visible # {} THEN {Min(visible)} ELSE tops

FindRoots ==
  /\ pc = "roots" /\ pc' = "draw"
  /\ stack' = Sorted(Roots)
  /\ UNCHANGED <<args, graph, visited, queue, sub, visible, drawn>>

\* Variant: the first dependency's subtree replaces what is left to draw.
DrawDeep ==
  /\ pc = "draw" /\ stack # <<>>
  /\ LET n == Head(stack) IN
     IF n \in drawn THEN stack' = Tail(stack) /\ UNCHANGED drawn
     ELSE /\ stack' = Sorted(Children(graph, n) \cap visible)
          /\ drawn' = drawn \cup {n}
  /\ UNCHANGED <<args, pc, graph, visited, queue, sub, visible>>

\* A node drawn before is not expanded again.
Draw ==
  /\ pc = "draw" /\ stack # <<>>
  /\ LET n == Head(stack) IN
     IF n \in drawn THEN stack' = Tail(stack) /\ UNCHANGED drawn
     ELSE /\ stack' = Sorted(Children(graph, n) \cap visible) \o Tail(stack)
          /\ drawn' = drawn \cup {n}
  /\ UNCHANGED <<args, pc, graph, visited, queue, sub, visible>>

Drawn ==
  /\ pc = "draw" /\ stack = <<>> /\ pc' = "done"
  /\ UNCHANGED <<args, graph, stack, visited, queue, sub, visible, drawn>>

Next ==
  \/ Build \/ BuildFails \/ Enter \/ Look \/ Leave
  \/ Select \/ TakeBelow \/ Restricted
  \/ Filter \/ SpreadUp \/ SpreadDown \/ Turn
  \/ FindRoots \/ Draw \/ Drawn

Spec == Init /\ [][Next]_vars /\ WF_vars(Next)

-----------------------------------------------------------------------------
(* Properties.  The reference: what nodes lead to over edges is the least set *)
(* that holds them and is closed under the edges.                             *)

Below(edges, from) ==
  {n \in Stem : \A closed \in SUBSET Stem :
     from \subseteq closed /\ (\A e \in edges : e[1] \in closed => e[2] \in closed) => n \in closed}
Under(edges, n) == Below(edges, {e[2] : e \in {f \in edges : f[1] = n}})
OnCycle(edges, n) == n \in Under(edges, n)

\* The graph holds its own nodes only, and the searches stay in it.
TypeOK ==
  /\ pc \in {"build", "cycles", "below", "filter", "up", "down", "roots", "draw", "done", "failed"}
  /\ Nodes(graph) \subseteq Stem /\ graph.edges \subseteq Nodes(graph) \X Nodes(graph)
  /\ \A n \in Nodes(graph) : graph.nodes[n] \in Word \cup {"?", "MISSING"}
  /\ visited \cup queue \cup visible \cup drawn \cup Nodes(sub) \cup graph.missing
       \subseteq Nodes(graph) \cup {root}

\* Every reported cycle is one, and every plan that depends on itself, directly or
\* not, has a reported cycle among the plans it shares cycles with, in the whole
\* graph and below a root.
CyclesAreFlagged ==
  pc = "filter" =>
    /\ \A c \in graph.cycles : \A i \in DOMAIN c :
         <<c[i], IF i = Len(c) THEN c[1] ELSE c[i + 1]>> \in graph.edges
    /\ \A n \in Nodes(graph) : OnCycle(graph.edges, n) =>
         \E c \in graph.cycles : \A m \in ToSet(c) :
           m \in Under(graph.edges, n) /\ n \in Under(graph.edges, m)

\* Below a root is exactly what the root depends on, directly or not, with every
\* edge among it, in whatever order the search takes the nodes.
RootSelects ==
  pc = "filter" /\ root \in Nodes(BuildGraph) =>
    /\ Nodes(graph) = Below(BuildGraph.edges, {root})
    /\ graph.edges = {e \in BuildGraph.edges : e[1] \in Nodes(graph)}
    /\ \A n \in Nodes(graph) : graph.nodes[n] = BuildGraph.nodes[n]

\* With all shown, all is visible; otherwise the plans that are, or wait for, one
\* still in motion, and of the others those that one in motion depends on without
\* another that waits in between.  The usage text and comments of the script say
\* otherwise of shipped leaves and non-leaves (33-37, 365-368, 392-396).
OpenIsVisible ==
  LET open == {n \in Nodes(graph) : Below(graph.edges, {n}) \cap Anchors # {}}
      shut == {e \in graph.edges : e[2] \notin open}
  IN pc = "roots" => visible = IF shipped THEN Nodes(graph) ELSE open \cup Below(shut, Anchors)

\* What is visible is drawn when no cycle is: the roots lead to all of it.
VisibleIsDrawn ==
  pc = "done" /\ (\A n \in visible : ~OnCycle(graph.edges, n)) => drawn = visible

\* The graph has an entry for the plan which the other script passes over.
PassedOver(p) == p \in Plans /\ File(p).kind = "irregular"

\* The two scripts agree: what the graph has all of as shipped is satisfied; what
\* is satisfied the graph has as shipped, but for what is passed over; and what is
\* missing the graph has no file of, or could not read.
ScriptsAgree ==
  pc = "cycles" /\ stack = <<>> => \A p \in Plans : ExitStatus(p) # 2 =>
    /\ (\A d \in Children(graph, p) : graph.nodes[d] = "SHIPPED") => ExitStatus(p) = 0
    /\ ExitStatus(p) = 0 =>
         \A d \in Children(graph, p) : graph.nodes[d] = "SHIPPED" \/ PassedOver(d)
    /\ ~Raises(p) => \A u \in Unsatisfied(p) : u.stem \in Children(graph, p)
         /\ (u.reason = "missing_file" => graph.nodes[u.stem] \in {"MISSING", "?"})

\* It ends, cycles or not.
Ends == <>(pc \in {"done", "failed"})

=============================================================================
