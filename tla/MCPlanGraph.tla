---------------------------- MODULE MCPlanGraph -----------------------------
(***************************************************************************)
(* Small instances of PlanGraph.                                           *)
(***************************************************************************)
EXTENDS PlanGraph

Plain(word, deps) == [quoted |-> TRUE, status |-> FALSE, word |-> word, deps |-> deps]
Headed(word, deps) == [Plain(word, deps) EXCEPT !.status = TRUE]
Prose(deps) == [Plain("SHIPPED", deps) EXCEPT !.quoted = FALSE]
Text(lines) == [kind |-> "text", lines |-> lines]
NoText(kind) == [kind |-> kind, lines |-> <<>>]

Some(files) == UNION {[ps -> files] : ps \in SUBSET Stem}

\* Every graph of plans that have shipped or not.
Shapes == {<<d>> : d \in Some({Text(<<Headed(word, deps)>>) : word \in {"SHIPPED", "VETTED"}, deps \in SUBSET Stem})}

\* What a file may be, beside and over one of an archive: prose before its block, a
\* block without a word, a dependency and a word on a later line of the block, and
\* after it; a file that cannot be read, one that is not UTF-8, a directory.
Kinds ==
  {NoText(kind) : kind \in Kind \ {"text"}} \cup
  {Text(<<Prose({1})>>), Text(<<Prose({}), Headed("none", {2})>>),
   Text(<<Headed("SUPERSEDED", {}), Plain("SHIPPED", {1})>>),
   Text(<<Headed("none", {}), Plain("SHIPPED", {3}), Prose({2}), Plain("none", {1})>>)}
Archived == {NoText("undecodable")} \cup {Text(<<Headed(word, deps)>>) : word \in {"SHIPPED", "OBSOLETE"}, deps \in {{}, {1}}}

AllLayouts ==
  Shapes \cup {<<d, a>> : d \in UNION {[ps -> Kinds] : ps \in SUBSET {1, 2}},
                         a \in UNION {[ps -> Archived] : ps \in SUBSET {2, 3}}}
=============================================================================
