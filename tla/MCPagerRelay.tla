---------------------------- MODULE MCPagerRelay ----------------------------
(***************************************************************************)
(* Small instances of PagerRelay: what else is published on the topic.     *)
(***************************************************************************)
EXTENDS PagerRelay

P(kind, source, listed, text) ==
  [shape |-> "page_v1", kind |-> kind, source |-> source, listed |-> listed, text |-> text]

\* A page of coord's, one of a drill through a real rule, a summary that asks, and
\* one of each that is dropped: a kind the relay does not know, a condition that is
\* not in the five, one that insists, no JSON, an alarm the map does not name and
\* one without data.
Published ==
  {P("page", "aws", TRUE, "informs"), P("page", "qontinui.drill", TRUE, "informs"),
   P("drill_summary", "aws", TRUE, "asks"),
   P("other", "aws", TRUE, "informs"), P("update", "aws", FALSE, "informs"),
   P("resolved", "aws", TRUE, "insists"), [shape |-> "junk"]}
  \cup {[shape |-> "alarm", mapped |-> state = "INSUFFICIENT_DATA", at |-> 0, id |-> 0,
         state |-> state, named |-> {}, cause |-> {}] : state \in {"ALARM", "INSUFFICIENT_DATA"}}
=============
