----------------------------- MODULE MCFollower -----------------------------
(***************************************************************************)
(* Small instances of Follower: what the publisher commits in each run.    *)
(***************************************************************************)
EXTENDS Follower

T(kind, creates, quirk, cases) ==
  [kind |-> kind, creates |-> creates, quirk |-> quirk, cases |-> cases]

App       == T("app", FALSE, "none", {})
AppMisfit == T("app", FALSE, "misfit", {})
Web       == T("web", FALSE, "none", {})
WebTable  == T("web", TRUE, "none", {})
WebMisfit == T("web", FALSE, "misfit", {})
WebMoves  == T("web", FALSE, "moves", {})
WebAlters == T("web", FALSE, "alters", {})
Coord     == T("coord", FALSE, "none", {})

\* Migrations the replay checks halt on, on one table or two.
Shaped == {T("web", FALSE, "none", cases) : cases \in
             {{<<"rename", t>> : t \in Target},
              {<<"key-change", t>> : t \in Target},
              {<<"rewrite", t>> : t \in Target} \cup {<<"missing-value", t>> : t \in Target}}}

TxWeb    == {App, Web, WebTable}
TxLive   == {App, WebTable}
TxCarry  == {App, WebTable, Coord}
TxHalts  == {App, AppMisfit, Web, WebMisfit, WebMoves} \cup Shaped
TxAlters == {App, WebTable, WebAlters}
=============
