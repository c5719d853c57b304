----------------------------- MODULE SchemaCarry ----------------------------
(***************************************************************************)
(* What the schema follower promises (the head of qpg/follower.py): every  *)
(* publisher transaction takes effect on the subscriber exactly once, in   *)
(* commit order and with production's own rows, and a migration's rows     *)
(* only after its schema change was carried, in one step, onto a           *)
(* subscriber that holds exactly the transactions before it.               *)
(***************************************************************************)
EXTENDS Naturals, Sequences

CONSTANTS Tx, MaxTx

VARIABLES
  pub,      \* transactions committed on the publisher
  origin,   \* how many of them the subscriber has
  carried,  \* migrations whose schema change the subscriber has
  image     \* what the subscriber holds of each transaction's rows

carryVars == <<pub, origin, carried, image>>

CarryInit ==
  /\ pub = <<>>
  /\ origin = 0
  /\ carried = {}
  /\ image = [i \in 1 .. MaxTx |-> "none"]

Publish ==
  /\ Len(pub) < MaxTx
  /\ \E t \in Tx : pub' = Append(pub, t)
  /\ UNCHANGED <<origin, carried, image>>

\* The next transaction is a migration: its schema change takes effect.
Carry ==
  LET n == origin + 1 IN
  /\ n <= Len(pub)
  /\ pub[n].kind # "app"
  /\ n \notin carried
  /\ carried' = carried \cup {n}
  /\ UNCHANGED <<pub, origin, image>>

\* The next transaction's rows take effect, production's own and once.
TakeEffect ==
  LET n == origin + 1 IN
  /\ n <= Len(pub)
  /\ pub[n].kind # "app" => n \in carried
  /\ origin' = n
  /\ image' = [image EXCEPT ![n] = "prod"]
  /\ UNCHANGED <<pub, carried>>

CarryNext == Publish \/ Carry \/ TakeEffect

CarrySpec == CarryInit /\ [][CarryNext]_carryVars

=============================================================================
