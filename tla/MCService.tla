------------------------------ MODULE MCService ------------------------------
(***************************************************************************)
(* An instance of Service for TLC: an upsert of up to two vectors under two*)
(* IDs, or an invalid one, a delete and a search, on a node that wins and  *)
(* loses the leadership to one that puts mutations of its own into the log.*)
(***************************************************************************)
EXTENDS Service

ThreeRequests ==
  {[id |-> id, valid |-> TRUE] : id \in {"a", "b"}} \cup {[id |-> "a", valid |-> FALSE]}

InsertB == {[id |-> "b", insert |-> TRUE]}

DeleteA == [d \in Deletes |-> "a"]

=============================================================================
