---------------------------- MODULE MCDurableNode ----------------------------
(***************************************************************************)
(* Instances of DurableNode for TLC: four IDs on a line, logs that load    *)
(* three or four of them, and a few mutations after that.                  *)
(***************************************************************************)
EXTENDS DurableNode

\* M = 2 cuts lists back among four nodes, M = 3 never does.
TwoConfigs ==
  {[M |-> 2, EFConstruction |-> 2, EFSearch |-> 2],
   [M |-> 3, EFConstruction |-> 3, EFSearch |-> 2]}

TwoSeeds == {<<0, 1, 0, 0, 1, 0, 0, 0>>, <<1, 0, 0, 1, 1, 0, 1, 0>>}

\* A cluster with an outlier, and two pairs far from each other.
Loads ==
  {<<InsertOf(1, <<0>>), InsertOf(2, <<1>>), InsertOf(3, <<2>>), InsertOf(4, <<7>>)>>,
   <<InsertOf(1, <<0>>), InsertOf(2, <<8>>), InsertOf(3, <<1>>), InsertOf(4, <<9>>)>>}

Later == {InsertOf(1, <<4>>), InsertOf(3, <<4>>), DeleteOf(1), DeleteOf(4)}

\* A client that retries a delete may delete an ID that is gone.
Deletes == {DeleteOf(4)}

=============================================================================
