--------------------------- MODULE MCRaftStorage ---------------------------
(***************************************************************************)
(* Logs of three terms, with a command of every type: two keys, and a      *)
(* value whose characters read as lengths.                                 *)
(***************************************************************************)
EXTENDS RaftStorage

ThreeTypes ==
    <<[op |-> "PUT",    client |-> 1, seq |-> 1, key |-> <<1>>, value |-> <<2>>],
      [op |-> "APPEND", client |-> 2, seq |-> 1, key |-> <<1>>, value |-> <<1, 0>>],
      [op |-> "PUT",    client |-> 1, seq |-> 2, key |-> <<>>,  value |-> <<3>>],
      [op |-> "GET",    client |-> 2, seq |-> 2, key |-> <<2>>]>>

ThreeTypesSet == {ThreeTypes[i] : i \in DOMAIN ThreeTypes}
=============================================================================
