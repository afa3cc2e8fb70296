----------------------------- MODULE MCDpTrain -----------------------------
(* DpTrain with the table of a card that can do less pre-emphasis the more   *)
(* swing it is to give, and no swing of 3.  The limits are looked for in a   *)
(* part of the table, in the table, or in the table and what follows it.   *)
EXTENDS DpTrain

Table == {<<0, 0>>, <<0, 1>>, <<1, 0>>, <<2, 0>>}
TableScans == {{<<0, 0>>, <<0, 1>>}, Table, Table \cup {<<3, 0>>, <<1, 200>>}}
=============================================================================
