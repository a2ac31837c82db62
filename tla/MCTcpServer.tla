---------------------------- MODULE MCTcpServer ----------------------------
(* TcpServer for TLC: sizes that fill the buffer, empty bodies, and bodies *)
(* that are too big.                                                       *)
EXTENDS TcpServer, TLC

CONSTANTS c1, c2

MCScenarios ==
  {[msgs |-> c1 :> <<2>> @@ c2 :> <<0>>, leave |-> TRUE, others |-> {}, stops |-> FALSE],
   [msgs |-> c1 :> <<0, 6>>, leave |-> TRUE, others |-> {}, stops |-> FALSE],
   [msgs |-> c1 :> <<1, 0, 0>>, leave |-> TRUE, others |-> {}, stops |-> FALSE],
   [msgs |-> c1 :> <<0>> @@ c2 :> <<0>>, leave |-> FALSE, others |-> {}, stops |-> TRUE],
   [msgs |-> c1 :> <<0>>, leave |-> FALSE, others |-> Others, stops |-> TRUE]}
=============================================================================
