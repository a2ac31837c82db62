-------------------------- MODULE MCTcpClientPool --------------------------
(* TcpClientPool on small instances. *)
EXTENDS TcpClientPool

\* Two loops and a connection that is made again; many events for one loop, so
\* that its connection's queue is full; a loop that connects twice.
MCScenarios == {
  [loops |-> 2, events |-> 2, conns |-> 3, waiting |-> 1, closes |-> 1],
  [loops |-> 1, events |-> 4, conns |-> 2, waiting |-> 1, closes |-> 1],
  [loops |-> 1, events |-> 2, conns |-> 2, waiting |-> 2, closes |-> 1]}
=============================================================================
