-------------------------- MODULE MCWebsocketPool --------------------------
(***************************************************************************)
(* Instances of WebsocketPool for TLC.                                     *)
(***************************************************************************)
EXTENDS WebsocketPool, TLC

Symmetry == Permutations(Fds) \cup Permutations(Workers)

\* Bound: several connections and one event, or one connection that sends further
\* headers and enough events to fill its queue.
FewAtOnce ==
  \/ accepted <= 1
  \/ Cardinality(index) <= 1 /\ \A c \in Conns : repeats[c] = 0
=============================================================================
