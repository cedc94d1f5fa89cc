--------------------------- MODULE MCConnManagers ---------------------------
(* ConnManagers for TLC: interchangeable ClientConns.  The process and the  *)
(* log senders are interchangeable too, since their actions and properties  *)
(* are those of any element of StreamSenders.                               *)
EXTENDS ConnManagers, TLC

ManagerSymmetry == Permutations(Conn) \cup Permutations(StreamSenders)
=============================================================================
