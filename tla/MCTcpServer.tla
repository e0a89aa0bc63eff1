------------------------------ MODULE MCTcpServer ------------------------------
(* The instances of TcpServer that TLC checks.                              *)
EXTENDS TcpServer, TLC

\* Clients, managers and threads are interchangeable (safety runs only).
Symmetry == Permutations(Clients) \cup Permutations(Managers) \cup Permutations(Drs)
================================================================================
