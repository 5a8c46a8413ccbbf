----------------------------- MODULE MCSessions -----------------------------
(* The server with a few connections, for TLC.                             *)
EXTENDS Sessions, TLC

SessionsSymmetry == Permutations(Clients)

=============================================================================
