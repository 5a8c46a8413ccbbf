------------------------------- MODULE MCRoom -------------------------------
(* Room, the views of its clients, and its refinement of RoomProtocol,     *)
(* with three clients, for TLC.                                            *)
EXTENDS RoomClients, RoomRefinement, TLC

RoomSymmetry == Permutations(Clients) \cup Permutations(Points)

=============================================================================
