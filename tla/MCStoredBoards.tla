--------------------------- MODULE MCStoredBoards ---------------------------
(* The store with a few boards, for TLC.                                   *)
EXTENDS StoredBoards

RoomSymmetry == Permutations(Rooms)

Blobs == Seq(0 .. Base - 1)

Ended == [id |-> 1, author |-> 9, color |-> 3, thickness |-> 2, strokeOrder |-> 6,
          finished |-> TRUE, points |-> <<[x |-> 3, y |-> 0], [x |-> 1, y |-> 2]>>]

InProgress == [id |-> 7, author |-> 4, color |-> 0, thickness |-> 1, strokeOrder |-> 13,
               finished |-> FALSE, points |-> <<[x |-> 2, y |-> 1]>>]

SomeBoards == {<<>>, <<Ended>>, <<Ended, InProgress>>}

=============================================================================
