--------------------------- MODULE RoomRefinement ---------------------------
(***************************************************************************)
(* Room implements RoomProtocol: the board is forgotten, the clients that  *)
(* are drawing are the keys of activeStrokeByClient_, and an event keeps   *)
(* its number, kind, author and recipients.                                *)
(***************************************************************************)
EXTENDS Room

AbstractRoom ==
  [members |-> members, drawing |-> DOMAIN activeStrokeByClient,
   nextSeq |-> nextSeq]

AbstractEvent(e) ==
  [seq |-> e.seq, kind |-> e.payload.kind, author |-> e.payload.author,
   to |-> e.to]

AbstractEvents == [k \in DOMAIN out |-> AbstractEvent(out[k])]

Protocol == INSTANCE RoomProtocol
              WITH room <- AbstractRoom, events <- AbstractEvents, err <- err

(* Every call on class Room has an outcome the abstract room allows: in    *)
(* whatever state the board, the index and the rate limiter are, only the  *)
(* membership and who is drawing decide which events go to whom and which  *)
(* error is answered; above all, "unknown stroke id" never happens.        *)
ImplementsProtocol == Protocol!Spec

=============================================================================
