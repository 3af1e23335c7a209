---------------------------- MODULE MCRialtoRelay ----------------------------
(***************************************************************************)
(* Three nodes that are all connected, one of the links coming and going,  *)
(* and one message from the first to the last; the relay memories and the  *)
(* queues hold one message, so that any other one displaces it.            *)
(***************************************************************************)
EXTENDS RialtoRelay

MCLinks == {{"a", "b"}, {"b", "c"}, {"a", "c"}}
MCFragile == {{"a", "c"}}
MCOrigin == [m |-> "a"]
MCRecipient == [m |-> "c", o |-> "c"]
=============================================================================
