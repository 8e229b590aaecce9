-------------------------------- MODULE MCFeed --------------------------------
(* A small instance of Feed. *)
EXTENDS Feed

FeedChannels == {"book", "book:snapshot", "events"}

OneLevel == {[side |-> "buy", price |-> 1, qty |-> q] : q \in {0, 1}}
=============================================================================
