----------------------------- MODULE MCFeedPaging -----------------------------
(* A small instance of FeedPaging for TLC. *)
EXTENDS FeedPaging

\* Three rows of one millisecond, an older one with a larger id, two authors.
MCRows == {[time |-> 2, id |-> 1, author |-> "ann"], [time |-> 2, id |-> 2, author |-> "bob"],
           [time |-> 2, id |-> 3, author |-> "ann"], [time |-> 1, id |-> 4, author |-> "bob"]}
\* No limit, a page of one, and more than the maximum.
MCLimits == {0, 1, 9}
=============================================================================
