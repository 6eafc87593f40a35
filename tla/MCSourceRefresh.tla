--------------------------- MODULE MCSourceRefresh ---------------------------
(***************************************************************************)
(* Refreshes from source files on small instances.                         *)
(***************************************************************************)
EXTENDS SourceRefreshProperties

CONSTANTS r1, r2

\* Files that grow, and new ones behind the old ones, read by refreshes that may die.
Grows == [edits |-> {"create_later", "append", "partial"}, midRead |-> {}, maxFaults |-> 1]

\* Files that change in every way, and grow while they are read.
Anyhow == [edits |-> {"create", "append", "remove", "rewrite"}, midRead |-> {"append"}, maxFaults |-> 0]

MCHabits == {Grows, Anyhow}

\* One way of changing at a time.
MCGrown    == {[edits |-> {"create_later", "append"}, midRead |-> {"append"}, maxFaults |-> 0]}
MCReplaced == {[edits |-> {"create_later", "append", "rewrite"}, midRead |-> {}, maxFaults |-> 0]}
MCSwapped  == {[edits |-> {"create_later", "rewrite"}, midRead |-> {"rewrite"}, maxFaults |-> 0]}
MCWild     == {[edits |-> Anyhow.edits, midRead |-> Anyhow.edits, maxFaults |-> 0]}
MCRemoved  == {[edits |-> {"create_later", "remove"}, midRead |-> {}, maxFaults |-> 0]}
MCEarlier  == {[edits |-> {"create"}, midRead |-> {}, maxFaults |-> 0]}

=============================================================================
