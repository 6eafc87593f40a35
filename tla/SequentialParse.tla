--------------------------- MODULE SequentialParse ---------------------------
(***************************************************************************)
(* What a consumer of the parser is promised, however many workers there   *)
(* are: the batches of the selected sources in the order of their ranks,   *)
(* those of one source in their order, the last one marked.                *)
(***************************************************************************)
EXTENDS Naturals, Sequences

CONSTANT N    \* selected sources, numbered by rank

VARIABLES yielded,   \* batches so far
          ended      \* the iteration is over

\* The source and the index of the batch that is next; source N + 1 when there
\* is none.
NextSource(batches) ==
    IF batches = <<>> THEN 1
    ELSE LET b == batches[Len(batches)] IN IF b.done THEN b.source + 1 ELSE b.source
NextIndex(batches) ==
    IF batches = <<>> THEN 0
    ELSE LET b == batches[Len(batches)] IN IF b.done THEN 0 ELSE b.index + 1

Init == yielded = <<>> /\ ended = FALSE

Yield ==
    /\ NextSource(yielded) <= N
    /\ \E last \in BOOLEAN :
         yielded' = Append(yielded, [source |-> NextSource(yielded), index |-> NextIndex(yielded),
                                     done |-> last])
    /\ UNCHANGED ended

End == /\ NextSource(yielded) = N + 1
       /\ ended' = TRUE
       /\ UNCHANGED yielded

Next == Yield \/ End

Spec == Init /\ [][Next]_<<yielded, ended>>

=============================================================================
