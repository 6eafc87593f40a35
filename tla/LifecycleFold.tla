--------------------------- MODULE LifecycleFold ---------------------------
(***************************************************************************)
(* The current state of an entity, folded from its transitions.  Times are *)
(* evidence: the order is that of the versions, so a history is a sequence *)
(* of transitions with the version as the index.                           *)
(***************************************************************************)
EXTENDS SequencesExt, Integers

CONSTANT None

Terminal == {"succeeded", "failed", "cancelled", "rolled_back"}
Active   == {"pending", "open", "running"}
States   == {"unknown"} \cup Active \cup Terminal

AllowedAfter ==
    [state \in States |->
        CASE state = "unknown" -> States
          [] state = "pending" -> Active \cup Terminal
          [] state = "open"    -> (Active \ {"pending"}) \cup Terminal
          [] state = "running" -> {"running"} \cup Terminal
          [] OTHER             -> {state}]

Unfolded == [ok |-> TRUE, state |-> "unknown", version |-> 0, start |-> None, end |-> None]

FoldNext(fold, transition) ==
    [ok      |-> fold.ok /\ transition.state \in AllowedAfter[fold.state],
     state   |-> transition.state,
     version |-> fold.version + 1,
     start   |-> IF fold.start = None /\ transition.state \in Active
                 THEN transition.at ELSE fold.start,
     end     |-> IF transition.state \in Terminal THEN transition.at ELSE fold.end]

FoldOf(transitions) ==
    LET upTo[i \in 0 .. Len(transitions)] ==
          IF i = 0 THEN Unfolded ELSE FoldNext(upTo[i-1], transitions[i])
    IN  upTo[Len(transitions)]

\* The schema's check on the times of a row.
InOrder(start, end) == start # None /\ end # None => start <= end
=============================================================================
