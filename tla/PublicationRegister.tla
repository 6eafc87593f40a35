-------------------------- MODULE PublicationRegister --------------------------
(***************************************************************************)
(* What publication promises its clients: a register holding the chain of  *)
(* publications that readers see, and the outcome reported for each        *)
(* operation.  The chain only ever grows by one publication at its end; an *)
(* operation is reported published only once it is in the chain, and one   *)
(* reported abandoned is never seen by a reader, before or after.          *)
(***************************************************************************)
EXTENDS Sequences

CONSTANTS Operations, First

VARIABLES chain, outcome

register == <<chain, outcome>>

Seen == {chain[k] : k \in DOMAIN chain}

Init ==
    /\ chain \in {<<>>, <<First>>}
    /\ outcome = [o \in Operations |-> "unknown"]

Publish(o) ==
    /\ o \notin Seen
    /\ outcome[o] = "unknown"
    /\ chain' = Append(chain, o)
    /\ UNCHANGED outcome

Report(o) ==
    /\ outcome[o] = "unknown"
    /\ outcome' = [outcome EXCEPT ![o] = IF o \in Seen THEN "published" ELSE "abandoned"]
    /\ UNCHANGED chain

Next == \E o \in Operations : Publish(o) \/ Report(o)

Spec == Init /\ [][Next]_register

=============================================================================
