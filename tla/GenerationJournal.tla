-------------------------- MODULE GenerationJournal --------------------------
(***************************************************************************)
(* The journal of the released kernel: the table live_events, in which     *)
(* each publication is announced once, and one bounded page of the stream  *)
(* that a client is sent.  A journal is a set of events.                   *)
(***************************************************************************)
EXTENDS Naturals, FiniteSets, FiniteSetsExt

CONSTANTS
    Retention,   \* events that are kept
    Limit,       \* events of one page
    None

ASSUME JournalAssumption == Retention \in Nat \ {0} /\ Limit \in Nat \ {0}

Ids(events)      == {e.id : e \in events}
LatestId(events) == IF events = {} THEN 0 ELSE Max(Ids(events))
LatestOf(events) == CHOOSE e \in events : e.id = LatestId(events)

Announced(events, pub) == \E e \in events : e.pub = pub

\* Mutant: without a key.
MutAppended(events, pub, gen) ==
    LET id == LatestId(events) + 1
    IN  {e \in events \cup {[id |-> id, pub |-> pub, gen |-> gen]} : e.id > id - Retention}

\* Mutant: the retention is off by one.
MutRetained(events, pub, gen) ==
    IF Announced(events, pub) THEN events
    ELSE LET id == LatestId(events) + 1
         IN  {e \in events \cup {[id |-> id, pub |-> pub, gen |-> gen]} : e.id >= id - Retention}

\* append: nothing when the key is there; otherwise the next id, and what is
\* beyond the retention goes.
Appended(events, pub, gen) ==
    IF Announced(events, pub) THEN events
    ELSE LET id == LatestId(events) + 1
         IN  {e \in events \cup {[id |-> id, pub |-> pub, gen |-> gen]} : e.id > id - Retention}

-----------------------------------------------------------------------------
(* replay reads the bounds, the latest entry and the page one after the    *)
(* other, each as of its own moment.                                       *)

Bounds(events) == [earliest |-> IF events = {} THEN None ELSE Min(Ids(events)),
                   latest   |-> LatestId(events),
                   gen      |-> IF events = {} THEN 0 ELSE Max({e.gen : e \in events})]

LatestPublication(events) == IF events = {} THEN None ELSE LatestOf(events).pub

\* The oldest events behind the client's cursor, at most Limit of them.
PageOf(events, last) ==
    LET later == {e \in events : e.id > (IF last = None THEN 0 ELSE last)}
    IN  {e \in later : Cardinality({d \in later : d.id < e.id}) < Limit}

\* Mutant: generations are compared, publications are not.
MutSnapshotRequired(last, bounds, latestPub, gen, pub) ==
    \/ last # None /\ bounds.earliest # None /\ last < bounds.earliest - 1
    \/ gen > 0 /\ bounds.gen < gen
    \/ last # None /\ last > bounds.latest

\* LiveStream.read: what makes a page useless to its client.
SnapshotRequired(last, bounds, latestPub, gen, pub) ==
    \/ last # None /\ bounds.earliest # None /\ last < bounds.earliest - 1
    \/ gen > 0 /\ bounds.gen < gen
    \/ last # None /\ last > bounds.latest
    \/ pub # None /\ latestPub # pub

=============================================================================
