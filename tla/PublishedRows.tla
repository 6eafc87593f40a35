--------------------------- MODULE PublishedRows ---------------------------
(***************************************************************************)
(* What a publication makes of the records it reads: transitions, rows,    *)
(* session hierarchy, counts and deltas, prepared from the rows that are   *)
(* published and written in one transaction, or refused as a whole.        *)
(*                                                                         *)
(* A record stands for the observation it is normalised to.  Sources are   *)
(* numbered by rank.  Every record has a time.  There is one allowance, in *)
(* one cycle.  Turns, activities, projects and resources are left out, and *)
(* so are the foreign keys of a tool or a call.                            *)
(***************************************************************************)
EXTENDS LifecycleFold, SessionTree

CONSTANTS
    Tools, Calls, Components,
    Sources,     \* a set of numbers
    Worlds       \* kinds of records the sources hold, and how many records at most

Kinds == {"session", "child", "session_end", "late_parent", "late_parent_elsewhere",
          "tool", "tool_end", "bare_end", "call", "component", "allowance", "allowance_elsewhere", "allowance_end",
          "copy", "skew"}

ASSUME RowsAssumption ==
    /\ Worlds \subseteq [kinds : SUBSET Kinds, records : Nat]
    /\ IsFiniteSet(Tools) /\ IsFiniteSet(Calls) /\ IsFiniteSet(Components)
    /\ Sources \subseteq Nat /\ IsFiniteSet(Sources)
    /\ Sessions \cap Tools = {} /\ Sessions \cap Calls = {} /\ Tools \cap Calls = {}
    /\ Components \cap (Sessions \cup Tools \cup Calls) = {}

VARIABLES
    world,   \* what the sources may hold
    log,     \* the records of all sources, in the order they were written
    read,    \* by source: how many of its records are published
    db       \* the artifact

vars == <<world, log, read, db>>

\* Where an observation of the allowance can be: it is known by its source and place.
Places == Sources \X (1 .. world.records)

Folded   == Sessions \cup Tools \cup Calls
Entities == Folded \cup Components

Statuses    == States \cup {"", "completed"}
Time        == Nat \cup {None}
Observation == [src : Sources, n : Nat, at : Nat, type : {"entity", "relationship", "allowance"},
                id : Entities \cup {None}, state : Statuses,
                parent : Sessions \cup {None}, value : Nat \cup {None}]
Session     == [state : Statuses, version : Nat, start : Time, end : Time,
                parent : Sessions \cup {None}, root : Sessions, depth : Nat]
Tool        == [state : Statuses, version : Nat, end : Time, start : Nat, value : Nat \cup {None}]
Call        == [state : Statuses, version : Nat, at : Nat, value : Nat \cup {None}, ordinal : Nat]
Component   == [at : Nat, value : Nat \cup {None}]

ASSUME AbsentAssumption ==
    None \notin Nat \cup Entities \cup Observation \cup Session \cup Tool \cup Call \cup Component

-----------------------------------------------------------------------------
(* Records.  A relationship is about a child; anything else about itself.  *)

\* The elements at some places of a sequence, in their order.
Picked(s, places) ==
    [k \in 1 .. Cardinality(places) |->
        s[CHOOSE i \in places : Cardinality({j \in places : j < i}) = k - 1]]

Records(source) == Picked(log, {i \in 1 .. Len(log) : log[i].src = source})
Unread(source)  == SubSeq(Records(source), read[source] + 1, Len(Records(source)))
AllRead         == \A s \in Sources : Unread(s) = <<>>

Known(e)    == \E i \in 1 .. Len(log) : log[i].type = "entity" /\ log[i].id = e
Home(e)     == log[Min({i \in 1 .. Len(log) : log[i].type = "entity" /\ log[i].id = e})].src
\* Names are given in the order in which they are needed.
NextOf(S, e) == ~Known(e) /\ e = CHOOSE f \in S : ~Known(f)

HasState(e, state) == \E i \in 1 .. Len(log) : log[i].id = e /\ log[i].state = state

\* What a record tells of a tool, when it does.
Operation == 1

Times == IF "skew" \in world.kinds THEN 0 .. Len(log) + 1 ELSE {Len(log) + 1}

Record(s, at, type, id, state, parent, value) ==
    [src |-> s, n |-> Len(Records(s)) + 1, at |-> at, type |-> type, id |-> id,
     state |-> state, parent |-> parent, value |-> value]

Write(s, type, id, state, parent, value) ==
    /\ Len(log) < world.records
    /\ \E at \in Times : log' = Append(log, Record(s, at, type, id, state, parent, value))
    /\ UNCHANGED <<world, read, db>>

StartSession(s, id, parent) ==
    /\ "session" \in world.kinds
    /\ NextOf(Sessions, id)
    /\ parent # None => "child" \in world.kinds /\ Known(parent)
    /\ Write(s, "entity", id, "running", parent, None)

EndSession(s, id, parent) ==
    /\ "session_end" \in world.kinds
    /\ Known(id) /\ Home(id) = s /\ ~HasState(id, "succeeded")
    /\ parent = None \/ \E i \in 1 .. Len(log) : log[i].id = id /\ log[i].parent = parent
    /\ Write(s, "entity", id, "succeeded", parent, None)

\* Who is whose parent after all records, in the order of their times.
Claimed == [c \in {e \in Sessions : Known(e)} |->
              log[Max({i \in 1 .. Len(log) : log[i].id = c})].parent]

\* A parent is told by the child's own source, or by another: once the child is published,
\* and in the worlds of "late_parent_elsewhere" also before, so that it may be read first.
LateParent(s, child, parent) ==
    /\ "late_parent" \in world.kinds
    /\ child # parent /\ Known(child) /\ Known(parent)
    /\ \/ s = Home(child)
       \/ db.sessions[child] # None
       \/ "late_parent_elsewhere" \in world.kinds
    /\ IsForest([Claimed EXCEPT ![child] = parent])
    /\ Write(s, "relationship", child, "", parent, None)

StartTool(s, id) ==
    /\ "tool" \in world.kinds
    /\ NextOf(Tools, id)
    /\ Write(s, "entity", id, "running", None, Operation)

\* Its operation may be missing, and so may the record of the start.
EndTool(s, id) ==
    /\ {"tool_end", "bare_end"} \cap world.kinds # {}
    /\ IF Known(id) THEN Home(id) = s ELSE "tool" \notin world.kinds
    /\ Write(s, "entity", id, "succeeded", None, IF "bare_end" \in world.kinds THEN None ELSE Operation)

ReportCall(s, id, tokens) ==
    /\ "call" \in world.kinds
    /\ IF Known(id) THEN Home(id) = s ELSE NextOf(Calls, id)
    /\ Write(s, "entity", id, "succeeded", None, tokens)

ReportComponent(s, id) ==
    /\ "component" \in world.kinds
    /\ Known(id) => Home(id) = s
    /\ Write(s, "entity", id, "unknown", None, 1)

Allowances == {i \in 1 .. Len(log) : log[i].type = "allowance"}

\* The provider numbers the observations of a cycle; more of it is used with each, and
\* none follows the one that completes the cycle.
ReportAllowance(s, status) ==
    /\ "allowance" \in world.kinds
    /\ s = Min(Sources) \/ "allowance_elsewhere" \in world.kinds
    /\ status = "completed" => "allowance_end" \in world.kinds
    /\ ~HasState(None, "completed")
    /\ Write(s, "allowance", None, status, None, Cardinality(Allowances) + 1)

\* A source is copied to another one that is empty; the times stay what they are.
CopySource(s, t) ==
    /\ "copy" \in world.kinds
    /\ s # t /\ Records(s) # <<>> /\ Records(t) = <<>>
    /\ log' = log \o [i \in 1 .. Len(Records(s)) |-> [Records(s)[i] EXCEPT !.src = t]]
    /\ UNCHANGED <<world, read, db>>

-----------------------------------------------------------------------------
(* A change set is sorted by time, then by source and by place in it.      *)

Precedes(o, p) ==
    \/ o.at < p.at
    \/ o.at = p.at /\ o.src < p.src
    \/ o.at = p.at /\ o.src = p.src /\ o.n < p.n

Sorted(records) ==
    [k \in 1 .. Cardinality(records) |->
        CHOOSE o \in records : Cardinality({p \in records : Precedes(p, o)}) = k - 1]

About(b, type, id) == Picked(b, {i \in 1 .. Len(b) : b[i].type = type /\ b[i].id = id})
Group(b, e) == About(b, "entity", e)
Edges(b, c) == About(b, "relationship", c)
Observed(b, S) == {e \in S : Group(b, e) # <<>>}
There(rows)    == {e \in DOMAIN rows : rows[e] # None}

-----------------------------------------------------------------------------
(* Transitions: versions go on from those that are published.              *)

\* A mutant: the new transitions come first.
MutHistory(d, b, e) ==
    [i \in 1 .. Len(Group(b, e)) |-> [state |-> Group(b, e)[i].state, at |-> Group(b, e)[i].at]]
        \o d.transitions[e]

History(d, b, e) ==
    d.transitions[e] \o
        [i \in 1 .. Len(Group(b, e)) |-> [state |-> Group(b, e)[i].state, at |-> Group(b, e)[i].at]]

Fold(d, b, e) == FoldOf(History(d, b, e))

-----------------------------------------------------------------------------
(* Sessions: the last record gives the parent, the newest relationship of  *)
(* the change set replaces it unless a newer one is published, and then    *)
(* roots and depths follow for every session the change can reach.         *)

ParentsIn(rows) == [s \in There(rows) |-> rows[s].parent]

Seeds(b) ==
    UNION {{b[i].id, b[i].parent} : i \in {j \in 1 .. Len(b) : b[j].id \in Sessions}}

Loaded(d, b)    == Relatives(ParentsIn(d.sessions), Seeds(b))
Available(d, b) == Loaded(d, b) \cup Observed(b, Sessions)

\* A mutant: a relationship that is older than a published one still counts.
MutDisposition(d, edge) == IF edge \in d.edges[edge.id] THEN "duplicate" ELSE "current"

Disposition(d, edge) ==
    IF edge \in d.edges[edge.id] THEN "duplicate"
    ELSE IF \E e \in d.edges[edge.id] : Precedes(edge, e) THEN "stale"
    ELSE "current"

\* By child, the relationship that this change set records, or None.
Winners(d, b) ==
    LET there == Available(d, b)
    IN  [c \in Sessions |->
            IF c \notin there \/ Edges(b, c) = <<>> THEN None
            ELSE LET edge == Edges(b, c)[Len(Edges(b, c))]
                 IN  IF Disposition(d, edge) = "duplicate" THEN None ELSE edge]

NewEdges(d, b) ==
    LET winners == Winners(d, b)
    IN  [c \in Sessions |-> d.edges[c] \cup ({winners[c]} \ {None})]

NewParents(d, b) ==
    LET winners == Winners(d, b)
    IN  [s \in Available(d, b) |->
            IF winners[s] # None /\ Disposition(d, winners[s]) = "current"
            THEN winners[s].parent
            ELSE IF s \in Observed(b, Sessions) THEN Group(b, s)[Len(Group(b, s))].parent
            ELSE d.sessions[s].parent]

\* A relationship of a child that is not there is passed over, for good.
EdgesHold(d, b) ==
    LET there == Available(d, b)
    IN  \A i \in 1 .. Len(b) :
            b[i].type = "relationship" /\ b[i].id \in there
                => b[i].parent \in there \ {b[i].id}

SessionRow(d, b, up, s) ==
    LET fold == IF s \in Observed(b, Sessions) THEN Fold(d, b, s) ELSE d.sessions[s]
    IN  [state |-> fold.state, version |-> fold.version, start |-> fold.start, end |-> fold.end,
         parent |-> up[s], root |-> RootOf(up, s), depth |-> DepthOf(up, s)]

NewSessions(d, b) ==
    LET up == NewParents(d, b)
    IN  [s \in Sessions |-> IF s \in DOMAIN up THEN SessionRow(d, b, up, s) ELSE d.sessions[s]]

-----------------------------------------------------------------------------
(* Tools, calls and components.  A tool that is there keeps its start and  *)
(* what its first publication knew of it; the rest is the latest.          *)

ProposedTool(d, b, t) ==
    LET fold  == Fold(d, b, t)
        group == Group(b, t)
    IN  [state |-> fold.state, version |-> fold.version, end |-> fold.end,
         start |-> group[1].at, value |-> group[Len(group)].value]

NewTools(d, b) ==
    [t \in Tools |->
        IF t \notin Observed(b, Tools) THEN d.tools[t]
        ELSE IF d.tools[t] = None THEN ProposedTool(d, b, t)
        ELSE [ProposedTool(d, b, t) EXCEPT !.start = d.tools[t].start, !.value = d.tools[t].value]]

\* New calls are numbered on from the size of the tail, in some order of their names.
Ordinals(d, b) ==
    LET new == SetToSeq(Observed(b, Calls) \ There(d.calls))
    IN  [c \in Calls |-> IF d.calls[c] # None THEN d.calls[c].ordinal
                         ELSE IF c \in Observed(b, Calls)
                         THEN d.tail.rows + CHOOSE i \in 1 .. Len(new) : new[i] = c
                         ELSE 0]

NewCalls(d, b) ==
    [c \in Calls |->
        IF c \notin Observed(b, Calls) THEN d.calls[c]
        ELSE LET last == Group(b, c)[Len(Group(b, c))]
             IN  [state |-> Fold(d, b, c).state, version |-> Fold(d, b, c).version,
                  at |-> last.at, value |-> last.value, ordinal |-> Ordinals(d, b)[c]]]

NewComponents(d, b) ==
    [k \in Components |->
        IF k \notin Observed(b, Components) THEN d.components[k]
        ELSE LET last == Group(b, k)[Len(Group(b, k))] IN [at |-> last.at, value |-> last.value]]

-----------------------------------------------------------------------------
(* The allowance.  An observation is a row of its own, wherever it was     *)
(* copied from.  Those of a change set are joined with each other and with *)
(* the last one that is published; what was joined before stays.           *)

AllowancesOf(b) == {o \in Range(b) : o.type = "allowance"}
PlaceOf(o)      == <<o.src, o.n>>

NewAllowances(d, b) ==
    [p \in Places |->
        IF \E o \in AllowancesOf(b) : PlaceOf(o) = p
        THEN CHOOSE o \in AllowancesOf(b) : PlaceOf(o) = p
        ELSE d.allowances[p]]

Joined(observations) ==
    LET s == Sorted(observations)
    IN  {<<PlaceOf(s[i]), PlaceOf(s[i + 1])>> : i \in 1 .. Len(s) - 1}

Stored(rows) == {rows[p] : p \in There(rows)}
LastOf(observations) == {o \in observations : \A q \in observations \ {o} : Precedes(q, o)}

\* A mutant: the last published observation is not read.
MutIntervals(d, b) == d.intervals \cup Joined(AllowancesOf(b))

NewIntervals(d, b) ==
    d.intervals \cup
        IF AllowancesOf(b) = {} THEN {}
        ELSE Joined(AllowancesOf(b) \cup LastOf(Stored(d.allowances)))

\* The rows of one cycle are written in the order of their text, and "open" comes last.
NewCycle(d, b) ==
    LET told == {o.state : o \in AllowancesOf(b)}
    IN  IF told = {} THEN d.cycle ELSE IF "open" \in told THEN "open" ELSE "completed"

\* The schema's key on the cycle and the provider's number.
NumbersDiffer(rows) ==
    \A p, q \in There(rows) : rows[p].value = rows[q].value => p = q

-----------------------------------------------------------------------------
(* The tail of calls.                                                      *)

Bounds(rows) ==
    [rows |-> Cardinality(There(rows)),
     first |-> IF There(rows) = {} THEN None ELSE Min({rows[c].at : c \in There(rows)}),
     last  |-> IF There(rows) = {} THEN None ELSE Max({rows[c].at : c \in There(rows)})]

Widened(tail, touched) ==
    LET firsts == {tail.first, touched.first} \ {None}
        lasts  == {tail.last, touched.last} \ {None}
    IN  [rows  |-> tail.rows + touched.rows,
         first |-> IF firsts = {} THEN None ELSE Min(firsts),
         last  |-> IF lasts = {} THEN None ELSE Max(lasts)]

Touched(d, b) == LET calls == NewCalls(d, b) IN Bounds([c \in Observed(b, Calls) |-> calls[c]])

\* A mutant: the rows that are touched are not taken out first.
MutCallTail(d, b) == IF Observed(b, Calls) = {} THEN d.tail ELSE Widened(d.tail, Touched(d, b))

\* The bounds of the rows that are not touched, widened by those that are.
CallTail(d, b) ==
    IF Observed(b, Calls) = {} THEN d.tail
    ELSE Widened(Bounds([c \in Calls \ Observed(b, Calls) |-> d.calls[c]]), Touched(d, b))

-----------------------------------------------------------------------------
(* Accounting: a row that is new is inserted, one that differs is changed. *)

Tables == {"sessions", "tools", "calls", "components", "allowances"}

Proposed(d, b) ==
    [sessions |-> NewSessions(d, b),
     tools |-> [t \in Tools |-> IF t \in Observed(b, Tools) THEN ProposedTool(d, b, t)
                                ELSE d.tools[t]],
     calls |-> NewCalls(d, b),
     components |-> NewComponents(d, b),
     allowances |-> NewAllowances(d, b)]

Inserted(d, rows, k) == Cardinality({e \in There(rows[k]) : d[k][e] = None})

\* A mutant: what is inserted counts as changed as well.
MutChanged(d, rows, k) == Cardinality({e \in There(rows[k]) : d[k][e] # rows[k][e]})

Changed(d, rows, k) ==
    Cardinality({e \in There(rows[k]) : d[k][e] # None /\ d[k][e] # rows[k][e]})

Tokens(calls, c) == IF calls[c] = None THEN 0 ELSE calls[c].value

TokenDelta(d, rows) ==
    MapThenSumSet(LAMBDA c : Tokens(rows.calls, c) - Tokens(d.calls, c), Calls)

Delta(d, rows) ==
    [inserted |-> [k \in Tables |-> Inserted(d, rows, k)],
     changed  |-> [k \in Tables |-> Changed(d, rows, k)],
     tokens   |-> TokenDelta(d, rows)]

\* A kind is counted from the first time it has something to count.
NewCounts(d, rows) ==
    [k \in DOMAIN d.counts \cup {k \in Tables : Inserted(d, rows, k) > 0} |->
        Inserted(d, rows, k) + IF k \in DOMAIN d.counts THEN d.counts[k] ELSE 0]

-----------------------------------------------------------------------------
(* A publication: the whole change set, or nothing.                        *)

FoldsHold(d, b) == \A e \in Observed(b, Folded) : Fold(d, b, e).ok

TimesHold(rows) == \A e \in There(rows) : InOrder(rows[e].start, rows[e].end)

Accepts(d, b) ==
    /\ FoldsHold(d, b)
    /\ EdgesHold(d, b)
    /\ IsForest(NewParents(d, b))
    /\ TimesHold(NewSessions(d, b)) /\ TimesHold(NewTools(d, b))
    /\ NumbersDiffer(NewAllowances(d, b))

Applied(d, b) ==
    LET rows == Proposed(d, b)
    IN  [transitions |-> [e \in Folded |-> History(d, b, e)],
         sessions    |-> rows.sessions,
         edges       |-> NewEdges(d, b),
         tools       |-> NewTools(d, b),
         calls       |-> rows.calls,
         components  |-> rows.components,
         allowances  |-> rows.allowances,
         intervals   |-> NewIntervals(d, b),
         cycle       |-> NewCycle(d, b),
         tail        |-> CallTail(d, b),
         counts      |-> NewCounts(d, rows),
         delta       |-> Delta(d, rows)]

NoRows(S) == [e \in S |-> None]

EmptyDb ==
    [transitions |-> [e \in Folded |-> <<>>],
     sessions |-> NoRows(Sessions), edges |-> [c \in Sessions |-> {}],
     tools |-> NoRows(Tools), calls |-> NoRows(Calls), components |-> NoRows(Components),
     allowances |-> NoRows(Places), intervals |-> {}, cycle |-> None,
     tail |-> [rows |-> 0, first |-> None, last |-> None],
     counts |-> [k \in {} |-> 0],
     delta |-> None]

\* A refresh reads its sources one after the other, so one may end before another goes on.
ChangeSet(S) == Sorted(UNION {Range(Unread(s)) : s \in S})

Publishable(S) == ChangeSet(S) # <<>> /\ Accepts(db, ChangeSet(S))

Publish(S) ==
    /\ Publishable(S)
    /\ db' = Applied(db, ChangeSet(S))
    /\ read' = [s \in Sources |-> IF s \in S THEN Len(Records(s)) ELSE read[s]]
    /\ UNCHANGED <<world, log>>

-----------------------------------------------------------------------------

Init ==
    /\ world \in Worlds
    /\ log = <<>>
    /\ read = [s \in Sources |-> 0]
    /\ db = EmptyDb

Codex ==
    \E s \in Sources :
        \/ \E id \in Sessions, parent \in Sessions \cup {None} :
              StartSession(s, id, parent) \/ EndSession(s, id, parent)
        \/ \E child, parent \in Sessions : LateParent(s, child, parent)
        \/ \E id \in Tools : StartTool(s, id) \/ EndTool(s, id)
        \/ \E id \in Calls, tokens \in 1 .. 2 : ReportCall(s, id, tokens)
        \/ \E id \in Components : ReportComponent(s, id)
        \/ \E status \in {"open", "completed"} : ReportAllowance(s, status)
        \/ \E t \in Sources : CopySource(s, t)

Next == Codex \/ \E S \in SUBSET Sources : Publish(S)

Spec == Init /\ [][Next]_vars

\* A refresh of everything is not put off forever while it can be published: weak
\* fairness of Publish(Sources), with Publishable for when it is enabled.
Refreshing == []<>~Publishable(Sources) \/ []<><<Publish(Sources)>>_vars

FairSpec == Spec /\ Refreshing
=============================================================================
