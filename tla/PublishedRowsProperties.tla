---------------------- MODULE PublishedRowsProperties ----------------------
(* What the rows of an artifact promise. *)
EXTENDS PublishedRows

\* The types of the variables (preparation.py, _WriteSetPreparer).
RowsTypeOK ==
    /\ world \in Worlds
    /\ \A s \in Sources : read[s] \in 0 .. Len(Records(s))
    /\ \A s \in There(db.sessions) : db.sessions[s].parent \in Sessions \cup {None}
    /\ DOMAIN db.counts \subseteq Tables
    /\ db.intervals \subseteq Places \X Places
    /\ db.cycle \in {None, "open", "completed"}
    /\ db.tail.rows \in 0 .. Cardinality(Calls)

\* The files hold nothing the writer is known to stumble over: every tool starts
\* before it ends, in time as well, nothing is copied, no other file tells the parent of a
\* session that is not published yet, no session is told a parent late and then ends, and
\* one source tells of the allowance, of a cycle that is open.
Tidy ==
    /\ world.kinds \cap {"skew", "copy", "bare_end", "component", "late_parent_elsewhere",
                        "allowance_elsewhere", "allowance_end"} = {}
    /\ ~({"late_parent", "session_end"} \subseteq world.kinds)
    /\ "tool_end" \in world.kinds => "tool" \in world.kinds

-----------------------------------------------------------------------------

\* Every published session stores the root and the depth that the published
\* parents give, also after a session far above it got another parent
\* (preparation.py, _complete_session_hierarchy; writer.py, _read_affected_entity_rows).
RootsAreCurrent ==
    LET up == ParentsIn(db.sessions)
    IN  /\ IsForest(up)
        /\ \A s \in There(db.sessions) :
              /\ db.sessions[s].root = RootOf(up, s)
              /\ db.sessions[s].depth = DepthOf(up, s)

\* The rows are the fold of their transitions, whatever came late, twice or in one
\* publication with what (validation.py, _validate_lifecycle_folds).
FoldsReconcile ==
    \A e \in Folded :
        LET rows == IF e \in Sessions THEN db.sessions ELSE IF e \in Tools THEN db.tools ELSE db.calls
            fold == FoldOf(db.transitions[e])
        IN  /\ e \in There(rows) <=> db.transitions[e] # <<>>
            /\ e \in There(rows) =>
                 /\ fold.ok /\ rows[e].state = fold.state /\ rows[e].version = fold.version
                 /\ e \notin Calls => rows[e].start = fold.start /\ rows[e].end = fold.end

\* The counts are those of the rows and of no other table (validation.py, _validate_counts).
CountsReconcile ==
    /\ DOMAIN db.counts \subseteq {"sessions", "tools", "calls", "allowances"}
    /\ \A k \in {"sessions", "tools", "calls", "allowances"} :
          Cardinality(There(db[k])) = IF k \in DOMAIN db.counts THEN db.counts[k] ELSE 0

\* The stored bounds of the tail are those of its rows, and its ordinals have no gap
\* (validation.py, _validate_tail; writer.py, _reconcile_local).
TailReconciles ==
    /\ db.tail = Bounds(db.calls)
    /\ {db.calls[c].ordinal : c \in There(db.calls)} = 1 .. db.tail.rows

\* An artifact that was published passes the validation it is recovered with ...
RowsReconcile == FoldsReconcile /\ CountsReconcile /\ TailReconciles

\* ... unless a tool ends whose start no source holds, or a context component is counted.
Orphans == \E t \in Tools : Known(t) /\ ~HasState(t, "running")

ArtifactValidates == ~Orphans /\ "component" \notin world.kinds => RowsReconcile

\* The delta of a publication is the difference it made: rows that are new, rows that
\* differ, and tokens (preparation.py, _add_accounting, _token_deltas).
DeltaIsTheDifference ==
    [][ db' # db =>
          /\ \A k \in Tables :
               /\ db'.delta.inserted[k] = Cardinality({e \in There(db'[k]) : db[k][e] = None})
               /\ db'.delta.changed[k] =
                    Cardinality({e \in There(db'[k]) : db[k][e] # None /\ db[k][e] # db'[k][e]})
          /\ db'.delta.tokens = MapThenSumSet(LAMBDA c : Tokens(db'.calls, c), Calls)
                                  - MapThenSumSet(LAMBDA c : Tokens(db.calls, c), Calls) ]_vars

-----------------------------------------------------------------------------
(* Publishing little by little is publishing at once.                      *)

Shown(d) ==
    [sessions   |-> d.sessions,
     tools      |-> d.tools,
     calls      |-> [c \in There(d.calls) |-> [at |-> d.calls[c].at, value |-> d.calls[c].value]],
     components |-> d.components,
     allowances |-> d.allowances,
     intervals  |-> d.intervals,
     cycle      |-> d.cycle,
     counts     |-> d.counts]

Rebuilt == Applied(EmptyDb, Sorted(Range(log)))

\* However the records were cut into publications, in whichever order the sources were
\* read, the rows are those of one publication of everything (preparation.py): "Arrival
\* order and SQLite row order are never ordering inputs"
\* (docs/architecture/AGENT_KERNEL_DATABASE_V1_SCHEMA_CONTRACT.md).  It is not true of all
\* sources: a relationship that is published before its child is lost.
SameHoweverCut == AllRead /\ log # <<>> => Shown(db) = Shown(Rebuilt)

\* The same of tidy sources, of which it is true (preparation.py).
SameAsRebuilt == Tidy => SameHoweverCut

\* The intervals are the pairs of neighbours, whichever came first: no stretch of the
\* allowance is counted twice (preparation.py, _add_allowance_intervals;
\* docs/architecture/FORMULA_AND_SELECTOR_CONTRACT.md).
IntervalsAreAdjacent == db.intervals = Joined(Stored(db.allowances))

\* When the files stop growing, everything in them is published: what is refused is
\* refused because a file that is read too late holds the rest (writer.py, publish).
AllIsPublished == <>[]AllRead

EverythingIsPublished == Tidy => AllIsPublished
=============================================================================
