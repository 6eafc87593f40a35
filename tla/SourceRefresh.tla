---------------------------- MODULE SourceRefresh ----------------------------
(***************************************************************************)
(* Refreshes of the analytical artifact from source files: a refresh reads *)
(* the cursors, takes an inventory, parses each chosen source from its     *)
(* cursor on, prepares what it will write from what is published, and      *)
(* publishes in one transaction, while Codex goes on writing the files.    *)
(*                                                                         *)
(* An action is one read of the database, one look at a file or one        *)
(* transaction.  A refresh starts with an artifact that was published when *)
(* there were no sources; that the first one is built in isolation is left *)
(* out.  Parser and adapter keep their versions.                           *)
(***************************************************************************)
EXTENDS SourceCursors

CONSTANTS
    Refreshers,  \* processes that refresh
    Habits,      \* how files change in one world or another, also while they are read,
                 \* with a bound on refreshes that die, or whose parser raises
    Malformed,   \* numbers of records that do not parse
    MaxEdits     \* bound on changes of files

EditKinds == {"create", "create_later", "append", "partial", "remove", "rewrite"}

ASSUME RefreshAssumption ==
    Habits \subseteq [edits : SUBSET EditKinds, midRead : SUBSET EditKinds, maxFaults : Nat]

\* What a publication counts of a source.
Counters == {"selected", "deferred", "selectedBytes", "deferredBytes", "malformed", "records"}
Tally    == [Counters -> Int]

ASSUME TallyAssumption == None \notin Tally

VARIABLES
    habit,       \* how files change in this world
    files,       \* by path: its content, or None
    edits,       \* changes of files so far; the number of the last record
    wk,          \* by refresher: what it has in memory
    overtaken,   \* refreshers that began under a publication that is not the head any more
    rows,        \* source_manifestations by item, or None
    cursors,     \* source_cursors by path, or None
    occurrences, \* source_occurrences
    diagnostics, \* source_diagnostics
    coverage,    \* publication_source_coverage of the head by item, or None
    faults

artifact == <<rows, cursors, occurrences, diagnostics, coverage>>
vars     == <<habit, files, edits, wk, overtaken, artifact, faults>>

-----------------------------------------------------------------------------
(* Codex writes. *)

BeingRead(p) == \E r \in Refreshers : wk[r].at \in {"read", "hash"} /\ wk[r].path = p

Edit(kind, p, content) ==
    /\ edits < MaxEdits
    /\ kind \in habit.midRead \/ ~BeingRead(p)
    /\ files' = [files EXCEPT ![p] = content]
    /\ edits' = edits + 1
    /\ UNCHANGED <<habit, wk, overtaken, artifact, faults>>

NewRecord == edits + 1

Create(p) ==
    /\ files[p] = None
    /\ \/ "create" \in habit.edits
       \/ /\ "create_later" \in habit.edits
          /\ \A q \in Paths : files[q] # None \/ rows[q] # None => q < p
    /\ Edit("create", p, [recs |-> <<NewRecord>>, partial |-> FALSE])

\* A record is completed, and another one may have been started.
AppendTo(p) ==
    /\ files[p] # None /\ "append" \in habit.edits
    /\ \E partial \in BOOLEAN :
         /\ partial => "partial" \in habit.edits
         /\ Edit("append", p, [recs |-> Append(files[p].recs, NewRecord), partial |-> partial])

Delete(p) ==
    /\ files[p] # None /\ "remove" \in habit.edits
    /\ Edit("remove", p, None)

\* A file is cut short, and may go on with something else.
Rewrite(p) ==
    /\ files[p] # None /\ "rewrite" \in habit.edits
    /\ \E n \in 0 .. Len(files[p].recs) - 1, m \in 0 .. Len(files[p].recs) :
         Edit("rewrite", p, [recs |-> SubSeq(files[p].recs, 1, n) \o [k \in 1 .. m |-> NewRecord],
                             partial |-> FALSE])

-----------------------------------------------------------------------------
(* ingest: cursors, inventory, and the chosen sources one after the other. *)
(* What is found of a source carries "replaced" when it goes under the key *)
(* of a replacement.                                                       *)

Nowhere == [p \in Paths |-> None]
Idle == [at |-> "idle", cursors |-> Nowhere, inventory |-> [p \in Items |-> None], todo |-> {},
         path |-> 0, outcome |-> "", last |-> 0, found |-> {}, malformed |-> {},
         updates |-> {}, raised |-> FALSE, prepared |-> [p \in Items |-> None]]

To(r, state) == wk' = [wk EXCEPT ![r] = state]

Begin(r) ==
    /\ wk[r].at = "idle"
    /\ To(r, [Idle EXCEPT !.at = "discover", !.cursors = cursors])
    /\ overtaken' = overtaken \ {r}
    /\ UNCHANGED <<habit, files, edits, artifact, faults>>

Discover(r) ==
    /\ wk[r].at = "discover"
    /\ To(r, [wk[r] EXCEPT !.at = "source", !.inventory = Inventory(files), !.todo = Chosen(files)])
    /\ UNCHANGED <<habit, files, edits, overtaken, artifact, faults>>

\* The last batch of a source; its cursor is an update even when it is the old one.
Finished(state, p, replaced, cursor) ==
    [state EXCEPT !.at = "source", !.todo = @ \ {p}, !.last = 0, !.outcome = "", !.path = 0,
                  !.updates = IF cursor = None THEN @
                              ELSE @ \cup {[path |-> p, replaced |-> replaced, cursor |-> cursor]}]

\* A worker that raises gives the old cursor back, and what was found stays.
Raised(r, p) == To(r, [Finished(wk[r], p, FALSE, wk[r].cursors[p]) EXCEPT !.raised = TRUE])

ClassifySource(r) ==
    /\ wk[r].at = "source" /\ wk[r].todo # {}
    /\ LET p == Min(wk[r].todo)
       IN  IF files[p] = None THEN Raised(r, p)
           ELSE LET outcome == Classify(files[p], wk[r].cursors[p])
                IN  IF outcome = "no_change"
                    THEN To(r, Finished(wk[r], p, FALSE, wk[r].cursors[p]))
                    ELSE To(r, [wk[r] EXCEPT !.at = "read", !.path = p, !.outcome = outcome])
    /\ UNCHANGED <<habit, files, edits, overtaken, artifact, faults>>

IsReplacement(r) == wk[r].outcome \in {"replaced", "truncated"}
Place(r, n) == [path |-> wk[r].path, replaced |-> IsReplacement(r), ordinal |-> n]

\* Complete records behind the cursor, as many as there are by now.
ReadSource(r) ==
    LET p == wk[r].path
        first == Start(wk[r].outcome, wk[r].cursors[p])
    IN  /\ wk[r].at = "read"
        /\ IF files[p] = None THEN Raised(r, p)
           ELSE LET recs == files[p].recs
                    read == first + 1 .. Len(recs)
                IN  To(r, [wk[r] EXCEPT
                      !.at = "hash",
                      !.last = Max({first, Len(recs)}),
                      !.found = @ \cup {[place |-> Place(r, n), rec |-> recs[n]] :
                                        n \in {n \in read : recs[n] \notin Malformed}},
                      !.malformed = @ \cup {Place(r, n) : n \in {n \in read : recs[n] \in Malformed}}])
        /\ UNCHANGED <<habit, files, edits, overtaken, artifact, faults>>

\* build_cursor, of the file as it is by now.
HashSource(r) ==
    LET p == wk[r].path
    IN  /\ wk[r].at = "hash"
        /\ IF files[p] = None \/ Size(files[p]) < 2 * wk[r].last
           THEN Raised(r, p)
           ELSE To(r, Finished(wk[r], p, IsReplacement(r), CursorAt(files[p], wk[r].last)))
        /\ UNCHANGED <<habit, files, edits, overtaken, artifact, faults>>

-----------------------------------------------------------------------------
(* Preparation: what the artifact says of a source is brought up to date   *)
(* from what it said before and from what was found.                       *)

Zero == [selected |-> 0, deferred |-> 0, selectedBytes |-> 0, deferredBytes |-> 0,
         malformed |-> 0, records |-> 0]
Prior(i) == IF coverage[i] = None THEN Zero ELSE coverage[i]

Counts(row) ==
    IF row = None THEN Zero
    ELSE IF row.selected THEN [Zero EXCEPT !.selected = 1, !.selectedBytes = row.size]
    ELSE [Zero EXCEPT !.deferred = 1, !.deferredBytes = row.size]

Ordinal(cursor) == IF cursor = None THEN 0 ELSE Len(cursor.prefix)
UpdatesOf(r, i) == {u \in wk[r].updates : u.path = i /\ ~u.replaced}

\* Mutant: the source's old counts are not taken back.
MutCoverageOf(r, i) ==
    [c \in DOMAIN Zero |->
       CASE c = "malformed" -> Prior(i)[c] + Cardinality({m \in wk[r].malformed \ diagnostics :
                                                            m.path = i /\ ~m.replaced})
         [] c = "records"   -> Prior(i)[c] + MapThenSumSet(LAMBDA u : Ordinal(u.cursor)
                                                             - Ordinal(cursors[i]), UpdatesOf(r, i))
         [] OTHER           -> Prior(i)[c] + Counts(wk[r].inventory[i])[c]]

CoverageOf(r, i) ==
    [c \in DOMAIN Zero |->
       CASE c = "malformed" -> Prior(i)[c] + Cardinality({m \in wk[r].malformed \ diagnostics :
                                                            m.path = i /\ ~m.replaced})
         [] c = "records"   -> Prior(i)[c] + MapThenSumSet(LAMBDA u : Ordinal(u.cursor)
                                                             - Ordinal(cursors[i]), UpdatesOf(r, i))
         [] OTHER           -> Prior(i)[c] - Counts(rows[i])[c] + Counts(wk[r].inventory[i])[c]]

NothingChanged(r) == wk[r].found = {} /\ wk[r].malformed = {} /\ wk[r].updates = {} /\ ~wk[r].raised

Prepare(r) ==
    /\ wk[r].at = "source" /\ wk[r].todo = {}
    /\ ~NothingChanged(r)
    /\ To(r, [wk[r] EXCEPT !.at = "publish",
                           !.prepared = [i \in Items |-> IF wk[r].inventory[i] = None THEN coverage[i]
                                                         ELSE CoverageOf(r, i)]])
    /\ UNCHANGED <<habit, files, edits, overtaken, artifact, faults>>

\* plan_refresh: no_change.
NoChange(r) ==
    /\ wk[r].at = "source" /\ wk[r].todo = {}
    /\ NothingChanged(r)
    /\ To(r, Idle)
    /\ UNCHANGED <<habit, files, edits, overtaken, artifact, faults>>

-----------------------------------------------------------------------------
(* The transaction. *)

New(r) == {i \in Items : wk[r].inventory[i] # None /\ rows[i] = None}

\* A source that is there keeps the rank it came with.
RanksClash(r) ==
    \E i \in New(r), j \in Items : rows[j] # None /\ rows[j].rank = wk[r].inventory[i].rank

\* Nobody inserts the manifestation of a replacement.
KeysDangle(r) ==
    \/ \E u \in wk[r].updates : u.replaced
    \/ \E f \in wk[r].found : f.place.replaced
    \/ \E m \in wk[r].malformed : m.replaced

\* Mutant: the head is not compared with the publication the refresh began under.
MutCommits(r) == ~RanksClash(r) /\ ~KeysDangle(r)
Commits(r)    == r \notin overtaken /\ ~RanksClash(r) /\ ~KeysDangle(r)

Publish(r) ==
    /\ wk[r].at = "publish" /\ Commits(r)
    /\ rows' = [i \in Items |->
                  IF wk[r].inventory[i] = None THEN rows[i]
                  ELSE IF rows[i] = None THEN wk[r].inventory[i]
                  ELSE [wk[r].inventory[i] EXCEPT !.rank = rows[i].rank]]
    /\ cursors' = [p \in Paths |-> IF UpdatesOf(r, p) = {} THEN cursors[p]
                                   ELSE (CHOOSE u \in UpdatesOf(r, p) : TRUE).cursor]
    /\ occurrences' = occurrences \cup wk[r].found
    /\ diagnostics' = diagnostics \cup wk[r].malformed
    /\ coverage' = wk[r].prepared
    /\ overtaken' = {q \in Refreshers : wk[q].at # "idle"} \ {r}
    /\ To(r, Idle)
    /\ UNCHANGED <<habit, files, edits, faults>>

\* A conflict, or an error of a constraint: rolled back.
Refused(r) ==
    /\ wk[r].at = "publish" /\ ~Commits(r)
    /\ To(r, Idle)
    /\ UNCHANGED <<habit, files, edits, overtaken, artifact, faults>>

Die(r) ==
    /\ wk[r].at # "idle" /\ faults < habit.maxFaults
    /\ To(r, Idle)
    /\ faults' = faults + 1
    /\ UNCHANGED <<habit, files, edits, overtaken, artifact>>

-----------------------------------------------------------------------------
Init ==
    /\ habit \in Habits
    /\ files = Nowhere /\ edits = 0
    /\ wk = [r \in Refreshers |-> Idle]
    /\ overtaken = {} /\ faults = 0
    /\ rows = [i \in Items |-> None] /\ coverage = [i \in Items |-> None]
    /\ cursors = Nowhere
    /\ occurrences = {} /\ diagnostics = {}

Codex == \E p \in Paths : Create(p) \/ AppendTo(p) \/ Delete(p) \/ Rewrite(p)

Refresh(r) ==
    \/ Begin(r) \/ Discover(r)
    \/ ClassifySource(r) \/ ReadSource(r) \/ HashSource(r)
    \/ Prepare(r) \/ NoChange(r) \/ Publish(r) \/ Refused(r)

Next == Codex \/ \E r \in Refreshers : Refresh(r) \/ Die(r)

Spec == Init /\ [][Next]_vars

\* Refreshes are started again and again, and one or the other goes on.  Some
\* refresh can always go on: this is its weak fairness, said without ENABLED.
FairSpec == Spec /\ []<><<\E r \in Refreshers : Refresh(r)>>_vars

=============================================================================
