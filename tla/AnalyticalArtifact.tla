------------------------- MODULE AnalyticalArtifact -------------------------
(***************************************************************************)
(* The analytical database of the released kernel: what one transaction of *)
(* its writer, its rollup builder and its source planner does to a file.   *)
(*                                                                         *)
(* A source file is identified by its path and its inode.  Its content is  *)
(* a version and a number of complete lines: appending keeps the version,  *)
(* any other rewrite gives a new one, so equal versions stand for equal    *)
(* prefixes (the fingerprint of plan_source samples the prefix; a rewrite  *)
(* that no sample sees is not modelled).                                   *)
(*                                                                         *)
(* A line is one fact: the rows of calls and of activities, which are      *)
(* inserted once, with the generation that inserts them.  A line may also  *)
(* observe the allowance.  Observations that follow one another and read   *)
(* the same are one row, which a later one extends and stamps with its own *)
(* generation, so a row that readers have may be rewritten.  One window of *)
(* the allowance is modelled.  All rows of a plan's lines are written in   *)
(* one transaction.                                                        *)
(***************************************************************************)
EXTENDS Naturals, FiniteSets

CONSTANTS
    Sources,       \* paths of source files
    None,
    MaxVersion,    \* bound: contents of a path
    MaxLines,      \* bound: lines of a content
    MaxGeneration, \* bound: generations
    Reading        \* by path and line number: what a line reads of the allowance, or None

ASSUME ArtifactBounds == MaxVersion \in Nat \ {0} /\ MaxLines \in Nat /\ MaxGeneration \in Nat

ASSUME ReadingDomain == /\ DOMAIN Reading = Sources
                        /\ \A s \in Sources : DOMAIN Reading[s] = 1 .. MaxLines

Versions    == 1 .. MaxVersion
Generations == 1 .. MaxGeneration
SourceIds   == Sources \X Versions       \* path and inode
Observation == [id : SourceIds, ver : Versions, len : 1 .. MaxLines]
Line        == [id : SourceIds, ver : Versions, ix : 1 .. MaxLines]
Fact        == [line : Line, gen : Generations]
State       == [line : Line, last : 1 .. MaxLines, gen : Generations]
Cursor      == [ver : Versions, off : 1 .. MaxLines]
Plan        == [obs : Observation, prior : SourceIds \cup {None},
                start : 0 .. MaxLines, replace : BOOLEAN, lines : SUBSET Line]

\* gens: status of the generation rows; rows: the source rows with their parse
\* cursor; states: the allowance's rows, each from the line that inserted it to the
\* last one that extended it; roll: the lines each generation's rollups count.
Artifact == [gens  : [Generations -> {"absent", "pending", "valid"}],
             rows  : [SourceIds -> Cursor \cup {None}],
             facts : SUBSET Fact,
             states : SUBSET State,
             roll  : [Generations -> (SUBSET Line) \cup {None}]]

ASSUME AbsentArtifact == None \notin SourceIds \cup Observation \cup Cursor

EmptyArtifact == [gens  |-> [g \in Generations |-> "absent"],
                  rows  |-> [i \in SourceIds |-> None],
                  facts |-> {},
                  states |-> {},
                  roll  |-> [g \in Generations |-> None]]

\* What a reader of a generation is given.
VisibleLines(a, g)  == {f.line : f \in {x \in a.facts : x.gen <= g}}
VisibleStates(a, g) == {x \in a.states : x.gen <= g}
LinesOf(a)          == {f.line : f \in a.facts}
Content(o)         == [id : {o.id}, ver : {o.ver}, ix : 1 .. o.len]

LatestValid(a) ==
    LET valid == {g \in Generations : a.gens[g] = "valid"}
    IN  IF valid = {} THEN 0 ELSE CHOOSE g \in valid : \A h \in valid : h <= g

RollupsReady(a, g) == g \in Generations /\ a.roll[g] # None

-----------------------------------------------------------------------------
(* Planning one source: "o" was observed, "known" is the source id whose    *)
(* cursor is consulted, "now" is the file while the plan is made.           *)

\* Mutant: only a shrunk file is taken for another content.
MutReplaced(o, known, cursor, now) == o.len < cursor.off

Replaced(o, known, cursor, now) ==
    o.id # known \/ now.ver # cursor.ver \/ o.len < cursor.off

\* Mutant: an appended file is read from the line after the cursor's next one.
MutPlanSource(a, o, known, now) ==
    IF a.rows[known] # None /\ ~Replaced(o, known, a.rows[known], now) /\ o.len > a.rows[known].off
    THEN {[obs |-> o, prior |-> known, start |-> a.rows[known].off + 1,
           replace |-> FALSE, lines |-> {}]}
    ELSE IF a.rows[known] = None \/ Replaced(o, known, a.rows[known], now)
    THEN {[obs |-> o, prior |-> IF a.rows[known] = None THEN None ELSE known,
           start |-> 0, replace |-> TRUE, lines |-> {}]}
    ELSE {}

plan_source(a, o, known, now) ==
    LET cursor == a.rows[known]
        new    == [obs |-> o, prior |-> None, start |-> 0, replace |-> TRUE, lines |-> {}]
    IN  IF cursor = None THEN {new}
        ELSE IF Replaced(o, known, cursor, now) THEN {[new EXCEPT !.prior = known]}
        ELSE IF o.len > cursor.off
             THEN {[new EXCEPT !.prior = known, !.start = cursor.off, !.replace = FALSE]}
        ELSE {}

\* The lines read for a plan from the file as it is while it is parsed.
Parsed(plan, now) ==
    [plan EXCEPT !.lines = {l \in Content([now EXCEPT !.id = plan.obs.id]) :
                               plan.start < l.ix /\ l.ix <= plan.obs.len}]

-----------------------------------------------------------------------------
(* Transactions of the writer. *)

\* _upsert_source for every plan: the cursor moves to the end that was planned.
UpsertSources(a, plans) ==
    [a EXCEPT !.rows = [i \in SourceIds |->
        IF \E p \in plans : p.obs.id = i
        THEN LET o == (CHOOSE p \in plans : p.obs.id = i).obs
             IN  [ver |-> o.ver, off |-> o.len]
        ELSE a.rows[i]]]

DeleteSources(a, ids) ==
    [a EXCEPT !.rows  = [i \in SourceIds |-> IF i \in ids THEN None ELSE a.rows[i]],
              !.facts = {f \in @ : f.line.id \notin ids},
              !.states = {x \in @ : x.line.id \notin ids}]

\* Mutant: the cursors of appended sources move before their facts are there.
MutOpenRefresh(a, plans, g) ==
    LET replaced == {p.prior : p \in {x \in plans : x.replace /\ x.prior # None}}
    IN  UpsertSources(DeleteSources([a EXCEPT !.gens[g] = "pending"], replaced), plans)

\* The first transaction of commit_refresh.
OpenRefresh(a, plans, g) ==
    LET replaced == {p.prior : p \in {x \in plans : x.replace /\ x.prior # None}}
        cleared  == DeleteSources([a EXCEPT !.gens[g] = "pending"], replaced)
    IN  UpsertSources(cleared, {p \in plans : p.prior = None \/ p.replace})

\* A fact needs its generation and its source row; one that is there is kept.
MayInsert(a, plan, g) == a.gens[g] # "absent" /\ a.rows[plan.obs.id] # None

\* What a line, or the line that inserted a row, reads of the allowance.
ReadingOf(l) == Reading[l.id[1]][l.ix]

\* Mutant: an equal observation leaves the newest row as it is.
MutInsertState(states, l, g) ==
    LET mine   == {x \in states : x.line.id = l.id}
        newest == CHOOSE x \in mine : \A y \in mine : y.last <= x.last
    IN  IF \/ ReadingOf(l) = None \/ \E x \in states : x.line = l
           \/ mine # {} /\ ReadingOf(newest.line) = ReadingOf(l)
        THEN states
        ELSE states \cup {[line |-> l, last |-> l.ix, gen |-> g]}

\* One observation: the newest row of its source is extended when it reads the same,
\* published or not; otherwise the line gets a row, unless it has one.
InsertState(states, l, g) ==
    LET mine   == {x \in states : x.line.id = l.id}
        newest == CHOOSE x \in mine : \A y \in mine : y.last <= x.last
    IN  IF ReadingOf(l) = None THEN states
        ELSE IF mine # {} /\ ReadingOf(newest.line) = ReadingOf(l)
             THEN (states \ {newest}) \cup {[newest EXCEPT !.last = l.ix, !.gen = g]}
        ELSE IF \E x \in states : x.line = l THEN states
        ELSE states \cup {[line |-> l, last |-> l.ix, gen |-> g]}

\* The observations of the lines of one content, in their order.  All rows are in
\* State: the intersection only says so.
InsertStates(states, lines, g) ==
    LET upTo[n \in 0 .. MaxLines] ==
            IF n = 0 THEN states
            ELSE IF \E l \in lines : l.ix = n
                 THEN InsertState(upTo[n - 1], CHOOSE l \in lines : l.ix = n, g)
            ELSE upTo[n - 1]
    IN  upTo[MaxLines] \cap State

\* Mutant: new facts carry the generation that readers have.
MutInsertFacts(a, plan, g) ==
    LET from == IF g = 1 THEN 1 ELSE g - 1
    IN  [a EXCEPT !.facts  = @ \cup {[line |-> l, gen |-> from] : l \in plan.lines \ LinesOf(a)},
                  !.states = InsertStates(@, plan.lines, g)]

\* A fact that is there is kept; every line of the plan is observed, again if need be.
InsertFacts(a, plan, g) ==
    [a EXCEPT !.facts  = @ \cup {[line |-> l, gen |-> g] : l \in plan.lines \ LinesOf(a)},
              !.states = InsertStates(@, plan.lines, g)]

\* One transaction of commit_initial_batches: cursor and facts together.
CommitBatch(a, plan, g, first) ==
    InsertFacts(UpsertSources(IF first THEN [a EXCEPT !.gens[g] = "pending"] ELSE a, {plan}),
                plan, g)

\* The last transaction; it changes no generation row that is not there.
SealRefresh(a, plans, g) ==
    LET upserted == UpsertSources(a, plans)
    IN  IF a.gens[g] = "absent" THEN upserted ELSE [upserted EXCEPT !.gens[g] = "valid"]

-----------------------------------------------------------------------------
(* rebuild_generation_rollups *)

RebuildRollups(a, g) == [a EXCEPT !.roll[g] = VisibleLines(a, g)]

\* Mutant: an advance counts only what the generation added.
MutAdvanceRollups(a, g, from) ==
    [a EXCEPT !.roll[g] = {f.line : f \in {x \in a.facts : x.gen = g}}]

AdvanceRollups(a, g, from) ==
    [a EXCEPT !.roll[g] = a.roll[from] \cup {f.line : f \in {x \in a.facts : x.gen = g}}]

=============================================================================
