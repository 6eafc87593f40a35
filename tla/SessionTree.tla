---------------------------- MODULE SessionTree ----------------------------
(***************************************************************************)
(* Sessions are a forest: a session has at most one parent, and its row    *)
(* stores the root and the depth that follow from the parents.             *)
(* A forest is given as a function from the sessions that are there to     *)
(* their parents; a root has something that is not a session.              *)
(***************************************************************************)
EXTENDS FiniteSetsExt, Integers

CONSTANT Sessions

ASSUME SessionsAssumption == IsFiniteSet(Sessions)

\* The session that is k parents up, or the last one before the parents end.
Upwards(parents, session) ==
    LET up[k \in 0 .. Cardinality(Sessions)] ==
          IF k = 0 THEN session
          ELSE IF up[k-1] \in DOMAIN parents /\ parents[up[k-1]] \in Sessions
               THEN parents[up[k-1]] ELSE up[k-1]
    IN  up

RootOf(parents, session)  == Upwards(parents, session)[Cardinality(Sessions)]
DepthOf(parents, session) ==
    Min({k \in 0 .. Cardinality(Sessions) :
            Upwards(parents, session)[k] = RootOf(parents, session)})

\* Following the parents ends at a session that is there and has none.
IsForest(parents) ==
    \A s \in DOMAIN parents :
        LET root == RootOf(parents, s)
        IN  root \in DOMAIN parents /\ parents[root] \notin Sessions

\* A mutant: only the ancestors of the seeds.
MutRelatives(parents, seeds) ==
    {s \in DOMAIN parents :
        \E t \in seeds \cap DOMAIN parents :
            \E k \in 0 .. Cardinality(Sessions) : s = Upwards(parents, t)[k]}

\* The seeds that are there, and from them up to parents and down to children.
Relatives(parents, seeds) ==
    LET near(S) == S \cup {s \in DOMAIN parents :
                              \E t \in S : parents[t] = s \/ parents[s] = t}
        grown[k \in 0 .. Cardinality(Sessions)] ==
          IF k = 0 THEN seeds \cap DOMAIN parents ELSE near(grown[k-1])
    IN  grown[Cardinality(Sessions)]
=============================================================================
