----------------------- MODULE SourceRefreshProperties -----------------------
(***************************************************************************)
(* What is published of the source files.                                  *)
(***************************************************************************)
EXTENDS SourceRefresh

At(p, n) == [path |-> p, replaced |-> FALSE, ordinal |-> n]
Known(p, n, rec) == \/ [place |-> At(p, n), rec |-> rec] \in occurrences
                    \/ rec \in Malformed /\ At(p, n) \in diagnostics

(* A cursor is behind nothing that is missing: every record before it is   *)
(* published or disclosed as malformed, whoever refreshes, dies or is      *)
(* refused (cursor.py, "from the last complete record boundary").          *)
PrefixIsPublished ==
    \A p \in Paths : cursors[p] # None =>
      \A n \in 1 .. Len(cursors[p].prefix) : Known(p, n, cursors[p].prefix[n])

(* What a publication says of a source is what a count over its tables     *)
(* gives: validation.py, _validate_coverage.                               *)
Recounted(i) ==
    IF rows[i] = None THEN None
    ELSE [Counts(rows[i]) EXCEPT
            !.malformed = Cardinality({m \in diagnostics : m.path = i}),
            !.records   = IF i \in Paths THEN Ordinal(cursors[i]) ELSE 0]
CoverageReconciles == coverage = [i \in Items |-> Recounted(i)]

(* A place of a source holds one record (writer.py, _occurrence_values).   *)
PlacesAreUnique == \A f, g \in occurrences : f.place = g.place => f = g

(* A cursor never goes back, and never forgets what it was behind          *)
(* (writer.py, _recheck_parent).                                           *)
CursorsAdvance ==
    [][\A p \in Paths : cursors[p] # None =>
         cursors'[p] # None /\ IsPrefix(cursors[p].prefix, cursors'[p].prefix)]_vars

(* A refresh of sources that are as they were publishes nothing            *)
(* (docs/architecture/PUBLICATION_REFRESH_RECOVERY.md, no_change).         *)
IdleRefreshIsSilent ==
    [][\A r \in Refreshers :
         wk[r].at = "publish" /\ Commits(r) /\ wk'[r].at = "idle" /\ faults' = faults
         => artifact' # artifact]_vars

(* Once files that only grew stay as they are, every complete record of a   *)
(* chosen one comes to be published, or disclosed as malformed: what is    *)
(* passed over as unchanged holds nothing new (cursor.py, classify_cursor).*)
AllPublished ==
    \A p \in Chosen(files) : \A n \in 1 .. Len(files[p].recs) : Known(p, n, files[p].recs[n])
Growing == habit.edits \subseteq {"create_later", "append", "partial"} /\ habit.midRead = {}
EverythingIsPublished == Growing => <>[]AllPublished

(* The same of files that change as this world's files do.                 *)
PublishedAnyhow == <>[]AllPublished

(* A source that is gone is not counted as chosen for ever                 *)
(* (docs/architecture/ADAPTER_CONTRACT.md, missing).                       *)
RemovalIsDisclosed ==
    <>[](\A p \in Paths : rows[p] # None /\ files[p] = None => ~rows[p].selected)

=============================================================================
