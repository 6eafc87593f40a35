---------------------------- MODULE SourceCursors ----------------------------
(***************************************************************************)
(* Source files of the Codex adapter, what a refresh finds of them, and    *)
(* the cursors from which it goes on.                                      *)
(*                                                                         *)
(* A file is a sequence of records and whether an unterminated line        *)
(* follows.  A record is the number it was written under and is two bytes  *)
(* long, an unterminated line one.  A hash of some bytes is those bytes;   *)
(* the last 4096 bytes, of which the suffix is taken, are the whole file.  *)
(* There is no manifest: a file is a source of its own, with one content   *)
(* revision and without time hints, and all are in one directory.          *)
(***************************************************************************)
EXTENDS Integers, SequencesExt

CONSTANTS
    Paths,       \* names of files: numbers, in their sort order
    MaxFiles,    \* files of one refresh
    MaxBytes,    \* bytes of one refresh
    None

ASSUME CursorAssumption ==
    /\ Paths \subseteq Nat \ {0} /\ IsFiniteSet(Paths)
    /\ MaxFiles \in Nat \ {0} /\ MaxBytes \in Nat

\* The source that stands for what an inventory leaves out.
Overflow == 0
Items == Paths \cup {Overflow}

\* Files, cursors, and what is known of a source.
File   == [recs : Seq(Nat), partial : BOOLEAN]
Cursor == [prefix : Seq(Nat), size : Nat, suffix : File]
Entry  == [rank : Nat, size : Nat, selected : BOOLEAN]

ASSUME NoneAssumption == None \notin File \cup Cursor \cup Entry

Size(file) == 2 * Len(file.recs) + (IF file.partial THEN 1 ELSE 0)

-----------------------------------------------------------------------------
(* discover_inventory and select_sources. *)

Present(files) == {p \in Paths : files[p] # None}

Before(p, set) == {q \in set : q < p}
After(p, set)  == {q \in set : q > p}

\* _bounded_jsonl_paths: names from the last one on, until there is one too many.
Walked(files) == {p \in Present(files) : Cardinality(After(p, Present(files))) <= MaxFiles}

\* Of those, the inventory keeps the first ones.
Listed(files) == {p \in Walked(files) : Cardinality(Before(p, Walked(files))) < MaxFiles}

\* Budgets are spent in the order of the ranks: a source is taken when it fits
\* behind those that were taken before it, and else passed over.
Chosen(files) ==
    LET taken[p \in Listed(files)] ==
          MapThenSumSet(LAMBDA q : Size(files[q]), {q \in Before(p, Listed(files)) : taken[q]})
            + Size(files[p]) <= MaxBytes
    IN  {p \in Listed(files) : taken[p]}

Inventory(files) ==
    [p \in Items |->
       IF p \in Listed(files)
       THEN [rank |-> Cardinality(Before(p, Listed(files))), size |-> Size(files[p]),
             selected |-> p \in Chosen(files)]
       ELSE IF p = Overflow /\ Walked(files) # Listed(files)
            THEN [rank |-> MaxFiles, size |-> 0, selected |-> FALSE]
            ELSE None]

-----------------------------------------------------------------------------
(* Cursors. *)

CursorAt(file, n) == [prefix |-> SubSeq(file.recs, 1, n), size |-> Size(file), suffix |-> file]

\* Mutant: the size decides.
MutClassify(file, cursor) ==
    CASE cursor = None                        -> "append_safe"
      [] Size(file) < 2 * Len(cursor.prefix)  -> "truncated"
      [] Size(file) = cursor.size             -> "no_change"
      [] OTHER                                -> "append_safe"

\* classify_cursor, of a file that is there.
Classify(file, cursor) ==
    CASE cursor = None                                     -> "append_safe"
      [] Size(file) < 2 * Len(cursor.prefix)               -> "truncated"
      [] ~IsPrefix(cursor.prefix, file.recs)               -> "replaced"
      [] Size(file) = cursor.size /\ file = cursor.suffix  -> "no_change"
      [] OTHER                                             -> "append_safe"

\* Mutant: one record too far.
MutStart(outcome, cursor) ==
    IF outcome = "append_safe" /\ cursor # None THEN Len(cursor.prefix) + 1 ELSE 0

\* Where reading starts: behind the cursor, or from the beginning.
Start(outcome, cursor) ==
    IF outcome = "append_safe" /\ cursor # None THEN Len(cursor.prefix) ELSE 0

=============================================================================
