------------------------------- MODULE Trees -------------------------------
(***************************************************************************)
(* Flat trees.  A tree of tuddofs has no directory objects: it maps full   *)
(* paths to entries, and a directory exists because some path runs through *)
(* it.  Here a tree maps every path of a small set to the content it holds *)
(* or to None; a content stands for the pair (sha256, mode) of an entry,   *)
(* which is what sameEntries and sameHead compare.                         *)
(*                                                                         *)
(* The string syntax of paths is abstracted to the one relation the code   *)
(* asks of it: <<p, q>> \in Inside when q starts with p and a slash.       *)
(***************************************************************************)
EXTENDS Integers

CONSTANTS
    Path,     \* the file paths
    Inside,   \* pairs <<p, q>>: q lies below p, were p a directory
    Content,  \* what an entry can hold: (sha256, mode)
    None      \* the path holds no file

ASSUME TreeAssumption ==
    /\ None \notin Content
    /\ Inside \subseteq Path \X Path
    /\ \A p \in Path : <<p, p>> \notin Inside

Entry == Content \cup {None}
Tree == [Path -> Entry]
EmptyTree == [p \in Path |-> None]

Present(t) == {p \in Path : t[p] # None}

\* p and q cannot both be files of one filesystem
Clash(p, q) == <<p, q>> \in Inside \/ <<q, p>> \in Inside

\* findPathCollision and findMaskedPaths: the files of t, above or below p
Clashing(p, t) == {q \in Present(t) : Clash(p, q)}

\* findTreeCoherenceCollisions returns nothing
Coherent(t) == \A p \in Present(t) : Clashing(p, t) = {}

-----------------------------------------------------------------------------
(* captureBatch: `ws` holds the written files (None: not written), `ds`    *)
(* the deleted paths.  A written file carries the deletion of every file   *)
(* above or below it in the same commit; a write wins over a delete.       *)

\* Mutant: a written file does not carry the deletions
CaptureKeeping(h, ws, ds) ==
    [p \in Path |-> IF ws[p] # None THEN ws[p] ELSE IF p \in ds THEN None ELSE h[p]]

CaptureResult(h, ws, ds) ==
    [p \in Path |-> IF ws[p] # None THEN ws[p]
                    ELSE IF p \in ds \/ Clashing(p, ws) # {} THEN None
                    ELSE h[p]]

-----------------------------------------------------------------------------
(* mergeRef: base b is the tree the branch was forked from, o is ours (the *)
(* branch), t is theirs (the mount).                                       *)

MergeConflicts(b, o, t) ==
    {p \in Path : o[p] # b[p] /\ t[p] # b[p] /\ o[p] # t[p]}

\* Mutant: ours wins wherever the sides differ
MergedOurs(b, o, t) == [p \in Path |-> IF o[p] # t[p] THEN o[p] ELSE t[p]]

\* what the loop leaves in `merged` when no path conflicts
Merged(b, o, t) == [p \in Path |-> IF o[p] # b[p] /\ t[p] = b[p] THEN o[p] ELSE t[p]]
=============================================================================
