------------------------------- MODULE Audit -------------------------------
(***************************************************************************)
(* verify() of src/src/kernel.ts, beside the writers and the collector of  *)
(* Gc.  It opens no transaction: each statement reads a snapshot of its    *)
(* own, and what it reports are comparisons of two or three of them.       *)
(*                                                                         *)
(* Hashes are the values they hash, so the drift of a tree's hash cannot   *)
(* be told; a commit's is recomputed from the parents that were found.     *)
(***************************************************************************)
EXTENDS Gc

VARIABLES
    audit,   \* the call: its next statement, what it has to compare, what the last comparison found
    during   \* what changed since the first statement of a comparison

auditVars == <<vars, audit, during>>

NoAudit == [pc |-> "commits", parents |-> <<>>, refs |-> {}, expected |-> [r \in Ref |-> {}],
            blobs |-> {}, found |-> {}]

AuditInit == Init /\ audit = NoAudit /\ during = {}

Reads(pc) == audit.pc = pc

\* a statement: the next one, and what is kept for it
Read(next) == audit' = next /\ UNCHANGED <<vars, during>>
Compare(pc, found) ==
    /\ audit' = [NoAudit EXCEPT !.pc = pc, !.found = found]
    /\ during' = {}
    /\ UNCHANGED vars

\* the commits, or a random sample of them
AuditCommits ==
    /\ Reads("commits")
    /\ \E sample \in SUBSET DOMAIN commits :
          Read([NoAudit EXCEPT !.pc = "parents", !.parents = [i \in sample |-> commits[i].parents]])

\* Mutant: the parents are looked for in the sample
AuditParentsSampled ==
    LET sample == DOMAIN audit.parents
        missing == {m \in sample \X (1 .. lastId) : m[2] \in audit.parents[m[1]] \ sample}
    IN  /\ Reads("parents")
        /\ Compare("refs", {[kind |-> "dangling-parent", commit |-> m[1], parent |-> m[2]] : m \in missing})

\* the parents of the sample are selected by id; a commit's hash needs all of them
AuditParents ==
    LET sample == DOMAIN audit.parents
        missing == {m \in sample \X (1 .. lastId) :
                       m[2] \in audit.parents[m[1]] \ (sample \cup DOMAIN commits)}
    IN  /\ Reads("parents")
        /\ Compare("refs", {[kind |-> "dangling-parent", commit |-> m[1], parent |-> m[2]] : m \in missing}
                             \cup {[kind |-> "commit-hash-drift", commit |-> m[1]] : m \in missing})

AuditRefs ==
    /\ Reads("refs")
    /\ Read([NoAudit EXCEPT !.pc = "entries", !.refs = {r \in Ref : tip[r] # 0}])

\* the tree of every ref's tip, as the refs are by now
AuditEntries ==
    /\ Reads("entries")
    /\ Read([audit EXCEPT !.pc = "heads",
                          !.expected = [r \in Ref |-> IF tip[r] = 0 THEN {} ELSE commits[tip[r]].tree]])

Drift == {[kind |-> "heads-drift", ref |-> r] : r \in {q \in audit.refs : heads[q] # audit.expected[q]}}
Orphans == {[kind |-> "orphaned-head", ref |-> r] : r \in {q \in Ref \ audit.refs : heads[q] # {}}}

\* Mutant: a head without an entry in the tree is no finding
AuditHeadsListed ==
    LET lacking == {f \in Drift : ~(audit.expected[f.ref] \subseteq heads[f.ref])}
    IN  Reads("heads") /\ Compare("blobs", lacking \cup Orphans)

AuditHeads == Reads("heads") /\ Compare("blobs", Drift \cup Orphans)

\* the rows with an object key, or a sample of them
AuditBlobs ==
    /\ Reads("blobs")
    /\ \E sample \in SUBSET (blobs \cap Large) : Read([NoAudit EXCEPT !.pc = "store", !.blobs = sample])

\* HEAD of each object in turn; a call that fails is a finding too
AuditObject(x) ==
    /\ Reads("store") /\ x \in audit.blobs
    /\ \E found \in {{[kind |-> "storage-error", blob |-> x]},
                     IF x \in objects THEN {} ELSE {[kind |-> "storage-missing", blob |-> x]}} :
          Read([audit EXCEPT !.blobs = @ \ {x}, !.found = @ \cup found])

\* the report: all that was found; another audit may follow
AuditReports == Reads("store") /\ audit.blobs = {} /\ Compare("commits", {})

AuditStep ==
    \/ AuditCommits \/ AuditParents \/ AuditRefs \/ AuditEntries \/ AuditHeads
    \/ AuditBlobs \/ (\E x \in Large : AuditObject(x)) \/ AuditReports

\* what happens between two statements that are compared
Changes ==
    CASE Reads("parents") -> DOMAIN commits \ DOMAIN commits'
      [] Reads("entries") \/ Reads("heads") -> {r \in Ref : <<tip'[r], heads'[r]>> # <<tip[r], heads[r]>>}
      [] Reads("store") -> blobs \ blobs'
      [] OTHER -> {}

-----------------------------------------------------------------------------
(* Properties.                                                             *)

\* what the step that ends a comparison reports
Reported(kind) == {f \in audit'.found : f.kind = kind}

(* verify reports a missing parent, and the hash it cannot recompute       *)
(* without it, only when GC deleted that parent between two statements.    *)
DanglingMeansCollected ==
    [][Reads("parents") /\ Reads("refs")' =>
          /\ \A f \in Reported("dangling-parent") : f.parent \in during
          /\ \A f \in Reported("commit-hash-drift") :
                \E g \in Reported("dangling-parent") : g.commit = f.commit]_auditVars

(* The verdict on an index is exact for every ref that stood still while   *)
(* verify went from statement to statement: it reports drift if and only   *)
(* if the heads are not the tree of the tip, and orphans if and only if    *)
(* heads have no ref.  Both are real: a write that commits on a branch GC  *)
(* is dropping leaves heads to the next fork.                              *)
Suspects(kind) == {f.ref : f \in Reported(kind)} \ during
DriftIsExact ==
    [][Reads("heads") /\ Reads("blobs")' =>
          /\ Suspects("heads-drift") = {r \in Ref \ during : tip[r] # 0 /\ heads[r] # commits[tip[r]].tree}
          /\ Suspects("orphaned-head") = {r \in Ref \ during : tip[r] = 0 /\ heads[r] # {}}]_auditVars

(* It reports data loss only when GC deleted the blob's row after verify   *)
(* had listed it: an object is not missed while the row is there.          *)
MissingMeansCollected ==
    [][Reads("store") => \A f \in Reported("storage-missing") : f \in audit.found \/ f.blob \in during]_auditVars
=============================================================================
