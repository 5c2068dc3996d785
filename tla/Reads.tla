------------------------------- MODULE Reads -------------------------------
(***************************************************************************)
(* The reads of src/src/session.ts and read of src/src/kernel.ts, beside   *)
(* writers and the collector of Gc.  None opens a transaction: what one    *)
(* statement found (the commit a pin or a sha stands for, the history of a *)
(* ref, the key of an object) is used by a later one, when GC may have     *)
(* taken it.  Listing a ref that is followed is one statement, over the    *)
(* index that Gc checks.                                                   *)
(***************************************************************************)
EXTENDS Audit

VARIABLES
    reader,  \* one read: its next statement, the commits left to look up, what it found
    lost     \* a commit of the read has left every lineage since the read named it

readVars == <<auditVars, reader, lost>>

NoRead == [pc |-> "idle", ref |-> Mount, ids |-> {}, content |-> NoContent, wanted |-> {}, got |-> {}]

ReadsInit == AuditInit /\ reader = NoRead /\ lost = FALSE

Reading(pc) == reader.pc = pc
Step(k) == reader' = k /\ UNCHANGED <<auditVars, lost>>
Goes(pc) == Step([reader EXCEPT !.pc = pc])

\* what a session may see: the mount, and the branch named after the session if it has one
Lineage(r) == Closure({tip[Mount], tip[r]})

\* Mutant: the entries are those of the mount by now
EntriesByNow(i) == commits[tip[Mount]].tree \cap blobs

\* tuddo_tree_entries joined with tuddo_commits and tuddo_blobs; no row, no entries
Entries(i) ==
    IF i \in DOMAIN commits /\ commits[i].tree \in trees THEN commits[i].tree \cap blobs ELSE {}

Trees(S) == {<<i, commits[i].tree>> : i \in S}

-----------------------------------------------------------------------------
(* A pinned mount, or a side of a diff: each side is resolved and, later,   *)
(* read by itself.                                                         *)

Resolved(i) == Step([NoRead EXCEPT !.pc = "tree", !.ids = {i}, !.wanted = Trees({i})])

\* pinnedRef: the tip of a ref the session may see, or a commit of its lineage
PinnedRef(b, i) ==
    /\ Reading("idle")
    /\ i \in ({tip[Mount], tip[b]} \ {0}) \cup Lineage(b)
    /\ Resolved(i)

\* resolveCommit: a sha is looked for in the lineage of the mount
ResolveCommit(b, i) == Reading("idle") /\ i \in Lineage(b) /\ Resolved(i)

\* listRef and allRefEntries of a pin; readTree
ReadTree(i) ==
    /\ Reading("tree") /\ i \in reader.ids
    /\ Step([reader EXCEPT !.pc = "answer", !.ids = {}, !.got = {<<i, Entries(i)>>}])

\* a path that the commit holds: the bytes, or the key of an object
Looked(i, x) ==
    Step([NoRead EXCEPT !.pc = IF x \in Large THEN "get" ELSE "served", !.content = x,
                        !.wanted = Trees({i})])

\* readPinned, readStream
ReadPinned(i, x) ==
    /\ Reading("tree") /\ i \in reader.ids
    /\ \E pin \in reader.wanted : x \in pin[2]
    /\ \/ x \in Entries(i) /\ Looked(i, x)
       \/ x \notin Entries(i) /\ Goes("notFound")

-----------------------------------------------------------------------------
(* A ref that is followed: a path, or its history.                         *)

\* read of the kernel, and stat: the index, the tree of the tip and the blob in one
\* statement
ReadHead(r, x) ==
    /\ Reading("idle")
    /\ tip[r] # 0 /\ x \in heads[r] \cap Entries(tip[r])
    /\ Looked(tip[r], x)

\* readStream: the tip is resolved in the statement that finds the entry
StreamHead(r, x) ==
    /\ Reading("idle")
    /\ tip[r] # 0 /\ x \in Entries(tip[r])
    /\ Looked(tip[r], x)

\* storage.get
GetObject ==
    /\ Reading("get")
    /\ Goes(IF reader.content \in objects THEN "served" ELSE "storage")

\* history and timeline: the tip, whether the mount has it in its lineage, the commits
SelectTip(r) ==
    /\ Reading("idle")
    /\ tip[r] # 0
    /\ Step([reader EXCEPT !.pc = "lineage", !.ref = r, !.ids = {tip[r]}, !.wanted = Trees({tip[r]})])

AssertLineage ==
    /\ Reading("lineage")
    /\ \/ reader.ids \subseteq Lineage(reader.ref) /\ Step([NoRead EXCEPT !.pc = "commits", !.ref = reader.ref])
       \/ ~(reader.ids \subseteq Lineage(reader.ref)) /\ Goes("notFound")

\* history: one statement computes the lineage of the ref anew and compares each commit with
\* its parents
History == Reading("commits") /\ Goes("served")

\* timeline without a filter: the lineage alone
SelectCommits ==
    LET found == Closure({tip[reader.ref]})
    IN  /\ Reading("commits")
        /\ Step([reader EXCEPT !.pc = "changes", !.wanted = Trees(found),
                               !.ids = found \cup UNION {commits[i].parents : i \in found}])

\* readTrees: all the trees of a timeline; a commit without rows has an empty tree
ReadTrees ==
    /\ Reading("changes")
    /\ Step([reader EXCEPT !.pc = "answer", !.ids = {}, !.got = {<<i, Entries(i)>> : i \in reader.ids}])

Ended == reader.pc \in {"answer", "served", "notFound", "storage"}
EndRead == Ended /\ reader' = NoRead /\ lost' = FALSE /\ UNCHANGED auditVars

-----------------------------------------------------------------------------
ReadStep ==
    \/ \E b \in Branch, i \in DOMAIN commits : PinnedRef(b, i) \/ ResolveCommit(b, i)
    \/ \E r \in Ref : SelectTip(r) \/ \E x \in Content : ReadHead(r, x) \/ StreamHead(r, x)
    \/ \E i \in reader.ids : ReadTree(i) \/ \E x \in Content : ReadPinned(i, x)
    \/ GetObject \/ AssertLineage \/ History \/ SelectCommits \/ ReadTrees \/ EndRead

\* what no ref leads to any more
Gone == \E pin \in reader.wanted : pin[1] \notin Closure(Tips)

\* a read and a verify change nothing, so neither sees the other: one of them at a time;
\* a read that has its answer is over before anything else happens
ReadsNext ==
    \/ Reads("commits") /\ ReadStep
    \/ Reading("idle") /\ AuditStep /\ UNCHANGED <<reader, lost>>
    \/ /\ ~Ended /\ Next /\ UNCHANGED <<audit, reader>>
       /\ during' = during \cup Changes /\ lost' = (lost \/ Gone')

ReadsSpec == ReadsInit /\ [][ReadsNext]_readVars

-----------------------------------------------------------------------------
(* Properties.                                                             *)

(* A read that takes several statements is still the read of the commits   *)
(* it named first: none of their trees comes out empty or short, no lookup *)
(* fails and no object is missing, as long as they stay in the lineage of  *)
(* some ref.  That holds although the ref moves, the branch is settled and *)
(* GC deletes around it.  When GC dropped the branch a tree may be missed, *)
(* but a part of one is never taken for it.                                *)
ReadsAreWhole ==
    /\ ~lost => /\ reader.pc \notin {"notFound", "storage"}
                /\ Reading("answer") => reader.got = reader.wanted
    /\ \A g \in reader.got : g[2] = {} \/ g \in reader.wanted
=============================================================================
