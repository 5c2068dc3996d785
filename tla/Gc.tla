--------------------------------- MODULE Gc ---------------------------------
(***************************************************************************)
(* Garbage collection of one tenant against live writers: gc and           *)
(* collectTenant of src/src/kernel.ts, and the rows and objects that write *)
(* and captureBatch create.  Writers are at the grain of SQL statements:   *)
(* what one has inserted is its own until COMMIT, and GC works batch by    *)
(* batch, each batch a transaction whose statement first finds its rows in *)
(* a snapshot and then deletes them.                                       *)
(*                                                                         *)
(* A blob row, its content and its path are one value of Content; a tree   *)
(* is the set of contents it holds, its hash is that set.  Content above   *)
(* the inline limit is Large and lives in the object store.  Row ages are  *)
(* a nondeterministic choice: any set of commits may be in the grace       *)
(* window, any subset of the rows a batch may delete is old enough (or     *)
(* within LIMIT).  One attempt of a call, of one path, is a call here;     *)
(* merges, captures of several paths and retries are in RefKernel.         *)
(***************************************************************************)
EXTENDS Integers, FiniteSets

CONSTANTS
    Writer,      \* write and captureBatch calls in flight
    Mount,       \* the ref mount/<key>
    Branch,      \* the refs agent/<session>/<key>
    Small,       \* contents stored inline
    Large,       \* contents stored as objects
    NoContent,   \* what an idle writer writes
    MaxCommits,  \* bound: ids that may be given to commits
    MayLeak      \* bound: whether the release of the advisory lock may fail

Content == Small \cup Large
Ref == {Mount} \cup Branch

ASSUME GcAssumption ==
    /\ IsFiniteSet(Writer)
    /\ Mount \notin Branch
    /\ Small \cap Large = {}
    /\ NoContent \notin Content
    /\ MaxCommits \in Nat \ {0}
    /\ MayLeak \in BOOLEAN

VARIABLES
    commits,  \* tuddo_commits: the rows present, by id
    lastId,   \* the identity sequence
    tip,      \* tuddo_refs.commit_id, 0 when there is no row
    base,     \* tuddo_refs.base_commit
    state,    \* tuddo_refs.state
    heads,    \* tuddo_heads: the contents indexed for each ref name
    trees,    \* tuddo_trees with tuddo_tree_entries
    blobs,    \* tuddo_blobs
    objects,  \* the object store, CAS keys
    writer,   \* the calls in flight
    gc        \* the collector

refs == <<tip, base, state, heads>>
rows == <<commits, lastId, trees, blobs>>
vars == <<refs, rows, objects, writer, gc>>

Idle == [pc |-> "idle", ref |-> Mount, content |-> NoContent, expected |-> 0, tree |-> {},
         ownBlob |-> FALSE, ownTree |-> FALSE]
GcIdle == [pc |-> "idle", locked |-> FALSE, leaked |-> FALSE, young |-> {}, expired |-> {}, batch |-> {}]

\* a mount somebody has opened before: its genesis commit
Init ==
    /\ commits = [i \in {1} |-> [parents |-> {}, tree |-> {}]]
    /\ lastId = 1
    /\ tip = [r \in Ref |-> IF r = Mount THEN 1 ELSE 0]
    /\ base = [r \in Ref |-> 0]
    /\ state = [r \in Ref |-> IF r = Mount THEN "open" ELSE "absent"]
    /\ heads = [r \in Ref |-> {}]
    /\ trees = {{}}
    /\ blobs = {}
    /\ objects = {}
    /\ writer = [w \in Writer |-> Idle]
    /\ gc = GcIdle

-----------------------------------------------------------------------------
(* Sessions: what makes history unreachable, and reachable.                *)

\* fork: the heads of a new branch are seeded ON CONFLICT DO NOTHING
Fork(b) ==
    /\ tip[b] = 0
    /\ tip' = [tip EXCEPT ![b] = tip[Mount]]
    /\ base' = [base EXCEPT ![b] = tip[Mount]]
    /\ state' = [state EXCEPT ![b] = "open"]
    /\ heads' = [heads EXCEPT ![b] = @ \cup commits[tip[Mount]].tree]
    /\ UNCHANGED <<rows, objects, writer, gc>>

Discard(b) ==
    /\ state[b] = "open"
    /\ state' = [state EXCEPT ![b] = "settled"]
    /\ UNCHANGED <<tip, base, heads, rows, objects, writer, gc>>

\* a target puts a large content straight into the store, under no lock: through an
\* enforced presigned URL, or when beginCaptureUpload promotes the quarantined bytes
TargetPut(x) ==
    /\ x \in Large
    /\ objects' = objects \cup {x}
    /\ UNCHANGED <<refs, rows, writer, gc>>

-----------------------------------------------------------------------------
(* A writer: one attempt of write or captureBatch.                         *)

At(w, pc) == writer[w].pc = pc
Goto(w, k) == writer' = [writer EXCEPT ![w] = k]
\* the caller gets its answer, or an error: how says which, and no later step depends on it
End(w, how) == Goto(w, Idle)
Tables == <<refs, rows, gc>>

\* pg_advisory_lock_shared, held until the call ends; GC holds the exclusive lock
Sharing(w) == writer[w].content \in Large /\ ~At(w, "lock")
Shared == \E w \in Writer : Sharing(w)

\* an idle connection of the pool still holds the lock of a collection that is over; the
\* call or the collection it is lent to has the lock already
OnLeakedClient == gc.leaked /\ gc.pc = "idle" /\ ~Shared

\* what the calls in flight may still add to the commits
InFlight == {w \in Writer : ~At(w, "idle")}

Begin(w, r, x) ==
    /\ At(w, "idle")
    /\ lastId + Cardinality(InFlight) < MaxCommits
    /\ Goto(w, [Idle EXCEPT !.pc = IF x \in Large THEN "lock" ELSE "load", !.ref = r, !.content = x])
    /\ UNCHANGED <<Tables, objects>>

\* Mutant: the upload does not wait for GC
LockAnyway(w) ==
    /\ At(w, "lock")
    /\ Goto(w, [writer[w] EXCEPT !.pc = "store"])
    /\ UNCHANGED <<Tables, objects>>

Lock(w) ==
    /\ At(w, "lock")
    /\ ~gc.locked \/ OnLeakedClient
    /\ Goto(w, [writer[w] EXCEPT !.pc = "store"])
    /\ UNCHANGED <<Tables, objects>>

\* ensureStorage: head, then put
EnsureStorage(w) ==
    /\ At(w, "store")
    /\ objects' = objects \cup {writer[w].content}
    /\ Goto(w, [writer[w] EXCEPT !.pc = "load"])
    /\ UNCHANGED Tables

\* confirmStored: what the target has uploaded must still be there
ConfirmStored(w) ==
    /\ At(w, "store")
    /\ \/ writer[w].content \in objects /\ Goto(w, [writer[w] EXCEPT !.pc = "load"])
       \/ writer[w].content \notin objects /\ End(w, "storage")
    /\ UNCHANGED <<Tables, objects>>

\* BEGIN, loadRef
LoadRef(w) ==
    LET r == writer[w].ref
    IN  /\ At(w, "load")
        /\ \/ tip[r] = 0 /\ End(w, "notFound")
           \/ tip[r] # 0 /\ state[r] # "open" /\ End(w, "settled")
           \/ state[r] = "open" /\ Goto(w, [writer[w] EXCEPT !.pc = "heads", !.expected = tip[r]])
        /\ UNCHANGED <<Tables, objects>>

\* loadHeads, another statement, which sees what was committed since
LoadHeads(w) ==
    LET k == writer[w]
    IN  /\ At(w, "heads")
        /\ \/ k.content \in heads[k.ref] /\ End(w, "ok")
           \/ /\ k.content \notin heads[k.ref]
              /\ Goto(w, [k EXCEPT !.pc = "blob", !.tree = heads[k.ref] \cup {k.content}])
        /\ UNCHANGED <<Tables, objects>>

\* INSERT ... ON CONFLICT DO NOTHING waits for a transaction that inserted the key
InsertBlob(w) ==
    LET k == writer[w]
    IN  /\ At(w, "blob")
        /\ \A v \in Writer : ~(writer[v].ownBlob /\ writer[v].content = k.content)
        /\ \/ k.content \in blobs /\ Goto(w, [k EXCEPT !.pc = "findBlob"])
           \/ k.content \notin blobs /\ Goto(w, [k EXCEPT !.pc = "tree", !.ownBlob = TRUE])
        /\ UNCHANGED <<Tables, objects>>

\* the row that was in the way is selected by another statement
FindBlob(w) ==
    /\ At(w, "findBlob")
    /\ \/ writer[w].content \in blobs /\ Goto(w, [writer[w] EXCEPT !.pc = "tree"])
       \/ writer[w].content \notin blobs /\ End(w, "invariant")
    /\ UNCHANGED <<Tables, objects>>

OwnBlobs(k) == IF k.ownBlob THEN {k.content} ELSE {}

\* insertTree; the entries reference their blobs (ON DELETE RESTRICT)
InsertTree(w) ==
    LET k == writer[w]
    IN  /\ At(w, "tree")
        /\ \A v \in Writer : ~(writer[v].ownTree /\ writer[v].tree = k.tree)
        /\ \/ k.tree \in trees /\ Goto(w, [k EXCEPT !.pc = "findTree"])
           \/ /\ k.tree \notin trees
              /\ k.tree \subseteq blobs \cup OwnBlobs(k)
              /\ Goto(w, [k EXCEPT !.pc = "commit", !.ownTree = TRUE])
           \/ /\ k.tree \notin trees
              /\ ~(k.tree \subseteq blobs \cup OwnBlobs(k))
              /\ End(w, "foreignKey")
        /\ UNCHANGED <<Tables, objects>>

FindTree(w) ==
    /\ At(w, "findTree")
    /\ \/ writer[w].tree \in trees /\ Goto(w, [writer[w] EXCEPT !.pc = "commit"])
       \/ writer[w].tree \notin trees /\ End(w, "invariant")
    /\ UNCHANGED <<Tables, objects>>

\* insertCommit; the commit references its tree (ON DELETE RESTRICT)
InsertCommit(w) ==
    LET k == writer[w]
    IN  /\ At(w, "commit")
        /\ \/ (k.ownTree \/ k.tree \in trees) /\ Goto(w, [k EXCEPT !.pc = "cas"])
           \/ ~k.ownTree /\ k.tree \notin trees /\ End(w, "foreignKey")
        /\ UNCHANGED <<Tables, objects>>

\* the UPDATE of the ref, updateHead (replaceHeads in captureBatch), COMMIT
Cas(w) ==
    LET k == writer[w]
        id == lastId + 1
    IN  /\ At(w, "cas")
        /\ \/ tip[k.ref] # k.expected /\ End(w, "conflict") /\ UNCHANGED <<refs, rows>>
           \/ /\ tip[k.ref] = k.expected
              /\ commits' = [i \in DOMAIN commits \cup {id} |->
                     IF i = id THEN [parents |-> {k.expected}, tree |-> k.tree] ELSE commits[i]]
              /\ lastId' = id
              /\ trees' = trees \cup {k.tree}
              /\ blobs' = blobs \cup OwnBlobs(k)
              /\ tip' = [tip EXCEPT ![k.ref] = id]
              /\ \E indexed \in {heads[k.ref] \cup {k.content}, k.tree} :
                    heads' = [heads EXCEPT ![k.ref] = indexed]
              /\ End(w, "ok")
              /\ UNCHANGED <<base, state>>
        /\ UNCHANGED <<objects, gc>>

WriterCrash(w) == ~At(w, "idle") /\ End(w, "lost") /\ UNCHANGED <<Tables, objects>>

-----------------------------------------------------------------------------
(* The collector.                                                          *)

In(pc) == gc.pc = pc

\* the cutoff of commits has no use after their phase
GcGoto(pc, batch) ==
    gc' = [gc EXCEPT !.pc = pc, !.batch = batch, !.young = IF pc = "trees" THEN {} ELSE @]
Fixed == <<objects, writer>>

\* pg_try_advisory_lock; a tenant whose lock is held is skipped.  Both cutoffs are
\* computed now; a commit may come to be later and be dated before them.
GcStart ==
    /\ In("idle")
    /\ ~Shared
    /\ ~gc.locked \/ OnLeakedClient
    /\ \E young \in SUBSET (1 .. MaxCommits), expired \in SUBSET {b \in Branch : state[b] = "settled"} :
          gc' = [gc EXCEPT !.pc = "branches", !.locked = TRUE, !.young = young, !.expired = expired]
    /\ UNCHANGED <<refs, rows, Fixed>>

\* SELECT the expired branches; DELETE the heads rows that are there now.  The batch
\* keeps what was deleted: nobody else sees it before COMMIT.
PickBranches ==
    /\ In("branches")
    /\ GcGoto(IF gc.expired = {} THEN "commits" ELSE "dropBranches",
              {head \in gc.expired \X Content : head[2] \in heads[head[1]]})
    /\ UNCHANGED <<refs, rows, Fixed>>

DropBranches ==
    /\ In("dropBranches")
    /\ tip' = [r \in Ref |-> IF r \in gc.expired THEN 0 ELSE tip[r]]
    /\ base' = [r \in Ref |-> IF r \in gc.expired THEN 0 ELSE base[r]]
    /\ state' = [r \in Ref |-> IF r \in gc.expired THEN "absent" ELSE state[r]]
    /\ heads' = [r \in Ref |-> {x \in heads[r] : <<r, x>> \notin gc.batch}]
    /\ gc' = [gc EXCEPT !.pc = "commits", !.expired = {}, !.batch = {}]
    /\ UNCHANGED <<rows, Fixed>>

\* WITH RECURSIVE: the commits of S and all their ancestors that have rows, the least
\* set that has them
Closed(K) == \A i \in K : commits[i].parents \cap DOMAIN commits \subseteq K
Closure(S) ==
    {i \in DOMAIN commits : \A K \in SUBSET DOMAIN commits :
        S \cap DOMAIN commits \subseteq K /\ Closed(K) => i \in K}

Referenced == {tip[r] : r \in Ref} \cup {base[r] : r \in Ref}
Tips == {tip[r] : r \in Ref} \ {0}

\* Mutant: the grace window protects commits, not their ancestors
DoomedInGrace == DOMAIN commits \ (Closure(Tips) \cup gc.young \cup Referenced)

Doomed == DOMAIN commits \ (Closure(Tips) \cup Closure(gc.young) \cup Referenced)

\* childless commits first, then their parents: a batch takes a commit only with all
\* its doomed descendants, and takes some if there are any
PickCommits ==
    /\ In("commits")
    /\ \E batch \in SUBSET Doomed :
          /\ batch = {} => Doomed = {}
          /\ \A i \in batch, j \in Doomed : i \in commits[j].parents => j \in batch
          /\ GcGoto(IF batch = {} THEN "trees" ELSE "dropCommits", batch)
    /\ UNCHANGED <<refs, rows, Fixed>>

\* the deletion of a row that is referenced by now fails, and with it the batch; no
\* deletion at all ends the phase
Sweep(batch, referenced, again, next) ==
    \/ batch \cap referenced = {} /\ GcGoto(again, {})
    \/ batch \cap referenced # {} /\ GcGoto(next, {})
Removed(batch, referenced) == IF batch \cap referenced = {} THEN batch ELSE {}

DropCommits ==
    /\ In("dropCommits")
    /\ Sweep(gc.batch, Referenced, "commits", "trees")
    /\ commits' = [i \in DOMAIN commits \ Removed(gc.batch, Referenced) |-> commits[i]]
    /\ UNCHANGED <<refs, lastId, trees, blobs, Fixed>>

UsedTrees == {commits[i].tree : i \in DOMAIN commits}
UsedBlobs == UNION trees

PickTrees ==
    /\ In("trees")
    /\ \E batch \in SUBSET (trees \ UsedTrees) : GcGoto(IF batch = {} THEN "blobs" ELSE "dropTrees", batch)
    /\ UNCHANGED <<refs, rows, Fixed>>

\* the rows a writer references and has not committed are locked: DELETE waits
DropTrees ==
    /\ In("dropTrees")
    /\ \A w \in Writer : At(w, "cas") => writer[w].tree \notin gc.batch
    /\ Sweep(gc.batch, UsedTrees, "trees", "blobs")
    /\ trees' = trees \ Removed(gc.batch, UsedTrees)
    /\ UNCHANGED <<refs, commits, lastId, blobs, Fixed>>

PickBlobs ==
    /\ In("blobs")
    /\ \E batch \in SUBSET (blobs \ UsedBlobs) : GcGoto(IF batch = {} THEN "list" ELSE "dropBlobs", batch)
    /\ UNCHANGED <<refs, rows, Fixed>>

DropBlobs ==
    /\ In("dropBlobs")
    /\ \A w \in Writer : writer[w].ownTree => writer[w].tree \cap gc.batch = {}
    /\ Sweep(gc.batch, UsedBlobs, "blobs", "list")
    /\ blobs' = blobs \ Removed(gc.batch, UsedBlobs)
    /\ UNCHANGED <<refs, commits, lastId, trees, Fixed>>

\* storage.list; the candidates whose key no row knows, and that are old enough
ListObjects ==
    /\ In("list")
    /\ GcGoto("known", objects)
    /\ UNCHANGED <<refs, rows, Fixed>>

KnownObjects ==
    /\ In("known")
    /\ \E old \in SUBSET (gc.batch \ blobs) : GcGoto("sweep", old)
    /\ UNCHANGED <<refs, rows, Fixed>>

DeleteObject ==
    /\ In("sweep")
    /\ \E x \in gc.batch :
          /\ GcGoto("sweep", gc.batch \ {x})
          /\ objects' = objects \ {x}
    /\ UNCHANGED <<refs, rows, writer>>

\* Mutant: the pooled connection keeps the lock
UnlockNever ==
    /\ In("sweep")
    /\ gc.batch = {}
    /\ gc' = [GcIdle EXCEPT !.locked = TRUE]
    /\ UNCHANGED <<refs, rows, Fixed>>

\* the session that collected twice on one client has locked twice
Unlock ==
    /\ In("sweep")
    /\ gc.batch = {}
    /\ gc' = [GcIdle EXCEPT !.locked = gc.leaked, !.leaked = gc.leaked]
    /\ UNCHANGED <<refs, rows, Fixed>>

\* a failed unlock is swallowed, and the client that holds the lock goes back to the pool
UnlockFails ==
    /\ MayLeak
    /\ In("sweep")
    /\ gc.batch = {}
    /\ gc' = [GcIdle EXCEPT !.locked = TRUE, !.leaked = TRUE]
    /\ UNCHANGED <<refs, rows, Fixed>>

\* the pool closes that client, or the connection breaks
LeakEnds == OnLeakedClient /\ gc' = GcIdle /\ UNCHANGED <<refs, rows, Fixed>>

GcCrash == ~In("idle") /\ gc' = GcIdle /\ UNCHANGED <<refs, rows, Fixed>>

-----------------------------------------------------------------------------
WriterStep(w) ==
    \/ Lock(w) \/ EnsureStorage(w) \/ ConfirmStored(w) \/ LoadRef(w) \/ LoadHeads(w)
    \/ InsertBlob(w) \/ FindBlob(w) \/ InsertTree(w) \/ FindTree(w) \/ InsertCommit(w) \/ Cas(w)
GcStep ==
    \/ PickBranches \/ DropBranches \/ PickCommits \/ DropCommits \/ PickTrees \/ DropTrees
    \/ PickBlobs \/ DropBlobs \/ ListObjects \/ KnownObjects \/ DeleteObject \/ Unlock \/ UnlockFails

Next ==
    \/ \E b \in Branch : Fork(b) \/ Discard(b)
    \/ \E x \in Large : TargetPut(x)
    \/ \E w \in Writer : WriterStep(w) \/ WriterCrash(w) \/ \E r \in Ref, x \in Content : Begin(w, r, x)
    \/ GcStart \/ GcStep \/ GcCrash \/ LeakEnds

Spec == Init /\ [][Next]_vars

\* the calls are awaited; Postgres wakes those who wait for a lock, GC's DELETE among
\* them, whenever its holders end
FairSpec == Spec /\ SF_vars(GcStep) /\ \A w \in Writer : SF_vars(WriterStep(w))

-----------------------------------------------------------------------------
(* Properties.                                                             *)

TypeOK ==
    /\ lastId \in 1 .. MaxCommits
    /\ DOMAIN commits \subseteq 1 .. lastId
    /\ \A i \in DOMAIN commits : commits[i] \in [parents : SUBSET (1 .. lastId), tree : SUBSET Content]
    /\ tip \in [Ref -> 0 .. lastId] /\ base \in [Ref -> 0 .. lastId]
    /\ state \in [Ref -> {"absent", "open", "settled"}]
    /\ heads \in [Ref -> SUBSET Content]
    /\ In("dropBranches") => gc.batch \subseteq gc.expired \X Content
    /\ In("dropCommits") => gc.batch \subseteq 1 .. MaxCommits
    /\ In("dropTrees") => gc.batch \subseteq SUBSET Content
    /\ gc.pc \in {"dropBlobs", "known", "sweep"} => gc.batch \subseteq Content
    /\ gc.locked = (~In("idle") \/ gc.leaked)
    /\ trees \subseteq SUBSET Content /\ blobs \subseteq Content /\ objects \subseteq Large

(* GC never takes a row that is still referred to, whatever was referred   *)
(* to while it ran: refs have their commits, commits their parents (an     *)
(* array no foreign key watches) and trees, trees their blobs.  It holds   *)
(* after every batch, so a collector that dies leaves nothing dangling.    *)
NothingDangles ==
    /\ \A r \in Ref : tip[r] # 0 => tip[r] \in DOMAIN commits
    /\ \A i \in DOMAIN commits : commits[i].parents \subseteq DOMAIN commits /\ commits[i].tree \in trees
    /\ \A t \in trees : t \subseteq blobs

(* No data loss: the object of every large blob row is in the store,       *)
(* although the sweep decides on a listing that is old when it deletes.    *)
ObjectsPresent == blobs \cap Large \subseteq objects

(* GC and writers never block each other for good, but for the lock that a *)
(* failed unlock left with a pooled connection: while that one is open, GC *)
(* is skipped and a write of large content waits.  Small content does not. *)
EveryoneEnds ==
    /\ gc.pc # "idle" ~> gc.pc = "idle"
    /\ \A w \in Writer : ~At(w, "idle") ~> At(w, "idle") \/ (At(w, "lock") /\ gc.leaked)

(* tuddo_heads is a derived index: of every branch it is the tree of the   *)
(* tip.                                                                    *)
IndexFollowsTip == \A r \in Ref : tip[r] # 0 => heads[r] = commits[tip[r]].tree

(* InvariantError means that the package violated its own model, not that  *)
(* a writer met the collector: the row that was in the way is still there. *)
NoInvariantError == \A w \in Writer :
    /\ At(w, "findBlob") => writer[w].content \in blobs
    /\ At(w, "findTree") => writer[w].tree \in trees
=============================================================================
