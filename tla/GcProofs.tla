------------------------------ MODULE GcProofs ------------------------------
(***************************************************************************)
(* The collector takes no row and no object that is in use, for any number *)
(* of writers, branches and contents: proofs about Gc.  The invariant has  *)
(* four parts, each proved with the ones before it: the types and the room *)
(* left for ids; the advisory lock and the objects it protects; what the   *)
(* refs say; the rows.  Each part has a step per action.                   *)
(***************************************************************************)
EXTENDS Gc, FiniteSetTheorems, TLAPS

USE DEF At, Goto, In, refs, rows, Tables, Fixed

-----------------------------------------------------------------------------
(* The inductive invariant.                                                *)

Pc == {"idle", "lock", "store", "load", "heads", "blob", "findBlob", "tree", "findTree", "commit", "cas"}
Ends == {"none", "ok", "notFound", "settled", "conflict", "storage", "foreignKey", "invariant", "lost"}
Record == [pc : Pc, ref : Ref, content : Content \cup {NoContent}, expected : Nat,
           tree : SUBSET Content, ownBlob : BOOLEAN, ownTree : BOOLEAN]
GcPc == {"idle", "branches", "dropBranches", "commits", "dropCommits", "trees", "dropTrees",
         "blobs", "dropBlobs", "list", "known", "sweep"}

\* a call that is not idle has a content, whose object it stores if it is large
WriterTypes ==
    /\ writer \in [Writer -> Record]
    /\ \A w \in Writer : ~At(w, "idle") => writer[w].content \in Content
    /\ \A w \in Writer : At(w, "idle") => writer[w].content = NoContent
    /\ \A w \in Writer : writer[w].pc \in {"lock", "store"} => writer[w].content \in Large

\* the batch is a set of what the phase deletes: TypeOK says which
GcTypes ==
    /\ gc \in [pc : GcPc, locked : BOOLEAN, leaked : BOOLEAN, young : SUBSET (1 .. MaxCommits), expired : SUBSET Branch,
               batch : {gc.batch}]
    /\ gc.pc \in {"known", "sweep"} => gc.batch \subseteq Large

\* every call in flight can still be given an id
Room == lastId + Cardinality(InFlight) <= MaxCommits

Types == TypeOK /\ WriterTypes /\ GcTypes /\ Room

\* the advisory lock: while GC runs no call is past it with a large content
LockExcludes ==
    /\ ~In("idle") => gc.locked
    /\ ~In("idle") => \A w \in Writer : ~Sharing(w)

\* a call that has its large content stored finds it stored when it commits
StoredStays ==
    \A w \in Writer : writer[w].content \in Large /\ writer[w].pc \notin {"lock", "store"} =>
                          writer[w].content \in objects
OwnBlobLater == \A w \in Writer : writer[w].ownBlob => ~At(w, "idle") /\ writer[w].pc \notin {"lock", "store"}
SweepSpares == In("sweep") => gc.batch \cap blobs = {}

Objects == LockExcludes /\ StoredStays /\ OwnBlobLater /\ SweepSpares /\ ObjectsPresent

\* an open ref has a tip; the mount is never given up; a writer expects a commit
RefStates ==
    /\ tip[Mount] # 0
    /\ \A r \in Ref : state[r] = "open" => tip[r] # 0
    /\ \A w \in Writer : writer[w].pc \notin {"idle", "lock", "store", "load"} => writer[w].expected # 0

\* the commits a call has inserted against stay: their tree is new, or is locked by then
WriterRows ==
    \A w \in Writer :
        /\ writer[w].ownTree => writer[w].pc \in {"commit", "cas"} /\ writer[w].tree \subseteq blobs \cup OwnBlobs(writer[w])
        /\ At(w, "cas") /\ ~writer[w].ownTree => writer[w].tree \in trees

\* a branch was forked off the history of the mount
BasesReachable == \A r \in Ref : base[r] # 0 => base[r] \in Closure({tip[Mount]})

\* what stays when a batch is deleted refers to nothing in it
BatchApart ==
    In("dropCommits") =>
        /\ gc.batch \subseteq DOMAIN commits /\ gc.batch \cap Referenced = {}
        /\ \A i \in DOMAIN commits \ gc.batch : commits[i].parents \cap gc.batch = {}

Rows == NothingDangles /\ WriterRows /\ BasesReachable /\ BatchApart

Inv == Types /\ Objects /\ RefStates /\ Rows

-----------------------------------------------------------------------------
(* Types.                                                                  *)

LEMMA IdleFields ==
  /\ Idle \in Record
  /\ Idle.pc = "idle" /\ Idle.content = NoContent /\ ~Idle.ownBlob /\ ~Idle.ownTree
  BY GcAssumption DEF Idle, Record, Pc, Ref, Ends

\* what End does, without its EXCEPT
Over(w) ==
    /\ writer' \in [Writer -> Record]
    /\ At(w, "idle")' /\ writer'[w].content = NoContent /\ ~writer'[w].ownBlob /\ ~writer'[w].ownTree
    /\ \A v \in Writer : v # w => writer'[v] = writer[v]

LEMMA EndIsOver ==
  ASSUME WriterTypes, NEW w \in Writer, NEW how \in Ends, End(w, how)
  PROVE  Over(w)
<1> DEFINE over == Idle
<1>1. over \in Record
  BY IdleFields DEF Record
<1>2. over.pc = Idle.pc /\ over.content = Idle.content /\ over.ownBlob = Idle.ownBlob /\ over.ownTree = Idle.ownTree
  BY IdleFields DEF Record
<1>3. writer' = [writer EXCEPT ![w] = over]
  BY DEF End
<1> HIDE DEF over
<1> QED
  BY <1>1, <1>2, <1>3, IdleFields DEF Over, WriterTypes

\* the collector is over, the lock released or left with a pooled connection
GcOver ==
    /\ gc'.pc = "idle" /\ gc'.batch = {} /\ gc'.locked = gc'.leaked
    /\ gc' \in [pc : GcPc, locked : BOOLEAN, leaked : BOOLEAN, young : SUBSET (1 .. MaxCommits),
                expired : SUBSET Branch, batch : {{}}]

LEMMA GcIdleFields ==
  /\ GcIdle.pc = "idle" /\ GcIdle.batch = {} /\ ~GcIdle.locked /\ ~GcIdle.leaked
  /\ GcIdle \in [pc : GcPc, locked : BOOLEAN, leaked : BOOLEAN, young : SUBSET (1 .. MaxCommits),
                 expired : SUBSET Branch, batch : {{}}]
  BY DEF GcIdle, GcPc

LEMMA GcEnds ==
  ASSUME GcTypes, GcCrash \/ Unlock \/ UnlockFails \/ LeakEnds
  PROVE  GcOver /\ UNCHANGED <<refs, rows, objects, writer>>
<1>0. gc.leaked \in BOOLEAN
  BY DEF GcTypes
<1>1. CASE GcCrash \/ LeakEnds
  BY <1>1, GcIdleFields DEF GcCrash, LeakEnds, GcOver, Fixed
<1>2. CASE Unlock
  <2>1. gc' = [GcIdle EXCEPT !.locked = gc.leaked, !.leaked = gc.leaked]
    BY <1>2 DEF Unlock
  <2>2. gc'.locked = gc.leaked /\ gc'.leaked = gc.leaked
    BY <1>0, <2>1, GcIdleFields
  <2>3. /\ gc'.pc = "idle" /\ gc'.batch = {}
        /\ gc' \in [pc : GcPc, locked : BOOLEAN, leaked : BOOLEAN, young : SUBSET (1 .. MaxCommits),
                    expired : SUBSET Branch, batch : {{}}]
    BY <1>0, <2>1, GcIdleFields
  <2> QED
    BY <1>2, <2>2, <2>3 DEF Unlock, GcOver, Fixed
<1>3. CASE UnlockFails
  <2>1. gc' = [GcIdle EXCEPT !.locked = TRUE, !.leaked = TRUE]
    BY <1>3 DEF UnlockFails
  <2>2. gc'.locked = TRUE /\ gc'.leaked = TRUE
    BY <2>1, GcIdleFields
  <2>3. /\ gc'.pc = "idle" /\ gc'.batch = {}
        /\ gc' \in [pc : GcPc, locked : BOOLEAN, leaked : BOOLEAN, young : SUBSET (1 .. MaxCommits),
                    expired : SUBSET Branch, batch : {{}}]
    BY <2>1, GcIdleFields
  <2> QED
    BY <1>3, <2>2, <2>3 DEF UnlockFails, GcOver, Fixed
<1> QED
  BY <1>1, <1>2, <1>3

LEMMA InitInv == Init => Inv
<1> SUFFICES ASSUME Init PROVE Inv
  OBVIOUS
<1>1. \A w \in Writer : writer[w] = Idle
  BY DEF Init
<1>2. InFlight = {}
  BY <1>1, IdleFields DEF InFlight
<1>3. Types
  <2>1. Room
    BY <1>2, FS_EmptySet, GcAssumption DEF Init, Room
  <2>2. WriterTypes
    BY <1>1, IdleFields DEF Init, WriterTypes
  <2>4. gc.locked = (~In("idle") \/ gc.leaked)
    BY GcIdleFields DEF Init
  <2>3. TypeOK /\ GcTypes
    BY <2>4, GcIdleFields, GcAssumption DEF Init, TypeOK, GcTypes, GcPc, Ref
  <2> QED
    BY <2>1, <2>2, <2>3 DEF Types
<1>4. Objects
  BY <1>1, IdleFields, GcAssumption DEF Init, GcIdle, Objects, LockExcludes, StoredStays, OwnBlobLater, SweepSpares,
     ObjectsPresent, Sharing, Content
<1>5. RefStates
  BY <1>1, IdleFields DEF Init, RefStates, Ref
<1>6. Rows
  <2>1. NothingDangles
    BY DEF Init, NothingDangles
  <2>2. WriterRows
    BY <1>1, IdleFields DEF WriterRows
  <2>3. BasesReachable /\ BatchApart
    BY DEF Init, GcIdle, BasesReachable, BatchApart
  <2> QED
    BY <2>1, <2>2, <2>3 DEF Rows
<1> QED
  BY <1>3, <1>4, <1>5, <1>6 DEF Inv

\* a call that moves on without a commit: the tables stay
LEMMA MoveTypes ==
  ASSUME Types, NEW w \in Writer, NEW k, Goto(w, k), UNCHANGED Tables, objects' \subseteq Large,
         k \in Record, k.pc # "idle", k.content \in Content, k.pc \in {"lock", "store"} => k.content \in Large,
         ~At(w, "idle")
  PROVE  Types'
<1> USE DEF Types
<1>1. TypeOK'
  BY DEF TypeOK
<1>2. WriterTypes'
  BY DEF WriterTypes
<1>3. GcTypes'
  BY DEF GcTypes
<1>4. InFlight' = InFlight
  BY DEF InFlight, WriterTypes
<1>5. Room'
  BY <1>4 DEF Room
<1> QED
  BY <1>1, <1>2, <1>3, <1>5

\* a call that is over leaves room for another
LEMMA FewerInFlight ==
  ASSUME WriterTypes, NEW w \in Writer, ~At(w, "idle"), Over(w)
  PROVE  /\ InFlight' = InFlight \ {w}
         /\ Cardinality(InFlight') = Cardinality(InFlight) - 1
         /\ Cardinality(InFlight) \in Nat /\ Cardinality(InFlight') \in Nat
<1>1. IsFiniteSet(InFlight) /\ w \in InFlight
  BY GcAssumption, FS_Subset DEF InFlight
<1>2. InFlight' = InFlight \ {w}
  BY DEF InFlight, Over
<1> QED
  BY <1>1, <1>2, FS_RemoveElement, FS_CardinalityType

LEMMA EndTypes ==
  ASSUME Types, NEW w \in Writer, ~At(w, "idle"), Over(w)
  PROVE  /\ WriterTypes'
         /\ UNCHANGED <<Tables, objects>> => Types'
<1> USE DEF Types
<1>1. WriterTypes'
  BY GcAssumption DEF WriterTypes, Over
<1>2. ASSUME UNCHANGED <<Tables, objects>> PROVE TypeOK' /\ GcTypes'
  BY <1>2 DEF TypeOK, GcTypes
<1>3. ASSUME UNCHANGED <<Tables, objects>> PROVE Room'
  BY <1>3, FewerInFlight, GcAssumption DEF Room, TypeOK
<1> QED
  BY <1>1, <1>2, <1>3

LEMMA BeginMoves ==
  ASSUME WriterTypes, NEW w \in Writer, NEW r \in Ref, NEW x \in Content, Begin(w, r, x)
  PROVE  /\ writer' \in [Writer -> Record]
         /\ writer'[w].content = x /\ writer'[w].pc = IF x \in Large THEN "lock" ELSE "load"
         /\ ~writer'[w].ownBlob /\ ~writer'[w].ownTree
         /\ \A v \in Writer : v # w => writer'[v] = writer[v]
<1> DEFINE k == [Idle EXCEPT !.pc = IF x \in Large THEN "lock" ELSE "load", !.ref = r, !.content = x]
<1>1. /\ k \in Record /\ k.content = x
      /\ k.pc = IF x \in Large THEN "lock" ELSE "load"
      /\ k.ownBlob = Idle.ownBlob /\ k.ownTree = Idle.ownTree
  BY IdleFields DEF Record, Pc
<1>2. writer' = [writer EXCEPT ![w] = k]
  BY DEF Begin
<1> HIDE DEF k
<1> QED
  BY <1>1, <1>2, IdleFields DEF WriterTypes

LEMMA BeginTypes ==
  ASSUME Types, NEW w \in Writer, NEW r \in Ref, NEW x \in Content, Begin(w, r, x)
  PROVE  Types'
<1> USE DEF Types
<1>1. TypeOK' /\ GcTypes'
  BY DEF Begin, TypeOK, GcTypes
<1>2. WriterTypes'
  BY BeginMoves DEF WriterTypes
<1>3. IsFiniteSet(InFlight)
  BY GcAssumption, FS_Subset DEF InFlight
<1>4. InFlight' = InFlight \cup {w} /\ w \notin InFlight
  <2>1. writer'[w].pc # "idle" /\ \A v \in Writer : v # w => writer'[v] = writer[v]
    BY BeginMoves
  <2> QED
    BY <2>1 DEF Begin, InFlight
<1>5. Cardinality(InFlight') = Cardinality(InFlight) + 1
  BY <1>3, <1>4, FS_AddElement
<1>6. Cardinality(InFlight) \in Nat /\ lastId \in Nat /\ MaxCommits \in Nat
  BY <1>3, FS_CardinalityType, GcAssumption DEF TypeOK
<1>7. Room'
  BY <1>5, <1>6 DEF Begin, Room
<1> QED
  BY <1>1, <1>2, <1>7

LEMMA CasTypes ==
  ASSUME Types, RefStates, NEW w \in Writer, Cas(w)
  PROVE  Types'
<1> DEFINE k == writer[w]
<1>1. CASE tip[k.ref] # k.expected
  <2>1. End(w, "conflict") /\ UNCHANGED <<Tables, objects>> /\ ~At(w, "idle")
    BY <1>1 DEF Cas
  <2>2. Over(w)
    BY <2>1, EndIsOver DEF Types, Ends
  <2> QED
    BY <2>1, <2>2, EndTypes
<1>2. CASE tip[k.ref] = k.expected
  <2> USE DEF Types
  <2>1. ~At(w, "idle") /\ Over(w) /\ k \in Record /\ k.content \in Content
    BY <1>2, EndIsOver DEF Cas, WriterTypes, Ends
  <2>2. WriterTypes' /\ GcTypes'
    BY <1>2, <2>1, EndTypes DEF Cas, GcTypes
  <2>3. Room'
    BY <1>2, <2>1, FewerInFlight, GcAssumption DEF Cas, Room, TypeOK
  <2>4. lastId' = lastId + 1 /\ lastId' \in 1 .. MaxCommits
    BY <1>2, <2>1, FewerInFlight, GcAssumption DEF Cas, Room, TypeOK
  <2>5. OwnBlobs(k) \subseteq Content
    BY <2>1 DEF OwnBlobs
  <2>6. k.ref \in Ref /\ k.expected \in 1 .. lastId /\ k.tree \subseteq Content
    BY <1>2, <2>1 DEF Record, TypeOK, RefStates, Cas
  <2>7. /\ DOMAIN commits' \subseteq 1 .. lastId'
        /\ \A i \in DOMAIN commits' : commits'[i] \in [parents : SUBSET (1 .. lastId'), tree : SUBSET Content]
    BY <1>2, <2>4, <2>6 DEF Cas, TypeOK
  <2>8. UNCHANGED <<base, state, objects, gc>> /\ tip' \in [Ref -> 0 .. lastId'] /\ heads' \in [Ref -> SUBSET Content]
    BY <1>2, <2>1, <2>4, <2>6 DEF Cas, TypeOK
  <2>9. trees' \subseteq SUBSET Content /\ blobs' \subseteq Content
    BY <1>2, <2>5, <2>6 DEF Cas, TypeOK
  <2>10. TypeOK'
    BY <2>4, <2>7, <2>8, <2>9 DEF TypeOK
  <2> QED
    BY <2>2, <2>3, <2>10
<1> QED
  BY <1>1, <1>2

LEMMA WriterStepTypes ==
  ASSUME Types, RefStates, NEW w \in Writer, WriterStep(w)
  PROVE  Types'
<1> DEFINE k == writer[w]
<1>k. ~At(w, "idle") => k \in Record /\ k.content \in Content
  BY DEF Types, WriterTypes
<1>l. k.pc \in {"lock", "store"} => k.content \in Large
  BY DEF Types, WriterTypes
<1>o. objects \subseteq Large /\ tip \in [Ref -> Nat] /\ heads \in [Ref -> SUBSET Content]
  BY DEF Types, TypeOK
<1>e. ASSUME NEW how \in Ends, ~At(w, "idle"), End(w, how), UNCHANGED <<Tables, objects>> PROVE Types'
  BY <1>e, EndIsOver, EndTypes DEF Types
<1>m. ASSUME NEW x \in Record, ~At(w, "idle"), Goto(w, x), UNCHANGED Tables, objects' \subseteq Large,
             x.content = k.content, x.pc \notin {"idle", "lock"}, x.pc = "store" => k.content \in Large
      PROVE  Types'
  BY <1>m, <1>k, MoveTypes
<1>1. CASE Lock(w)
  BY <1>1, <1>k, <1>l, <1>o, <1>m DEF Lock, Record, Pc
<1>2. CASE EnsureStorage(w)
  <2>1. objects' \subseteq Large
    BY <1>2, <1>l, <1>o DEF EnsureStorage
  <2> QED
    BY <1>2, <2>1, <1>k, <1>m DEF EnsureStorage, Record, Pc
<1>3. CASE ConfirmStored(w)
  BY <1>3, <1>k, <1>o, <1>m, <1>e DEF ConfirmStored, Record, Pc, Ends
<1>4. CASE LoadHeads(w)
  <2> DEFINE x == [k EXCEPT !.pc = "blob", !.tree = heads[k.ref] \cup {k.content}]
  <2>1. ~At(w, "idle") /\ UNCHANGED <<Tables, objects>>
    BY <1>4 DEF LoadHeads
  <2>2. x \in Record /\ x.content = k.content /\ x.pc = "blob"
    BY <2>1, <1>k, <1>o DEF Record, Pc
  <2>3. Goto(w, x) \/ \E how \in Ends : End(w, how)
    BY <1>4 DEF LoadHeads, Ends
  <2> QED
    BY <2>1, <2>2, <2>3, <1>o, <1>m, <1>e
<1>11. CASE LoadRef(w)
  <2> DEFINE x == [k EXCEPT !.pc = "heads", !.expected = tip[k.ref]]
  <2>1. ~At(w, "idle") /\ UNCHANGED <<Tables, objects>>
    BY <1>11 DEF LoadRef
  <2>2. x \in Record /\ x.content = k.content /\ x.pc = "heads"
    BY <2>1, <1>k, <1>o DEF Record, Pc
  <2>3. Goto(w, x) \/ \E how \in Ends : End(w, how)
    BY <1>11 DEF LoadRef, Ends
  <2> QED
    BY <2>1, <2>2, <2>3, <1>o, <1>m, <1>e
<1>5. CASE InsertBlob(w)
  BY <1>5, <1>k, <1>o, <1>m DEF InsertBlob, Record, Pc
<1>6. CASE FindBlob(w)
  BY <1>6, <1>k, <1>o, <1>m, <1>e DEF FindBlob, Record, Pc, Ends
<1>7. CASE InsertTree(w)
  BY <1>7, <1>k, <1>o, <1>m, <1>e DEF InsertTree, Record, Pc, Ends
<1>8. CASE FindTree(w)
  BY <1>8, <1>k, <1>o, <1>m, <1>e DEF FindTree, Record, Pc, Ends
<1>9. CASE InsertCommit(w)
  BY <1>9, <1>k, <1>o, <1>m, <1>e DEF InsertCommit, Record, Pc, Ends
<1>10. CASE Cas(w)
  BY <1>10, CasTypes
<1> QED
  BY <1>1, <1>2, <1>3, <1>4, <1>5, <1>6, <1>7, <1>8, <1>9, <1>10, <1>11 DEF WriterStep

\* what the proofs use of GcGoto, without its EXCEPT
GcAt(pc, batch) ==
    /\ gc' \in [pc : GcPc, locked : BOOLEAN, leaked : BOOLEAN, young : SUBSET (1 .. MaxCommits), expired : SUBSET Branch,
                batch : {batch}]
    /\ gc'.pc = pc /\ gc'.batch = batch
    /\ gc'.locked = gc.locked /\ gc'.leaked = gc.leaked /\ gc'.expired = gc.expired

LEMMA GcGoes ==
  ASSUME GcTypes, NEW pc \in GcPc, NEW batch, GcGoto(pc, batch)
  PROVE  GcAt(pc, batch)
<1> DEFINE young == IF pc = "trees" THEN {} ELSE gc.young
<1>1. young \in SUBSET (1 .. MaxCommits)
  BY DEF GcTypes
<1>2. gc' = [gc EXCEPT !.pc = pc, !.batch = batch, !.young = young]
  BY DEF GcGoto
<1> HIDE DEF young
<1> QED
  BY <1>1, <1>2 DEF GcTypes, GcAt

\* the ids, the commits and the calls stay
LEMMA GcStepTypes ==
  ASSUME Types, GcStart \/ GcStep \/ GcCrash \/ LeakEnds
  PROVE  Types'
<1> USE DEF Types
<1>1. UNCHANGED <<lastId, writer>>
  BY DEF GcStart, GcStep, GcCrash, PickBranches, DropBranches, PickCommits, DropCommits, PickTrees, DropTrees,
     PickBlobs, DropBlobs, ListObjects, KnownObjects, DeleteObject, Unlock, UnlockFails, LeakEnds, Sweep
<1>2. WriterTypes' /\ Room'
  BY <1>1 DEF WriterTypes, Room, InFlight
<1>3. TypeOK' /\ GcTypes'
  <2> USE DEF TypeOK, GcTypes, GcPc
  <2>1. CASE GcStart
    <3>1. PICK young \in SUBSET (1 .. MaxCommits), expired \in SUBSET {b \in Branch : state[b] = "settled"} :
            gc' = [gc EXCEPT !.pc = "branches", !.locked = TRUE, !.young = young, !.expired = expired]
      BY <2>1 DEF GcStart
    <3>2. gc'.pc = "branches" /\ gc'.locked /\ gc' \in
            [pc : GcPc, locked : BOOLEAN, leaked : BOOLEAN, young : SUBSET (1 .. MaxCommits), expired : SUBSET Branch,
             batch : {gc.batch}]
      BY <3>1
    <3>3. gc'.batch = gc.batch
      BY <3>2
    <3> QED
      BY <2>1, <3>2, <3>3 DEF GcStart
  <2>2. CASE GcCrash
    BY <2>2, GcAssumption DEF GcCrash, GcIdle
  <2>3. CASE PickBranches
    BY <2>3, GcGoes DEF PickBranches, GcAt
  <2>4. CASE DropBranches
    <3>1. tip' \in [Ref -> 0 .. lastId] /\ base' \in [Ref -> 0 .. lastId]
      BY <2>4 DEF DropBranches
    <3>2. state' \in [Ref -> {"absent", "open", "settled"}] /\ heads' \in [Ref -> SUBSET Content]
      BY <2>4 DEF DropBranches
    <3> QED
      BY <2>4, <3>1, <3>2 DEF DropBranches
  <2>5. CASE PickCommits
    <3>1. Doomed \subseteq 1 .. MaxCommits
      BY GcAssumption DEF Doomed
    <3> QED
      BY <2>5, <3>1, GcGoes DEF PickCommits, GcAt
  <2>6. CASE DropCommits
    BY <2>6, GcGoes DEF DropCommits, Sweep, GcAt
  <2>7. CASE PickTrees
    BY <2>7, GcGoes DEF PickTrees, GcAt
  <2>8. CASE DropTrees
    BY <2>8, GcGoes DEF DropTrees, Sweep, GcAt
  <2>9. CASE PickBlobs
    BY <2>9, GcGoes DEF PickBlobs, GcAt
  <2>10. CASE DropBlobs
    BY <2>10, GcGoes DEF DropBlobs, Sweep, GcAt
  <2>11. CASE ListObjects
    BY <2>11, GcGoes DEF ListObjects, GcAt, Content
  <2>12. CASE KnownObjects
    BY <2>12, GcGoes DEF KnownObjects, GcAt
  <2>13. CASE DeleteObject
    BY <2>13, GcGoes DEF DeleteObject, GcAt
  <2>14. CASE Unlock \/ UnlockFails \/ LeakEnds
    <3>1. GcOver /\ UNCHANGED <<refs, rows, objects, writer>>
      BY <2>14, GcEnds
    <3> QED
      BY <3>1 DEF GcOver, refs, rows
  <2> QED
    BY <2>1, <2>2, <2>3, <2>4, <2>5, <2>6, <2>7, <2>8, <2>9, <2>10, <2>11, <2>12, <2>13, <2>14 DEF GcStep
<1> QED
  BY <1>2, <1>3

LEMMA SessionTypes ==
  ASSUME Types, RefStates, NothingDangles, (\E b \in Branch : Fork(b) \/ Discard(b)) \/ (\E x \in Large : TargetPut(x))
  PROVE  Types'
<1> USE DEF Types, TypeOK
<1>1. UNCHANGED <<rows, writer, gc>>
  BY DEF Fork, Discard, TargetPut
<1>2. WriterTypes' /\ GcTypes' /\ Room'
  BY <1>1 DEF WriterTypes, GcTypes, Room, InFlight
<1>3. ASSUME NEW b \in Branch, Fork(b) PROVE TypeOK'
  <2>1. tip[Mount] \in DOMAIN commits => commits[tip[Mount]].tree \subseteq Content
    OBVIOUS
  <2>2. tip' \in [Ref -> 0 .. lastId] /\ base' \in [Ref -> 0 .. lastId]
    BY <1>3 DEF Fork, Ref
  <2>3. state' \in [Ref -> {"absent", "open", "settled"}] /\ heads' \in [Ref -> SUBSET Content]
    BY <1>3, <2>1 DEF Fork, Ref, NothingDangles, RefStates
  <2> QED
    BY <1>1, <1>3, <2>2, <2>3 DEF Fork
<1>4. ASSUME NEW b \in Branch, Discard(b) PROVE TypeOK'
  <2>1. state' \in [Ref -> {"absent", "open", "settled"}] /\ UNCHANGED <<tip, base, heads, objects>>
    BY <1>4 DEF Discard, Ref
  <2> QED
    BY <1>1, <2>1
<1>5. ASSUME NEW x \in Large, TargetPut(x) PROVE TypeOK'
  BY <1>1, <1>5 DEF TargetPut
<1> QED
  BY <1>2, <1>3, <1>4, <1>5

LEMMA CrashTypes ==
  ASSUME Types, NEW w \in Writer, WriterCrash(w)
  PROVE  Types' /\ Over(w)
  BY EndIsOver, EndTypes DEF WriterCrash, Types, Ends

-----------------------------------------------------------------------------
(* The advisory lock, and the objects it protects.                         *)

LEMMA MoveObjects ==
  ASSUME Types, Objects, NEW w \in Writer, NEW k \in Record, Goto(w, k), UNCHANGED Tables, objects \subseteq objects',
         k.content = writer[w].content,
         Sharing(w) \/ In("idle") \/ k.content \notin Large,
         k.content \in Large /\ k.pc \notin {"lock", "store"} => k.content \in objects',
         k.ownBlob => k.pc \notin {"idle", "lock", "store"}
  PROVE  Objects'
<1>1. writer'[w] = k /\ \A v \in Writer : v # w => writer'[v] = writer[v]
  BY DEF Types, WriterTypes
<1>2. LockExcludes'
  BY <1>1 DEF Objects, LockExcludes, Sharing
<1>3. StoredStays' /\ OwnBlobLater'
  BY <1>1 DEF Objects, StoredStays, OwnBlobLater
<1>4. SweepSpares' /\ ObjectsPresent'
  BY DEF Objects, SweepSpares, ObjectsPresent
<1> QED
  BY <1>2, <1>3, <1>4 DEF Objects

\* a call that is over shares nothing
LEMMA OverObjects ==
  ASSUME Objects, NEW w \in Writer, Over(w), UNCHANGED gc
  PROVE  /\ LockExcludes' /\ OwnBlobLater'
         /\ UNCHANGED <<Tables, objects>> => Objects'
<1> USE DEF Objects
<1>1. NoContent \notin Large
  BY GcAssumption DEF Content
<1>2. LockExcludes' /\ OwnBlobLater'
  BY <1>1 DEF Over, LockExcludes, Sharing, OwnBlobLater
<1>3. ASSUME UNCHANGED <<Tables, objects>> PROVE Objects'
  BY <1>1, <1>2, <1>3 DEF Over, StoredStays, SweepSpares, ObjectsPresent
<1> QED
  BY <1>2, <1>3

LEMMA CasObjects ==
  ASSUME Types, Objects, NEW w \in Writer, Cas(w)
  PROVE  Objects'
<1> DEFINE k == writer[w]
<1>1. \E how \in Ends : End(w, how)
  BY DEF Cas, Ends
<1>2. Over(w) /\ UNCHANGED <<objects, gc>>
  BY <1>1, EndIsOver DEF Cas, Types
<1>3. LockExcludes' /\ OwnBlobLater'
  BY <1>2, OverObjects
<1>4. k.content \in Large => Sharing(w) /\ k.content \in objects
  BY DEF Objects, StoredStays, Sharing, Cas
<1>5. StoredStays'
  BY <1>2, GcAssumption DEF Objects, StoredStays, Over, Content
<1>6. SweepSpares'
  <2>1. ASSUME In("sweep") PROVE k.content \notin Large
    BY <1>4, <2>1 DEF Objects, LockExcludes
  <2>2. In("sweep") => gc.batch \subseteq Large
    BY DEF Types, GcTypes
  <2> QED
    BY <1>2, <2>1, <2>2 DEF Objects, SweepSpares, Cas, OwnBlobs
<1>7. ObjectsPresent'
  BY <1>2, <1>4 DEF Objects, ObjectsPresent, Cas, OwnBlobs
<1> QED
  BY <1>3, <1>5, <1>6, <1>7 DEF Objects

LEMMA WriterObjects ==
  ASSUME Types, Objects, NEW w \in Writer, WriterStep(w)
  PROVE  Objects'
<1> DEFINE k == writer[w]
<1>k. k \in Record /\ (k.pc \in {"lock", "store"} => k.content \in Large)
  BY DEF Types, WriterTypes
<1>t. tip \in [Ref -> Nat] /\ heads \in [Ref -> SUBSET Content]
  BY DEF Types, TypeOK
<1>o. /\ k.content \in Large /\ k.pc \notin {"lock", "store"} => k.content \in objects
      /\ k.ownBlob => k.pc \notin {"idle", "lock", "store"}
      /\ k.content \in Large /\ ~At(w, "lock") => Sharing(w)
  BY DEF Objects, StoredStays, OwnBlobLater, Sharing
<1>e. ASSUME NEW how \in Ends, End(w, how), UNCHANGED <<Tables, objects>> PROVE Objects'
  BY <1>e, EndIsOver, OverObjects DEF Types
\* a step past the stores of the object
<1>m. ASSUME NEW x \in Record, k.pc \notin {"lock", "store"}, Goto(w, x), UNCHANGED <<Tables, objects>>,
             x.content = k.content, x.pc \notin {"idle", "lock", "store"}
      PROVE  Objects'
  BY <1>m, <1>o, MoveObjects
<1>1. CASE Lock(w)
  <2>1. k.ownBlob = FALSE
    BY <1>1, <1>o, <1>k DEF Lock, Record
  <2> DEFINE x == [k EXCEPT !.pc = "store"]
  <2>2. x \in Record /\ x.content = k.content /\ x.pc = "store" /\ x.ownBlob = FALSE
    BY <1>k, <2>1 DEF Record, Pc
  <2>3. In("idle")
    BY <1>1 DEF Lock, OnLeakedClient, Objects, LockExcludes
  <2> QED
    BY <1>1, <2>2, <2>3, MoveObjects DEF Lock
<1>2. ASSUME At(w, "store"), objects \subseteq objects', k.content \in objects', UNCHANGED Tables,
             Goto(w, [k EXCEPT !.pc = "load"])
      PROVE  Objects'
  <2> DEFINE x == [k EXCEPT !.pc = "load"]
  <2>1. x \in Record /\ x.content = k.content /\ x.pc = "load" /\ x.ownBlob = FALSE
    BY <1>2, <1>k, <1>o DEF Record, Pc
  <2> QED
    BY <1>2, <1>k, <1>o, <2>1, MoveObjects
<1>3. CASE EnsureStorage(w) \/ ConfirmStored(w)
  BY <1>3, <1>2, <1>e DEF EnsureStorage, ConfirmStored, Ends
<1>4. CASE LoadHeads(w)
  <2> DEFINE x == [k EXCEPT !.pc = "blob", !.tree = heads[k.ref] \cup {k.content}]
  <2>1. At(w, "heads") /\ UNCHANGED <<Tables, objects>>
    BY <1>4 DEF LoadHeads
  <2>2. k.content \in Content
    BY <2>1 DEF Types, WriterTypes
  <2>3. x \in Record /\ x.content = k.content /\ x.pc = "blob"
    BY <1>k, <1>t, <2>2 DEF Record, Pc
  <2>4. Goto(w, x) \/ \E how \in Ends : End(w, how)
    BY <1>4 DEF LoadHeads, Ends
  <2> QED
    BY <2>1, <2>3, <2>4, <1>m, <1>e
<1>11. CASE LoadRef(w)
  <2> DEFINE x == [k EXCEPT !.pc = "heads", !.expected = tip[k.ref]]
  <2>1. At(w, "load") /\ UNCHANGED <<Tables, objects>>
    BY <1>11 DEF LoadRef
  <2>2. x \in Record /\ x.content = k.content /\ x.pc = "heads"
    BY <1>k, <1>t DEF Record, Pc
  <2>3. Goto(w, x) \/ \E how \in Ends : End(w, how)
    BY <1>11 DEF LoadRef, Ends
  <2> QED
    BY <2>1, <2>2, <2>3, <1>m, <1>e
<1>5. CASE InsertBlob(w)
  BY <1>5, <1>k, <1>m DEF InsertBlob, Record, Pc
<1>6. CASE FindBlob(w)
  BY <1>6, <1>k, <1>m, <1>e DEF FindBlob, Record, Pc, Ends
<1>7. CASE InsertTree(w)
  BY <1>7, <1>k, <1>m, <1>e DEF InsertTree, Record, Pc, Ends
<1>8. CASE FindTree(w)
  BY <1>8, <1>k, <1>m, <1>e DEF FindTree, Record, Pc, Ends
<1>9. CASE InsertCommit(w)
  BY <1>9, <1>k, <1>m, <1>e DEF InsertCommit, Record, Pc, Ends
<1>10. CASE Cas(w)
  BY <1>10, CasObjects
<1> QED
  BY <1>1, <1>3, <1>4, <1>5, <1>6, <1>7, <1>8, <1>9, <1>10, <1>11 DEF WriterStep

LEMMA BeginObjects ==
  ASSUME Types, Objects, NEW w \in Writer, NEW r \in Ref, NEW x \in Content, Begin(w, r, x)
  PROVE  Objects'
<1> USE DEF Types, Objects
<1>1. UNCHANGED <<Tables, objects>>
  BY DEF Begin
<1>2. LockExcludes'
  BY <1>1, BeginMoves DEF LockExcludes, Sharing
<1>3. StoredStays' /\ OwnBlobLater'
  BY <1>1, BeginMoves DEF StoredStays, OwnBlobLater
<1>4. SweepSpares' /\ ObjectsPresent'
  BY <1>1 DEF SweepSpares, ObjectsPresent
<1> QED
  BY <1>2, <1>3, <1>4

LEMMA SessionObjects ==
  ASSUME Objects, (\E b \in Branch : Fork(b) \/ Discard(b)) \/ (\E x \in Large : TargetPut(x))
  PROVE  Objects'
<1>1. UNCHANGED <<rows, writer, gc>> /\ objects \subseteq objects'
  BY DEF Fork, Discard, TargetPut
<1> QED
  BY <1>1 DEF Objects, LockExcludes, Sharing, StoredStays, OwnBlobLater, SweepSpares, ObjectsPresent

LEMMA GcObjects ==
  ASSUME Types, Objects, GcStart \/ GcStep \/ GcCrash \/ LeakEnds
  PROVE  Objects'
<1> USE DEF Types, Objects
<1>1. writer' = writer
  BY DEF GcStart, GcStep, GcCrash, PickBranches, DropBranches, PickCommits, DropCommits, PickTrees, DropTrees,
     PickBlobs, DropBlobs, ListObjects, KnownObjects, DeleteObject, Unlock, UnlockFails, LeakEnds
<1>2. OwnBlobLater'
  BY <1>1 DEF OwnBlobLater
<1>3. blobs' \subseteq blobs
  BY DEF GcStart, GcStep, GcCrash, PickBranches, DropBranches, PickCommits, DropCommits, PickTrees, DropTrees,
     PickBlobs, DropBlobs, ListObjects, KnownObjects, DeleteObject, Unlock, UnlockFails, LeakEnds
\* the collector goes on, and deletes no object
<1>4. ASSUME gc'.locked = gc.locked, ~In("idle"), UNCHANGED objects, SweepSpares' PROVE Objects'
  BY <1>1, <1>2, <1>3, <1>4 DEF LockExcludes, Sharing, StoredStays, ObjectsPresent
\* it ends
<1>5. ASSUME In("idle")', UNCHANGED objects PROVE Objects'
  BY <1>1, <1>2, <1>3, <1>5 DEF LockExcludes, StoredStays, SweepSpares, ObjectsPresent
<1>6. CASE GcStart
  <2>1. gc'.locked /\ gc'.pc = "branches" /\ UNCHANGED <<blobs, objects>>
    BY <1>6 DEF GcStart, GcTypes, rows, Fixed
  <2> QED
    BY <1>1, <1>2, <1>6, <2>1 DEF GcStart, Shared, LockExcludes, Sharing, StoredStays, SweepSpares, ObjectsPresent
<1>7. CASE GcCrash \/ Unlock \/ UnlockFails \/ LeakEnds
  BY <1>5, <1>7, GcEnds DEF GcOver
<1>8. ASSUME NEW pc \in GcPc, NEW batch, ~In("idle"), GcGoto(pc, batch), UNCHANGED objects,
             pc = "sweep" => batch \cap blobs = {}
      PROVE  Objects'
  BY <1>3, <1>4, <1>8, GcGoes DEF GcAt, LockExcludes, SweepSpares
<1>9. CASE PickBranches
  BY <1>8, <1>9 DEF PickBranches, GcPc
<1>10. CASE DropBranches
  BY <1>4, <1>10 DEF DropBranches, LockExcludes, SweepSpares, GcTypes
<1>11. CASE PickCommits
  BY <1>8, <1>11 DEF PickCommits, GcPc
<1>12. CASE DropCommits
  BY <1>8, <1>12 DEF DropCommits, Sweep, GcPc
<1>13. CASE PickTrees
  BY <1>8, <1>13 DEF PickTrees, GcPc
<1>14. CASE DropTrees
  BY <1>8, <1>14 DEF DropTrees, Sweep, GcPc
<1>15. CASE PickBlobs
  BY <1>8, <1>15 DEF PickBlobs, GcPc
<1>16. CASE DropBlobs
  BY <1>8, <1>16 DEF DropBlobs, Sweep, GcPc
<1>17. CASE ListObjects
  BY <1>8, <1>17 DEF ListObjects, GcPc
<1>18. CASE KnownObjects
  BY <1>8, <1>18 DEF KnownObjects, GcPc
\* nobody who needs the object is past the lock, and no row knows it
<1>19. CASE DeleteObject
  <2>1. PICK x \in gc.batch : GcGoto("sweep", gc.batch \ {x}) /\ objects' = objects \ {x}
    BY <1>19 DEF DeleteObject
  <2>2. In("sweep") /\ GcAt("sweep", gc.batch \ {x}) /\ UNCHANGED blobs
    BY <1>19, <2>1, GcGoes DEF DeleteObject, GcPc
  <2>3. LockExcludes'
    BY <1>1, <2>2 DEF GcAt, LockExcludes, Sharing
  <2>4. StoredStays'
    BY <1>1, <2>2 DEF LockExcludes, Sharing, StoredStays
  <2>5. SweepSpares' /\ ObjectsPresent'
    BY <2>1, <2>2 DEF GcAt, SweepSpares, ObjectsPresent
  <2> QED
    BY <1>2, <2>3, <2>4, <2>5
<1> QED
  BY <1>6, <1>7, <1>9, <1>10, <1>11, <1>12, <1>13, <1>14, <1>15, <1>16, <1>17, <1>18, <1>19 DEF GcStep

-----------------------------------------------------------------------------
(* What the refs say.                                                      *)

\* a step that only moves one call
LEMMA MoveRefs ==
  ASSUME RefStates, NEW w \in Writer, UNCHANGED <<tip, state>>,
         \A v \in Writer : v # w => writer'[v] = writer[v],
         writer'[w].pc \notin {"idle", "lock", "store", "load"} => writer'[w].expected # 0
  PROVE  RefStates'
  BY DEF RefStates

LEMMA WriterRefs ==
  ASSUME Types, RefStates, NEW w \in Writer, WriterStep(w)
  PROVE  RefStates'
<1> DEFINE k == writer[w]
<1>k. k \in Record /\ writer \in [Writer -> Record]
  BY DEF Types, WriterTypes
<1>e. ASSUME NEW how \in Ends, End(w, how), UNCHANGED <<tip, state>> PROVE RefStates'
  BY <1>e, EndIsOver, MoveRefs DEF Types, Over
<1>m. ASSUME NEW x \in Record, Goto(w, x), UNCHANGED <<tip, state>>, x.expected = k.expected,
             k.pc \in {"lock", "store"} => x.pc \in {"store", "load"}, k.pc \notin {"idle", "load"}
      PROVE  RefStates'
  <2>1. writer'[w] = x /\ \A v \in Writer : v # w => writer'[v] = writer[v]
    BY <1>m, <1>k
  <2>2. x.pc \notin {"idle", "lock", "store", "load"} => x.expected # 0
    BY <1>m DEF RefStates
  <2> QED
    BY <1>m, <2>1, <2>2, MoveRefs
<1>1. CASE Lock(w)
  BY <1>1, <1>k, <1>m DEF Lock, Record, Pc
<1>2. CASE EnsureStorage(w)
  BY <1>2, <1>k, <1>m DEF EnsureStorage, Record, Pc
<1>3. CASE ConfirmStored(w)
  BY <1>3, <1>k, <1>m, <1>e DEF ConfirmStored, Record, Pc, Ends
<1>4. CASE LoadRef(w)
  <2>1. UNCHANGED <<tip, state>> /\ tip \in [Ref -> Nat]
    BY <1>4 DEF LoadRef, Types, TypeOK
  <2> DEFINE x == [k EXCEPT !.pc = "heads", !.expected = tip[k.ref]]
  <2>2. CASE state[k.ref] = "open" /\ Goto(w, x)
    <3>1. tip[k.ref] # 0
      BY <1>k, <2>2 DEF RefStates, Record
    <3>2. x.expected = tip[k.ref]
      BY <1>k DEF Record
    <3>3. writer'[w] = x /\ \A v \in Writer : v # w => writer'[v] = writer[v]
      BY <1>k, <2>2
    <3> HIDE DEF x
    <3> QED
      BY <2>1, <3>1, <3>2, <3>3, MoveRefs
  <2>3. CASE \E how \in Ends : End(w, how)
    BY <2>1, <2>3, <1>e
  <2> QED
    BY <1>4, <2>2, <2>3 DEF LoadRef, Ends
<1>11. CASE LoadHeads(w)
  <2> DEFINE x == [k EXCEPT !.pc = "blob", !.tree = heads[k.ref] \cup {k.content}]
  <2>1. At(w, "heads") /\ UNCHANGED <<Tables, objects>> /\ heads \in [Ref -> SUBSET Content] /\ k.content \in Content
    BY <1>11 DEF LoadHeads, Types, TypeOK, WriterTypes
  <2>2. x \in Record /\ x.expected = k.expected
    BY <1>k, <2>1 DEF Record, Pc
  <2>3. Goto(w, x) \/ \E how \in Ends : End(w, how)
    BY <1>11 DEF LoadHeads, Ends
  <2> QED
    BY <2>1, <2>2, <2>3, <1>e, <1>m DEF refs
<1>5. CASE InsertBlob(w)
  BY <1>5, <1>k, <1>m DEF InsertBlob, Record, Pc
<1>6. CASE FindBlob(w)
  BY <1>6, <1>k, <1>m, <1>e DEF FindBlob, Record, Pc, Ends
<1>7. CASE InsertTree(w)
  BY <1>7, <1>k, <1>m, <1>e DEF InsertTree, Record, Pc, Ends
<1>8. CASE FindTree(w)
  BY <1>8, <1>k, <1>m, <1>e DEF FindTree, Record, Pc, Ends
<1>9. CASE InsertCommit(w)
  BY <1>9, <1>k, <1>m, <1>e DEF InsertCommit, Record, Pc, Ends
<1>10. CASE Cas(w)
  <2>1. CASE tip[k.ref] # k.expected
    BY <1>10, <2>1, <1>e DEF Cas, Ends
  <2>2. CASE tip[k.ref] = k.expected
    <3>1. Over(w) /\ state' = state
      BY <1>10, <2>2, EndIsOver DEF Cas, Types, Ends
    <3>2. tip' = [tip EXCEPT ![k.ref] = lastId + 1] /\ tip \in [Ref -> Nat] /\ lastId + 1 # 0
      BY <1>10, <2>2 DEF Cas, Types, TypeOK
    <3>3. \A r \in Ref : tip[r] # 0 => tip'[r] # 0
      BY <3>2
    <3> QED
      BY <3>1, <3>3 DEF RefStates, Over, Ref
  <2> QED
    BY <2>1, <2>2
<1> QED
  BY <1>1, <1>2, <1>3, <1>4, <1>5, <1>6, <1>7, <1>8, <1>9, <1>10, <1>11 DEF WriterStep

LEMMA OtherRefs ==
  ASSUME Types, RefStates,
         \/ \E b \in Branch : Fork(b) \/ Discard(b)
         \/ \E x \in Large : TargetPut(x)
         \/ GcStart \/ GcStep \/ GcCrash \/ LeakEnds
  PROVE  RefStates'
<1> USE DEF RefStates
<1>1. ASSUME NEW b \in Branch, Fork(b) PROVE RefStates'
  BY <1>1 DEF Fork, Types, TypeOK, Ref
<1>2. ASSUME NEW b \in Branch, Discard(b) PROVE RefStates'
  BY <1>2 DEF Discard, Types, TypeOK, Ref
<1>3. CASE DropBranches
  <2>1. Mount \notin gc.expired
    BY GcAssumption DEF Types, GcTypes
  <2>2. writer' = writer
    BY <1>3 DEF DropBranches
  <2>3. tip' = [r \in Ref |-> IF r \in gc.expired THEN 0 ELSE tip[r]]
    BY <1>3 DEF DropBranches
  <2>4. state' = [r \in Ref |-> IF r \in gc.expired THEN "absent" ELSE state[r]]
    BY <1>3 DEF DropBranches
  <2> QED
    BY <2>1, <2>2, <2>3, <2>4 DEF Ref
<1>4. ASSUME UNCHANGED <<tip, state, writer>> PROVE RefStates'
  BY <1>4
<1>5. (\E b \in Branch : Fork(b) \/ Discard(b)) \/ DropBranches \/ UNCHANGED <<tip, state, writer>>
  BY DEF TargetPut, GcStart, GcStep, GcCrash, PickBranches, PickCommits, DropCommits, PickTrees, DropTrees,
     PickBlobs, DropBlobs, ListObjects, KnownObjects, DeleteObject, Unlock, UnlockFails, LeakEnds
<1> QED
  BY <1>1, <1>2, <1>3, <1>4, <1>5

-----------------------------------------------------------------------------
(* What WITH RECURSIVE computes: the closure has its roots and their       *)
(* ancestors, and is the least set that has.                               *)

LEMMA ClosureHas ==
  ASSUME NEW S
  PROVE  S \cap DOMAIN commits \subseteq Closure(S)
  BY DEF Closure

LEMMA ClosureLeast ==
  ASSUME NEW S, NEW K \in SUBSET DOMAIN commits, S \cap DOMAIN commits \subseteq K, Closed(K)
  PROVE  Closure(S) \subseteq K
  BY DEF Closure

LEMMA ClosureClosed ==
  ASSUME NEW S
  PROVE  Closed(Closure(S))
<1> SUFFICES ASSUME NEW i \in Closure(S), NEW p \in commits[i].parents \cap DOMAIN commits
             PROVE  p \in Closure(S)
  BY DEF Closed
<1> SUFFICES ASSUME NEW K \in SUBSET DOMAIN commits, S \cap DOMAIN commits \subseteq K, Closed(K)
             PROVE  p \in K
  BY DEF Closure
<1>1. i \in K
  BY DEF Closure
<1> QED
  BY <1>1 DEF Closed

-----------------------------------------------------------------------------
(* Refs have their commits, commits their parents and trees, trees their   *)
(* blobs.                                                                  *)

\* a step that only moves one call
LEMMA MoveRows ==
  ASSUME Rows, NEW w \in Writer, UNCHANGED Tables,
         \A v \in Writer : v # w => writer'[v] = writer[v],
         writer'[w].ownTree => /\ writer'[w].pc \in {"commit", "cas"}
                               /\ writer'[w].tree \subseteq blobs \cup OwnBlobs(writer'[w]),
         At(w, "cas")' /\ ~writer'[w].ownTree => writer'[w].tree \in trees
  PROVE  Rows'
<1>1. WriterRows'
  BY DEF Rows, WriterRows, OwnBlobs
<1>2. NothingDangles'
  BY DEF Rows, NothingDangles
<1>3. BasesReachable' /\ BatchApart'
  BY DEF Rows, BasesReachable, BatchApart, Closure, Closed, Referenced
<1> QED
  BY <1>1, <1>2, <1>3 DEF Rows

LEMMA WriterMoveRows ==
  ASSUME Types, Rows, NEW w \in Writer, WriterStep(w), ~Cas(w)
  PROVE  Rows'
<1> DEFINE k == writer[w]
<1>k. k \in Record /\ writer \in [Writer -> Record]
  BY DEF Types, WriterTypes
<1>o. k.ownTree => k.pc \in {"commit", "cas"} /\ k.tree \subseteq blobs \cup OwnBlobs(k)
  BY DEF Rows, WriterRows
<1>e. ASSUME NEW how \in Ends, End(w, how), UNCHANGED Tables PROVE Rows'
  BY <1>e, EndIsOver, MoveRows DEF Types, Over
<1>g. ASSUME NEW x \in Record, Goto(w, x), UNCHANGED Tables,
             x.ownTree => x.pc \in {"commit", "cas"} /\ x.tree \subseteq blobs \cup OwnBlobs(x),
             x.pc = "cas" /\ ~x.ownTree => x.tree \in trees
      PROVE  Rows'
  <2>1. writer'[w] = x /\ \A v \in Writer : v # w => writer'[v] = writer[v]
    BY <1>g, <1>k
  <2> QED
    BY <1>g, <2>1, MoveRows
\* before the tree is inserted there is none
<1>m. ASSUME NEW x \in Record, Goto(w, x), UNCHANGED Tables, x.ownTree = k.ownTree, k.pc \notin {"commit", "cas"},
             x.pc # "cas"
      PROVE  Rows'
  BY <1>m, <1>o, <1>g
<1>1. CASE Lock(w)
  <2> DEFINE x == [k EXCEPT !.pc = "store"]
  <2>1. x \in Record /\ x.ownTree = k.ownTree /\ x.pc = "store"
    BY <1>k DEF Record, Pc
  <2> QED
    BY <1>1, <2>1, <1>m DEF Lock
<1>2. CASE EnsureStorage(w)
  <2> DEFINE x == [k EXCEPT !.pc = "load"]
  <2>1. x \in Record /\ x.ownTree = k.ownTree /\ x.pc = "load"
    BY <1>k DEF Record, Pc
  <2> QED
    BY <1>2, <2>1, <1>m DEF EnsureStorage
<1>3. CASE ConfirmStored(w)
  BY <1>3, <1>k, <1>m, <1>e DEF ConfirmStored, Record, Pc, Ends
<1>4. CASE LoadHeads(w)
  <2> DEFINE x == [k EXCEPT !.pc = "blob", !.tree = heads[k.ref] \cup {k.content}]
  <2>1. UNCHANGED Tables /\ heads \in [Ref -> SUBSET Content] /\ At(w, "heads")
    BY <1>4 DEF LoadHeads, Types, TypeOK
  <2>2. k.content \in Content
    BY <2>1 DEF Types, WriterTypes
  <2>3. x \in Record /\ x.ownTree = k.ownTree /\ x.pc = "blob"
    BY <1>k, <2>1, <2>2 DEF Record, Pc
  <2>4. Goto(w, x) \/ \E how \in Ends : End(w, how)
    BY <1>4 DEF LoadHeads, Ends
  <2> QED
    BY <2>1, <2>3, <2>4, <1>e, <1>m
<1>11. CASE LoadRef(w)
  <2> DEFINE x == [k EXCEPT !.pc = "heads", !.expected = tip[k.ref]]
  <2>1. UNCHANGED Tables /\ tip \in [Ref -> Nat] /\ At(w, "load")
    BY <1>11 DEF LoadRef, Types, TypeOK
  <2>2. x \in Record /\ x.ownTree = k.ownTree /\ x.pc = "heads"
    BY <1>k, <2>1 DEF Record, Pc
  <2>3. Goto(w, x) \/ \E how \in Ends : End(w, how)
    BY <1>11 DEF LoadRef, Ends
  <2> QED
    BY <2>1, <2>2, <2>3, <1>e, <1>m
<1>5. CASE InsertBlob(w)
  <2> DEFINE found == [k EXCEPT !.pc = "findBlob"]
             new == [k EXCEPT !.pc = "tree", !.ownBlob = TRUE]
  <2>1. /\ found \in Record /\ found.ownTree = k.ownTree /\ found.pc = "findBlob"
        /\ new \in Record /\ new.ownTree = k.ownTree /\ new.pc = "tree"
    BY <1>k DEF Record, Pc
  <2> QED
    BY <1>5, <2>1, <1>m DEF InsertBlob
<1>6. CASE FindBlob(w)
  BY <1>6, <1>k, <1>m, <1>e DEF FindBlob, Record, Pc, Ends
<1>7. CASE InsertTree(w)
  <2>1. CASE k.tree \in trees \/ ~(k.tree \subseteq blobs \cup OwnBlobs(k))
    BY <1>7, <2>1, <1>k, <1>m, <1>e DEF InsertTree, Record, Pc, Ends
  <2>2. CASE k.tree \notin trees /\ k.tree \subseteq blobs \cup OwnBlobs(k)
    <3> DEFINE x == [k EXCEPT !.pc = "commit", !.ownTree = TRUE]
    <3>1. /\ x \in Record /\ x.pc = "commit" /\ x.ownTree
          /\ x.tree = k.tree /\ x.ownBlob = k.ownBlob /\ x.content = k.content
      BY <1>k DEF Record, Pc
    <3>2. OwnBlobs(x) = OwnBlobs(k)
      BY <3>1 DEF OwnBlobs
    <3>3. Goto(w, x) /\ UNCHANGED Tables
      BY <1>7, <2>2 DEF InsertTree
    <3> HIDE DEF x
    <3> QED
      BY <2>2, <3>1, <3>2, <3>3, <1>g
  <2> QED
    BY <2>1, <2>2
<1>8. CASE FindTree(w)
  BY <1>8, <1>k, <1>m, <1>e DEF FindTree, Record, Pc, Ends
<1>9. CASE InsertCommit(w)
  <2> DEFINE x == [k EXCEPT !.pc = "cas"]
  <2>1. /\ x \in Record /\ x.pc = "cas" /\ x.ownTree = k.ownTree
        /\ x.tree = k.tree /\ x.ownBlob = k.ownBlob /\ x.content = k.content
    BY <1>k DEF Record, Pc
  <2>2. OwnBlobs(x) = OwnBlobs(k)
    BY <2>1 DEF OwnBlobs
  <2>3. CASE (k.ownTree \/ k.tree \in trees) /\ Goto(w, x)
    <3> HIDE DEF x
    <3> QED
      BY <1>9, <2>1, <2>2, <2>3, <1>o, <1>g DEF InsertCommit
  <2>4. CASE End(w, "foreignKey")
    BY <1>9, <2>4, <1>e DEF InsertCommit, Ends
  <2> QED
    BY <1>9, <2>3, <2>4 DEF InsertCommit
<1> QED
  BY <1>1, <1>2, <1>3, <1>4, <1>5, <1>6, <1>7, <1>8, <1>9, <1>11 DEF WriterStep

\* the new commit is on top of the tip, which is in no batch; its tree is whole
LEMMA CasRows ==
  ASSUME Types, RefStates, Rows, NEW w \in Writer, Cas(w)
  PROVE  Rows'
<1> DEFINE k == writer[w]
           id == lastId + 1
<1>k. k \in Record /\ k.ref \in Ref /\ lastId \in Nat /\ DOMAIN commits \subseteq 1 .. lastId /\ tip \in [Ref -> Nat]
  BY DEF Types, WriterTypes, TypeOK, Record
<1>o. Over(w)
  BY EndIsOver DEF Cas, Types, Ends
<1>w. /\ k.ownTree => k.tree \subseteq blobs \cup OwnBlobs(k)
      /\ ~k.ownTree => k.tree \in trees
  BY DEF Rows, WriterRows, Cas
<1>1. CASE tip[k.ref] # k.expected
  <2>1. UNCHANGED Tables
    BY <1>1 DEF Cas
  <2> QED
    BY <2>1, <1>o, MoveRows DEF Over
<1>2. CASE tip[k.ref] = k.expected
  <2>1. /\ commits' = [i \in DOMAIN commits \cup {id} |->
                          IF i = id THEN [parents |-> {k.expected}, tree |-> k.tree] ELSE commits[i]]
        /\ trees' = trees \cup {k.tree} /\ blobs' = blobs \cup OwnBlobs(k)
        /\ tip' = [tip EXCEPT ![k.ref] = id] /\ base' = base /\ gc' = gc
    BY <1>2 DEF Cas
  <2>2. k.expected \in DOMAIN commits /\ id \notin DOMAIN commits
    BY <1>2, <1>k DEF Cas, RefStates, Rows, NothingDangles
  <2>3. /\ DOMAIN commits' = DOMAIN commits \cup {id}
        /\ commits'[id].parents = {k.expected} /\ commits'[id].tree = k.tree
        /\ \A i \in DOMAIN commits : commits'[i] = commits[i]
    BY <2>1, <2>2
  <2>4. NothingDangles'
    <3>1. \A r \in Ref : tip'[r] # 0 => tip'[r] \in DOMAIN commits'
      BY <1>k, <2>1, <2>3 DEF Rows, NothingDangles
    <3>2. \A i \in DOMAIN commits' : commits'[i].parents \subseteq DOMAIN commits' /\ commits'[i].tree \in trees'
      BY <2>1, <2>2, <2>3 DEF Rows, NothingDangles
    <3>3. \A t \in trees' : t \subseteq blobs'
      BY <2>1, <1>w DEF Rows, NothingDangles
    <3> QED
      BY <3>1, <3>2, <3>3 DEF NothingDangles
  <2>5. WriterRows'
    BY <2>1, <1>o DEF Rows, WriterRows, Over, OwnBlobs
  <2>6. BasesReachable'
    <3> SUFFICES ASSUME NEW r \in Ref, base[r] # 0,
                        NEW K \in SUBSET DOMAIN commits', {tip'[Mount]} \cap DOMAIN commits' \subseteq K, Closed(K)'
                 PROVE  base[r] \in K
      BY <2>1, <2>3 DEF BasesReachable, Closure, Rows
    <3> DEFINE L == K \ {id}
    <3>1. base[r] \in Closure({tip[Mount]}) /\ base[r] \in DOMAIN commits
      BY DEF Rows, BasesReachable, Closure
    <3>2. L \in SUBSET DOMAIN commits
      BY <2>3
    <3>3. Closed(L)
      BY <2>2, <2>3 DEF Closed
    <3>4. tip[Mount] \in L
      <4>1. Mount \in Ref /\ tip[Mount] \in DOMAIN commits /\ tip'[Mount] \in DOMAIN commits'
        BY <1>k, <2>1, <2>3 DEF Ref, RefStates, Rows, NothingDangles
      <4>2. CASE k.ref = Mount
        BY <1>2, <1>k, <2>1, <2>2, <2>3, <4>1, <4>2 DEF Closed
      <4>3. CASE k.ref # Mount
        BY <1>k, <2>1, <2>2, <4>1, <4>3
      <4> QED
        BY <4>2, <4>3
    <3>5. Closure({tip[Mount]}) \subseteq L
      BY <3>2, <3>3, <3>4, ClosureLeast
    <3> QED
      BY <3>1, <3>5
  <2>7. BatchApart'
    <3> SUFFICES ASSUME In("dropCommits")
                 PROVE  /\ gc.batch \subseteq DOMAIN commits' /\ gc.batch \cap Referenced' = {}
                        /\ \A i \in DOMAIN commits' \ gc.batch : commits'[i].parents \cap gc.batch = {}
      BY <2>1 DEF BatchApart
    <3>1. /\ gc.batch \subseteq DOMAIN commits /\ gc.batch \cap Referenced = {}
          /\ \A i \in DOMAIN commits \ gc.batch : commits[i].parents \cap gc.batch = {}
      BY DEF Rows, BatchApart
    <3>2. Referenced' \subseteq Referenced \cup {id}
      BY <1>k, <2>1 DEF Referenced
    <3>3. k.expected \notin gc.batch
      BY <1>2, <1>k, <3>1 DEF Referenced
    <3> QED
      BY <2>2, <2>3, <3>1, <3>2, <3>3
  <2> QED
    BY <2>4, <2>5, <2>6, <2>7 DEF Rows
<1> QED
  BY <1>1, <1>2

LEMMA BeginRows ==
  ASSUME Types, Rows, NEW w \in Writer, NEW r \in Ref, NEW x \in Content, Begin(w, r, x)
  PROVE  Rows'
<1>1. UNCHANGED Tables
  BY DEF Begin
<1>2. writer'[w].pc \in {"lock", "load"} /\ ~writer'[w].ownTree /\ \A v \in Writer : v # w => writer'[v] = writer[v]
  BY BeginMoves DEF Types
<1> QED
  BY <1>1, <1>2, MoveRows

\* the base of a new branch is the tip of the mount
LEMMA SessionRows ==
  ASSUME Types, RefStates, Rows, (\E b \in Branch : Fork(b) \/ Discard(b)) \/ (\E x \in Large : TargetPut(x))
  PROVE  Rows'
<1>1. UNCHANGED <<rows, writer, gc>>
  BY DEF Fork, Discard, TargetPut
<1>2. WriterRows'
  BY <1>1 DEF Rows, WriterRows, OwnBlobs
<1>3. ASSUME NEW b \in Branch, Fork(b) PROVE Rows'
  <2>1. /\ tip' = [tip EXCEPT ![b] = tip[Mount]] /\ base' = [base EXCEPT ![b] = tip[Mount]]
        /\ tip \in [Ref -> Nat] /\ base \in [Ref -> Nat] /\ b \in Ref /\ Mount \in Ref /\ b # Mount
    BY <1>3, GcAssumption DEF Fork, Types, TypeOK, Ref
  <2>2. NothingDangles'
    BY <1>1, <2>1 DEF Rows, NothingDangles
  <2>3. tip[Mount] \in Closure({tip[Mount]})
    BY <2>1, ClosureHas DEF Rows, NothingDangles, RefStates
  <2>4. BasesReachable'
    BY <1>1, <2>1, <2>3 DEF Rows, BasesReachable, Closure, Closed
  <2>5. Referenced' \subseteq Referenced
    BY <2>1 DEF Referenced
  <2>6. BatchApart'
    BY <1>1, <2>5 DEF Rows, BatchApart
  <2> QED
    BY <1>2, <2>2, <2>4, <2>6 DEF Rows
<1>4. CASE (\E b \in Branch : Discard(b)) \/ (\E x \in Large : TargetPut(x))
  <2>1. UNCHANGED <<tip, base>>
    BY <1>4 DEF Discard, TargetPut
  <2> QED
    BY <1>1, <1>2, <2>1 DEF Rows, NothingDangles, BasesReachable, Closure, Closed, BatchApart, Referenced
<1> QED
  BY <1>3, <1>4

\* what WITH RECURSIVE leaves out is referred to by nothing that stays
LEMMA PickedApart ==
  ASSUME Types, RefStates, Rows, PickCommits
  PROVE  BatchApart'
<1>1. PICK batch \in SUBSET Doomed :
        /\ \A i \in batch, j \in Doomed : i \in commits[j].parents => j \in batch
        /\ GcGoto(IF batch = {} THEN "trees" ELSE "dropCommits", batch)
  BY DEF PickCommits
<1>2. gc'.batch = batch /\ UNCHANGED <<tip, base, commits>>
  BY <1>1, GcGoes DEF PickCommits, Types, GcAt, GcPc
<1>3. Doomed \subseteq DOMAIN commits /\ Doomed \cap Referenced = {}
  BY DEF Doomed
<1>4. Referenced \cap DOMAIN commits \subseteq Closure(Tips)
  <2>1. {tip[Mount]} \cap DOMAIN commits \subseteq Closure(Tips)
    BY ClosureHas DEF Tips, Ref, RefStates
  <2>2. Closure(Tips) \in SUBSET DOMAIN commits /\ Closed(Closure(Tips))
    BY ClosureClosed DEF Closure
  <2>3. Closure({tip[Mount]}) \subseteq Closure(Tips)
    BY <2>1, <2>2, ClosureLeast
  <2>4. 0 \notin DOMAIN commits
    BY DEF Types, TypeOK
  <2>5. {tip[r] : r \in Ref} \cap DOMAIN commits \subseteq Closure(Tips)
    BY <2>4, ClosureHas DEF Tips
  <2>6. {base[r] : r \in Ref} \cap DOMAIN commits \subseteq Closure(Tips)
    BY <2>3, <2>4 DEF Rows, BasesReachable
  <2> QED
    BY <2>5, <2>6 DEF Referenced
<1>5. ASSUME NEW i \in DOMAIN commits \ batch, NEW p \in commits[i].parents \cap batch PROVE FALSE
  <2>1. p \in Doomed /\ p \in DOMAIN commits
    BY <1>3, <1>5
  <2>2. i \notin Doomed
    BY <1>1, <1>5
  <2>3. i \in Closure(Tips) \cup Closure(gc.young)
    BY <1>4, <1>5, <2>2 DEF Doomed
  <2>4. p \in Closure(Tips) \cup Closure(gc.young)
    BY <1>5, <2>1, <2>3, ClosureClosed DEF Closed
  <2> QED
    BY <2>1, <2>4 DEF Doomed
<1>6. Referenced' = Referenced
  BY <1>2 DEF Referenced
<1> QED
  BY <1>1, <1>2, <1>3, <1>5, <1>6 DEF BatchApart

\* the batch goes, and what stays refers to nothing in it
LEMMA DroppedCommits ==
  ASSUME Types, Rows, DropCommits
  PROVE  Rows'
<1>1. /\ gc.batch \subseteq DOMAIN commits /\ gc.batch \cap Referenced = {}
      /\ \A i \in DOMAIN commits \ gc.batch : commits[i].parents \cap gc.batch = {}
  BY DEF DropCommits, Rows, BatchApart
<1>2. commits' = [i \in DOMAIN commits \ gc.batch |-> commits[i]] /\ UNCHANGED <<refs, lastId, trees, blobs, Fixed>>
  BY <1>1 DEF DropCommits, Removed
<1>3. DOMAIN commits' = DOMAIN commits \ gc.batch /\ \A i \in DOMAIN commits' : commits'[i] = commits[i]
  BY <1>2
<1>4. NothingDangles'
  BY <1>1, <1>2, <1>3 DEF Rows, NothingDangles, Referenced
<1>5. WriterRows'
  BY <1>2 DEF Rows, WriterRows, OwnBlobs
<1>6. BasesReachable'
  <2>1. ASSUME NEW r \in Ref, base[r] # 0,
               NEW K \in SUBSET DOMAIN commits', {tip[Mount]} \cap DOMAIN commits' \subseteq K, Closed(K)'
        PROVE  base[r] \in K
    <3>1. base[r] \in Closure({tip[Mount]}) /\ base[r] \in DOMAIN commits
      BY <2>1 DEF Rows, BasesReachable, Closure
    <3>2. {tip[Mount]} \cap DOMAIN commits \subseteq K
      BY <1>1, <1>3, <2>1 DEF Referenced, Ref
    <3>3. K \in SUBSET DOMAIN commits /\ Closed(K)
      BY <1>1, <1>3, <2>1 DEF Closed
    <3> QED
      BY <3>1, <3>2, <3>3, ClosureLeast
  <2>2. Closed(DOMAIN commits)'
    BY DEF Closed
  <2>3. \A r \in Ref : base[r] # 0 => base[r] \in DOMAIN commits'
    BY <2>1, <2>2
  <2> QED
    BY <1>2, <2>1, <2>3 DEF BasesReachable, Closure
<1>7. BatchApart'
  BY GcGoes DEF Types, DropCommits, Sweep, GcAt, GcPc, BatchApart
<1> QED
  BY <1>4, <1>5, <1>6, <1>7 DEF Rows

LEMMA GcRows ==
  ASSUME Types, RefStates, Rows, GcStart \/ GcStep \/ GcCrash \/ LeakEnds
  PROVE  Rows'
<1>w. writer' = writer
  BY DEF GcStart, GcStep, GcCrash, PickBranches, DropBranches, PickCommits, DropCommits, PickTrees, DropTrees,
     PickBlobs, DropBlobs, ListObjects, KnownObjects, DeleteObject, Unlock, UnlockFails, LeakEnds
\* a step that deletes no row
<1>u. ASSUME UNCHANGED <<refs, rows>>, BatchApart' PROVE Rows'
  BY <1>u, <1>w DEF Rows, NothingDangles, WriterRows, OwnBlobs, BasesReachable, Closure, Closed
<1>g. ASSUME NEW pc \in GcPc \ {"dropCommits"}, NEW batch, GcGoto(pc, batch) PROVE BatchApart'
  BY <1>g, GcGoes DEF Types, GcAt, BatchApart
<1>1. CASE GcStart
  <2>1. gc'.pc = "branches"
    BY <1>1 DEF GcStart, Types, GcTypes
  <2> QED
    BY <1>1, <1>u, <2>1 DEF GcStart, BatchApart
<1>2. CASE GcCrash \/ Unlock \/ UnlockFails \/ LeakEnds
  BY <1>2, <1>u, GcEnds DEF Types, GcOver, BatchApart
<1>3. CASE PickBranches
  BY <1>3, <1>u, <1>g DEF PickBranches, GcPc
<1>4. CASE DropBranches
  <2>1. Mount \notin gc.expired /\ UNCHANGED rows
    BY <1>4, GcAssumption DEF Types, GcTypes, DropBranches
  <2>2. \A r \in Ref : tip'[r] \in {0, tip[r]} /\ base'[r] \in {0, base[r]}
    BY <1>4 DEF DropBranches
  <2>3. tip'[Mount] = tip[Mount]
    BY <1>4, <2>1 DEF DropBranches, Ref
  <2>4. NothingDangles'
    BY <2>1, <2>2 DEF Rows, NothingDangles
  <2>5. WriterRows'
    BY <1>w, <2>1 DEF Rows, WriterRows, OwnBlobs
  <2>6. BasesReachable'
    BY <2>1, <2>2, <2>3 DEF Rows, BasesReachable, Closure, Closed
  <2>7. BatchApart'
    BY <1>4 DEF DropBranches, Types, GcTypes, BatchApart
  <2> QED
    BY <2>4, <2>5, <2>6, <2>7 DEF Rows
<1>5. CASE PickCommits
  BY <1>5, <1>u, PickedApart DEF PickCommits
<1>6. CASE DropCommits
  BY <1>6, DroppedCommits
<1>7. CASE PickTrees
  BY <1>7, <1>u, <1>g DEF PickTrees, GcPc
<1>8. CASE DropTrees
  <2>1. trees' = trees \ Removed(gc.batch, UsedTrees) /\ UNCHANGED <<refs, commits, blobs>>
    BY <1>8 DEF DropTrees
  <2>2. Removed(gc.batch, UsedTrees) \subseteq gc.batch /\ Removed(gc.batch, UsedTrees) \cap UsedTrees = {}
    BY DEF Removed
  <2>3. NothingDangles'
    BY <2>1, <2>2 DEF Rows, NothingDangles, UsedTrees
  <2>4. WriterRows'
    BY <1>8, <1>w, <2>1, <2>2 DEF Rows, WriterRows, OwnBlobs, DropTrees
  <2>5. BasesReachable'
    BY <2>1 DEF Rows, BasesReachable, Closure, Closed
  <2>6. BatchApart'
    BY <1>8, <1>g DEF DropTrees, Sweep, GcPc
  <2> QED
    BY <2>3, <2>4, <2>5, <2>6 DEF Rows
<1>9. CASE PickBlobs
  BY <1>9, <1>u, <1>g DEF PickBlobs, GcPc
<1>10. CASE DropBlobs
  <2>1. blobs' = blobs \ Removed(gc.batch, UsedBlobs) /\ UNCHANGED <<refs, commits, trees>>
    BY <1>10 DEF DropBlobs
  <2>2. Removed(gc.batch, UsedBlobs) \subseteq gc.batch /\ Removed(gc.batch, UsedBlobs) \cap UsedBlobs = {}
    BY DEF Removed
  <2>3. NothingDangles'
    BY <2>1, <2>2 DEF Rows, NothingDangles, UsedBlobs
  <2>4. WriterRows'
    BY <1>10, <1>w, <2>1, <2>2 DEF Rows, WriterRows, OwnBlobs, DropBlobs
  <2>5. BasesReachable'
    BY <2>1 DEF Rows, BasesReachable, Closure, Closed
  <2>6. BatchApart'
    BY <1>10, <1>g DEF DropBlobs, Sweep, GcPc
  <2> QED
    BY <2>3, <2>4, <2>5, <2>6 DEF Rows
<1>11. CASE ListObjects
  BY <1>11, <1>u, <1>g DEF ListObjects, GcPc
<1>12. CASE KnownObjects
  BY <1>12, <1>u, <1>g DEF KnownObjects, GcPc
<1>13. CASE DeleteObject
  BY <1>13, <1>u, <1>g DEF DeleteObject, GcPc
<1> QED
  BY <1>1, <1>2, <1>3, <1>4, <1>5, <1>6, <1>7, <1>8, <1>9, <1>10, <1>11, <1>12, <1>13 DEF GcStep

-----------------------------------------------------------------------------
(* The invariant is inductive.                                             *)

LEMMA StepInv ==
  ASSUME Inv, [Next]_vars
  PROVE  Inv'
<1> USE DEF Inv
<1>0. NothingDangles
  BY DEF Rows
<1>1. CASE (\E b \in Branch : Fork(b) \/ Discard(b)) \/ (\E x \in Large : TargetPut(x))
  BY <1>0, <1>1, SessionTypes, SessionObjects, OtherRefs, SessionRows
<1>2. ASSUME NEW w \in Writer, WriterStep(w) PROVE Inv'
  <2>1. Rows'
    BY <1>2, CasRows, WriterMoveRows
  <2> QED
    BY <1>2, <2>1, WriterStepTypes, WriterObjects, WriterRefs
<1>3. ASSUME NEW w \in Writer, WriterCrash(w) PROVE Inv'
  <2>1. UNCHANGED <<Tables, objects>>
    BY <1>3 DEF WriterCrash
  <2>2. Types' /\ Over(w)
    BY <1>3, CrashTypes
  <2>3. Objects' /\ RefStates' /\ Rows'
    BY <2>1, <2>2, OverObjects, MoveRefs, MoveRows DEF Over
  <2> QED
    BY <2>2, <2>3
<1>4. ASSUME NEW w \in Writer, NEW r \in Ref, NEW x \in Content, Begin(w, r, x) PROVE Inv'
  <2>1. UNCHANGED <<tip, state>> /\ writer'[w].pc \in {"lock", "load"} /\ \A v \in Writer : v # w => writer'[v] = writer[v]
    BY <1>4, BeginMoves DEF Begin, Types
  <2>2. RefStates'
    BY <2>1, MoveRefs
  <2> QED
    BY <1>4, <2>2, BeginTypes, BeginObjects, BeginRows
<1>5. CASE GcStart \/ GcStep \/ GcCrash \/ LeakEnds
  BY <1>5, GcStepTypes, GcObjects, OtherRefs, GcRows
<1>6. CASE UNCHANGED vars
  <2>1. Types' /\ Objects'
    BY <1>6 DEF vars, Types, TypeOK, WriterTypes, GcTypes, Room, InFlight, Objects, LockExcludes, Sharing, StoredStays,
       OwnBlobLater, SweepSpares, ObjectsPresent
  <2>2. RefStates' /\ Rows'
    BY <1>6 DEF vars, RefStates, Rows, NothingDangles, WriterRows, OwnBlobs, BasesReachable, Closure, Closed,
       BatchApart, Referenced
  <2> QED
    BY <2>1, <2>2
<1> QED
  BY <1>1, <1>2, <1>3, <1>4, <1>5, <1>6 DEF Next

(* The state of the tenant, of every call in flight and of the collector   *)
(* always satisfies the invariant.                                         *)
THEOREM GcInvariance == Spec => []Inv
  BY InitInv, StepInv, PTL DEF Spec

(* The tables stay well formed, and no call runs out of ids it was given   *)
(* room for.                                                               *)
THEOREM GcTypeCorrect == Spec => []TypeOK
<1>1. Inv => TypeOK
  BY DEF Inv, Types
<1> QED
  BY <1>1, GcInvariance, PTL

(* Whatever writers, forks and discards do while collectTenant runs, and   *)
(* wherever it dies: refs have their commits, commits their parents and    *)
(* trees, trees their blobs.                                               *)
THEOREM GcLeavesNothingDangling == Spec => []NothingDangles
<1>1. Inv => NothingDangles
  BY DEF Inv, Rows
<1> QED
  BY <1>1, GcInvariance, PTL

(* The sweep never deletes the object of a row, though it decides on a     *)
(* listing that is old when it deletes.                                    *)
THEOREM GcLosesNoObject == Spec => []ObjectsPresent
<1>1. Inv => ObjectsPresent
  BY DEF Inv, Objects
<1> QED
  BY <1>1, GcInvariance, PTL
=============================================================================
