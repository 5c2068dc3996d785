----------------------------- MODULE ReadsProofs -----------------------------
(***************************************************************************)
(* Reads and verify see what they say they see although GC and writers run *)
(* between their statements: proofs about Reads and Audit.  They rest on   *)
(* the invariant of GcProofs (no row dangles), on commits being immutable, *)
(* and on histories: what a ref leads to only grows until GC drops the     *)
(* ref, and two branches share nothing but what the mount has.             *)
(***************************************************************************)
EXTENDS Reads, GcProofs

-----------------------------------------------------------------------------
(* The inductive invariant, beside Inv of GcProofs.                        *)

AuditPc == {"commits", "parents", "refs", "entries", "heads", "blobs", "store"}
AuditTypes ==
    audit \in [pc : AuditPc, parents : {audit.parents}, refs : SUBSET Ref, expected : [Ref -> SUBSET Content],
               blobs : SUBSET Large, found : {audit.found}]

TreeAtTip(r) == IF tip[r] = 0 THEN {} ELSE commits[tip[r]].tree

\* what a statement found is there still, unless it is on the list of what changed since
Compared ==
    /\ Reads("parents") =>
          \A i \in DOMAIN audit.parents : audit.parents[i] \subseteq DOMAIN commits \cup during
    /\ audit.pc \in {"entries", "heads"} => \A r \in Ref \ during : r \in audit.refs <=> tip[r] # 0
    /\ Reads("heads") => \A r \in Ref \ during : audit.expected[r] = TreeAtTip(r)
    /\ Reads("store") => audit.blobs \subseteq blobs \cup during

\* what each ref leads to; branches have nothing in common but the mount
Past == [r \in Ref |-> Closure({tip[r]})]
Private == \A b, c \in Branch : b # c => Past[b] \cap Past[c] \subseteq Past[Mount]

ReadPc == {"idle", "tree", "get", "lineage", "commits", "changes", "answer", "served", "notFound", "storage"}
Answered(k) == k.pc \in {"answer", "served", "notFound", "storage"}

\* a commit the read wants has the tree it had, as long as there is a row of that id
PinsAreTrue(k) ==
    /\ k.wanted \subseteq (1 .. lastId) \X SUBSET Content
    /\ \A pin \in k.wanted : pin[1] \in DOMAIN commits => commits[pin[1]].tree = pin[2]

\* some ref leads to it, unless it was lost
PinsAreHeld(k) == ~lost => \A pin \in k.wanted : pin[1] \in Closure(Tips)

\* what the next statement of the read will look up
Wants(k) ==
    /\ k.pc \in {"tree", "lineage", "changes"} => k.ids = {pin[1] : pin \in k.wanted}
    /\ k.pc = "tree" => \A i, j \in k.ids : i = j
    /\ k.pc = "get" => k.content \in Large /\ \E pin \in k.wanted : k.content \in pin[2]

\* a tip stays in the lineage of the ref it was read from
TipInLineage(k) == k.pc = "lineage" /\ ~lost => k.ids \subseteq Lineage(k.ref)

Whole(k) ==
    /\ ~lost => k.pc \notin {"notFound", "storage"} /\ (k.pc = "answer" => k.got = k.wanted)
    /\ \A g \in k.got : g[2] = {} \/ g \in k.wanted
    /\ ~Answered(k) => k.got = {}

Fits(k) ==
    /\ k \in [pc : ReadPc, ref : Ref, ids : {k.ids}, content : Content \cup {NoContent},
              wanted : {k.wanted}, got : {k.got}]
    /\ PinsAreTrue(k) /\ PinsAreHeld(k) /\ Wants(k) /\ TipInLineage(k) /\ Whole(k)

RInv == Inv /\ AuditTypes /\ Compared /\ Private /\ lost \in BOOLEAN /\ Fits(reader)

-----------------------------------------------------------------------------
(* Commits are immutable and their ids are never given again.              *)

LEMMA CommitSteps ==
  ASSUME Next
  PROVE  \/ UNCHANGED <<commits, lastId>>
         \/ DropCommits
         \/ \E w \in Writer : Cas(w)
<1>1. ASSUME NEW w \in Writer, WriterStep(w), ~Cas(w) PROVE UNCHANGED <<commits, lastId>>
  BY <1>1 DEF WriterStep, Lock, EnsureStorage, ConfirmStored, LoadRef, LoadHeads, InsertBlob, FindBlob, InsertTree, FindTree,
     InsertCommit, Tables, rows
<1>2. CASE GcStart \/ GcStep \/ GcCrash \/ LeakEnds
  BY <1>2 DEF GcStart, GcStep, GcCrash, PickBranches, DropBranches, PickCommits, PickTrees, DropTrees,
     PickBlobs, DropBlobs, ListObjects, KnownObjects, DeleteObject, Unlock, UnlockFails, LeakEnds, rows
<1>3. CASE (\E b \in Branch : Fork(b) \/ Discard(b)) \/ (\E x \in Large : TargetPut(x))
  BY <1>3 DEF Fork, Discard, TargetPut, rows
<1>4. ASSUME NEW w \in Writer, WriterCrash(w) \/ \E r \in Ref, x \in Content : Begin(w, r, x)
      PROVE  UNCHANGED <<commits, lastId>>
  BY <1>4 DEF WriterCrash, Begin, Tables, rows
<1> QED
  BY <1>1, <1>2, <1>3, <1>4 DEF Next

\* the commit of a call whose compare-and-swap succeeds
Puts(w) ==
    LET k == writer[w]
        id == lastId + 1
    IN  /\ k.ref \in Ref /\ id \notin DOMAIN commits
        /\ tip[k.ref] = k.expected /\ k.expected \in DOMAIN commits
        /\ DOMAIN commits' = DOMAIN commits \cup {id}
        /\ commits'[id].parents = {k.expected}
        /\ \A i \in DOMAIN commits : commits'[i] = commits[i]
        /\ lastId' = id
        /\ tip' = [tip EXCEPT ![k.ref] = id]

LEMMA CasPuts ==
  ASSUME Inv, NEW w \in Writer, Cas(w)
  PROVE  Puts(w) \/ UNCHANGED <<commits, lastId, tip>>
<1> DEFINE k == writer[w]
           id == lastId + 1
<1>1. k.ref \in Ref /\ lastId \in Nat /\ DOMAIN commits \subseteq 1 .. lastId
  BY DEF Inv, Types, WriterTypes, TypeOK, Record
<1>2. CASE tip[k.ref] # k.expected
  BY <1>2 DEF Cas, refs, rows
<1>3. CASE tip[k.ref] = k.expected
  <2>1. /\ commits' = [i \in DOMAIN commits \cup {id} |->
                          IF i = id THEN [parents |-> {k.expected}, tree |-> k.tree] ELSE commits[i]]
        /\ lastId' = id /\ tip' = [tip EXCEPT ![k.ref] = id]
    BY <1>3 DEF Cas
  <2>2. k.expected \in DOMAIN commits /\ id \notin DOMAIN commits
    BY <1>1, <1>3 DEF Cas, At, Inv, RefStates, Rows, NothingDangles
  <2> QED
    BY <1>1, <1>3, <2>1, <2>2 DEF Puts
<1> QED
  BY <1>2, <1>3

\* a deletion takes rows and changes none
LEMMA DropsRows ==
  ASSUME DropCommits
  PROVE  /\ DOMAIN commits' \subseteq DOMAIN commits
         /\ \A i \in DOMAIN commits' : commits'[i] = commits[i]
         /\ UNCHANGED <<lastId, tip>>
  BY DEF DropCommits, refs

CommitsStayed ==
    /\ \A i \in DOMAIN commits \cap DOMAIN commits' : commits'[i] = commits[i]
    /\ DOMAIN commits' \subseteq DOMAIN commits \cup {lastId + 1}
    /\ lastId' \in {lastId, lastId + 1} /\ lastId \in Nat /\ DOMAIN commits \subseteq 1 .. lastId

LEMMA CommitsStay ==
  ASSUME Inv, Next
  PROVE  CommitsStayed
<1>0. lastId \in Nat /\ DOMAIN commits \subseteq 1 .. lastId
  BY DEF Inv, Types, TypeOK
<1>1. CASE UNCHANGED <<commits, lastId>>
  BY <1>0, <1>1 DEF CommitsStayed
<1>2. CASE DropCommits
  BY <1>0, <1>2, DropsRows DEF CommitsStayed
<1>3. ASSUME NEW w \in Writer, Cas(w) PROVE CommitsStayed
  BY <1>0, <1>3, CasPuts DEF Puts, CommitsStayed
<1> QED
  BY <1>1, <1>2, <1>3, CommitSteps

-----------------------------------------------------------------------------
(* Histories.                                                              *)

\* a history is what the closure says; a ref without a row has none
LEMMA PastIs ==
  ASSUME NEW S
  PROVE  /\ S \cap DOMAIN commits = {} => Closure(S) = {}
         /\ Closure(S) \subseteq DOMAIN commits
<1>1. ASSUME S \cap DOMAIN commits = {} PROVE Closure(S) \subseteq {}
  BY <1>1, ClosureLeast DEF Closed
<1> QED
  BY <1>1 DEF Closure

LEMMA ClosureGrows ==
  ASSUME NEW S, NEW T, S \cap DOMAIN commits \subseteq Closure(T)
  PROVE  Closure(S) \subseteq Closure(T)
<1>1. Closure(T) \in SUBSET DOMAIN commits /\ Closed(Closure(T))
  BY ClosureClosed DEF Closure
<1> QED
  BY <1>1, ClosureLeast

\* what a set of commits leads to is what each of them leads to
LEMMA ClosureOfEach ==
  ASSUME NEW S
  PROVE  Closure(S) = UNION {Closure({s}) : s \in S}
<1> DEFINE each == UNION {Closure({s}) : s \in S}
<1>1. Closure(S) \subseteq each
  <2>1. each \in SUBSET DOMAIN commits
    BY DEF Closure
  <2>2. S \cap DOMAIN commits \subseteq each
    <3>1. \A s \in S \cap DOMAIN commits : s \in Closure({s})
      BY ClosureHas
    <3> QED
      BY <3>1
  <2>3. Closed(each)
    <3>1. \A s \in S : Closed(Closure({s}))
      BY ClosureClosed
    <3> QED
      BY <3>1 DEF Closed
  <2> HIDE DEF each
  <2> QED
    BY <2>1, <2>2, <2>3, ClosureLeast
<1>2. ASSUME NEW s \in S PROVE Closure({s}) \subseteq Closure(S)
  <2>1. {s} \cap DOMAIN commits \subseteq Closure(S)
    BY ClosureHas
  <2> QED
    BY <2>1, ClosureGrows
<1> QED
  BY <1>1, <1>2

PastsAre ==
    /\ Past \in [Ref -> SUBSET DOMAIN commits]
    /\ \A r \in Ref : Lineage(r) = Past[Mount] \cup Past[r]
    /\ Closure(Tips) = UNION {Past[r] : r \in Ref}

LEMMA Pasts == Types => PastsAre
<1> SUFFICES ASSUME Types PROVE PastsAre
  OBVIOUS
<1>1. Past \in [Ref -> SUBSET DOMAIN commits]
  BY DEF Past, Closure
<1>2. ASSUME NEW r \in Ref PROVE Lineage(r) = Past[Mount] \cup Past[r]
  <2> DEFINE T == {tip[Mount], tip[r]}
  <2>1. Closure(T) = UNION {Closure({s}) : s \in T}
    BY ClosureOfEach
  <2>2. UNION {Closure({s}) : s \in T} = Closure({tip[Mount]}) \cup Closure({tip[r]})
    OBVIOUS
  <2> QED
    BY <2>1, <2>2 DEF Lineage, Past, Ref
<1>3. Closure(Tips) = UNION {Past[r] : r \in Ref}
  <2>1. 0 \notin DOMAIN commits
    BY DEF Types, TypeOK
  <2>2. \A r \in Ref : tip[r] = 0 => Past[r] = {}
    BY <2>1, PastIs DEF Past
  <2>3. Closure(Tips) = UNION {Closure({s}) : s \in Tips}
    BY ClosureOfEach
  <2>4. UNION {Closure({s}) : s \in Tips} = UNION {Past[r] : r \in Ref}
    BY <2>2 DEF Tips, Past
  <2> QED
    BY <2>3, <2>4
<1> QED
  BY <1>1, <1>2, <1>3 DEF PastsAre

\* a commit with its parent's history
LEMMA PutPasts ==
  ASSUME Inv, NEW w \in Writer, Puts(w)
  PROVE  \A r \in Ref : Past'[r] = Past[r] \cup (IF r = writer[w].ref THEN {lastId + 1} ELSE {})
<1> DEFINE q == writer[w].ref
           id == lastId + 1
<1>0. /\ q \in Ref /\ id \notin DOMAIN commits /\ tip[q] \in DOMAIN commits
      /\ DOMAIN commits' = DOMAIN commits \cup {id} /\ commits'[id].parents = {tip[q]}
      /\ \A i \in DOMAIN commits : commits'[i] = commits[i]
      /\ tip' = [tip EXCEPT ![q] = id] /\ tip \in [Ref -> Nat]
      /\ lastId \in Nat /\ \A r \in Ref : tip[r] # id
      /\ \A i \in DOMAIN commits : id \notin commits[i].parents
  <2>1. lastId \in Nat /\ tip \in [Ref -> 0 .. lastId] /\ \A i \in DOMAIN commits : commits[i].parents \subseteq 1 .. lastId
    BY DEF Inv, Types, TypeOK
  <2> QED
    BY <2>1 DEF Puts
<1> HIDE DEF id, q
<1> SUFFICES ASSUME NEW r \in Ref
             PROVE  Closure({tip[r]})' = Closure({tip[r]}) \cup (IF r = q THEN {id} ELSE {})
  BY DEF Past, q, id
<1> PICK new : new = Closure({tip[r]}) \cup (IF r = q THEN {id} ELSE {})
  OBVIOUS
\* the set is closed and has the tip
<1>1. Closure({tip[r]})' \subseteq new
  <2>1. Closed(Closure({tip[r]})) /\ Closure({tip[r]}) \subseteq DOMAIN commits
        /\ {tip[r]} \cap DOMAIN commits \subseteq Closure({tip[r]})
    BY ClosureClosed, ClosureHas DEF Closure
  <2>2. new \in SUBSET DOMAIN commits'
    BY <1>0, <2>1
  <2>3. {tip'[r]} \cap DOMAIN commits' \subseteq new
    BY <1>0, <2>1
  <2>4. ASSUME NEW i \in new PROVE commits'[i].parents \cap DOMAIN commits' \subseteq new
    <3>1. CASE i = id
      BY <1>0, <2>1, <2>4, <3>1
    <3>2. CASE i # id
      <4>1. i \in Closure({tip[r]}) /\ commits'[i].parents = commits[i].parents /\ id \notin commits[i].parents
        BY <1>0, <2>1, <2>4, <3>2
      <4>2. commits[i].parents \cap DOMAIN commits \subseteq Closure({tip[r]})
        BY <2>1, <4>1 DEF Closed
      <4> QED
        BY <1>0, <4>1, <4>2
    <3> QED
      BY <3>1, <3>2
  <2> QED
    BY <2>2, <2>3, <2>4 DEF Closure, Closed
\* any other closed set that has the tip contains it
<1>2. ASSUME NEW K \in SUBSET DOMAIN commits', {tip'[r]} \cap DOMAIN commits' \subseteq K, Closed(K)'
      PROVE  new \subseteq K
  <2> DEFINE L == K \ {id}
  <2>1. L \in SUBSET DOMAIN commits /\ Closed(L)
    BY <1>0, <1>2 DEF Closed
  <2>2. {tip[r]} \cap DOMAIN commits \subseteq L /\ (r = q => id \in K)
    BY <1>0, <1>2 DEF Closed
  <2>3. Closure({tip[r]}) \subseteq L
    BY <2>1, <2>2, ClosureLeast
  <2> QED
    BY <2>2, <2>3
<1>3. new \subseteq DOMAIN commits'
  BY <1>0 DEF Closure
<1> QED
  BY <1>1, <1>2, <1>3 DEF Closure

\* a batch takes no commit with a history that stays
LEMMA DropPasts ==
  ASSUME Inv, DropCommits
  PROVE  Past' = Past
<1>1. /\ gc.batch \subseteq DOMAIN commits /\ gc.batch \cap Referenced = {}
      /\ \A i \in DOMAIN commits \ gc.batch : commits[i].parents \cap gc.batch = {}
  BY DEF DropCommits, Inv, Rows, BatchApart
<1>2. commits' = [i \in DOMAIN commits \ gc.batch |-> commits[i]] /\ UNCHANGED tip
  BY <1>1 DEF DropCommits, Removed, refs
<1>3. DOMAIN commits' = DOMAIN commits \ gc.batch /\ \A i \in DOMAIN commits' : commits'[i] = commits[i]
  BY <1>2
<1> SUFFICES ASSUME NEW r \in Ref PROVE Closure({tip[r]})' = Closure({tip[r]})
  BY DEF Past
<1>4. tip[r] \notin gc.batch
  BY <1>1 DEF Referenced
<1>5. ASSUME NEW K \in SUBSET DOMAIN commits', {tip'[r]} \cap DOMAIN commits' \subseteq K, Closed(K)'
      PROVE  Closure({tip[r]}) \subseteq K
  <2>1. K \in SUBSET DOMAIN commits /\ Closed(K) /\ {tip[r]} \cap DOMAIN commits \subseteq K
    BY <1>1, <1>2, <1>3, <1>4, <1>5 DEF Closed
  <2> QED
    BY <2>1, ClosureLeast
<1>6. ASSUME NEW K \in SUBSET DOMAIN commits, {tip[r]} \cap DOMAIN commits \subseteq K, Closed(K)
      PROVE  Closure({tip[r]})' \subseteq K
  <2> PICK L : L = K \cap DOMAIN commits'
    OBVIOUS
  <2>1. L \in SUBSET DOMAIN commits' /\ Closed(L)' /\ {tip'[r]} \cap DOMAIN commits' \subseteq L
    BY <1>2, <1>3, <1>6 DEF Closed
  <2>2. Closure({tip[r]})' \subseteq L
    BY <2>1 DEF Closure
  <2> QED
    BY <2>2
<1>7. Closure({tip[r]})' \subseteq DOMAIN commits
  BY <1>3 DEF Closure
<1>8. Closure({tip[r]}) \subseteq DOMAIN commits'
  <2> PICK D : D = DOMAIN commits'
    OBVIOUS
  <2>1. Closed(D)' /\ tip' = tip
    BY <1>2 DEF Closed
  <2> QED
    BY <2>1, <1>5
<1>9. Closure({tip[r]}) \subseteq Closure({tip[r]})'
  BY <1>5, <1>8 DEF Closure
<1>10. Closure({tip[r]})' \subseteq Closure({tip[r]})
  BY <1>6, <1>7 DEF Closure
<1> QED
  BY <1>9, <1>10

\* what a step does to the histories
Grows == \E q \in Ref : \A r \in Ref : Past'[r] = Past[r] \cup (IF r = q THEN {lastId + 1} ELSE {})
Forks ==
    \E b \in Branch :
        Past[b] = {} /\ \A r \in Ref : Past'[r] = (IF r = b THEN Past[Mount] ELSE Past[r])
Drops == Past'[Mount] = Past[Mount] /\ \A r \in Ref : Past'[r] \in {Past[r], {}}

LEMMA PastSteps ==
  ASSUME Inv, Next
  PROVE  Grows \/ Forks \/ Drops
<1>1. ASSUME UNCHANGED <<commits, tip>> PROVE Drops
  BY <1>1 DEF Drops, Past, Closure, Closed, Ref
<1>2. ASSUME NEW w \in Writer, WriterStep(w) PROVE Grows \/ Drops
  <2>1. CASE Cas(w)
    <3>1. CASE Puts(w)
      <4>1. writer[w].ref \in Ref
        BY <3>1 DEF Puts
      <4> QED
        BY <3>1, <4>1, PutPasts DEF Grows
    <3> QED
      BY <2>1, <3>1, <1>1, CasPuts
  <2>2. CASE ~Cas(w)
    BY <1>1, <1>2, <2>2 DEF WriterStep, Lock, EnsureStorage, ConfirmStored, LoadRef, LoadHeads, InsertBlob, FindBlob, InsertTree,
       FindTree, InsertCommit, Tables, rows, refs
  <2> QED
    BY <2>1, <2>2
<1>3. ASSUME NEW w \in Writer, WriterCrash(w) \/ \E r \in Ref, x \in Content : Begin(w, r, x) PROVE Drops
  BY <1>1, <1>3 DEF WriterCrash, Begin, Tables, rows, refs
<1>4. ASSUME NEW b \in Branch, Fork(b) PROVE Forks
  <2>1. tip' = [tip EXCEPT ![b] = tip[Mount]] /\ commits' = commits /\ tip \in [Ref -> Nat]
    BY <1>4 DEF Fork, rows, Inv, Types, TypeOK
  <2>2. \A r \in Ref : Past'[r] = (IF r = b THEN Past[Mount] ELSE Past[r])
    BY <2>1 DEF Past, Closure, Closed, Ref
  <2>3. tip[b] = 0 /\ 0 \notin DOMAIN commits /\ b \in Ref
    BY <1>4 DEF Fork, Inv, Types, TypeOK, Ref
  <2>4. Past[b] = {}
    BY <2>3, PastIs DEF Past
  <2> QED
    BY <2>2, <2>4 DEF Forks
<1>5. CASE (\E b \in Branch : Discard(b)) \/ (\E x \in Large : TargetPut(x))
  BY <1>1, <1>5 DEF Discard, TargetPut, rows, refs
<1>6. CASE DropBranches
  <2>1. /\ commits' = commits /\ Mount \notin gc.expired /\ 0 \notin DOMAIN commits
        /\ tip' = [r \in Ref |-> IF r \in gc.expired THEN 0 ELSE tip[r]]
    BY <1>6, GcAssumption DEF DropBranches, rows, Inv, Types, TypeOK, GcTypes
  <2>2. ASSUME NEW r \in Ref PROVE Past'[r] = (IF r \in gc.expired THEN {} ELSE Past[r])
    <3>1. CASE r \in gc.expired
      <4>1. tip'[r] = 0 /\ commits' = commits
        BY <2>1, <3>1
      <4>2. Closure({tip[r]})' = Closure({0})
        BY <4>1 DEF Closure, Closed
      <4>3. Closure({0}) = {}
        BY <2>1, PastIs
      <4> QED
        BY <3>1, <4>2, <4>3 DEF Past
    <3>2. CASE r \notin gc.expired
      BY <2>1, <3>2 DEF Past, Closure, Closed
    <3> QED
      BY <3>1, <3>2
  <2> QED
    BY <2>1, <2>2 DEF Drops, Ref
<1>7. CASE DropCommits
  BY <1>7, DropPasts DEF Drops
<1>8. CASE GcStart \/ (GcStep /\ ~DropBranches /\ ~DropCommits) \/ GcCrash \/ LeakEnds
  BY <1>1, <1>8 DEF GcStart, GcStep, GcCrash, PickBranches, PickCommits, PickTrees, DropTrees,
     PickBlobs, DropBlobs, ListObjects, KnownObjects, DeleteObject, Unlock, UnlockFails, LeakEnds, rows, refs
<1> QED
  BY <1>2, <1>3, <1>4, <1>5, <1>6, <1>7, <1>8 DEF Next, GcStep

LEMMA PrivateStays ==
  ASSUME Inv, Private, Next
  PROVE  Private'
<1>1. PastsAre /\ lastId + 1 \notin DOMAIN commits
  BY Pasts DEF Inv, Types, TypeOK
<1>2. \A b \in Branch : b \in Ref /\ b # Mount
  BY GcAssumption DEF Ref
<1>3. Mount \in Ref /\ \A r \in Ref : lastId + 1 \notin Past[r]
  BY <1>1 DEF PastsAre, Ref
<1>4. CASE Grows
  BY <1>2, <1>3, <1>4 DEF Grows, Private
<1>5. CASE Forks
  BY <1>2, <1>3, <1>5 DEF Forks, Private
<1>6. CASE Drops
  BY <1>2, <1>3, <1>6 DEF Drops, Private
<1> QED
  BY <1>4, <1>5, <1>6, PastSteps

\* what a session sees it goes on seeing, unless GC dropped the branch and took the commit
LEMMA LineageStays ==
  ASSUME Inv, Inv', Private, Next, NEW r \in Ref, NEW i \in Lineage(r), i \in Closure(Tips)'
  PROVE  i \in Lineage(r)'
<1>1. PastsAre /\ PastsAre'
  BY Pasts, PTL DEF Inv
<1>2. i \in Past[Mount] \cup Past[r]
  BY <1>1 DEF PastsAre
<1>3. Mount \in Ref /\ \A b \in Ref : b # Mount => b \in Branch
  BY DEF Ref
<1>4. PICK q \in Ref : i \in Past'[q]
  BY <1>1 DEF PastsAre
<1>5. CASE Grows
  BY <1>2, <1>3, <1>5, <1>1 DEF Grows, PastsAre
<1>6. CASE Forks
  <2>1. PICK b \in Branch : Past[b] = {} /\ \A s \in Ref : Past'[s] = (IF s = b THEN Past[Mount] ELSE Past[s])
    BY <1>6 DEF Forks
  <2>2. Past'[Mount] = Past[Mount]
    BY <2>1, <1>3
  <2>3. i \in Past'[Mount] \cup Past'[r]
    <3>1. CASE r = b
      BY <1>2, <2>1, <2>2, <3>1
    <3>2. CASE r # b
      BY <1>2, <2>1, <2>2, <3>2
    <3> QED
      BY <3>1, <3>2
  <2> QED
    BY <2>3, <1>1 DEF PastsAre
<1>7. CASE Drops
  <2>1. i \in Past'[Mount] \cup Past'[r]
    BY <1>2, <1>3, <1>4, <1>7 DEF Drops, Private
  <2> QED
    BY <2>1, <1>1 DEF PastsAre
<1> QED
  BY <1>5, <1>6, <1>7, PastSteps

-----------------------------------------------------------------------------
(* verify, from one statement to the next.                                 *)

LEMMA InitRInv == ReadsInit => RInv
<1> SUFFICES ASSUME ReadsInit PROVE RInv
  OBVIOUS
<1>1. Inv
  BY InitInv DEF ReadsInit, AuditInit
<1>2. AuditTypes /\ Compared
  BY DEF ReadsInit, AuditInit, NoAudit, AuditTypes, AuditPc, Compared, Reads
<1>3. Private
  <2>1. 0 \notin DOMAIN commits /\ \A b \in Branch : b \in Ref /\ tip[b] = 0
    BY <1>1, GcAssumption DEF ReadsInit, AuditInit, Init, Inv, Types, TypeOK, Ref
  <2>2. \A b \in Branch : Past[b] = {}
    BY <2>1, PastIs DEF Past
  <2> QED
    BY <2>2 DEF Private
<1>4. lost = FALSE /\ Fits(reader)
  BY DEF ReadsInit, NoRead, Fits, ReadPc, Ref, PinsAreTrue, PinsAreHeld, Wants, TipInLineage, Whole, Answered
<1> QED
  BY <1>1, <1>2, <1>3, <1>4 DEF RInv

\* the tables between two statements of a call
Observed == Inv /\ Private

LEMMA StillObserved ==
  ASSUME Observed, UNCHANGED vars
  PROVE  Observed'
<1>1. Inv'
  BY StepInv DEF Observed
<1>2. Private'
  BY DEF Observed, Private, Past, Closure, Closed, vars, rows, refs
<1> QED
  BY <1>1, <1>2 DEF Observed

LEMMA AuditKeeps ==
  ASSUME Inv, AuditTypes, Compared, AuditStep
  PROVE  AuditTypes' /\ Compared'
<1>v. UNCHANGED vars
  BY DEF AuditStep, AuditCommits, AuditParents, AuditRefs, AuditEntries, AuditHeads, AuditBlobs, AuditObject,
     AuditReports, Read, Compare
<1>u. UNCHANGED <<commits, tip, blobs>>
  BY <1>v DEF vars, rows, refs
\* a comparison ends: nothing is kept for the next
<1>c. ASSUME NEW pc \in {"refs", "blobs", "commits"}, NEW found, Compare(pc, found)
      PROVE  AuditTypes' /\ Compared'
  BY <1>c DEF Compare, NoAudit, AuditTypes, AuditPc, Compared, Reads
<1>1. CASE AuditCommits
  <2>1. PICK sample \in SUBSET DOMAIN commits :
          Read([NoAudit EXCEPT !.pc = "parents", !.parents = [i \in sample |-> commits[i].parents]])
    BY <1>1 DEF AuditCommits
  <2>2. \A i \in sample : commits[i].parents \subseteq DOMAIN commits
    BY DEF Inv, Rows, NothingDangles
  <2>3. /\ audit'.pc = "parents" /\ audit'.parents = [i \in sample |-> commits[i].parents]
        /\ AuditTypes'
    BY <2>1 DEF Read, NoAudit, AuditTypes, AuditPc
  <2> QED
    BY <1>u, <2>2, <2>3 DEF Compared, Reads
<1>2. CASE AuditParents
  BY <1>2, <1>c DEF AuditParents
<1>3. CASE AuditRefs
  <2>1. audit' = [NoAudit EXCEPT !.pc = "entries", !.refs = {r \in Ref : tip[r] # 0}]
    BY <1>3 DEF AuditRefs, Read
  <2> QED
    BY <1>u, <2>1 DEF NoAudit, AuditTypes, AuditPc, Compared, Reads
<1>4. CASE AuditEntries
  <2> DEFINE expected == [r \in Ref |-> IF tip[r] = 0 THEN {} ELSE commits[tip[r]].tree]
  <2>1. audit' = [audit EXCEPT !.pc = "heads", !.expected = expected] /\ during' = during /\ Reads("entries")
    BY <1>4 DEF AuditEntries, Read
  <2>2. expected \in [Ref -> SUBSET Content]
    BY DEF Inv, Types, TypeOK, Rows, NothingDangles
  <2>3. AuditTypes'
    BY <2>1, <2>2 DEF AuditTypes, AuditPc
  <2>4. audit'.pc = "heads" /\ audit'.refs = audit.refs /\ audit'.expected = expected
    BY <2>1 DEF AuditTypes
  <2> QED
    BY <1>u, <2>1, <2>3, <2>4 DEF Compared, Reads, TreeAtTip
<1>5. CASE AuditHeads
  BY <1>5, <1>c DEF AuditHeads
<1>6. CASE AuditBlobs
  <2>1. PICK sample \in SUBSET (blobs \cap Large) : Read([NoAudit EXCEPT !.pc = "store", !.blobs = sample])
    BY <1>6 DEF AuditBlobs
  <2>2. audit'.pc = "store" /\ audit'.blobs = sample /\ AuditTypes'
    BY <2>1 DEF Read, NoAudit, AuditTypes, AuditPc
  <2> QED
    BY <1>u, <2>2 DEF Compared, Reads
<1>7. ASSUME NEW x \in Large, AuditObject(x) PROVE AuditTypes' /\ Compared'
  <2>1. PICK found : audit' = [audit EXCEPT !.blobs = @ \ {x}, !.found = @ \cup found]
    BY <1>7 DEF AuditObject, Read
  <2>2. during' = during /\ Reads("store")
    BY <1>7 DEF AuditObject, Read
  <2>3. AuditTypes' /\ audit'.pc = audit.pc /\ audit'.blobs = audit.blobs \ {x}
    BY <2>1 DEF AuditTypes
  <2> QED
    BY <1>u, <2>2, <2>3 DEF Compared, Reads
<1>8. CASE AuditReports
  BY <1>8, <1>c DEF AuditReports
<1> QED
  BY <1>1, <1>2, <1>3, <1>4, <1>5, <1>6, <1>7, <1>8 DEF AuditStep

\* what a step of somebody else takes away is on the list
LEMMA NextKeepsAudit ==
  ASSUME Inv, Inv', AuditTypes, Compared, Next, audit' = audit, during' = during \cup Changes
  PROVE  AuditTypes' /\ Compared'
<1>1. AuditTypes'
  BY DEF AuditTypes
<1>2. CASE Reads("parents")
  <2>1. during' = during \cup (DOMAIN commits \ DOMAIN commits')
    BY <1>2 DEF Reads, Changes
  <2>2. \A i \in DOMAIN audit.parents : audit.parents[i] \subseteq DOMAIN commits' \cup during'
    BY <1>2, <2>1 DEF Compared
  <2> QED
    BY <1>1, <1>2, <2>2 DEF Compared, Reads
<1>3. CASE Reads("entries") \/ Reads("heads")
  <2>1. during' = during \cup {r \in Ref : <<tip'[r], heads'[r]>> # <<tip[r], heads[r]>>}
    BY <1>3 DEF Reads, Changes
  <2>2. \A r \in Ref \ during' : tip'[r] = tip[r]
    BY <2>1
  <2>3. ASSUME NEW r \in Ref \ during' PROVE TreeAtTip(r)' = TreeAtTip(r)
    <3>1. tip'[r] = tip[r] /\ (tip[r] # 0 => tip[r] \in DOMAIN commits \cap DOMAIN commits')
      BY <2>2 DEF Inv, Rows, NothingDangles
    <3> QED
      BY <3>1, CommitsStay DEF CommitsStayed, TreeAtTip
  <2> QED
    BY <1>1, <1>3, <2>1, <2>2, <2>3 DEF Compared, Reads
<1>4. CASE Reads("store")
  BY <1>1, <1>4 DEF Reads, Changes, Compared
<1>5. CASE audit.pc \notin {"parents", "entries", "heads", "store"}
  BY <1>1, <1>5 DEF Compared, Reads
<1> QED
  BY <1>1, <1>2, <1>3, <1>4, <1>5 DEF Reads

-----------------------------------------------------------------------------
(* A read, from one statement to the next.                                 *)

\* no row dangles, so a join drops nothing
LEMMA EntriesAre ==
  ASSUME Inv, NEW i
  PROVE  Entries(i) = IF i \in DOMAIN commits THEN commits[i].tree ELSE {}
  BY DEF Entries, Inv, Rows, NothingDangles

LEMMA StepFits ==
  ASSUME NEW k, Fits(k), Step(k)
  PROVE  Fits(reader)'
<1>1. UNCHANGED <<commits, lastId, tip, lost>> /\ reader' = k
  BY DEF Step, auditVars, vars, rows, refs
<1>2. Closure(Tips)' = Closure(Tips) /\ \A r \in Ref : Lineage(r)' = Lineage(r)
  BY <1>1 DEF Closure, Closed, Tips, Lineage
<1>3. PinsAreTrue(reader)' /\ PinsAreHeld(reader)' /\ Wants(reader)' /\ Whole(reader)'
  BY <1>1, <1>2 DEF Fits, PinsAreTrue, PinsAreHeld, Wants, Whole, Answered
<1>4. TipInLineage(reader)'
  BY <1>1, <1>2 DEF Fits, TipInLineage
<1> QED
  BY <1>1, <1>3, <1>4 DEF Fits

\* the read goes on with what it has
LEMMA GoesFits ==
  ASSUME Fits(reader), NEW pc \in {"served", "notFound", "storage"}, Goes(pc), ~Ended,
         lost \/ pc = "served"
  PROVE  Fits(reader)'
<1> DEFINE k == [reader EXCEPT !.pc = pc]
<1>1. /\ k.pc = pc /\ k.ref = reader.ref /\ k.ids = reader.ids /\ k.content = reader.content
      /\ k.wanted = reader.wanted /\ k.got = reader.got /\ reader.got = {}
      /\ k \in [pc : ReadPc, ref : Ref, ids : {k.ids}, content : Content \cup {NoContent},
                wanted : {k.wanted}, got : {k.got}]
  BY DEF Fits, Whole, Answered, Ended, ReadPc
<1>2. Step(k)
  BY DEF Goes
<1> HIDE DEF k
<1>3. Fits(k)
  BY <1>1 DEF Fits, PinsAreTrue, PinsAreHeld, Wants, TipInLineage, Whole, Answered
<1> QED
  BY <1>2, <1>3, StepFits

\* commits that are there now, and that a ref leads to
LEMMA TreesAre ==
  ASSUME Inv, NEW S \in SUBSET DOMAIN commits
  PROVE  /\ Trees(S) \subseteq (1 .. lastId) \X SUBSET Content
         /\ \A pin \in Trees(S) : pin[1] \in S /\ pin[2] = commits[pin[1]].tree
         /\ S = {pin[1] : pin \in Trees(S)}
         /\ \A i \in S : <<i, commits[i].tree>> \in Trees(S)
<1>1. \A i \in DOMAIN commits : i \in 1 .. lastId /\ commits[i].tree \in SUBSET Content
  BY DEF Inv, Types, TypeOK
<1>2. ASSUME NEW pin \in Trees(S)
      PROVE  pin[1] \in S /\ pin[2] = commits[pin[1]].tree /\ pin \in (1 .. lastId) \X SUBSET Content
  <2>1. PICK i \in S : pin = <<i, commits[i].tree>>
    BY <1>2 DEF Trees
  <2> QED
    BY <1>1, <2>1
<1>3. \A i \in S : <<i, commits[i].tree>> \in Trees(S) /\ <<i, commits[i].tree>>[1] = i
  BY DEF Trees
<1> QED
  BY <1>2, <1>3

LEMMA TipsHeld ==
  ASSUME Inv, NEW r \in Ref
  PROVE  /\ Lineage(r) \subseteq Closure(Tips)
         /\ tip[r] # 0 => tip[r] \in Lineage(r) /\ tip[r] \in Closure(Tips)
         /\ Closure({tip[r]}) \subseteq Closure(Tips)
         /\ Closure(Tips) \subseteq DOMAIN commits
<1>1. PastsAre /\ Mount \in Ref
  BY Pasts DEF Inv, Ref
<1>2. tip[r] # 0 => tip[r] \in DOMAIN commits
  BY DEF Inv, Rows, NothingDangles
<1>3. tip[r] # 0 => tip[r] \in Past[r]
  BY <1>2, ClosureHas DEF Past
<1> QED
  BY <1>1, <1>3 DEF PastsAre, Past, Closure

\* PinnedRef, ResolveCommit
LEMMA ResolvedFits ==
  ASSUME Inv, NEW i \in Closure(Tips), Resolved(i)
  PROVE  Fits(reader)'
<1> DEFINE k == [NoRead EXCEPT !.pc = "tree", !.ids = {i}, !.wanted = Trees({i})]
<1>1. /\ k.pc = "tree" /\ k.ref = Mount /\ k.ids = {i} /\ k.content = NoContent
      /\ k.wanted = Trees({i}) /\ k.got = {}
      /\ k \in [pc : ReadPc, ref : Ref, ids : {k.ids}, content : Content \cup {NoContent},
                wanted : {k.wanted}, got : {k.got}]
  BY DEF NoRead, ReadPc, Ref
<1>2. i \in DOMAIN commits
  BY DEF Closure
<1>3. Step(k)
  BY DEF Resolved
<1> HIDE DEF k
<1>4. Fits(k)
  BY <1>1, <1>2, TreesAre DEF Fits, PinsAreTrue, PinsAreHeld, Wants, TipInLineage, Whole, Answered
<1> QED
  BY <1>3, <1>4, StepFits

\* ReadPinned, ReadHead, StreamHead
LEMMA LookedFits ==
  ASSUME Inv, NEW i, NEW x \in Entries(i), Looked(i, x), ~lost => i \in Closure(Tips)
  PROVE  Fits(reader)'
<1>1. i \in DOMAIN commits /\ x \in commits[i].tree /\ x \in Content
  BY EntriesAre DEF Inv, Types, TypeOK
<1> DEFINE pc == IF x \in Large THEN "get" ELSE "served"
           k == [NoRead EXCEPT !.pc = pc, !.content = x, !.wanted = Trees({i})]
<1>2. /\ k.pc = pc /\ k.ref = Mount /\ k.content = x /\ k.wanted = Trees({i}) /\ k.got = {}
      /\ k \in [pc : ReadPc, ref : Ref, ids : {k.ids}, content : Content \cup {NoContent},
                wanted : {k.wanted}, got : {k.got}]
  BY <1>1 DEF NoRead, ReadPc, Ref
<1>3. Step(k)
  BY DEF Looked
<1>4. pc = "get" => x \in Large /\ \E pin \in Trees({i}) : x \in pin[2]
  <2>1. <<i, commits[i].tree>> \in Trees({i}) /\ <<i, commits[i].tree>>[2] = commits[i].tree
    BY DEF Trees
  <2> QED
    BY <1>1, <2>1
<1>5. pc \in {"get", "served"}
  OBVIOUS
<1> HIDE DEF k, pc
<1>6. Fits(k)
  BY <1>1, <1>2, <1>4, <1>5, TreesAre DEF Fits, PinsAreTrue, PinsAreHeld, Wants, TipInLineage, Whole, Answered
<1> QED
  BY <1>3, <1>6, StepFits

LEMMA SelectTipFits ==
  ASSUME Inv, Fits(reader), NEW r \in Ref, SelectTip(r)
  PROVE  Fits(reader)'
<1> DEFINE k == [reader EXCEPT !.pc = "lineage", !.ref = r, !.ids = {tip[r]}, !.wanted = Trees({tip[r]})]
<1>1. tip[r] \in DOMAIN commits /\ tip[r] \in Closure(Tips) /\ tip[r] \in Lineage(r)
  BY TipsHeld DEF SelectTip, Inv, Rows, NothingDangles
<1>2. /\ k.pc = "lineage" /\ k.ref = r /\ k.ids = {tip[r]} /\ k.content = reader.content
      /\ k.wanted = Trees({tip[r]}) /\ k.got = reader.got /\ reader.got = {}
      /\ k \in [pc : ReadPc, ref : Ref, ids : {k.ids}, content : Content \cup {NoContent},
                wanted : {k.wanted}, got : {k.got}]
  BY DEF SelectTip, Reading, Fits, ReadPc, Whole, Answered
<1>3. Step(k)
  BY DEF SelectTip
<1> HIDE DEF k
<1>4. Fits(k)
  BY <1>1, <1>2, TreesAre DEF Fits, PinsAreTrue, PinsAreHeld, Wants, TipInLineage, Whole, Answered
<1> QED
  BY <1>3, <1>4, StepFits

LEMMA AssertLineageFits ==
  ASSUME Fits(reader), AssertLineage
  PROVE  Fits(reader)'
<1>0. Reading("lineage") /\ reader.ref \in Ref
  BY DEF AssertLineage, Fits
<1>1. CASE reader.ids \subseteq Lineage(reader.ref)
  <2> DEFINE k == [NoRead EXCEPT !.pc = "commits", !.ref = reader.ref]
  <2>1. Fits(k)
    BY <1>0 DEF NoRead, ReadPc, Fits, PinsAreTrue, PinsAreHeld, Wants, TipInLineage, Whole, Answered
  <2>2. Step(k)
    BY <1>1 DEF AssertLineage
  <2> QED
    BY <2>1, <2>2, StepFits
\* only a commit that was lost is not found
<1>2. CASE ~(reader.ids \subseteq Lineage(reader.ref))
  <2>1. lost
    BY <1>0, <1>2 DEF Reading, Fits, TipInLineage
  <2>2. Goes("notFound") /\ ~Ended
    BY <1>0, <1>2 DEF AssertLineage, Reading, Ended
  <2> QED
    BY <2>1, <2>2, GoesFits
<1> QED
  BY <1>1, <1>2

\* readTrees and readTree: the trees of what the read wants
LEMMA AnswerFits ==
  ASSUME Inv, Fits(reader), reader.pc \in {"tree", "changes"},
         Step([reader EXCEPT !.pc = "answer", !.ids = {}, !.got = {<<i, Entries(i)>> : i \in reader.ids}])
  PROVE  Fits(reader)'
<1> DEFINE got == {<<i, Entries(i)>> : i \in reader.ids}
           k == [reader EXCEPT !.pc = "answer", !.ids = {}, !.got = got]
<1>1. /\ k.pc = "answer" /\ k.ids = {} /\ k.wanted = reader.wanted /\ k.got = got
      /\ k \in [pc : ReadPc, ref : Ref, ids : {k.ids}, content : Content \cup {NoContent},
                wanted : {k.wanted}, got : {k.got}]
  BY DEF Fits, ReadPc
<1>2. ASSUME NEW pin \in reader.wanted, pin[1] \in DOMAIN commits PROVE <<pin[1], Entries(pin[1])>> = pin
  <2>1. Entries(pin[1]) = pin[2]
    BY <1>2, EntriesAre DEF Fits, PinsAreTrue
  <2>2. pin \in (1 .. lastId) \X SUBSET Content
    BY DEF Fits, PinsAreTrue
  <2> QED
    BY <2>1, <2>2
<1>3. reader.ids = {pin[1] : pin \in reader.wanted}
  BY DEF Fits, Wants
<1>4. ASSUME NEW g \in got PROVE g[2] = {} \/ g \in reader.wanted
  <2>1. PICK pin \in reader.wanted : g = <<pin[1], Entries(pin[1])>>
    BY <1>3
  <2>2. CASE pin[1] \in DOMAIN commits
    BY <1>2, <2>1, <2>2
  <2>3. CASE pin[1] \notin DOMAIN commits
    BY <2>1, <2>3, EntriesAre
  <2> QED
    BY <2>2, <2>3
<1>5. ASSUME ~lost PROVE got = reader.wanted
  <2>1. \A pin \in reader.wanted : <<pin[1], Entries(pin[1])>> = pin
    BY <1>2, <1>5 DEF Fits, PinsAreHeld, Closure
  <2>2. got = {<<pin[1], Entries(pin[1])>> : pin \in reader.wanted}
    BY <1>3
  <2> QED
    BY <2>1, <2>2
<1> HIDE DEF k, got
<1>6. Fits(k)
  BY <1>1, <1>4, <1>5 DEF Fits, PinsAreTrue, PinsAreHeld, Wants, TipInLineage, Whole, Answered
<1> QED
  BY <1>6, StepFits DEF k, got

\* timeline: the lineage is closed, so it has every parent it names
LEMMA SelectCommitsFits ==
  ASSUME Inv, Fits(reader), SelectCommits
  PROVE  Fits(reader)'
<1> DEFINE found == Closure({tip[reader.ref]})
           k == [reader EXCEPT !.pc = "changes", !.wanted = Trees(found),
                               !.ids = found \cup UNION {commits[i].parents : i \in found}]
<1>0. reader.ref \in Ref /\ reader.got = {} /\ Step(k)
  BY DEF SelectCommits, Reading, Fits, Whole, Answered
<1>1. /\ k.pc = "changes" /\ k.wanted = Trees(found) /\ k.got = {}
      /\ k.ids = found \cup UNION {commits[i].parents : i \in found}
      /\ k \in [pc : ReadPc, ref : Ref, ids : {k.ids}, content : Content \cup {NoContent},
                wanted : {k.wanted}, got : {k.got}]
  BY <1>0 DEF Fits, ReadPc
<1>2. found \subseteq Closure(Tips) /\ found \in SUBSET DOMAIN commits
  BY <1>0, TipsHeld DEF Closure
<1>3. \A i \in found : commits[i].parents \subseteq found
  BY <1>2, ClosureClosed DEF Closed, Inv, Rows, NothingDangles
<1>4. found \cup UNION {commits[i].parents : i \in found} = found
  BY <1>3
<1> HIDE DEF k, found
<1>5. Fits(k)
  BY <1>1, <1>2, <1>4, TreesAre DEF Fits, PinsAreTrue, PinsAreHeld, Wants, TipInLineage, Whole, Answered
<1> QED
  BY <1>0, <1>5, StepFits

LEMMA ReadStepFits ==
  ASSUME Inv, lost \in BOOLEAN, Fits(reader), ReadStep
  PROVE  UNCHANGED auditVars /\ lost' \in BOOLEAN /\ Fits(reader)'
<1> DEFINE Done == UNCHANGED auditVars /\ lost' \in BOOLEAN /\ Fits(reader)'
<1>s. ASSUME NEW k, Step(k) PROVE UNCHANGED auditVars /\ lost' \in BOOLEAN
  BY <1>s DEF Step
<1>1. ASSUME NEW b \in Branch, NEW i \in DOMAIN commits, PinnedRef(b, i) \/ ResolveCommit(b, i) PROVE Done
  <2>1. b \in Ref /\ Mount \in Ref
    BY DEF Ref
  <2>2. i \in Closure(Tips) /\ Resolved(i)
    BY <1>1, <2>1, TipsHeld DEF PinnedRef, ResolveCommit
  <2> QED
    BY <1>s, <2>2, ResolvedFits DEF Resolved
<1>2. ASSUME NEW r \in Ref, SelectTip(r) PROVE Done
  BY <1>s, <1>2, SelectTipFits DEF SelectTip
<1>3. ASSUME NEW r \in Ref, NEW x \in Content, ReadHead(r, x) \/ StreamHead(r, x) PROVE Done
  <2>1. tip[r] \in Closure(Tips) /\ x \in Entries(tip[r]) /\ Looked(tip[r], x)
    BY <1>3, TipsHeld DEF ReadHead, StreamHead
  <2> QED
    BY <1>s, <2>1, LookedFits DEF Looked
<1>4. ASSUME NEW i \in reader.ids, ReadTree(i) PROVE Done
  <2>1. Reading("tree") /\ reader.ids = {i}
    BY <1>4 DEF ReadTree, Reading, Fits, Wants
  <2>2. {<<j, Entries(j)>> : j \in reader.ids} = {<<i, Entries(i)>>}
    BY <2>1
  <2>3. Step([reader EXCEPT !.pc = "answer", !.ids = {}, !.got = {<<j, Entries(j)>> : j \in reader.ids}])
    BY <1>4, <2>2 DEF ReadTree
  <2> QED
    BY <1>s, <2>1, <2>3, AnswerFits DEF Reading
<1>5. ASSUME NEW i \in reader.ids, NEW x \in Content, ReadPinned(i, x) PROVE Done
  <2>1. Reading("tree") /\ \A j \in reader.ids : j = i
    BY <1>5 DEF ReadPinned, Reading, Fits, Wants
  <2>2. \A pin \in reader.wanted : pin[1] = i
    BY <2>1 DEF Reading, Fits, Wants
  <2>3. \E pin \in reader.wanted : x \in pin[2]
    BY <1>5 DEF ReadPinned
  <2>4. ~lost => i \in Closure(Tips)
    BY <2>2, <2>3 DEF Fits, PinsAreHeld
  <2>5. CASE x \in Entries(i) /\ Looked(i, x)
    BY <1>s, <2>4, <2>5, LookedFits DEF Looked
  \* the path is not found: its commit is gone
  <2>6. CASE x \notin Entries(i) /\ Goes("notFound")
    <3>1. i \notin DOMAIN commits
      BY <2>2, <2>3, <2>6, EntriesAre DEF Fits, PinsAreTrue
    <3>2. lost /\ ~Ended
      BY <2>1, <2>4, <3>1 DEF Closure, Reading, Ended
    <3> QED
      BY <1>s, <2>6, <3>2, GoesFits DEF Goes
  <2> QED
    BY <1>5, <2>5, <2>6 DEF ReadPinned
<1>6. CASE GetObject
  <2> DEFINE pc == IF reader.content \in objects THEN "served" ELSE "storage"
  <2>1. Reading("get") /\ ~Ended /\ Goes(pc)
    BY <1>6 DEF GetObject, Reading, Ended
  <2>2. lost \/ pc = "served"
    <3> SUFFICES ASSUME ~lost PROVE reader.content \in objects
      OBVIOUS
    <3>1. reader.content \in Large /\ \E pin \in reader.wanted : reader.content \in pin[2]
      BY <2>1 DEF Reading, Fits, Wants
    <3>2. PICK pin \in reader.wanted : reader.content \in pin[2]
      BY <3>1
    <3>3. pin[1] \in DOMAIN commits /\ commits[pin[1]].tree = pin[2]
      BY DEF Fits, PinsAreTrue, PinsAreHeld, Closure
    <3>4. reader.content \in blobs
      BY <3>2, <3>3 DEF Inv, Rows, NothingDangles
    <3> QED
      BY <3>1, <3>4 DEF Inv, Objects, ObjectsPresent
  <2>3. pc \in {"served", "notFound", "storage"}
    OBVIOUS
  <2> HIDE DEF pc
  <2> QED
    BY <1>s, <2>1, <2>2, <2>3, GoesFits DEF Goes
<1>7. CASE AssertLineage
  BY <1>s, <1>7, AssertLineageFits DEF AssertLineage, Goes
<1>8. CASE History
  <2>1. Goes("served") /\ ~Ended
    BY <1>8 DEF History, Reading, Ended
  <2> QED
    BY <1>s, <2>1, GoesFits DEF Goes
<1>9. CASE SelectCommits
  BY <1>s, <1>9, SelectCommitsFits DEF SelectCommits
<1>10. CASE ReadTrees
  BY <1>s, <1>10, AnswerFits DEF ReadTrees, Reading
<1>11. CASE EndRead
  BY <1>11 DEF EndRead, NoRead, Ref, ReadPc, Fits, PinsAreTrue, PinsAreHeld, Wants, TipInLineage, Whole, Answered
<1> QED
  BY <1>1, <1>2, <1>3, <1>4, <1>5, <1>6, <1>7, <1>8, <1>9, <1>10, <1>11 DEF ReadStep

\* somebody else's step: what a ref leads to, and what is said of a commit, stays
LEMMA NextFits ==
  ASSUME Inv, Inv', Private, lost \in BOOLEAN, Fits(reader), ~Ended, Next, reader' = reader,
         lost' = (lost \/ Gone')
  PROVE  lost' \in BOOLEAN /\ Fits(reader)'
<1>1. CommitsStayed
  BY CommitsStay
<1>2. PinsAreTrue(reader)'
  <2>1. reader.wanted \subseteq (1 .. lastId') \X SUBSET Content
    BY <1>1 DEF CommitsStayed, Fits, PinsAreTrue
  <2>2. ASSUME NEW pin \in reader.wanted, pin[1] \in DOMAIN commits' PROVE commits'[pin[1]].tree = pin[2]
    <3>1. pin[1] \in 1 .. lastId
      BY DEF Fits, PinsAreTrue
    <3>2. pin[1] \in DOMAIN commits
      BY <1>1, <2>2, <3>1 DEF CommitsStayed
    <3> QED
      BY <1>1, <2>2, <3>2 DEF CommitsStayed, Fits, PinsAreTrue
  <2> QED
    BY <2>1, <2>2 DEF PinsAreTrue
<1>3. PinsAreHeld(reader)'
  BY DEF Gone, PinsAreHeld
<1>4. Wants(reader)'
  BY DEF Fits, Wants
<1>5. TipInLineage(reader)'
  <2> SUFFICES ASSUME reader.pc = "lineage", ~lost', NEW i \in reader.ids PROVE i \in Lineage(reader.ref)'
    BY DEF TipInLineage
  <2>1. reader.ref \in Ref /\ i \in Lineage(reader.ref) /\ ~lost
    BY DEF Fits, TipInLineage
  <2>2. PICK pin \in reader.wanted : pin[1] = i
    BY DEF Fits, Wants
  <2>3. i \in Closure(Tips)'
    BY <1>3, <2>2 DEF PinsAreHeld
  <2>4. PICK r \in Ref : r = reader.ref
    BY <2>1
  <2>5. i \in Lineage(r)'
    BY <2>1, <2>3, <2>4, LineageStays
  <2> QED
    BY <2>4, <2>5
<1>6. Whole(reader)'
  BY DEF Ended, Fits, Whole, Answered
<1>7. lost' \in BOOLEAN
  BY DEF Gone
<1> QED
  BY <1>2, <1>3, <1>4, <1>5, <1>6, <1>7 DEF Fits

LEMMA StepRInv ==
  ASSUME RInv, [ReadsNext]_readVars
  PROVE  RInv'
<1> USE DEF RInv
<1>1. ASSUME UNCHANGED auditVars, lost' \in BOOLEAN, Fits(reader)' PROVE RInv'
  <2>1. Inv' /\ Private'
    BY <1>1, StillObserved DEF Observed, auditVars
  <2>2. UNCHANGED <<audit, during, commits, tip, blobs>>
    BY <1>1 DEF auditVars, vars, rows, refs
  <2>3. AuditTypes' /\ Compared'
    BY <2>2 DEF AuditTypes, Compared, Reads, TreeAtTip
  <2> QED
    BY <1>1, <2>1, <2>3
<1>2. ASSUME UNCHANGED <<vars, reader, lost>> PROVE lost' \in BOOLEAN /\ Fits(reader)'
  <2>1. UNCHANGED <<commits, lastId, tip, reader, lost>>
    BY <1>2 DEF vars, rows, refs
  <2>2. Closure(Tips)' = Closure(Tips) /\ \A r \in Ref : Lineage(r)' = Lineage(r)
    BY <2>1 DEF Closure, Closed, Tips, Lineage
  <2> QED
    BY <2>1, <2>2 DEF Fits, PinsAreTrue, PinsAreHeld, Wants, TipInLineage, Whole, Answered
<1>3. CASE ReadStep
  BY <1>1, <1>3, ReadStepFits
<1>4. CASE AuditStep /\ UNCHANGED <<reader, lost>>
  <2>1. UNCHANGED vars
    BY <1>4 DEF AuditStep, AuditCommits, AuditParents, AuditRefs, AuditEntries, AuditHeads, AuditBlobs, AuditObject,
       AuditReports, Read, Compare
  <2>2. Inv' /\ Private'
    BY <2>1, StillObserved DEF Observed
  <2> QED
    BY <1>2, <1>4, <2>1, <2>2, AuditKeeps
<1>5. CASE /\ ~Ended /\ Next /\ UNCHANGED <<audit, reader>>
           /\ during' = during \cup Changes /\ lost' = (lost \/ Gone')
  <2>1. Inv'
    BY <1>5, StepInv
  <2>2. Private'
    BY <1>5, PrivateStays
  <2>3. AuditTypes' /\ Compared'
    BY <1>5, <2>1, NextKeepsAudit
  <2>4. lost' \in BOOLEAN /\ Fits(reader)'
    BY <1>5, <2>1, NextFits
  <2> QED
    BY <2>1, <2>2, <2>3, <2>4
<1>6. CASE UNCHANGED readVars
  BY <1>1, <1>2, <1>6 DEF readVars, auditVars
<1> QED
  BY <1>3, <1>4, <1>5, <1>6 DEF ReadsNext

(* The tables, the collector and the writers, the verify and the read      *)
(* beside them always satisfy the invariant.                               *)
THEOREM ReadsInvariance == ReadsSpec => []RInv
  BY InitRInv, StepRInv, PTL DEF ReadsSpec

(* A pin, a diff, a timeline or a download that takes several statements is*)
(* still the read of the commits it named first, as long as some ref leads *)
(* to them, for any number of writers and branches around it; and never is *)
(* a part of a tree taken for it.                                          *)
THEOREM ReadsStayWhole == ReadsSpec => []ReadsAreWhole
<1>1. RInv => ReadsAreWhole
  BY DEF RInv, Fits, Whole, ReadsAreWhole, Reading
<1> QED
  BY <1>1, ReadsInvariance, PTL

-----------------------------------------------------------------------------
(* The verdicts of verify.                                                 *)

\* while verify compares, only verify changes what it has
LEMMA AuditMoves ==
  ASSUME [ReadsNext]_readVars, audit' # audit
  PROVE  AuditStep
  BY DEF ReadsNext, readVars, auditVars, ReadStep, PinnedRef, ResolveCommit, Resolved, SelectTip, ReadHead, StreamHead,
     Looked, ReadTree, ReadPinned, GetObject, AssertLineage, History, SelectCommits, ReadTrees, EndRead, Goes, Step

LEMMA DanglingStep ==
  ASSUME RInv, [ReadsNext]_readVars, Reads("parents"), Reads("refs")'
  PROVE  /\ \A f \in Reported("dangling-parent") : f.parent \in during
         /\ \A f \in Reported("commit-hash-drift") :
               \E g \in Reported("dangling-parent") : g.commit = f.commit
<1>1. AuditParents
  <2>1. AuditStep
    BY AuditMoves DEF Reads
  <2> QED
    BY <2>1 DEF AuditStep, AuditCommits, AuditRefs, AuditEntries, AuditHeads, AuditBlobs, AuditObject, AuditReports, Reads
<1> DEFINE sample == DOMAIN audit.parents
           missing == {m \in sample \X (1 .. lastId) :
                          m[2] \in audit.parents[m[1]] \ (sample \cup DOMAIN commits)}
           dangling(m) == [kind |-> "dangling-parent", commit |-> m[1], parent |-> m[2]]
           drift(m) == [kind |-> "commit-hash-drift", commit |-> m[1]]
<1>2. audit'.found = {dangling(m) : m \in missing} \cup {drift(m) : m \in missing}
  BY <1>1 DEF AuditParents, Compare, NoAudit
<1>3. ASSUME NEW m \in missing PROVE m[2] \in during
  BY <1>3 DEF RInv, Compared
<1> HIDE DEF missing
<1>4. ASSUME NEW f \in Reported("dangling-parent") PROVE f.parent \in during
  <2>1. f \in audit'.found /\ f.kind = "dangling-parent"
    BY <1>4 DEF Reported
  <2>2. PICK m \in missing : f = dangling(m) \/ f = drift(m)
    BY <1>2, <2>1
  <2>3. f = dangling(m)
    BY <2>1, <2>2
  <2> QED
    BY <1>3, <2>3
<1>5. ASSUME NEW f \in Reported("commit-hash-drift")
      PROVE  \E g \in Reported("dangling-parent") : g.commit = f.commit
  <2>1. f \in audit'.found /\ f.kind = "commit-hash-drift"
    BY <1>5 DEF Reported
  <2>2. PICK m \in missing : f = dangling(m) \/ f = drift(m)
    BY <1>2, <2>1
  <2>3. f = drift(m)
    BY <2>1, <2>2
  <2>4. dangling(m) \in Reported("dangling-parent") /\ dangling(m).commit = f.commit
    BY <1>2, <2>3 DEF Reported
  <2> QED
    BY <2>4
<1> QED
  BY <1>4, <1>5

(* verify reports a missing parent, and the hash it cannot recompute       *)
(* without it, only when GC deleted that parent between two statements.    *)
THEOREM DanglingIsCollected == ReadsSpec => DanglingMeansCollected
<1>1. RInv /\ [ReadsNext]_readVars =>
        [Reads("parents") /\ Reads("refs")' =>
          /\ \A f \in Reported("dangling-parent") : f.parent \in during
          /\ \A f \in Reported("commit-hash-drift") :
                \E g \in Reported("dangling-parent") : g.commit = f.commit]_auditVars
  BY DanglingStep
<1> QED
  BY <1>1, ReadsInvariance, PTL DEF ReadsSpec, DanglingMeansCollected

LEMMA DriftStep ==
  ASSUME RInv, [ReadsNext]_readVars, Reads("heads"), Reads("blobs")'
  PROVE  /\ Suspects("heads-drift") = {r \in Ref \ during : tip[r] # 0 /\ heads[r] # commits[tip[r]].tree}
         /\ Suspects("orphaned-head") = {r \in Ref \ during : tip[r] = 0 /\ heads[r] # {}}
<1>1. AuditHeads
  <2>1. AuditStep
    BY AuditMoves DEF Reads
  <2> QED
    BY <2>1 DEF AuditStep, AuditCommits, AuditParents, AuditRefs, AuditEntries, AuditBlobs, AuditObject, AuditReports, Reads
<1>2. audit'.found = Drift \cup Orphans
  BY <1>1 DEF AuditHeads, Compare, NoAudit
<1>3. /\ audit.refs \subseteq Ref
      /\ \A r \in Ref \ during : (r \in audit.refs <=> tip[r] # 0) /\ audit.expected[r] = TreeAtTip(r)
  BY DEF RInv, AuditTypes, Compared, Reads
<1> DEFINE drift(r) == [kind |-> "heads-drift", ref |-> r]
           orphan(r) == [kind |-> "orphaned-head", ref |-> r]
           drifting == {q \in audit.refs : heads[q] # audit.expected[q]}
           orphaned == {q \in Ref \ audit.refs : heads[q] # {}}
<1>4. Drift = {drift(r) : r \in drifting} /\ Orphans = {orphan(r) : r \in orphaned}
  BY DEF Drift, Orphans
<1>5. {f.ref : f \in Reported("heads-drift")} = drifting
  <2>1. Reported("heads-drift") = {drift(r) : r \in drifting}
    BY <1>2, <1>4 DEF Reported
  <2>2. \A r \in drifting : drift(r).ref = r
    OBVIOUS
  <2> HIDE DEF drifting, drift
  <2> QED
    BY <2>1, <2>2
<1>6. {f.ref : f \in Reported("orphaned-head")} = orphaned
  <2>1. Reported("orphaned-head") = {orphan(r) : r \in orphaned}
    BY <1>2, <1>4 DEF Reported
  <2>2. \A r \in orphaned : orphan(r).ref = r
    OBVIOUS
  <2> HIDE DEF orphaned, orphan
  <2> QED
    BY <2>1, <2>2
<1>7. drifting \ during = {r \in Ref \ during : tip[r] # 0 /\ heads[r] # commits[tip[r]].tree}
  BY <1>3 DEF TreeAtTip
<1>8. orphaned \ during = {r \in Ref \ during : tip[r] = 0 /\ heads[r] # {}}
  BY <1>3
<1> QED
  BY <1>5, <1>6, <1>7, <1>8 DEF Suspects

(* verify reports drift of exactly the refs whose heads are not the tree of*)
(* their tip, and heads without a ref of exactly those, among the refs that*)
(* stood still while it compared.                                          *)
THEOREM DriftVerdictIsExact == ReadsSpec => DriftIsExact
<1>1. RInv /\ [ReadsNext]_readVars =>
        [Reads("heads") /\ Reads("blobs")' =>
          /\ Suspects("heads-drift") = {r \in Ref \ during : tip[r] # 0 /\ heads[r] # commits[tip[r]].tree}
          /\ Suspects("orphaned-head") = {r \in Ref \ during : tip[r] = 0 /\ heads[r] # {}}]_auditVars
  BY DriftStep
<1> QED
  BY <1>1, ReadsInvariance, PTL DEF ReadsSpec, DriftIsExact

LEMMA MissingStep ==
  ASSUME RInv, [ReadsNext]_readVars, Reads("store"), NEW f \in Reported("storage-missing")
  PROVE  f \in audit.found \/ f.blob \in during
<1>0. f \in audit'.found /\ f.kind = "storage-missing"
  BY DEF Reported
<1>1. CASE audit' = audit
  BY <1>0, <1>1
<1>2. CASE audit' # audit
  <2>1. AuditStep
    BY <1>2, AuditMoves
  <2>2. (\E x \in Large : AuditObject(x)) \/ AuditReports
    BY <2>1 DEF AuditStep, AuditCommits, AuditParents, AuditRefs, AuditEntries, AuditHeads, AuditBlobs, Reads
  <2>3. CASE AuditReports
    BY <1>0, <2>3 DEF AuditReports, Compare, NoAudit
  <2>4. ASSUME NEW x \in Large, AuditObject(x) PROVE f \in audit.found \/ f.blob \in during
    <3>1. PICK found \in {{[kind |-> "storage-error", blob |-> x]},
                          IF x \in objects THEN {} ELSE {[kind |-> "storage-missing", blob |-> x]}} :
             audit' = [audit EXCEPT !.blobs = @ \ {x}, !.found = @ \cup found]
      BY <2>4 DEF AuditObject, Read
    <3>2. audit'.found = audit.found \cup found
      BY <3>1 DEF RInv, AuditTypes
    <3>3. x \in audit.blobs
      BY <2>4 DEF AuditObject
    <3>4. x \in blobs \cup during
      BY <3>3 DEF RInv, Compared
    <3>5. CASE f \in found
      <4>1. x \notin objects /\ f = [kind |-> "storage-missing", blob |-> x]
        BY <1>0, <3>1, <3>5
      <4>2. x \notin blobs
        BY <4>1 DEF RInv, Inv, Objects, ObjectsPresent
      <4> QED
        BY <3>4, <4>1, <4>2
    <3> QED
      BY <1>0, <3>2, <3>5
  <2> QED
    BY <2>2, <2>3, <2>4
<1> QED
  BY <1>1, <1>2

(* verify reports data loss only when GC deleted the blob's row after      *)
(* verify had listed it.                                                   *)
THEOREM MissingIsCollected == ReadsSpec => MissingMeansCollected
<1>1. RInv /\ [ReadsNext]_readVars =>
        [Reads("store") => \A f \in Reported("storage-missing") : f \in audit.found \/ f.blob \in during]_auditVars
  BY MissingStep
<1> QED
  BY <1>1, ReadsInvariance, PTL DEF ReadsSpec, MissingMeansCollected
=============================================================================
