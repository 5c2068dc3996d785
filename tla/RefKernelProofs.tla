-------------------------- MODULE RefKernelProofs --------------------------
(***************************************************************************)
(* Theorems about RefKernel, for every set of clients, branches, tags,     *)
(* paths, contents and requests.                                           *)
(***************************************************************************)
EXTENDS RefKernel, TLAPS

(* The trees that calls compute are trees.                                 *)
LEMMA EmptyTreeType == EmptyTree \in Tree
  BY DEF EmptyTree, Tree, Entry

LEMMA CaptureResultType ==
  ASSUME NEW h \in Tree, NEW ws \in Tree, NEW ds
  PROVE  CaptureResult(h, ws, ds) \in Tree
  BY DEF CaptureResult, Tree, Entry

LEMMA MergedType ==
  ASSUME NEW b, NEW o \in Tree, NEW t \in Tree
  PROVE  Merged(b, o, t) \in Tree
  BY DEF Merged, Tree

LEMMA NextTreeType ==
  ASSUME NEW q \in CasRequest, NEW h \in Tree, NEW source \in Tree
  PROVE  NextTree(q, h, source) \in Tree
  <1>1. CASE q.kind = "write"
    <2>1. q.content \in Entry
      BY <1>1 DEF CasRequest, WriteRequest, DeleteRequest, CaptureRequest, RestoreRequest, Entry
    <2> QED BY <1>1, <2>1 DEF NextTree, Tree
  <1>2. CASE q.kind = "delete"
    BY <1>2 DEF NextTree, Tree, Entry
  <1>3. CASE q.kind = "capture"
    <2>1. q.writes \in Tree
      BY <1>3 DEF CasRequest, WriteRequest, DeleteRequest, CaptureRequest, RestoreRequest
    <2> QED BY <1>3, <2>1, CaptureResultType DEF NextTree
  <1>4. CASE q.kind \notin {"write", "delete", "capture"}
    BY <1>4 DEF NextTree
  <1> QED BY <1>1, <1>2, <1>3, <1>4

LEMMA NextHeadsType ==
  ASSUME NEW q, NEW index \in Tree, NEW next \in Tree
  PROVE  NextHeads(q, index, next) \in Tree
  BY DEF NextHeads, Tree

(* The kinds of the requests tell them apart.                              *)
LEMMA RequestKinds ==
  ASSUME NEW q \in Request
  PROVE  /\ q.kind \in {"write", "delete", "capture", "restore"} => q \in CasRequest
         /\ q.kind = "fork" => q \in ForkRequest
         /\ q.kind = "merge" => q \in MergeRequest
         /\ q.kind = "tag" => q \in TagRequest
  BY DEF Request, CasRequest, WriteRequest, DeleteRequest, CaptureRequest, RestoreRequest,
         ForkRequest, MergeRequest, TagRequest

LEMMA RequestRefs ==
  /\ \A q \in CasRequest : q.ref \in Ref
  /\ \A q \in ForkRequest \cup MergeRequest \cup TagRequest : q.ref \in Branch
  /\ \A q \in TagRequest : q.label \in Tag
  /\ Branch \subseteq Ref
  /\ Tag \subseteq Ref
  /\ Mount \in Ref
  BY DEF CasRequest, WriteRequest, DeleteRequest, CaptureRequest, RestoreRequest,
         ForkRequest, MergeRequest, TagRequest, Ref

(* What the program counter says of the request.                           *)
LEMMA CallKinds ==
  ASSUME NEW n \in Nat, NEW k \in CallOf(n)
  PROVE  /\ k.pc \in {"load", "heads", "cas"} => k.req \in CasRequest
         /\ k.pc = "fork" => k.req \in ForkRequest
         /\ k.pc \in {"mergeBranch", "mergeMount"} => k.req \in MergeRequest
         /\ k.pc = "tag" => k.req \in TagRequest
         /\ k.expected \in 0 .. n
         /\ k.other \in 0 .. n
         /\ k.loaded \in Tree
         /\ k.pc # "idle" => k.attempt \in 1 .. MaxAttempts
  BY EmptyTreeType DEF CallOf, NoCall, NoCommit

(* The updates by which a call goes on.                                    *)
LEMMA CallUpdates ==
  ASSUME NEW n \in Nat, NEW k \in CallOf(n), NEW i \in 0 .. n, NEW t \in Tree,
         NEW a \in 1 .. MaxAttempts
  PROVE  /\ k.pc = "load" => [k EXCEPT !.pc = "heads", !.expected = i] \in CallOf(n)
         /\ k.pc = "heads" => [k EXCEPT !.pc = "cas", !.loaded = t] \in CallOf(n)
         /\ k.pc = "cas" => [k EXCEPT !.pc = "load", !.attempt = a, !.expected = NoCommit,
                                      !.loaded = EmptyTree] \in CallOf(n)
         /\ k.pc = "mergeBranch" => [k EXCEPT !.pc = "mergeMount", !.other = i] \in CallOf(n)
  <1>1. CASE k.pc \in {"load", "heads", "cas"}
    <2>1. k \in [pc : {"load", "heads", "cas"}, req : CasRequest, attempt : 1 .. MaxAttempts,
                 expected : 0 .. n, other : 0 .. n, loaded : Tree]
      BY <1>1 DEF CallOf, NoCall
    <2>2. CASE k.pc = "load"
      BY <2>1, <2>2 DEF CallOf
    <2>3. CASE k.pc = "heads"
      BY <2>1, <2>3 DEF CallOf
    <2>4. CASE k.pc = "cas"
      <3>1. NoCommit \in 0 .. n /\ EmptyTree \in Tree
        BY EmptyTreeType DEF NoCommit
      <3>2. [k EXCEPT !.pc = "load", !.attempt = a, !.expected = NoCommit, !.loaded = EmptyTree]
              \in [pc : {"load", "heads", "cas"}, req : CasRequest, attempt : 1 .. MaxAttempts,
                  expected : 0 .. n, other : 0 .. n, loaded : Tree]
        BY <2>1, <3>1
      <3> QED BY <2>4, <3>2 DEF CallOf
    <2> QED BY <1>1, <2>2, <2>3, <2>4
  <1>2. CASE k.pc = "mergeBranch"
    <2>1. k \in [pc : {"mergeBranch", "mergeMount"}, req : MergeRequest,
                 attempt : 1 .. MaxAttempts, expected : 0 .. n, other : 0 .. n, loaded : Tree]
      BY <1>2 DEF CallOf, NoCall
    <2> QED BY <1>2, <2>1 DEF CallOf
  <1> QED BY <1>1, <1>2

LEMMA CallOfGrows ==
  ASSUME NEW n \in Nat, NEW m \in Nat, n <= m
  PROVE  CallOf(n) \subseteq CallOf(m)
  BY DEF CallOf

(* A commit that is inserted is there, and the others stay what they were. *)
LEMMA InsertCommitGrows ==
  ASSUME commits \in Seq(Commit), NEW row \in Commit, NEW id \in 1 .. Len(commits) + 1,
         InsertCommit(row, id)
  PROVE  /\ commits' \in Seq(Commit)
         /\ Len(commits) <= Len(commits')
         /\ id \in 1 .. Len(commits')
         /\ commits'[id] = row
         /\ \A i \in 1 .. Len(commits) : commits'[i] = commits[i]
         /\ \/ Len(commits') = Len(commits)
            \/ id = Len(commits) + 1 /\ Len(commits') = Len(commits) + 1
  BY DEF InsertCommit

-----------------------------------------------------------------------------
(* Type correctness.                                                       *)

LEMMA TreeOfType ==
  ASSUME TypeOK, NEW i \in 1 .. Len(commits)
  PROVE  TreeOf(i) \in Tree
  <1>1. commits[i] \in Commit
    BY DEF TypeOK
  <1> QED BY <1>1 DEF TreeOf, Commit

LEMMA CallFacts ==
  ASSUME TypeOK, NEW c \in Client
  PROVE  /\ Len(commits) \in Nat
         /\ call[c] \in CallOf(Len(commits))
         /\ call[c].pc \in {"load", "heads", "cas"} => call[c].req \in CasRequest
         /\ call[c].pc = "fork" => call[c].req \in ForkRequest
         /\ call[c].pc \in {"mergeBranch", "mergeMount"} => call[c].req \in MergeRequest
         /\ call[c].pc = "tag" => call[c].req \in TagRequest
         /\ call[c].pc \in {"load", "heads", "cas"} => call[c].req.ref \in Ref
         /\ call[c].pc \in {"fork", "mergeBranch", "mergeMount", "tag"} => call[c].req.ref \in Branch
         /\ call[c].pc = "tag" => call[c].req.label \in Tag
         /\ call[c].expected \in 0 .. Len(commits)
         /\ call[c].other \in 0 .. Len(commits)
         /\ call[c].loaded \in Tree
         /\ call[c].pc # "idle" => call[c].attempt \in 1 .. MaxAttempts
  <1>1. Len(commits) \in Nat /\ call[c] \in CallOf(Len(commits))
    BY DEF TypeOK
  <1> HIDE DEF TypeOK
  <1> DEFINE k == call[c]
  <1>2. /\ k.pc \in {"load", "heads", "cas"} => k.req \in CasRequest
        /\ k.pc = "fork" => k.req \in ForkRequest
        /\ k.pc \in {"mergeBranch", "mergeMount"} => k.req \in MergeRequest
        /\ k.pc = "tag" => k.req \in TagRequest
        /\ k.expected \in 0 .. Len(commits)
        /\ k.other \in 0 .. Len(commits)
        /\ k.loaded \in Tree
        /\ k.pc # "idle" => k.attempt \in 1 .. MaxAttempts
    BY <1>1, CallKinds
  <1> QED BY <1>1, <1>2, RequestRefs

LEMMA SourceType ==
  ASSUME TypeOK, NEW c \in Client
  PROVE  Source(c) \in Tree
  BY CallFacts, TreeOfType, EmptyTreeType DEF Source, NoCommit

(* How one client's step changes call and reply.                           *)
LEMMA CallStep ==
  ASSUME TypeOK, NEW c \in Client, NEW n \in Nat, Len(commits) <= n, NEW k \in CallOf(n),
         call' = [call EXCEPT ![c] = k]
  PROVE  call' \in [Client -> CallOf(n)]
  <1>1. CallOf(Len(commits)) \subseteq CallOf(n)
    BY CallOfGrows DEF TypeOK
  <1> QED BY <1>1 DEF TypeOK

LEMMA ReplyStep ==
  ASSUME TypeOK, NEW c \in Client, NEW n \in Nat, Len(commits) <= n,
         NEW s \in Status, NEW i \in 0 .. n,
         reply' = [reply EXCEPT ![c] = [status |-> s, commit |-> i]]
  PROVE  reply' \in [Client -> [status : Status, commit : 0 .. n]]
  BY DEF TypeOK

LEMMA ReturnType ==
  ASSUME TypeOK, NEW c \in Client, NEW n \in Nat, Len(commits) <= n,
         NEW s \in Status, NEW i \in 0 .. n, Return(c, s, i)
  PROVE  /\ call' \in [Client -> CallOf(n)]
         /\ reply' \in [Client -> [status : Status, commit : 0 .. n]]
  <1>1. NoCall \in CallOf(n)
    BY DEF CallOf
  <1> QED BY <1>1, CallStep, ReplyStep DEF Return

(* A call that returns without touching the tables.                        *)
LEMMA ReturnKeepsType ==
  ASSUME TypeOK, NEW c \in Client, NEW s \in Status, NEW i \in 0 .. Len(commits),
         Return(c, s, i), UNCHANGED <<commits, tip, base, state, heads>>
  PROVE  TypeOK'
  <1>1. Len(commits) \in Nat /\ Len(commits) <= Len(commits)
    BY CallFacts
  <1>2. /\ call' \in [Client -> CallOf(Len(commits))]
        /\ reply' \in [Client -> [status : Status, commit : 0 .. Len(commits)]]
    BY <1>1, ReturnType
  <1> QED BY <1>2 DEF TypeOK

LEMMA ThrowType ==
  ASSUME TypeOK, NEW c \in Client, NEW s \in Status, Throw(c, s)
  PROVE  TypeOK'
  <1>1. NoCommit \in 0 .. Len(commits)
    BY CallFacts DEF NoCommit
  <1> QED BY <1>1, ReturnKeepsType DEF Throw

LEMMA ContinueType ==
  ASSUME TypeOK, NEW c \in Client, NEW k \in CallOf(Len(commits)), Continue(c, k)
  PROVE  TypeOK'
  <1>1. Len(commits) \in Nat /\ Len(commits) <= Len(commits)
    BY CallFacts
  <1>2. call' = [call EXCEPT ![c] = k]
    BY DEF Continue
  <1>3. call' \in [Client -> CallOf(Len(commits))]
    BY <1>1, <1>2, CallStep
  <1> QED BY <1>3 DEF TypeOK, Continue

LEMMA StartType ==
  ASSUME TypeOK, NEW c \in Client, NEW q, NEW pc,
         NEW expected \in 0 .. Len(commits), NEW other \in 0 .. Len(commits),
         Start(c, q, pc, expected, other),
         \/ pc = "load" /\ q \in CasRequest
         \/ pc = "fork" /\ q \in ForkRequest
         \/ pc = "mergeBranch" /\ q \in MergeRequest
         \/ pc = "tag" /\ q \in TagRequest
  PROVE  TypeOK'
  <1> DEFINE k == [pc |-> pc, req |-> q, attempt |-> 1, expected |-> expected,
                   other |-> other, loaded |-> EmptyTree]
  <1>1. k \in CallOf(Len(commits))
    BY EmptyTreeType, KernelAssumption DEF CallOf
  <1>2. call' = [call EXCEPT ![c] = k] /\ reply' = [reply EXCEPT ![c] = NoReply]
        /\ UNCHANGED <<commits, tip, base, state, heads>>
    BY DEF Start
  <1> HIDE DEF k
  <1>0. Len(commits) \in Nat /\ Len(commits) <= Len(commits)
    BY CallFacts
  <1>3. call' \in [Client -> CallOf(Len(commits))]
    BY <1>0, <1>1, <1>2, CallStep
  <1>4. reply' \in [Client -> [status : Status, commit : 0 .. Len(commits)]]
    <2>1. reply' = [reply EXCEPT ![c] = [status |-> "none", commit |-> 0]]
      BY <1>2 DEF NoReply, NoCommit
    <2>2. "none" \in Status /\ 0 \in 0 .. Len(commits)
      BY <1>0 DEF Status
    <2> QED BY <1>0, <2>1, <2>2, ReplyStep
  <1> QED BY <1>2, <1>3, <1>4 DEF TypeOK

LEMMA RefusalType == ASSUME NEW q, NEW h PROVE Refusal(q, h) \in Status
  BY DEF Refusal, Status

LEMMA MergeVerdictType == ASSUME NEW q, NEW s \in States PROVE MergeVerdict(q, s) \in Status
  BY DEF MergeVerdict, States, Status

LEMMA LoadRefType ==
  ASSUME TypeOK, NEW c \in Client, LoadRef(c)
  PROVE  TypeOK'
  <1> DEFINE r == call[c].req.ref
             k == [call[c] EXCEPT !.pc = "heads", !.expected = tip[r]]
  <1>1. At(c, "load") /\ (Continue(c, k) \/ Throw(c, "notFound") \/ Throw(c, "settled"))
    BY DEF LoadRef
  <1>2. tip[r] \in 0 .. Len(commits)
    BY <1>1, CallFacts DEF At, TypeOK
  <1>3. k \in CallOf(Len(commits))
    BY <1>1, <1>2, CallFacts, CallUpdates DEF At
  <1> HIDE DEF k
  <1> QED BY <1>1, <1>3, ContinueType, ThrowType DEF Status

LEMMA LoadHeadsType ==
  ASSUME TypeOK, NEW c \in Client, LoadHeads(c)
  PROVE  TypeOK'
  <1> DEFINE q == call[c].req
             h == heads[q.ref]
             k == [call[c] EXCEPT !.pc = "cas", !.loaded = h]
  <1>1. h \in Tree
    BY CallFacts DEF LoadHeads, At, TypeOK
  <1>2. CASE Continue(c, k)
    <2>1. k \in CallOf(Len(commits))
      BY <1>1, CallFacts, CallUpdates DEF LoadHeads, At
    <2> HIDE DEF k
    <2> QED BY <1>2, <2>1, ContinueType
  <1>3. CASE Throw(c, Refusal(q, h))
    BY <1>3, ThrowType, RefusalType
  <1>4. CASE Return(c, "ok", call[c].expected) /\ UNCHANGED <<commits, tip, base, state, heads>>
    BY <1>4, ReturnKeepsType, CallFacts DEF Status
  <1> QED BY <1>2, <1>3, <1>4 DEF LoadHeads

(* A ref moves to a commit that is there.                                  *)
LEMMA InsertedRowType ==
  ASSUME TypeOK, NEW c \in Client, At(c, "cas")
  PROVE  [parents |-> <<call[c].expected>>, tree |-> NextTree(call[c].req, call[c].loaded, Source(c)),
          op |-> call[c].req.kind] \in Commit
  <1> DEFINE q == call[c].req
             next == NextTree(q, call[c].loaded, Source(c))
  <1>1. q \in CasRequest /\ call[c].loaded \in Tree /\ Source(c) \in Tree
    BY CallFacts, SourceType DEF At
  <1>2. next \in Tree
    BY <1>1, NextTreeType
  <1>3. q.kind \in CasKinds
    BY <1>1 DEF CasRequest, WriteRequest, DeleteRequest, CaptureRequest, RestoreRequest, CasKinds
  <1>4. <<call[c].expected>> \in Seq(Nat)
    BY CallFacts
  <1> HIDE DEF q, next
  <1>5. [parents |-> <<call[c].expected>>, tree |-> next, op |-> q.kind] \in Commit
    BY <1>2, <1>3, <1>4 DEF Commit
  <1> QED BY <1>5 DEF q, next

LEMMA CommitCasType ==
  ASSUME TypeOK, NEW c \in Client, CommitCas(c)
  PROVE  TypeOK'
  <1> DEFINE q == call[c].req
             next == NextTree(q, call[c].loaded, Source(c))
             row == [parents |-> <<call[c].expected>>, tree |-> next, op |-> q.kind]
  <1>1. row \in Commit /\ q.ref \in Ref /\ q \in CasRequest
    BY InsertedRowType, CallFacts DEF CommitCas, At
  <1>2. next \in Tree
    BY <1>1 DEF Commit
  <1>3. PICK id \in 1 .. Len(commits) + 1 :
          InsertCommit(row, id) /\ tip' = [tip EXCEPT ![q.ref] = id] /\ Return(c, "ok", id)
    BY DEF CommitCas, PublishCas
  <1>4. heads' = [heads EXCEPT ![q.ref] = NextHeads(q, heads[q.ref], next)] /\ UNCHANGED <<base, state>>
    BY <1>1 DEF CommitCas, PublishCas, TypeOK
  <1> HIDE DEF q, next, row
  <1>5. /\ commits' \in Seq(Commit)
        /\ Len(commits) <= Len(commits')
        /\ Len(commits) \in Nat /\ Len(commits') \in Nat
        /\ id \in 1 .. Len(commits')
    <2>1. commits \in Seq(Commit)
      BY DEF TypeOK
    <2> QED BY <1>1, <1>3, <2>1, InsertCommitGrows
  <1>6. tip' \in [Ref -> 0 .. Len(commits')] /\ base' \in [Ref -> 0 .. Len(commits')]
    <2>1. 0 .. Len(commits) \subseteq 0 .. Len(commits') /\ id \in 0 .. Len(commits')
      BY <1>5
    <2> QED BY <1>3, <1>4, <2>1 DEF TypeOK
  <1>7. heads' \in [Ref -> Tree] /\ state' \in [Ref -> States]
    BY <1>1, <1>2, <1>4, NextHeadsType DEF TypeOK
  <1>8. /\ call' \in [Client -> CallOf(Len(commits'))]
        /\ reply' \in [Client -> [status : Status, commit : 0 .. Len(commits')]]
    <2>1. id \in 0 .. Len(commits') /\ "ok" \in Status
      BY <1>5 DEF Status
    <2> QED BY <1>3, <1>5, <2>1, ReturnType
  <1> QED BY <1>5, <1>6, <1>7, <1>8 DEF TypeOK

LEMMA LoseCasType ==
  ASSUME TypeOK, NEW c \in Client, LoseCas(c)
  PROVE  TypeOK'
  <1> DEFINE k == [call[c] EXCEPT !.pc = "load", !.attempt = @ + 1, !.expected = NoCommit,
                                  !.loaded = EmptyTree]
  <1>1. CASE call[c].attempt < MaxAttempts /\ Continue(c, k)
    <2>1. call[c].attempt + 1 \in 1 .. MaxAttempts /\ call[c].pc = "cas"
      BY <1>1, CallFacts, KernelAssumption DEF LoseCas, CasLost, At
    <2>2. k \in CallOf(Len(commits))
      BY <2>1, CallFacts, CallUpdates
    <2> HIDE DEF k
    <2> QED BY <1>1, <2>2, ContinueType
  <1>2. CASE Throw(c, "refConflict")
    BY <1>2, ThrowType DEF Status
  <1> QED BY <1>1, <1>2 DEF LoseCas, Retry

-----------------------------------------------------------------------------
(* Coherence of what the calls compute.                                    *)

LEMMA EmptyTreeCoherent == Coherent(EmptyTree)
  BY DEF Coherent, Present, EmptyTree

(* In a coherent tree no two files clash.                                  *)
LEMMA CoherentPairs ==
  ASSUME NEW t
  PROVE  Coherent(t) <=> \A p, r \in Present(t) : ~Clash(p, r)
  BY DEF Coherent, Clashing

(* write: the new file clashes with no file, so the tree stays coherent.   *)
LEMMA WriteCoherent ==
  ASSUME NEW h \in Tree, Coherent(h), NEW p \in Path, NEW v, Clashing(p, h) = {}
  PROVE  Coherent([h EXCEPT ![p] = v])
  <1> DEFINE t == [h EXCEPT ![p] = v]
  <1>1. \A r \in Present(t) : r = p \/ r \in Present(h)
    BY DEF Present, Tree
  <1>2. \A r \in Present(h) : ~Clash(p, r) /\ ~Clash(r, p)
    BY DEF Clashing, Clash
  <1>3. ~Clash(p, p)
    BY TreeAssumption DEF Clash
  <1>4. \A a, b \in Present(t) : ~Clash(a, b)
    BY <1>1, <1>2, <1>3, CoherentPairs
  <1> QED BY <1>4, CoherentPairs

(* delete: fewer files.                                                    *)
LEMMA DeleteCoherent ==
  ASSUME NEW h \in Tree, Coherent(h), NEW p \in Path
  PROVE  Coherent([h EXCEPT ![p] = None])
  <1>1. Present([h EXCEPT ![p] = None]) \subseteq Present(h)
    BY DEF Present, Tree
  <1> QED BY <1>1, CoherentPairs

(* capture: the deletions a written file carries remove every file it      *)
(* could clash with.                                                       *)
LEMMA CaptureCoherent ==
  ASSUME NEW h \in Tree, Coherent(h), NEW ws \in Tree, Coherent(ws), NEW ds
  PROVE  Coherent(CaptureResult(h, ws, ds))
  <1> DEFINE t == CaptureResult(h, ws, ds)
  <1>1. \A p \in Present(t) :
          \/ p \in Present(ws)
          \/ p \in Present(h) /\ Clashing(p, ws) = {}
    BY DEF Present, CaptureResult
  <1>2. \A p, r \in Present(t) : ~Clash(p, r)
    <2> SUFFICES ASSUME NEW p \in Present(t), NEW r \in Present(t) PROVE ~Clash(p, r)
      OBVIOUS
    <2>1. Clash(p, r) => Clash(r, p)
      BY DEF Clash
    <2>2. CASE p \in Present(ws) /\ r \in Present(ws)
      BY <2>2, CoherentPairs
    <2>3. CASE p \in Present(h) /\ Clashing(p, ws) = {} /\ r \in Present(ws)
      BY <2>3 DEF Clashing
    <2>4. CASE r \in Present(h) /\ Clashing(r, ws) = {} /\ p \in Present(ws)
      BY <2>1, <2>4 DEF Clashing
    <2>5. CASE p \in Present(h) /\ r \in Present(h)
      BY <2>5, CoherentPairs
    <2> QED BY <1>1, <2>2, <2>3, <2>4, <2>5
  <1> QED BY <1>2, CoherentPairs

(* captureBatch's own check never fails.                                   *)
LEMMA CaptureNotRefused ==
  ASSUME NEW h \in Tree, Coherent(h), NEW q \in CasRequest,
         q.kind = "capture" => Coherent(q.writes)
  PROVE  Refusal(q, h) # "invariant"
  <1>1. CASE q.kind = "capture"
    <2>1. q.writes \in Tree
      BY <1>1 DEF CasRequest, WriteRequest, DeleteRequest, CaptureRequest, RestoreRequest
    <2>2. Coherent(CaptureResult(h, q.writes, q.deletes))
      BY <1>1, <2>1, CaptureCoherent
    <2>3. Present(q.writes) \subseteq Present(CaptureResult(h, q.writes, q.deletes))
      BY <2>1 DEF Present, CaptureResult
    <2>4. \A p \in Present(q.writes) : Clashing(p, CaptureResult(h, q.writes, q.deletes)) = {}
      BY <2>2, <2>3 DEF Coherent
    <2> QED BY <1>1, <2>4 DEF Refusal
  <1>2. CASE q.kind # "capture"
    BY <1>2 DEF Refusal
  <1> QED BY <1>1, <1>2

(* What a call that is not refused commits is coherent.                    *)
LEMMA NextTreeCoherent ==
  ASSUME NEW q \in CasRequest, NEW h \in Tree, Coherent(h), Refusal(q, h) = "none",
         q.kind = "capture" => Coherent(q.writes),
         NEW source \in Tree, Coherent(source)
  PROVE  Coherent(NextTree(q, h, source))
  <1>1. CASE q.kind = "write"
    <2>1. q.path \in Path /\ Clashing(q.path, h) = {}
      BY <1>1 DEF Refusal, CasRequest, WriteRequest, DeleteRequest, CaptureRequest, RestoreRequest
    <2> QED BY <1>1, <2>1, WriteCoherent DEF NextTree
  <1>2. CASE q.kind = "delete"
    <2>1. q.path \in Path
      BY <1>2 DEF CasRequest, WriteRequest, DeleteRequest, CaptureRequest, RestoreRequest
    <2> QED BY <1>2, <2>1, DeleteCoherent DEF NextTree
  <1>3. CASE q.kind = "capture"
    <2>1. q.writes \in Tree
      BY <1>3 DEF CasRequest, WriteRequest, DeleteRequest, CaptureRequest, RestoreRequest
    <2> QED BY <1>3, <2>1, CaptureCoherent DEF NextTree
  <1>4. CASE q.kind \notin {"write", "delete", "capture"}
    BY <1>4 DEF NextTree
  <1> QED BY <1>1, <1>2, <1>3, <1>4

(* The index after the upserts or the rewrite is the tree of the commit.   *)
LEMMA NextHeadsIsNextTree ==
  ASSUME NEW q \in CasRequest, NEW h \in Tree, NEW source \in Tree
  PROVE  NextHeads(q, h, NextTree(q, h, source)) = NextTree(q, h, source)
  <1>1. CASE q.kind \in {"write", "delete"}
    <2>1. q.path \in Path
      BY <1>1 DEF CasRequest, WriteRequest, DeleteRequest, CaptureRequest, RestoreRequest
    <2> QED BY <1>1, <2>1 DEF NextHeads, NextTree, Tree
  <1>2. CASE q.kind \notin {"write", "delete"}
    BY <1>2 DEF NextHeads
  <1> QED BY <1>1, <1>2

-----------------------------------------------------------------------------
(* The inductive invariant: how the steps keep what the calls know.        *)

\* the tables only grow: commits are kept, tips rise, heads change with their tip
Grow ==
    /\ Len(commits) <= Len(commits')
    /\ \A i \in 1 .. Len(commits) : commits'[i] = commits[i]
    /\ \A r \in Ref : tip[r] <= tip'[r]
    /\ \A r \in Ref : tip[r] # NoCommit /\ tip'[r] = tip[r] => heads'[r] = heads[r]

LEMMA KnowledgeStays ==
  ASSUME TypeOK, TypeOK', Grow, NEW d \in Client, CallKnows(call[d]), call'[d] = call[d]
  PROVE  CallKnows(call[d])'
  <1> DEFINE k == call[d]
             r == k.req.ref
  <1>1. k.expected \in Nat
    BY CallFacts
  <1>2. /\ k.pc = "fork" => tip[Mount] <= tip'[Mount] /\ tip[Mount] \in Nat /\ tip'[Mount] \in Nat
        /\ k.pc \in {"heads", "cas", "mergeMount"} =>
             /\ tip[r] <= tip'[r] /\ tip[r] \in Nat /\ tip'[r] \in Nat
             /\ tip[r] # NoCommit /\ tip'[r] = tip[r] => heads'[r] = heads[r]
    BY CallFacts, RequestRefs DEF TypeOK, Grow
  <1>3. CallKnows(k)
    OBVIOUS
  <1> HIDE DEF k, r
  <1>4. /\ k.pc = "fork" => k.expected <= tip'[Mount]
        /\ k.pc \in {"heads", "cas"} => k.expected # NoCommit /\ k.expected <= tip'[r]
        /\ k.pc = "mergeMount" => tip'[r] # NoCommit
        /\ k.pc = "cas" /\ tip'[r] = k.expected => k.loaded = heads'[r]
    BY <1>1, <1>2, <1>3 DEF CallKnows, NoCommit, r
  <1> QED BY <1>3, <1>4 DEF CallKnows, k, r

LEMMA TableStep ==
  ASSUME IInv, TypeOK', NEW c \in Client, NEW s, s # "invariant", NEW i, Return(c, s, i), Grow,
         ParentsAreOlder', RefsAreRooted', HeadsMatchTip', CoherentHistory', CoherentHeads'
  PROVE  IInv'
  <1>1. ASSUME NEW d \in Client PROVE CallKnows(call[d])'
    <2>1. CASE d = c
      BY <2>1 DEF Return, CallKnows, NoCall, IInv, TypeOK
    <2>2. CASE d # c
      <3>1. call'[d] = call[d] /\ CallKnows(call[d]) /\ TypeOK
        BY <2>2 DEF Return, IInv, TypeOK
      <3> QED BY <3>1, KnowledgeStays
    <2> QED BY <2>1, <2>2
  <1>2. NeverInvariantError'
    BY DEF IInv, TypeOK, NeverInvariantError, Return
  <1> QED BY <1>1, <1>2 DEF IInv

(* A step that leaves the commits, the tips and the heads alone.           *)
LEMMA QuietStep ==
  ASSUME IInv, TypeOK', NEW c \in Client, NEW k, call' = [call EXCEPT ![c] = k], CallKnows(k),
         UNCHANGED <<commits, tip, base, heads>>,
         \A d \in Client : reply'[d] = reply[d] \/ reply'[d].status # "invariant"
  PROVE  IInv'
  <1>1. ASSUME NEW d \in Client PROVE CallKnows(call[d])'
    <2>1. CASE d = c
      <3>1. call'[d] = k
        BY <2>1 DEF IInv, TypeOK
      <3> QED BY <3>1 DEF CallKnows
    <2>2. CASE d # c
      <3>1. call'[d] = call[d] /\ CallKnows(call[d])
        BY <2>2 DEF IInv, TypeOK
      <3> QED BY <3>1 DEF CallKnows
    <2> QED BY <2>1, <2>2
  <1>2. NeverInvariantError'
    BY DEF IInv, NeverInvariantError
  <1>3. ParentsAreOlder' /\ RefsAreRooted' /\ HeadsMatchTip' /\ CoherentHistory' /\ CoherentHeads'
    BY DEF IInv, ParentsAreOlder, RefsAreRooted, HeadsMatchTip, TreeOf, CoherentHistory, CoherentHeads
  <1> QED BY <1>1, <1>2, <1>3 DEF IInv

LEMMA ReturnQuiet ==
  ASSUME IInv, TypeOK', NEW c \in Client, NEW s, s # "invariant", NEW i, Return(c, s, i),
         UNCHANGED <<commits, tip, base, heads>>
  PROVE  IInv'
  <1>1. CallKnows(NoCall) /\ call' = [call EXCEPT ![c] = NoCall]
    BY DEF CallKnows, NoCall, Return
  <1>2. \A d \in Client : reply'[d] = reply[d] \/ reply'[d].status # "invariant"
    BY DEF Return, IInv, TypeOK
  <1> QED BY <1>1, <1>2, QuietStep

LEMMA ThrowQuiet ==
  ASSUME IInv, TypeOK', NEW c \in Client, NEW s, s # "invariant", Throw(c, s)
  PROVE  IInv'
  BY ReturnQuiet DEF Throw

LEMMA ContinueQuiet ==
  ASSUME IInv, TypeOK', NEW c \in Client, NEW k, Continue(c, k), CallKnows(k)
  PROVE  IInv'
  <1>1. call' = [call EXCEPT ![c] = k] /\ UNCHANGED <<commits, tip, base, heads, reply>>
    BY DEF Continue
  <1> QED BY <1>1, QuietStep

LEMMA StartQuiet ==
  ASSUME IInv, TypeOK', NEW c \in Client, NEW q, NEW pc, NEW expected, NEW other,
         Start(c, q, pc, expected, other),
         CallKnows([pc |-> pc, req |-> q, attempt |-> 1, expected |-> expected,
                    other |-> other, loaded |-> EmptyTree])
  PROVE  IInv'
  <1> DEFINE k == [pc |-> pc, req |-> q, attempt |-> 1, expected |-> expected,
                   other |-> other, loaded |-> EmptyTree]
  <1>1. /\ call' = [call EXCEPT ![c] = k] /\ reply' = [reply EXCEPT ![c] = NoReply]
        /\ UNCHANGED <<commits, tip, base, heads>>
    BY DEF Start
  <1>2. CallKnows(k)
    OBVIOUS
  <1>3. \A d \in Client : reply'[d] = reply[d] \/ reply'[d].status # "invariant"
    BY <1>1 DEF NoReply, IInv, TypeOK
  <1> HIDE DEF k
  <1> QED BY <1>1, <1>2, <1>3, QuietStep

LEMMA CallDomain ==
  ASSUME NEW n \in Nat, NEW k \in CallOf(n)
  PROVE  /\ DOMAIN k = {"pc", "req", "attempt", "expected", "other", "loaded"}
         /\ k = [x \in DOMAIN k |-> k[x]]
  BY DEF CallOf, NoCall

-----------------------------------------------------------------------------
(* The inductive invariant: the calls that compare and swap.               *)

LEMMA StartCasInv ==
  ASSUME IInv, NEW c \in Client, NEW q \in Requests, StartCas(c, q)
  PROVE  IInv'
  <1>1. q \in CasRequest /\ TypeOK /\ 0 \in 0 .. Len(commits)
    BY RequestKinds, CallAssumption, CallFacts DEF StartCas, IInv
  <1>2. TypeOK'
    BY <1>1, StartType DEF StartCas, NoCommit
  <1>3. CallKnows([pc |-> "load", req |-> q, attempt |-> 1, expected |-> NoCommit,
                   other |-> NoCommit, loaded |-> EmptyTree])
    BY DEF StartCas, CallKnows
  <1> QED BY <1>2, <1>3, StartQuiet DEF StartCas

LEMMA StartRestoreInv ==
  ASSUME IInv, NEW c \in Client, NEW q \in Requests, StartRestore(c, q)
  PROVE  IInv'
  <1>1. q \in CasRequest /\ TypeOK /\ 0 \in 0 .. Len(commits)
    BY RequestKinds, CallAssumption, CallFacts DEF StartRestore, IInv
  <1>2. PICK source \in DOMAIN commits : Start(c, q, "load", NoCommit, source)
    BY DEF StartRestore
  <1>3. source \in 0 .. Len(commits) /\ source # NoCommit
    BY <1>1, <1>2 DEF TypeOK, NoCommit
  <1>4. TypeOK'
    BY <1>1, <1>2, <1>3, StartType DEF NoCommit
  <1>5. CallKnows([pc |-> "load", req |-> q, attempt |-> 1, expected |-> NoCommit,
                   other |-> source, loaded |-> EmptyTree])
    BY <1>3 DEF StartRestore, CallKnows
  <1> QED BY <1>2, <1>4, <1>5, StartQuiet

LEMMA LoadRefInv ==
  ASSUME IInv, NEW c \in Client, LoadRef(c)
  PROVE  IInv'
  <1> DEFINE r == call[c].req.ref
             k == [call[c] EXCEPT !.pc = "heads", !.expected = tip[r]]
  <1>1. TypeOK /\ TypeOK'
    BY LoadRefType DEF IInv
  <1>2. CASE tip[r] # NoCommit /\ Continue(c, k)
    <2>1. /\ r \in Ref /\ tip[r] \in Nat
          /\ call[c] \in CallOf(Len(commits)) /\ Len(commits) \in Nat
          /\ call[c].pc = "load" /\ CallKnows(call[c])
      BY <1>1, CallFacts DEF LoadRef, At, IInv, TypeOK
    <2>2. /\ k.pc = "heads" /\ k.expected = tip[r] /\ k.req = call[c].req
          /\ k.other = call[c].other
      BY <2>1, CallDomain
    <2>3. CallKnows(k)
      <3> HIDE DEF k
      <3> QED BY <1>2, <2>1, <2>2 DEF CallKnows
    <2> HIDE DEF k
    <2> QED BY <1>1, <1>2, <2>3, ContinueQuiet
  <1>3. CASE Throw(c, "notFound") \/ Throw(c, "settled")
    BY <1>1, <1>3, ThrowQuiet
  <1> QED BY <1>2, <1>3 DEF LoadRef

LEMMA LoadHeadsInv ==
  ASSUME IInv, NEW c \in Client, LoadHeads(c)
  PROVE  IInv'
  <1> DEFINE q == call[c].req
             h == heads[q.ref]
             k == [call[c] EXCEPT !.pc = "cas", !.loaded = h]
  <1>1. TypeOK /\ TypeOK'
    BY LoadHeadsType DEF IInv
  <1>2. /\ q \in CasRequest /\ q.ref \in Ref /\ h \in Tree /\ Coherent(h)
        /\ call[c] \in CallOf(Len(commits)) /\ Len(commits) \in Nat
        /\ call[c].pc = "heads" /\ CallKnows(call[c])
    BY <1>1, CallFacts DEF LoadHeads, At, IInv, TypeOK, CoherentHeads
  <1>3. CASE Refusal(q, h) = "none" /\ Continue(c, k)
    <2>1. /\ k.pc = "cas" /\ k.expected = call[c].expected /\ k.req = q
          /\ k.other = call[c].other /\ k.loaded = h
      BY <1>2, CallDomain
    <2>2. CallKnows(k)
      <3> HIDE DEF k
      <3> QED BY <1>2, <1>3, <2>1 DEF CallKnows
    <2> HIDE DEF k
    <2> QED BY <1>1, <1>3, <2>2, ContinueQuiet
  <1>4. CASE Throw(c, Refusal(q, h))
    <2>1. q.kind = "capture" => Coherent(q.writes)
      BY <1>2 DEF CallKnows
    <2>2. Refusal(q, h) # "invariant"
      BY <1>2, <2>1, CaptureNotRefused
    <2> QED BY <1>1, <1>4, <2>2, ThrowQuiet
  <1>5. CASE Return(c, "ok", call[c].expected) /\ UNCHANGED <<commits, tip, base, state, heads>>
    BY <1>1, <1>5, ReturnQuiet
  <1> QED BY <1>3, <1>4, <1>5 DEF LoadHeads

LEMMA LoseCasInv ==
  ASSUME IInv, NEW c \in Client, LoseCas(c)
  PROVE  IInv'
  <1> DEFINE a == call[c].attempt + 1
             k == [call[c] EXCEPT !.pc = "load", !.attempt = a, !.expected = NoCommit,
                                  !.loaded = EmptyTree]
  <1>1. TypeOK /\ TypeOK'
    BY LoseCasType DEF IInv
  <1>2. CASE Continue(c, k)
    <2>1. /\ call[c] \in CallOf(Len(commits)) /\ Len(commits) \in Nat
          /\ call[c].pc = "cas" /\ CallKnows(call[c])
      BY <1>1, CallFacts DEF LoseCas, CasLost, At, IInv
    <2> HIDE DEF a
    <2>2. k.pc = "load" /\ k.req = call[c].req /\ k.other = call[c].other
      BY <2>1, CallDomain
    <2>3. CallKnows(k)
      <3> HIDE DEF k
      <3> QED BY <2>1, <2>2 DEF CallKnows
    <2> HIDE DEF k
    <2> QED BY <1>1, <1>2, <2>3, ContinueQuiet
  <1>3. CASE Throw(c, "refConflict")
    BY <1>1, <1>3, ThrowQuiet
  <1> QED BY <1>2, <1>3 DEF LoseCas, Retry

(* Inserting a coherent commit whose parents are older keeps the history.  *)
LEMMA InsertCommitInv ==
  ASSUME IInv, NEW row \in Commit, NEW id \in 1 .. Len(commits) + 1, InsertCommit(row, id),
         Coherent(row.tree), \A k \in DOMAIN row.parents : row.parents[k] \in 1 .. Len(commits)
  PROVE  /\ Len(commits) \in Nat /\ Len(commits') \in Nat
         /\ Len(commits) <= Len(commits')
         /\ id \in 1 .. Len(commits')
         /\ commits'[id] = row
         /\ \A i \in 1 .. Len(commits) : commits'[i] = commits[i]
         /\ \A k \in DOMAIN row.parents : row.parents[k] < id
         /\ ParentsAreOlder'
         /\ CoherentHistory'
  <1>1. commits \in Seq(Commit) /\ DOMAIN commits = 1 .. Len(commits) /\ Len(commits) \in Nat
    BY DEF IInv, TypeOK
  <1>2. /\ commits' \in Seq(Commit)
        /\ Len(commits) <= Len(commits')
        /\ id \in 1 .. Len(commits')
        /\ commits'[id] = row
        /\ \A i \in 1 .. Len(commits) : commits'[i] = commits[i]
        /\ \/ Len(commits') = Len(commits)
           \/ id = Len(commits) + 1 /\ Len(commits') = Len(commits) + 1
    BY <1>1, InsertCommitGrows
  <1>3. DOMAIN commits' = 1 .. Len(commits') /\ Len(commits') \in Nat
    BY <1>2
  <1>4. \A i \in 1 .. Len(commits') : i \in 1 .. Len(commits) \/ i = id
    <2>1. CASE Len(commits') = Len(commits)
      BY <2>1
    <2>2. CASE id = Len(commits) + 1 /\ Len(commits') = Len(commits) + 1
      BY <1>1, <2>2
    <2> QED BY <1>2, <2>1, <2>2
  <1>5. \A k \in DOMAIN row.parents : row.parents[k] < id
    <2>1. CASE id \in 1 .. Len(commits)
      <3>1. row = commits[id]
        BY <1>2, <2>1
      <3> QED BY <1>1, <2>1, <3>1 DEF IInv, ParentsAreOlder
    <2>2. CASE id = Len(commits) + 1
      BY <1>1, <2>2
    <2> QED BY <1>1, <2>1, <2>2
  <1>6. ParentsAreOlder'
    <2> SUFFICES ASSUME NEW i \in 1 .. Len(commits'), NEW k \in DOMAIN commits'[i].parents
                 PROVE  commits'[i].parents[k] \in 1 .. i - 1
      BY <1>3 DEF ParentsAreOlder
    <2>1. CASE i = id
      BY <1>1, <1>2, <1>5, <2>1
    <2>2. CASE i \in 1 .. Len(commits)
      <3>1. commits'[i] = commits[i]
        BY <1>2, <2>2
      <3> QED BY <1>1, <2>2, <3>1 DEF IInv, ParentsAreOlder
    <2> QED BY <1>4, <2>1, <2>2
  <1>7. CoherentHistory'
    BY <1>1, <1>2, <1>3, <1>4 DEF IInv, CoherentHistory
  <1> QED BY <1>1, <1>2, <1>3, <1>5, <1>6, <1>7

LEMMA CommitCasInv ==
  ASSUME IInv, NEW c \in Client, CommitCas(c)
  PROVE  IInv'
  <1> DEFINE q == call[c].req
             r == q.ref
             next == NextTree(q, call[c].loaded, Source(c))
             row == [parents |-> <<call[c].expected>>, tree |-> next, op |-> q.kind]
  <1>1. TypeOK /\ TypeOK'
    BY CommitCasType DEF IInv
  <1>2. /\ row \in Commit /\ r \in Ref /\ q \in CasRequest
        /\ call[c].expected \in 1 .. Len(commits)
        /\ tip[r] = call[c].expected /\ tip[r] # NoCommit
        /\ call[c].loaded = heads[r] /\ heads[r] \in Tree /\ Source(c) \in Tree
        /\ CallKnows(call[c]) /\ call[c].pc = "cas"
    <2>1. /\ row \in Commit /\ r \in Ref /\ q \in CasRequest
          /\ call[c].expected \in 0 .. Len(commits) /\ Source(c) \in Tree
          /\ call[c].pc = "cas" /\ tip[r] = call[c].expected /\ CallKnows(call[c])
      BY <1>1, InsertedRowType, CallFacts, SourceType DEF CommitCas, At, IInv
    <2>2. heads[r] \in Tree
      BY <1>1, <2>1 DEF TypeOK
    <2> HIDE DEF q, next, row
    <2> QED BY <2>1, <2>2 DEF CallKnows, NoCommit, q
  <1>3. Coherent(next)
    <2>1. Coherent(Source(c)) \/ (q.kind # "restore" /\ Source(c) = EmptyTree)
      <3>1. CASE call[c].other = NoCommit
        BY <1>2, <3>1, EmptyTreeCoherent DEF Source
      <3>2. CASE call[c].other # NoCommit
        <4>1. call[c].other \in DOMAIN commits
          BY <1>1, <3>2, CallFacts DEF TypeOK, NoCommit
        <4> QED BY <3>2, <4>1 DEF Source, TreeOf, IInv, CoherentHistory
      <3> QED BY <3>1, <3>2
    <2>2. /\ q.kind = "capture" => Coherent(q.writes)
          /\ Coherent(call[c].loaded) /\ Refusal(q, call[c].loaded) = "none"
          /\ call[c].loaded \in Tree
      BY <1>2 DEF CallKnows
    <2> QED BY <1>2, <2>1, <2>2, EmptyTreeCoherent, NextTreeCoherent
  <1>4. PICK id \in 1 .. Len(commits) + 1 :
          InsertCommit(row, id) /\ tip' = [tip EXCEPT ![r] = id] /\ Return(c, "ok", id)
    BY DEF CommitCas, PublishCas
  <1>5. heads' = [heads EXCEPT ![r] = next] /\ UNCHANGED base
    <2>1. NextHeads(q, heads[r], next) = next
      BY <1>2, NextHeadsIsNextTree
    <2> QED BY <1>1, <2>1 DEF CommitCas, PublishCas, TypeOK
  <1>6. row.tree = next /\ row.parents = <<call[c].expected>>
    OBVIOUS
  <1>7. /\ Len(commits) \in Nat /\ Len(commits') \in Nat /\ Len(commits) <= Len(commits')
        /\ id \in 1 .. Len(commits') /\ commits'[id] = row
        /\ \A i \in 1 .. Len(commits) : commits'[i] = commits[i]
        /\ call[c].expected < id
        /\ ParentsAreOlder' /\ CoherentHistory'
    <2> HIDE DEF q, next, row
    <2>1. \A k \in DOMAIN row.parents : row.parents[k] \in 1 .. Len(commits)
      BY <1>2, <1>6
    <2>2. Coherent(row.tree)
      BY <1>3, <1>6
    <2>3. \A k \in DOMAIN row.parents : row.parents[k] < id
      BY <1>2, <1>4, <2>1, <2>2, InsertCommitInv
    <2> QED BY <1>2, <1>4, <1>6, <2>1, <2>2, <2>3, InsertCommitInv
  <1> HIDE DEF q, r, next, row
  <1>8. Grow
    BY <1>1, <1>2, <1>4, <1>5, <1>7 DEF Grow, TypeOK, NoCommit
  <1>9. RefsAreRooted'
    BY <1>1, <1>2, <1>4, <1>5, <1>7 DEF RefsAreRooted, IInv, TypeOK, NoCommit, Ref
  <1>10. HeadsMatchTip'
    BY <1>1, <1>2, <1>4, <1>5, <1>6, <1>7 DEF HeadsMatchTip, IInv, TypeOK, NoCommit, TreeOf
  <1>11. CoherentHeads'
    BY <1>1, <1>2, <1>3, <1>5 DEF CoherentHeads, IInv, TypeOK
  <1> QED BY <1>1, <1>4, <1>7, <1>8, <1>9, <1>10, <1>11, TableStep

-----------------------------------------------------------------------------
(* The inductive invariant: fork.                                          *)

LEMMA NewBranchFacts ==
  ASSUME TypeOK, NEW b \in Branch, NEW at, NEW tree, NewBranch(b, at, tree)
  PROVE  /\ tip' = [r \in Ref |-> IF r = b THEN at
                               ELSE IF r = Mount /\ tip[r] = NoCommit THEN at ELSE tip[r]]
         /\ base' = [base EXCEPT ![b] = at]
         /\ heads' = [heads EXCEPT ![b] = tree]
         /\ state' \in [Ref -> States]
         /\ b # Mount /\ b \notin Tag
  <1>1. b # Mount /\ b \in Ref /\ Mount \in Ref /\ b \notin Tag
    BY CallAssumption DEF Ref
  <1>2. state' \in [Ref -> States]
    BY <1>1 DEF NewBranch, TypeOK, States
  <1>3. tip' = [r \in Ref |-> IF r = b THEN at
                          ELSE IF r = Mount /\ tip[r] = NoCommit THEN at ELSE tip[r]]
    BY <1>1 DEF NewBranch, TypeOK
  <1> QED BY <1>1, <1>2, <1>3 DEF NewBranch

LEMMA NewBranchInv ==
  ASSUME IInv, NEW c \in Client, NEW b \in Branch, NEW at \in 1 .. Len(commits'), NEW tree \in Tree,
         NewBranch(b, at, tree), Return(c, "ok", at), tip[b] = NoCommit,
         commits' \in Seq(Commit), Len(commits) <= Len(commits'),
         \A i \in 1 .. Len(commits) : commits'[i] = commits[i],
         commits'[at].tree = tree, Coherent(tree),
         tip[Mount] = NoCommit => tree = EmptyTree,
         ParentsAreOlder', CoherentHistory'
  PROVE  IInv'
  <1>1. /\ TypeOK /\ Len(commits) \in Nat /\ Len(commits') \in Nat
        /\ b \in Ref /\ Mount \in Ref /\ at \in 0 .. Len(commits') /\ at # NoCommit
        /\ 0 .. Len(commits) \subseteq 0 .. Len(commits')
    BY RequestRefs DEF IInv, TypeOK, NoCommit
  <1>2. /\ tip' = [r \in Ref |-> IF r = b THEN at
                              ELSE IF r = Mount /\ tip[r] = NoCommit THEN at ELSE tip[r]]
        /\ base' = [base EXCEPT ![b] = at]
        /\ heads' = [heads EXCEPT ![b] = tree]
        /\ state' \in [Ref -> States]
        /\ b # Mount /\ b \notin Tag
    BY <1>1, NewBranchFacts
  <1>3. TypeOK'
    <2>1. "ok" \in Status
      BY DEF Status
    <2>2. /\ call' \in [Client -> CallOf(Len(commits'))]
          /\ reply' \in [Client -> [status : Status, commit : 0 .. Len(commits')]]
      BY <1>1, <2>1, ReturnType
    <2>3. tip' \in [Ref -> 0 .. Len(commits')] /\ base' \in [Ref -> 0 .. Len(commits')]
      BY <1>1, <1>2 DEF TypeOK
    <2>4. heads' \in [Ref -> Tree]
      BY <1>1, <1>2 DEF TypeOK
    <2> QED BY <1>2, <2>2, <2>3, <2>4 DEF TypeOK
  <1>4. Grow
    BY <1>1, <1>2 DEF Grow, TypeOK, NoCommit
  <1>5. RefsAreRooted'
    <2>1. \A r \in Ref : tip'[r] = NoCommit => heads'[r] = EmptyTree
      BY <1>1, <1>2 DEF RefsAreRooted, IInv, TypeOK
    <2>2. tip'[Mount] # NoCommit
      BY <1>1, <1>2
    <2>3. \A x \in Branch : tip'[x] # NoCommit => base'[x] # NoCommit
      BY <1>1, <1>2, RequestRefs, CallAssumption DEF RefsAreRooted, IInv, TypeOK
    <2> QED BY <2>1, <2>2, <2>3 DEF RefsAreRooted
  <1>6. HeadsMatchTip'
    <2> SUFFICES ASSUME NEW r \in Ref \ Tag, tip'[r] # NoCommit
                 PROVE  heads'[r] = commits'[tip'[r]].tree
      BY DEF HeadsMatchTip, TreeOf
    <2>1. CASE r = b
      BY <1>1, <1>2, <2>1 DEF TypeOK
    <2>2. CASE r # b /\ r = Mount /\ tip[r] = NoCommit
      BY <1>1, <1>2, <2>2 DEF TypeOK, IInv, RefsAreRooted
    <2>3. CASE r # b /\ tip[r] # NoCommit
      <3>1. tip'[r] = tip[r] /\ heads'[r] = heads[r] /\ tip[r] \in 1 .. Len(commits)
        BY <1>1, <1>2, <2>3 DEF TypeOK, NoCommit
      <3> QED BY <2>3, <3>1 DEF IInv, HeadsMatchTip, TreeOf
    <2> QED BY <1>2, <2>1, <2>2, <2>3
  <1>7. CoherentHeads'
    BY <1>1, <1>2 DEF CoherentHeads, IInv, TypeOK
  <1> QED BY <1>3, <1>4, <1>5, <1>6, <1>7, TableStep

LEMMA ForkMountInv ==
  ASSUME IInv, NEW c \in Client, ForkMount(c)
  PROVE  IInv'
  <1> DEFINE b == call[c].req.ref
             at == call[c].expected
  <1>1. /\ TypeOK /\ b \in Branch /\ at \in 0 .. Len(commits) /\ at # NoCommit
        /\ tip[b] = NoCommit /\ NewBranch(b, at, TreeOf(at)) /\ Return(c, "ok", at)
        /\ UNCHANGED commits /\ CallKnows(call[c]) /\ call[c].pc = "fork"
        /\ Len(commits) \in Nat
    BY CallFacts DEF ForkMount, At, IInv
  <1> HIDE DEF b, at
  <1>2. at \in 1 .. Len(commits)
    BY <1>1 DEF NoCommit
  <1>3. tip[Mount] # NoCommit
    BY <1>1, <1>2, RequestRefs DEF CallKnows, TypeOK, NoCommit, at
  <1>4. TreeOf(at) \in Tree /\ Coherent(TreeOf(at))
    <2>1. at \in DOMAIN commits
      BY <1>1, <1>2 DEF TypeOK
    <2> QED BY <1>1, <1>2, <2>1, TreeOfType DEF IInv, CoherentHistory, TreeOf
  <1>5. ParentsAreOlder' /\ CoherentHistory' /\ commits' \in Seq(Commit)
    BY <1>1 DEF IInv, ParentsAreOlder, CoherentHistory, TypeOK
  <1> QED BY <1>1, <1>2, <1>3, <1>4, <1>5, NewBranchInv DEF TreeOf

LEMMA ForkGenesisInv ==
  ASSUME IInv, NEW c \in Client, ForkGenesis(c)
  PROVE  IInv'
  <1> DEFINE b == call[c].req.ref
             row == [parents |-> <<>>, tree |-> EmptyTree, op |-> "import"]
  <1>1. TypeOK /\ b \in Branch /\ tip[b] = NoCommit /\ commits \in Seq(Commit)
    BY CallFacts DEF ForkGenesis, At, IInv, TypeOK
  <1>2. PICK id \in 1 .. Len(commits) + 1 :
          InsertCommit(row, id) /\ NewBranch(b, id, EmptyTree) /\ Return(c, "ok", id)
    BY DEF ForkGenesis
  <1>3. row \in Commit /\ row.tree = EmptyTree /\ row.parents = <<>>
    BY EmptyTreeType DEF Commit
  <1> HIDE DEF b, row
  <1>4. Coherent(row.tree) /\ \A k \in DOMAIN row.parents : row.parents[k] \in 1 .. Len(commits)
    BY <1>3, EmptyTreeCoherent
  <1>5. /\ Len(commits) <= Len(commits')
        /\ id \in 1 .. Len(commits') /\ commits'[id] = row
        /\ \A i \in 1 .. Len(commits) : commits'[i] = commits[i]
        /\ ParentsAreOlder' /\ CoherentHistory'
    BY <1>2, <1>3, <1>4, InsertCommitInv
  <1>6. commits' \in Seq(Commit)
    BY <1>1, <1>2, <1>3, InsertCommitGrows
  <1> QED BY <1>1, <1>2, <1>3, <1>4, <1>5, <1>6, EmptyTreeType, NewBranchInv

-----------------------------------------------------------------------------
(* The inductive invariant: merge, tag and discard.                        *)

LEMMA StartForkInv ==
  ASSUME IInv, NEW c \in Client, NEW q \in Requests, StartFork(c, q)
  PROVE  IInv'
  <1>1. q \in ForkRequest /\ TypeOK /\ 0 \in 0 .. Len(commits)
    BY RequestKinds, CallAssumption, CallFacts DEF StartFork, IInv
  <1>2. tip[Mount] \in 0 .. Len(commits) /\ tip[Mount] <= tip[Mount]
    BY <1>1, RequestRefs DEF TypeOK
  <1>3. TypeOK'
    BY <1>1, <1>2, StartType DEF StartFork, NoCommit
  <1>4. CallKnows([pc |-> "fork", req |-> q, attempt |-> 1, expected |-> tip[Mount],
                   other |-> NoCommit, loaded |-> EmptyTree])
    BY <1>2 DEF CallKnows
  <1> QED BY <1>3, <1>4, StartQuiet DEF StartFork

LEMMA StartMergeInv ==
  ASSUME IInv, NEW c \in Client, NEW q \in Requests, StartMerge(c, q)
  PROVE  IInv'
  <1>1. q \in MergeRequest /\ TypeOK /\ 0 \in 0 .. Len(commits)
    BY RequestKinds, CallAssumption, CallFacts DEF StartMerge, IInv
  <1>2. tip[q.ref] \in 0 .. Len(commits)
    BY <1>1, RequestRefs DEF TypeOK
  <1>3. TypeOK'
    BY <1>1, <1>2, StartType DEF StartMerge, NoCommit
  <1>4. CallKnows([pc |-> "mergeBranch", req |-> q, attempt |-> 1, expected |-> tip[q.ref],
                   other |-> NoCommit, loaded |-> EmptyTree])
    BY DEF CallKnows
  <1> QED BY <1>3, <1>4, StartQuiet DEF StartMerge

LEMMA StartTagInv ==
  ASSUME IInv, NEW c \in Client, NEW q \in Requests, StartTag(c, q)
  PROVE  IInv'
  <1>1. q \in TagRequest /\ TypeOK /\ 0 \in 0 .. Len(commits)
    BY RequestKinds, CallAssumption, CallFacts DEF StartTag, IInv
  <1>2. tip[q.ref] \in 0 .. Len(commits)
    BY <1>1, RequestRefs DEF TypeOK
  <1>3. TypeOK'
    BY <1>1, <1>2, StartType DEF StartTag, NoCommit
  <1>4. CallKnows([pc |-> "tag", req |-> q, attempt |-> 1, expected |-> tip[q.ref],
                   other |-> NoCommit, loaded |-> EmptyTree])
    BY DEF CallKnows
  <1> QED BY <1>3, <1>4, StartQuiet DEF StartTag

(* An error leaves no trace.                                               *)
LEMMA ThrowInv ==
  ASSUME IInv, NEW c \in Client, NEW s \in Status, s # "invariant", Throw(c, s)
  PROVE  IInv'
  <1>1. TypeOK'
    BY ThrowType DEF IInv
  <1> QED BY <1>1, ThrowQuiet

(* A call that only settles its branch.                                    *)
LEMMA SettleInv ==
  ASSUME IInv, NEW c \in Client, NEW b \in Branch, NEW s \in States, NEW t \in Status, t # "invariant",
         state' = [state EXCEPT ![b] = s], Return(c, t, NoCommit),
         UNCHANGED <<commits, tip, base, heads>>
  PROVE  IInv'
  <1>1. TypeOK /\ Len(commits) \in Nat /\ Len(commits) <= Len(commits) /\ NoCommit \in 0 .. Len(commits)
    BY CallFacts DEF IInv, NoCommit
  <1>2. /\ call' \in [Client -> CallOf(Len(commits))]
        /\ reply' \in [Client -> [status : Status, commit : 0 .. Len(commits)]]
    BY <1>1, ReturnType
  <1>3. state' \in [Ref -> States]
    BY <1>1, RequestRefs DEF TypeOK
  <1>4. TypeOK'
    BY <1>1, <1>2, <1>3 DEF TypeOK
  <1> QED BY <1>4, ReturnQuiet

LEMMA LockBranchInv ==
  ASSUME IInv, NEW c \in Client, LockBranch(c)
  PROVE  IInv'
  <1> DEFINE q == call[c].req
             b == q.ref
             verdict == MergeVerdict(q, state[b])
             k == [call[c] EXCEPT !.pc = "mergeMount", !.other = tip[Mount]]
  <1>1. /\ TypeOK /\ b \in Branch /\ state[b] \in States /\ call[c].pc = "mergeBranch"
        /\ call[c] \in CallOf(Len(commits)) /\ Len(commits) \in Nat
        /\ tip[Mount] \in 0 .. Len(commits)
    BY CallFacts, RequestRefs DEF LockBranch, At, IInv, TypeOK
  <1>2. CASE Throw(c, "notFound")
    BY <1>2, ThrowInv DEF Status
  <1>3. CASE Throw(c, verdict)
    <2>1. verdict \in Status /\ verdict # "invariant"
      BY <1>1, MergeVerdictType DEF MergeVerdict, States
    <2> QED BY <1>3, <2>1, ThrowInv
  <1>4. CASE /\ state' = [state EXCEPT ![b] = "unauthorized"]
             /\ Return(c, "unauthorized", NoCommit)
             /\ UNCHANGED <<commits, tip, base, heads>>
    <2>1. "unauthorized" \in Status /\ "unauthorized" \in States
      BY DEF Status, States
    <2> QED BY <1>1, <1>4, <2>1, SettleInv
  <1>5. CASE tip[b] # NoCommit /\ Continue(c, k)
    <2>1. k.pc = "mergeMount" /\ k.req = q
      BY <1>1, CallDomain
    <2>2. MaxAttempts \in 1 .. MaxAttempts
      BY KernelAssumption
    <2>3. k \in CallOf(Len(commits))
      BY <1>1, <2>2, CallUpdates, EmptyTreeType
    <2> HIDE DEF k
    <2>4. CallKnows(k)
      BY <1>5, <2>1 DEF CallKnows
    <2>5. TypeOK'
      BY <1>1, <1>5, <2>3, ContinueType
    <2> QED BY <1>5, <2>4, <2>5, ContinueQuiet
  <1> QED BY <1>2, <1>3, <1>4, <1>5 DEF LockBranch

LEMMA EmptyMergeInv ==
  ASSUME IInv, NEW c \in Client, EmptyMerge(c)
  PROVE  IInv'
  <1>1. call[c].req.ref \in Branch
    BY CallFacts DEF EmptyMerge, HoldsRows, At, IInv
  <1>2. "merged" \in Status /\ "merged" \in States
    BY DEF Status, States
  <1> QED BY <1>1, <1>2, SettleInv DEF EmptyMerge

LEMMA CommitMergeInv ==
  ASSUME IInv, NEW c \in Client, CommitMerge(c)
  PROVE  IInv'
  <1> DEFINE b == call[c].req.ref
             tree == MergedTree(c)
             row == [parents |-> <<tip[Mount], tip[b]>>, tree |-> tree, op |-> "merge"]
             id == Len(commits) + 1
  <1>1. /\ TypeOK /\ b \in Branch /\ b \in Ref /\ Mount \in Ref /\ Mount \notin Tag /\ b # Mount
        /\ tip[b] \in 1 .. Len(commits) /\ tip[Mount] \in 1 .. Len(commits)
        /\ Len(commits) \in Nat /\ base[b] # NoCommit
    <2>1. /\ TypeOK /\ b \in Branch /\ b \in Ref /\ Mount \in Ref /\ Mount \notin Tag /\ b # Mount
          /\ call[c].pc = "mergeMount" /\ CallKnows(call[c]) /\ Len(commits) \in Nat
      BY CallFacts, RequestRefs, CallAssumption DEF CommitMerge, HoldsRows, At, IInv
    <2>2. tip[b] # NoCommit /\ tip[Mount] # NoCommit /\ base[b] # NoCommit
      BY <2>1 DEF CallKnows, IInv, RefsAreRooted
    <2> QED BY <2>1, <2>2 DEF TypeOK, NoCommit
  <1>2. tree \in Tree /\ Coherent(tree)
    <2>1. Ours(c) \in Tree /\ Theirs(c) \in Tree
      BY <1>1, TreeOfType DEF Ours, Theirs
    <2> QED BY <2>1, MergedType DEF MergedTree, CommitMerge
  <1>3. /\ commits' = Append(commits, row)
        /\ tip' = [tip EXCEPT ![Mount] = id]
        /\ state' = [state EXCEPT ![b] = "merged"]
        /\ heads' = [heads EXCEPT ![Mount] = tree]
        /\ Return(c, "merged", id)
        /\ UNCHANGED base
    BY DEF CommitMerge, PublishMerge
  <1>4. row \in Commit /\ row.tree = tree /\ row.parents = <<tip[Mount], tip[b]>>
    <2>1. <<tip[Mount], tip[b]>> \in Seq(Nat)
      BY <1>1
    <2> HIDE DEF tree
    <2> QED BY <1>2, <2>1 DEF Commit
  <1> HIDE DEF tree, row, b
  <1>5. id \in 1 .. Len(commits) + 1 /\ InsertCommit(row, id)
    BY <1>1, <1>3 DEF InsertCommit
  <1>6. \A k \in DOMAIN row.parents : row.parents[k] \in 1 .. Len(commits)
    BY <1>1, <1>4
  <1>7. /\ Len(commits') \in Nat /\ Len(commits) <= Len(commits')
        /\ id \in 1 .. Len(commits') /\ commits'[id] = row
        /\ \A i \in 1 .. Len(commits) : commits'[i] = commits[i]
        /\ ParentsAreOlder' /\ CoherentHistory'
    BY <1>2, <1>4, <1>5, <1>6, InsertCommitInv
  <1>8. commits' \in Seq(Commit)
    <2>1. commits \in Seq(Commit)
      BY <1>1 DEF TypeOK
    <2> QED BY <1>4, <1>5, <2>1, InsertCommitGrows
  <1> HIDE DEF id
  <1>9. id \in 0 .. Len(commits') /\ 0 .. Len(commits) \subseteq 0 .. Len(commits')
    BY <1>1, <1>7
  <1>10. tip' \in [Ref -> 0 .. Len(commits')] /\ base' \in [Ref -> 0 .. Len(commits')]
    BY <1>1, <1>3, <1>9 DEF TypeOK
  <1>11. heads' \in [Ref -> Tree] /\ state' \in [Ref -> States]
    BY <1>1, <1>2, <1>3 DEF TypeOK, States
  <1>12. TypeOK'
    <2>1. "merged" \in Status
      BY DEF Status
    <2>2. /\ call' \in [Client -> CallOf(Len(commits'))]
          /\ reply' \in [Client -> [status : Status, commit : 0 .. Len(commits')]]
      BY <1>1, <1>3, <1>7, <1>9, <2>1, ReturnType
    <2> QED BY <1>8, <1>10, <1>11, <2>2 DEF TypeOK
  <1>13. tip[Mount] < id /\ id # NoCommit
    BY <1>1 DEF id, NoCommit
  <1>14. Grow
    BY <1>1, <1>3, <1>7, <1>13 DEF Grow, TypeOK, NoCommit
  <1>15. RefsAreRooted'
    <2>1. \A r \in Ref : tip'[r] = NoCommit => heads'[r] = EmptyTree
      BY <1>1, <1>3, <1>13 DEF RefsAreRooted, IInv, TypeOK
    <2>2. tip'[Mount] # NoCommit
      BY <1>1, <1>3, <1>13 DEF TypeOK
    <2>3. \A x \in Branch : tip'[x] # NoCommit => base'[x] # NoCommit
      BY <1>1, <1>3, RequestRefs, CallAssumption DEF RefsAreRooted, IInv, TypeOK
    <2> QED BY <2>1, <2>2, <2>3 DEF RefsAreRooted
  <1>16. HeadsMatchTip'
    BY <1>1, <1>3, <1>4, <1>7 DEF HeadsMatchTip, IInv, TypeOK, NoCommit, TreeOf
  <1>17. CoherentHeads'
    BY <1>1, <1>2, <1>3 DEF CoherentHeads, IInv, TypeOK
  <1> QED BY <1>3, <1>7, <1>12, <1>14, <1>15, <1>16, <1>17, TableStep

LEMMA ApplyTagInv ==
  ASSUME IInv, NEW c \in Client, ApplyTag(c)
  PROVE  IInv'
  <1> DEFINE b == call[c].req.ref
             label == call[c].req.label
  <1>1. /\ TypeOK /\ b \in Ref /\ label \in Ref /\ label \in Tag /\ label # Mount /\ label \notin Branch
        /\ Len(commits) \in Nat /\ tip[b] \in 0 .. Len(commits)
    BY CallFacts, RequestRefs, CallAssumption DEF ApplyTag, At, IInv, TypeOK
  <1>2. CASE Throw(c, "notFound") \/ Throw(c, "settled") \/ Throw(c, "precondition")
    BY <1>2, ThrowInv DEF Status
  <1>3. CASE /\ tip[b] # NoCommit /\ tip[label] = NoCommit
             /\ tip' = [tip EXCEPT ![label] = tip[b]]
             /\ state' = [state EXCEPT ![label] = "tag"]
             /\ Return(c, "ok", tip[b])
             /\ UNCHANGED <<commits, base, heads>>
    <2> HIDE DEF b, label
    <2>1. Len(commits) <= Len(commits) /\ "ok" \in Status /\ "tag" \in States
      BY <1>1 DEF Status, States
    <2>2. /\ call' \in [Client -> CallOf(Len(commits))]
          /\ reply' \in [Client -> [status : Status, commit : 0 .. Len(commits)]]
      BY <1>1, <1>3, <2>1, ReturnType
    <2>3. TypeOK'
      BY <1>1, <1>3, <2>1, <2>2 DEF TypeOK
    <2>4. Grow
      BY <1>1, <1>3 DEF Grow, TypeOK, NoCommit
    <2>5. RefsAreRooted'
      BY <1>1, <1>3, RequestRefs DEF RefsAreRooted, IInv, TypeOK
    <2>6. HeadsMatchTip' /\ CoherentHeads'
      BY <1>1, <1>3 DEF HeadsMatchTip, CoherentHeads, IInv, TypeOK, TreeOf
    <2>7. ParentsAreOlder' /\ CoherentHistory'
      BY <1>3 DEF ParentsAreOlder, CoherentHistory, IInv
    <2> QED BY <1>3, <2>3, <2>4, <2>5, <2>6, <2>7, TableStep
  <1> QED BY <1>2, <1>3 DEF ApplyTag

LEMMA DiscardInv ==
  ASSUME IInv, NEW b \in Branch, Discard(b)
  PROVE  IInv'
  <1>1. TypeOK'
    BY RequestRefs DEF Discard, IInv, TypeOK, States
  <1>2. \A d \in Client : CallKnows(call[d])'
    BY DEF Discard, IInv, CallKnows
  <1> QED BY <1>1, <1>2 DEF Discard, IInv, ParentsAreOlder, RefsAreRooted, HeadsMatchTip, TreeOf,
               CoherentHistory, CoherentHeads, NeverInvariantError

-----------------------------------------------------------------------------
(* The theorems.                                                           *)

LEMMA InitInv == Init => IInv
  <1> SUFFICES ASSUME Init PROVE IInv
    OBVIOUS
  <1>1. TypeOK
    <2>1. commits \in Seq(Commit) /\ Len(commits) = 0
      BY DEF Init
    <2>2. NoCall \in CallOf(0) /\ NoReply \in [status : Status, commit : 0 .. 0]
      BY DEF CallOf, NoReply, Status, NoCommit
    <2>3. "absent" \in States
      BY DEF States
    <2> QED BY <2>1, <2>2, <2>3, EmptyTreeType DEF Init, TypeOK, NoCommit
  <1>2. ParentsAreOlder /\ CoherentHistory
    BY DEF Init, ParentsAreOlder, CoherentHistory
  <1>3. RefsAreRooted /\ HeadsMatchTip /\ CoherentHeads
    BY RequestRefs, EmptyTreeCoherent DEF Init, RefsAreRooted, HeadsMatchTip, CoherentHeads
  <1>4. (\A c \in Client : CallKnows(call[c])) /\ NeverInvariantError
    BY DEF Init, CallKnows, NoCall, NeverInvariantError, NoReply
  <1> QED BY <1>1, <1>2, <1>3, <1>4 DEF IInv

LEMMA StepInv == IInv /\ [Next]_vars => IInv'
  <1> SUFFICES ASSUME IInv, [Next]_vars PROVE IInv'
    OBVIOUS
  <1>1. ASSUME NEW c \in Client, NEW q \in Requests,
               StartCas(c, q) \/ StartRestore(c, q) \/ StartFork(c, q) \/ StartMerge(c, q) \/ StartTag(c, q)
        PROVE  IInv'
    BY <1>1, StartCasInv, StartRestoreInv, StartForkInv, StartMergeInv, StartTagInv
  <1>2. ASSUME NEW c \in Client, LoadRef(c) \/ LoadHeads(c) \/ CommitCas(c) \/ LoseCas(c)
        PROVE  IInv'
    BY <1>2, LoadRefInv, LoadHeadsInv, CommitCasInv, LoseCasInv
  <1>3. ASSUME NEW c \in Client, ForkExisting(c) PROVE IInv'
    <2>1. TypeOK /\ tip[call[c].req.ref] \in 0 .. Len(commits)
      BY <1>3, CallFacts, RequestRefs DEF ForkExisting, At, IInv, TypeOK
    <2>2. TypeOK'
      BY <1>3, <2>1, ReturnKeepsType DEF ForkExisting, Status
    <2> QED BY <1>3, <2>2, ReturnQuiet DEF ForkExisting
  <1>4. ASSUME NEW c \in Client, ForkMount(c) \/ ForkGenesis(c) PROVE IInv'
    BY <1>4, ForkMountInv, ForkGenesisInv
  <1>5. ASSUME NEW c \in Client, LoseMount(c) \/ ConflictingMerge(c) \/ Crash(c) PROVE IInv'
    <2>1. Throw(c, "notFound") \/ Throw(c, "conflicts") \/ Throw(c, "lost")
      BY <1>5 DEF LoseMount, ConflictingMerge, Crash
    <2> QED BY <2>1, ThrowInv DEF Status
  <1>6. ASSUME NEW c \in Client, LockBranch(c) \/ EmptyMerge(c) \/ CommitMerge(c) PROVE IInv'
    BY <1>6, LockBranchInv, EmptyMergeInv, CommitMergeInv
  <1>7. ASSUME NEW c \in Client, ApplyTag(c) PROVE IInv'
    BY <1>7, ApplyTagInv
  <1>8. ASSUME NEW b \in Branch, Discard(b) PROVE IInv'
    BY <1>8, DiscardInv
  <1>9. CASE UNCHANGED vars
    BY <1>9 DEF vars, IInv, TypeOK, ParentsAreOlder, RefsAreRooted, HeadsMatchTip, TreeOf,
                CoherentHistory, CoherentHeads, CallKnows, NeverInvariantError
  <1> QED BY <1>1, <1>2, <1>3, <1>4, <1>5, <1>6, <1>7, <1>8, <1>9 DEF Next, Advance, Fork, Merge

THEOREM Invariance == Spec => []IInv
  BY InitInv, StepInv, PTL DEF Spec

(* Every variable stays within its type, whatever calls run concurrently.  *)
THEOREM TypeCorrect == Spec => []TypeOK
  <1>1. IInv => TypeOK
    BY DEF IInv
  <1> QED BY <1>1, Invariance, PTL

(* The heads index of the mount and of every branch is the tree of its tip:*)
(* the compare-and-swap on commit_id alone protects the index too, because *)
(* tips only grow and the index changes only with its tip.                 *)
THEOREM HeadsFollowTips == Spec => []HeadsMatchTip
  <1>1. IInv => HeadsMatchTip
    BY DEF IInv
  <1> QED BY <1>1, Invariance, PTL

(* No commit of any ref ever holds a file above another file.              *)
THEOREM HistoryIsCoherent == Spec => []CoherentHistory
  <1>1. IInv => CoherentHistory
    BY DEF IInv
  <1> QED BY <1>1, Invariance, PTL

(* The check after which captureBatch would throw InvariantError is dead   *)
(* code: masking already removed every collision.                          *)
THEOREM CaptureNeverBreaksItsModel == Spec => []NeverInvariantError
  <1>1. IInv => NeverInvariantError
    BY DEF IInv
  <1> QED BY <1>1, Invariance, PTL

LEMMA ForkMoves ==
  ASSUME IInv, NEW c \in Client, ForkMount(c) \/ ForkGenesis(c), NEW r \in Ref, tip[r] # NoCommit
  PROVE  tip'[r] = tip[r]
  <1> DEFINE b == call[c].req.ref
  <1>1. TypeOK /\ b \in Branch /\ tip[b] = NoCommit
    BY CallFacts DEF ForkMount, ForkGenesis, At, IInv
  <1>2. PICK at, tree : NewBranch(b, at, tree)
    BY DEF ForkMount, ForkGenesis
  <1> HIDE DEF b
  <1>3. tip' = [x \in Ref |-> IF x = b THEN at
                          ELSE IF x = Mount /\ tip[x] = NoCommit THEN at ELSE tip[x]]
    BY <1>1, <1>2, NewBranchFacts
  <1> QED BY <1>1, <1>3

(* History is never rewritten: a ref moves only to a child of its tip.     *)
THEOREM RefsMoveToChildren == Spec => MovesToChild
  <1> DEFINE Moves == \A r \in Ref : tip[r] # NoCommit /\ tip'[r] # tip[r] =>
                        /\ commits'[tip'[r]].parents # <<>>
                        /\ commits'[tip'[r]].parents[1] = tip[r]
  <1>1. ASSUME IInv, [Next]_vars PROVE Moves \/ UNCHANGED vars
    <2>1. ASSUME NEW c \in Client, CommitCas(c) PROVE Moves
      <3> DEFINE q == call[c].req
                 row == [parents |-> <<call[c].expected>>, op |-> q.kind,
                         tree |-> NextTree(q, call[c].loaded, Source(c))]
      <3>1. row \in Commit /\ q.ref \in Ref /\ commits \in Seq(Commit) /\ tip \in [Ref -> 0 .. Len(commits)]
        BY <1>1, <2>1, InsertedRowType, CallFacts DEF CommitCas, At, IInv, TypeOK
      <3>2. tip[q.ref] = call[c].expected
        BY <2>1 DEF CommitCas
      <3>3. PICK id \in 1 .. Len(commits) + 1 : InsertCommit(row, id) /\ tip' = [tip EXCEPT ![q.ref] = id]
        BY <2>1 DEF CommitCas, PublishCas
      <3>4. row.parents # <<>> /\ row.parents[1] = call[c].expected
        OBVIOUS
      <3> HIDE DEF row, q
      <3>5. commits'[id] = row
        BY <3>1, <3>3, InsertCommitGrows
      <3>6. \A r \in Ref : tip'[r] = IF r = q.ref THEN id ELSE tip[r]
        BY <3>1, <3>3
      <3> QED BY <3>2, <3>4, <3>5, <3>6
    <2>2. ASSUME NEW c \in Client, CommitMerge(c) PROVE Moves
      <3> DEFINE row == [parents |-> <<tip[Mount], tip[call[c].req.ref]>>, tree |-> MergedTree(c), op |-> "merge"]
      <3>1. commits' = Append(commits, row) /\ tip' = [tip EXCEPT ![Mount] = Len(commits) + 1]
        BY <2>2 DEF CommitMerge, PublishMerge
      <3>2. row.parents[1] = tip[Mount] /\ row.parents # <<>>
        OBVIOUS
      <3>3. commits \in Seq(Commit) /\ tip \in [Ref -> 0 .. Len(commits)]
        BY <1>1 DEF IInv, TypeOK
      <3> HIDE DEF row
      <3>4. commits'[Len(commits) + 1] = row
        BY <3>1, <3>3
      <3> QED BY <3>1, <3>2, <3>3, <3>4, RequestRefs
    <2>3. ASSUME NEW c \in Client, ForkMount(c) \/ ForkGenesis(c) PROVE Moves
      BY <1>1, <2>3, ForkMoves
    <2>4. ASSUME NEW c \in Client, ApplyTag(c) PROVE Moves
      <3>1. \/ tip' = tip
            \/ tip[call[c].req.label] = NoCommit /\ \E i : tip' = [tip EXCEPT ![call[c].req.label] = i]
        BY <2>4 DEF ApplyTag, Throw
      <3> QED BY <1>1, <3>1 DEF IInv, TypeOK
    <2>5. ASSUME NEW c \in Client, NEW q \in Requests,
                 StartCas(c, q) \/ StartRestore(c, q) \/ StartFork(c, q) \/ StartMerge(c, q) \/ StartTag(c, q)
          PROVE  Moves
      BY <2>5 DEF StartCas, StartRestore, StartFork, StartMerge, StartTag, Start
    <2>6. ASSUME NEW c \in Client,
                 \/ LoadRef(c) \/ LoadHeads(c) \/ LoseCas(c) \/ ForkExisting(c) \/ LockBranch(c)
                 \/ LoseMount(c) \/ ConflictingMerge(c) \/ EmptyMerge(c) \/ Crash(c)
          PROVE  Moves
      <3>1. UNCHANGED tip
        BY <2>6 DEF LoadRef, LoadHeads, LoseCas, Retry, ForkExisting, LockBranch, LoseMount,
                    ConflictingMerge, EmptyMerge, Crash, Throw, Continue
      <3> QED BY <3>1
    <2>7. ASSUME NEW b \in Branch, Discard(b) PROVE Moves
      BY <2>7 DEF Discard
    <2> QED BY <1>1, <2>1, <2>2, <2>3, <2>4, <2>5, <2>6, <2>7 DEF Next, Advance, Fork, Merge
  <1>2. IInv /\ [Next]_vars => [Moves]_vars
    BY <1>1
  <1> QED BY <1>2, Invariance, PTL DEF Spec, MovesToChild
=============================================================================
