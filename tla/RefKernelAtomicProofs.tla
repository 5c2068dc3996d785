----------------------- MODULE RefKernelAtomicProofs -----------------------
(***************************************************************************)
(* Theorems about RefKernel: it implements AtomicRefs, merges lose nothing,*)
(* the base of a branch is an ancestor of both sides, and no commit is     *)
(* empty as long as nobody edits a tag.                                    *)
(***************************************************************************)
EXTENDS RefKernelAtomic, RefKernelProofs

(* The history after a step: the commits there were are kept.              *)
Kept ==
    /\ Len(commits) <= Len(commits')
    /\ \A i \in 1 .. Len(commits) : commits'[i] = commits[i]

\* r moves to a child of its tip, or stays
Follows(r) ==
    tip[r] # NoCommit =>
        \/ tip'[r] = tip[r]
        \/ /\ tip'[r] \in DOMAIN commits'
           /\ \E k \in DOMAIN commits'[tip'[r]].parents : commits'[tip'[r]].parents[k] = tip[r]

\* what was an ancestor of r's tip still is
AncestryStays(r) ==
    tip[r] # NoCommit =>
        tip'[r] # NoCommit /\ \A j \in Ancestors[tip[r]] : j \in Ancestors'[tip'[r]]

LEMMA HistoryDomain ==
  ASSUME TypeOK
  PROVE  /\ commits \in Seq(Commit) /\ Len(commits) \in Nat /\ DOMAIN commits = 1 .. Len(commits)
         /\ \A r \in Ref : tip[r] \in 0 .. Len(commits)
         /\ \A r \in Ref : tip[r] # NoCommit => tip[r] \in DOMAIN commits
         /\ \A r \in Ref : base[r] \in 0 .. Len(commits)
         /\ NoCommit \notin DOMAIN commits
  BY DEF TypeOK, NoCommit

LEMMA AncestorSelf ==
  ASSUME NEW i \in DOMAIN commits
  PROVE  i \in Ancestors[i]
  BY DEF Ancestors

(* What a step that keeps the commits does to the ancestors.               *)
LEMMA AncestorsStep ==
  ASSUME IInv, IInv', Kept
  PROVE  /\ \A i \in DOMAIN commits : \A j \in Ancestors[i] : j \in Ancestors'[i]
         /\ \A i \in DOMAIN commits' : i \in Ancestors'[i]
         /\ \A i \in DOMAIN commits' : \A k \in DOMAIN commits'[i].parents :
               \A j \in Ancestors'[commits'[i].parents[k]] : j \in Ancestors'[i]
  <1>1. /\ DOMAIN commits = 1 .. Len(commits) /\ DOMAIN commits' = 1 .. Len(commits')
        /\ Len(commits) \in Nat /\ Len(commits') \in Nat
        /\ DOMAIN commits \subseteq DOMAIN commits'
    BY DEF IInv, TypeOK, Kept
  <1>2. \A i \in DOMAIN commits : Parents(i)' = Parents(i) /\ Parents(i) \subseteq DOMAIN commits
    BY <1>1 DEF Parents, Kept, IInv, ParentsAreOlder
  <1>3. ASSUME NEW i \in DOMAIN commits, NEW j \in Ancestors[i] PROVE j \in Ancestors'[i]
    <2>1. j \in DOMAIN commits'
      BY <1>1, <1>3 DEF Ancestors
    <2>2. ASSUME NEW K \in SUBSET DOMAIN commits', i \in K,
                 \A k \in K : Parents(k)' \subseteq K
          PROVE  j \in K
      <3> DEFINE L == K \cap DOMAIN commits
      <3>1. L \in SUBSET DOMAIN commits /\ i \in L /\ \A k \in L : Parents(k) \subseteq L
        BY <1>2, <2>2
      <3> HIDE DEF L
      <3>2. j \in L
        BY <3>1 DEF Ancestors
      <3> QED BY <3>2 DEF L
    <2> QED BY <1>1, <2>1, <2>2 DEF Ancestors
  <1>4. \A i \in DOMAIN commits' : i \in Ancestors'[i]
    BY DEF Ancestors
  <1>5. ASSUME NEW i \in DOMAIN commits', NEW k \in DOMAIN commits'[i].parents,
               NEW j \in Ancestors'[commits'[i].parents[k]]
        PROVE  j \in Ancestors'[i]
    <2> DEFINE p == commits'[i].parents[k]
    <2>1. p \in DOMAIN commits' /\ p \in Parents(i)'
      BY <1>1 DEF IInv, ParentsAreOlder, Parents
    <2> QED BY <2>1 DEF Ancestors
  <1> QED BY <1>3, <1>4, <1>5

(* Refs that move to children keep their ancestors, and every branch its   *)
(* base among them.                                                        *)
LEMMA AncestryStep ==
  ASSUME IInv, IInv', Kept, \A r \in Ref : Follows(r)
  PROVE  \A r \in Ref : AncestryStays(r)
  <1> SUFFICES ASSUME NEW r \in Ref, tip[r] # NoCommit
               PROVE  tip'[r] # NoCommit /\ \A j \in Ancestors[tip[r]] : j \in Ancestors'[tip'[r]]
    BY DEF AncestryStays
  <1>1. tip[r] \in DOMAIN commits /\ NoCommit \notin DOMAIN commits'
    BY HistoryDomain DEF IInv, TypeOK, NoCommit
  <1>2. CASE tip'[r] = tip[r]
    BY <1>1, <1>2, AncestorsStep
  <1>3. CASE tip'[r] # tip[r]
    <2>1. /\ tip'[r] \in DOMAIN commits'
          /\ \E k \in DOMAIN commits'[tip'[r]].parents : commits'[tip'[r]].parents[k] = tip[r]
      BY <1>3 DEF Follows
    <2> QED BY <1>1, <2>1, AncestorsStep
  <1> QED BY <1>2, <1>3

LEMMA BaseStep ==
  ASSUME IInv, IInv', BaseIsCommonAncestor, \A r \in Ref : AncestryStays(r),
         \A b \in Branch : tip[b] # NoCommit => base'[b] = base[b],
         \A b \in Branch : tip[b] = NoCommit /\ tip'[b] # NoCommit =>
             base'[b] \in Ancestors'[tip'[b]] /\ base'[b] \in Ancestors'[tip'[Mount]]
  PROVE  BaseIsCommonAncestor'
  <1> SUFFICES ASSUME NEW b \in Branch, tip'[b] # NoCommit
               PROVE  base'[b] \in Ancestors'[tip'[b]] /\ base'[b] \in Ancestors'[tip'[Mount]]
    BY DEF BaseIsCommonAncestor
  <1>1. CASE tip[b] # NoCommit
    <2>1. /\ base'[b] = base[b] /\ tip[Mount] # NoCommit
          /\ base[b] \in Ancestors[tip[b]] /\ base[b] \in Ancestors[tip[Mount]]
          /\ AncestryStays(b) /\ AncestryStays(Mount)
      BY <1>1, RequestRefs DEF BaseIsCommonAncestor, IInv, RefsAreRooted
    <2> QED BY <1>1, <2>1 DEF AncestryStays
  <1> QED BY <1>1

-----------------------------------------------------------------------------
(* The inductive invariant: what a step leaves to the calls in flight.     *)

(* What d counts on outlasts the steps of the others.                      *)
LEMMA CountsStay ==
  ASSUME IInv, IInv', Kept, NEW d \in Client, CallCounts(d),
         call'[d] = call[d], reply'[d] = reply[d],
         At(d, "fork") => AncestryStays(Mount) /\ (tip[Mount] = NoCommit => tip'[Mount] = NoCommit),
         At(d, "mergeMount") => state'[call[d].req.ref] = state[call[d].req.ref]
  PROVE  CallCounts(d)'
  <1> DEFINE k == call[d]
             q == k.req
  <1>1. /\ k.pc # "idle" => reply[d].status = "none"
        /\ k.pc = "cas" => NextTree(q, k.loaded, Source(d)) # k.loaded
        /\ k.pc = "fork" => /\ k.expected = NoCommit <=> tip[Mount] = NoCommit
                            /\ tip[Mount] # NoCommit => k.expected \in Ancestors[tip[Mount]]
        /\ k.pc = "mergeMount" => state[q.ref] = "open" /\ Atomic!MayMerge(q)
    BY DEF CallCounts, At
  <1>2. Source(d)' = Source(d)
    <2>1. k.other = NoCommit \/ k.other \in 1 .. Len(commits)
      BY CallFacts DEF IInv, NoCommit
    <2> QED BY <2>1 DEF Kept, Source, TreeOf
  <1>3. Atomic!MayMerge(q)' = Atomic!MayMerge(q)
    BY DEF Atomic!MayMerge
  <1>4. k.pc = "fork" => /\ k.expected = NoCommit <=> tip'[Mount] = NoCommit
                         /\ tip'[Mount] # NoCommit => k.expected \in Ancestors'[tip'[Mount]]
    BY <1>1 DEF At, AncestryStays
  <1>5. call'[d] = k /\ (k.pc = "mergeMount" => state'[q.ref] = state[q.ref])
    BY DEF At
  <1> HIDE DEF k
  <1> QED BY <1>1, <1>2, <1>3, <1>4, <1>5 DEF CallCounts, At

(* A step of c: its own call goes on as k, the others' stay what they were.*)
LEMMA OneStep ==
  ASSUME AInv, IInv', Kept, NEW c \in Client, NEW k, call' = [call EXCEPT ![c] = k],
         \A d \in Client \ {c} : reply'[d] = reply[d],
         \A d \in Client \ {c} :
             At(d, "fork") => AncestryStays(Mount) /\ (tip[Mount] = NoCommit => tip'[Mount] = NoCommit),
         \A d \in Client \ {c} :
             At(d, "mergeMount") => state'[call[d].req.ref] = state[call[d].req.ref],
         k.pc \in UnderLock => call[c].pc \in UnderLock \/ ~MountLocked,
         CallCounts(c)', RefStates', BaseIsCommonAncestor'
  PROVE  AInv'
  <1>1. \A d \in Client : call'[d] = IF d = c THEN k ELSE call[d]
    BY DEF AInv, IInv, TypeOK
  <1>2. LockExcludes'
    BY <1>1 DEF LockExcludes, AInv, UnderLock, MountLocked
  <1>3. ASSUME NEW d \in Client PROVE CallCounts(d)'
    BY <1>1, <1>3, CountsStay DEF AInv
  <1> QED BY <1>2, <1>3 DEF AInv

(* The call ends.                                                          *)
LEMMA LastStep ==
  ASSUME AInv, IInv', Kept, NEW c \in Client, NEW s, NEW i, Return(c, s, i),
         \A d \in Client \ {c} :
             At(d, "fork") => AncestryStays(Mount) /\ (tip[Mount] = NoCommit => tip'[Mount] = NoCommit),
         \A d \in Client \ {c} :
             At(d, "mergeMount") => state'[call[d].req.ref] = state[call[d].req.ref],
         RefStates', BaseIsCommonAncestor'
  PROVE  AInv'
  <1>1. call' = [call EXCEPT ![c] = NoCall] /\ \A d \in Client \ {c} : reply'[d] = reply[d]
    BY DEF Return, AInv, IInv, TypeOK
  <1>2. NoCall.pc = "idle" /\ NoCall.pc \notin UnderLock
    BY DEF NoCall, UnderLock
  <1>3. call'[c] = NoCall
    BY <1>1 DEF AInv, IInv, TypeOK
  <1>4. CallCounts(c)'
    BY <1>2, <1>3 DEF CallCounts, At
  <1> QED BY <1>1, <1>2, <1>4, OneStep

(* A step that touches neither the commits nor the refs, except that it    *)
(* may settle a branch.                                                    *)
LEMMA TablesStay ==
  ASSUME AInv, UNCHANGED <<commits, tip, base>>
  PROVE  /\ Kept
         /\ \A r \in Ref : AncestryStays(r)
         /\ BaseIsCommonAncestor'
         /\ state' = state => RefStates'
  <1>1. Kept
    BY HistoryDomain DEF Kept, AInv, IInv
  <1>2. Ancestors' = Ancestors
    BY DEF Ancestors, Parents
  <1>3. \A r \in Ref : AncestryStays(r)
    BY <1>2 DEF AncestryStays
  <1>4. BaseIsCommonAncestor'
    BY <1>2 DEF BaseIsCommonAncestor, AInv
  <1>5. state' = state => RefStates'
    BY DEF RefStates, AInv
  <1> QED BY <1>1, <1>3, <1>4, <1>5

-----------------------------------------------------------------------------
(* The inductive invariant: steps that change no ref.                      *)

LEMMA StepKeepsIInv ==
  ASSUME AInv, Next
  PROVE  IInv'
  BY StepInv DEF AInv

LEMMA StartAInv ==
  ASSUME AInv, NEW c \in Client, NEW q \in Requests,
         StartCas(c, q) \/ StartRestore(c, q) \/ StartFork(c, q) \/ StartMerge(c, q) \/ StartTag(c, q)
  PROVE  AInv'
  <1>1. IInv'
    BY StepKeepsIInv DEF Next
  <1>2. PICK pc, expected, other :
          /\ Start(c, q, pc, expected, other)
          /\ \/ pc = "load" /\ q.kind \in CasKinds
             \/ pc = "fork" /\ expected = tip[Mount] /\ ~MountLocked
             \/ pc = "mergeBranch" /\ ~MountLocked
             \/ pc = "tag"
    BY DEF StartCas, StartRestore, StartFork, StartMerge, StartTag, CasKinds
  <1> DEFINE k == [pc |-> pc, req |-> q, attempt |-> 1, expected |-> expected,
                   other |-> other, loaded |-> EmptyTree]
  <1>3. /\ call' = [call EXCEPT ![c] = k]
        /\ reply' = [reply EXCEPT ![c] = NoReply]
        /\ UNCHANGED <<commits, tip, base, state>>
    BY <1>2 DEF Start
  <1>4. k.pc = pc /\ k.req = q /\ k.expected = expected
    OBVIOUS
  <1> HIDE DEF k
  <1>5. /\ call'[c] = k /\ reply'[c].status = "none"
        /\ \A d \in Client \ {c} : reply'[d] = reply[d]
    BY <1>3 DEF AInv, IInv, TypeOK, NoReply
  <1>6. Kept /\ AncestryStays(Mount) /\ BaseIsCommonAncestor' /\ RefStates'
    BY <1>3, TablesStay, RequestRefs
  <1>7. tip[Mount] # NoCommit => tip[Mount] \in Ancestors'[tip'[Mount]]
    BY <1>3, <1>6, AncestorSelf, HistoryDomain, RequestRefs DEF AncestryStays, AInv, IInv
  <1>8. CallCounts(c)'
    <2>1. k.pc \in {"load", "fork", "mergeBranch", "tag"}
      BY <1>2, <1>4
    <2>3. k.pc = "fork" => k.expected = tip[Mount]
      BY <1>2, <1>4
    <2> QED BY <1>3, <1>4, <1>5, <1>7, <2>1, <2>3 DEF CallCounts, At
  <1>9. k.pc \in UnderLock => ~MountLocked
    BY <1>2, <1>4 DEF UnderLock
  <1> QED BY <1>1, <1>3, <1>5, <1>6, <1>8, <1>9, OneStep

(* A call that returns and leaves the tables alone.                        *)
LEMMA ReturnAInv ==
  ASSUME AInv, IInv', NEW c \in Client, NEW s, NEW i, Return(c, s, i),
         UNCHANGED <<commits, tip, base, state, heads>>
  PROVE  AInv'
  <1>1. /\ Kept /\ AncestryStays(Mount) /\ BaseIsCommonAncestor'
        /\ RefStates' /\ tip' = tip /\ state' = state
    BY TablesStay, RequestRefs
  <1> QED BY <1>1, LastStep

LEMMA ThrowAInv ==
  ASSUME AInv, IInv', NEW c \in Client, NEW s, Throw(c, s)
  PROVE  AInv'
  BY ReturnAInv DEF Throw

(* A call that goes on and leaves the tables alone.                        *)
LEMMA ContinueAInv ==
  ASSUME AInv, IInv', NEW c \in Client, NEW k, Continue(c, k), ~At(c, "idle"),
         k.pc \in UnderLock => call[c].pc \in UnderLock,
         k.req = call[c].req, k.other = call[c].other \/ k.pc = "mergeMount",
         k.pc = "cas" => NextTree(k.req, k.loaded, Source(c)) # k.loaded,
         k.pc # "fork",
         k.pc = "mergeMount" => state[k.req.ref] = "open" /\ Atomic!MayMerge(k.req)
  PROVE  AInv'
  <1>1. /\ call' = [call EXCEPT ![c] = k]
        /\ UNCHANGED <<commits, tip, base, state, reply>>
    BY DEF Continue
  <1>2. /\ Kept /\ AncestryStays(Mount) /\ BaseIsCommonAncestor' /\ RefStates'
    BY <1>1, TablesStay, RequestRefs
  <1>3. call'[c] = k /\ reply'[c].status = "none"
    BY <1>1 DEF AInv, IInv, TypeOK, CallCounts
  <1>4. k.pc = "cas" => Source(c)' = Source(c)
    BY <1>1, <1>3 DEF Source, TreeOf
  <1>5. Atomic!MayMerge(k.req)' = Atomic!MayMerge(k.req)
    BY DEF Atomic!MayMerge
  <1>6. CallCounts(c)'
    BY <1>1, <1>3, <1>4, <1>5 DEF CallCounts, At
  <1> QED BY <1>1, <1>2, <1>6, OneStep

LEMMA LoadRefAInv ==
  ASSUME AInv, IInv', NEW c \in Client, LoadRef(c)
  PROVE  AInv'
  <1> DEFINE k == [call[c] EXCEPT !.pc = "heads", !.expected = tip[call[c].req.ref]]
  <1>1. /\ call[c] \in CallOf(Len(commits)) /\ Len(commits) \in Nat /\ call[c].pc = "load"
    BY CallFacts DEF LoadRef, At, AInv, IInv, CallCounts
  <1>2. CASE Throw(c, "notFound") \/ Throw(c, "settled")
    BY <1>2, ThrowAInv
  <1>3. CASE Continue(c, k)
    <2>1. k.pc = "heads" /\ k.req = call[c].req /\ k.other = call[c].other
      BY <1>1, CallDomain
    <2> HIDE DEF k
    <2> QED BY <1>1, <1>3, <2>1, ContinueAInv DEF At, UnderLock
  <1> QED BY <1>2, <1>3 DEF LoadRef

LEMMA LoadHeadsAInv ==
  ASSUME AInv, IInv', NEW c \in Client, LoadHeads(c)
  PROVE  AInv'
  <1> DEFINE q == call[c].req
             h == heads[q.ref]
             k == [call[c] EXCEPT !.pc = "cas", !.loaded = h]
  <1>1. /\ call[c] \in CallOf(Len(commits)) /\ Len(commits) \in Nat /\ call[c].pc = "heads"
    BY CallFacts DEF LoadHeads, At, AInv, IInv, CallCounts
  <1>2. CASE Throw(c, Refusal(q, h))
    BY <1>2, ThrowAInv
  <1>3. CASE Return(c, "ok", call[c].expected) /\ UNCHANGED <<commits, tip, base, state, heads>>
    BY <1>3, ReturnAInv
  <1>4. CASE NextTree(q, h, Source(c)) # h /\ Continue(c, k)
    <2>1. k.pc = "cas" /\ k.req = q /\ k.other = call[c].other /\ k.loaded = h
      BY <1>1, CallDomain
    <2> HIDE DEF k
    <2> QED BY <1>1, <1>4, <2>1, ContinueAInv DEF At, UnderLock
  <1> QED BY <1>2, <1>3, <1>4 DEF LoadHeads

LEMMA LoseCasAInv ==
  ASSUME AInv, IInv', NEW c \in Client, LoseCas(c)
  PROVE  AInv'
  <1> DEFINE a == call[c].attempt + 1
             k == [call[c] EXCEPT !.pc = "load", !.attempt = a, !.expected = NoCommit,
                                  !.loaded = EmptyTree]
  <1>1. /\ call[c] \in CallOf(Len(commits)) /\ Len(commits) \in Nat /\ call[c].pc = "cas"
    BY CallFacts DEF LoseCas, CasLost, At, AInv, IInv, CallCounts
  <1> HIDE DEF a
  <1>2. CASE Throw(c, "refConflict")
    BY <1>2, ThrowAInv
  <1>3. CASE Continue(c, k)
    <2>1. k.pc = "load" /\ k.req = call[c].req /\ k.other = call[c].other
      BY <1>1, CallDomain
    <2> HIDE DEF k
    <2> QED BY <1>1, <1>3, <2>1, ContinueAInv DEF At, UnderLock
  <1> QED BY <1>2, <1>3 DEF LoseCas, Retry, a

(* A merge that goes on merges an open branch and may do so.               *)
LEMMA VerdictNone ==
  ASSUME NEW q \in MergeRequest, NEW s \in States \ {"absent", "tag"}, MergeVerdict(q, s) = "none"
  PROVE  s = "open" /\ (q.grant = "none" \/ Atomic!MayMerge(q))
  <1>1. q.grant \in {"none", "staged", "direct"} /\ q.approver \in {"absent", "none", "staged", "direct"}
    BY DEF MergeRequest
  <1> QED BY <1>1 DEF MergeVerdict, States, Atomic!MayMerge

LEMMA BranchState ==
  ASSUME AInv, NEW b \in Branch, tip[b] # NoCommit
  PROVE  state[b] \in States \ {"absent", "tag"}
  BY RequestRefs, CallAssumption DEF AInv, IInv, TypeOK, RefStates

(* A branch row that a merge holds is not settled by anyone else.          *)
LEMMA SettleAInv ==
  ASSUME AInv, IInv', NEW c \in Client, call[c].pc \in UnderLock, NEW b \in Branch, tip[b] # NoCommit,
         NEW s \in {"merged", "unauthorized"}, state' = [state EXCEPT ![b] = s],
         NEW t, Return(c, t, NoCommit), UNCHANGED <<commits, tip, base, heads>>
  PROVE  AInv'
  <1>1. Kept /\ AncestryStays(Mount) /\ BaseIsCommonAncestor'
    BY TablesStay, RequestRefs
  <1>2. RefStates'
    BY RequestRefs, CallAssumption DEF RefStates, AInv, IInv, TypeOK
  <1>3. \A d \in Client \ {c} : ~At(d, "fork") /\ ~At(d, "mergeMount")
    BY DEF LockExcludes, AInv, At, UnderLock
  <1> QED BY <1>1, <1>2, <1>3, LastStep

LEMMA LockBranchAInv ==
  ASSUME AInv, IInv', NEW c \in Client, LockBranch(c)
  PROVE  AInv'
  <1> DEFINE q == call[c].req
             b == q.ref
             k == [call[c] EXCEPT !.pc = "mergeMount", !.other = tip[Mount]]
  <1>1. /\ call[c] \in CallOf(Len(commits)) /\ Len(commits) \in Nat /\ call[c].pc = "mergeBranch"
        /\ q \in MergeRequest /\ b \in Branch
    BY CallFacts DEF LockBranch, At, AInv, IInv
  <1>2. CASE Throw(c, "notFound") \/ Throw(c, MergeVerdict(q, state[b]))
    BY <1>2, ThrowAInv
  <1>3. CASE /\ tip[b] # NoCommit
             /\ state' = [state EXCEPT ![b] = "unauthorized"]
             /\ Return(c, "unauthorized", NoCommit)
             /\ UNCHANGED <<commits, tip, base, heads>>
    BY <1>1, <1>3, SettleAInv DEF UnderLock
  <1>4. CASE /\ tip[b] # NoCommit
             /\ MergeVerdict(q, state[b]) = "none" /\ q.grant # "none"
             /\ Continue(c, k)
    <2>1. k.pc = "mergeMount" /\ k.req = q
      BY <1>1, CallDomain
    <2>2. state[b] = "open" /\ Atomic!MayMerge(q)
      BY <1>1, <1>4, BranchState, VerdictNone
    <2> HIDE DEF k
    <2> QED BY <1>1, <1>4, <2>1, <2>2, ContinueAInv DEF At, UnderLock
  <1> QED BY <1>2, <1>3, <1>4 DEF LockBranch

LEMMA EmptyMergeAInv ==
  ASSUME AInv, IInv', NEW c \in Client, EmptyMerge(c)
  PROVE  AInv'
  <1>1. call[c].req.ref \in Branch /\ call[c].pc = "mergeMount"
    BY CallFacts DEF EmptyMerge, HoldsRows, At, AInv, IInv
  <1>2. tip[call[c].req.ref] # NoCommit
    BY <1>1 DEF AInv, IInv, CallKnows
  <1> QED BY <1>1, <1>2, SettleAInv DEF EmptyMerge, UnderLock

LEMMA DiscardAInv ==
  ASSUME AInv, IInv', NEW b \in Branch, Discard(b)
  PROVE  AInv'
  <1>1. /\ Kept /\ AncestryStays(Mount) /\ BaseIsCommonAncestor'
        /\ UNCHANGED <<commits, tip, call, reply>>
    BY TablesStay, RequestRefs DEF Discard
  <1>2. RefStates'
    BY RequestRefs, CallAssumption DEF Discard, RefStates, AInv, IInv, TypeOK
  <1>3. LockExcludes'
    BY <1>1 DEF LockExcludes, AInv
  <1>4. ASSUME NEW d \in Client PROVE CallCounts(d)'
    <2>1. At(d, "mergeMount") => state'[call[d].req.ref] = state[call[d].req.ref]
      BY DEF Discard, RowLocked, AInv, IInv, TypeOK
    <2> QED BY <1>1, <1>4, <2>1, CountsStay DEF AInv
  <1> QED BY <1>1, <1>2, <1>3, <1>4 DEF AInv

-----------------------------------------------------------------------------
(* The inductive invariant: steps that move a ref.                         *)

\* the history grows by the commit id, unless it was there
Grows(id) ==
    /\ Kept
    /\ id \in DOMAIN commits'
    /\ \A i \in DOMAIN commits' : i \in DOMAIN commits \/ i = id

LEMMA InsertedCommit ==
  ASSUME TypeOK, NEW row \in Commit, NEW id \in 1 .. Len(commits) + 1, InsertCommit(row, id)
  PROVE  Grows(id) /\ commits'[id] = row
  <1>1. /\ commits \in Seq(Commit) /\ commits' \in Seq(Commit) /\ Kept
        /\ id \in 1 .. Len(commits') /\ commits'[id] = row
        /\ \/ Len(commits') = Len(commits)
           \/ id = Len(commits) + 1 /\ Len(commits') = Len(commits) + 1
    BY InsertCommitGrows DEF TypeOK, Kept
  <1> QED BY <1>1 DEF Grows

(* What a compare-and-swap does: it commits the tree of the call over the  *)
(* tree its ref holds now.                                                 *)
EditsTo(c, r, next, id) ==
    /\ Grows(id) /\ commits'[id].tree = next /\ commits'[id].parents = <<tip[r]>>
    /\ tip' = [tip EXCEPT ![r] = id]
    /\ Return(c, "ok", id)

LEMMA CasEffects ==
  ASSUME AInv, NEW c \in Client, CommitCas(c),
         NEW q, q = call[c].req, NEW next, next = NextTree(q, heads[q.ref], Source(c))
  PROVE  /\ q \in CasRequest /\ q.ref \in Ref /\ Source(c) \in Tree /\ next \in Tree
         /\ tip[q.ref] \in DOMAIN commits /\ heads' = [heads EXCEPT ![q.ref] = next]
         /\ Refusal(q, heads[q.ref]) = "none" /\ next # heads[q.ref]
         /\ UNCHANGED <<base, state>>
         /\ \E id \in DOMAIN commits' : EditsTo(c, q.ref, next, id)
  <1> DEFINE row == [parents |-> <<tip[q.ref]>>, tree |-> next, op |-> q.kind]
  <1>1. /\ TypeOK /\ At(c, "cas") /\ q \in CasRequest /\ q.ref \in Ref /\ Source(c) \in Tree
        /\ tip[q.ref] = call[c].expected /\ CallKnows(call[c]) /\ CallCounts(c)
    BY CallFacts, SourceType DEF CommitCas, At, AInv, IInv
  <1>2. /\ call[c].expected # NoCommit /\ Refusal(q, call[c].loaded) = "none"
        /\ call[c].loaded = heads[q.ref]
        /\ NextTree(q, call[c].loaded, Source(c)) # call[c].loaded
    BY <1>1 DEF CallKnows, CallCounts, At
  <1>3. tip[q.ref] \in DOMAIN commits /\ heads[q.ref] \in Tree
    BY <1>1, <1>2, HistoryDomain DEF AInv, IInv, TypeOK
  <1>4. next \in Tree
    BY <1>1, <1>3, NextTreeType
  <1>5. row \in Commit /\ row.tree = next /\ row.parents = <<tip[q.ref]>>
    BY <1>1, <1>2, InsertedRowType
  <1>6. /\ UNCHANGED <<base, state>>
        /\ \E id \in 1 .. Len(commits) + 1 :
              InsertCommit(row, id) /\ tip' = [tip EXCEPT ![q.ref] = id] /\ Return(c, "ok", id)
    BY <1>1, <1>2 DEF CommitCas, PublishCas
  <1> HIDE DEF row
  <1>7. PICK id \in 1 .. Len(commits) + 1 :
          InsertCommit(row, id) /\ tip' = [tip EXCEPT ![q.ref] = id] /\ Return(c, "ok", id)
    BY <1>6
  <1>8. Grows(id) /\ commits'[id] = row
    BY <1>1, <1>5, <1>7, InsertedCommit
  <1>9. id \in DOMAIN commits' /\ EditsTo(c, q.ref, next, id)
    BY <1>5, <1>7, <1>8 DEF Grows, EditsTo
  <1>10. heads' = [heads EXCEPT ![q.ref] = next]
    <2>1. NextHeads(q, heads[q.ref], next) = next
      BY <1>1, <1>3, NextHeadsIsNextTree
    <2>2. heads' = [heads EXCEPT ![q.ref] = NextHeads(q, heads[q.ref], next)]
      BY <1>1, <1>2 DEF CommitCas, PublishCas
    <2> QED BY <2>1, <2>2
  <1> QED BY <1>1, <1>2, <1>3, <1>4, <1>6, <1>9, <1>10

LEMMA CommitCasAInv ==
  ASSUME AInv, IInv', NEW c \in Client, CommitCas(c)
  PROVE  AInv'
  <1>0. PICK q, next : q = call[c].req /\ next = NextTree(q, heads[q.ref], Source(c))
    OBVIOUS
  <1> DEFINE r == q.ref
  <1>1. r \in Ref /\ tip[r] \in DOMAIN commits /\ UNCHANGED <<base, state>>
    BY <1>0, CasEffects
  <1>2. PICK id \in DOMAIN commits' : EditsTo(c, r, next, id)
    BY <1>0, CasEffects
  <1> HIDE DEF r
  <1>3. /\ \A x \in Ref : tip'[x] = IF x = r THEN id ELSE tip[x]
        /\ tip[r] # NoCommit /\ id # NoCommit
    BY <1>1, <1>2, HistoryDomain DEF EditsTo, AInv, IInv, TypeOK, NoCommit
  <1>4. 1 \in DOMAIN commits'[id].parents /\ commits'[id].parents[1] = tip[r]
    BY <1>2 DEF EditsTo
  <1>5. \A x \in Ref : Follows(x)
    BY <1>2, <1>3, <1>4 DEF Follows, EditsTo
  <1>6. \A x \in Ref : AncestryStays(x)
    BY <1>2, <1>5, AncestryStep DEF AInv, Grows, EditsTo
  <1>7. BaseIsCommonAncestor'
    BY <1>1, <1>3, <1>6, BaseStep, RequestRefs DEF AInv
  <1>9. RefStates'
    BY <1>1, <1>3 DEF RefStates, AInv
  <1> QED BY <1>1, <1>2, <1>3, <1>6, <1>7, <1>9, LastStep, RequestRefs DEF Grows, EditsTo

(* What a fork that creates its branch does: the branch starts from a      *)
(* commit the mount had, or mount and branch start from the genesis.       *)
LEMMA ForkEffects ==
  ASSUME AInv, NEW c \in Client, ForkMount(c) \/ ForkGenesis(c), NEW b, b = call[c].req.ref
  PROVE  /\ call[c].pc = "fork" /\ call[c].req \in ForkRequest
         /\ b \in Branch /\ tip[b] = NoCommit
         /\ \E id \in DOMAIN commits', tree \in Tree :
               /\ Grows(id) /\ commits'[id].tree = tree
               /\ NewBranch(b, id, tree)
               /\ Return(c, "ok", id)
               /\ tip[Mount] # NoCommit =>
                     commits' = commits /\ id \in DOMAIN commits /\ id \in Ancestors[tip[Mount]]
               /\ tip[Mount] = NoCommit => tree = EmptyTree /\ commits'[id].parents = <<>>
  <1>1. /\ TypeOK /\ call[c].pc = "fork" /\ call[c].req \in ForkRequest /\ b \in Branch
        /\ tip[b] = NoCommit /\ call[c].expected \in 0 .. Len(commits)
        /\ call[c].expected = NoCommit <=> tip[Mount] = NoCommit
        /\ tip[Mount] # NoCommit => call[c].expected \in Ancestors[tip[Mount]]
    BY CallFacts DEF ForkMount, ForkGenesis, At, AInv, IInv, CallCounts
  <1>2. CASE ForkMount(c)
    <2>1. PICK at : at = call[c].expected
      OBVIOUS
    <2>2. /\ at # NoCommit /\ NewBranch(b, at, TreeOf(at)) /\ Return(c, "ok", at) /\ commits' = commits
      BY <1>2, <2>1 DEF ForkMount
    <2>3. at \in DOMAIN commits /\ TreeOf(at) \in Tree
      BY <1>1, <2>1, <2>2, HistoryDomain, TreeOfType DEF NoCommit
    <2>4. Grows(at) /\ commits'[at].tree = TreeOf(at)
      BY <1>1, <2>2, <2>3, HistoryDomain DEF Grows, Kept, TreeOf
    <2> QED BY <1>1, <2>1, <2>2, <2>3, <2>4
  <1>3. CASE ForkGenesis(c)
    <2>1. PICK row : row = [parents |-> <<>>, tree |-> EmptyTree, op |-> "import"]
      OBVIOUS
    <2>2. row \in Commit /\ row.tree = EmptyTree /\ row.parents = <<>>
      BY <2>1, EmptyTreeType DEF Commit
    <2>3. PICK id \in 1 .. Len(commits) + 1 :
            InsertCommit(row, id) /\ NewBranch(b, id, EmptyTree) /\ Return(c, "ok", id)
      BY <1>3, <2>1 DEF ForkGenesis
    <2>4. Grows(id) /\ commits'[id] = row /\ id \in DOMAIN commits'
      BY <1>1, <2>2, <2>3, InsertedCommit DEF Grows
    <2>5. tip[Mount] = NoCommit
      BY <1>1, <1>3 DEF ForkGenesis
    <2> QED BY <1>1, <2>2, <2>3, <2>4, <2>5, EmptyTreeType
  <1> QED BY <1>2, <1>3

LEMMA ForkAInv ==
  ASSUME AInv, IInv', NEW c \in Client, ForkMount(c) \/ ForkGenesis(c)
  PROVE  AInv'
  <1>1. PICK b : b = call[c].req.ref
    OBVIOUS
  <1>2. call[c].pc = "fork" /\ b \in Branch /\ tip[b] = NoCommit
    BY <1>1, ForkEffects
  <1>3. PICK id \in DOMAIN commits', tree \in Tree :
          /\ Grows(id) /\ commits'[id].tree = tree
          /\ NewBranch(b, id, tree)
          /\ Return(c, "ok", id)
          /\ tip[Mount] # NoCommit =>
                commits' = commits /\ id \in DOMAIN commits /\ id \in Ancestors[tip[Mount]]
          /\ tip[Mount] = NoCommit => tree = EmptyTree /\ commits'[id].parents = <<>>
    BY <1>1, ForkEffects
  <1>4. TypeOK /\ NoCommit \notin DOMAIN commits' /\ id # NoCommit
    BY DEF AInv, IInv, TypeOK, NoCommit
  <1>5. /\ tip' = [r \in Ref |-> IF r = b THEN id
                              ELSE IF r = Mount /\ tip[r] = NoCommit THEN id ELSE tip[r]]
        /\ base' = [base EXCEPT ![b] = id]
        /\ b # Mount /\ b \in Ref /\ Mount \in Ref \ Tag /\ b \notin Tag
    BY <1>2, <1>3, <1>4, NewBranchFacts, RequestRefs, CallAssumption
  <1>6. \A r \in Ref : Follows(r)
    BY <1>2, <1>5 DEF Follows
  <1>7. \A r \in Ref : AncestryStays(r)
    BY <1>3, <1>6, AncestryStep DEF AInv, Grows
  <1>8. id \in Ancestors'[id] /\ id \in Ancestors'[tip'[Mount]]
    <2>1. id \in Ancestors'[id]
      BY <1>3, AncestorsStep DEF AInv, Grows
    <2>2. CASE tip[Mount] = NoCommit
      BY <1>5, <2>1, <2>2
    <2>3. CASE tip[Mount] # NoCommit
      <3>1. AncestryStays(Mount)
        BY <1>5, <1>7
      <3>2. id \in Ancestors[tip[Mount]]
        BY <1>3, <2>3
      <3> QED BY <2>1, <2>3, <3>1, <3>2 DEF AncestryStays
    <2> QED BY <2>1, <2>2, <2>3
  <1>9. BaseIsCommonAncestor'
    <2>1. \A x \in Branch : tip[x] # NoCommit => base'[x] = base[x]
      BY <1>2, <1>4, <1>5, RequestRefs DEF TypeOK
    <2>2. \A x \in Branch : tip[x] = NoCommit /\ tip'[x] # NoCommit =>
            base'[x] \in Ancestors'[tip'[x]] /\ base'[x] \in Ancestors'[tip'[Mount]]
      BY <1>4, <1>5, <1>8, RequestRefs, CallAssumption DEF TypeOK
    <2> QED BY <1>7, <2>1, <2>2, BaseStep DEF AInv
  <1>11. RefStates'
    <2>1. \A r \in Ref : state'[r] = IF r = b THEN "open"
                                  ELSE IF r = Mount /\ state[r] = "absent" THEN "open" ELSE state[r]
      BY <1>3, <1>4, <1>5 DEF NewBranch, TypeOK
    <2> QED BY <1>4, <1>5, <2>1 DEF RefStates, AInv, TypeOK
  <1>12. \A d \in Client \ {c} : ~At(d, "fork") /\ ~At(d, "mergeMount")
    BY <1>2 DEF LockExcludes, AInv, At, UnderLock
  <1> QED BY <1>3, <1>9, <1>11, <1>12, LastStep DEF Grows

(* What a merge with something to bring over does.                         *)
MergesTo(c, b, tree, id) ==
    /\ Grows(id) /\ commits'[id].tree = tree
    /\ commits'[id].parents = <<tip[Mount], tip[b]>>
    /\ tip' = [tip EXCEPT ![Mount] = id]
    /\ state' = [state EXCEPT ![b] = "merged"]
    /\ heads' = [heads EXCEPT ![Mount] = tree]
    /\ Return(c, "merged", id)

LEMMA MergeEffects ==
  ASSUME AInv, NEW c \in Client, CommitMerge(c), NEW b, b = call[c].req.ref,
         NEW tree, tree = MergedTree(c)
  PROVE  /\ call[c].pc = "mergeMount" /\ call[c].req \in MergeRequest
         /\ b \in Branch /\ tip[b] \in DOMAIN commits /\ tip[Mount] \in DOMAIN commits
         /\ tree # TreeOf(tip[Mount])
         /\ UNCHANGED base
         /\ \E id \in DOMAIN commits' : MergesTo(c, b, tree, id)
  <1>1. /\ TypeOK /\ call[c].pc = "mergeMount" /\ call[c].req \in MergeRequest /\ b \in Branch
        /\ CallKnows(call[c]) /\ b \in Ref /\ Mount \in Ref
    BY CallFacts, RequestRefs DEF CommitMerge, HoldsRows, At, AInv, IInv
  <1>2. tip[b] # NoCommit /\ tip[Mount] # NoCommit
    BY <1>1 DEF CallKnows, AInv, IInv, RefsAreRooted
  <1>3. tip[b] \in DOMAIN commits /\ tip[Mount] \in DOMAIN commits
    BY <1>1, <1>2, HistoryDomain
  <1>4. tree \in Tree
    <2>1. Ours(c) \in Tree /\ Theirs(c) \in Tree
      BY <1>1, <1>3, TreeOfType, HistoryDomain DEF Ours, Theirs
    <2> QED BY <2>1, MergedType DEF MergedTree
  <1>5. PICK row, id : row = [parents |-> <<tip[Mount], tip[b]>>, tree |-> tree, op |-> "merge"]
                       /\ id = Len(commits) + 1
    OBVIOUS
  <1>6. row \in Commit /\ row.tree = tree /\ row.parents = <<tip[Mount], tip[b]>>
    <2>1. <<tip[Mount], tip[b]>> \in Seq(Nat)
      BY <1>1, HistoryDomain
    <2> QED BY <1>4, <1>5, <2>1 DEF Commit
  <1>7. id \in 1 .. Len(commits) + 1 /\ InsertCommit(row, id)
    BY <1>1, <1>5, HistoryDomain DEF CommitMerge, PublishMerge, InsertCommit
  <1>8. Grows(id) /\ commits'[id] = row /\ id \in DOMAIN commits'
    BY <1>1, <1>6, <1>7, InsertedCommit DEF Grows
  <1>9. MergesTo(c, b, tree, id)
    BY <1>5, <1>6, <1>8 DEF CommitMerge, PublishMerge, MergesTo
  <1>10. tree # TreeOf(tip[Mount]) /\ UNCHANGED base
    BY DEF CommitMerge, PublishMerge, Theirs
  <1> QED BY <1>1, <1>3, <1>8, <1>9, <1>10

LEMMA CommitMergeAInv ==
  ASSUME AInv, IInv', NEW c \in Client, CommitMerge(c)
  PROVE  AInv'
  <1>1. PICK b, tree : b = call[c].req.ref /\ tree = MergedTree(c)
    OBVIOUS
  <1>2. /\ call[c].pc = "mergeMount" /\ b \in Branch /\ tip[b] \in DOMAIN commits
        /\ tip[Mount] \in DOMAIN commits /\ tree # TreeOf(tip[Mount]) /\ UNCHANGED base
    BY <1>1, MergeEffects
  <1>3. PICK id \in DOMAIN commits' : MergesTo(c, b, tree, id)
    BY <1>1, MergeEffects
  <1>4. /\ \A x \in Ref : tip'[x] = IF x = Mount THEN id ELSE tip[x]
        /\ Mount \in Ref /\ Mount \notin Branch /\ b \in Ref /\ b \notin Tag
        /\ tip[Mount] # NoCommit /\ tip[b] # NoCommit /\ id # NoCommit
    BY <1>2, <1>3, HistoryDomain, RequestRefs, CallAssumption DEF MergesTo, AInv, IInv, TypeOK, NoCommit
  <1>5. 1 \in DOMAIN commits'[id].parents /\ commits'[id].parents[1] = tip[Mount]
    BY <1>3 DEF MergesTo
  <1>6. \A x \in Ref : Follows(x)
    BY <1>3, <1>4, <1>5 DEF Follows, MergesTo
  <1>7. \A x \in Ref : AncestryStays(x)
    BY <1>3, <1>6, AncestryStep DEF AInv, Grows, MergesTo
  <1>8. BaseIsCommonAncestor'
    BY <1>2, <1>4, <1>7, BaseStep, RequestRefs DEF AInv
  <1>10. RefStates'
    BY <1>3, <1>4 DEF MergesTo, RefStates, AInv, IInv, TypeOK
  <1>11. \A d \in Client \ {c} : ~At(d, "fork") /\ ~At(d, "mergeMount")
    BY <1>2 DEF LockExcludes, AInv, At, UnderLock
  <1> QED BY <1>3, <1>8, <1>10, <1>11, LastStep DEF Grows, MergesTo

LEMMA ApplyTagAInv ==
  ASSUME AInv, IInv', NEW c \in Client, ApplyTag(c)
  PROVE  AInv'
  <1> DEFINE b == call[c].req.ref
             label == call[c].req.label
  <1>1. TypeOK /\ b \in Branch /\ b \in Ref /\ label \in Ref /\ label \in Tag /\ label # Mount
        /\ label \notin Branch /\ call[c].pc = "tag"
    BY CallFacts, RequestRefs, CallAssumption DEF ApplyTag, At, AInv, IInv
  <1>2. CASE Throw(c, "notFound") \/ Throw(c, "settled") \/ Throw(c, "precondition")
    BY <1>2, ThrowAInv
  <1>3. CASE /\ tip[b] # NoCommit /\ tip[label] = NoCommit
             /\ tip' = [tip EXCEPT ![label] = tip[b]]
             /\ state' = [state EXCEPT ![label] = "tag"]
             /\ Return(c, "ok", tip[b])
             /\ UNCHANGED <<commits, base, heads>>
    <2> HIDE DEF b, label
    <2>1. /\ \A x \in Ref : tip'[x] = IF x = label THEN tip[b] ELSE tip[x]
          /\ \A x \in Ref : state'[x] = IF x = label THEN "tag" ELSE state[x]
      BY <1>1, <1>3 DEF TypeOK
    <2>2. Kept /\ \A x \in Ref : Follows(x)
      BY <1>1, <1>3, <2>1, HistoryDomain DEF Kept, Follows
    <2>3. \A x \in Ref : AncestryStays(x)
      BY <2>2, AncestryStep DEF AInv
    <2>4. BaseIsCommonAncestor'
      BY <1>1, <1>3, <2>1, <2>3, BaseStep, RequestRefs DEF AInv
    <2>6. RefStates'
      BY <1>1, <1>3, <2>1 DEF RefStates, AInv
    <2>7. \A d \in Client : At(d, "mergeMount") => call[d].req.ref \in Branch /\ call[d].req.ref \in Ref
      BY <1>1, CallFacts, RequestRefs DEF At
    <2>8. /\ AncestryStays(Mount) /\ (tip[Mount] = NoCommit => tip'[Mount] = NoCommit)
          /\ \A d \in Client : At(d, "mergeMount") => state'[call[d].req.ref] = state[call[d].req.ref]
      BY <1>1, <2>1, <2>3, <2>7, RequestRefs
    <2> QED BY <1>3, <2>2, <2>4, <2>6, <2>8, LastStep
  <1> QED BY <1>2, <1>3 DEF ApplyTag

LEMMA InitAInv == Init => AInv
  <1> SUFFICES ASSUME Init PROVE AInv
    OBVIOUS
  <1>1. IInv
    BY InitInv
  <1>2. LockExcludes /\ \A c \in Client : CallCounts(c)
    BY DEF Init, LockExcludes, CallCounts, At, NoCall, UnderLock
  <1>3. RefStates /\ BaseIsCommonAncestor
    BY RequestRefs DEF Init, RefStates, BaseIsCommonAncestor
  <1> QED BY <1>1, <1>2, <1>3 DEF AInv

LEMMA StepAInv == AInv /\ [Next]_vars => AInv'
  <1> SUFFICES ASSUME AInv, [Next]_vars PROVE AInv'
    OBVIOUS
  <1>0. IInv'
    BY StepInv DEF AInv
  <1>1. ASSUME NEW c \in Client, NEW q \in Requests,
               StartCas(c, q) \/ StartRestore(c, q) \/ StartFork(c, q) \/ StartMerge(c, q) \/ StartTag(c, q)
        PROVE  AInv'
    BY <1>1, StartAInv
  <1>2. ASSUME NEW c \in Client, LoadRef(c) \/ LoadHeads(c) \/ CommitCas(c) \/ LoseCas(c)
        PROVE  AInv'
    BY <1>0, <1>2, LoadRefAInv, LoadHeadsAInv, CommitCasAInv, LoseCasAInv
  <1>3. ASSUME NEW c \in Client, ForkExisting(c) PROVE AInv'
    BY <1>0, <1>3, ReturnAInv DEF ForkExisting
  <1>4. ASSUME NEW c \in Client, ForkMount(c) \/ ForkGenesis(c) PROVE AInv'
    BY <1>0, <1>4, ForkAInv
  <1>5. ASSUME NEW c \in Client, LoseMount(c) \/ ConflictingMerge(c) \/ Crash(c) PROVE AInv'
    BY <1>0, <1>5, ThrowAInv DEF LoseMount, ConflictingMerge, Crash
  <1>6. ASSUME NEW c \in Client, LockBranch(c) \/ EmptyMerge(c) \/ CommitMerge(c) PROVE AInv'
    BY <1>0, <1>6, LockBranchAInv, EmptyMergeAInv, CommitMergeAInv
  <1>7. ASSUME NEW c \in Client, ApplyTag(c) PROVE AInv'
    BY <1>0, <1>7, ApplyTagAInv
  <1>8. ASSUME NEW b \in Branch, Discard(b) PROVE AInv'
    BY <1>0, <1>8, DiscardAInv
  <1>9. CASE UNCHANGED vars
    <2>1. Ancestors' = Ancestors
      BY <1>9 DEF vars, Ancestors, Parents
    <2>2. ASSUME NEW c \in Client PROVE CallCounts(c)'
      BY <1>9, <2>1, TablesStay, RequestRefs, CountsStay, <1>0 DEF vars, AInv
    <2> QED BY <1>0, <1>9, <2>2, TablesStay DEF vars, AInv, LockExcludes
  <1> QED BY <1>1, <1>2, <1>3, <1>4, <1>5, <1>6, <1>7, <1>8, <1>9 DEF Next, Advance, Fork, Merge

THEOREM AtomicInvariance == Spec => []AInv
  BY InitAInv, StepAInv, PTL DEF Spec

(* A commit that changes the tree of its first parent keeps history free   *)
(* of empty commits.                                                       *)
LEMMA NoEmptyStep ==
  ASSUME AInv, NoEmptyCommit, NEW id, Grows(id),
         commits'[id].parents # <<>> =>
             /\ commits'[id].parents[1] \in DOMAIN commits
             /\ commits'[id].tree # TreeOf(commits'[id].parents[1])
  PROVE  NoEmptyCommit'
  <1>1. DOMAIN commits = 1 .. Len(commits) /\ \A i \in DOMAIN commits : commits'[i] = commits[i]
    BY HistoryDomain DEF AInv, IInv, Grows, Kept
  <1> SUFFICES ASSUME NEW i \in DOMAIN commits', commits'[i].parents # <<>>
               PROVE  commits'[i].tree # commits'[commits'[i].parents[1]].tree
    BY DEF NoEmptyCommit, TreeOf
  <1>2. CASE i = id
    BY <1>1, <1>2 DEF TreeOf
  <1>3. CASE i \in DOMAIN commits
    <2>0. commits[i] \in Commit
      BY <1>3, HistoryDomain DEF AInv, IInv
    <2>1. commits[i].parents \in Seq(Nat) /\ commits'[i] = commits[i]
      BY <1>1, <1>3, <2>0 DEF Commit
    <2>2. 1 \in DOMAIN commits[i].parents
      BY <2>1
    <2>3. commits[i].parents[1] \in DOMAIN commits
      BY <1>1, <1>3, <2>2, HistoryDomain DEF AInv, IInv, ParentsAreOlder
    <2> QED BY <1>1, <1>3, <2>1, <2>3 DEF NoEmptyCommit, TreeOf
  <1> QED BY <1>2, <1>3 DEF Grows

LEMMA NoEmptyKept ==
  ASSUME NoEmptyCommit, UNCHANGED commits
  PROVE  NoEmptyCommit'
  BY DEF NoEmptyCommit, TreeOf

LEMMA CasNotEmpty ==
  ASSUME AInv, NoEmptyCommit, EditsOfSessions, NEW c \in Client, CommitCas(c)
  PROVE  NoEmptyCommit'
  <1>1. PICK q, next : q = call[c].req /\ next = NextTree(q, heads[q.ref], Source(c))
    OBVIOUS
  <1>2. /\ q \in CasRequest /\ q.ref \in Ref /\ tip[q.ref] \in DOMAIN commits
        /\ next # heads[q.ref]
    BY <1>1, CasEffects
  <1>3. q.ref \notin Tag /\ tip[q.ref] # NoCommit
    <2>1. q.kind \in CasKinds
      BY <1>2 DEF CasRequest, WriteRequest, DeleteRequest, CaptureRequest, RestoreRequest, CasKinds
    <2> QED BY <1>1, <1>2, <2>1, HistoryDomain DEF EditsOfSessions, AInv, IInv
  <1>4. heads[q.ref] = TreeOf(tip[q.ref])
    BY <1>2, <1>3 DEF AInv, IInv, HeadsMatchTip
  <1>5. PICK id \in DOMAIN commits' : EditsTo(c, q.ref, next, id)
    BY <1>1, CasEffects
  <1>6. Grows(id) /\ commits'[id].tree = next /\ commits'[id].parents[1] = tip[q.ref]
    BY <1>5 DEF EditsTo
  <1> QED BY <1>2, <1>4, <1>6, NoEmptyStep

LEMMA ForkNotEmpty ==
  ASSUME AInv, NoEmptyCommit, NEW c \in Client, ForkMount(c) \/ ForkGenesis(c)
  PROVE  NoEmptyCommit'
  <1>1. PICK b : b = call[c].req.ref
    OBVIOUS
  <1>2. PICK id \in DOMAIN commits' :
          /\ Grows(id)
          /\ tip[Mount] # NoCommit => commits' = commits
          /\ tip[Mount] = NoCommit => commits'[id].parents = <<>>
    BY <1>1, ForkEffects
  <1> QED BY <1>2, NoEmptyStep, NoEmptyKept

LEMMA MergeNotEmpty ==
  ASSUME AInv, NoEmptyCommit, NEW c \in Client, CommitMerge(c)
  PROVE  NoEmptyCommit'
  <1>1. PICK b, tree : b = call[c].req.ref /\ tree = MergedTree(c)
    OBVIOUS
  <1>2. tip[Mount] \in DOMAIN commits /\ tree # TreeOf(tip[Mount])
    BY <1>1, MergeEffects
  <1>3. PICK id \in DOMAIN commits' : MergesTo(c, b, tree, id)
    BY <1>1, MergeEffects
  <1>4. Grows(id) /\ commits'[id].tree = tree /\ commits'[id].parents[1] = tip[Mount]
    BY <1>3 DEF MergesTo
  <1> QED BY <1>2, <1>4, NoEmptyStep

LEMMA NotEmptyStep ==
  ASSUME AInv, NoEmptyCommit, EditsOfSessions, [Next]_vars
  PROVE  NoEmptyCommit'
  <1>1. ASSUME NEW c \in Client, NEW q \in Requests,
               StartCas(c, q) \/ StartRestore(c, q) \/ StartFork(c, q) \/ StartMerge(c, q) \/ StartTag(c, q)
        PROVE  UNCHANGED commits
    BY <1>1 DEF StartCas, StartRestore, StartFork, StartMerge, StartTag, Start
  <1>2. ASSUME NEW c \in Client,
               \/ LoadRef(c) \/ LoadHeads(c) \/ LoseCas(c) \/ ForkExisting(c) \/ LockBranch(c)
               \/ LoseMount(c) \/ ConflictingMerge(c) \/ EmptyMerge(c) \/ ApplyTag(c) \/ Crash(c)
        PROVE  UNCHANGED commits
    BY <1>2 DEF LoadRef, LoadHeads, LoseCas, Retry, ForkExisting, LockBranch, LoseMount,
                ConflictingMerge, EmptyMerge, ApplyTag, Crash, Throw, Continue
  <1>3. ASSUME NEW b \in Branch, Discard(b) PROVE UNCHANGED commits
    BY <1>3 DEF Discard
  <1>4. CASE UNCHANGED vars
    BY <1>4, NoEmptyKept DEF vars
  <1> QED BY <1>1, <1>2, <1>3, <1>4, NoEmptyKept, CasNotEmpty, ForkNotEmpty, MergeNotEmpty
          DEF Next, Advance, Fork, Merge

LEMMA EditsStep ==
  ASSUME SessionsOnly, AInv, EditsOfSessions, [Next]_vars
  PROVE  EditsOfSessions'
  <1>1. NoCall.req.kind \notin CasKinds
    BY DEF NoCall, NoRequest, CasKinds
  <1>2. call \in [Client -> CallOf(Len(commits))] /\ Len(commits) \in Nat
    BY HistoryDomain DEF AInv, IInv, TypeOK
  <1>3. ASSUME NEW c \in Client, NEW k, call' = [call EXCEPT ![c] = k],
               k.req = call[c].req \/ k.req \in Requests \/ k = NoCall
        PROVE  EditsOfSessions'
    <2>1. k.req.kind \in CasKinds => k.req.ref \notin Tag
      BY <1>1, <1>3 DEF SessionsOnly, EditsOfSessions
    <2> QED BY <1>2, <1>3, <2>1 DEF EditsOfSessions
  <1>4. ASSUME NEW c \in Client, NEW q \in Requests,
               StartCas(c, q) \/ StartRestore(c, q) \/ StartFork(c, q) \/ StartMerge(c, q) \/ StartTag(c, q)
        PROVE  EditsOfSessions'
    <2>1. PICK pc, expected, other : Start(c, q, pc, expected, other)
      BY <1>4 DEF StartCas, StartRestore, StartFork, StartMerge, StartTag
    <2>2. PICK k : k = [pc |-> pc, req |-> q, attempt |-> 1, expected |-> expected,
                        other |-> other, loaded |-> EmptyTree]
      OBVIOUS
    <2> QED BY <1>3, <2>1, <2>2 DEF Start
  <1>5. ASSUME NEW c \in Client, Advance(c) \/ Crash(c) PROVE EditsOfSessions'
    <2>1. ASSUME NEW s, NEW i, Return(c, s, i) PROVE EditsOfSessions'
      BY <1>3, <2>1 DEF Return
    <2>2. ASSUME NEW k, Continue(c, k), k.req = call[c].req PROVE EditsOfSessions'
      BY <1>3, <2>2 DEF Continue
    <2>3. CASE LoadRef(c)
      <3>1. [call[c] EXCEPT !.pc = "heads", !.expected = tip[call[c].req.ref]].req = call[c].req
        BY <1>2, CallDomain
      <3> QED BY <2>1, <2>2, <2>3, <3>1 DEF LoadRef, Throw
    <2>4. CASE LoadHeads(c)
      <3>1. [call[c] EXCEPT !.pc = "cas", !.loaded = heads[call[c].req.ref]].req = call[c].req
        BY <1>2, CallDomain
      <3> QED BY <2>1, <2>2, <2>4, <3>1 DEF LoadHeads, Throw
    <2>5. CASE LoseCas(c)
      <3> DEFINE a == call[c].attempt + 1
                 k == [call[c] EXCEPT !.pc = "load", !.attempt = a, !.expected = NoCommit,
                                      !.loaded = EmptyTree]
      <3>0. (\E s : Throw(c, s)) \/ Continue(c, k)
        BY <2>5 DEF LoseCas, Retry
      <3> HIDE DEF a
      <3>1. k.req = call[c].req
        BY <1>2, CallDomain
      <3> QED BY <2>1, <2>2, <3>0, <3>1 DEF Throw
    <2>6. CASE LockBranch(c)
      <3>1. [call[c] EXCEPT !.pc = "mergeMount", !.other = tip[Mount]].req = call[c].req
        BY <1>2, CallDomain
      <3> QED BY <2>1, <2>2, <2>6, <3>1 DEF LockBranch, Throw
    <2>7. CASE CommitCas(c) \/ Fork(c) \/ ApplyTag(c)
      BY <2>1, <2>7 DEF CommitCas, PublishCas, Fork, ForkExisting, ForkMount, ForkGenesis, ApplyTag, Throw
    <2>8. CASE LoseMount(c) \/ ConflictingMerge(c) \/ EmptyMerge(c) \/ CommitMerge(c) \/ Crash(c)
      BY <2>1, <2>8 DEF LoseMount, ConflictingMerge, EmptyMerge, CommitMerge, PublishMerge, Crash, Throw
    <2> QED BY <1>5, <2>3, <2>4, <2>5, <2>6, <2>7, <2>8 DEF Advance, Merge
  <1>6. ASSUME NEW b \in Branch, Discard(b) PROVE EditsOfSessions'
    BY <1>6 DEF Discard, EditsOfSessions
  <1>7. CASE UNCHANGED vars
    BY <1>7 DEF vars, EditsOfSessions
  <1> QED BY <1>4, <1>5, <1>6, <1>7 DEF Next

(* No empty commits: when calls edit branches and the mount only, as those *)
(* of sessions do, every commit changes the tree of its first parent,      *)
(* although the no-op test ran on heads read before the compare-and-swap.  *)
(* A kernel call that names a tag starts from no heads at all.             *)
THEOREM CommitsChangeTrees ==
  ASSUME SessionsOnly
  PROVE  Spec => []NoEmptyCommit
  <1> DEFINE SInv == EditsOfSessions /\ NoEmptyCommit
  <1>1. Init => SInv
    BY DEF Init, EditsOfSessions, NoEmptyCommit, NoCall, NoRequest, CasKinds
  <1>2. AInv /\ SInv /\ [Next]_vars => SInv'
    BY NotEmptyStep, EditsStep
  <1> QED BY <1>1, <1>2, AtomicInvariance, PTL DEF Spec

(* base_commit is an ancestor of the branch and of the mount, whatever     *)
(* commits, merges and restores came in between.                           *)
THEOREM BaseStaysCommonAncestor == Spec => []BaseIsCommonAncestor
  <1>1. AInv => BaseIsCommonAncestor
    BY DEF AInv
  <1> QED BY <1>1, AtomicInvariance, PTL

(* A call that waits with the mount row ends as merged by merging.         *)
LEMMA MergedMeansMerging ==
  ASSUME AInv, [Next]_vars, NEW c \in Client, At(c, "mergeMount"), reply'[c].status = "merged"
  PROVE  EmptyMerge(c) \/ CommitMerge(c)
  <1>0. /\ call[c].pc = "mergeMount" /\ reply[c].status # "merged"
        /\ reply \in [Client -> [status : Status, commit : 0 .. Len(commits)]]
    BY DEF At, AInv, CallCounts, IInv, TypeOK
  <1>1. ASSUME NEW d \in Client, d # c, reply' = reply \/ \E x : reply' = [reply EXCEPT ![d] = x]
        PROVE  FALSE
    BY <1>0, <1>1
  <1>2. ASSUME NEW s, s # "merged", NEW i, Return(c, s, i) PROVE FALSE
    BY <1>0, <1>2 DEF Return
  <1>3. ASSUME NEW d \in Client, NEW q \in Requests,
               StartCas(d, q) \/ StartRestore(d, q) \/ StartFork(d, q) \/ StartMerge(d, q) \/ StartTag(d, q)
        PROVE  FALSE
    <2>1. At(d, "idle") /\ reply' = [reply EXCEPT ![d] = NoReply]
      BY <1>3 DEF StartCas, StartRestore, StartFork, StartMerge, StartTag, Start
    <2> QED BY <1>0, <1>1, <2>1 DEF At
  <1>4. ASSUME NEW d \in Client, Advance(d) \/ Crash(d), d # c PROVE FALSE
    <2>1. reply' = reply \/ \E x : reply' = [reply EXCEPT ![d] = x]
      BY <1>4 DEF Advance, Fork, Merge, LoadRef, LoadHeads, CommitCas, PublishCas, LoseCas, Retry,
                  ForkExisting, ForkMount, ForkGenesis, LockBranch, LoseMount, ConflictingMerge,
                  EmptyMerge, CommitMerge, PublishMerge, ApplyTag, Crash, Throw, Return, Continue
    <2> QED BY <1>1, <1>4, <2>1
  <1>5. ASSUME Advance(c) \/ Crash(c) PROVE EmptyMerge(c) \/ CommitMerge(c)
    <2>1. ~(LoadRef(c) \/ LoadHeads(c) \/ CommitCas(c) \/ LoseCas(c) \/ Fork(c) \/ LockBranch(c) \/ ApplyTag(c))
      BY <1>0 DEF LoadRef, LoadHeads, CommitCas, LoseCas, CasLost, Fork, ForkExisting, ForkMount,
                  ForkGenesis, LockBranch, ApplyTag, At
    <2>2. ~(LoseMount(c) \/ ConflictingMerge(c) \/ Crash(c))
      BY <1>2 DEF LoseMount, ConflictingMerge, Crash, Throw
    <2> QED BY <1>5, <2>1, <2>2 DEF Advance, Merge
  <1>6. ASSUME NEW b \in Branch, Discard(b) PROVE FALSE
    BY <1>0, <1>6 DEF Discard
  <1>7. ~UNCHANGED vars
    BY <1>0 DEF vars
  <1> QED BY <1>3, <1>4, <1>5, <1>6, <1>7 DEF Next

(* A merge that completes loses no side, whatever both sides committed     *)
(* since the fork.                                                         *)
THEOREM MergesKeepBothSides == Spec => MergeKeepsBothSides
  <1> DEFINE Keeps(c) ==
               \A p \in Path :
                   /\ Ours(c)[p] # BaseTree(c)[p] => heads'[Mount][p] = Ours(c)[p]
                   /\ Theirs(c)[p] # BaseTree(c)[p] => heads'[Mount][p] = Theirs(c)[p]
                   /\ Ours(c)[p] = BaseTree(c)[p] /\ Theirs(c)[p] = BaseTree(c)[p] =>
                          heads'[Mount][p] = BaseTree(c)[p]
             Merges == \A c \in Client : At(c, "mergeMount") /\ reply'[c].status = "merged" => Keeps(c)
  <1>1. ASSUME AInv, [Next]_vars PROVE Merges
    <2> SUFFICES ASSUME NEW c \in Client, At(c, "mergeMount"), reply'[c].status = "merged"
                 PROVE  Keeps(c)
      OBVIOUS
    <2>1. EmptyMerge(c) \/ CommitMerge(c)
      BY <1>1, MergedMeansMerging
    <2>2. Conflicts(c) = {} /\ heads'[Mount] = MergedTree(c)
      <3>1. heads \in [Ref -> Tree] /\ Mount \in Ref \ Tag
        BY <1>1, RequestRefs, CallAssumption DEF AInv, IInv, TypeOK
      <3>2. CASE EmptyMerge(c)
        <4>1. tip[Mount] # NoCommit
          <5>1. call[c].req.ref \in Branch /\ tip[call[c].req.ref] # NoCommit
            BY <1>1, CallFacts DEF At, AInv, IInv, CallKnows
          <5> QED BY <1>1, <5>1 DEF AInv, IInv, RefsAreRooted
        <4>2. heads[Mount] = Theirs(c)
          BY <1>1, <3>1, <4>1 DEF AInv, IInv, HeadsMatchTip, Theirs
        <4> QED BY <3>2, <4>2 DEF EmptyMerge
      <3>3. CASE CommitMerge(c)
        BY <3>1, <3>3 DEF CommitMerge, PublishMerge
      <3> QED BY <2>1, <3>2, <3>3
    <2>3. \A p \in Path : MergedTree(c)[p] = IF Ours(c)[p] # BaseTree(c)[p] /\ Theirs(c)[p] = BaseTree(c)[p]
                                           THEN Ours(c)[p] ELSE Theirs(c)[p]
      BY DEF MergedTree, Merged
    <2>4. \A p \in Path : ~(Ours(c)[p] # BaseTree(c)[p] /\ Theirs(c)[p] # BaseTree(c)[p] /\ Ours(c)[p] # Theirs(c)[p])
      BY <2>2 DEF Conflicts, MergeConflicts
    <2> QED BY <2>2, <2>3, <2>4
  <1>2. AInv /\ [Next]_vars => [Merges]_vars
    BY <1>1
  <1> QED BY <1>2, AtomicInvariance, PTL DEF Spec, MergeKeepsBothSides

-----------------------------------------------------------------------------
(* Refinement: RefKernel implements AtomicRefs.  A call is asked when it   *)
(* starts; the COMMIT of its transaction is the step in which it takes     *)
(* effect; retries and reads are stuttering.                               *)

\* the vocabulary of AtomicRefs is the vocabulary of RefKernel
LEMMA SameWords ==
  /\ Atomic!Ref = Ref /\ Atomic!CasKinds = CasKinds
  /\ Atomic!NoRequest = NoRequest /\ Atomic!EmptyTree = EmptyTree
  /\ \A q, h : Atomic!Refusal(q, h) = Refusal(q, h)
  /\ \A q, h, source : Atomic!NextTree(q, h, source) = NextTree(q, h, source)
  /\ \A t : Atomic!Coherent(t) = Coherent(t)
  /\ \A b, o, t : /\ Atomic!Merged(b, o, t) = Merged(b, o, t)
                  /\ Atomic!MergeConflicts(b, o, t) = MergeConflicts(b, o, t)
  <1>1. /\ Atomic!Ref = Ref /\ Atomic!CasKinds = CasKinds
        /\ Atomic!NoRequest = NoRequest /\ Atomic!EmptyTree = EmptyTree
    BY DEF Atomic!Ref, Ref, Atomic!CasKinds, CasKinds, Atomic!NoRequest, NoRequest,
           Atomic!EmptyTree, EmptyTree
  <1>2. \A p, t : Atomic!Clashing(p, t) = Clashing(p, t)
    BY DEF Atomic!Clashing, Clashing, Atomic!Clash, Clash, Atomic!Present, Present
  <1>3. \A t : Atomic!Present(t) = Present(t)
    BY DEF Atomic!Present, Present
  <1>4. \A h, ws, ds : Atomic!CaptureResult(h, ws, ds) = CaptureResult(h, ws, ds)
    BY <1>2 DEF Atomic!CaptureResult, CaptureResult
  <1>5. \A q, h : Atomic!Refusal(q, h) = Refusal(q, h)
    BY <1>2, <1>3, <1>4 DEF Atomic!Refusal, Refusal
  <1>6. \A q, h, source : Atomic!NextTree(q, h, source) = NextTree(q, h, source)
    BY <1>4 DEF Atomic!NextTree, NextTree
  <1>7. \A t : Atomic!Coherent(t) = Coherent(t)
    BY <1>2, <1>3 DEF Atomic!Coherent, Coherent
  <1>8. \A b, o, t : /\ Atomic!Merged(b, o, t) = Merged(b, o, t)
                     /\ Atomic!MergeConflicts(b, o, t) = MergeConflicts(b, o, t)
    BY DEF Atomic!Merged, Merged, Atomic!MergeConflicts, MergeConflicts
  <1> QED BY <1>1, <1>5, <1>6, <1>7, <1>8

LEMMA AskedFacts ==
  ASSUME AInv, NEW c \in Client
  PROVE  /\ Asked[c] = call[c].req
         /\ At(c, "idle") => Asked[c] = NoRequest
         /\ ~At(c, "idle") => Asked[c] # NoRequest
  <1>1. call[c] \in CallOf(Len(commits)) /\ Asked[c] = call[c].req
    BY DEF AInv, IInv, TypeOK, Asked
  <1>2. At(c, "idle") => call[c] = NoCall
    BY <1>1 DEF CallOf, At
  <1>3. ~At(c, "idle") => call[c].req \in Request
    BY <1>1 DEF CallOf, NoCall, At, Request
  <1>4. NoRequest \notin Request
    BY DEF NoRequest, Request, CasRequest, WriteRequest, DeleteRequest, CaptureRequest,
           RestoreRequest, ForkRequest, MergeRequest, TagRequest
  <1> QED BY <1>1, <1>2, <1>3, <1>4 DEF NoCall

LEMMA AskedStep ==
  ASSUME AInv, NEW c \in Client, NEW k, call' = [call EXCEPT ![c] = k]
  PROVE  Asked' = [Asked EXCEPT ![c] = k.req]
  BY DEF Asked, AInv, IInv, TypeOK

LEMMA DoneStep ==
  ASSUME AInv, NEW c \in Client, ~At(c, "idle"), NEW s, NEW i, Return(c, s, i)
  PROVE  Atomic!Done(c)
  <1>1. Asked' = [Asked EXCEPT ![c] = NoRequest]
    <2>1. call' = [call EXCEPT ![c] = NoCall] /\ NoCall.req = NoRequest
      BY DEF Return, NoCall
    <2> QED BY <2>1, AskedStep
  <1> QED BY <1>1, AskedFacts, SameWords DEF Atomic!Done

LEMMA TreesStay ==
  ASSUME UNCHANGED <<commits, tip, base>>
  PROVE  UNCHANGED <<Published, TipTree, BaseTrees>>
  BY DEF Published, TipTree, BaseTrees, TreeOf

LEMMA AnswerStep ==
  ASSUME AInv, NEW c \in Client, ~At(c, "idle"), NEW s, NEW i, Return(c, s, i),
         UNCHANGED <<commits, tip, base, state, heads>>
  PROVE  Atomic!Answer(c)
  BY DoneStep, TreesStay DEF Atomic!Answer

LEMMA ThrowStep ==
  ASSUME AInv, NEW c \in Client, ~At(c, "idle"), NEW s, Throw(c, s)
  PROVE  Atomic!Answer(c)
  BY AnswerStep DEF Throw

LEMMA ContinueStep ==
  ASSUME AInv, NEW c \in Client, NEW k, Continue(c, k), k.req = call[c].req
  PROVE  UNCHANGED Atomic!vars
  <1>1. Asked' = Asked
    BY AskedStep DEF Continue, Asked
  <1> QED BY <1>1, TreesStay DEF Continue, Atomic!vars

LEMMA StartStep ==
  ASSUME AInv, NEW c \in Client, NEW q, NEW pc, NEW expected, NEW other, Start(c, q, pc, expected, other)
  PROVE  Atomic!Ask(c, q)
  <1> DEFINE k == [pc |-> pc, req |-> q, attempt |-> 1, expected |-> expected,
                   other |-> other, loaded |-> EmptyTree]
  <1>1. call' = [call EXCEPT ![c] = k] /\ At(c, "idle") /\ UNCHANGED <<commits, tip, base, state, heads>>
    BY DEF Start
  <1>2. k.req = q
    OBVIOUS
  <1> HIDE DEF k
  <1>3. Asked' = [Asked EXCEPT ![c] = q]
    BY <1>1, <1>2, AskedStep
  <1> QED BY <1>1, <1>3, AskedFacts, SameWords, TreesStay DEF Atomic!Ask

(* What a step that adds a commit does to the trees.                       *)
LEMMA GrownTrees ==
  ASSUME AInv, NEW id, Grows(id)
  PROVE  /\ Published' = Published \cup {commits'[id].tree}
         /\ \A r \in Ref : tip'[r] = tip[r] => TipTree'[r] = TipTree[r]
         /\ \A r \in Ref : base'[r] = base[r] => BaseTrees'[r] = BaseTrees[r]
  <1>1. /\ \A i \in DOMAIN commits : i \in DOMAIN commits' /\ commits'[i] = commits[i]
        /\ id \in DOMAIN commits' /\ \A i \in DOMAIN commits' : i \in DOMAIN commits \/ i = id
    BY HistoryDomain DEF AInv, IInv, Grows, Kept
  <1>2. Published' = Published \cup {commits'[id].tree}
    BY <1>1 DEF Published
  <1>3. /\ \A r \in Ref : tip[r] = NoCommit \/ tip[r] \in DOMAIN commits
        /\ \A r \in Ref : base[r] = NoCommit \/ base[r] \in DOMAIN commits
    BY HistoryDomain DEF AInv, IInv, NoCommit
  <1>4. \A r \in Ref : tip'[r] = tip[r] => TipTree'[r] = TipTree[r]
    BY <1>1, <1>3 DEF TipTree, TreeOf
  <1>5. \A r \in Ref : base'[r] = base[r] => BaseTrees'[r] = BaseTrees[r]
    BY <1>1, <1>3 DEF BaseTrees, TreeOf
  <1> QED BY <1>2, <1>4, <1>5

LEMMA TreesPublished ==
  ASSUME AInv, NEW i \in DOMAIN commits
  PROVE  TreeOf(i) \in Published
  BY DEF Published, TreeOf

(* A compare-and-swap that finds its row is an edit of the tree held now.  *)
LEMMA CasRefines ==
  ASSUME AInv, NEW c \in Client, CommitCas(c)
  PROVE  Atomic!Edit(c)
  <1>1. PICK q, next : q = call[c].req /\ next = NextTree(q, heads[q.ref], Source(c))
    OBVIOUS
  <1>2. PICK r : r = q.ref
    OBVIOUS
  <1>3. /\ q \in CasRequest /\ r \in Ref /\ tip[r] \in DOMAIN commits
        /\ Refusal(q, heads[r]) = "none" /\ next # heads[r] /\ UNCHANGED <<base, state>>
        /\ heads' = [heads EXCEPT ![r] = next]
    BY <1>1, <1>2, CasEffects
  <1>4. PICK id \in DOMAIN commits' : EditsTo(c, r, next, id)
    BY <1>1, <1>2, CasEffects
  <1>5. /\ Asked[c] = q /\ q.kind \in CasKinds /\ ~At(c, "idle")
        /\ tip[r] # NoCommit /\ id # NoCommit /\ NoCommit \notin DOMAIN commits
    <2>1. q.kind \in CasKinds
      BY <1>3 DEF CasRequest, WriteRequest, DeleteRequest, CaptureRequest, RestoreRequest, CasKinds
    <2>2. DOMAIN commits = 1 .. Len(commits) /\ Len(commits) \in Nat
      BY HistoryDomain DEF AInv, IInv
    <2>3. IInv'
      BY StepKeepsIInv DEF Next, Advance
    <2>4. NoCommit \notin DOMAIN commits'
      BY <2>3 DEF IInv, TypeOK, NoCommit
    <2>5. NoCommit \notin DOMAIN commits
      BY <2>2 DEF NoCommit
    <2> QED BY <1>1, <1>3, <2>1, <2>4, <2>5, AskedFacts DEF CommitCas, At
  <1>6. /\ Atomic!Done(c) /\ Grows(id) /\ commits'[id].tree = next
        /\ \A x \in Ref : tip'[x] = IF x = r THEN id ELSE tip[x]
    BY <1>3, <1>4, <1>5, DoneStep DEF EditsTo, AInv, IInv, TypeOK
  <1>8. TipTree' = [TipTree EXCEPT ![r] = next]
    <2>1. \A x \in Ref \ {r} : TipTree'[x] = TipTree[x]
      BY <1>6, GrownTrees
    <2>2. TipTree'[r] = next
      BY <1>3, <1>5, <1>6 DEF TipTree, TreeOf
    <2> QED BY <1>3, <2>1, <2>2 DEF TipTree
  <1>9. Published' = Published \cup {next} /\ BaseTrees' = BaseTrees
    <2>1. \A x \in Ref : BaseTrees'[x] = BaseTrees[x]
      BY <1>3, <1>6, GrownTrees
    <2> QED BY <1>6, <2>1, GrownTrees DEF BaseTrees
  <1>10. \E source \in Published : NextTree(q, heads[r], source) = next
    <2>1. CASE call[c].other # NoCommit
      <3>1. call[c].other \in DOMAIN commits
        BY <2>1, CallFacts DEF AInv, IInv, TypeOK, NoCommit
      <3> QED BY <1>1, <1>2, <2>1, <3>1, TreesPublished DEF Source
    <2>2. CASE call[c].other = NoCommit
      <3>1. q.kind # "restore"
        BY <1>1, <2>2 DEF CommitCas, At, AInv, IInv, CallKnows
      <3>2. NextTree(q, heads[r], TreeOf(tip[r])) = next
        BY <1>1, <1>2, <1>5, <3>1 DEF NextTree, CasKinds
      <3> QED BY <1>3, <3>2, TreesPublished
    <2> QED BY <2>1, <2>2
  <1>11. state[r] # "absent"
    BY <1>3, <1>5 DEF AInv, RefStates
  <1> QED BY <1>2, <1>3, <1>5, <1>6, <1>8, <1>9, <1>10, <1>11, SameWords DEF Atomic!Edit

(* The fork that creates a branch opens it on a committed tree.            *)
LEMMA ForkRefines ==
  ASSUME AInv, NEW c \in Client, ForkMount(c) \/ ForkGenesis(c)
  PROVE  Atomic!Open(c)
  <1>1. PICK b : b = call[c].req.ref
    OBVIOUS
  <1>2. /\ call[c].pc = "fork" /\ call[c].req \in ForkRequest /\ b \in Branch /\ tip[b] = NoCommit
    BY <1>1, ForkEffects
  <1>3. PICK id \in DOMAIN commits', tree \in Tree :
          /\ Grows(id) /\ commits'[id].tree = tree
          /\ NewBranch(b, id, tree)
          /\ Return(c, "ok", id)
          /\ tip[Mount] # NoCommit =>
                commits' = commits /\ id \in DOMAIN commits /\ id \in Ancestors[tip[Mount]]
          /\ tip[Mount] = NoCommit => tree = EmptyTree /\ commits'[id].parents = <<>>
    BY <1>1, ForkEffects
  <1>4. TypeOK /\ id # NoCommit
    BY <1>3 DEF AInv, IInv, TypeOK, Grows, Kept, NoCommit
  <1>5. /\ \A r \in Ref : tip'[r] = IF r = b \/ (r = Mount /\ tip[r] = NoCommit) THEN id ELSE tip[r]
        /\ \A r \in Ref : base'[r] = IF r = b THEN id ELSE base[r]
        /\ b # Mount /\ b \in Ref /\ Mount \in Ref
    BY <1>2, <1>3, <1>4, NewBranchFacts, RequestRefs DEF TypeOK
  <1>6. Atomic!Done(c) /\ Asked[c] = call[c].req /\ Asked[c].kind = "fork" /\ Asked[c].ref = b
    BY <1>1, <1>2, <1>3, DoneStep, AskedFacts DEF At, ForkRequest
  <1>7. state[Mount] = "absent" <=> tip[Mount] = NoCommit
    BY <1>5 DEF AInv, RefStates
  <1>8. Published' = IF state[Mount] = "absent" THEN Published \cup {EmptyTree} ELSE Published
    <2>1. CASE tip[Mount] = NoCommit
      BY <1>3, <1>7, <2>1, GrownTrees
    <2>2. CASE tip[Mount] # NoCommit
      BY <1>3, <1>7, <2>2 DEF Published
    <2> QED BY <2>1, <2>2
  <1>9. tree \in Published'
    BY <1>3, GrownTrees
  <1>10. TipTree' = [TipTree EXCEPT ![b] = tree]
    <2>1. TipTree'[b] = tree
      BY <1>3, <1>4, <1>5 DEF TipTree, TreeOf
    <2>2. \A r \in Ref : tip'[r] = tip[r] => TipTree'[r] = TipTree[r]
      BY <1>3, GrownTrees
    <2>3. tip[Mount] = NoCommit => TipTree'[Mount] = TipTree[Mount]
      BY <1>3, <1>4, <1>5 DEF TipTree, TreeOf
    <2> QED BY <1>5, <2>1, <2>2, <2>3 DEF TipTree
  <1>11. BaseTrees' = [BaseTrees EXCEPT ![b] = tree]
    <2>1. BaseTrees'[b] = tree
      BY <1>3, <1>4, <1>5 DEF BaseTrees, TreeOf
    <2>2. \A r \in Ref : base'[r] = base[r] => BaseTrees'[r] = BaseTrees[r]
      BY <1>3, GrownTrees
    <2> QED BY <1>5, <2>1, <2>2 DEF BaseTrees
  <1>12. state[b] = "absent"
    BY <1>2, <1>5 DEF AInv, RefStates
  <1>13. /\ state' = [state EXCEPT ![Mount] = IF @ = "absent" THEN "open" ELSE @, ![b] = "open"]
         /\ heads' = [heads EXCEPT ![b] = tree]
    BY <1>3 DEF NewBranch
  <1> QED BY <1>6, <1>8, <1>9, <1>10, <1>11, <1>12, <1>13, SameWords DEF Atomic!Open

(* What a merge holds when it has both rows.                               *)
LEMMA MergeHolds ==
  ASSUME AInv, NEW c \in Client, HoldsRows(c), NEW q, q = call[c].req
  PROVE  /\ Asked[c] = q /\ q.kind = "merge" /\ q.ref \in Branch /\ ~At(c, "idle")
         /\ state[q.ref] = "open" /\ Atomic!MayMerge(q)
         /\ BaseTrees[q.ref] = BaseTree(c) /\ TipTree[q.ref] = Ours(c) /\ TipTree[Mount] = Theirs(c)
         /\ heads[Mount] = Theirs(c)
         /\ tip[q.ref] \in DOMAIN commits /\ tip[Mount] \in DOMAIN commits
         /\ Theirs(c) \in Published
  <1>1. /\ q \in MergeRequest /\ q.ref \in Branch /\ q.ref \in Ref /\ Mount \in Ref
        /\ tip[q.ref] # NoCommit /\ ~At(c, "idle") /\ At(c, "mergeMount")
    BY CallFacts, RequestRefs DEF HoldsRows, At, AInv, IInv, CallKnows
  <1>2. tip[Mount] # NoCommit /\ base[q.ref] # NoCommit
    BY <1>1 DEF AInv, IInv, RefsAreRooted
  <1>3. tip[q.ref] \in DOMAIN commits /\ tip[Mount] \in DOMAIN commits
    BY <1>1, <1>2, HistoryDomain DEF AInv, IInv
  <1>4. state[q.ref] = "open" /\ Atomic!MayMerge(q)
    BY <1>1 DEF AInv, CallCounts
  <1>5. /\ BaseTrees[q.ref] = BaseTree(c) /\ TipTree[q.ref] = Ours(c) /\ TipTree[Mount] = Theirs(c)
    BY <1>1, <1>2 DEF BaseTrees, BaseTree, TipTree, Ours, Theirs
  <1>6. Theirs(c) \in Published /\ heads[Mount] = Theirs(c)
    BY <1>1, <1>2, <1>3, TreesPublished, CallAssumption DEF Theirs, AInv, IInv, HeadsMatchTip
  <1> QED BY <1>1, <1>3, <1>4, <1>5, <1>6, AskedFacts DEF MergeRequest

LEMMA EmptyMergeRefines ==
  ASSUME AInv, NEW c \in Client, EmptyMerge(c)
  PROVE  Atomic!MergeBranch(c)
  <1>1. PICK q : q = call[c].req
    OBVIOUS
  <1>2. /\ Asked[c] = q /\ q.kind = "merge" /\ q.ref \in Branch /\ ~At(c, "idle")
        /\ state[q.ref] = "open" /\ Atomic!MayMerge(q)
        /\ BaseTrees[q.ref] = BaseTree(c) /\ TipTree[q.ref] = Ours(c) /\ TipTree[Mount] = Theirs(c)
        /\ Theirs(c) \in Published /\ heads[Mount] = Theirs(c) /\ heads' = heads
    BY <1>1, MergeHolds DEF EmptyMerge
  <1>3. Atomic!Done(c) /\ UNCHANGED <<Published, TipTree, BaseTrees>>
    BY <1>2, DoneStep, TreesStay DEF EmptyMerge
  <1>4. /\ Conflicts(c) = {} /\ Coherent(MergedTree(c)) /\ MergedTree(c) = Theirs(c)
        /\ state' = [state EXCEPT ![q.ref] = "merged"]
    BY <1>1 DEF EmptyMerge
  <1>5. TipTree' = [TipTree EXCEPT ![Mount] = Theirs(c)] /\ Published' = Published \cup {Theirs(c)}
    BY <1>2, <1>3 DEF TipTree
  <1>6. heads' = [heads EXCEPT ![Mount] = Theirs(c)]
    BY <1>2 DEF AInv, IInv, TypeOK
  <1> QED BY <1>2, <1>3, <1>4, <1>5, <1>6, SameWords DEF Atomic!MergeBranch, Conflicts, MergedTree

LEMMA CommitMergeRefines ==
  ASSUME AInv, NEW c \in Client, CommitMerge(c)
  PROVE  Atomic!MergeBranch(c)
  <1>1. PICK q, tree : q = call[c].req /\ tree = MergedTree(c)
    OBVIOUS
  <1>2. /\ Asked[c] = q /\ q.kind = "merge" /\ q.ref \in Branch /\ ~At(c, "idle")
        /\ state[q.ref] = "open" /\ Atomic!MayMerge(q)
        /\ BaseTrees[q.ref] = BaseTree(c) /\ TipTree[q.ref] = Ours(c) /\ TipTree[Mount] = Theirs(c)
    BY <1>1, MergeHolds DEF CommitMerge
  <1>3. PICK id \in DOMAIN commits' : MergesTo(c, q.ref, tree, id)
    BY <1>1, MergeEffects
  <1>4. Atomic!Done(c) /\ Grows(id) /\ commits'[id].tree = tree
        /\ state' = [state EXCEPT ![q.ref] = "merged"] /\ UNCHANGED base
        /\ heads' = [heads EXCEPT ![Mount] = tree]
    BY <1>2, <1>3, DoneStep DEF MergesTo, CommitMerge, PublishMerge
  <1>5. Conflicts(c) = {} /\ Coherent(MergedTree(c))
    BY DEF CommitMerge
  <1>6. \A r \in Ref : tip'[r] = IF r = Mount THEN id ELSE tip[r]
    BY <1>3 DEF MergesTo, AInv, IInv, TypeOK
  <1>7. IInv'
    BY StepKeepsIInv DEF Next, Advance, Merge
  <1>8. id # NoCommit
    BY <1>7 DEF IInv, TypeOK, NoCommit
  <1>9. TipTree' = [TipTree EXCEPT ![Mount] = tree]
    <2>1. \A r \in Ref \ {Mount} : TipTree'[r] = TipTree[r]
      BY <1>4, <1>6, GrownTrees
    <2>2. TipTree'[Mount] = tree
      BY <1>4, <1>6, <1>8, RequestRefs DEF TipTree, TreeOf
    <2> QED BY <2>1, <2>2 DEF TipTree
  <1>10. Published' = Published \cup {tree} /\ BaseTrees' = BaseTrees
    <2>1. \A r \in Ref : BaseTrees'[r] = BaseTrees[r]
      BY <1>4, GrownTrees
    <2> QED BY <1>4, <2>1, GrownTrees DEF BaseTrees
  <1> QED BY <1>1, <1>2, <1>4, <1>5, <1>9, <1>10, SameWords DEF Atomic!MergeBranch, Conflicts, MergedTree

LEMMA LockBranchRefines ==
  ASSUME AInv, NEW c \in Client, LockBranch(c)
  PROVE  Atomic!Answer(c) \/ Atomic!RefuseMerge(c) \/ UNCHANGED Atomic!vars
  <1> DEFINE q == call[c].req
             b == q.ref
             k == [call[c] EXCEPT !.pc = "mergeMount", !.other = tip[Mount]]
  <1>1. /\ call[c] \in CallOf(Len(commits)) /\ Len(commits) \in Nat /\ ~At(c, "idle")
        /\ q \in MergeRequest /\ b \in Branch /\ Asked[c] = q
    BY CallFacts, AskedFacts DEF LockBranch, At, AInv, IInv
  <1>2. CASE Throw(c, "notFound") \/ Throw(c, MergeVerdict(q, state[b]))
    BY <1>1, <1>2, ThrowStep
  <1>3. CASE /\ tip[b] # NoCommit /\ MergeVerdict(q, state[b]) = "none" /\ q.grant = "none"
             /\ state' = [state EXCEPT ![b] = "unauthorized"]
             /\ Return(c, "unauthorized", NoCommit)
             /\ UNCHANGED <<commits, tip, base, heads>>
    <2>1. state[b] = "open"
      BY <1>1, <1>3, BranchState, VerdictNone
    <2>2. q.kind = "merge"
      BY <1>1 DEF MergeRequest
    <2>3. Atomic!Done(c) /\ UNCHANGED <<Published, TipTree, BaseTrees>>
      BY <1>1, <1>3, DoneStep, TreesStay
    <2> QED BY <1>1, <1>3, <2>1, <2>2, <2>3 DEF Atomic!RefuseMerge
  <1>4. CASE Continue(c, k)
    <2>1. k.req = q
      BY <1>1, CallDomain
    <2> HIDE DEF k
    <2> QED BY <1>4, <2>1, ContinueStep
  <1> QED BY <1>2, <1>3, <1>4 DEF LockBranch

LEMMA ApplyTagRefines ==
  ASSUME AInv, NEW c \in Client, ApplyTag(c)
  PROVE  Atomic!Answer(c) \/ Atomic!TagBranch(c)
  <1>1. PICK q : q = call[c].req
    OBVIOUS
  <1>2. /\ ~At(c, "idle") /\ Asked[c] = q /\ q.kind = "tag" /\ q.ref \in Ref /\ q.label \in Ref
    BY <1>1, CallFacts, AskedFacts, RequestRefs DEF ApplyTag, At, AInv, IInv, TagRequest
  <1>3. CASE Throw(c, "notFound") \/ Throw(c, "settled") \/ Throw(c, "precondition")
    BY <1>2, <1>3, ThrowStep
  <1>4. CASE /\ tip[q.ref] # NoCommit /\ tip[q.label] = NoCommit /\ state[q.ref] = "open"
             /\ tip' = [tip EXCEPT ![q.label] = tip[q.ref]]
             /\ state' = [state EXCEPT ![q.label] = "tag"]
             /\ Return(c, "ok", tip[q.ref])
             /\ UNCHANGED <<commits, base, heads>>
    <2>1. Atomic!Done(c) /\ state[q.label] = "absent"
      BY <1>2, <1>4, DoneStep DEF AInv, RefStates
    <2>2. \A r \in Ref : tip'[r] = IF r = q.label THEN tip[q.ref] ELSE tip[r]
      BY <1>4 DEF AInv, IInv, TypeOK
    <2>3. TipTree' = [TipTree EXCEPT ![q.label] = TipTree[q.ref]]
      BY <1>2, <1>4, <2>2 DEF TipTree, TreeOf
    <2>4. UNCHANGED <<Published, BaseTrees>>
      BY <1>4 DEF Published, BaseTrees, TreeOf
    <2> QED BY <1>2, <1>4, <2>1, <2>3, <2>4 DEF Atomic!TagBranch
  <1> QED BY <1>1, <1>3, <1>4 DEF ApplyTag

(* The calls that read, retry or give up.                                  *)
LEMMA ReadsRefine ==
  ASSUME AInv, NEW c \in Client, LoadRef(c) \/ LoadHeads(c) \/ LoseCas(c)
  PROVE  Atomic!Answer(c) \/ UNCHANGED Atomic!vars
  <1>1. call[c] \in CallOf(Len(commits)) /\ Len(commits) \in Nat /\ ~At(c, "idle")
    BY CallFacts DEF LoadRef, LoadHeads, LoseCas, CasLost, At, AInv, IInv
  <1>2. CASE \E s : Throw(c, s)
    BY <1>1, <1>2, ThrowStep
  <1>3. CASE \E s, i : Return(c, s, i) /\ UNCHANGED <<commits, tip, base, state, heads>>
    BY <1>1, <1>3, AnswerStep
  <1>4. CASE \E k : Continue(c, k) /\ k.req = call[c].req
    BY <1>4, ContinueStep
  <1>5. CASE LoadRef(c)
    <2> DEFINE k == [call[c] EXCEPT !.pc = "heads", !.expected = tip[call[c].req.ref]]
    <2>1. k.req = call[c].req
      BY <1>1, CallDomain
    <2>2. (\E s : Throw(c, s)) \/ Continue(c, k)
      BY <1>5 DEF LoadRef
    <2> HIDE DEF k
    <2> QED BY <1>2, <1>4, <2>1, <2>2
  <1>6. CASE LoadHeads(c)
    <2> DEFINE k == [call[c] EXCEPT !.pc = "cas", !.loaded = heads[call[c].req.ref]]
    <2>1. k.req = call[c].req
      BY <1>1, CallDomain
    <2>2. \/ \E s : Throw(c, s)
          \/ \E s, i : Return(c, s, i) /\ UNCHANGED <<commits, tip, base, state, heads>>
          \/ Continue(c, k)
      BY <1>6 DEF LoadHeads
    <2> HIDE DEF k
    <2> QED BY <1>2, <1>3, <1>4, <2>1, <2>2
  <1>7. CASE LoseCas(c)
    <2> DEFINE a == call[c].attempt + 1
               k == [call[c] EXCEPT !.pc = "load", !.attempt = a, !.expected = NoCommit,
                                    !.loaded = EmptyTree]
    <2>0. (\E s : Throw(c, s)) \/ Continue(c, k)
      BY <1>7 DEF LoseCas, Retry
    <2> HIDE DEF a
    <2>1. k.req = call[c].req
      BY <1>1, CallDomain
    <2> HIDE DEF k
    <2> QED BY <1>2, <1>4, <2>0, <2>1
  <1> QED BY <1>5, <1>6, <1>7

LEMMA DiscardRefines ==
  ASSUME NEW b \in Branch, Discard(b)
  PROVE  Atomic!Discard(b)
  BY TreesStay DEF Discard, Atomic!Discard, Asked

(* Every call is atomic: it takes effect in one step on the tree its ref   *)
(* holds then, or not at all.                                              *)
THEOREM CallsTakeEffectAtOnce == Spec => CallsAreAtomic
  <1>1. Init => Atomic!Init
    BY RequestRefs, SameWords
       DEF Init, Atomic!Init, Published, TipTree, BaseTrees, Asked, NoCall
  <1>2. ASSUME AInv, [Next]_vars PROVE Atomic!Next \/ UNCHANGED Atomic!vars
    <2>1. ASSUME NEW c \in Client, NEW q \in Requests,
                 StartCas(c, q) \/ StartRestore(c, q) \/ StartFork(c, q) \/ StartMerge(c, q) \/ StartTag(c, q)
          PROVE  Atomic!Ask(c, q)
      BY <1>2, <2>1, StartStep DEF StartCas, StartRestore, StartFork, StartMerge, StartTag
    <2>2. ASSUME NEW c \in Client, LoadRef(c) \/ LoadHeads(c) \/ LoseCas(c)
          PROVE  Atomic!Answer(c) \/ UNCHANGED Atomic!vars
      BY <1>2, <2>2, ReadsRefine
    <2>3. ASSUME NEW c \in Client, ForkExisting(c) PROVE Atomic!Answer(c)
      <3>1. ~At(c, "idle") /\ \E i : Return(c, "ok", i) /\ UNCHANGED <<commits, tip, base, state, heads>>
        BY <2>3 DEF ForkExisting, At
      <3> QED BY <1>2, <3>1, AnswerStep
    <2>4. ASSUME NEW c \in Client, LoseMount(c) \/ ConflictingMerge(c) \/ Crash(c)
          PROVE  Atomic!Answer(c)
      <3>1. ~At(c, "idle") /\ \E s : Throw(c, s)
        BY <2>4 DEF LoseMount, ConflictingMerge, HoldsRows, Crash, At
      <3> QED BY <1>2, <3>1, ThrowStep
    <2>5. CASE UNCHANGED vars
      <3>1. UNCHANGED <<Published, TipTree, BaseTrees>>
        BY <2>5, TreesStay DEF vars
      <3> QED BY <2>5, <3>1 DEF vars, Asked, Atomic!vars
    <2> QED BY <1>2, <2>1, <2>2, <2>3, <2>4, <2>5, CasRefines, ForkRefines, LockBranchRefines,
               EmptyMergeRefines, CommitMergeRefines, ApplyTagRefines, DiscardRefines
            DEF Next, Advance, Fork, Merge, Atomic!Next
  <1>3. AInv /\ [Next]_vars => [Atomic!Next]_(Atomic!vars)
    BY <1>2
  <1> QED BY <1>1, <1>3, AtomicInvariance, PTL DEF Spec, CallsAreAtomic, Atomic!Spec
=============================================================================
