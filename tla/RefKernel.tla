----------------------------- MODULE RefKernel -----------------------------
(***************************************************************************)
(* The commit protocol of the storage kernel and of the session layer over *)
(* one mount of one tenant: src/src/kernel.ts (write, writeStored, remove, *)
(* captureBatch, restore, fork) and src/src/session.ts (merge, tag,        *)
(* discard).  Any number of clients (server processes, or calls in flight  *)
(* in one process) share the Postgres tables tuddo_commits, tuddo_refs and *)
(* tuddo_heads.                                                            *)
(*                                                                         *)
(* Every transaction is READ COMMITTED: each statement sees the commits    *)
(* done before it, so a call that reads a ref and then its heads reads two *)
(* snapshots.  What a transaction writes is visible to the others at its   *)
(* COMMIT; the statements from the compare-and-swap of the ref to COMMIT   *)
(* run under the row lock that statement takes, and are one action here.   *)
(* A statement that has to wait for a row lock re-evaluates its condition  *)
(* on the new version of that row only: `SELECT ref JOIN commit FOR UPDATE`*)
(* returns no row when the ref has moved to another commit meanwhile.      *)
(***************************************************************************)
EXTENDS Calls, Sequences

CONSTANTS
    Client,       \* calls that may run concurrently
    MaxAttempts,  \* maxCasRetries
    MaxCommits    \* bound: no writing call starts once there are this many commits

ASSUME KernelAssumption ==
    /\ MaxAttempts \in Nat \ {0}
    /\ MaxCommits \in Nat

VARIABLES
    commits,  \* tuddo_commits: the id of a commit is its place in this sequence
    tip,      \* tuddo_refs.commit_id, 0 when the ref has no row
    base,     \* tuddo_refs.base_commit
    state,    \* tuddo_refs.state
    heads,    \* tuddo_heads, a tree per ref
    call,     \* what each client is executing
    reply     \* how its last call ended

vars == <<commits, tip, base, state, heads, call, reply>>

NoCommit == 0
Commit == [parents : Seq(Nat), tree : Tree, op : CasKinds \cup {"import", "merge"}]
Status == {"none", "ok", "notFound", "settled", "precondition", "invalidPath", "invariant",
           "refConflict", "merged", "unauthorized", "pendingApproval", "conflicts", "lost"}

NoCall == [pc |-> "idle", req |-> NoRequest, attempt |-> 0, expected |-> NoCommit,
           other |-> NoCommit, loaded |-> EmptyTree]
NoReply == [status |-> "none", commit |-> NoCommit]

TreeOf(c) == commits[c].tree

Init ==
    /\ commits = <<>>
    /\ tip = [r \in Ref |-> NoCommit]
    /\ base = [r \in Ref |-> NoCommit]
    /\ state = [r \in Ref |-> "absent"]
    /\ heads = [r \in Ref |-> EmptyTree]
    /\ call = [c \in Client |-> NoCall]
    /\ reply = [c \in Client |-> NoReply]

-----------------------------------------------------------------------------
(* Helpers shared by the calls.                                            *)

\* insertTree and insertCommit: the row of a commit with the same hash is reused
InsertCommit(row, id) ==
    \/ id = Len(commits) + 1 /\ commits' = Append(commits, row)
    \/ id \in DOMAIN commits /\ commits[id] = row /\ UNCHANGED commits

Return(c, status, commit) ==
    /\ call' = [call EXCEPT ![c] = NoCall]
    /\ reply' = [reply EXCEPT ![c] = [status |-> status, commit |-> commit]]

\* a call ends with an error: ROLLBACK, nothing of it stays
Throw(c, status) ==
    /\ Return(c, status, NoCommit)
    /\ UNCHANGED <<commits, tip, base, state, heads>>

At(c, pc) == call[c].pc = pc

\* a call goes on without having written anything
Continue(c, k) ==
    /\ call' = [call EXCEPT ![c] = k]
    /\ UNCHANGED <<commits, tip, base, state, heads, reply>>

\* pg_advisory_xact_lock(tenant:mount/key), held by fork and by merge
MountLocked == \E c \in Client : call[c].pc \in {"fork", "mergeBranch", "mergeMount"}

\* a merge holds the row lock of its branch from the branch SELECT to its end
RowLocked(r) == \E c \in Client : At(c, "mergeMount") /\ call[c].req.ref = r

Start(c, q, pc, expected, other) ==
    /\ At(c, "idle")
    /\ q \in Requests
    /\ call' = [call EXCEPT ![c] = [pc |-> pc, req |-> q, attempt |-> 1,
                   expected |-> expected, other |-> other, loaded |-> EmptyTree]]
    /\ reply' = [reply EXCEPT ![c] = NoReply]
    /\ UNCHANGED <<commits, tip, base, state, heads>>

-----------------------------------------------------------------------------
(* write, remove, captureBatch and restore: load the ref, load its heads,  *)
(* compute the next tree, compare-and-swap.                                *)

\* assertCommitInMountLineage: what a session may restore is reachable from the mount,
\* a tag of the mount or its own branch.  The rows of WITH RECURSIVE are the least set
\* that holds the start and the parents of its members.
Parents(i) == {commits[i].parents[k] : k \in DOMAIN commits[i].parents}
Ancestors ==
    [i \in DOMAIN commits |->
        {j \in DOMAIN commits :
            \A K \in SUBSET DOMAIN commits :
                i \in K /\ (\A k \in K : Parents(k) \subseteq K) => j \in K}]

Lineage(r) == UNION {Ancestors[tip[x]] : x \in {y \in {Mount, r} \cup Tag : tip[y] # NoCommit}}

StartCas(c, q) ==
    /\ Len(commits) < MaxCommits
    /\ q.kind \in {"write", "delete", "capture"}
    /\ q.kind = "capture" => Coherent(q.writes)  \* else InvalidPathError before any grant
    /\ Start(c, q, "load", NoCommit, NoCommit)

StartRestore(c, q) ==
    /\ Len(commits) < MaxCommits
    /\ q.kind = "restore"
    /\ \E source \in DOMAIN commits :
          source \in Lineage(q.ref) /\ Start(c, q, "load", NoCommit, source)

\* the tree a restore reads; the other calls have no source
Source(c) == IF call[c].other = NoCommit THEN EmptyTree ELSE TreeOf(call[c].other)

\* BEGIN; loadRef
LoadRef(c) ==
    LET r == call[c].req.ref
    IN  /\ At(c, "load")
        /\ \/ tip[r] = NoCommit /\ Throw(c, "notFound")
           \/ /\ tip[r] # NoCommit
              /\ state[r] \notin {"open", "tag"}
              /\ Throw(c, "settled")
           \/ /\ tip[r] # NoCommit
              /\ state[r] \in {"open", "tag"}
              /\ Continue(c, [call[c] EXCEPT !.pc = "heads", !.expected = tip[r]])

\* Mutant: no shortcut when the next tree is the one the ref has
LoadHeadsAlways(c) ==
    LET q == call[c].req
        h == heads[q.ref]
    IN  /\ At(c, "heads")
        /\ \/ Refusal(q, h) # "none" /\ Throw(c, Refusal(q, h))
           \/ /\ Refusal(q, h) = "none"
              /\ Continue(c, [call[c] EXCEPT !.pc = "cas", !.loaded = h])

\* loadHeads, and what follows from it without touching the database
LoadHeads(c) ==
    LET q == call[c].req
        h == heads[q.ref]
        next == NextTree(q, h, Source(c))
    IN  /\ At(c, "heads")
        /\ \/ Refusal(q, h) # "none" /\ Throw(c, Refusal(q, h))
           \/ /\ Refusal(q, h) = "none"
              /\ next = h
              /\ Return(c, "ok", call[c].expected)
              /\ UNCHANGED <<commits, tip, base, state, heads>>
           \/ /\ Refusal(q, h) = "none"
              /\ next # h
              /\ Continue(c, [call[c] EXCEPT !.pc = "cas", !.loaded = h])

\* Mutant: the index is only ever added to
NextHeadsAdding(q, index, next) == [p \in Path |-> IF next[p] = None THEN index[p] ELSE next[p]]

\* updateHead touches the one path, capture and restore rewrite the whole index
NextHeads(q, index, next) ==
    IF q.kind \in {"write", "delete"} THEN [index EXCEPT ![q.path] = next[q.path]] ELSE next

\* insertTree, insertCommit, the UPDATE of the ref, the heads, COMMIT
PublishCas(c) ==
    LET q == call[c].req
        next == NextTree(q, call[c].loaded, Source(c))
    IN  /\ \E id \in 1 .. Len(commits) + 1 :
              /\ InsertCommit([parents |-> <<call[c].expected>>, tree |-> next, op |-> q.kind], id)
              /\ tip' = [tip EXCEPT ![q.ref] = id]
              /\ Return(c, "ok", id)
        /\ heads' = [heads EXCEPT ![q.ref] = NextHeads(q, @, next)]
        /\ UNCHANGED <<base, state>>

\* Mutant: the UPDATE does not compare commit_id
CommitBlind(c) == At(c, "cas") /\ ~RowLocked(call[c].req.ref) /\ PublishCas(c)

\* UPDATE tuddo_refs SET commit_id WHERE commit_id = expected finds its row
CommitCas(c) ==
    /\ At(c, "cas")
    /\ ~RowLocked(call[c].req.ref)
    /\ tip[call[c].req.ref] = call[c].expected
    /\ PublishCas(c)

\* the UPDATE, once it has the row lock, finds another commit_id
CasLost(c) ==
    /\ At(c, "cas")
    /\ ~RowLocked(call[c].req.ref)
    /\ tip[call[c].req.ref] # call[c].expected

Retry(c) ==
    Continue(c, [call[c] EXCEPT !.pc = "load", !.attempt = @ + 1,
                                !.expected = NoCommit, !.loaded = EmptyTree])

\* Mutants: retries are not bounded; a retry reloads the ref and keeps the heads; a
\* retry repeats the UPDATE as it was
LoseCasForever(c) == CasLost(c) /\ Retry(c)
LoseCasKeepingHeads(c) ==
    CasLost(c) /\ Continue(c, [call[c] EXCEPT !.expected = tip[call[c].req.ref]])

\* no row matched: ROLLBACK and the next attempt, or RefConflictError
LoseCas(c) ==
    /\ CasLost(c)
    /\ \/ call[c].attempt < MaxAttempts /\ Retry(c)
       \/ call[c].attempt = MaxAttempts /\ Throw(c, "refConflict")

-----------------------------------------------------------------------------
(* fork, called by open().                                                 *)

\* takes the advisory lock and reads the mount ref
StartFork(c, q) ==
    /\ q.kind = "fork"
    /\ ~MountLocked
    /\ Start(c, q, "fork", tip[Mount], NoCommit)

\* Mutant: the base is the tip of the mount by now
NewBranchLateBase(b, at, tree) ==
    /\ tip' = [tip EXCEPT ![Mount] = IF @ = NoCommit THEN at ELSE @, ![b] = at]
    /\ base' = [base EXCEPT ![b] = tip'[Mount]]
    /\ state' = [state EXCEPT ![Mount] = IF @ = "absent" THEN "open" ELSE @, ![b] = "open"]
    /\ heads' = [heads EXCEPT ![b] = tree]

\* the branch is seeded from the tree of the tip read under the lock
NewBranch(b, at, tree) ==
    /\ tip' = [tip EXCEPT ![Mount] = IF @ = NoCommit THEN at ELSE @, ![b] = at]
    /\ base' = [base EXCEPT ![b] = at]
    /\ state' = [state EXCEPT ![Mount] = IF @ = "absent" THEN "open" ELSE @, ![b] = "open"]
    /\ heads' = [heads EXCEPT ![b] = tree]

ForkExisting(c) ==
    LET b == call[c].req.ref
    IN  /\ At(c, "fork")
        /\ tip[b] # NoCommit
        /\ Return(c, "ok", tip[b])
        /\ UNCHANGED <<commits, tip, base, state, heads>>

ForkMount(c) ==
    LET b == call[c].req.ref
        at == call[c].expected
    IN  /\ At(c, "fork")
        /\ tip[b] = NoCommit
        /\ at # NoCommit
        /\ NewBranch(b, at, TreeOf(at))
        /\ Return(c, "ok", at)
        /\ UNCHANGED commits

\* the first touch of a mount creates its genesis commit in the same transaction
ForkGenesis(c) ==
    /\ At(c, "fork")
    /\ tip[call[c].req.ref] = NoCommit
    /\ call[c].expected = NoCommit
    /\ \E id \in 1 .. Len(commits) + 1 :
          /\ InsertCommit([parents |-> <<>>, tree |-> EmptyTree, op |-> "import"], id)
          /\ NewBranch(call[c].req.ref, id, EmptyTree)
          /\ Return(c, "ok", id)

-----------------------------------------------------------------------------
(* mergeRef.                                                               *)

\* takes the advisory lock; the snapshot of the branch SELECT
StartMerge(c, q) ==
    /\ q.kind = "merge"
    /\ ~MountLocked
    /\ Start(c, q, "mergeBranch", tip[q.ref], NoCommit)

\* Mutant: any approver will do
MergeVerdictAnyApprover(q, s) ==
    CASE s \in {"merged", "unauthorized"} -> s
      [] s = "abandoned" -> "settled"
      [] s = "open" /\ q.grant = "staged" /\ q.approver = "absent" -> "pendingApproval"
      [] OTHER -> "none"

\* the answer to a merge of a branch in state s, "none" when it goes on
MergeVerdict(q, s) ==
    CASE s \in {"merged", "unauthorized"} -> s
      [] s = "abandoned" -> "settled"
      [] s = "open" /\ q.grant = "staged" /\ q.approver = "absent" -> "pendingApproval"
      [] s = "open" /\ q.grant = "staged" /\ q.approver \in {"none", "staged"} -> "unauthorized"
      [] OTHER -> "none"

\* the branch row is locked, or lost because the branch moved since the snapshot;
\* then the snapshot of the mount SELECT
LockBranch(c) ==
    LET q == call[c].req
        b == q.ref
        found == tip[b] # NoCommit /\ tip[b] = call[c].expected
        verdict == MergeVerdict(q, state[b])
    IN  /\ At(c, "mergeBranch")
        /\ \/ ~found /\ Throw(c, "notFound")
           \/ found /\ verdict # "none" /\ Throw(c, verdict)
           \/ /\ found /\ verdict = "none" /\ q.grant = "none"
              /\ state' = [state EXCEPT ![b] = "unauthorized"]
              /\ Return(c, "unauthorized", NoCommit)
              /\ UNCHANGED <<commits, tip, base, heads>>
           \/ /\ found /\ verdict = "none" /\ q.grant # "none"
              /\ Continue(c, [call[c] EXCEPT !.pc = "mergeMount", !.other = tip[Mount]])

\* the mount row is locked, or lost; the three trees are read and merged
LoseMount(c) ==
    /\ At(c, "mergeMount")
    /\ tip[Mount] # call[c].other
    /\ Throw(c, "notFound")

HoldsRows(c) == At(c, "mergeMount") /\ tip[Mount] = call[c].other

BaseTree(c) == TreeOf(base[call[c].req.ref])
Ours(c) == TreeOf(tip[call[c].req.ref])
Theirs(c) == TreeOf(tip[Mount])
Conflicts(c) == MergeConflicts(BaseTree(c), Ours(c), Theirs(c))
MergedTree(c) == Merged(BaseTree(c), Ours(c), Theirs(c))

ConflictingMerge(c) ==
    /\ HoldsRows(c)
    /\ Conflicts(c) # {} \/ ~Coherent(MergedTree(c))
    /\ Throw(c, "conflicts")

\* nothing to bring over: the branch is settled without a commit
EmptyMerge(c) ==
    /\ HoldsRows(c)
    /\ Conflicts(c) = {} /\ Coherent(MergedTree(c))
    /\ MergedTree(c) = Theirs(c)
    /\ state' = [state EXCEPT ![call[c].req.ref] = "merged"]
    /\ Return(c, "merged", NoCommit)
    /\ UNCHANGED <<commits, tip, base, heads>>

PublishMerge(c, parents) ==
    LET id == Len(commits) + 1
    IN  /\ commits' = Append(commits, [parents |-> parents, tree |-> MergedTree(c), op |-> "merge"])
        /\ tip' = [tip EXCEPT ![Mount] = id]
        /\ state' = [state EXCEPT ![call[c].req.ref] = "merged"]
        /\ heads' = [heads EXCEPT ![Mount] = MergedTree(c)]
        /\ Return(c, "merged", id)
        /\ UNCHANGED base

CommitMerge(c) ==
    /\ HoldsRows(c)
    /\ Conflicts(c) = {} /\ Coherent(MergedTree(c))
    /\ MergedTree(c) # Theirs(c)
    /\ PublishMerge(c, <<tip[Mount], tip[call[c].req.ref]>>)

-----------------------------------------------------------------------------
(* tag and discard.                                                        *)

StartTag(c, q) ==
    /\ q.kind = "tag"
    /\ Start(c, q, "tag", tip[q.ref], NoCommit)

ApplyTag(c) ==
    LET b == call[c].req.ref
        label == call[c].req.label
        found == tip[b] # NoCommit /\ tip[b] = call[c].expected
    IN  /\ At(c, "tag")
        /\ ~RowLocked(b)
        /\ \/ ~found /\ Throw(c, "notFound")
           \/ found /\ state[b] # "open" /\ Throw(c, "settled")
           \/ found /\ state[b] = "open" /\ tip[label] # NoCommit /\ Throw(c, "precondition")
           \/ /\ found /\ state[b] = "open" /\ tip[label] = NoCommit
              /\ tip' = [tip EXCEPT ![label] = tip[b]]
              /\ state' = [state EXCEPT ![label] = "tag"]
              /\ Return(c, "ok", tip[b])
              /\ UNCHANGED <<commits, base, heads>>

\* one UPDATE outside any transaction
Discard(b) ==
    /\ state[b] = "open"
    /\ ~RowLocked(b)
    /\ state' = [state EXCEPT ![b] = "abandoned"]
    /\ UNCHANGED <<commits, tip, base, heads, call, reply>>

\* the process dies or its connection drops: Postgres rolls back and unlocks
Crash(c) ==
    /\ ~At(c, "idle")
    /\ Throw(c, "lost")

-----------------------------------------------------------------------------
Fork(c) == ForkExisting(c) \/ ForkMount(c) \/ ForkGenesis(c)
Merge(c) == LockBranch(c) \/ LoseMount(c) \/ ConflictingMerge(c) \/ EmptyMerge(c) \/ CommitMerge(c)
Advance(c) ==
    LoadRef(c) \/ LoadHeads(c) \/ CommitCas(c) \/ LoseCas(c) \/ Fork(c) \/ Merge(c) \/ ApplyTag(c)

Next ==
    \/ \E c \in Client, q \in Requests :
          StartCas(c, q) \/ StartRestore(c, q) \/ StartFork(c, q) \/ StartMerge(c, q) \/ StartTag(c, q)
    \/ \E c \in Client : Advance(c) \/ Crash(c)
    \/ \E b \in Branch : Discard(b)

Spec == Init /\ [][Next]_vars

-----------------------------------------------------------------------------
(* Properties.                                                             *)

\* what a client may be executing, when there are n commits
CallOf(n) ==
    {NoCall} \cup
    [pc : {"load", "heads", "cas"}, req : CasRequest, attempt : 1 .. MaxAttempts,
     expected : 0 .. n, other : 0 .. n, loaded : Tree] \cup
    [pc : {"fork"}, req : ForkRequest, attempt : 1 .. MaxAttempts,
     expected : 0 .. n, other : 0 .. n, loaded : Tree] \cup
    [pc : {"mergeBranch", "mergeMount"}, req : MergeRequest, attempt : 1 .. MaxAttempts,
     expected : 0 .. n, other : 0 .. n, loaded : Tree] \cup
    [pc : {"tag"}, req : TagRequest, attempt : 1 .. MaxAttempts,
     expected : 0 .. n, other : 0 .. n, loaded : Tree]

TypeOK ==
    /\ commits \in Seq(Commit)
    /\ tip \in [Ref -> 0 .. Len(commits)]
    /\ base \in [Ref -> 0 .. Len(commits)]
    /\ state \in [Ref -> States]
    /\ heads \in [Ref -> Tree]
    /\ call \in [Client -> CallOf(Len(commits))]
    /\ reply \in [Client -> [status : Status, commit : 0 .. Len(commits)]]

(* The heads index of a branch is the tree of its tip, whatever the calls  *)
(* that race on it: the single-path upserts of write and delete, the index *)
(* rewrites of capture, restore and merge, and the seeding by fork.        *)
HeadsMatchTip ==
    \A r \in Ref \ Tag : tip[r] # NoCommit => heads[r] = TreeOf(tip[r])

(* No commit holds a file above another file, although the check of write  *)
(* runs on heads read before the compare-and-swap and a merge unites two   *)
(* trees that were each coherent.                                          *)
CoherentHistory == \A i \in DOMAIN commits : Coherent(commits[i].tree)

(* No empty commits: a commit changes the tree of its first parent.        *)
NoEmptyCommit ==
    \A i \in DOMAIN commits :
        commits[i].parents # <<>> => commits[i].tree # TreeOf(commits[i].parents[1])

(* base_commit is a merge base: it stays an ancestor of the branch and of  *)
(* the mount, so a merge never compares with a tree one side never had.    *)
BaseIsCommonAncestor ==
    \A b \in Branch : tip[b] # NoCommit =>
        /\ base[b] \in Ancestors[tip[b]]
        /\ base[b] \in Ancestors[tip[Mount]]

(* History is never rewritten: a ref that moves goes to a commit whose     *)
(* first parent is the commit it leaves.  Two calls that both loaded the   *)
(* same tip cannot both move it.                                           *)
MovesToChild ==
    [][\A r \in Ref : tip[r] # NoCommit /\ tip'[r] # tip[r] =>
          /\ commits'[tip'[r]].parents # <<>>
          /\ commits'[tip'[r]].parents[1] = tip[r]]_vars

(* A merge that completes loses no side: each path the branch changed since*)
(* the fork has the branch's value in the mount, each path the mount       *)
(* changed keeps the mount's value, every other path keeps its value.      *)
MergeKeepsBothSides ==
    [][\A c \in Client : At(c, "mergeMount") /\ reply'[c].status = "merged" =>
          \A p \in Path :
              /\ Ours(c)[p] # BaseTree(c)[p] => heads'[Mount][p] = Ours(c)[p]
              /\ Theirs(c)[p] # BaseTree(c)[p] => heads'[Mount][p] = Theirs(c)[p]
              /\ Ours(c)[p] = BaseTree(c)[p] /\ Theirs(c)[p] = BaseTree(c)[p] =>
                     heads'[Mount][p] = BaseTree(c)[p]]_vars

(* captureBatch never catches itself leaving a captured path colliding.    *)
NeverInvariantError == \A c \in Client : reply[c].status # "invariant"

(* A branch that is settled does not move: BranchSettledError means it.    *)
SettledBranchFrozen ==
    [][\A b \in Branch : state[b] \notin {"absent", "open"} => tip'[b] = tip[b]]_vars

(* merge answers NotFoundError only for a branch or mount that is absent.  *)
NotFoundMeansAbsent ==
    [][\A c \in Client :
          At(c, "mergeBranch") \/ At(c, "mergeMount") =>
              (reply'[c].status = "notFound" => tip[call[c].req.ref] = NoCommit \/ tip[Mount] = NoCommit)]_vars

(* Tags are immutable, for every call of the kernel and of sessions.       *)
TagsImmutable == [][\A t \in Tag : tip[t] # NoCommit => tip'[t] = tip[t]]_vars

-----------------------------------------------------------------------------
(* The inductive invariant behind TypeOK, HeadsMatchTip, CoherentHistory   *)
(* and NeverInvariantError.                                                *)

ParentsAreOlder ==
    \A i \in DOMAIN commits : \A k \in DOMAIN commits[i].parents :
        commits[i].parents[k] \in 1 .. i - 1

RefsAreRooted ==
    /\ \A r \in Ref : tip[r] = NoCommit => heads[r] = EmptyTree
    /\ \A b \in Branch : tip[b] # NoCommit => tip[Mount] # NoCommit /\ base[b] # NoCommit

CoherentHeads == \A r \in Ref : Coherent(heads[r])

\* what a call knows of the tables may be old, never wrong: tips only grow, so a ref
\* that still has the expected tip still has the loaded heads
CallKnows(k) ==
    /\ k.pc = "fork" => k.expected <= tip[Mount]
    /\ k.pc \in {"heads", "cas"} => k.expected # NoCommit /\ k.expected <= tip[k.req.ref]
    /\ k.pc = "mergeMount" => tip[k.req.ref] # NoCommit
    /\ k.pc \in {"load", "heads", "cas"} =>
          /\ k.req.kind = "restore" => k.other # NoCommit
          /\ k.req.kind = "capture" => Coherent(k.req.writes)
    /\ k.pc = "cas" =>
          /\ tip[k.req.ref] = k.expected => k.loaded = heads[k.req.ref]
          /\ Coherent(k.loaded)
          /\ Refusal(k.req, k.loaded) = "none"

IInv ==
    /\ TypeOK
    /\ ParentsAreOlder
    /\ RefsAreRooted
    /\ HeadsMatchTip
    /\ CoherentHistory
    /\ CoherentHeads
    /\ \A c \in Client : CallKnows(call[c])
    /\ NeverInvariantError
=============================================================================
