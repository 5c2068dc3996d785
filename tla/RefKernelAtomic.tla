-------------------------- MODULE RefKernelAtomic --------------------------
(* RefKernel implements AtomicRefs.                                        *)
EXTENDS RefKernel

\* A session edits the mount (direct) or its own branch (staged), never a tag.  The kernel,
\* which tuddofs/internal exports, takes an edit of a tag as well.
SessionsOnly == \A q \in Requests : q.kind \in CasKinds => q.ref \notin Tag

Published == {commits[i].tree : i \in DOMAIN commits}
TipTree == [r \in Ref |-> IF tip[r] = NoCommit THEN EmptyTree ELSE TreeOf(tip[r])]
BaseTrees == [r \in Ref |-> IF base[r] = NoCommit THEN EmptyTree ELSE TreeOf(base[r])]
Asked == [c \in Client |-> call[c].req]

Atomic == INSTANCE AtomicRefs WITH
    published <- Published,
    content   <- TipTree,
    index     <- heads,
    origin    <- BaseTrees,
    asked     <- Asked

(* Every call is atomic, although it reads the ref, the heads and the      *)
(* commit graph in several snapshots and races with other calls, merges,   *)
(* forks and crashes: it takes effect at once on what the ref holds then,  *)
(* or not at all.                                                          *)
CallsAreAtomic == Atomic!Spec

-----------------------------------------------------------------------------
(* The inductive invariant behind CallsAreAtomic, MergeKeepsBothSides and  *)
(* BaseIsCommonAncestor: IInv, and what a call may count on while it holds *)
(* locks.  With EditsOfSessions, it is behind NoEmptyCommit too.           *)

UnderLock == {"fork", "mergeBranch", "mergeMount"}

\* the advisory lock of the mount has one holder
LockExcludes == \A c, d \in Client : call[c].pc \in UnderLock /\ call[d].pc \in UnderLock => c = d

RefStates ==
    /\ \A r \in Ref : state[r] = "absent" <=> tip[r] = NoCommit
    /\ \A r \in Ref \ Tag : state[r] # "tag"

\* a call is unanswered; a compare-and-swap changes the tree; the tip a fork read is still
\* one the mount had; a merge is allowed and its branch open
CallCounts(c) ==
    LET q == call[c].req
    IN  /\ ~At(c, "idle") => reply[c].status = "none"
        /\ At(c, "cas") => NextTree(q, call[c].loaded, Source(c)) # call[c].loaded
        /\ At(c, "fork") =>
              /\ call[c].expected = NoCommit <=> tip[Mount] = NoCommit
              /\ tip[Mount] # NoCommit => call[c].expected \in Ancestors[tip[Mount]]
        /\ At(c, "mergeMount") => state[q.ref] = "open" /\ Atomic!MayMerge(q)

AInv ==
    /\ IInv
    /\ LockExcludes
    /\ RefStates
    /\ \A c \in Client : CallCounts(c)
    /\ BaseIsCommonAncestor

EditsOfSessions == \A c \in Client : call[c].req.kind \in CasKinds => call[c].req.ref \notin Tag
=============================================================================
