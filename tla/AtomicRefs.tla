----------------------------- MODULE AtomicRefs -----------------------------
(***************************************************************************)
(* What the commit protocol promises.  Every ref holds one tree.  A call   *)
(* is asked, then either takes effect in one step on the tree the ref      *)
(* holds at that moment, or is answered without effect (an error, a no-op, *)
(* a lost connection).  RefKernel is shown to implement this.              *)
(***************************************************************************)
EXTENDS Calls

CONSTANT Client

VARIABLES
    published,  \* the trees ever committed
    content,    \* the tree of each ref
    index,      \* the tree the next edit of each ref starts from: its content, but for tags
    origin,     \* the tree each branch was forked from
    state,      \* as tuddo_refs.state
    asked       \* the call each client has in flight

vars == <<published, content, index, origin, state, asked>>

Init ==
    /\ published = {}
    /\ content = [r \in Ref |-> EmptyTree]
    /\ index = [r \in Ref |-> EmptyTree]
    /\ origin = [r \in Ref |-> EmptyTree]
    /\ state = [r \in Ref |-> "absent"]
    /\ asked = [c \in Client |-> NoRequest]

Ask(c, q) ==
    /\ asked[c] = NoRequest
    /\ asked' = [asked EXCEPT ![c] = q]
    /\ UNCHANGED <<published, content, index, origin, state>>

Done(c) ==
    /\ asked[c] # NoRequest
    /\ asked' = [asked EXCEPT ![c] = NoRequest]

Answer(c) == Done(c) /\ UNCHANGED <<published, content, index, origin, state>>

\* write, delete, capture and restore, applied to what the ref holds now.  tag() creates no
\* index, so a call of the kernel that names a tag edits the empty tree.
Edit(c) ==
    LET r == asked[c].ref
    IN  /\ Done(c)
        /\ asked[c].kind \in CasKinds
        /\ state[r] # "absent"
        /\ Refusal(asked[c], index[r]) = "none"
        /\ \E source \in published :
              LET next == NextTree(asked[c], index[r], source)
              IN  /\ next # index[r]
                  /\ content' = [content EXCEPT ![r] = next]
                  /\ index' = [index EXCEPT ![r] = next]
                  /\ published' = published \cup {next}
        /\ UNCHANGED <<origin, state>>

\* a branch is created once, from one committed tree that becomes its origin;
\* the mount is created empty by the first fork
Open(c) ==
    LET b == asked[c].ref
    IN  /\ Done(c)
        /\ asked[c].kind = "fork"
        /\ state[b] = "absent"
        /\ published' = IF state[Mount] = "absent" THEN published \cup {EmptyTree} ELSE published
        /\ \E tree \in published' :
              /\ content' = [content EXCEPT ![b] = tree]
              /\ index' = [index EXCEPT ![b] = tree]
              /\ origin' = [origin EXCEPT ![b] = tree]
        /\ state' = [state EXCEPT ![Mount] = IF @ = "absent" THEN "open" ELSE @, ![b] = "open"]

\* a staged write needs an approver who may write directly
MayMerge(q) == q.grant = "direct" \/ (q.grant = "staged" /\ q.approver = "direct")

\* an open branch reaches the mount whole, at once, and only by an allowed merge
MergeBranch(c) ==
    LET b == asked[c].ref
        merged == Merged(origin[b], content[b], content[Mount])
    IN  /\ Done(c)
        /\ asked[c].kind = "merge" /\ MayMerge(asked[c])
        /\ state[b] = "open"
        /\ MergeConflicts(origin[b], content[b], content[Mount]) = {}
        /\ Coherent(merged)
        /\ content' = [content EXCEPT ![Mount] = merged]
        /\ index' = [index EXCEPT ![Mount] = merged]
        /\ published' = published \cup {merged}
        /\ state' = [state EXCEPT ![b] = "merged"]
        /\ UNCHANGED origin

RefuseMerge(c) ==
    LET b == asked[c].ref
    IN  /\ Done(c)
        /\ asked[c].kind = "merge" /\ asked[c].grant = "none"
        /\ state[b] = "open"
        /\ state' = [state EXCEPT ![b] = "unauthorized"]
        /\ UNCHANGED <<published, content, index, origin>>

\* a tag is created once, from an open branch
TagBranch(c) ==
    LET b == asked[c].ref
        label == asked[c].label
    IN  /\ Done(c)
        /\ asked[c].kind = "tag"
        /\ state[b] = "open" /\ state[label] = "absent"
        /\ content' = [content EXCEPT ![label] = content[b]]
        /\ state' = [state EXCEPT ![label] = "tag"]
        /\ UNCHANGED <<published, index, origin>>

Discard(b) ==
    /\ state[b] = "open"
    /\ state' = [state EXCEPT ![b] = "abandoned"]
    /\ UNCHANGED <<published, content, index, origin, asked>>

Next ==
    \/ \E c \in Client, q \in Requests : Ask(c, q)
    \/ \E c \in Client :
          Answer(c) \/ Edit(c) \/ Open(c) \/ MergeBranch(c) \/ RefuseMerge(c) \/ TagBranch(c)
    \/ \E b \in Branch : Discard(b)

Spec == Init /\ [][Next]_vars
=============================================================================
