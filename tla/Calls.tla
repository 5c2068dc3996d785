------------------------------- MODULE Calls -------------------------------
(***************************************************************************)
(* What the calls on the refs of one mount ask for: the vocabulary shared  *)
(* by the abstract specification AtomicRefs and by the protocol RefKernel. *)
(***************************************************************************)
EXTENDS Trees

CONSTANTS
    Mount,    \* the ref mount/<key>
    Branch,   \* the refs agent/<session>/<key>
    Tag,      \* the refs tag/<key>/<label>
    AnySha,   \* no ifSha precondition
    Requests  \* the calls the clients make

Ref == {Mount} \cup Branch \cup Tag
States == {"absent", "open", "merged", "unauthorized", "abandoned", "tag"}

\* kernel calls that replace the tip of a ref by compare-and-swap
WriteRequest ==
    [kind : {"write"}, ref : Ref, path : Path, content : Content, ifSha : Entry \cup {AnySha}]
DeleteRequest ==
    [kind : {"delete"}, ref : Ref, path : Path, ifSha : Entry \cup {AnySha}]
CaptureRequest ==
    [kind : {"capture"}, ref : Ref, writes : Tree, deletes : SUBSET Path]
RestoreRequest == [kind : {"restore"}, ref : Ref]
CasRequest == WriteRequest \cup DeleteRequest \cup CaptureRequest \cup RestoreRequest

\* session calls that lock.  grant and approver are the write modes the host's
\* resolver returned to mergeRef just before its transaction.
ForkRequest == [kind : {"fork"}, ref : Branch]
MergeRequest ==
    [kind : {"merge"}, ref : Branch, grant : {"none", "staged", "direct"},
     approver : {"absent", "none", "staged", "direct"}]
TagRequest == [kind : {"tag"}, ref : Branch, label : Tag]

Request == CasRequest \cup ForkRequest \cup MergeRequest \cup TagRequest
NoRequest == [kind |-> "none"]
CasKinds == {"write", "delete", "capture", "restore"}

ASSUME CallAssumption ==
    /\ Mount \notin Branch \cup Tag
    /\ Branch \cap Tag = {}
    /\ AnySha \notin Entry
    /\ Requests \subseteq Request

\* Mutant: a write looks for no collision
RefusalColliding(q, h) ==
    CASE q.kind = "write" /\ q.ifSha \notin {AnySha, h[q.path]} -> "precondition"
      [] q.kind = "delete" /\ h[q.path] = None -> "notFound"
      [] q.kind = "delete" /\ h[q.path] # None /\ q.ifSha \notin {AnySha, h[q.path]} -> "precondition"
      [] OTHER -> "none"

\* how a call is refused once it knows the heads h, "none" when it is not
Refusal(q, h) ==
    CASE q.kind = "write" /\ q.ifSha \notin {AnySha, h[q.path]} -> "precondition"
      [] q.kind = "write" /\ q.ifSha \in {AnySha, h[q.path]} /\ Clashing(q.path, h) # {} -> "invalidPath"
      [] q.kind = "delete" /\ h[q.path] = None -> "notFound"
      [] q.kind = "delete" /\ h[q.path] # None /\ q.ifSha \notin {AnySha, h[q.path]} -> "precondition"
      [] q.kind = "capture" /\ \E p \in Present(q.writes) :
             Clashing(p, CaptureResult(h, q.writes, q.deletes)) # {} -> "invariant"
      [] OTHER -> "none"

\* the tree the call wants to commit over the heads h; a restore reads `source`
NextTree(q, h, source) ==
    CASE q.kind = "write"   -> [h EXCEPT ![q.path] = q.content]
      [] q.kind = "delete"  -> [h EXCEPT ![q.path] = None]
      [] q.kind = "capture" -> CaptureResult(h, q.writes, q.deletes)
      [] OTHER              -> source
=============================================================================
