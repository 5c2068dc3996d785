---------------------------- MODULE MCRefKernel ----------------------------
(* Instances of RefKernel for TLC.                                         *)
EXTENDS RefKernelAtomic, TLC

CONSTANTS c1, c2, mount, b1, b2, t1, dir, file, x, y

Clients == {c1, c2}
TwoPaths == {dir, file}      \* "/a" and "/a/x"
BelowDir == {<<dir, file>>}

Symmetry == Permutations(Clients)

Write(r, p, v, pre) == [kind |-> "write", ref |-> r, path |-> p, content |-> v, ifSha |-> pre]
Delete(r, p, pre) == [kind |-> "delete", ref |-> r, path |-> p, ifSha |-> pre]
Capture(r, ws, ds) == [kind |-> "capture", ref |-> r, writes |-> ws, deletes |-> ds]
Restore(r) == [kind |-> "restore", ref |-> r]
ForkOf(b) == [kind |-> "fork", ref |-> b]
MergeOf(b, g, a) == [kind |-> "merge", ref |-> b, grant |-> g, approver |-> a]
TagOf(b, t) == [kind |-> "tag", ref |-> b, label |-> t]

OnlyFile(v) == [EmptyTree EXCEPT ![file] = v]

\* every compare-and-swap call racing on one branch and on the mount
Racing ==
    {ForkOf(b1),
     Write(b1, dir, x, AnySha), Write(b1, dir, y, x), Write(b1, file, x, None),
     Delete(b1, dir, AnySha), Delete(b1, file, x), Capture(b1, OnlyFile(y), {}), Restore(b1)}

\* two sessions that write, tag, discard and merge, and a host that writes the mount and the tag
Merging ==
    {ForkOf(b1), ForkOf(b2),
     Write(b1, dir, x, AnySha), Write(b2, file, x, AnySha), Write(mount, dir, y, AnySha),
     MergeOf(b1, "direct", "absent"), MergeOf(b1, "none", "absent"),
     MergeOf(b2, "staged", "absent"), MergeOf(b2, "staged", "staged"), MergeOf(b2, "staged", "direct"),
     TagOf(b1, t1), Write(t1, dir, y, AnySha)}
=============================================================================
