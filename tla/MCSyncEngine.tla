---------------------------- MODULE MCSyncEngine ----------------------------
EXTENDS SyncEngine
CONSTANTS m1, m2, p1, p2, a, b
MCContent == {a, b}
\* two mounts, one with a file to hydrate
MCMounts == {m1, m2}
MCPaths == {p1, p2}
MCMountOfEach == p1 :> m1 @@ p2 :> m2
MCOneFile == p1 :> a @@ p2 :> Absent
\* one mount and one path; the mount has its file, or is empty
MCMount == {m1}
MCPath == {p1}
MCMountOf == p1 :> m1
MCFile == p1 :> a
MCNothing == p1 :> Absent
=============================================================================
