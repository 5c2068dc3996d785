------------------------------- MODULE Upload -------------------------------
(***************************************************************************)
(* How large contents reach the object store of one tenant: the capture    *)
(* upload of src/src/session.ts (beginCaptureUpload) driven by             *)
(* src/src/sync/engine.ts (uploadCaptured), the streaming write            *)
(* (writeStream under withBlobWriteLock), and gc's sweep of the objects.   *)
(*                                                                         *)
(* An object is the content it holds; a key is tuddo/<tenant>/<sha>, named *)
(* by the content it should hold, or the quarantine key of one call.       *)
(* Rows, trees and refs are in Gc; here a row is a sha that a commit holds.*)
(***************************************************************************)
EXTENDS Integers, FiniteSets

CONSTANTS
    Call,       \* uploads and streaming writes; each runs once
    Large,      \* contents above the inline limit
    Small,      \* contents a streaming write ends up inlining
    Missing,    \* no object
    MaxFaults   \* bound: failing calls to the store, crashes

ASSUME UploadAssumption ==
    /\ Large \cap Small = {}
    /\ Missing \notin Large \cup Small
    /\ MaxFaults \in Nat

VARIABLES
    enforcing,   \* the store refuses a PUT whose digest is not the signed one
    cas,         \* the object under the key of each large content
    quarantine,  \* the object under each call's quarantine key
    rows,        \* contents with a blob row
    urls,        \* calls whose presigned URL a PUT may still land with
    call,        \* the calls
    gc,          \* the collector
    faults,
    excused,     \* calls whose quarantine object GC has to collect
    swapped      \* calls whose object became another one after promote had hashed it

store == <<enforcing, cas, quarantine, rows>>
vars == <<store, urls, call, gc, faults, excused, swapped>>

Content == Large \cup Small
NotYet == [pc |-> "new", sha |-> Missing, cas |-> FALSE]
GcIdle == [pc |-> "idle", list |-> {}]

Init ==
    /\ enforcing \in BOOLEAN
    /\ cas = [x \in Large |-> Missing]
    /\ quarantine = [c \in Call |-> Missing]
    /\ rows = {} /\ urls = {} /\ faults = 0 /\ excused = {} /\ swapped = {}
    /\ call = [c \in Call |-> NotYet]
    /\ gc = GcIdle

At(c, pc) == call[c].pc = pc
Goto(c, pc) == call' = [call EXCEPT ![c].pc = pc]
Fault == faults < MaxFaults /\ faults' = faults + 1 /\ UNCHANGED swapped
Calm == UNCHANGED <<faults, excused, swapped>>

\* pg_advisory_lock_shared on one side, pg_try_advisory_lock on the other
Shared == {"confirm", "insert", "streamPut", "streamRead", "streamCopy", "streamInsert", "cleanup"}
Sharing == {c \in Call : call[c].pc \in Shared}
Sweeping == gc.pc # "idle"

-----------------------------------------------------------------------------
(* A capture upload.                                                       *)

\* beginCaptureUpload: HEAD first; then a URL for the CAS key when the store enforces the
\* digest, else one for a quarantine key
Begin(c, x) ==
    /\ At(c, "new")
    /\ call' = [call EXCEPT ![c] =
          [pc |-> IF cas[x] = Missing THEN "put" ELSE "promote", sha |-> x,
           cas |-> cas[x] # Missing \/ enforcing]]
    /\ urls' = IF cas[x] = Missing THEN urls \cup {c} ELSE urls
    /\ UNCHANGED <<store, gc>> /\ Calm

\* presign of a PUT, which only an enforcing store is asked for: the host's client sends the
\* content whenever it likes, and a later call may find it
Presign(c, x) ==
    /\ At(c, "new") /\ enforcing
    /\ call' = [call EXCEPT ![c] = [pc |-> "end", sha |-> x, cas |-> TRUE]]
    /\ urls' = urls \cup {c}
    /\ UNCHANGED <<store, gc>> /\ Calm

\* an enforcing store takes nothing but the content the URL was signed for
Accepted(c, f) == call[c].cas => f = call[c].sha

\* the call has yet to delete its quarantine key
Deletes == {"put", "promote", "copy", "promoted", "discard"}

\* A PUT lands: before or after the exec that sends it has ended, and as often as the target
\* sends one while the URL is valid, each with the file as it is by then.
Land(c, f) ==
    /\ c \in urls /\ Accepted(c, f)
    /\ \/ call[c].cas /\ cas' = [cas EXCEPT ![f] = f] /\ UNCHANGED quarantine
       \/ ~call[c].cas /\ quarantine' = [quarantine EXCEPT ![c] = f] /\ UNCHANGED cas
    /\ excused' = IF call[c].pc \in Deletes THEN excused ELSE excused \cup {c}
    /\ swapped' = IF At(c, "copy") /\ f # call[c].sha THEN swapped \cup {c} ELSE swapped
    /\ UNCHANGED <<enforcing, rows, urls, call, gc, faults>>

\* its TTL is over, and so is the last PUT that began before
Expire(c) ==
    /\ c \in urls
    /\ urls' = urls \ {c}
    /\ UNCHANGED <<store, call, gc>> /\ Calm

\* the upload exec ends well, which is the target's word for it, or it is refused, times out
\* or is cut off; neither ends the use of the URL
Uploaded(c) ==
    /\ At(c, "put")
    /\ Goto(c, "promote") \/ Goto(c, "discard")
    /\ UNCHANGED <<store, urls, gc>> /\ Calm

\* observeCas
Observe(c) ==
    /\ At(c, "promote") /\ call[c].cas
    /\ Goto(c, IF cas[call[c].sha] = Missing THEN "discard" ELSE "lock")
    /\ UNCHANGED <<store, urls, gc>> /\ Calm

\* Mutant: the claimed sha is trusted
VerifyNothing(c) ==
    /\ At(c, "promote") /\ ~call[c].cas
    /\ Goto(c, "copy")
    /\ UNCHANGED <<store, urls, gc>> /\ Calm

\* promote: the quarantined bytes are read back and hashed
Verify(c) ==
    /\ At(c, "promote") /\ ~call[c].cas
    /\ Goto(c, IF quarantine[c] = call[c].sha THEN "copy" ELSE "discard")
    /\ UNCHANGED <<store, urls, gc>> /\ Calm

\* server-side copy into the CAS; the object may have been swept meanwhile
Copy(c) ==
    /\ At(c, "copy")
    /\ IF quarantine[c] = Missing
       THEN Goto(c, "discard") /\ UNCHANGED cas
       ELSE Goto(c, "promoted") /\ cas' = [cas EXCEPT ![call[c].sha] = quarantine[c]]
    /\ UNCHANGED <<enforcing, quarantine, rows, urls, gc>> /\ Calm

\* a call to the store fails while promoting
PromoteFails(c) ==
    /\ call[c].pc \in {"promote", "copy"} /\ Fault
    /\ Goto(c, "discard")
    /\ UNCHANGED <<store, urls, gc, excused>>

\* discard, best effort: a failure is logged
Delete(c, then) ==
    /\ Goto(c, then)
    /\ UNCHANGED <<enforcing, cas, rows, urls, gc>>
    /\ \/ quarantine' = [quarantine EXCEPT ![c] = Missing] /\ Calm
       \/ Fault /\ excused' = excused \cup {c} /\ UNCHANGED quarantine

\* Mutant: only a failed promotion cleans up
DiscardFailed(c) ==
    \/ At(c, "promoted") /\ Goto(c, "lock") /\ UNCHANGED <<store, urls, gc>> /\ Calm
    \/ At(c, "discard") /\ Delete(c, "end")

\* after a copy the capture goes on; after an error it is over
Discard(c) ==
    \/ At(c, "promoted") /\ Delete(c, "lock")
    \/ At(c, "discard") /\ Delete(c, "end")

\* captureBatch: under the shared lock the object is looked up once more
LockToCapture(c) ==
    /\ At(c, "lock") /\ ~Sweeping
    /\ Goto(c, "confirm")
    /\ UNCHANGED <<store, urls, gc>> /\ Calm

\* Mutant: what promote observed is still there
ConfirmNothing(c) ==
    /\ At(c, "confirm")
    /\ Goto(c, "insert")
    /\ UNCHANGED <<store, urls, gc>> /\ Calm

ConfirmStored(c) ==
    /\ At(c, "confirm")
    /\ Goto(c, IF cas[call[c].sha] = Missing THEN "end" ELSE "insert")
    /\ UNCHANGED <<store, urls, gc>> /\ Calm

Insert(c) ==
    /\ At(c, "insert")
    /\ rows' = rows \cup {call[c].sha}
    /\ Goto(c, "end")
    /\ UNCHANGED <<enforcing, cas, quarantine, urls, gc>> /\ Calm

-----------------------------------------------------------------------------
(* A streaming write: everything to the commit under the shared lock.      *)

StreamLock(c, x) ==
    /\ At(c, "new") /\ ~Sweeping
    /\ call' = [call EXCEPT ![c] = [pc |-> "streamPut", sha |-> x, cas |-> FALSE]]
    /\ UNCHANGED <<store, urls, gc>> /\ Calm

\* Mutant: no content is inlined
StreamPutLarge(c) ==
    /\ At(c, "streamPut")
    /\ quarantine' = [quarantine EXCEPT ![c] = call[c].sha]
    /\ Goto(c, "streamCopy")
    /\ UNCHANGED <<enforcing, cas, rows, urls, gc>> /\ Calm

\* the source is hashed on its way into quarantine; small contents come back
StreamPut(c) ==
    /\ At(c, "streamPut")
    /\ quarantine' = [quarantine EXCEPT ![c] = call[c].sha]
    /\ Goto(c, IF call[c].sha \in Small THEN "streamRead" ELSE "streamCopy")
    /\ UNCHANGED <<enforcing, cas, rows, urls, gc>> /\ Calm

StreamRead(c) ==
    /\ At(c, "streamRead")
    /\ Goto(c, "cleanup")
    /\ UNCHANGED <<store, urls, gc>> /\ Calm

StreamCopy(c) ==
    /\ At(c, "streamCopy") /\ quarantine[c] # Missing
    /\ cas' = [cas EXCEPT ![call[c].sha] = quarantine[c]]
    /\ Goto(c, "streamInsert")
    /\ UNCHANGED <<enforcing, quarantine, rows, urls, gc>> /\ Calm

StreamInsert(c) ==
    /\ At(c, "streamInsert")
    /\ rows' = rows \cup {call[c].sha}
    /\ Goto(c, "cleanup")
    /\ UNCHANGED <<enforcing, cas, quarantine, urls, gc>> /\ Calm

\* the source or the store fails; what was put may be there all the same
StreamFails(c) ==
    /\ call[c].pc \in {"streamPut", "streamRead", "streamCopy", "streamInsert"} /\ Fault
    /\ quarantine' \in {quarantine, [quarantine EXCEPT ![c] = call[c].sha]}
    /\ Goto(c, "cleanup")
    /\ UNCHANGED <<enforcing, cas, rows, urls, gc, excused>>

\* finally: the quarantine key is deleted, then the lock released
Cleanup(c) == At(c, "cleanup") /\ Delete(c, "end")

\* Postgres frees the locks of a dead process
Crash(c) ==
    /\ call[c].pc \notin {"new", "end"} /\ Fault
    /\ Goto(c, "end")
    /\ excused' = excused \cup {c}
    /\ UNCHANGED <<store, urls, gc>>

-----------------------------------------------------------------------------
(* gc: rows first, then the objects no row knows.                          *)

Keys == {<<"cas", x>> : x \in {y \in Large : cas[y] # Missing}}
            \cup {<<"quarantine", c>> : c \in {d \in Call : quarantine[d] # Missing}}

\* unreachable rows are deleted; the store is listed
GcList ==
    /\ ~Sweeping /\ Sharing = {}
    /\ rows' \in SUBSET rows
    /\ gc' = [pc |-> "known", list |-> Keys]
    /\ UNCHANGED <<enforcing, cas, quarantine, urls, call>> /\ Calm

\* the grace window may keep any of them, but not for ever
GcKnown ==
    /\ gc.pc = "known"
    /\ \E old \in SUBSET gc.list :
          gc' = [pc |-> "sweep", list |-> {k \in old : k \notin {<<"cas", x>> : x \in rows}}]
    /\ UNCHANGED <<store, urls, call>> /\ Calm

\* a key is deleted whatever it holds by now
Delete1(k) ==
    /\ cas' = [x \in Large |-> IF k = <<"cas", x>> THEN Missing ELSE cas[x]]
    /\ quarantine' = [c \in Call |-> IF k = <<"quarantine", c>> THEN Missing ELSE quarantine[c]]

GcSweep(k) ==
    /\ gc.pc = "sweep" /\ k \in gc.list
    /\ gc' = [gc EXCEPT !.list = @ \ {k}]
    /\ \/ Delete1(k) /\ Calm
       \/ Fault /\ UNCHANGED <<cas, quarantine, excused>>
    /\ UNCHANGED <<enforcing, rows, urls, call>>

GcEnd ==
    /\ gc.pc = "sweep" /\ gc.list = {}
    /\ gc' = GcIdle
    /\ UNCHANGED <<store, urls, call>> /\ Calm

-----------------------------------------------------------------------------
Uploading(c) ==
    \/ \E x \in Large : Begin(c, x) \/ Presign(c, x)
    \/ Uploaded(c) \/ Observe(c) \/ Verify(c) \/ Copy(c) \/ PromoteFails(c) \/ Discard(c)
    \/ LockToCapture(c) \/ ConfirmStored(c) \/ Insert(c)
Streaming(c) ==
    \/ \E x \in Content : StreamLock(c, x)
    \/ StreamPut(c) \/ StreamRead(c) \/ StreamCopy(c) \/ StreamInsert(c) \/ StreamFails(c) \/ Cleanup(c)
Collecting == GcList \/ GcKnown \/ GcEnd \/ \E k \in gc.list : GcSweep(k)
Wire == \E c \in Call : Expire(c) \/ \E f \in Large : Land(c, f)

Next == Collecting \/ Wire \/ \E c \in Call : Uploading(c) \/ Streaming(c) \/ Crash(c)

Spec == Init /\ [][Next]_vars

-----------------------------------------------------------------------------
(* Properties.                                                             *)

KeyName == ({"cas"} \X Large) \cup ({"quarantine"} \X Call)

(* Types; rows of stored blobs are rows of large contents, and a collector *)
(* that does not run holds no list.                                        *)
TypeOK ==
    /\ enforcing \in BOOLEAN
    /\ cas \in [Large -> Large \cup {Missing}]
    /\ quarantine \in [Call -> Content \cup {Missing}]
    /\ rows \subseteq Large
    /\ urls \subseteq Call /\ swapped \subseteq Call
    /\ call \in [Call -> [pc : {"new", "put", "promote", "copy", "promoted", "discard", "lock", "end"} \cup Shared,
                         sha : Content \cup {Missing}, cas : BOOLEAN]]
    /\ gc \in [pc : {"idle", "known", "sweep"}, list : SUBSET KeyName] /\ (gc.pc = "idle" => gc.list = {})
    /\ faults \in 0 .. MaxFaults /\ excused \subseteq Call

(* Whatever the target sends, whenever it lands, and whichever calls      *)
(* fail, the object under the key of a content is that content.  An        *)
(* enforcing store keeps it so; any other one as long as no PUT falls      *)
(* between promote's hash and its copy, which reads the key anew.          *)
CasHoldsVerified == \A x \in Large :
    cas[x] \notin {x, Missing} => ~enforcing /\ \E c \in swapped : call[c].sha = x

(* The claim of beginCaptureUpload: bytes that are not the claimed content *)
(* never reach its key.                                                    *)
CasHoldsItsSha == \A x \in Large : cas[x] \in {x, Missing}

(* A blob row never lacks its object, although promotion runs under no     *)
(* lock and the collector may sweep what was just promoted.                *)
RowsHaveObjects == \A x \in rows : cas[x] # Missing

(* Quarantine is cleaned up by the call that filled it.  What is left to   *)
(* the collector is left by a failed delete, a PUT that landed after it, or *)
(* a process that died.                                                    *)
NoStrayQuarantine == \A c \in Call : At(c, "end") /\ quarantine[c] # Missing => c \in excused
=============================================================================
