----------------------------- MODULE SyncEngine -----------------------------
(***************************************************************************)
(* The sync engine, src/src/sync/engine.ts: one session, one target.  Tool *)
(* writes commit first and reach the mirror later; commands change the     *)
(* mirror and are captured later; a reconcile ends the turn; the process   *)
(* may die at any step and attach to the same workspace again.             *)
(*                                                                         *)
(* The host makes one call at a time, but a write returns before its       *)
(* mirror write and an exec before its capture, so both run beside the     *)
(* next calls.  What JavaScript does between two awaits is one action.     *)
(***************************************************************************)
EXTENDS Integers, Sequences, SequencesExt

CONSTANTS
    Mount, Path,
    MountOf,     \* the mount of each path
    Content,     \* what a file may hold, named by its sha
    Absent,      \* no file; in the index: no entry, or no sha
    Torn,        \* what a file being written holds meanwhile: targets truncate, then write
    Imported,    \* what the branch holds of each path before the engine attaches
    MaxCalls,    \* bound: tool writes and commands, the engine's and the host's own
    MaxEdits,    \* bound: changes commands make on the target
    MaxFaults    \* bound: failed calls, crashes and revoked grants

ASSUME EngineAssumption ==
    /\ Absent \notin Content /\ Torn \notin Content \cup {Absent}
    /\ MountOf \in [Path -> Mount]
    /\ Imported \in [Path -> Content \cup {Absent}]
    /\ {MaxCalls, MaxEdits, MaxFaults} \subseteq Nat

VARIABLES
    history,   \* each path's commits, oldest first: the operation, and what it left
    granted,   \* mounts this actor may write
    disk,      \* the mirror
    newer,     \* files `find -newer` lists
    touched,   \* files changed since the running scan took its start time
    stamped,   \* the stamp file exists
    marked,    \* mounts named in the hydration marker
    table,     \* the mount table: mounts it says are writable
    index,     \* the index entry of each path
    resume,    \* resumeGuard: the epoch a mount was seeded in, or Closed
    epoch,     \* execEpoch
    mirrors,   \* pendingMirrorWrites
    writes,    \* tool writes so far; names a mirror write
    job, again,\* the capture slot
    cap,       \* the running capture
    stage,     \* paths being materialized again, by the host's exec and by the job
    host,      \* the host's call in progress
    edits, faults,
    since      \* what befell each path since its newest tool write

durable == <<history, granted>>
target == <<disk, newer, touched, stamped, marked>>
slot == <<job, again>>
vars == <<durable, target, table, index, resume, epoch, mirrors, writes, slot, cap, stage, host,
          edits, faults, since>>

Slot == INSTANCE JobSlot

Closed == -1
Files(m) == {p \in Path : MountOf[p] = m}
Tip(p) == Last(history[p]).sha
\* every content the path held in its lineage
Held(p) == {history[p][i].sha : i \in DOMAIN history[p]} \ {Absent}

\* an index entry with no mark; no entry at all when the sha is Absent
Plain(sha) == [sha |-> sha, previous |-> Absent, unconfirmed |-> FALSE, writeEpoch |-> 0, dirty |-> FALSE]

\* Mutant: the window of a write stays open when a command has run
GuardedAlways(p) == index[p].unconfirmed

Guarded(p) == index[p].unconfirmed /\ index[p].writeEpoch = epoch
Dirty == {p \in Path : index[p].sha # Absent /\ index[p].dirty}

NoCapture == [pc |-> "off", full |-> FALSE, left |-> {}, seen |-> [p \in Path |-> Absent],
              mount |-> Absent, changed |-> {}, deletes |-> {},
              bytes |-> [p \in Path |-> Absent]]
NoStage == [todo |-> {}, read |-> [p \in Path |-> Absent]]
Away(pc) == [pc |-> pc, left |-> {}, cold |-> FALSE, path |-> Absent, sha |-> Absent]
Untroubled == [edited |-> "no", lost |-> FALSE, ran |-> FALSE, unsure |-> FALSE, adrift |-> FALSE]

Init ==
    /\ history = [p \in Path |-> <<[op |-> "import", sha |-> Imported[p]]>>]
    /\ granted = Mount
    /\ disk = [p \in Path |-> Absent]
    /\ newer = {} /\ touched = {} /\ stamped = FALSE /\ marked = {}
    /\ table = {} /\ index = [p \in Path |-> Plain(Absent)]
    /\ resume = [m \in Mount |-> Closed]
    /\ epoch = 0 /\ mirrors = {} /\ writes = 0
    /\ Slot!Init
    /\ cap = NoCapture
    /\ stage = [w \in {"host", "job"} |-> NoStage]
    /\ host = Away("down")
    /\ edits = 0 /\ faults = 0
    /\ since = [p \in Path |-> Untroubled]

\* files on the target that change, and with what
Change(new) ==
    /\ disk' = [p \in Path |-> IF p \in DOMAIN new THEN new[p] ELSE disk[p]]
    /\ newer' = newer \cup DOMAIN new
    /\ touched' = touched \cup DOMAIN new
    /\ UNCHANGED <<stamped, marked>>

Fault == faults < MaxFaults /\ faults' = faults + 1

-----------------------------------------------------------------------------
(* Phase 1: materialize.                                                   *)

Attach ==
    /\ host.pc = "down"
    /\ table' = granted
    /\ host' = [Away("attach") EXCEPT !.left = Mount]
    /\ UNCHANGED <<durable, target, index, resume, epoch, mirrors, writes, slot, cap, stage, edits, faults, since>>

Warm(m) == stamped /\ m \in marked

\* the index of a mount is seeded with the branch
Seed(m) == index' = [p \in Path |-> IF MountOf[p] = m THEN Plain(Tip(p)) ELSE index[p]]

\* seedIndexFromHeads: nothing is read of the mirror, so the guard opens
AttachWarm(m) ==
    /\ host.pc = "attach" /\ m \in host.left /\ Warm(m)
    /\ Seed(m)
    /\ resume' = [resume EXCEPT ![m] = epoch]
    /\ host' = [host EXCEPT !.left = @ \ {m}]
    /\ UNCHANGED <<durable, target, table, epoch, mirrors, writes, slot, cap, stage, edits, faults, since>>

\* a file of a batch is being written, or is in place before the others
HydrateTears(m) ==
    /\ host.pc = "attach" /\ m \in host.left /\ ~Warm(m)
    /\ \E p \in Files(m) : \E c \in {Torn, Tip(p)} :
           /\ Tip(p) # Absent /\ disk[p] # c
           /\ Change([q \in {p} |-> c])
    /\ UNCHANGED <<durable, table, index, resume, epoch, mirrors, writes, slot, cap, stage, host, edits, faults, since>>

\* hydrate: the files go out, are verified, and the marker is written last
HydrateFiles(m) ==
    /\ host.pc = "attach" /\ m \in host.left /\ ~Warm(m)
    /\ \E p \in Files(m) : disk[p] # Tip(p) /\ Tip(p) # Absent
    /\ Change([p \in {q \in Files(m) : Tip(q) # Absent} |-> Tip(p)])
    /\ UNCHANGED <<durable, table, index, resume, epoch, mirrors, writes, slot, cap, stage, host, edits, faults, since>>

HydrateDone(m) ==
    /\ host.pc = "attach" /\ m \in host.left /\ ~Warm(m)
    /\ \A p \in Files(m) : disk[p] = Tip(p) \/ Tip(p) = Absent
    /\ Seed(m)
    /\ marked' = (Mount \ host.left) \cup {m}
    /\ host' = [host EXCEPT !.left = @ \ {m}, !.cold = TRUE]
    /\ UNCHANGED <<durable, disk, newer, touched, stamped, table, resume, epoch, mirrors, writes, slot, cap, stage,
                   edits, faults, since>>

\* the stamp's margin keeps what was just hydrated on the list
Attached ==
    /\ host.pc = "attach" /\ host.left = {}
    /\ stamped' = (stamped \/ host.cold)
    /\ host' = Away("idle")
    /\ UNCHANGED <<durable, disk, newer, touched, marked, table, index, resume, epoch, mirrors, writes, slot, cap,
                   stage, edits, faults, since>>

-----------------------------------------------------------------------------
(* Phase 2: a tool write commits, then is mirrored.                        *)

Pending(p) == \E w \in mirrors : w.path = p

\* what the mirror kept from the branch, or the branch from the mirror, is still to come
AtWrite(p) ==
    LET behind == disk[p] # Tip(p)
    IN  [edited |-> IF behind /\ since[p].edited # "no" THEN "unreported" ELSE "no",
         lost |-> behind /\ since[p].lost,
         ran |-> FALSE,
         unsure |-> \/ index[p].unconfirmed \/ (behind /\ resume[MountOf[p]] # Closed)
                    \/ since[p].unsure /\ index[p].sha # disk[p],
         adrift |-> job # "idle" \/ Pending(p) \/ (since[p].adrift /\ index[p].sha # disk[p])]

WriteCommits(p, c) ==
    /\ host.pc = "idle" /\ writes + epoch < MaxCalls
    /\ MountOf[p] \in granted
    /\ history' = IF c = Tip(p) THEN history
                  ELSE [history EXCEPT ![p] = Append(@, [op |-> "write", sha |-> c])]
    /\ writes' = writes + 1
    /\ host' = [Away("written") EXCEPT !.path = p, !.sha = c]
    /\ since' = [since EXCEPT ![p] = AtWrite(p)]
    /\ UNCHANGED <<granted, target, table, index, resume, epoch, mirrors, slot, cap, stage, edits, faults>>

\* the sha a scan last confirmed on the mirror
Confirmed(p) == IF index[p].unconfirmed THEN index[p].previous ELSE index[p].sha

WriteReturns ==
    LET p == host.path
    IN  /\ host.pc = "written"
        /\ index' = [index EXCEPT ![p] = [Plain(host.sha) EXCEPT
                       !.previous = Confirmed(p), !.unconfirmed = TRUE, !.writeEpoch = epoch]]
        /\ mirrors' = {[w EXCEPT !.alone = @ /\ w.path # p] : w \in mirrors} \cup
                      {[n |-> writes, path |-> p, sha |-> host.sha, landed |-> FALSE, alone |-> ~Pending(p)]}
        /\ host' = Away("idle")
        /\ UNCHANGED <<durable, target, table, resume, epoch, writes, slot, cap, stage, edits, faults, since>>

\* the commit is durable and its reply is lost: the host gets an error, the index nothing
WriteReplyLost ==
    /\ host.pc = "written" /\ Fault
    /\ since' = [since EXCEPT ![host.path].adrift = TRUE]
    /\ host' = Away("idle")
    /\ UNCHANGED <<durable, target, table, index, resume, epoch, mirrors, writes, slot, cap, stage, edits>>

\* the file is truncated in place; its bytes come later, or never
MirrorTears(w) ==
    /\ w \in mirrors /\ ~w.landed
    /\ disk[w.path] # Torn
    /\ Change([p \in {w.path} |-> Torn])
    /\ UNCHANGED <<durable, table, index, resume, epoch, mirrors, writes, slot, cap, stage, host, edits, faults, since>>

\* two writes of one path at a time may leave a mixture
MirrorLands(w) ==
    /\ w \in mirrors /\ ~w.landed
    /\ mirrors' = (mirrors \ {w}) \cup {[w EXCEPT !.landed = TRUE]}
    /\ \E c \in {w.sha, Torn} :
           /\ c = Torn => ~w.alone
           /\ Change([p \in {w.path} |-> c])
    /\ UNCHANGED <<durable, table, index, resume, epoch, writes, slot, cap, stage, host, edits, faults, since>>

MirrorEnds(w) ==
    /\ w \in mirrors /\ w.landed
    /\ mirrors' = mirrors \ {w}
    /\ UNCHANGED <<durable, target, table, index, resume, epoch, writes, slot, cap, stage, host, edits, faults, since>>

\* the mirror is behind the branch; only a command after this can change that knowingly
Lost(p) == [since[p] EXCEPT !.lost = TRUE, !.ran = FALSE]

\* rejected, whether it landed, tore the file or did neither: the path is dirty
MirrorFails(w) ==
    /\ w \in mirrors /\ Fault
    /\ mirrors' = mirrors \ {w}
    /\ index' = [index EXCEPT ![w.path].dirty = index[w.path].sha # Absent]
    /\ since' = [since EXCEPT ![w.path] = Lost(w.path)]
    /\ UNCHANGED <<durable, target, table, resume, epoch, writes, slot, cap, stage, host, edits>>

-----------------------------------------------------------------------------
(* materializeRequests: the branch's bytes are read, then written over the *)
(* mirror, in chunks; the new entries carry no mark.                       *)

Staging(p) == [todo |-> p, read |-> [q \in Path |-> Absent]]

\* readBytes rejects for a path the branch lacks; none that is staged does
StageRead(w) ==
    \E p \in stage[w].todo :
        /\ stage[w].read[p] = Absent /\ Tip(p) # Absent
        /\ stage' = [stage EXCEPT ![w].read[p] = Tip(p)]
        /\ UNCHANGED <<durable, target, table, index, resume, epoch, mirrors, writes, slot, cap, host, edits, faults, since>>

Chunk(w) == {p \in stage[w].todo : stage[w].read[p] # Absent}

\* a file of the chunk is being written, or is in place before the index knows
StageTears(w) ==
    \E p \in Chunk(w) : \E c \in {Torn, stage[w].read[p]} :
        /\ disk[p] # c
        /\ Change([q \in {p} |-> c])
        /\ since' = [since EXCEPT ![p].adrift = @ \/ stage[w].read[p] # Tip(p)]
        /\ UNCHANGED <<durable, table, index, resume, epoch, mirrors, writes, slot, cap, stage, host, edits, faults>>

\* staging stops in the middle of a file
GivenUp(w, p) == p \in stage[w].todo /\ disk[p] = Torn

StageWrites(w) ==
    /\ Chunk(w) # {}
    /\ Change([p \in Chunk(w) |-> stage[w].read[p]])
    /\ index' = [p \in Path |-> IF p \in Chunk(w) THEN Plain(stage[w].read[p]) ELSE index[p]]
    /\ stage' = [stage EXCEPT ![w] = Staging(stage[w].todo \ Chunk(w))]
    /\ since' = [p \in Path |-> [since[p] EXCEPT
          !.lost = @ /\ ~(p \in Chunk(w) /\ stage[w].read[p] = Tip(p) /\ (w = "job" \/ job = "idle")),
          !.adrift = @ \/ (p \in Chunk(w) /\ stage[w].read[p] # Tip(p))]]
    /\ UNCHANGED <<durable, table, resume, epoch, mirrors, writes, slot, cap, host, edits, faults>>

-----------------------------------------------------------------------------
(* The capture slot hands the target over.                                 *)

Begin(full) == [NoCapture EXCEPT !.pc = "scan", !.full = full]

\* scanStart is taken as the capture begins
StartCapture(full) == cap' = Begin(full) /\ touched' = {}

TriggerSlot ==
    /\ Slot!Trigger
    /\ \/ job = "idle" /\ StartCapture(FALSE)
       \/ job # "idle" /\ UNCHANGED <<cap, touched>>

\* the job is over; the follow-up starts at once if one was asked for
JobEnds ==
    /\ Slot!CaptureEnds \/ Slot!WorkEnds
    /\ host' = IF job = "exclusive" THEN Away("idle") ELSE host
    /\ stage' = [stage EXCEPT !["job"] = NoStage]

\* Mutant: the follow-up is granted the slot and never run
FollowUpNever == cap' = NoCapture /\ UNCHANGED touched

FollowUp ==
    \/ again /\ StartCapture(FALSE)
    \/ ~again /\ cap' = NoCapture /\ UNCHANGED touched

-----------------------------------------------------------------------------
(* Commands.                                                               *)

\* noteExec: the window of every write closes, except of those still on the wire
NoteExec ==
    /\ epoch' = epoch + 1
    /\ index' = [p \in Path |-> IF Pending(p) /\ index[p].unconfirmed
                                THEN [index[p] EXCEPT !.writeEpoch = epoch + 1] ELSE index[p]]
    /\ since' = [p \in Path |-> [since[p] EXCEPT
                    !.ran = TRUE,
                    !.edited = IF @ # "unreported" THEN @
                               ELSE IF Pending(p) \/ job # "idle" THEN "masked" ELSE "reported"]]

ExecCall ==
    /\ host.pc = "idle" /\ writes + epoch < MaxCalls
    /\ host' = Away("settling")
    /\ UNCHANGED <<durable, target, table, index, resume, epoch, mirrors, writes, slot, cap, stage, edits, faults, since>>

ExecSettled ==
    /\ host.pc = "settling" /\ mirrors = {}
    /\ host' = Away("staging")
    /\ stage' = [stage EXCEPT !["host"] = Staging(Dirty)]
    /\ UNCHANGED <<durable, target, table, index, resume, epoch, mirrors, writes, slot, cap, edits, faults, since>>

ExecStarts ==
    /\ host.pc = "staging" /\ stage["host"].todo = {}
    /\ NoteExec
    /\ host' = Away("exec")
    /\ UNCHANGED <<durable, target, table, resume, mirrors, writes, slot, cap, stage, edits, faults>>

\* exec rejects: before the command when staging fails, or with it, and nothing is triggered
ExecFails ==
    /\ host.pc \in {"staging", "exec"} /\ Fault
    /\ host' = Away("idle")
    /\ stage' = [stage EXCEPT !["host"] = NoStage]
    /\ since' = [p \in Path |-> [since[p] EXCEPT !.lost = @ \/ GivenUp("host", p)]]
    /\ UNCHANGED <<durable, target, table, index, resume, epoch, mirrors, writes, slot, cap, edits>>

ExecReturns ==
    /\ host.pc = "exec"
    /\ TriggerSlot
    /\ host' = Away("idle")
    /\ UNCHANGED <<durable, disk, newer, stamped, marked, table, index, resume, epoch, mirrors, writes, stage,
                   edits, faults, since>>

\* the host runs a command of its own, then calls captureAfterExec
OwnCommand ==
    /\ host.pc = "idle" /\ writes + epoch < MaxCalls
    /\ host' = Away("own")
    /\ UNCHANGED <<durable, target, table, index, resume, epoch, mirrors, writes, slot, cap, stage, edits, faults, since>>

CaptureAfterExec ==
    /\ host.pc = "own"
    /\ NoteExec
    /\ TriggerSlot
    /\ host' = Away("idle")
    /\ UNCHANGED <<durable, disk, newer, stamped, marked, table, resume, mirrors, writes, stage, edits, faults>>

\* a running command changes a file
Edit(p, c) ==
    /\ host.pc \in {"exec", "own"} /\ edits < MaxEdits
    /\ c # disk[p]
    /\ Change([q \in {p} |-> c])
    /\ edits' = edits + 1
    /\ since' = [since EXCEPT ![p].edited = IF host.pc = "exec" THEN "reported" ELSE "unreported"]
    /\ UNCHANGED <<durable, table, index, resume, epoch, mirrors, writes, slot, cap, stage, host, faults>>

-----------------------------------------------------------------------------
(* Phase 4: reconcile, the exclusive job: settle, stage what is dirty,     *)
(* refresh the mount table, capture everything.                            *)

ReconcileCall ==
    /\ host.pc = "idle"
    /\ host' = Away("reconcile")
    /\ UNCHANGED <<durable, target, table, index, resume, epoch, mirrors, writes, slot, cap, stage, edits, faults, since>>

ReconcileEnters ==
    /\ host.pc = "reconcile" /\ Slot!Enter
    /\ cap' = [NoCapture EXCEPT !.pc = "settling"]
    /\ UNCHANGED <<durable, target, table, index, resume, epoch, mirrors, writes, stage, host, edits, faults, since>>

\* Mutant: a reconcile does not wait for mirror writes
ReconcileHastens ==
    /\ cap.pc = "settling"
    /\ cap' = [cap EXCEPT !.pc = "staging"]
    /\ stage' = [stage EXCEPT !["job"] = Staging(Dirty)]
    /\ UNCHANGED <<durable, target, table, index, resume, epoch, mirrors, writes, slot, host, edits, faults, since>>

ReconcileSettled ==
    /\ cap.pc = "settling" /\ mirrors = {}
    /\ cap' = [cap EXCEPT !.pc = "staging"]
    /\ stage' = [stage EXCEPT !["job"] = Staging(Dirty)]
    /\ UNCHANGED <<durable, target, table, index, resume, epoch, mirrors, writes, slot, host, edits, faults, since>>

ReconcileScans ==
    /\ cap.pc = "staging" /\ stage["job"].todo = {}
    /\ table' = granted
    /\ StartCapture(TRUE)
    /\ UNCHANGED <<durable, disk, newer, stamped, marked, index, resume, epoch, mirrors, writes, slot, stage, host,
                   edits, faults, since>>

-----------------------------------------------------------------------------
(* Phase 3, and the body both share: scan, then mount by mount classify,   *)
(* stage again, fetch and commit; the stamp moves last.                    *)

\* what find lists and sha256sum hashes: all files, or those newer than the stamp
Found == [p \in Path |-> IF cap.full \/ p \in newer THEN disk[p] ELSE Absent]

Scan ==
    /\ cap.pc = "scan"
    /\ cap' = [cap EXCEPT !.pc = "mount", !.left = Mount, !.seen = Found]
    /\ UNCHANGED <<durable, target, table, index, resume, epoch, mirrors, writes, slot, stage, host, edits, faults, since>>

Listed(p) == cap.seen[p] # Absent
Known(p) == index[p].sha # Absent
Confirms(p) == Listed(p) /\ index[p].sha = cap.seen[p]

\* the guard of this process: the mirror still holds what it held before the write
Straggler(p) == Guarded(p) /\ (Listed(p) => index[p].previous = cap.seen[p])

\* the guard of a resumed process, from durable history
CreatedByNewestWrite(p) ==
    /\ Last(history[p]).op = "write"
    /\ Len(history[p]) > 1 => history[p][Len(history[p]) - 1].sha = Absent
Resuming(p) == resume[MountOf[p]] = epoch /\ ~index[p].unconfirmed
\* Mutant: only what the newest write replaced is known to be stale
StaleNewest(p) == Resuming(p) /\ Listed(p) /\ Len(history[p]) > 1 /\ cap.seen[p] = history[p][Len(history[p]) - 1].sha

Stale(p) == Resuming(p) /\ IF Listed(p) THEN cap.seen[p] \in Held(p) ELSE CreatedByNewestWrite(p)

Diverges(p) == Known(p) /\ ~Confirms(p) /\ (Listed(p) \/ cap.full)
Restage(p) == Diverges(p) /\ (Straggler(p) \/ Stale(p))
Changed(p) == Listed(p) /\ ~Confirms(p) /\ ~Restage(p)
Deleted(p) == Diverges(p) /\ ~Listed(p) /\ ~Restage(p)

\* a read-only mount is only reported to the host
Classify(m) ==
    LET of(Q(_)) == {p \in Files(m) : m \in table /\ Q(p)}
    IN  /\ cap.pc = "mount" /\ m \in cap.left
        /\ index' = [p \in Path |->
              IF MountOf[p] = m /\ Confirms(p)
              THEN [Plain(index[p].sha) EXCEPT !.dirty = index[p].dirty] ELSE index[p]]
        /\ stage' = [stage EXCEPT !["job"] = Staging(of(Restage))]
        /\ cap' = [cap EXCEPT !.pc = "restage", !.mount = m, !.left = @ \ {m},
                              !.changed = of(Changed), !.deletes = of(Deleted)]
        /\ UNCHANGED <<durable, target, table, resume, epoch, mirrors, writes, slot, host, edits, faults, since>>

Restaged ==
    /\ cap.pc = "restage" /\ stage["job"].todo = {}
    /\ cap' = [cap EXCEPT !.pc = IF cap.changed \cup cap.deletes = {} THEN "mount" ELSE "fetch"]
    /\ UNCHANGED <<durable, target, table, index, resume, epoch, mirrors, writes, slot, stage, host, edits, faults, since>>

\* readFilesBatched: every file asked for, as it is by now, or none
ReadFiles(paths) == [p \in Path |-> IF p \in paths THEN disk[p] ELSE Absent]

Fetch ==
    /\ cap.pc = "fetch"
    /\ \A p \in cap.changed : disk[p] # Absent
    /\ cap' = [cap EXCEPT !.pc = "commit", !.bytes = ReadFiles(cap.changed)]
    /\ UNCHANGED <<durable, target, table, index, resume, epoch, mirrors, writes, slot, stage, host, edits, faults, since>>

\* session.capture: one commit of what differs from the branch
Differs == {p \in cap.changed \cup cap.deletes : cap.bytes[p] # Tip(p)}

\* what was fetched is not what the mirror holds, or not for long
Passing(p) == cap.bytes[p] # disk[p] \/ cap.bytes[p] = Torn

Commit ==
    /\ cap.pc = "commit" /\ cap.mount \in granted
    /\ history' = [p \in Path |-> IF p \in Differs THEN Append(history[p], [op |-> "capture", sha |-> cap.bytes[p]])
                                  ELSE history[p]]
    /\ cap' = [cap EXCEPT !.pc = "committed", !.changed = Differs \ cap.deletes]
    /\ since' = [p \in Path |->
          [since[p] EXCEPT !.unsure = @ \/ (p \in Differs /\ Passing(p))]]
    /\ UNCHANGED <<granted, target, table, index, resume, epoch, mirrors, writes, slot, stage, host, edits, faults>>

\* Mutant: a deleted path keeps its entry
CommittedKeeping ==
    /\ cap.pc = "committed"
    /\ index' = [p \in Path |-> IF p \in cap.changed THEN Plain(cap.bytes[p]) ELSE index[p]]
    /\ cap' = [cap EXCEPT !.pc = "mount", !.changed = {}, !.deletes = {}, !.bytes = NoCapture.bytes]
    /\ UNCHANGED <<durable, target, table, resume, epoch, mirrors, writes, slot, stage, host, edits, faults, since>>

Committed ==
    /\ cap.pc = "committed"
    /\ index' = [p \in Path |-> IF p \in cap.changed \cup cap.deletes THEN Plain(cap.bytes[p]) ELSE index[p]]
    /\ cap' = [cap EXCEPT !.pc = "mount", !.changed = {}, !.deletes = {}, !.bytes = NoCapture.bytes]
    /\ UNCHANGED <<durable, target, table, resume, epoch, mirrors, writes, slot, stage, host, edits, faults, since>>

\* every mount is done: the first authoritative scan closes the resume guard
Classified ==
    /\ cap.pc = "mount" /\ cap.left = {}
    /\ cap' = [Begin(cap.full) EXCEPT !.pc = "stamp"]
    /\ resume' = IF cap.full THEN [m \in Mount |-> Closed] ELSE resume
    /\ UNCHANGED <<durable, target, table, index, epoch, mirrors, writes, slot, stage, host, edits, faults, since>>

\* Mutant: the stamp moves to the end of the scan
StampLate ==
    /\ cap.pc = "stamp"
    /\ newer' = {}
    /\ JobEnds /\ FollowUp
    /\ UNCHANGED <<durable, disk, stamped, marked, table, index, resume, epoch, mirrors, writes, edits, faults, since>>

\* the stamp moves to the start of the scan
Stamp ==
    /\ cap.pc = "stamp"
    /\ newer' = touched
    /\ JobEnds /\ FollowUp
    /\ UNCHANGED <<durable, disk, stamped, marked, table, index, resume, epoch, mirrors, writes, edits, faults, since>>

\* a file is gone, or the grant is
MustFail ==
    \/ cap.pc = "fetch" /\ \E p \in cap.changed : disk[p] = Absent
    \/ cap.pc = "commit" /\ cap.mount \notin granted

\* any await may reject: the cycle ends where it is and the stamp stays.  A commit whose
\* reply is lost stays out of the index.
CaptureFails ==
    /\ \/ cap.pc # "off" /\ Fault
       \/ MustFail /\ UNCHANGED faults
    /\ since' = [p \in Path |-> [since[p] EXCEPT
          !.lost = @ \/ GivenUp("job", p),
          !.adrift = @ \/ (cap.pc = "committed" /\ p \in cap.changed \cup cap.deletes)]]
    /\ JobEnds /\ FollowUp
    /\ UNCHANGED <<durable, disk, newer, stamped, marked, table, index, resume, epoch, mirrors, writes, edits>>

-----------------------------------------------------------------------------
(* The environment.                                                        *)

Revoke(m) ==
    /\ m \in granted /\ Fault
    /\ granted' = granted \ {m}
    /\ UNCHANGED <<history, target, table, index, resume, epoch, mirrors, writes, slot, cap, stage, host, edits, since>>

\* the process dies; a file it was writing is whole by then, or torn, or as it was.  The
\* epoch starts at 0 again in the code; only its changes matter.
Crash ==
    /\ host.pc # "down" /\ Fault
    /\ since' = [p \in Path |-> [since[p] EXCEPT
                    !.edited = IF @ = "no" THEN @ ELSE "unreported",
                    !.lost = @ \/ disk[p] # Tip(p),
                    !.ran = @ /\ disk[p] = Tip(p), !.adrift = FALSE,
                    !.unsure = disk[p] = Absent /\ ~CreatedByNewestWrite(p)]]
    /\ table' = {} /\ index' = [p \in Path |-> Plain(Absent)]
    /\ resume' = [m \in Mount |-> Closed]
    /\ mirrors' = {}
    /\ job' = "idle" /\ again' = FALSE
    /\ cap' = NoCapture
    /\ stage' = [w \in {"host", "job"} |-> NoStage]
    /\ host' = Away("down")
    /\ UNCHANGED <<durable, target, epoch, writes, edits>>

-----------------------------------------------------------------------------
Materialize == Attach \/ Attached \/ \E m \in Mount : AttachWarm(m) \/ HydrateTears(m) \/ HydrateFiles(m) \/ HydrateDone(m)
Mirror == \E w \in mirrors : MirrorTears(w) \/ MirrorLands(w) \/ MirrorEnds(w)
Exec == ExecSettled \/ ExecStarts \/ ExecReturns
Reconcile == ReconcileEnters \/ ReconcileSettled \/ ReconcileScans
Capture ==
    \/ Scan \/ Restaged \/ Fetch \/ Commit \/ Committed \/ Classified \/ Stamp
    \/ \E m \in Mount : Classify(m)
Restaging == \E w \in {"host", "job"} : StageRead(w) \/ StageTears(w) \/ StageWrites(w)
Failing == WriteReplyLost \/ ExecFails \/ CaptureFails \/ \E w \in mirrors : MirrorFails(w)
Engine == Materialize \/ WriteReturns \/ Mirror \/ Restaging \/ Exec \/ CaptureAfterExec \/ Reconcile \/ Capture

Calls ==
    \/ \E p \in Path, c \in Content : WriteCommits(p, c)
    \/ ExecCall \/ OwnCommand \/ ReconcileCall
Target == \E p \in Path, c \in Content \cup {Absent} : Edit(p, c)
Environment == Crash \/ \E m \in Mount : Revoke(m)

Next == Engine \/ Calls \/ Target \/ Failing \/ Environment

Spec == Init /\ [][Next]_vars

-----------------------------------------------------------------------------
(* Properties.                                                             *)

Sha == Content \cup {Absent, Torn}

TypeOK ==
    /\ \A p \in Path : Len(history[p]) > 0
    /\ \A p \in Path : \A i \in DOMAIN history[p] :
           history[p][i] \in [op : {"import", "write", "capture"}, sha : Sha]
    /\ granted \subseteq Mount /\ table \subseteq Mount /\ marked \subseteq Mount
    /\ disk \in [Path -> Sha] /\ newer \subseteq Path /\ touched \subseteq Path /\ stamped \in BOOLEAN
    /\ index \in [Path -> [sha : Sha, previous : Sha, unconfirmed : BOOLEAN, writeEpoch : Nat, dirty : BOOLEAN]]
    /\ resume \in [Mount -> Nat \cup {Closed}]
    /\ epoch \in Nat /\ writes \in Nat /\ edits \in Nat /\ faults \in Nat
    /\ \A w \in mirrors : w.path \in Path /\ w.sha \in Content /\ {w.landed, w.alone} \subseteq BOOLEAN
    /\ job \in Slot!Job /\ again \in BOOLEAN
    /\ (cap.pc = "off") = (job = "idle")

(* What a capture puts over a tool write that nothing on the target changed*)
(* is at worst the file torn by a write of the engine's own, which history *)
(* keeps beside it.  A whole file it may put over a write a command edited *)
(* since, one whose mirror write was lost before another command ran (the  *)
(* trade noteExec names), one adrift: made while an earlier mirror write of*)
(* the path, or a job of the engine, was still under way; or one unsure:   *)
(* made while the index does not know what the mirror holds, which is so   *)
(* after a write no scan has confirmed, after a commit of bytes the mirror *)
(* had left by then or of a torn file, and in a resumed process, until     *)
(* index and mirror agree; or the newest of two no file of which a dead    *)
(* process left behind.                                                    *)
Captures(p) == history'[p] # history[p] /\ Last(history'[p]).op = "capture"
CapturesTorn(p) == Captures(p) /\ Last(history'[p]).sha = Torn
Reverts(p) == Captures(p) /\ Last(history[p]).op = "write"

Justified(p) == since[p].edited # "no" \/ (since[p].lost /\ since[p].ran)

DurableWritesSurvive ==
    [][\A p \in Path :
          Reverts(p) => Justified(p) \/ since[p].unsure \/ since[p].adrift \/ CapturesTorn(p)]_vars

(* A reconcile waits for mirror writes and puts back what failed, so the   *)
(* torn files it commits are those a process died over, or gave up putting *)
(* back.                                                                   *)
ReconcileCommitsWholeFiles ==
    [][\A p \in Path : CapturesTorn(p) /\ cap.full => since[p].lost \/ since[p].adrift]_vars

(* What a resumed process commits of a path that no command changed is     *)
(* content the path held before: new content is a command's work.          *)
NewContentIsWork ==
    [][\A p \in Path :
          Captures(p) /\ resume[MountOf[p]] = epoch /\ Last(history'[p]).sha \notin Held(p) \cup {Absent} =>
              since[p].edited # "no"]_vars

(* The same without the races: only a command moves a branch back to a file*)
(* it held.  A process that dies between commit and mirror write loses no  *)
(* write.                                                                  *)
DeadProcessLosesNoWrite ==
    [][\A p \in Path :
          Reverts(p) /\ resume[MountOf[p]] = epoch => Justified(p) \/ since[p].adrift \/ CapturesTorn(p)]_vars

(* The guard that stages a lost write again never overwrites what a        *)
(* command did to the path since, once the engine was told of the command. *)
RestageKeepsWork ==
    [][cap.pc = "restage" /\ (StageTears("job") \/ StageWrites("job")) =>
          \A p \in stage["job"].todo :
              disk'[p] # disk[p] => since[p].edited # "reported" \/ p \in touched]_vars

(* A reconcile that succeeds leaves mirror, branch and index equal: lost   *)
(* writes are back, work and deletions are committed.                      *)
Converged(p) == disk[p] = Tip(p) /\ index[p].sha = Tip(p)

ReconcileConverges ==
    [][cap.pc = "stamp" /\ cap.full /\ Stamp =>
          \A p \in Path : MountOf[p] \in table => Converged(p) \/ since[p].adrift]_vars

(* Work the branch has not seen stays on the list of the next scan, through*)
(* failing cycles, crashes and stamps that move while files change.        *)
WorkIsListed ==
    \A p \in Path : MountOf[p] \in granted /\ disk[p] # Absent /\ disk[p] \notin Held(p) => p \in newer
=============================================================================
