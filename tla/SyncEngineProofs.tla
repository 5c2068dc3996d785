--------------------------- MODULE SyncEngineProofs ---------------------------
(***************************************************************************)
(* What the sync engine promises, for any number of mounts, paths and      *)
(* contents, and with no bound on calls, edits and faults but the bounds   *)
(* of the model: proofs about SyncEngine.                                  *)
(***************************************************************************)
EXTENDS SyncEngine, TLAPS

USE DEF Closed

-----------------------------------------------------------------------------
(* Types.                                                                  *)

HostPc == {"down", "attach", "idle", "written", "settling", "staging", "exec", "own", "reconcile"}
CapPc == {"off", "settling", "staging", "scan", "mount", "restage", "fetch", "commit", "committed", "stamp"}
Stager == {"host", "job"}
Version == [op : {"import", "write", "capture"}, sha : Sha]
Entry == [sha : Sha, previous : Sha, unconfirmed : BOOLEAN, writeEpoch : Nat, dirty : BOOLEAN]
HostRecord == [pc : HostPc, left : SUBSET Mount, cold : BOOLEAN, path : Path \cup {Absent}, sha : Sha]
CapRecord == [pc : CapPc, full : BOOLEAN, left : SUBSET Mount, seen : [Path -> Sha], mount : Mount \cup {Absent},
              changed : SUBSET Path, deletes : SUBSET Path, bytes : [Path -> Sha]]
MirrorRecord == [n : Nat, path : Path, sha : Content, landed : BOOLEAN, alone : BOOLEAN]
StageRecord == [todo : SUBSET Path, read : [Path -> Sha]]
Fate == [edited : {"no", "unreported", "reported", "masked"}, lost : BOOLEAN, ran : BOOLEAN, unsure : BOOLEAN,
         adrift : BOOLEAN]

HistoryTypes == history \in [Path -> Seq(Version)] /\ \A p \in Path : Len(history[p]) > 0
TargetTypes ==
    /\ disk \in [Path -> Sha] /\ newer \subseteq Path /\ touched \subseteq Path /\ stamped \in BOOLEAN
    /\ granted \subseteq Mount /\ table \subseteq Mount /\ marked \subseteq Mount
IndexTypes ==
    /\ index \in [Path -> Entry] /\ resume \in [Mount -> Nat \cup {Closed}] /\ epoch \in Nat
    /\ \A p \in Path : index[p].writeEpoch <= epoch
    /\ \A m \in Mount : resume[m] <= epoch
CountTypes == writes \in Nat /\ edits \in Nat /\ faults \in Nat
MirrorTypes == mirrors \subseteq MirrorRecord
HostTypes == host \in HostRecord /\ (host.pc = "written" => host.path \in Path /\ host.sha \in Content)
CapTypes ==
    /\ cap \in CapRecord /\ stage \in [Stager -> StageRecord]
    /\ job \in Slot!Job /\ again \in BOOLEAN /\ (cap.pc = "off") = (job = "idle")
SinceTypes == since \in [Path -> Fate]

Types ==
    /\ HistoryTypes /\ TargetTypes /\ IndexTypes /\ CountTypes /\ MirrorTypes /\ HostTypes /\ CapTypes /\ SinceTypes

LEMMA TypesImplyTypeOK == Types => TypeOK
<1> SUFFICES ASSUME Types PROVE TypeOK
  OBVIOUS
<1>1. ASSUME NEW p \in Path
      PROVE  Len(history[p]) > 0 /\ \A i \in DOMAIN history[p] : history[p][i] \in Version
  <2>1. history[p] \in Seq(Version) /\ Len(history[p]) > 0
    BY DEF Types, HistoryTypes
  <2> QED
    BY <2>1
<1>2. /\ granted \subseteq Mount /\ table \subseteq Mount /\ marked \subseteq Mount
      /\ disk \in [Path -> Sha] /\ newer \subseteq Path /\ touched \subseteq Path /\ stamped \in BOOLEAN
  BY DEF Types, TargetTypes
<1>3. index \in [Path -> Entry] /\ resume \in [Mount -> Nat \cup {Closed}] /\ epoch \in Nat
  BY DEF Types, IndexTypes
<1>4. /\ writes \in Nat /\ edits \in Nat /\ faults \in Nat
      /\ \A w \in mirrors : w.path \in Path /\ w.sha \in Content /\ w.landed \in BOOLEAN /\ w.alone \in BOOLEAN
      /\ job \in Slot!Job /\ again \in BOOLEAN /\ (cap.pc = "off") = (job = "idle")
  BY DEF Types, CountTypes, MirrorTypes, MirrorRecord, CapTypes
<1> QED
  BY <1>1, <1>2, <1>3, <1>4 DEF TypeOK, Version, Entry

LEMMA PathMount == \A p \in Path : MountOf[p] \in Mount
  BY EngineAssumption

\* a history that grows
LEMMA Appended ==
  ASSUME NEW h \in Seq(Version), NEW e \in Version
  PROVE  /\ Append(h, e) \in Seq(Version) /\ Len(Append(h, e)) = Len(h) + 1 /\ Len(Append(h, e)) > 0
         /\ Last(Append(h, e)) = e
         /\ \A i \in 1 .. Len(h) : Append(h, e)[i] = h[i]
         /\ Append(h, e)[Len(h) + 1] = e
  BY DEF Last

LEMMA TipType ==
  ASSUME HistoryTypes, NEW p \in Path
  PROVE  Tip(p) \in Sha /\ Last(history[p]) \in Version /\ Tip(p) \in Held(p) \cup {Absent}
<1>1. history[p] \in Seq(Version) /\ Len(history[p]) > 0
  BY DEF HistoryTypes
<1>2. Len(history[p]) \in DOMAIN history[p] /\ Last(history[p]) = history[p][Len(history[p])]
  BY <1>1 DEF Last
<1>3. Last(history[p]) \in Version
  BY <1>1, <1>2
<1> QED
  BY <1>2, <1>3 DEF Tip, Held, Version

LEMMA PlainType ==
  ASSUME NEW sha \in Sha
  PROVE  /\ Plain(sha) \in Entry /\ Plain(sha).sha = sha /\ Plain(sha).previous = Absent
         /\ Plain(sha).unconfirmed = FALSE /\ Plain(sha).writeEpoch = 0 /\ Plain(sha).dirty = FALSE
  BY DEF Plain, Entry, Sha

LEMMA AwayType ==
  ASSUME NEW pc \in HostPc
  PROVE  /\ Away(pc) \in HostRecord /\ Away(pc).pc = pc /\ Away(pc).left = {} /\ Away(pc).cold = FALSE
         /\ Away(pc).path = Absent /\ Away(pc).sha = Absent
  BY DEF Away, HostRecord, Sha

LEMMA BeginType ==
  /\ NoCapture \in CapRecord /\ NoCapture.pc = "off" /\ NoCapture.changed = {} /\ NoCapture.deletes = {}
  /\ NoCapture.left = {} /\ NoCapture.full = FALSE
  /\ \A full \in BOOLEAN :
        /\ Begin(full) \in CapRecord /\ Begin(full).pc = "scan" /\ Begin(full).full = full
        /\ Begin(full).changed = {} /\ Begin(full).deletes = {} /\ Begin(full).left = {}
  BY DEF NoCapture, Begin, CapRecord, CapPc, Sha

LEMMA StageType ==
  /\ NoStage \in StageRecord /\ NoStage.todo = {} /\ \A p \in Path : NoStage.read[p] = Absent
  /\ \A S \in SUBSET Path :
        Staging(S) \in StageRecord /\ Staging(S).todo = S /\ \A p \in Path : Staging(S).read[p] = Absent
  BY DEF NoStage, Staging, StageRecord, Sha

LEMMA HistoryStays ==
  ASSUME Next, ~Commit, ~\E p \in Path, c \in Content : WriteCommits(p, c)
  PROVE  history' = history
<1> USE DEF durable
<1>1. Materialize => history' = history
  BY DEF Materialize, Attach, Attached, AttachWarm, HydrateTears, HydrateFiles, HydrateDone
<1>2. WriteReturns \/ Mirror \/ Restaging \/ Exec \/ CaptureAfterExec \/ Reconcile => history' = history
  BY DEF WriteReturns, Mirror, MirrorTears, MirrorLands, MirrorEnds, Restaging, StageRead, StageTears, StageWrites,
     Exec, ExecSettled, ExecStarts,
     ExecReturns, CaptureAfterExec, Reconcile, ReconcileEnters, ReconcileSettled, ReconcileScans
<1>3. Capture => history' = history
  BY DEF Capture, Scan, Restaged, Fetch, Committed, Classified, Stamp, Classify
<1>4. Calls \/ Target \/ Failing \/ Environment => history' = history
  BY DEF Calls, ExecCall, OwnCommand, ReconcileCall, Target, Edit, Failing, WriteReplyLost, ExecFails, CaptureFails,
     MirrorFails, Environment, Crash, Revoke
<1> QED
  BY <1>1, <1>2, <1>3, <1>4 DEF Next, Engine

LEMMA HistoryKeeps ==
  ASSUME Types, Next
  PROVE  HistoryTypes'
<1>1. ASSUME NEW p \in Path, NEW c \in Content, WriteCommits(p, c) PROVE HistoryTypes'
  <2> DEFINE e == [op |-> "write", sha |-> c]
  <2>1. e \in Version /\ history[p] \in Seq(Version)
    BY DEF Version, Sha, Types, HistoryTypes
  <2>2. history' = history \/ history' = [history EXCEPT ![p] = Append(@, e)]
    BY <1>1 DEF WriteCommits
  <2> HIDE DEF e
  <2>3. Append(history[p], e) \in Seq(Version) /\ Len(Append(history[p], e)) > 0
    BY <2>1, Appended
  <2>4. history \in [Path -> Seq(Version)] /\ \A q \in Path : Len(history[q]) > 0
    BY DEF Types, HistoryTypes
  <2> QED
    BY <2>2, <2>3, <2>4 DEF HistoryTypes
<1>2. CASE Commit
  <2> DEFINE e(p) == [op |-> "capture", sha |-> cap.bytes[p]]
  <2>1. \A p \in Path : e(p) \in Version /\ history[p] \in Seq(Version)
    BY DEF Version, Types, HistoryTypes, CapTypes, CapRecord
  <2>2. history' = [p \in Path |-> IF p \in Differs THEN Append(history[p], e(p)) ELSE history[p]]
    BY <1>2 DEF Commit
  <2> HIDE DEF e
  <2>3. ASSUME NEW p \in Path PROVE history'[p] \in Seq(Version) /\ Len(history'[p]) > 0
    <3>1. history[p] \in Seq(Version) /\ Len(history[p]) > 0
      BY DEF Types, HistoryTypes
    <3> QED
      BY <2>1, <2>2, <3>1, Appended
  <2> QED
    BY <2>2, <2>3 DEF HistoryTypes
<1> QED
  BY <1>1, <1>2, HistoryStays DEF Types, HistoryTypes

LEMMA ChangeTypes ==
  ASSUME TargetTypes, NEW new, Change(new), DOMAIN new \subseteq Path, \A p \in DOMAIN new : new[p] \in Sha
  PROVE  /\ disk' \in [Path -> Sha] /\ newer' \subseteq Path /\ touched' \subseteq Path
         /\ UNCHANGED <<stamped, marked>>
  BY DEF TargetTypes, Change

\* what is written over the mirror
LEMMA StageChanges ==
  ASSUME Types, NEW w \in Stager, StageWrites(w)
  PROVE  /\ Change([p \in Chunk(w) |-> stage[w].read[p]])
         /\ Chunk(w) # {} /\ Chunk(w) \subseteq Path /\ Chunk(w) \subseteq stage[w].todo
         /\ \A p \in Chunk(w) : stage[w].read[p] \in Sha \ {Absent}
         /\ stage[w].todo \subseteq Path
<1>1. Chunk(w) = {p \in stage[w].todo : stage[w].read[p] # Absent}
  BY DEF Chunk
<1>2. stage[w].todo \subseteq Path /\ \A p \in Path : stage[w].read[p] \in Sha
  BY DEF Types, CapTypes, StageRecord
<1>3. Chunk(w) # {} /\ Change([p \in Chunk(w) |-> stage[w].read[p]])
  BY DEF StageWrites
<1> QED
  BY <1>1, <1>2, <1>3

\* a file in the middle of being written
LEMMA HydrateTurns ==
  ASSUME Types, NEW m \in Mount, HydrateTears(m)
  PROVE  \E p \in Path, c \in Sha :
            MountOf[p] = m /\ Tip(p) # Absent /\ c \in {Torn, Tip(p)} /\ Change([q \in {p} |-> c])
<1>1. PICK p \in Files(m) : \E c \in {Torn, Tip(p)} : Tip(p) # Absent /\ Change([q \in {p} |-> c])
  BY DEF HydrateTears
<1>2. p \in Path /\ MountOf[p] = m
  BY DEF Files
<1>3. Tip(p) \in Sha /\ Torn \in Sha
  BY <1>2, TipType DEF Types, Sha
<1> QED
  BY <1>1, <1>2, <1>3

LEMMA MirrorTurns ==
  ASSUME Types, NEW w \in mirrors, MirrorTears(w) \/ MirrorLands(w)
  PROVE  \E c \in Sha :
            /\ c \in {Torn, w.sha} /\ (c = w.sha => MirrorLands(w)) /\ w.path \in Path
            /\ (MirrorLands(w) /\ w.alone => c = w.sha) /\ Change([q \in {w.path} |-> c])
<1>1. /\ w.path \in Path /\ w.sha \in Content /\ w.sha \in Sha /\ Torn \in Sha /\ w.sha # Torn
      /\ w.alone \in BOOLEAN
  BY EngineAssumption DEF Types, MirrorTypes, MirrorRecord, Sha
<1>2. CASE MirrorTears(w)
  <2>1. Change([q \in {w.path} |-> Torn]) /\ mirrors' = mirrors /\ ~w.landed
    BY <1>2 DEF MirrorTears
  <2>2. ~MirrorLands(w)
    <3>1. SUFFICES ASSUME MirrorLands(w) PROVE FALSE
      OBVIOUS
    <3>2. mirrors' = (mirrors \ {w}) \cup {[w EXCEPT !.landed = TRUE]}
      BY <3>1 DEF MirrorLands
    <3>3. w = [w EXCEPT !.landed = TRUE]
      BY <2>1, <3>2
    <3>4. w \in MirrorRecord
      BY DEF Types, MirrorTypes
    <3> QED
      BY <2>1, <3>3, <3>4 DEF MirrorRecord
  <2> QED
    BY <1>1, <2>1, <2>2
<1>3. CASE MirrorLands(w)
  <2>1. PICK c \in {w.sha, Torn} : (c = Torn => ~w.alone) /\ Change([p \in {w.path} |-> c])
    BY <1>3 DEF MirrorLands
  <2> QED
    BY <1>1, <1>3, <2>1
<1> QED
  BY <1>2, <1>3

LEMMA StageTurns ==
  ASSUME Types, NEW w \in Stager, StageTears(w)
  PROVE  \E p \in Chunk(w) : \E c \in Sha :
            /\ p \in Path /\ p \in stage[w].todo /\ stage[w].read[p] \in Sha \ {Absent}
            /\ c \in {Torn, stage[w].read[p]} /\ Change([q \in {p} |-> c])
            /\ since' = [since EXCEPT ![p].adrift = since[p].adrift \/ stage[w].read[p] # Tip(p)]
<1>1. PICK p \in Chunk(w) : \E c \in {Torn, stage[w].read[p]} :
        /\ Change([q \in {p} |-> c])
        /\ since' = [since EXCEPT ![p].adrift = since[p].adrift \/ stage[w].read[p] # Tip(p)]
  BY DEF StageTears
<1>2. stage[w].todo \subseteq Path /\ \A q \in Path : stage[w].read[q] \in Sha
  BY DEF Types, CapTypes, StageRecord
<1>3. p \in stage[w].todo /\ stage[w].read[p] # Absent
  BY <1>1 DEF Chunk
<1>4. Torn \in Sha
  BY DEF Sha
<1>5. PICK c \in {Torn, stage[w].read[p]} :
        /\ Change([q \in {p} |-> c])
        /\ since' = [since EXCEPT ![p].adrift = since[p].adrift \/ stage[w].read[p] # Tip(p)]
  BY <1>1
<1>6. p \in Path /\ stage[w].read[p] \in Sha \ {Absent} /\ c \in Sha
  BY <1>2, <1>3, <1>4
<1> QED
  BY <1>3, <1>5, <1>6

LEMMA TargetKeeps ==
  ASSUME Types, Next
  PROVE  TargetTypes'
<1> USE DEF durable, target, TargetTypes
<1>0. TargetTypes /\ Content \subseteq Sha /\ \A p \in Path : Tip(p) \in Sha
  BY TipType DEF Types, Sha
<1>u. ASSUME UNCHANGED <<granted, disk, newer, touched, stamped, marked, table>> PROVE TargetTypes'
  BY <1>0, <1>u
<1>1. CASE Materialize
  <2>1. ASSUME NEW m \in Mount, HydrateFiles(m) PROVE TargetTypes'
    <3>1. Change([p \in {q \in Files(m) : Tip(q) # Absent} |-> Tip(p)]) /\ UNCHANGED <<granted, table>>
      BY <2>1 DEF HydrateTears, HydrateFiles
    <3> QED
      BY <1>0, <3>1, ChangeTypes DEF Files
  <2>4. ASSUME NEW m \in Mount, HydrateTears(m) PROVE TargetTypes'
    <3>1. UNCHANGED <<granted, table>>
      BY <2>4 DEF HydrateTears
    <3>2. PICK p \in Path, c \in Sha : Change([q \in {p} |-> c])
      BY <2>4, HydrateTurns
    <3> QED
      BY <1>0, <3>1, <3>2, ChangeTypes
  <2>2. ASSUME NEW m \in Mount, HydrateDone(m) \/ AttachWarm(m) PROVE TargetTypes'
    BY <1>0, <2>2 DEF HydrateDone, AttachWarm
  <2>3. CASE Attach \/ Attached
    BY <1>0, <2>3 DEF Attach, Attached, Types, HostTypes, HostRecord
  <2> QED
    BY <1>1, <2>1, <2>2, <2>3, <2>4 DEF Materialize
<1>2. ASSUME NEW w \in mirrors, MirrorTears(w) \/ MirrorLands(w) PROVE TargetTypes'
  <2>1. PICK c \in Sha : Change([q \in {w.path} |-> c]) /\ w.path \in Path
    BY <1>2, MirrorTurns
  <2>2. UNCHANGED <<granted, table>>
    BY <1>2 DEF MirrorTears, MirrorLands
  <2> QED
    BY <1>0, <2>1, <2>2, ChangeTypes
<1>12. ASSUME NEW w \in Stager, StageTears(w) PROVE TargetTypes'
  <2>1. UNCHANGED <<granted, table>>
    BY <1>12 DEF StageTears
  <2>2. PICK p \in Path, c \in Sha : Change([q \in {p} |-> c])
    BY <1>12, StageTurns
  <2> QED
    BY <1>0, <2>1, <2>2, ChangeTypes
<1>3. ASSUME NEW w \in Stager, StageWrites(w) PROVE TargetTypes'
  <2>1. UNCHANGED <<granted, table>>
    BY <1>3 DEF StageWrites
  <2> QED
    BY <1>0, <1>3, <2>1, ChangeTypes, StageChanges
<1>4. ASSUME NEW p \in Path, NEW c \in Content \cup {Absent}, Edit(p, c) PROVE TargetTypes'
  <2>1. Change([q \in {p} |-> c]) /\ UNCHANGED <<granted, table>> /\ c \in Sha
    BY <1>4 DEF Edit, Sha
  <2> QED
    BY <1>0, <2>1, ChangeTypes
<1>5. CASE Crash
  BY <1>0, <1>5 DEF Crash
<1>6. CASE ReconcileScans \/ ExecReturns \/ CaptureAfterExec
  BY <1>0, <1>6 DEF ReconcileScans, ExecReturns, CaptureAfterExec, TriggerSlot, StartCapture
<1>7. CASE Stamp \/ CaptureFails
  BY <1>0, <1>7 DEF Stamp, CaptureFails, FollowUp, StartCapture
<1>8. ASSUME NEW m \in Mount, Revoke(m) PROVE TargetTypes'
  BY <1>0, <1>8 DEF Revoke
<1>9. CASE \/ WriteReturns \/ (\E w \in mirrors : MirrorEnds(w) \/ MirrorFails(w)) \/ (\E w \in Stager : StageRead(w))
           \/ ExecSettled \/ ExecStarts \/ ReconcileEnters \/ ReconcileSettled \/ Calls \/ WriteReplyLost \/ ExecFails
  BY <1>u, <1>9 DEF WriteReturns, MirrorEnds, MirrorFails, StageRead, ExecSettled, ExecStarts, ReconcileEnters,
     ReconcileSettled, Calls, WriteCommits, ExecCall, OwnCommand, ReconcileCall, WriteReplyLost, ExecFails
<1>10. CASE Capture /\ ~Stamp
  BY <1>u, <1>10 DEF Capture, Scan, Restaged, Fetch, Commit, Committed, Classified, Classify
<1> QED
  BY <1>1, <1>2, <1>3, <1>4, <1>5, <1>6, <1>7, <1>8, <1>9, <1>10, <1>12
     DEF Next, Engine, Mirror, Restaging, Stager, Exec, Reconcile, Target, Failing, Environment

\* a step that closes the window of the writes before it
LEMMA NoteExecTypes ==
  ASSUME IndexTypes, NoteExec, resume' = resume
  PROVE  /\ IndexTypes' /\ epoch' = epoch + 1
         /\ \A p \in Path : /\ index'[p].sha = index[p].sha /\ index'[p].previous = index[p].previous
                            /\ index'[p].unconfirmed = index[p].unconfirmed
                            /\ index'[p].writeEpoch = IF Pending(p) /\ index[p].unconfirmed THEN epoch + 1
                                                      ELSE index[p].writeEpoch
                            /\ index'[p].dirty = index[p].dirty
<1>1. epoch' = epoch + 1 /\ epoch \in Nat /\ index \in [Path -> Entry]
  BY DEF IndexTypes, NoteExec
<1>2. index' = [p \in Path |-> IF Pending(p) /\ index[p].unconfirmed
                               THEN [index[p] EXCEPT !.writeEpoch = epoch + 1] ELSE index[p]]
  BY DEF NoteExec
<1>3. ASSUME NEW p \in Path
      PROVE  /\ index'[p] \in Entry /\ index'[p].writeEpoch <= epoch + 1
             /\ index'[p].sha = index[p].sha /\ index'[p].previous = index[p].previous
             /\ index'[p].unconfirmed = index[p].unconfirmed
             /\ index'[p].writeEpoch = IF Pending(p) /\ index[p].unconfirmed THEN epoch + 1 ELSE index[p].writeEpoch
             /\ index'[p].dirty = index[p].dirty
  <2>1. index[p] \in Entry /\ index[p].writeEpoch <= epoch
    BY DEF IndexTypes
  <2>2. CASE Pending(p) /\ index[p].unconfirmed
    <3>1. index'[p] = [index[p] EXCEPT !.writeEpoch = epoch + 1]
      BY <1>2, <2>2
    <3>2. epoch + 1 \in Nat /\ epoch + 1 <= epoch + 1
      BY <1>1
    <3>3. /\ index'[p] \in Entry /\ index'[p].sha = index[p].sha /\ index'[p].previous = index[p].previous
          /\ index'[p].writeEpoch = epoch + 1 /\ index'[p].dirty = index[p].dirty
      BY <2>1, <3>1, <3>2 DEF Entry
    <3>4. index'[p].unconfirmed = index[p].unconfirmed
      BY <2>1, <3>1, Zenon DEF Entry
    <3> QED
      BY <2>2, <3>2, <3>3, <3>4
  <2>3. CASE ~(Pending(p) /\ index[p].unconfirmed)
    <3>1. index'[p] = index[p]
      BY <1>2, <2>3
    <3> QED
      BY <1>1, <2>1, <2>3, <3>1 DEF Entry
  <2> QED
    BY <2>2, <2>3
<1>4. index' \in [Path -> Entry]
  BY <1>2, <1>3
<1>5. \A m \in Mount : resume'[m] <= epoch + 1
  BY <1>1 DEF IndexTypes
<1> QED
  BY <1>1, <1>3, <1>4, <1>5 DEF IndexTypes

\* entries that are written anew
LEMMA EntryTypes ==
  ASSUME IndexTypes, epoch' = epoch, resume' = resume, DOMAIN index' = Path,
         index' = [p \in Path |-> index'[p]],
         \A p \in Path : \/ index'[p] = index[p]
                         \/ index'[p] \in Entry /\ index'[p].writeEpoch \in {0, index[p].writeEpoch, epoch}
  PROVE  IndexTypes'
<1>1. ASSUME NEW p \in Path PROVE index'[p] \in Entry /\ index'[p].writeEpoch <= epoch
  BY DEF IndexTypes, Entry
<1>2. index' \in [Path -> Entry]
  BY <1>1
<1> QED
  BY <1>1, <1>2 DEF IndexTypes

LEMMA SeedTypes ==
  ASSUME HistoryTypes, IndexTypes, NEW m \in Mount, Seed(m), epoch' = epoch,
         resume' = resume \/ resume' = [resume EXCEPT ![m] = epoch]
  PROVE  IndexTypes'
<1>1. index' = [p \in Path |-> IF MountOf[p] = m THEN Plain(Tip(p)) ELSE index[p]]
  BY DEF Seed
<1>2. \A p \in Path : Plain(Tip(p)) \in Entry /\ Plain(Tip(p)).writeEpoch = 0
  BY TipType, PlainType
<1>3. index' \in [Path -> Entry] /\ \A p \in Path : index'[p].writeEpoch <= epoch
  BY <1>1, <1>2 DEF IndexTypes
<1>4. resume' \in [Mount -> Nat \cup {Closed}] /\ \A n \in Mount : resume'[n] <= epoch
  BY DEF IndexTypes
<1> QED
  BY <1>3, <1>4 DEF IndexTypes

LEMMA IndexKeeps ==
  ASSUME Types, Next
  PROVE  IndexTypes'
<1>0. IndexTypes /\ HistoryTypes /\ Absent \in Sha
  BY DEF Types, Sha
<1>u. ASSUME UNCHANGED <<index, resume, epoch>> PROVE IndexTypes'
  BY <1>0, <1>u DEF IndexTypes
<1>1. ASSUME NEW m \in Mount, AttachWarm(m) \/ HydrateDone(m) PROVE IndexTypes'
  <2>1. Seed(m) /\ epoch' = epoch /\ (resume' = resume \/ resume' = [resume EXCEPT ![m] = epoch])
    BY <1>1 DEF AttachWarm, HydrateDone
  <2> QED
    BY <1>0, <2>1, SeedTypes
<1>2. CASE WriteReturns
  <2> DEFINE q == host.path
             e == [Plain(host.sha) EXCEPT !.previous = Confirmed(q), !.unconfirmed = TRUE, !.writeEpoch = epoch]
  <2>1. index' = [index EXCEPT ![q] = e] /\ epoch' = epoch /\ resume' = resume /\ q \in Path /\ host.sha \in Sha
    BY <1>2 DEF WriteReturns, Types, HostTypes, Sha
  <2>2. Confirmed(q) \in Sha /\ epoch \in Nat
    BY <1>0, <2>1 DEF Confirmed, IndexTypes, Entry
  <2>3. e \in Entry /\ e.writeEpoch = epoch
    BY <2>1, <2>2, PlainType DEF Entry
  <2> HIDE DEF q, e
  <2> QED
    BY <1>0, <2>1, <2>3, EntryTypes DEF IndexTypes
<1>3. ASSUME NEW w \in mirrors, MirrorFails(w) PROVE IndexTypes'
  <2>1. /\ index' = [index EXCEPT ![w.path].dirty = index[w.path].sha # Absent] /\ epoch' = epoch /\ resume' = resume
        /\ w.path \in Path
    BY <1>3 DEF MirrorFails, Types, MirrorTypes, MirrorRecord
  <2>2. index'[w.path] \in Entry /\ index'[w.path].writeEpoch = index[w.path].writeEpoch
    BY <1>0, <2>1 DEF IndexTypes, Entry
  <2> QED
    BY <1>0, <2>1, <2>2, EntryTypes DEF IndexTypes
<1>4. ASSUME NEW w \in Stager, StageWrites(w) PROVE IndexTypes'
  <2>1. /\ index' = [p \in Path |-> IF p \in Chunk(w) THEN Plain(stage[w].read[p]) ELSE index[p]]
        /\ epoch' = epoch /\ resume' = resume
    BY <1>4 DEF StageWrites
  <2>2. \A p \in Chunk(w) : Plain(stage[w].read[p]) \in Entry /\ Plain(stage[w].read[p]).writeEpoch = 0
    BY <1>4, StageChanges, PlainType DEF Sha
  <2> QED
    BY <1>0, <2>1, <2>2, EntryTypes
<1>5. CASE ExecStarts \/ CaptureAfterExec
  BY <1>0, <1>5, NoteExecTypes DEF ExecStarts, CaptureAfterExec
<1>6. ASSUME NEW m \in Mount, Classify(m) PROVE IndexTypes'
  <2> DEFINE e(p) == [Plain(index[p].sha) EXCEPT !.dirty = index[p].dirty]
  <2>1. /\ index' = [p \in Path |-> IF MountOf[p] = m /\ Confirms(p) THEN e(p) ELSE index[p]]
        /\ epoch' = epoch /\ resume' = resume
    BY <1>6 DEF Classify
  <2>2. ASSUME NEW p \in Path PROVE e(p) \in Entry /\ e(p).writeEpoch = 0
    <3>1. index[p].sha \in Sha /\ index[p].dirty \in BOOLEAN
      BY <1>0 DEF IndexTypes, Entry
    <3>2. Plain(index[p].sha) \in Entry /\ Plain(index[p].sha).writeEpoch = 0
      BY <3>1, PlainType
    <3> QED
      BY <3>1, <3>2 DEF Entry
  <2> HIDE DEF e
  <2> QED
    BY <1>0, <2>1, <2>2, EntryTypes
<1>7. CASE Committed
  <2>1. /\ index' = [p \in Path |-> IF p \in cap.changed \cup cap.deletes THEN Plain(cap.bytes[p]) ELSE index[p]]
        /\ epoch' = epoch /\ resume' = resume
    BY <1>7 DEF Committed
  <2>2. \A p \in Path : Plain(cap.bytes[p]) \in Entry /\ Plain(cap.bytes[p]).writeEpoch = 0
    BY PlainType DEF Types, CapTypes, CapRecord
  <2> QED
    BY <1>0, <2>1, <2>2, EntryTypes
<1>8. CASE Classified
  BY <1>0, <1>8 DEF Classified, IndexTypes
<1>9. CASE Crash
  <2>1. /\ index' = [p \in Path |-> Plain(Absent)] /\ resume' = [m \in Mount |-> Closed] /\ epoch' = epoch
    BY <1>9 DEF Crash
  <2>2. Plain(Absent) \in Entry /\ Plain(Absent).writeEpoch = 0
    BY <1>0, PlainType
  <2> QED
    BY <1>0, <2>1, <2>2 DEF IndexTypes
<1>10. CASE Attach \/ Attached \/ (\E m \in Mount : HydrateTears(m) \/ HydrateFiles(m)) \/ Mirror \/ (\E w \in Stager : StageRead(w) \/ StageTears(w))
            \/ ExecSettled \/ ExecReturns \/ Reconcile \/ Calls \/ Target \/ WriteReplyLost \/ ExecFails
  BY <1>u, <1>10 DEF Attach, Attached, HydrateTears, HydrateFiles, Mirror, MirrorTears, MirrorLands, MirrorEnds,
     StageRead, StageTears, ExecSettled, ExecReturns,
     Reconcile, ReconcileEnters, ReconcileSettled, ReconcileScans, Calls, WriteCommits, ExecCall, OwnCommand, ReconcileCall,
     Target, Edit, WriteReplyLost, ExecFails
<1>11. CASE Scan \/ Restaged \/ Fetch \/ Commit \/ Stamp \/ CaptureFails \/ (\E m \in Mount : Revoke(m))
  BY <1>u, <1>11 DEF Scan, Restaged, Fetch, Commit, Stamp, CaptureFails, Revoke
<1> QED
  BY <1>1, <1>2, <1>3, <1>4, <1>5, <1>6, <1>7, <1>8, <1>9, <1>10, <1>11
     DEF Next, Engine, Materialize, Restaging, Stager, Exec, Capture, Failing, Environment

\* the writes on the wire when one more sets out
LEMMA LaunchSteps ==
  ASSUME Types, WriteReturns
  PROVE  /\ mirrors' \subseteq MirrorRecord
         /\ \A v \in mirrors' :
               \/ \E w \in mirrors : /\ v.path = w.path /\ v.sha = w.sha /\ v.landed = w.landed
                                     /\ v.alone => w.alone /\ w.path # host.path
               \/ /\ v.path = host.path /\ v.sha = host.sha /\ v.landed = FALSE
                  /\ v.alone => ~Pending(host.path)
         /\ \A w \in mirrors : \E v \in mirrors' : v.path = w.path
         /\ \E v \in mirrors' : v.path = host.path
<1> DEFINE still(w) == w.alone /\ w.path # host.path
           old(w) == [w EXCEPT !.alone = still(w)]
           new == [n |-> writes, path |-> host.path, sha |-> host.sha, landed |-> FALSE, alone |-> ~Pending(host.path)]
<1>1. mirrors' = {old(w) : w \in mirrors} \cup {new}
  BY DEF WriteReturns
<1>2. ASSUME NEW w \in mirrors
      PROVE  /\ old(w) \in MirrorRecord
             /\ old(w).path = w.path /\ old(w).sha = w.sha /\ old(w).landed = w.landed
             /\ old(w).alone => w.alone /\ w.path # host.path
  <2>1. w \in MirrorRecord /\ still(w) \in BOOLEAN
    BY DEF Types, MirrorTypes, MirrorRecord
  <2> HIDE DEF still
  <2>2. /\ old(w) \in MirrorRecord
        /\ old(w).path = w.path /\ old(w).sha = w.sha /\ old(w).landed = w.landed
    BY <2>1 DEF MirrorRecord
  <2>3. old(w).alone = still(w)
    BY <2>1 DEF MirrorRecord
  <2> QED
    BY <2>2, <2>3 DEF still
<1>3. new.path = host.path /\ new.sha = host.sha /\ new.landed = FALSE /\ new.alone = ~Pending(host.path)
  OBVIOUS
<1>4. new \in MirrorRecord
  <2>1. host.path \in Path /\ host.sha \in Content /\ writes \in Nat /\ Pending(host.path) \in BOOLEAN
    BY DEF WriteReturns, Types, HostTypes, CountTypes, Pending
  <2> QED
    BY <2>1 DEF MirrorRecord
<1> HIDE DEF old, new
<1>5. ASSUME NEW v \in mirrors'
      PROVE  /\ v \in MirrorRecord
             /\ \/ \E w \in mirrors : /\ v.path = w.path /\ v.sha = w.sha /\ v.landed = w.landed
                                      /\ v.alone => w.alone /\ w.path # host.path
                \/ /\ v.path = host.path /\ v.sha = host.sha /\ v.landed = FALSE
                   /\ v.alone => ~Pending(host.path)
  <2>1. CASE v = new
    BY <1>3, <1>4, <2>1
  <2>2. CASE v # new
    <3>1. PICK w \in mirrors : v = old(w)
      BY <1>1, <2>2
    <3> QED
      BY <1>2, <3>1
  <2> QED
    BY <2>1, <2>2
<1>6. ASSUME NEW w \in mirrors PROVE \E v \in mirrors' : v.path = w.path
  BY <1>1, <1>2
<1> QED
  BY <1>1, <1>3, <1>5, <1>6

LEMMA MirrorKeeps ==
  ASSUME Types, Next
  PROVE  MirrorTypes'
<1>0. MirrorTypes
  BY DEF Types
<1>u. ASSUME mirrors' \subseteq mirrors PROVE MirrorTypes'
  BY <1>0, <1>u DEF MirrorTypes, MirrorRecord
<1>1. CASE WriteReturns
  BY <1>1, LaunchSteps DEF MirrorTypes
<1>2. ASSUME NEW w \in mirrors, MirrorLands(w) PROVE MirrorTypes'
  <2>1. mirrors' = (mirrors \ {w}) \cup {[w EXCEPT !.landed = TRUE]}
    BY <1>2 DEF MirrorLands
  <2>2. [w EXCEPT !.landed = TRUE] \in MirrorRecord
    BY <1>0 DEF MirrorTypes, MirrorRecord
  <2> QED
    BY <1>0, <2>1, <2>2 DEF MirrorTypes
<1>3. CASE Crash \/ \E w \in mirrors : MirrorEnds(w) \/ MirrorFails(w) \/ MirrorTears(w)
  BY <1>u, <1>3 DEF Crash, MirrorEnds, MirrorFails, MirrorTears
<1>4. CASE Materialize \/ Restaging \/ Exec \/ CaptureAfterExec \/ Reconcile \/ Capture
  BY <1>u, <1>4 DEF Materialize, Attach, Attached, AttachWarm, HydrateTears, HydrateFiles, HydrateDone, Restaging,
     StageRead, StageTears, StageWrites,
     Exec, ExecSettled, ExecStarts, ExecReturns, CaptureAfterExec, Reconcile, ReconcileEnters, ReconcileSettled,
     ReconcileScans, Capture, Scan, Restaged, Fetch, Commit, Committed, Classified, Stamp, Classify
<1>5. CASE Calls \/ Target \/ WriteReplyLost \/ ExecFails \/ CaptureFails \/ \E m \in Mount : Revoke(m)
  BY <1>u, <1>5 DEF Calls, WriteCommits, ExecCall, OwnCommand, ReconcileCall, Target, Edit, WriteReplyLost, ExecFails,
     CaptureFails, Revoke
<1> QED
  BY <1>1, <1>2, <1>3, <1>4, <1>5 DEF Next, Engine, Mirror, Failing, Environment

LEMMA CountKeeps ==
  ASSUME Types, Next
  PROVE  CountTypes'
<1>0. CountTypes
  BY DEF Types
<1> USE DEF CountTypes
<1>1. CASE Engine
  BY <1>0, <1>1 DEF Engine, Mirror, MirrorTears, MirrorLands, MirrorEnds, WriteReturns, Materialize, Attach, Attached, AttachWarm,
     HydrateTears, HydrateFiles, HydrateDone, Restaging, StageRead, StageTears, StageWrites,
     Exec, ExecSettled, ExecStarts, ExecReturns, CaptureAfterExec, Reconcile, ReconcileEnters, ReconcileSettled,
     ReconcileScans, Capture, Scan, Restaged, Fetch, Commit, Committed, Classified, Stamp, Classify
<1>2. ASSUME NEW p \in Path, NEW c \in Content, WriteCommits(p, c) PROVE CountTypes'
  BY <1>0, <1>2 DEF WriteCommits
<1>3. CASE ExecCall \/ OwnCommand \/ ReconcileCall
  BY <1>0, <1>3 DEF ExecCall, OwnCommand, ReconcileCall
<1>4. ASSUME NEW p \in Path, NEW c \in Content \cup {Absent}, Edit(p, c) PROVE CountTypes'
  BY <1>0, <1>4 DEF Edit
<1>5. CASE Environment \/ Failing
  <2>1. UNCHANGED <<writes, edits>> /\ (faults' = faults \/ faults' = faults + 1)
    BY <1>5 DEF Environment, Crash, Revoke, Fault, Failing, WriteReplyLost, ExecFails, CaptureFails, MirrorFails
  <2> QED
    BY <1>0, <2>1
<1> QED
  BY <1>1, <1>2, <1>3, <1>4, <1>5 DEF Next, Calls, Target

LEMMA HostKeeps ==
  ASSUME Types, Next
  PROVE  HostTypes'
<1>0. HostTypes
  BY DEF Types
<1>u. ASSUME host' = host PROVE HostTypes'
  BY <1>0, <1>u DEF HostTypes
<1>i. ASSUME NEW pc \in HostPc \ {"written"}, host' = Away(pc) PROVE HostTypes'
  BY <1>i, AwayType DEF HostTypes
<1>1. CASE Attach
  <2>1. host' = [Away("attach") EXCEPT !.left = Mount]
    BY <1>1 DEF Attach
  <2>2. Away("attach") \in HostRecord /\ Away("attach").pc = "attach"
    BY AwayType DEF HostPc
  <2> QED
    BY <2>1, <2>2 DEF HostTypes, HostRecord
<1>2. ASSUME NEW m \in Mount, AttachWarm(m) \/ HydrateDone(m) PROVE HostTypes'
  <2>1. \/ host' = [host EXCEPT !.left = @ \ {m}]
        \/ host' = [host EXCEPT !.left = @ \ {m}, !.cold = TRUE]
    BY <1>2 DEF AttachWarm, HydrateDone
  <2>2. host.pc = "attach" /\ host \in HostRecord /\ host.left \ {m} \subseteq Mount
    BY <1>0, <1>2 DEF AttachWarm, HydrateDone, HostTypes, HostRecord
  <2>3. host' \in HostRecord
    BY <2>1, <2>2 DEF HostRecord
  <2>4. host'.pc = "attach"
    BY <2>1, <2>2 DEF HostRecord
  <2> QED
    BY <2>3, <2>4 DEF HostTypes
<1>3. ASSUME NEW p \in Path, NEW c \in Content, WriteCommits(p, c) PROVE HostTypes'
  <2>1. host' = [Away("written") EXCEPT !.path = p, !.sha = c]
    BY <1>3 DEF WriteCommits
  <2>2. Away("written") \in HostRecord
    BY AwayType DEF HostPc
  <2> QED
    BY <2>1, <2>2 DEF HostTypes, HostRecord, Sha
<1>4. CASE Attached \/ WriteReturns \/ WriteReplyLost \/ ExecCall \/ ExecSettled \/ ExecStarts \/ ExecFails \/ ExecReturns
           \/ OwnCommand \/ CaptureAfterExec \/ ReconcileCall \/ Crash
  <2>1. \E pc \in HostPc \ {"written"} : host' = Away(pc)
    BY <1>4 DEF Attached, WriteReturns, WriteReplyLost, ExecCall, ExecSettled, ExecStarts, ExecFails, ExecReturns,
           OwnCommand, CaptureAfterExec, ReconcileCall, Crash, HostPc
  <2> QED
    BY <1>i, <2>1
<1>5. CASE Stamp \/ CaptureFails
  <2>1. host' = host \/ host' = Away("idle")
    BY <1>5 DEF Stamp, CaptureFails, JobEnds
  <2> QED
    BY <1>i, <1>u, <2>1 DEF HostPc
<1>6. CASE (\E m \in Mount : HydrateTears(m) \/ HydrateFiles(m)) \/ Mirror \/ Restaging \/ Reconcile \/ (Capture /\ ~Stamp)
  BY <1>u, <1>6 DEF HydrateTears, HydrateFiles, Mirror, MirrorTears, MirrorLands, MirrorEnds, Restaging, StageRead,
     StageTears, StageWrites, Reconcile,
     ReconcileEnters, ReconcileSettled, ReconcileScans, Capture, Scan, Restaged, Fetch, Commit, Committed, Classified, Classify
<1>7. CASE Target \/ (\E w \in mirrors : MirrorFails(w)) \/ (\E m \in Mount : Revoke(m))
  BY <1>u, <1>7 DEF Target, Edit, MirrorFails, Revoke
<1> QED
  BY <1>1, <1>2, <1>3, <1>4, <1>5, <1>6, <1>7 DEF Next, Engine, Materialize, Exec, Calls, Failing, Environment

\* a job that starts or ends
LEMMA TriggerTypes ==
  ASSUME CapTypes, TriggerSlot, stage' = stage
  PROVE  /\ CapTypes'
         /\ \/ cap' = cap /\ job' = job /\ job # "idle"
            \/ cap' = Begin(FALSE) /\ job = "idle" /\ job' = "capture"
<1>1. Begin(FALSE) \in CapRecord /\ Begin(FALSE).pc = "scan"
  BY BeginType
<1>2. \/ cap' = cap /\ job' = job /\ job # "idle" /\ again' = TRUE
      \/ cap' = Begin(FALSE) /\ job = "idle" /\ job' = "capture" /\ again' = again
  BY DEF TriggerSlot, StartCapture, Slot!Trigger
<1>3. again' \in BOOLEAN
  BY <1>2 DEF CapTypes
<1>4. cap' \in CapRecord /\ job' \in Slot!Job /\ (cap'.pc = "off") = (job' = "idle")
  BY <1>1, <1>2 DEF CapTypes, Slot!Job
<1> QED
  BY <1>2, <1>3, <1>4 DEF CapTypes

LEMMA EndTypes ==
  ASSUME CapTypes, JobEnds, FollowUp
  PROVE  /\ CapTypes' /\ stage' = [stage EXCEPT !["job"] = NoStage] /\ job # "idle"
         /\ \/ cap' = NoCapture /\ job' = "idle" /\ ~again
            \/ cap' = Begin(FALSE) /\ job' = "capture" /\ again
<1>1. /\ Begin(FALSE) \in CapRecord /\ Begin(FALSE).pc = "scan" /\ NoCapture \in CapRecord /\ NoCapture.pc = "off"
      /\ NoStage \in StageRecord
  BY BeginType, StageType
<1>2. /\ stage' = [stage EXCEPT !["job"] = NoStage] /\ job # "idle"
      /\ \/ again /\ job' = "capture" /\ again' = FALSE
         \/ ~again /\ job' = "idle" /\ again' = again
  BY DEF JobEnds, Slot!CaptureEnds, Slot!WorkEnds, Slot!HandOver
<1>3. \/ again /\ cap' = Begin(FALSE)
      \/ ~again /\ cap' = NoCapture
  BY DEF FollowUp, StartCapture
<1>4. stage' \in [Stager -> StageRecord]
  BY <1>1, <1>2 DEF CapTypes
<1> QED
  BY <1>1, <1>2, <1>3, <1>4 DEF CapTypes, Slot!Job

LEMMA StagingTypes ==
  ASSUME CapTypes, NEW w \in Stager, NEW S \in SUBSET Path, stage' = [stage EXCEPT ![w] = Staging(S)]
  PROVE  stage' \in [Stager -> StageRecord] /\ stage'[w].todo = S
  BY StageType DEF CapTypes

LEMMA CapKeeps ==
  ASSUME Types, Next
  PROVE  CapTypes'
<1>0. CapTypes
  BY DEF Types
<1>u. ASSUME UNCHANGED <<cap, stage, job, again>> PROVE CapTypes'
  BY <1>0, <1>u DEF CapTypes
<1>c. ASSUME UNCHANGED <<job, again>>, stage' \in [Stager -> StageRecord], cap' \in CapRecord,
             (cap'.pc = "off") = (cap.pc = "off")
      PROVE  CapTypes'
  BY <1>0, <1>c DEF CapTypes
<1>1. ASSUME NEW w \in Stager, StageRead(w) PROVE CapTypes'
  <2>1. PICK p \in stage[w].todo : Tip(p) # Absent /\ stage' = [stage EXCEPT ![w].read[p] = Tip(p)]
    BY <1>1 DEF StageRead
  <2>2. stage[w] \in StageRecord /\ p \in Path
    BY <1>0 DEF CapTypes, StageRecord
  <2>3. Tip(p) \in Sha
    BY <2>2, TipType DEF Types
  <2>4. [stage[w] EXCEPT !.read[p] = Tip(p)] \in StageRecord
    BY <2>2, <2>3 DEF StageRecord
  <2>5. stage' = [stage EXCEPT ![w] = [stage[w] EXCEPT !.read[p] = Tip(p)]]
    BY <1>0, <2>1 DEF CapTypes
  <2>6. stage' \in [Stager -> StageRecord]
    BY <1>0, <2>4, <2>5 DEF CapTypes
  <2> QED
    BY <1>0, <1>1, <1>c, <2>6 DEF StageRead, slot, CapTypes
<1>2. ASSUME NEW w \in Stager, StageWrites(w) PROVE CapTypes'
  <2>1. stage' = [stage EXCEPT ![w] = Staging(stage[w].todo \ Chunk(w))] /\ UNCHANGED <<cap, slot>>
    BY <1>2 DEF StageWrites, Chunk
  <2>2. stage[w].todo \ Chunk(w) \subseteq Path
    BY <1>2, StageChanges
  <2> QED
    BY <1>0, <1>c, <2>1, <2>2, StagingTypes DEF slot, CapTypes
<1>3. CASE ExecSettled
  <2>1. stage' = [stage EXCEPT !["host"] = Staging(Dirty)] /\ UNCHANGED <<cap, slot>> /\ Dirty \in SUBSET Path
    BY <1>3 DEF ExecSettled, Dirty
  <2> QED
    BY <1>0, <1>c, <2>1, StagingTypes DEF slot, CapTypes, Stager
<1>4. CASE ExecFails
  <2>1. stage' = [stage EXCEPT !["host"] = NoStage] /\ UNCHANGED <<cap, slot>>
    BY <1>4 DEF ExecFails
  <2> QED
    BY <1>0, <1>c, <2>1, StageType DEF slot, CapTypes
<1>5. CASE ExecReturns \/ CaptureAfterExec
  BY <1>0, <1>5, TriggerTypes DEF ExecReturns, CaptureAfterExec
<1>6. CASE Stamp \/ CaptureFails
  BY <1>0, <1>6, EndTypes DEF Stamp, CaptureFails
<1>7. CASE ReconcileEnters
  <2>1. cap' = [NoCapture EXCEPT !.pc = "settling"] /\ stage' = stage /\ Slot!Enter
    BY <1>7 DEF ReconcileEnters
  <2>2. cap' \in CapRecord /\ cap'.pc = "settling"
    BY <2>1, BeginType DEF CapRecord, CapPc
  <2> QED
    BY <1>0, <2>1, <2>2 DEF CapTypes, Slot!Enter, Slot!Job
<1>8. CASE ReconcileSettled
  <2>1. /\ stage' = [stage EXCEPT !["job"] = Staging(Dirty)] /\ UNCHANGED slot /\ Dirty \in SUBSET Path
        /\ cap' = [cap EXCEPT !.pc = "staging"] /\ cap.pc = "settling"
    BY <1>8 DEF ReconcileSettled, Dirty
  <2>2. cap' \in CapRecord /\ cap'.pc = "staging"
    BY <1>0, <2>1 DEF CapTypes, CapRecord, CapPc
  <2> QED
    BY <1>0, <1>c, <2>1, <2>2, StagingTypes DEF slot, Stager
<1>9. CASE ReconcileScans
  <2>1. cap' = Begin(TRUE) /\ UNCHANGED <<slot, stage>> /\ cap.pc = "staging"
    BY <1>9 DEF ReconcileScans, StartCapture
  <2>2. Begin(TRUE) \in CapRecord /\ Begin(TRUE).pc = "scan"
    BY BeginType
  <2> QED
    BY <1>0, <1>c, <2>1, <2>2 DEF slot, CapTypes
<1>10. CASE Scan
  <2>1. cap' = [cap EXCEPT !.pc = "mount", !.left = Mount, !.seen = Found] /\ UNCHANGED <<slot, stage>> /\ cap.pc = "scan"
    BY <1>10 DEF Scan
  <2>2. Found \in [Path -> Sha]
    BY DEF Found, Types, TargetTypes, Sha
  <2>3. cap' \in CapRecord /\ cap'.pc = "mount"
    BY <1>0, <2>1, <2>2 DEF CapTypes, CapRecord, CapPc
  <2> QED
    BY <1>0, <1>c, <2>1, <2>3 DEF slot, CapTypes
<1>11. ASSUME NEW m \in Mount, Classify(m) PROVE CapTypes'
  <2>1. PICK R, C, D \in SUBSET Path :
          /\ stage' = [stage EXCEPT !["job"] = Staging(R)] /\ UNCHANGED slot /\ cap.pc = "mount"
          /\ cap' = [cap EXCEPT !.pc = "restage", !.mount = m, !.left = @ \ {m}, !.changed = C, !.deletes = D]
    <3> DEFINE R == {p \in Files(m) : m \in table /\ Restage(p)}
               C == {p \in Files(m) : m \in table /\ Changed(p)}
               D == {p \in Files(m) : m \in table /\ Deleted(p)}
    <3>1. /\ stage' = [stage EXCEPT !["job"] = Staging(R)] /\ UNCHANGED slot /\ cap.pc = "mount"
          /\ cap' = [cap EXCEPT !.pc = "restage", !.mount = m, !.left = @ \ {m}, !.changed = C, !.deletes = D]
      BY <1>11 DEF Classify
    <3>2. R \in SUBSET Path /\ C \in SUBSET Path /\ D \in SUBSET Path
      BY DEF Files
    <3> HIDE DEF R, C, D
    <3> QED
      BY <3>1, <3>2
  <2>2. cap' \in CapRecord /\ cap'.pc = "restage"
    BY <1>0, <2>1 DEF CapTypes, CapRecord, CapPc
  <2> QED
    BY <1>0, <1>c, <2>1, <2>2, StagingTypes DEF slot, Stager
<1>12. CASE Restaged \/ Fetch \/ Commit \/ Committed \/ Classified
  <2>1. /\ UNCHANGED <<job, again, stage>> /\ stage \in [Stager -> StageRecord] /\ cap \in CapRecord
        /\ cap.pc # "off"
    BY <1>0, <1>12 DEF Restaged, Fetch, Commit, Committed, Classified, slot, CapTypes
  <2>2. CASE Restaged
    <3>1. cap' = [cap EXCEPT !.pc = "mount"] \/ cap' = [cap EXCEPT !.pc = "fetch"]
      BY <2>2 DEF Restaged
    <3>2. cap' \in CapRecord /\ cap'.pc # "off"
      BY <2>1, <3>1 DEF CapRecord, CapPc
    <3> QED
      BY <1>c, <2>1, <3>2
  <2>3. CASE Fetch
    <3>1. cap' = [cap EXCEPT !.pc = "commit", !.bytes = ReadFiles(cap.changed)]
      BY <2>3 DEF Fetch
    <3>2. ReadFiles(cap.changed) \in [Path -> Sha]
      BY DEF ReadFiles, Types, TargetTypes, Sha
    <3>3. cap' \in CapRecord /\ cap'.pc # "off"
      BY <2>1, <3>1, <3>2 DEF CapRecord, CapPc
    <3> QED
      BY <1>c, <2>1, <3>3
  <2>4. CASE Commit
    <3>1. cap' = [cap EXCEPT !.pc = "committed", !.changed = Differs \ cap.deletes]
      BY <2>4 DEF Commit
    <3>2. Differs \ cap.deletes \in SUBSET Path
      BY <2>1 DEF Differs, CapRecord
    <3>3. cap' \in CapRecord /\ cap'.pc # "off"
      BY <2>1, <3>1, <3>2 DEF CapRecord, CapPc
    <3> QED
      BY <1>c, <2>1, <3>3
  <2>5. CASE Committed
    <3>1. cap' = [cap EXCEPT !.pc = "mount", !.changed = {}, !.deletes = {}, !.bytes = NoCapture.bytes]
      BY <2>5 DEF Committed
    <3>2. NoCapture.bytes \in [Path -> Sha]
      BY BeginType DEF CapRecord
    <3>3. cap' \in CapRecord /\ cap'.pc # "off"
      BY <2>1, <3>1, <3>2 DEF CapRecord, CapPc
    <3> QED
      BY <1>c, <2>1, <3>3
  <2>6. CASE Classified
    <3>1. cap' = [Begin(cap.full) EXCEPT !.pc = "stamp"]
      BY <2>6 DEF Classified
    <3>2. Begin(cap.full) \in CapRecord
      BY <2>1, BeginType DEF CapRecord
    <3>3. cap' \in CapRecord /\ cap'.pc # "off"
      BY <3>1, <3>2 DEF CapRecord, CapPc
    <3> QED
      BY <1>c, <2>1, <3>3
  <2> QED
    BY <1>12, <2>2, <2>3, <2>4, <2>5, <2>6
<1>13. CASE Crash
  <2>1. cap' = NoCapture /\ stage' = [w \in Stager |-> NoStage] /\ job' = "idle" /\ again' = FALSE
    BY <1>13 DEF Crash, Stager
  <2> QED
    BY <2>1, BeginType, StageType DEF CapTypes, Slot!Job
<1>14. CASE \/ Materialize \/ WriteReturns \/ Mirror \/ (\E w \in Stager : StageTears(w)) \/ ExecStarts
            \/ Calls \/ Target
  BY <1>u, <1>14 DEF StageTears, Materialize, Attach, Attached, AttachWarm, HydrateTears, HydrateFiles, HydrateDone,
     WriteReturns, Mirror, MirrorTears, MirrorLands,
     MirrorEnds, ExecStarts, Calls, WriteCommits, ExecCall, OwnCommand, ReconcileCall, Target, Edit, slot
<1>15. CASE WriteReplyLost \/ (\E w \in mirrors : MirrorFails(w)) \/ (\E m \in Mount : Revoke(m))
  BY <1>u, <1>15 DEF WriteReplyLost, MirrorFails, Revoke, slot
<1> QED
  BY <1>1, <1>2, <1>3, <1>4, <1>5, <1>6, <1>7, <1>8, <1>9, <1>10, <1>11, <1>12, <1>13, <1>14, <1>15
     DEF Next, Engine, Restaging, Stager, Exec, Reconcile, Capture, Failing, Environment

LEMMA SinceKeeps ==
  ASSUME Types, Next
  PROVE  SinceTypes'
<1>0. SinceTypes
  BY DEF Types
<1>u. ASSUME since' = since PROVE SinceTypes'
  BY <1>0, <1>u DEF SinceTypes
<1>1. ASSUME NEW p \in Path, NEW c \in Content, WriteCommits(p, c) PROVE SinceTypes'
  <2>1. since' = [since EXCEPT ![p] = AtWrite(p)]
    BY <1>1 DEF WriteCommits
  <2>2. AtWrite(p) \in Fate
    <3> DEFINE behind == disk[p] # Tip(p)
               a == IF behind /\ since[p].edited # "no" THEN "unreported" ELSE "no"
               l == behind /\ since[p].lost
               u == \/ index[p].unconfirmed \/ (behind /\ resume[MountOf[p]] # Closed)
                    \/ since[p].unsure /\ index[p].sha # disk[p]
               d == job # "idle" \/ Pending(p) \/ (since[p].adrift /\ index[p].sha # disk[p])
    <3>1. AtWrite(p) = [edited |-> a, lost |-> l, ran |-> FALSE, unsure |-> u, adrift |-> d]
      BY DEF AtWrite
    <3>2. a \in {"no", "unreported"}
      OBVIOUS
    <3>3. since[p].lost \in BOOLEAN /\ since[p].adrift \in BOOLEAN /\ since[p].unsure \in BOOLEAN
      BY <1>0 DEF SinceTypes, Fate
    <3>4. index[p].unconfirmed \in BOOLEAN
      BY DEF Types, IndexTypes, Entry
    <3>5. l \in BOOLEAN
      BY <3>3, Zenon
    <3>6. u \in BOOLEAN
      BY <3>3, <3>4, Zenon
    <3>7. d \in BOOLEAN
      BY <3>3, Zenon DEF Pending
    <3> HIDE DEF a, l, u, d
    <3> QED
      BY <3>1, <3>2, <3>5, <3>6, <3>7 DEF Fate
  <2> QED
    BY <1>0, <2>1, <2>2 DEF SinceTypes
<1>2. CASE WriteReplyLost
  <2>1. since' = [since EXCEPT ![host.path].adrift = TRUE] /\ host.path \in Path
    BY <1>2 DEF WriteReplyLost, Types, HostTypes
  <2>2. [since[host.path] EXCEPT !.adrift = TRUE] \in Fate
    BY <1>0, <2>1 DEF SinceTypes, Fate
  <2> QED
    BY <1>0, <2>1, <2>2 DEF SinceTypes
<1>3. ASSUME NEW w \in mirrors, MirrorFails(w) PROVE SinceTypes'
  <2>1. since' = [since EXCEPT ![w.path] = Lost(w.path)] /\ w.path \in Path
    BY <1>3 DEF MirrorFails, Types, MirrorTypes, MirrorRecord
  <2>2. Lost(w.path) \in Fate
    BY <1>0, <2>1 DEF SinceTypes, Fate, Lost
  <2> QED
    BY <1>0, <2>1, <2>2 DEF SinceTypes
<1>4. ASSUME NEW w \in Stager, StageWrites(w) PROVE SinceTypes'
  <2> DEFINE l(p) == since[p].lost /\ ~(p \in Chunk(w) /\ stage[w].read[p] = Tip(p) /\ (w = "job" \/ job = "idle"))
             d(p) == since[p].adrift \/ (p \in Chunk(w) /\ stage[w].read[p] # Tip(p))
  <2>1. since' = [p \in Path |-> [since[p] EXCEPT !.lost = l(p), !.adrift = d(p)]]
    BY <1>4 DEF StageWrites
  <2>2. ASSUME NEW p \in Path PROVE l(p) \in BOOLEAN /\ d(p) \in BOOLEAN
    <3>1. since[p].lost \in BOOLEAN /\ since[p].adrift \in BOOLEAN
      BY <1>0 DEF SinceTypes, Fate
    <3> QED
      BY <3>1, Zenon
  <2> HIDE DEF l, d
  <2>3. \A p \in Path : [since[p] EXCEPT !.lost = l(p), !.adrift = d(p)] \in Fate
    BY <1>0, <2>2 DEF SinceTypes, Fate
  <2> QED
    BY <2>1, <2>3 DEF SinceTypes
<1>5. CASE ExecStarts \/ CaptureAfterExec
  <2> DEFINE e(p) == IF since[p].edited # "unreported" THEN since[p].edited
                     ELSE IF Pending(p) \/ job # "idle" THEN "masked" ELSE "reported"
  <2>1. since' = [p \in Path |-> [since[p] EXCEPT !.ran = TRUE, !.edited = e(p)]]
    BY <1>5 DEF ExecStarts, CaptureAfterExec, NoteExec
  <2>2. \A p \in Path : e(p) \in {"no", "unreported", "masked", "reported"}
    BY <1>0 DEF SinceTypes, Fate
  <2> HIDE DEF e
  <2>3. \A p \in Path : [since[p] EXCEPT !.ran = TRUE, !.edited = e(p)] \in Fate
    BY <1>0, <2>2 DEF SinceTypes, Fate
  <2> QED
    BY <2>1, <2>3 DEF SinceTypes
<1>6. ASSUME NEW p \in Path, NEW c \in Content \cup {Absent}, Edit(p, c) PROVE SinceTypes'
  <2> DEFINE e == IF host.pc = "exec" THEN "reported" ELSE "unreported"
  <2>1. since' = [since EXCEPT ![p].edited = e]
    BY <1>6 DEF Edit
  <2>2. e \in {"unreported", "reported"}
    OBVIOUS
  <2> HIDE DEF e
  <2>3. [since[p] EXCEPT !.edited = e] \in Fate
    BY <1>0, <2>2 DEF SinceTypes, Fate
  <2> QED
    BY <1>0, <2>1, <2>3 DEF SinceTypes
<1>7. CASE CaptureFails
  <2> DEFINE l(p) == since[p].lost \/ GivenUp("job", p)
             d(p) == since[p].adrift \/ (cap.pc = "committed" /\ p \in cap.changed \cup cap.deletes)
  <2>1. since' = [p \in Path |-> [since[p] EXCEPT !.lost = l(p), !.adrift = d(p)]]
    BY <1>7 DEF CaptureFails
  <2>2. ASSUME NEW p \in Path PROVE l(p) \in BOOLEAN /\ d(p) \in BOOLEAN
    <3>1. since[p].lost \in BOOLEAN /\ since[p].adrift \in BOOLEAN
      BY <1>0 DEF SinceTypes, Fate
    <3> QED
      BY <3>1, Zenon
  <2> HIDE DEF l, d
  <2>3. \A p \in Path : [since[p] EXCEPT !.lost = l(p), !.adrift = d(p)] \in Fate
    BY <1>0, <2>2 DEF SinceTypes, Fate
  <2> QED
    BY <2>1, <2>3 DEF SinceTypes
<1>12. CASE ExecFails
  <2> DEFINE l(p) == since[p].lost \/ GivenUp("host", p)
  <2>1. since' = [p \in Path |-> [since[p] EXCEPT !.lost = l(p)]]
    BY <1>12 DEF ExecFails
  <2>2. ASSUME NEW p \in Path PROVE l(p) \in BOOLEAN
    <3>1. since[p].lost \in BOOLEAN
      BY <1>0 DEF SinceTypes, Fate
    <3> QED
      BY <3>1, Zenon
  <2> HIDE DEF l
  <2>3. \A p \in Path : [since[p] EXCEPT !.lost = l(p)] \in Fate
    BY <1>0, <2>2 DEF SinceTypes, Fate
  <2> QED
    BY <2>1, <2>3 DEF SinceTypes
<1>13. ASSUME NEW w \in Stager, StageTears(w) PROVE SinceTypes'
  <2>1. PICK p \in Path : since' = [since EXCEPT ![p].adrift = since[p].adrift \/ stage[w].read[p] # Tip(p)]
    BY <1>13, StageTurns
  <2> DEFINE d == since[p].adrift \/ stage[w].read[p] # Tip(p)
  <2>2. d \in BOOLEAN
    <3>1. since[p].adrift \in BOOLEAN
      BY <1>0 DEF SinceTypes, Fate
    <3> QED
      BY <3>1, Zenon
  <2>3. since' = [since EXCEPT ![p].adrift = d]
    BY <2>1
  <2> HIDE DEF d
  <2>4. [since[p] EXCEPT !.adrift = d] \in Fate
    BY <1>0, <2>2 DEF SinceTypes, Fate
  <2> QED
    BY <1>0, <2>3, <2>4 DEF SinceTypes
<1>8. CASE Crash
  <2> DEFINE e(p) == IF since[p].edited = "no" THEN since[p].edited ELSE "unreported"
             l(p) == since[p].lost \/ disk[p] # Tip(p)
             r(p) == since[p].ran /\ disk[p] = Tip(p)
             u(p) == disk[p] = Absent /\ ~CreatedByNewestWrite(p)
  <2>1. since' = [p \in Path |-> [since[p] EXCEPT !.edited = e(p), !.lost = l(p), !.ran = r(p), !.adrift = FALSE,
                                                  !.unsure = u(p)]]
    BY <1>8 DEF Crash
  <2>2. ASSUME NEW p \in Path
        PROVE  /\ e(p) \in {"no", "unreported"} /\ l(p) \in BOOLEAN /\ r(p) \in BOOLEAN /\ u(p) \in BOOLEAN
    <3>1. since[p].lost \in BOOLEAN /\ since[p].ran \in BOOLEAN
      BY <1>0 DEF SinceTypes, Fate
    <3>2. l(p) \in BOOLEAN
      BY <3>1, Zenon
    <3>3. r(p) \in BOOLEAN
      BY <3>1, Zenon
    <3>4. u(p) \in BOOLEAN
      BY Zenon
    <3>5. e(p) \in {"no", "unreported"}
      OBVIOUS
    <3> QED
      BY <3>2, <3>3, <3>4, <3>5
  <2> HIDE DEF e, l, r, u
  <2>3. \A p \in Path : [since[p] EXCEPT !.edited = e(p), !.lost = l(p), !.ran = r(p), !.adrift = FALSE,
                                         !.unsure = u(p)] \in Fate
    BY <1>0, <2>2 DEF SinceTypes, Fate
  <2> QED
    BY <2>1, <2>3 DEF SinceTypes
<1>9. CASE Commit
  <2> DEFINE u(p) == since[p].unsure \/ (p \in Differs /\ Passing(p))
  <2>1. since' = [p \in Path |-> [since[p] EXCEPT !.unsure = u(p)]]
    BY <1>9 DEF Commit
  <2>2. ASSUME NEW p \in Path PROVE u(p) \in BOOLEAN
    <3>1. since[p].unsure \in BOOLEAN
      BY <1>0 DEF SinceTypes, Fate
    <3> QED
      BY <3>1, Zenon
  <2> HIDE DEF u
  <2>3. \A p \in Path : [since[p] EXCEPT !.unsure = u(p)] \in Fate
    BY <1>0, <2>2 DEF SinceTypes, Fate
  <2> QED
    BY <2>1, <2>3 DEF SinceTypes
<1>10. CASE ExecCall \/ OwnCommand \/ ReconcileCall \/ (\E m \in Mount : Revoke(m))
  BY <1>u, <1>10 DEF ExecCall, OwnCommand, ReconcileCall, Revoke
<1>11. CASE Materialize \/ WriteReturns \/ Mirror \/ (\E w \in Stager : StageRead(w)) \/ ExecSettled \/ ExecReturns \/ Reconcile
            \/ (Capture /\ ~Commit)
  BY <1>u, <1>11 DEF Materialize, Attach, Attached, AttachWarm, HydrateTears, HydrateFiles, HydrateDone,
     WriteReturns, Mirror, MirrorTears, MirrorLands,
     MirrorEnds, StageRead, StageTears, ExecSettled, ExecReturns, Reconcile, ReconcileEnters, ReconcileSettled,
     ReconcileScans, Capture,
     Scan, Restaged, Fetch, Committed, Classified, Stamp, Classify
<1> QED
  BY <1>1, <1>2, <1>3, <1>4, <1>5, <1>6, <1>7, <1>8, <1>9, <1>10, <1>11, <1>12, <1>13
     DEF Next, Engine, Restaging, Stager, Exec, Calls, Target, Failing, Environment

LEMMA InitTypes == Init => Types
<1> SUFFICES ASSUME Init PROVE Types
  OBVIOUS
<1>1. HistoryTypes
  <2> DEFINE e(p) == [op |-> "import", sha |-> Imported[p]]
  <2>1. \A p \in Path : e(p) \in Version
    BY EngineAssumption DEF Version, Sha
  <2>2. history = [p \in Path |-> <<e(p)>>]
    BY DEF Init
  <2> HIDE DEF e
  <2> QED
    BY <2>1, <2>2 DEF HistoryTypes
<1>2. TargetTypes
  BY DEF Init, TargetTypes, Sha
<1>3. IndexTypes
  <2>1. Plain(Absent) \in Entry /\ Plain(Absent).writeEpoch = 0
    BY PlainType DEF Sha
  <2> QED
    BY <2>1 DEF Init, IndexTypes
<1>4. CountTypes /\ MirrorTypes
  BY DEF Init, CountTypes, MirrorTypes, MirrorRecord
<1>5. HostTypes
  BY AwayType DEF Init, HostTypes, HostPc
<1>6. CapTypes
  BY BeginType, StageType DEF Init, CapTypes, Slot!Init, Slot!Job, Stager
<1>7. SinceTypes
  BY DEF Init, SinceTypes, Untroubled, Fate
<1> QED
  BY <1>1, <1>2, <1>3, <1>4, <1>5, <1>6, <1>7 DEF Types

LEMMA TypesStep == Types /\ [Next]_vars => Types'
<1> SUFFICES ASSUME Types, [Next]_vars PROVE Types'
  OBVIOUS
<1>1. CASE Next
  BY <1>1, HistoryKeeps, TargetKeeps, IndexKeeps, MirrorKeeps, CountKeeps, HostKeeps, CapKeeps, SinceKeeps DEF Types
<1>2. CASE UNCHANGED vars
  BY <1>2 DEF Types, vars, durable, target, slot, HistoryTypes, TargetTypes, IndexTypes, CountTypes, MirrorTypes,
     MirrorRecord, HostTypes,
     CapTypes, SinceTypes, Slot!Job
<1> QED
  BY <1>1, <1>2

(* Every call, failure and crash of the engine leaves each piece of its    *)
(* state what the code takes it for: histories that only hold versions,    *)
(* index entries that are whole, and a capture exactly while the slot is   *)
(* held.                                                                   *)
THEOREM EngineTypeCorrect == Spec => []TypeOK
<1>1. Spec => []Types
  BY InitTypes, TypesStep, PTL DEF Spec
<1> QED
  BY <1>1, TypesImplyTypeOK, PTL

-----------------------------------------------------------------------------
(* Control: who runs when.                                                 *)

Busy == {"restage", "fetch", "commit", "committed"}

Control ==
    /\ job = "exclusive" => host.pc = "reconcile"
    /\ cap.pc \in {"settling", "staging"} => job = "exclusive"
    /\ cap.full <=> (job = "exclusive" /\ cap.pc \notin {"settling", "staging"})
    /\ cap.full \/ cap.pc = "staging" => mirrors = {}
    /\ host.pc \in {"down", "attach"} => job = "idle" /\ mirrors = {}
    /\ host.pc \in {"staging", "exec"} => mirrors = {}
    /\ host.pc # "staging" => stage["host"].todo = {}
    /\ cap.pc \notin {"staging", "restage"} => stage["job"].todo = {}
    /\ host.pc # "down" => granted \subseteq table

CapShape ==
    /\ cap.pc \in Busy =>
          /\ cap.mount \in Mount \ cap.left
          /\ cap.changed \cup cap.deletes \subseteq Files(cap.mount) /\ cap.changed \cap cap.deletes = {}
    /\ cap.pc \notin Busy => cap.changed = {} /\ cap.deletes = {}
    /\ cap.pc = "stamp" => cap.left = {}
    /\ cap.pc = "commit" => \A p \in Path \ cap.changed : cap.bytes[p] = Absent

\* the steps that move the job or its capture
JobMoves ==
    \/ ExecReturns \/ CaptureAfterExec \/ ReconcileEnters \/ ReconcileSettled \/ ReconcileScans
    \/ Capture \/ CaptureFails \/ Crash

LEMMA JobStays ==
  ASSUME Next, ~JobMoves
  PROVE  UNCHANGED <<cap, job>>
<1>1. CASE Materialize \/ WriteReturns \/ Mirror \/ Restaging \/ ExecSettled \/ ExecStarts
  BY <1>1 DEF Materialize, Attach, Attached, AttachWarm, HydrateTears, HydrateFiles, HydrateDone, WriteReturns,
     Mirror, MirrorTears, MirrorLands,
     MirrorEnds, Restaging, StageRead, StageTears, StageWrites, ExecSettled, ExecStarts, slot
<1>2. CASE Calls \/ Target \/ WriteReplyLost \/ ExecFails \/ (\E w \in mirrors : MirrorFails(w)) \/ (\E m \in Mount : Revoke(m))
  BY <1>2 DEF Calls, WriteCommits, ExecCall, OwnCommand, ReconcileCall, Target, Edit, WriteReplyLost, ExecFails, MirrorFails,
     Revoke, slot
<1> QED
  BY <1>1, <1>2 DEF Next, Engine, Exec, Reconcile, Failing, Environment, JobMoves

\* the running capture, before and after each step of its cycle
LEMMA CapSteps ==
  ASSUME Types
  PROVE  /\ ReconcileEnters => /\ cap'.pc = "settling" /\ cap'.full = FALSE /\ cap'.changed = {} /\ cap'.deletes = {}
                               /\ job' = "exclusive" /\ host.pc = "reconcile" /\ job = "idle"
         /\ ReconcileSettled => /\ cap.pc = "settling" /\ cap'.pc = "staging" /\ cap'.full = cap.full /\ cap'.left = cap.left
                                /\ cap'.changed = cap.changed /\ cap'.deletes = cap.deletes /\ mirrors = {}
         /\ ReconcileScans => cap.pc = "staging" /\ cap' = Begin(TRUE)
         /\ Scan => /\ cap.pc = "scan" /\ cap'.pc = "mount" /\ cap'.left = Mount /\ cap'.seen = Found /\ cap'.full = cap.full
                    /\ cap'.changed = cap.changed /\ cap'.deletes = cap.deletes
         /\ \A m \in Mount : Classify(m) =>
                /\ cap.pc = "mount" /\ m \in cap.left /\ cap'.pc = "restage" /\ cap'.mount = m /\ cap'.left = cap.left \ {m}
                /\ cap'.changed = {p \in Files(m) : m \in table /\ Changed(p)}
                /\ cap'.deletes = {p \in Files(m) : m \in table /\ Deleted(p)}
                /\ cap'.full = cap.full /\ cap'.seen = cap.seen
         /\ Restaged => /\ cap.pc = "restage" /\ cap'.mount = cap.mount /\ cap'.left = cap.left /\ cap'.full = cap.full
                        /\ cap'.pc = IF cap.changed \cup cap.deletes = {} THEN "mount" ELSE "fetch"
                        /\ cap'.changed = cap.changed /\ cap'.deletes = cap.deletes /\ cap'.seen = cap.seen
         /\ Fetch => /\ cap.pc = "fetch" /\ cap'.pc = "commit" /\ cap'.bytes = ReadFiles(cap.changed) /\ cap'.mount = cap.mount
                     /\ cap'.left = cap.left /\ cap'.changed = cap.changed /\ cap'.deletes = cap.deletes
                     /\ cap'.full = cap.full /\ cap'.seen = cap.seen
         /\ Commit => /\ cap.pc = "commit" /\ cap'.pc = "committed" /\ cap'.changed = Differs \ cap.deletes
                      /\ cap'.deletes = cap.deletes /\ cap'.mount = cap.mount /\ cap'.left = cap.left
                      /\ cap'.full = cap.full /\ cap'.seen = cap.seen /\ cap'.bytes = cap.bytes
         /\ Committed => /\ cap.pc = "committed" /\ cap'.pc = "mount" /\ cap'.changed = {} /\ cap'.deletes = {}
                         /\ cap'.left = cap.left /\ cap'.full = cap.full /\ cap'.seen = cap.seen
         /\ Classified => /\ cap.pc = "mount" /\ cap.left = {} /\ cap'.pc = "stamp" /\ cap'.changed = {} /\ cap'.deletes = {}
                          /\ cap'.left = {} /\ cap'.full = cap.full
<1>0. cap \in CapRecord
  BY DEF Types, CapTypes
<1> USE DEF CapRecord
<1>1. ASSUME ReconcileEnters
      PROVE  /\ cap'.pc = "settling" /\ cap'.full = FALSE /\ cap'.changed = {} /\ cap'.deletes = {}
             /\ job' = "exclusive" /\ host.pc = "reconcile" /\ job = "idle"
  <2>1. cap' = [NoCapture EXCEPT !.pc = "settling"] /\ job' = "exclusive" /\ host.pc = "reconcile" /\ job = "idle"
    BY <1>1 DEF ReconcileEnters, Slot!Enter
  <2> QED
    BY <2>1, BeginType
<1>2. ASSUME NEW m \in Mount, Classify(m)
      PROVE  /\ cap.pc = "mount" /\ m \in cap.left /\ cap'.pc = "restage" /\ cap'.mount = m /\ cap'.left = cap.left \ {m}
             /\ cap'.changed = {p \in Files(m) : m \in table /\ Changed(p)}
             /\ cap'.deletes = {p \in Files(m) : m \in table /\ Deleted(p)}
             /\ cap'.full = cap.full /\ cap'.seen = cap.seen
  <2> DEFINE C == {p \in Files(m) : m \in table /\ Changed(p)}
             D == {p \in Files(m) : m \in table /\ Deleted(p)}
  <2>1. /\ cap' = [cap EXCEPT !.pc = "restage", !.mount = m, !.left = @ \ {m}, !.changed = C, !.deletes = D]
        /\ cap.pc = "mount" /\ m \in cap.left
    BY <1>2 DEF Classify
  <2> HIDE DEF C, D
  <2>2. /\ cap'.pc = "restage" /\ cap'.mount = m /\ cap'.left = cap.left \ {m} /\ cap'.changed = C /\ cap'.deletes = D
        /\ cap'.full = cap.full /\ cap'.seen = cap.seen
    BY <1>0, <2>1
  <2> QED
    BY <2>1, <2>2 DEF C, D
<1>3. ASSUME Classified
      PROVE  /\ cap.pc = "mount" /\ cap.left = {} /\ cap'.pc = "stamp" /\ cap'.changed = {} /\ cap'.deletes = {}
             /\ cap'.left = {} /\ cap'.full = cap.full
  <2>1. cap' = [Begin(cap.full) EXCEPT !.pc = "stamp"] /\ cap.full \in BOOLEAN /\ cap.pc = "mount" /\ cap.left = {}
    BY <1>0, <1>3 DEF Classified
  <2>2. /\ Begin(cap.full) \in CapRecord /\ Begin(cap.full).changed = {} /\ Begin(cap.full).deletes = {}
        /\ Begin(cap.full).left = {} /\ Begin(cap.full).full = cap.full
    BY <2>1, BeginType
  <2> QED
    BY <2>1, <2>2
<1>4. ReconcileSettled => /\ cap.pc = "settling" /\ cap'.pc = "staging" /\ cap'.full = cap.full /\ cap'.left = cap.left
                          /\ cap'.changed = cap.changed /\ cap'.deletes = cap.deletes /\ mirrors = {}
  BY <1>0 DEF ReconcileSettled
<1>5. ReconcileScans => cap.pc = "staging" /\ cap' = Begin(TRUE)
  BY DEF ReconcileScans, StartCapture
<1>6. Scan => /\ cap.pc = "scan" /\ cap'.pc = "mount" /\ cap'.left = Mount /\ cap'.seen = Found /\ cap'.full = cap.full
              /\ cap'.changed = cap.changed /\ cap'.deletes = cap.deletes
  BY <1>0 DEF Scan
<1>7. Restaged => /\ cap.pc = "restage" /\ cap'.mount = cap.mount /\ cap'.left = cap.left /\ cap'.full = cap.full
                  /\ cap'.pc = IF cap.changed \cup cap.deletes = {} THEN "mount" ELSE "fetch"
                  /\ cap'.changed = cap.changed /\ cap'.deletes = cap.deletes /\ cap'.seen = cap.seen
  BY <1>0 DEF Restaged
<1>8. Fetch => /\ cap.pc = "fetch" /\ cap'.pc = "commit" /\ cap'.bytes = ReadFiles(cap.changed) /\ cap'.mount = cap.mount
               /\ cap'.left = cap.left /\ cap'.changed = cap.changed /\ cap'.deletes = cap.deletes
               /\ cap'.full = cap.full /\ cap'.seen = cap.seen
  BY <1>0 DEF Fetch
<1>9. Commit => /\ cap.pc = "commit" /\ cap'.pc = "committed" /\ cap'.changed = Differs \ cap.deletes
                /\ cap'.deletes = cap.deletes /\ cap'.mount = cap.mount /\ cap'.left = cap.left
                /\ cap'.full = cap.full /\ cap'.seen = cap.seen /\ cap'.bytes = cap.bytes
  BY <1>0 DEF Commit
<1>10. Committed => /\ cap.pc = "committed" /\ cap'.pc = "mount" /\ cap'.changed = {} /\ cap'.deletes = {}
                    /\ cap'.left = cap.left /\ cap'.full = cap.full /\ cap'.seen = cap.seen
  BY <1>0 DEF Committed
<1> HIDE DEF CapRecord
<1> QED
  BY <1>1, <1>2, <1>3, <1>4, <1>5, <1>6, <1>7, <1>8, <1>9, <1>10

\* the other steps of a job end it or begin a capture
LEMMA CapTurns ==
  ASSUME Types, JobMoves, ~ReconcileEnters, ~ReconcileSettled, ~Capture \/ Stamp
  PROVE  \/ cap' = NoCapture
         \/ \E full \in BOOLEAN : cap' = Begin(full)
         \/ UNCHANGED <<cap, job>>
<1>1. CapTypes
  BY DEF Types
<1>2. CASE ExecReturns \/ CaptureAfterExec
  BY <1>1, <1>2, TriggerTypes DEF ExecReturns, CaptureAfterExec
<1>3. CASE Stamp \/ CaptureFails
  BY <1>1, <1>3, EndTypes DEF Stamp, CaptureFails
<1>4. CASE ReconcileScans \/ Crash
  BY <1>4 DEF ReconcileScans, StartCapture, Crash
<1> QED
  BY <1>2, <1>3, <1>4 DEF JobMoves

LEMMA CapShapeKeeps ==
  ASSUME Types, CapShape, Next
  PROVE  CapShape'
<1> USE DEF Busy
<1>n. ASSUME cap'.pc \notin Busy \cup {"stamp"}, cap'.changed = {}, cap'.deletes = {} PROVE CapShape'
  BY <1>n DEF CapShape
<1>1. CASE ~JobMoves
  BY <1>1, JobStays DEF CapShape
<1>2. CASE JobMoves /\ ~ReconcileEnters /\ ~ReconcileSettled /\ (~Capture \/ Stamp)
  BY <1>2, <1>n, CapTurns, BeginType DEF CapShape
<1>3. CASE ReconcileEnters \/ ReconcileSettled \/ Scan \/ Committed
  BY <1>3, <1>n, CapSteps DEF CapShape
<1>4. ASSUME NEW m \in Mount, Classify(m) PROVE CapShape'
  <2> DEFINE C == {p \in Files(m) : m \in table /\ Changed(p)}
             D == {p \in Files(m) : m \in table /\ Deleted(p)}
  <2>1. /\ cap'.pc = "restage" /\ cap'.mount = m /\ cap'.left = cap.left \ {m} /\ cap'.changed = C /\ cap'.deletes = D
    BY <1>4, CapSteps
  <2>2. C \subseteq Files(m) /\ D \subseteq Files(m) /\ C \cap D = {}
    BY DEF Changed, Deleted
  <2> HIDE DEF C, D
  <2> QED
    BY <2>1, <2>2 DEF CapShape, Files
<1>5. CASE Restaged
  BY <1>5, CapSteps DEF CapShape, Files
<1>6. CASE Fetch
  <2>1. \A p \in Path \ cap.changed : ReadFiles(cap.changed)[p] = Absent
    BY DEF ReadFiles
  <2> QED
    BY <1>6, <2>1, CapSteps DEF CapShape, Files
<1>7. CASE Commit
  <2>1. Differs \subseteq cap.changed \cup cap.deletes
    BY DEF Differs
  <2> QED
    BY <1>7, <2>1, CapSteps DEF CapShape, Files
<1>8. CASE Classified
  BY <1>8, CapSteps DEF CapShape
<1> QED
  BY <1>1, <1>2, <1>3, <1>4, <1>5, <1>6, <1>7, <1>8 DEF Capture

\* the host's call, before and after each step that moves it
LEMMA HostSteps ==
  ASSUME Types
  PROVE  /\ Attach => host.pc = "down" /\ host'.pc = "attach" /\ host'.left = Mount
         /\ \A m \in Mount : AttachWarm(m) \/ HydrateDone(m) =>
                host.pc = "attach" /\ host'.pc = "attach" /\ host'.left = host.left \ {m}
         /\ Attached => host.pc = "attach" /\ host'.pc = "idle" /\ host.left = {}
         /\ \A p \in Path, c \in Content : WriteCommits(p, c) =>
                host.pc = "idle" /\ host'.pc = "written" /\ host'.path = p /\ host'.sha = c
         /\ WriteReturns \/ WriteReplyLost => host.pc = "written" /\ host'.pc = "idle"
         /\ ExecCall => host.pc = "idle" /\ host'.pc = "settling"
         /\ ExecSettled => host.pc = "settling" /\ host'.pc = "staging" /\ mirrors = {}
         /\ ExecStarts => host.pc = "staging" /\ host'.pc = "exec" /\ stage["host"].todo = {}
         /\ ExecFails => host.pc \in {"staging", "exec"} /\ host'.pc = "idle"
         /\ ExecReturns => host.pc = "exec" /\ host'.pc = "idle"
         /\ OwnCommand => host.pc = "idle" /\ host'.pc = "own"
         /\ CaptureAfterExec => host.pc = "own" /\ host'.pc = "idle"
         /\ ReconcileCall => host.pc = "idle" /\ host'.pc = "reconcile"
         /\ JobEnds => host'.pc = IF job = "exclusive" THEN "idle" ELSE host.pc
         /\ Crash => host.pc # "down" /\ host'.pc = "down"
<1>0. host \in HostRecord
  BY DEF Types, HostTypes
<1>a. \A pc \in HostPc : Away(pc).pc = pc
  BY AwayType
<1>1. Attach => host.pc = "down" /\ host'.pc = "attach" /\ host'.left = Mount
  <2>1. Away("attach") \in HostRecord /\ Away("attach").pc = "attach"
    BY AwayType DEF HostPc
  <2> QED
    BY <2>1 DEF Attach, HostRecord
<1>2. ASSUME NEW m \in Mount, AttachWarm(m) \/ HydrateDone(m)
      PROVE  host.pc = "attach" /\ host'.pc = "attach" /\ host'.left = host.left \ {m}
  <2>1. host.pc = "attach" /\ (host' = [host EXCEPT !.left = @ \ {m}] \/ host' = [host EXCEPT !.left = @ \ {m}, !.cold = TRUE])
    BY <1>2 DEF AttachWarm, HydrateDone
  <2> QED
    BY <1>0, <2>1 DEF HostRecord
<1>3. ASSUME NEW p \in Path, NEW c \in Content, WriteCommits(p, c)
      PROVE  host.pc = "idle" /\ host'.pc = "written" /\ host'.path = p /\ host'.sha = c
  <2>1. Away("written") \in HostRecord /\ Away("written").pc = "written"
    BY AwayType DEF HostPc
  <2>2. host' = [Away("written") EXCEPT !.path = p, !.sha = c] /\ host.pc = "idle"
    BY <1>3 DEF WriteCommits
  <2> QED
    BY <2>1, <2>2 DEF HostRecord
<1>4. /\ Attached => host.pc = "attach" /\ host'.pc = "idle" /\ host.left = {}
      /\ WriteReturns \/ WriteReplyLost => host.pc = "written" /\ host'.pc = "idle"
      /\ ExecCall => host.pc = "idle" /\ host'.pc = "settling"
      /\ ExecSettled => host.pc = "settling" /\ host'.pc = "staging" /\ mirrors = {}
      /\ ExecStarts => host.pc = "staging" /\ host'.pc = "exec" /\ stage["host"].todo = {}
      /\ ExecFails => host.pc \in {"staging", "exec"} /\ host'.pc = "idle"
  BY <1>a DEF Attached, WriteReturns, WriteReplyLost, ExecCall, ExecSettled, ExecStarts, ExecFails, HostPc
<1>5. /\ ExecReturns => host.pc = "exec" /\ host'.pc = "idle"
      /\ OwnCommand => host.pc = "idle" /\ host'.pc = "own"
      /\ CaptureAfterExec => host.pc = "own" /\ host'.pc = "idle"
      /\ ReconcileCall => host.pc = "idle" /\ host'.pc = "reconcile"
      /\ Crash => host.pc # "down" /\ host'.pc = "down"
      /\ JobEnds => host'.pc = IF job = "exclusive" THEN "idle" ELSE host.pc
  BY <1>a DEF ExecReturns, OwnCommand, CaptureAfterExec, ReconcileCall, Crash, JobEnds, HostPc
<1> QED
  BY <1>1, <1>2, <1>3, <1>4, <1>5

\* what is staged, after each step that changes it
LEMMA StageSteps ==
  ASSUME Types
  PROVE  /\ \A w, v \in Stager : StageRead(w) => stage'[v].todo = stage[v].todo
         /\ \A w \in Stager : StageTears(w) => stage' = stage
         /\ \A w, v \in Stager : StageWrites(w) =>
                stage'[v].todo = IF v = w THEN stage[v].todo \ Chunk(w) ELSE stage[v].todo
         /\ ExecSettled => stage'["host"].todo = Dirty /\ stage'["job"] = stage["job"]
         /\ ExecFails => stage'["host"].todo = {} /\ stage'["job"] = stage["job"]
         /\ ReconcileSettled => stage'["job"].todo = Dirty /\ stage'["host"] = stage["host"]
         /\ \A m \in Mount : Classify(m) =>
                /\ stage'["job"].todo = {p \in Files(m) : m \in table /\ Restage(p)}
                /\ stage'["host"] = stage["host"]
         /\ JobEnds => stage'["job"].todo = {} /\ stage'["host"] = stage["host"]
         /\ Crash => stage'["job"].todo = {} /\ stage'["host"].todo = {}
<1>0. stage \in [Stager -> StageRecord] /\ "host" \in Stager /\ "job" \in Stager /\ "host" # "job"
  BY DEF Types, CapTypes, Stager
<1>1. ASSUME NEW w \in Stager, NEW v \in Stager, StageRead(w) PROVE stage'[v].todo = stage[v].todo
  <2>1. \E p, x : stage' = [stage EXCEPT ![w].read[p] = x]
    BY <1>1 DEF StageRead
  <2> QED
    BY <1>0, <2>1 DEF StageRecord
<1>2. ASSUME NEW w \in Stager, NEW v \in Stager, StageWrites(w)
      PROVE  stage'[v].todo = IF v = w THEN stage[v].todo \ Chunk(w) ELSE stage[v].todo
  <2>1. stage' = [stage EXCEPT ![w] = Staging(stage[w].todo \ Chunk(w))]
    BY <1>2 DEF StageWrites, Chunk
  <2>2. stage[w].todo \ Chunk(w) \in SUBSET Path
    BY <1>2, StageChanges
  <2> QED
    BY <1>0, <2>1, <2>2, StageType
<1>3. Dirty \in SUBSET Path
  BY DEF Dirty
<1>4. /\ ExecSettled => stage'["host"].todo = Dirty /\ stage'["job"] = stage["job"]
      /\ ExecFails => stage'["host"].todo = {} /\ stage'["job"] = stage["job"]
      /\ ReconcileSettled => stage'["job"].todo = Dirty /\ stage'["host"] = stage["host"]
      /\ JobEnds => stage'["job"].todo = {} /\ stage'["host"] = stage["host"]
  BY <1>0, <1>3, StageType DEF ExecSettled, ExecFails, ReconcileSettled, JobEnds
<1>5. ASSUME NEW m \in Mount, Classify(m)
      PROVE  stage'["job"].todo = {p \in Files(m) : m \in table /\ Restage(p)} /\ stage'["host"] = stage["host"]
  <2> DEFINE R == {p \in Files(m) : m \in table /\ Restage(p)}
  <2>1. stage' = [stage EXCEPT !["job"] = Staging(R)]
    BY <1>5 DEF Classify
  <2>2. R \in SUBSET Path
    BY DEF Files
  <2> HIDE DEF R
  <2>3. stage'["job"].todo = R /\ stage'["host"] = stage["host"]
    BY <1>0, <2>1, <2>2, StageType
  <2> QED
    BY <2>3 DEF R
<1>6. Crash => stage'["job"].todo = {} /\ stage'["host"].todo = {}
  BY <1>0, StageType DEF Crash, Stager
<1>7. \A w \in Stager : StageTears(w) => stage' = stage
  BY DEF StageTears
<1> QED
  BY <1>1, <1>2, <1>4, <1>5, <1>6, <1>7

LEMMA ControlKeeps ==
  ASSUME Types, Control, Next
  PROVE  Control'
<1>0. "host" \in Stager /\ "job" \in Stager /\ job \in Slot!Job
  BY DEF Stager, Types, CapTypes
<1>1. CASE Attach
  <2>1. UNCHANGED <<cap, job, mirrors, stage, granted>> /\ table' = granted
    BY <1>1 DEF Attach, slot, durable
  <2> QED
    BY <1>1, <2>1, HostSteps DEF Control
<1>2. CASE \/ Attached \/ (\E m \in Mount : AttachWarm(m) \/ HydrateDone(m)) \/ ExecCall \/ OwnCommand \/ ReconcileCall
           \/ (\E p \in Path, c \in Content : WriteCommits(p, c)) \/ WriteReplyLost
  <2>1. UNCHANGED <<cap, job, mirrors, stage, granted, table>>
    BY <1>2 DEF Attached, AttachWarm, HydrateDone, ExecCall, OwnCommand, ReconcileCall, WriteCommits, WriteReplyLost, slot,
       durable
  <2>2. /\ host.pc \in {"attach", "idle", "written"} /\ host'.pc \in {"attach", "idle", "settling", "own", "reconcile", "written"}
        /\ host'.pc = "attach" => host.pc = "attach"
    BY <1>2, HostSteps
  <2> QED
    BY <2>1, <2>2 DEF Control
<1>3. CASE WriteReturns
  <2>1. UNCHANGED <<cap, job, stage, granted, table>>
    BY <1>3 DEF WriteReturns, slot, durable
  <2> QED
    BY <1>3, <2>1, HostSteps DEF Control
<1>4. CASE Mirror \/ (\E w \in mirrors : MirrorFails(w))
  <2>1. UNCHANGED <<cap, job, stage, granted, table, host>> /\ mirrors # {}
    BY <1>4 DEF Mirror, MirrorTears, MirrorLands, MirrorEnds, MirrorFails, slot, durable
  <2> QED
    BY <2>1 DEF Control
<1>5. CASE Restaging
  <2>1. UNCHANGED <<cap, job, granted, table, host, mirrors>>
    BY <1>5 DEF Restaging, StageRead, StageTears, StageWrites, slot, durable
  <2>2. stage'["host"].todo \subseteq stage["host"].todo /\ stage'["job"].todo \subseteq stage["job"].todo
    BY <1>0, <1>5, StageSteps DEF Restaging, Stager
  <2> QED
    BY <2>1, <2>2 DEF Control
<1>6. CASE ExecSettled \/ ExecStarts \/ ExecFails
  <2>1. UNCHANGED <<cap, job, mirrors, granted, table>> /\ (ExecStarts => stage' = stage)
    BY <1>6 DEF ExecSettled, ExecStarts, ExecFails, slot, durable
  <2> QED
    BY <1>6, <2>1, HostSteps, StageSteps DEF Control
<1>7. CASE ExecReturns \/ CaptureAfterExec
  <2>1. UNCHANGED <<mirrors, stage, granted, table>>
    BY <1>7 DEF ExecReturns, CaptureAfterExec, durable
  <2>2. \/ cap' = cap /\ job' = job /\ job # "idle"
        \/ cap' = Begin(FALSE) /\ job = "idle" /\ job' = "capture"
    BY <1>7, TriggerTypes DEF ExecReturns, CaptureAfterExec, Types
  <2>3. /\ host.pc \in {"exec", "own"} /\ host'.pc = "idle" /\ Begin(FALSE).pc = "scan" /\ ~Begin(FALSE).full
        /\ (cap.pc = "off") = (job = "idle")
    BY <1>7, HostSteps, BeginType DEF Types, CapTypes
  <2> QED
    BY <2>1, <2>2, <2>3 DEF Control
<1>8. CASE Stamp \/ CaptureFails
  <2>1. UNCHANGED <<mirrors, granted, table>> /\ JobEnds
    BY <1>8 DEF Stamp, CaptureFails, durable
  <2>2. /\ job # "idle"
        /\ \/ cap' = NoCapture /\ job' = "idle"
           \/ cap' = Begin(FALSE) /\ job' = "capture"
    BY <1>8, EndTypes DEF Stamp, CaptureFails, Types
  <2>3. stage'["job"].todo = {} /\ stage'["host"] = stage["host"] /\ host'.pc = IF job = "exclusive" THEN "idle" ELSE host.pc
    BY <2>1, StageSteps, HostSteps
  <2>4. Begin(FALSE).pc = "scan" /\ ~Begin(FALSE).full /\ NoCapture.pc = "off" /\ ~NoCapture.full
    BY BeginType
  <2> QED
    BY <2>1, <2>2, <2>3, <2>4 DEF Control
<1>9. CASE ReconcileEnters
  <2>1. UNCHANGED <<mirrors, granted, table, stage, host>>
    BY <1>9 DEF ReconcileEnters, durable
  <2>2. (cap.pc = "off") = (job = "idle")
    BY DEF Types, CapTypes
  <2> QED
    BY <1>9, <2>1, <2>2, CapSteps DEF Control
<1>10. CASE ReconcileSettled
  <2>1. UNCHANGED <<mirrors, granted, table, host, job>>
    BY <1>10 DEF ReconcileSettled, durable, slot
  <2> QED
    BY <1>10, <2>1, CapSteps, StageSteps DEF Control
<1>11. CASE ReconcileScans
  <2>1. UNCHANGED <<mirrors, granted, host, job, stage>> /\ table' = granted /\ stage["job"].todo = {}
    BY <1>11 DEF ReconcileScans, durable, slot
  <2>2. Begin(TRUE).pc = "scan" /\ Begin(TRUE).full
    BY BeginType
  <2> QED
    BY <1>11, <2>1, <2>2, CapSteps DEF Control
<1>12. CASE Scan \/ Restaged \/ Fetch \/ Commit \/ Committed \/ Classified
  <2>1. UNCHANGED <<mirrors, granted, host, job, stage, table>> /\ (Restaged => stage["job"].todo = {})
    BY <1>12 DEF Scan, Restaged, Fetch, Commit, Committed, Classified, durable, slot
  <2>2. /\ cap'.full = cap.full /\ cap.pc \notin {"settling", "staging"} /\ cap'.pc \notin {"settling", "staging", "restage"}
        /\ cap.pc = "restage" => Restaged
    BY <1>12, CapSteps
  <2> QED
    BY <2>1, <2>2 DEF Control
<1>13. ASSUME NEW m \in Mount, Classify(m) PROVE Control'
  <2>1. UNCHANGED <<mirrors, granted, host, job, table>>
    BY <1>13 DEF Classify, durable, slot
  <2>2. cap'.full = cap.full /\ cap.pc = "mount" /\ cap'.pc = "restage" /\ stage'["host"] = stage["host"]
    BY <1>13, CapSteps, StageSteps
  <2> QED
    BY <2>1, <2>2 DEF Control
<1>14. CASE Crash
  <2>1. mirrors' = {} /\ cap' = NoCapture /\ job' = "idle"
    BY <1>14 DEF Crash
  <2> QED
    BY <1>14, <2>1, StageSteps, HostSteps, BeginType DEF Control
<1>15. CASE (\E m \in Mount : HydrateTears(m) \/ HydrateFiles(m) \/ Revoke(m)) \/ Target
  <2>1. UNCHANGED <<cap, job, mirrors, stage, table, host>> /\ granted' \subseteq granted
    BY <1>15 DEF HydrateTears, HydrateFiles, Revoke, Target, Edit, slot, durable
  <2> QED
    BY <2>1 DEF Control
<1> QED
  BY <1>1, <1>2, <1>3, <1>4, <1>5, <1>6, <1>7, <1>8, <1>9, <1>10, <1>11, <1>12, <1>13, <1>14, <1>15
     DEF Next, Engine, Materialize, Exec, Reconcile, Capture, Calls, Failing, Environment

-----------------------------------------------------------------------------
(* Lineage: what the engine takes for the branch's was the branch's once.  *)

InLineage(p, sha) == sha \in Held(p) \cup {Absent}

ShasHeld ==
    /\ \A p \in Path : InLineage(p, index[p].sha) /\ InLineage(p, index[p].previous)
    /\ \A p \in Path, w \in Stager : InLineage(p, stage[w].read[p])
    /\ host.pc = "written" => host.sha \in Held(host.path)
    /\ cap.pc = "committed" => \A p \in cap.changed \cup cap.deletes : InLineage(p, cap.bytes[p])

\* how each step changes a path's history: not at all, or by one version at its end
LEMMA HistorySteps ==
  ASSUME Types, Next, NEW p \in Path
  PROVE  \/ history'[p] = history[p]
         \/ \E c \in Content : /\ WriteCommits(p, c) /\ c # Tip(p)
                               /\ history'[p] = Append(history[p], [op |-> "write", sha |-> c])
         \/ /\ Commit /\ p \in Differs
            /\ history'[p] = Append(history[p], [op |-> "capture", sha |-> cap.bytes[p]])
<1>1. ASSUME NEW q \in Path, NEW c \in Content, WriteCommits(q, c)
      PROVE  \/ history'[p] = history[p]
             \/ p = q /\ c # Tip(p) /\ history'[p] = Append(history[p], [op |-> "write", sha |-> c])
  BY <1>1 DEF WriteCommits, Types, HistoryTypes
<1>2. CASE Commit
  BY <1>2 DEF Commit
<1> QED
  BY <1>1, <1>2, HistoryStays

LEMMA LineageGrows ==
  ASSUME Types, Next, NEW p \in Path
  PROVE  /\ Held(p) \subseteq Held(p)' /\ \A sha : InLineage(p, sha) => InLineage(p, sha)'
         /\ \A c \in Content : WriteCommits(p, c) => c \in Held(p)' /\ Tip(p)' = c
         /\ Commit /\ p \in Differs => InLineage(p, cap.bytes[p])' /\ Tip(p)' = cap.bytes[p]
         /\ history'[p] = history[p] => Tip(p)' = Tip(p) /\ Held(p)' = Held(p)
<1> DEFINE h == history[p]
<1>1. h \in Seq(Version) /\ Len(h) > 0
  BY DEF Types, HistoryTypes
<1>2. ASSUME NEW e \in Version, history'[p] = Append(h, e)
      PROVE  Held(p) \subseteq Held(p)' /\ Tip(p)' = e.sha /\ (e.sha = Absent \/ e.sha \in Held(p)')
  <2>1. /\ Append(h, e) \in Seq(Version) /\ Len(Append(h, e)) = Len(h) + 1 /\ Last(Append(h, e)) = e
        /\ \A i \in 1 .. Len(h) : Append(h, e)[i] = h[i]
        /\ Append(h, e)[Len(h) + 1] = e
    BY <1>1, Appended
  <2>2. DOMAIN h = 1 .. Len(h) /\ DOMAIN Append(h, e) = 1 .. Len(h) + 1
    BY <1>1, <2>1
  <2>3. Held(p) = {h[i].sha : i \in DOMAIN h} \ {Absent}
    BY DEF Held
  <2>4. Held(p)' = {Append(h, e)[i].sha : i \in DOMAIN Append(h, e)} \ {Absent} /\ Tip(p)' = Last(Append(h, e)).sha
    BY <1>2 DEF Held, Tip
  <2> HIDE DEF h
  <2>5. Len(h) \in Nat
    BY <1>1
  <2>6. ASSUME NEW sha \in Held(p) PROVE sha \in Held(p)'
    <3>1. PICK i \in 1 .. Len(h) : h[i].sha = sha /\ sha # Absent
      BY <2>2, <2>3
    <3>2. i \in DOMAIN Append(h, e) /\ Append(h, e)[i].sha = sha
      BY <2>1, <2>2, <2>5, <3>1
    <3> QED
      BY <2>4, <3>1, <3>2
  <2>7. ASSUME e.sha # Absent PROVE e.sha \in Held(p)'
    <3>1. Len(h) + 1 \in DOMAIN Append(h, e) /\ Append(h, e)[Len(h) + 1].sha = e.sha
      BY <2>1, <2>2, <2>5
    <3> QED
      BY <2>4, <2>7, <3>1
  <2> QED
    BY <2>1, <2>4, <2>6, <2>7
<1>3. history'[p] = history[p] => Tip(p)' = Tip(p) /\ Held(p)' = Held(p)
  BY DEF Tip, Held
<1>4. ASSUME NEW c \in Content, WriteCommits(p, c)
      PROVE  Held(p) \subseteq Held(p)' /\ c \in Held(p)' /\ Tip(p)' = c
  <2>1. \/ history'[p] = h /\ c = Tip(p)
        \/ history'[p] = Append(h, [op |-> "write", sha |-> c])
    BY <1>4 DEF WriteCommits, Types, HistoryTypes
  <2>2. [op |-> "write", sha |-> c] \in Version /\ c # Absent
    BY EngineAssumption DEF Version, Sha
  <2>3. CASE history'[p] = h /\ c = Tip(p)
    BY <1>3, <2>2, <2>3, TipType DEF Types
  <2>4. CASE history'[p] = Append(h, [op |-> "write", sha |-> c])
    <3>1. [op |-> "write", sha |-> c].sha = c
      OBVIOUS
    <3> HIDE DEF h
    <3> QED
      BY <1>2, <2>2, <2>4, <3>1
  <2> QED
    BY <2>1, <2>3, <2>4
<1>5. ASSUME Commit, p \in Differs
      PROVE  Held(p) \subseteq Held(p)' /\ Tip(p)' = cap.bytes[p] /\ (cap.bytes[p] = Absent \/ cap.bytes[p] \in Held(p)')
  <2>1. history'[p] = Append(h, [op |-> "capture", sha |-> cap.bytes[p]])
    BY <1>5 DEF Commit
  <2>2. [op |-> "capture", sha |-> cap.bytes[p]] \in Version
    BY DEF Version, Types, CapTypes, CapRecord
  <2>3. [op |-> "capture", sha |-> cap.bytes[p]].sha = cap.bytes[p]
    OBVIOUS
  <2> HIDE DEF h
  <2> QED
    BY <1>2, <2>1, <2>2, <2>3
<1>6. cap'.bytes = cap.bytes \/ ~Commit
  BY CapSteps
<1>7. Held(p) \subseteq Held(p)'
  BY <1>3, <1>4, <1>5, HistorySteps
<1>8. \A sha : InLineage(p, sha) => InLineage(p, sha)'
  BY <1>7 DEF InLineage
<1>9. Commit /\ p \in Differs => InLineage(p, cap.bytes[p])'
  BY <1>5, <1>6 DEF InLineage
<1> QED
  BY <1>3, <1>4, <1>5, <1>7, <1>8, <1>9

\* how each step changes the index entry of a path
LEMMA IndexSteps ==
  ASSUME Types, Next, NEW p \in Path
  PROVE  \/ index'[p] = index[p] /\ ~ExecStarts /\ ~CaptureAfterExec /\ ~Crash
         \/ \E m \in Mount : (AttachWarm(m) \/ HydrateDone(m)) /\ MountOf[p] = m /\ index'[p] = Plain(Tip(p))
         \/ /\ WriteReturns /\ p = host.path /\ index'[p].sha = host.sha /\ index'[p].previous = Confirmed(p)
            /\ index'[p].unconfirmed /\ index'[p].writeEpoch = epoch
         \/ /\ \E w \in mirrors : MirrorFails(w) /\ p = w.path
            /\ index'[p].sha = index[p].sha /\ index'[p].previous = index[p].previous
            /\ index'[p].unconfirmed = index[p].unconfirmed /\ index'[p].writeEpoch = index[p].writeEpoch
         \/ \E w \in Stager : StageWrites(w) /\ p \in Chunk(w) /\ index'[p] = Plain(stage[w].read[p])
         \/ /\ (ExecStarts \/ CaptureAfterExec) /\ NoteExec /\ resume' = resume
            /\ index'[p].sha = index[p].sha /\ index'[p].previous = index[p].previous
            /\ index'[p].unconfirmed = index[p].unconfirmed
            /\ index'[p].writeEpoch = IF Pending(p) /\ index[p].unconfirmed THEN epoch + 1 ELSE index[p].writeEpoch
         \/ /\ \E m \in Mount : Classify(m) /\ MountOf[p] = m
            /\ Confirms(p) /\ index'[p].sha = index[p].sha /\ index'[p].previous = Absent /\ ~index'[p].unconfirmed
            /\ index'[p].writeEpoch = 0
         \/ Committed /\ p \in cap.changed \cup cap.deletes /\ index'[p] = Plain(cap.bytes[p])
         \/ Crash /\ index'[p] = Plain(Absent)
<1>0. IndexTypes /\ index \in [Path -> Entry] /\ Entry = [sha : Sha, previous : Sha, unconfirmed : BOOLEAN, writeEpoch : Nat, dirty : BOOLEAN]
  BY DEF Types, IndexTypes, Entry
<1>n. (ExecStarts => host.pc = "staging") /\ (CaptureAfterExec => host.pc = "own") /\ (Crash => host'.pc = "down")
      /\ (ExecStarts \/ CaptureAfterExec => host'.pc \in {"exec", "idle"} /\ epoch' # epoch)
  <2>1. ExecStarts \/ CaptureAfterExec => epoch' = epoch + 1 /\ epoch \in Nat
    BY <1>0 DEF ExecStarts, CaptureAfterExec, NoteExec, IndexTypes
  <2> QED
    BY <2>1, HostSteps
<1> DEFINE Still == index'[p] = index[p] /\ ~ExecStarts /\ ~CaptureAfterExec /\ ~Crash
<1>1. ASSUME NEW m \in Mount, AttachWarm(m) \/ HydrateDone(m)
      PROVE  Still \/ (MountOf[p] = m /\ index'[p] = Plain(Tip(p)))
  <2>1. index' = [q \in Path |-> IF MountOf[q] = m THEN Plain(Tip(q)) ELSE index[q]] /\ epoch' = epoch
    BY <1>1 DEF AttachWarm, HydrateDone, Seed
  <2>2. ~Crash
    BY <1>1, HostSteps
  <2> QED
    BY <1>n, <2>1, <2>2
<1>2. CASE WriteReturns
  <2> DEFINE e == [Plain(host.sha) EXCEPT !.previous = Confirmed(host.path), !.unconfirmed = TRUE, !.writeEpoch = epoch]
  <2>1. index' = [index EXCEPT ![host.path] = e] /\ epoch' = epoch /\ host.sha \in Sha
    BY <1>2 DEF WriteReturns, Types, HostTypes, Sha
  <2>2. e.sha = host.sha /\ e.previous = Confirmed(host.path) /\ e.unconfirmed = TRUE /\ e.writeEpoch = epoch
    BY DEF Plain
  <2>3. ~Crash
    BY <1>2, HostSteps
  <2> HIDE DEF e
  <2> QED
    BY <1>0, <1>2, <1>n, <2>1, <2>2, <2>3
<1>3. ASSUME NEW w \in mirrors, MirrorFails(w)
      PROVE  Still \/ /\ p = w.path /\ index'[p].sha = index[p].sha /\ index'[p].previous = index[p].previous
                      /\ index'[p].unconfirmed = index[p].unconfirmed /\ index'[p].writeEpoch = index[p].writeEpoch
  <2>1. index' = [index EXCEPT ![w.path].dirty = index[w.path].sha # Absent] /\ epoch' = epoch /\ host' = host
    BY <1>3 DEF MirrorFails
  <2>2. /\ index'[p].sha = index[p].sha /\ index'[p].previous = index[p].previous
        /\ index'[p].writeEpoch = index[p].writeEpoch
    BY <1>0, <2>1
  <2>3. index'[p].unconfirmed = index[p].unconfirmed
    BY <1>0, <2>1
  <2>4. ~Crash
    BY <2>1, HostSteps
  <2> QED
    BY <1>0, <1>n, <2>1, <2>2, <2>3, <2>4
<1>4. ASSUME NEW w \in Stager, StageWrites(w)
      PROVE  Still \/ (p \in Chunk(w) /\ index'[p] = Plain(stage[w].read[p]))
  <2>1. index' = [q \in Path |-> IF q \in Chunk(w) THEN Plain(stage[w].read[q]) ELSE index[q]] /\ epoch' = epoch /\ host' = host
    BY <1>4 DEF StageWrites, Chunk
  <2>2. ~Crash
    BY <2>1, HostSteps
  <2> QED
    BY <1>n, <2>1, <2>2
<1>5. CASE ExecStarts \/ CaptureAfterExec
  <2>1. NoteExec /\ resume' = resume
    BY <1>5 DEF ExecStarts, CaptureAfterExec
  <2> QED
    BY <1>0, <1>5, <2>1, NoteExecTypes
<1>6. ASSUME NEW m \in Mount, Classify(m)
      PROVE  \/ Still
             \/ /\ MountOf[p] = m /\ Confirms(p) /\ index'[p].sha = index[p].sha /\ index'[p].previous = Absent
                /\ ~index'[p].unconfirmed /\ index'[p].writeEpoch = 0
  <2> DEFINE e == [Plain(index[p].sha) EXCEPT !.dirty = index[p].dirty]
  <2>1. index'[p] = (IF MountOf[p] = m /\ Confirms(p) THEN e ELSE index[p]) /\ epoch' = epoch /\ host' = host
    BY <1>6 DEF Classify
  <2>2. index[p].sha \in Sha
    BY <1>0
  <2>3. e.sha = index[p].sha /\ e.previous = Absent /\ e.unconfirmed = FALSE /\ e.writeEpoch = 0
    BY <2>2, PlainType DEF Entry
  <2>4. ~Crash
    BY <2>1, HostSteps
  <2> HIDE DEF e
  <2> QED
    BY <1>n, <2>1, <2>3, <2>4
<1>7. CASE Committed
  <2>1. /\ index' = [q \in Path |-> IF q \in cap.changed \cup cap.deletes THEN Plain(cap.bytes[q]) ELSE index[q]]
        /\ epoch' = epoch /\ host' = host
    BY <1>7 DEF Committed
  <2>2. ~Crash
    BY <2>1, HostSteps
  <2> QED
    BY <1>7, <1>n, <2>1, <2>2
<1>8. CASE Crash
  BY <1>8 DEF Crash
<1>9. CASE Attach \/ Attached \/ (\E m \in Mount : HydrateTears(m) \/ HydrateFiles(m)) \/ Mirror \/ (\E w \in Stager : StageRead(w) \/ StageTears(w))
            \/ ExecSettled \/ ExecReturns \/ Reconcile \/ Calls \/ Target \/ WriteReplyLost \/ ExecFails
  <2>1. index' = index /\ epoch' = epoch
    BY <1>9 DEF Attach, Attached, HydrateTears, HydrateFiles, Mirror, MirrorTears, MirrorLands, MirrorEnds,
       StageRead, StageTears, ExecSettled, ExecReturns,
     Reconcile, ReconcileEnters, ReconcileSettled, ReconcileScans, Calls, WriteCommits, ExecCall, OwnCommand, ReconcileCall,
     Target, Edit, WriteReplyLost, ExecFails
  <2> QED
    BY <1>8, <1>n, <2>1
<1>10. CASE Scan \/ Restaged \/ Fetch \/ Commit \/ Classified \/ Stamp \/ CaptureFails \/ (\E m \in Mount : Revoke(m))
  <2>1. index' = index /\ epoch' = epoch
    BY <1>10 DEF Scan, Restaged, Fetch, Commit, Classified, Stamp, CaptureFails, Revoke
  <2> QED
    BY <1>8, <1>n, <2>1
<1> QED
  BY <1>1, <1>2, <1>3, <1>4, <1>5, <1>6, <1>7, <1>8, <1>9, <1>10
     DEF Next, Engine, Materialize, Restaging, Stager, Exec, Capture, Failing, Environment

\* a step that leaves the host in a write it was not in is that write's commit
LEMMA WrittenStays ==
  ASSUME Types, Next, host'.pc = "written", ~\E p \in Path, c \in Content : WriteCommits(p, c)
  PROVE  host' = host
<1>1. CASE Materialize
  BY <1>1, HostSteps DEF Materialize, HydrateTears, HydrateFiles
<1>2. CASE Stamp \/ CaptureFails
  BY <1>2 , HostSteps DEF Stamp, CaptureFails, JobEnds
<1>3. CASE WriteReturns \/ Exec \/ CaptureAfterExec \/ ExecCall \/ OwnCommand \/ ReconcileCall \/ WriteReplyLost \/ ExecFails \/ Crash
  BY <1>3, HostSteps DEF Exec
<1>4. CASE Mirror \/ Restaging \/ Reconcile \/ (Capture /\ ~Stamp) \/ Target \/ (\E w \in mirrors : MirrorFails(w))
           \/ (\E m \in Mount : Revoke(m))
  BY <1>4 DEF Mirror, MirrorTears, MirrorLands, MirrorEnds, Restaging, StageRead, StageTears, StageWrites, Reconcile,
     ReconcileEnters,
     ReconcileSettled, ReconcileScans, Capture, Scan, Restaged, Fetch, Commit, Committed, Classified, Classify, Target, Edit,
     MirrorFails, Revoke
<1> QED
  BY <1>1, <1>2, <1>3, <1>4 DEF Next, Engine, Calls, Failing, Environment

LEMMA CommittedStays ==
  ASSUME Types, Next, cap'.pc = "committed", ~Commit
  PROVE  cap' = cap
<1>1. CASE JobMoves /\ ~ReconcileEnters /\ ~ReconcileSettled /\ (~Capture \/ Stamp)
  BY <1>1, CapTurns, BeginType
<1>2. CASE ReconcileEnters \/ ReconcileSettled \/ (Capture /\ ~Stamp)
  BY <1>2, CapSteps DEF Capture
<1> QED
  BY <1>1, <1>2, JobStays

LEMMA ShasHeldKeeps ==
  ASSUME Types, ShasHeld, Next
  PROVE  ShasHeld'
<1>0. \A p \in Path : /\ \A sha : InLineage(p, sha) => InLineage(p, sha)'
                      /\ InLineage(p, Tip(p)) /\ InLineage(p, Absent)
  BY LineageGrows, TipType DEF Types, InLineage
<1>1. ASSUME NEW p \in Path
      PROVE  InLineage(p, index[p].sha)' /\ InLineage(p, index[p].previous)'
  <2>1. \E sha, previous : /\ InLineage(p, sha) /\ InLineage(p, previous)
                           /\ index'[p].sha = sha /\ index'[p].previous = previous
    <3>1. InLineage(p, index[p].sha) /\ InLineage(p, index[p].previous)
      BY DEF ShasHeld
    <3>2. ASSUME NEW sha \in Sha, InLineage(p, sha), index'[p] = Plain(sha)
          PROVE  /\ InLineage(p, sha) /\ InLineage(p, Absent)
                 /\ index'[p].sha = sha /\ index'[p].previous = Absent
      BY <1>0, <3>2, PlainType
    <3>3. WriteReturns /\ p = host.path => InLineage(p, host.sha) /\ InLineage(p, Confirmed(p))
      BY <3>1 DEF WriteReturns, ShasHeld, InLineage, Confirmed
    <3>4. ASSUME NEW w \in Stager, StageWrites(w), p \in Chunk(w)
          PROVE  InLineage(p, stage[w].read[p]) /\ stage[w].read[p] \in Sha
      BY <3>4, StageChanges DEF ShasHeld, Sha
    <3>5. Committed /\ p \in cap.changed \cup cap.deletes => InLineage(p, cap.bytes[p]) /\ cap.bytes[p] \in Sha
      BY DEF Committed, ShasHeld, Types, CapTypes, CapRecord
    <3>6. Tip(p) \in Sha /\ Absent \in Sha
      BY TipType DEF Types, Sha
    <3> QED
      BY <1>0, <3>1, <3>2, <3>3, <3>4, <3>5, <3>6, IndexSteps
  <2>2. PICK sha, previous : /\ InLineage(p, sha) /\ InLineage(p, previous)
                             /\ index'[p].sha = sha /\ index'[p].previous = previous
    BY <2>1
  <2>3. InLineage(p, sha)' /\ InLineage(p, previous)'
    BY <1>0, <2>2
  <2> QED
    BY <2>2, <2>3 DEF InLineage
<1>2. ASSUME NEW p \in Path, NEW w \in Stager PROVE InLineage(p, stage[w].read[p])'
  <2>1. \E sha : InLineage(p, sha) /\ stage'[w].read[p] = sha
    <3>1. InLineage(p, stage[w].read[p]) /\ stage \in [Stager -> StageRecord] /\ stage[w] \in StageRecord
      BY DEF ShasHeld, Types, CapTypes
    <3>2. CASE stage'[w] = stage[w]
      BY <3>1, <3>2
    <3>3. CASE \E S \in SUBSET Path : stage'[w] = Staging(S)
      BY <1>0, <3>3, StageType
    <3>4. CASE stage'[w] = NoStage
      BY <1>0, <3>4, StageType
    <3>5. ASSUME NEW v \in Stager, StageRead(v) PROVE InLineage(p, stage'[w].read[p])
      <4>1. PICK q \in stage[v].todo : stage' = [stage EXCEPT ![v].read[q] = Tip(q)]
        BY <3>5 DEF StageRead
      <4>2. stage'[w].read[p] = stage[w].read[p] \/ stage'[w].read[p] = Tip(p)
        BY <3>1, <4>1 DEF StageRecord
      <4> QED
        BY <1>0, <3>1, <4>2
    <3>6. ASSUME NEW v \in Stager, StageWrites(v)
          PROVE  stage'[w] = stage[w] \/ \E S \in SUBSET Path : stage'[w] = Staging(S)
      <4>1. stage' = [stage EXCEPT ![v] = Staging(stage[v].todo \ Chunk(v))] /\ stage[v].todo \ Chunk(v) \in SUBSET Path
        BY <3>6, StageChanges DEF StageWrites, Chunk
      <4> QED
        BY <3>1, <4>1
    <3>7. ASSUME ~\E v \in Stager : StageRead(v) \/ StageWrites(v)
          PROVE  stage'[w] = stage[w] \/ stage'[w] = NoStage \/ \E S \in SUBSET Path : stage'[w] = Staging(S)
      <4>1. Dirty \in SUBSET Path
        BY DEF Dirty
      <4>2. CASE ExecSettled \/ ReconcileSettled \/ ExecFails \/ Stamp \/ CaptureFails \/ Crash
        BY <3>1, <4>1, <4>2 DEF ExecSettled, ReconcileSettled, ExecFails, Stamp, CaptureFails, JobEnds, Crash, Stager
      <4>3. ASSUME NEW m \in Mount, Classify(m)
            PROVE  stage'[w] = stage[w] \/ \E S \in SUBSET Path : stage'[w] = Staging(S)
        <5> DEFINE R == {q \in Files(m) : m \in table /\ Restage(q)}
        <5>1. stage' = [stage EXCEPT !["job"] = Staging(R)]
          BY <4>3 DEF Classify
        <5>2. R \in SUBSET Path
          BY DEF Files
        <5> HIDE DEF R
        <5> QED
          BY <3>1, <5>1, <5>2
      <4>4. CASE \/ Materialize \/ WriteReturns \/ Mirror \/ (\E v \in Stager : StageTears(v)) \/ ExecStarts \/ ExecReturns \/ CaptureAfterExec \/ ReconcileEnters
                 \/ ReconcileScans \/ Scan \/ Restaged \/ Fetch \/ Commit \/ Committed \/ Classified
        BY <4>4 DEF StageTears, Materialize, Attach, Attached, AttachWarm, HydrateTears, HydrateFiles, HydrateDone,
           WriteReturns, Mirror, MirrorTears, MirrorLands,
           MirrorEnds, ExecStarts, ExecReturns, CaptureAfterExec, ReconcileEnters, ReconcileScans, Scan, Restaged, Fetch,
           Commit, Committed, Classified
      <4>5. CASE Calls \/ Target \/ WriteReplyLost \/ (\E v \in mirrors : MirrorFails(v)) \/ (\E m \in Mount : Revoke(m))
        BY <4>5 DEF Calls, WriteCommits, ExecCall, OwnCommand, ReconcileCall, Target, Edit, WriteReplyLost, MirrorFails, Revoke
      <4> QED
        BY <3>7, <4>2, <4>3, <4>4, <4>5
           DEF Next, Engine, Restaging, Stager, Exec, Reconcile, Capture, Failing, Environment
    <3> QED
      BY <3>2, <3>3, <3>4, <3>5, <3>6, <3>7
  <2>2. PICK sha : InLineage(p, sha) /\ stage'[w].read[p] = sha
    BY <2>1
  <2>3. InLineage(p, sha)'
    BY <1>0, <2>2
  <2> QED
    BY <2>2, <2>3 DEF InLineage
<1>3. ASSUME host'.pc = "written" PROVE host'.sha \in Held(host.path)'
  <2>1. CASE \E p \in Path, c \in Content : WriteCommits(p, c)
    <3>1. PICK p \in Path, c \in Content : WriteCommits(p, c)
      BY <2>1
    <3>2. host'.path = p /\ host'.sha = c /\ c \in Held(p)'
      BY <3>1, HostSteps, LineageGrows
    <3> QED
      BY <3>2 DEF Held
  <2>2. CASE ~\E p \in Path, c \in Content : WriteCommits(p, c)
    <3>1. host' = host
      BY <1>3, <2>2, WrittenStays
    <3>2. PICK p \in Path : p = host.path
      BY <1>3, <3>1 DEF Types, HostTypes
    <3>3. host.sha \in Held(p) /\ Held(p) \subseteq Held(p)'
      BY <1>3, <3>1, <3>2, LineageGrows DEF ShasHeld
    <3> QED
      BY <3>1, <3>2, <3>3 DEF Held
  <2> QED
    BY <2>1, <2>2
<1>4. ASSUME cap'.pc = "committed", NEW p \in cap'.changed \cup cap'.deletes
      PROVE  InLineage(p, cap.bytes[p])'
  <2>1. CASE Commit
    <3>1. cap'.bytes = cap.bytes /\ p \in cap.changed \cup cap.deletes /\ p \in Path
      BY <1>4, <2>1, CapSteps DEF Differs, Types, CapTypes, CapRecord
    <3>2. CASE p \in Differs
      BY <2>1, <3>1, <3>2, LineageGrows
    <3>3. CASE p \notin Differs
      <4>1. cap.bytes[p] = Tip(p)
        BY <3>1, <3>3 DEF Differs
      <4>2. PICK sha : sha = cap.bytes[p]
        OBVIOUS
      <4>3. InLineage(p, sha)'
        BY <1>0, <3>1, <4>1, <4>2
      <4> QED
        BY <3>1, <4>2, <4>3 DEF InLineage
    <3> QED
      BY <3>2, <3>3
  <2>2. CASE ~Commit
    <3>1. cap' = cap
      BY <1>4, <2>2, CommittedStays
    <3>2. p \in Path /\ InLineage(p, cap.bytes[p])
      BY <1>4, <3>1 DEF ShasHeld, Types, CapTypes, CapRecord
    <3>3. PICK sha : sha = cap.bytes[p]
      OBVIOUS
    <3>4. InLineage(p, sha)'
      BY <1>0, <3>2, <3>3
    <3> QED
      BY <3>1, <3>3, <3>4 DEF InLineage
  <2> QED
    BY <2>1, <2>2
<1> QED
  BY <1>1, <1>2, <1>3, <1>4 DEF ShasHeld

-----------------------------------------------------------------------------
(* The list: a stamp never passes work the branch has not seen.            *)

Scanning == cap.pc \notin {"off", "settling", "staging", "scan"}
Harmless(p) == InLineage(p, disk[p]) \/ MountOf[p] \notin granted

\* what a running scan knows of each path that was left alone since it began
ScannedPath(p) ==
    /\ MountOf[p] \in cap.left => cap.seen[p] = disk[p] \/ (cap.seen[p] = Absent /\ Harmless(p))
    /\ MountOf[p] \notin cap.left => Harmless(p) \/ (cap.pc \in {"restage", "fetch", "commit"} /\ p \in cap.changed)
    /\ cap.pc = "commit" /\ p \in cap.changed => cap.bytes[p] = disk[p]
Scanned == Scanning => \A p \in Path \ touched : ScannedPath(p)

\* how each step changes a file on the target, and the two lists of changed files
Hydrates(m) == HydrateTears(m) \/ HydrateFiles(m)
Mirrors(w) == MirrorTears(w) \/ MirrorLands(w)
Stages(w) == StageTears(w) \/ StageWrites(w)

LEMMA DiskSteps ==
  ASSUME Types, Next, NEW p \in Path
  PROVE  /\ disk'[p] # disk[p] =>
                /\ p \in newer' /\ p \in touched'
                /\ \/ \E m \in Mount : Hydrates(m) /\ disk'[p] \in {Torn, Tip(p)} /\ Tip(p) # Absent
                   \/ \E w \in mirrors : /\ Mirrors(w) /\ w.path = p /\ disk'[p] \in {Torn, w.sha}
                                         /\ disk'[p] = w.sha => MirrorLands(w)
                                         /\ MirrorLands(w) /\ w.alone => disk'[p] = w.sha
                   \/ \E w \in Stager : /\ Stages(w) /\ p \in Chunk(w) /\ disk'[p] \in {Torn, stage[w].read[p]}
                                        /\ StageWrites(w) => disk'[p] = stage[w].read[p]
                                        /\ StageTears(w) /\ stage[w].read[p] # Tip(p) => since'[p].adrift
                   \/ \E c \in Content \cup {Absent} : Edit(p, c) /\ disk'[p] = c
         /\ p \in newer /\ p \notin newer' => Stamp /\ p \notin touched
         /\ p \in touched /\ p \notin touched' => \E full \in BOOLEAN : cap' = Begin(full)
<1> DEFINE Kept == disk'[p] = disk[p]
           Listing == (p \in newer => p \in newer') /\ (p \in touched => p \in touched')
           Newer == p \in newer' /\ p \in touched'
<1>0. disk \in [Path -> Sha]
  BY DEF Types, TargetTypes
<1>c. ASSUME NEW new, Change(new), DOMAIN new \subseteq Path
      PROVE  Listing /\ (Kept \/ (p \in DOMAIN new /\ disk'[p] = new[p] /\ p \in newer' /\ p \in touched'))
  BY <1>c DEF Change
<1>d. ASSUME NEW q \in Path, NEW c, Change([r \in {q} |-> c])
      PROVE  Listing /\ (Kept \/ (q = p /\ disk'[p] = c /\ Newer))
  BY <1>c, <1>d
<1>1. ASSUME NEW m \in Mount, Hydrates(m)
      PROVE  Listing /\ (Kept \/ (Newer /\ disk'[p] \in {Torn, Tip(p)} /\ Tip(p) # Absent))
  <2>1. CASE HydrateFiles(m)
    <3>1. PICK new : new = [q \in {q \in Files(m) : Tip(q) # Absent} |-> Tip(q)]
      OBVIOUS
    <3>2. Change(new)
      BY <2>1, <3>1 DEF HydrateFiles
    <3>3. DOMAIN new \subseteq Path /\ (p \in DOMAIN new => new[p] = Tip(p) /\ Tip(p) # Absent)
      BY <3>1 DEF Files
    <3> QED
      BY <1>c, <3>2, <3>3
  <2>2. CASE HydrateTears(m)
    <3>1. PICK q \in Path, c \in Sha : Tip(q) # Absent /\ c \in {Torn, Tip(q)} /\ Change([r \in {q} |-> c])
      BY <2>2, HydrateTurns
    <3>2. Listing /\ (Kept \/ (q = p /\ disk'[p] = c /\ Newer))
      BY <1>d, <3>1
    <3> QED
      BY <3>1, <3>2
  <2> QED
    BY <1>1, <2>1, <2>2 DEF Hydrates
<1>2. ASSUME NEW w \in mirrors, Mirrors(w)
      PROVE  /\ Listing
             /\ \/ Kept
                \/ /\ w.path = p /\ disk'[p] \in {Torn, w.sha} /\ Newer
                   /\ disk'[p] = w.sha => MirrorLands(w)
                   /\ MirrorLands(w) /\ w.alone => disk'[p] = w.sha
  <2>1. PICK c \in Sha : /\ c \in {Torn, w.sha} /\ (c = w.sha => MirrorLands(w)) /\ w.path \in Path
                         /\ (MirrorLands(w) /\ w.alone => c = w.sha) /\ Change([q \in {w.path} |-> c])
    BY <1>2, MirrorTurns DEF Mirrors
  <2>2. Listing /\ (Kept \/ (w.path = p /\ disk'[p] = c /\ Newer))
    BY <1>d, <2>1
  <2> HIDE DEF Listing, Kept, Newer
  <2> QED
    BY <2>1, <2>2
<1>3. ASSUME NEW w \in Stager, StageWrites(w)
      PROVE  Listing /\ (Kept \/ (p \in Chunk(w) /\ disk'[p] = stage[w].read[p] /\ Newer))
  <2>1. PICK new : new = [q \in Chunk(w) |-> stage[w].read[q]]
    OBVIOUS
  <2>2. Change(new) /\ DOMAIN new = Chunk(w) /\ Chunk(w) \subseteq Path /\ (p \in Chunk(w) => new[p] = stage[w].read[p])
    BY <1>3, <2>1, StageChanges
  <2> QED
    BY <1>c, <2>2
<1>4. ASSUME NEW q \in Path, NEW c \in Content \cup {Absent}, Edit(q, c)
      PROVE  Listing /\ (Kept \/ (q = p /\ disk'[p] = c /\ p \in newer' /\ p \in touched'))
  <2>1. Change([r \in {q} |-> c])
    BY <1>4 DEF Edit
  <2> QED
    BY <1>d, <2>1
<1>5. ASSUME NEW w \in Stager, StageTears(w)
      PROVE  /\ Listing
             /\ \/ Kept
                \/ /\ p \in Chunk(w) /\ disk'[p] \in {Torn, stage[w].read[p]} /\ Newer
                   /\ stage[w].read[p] # Tip(p) => since'[p].adrift
  <2> HIDE DEF Listing, Kept, Newer
  <2>1. PICK q \in Chunk(w) : \E c \in Sha :
            /\ q \in Path /\ q \in stage[w].todo /\ stage[w].read[q] \in Sha \ {Absent}
            /\ c \in {Torn, stage[w].read[q]} /\ Change([r \in {q} |-> c])
            /\ since' = [since EXCEPT ![q].adrift = since[q].adrift \/ stage[w].read[q] # Tip(q)]
    BY <1>5, StageTurns
  <2>2. PICK c \in Sha :
            /\ q \in Path /\ c \in {Torn, stage[w].read[q]} /\ Change([r \in {q} |-> c])
            /\ since' = [since EXCEPT ![q].adrift = since[q].adrift \/ stage[w].read[q] # Tip(q)]
    BY <2>1
  <2>3. Listing /\ (Kept \/ (q = p /\ disk'[p] = c /\ Newer))
    BY <1>d, <2>2
  <2>4. q = p /\ stage[w].read[p] # Tip(p) => since'[p].adrift
    <3>1. since \in [Path -> Fate]
      BY DEF Types, SinceTypes
    <3> QED
      BY <2>2, <3>1 DEF Fate
  <2> QED
    BY <2>2, <2>3, <2>4
<1>6. CASE ExecReturns \/ CaptureAfterExec \/ ReconcileScans
  <2>1. /\ disk' = disk /\ newer' = newer
        /\ \/ touched' = touched
           \/ \E full \in BOOLEAN : cap' = Begin(full)
    BY <1>6 DEF ExecReturns, CaptureAfterExec, ReconcileScans, TriggerSlot, StartCapture, target
  <2> QED
    BY <2>1
<1>7. CASE Stamp \/ CaptureFails
  <2>1. /\ disk' = disk /\ ((Stamp /\ newer' = touched) \/ newer' = newer)
        /\ \/ touched' = touched
           \/ cap' = Begin(FALSE)
    BY <1>7 DEF Stamp, CaptureFails, FollowUp, StartCapture, target
  <2> QED
    BY <2>1
<1>8. CASE Attach \/ Attached \/ (\E m \in Mount : AttachWarm(m) \/ HydrateDone(m)) \/ WriteReturns
           \/ (\E w \in mirrors : MirrorEnds(w) \/ MirrorFails(w)) \/ (\E w \in Stager : StageRead(w))
           \/ ExecSettled \/ ExecStarts \/ ReconcileEnters \/ ReconcileSettled \/ Calls \/ WriteReplyLost \/ ExecFails
           \/ Crash
  <2>1. disk' = disk /\ newer' = newer /\ touched' = touched
    BY <1>8 DEF Attach, Attached, AttachWarm, HydrateDone, WriteReturns, MirrorEnds, MirrorFails, StageRead, ExecSettled,
       ExecStarts, ReconcileEnters, ReconcileSettled, Calls, WriteCommits, ExecCall, OwnCommand, ReconcileCall,
       WriteReplyLost, ExecFails, Crash, target
  <2> QED
    BY <2>1
<1>9. CASE (Capture /\ ~Stamp) \/ (\E m \in Mount : Revoke(m))
  <2>1. disk' = disk /\ newer' = newer /\ touched' = touched
    BY <1>9 DEF Capture, Scan, Restaged, Fetch, Commit, Committed, Classified, Classify, Revoke, target
  <2> QED
    BY <2>1
<1> HIDE DEF Kept, Listing, Newer
<1>11. CASE \E m \in Mount : Hydrates(m)
  BY <1>1, <1>11 DEF Kept, Listing, Newer
<1>12. CASE \E w \in mirrors : Mirrors(w)
  BY <1>2, <1>12 DEF Kept, Listing, Newer
<1>13. CASE \E w \in Stager : StageWrites(w)
  BY <1>3, <1>5, <1>13 DEF Kept, Listing, Newer, Stages
<1>14. CASE (\E w \in Stager : StageTears(w)) /\ ~\E w \in Stager : StageWrites(w)
  BY <1>5, <1>14 DEF Kept, Listing, Newer, Stages
<1>15. CASE \E q \in Path, c \in Content \cup {Absent} : Edit(q, c)
  BY <1>4, <1>15 DEF Kept, Listing
<1> QED
  BY <1>6, <1>7, <1>8, <1>9, <1>11, <1>12, <1>13, <1>14, <1>15
     DEF Next, Engine, Materialize, Mirror, Restaging, Stager, Exec, Reconcile, Target, Failing, Environment, Hydrates,
         Mirrors

LEMMA GrantsShrink ==
  ASSUME Next
  PROVE  granted' \subseteq granted
<1>1. CASE Engine
  BY <1>1 DEF Engine, Mirror, MirrorTears, MirrorLands, MirrorEnds, WriteReturns, Materialize, Attach, Attached, AttachWarm,
     HydrateTears, HydrateFiles, HydrateDone, Restaging, StageRead, StageTears, StageWrites, Exec, ExecSettled,
     ExecStarts, ExecReturns,
     CaptureAfterExec, Reconcile, ReconcileEnters, ReconcileSettled, ReconcileScans, Capture, Scan, Restaged, Fetch, Commit,
     Committed, Classified, Stamp, Classify, durable
<1>2. CASE Calls \/ Target \/ Environment \/ Failing
  BY <1>2 DEF Calls, WriteCommits, ExecCall, OwnCommand, ReconcileCall, Target, Edit, Environment, Crash, Revoke, Failing,
     WriteReplyLost, ExecFails, CaptureFails, MirrorFails, durable
<1> QED
  BY <1>1, <1>2 DEF Next

LEMMA HarmlessStays ==
  ASSUME Types, Next, NEW p \in Path, Harmless(p), disk'[p] = disk[p]
  PROVE  Harmless(p)'
<1>1. PICK sha : sha = disk[p]
  OBVIOUS
<1>2. InLineage(p, sha) => InLineage(p, sha)'
  BY LineageGrows
<1>3. granted' \subseteq granted
  BY GrantsShrink
<1> QED
  BY <1>1, <1>2, <1>3 DEF Harmless, InLineage

LEMMA ListedOrHarmless == WorkIsListed <=> \A p \in Path : Harmless(p) \/ p \in newer
  BY DEF WorkIsListed, Harmless, InLineage

LEMMA ListKeeps ==
  ASSUME Types, CapShape, Scanned, WorkIsListed, Next
  PROVE  WorkIsListed'
<1>1. \A p \in Path : Harmless(p) \/ p \in newer
  BY ListedOrHarmless
<1>2. ASSUME NEW p \in Path PROVE Harmless(p)' \/ p \in newer'
  <2>1. CASE disk'[p] # disk[p]
    BY <2>1, DiskSteps
  <2>2. CASE disk'[p] = disk[p]
    <3>1. Harmless(p) \/ p \in newer'
      <4>1. CASE Stamp /\ p \notin touched
        <5>1. cap.pc = "stamp" /\ cap.left = {}
          BY <4>1 DEF Stamp, CapShape
        <5> QED
          BY <4>1, <5>1 DEF Scanned, Scanning, ScannedPath
      <4> QED
        BY <1>1, <4>1, DiskSteps
    <3> QED
      BY <2>2, <3>1, HarmlessStays
  <2> QED
    BY <2>1, <2>2
<1>3. WorkIsListed' <=> \A p \in Path : Harmless(p)' \/ p \in newer'
  BY DEF WorkIsListed, Harmless, InLineage
<1> QED
  BY <1>2, <1>3

LEMMA ScannedKeeps ==
  ASSUME Types, Control, CapShape, ShasHeld, Scanned, WorkIsListed, Next
  PROVE  Scanned'
<1> SUFFICES ASSUME Scanning', NEW p \in Path, p \notin touched' PROVE ScannedPath(p)'
  BY DEF Scanned
<1>n. cap'.pc \notin {"off", "settling", "staging", "scan"}
  BY DEF Scanning
<1>b. \A full \in BOOLEAN : cap' # Begin(full) /\ cap' # NoCapture
  BY <1>n, BeginType
<1>0. disk'[p] = disk[p] /\ p \notin touched
  BY <1>b, DiskSteps
<1>1. Harmless(p) => Harmless(p)'
  BY <1>0, HarmlessStays
<1>2. ASSUME cap' = cap PROVE ScannedPath(p)'
  <2>1. ScannedPath(p)
    BY <1>0, <1>2, <1>n DEF Scanned, Scanning
  <2> QED
    BY <1>0, <1>1, <1>2, <2>1 DEF ScannedPath
<1>3. CASE ~JobMoves
  BY <1>2, <1>3, JobStays
<1>4. CASE JobMoves /\ ~ReconcileEnters /\ ~ReconcileSettled /\ (~Capture \/ Stamp)
  BY <1>2, <1>4, <1>b, CapTurns
<1>5. CASE ReconcileEnters \/ ReconcileSettled
  BY <1>5, <1>n, CapSteps
<1>6. CASE Scan
  <2>1. cap'.pc = "mount" /\ cap'.left = Mount /\ cap'.seen = Found
    BY <1>6, CapSteps
  <2>2. Found[p] = disk[p] \/ (Found[p] = Absent /\ p \notin newer)
    BY DEF Found
  <2>3. Harmless(p) \/ p \in newer
    BY ListedOrHarmless
  <2> QED
    BY <1>0, <1>1, <2>1, <2>2, <2>3, PathMount DEF ScannedPath
<1>7. ASSUME NEW m \in Mount, Classify(m) PROVE ScannedPath(p)'
  <2>1. /\ cap.pc = "mount" /\ m \in cap.left /\ cap'.pc = "restage" /\ cap'.left = cap.left \ {m} /\ cap'.seen = cap.seen
        /\ cap'.changed = {q \in Files(m) : m \in table /\ Changed(q)}
    BY <1>7, CapSteps
  <2>2. ScannedPath(p)
    BY <1>0, <2>1 DEF Scanned, Scanning
  <2>3. CASE MountOf[p] # m
    BY <1>0, <1>1, <2>1, <2>2, <2>3 DEF ScannedPath
  <2>4. CASE MountOf[p] = m
    <3>1. Harmless(p) \/ p \in cap'.changed
      <4>1. cap.seen[p] = disk[p] \/ Harmless(p)
        BY <2>1, <2>2, <2>4 DEF ScannedPath
      <4>2. host.pc # "down"
        BY <2>1 DEF Control, Types, CapTypes
      <4>3. CASE m \notin table
        <5>1. m \notin granted
          BY <4>2, <4>3 DEF Control
        <5> QED
          BY <2>4, <5>1 DEF Harmless
      <4>4. CASE m \in table /\ cap.seen[p] = disk[p]
        <5>1. InLineage(p, index[p].sha) /\ InLineage(p, index[p].previous)
          BY DEF ShasHeld
        <5>2. CASE ~Listed(p)
          BY <4>4, <5>2 DEF Listed, Harmless, InLineage
        <5>3. CASE Confirms(p)
          BY <4>4, <5>1, <5>3 DEF Confirms, Harmless
        <5>4. CASE Restage(p) /\ Listed(p)
          BY <4>4, <5>1, <5>4 DEF Restage, Straggler, Stale, Harmless, InLineage
        <5>5. CASE Listed(p) /\ ~Confirms(p) /\ ~Restage(p)
          BY <2>1, <2>4, <4>4, <5>5 DEF Changed, Files
        <5> QED
          BY <5>2, <5>3, <5>4, <5>5
      <4> QED
        BY <4>1, <4>3, <4>4
    <3> QED
      BY <1>0, <1>1, <2>1, <2>4, <3>1 DEF ScannedPath
  <2> QED
    BY <2>3, <2>4
<1>8. CASE Restaged \/ Fetch \/ Commit \/ Committed \/ Classified
  <2>1. ScannedPath(p)
    BY <1>0, <1>8, CapSteps DEF Scanned, Scanning
  <2>2. CASE Restaged
    BY <1>0, <1>1, <2>1, <2>2, CapSteps DEF ScannedPath
  <2>3. CASE Fetch
    <3>1. \A q \in cap.changed : q \in Path => ReadFiles(cap.changed)[q] = disk[q]
      BY DEF ReadFiles
    <3> QED
      BY <1>0, <1>1, <2>1, <2>3, <3>1, CapSteps DEF ScannedPath
  <2>4. CASE Commit
    <3>1. /\ cap.pc = "commit" /\ cap'.pc = "committed" /\ cap'.left = cap.left /\ cap'.seen = cap.seen
      BY <2>4, CapSteps
    <3>2. p \in cap.changed => Harmless(p)'
      <4> SUFFICES ASSUME p \in cap.changed PROVE Harmless(p)'
        OBVIOUS
      <4>1. cap.bytes[p] = disk[p]
        BY <2>1, <3>1 DEF ScannedPath
      <4>2. CASE p \in Differs
        <5>1. InLineage(p, cap.bytes[p])' /\ cap'.bytes = cap.bytes
          BY <2>4, <4>2, LineageGrows, CapSteps
        <5> QED
          BY <1>0, <4>1, <5>1 DEF Harmless, InLineage
      <4>3. CASE p \notin Differs
        <5>1. disk[p] = Tip(p)
          BY <4>1, <4>3 DEF Differs
        <5>2. InLineage(p, disk[p])
          BY <5>1, TipType DEF Types, InLineage
        <5> QED
          BY <1>1, <5>2 DEF Harmless
      <4> QED
        BY <4>2, <4>3
    <3>3. MountOf[p] \notin cap.left => Harmless(p)'
      BY <1>1, <2>1, <3>2 DEF ScannedPath
    <3> QED
      BY <1>0, <1>1, <2>1, <3>1, <3>3 DEF ScannedPath
  <2>5. CASE Committed
    BY <1>0, <1>1, <2>1, <2>5, CapSteps DEF ScannedPath
  <2>6. CASE Classified
    BY <1>0, <1>1, <2>1, <2>6, CapSteps DEF ScannedPath
  <2> QED
    BY <1>8, <2>2, <2>3, <2>4, <2>5, <2>6
<1> QED
  BY <1>3, <1>4, <1>5, <1>6, <1>7, <1>8 DEF Capture

ListInv == Types /\ Control /\ CapShape /\ ShasHeld /\ Scanned /\ WorkIsListed

LEMMA ListInit == Init => ListInv
<1> SUFFICES ASSUME Init PROVE ListInv
  OBVIOUS
<1>1. Types
  BY InitTypes
<1>2. /\ host.pc = "down" /\ cap = NoCapture /\ mirrors = {} /\ job = "idle"
      /\ stage = [w \in Stager |-> NoStage] /\ index = [p \in Path |-> Plain(Absent)] /\ disk = [p \in Path |-> Absent]
  BY AwayType DEF Init, Slot!Init, Stager, HostPc
<1>3. /\ stage["host"].todo = {} /\ stage["job"].todo = {}
      /\ \A w \in Stager, p \in Path : stage[w].read[p] = Absent
  BY <1>2, StageType DEF Stager
<1>4. /\ NoCapture.pc = "off" /\ NoCapture.changed = {} /\ NoCapture.deletes = {} /\ NoCapture.left = {}
      /\ NoCapture.full = FALSE
  BY BeginType
<1>5. Control /\ CapShape /\ Scanned
  BY <1>2, <1>3, <1>4 DEF Control, CapShape, Scanned, Scanning, Busy
<1>6. ShasHeld
  BY <1>2, <1>3, <1>4, PlainType DEF ShasHeld, InLineage, Sha
<1>7. WorkIsListed
  BY <1>2 DEF WorkIsListed
<1> QED
  BY <1>1, <1>5, <1>6, <1>7 DEF ListInv

LEMMA ListStep == ListInv /\ [Next]_vars => ListInv'
<1> SUFFICES ASSUME ListInv, [Next]_vars PROVE ListInv'
  OBVIOUS
<1>1. CASE Next
  BY <1>1, TypesStep, ControlKeeps, CapShapeKeeps, ShasHeldKeeps, ScannedKeeps, ListKeeps DEF ListInv
<1>2. CASE UNCHANGED vars
  <2>1. Types'
    BY <1>2, TypesStep DEF ListInv
  <2>2. UNCHANGED <<history, granted, disk, newer, touched, table, index, mirrors, job, cap, stage, host>>
    BY <1>2 DEF vars, durable, target, slot
  <2>3. Control' /\ CapShape' /\ ShasHeld' /\ Scanned' /\ WorkIsListed'
    BY <2>2 DEF ListInv, Control, CapShape, ShasHeld, Scanned, WorkIsListed, InLineage, Held, Scanning, ScannedPath,
       Harmless, Files, Busy
  <2> QED
    BY <2>1, <2>3 DEF ListInv
<1> QED
  BY <1>1, <1>2

(* Work the branch has not seen stays on the list of the next scan: no     *)
(* stamp that moves, no cycle that fails and no process that dies takes a  *)
(* file off it whose content was never in the lineage of a mount this      *)
(* actor may write.                                                        *)
THEOREM WorkStaysListed == Spec => []WorkIsListed
<1>1. Spec => []ListInv
  BY ListInit, ListStep, PTL DEF Spec
<1>2. ListInv => WorkIsListed
  BY DEF ListInv
<1> QED
  BY <1>1, <1>2, PTL

-----------------------------------------------------------------------------
(* The rest of what steps do: to what befell a path, to the writes on the  *)
(* wire, to the resume guard.                                              *)

\* the writes on the wire when one more is
LEMMA SinceSteps ==
  ASSUME Types, Next, NEW p \in Path
  PROVE  /\ \/ since'[p].edited = since[p].edited /\ (since[p].adrift => since'[p].adrift)
            \/ \E c \in Content : WriteCommits(p, c) /\ since'[p].edited \in {"no", "unreported"}
            \/ /\ ExecStarts \/ CaptureAfterExec
               /\ since'[p].adrift = since[p].adrift
               /\ since'[p].edited = IF since[p].edited # "unreported" THEN since[p].edited
                                     ELSE IF Pending(p) \/ job # "idle" THEN "masked" ELSE "reported"
            \/ /\ \E c \in Content \cup {Absent} : Edit(p, c)
               /\ since'[p].adrift = since[p].adrift
               /\ since'[p].edited = IF host.pc = "exec" THEN "reported" ELSE "unreported"
            \/ Crash /\ since'[p].edited # "reported"
         /\ \A c \in Content : WriteCommits(p, c) /\ job # "idle" => since'[p].adrift
         /\ WriteReplyLost /\ p = host.path => since'[p].adrift
         /\ \A w \in Stager : StageWrites(w) /\ p \in Chunk(w) /\ stage[w].read[p] # Tip(p) => since'[p].adrift
         /\ CaptureFails /\ cap.pc = "committed" /\ p \in cap.changed \cup cap.deletes => since'[p].adrift
<1>0. /\ since \in [Path -> Fate]
      /\ Fate = [edited : {"no", "unreported", "reported", "masked"}, lost : BOOLEAN, ran : BOOLEAN, unsure : BOOLEAN,
                 adrift : BOOLEAN]
  BY DEF Types, SinceTypes, Fate
<1> DEFINE Same == since'[p].edited = since[p].edited /\ (since[p].adrift => since'[p].adrift)
           Moves ==
             \/ Same
             \/ \E c \in Content : WriteCommits(p, c) /\ since'[p].edited \in {"no", "unreported"}
             \/ /\ ExecStarts \/ CaptureAfterExec
                /\ since'[p].adrift = since[p].adrift
                /\ since'[p].edited = IF since[p].edited # "unreported" THEN since[p].edited
                                      ELSE IF Pending(p) \/ job # "idle" THEN "masked" ELSE "reported"
             \/ /\ \E c \in Content \cup {Absent} : Edit(p, c)
                /\ since'[p].adrift = since[p].adrift
                /\ since'[p].edited = IF host.pc = "exec" THEN "reported" ELSE "unreported"
             \/ Crash /\ since'[p].edited # "reported"
<1>1. ASSUME NEW q \in Path, NEW c \in Content, WriteCommits(q, c)
      PROVE  \/ p # q /\ Same
             \/ p = q /\ since'[p].edited \in {"no", "unreported"} /\ (job # "idle" => since'[p].adrift)
  <2>1. since' = [since EXCEPT ![q] = AtWrite(q)]
    BY <1>1 DEF WriteCommits
  <2>2. AtWrite(q).edited \in {"no", "unreported"}
    BY DEF AtWrite
  <2>3. job # "idle" => AtWrite(q).adrift
    BY DEF AtWrite
  <2> QED
    BY <1>0, <2>1, <2>2, <2>3
<1>2. WriteReplyLost => Same /\ (p = host.path => since'[p].adrift)
  <2> SUFFICES ASSUME WriteReplyLost PROVE Same /\ (p = host.path => since'[p].adrift)
    OBVIOUS
  <2>1. since' = [since EXCEPT ![host.path].adrift = TRUE]
    BY DEF WriteReplyLost
  <2> QED
    BY <1>0, <2>1
<1>3. ASSUME NEW w \in mirrors, MirrorFails(w) PROVE Same
  <2>1. since' = [since EXCEPT ![w.path] = Lost(w.path)]
    BY <1>3 DEF MirrorFails
  <2>2. w.path = p => Lost(w.path).edited = since[p].edited /\ Lost(w.path).adrift = since[p].adrift
    BY <1>0 DEF Lost
  <2> QED
    BY <1>0, <2>1, <2>2
<1>4. ASSUME NEW w \in Stager, StageWrites(w)
      PROVE  Same /\ (p \in Chunk(w) /\ stage[w].read[p] # Tip(p) => since'[p].adrift)
  <2> DEFINE l == since[p].lost /\ ~(p \in Chunk(w) /\ stage[w].read[p] = Tip(p) /\ (w = "job" \/ job = "idle"))
             d == since[p].adrift \/ (p \in Chunk(w) /\ stage[w].read[p] # Tip(p))
  <2>1. since'[p] = [since[p] EXCEPT !.lost = l, !.adrift = d]
    BY <1>4 DEF StageWrites
  <2> HIDE DEF l, d
  <2>2. since'[p].edited = since[p].edited /\ since'[p].adrift = d
    BY <1>0, <2>1
  <2> QED
    BY <2>2 DEF d
<1>5. ASSUME ExecStarts \/ CaptureAfterExec PROVE Moves
  <2> DEFINE e(q) == IF since[q].edited # "unreported" THEN since[q].edited
                     ELSE IF Pending(q) \/ job # "idle" THEN "masked" ELSE "reported"
  <2>1. since' = [q \in Path |-> [since[q] EXCEPT !.ran = TRUE, !.edited = e(q)]]
    BY <1>5 DEF ExecStarts, CaptureAfterExec, NoteExec
  <2> HIDE DEF e
  <2>2. since'[p].edited = e(p)
    BY <1>0, <2>1
  <2>3. since'[p].adrift = since[p].adrift
    BY <1>0, <2>1
  <2> QED
    BY <1>5, <2>2, <2>3 DEF e
<1>6. ASSUME NEW q \in Path, NEW c \in Content \cup {Absent}, Edit(q, c)
      PROVE  \/ p # q /\ Same
             \/ /\ p = q /\ since'[p].adrift = since[p].adrift
                /\ since'[p].edited = IF host.pc = "exec" THEN "reported" ELSE "unreported"
  <2> DEFINE e == IF host.pc = "exec" THEN "reported" ELSE "unreported"
  <2>1. since' = [since EXCEPT ![q].edited = e]
    BY <1>6 DEF Edit
  <2> HIDE DEF e
  <2>2. p = q => since'[p].edited = e
    BY <1>0, <2>1
  <2>3. since'[p].adrift = since[p].adrift
    BY <1>0, <2>1
  <2>4. p # q => since'[p] = since[p]
    BY <1>0, <2>1
  <2> QED
    BY <2>2, <2>3, <2>4 DEF e
<1>7. CaptureFails => Same /\ (cap.pc = "committed" /\ p \in cap.changed \cup cap.deletes => since'[p].adrift)
  <2> SUFFICES ASSUME CaptureFails
               PROVE  Same /\ (cap.pc = "committed" /\ p \in cap.changed \cup cap.deletes => since'[p].adrift)
    OBVIOUS
  <2> DEFINE l == since[p].lost \/ GivenUp("job", p)
             d == since[p].adrift \/ (cap.pc = "committed" /\ p \in cap.changed \cup cap.deletes)
  <2>1. since'[p] = [since[p] EXCEPT !.lost = l, !.adrift = d]
    BY DEF CaptureFails
  <2> HIDE DEF l, d
  <2>2. since'[p].edited = since[p].edited /\ since'[p].adrift = d
    BY <1>0, <2>1
  <2> QED
    BY <2>2 DEF d
<1>8. ASSUME Crash PROVE Moves
  <2> DEFINE e == IF since[p].edited = "no" THEN since[p].edited ELSE "unreported"
  <2>1. \E l, r, u : since'[p] = [since[p] EXCEPT !.edited = e, !.lost = l, !.ran = r, !.adrift = FALSE, !.unsure = u]
    BY <1>8 DEF Crash
  <2>2. e # "reported"
    OBVIOUS
  <2> HIDE DEF e
  <2>3. since'[p].edited = e
    BY <1>0, <2>1
  <2> QED
    BY <1>8, <2>2, <2>3
<1>9. ASSUME Commit PROVE Same
  <2> DEFINE u == since[p].unsure \/ (p \in Differs /\ Passing(p))
  <2>1. since'[p] = [since[p] EXCEPT !.unsure = u]
    BY <1>9 DEF Commit
  <2> HIDE DEF u
  <2> QED
    BY <1>0, <2>1
<1>10. ASSUME \/ Materialize \/ WriteReturns \/ Mirror \/ (\E w \in Stager : StageRead(w)) \/ ExecSettled \/ ExecReturns
             \/ Reconcile \/ (Capture /\ ~Commit)
      PROVE  Moves
  <2>1. since' = since
    BY <1>10 DEF Materialize, Attach, Attached, AttachWarm, HydrateTears, HydrateFiles, HydrateDone, WriteReturns,
       Mirror, MirrorTears, MirrorLands,
     MirrorEnds, StageRead, StageTears, ExecSettled, ExecReturns, Reconcile, ReconcileEnters, ReconcileSettled,
     ReconcileScans, Capture,
     Scan, Restaged, Fetch, Committed, Classified, Stamp, Classify
  <2> QED
    BY <2>1
<1>13. ASSUME NEW w \in Stager, StageTears(w) PROVE Same
  <2>1. PICK q \in Path : since' = [since EXCEPT ![q].adrift = since[q].adrift \/ stage[w].read[q] # Tip(q)]
    BY <1>13, StageTurns
  <2> DEFINE d == since[q].adrift \/ stage[w].read[q] # Tip(q)
  <2>2. since' = [since EXCEPT ![q].adrift = d] /\ (since[q].adrift => d)
    BY <2>1
  <2> HIDE DEF d
  <2> QED
    BY <1>0, <2>2
<1>14. ExecFails => Same
  <2> SUFFICES ASSUME ExecFails PROVE Same
    OBVIOUS
  <2> DEFINE l == since[p].lost \/ GivenUp("host", p)
  <2>1. since'[p] = [since[p] EXCEPT !.lost = l]
    BY DEF ExecFails
  <2> HIDE DEF l
  <2> QED
    BY <1>0, <2>1
<1>11. ASSUME ExecCall \/ OwnCommand \/ ReconcileCall \/ (\E m \in Mount : Revoke(m)) PROVE Moves
  <2>1. since' = since
    BY <1>11 DEF ExecCall, OwnCommand, ReconcileCall, Revoke
  <2> QED
    BY <2>1
<1>12. Moves
  BY <1>1, <1>2, <1>3, <1>4, <1>5, <1>6, <1>7, <1>8, <1>9, <1>10, <1>11, <1>13, <1>14
     DEF Next, Engine, Restaging, Stager, Exec, Calls, Target, Failing, Environment
<1> QED
  BY <1>1, <1>2, <1>4, <1>7, <1>12

\* only a write that returned puts a mirror write of its path on the wire
LEMMA PendingSteps ==
  ASSUME Types, Next, NEW p \in Path, Pending(p)'
  PROVE  Pending(p) \/ (WriteReturns /\ p = host.path)
<1>u. ASSUME mirrors' \subseteq mirrors PROVE Pending(p)
  BY <1>u DEF Pending
<1>1. CASE WriteReturns
  <2>1. PICK v \in mirrors' : v.path = p
    BY DEF Pending
  <2>2. v.path = host.path \/ \E w \in mirrors : v.path = w.path
    BY <1>1, <2>1, LaunchSteps
  <2> QED
    BY <1>1, <2>1, <2>2 DEF Pending
<1>2. ASSUME NEW w \in mirrors, MirrorLands(w) PROVE Pending(p)
  <2>1. PICK v : v = [w EXCEPT !.landed = TRUE]
    OBVIOUS
  <2>2. mirrors' = (mirrors \ {w}) \cup {v}
    BY <1>2, <2>1 DEF MirrorLands
  <2>3. v.path = w.path
    BY <2>1
  <2> QED
    BY <2>2, <2>3 DEF Pending
<1>3. CASE Crash \/ \E w \in mirrors : MirrorEnds(w) \/ MirrorFails(w) \/ MirrorTears(w)
  BY <1>u, <1>3 DEF Crash, MirrorEnds, MirrorFails, MirrorTears
<1>4. CASE Materialize \/ Restaging \/ Exec \/ CaptureAfterExec \/ Reconcile \/ Capture
  BY <1>u, <1>4 DEF Materialize, Attach, Attached, AttachWarm, HydrateTears, HydrateFiles, HydrateDone, Restaging,
     StageRead, StageTears, StageWrites,
     Exec, ExecSettled, ExecStarts, ExecReturns, CaptureAfterExec, Reconcile, ReconcileEnters, ReconcileSettled,
     ReconcileScans, Capture, Scan, Restaged, Fetch, Commit, Committed, Classified, Stamp, Classify
<1>5. CASE Calls \/ Target \/ WriteReplyLost \/ ExecFails \/ CaptureFails \/ \E m \in Mount : Revoke(m)
  BY <1>u, <1>5 DEF Calls, WriteCommits, ExecCall, OwnCommand, ReconcileCall, Target, Edit, WriteReplyLost, ExecFails,
     CaptureFails, Revoke
<1> QED
  BY <1>1, <1>2, <1>3, <1>4, <1>5 DEF Next, Engine, Mirror, Failing, Environment

LEMMA ResumeSteps ==
  ASSUME Types, Next, NEW m \in Mount
  PROVE  /\ resume'[m] = resume[m] \/ resume'[m] = Closed \/ (AttachWarm(m) /\ resume'[m] = epoch)
         /\ epoch' = epoch \/ (NoteExec /\ (ExecStarts \/ CaptureAfterExec) /\ resume' = resume)
<1>0. resume \in [Mount -> Nat \cup {Closed}]
  BY DEF Types, IndexTypes
<1>1. ASSUME NEW n \in Mount, AttachWarm(n)
      PROVE  (resume'[m] = resume[m] \/ (AttachWarm(m) /\ resume'[m] = epoch)) /\ epoch' = epoch
  <2>1. resume' = [resume EXCEPT ![n] = epoch] /\ epoch' = epoch
    BY <1>1 DEF AttachWarm
  <2> QED
    BY <1>0, <1>1, <2>1
<1>2. CASE Classified \/ Crash
  BY <1>2 DEF Classified, Crash
<1>3. CASE ExecStarts \/ CaptureAfterExec
  BY <1>3 DEF ExecStarts, CaptureAfterExec
<1>4. CASE \/ Attach \/ Attached \/ (\E n \in Mount : HydrateTears(n) \/ HydrateFiles(n) \/ HydrateDone(n)) \/ WriteReturns \/ Mirror \/ Restaging
           \/ ExecSettled \/ ExecReturns \/ Reconcile \/ (Capture /\ ~Classified)
  BY <1>4 DEF Attach, Attached, HydrateTears, HydrateFiles, HydrateDone, WriteReturns, Mirror, MirrorTears,
     MirrorLands, MirrorEnds, Restaging,
     StageRead, StageTears, StageWrites, ExecSettled, ExecReturns, Reconcile, ReconcileEnters, ReconcileSettled,
     ReconcileScans, Capture,
     Scan, Restaged, Fetch, Commit, Committed, Stamp, Classify
<1>5. CASE Calls \/ Target \/ Failing \/ (\E n \in Mount : Revoke(n))
  BY <1>5 DEF Calls, WriteCommits, ExecCall, OwnCommand, ReconcileCall, Target, Edit, Failing, WriteReplyLost, ExecFails,
     CaptureFails, MirrorFails, Revoke
<1> QED
  BY <1>1, <1>2, <1>3, <1>4, <1>5 DEF Next, Engine, Materialize, Exec, Environment

-----------------------------------------------------------------------------
(* Convergence: what the index and the mirror hold, while nothing else     *)
(* moves them.                                                             *)

\* the index follows the branch, but where a step is still to come that makes it
IndexFollows ==
    /\ \A p \in Path :
          \/ index[p].sha = Tip(p) \/ since[p].adrift \/ host.pc = "down"
          \/ host.pc = "attach" /\ MountOf[p] \in host.left
          \/ host.pc = "written" /\ p = host.path
          \/ cap.pc = "committed" /\ p \in cap.changed \cup cap.deletes
    /\ host.pc = "written" => (host.sha = Tip(host.path) /\ job = "idle") \/ since[host.path].adrift
    /\ cap.pc = "committed" => \A p \in cap.changed \cup cap.deletes : cap.bytes[p] = Tip(p) \/ since[p].adrift

\* what is staged again is neither committed nor deleted
StagedApart == cap.pc = "restage" => stage["job"].todo \subseteq Files(cap.mount) \ (cap.changed \cup cap.deletes)

Processed(p) ==
    \/ disk[p] = index[p].sha \/ since[p].adrift
    \/ cap.pc = "restage" /\ p \in stage["job"].todo
    \/ cap.pc \in Busy /\ p \in cap.changed \cup cap.deletes
Converging ==
    cap.full /\ cap.pc # "scan" =>
        /\ \A p \in Path : MountOf[p] \in cap.left => cap.seen[p] = disk[p]
        /\ \A p \in Path : MountOf[p] \in table \ cap.left => Processed(p)
        /\ \A p \in cap.deletes : disk[p] = Absent
        /\ cap.pc \in {"commit", "committed"} => \A p \in cap.changed \cup cap.deletes : cap.bytes[p] = disk[p]

\* what a write is told of the branch, after each step
LEMMA TipSteps ==
  ASSUME Types, Next, NEW p \in Path
  PROVE  \/ Tip(p)' = Tip(p)
         \/ \E c \in Content : WriteCommits(p, c) /\ Tip(p)' = c
         \/ Commit /\ p \in Differs /\ Tip(p)' = cap.bytes[p]
  BY HistorySteps, LineageGrows

\* while a write's reply is on its way, a job runs only if it ran when the write was made
LEMMA WrittenJob ==
  ASSUME Types, Control, Next, host.pc = "written", host' = host, job = "idle"
  PROVE  job' = "idle" /\ ~Commit
<1>1. cap.pc = "off" /\ ~Commit
  BY CapSteps DEF Types, CapTypes
<1>2. ~ExecReturns /\ ~CaptureAfterExec /\ ~ReconcileEnters /\ ~Crash
  BY HostSteps, CapSteps
<1>3. ~Stamp /\ ~CaptureFails
  BY EndTypes DEF Stamp, CaptureFails, Types
<1>4. ~Capture /\ ~ReconcileSettled /\ ~ReconcileScans
  BY <1>1, <1>3, CapSteps DEF Capture
<1> QED
  BY <1>1, <1>2, <1>3, <1>4, JobStays DEF JobMoves

\* a step that is neither the death of the process nor a new write of a path keeps it adrift
LEMMA AdriftStays ==
  ASSUME Types, Next, NEW p \in Path, since[p].adrift, ~Crash, ~\E c \in Content : WriteCommits(p, c)
  PROVE  since'[p].adrift
  BY SinceSteps

\* what can happen to the host's call, by where it is
LEMMA HostMoves ==
  ASSUME Types, Next
  PROVE  \/ host' = host
         \/ Attach \/ Attached \/ (\E m \in Mount : AttachWarm(m) \/ HydrateDone(m)) \/ WriteReturns \/ Exec
         \/ CaptureAfterExec \/ (\E p \in Path, c \in Content : WriteCommits(p, c)) \/ ExecCall \/ OwnCommand
         \/ ReconcileCall \/ WriteReplyLost \/ ExecFails \/ Crash
         \/ (Stamp \/ CaptureFails) /\ JobEnds /\ job = "exclusive"
<1>1. CASE (\E m \in Mount : HydrateTears(m) \/ HydrateFiles(m)) \/ Mirror \/ Restaging \/ Reconcile \/ (Capture /\ ~Stamp) \/ Target
           \/ (\E w \in mirrors : MirrorFails(w)) \/ (\E m \in Mount : Revoke(m))
  BY <1>1 DEF HydrateTears, HydrateFiles, Mirror, MirrorTears, MirrorLands, MirrorEnds, Restaging, StageRead,
     StageTears, StageWrites, Reconcile, ReconcileEnters,
     ReconcileSettled, ReconcileScans, Capture, Scan, Restaged, Fetch, Commit, Committed, Classified, Classify, Target, Edit,
     MirrorFails, Revoke
<1>2. CASE Stamp \/ CaptureFails
  BY <1>2 DEF Stamp, CaptureFails, JobEnds
<1> QED
  BY <1>1, <1>2 DEF Next, Engine, Materialize, Exec, Calls, Failing, Environment

LEMMA DownSteps ==
  ASSUME Types, Control, Next, host.pc = "down"
  PROVE  host' = host \/ (host'.pc = "attach" /\ host'.left = Mount)
<1>1. job = "idle"
  BY DEF Control
<1> QED
  BY <1>1, HostMoves, HostSteps DEF Exec

LEMMA AttachSteps ==
  ASSUME Types, Control, Next, host.pc = "attach", host.left # {}, ~Crash,
         ~\E m \in Mount : AttachWarm(m) \/ HydrateDone(m)
  PROVE  host' = host
<1>1. job = "idle"
  BY DEF Control
<1> QED
  BY <1>1, HostMoves, HostSteps DEF Exec

LEMMA WriteSteps ==
  ASSUME Types, Control, Next, host.pc = "written", ~Crash, ~WriteReturns, ~WriteReplyLost
  PROVE  host' = host
<1>1. job # "exclusive"
  BY DEF Control
<1> QED
  BY <1>1, HostMoves, HostSteps DEF Exec

LEMMA CommittedSteps ==
  ASSUME Types, Next, cap.pc = "committed", ~Crash, ~Committed, ~CaptureFails
  PROVE  cap' = cap
<1>1. job # "idle"
  BY DEF Types, CapTypes
<1>2. CASE ExecReturns \/ CaptureAfterExec
  BY <1>1, <1>2, TriggerTypes DEF ExecReturns, CaptureAfterExec, Types
<1>3. ~Stamp
  BY DEF Stamp
<1>4. ~ReconcileEnters /\ ~ReconcileSettled /\ ~ReconcileScans /\ ~(Capture /\ ~Stamp)
  BY <1>1, CapSteps DEF Capture
<1> QED
  BY <1>2, <1>3, <1>4, JobStays DEF JobMoves

LEMMA FollowsKeeps ==
  ASSUME Types, Control, CapShape, IndexFollows, Next
  PROVE  IndexFollows'
<1>1. ASSUME NEW p \in Path
      PROVE  \/ index'[p].sha = Tip(p)' \/ since'[p].adrift \/ host'.pc = "down"
             \/ host'.pc = "attach" /\ MountOf[p] \in host'.left
             \/ host'.pc = "written" /\ p = host'.path
             \/ cap'.pc = "committed" /\ p \in cap'.changed \cup cap'.deletes
  <2> DEFINE Goal ==
             \/ index'[p].sha = Tip(p)' \/ since'[p].adrift \/ host'.pc = "down"
             \/ host'.pc = "attach" /\ MountOf[p] \in host'.left
             \/ host'.pc = "written" /\ p = host'.path
             \/ cap'.pc = "committed" /\ p \in cap'.changed \cup cap'.deletes
  <2>0. Tip(p) \in Sha
    BY TipType DEF Types
  <2>1. CASE Crash \/ \E c \in Content : WriteCommits(p, c)
    BY <2>1, HostSteps
  <2> SUFFICES ASSUME ~Crash, ~\E c \in Content : WriteCommits(p, c) PROVE Goal
    BY <2>1
  <2>2. CASE since[p].adrift
    BY <2>2, AdriftStays
  <2>3. CASE Commit /\ p \in Differs
    <3>1. cap'.pc = "committed" /\ p \in cap'.changed \cup cap'.deletes
      BY <2>3, CapSteps
    <3> QED
      BY <3>1
  <2> SUFFICES ASSUME Tip(p)' = Tip(p), ~since[p].adrift PROVE Goal
    BY <2>2, <2>3, TipSteps
  <2>4. CASE \E m \in Mount : AttachWarm(m) \/ HydrateDone(m)
    <3>1. PICK m \in Mount : AttachWarm(m) \/ HydrateDone(m)
      BY <2>4
    <3>2. host.pc = "attach" /\ host'.pc = "attach" /\ host'.left = host.left \ {m} /\ job = "idle" /\ cap.pc = "off"
      BY <3>1, HostSteps DEF Control, Types, CapTypes
    <3>3. CASE MountOf[p] = m
      <4>1. index'[p] = Plain(Tip(p))
        BY <3>1, <3>3 DEF AttachWarm, HydrateDone, Seed
      <4> QED
        BY <2>0, <4>1, PlainType
    <3>4. CASE MountOf[p] # m
      <4>1. index'[p] = index[p]
        BY <3>1, <3>4 DEF AttachWarm, HydrateDone, Seed
      <4> QED
        BY <3>2, <3>4, <4>1 DEF IndexFollows
    <3> QED
      BY <3>3, <3>4
  <2>5. CASE WriteReturns
    <3>1. host.pc = "written" /\ host.sha \in Sha /\ host.path \in Path
      BY <2>5 DEF WriteReturns, Types, HostTypes, Sha
    <3>2. CASE p = host.path
      <4>1. host.sha = Tip(p)
        BY <3>1, <3>2 DEF IndexFollows
      <4>2. index'[p].sha = host.sha
        <5>1. index' = [index EXCEPT ![p] = [Plain(host.sha) EXCEPT
                         !.previous = Confirmed(p), !.unconfirmed = TRUE, !.writeEpoch = epoch]]
          BY <2>5, <3>2 DEF WriteReturns
        <5>2. index'[p] = [Plain(host.sha) EXCEPT !.previous = Confirmed(p), !.unconfirmed = TRUE, !.writeEpoch = epoch]
          BY <5>1 DEF Types, IndexTypes
        <5> QED
          BY <5>2 DEF Plain
      <4> QED
        BY <4>1, <4>2
    <3>3. CASE p # host.path
      <4>1. index'[p] = index[p] /\ cap' = cap
        BY <2>5, <3>3 DEF WriteReturns, Types, IndexTypes
      <4> QED
        BY <3>1, <3>3, <4>1 DEF IndexFollows
    <3> QED
      BY <3>2, <3>3
  <2>6. CASE \E w \in Stager : StageWrites(w) /\ p \in Chunk(w)
    <3>1. PICK w \in Stager : StageWrites(w) /\ p \in Chunk(w)
      BY <2>6
    <3>2. index'[p] = Plain(stage[w].read[p]) /\ stage[w].read[p] \in Sha
      BY <3>1, StageChanges DEF StageWrites, Chunk, Sha
    <3> QED
      BY <3>1, <3>2, PlainType, SinceSteps
  <2>7. CASE Committed
    <3>1. cap.pc = "committed" /\ host' = host
      BY <2>7 DEF Committed
    <3>2. CASE p \in cap.changed \cup cap.deletes
      <4>1. index'[p] = Plain(cap.bytes[p]) /\ cap.bytes[p] \in Sha
        BY <2>7, <3>2 DEF Committed, Types, CapTypes, CapRecord
      <4> QED
        BY <3>1, <3>2, <4>1, PlainType DEF IndexFollows
    <3>3. CASE p \notin cap.changed \cup cap.deletes
      <4>1. index'[p] = index[p]
        BY <2>7, <3>3 DEF Committed
      <4> QED
        BY <3>1, <3>3, <4>1 DEF IndexFollows
    <3> QED
      BY <3>2, <3>3
  <2> SUFFICES ASSUME index'[p].sha = index[p].sha, ~WriteReturns, ~Committed,
                      ~\E m \in Mount : AttachWarm(m) \/ HydrateDone(m)
               PROVE  Goal
    BY <2>4, <2>5, <2>6, <2>7, IndexSteps
  <2>8. CASE index[p].sha = Tip(p)
    BY <2>8
  <2>9. CASE host.pc = "down"
    <3>1. host' = host \/ (host'.pc = "attach" /\ host'.left = Mount)
      BY <2>9, DownSteps
    <3> QED
      BY <2>9, <3>1, PathMount
  <2>10. CASE host.pc = "attach" /\ MountOf[p] \in host.left
    <3>1. host' = host
      BY <2>10, AttachSteps
    <3> QED
      BY <2>10, <3>1
  <2>11. CASE host.pc = "written" /\ p = host.path
    <3>1. CASE WriteReplyLost
      BY <2>11, <3>1, SinceSteps
    <3>2. CASE ~WriteReplyLost
      BY <2>11, <3>2, WriteSteps
    <3> QED
      BY <3>1, <3>2
  <2>12. CASE cap.pc = "committed" /\ p \in cap.changed \cup cap.deletes
    <3>1. CASE CaptureFails
      BY <2>12, <3>1, SinceSteps
    <3>2. CASE ~CaptureFails
      BY <2>12, <3>2, CommittedSteps
    <3> QED
      BY <3>1, <3>2
  <2> QED
    BY <2>8, <2>9, <2>10, <2>11, <2>12 DEF IndexFollows
<1>2. ASSUME host'.pc = "written"
      PROVE  (host'.sha = Tip(host.path)' /\ job' = "idle") \/ since'[host'.path].adrift
  <2>1. CASE \E p \in Path, c \in Content : WriteCommits(p, c)
    <3>1. PICK p \in Path, c \in Content : WriteCommits(p, c)
      BY <2>1
    <3>2. host'.path = p /\ host'.sha = c /\ Tip(p)' = c /\ job' = job
      BY <3>1, HostSteps, LineageGrows DEF WriteCommits, slot
    <3>3. job # "idle" => since'[p].adrift
      BY <3>1, SinceSteps
    <3> QED
      BY <3>2, <3>3 DEF Tip
  <2>2. CASE ~\E p \in Path, c \in Content : WriteCommits(p, c)
    <3>1. host' = host
      BY <1>2, <2>2, WrittenStays
    <3>2. PICK p \in Path : p = host.path
      BY <1>2, <3>1 DEF Types, HostTypes
    <3>3. ~Crash
      BY <1>2, HostSteps
    <3>4. CASE since[p].adrift
      BY <2>2, <3>1, <3>2, <3>3, <3>4, AdriftStays
    <3>5. CASE host.sha = Tip(p) /\ job = "idle"
      <4>1. job' = "idle" /\ ~Commit
        BY <1>2, <3>1, <3>5, WrittenJob
      <4>2. Tip(p)' = Tip(p)
        BY <2>2, <4>1, TipSteps
      <4> QED
        BY <3>1, <3>2, <3>5, <4>1, <4>2 DEF Tip
    <3> QED
      BY <1>2, <3>1, <3>2, <3>4, <3>5 DEF IndexFollows
  <2> QED
    BY <2>1, <2>2
<1>3. ASSUME cap'.pc = "committed", NEW p \in cap'.changed \cup cap'.deletes
      PROVE  cap'.bytes[p] = Tip(p)' \/ since'[p].adrift
  <2>1. CASE Commit
    <3>1. cap'.bytes = cap.bytes /\ p \in cap.changed \cup cap.deletes /\ p \in Path
      BY <1>3, <2>1, CapSteps DEF Differs, Types, CapTypes, CapRecord
    <3>2. p \in Differs => Tip(p)' = cap.bytes[p]
      BY <2>1, <3>1, LineageGrows
    <3>3. p \notin Differs => Tip(p) = cap.bytes[p]
      BY <3>1 DEF Differs
    <3>4. p \notin Differs => Tip(p)' = Tip(p)
      BY <2>1, <3>1 DEF Commit, Tip
    <3> QED
      BY <3>1, <3>2, <3>3, <3>4
  <2>2. CASE ~Commit
    <3>1. cap' = cap /\ p \in Path
      BY <1>3, <2>2, CommittedStays DEF Types, CapTypes, CapRecord
    <3>2. ~Crash
      BY <1>3, BeginType DEF Crash
    <3>3. CASE \E c \in Content : WriteCommits(p, c)
      <4>1. job # "idle"
        BY <1>3, <3>1 DEF Types, CapTypes
      <4> QED
        BY <3>1, <3>3, <4>1, SinceSteps
    <3>4. CASE ~\E c \in Content : WriteCommits(p, c)
      <4>1. Tip(p)' = Tip(p)
        BY <2>2, <3>1, <3>4, TipSteps
      <4>2. cap.bytes[p] = Tip(p) \/ since[p].adrift
        BY <1>3, <3>1 DEF IndexFollows
      <4> QED
        BY <3>1, <3>2, <3>4, <4>1, <4>2, AdriftStays
    <3> QED
      BY <3>3, <3>4
  <2> QED
    BY <2>1, <2>2
<1> QED
  BY <1>1, <1>2, <1>3 DEF IndexFollows

LEMMA TableStays ==
  ASSUME Next, ~Attach, ~ReconcileScans, ~Crash
  PROVE  table' = table
<1>1. CASE Engine
  BY <1>1 DEF Engine, Mirror, MirrorTears, MirrorLands, MirrorEnds, WriteReturns, Materialize, Attached, AttachWarm,
     HydrateTears, HydrateFiles,
     HydrateDone, Restaging, StageRead, StageTears, StageWrites, Exec, ExecSettled, ExecStarts, ExecReturns,
     CaptureAfterExec, Reconcile,
     ReconcileEnters, ReconcileSettled, Capture, Scan, Restaged, Fetch, Commit, Committed, Classified, Stamp, Classify
<1>2. CASE Calls \/ Target \/ Environment \/ Failing
  BY <1>2 DEF Calls, WriteCommits, ExecCall, OwnCommand, ReconcileCall, Target, Edit, Environment, Revoke, Failing,
     WriteReplyLost, ExecFails, CaptureFails, MirrorFails
<1> QED
  BY <1>1, <1>2 DEF Next

\* what the job stages, after each step
LEMMA JobStage ==
  ASSUME Types, Control, Next, cap'.pc = "restage"
  PROVE  \/ /\ cap' = cap /\ stage'["job"].todo \subseteq stage["job"].todo
            /\ \A p \in stage["job"].todo \ stage'["job"].todo : StageWrites("job") /\ p \in Chunk("job")
         \/ \E m \in Mount : Classify(m)
<1>0. "host" \in Stager /\ "job" \in Stager
  BY DEF Stager
<1>1. CASE JobMoves /\ ~(\E m \in Mount : Classify(m))
  <2>1. CASE ReconcileEnters \/ ReconcileSettled \/ Scan \/ Restaged \/ Fetch \/ Commit \/ Committed \/ Classified
    BY <2>1, CapSteps
  <2>2. CASE ~(ReconcileEnters \/ ReconcileSettled \/ Scan \/ Restaged \/ Fetch \/ Commit \/ Committed \/ Classified)
    <3>1. cap' = cap /\ job' = job /\ ~ReconcileScans /\ ~Crash
      BY <1>1, <2>2, CapTurns, CapSteps, BeginType DEF Capture, Crash
    <3>2. ~Stamp /\ ~CaptureFails
      BY <3>1, EndTypes, BeginType DEF Stamp, CaptureFails, Types, CapTypes
    <3>3. ExecReturns \/ CaptureAfterExec
      BY <1>1, <2>2, <3>1, <3>2 DEF JobMoves, Capture
    <3>4. stage' = stage
      BY <3>3 DEF ExecReturns, CaptureAfterExec
    <3> QED
      BY <3>1, <3>4
  <2> QED
    BY <2>1, <2>2
<1>2. CASE ~JobMoves
  <2>1. cap' = cap
    BY <1>2, JobStays
  <2>2. CASE \E w \in Stager : StageWrites(w) \/ StageRead(w)
    BY <1>0, <2>1, <2>2, StageSteps
  <2>3. CASE ExecSettled \/ ExecFails
    BY <2>1, <2>3, StageSteps
  <2>4. CASE Materialize \/ WriteReturns \/ Mirror \/ ExecStarts \/ Calls \/ Target \/ WriteReplyLost
             \/ (\E w \in mirrors : MirrorFails(w)) \/ (\E m \in Mount : Revoke(m)) \/ (\E w \in Stager : StageTears(w))
    <3>1. stage' = stage
      BY <2>4 DEF StageTears, Materialize, Attach, Attached, AttachWarm, HydrateTears, HydrateFiles, HydrateDone,
         WriteReturns, Mirror, MirrorTears, MirrorLands,
         MirrorEnds, ExecStarts, Calls, WriteCommits, ExecCall, OwnCommand, ReconcileCall, Target, Edit, WriteReplyLost,
         MirrorFails, Revoke
    <3> QED
      BY <2>1, <3>1
  <2> QED
    BY <1>2, <2>2, <2>3, <2>4 DEF Next, Engine, Restaging, Stager, Exec, Reconcile, Failing, Environment, JobMoves
<1> QED
  BY <1>1, <1>2

LEMMA ApartKeeps ==
  ASSUME Types, Control, StagedApart, Next
  PROVE  StagedApart'
<1> SUFFICES ASSUME cap'.pc = "restage"
             PROVE  stage'["job"].todo \subseteq Files(cap'.mount) \ (cap'.changed \cup cap'.deletes)
  BY DEF StagedApart, Files
<1>1. ASSUME NEW m \in Mount, Classify(m)
      PROVE  stage'["job"].todo \subseteq Files(cap'.mount) \ (cap'.changed \cup cap'.deletes)
  <2>1. /\ cap'.mount = m
        /\ cap'.changed = {p \in Files(m) : m \in table /\ Changed(p)}
        /\ cap'.deletes = {p \in Files(m) : m \in table /\ Deleted(p)}
    BY <1>1, CapSteps
  <2>2. stage'["job"].todo = {p \in Files(m) : m \in table /\ Restage(p)}
    BY <1>1, StageSteps
  <2> QED
    BY <2>1, <2>2 DEF Changed, Deleted
<1> QED
  BY <1>1, JobStage DEF StagedApart

\* while a reconcile captures, nothing but its own staging and committing moves mirror, index and branch
LEMMA FullQuiet ==
  ASSUME Types, Control, Next, cap'.full, cap'.pc # "scan"
  PROVE  /\ cap.full /\ host.pc = "reconcile" /\ table' = table
         /\ \A p \in Path :
              /\ since[p].adrift => since'[p].adrift
              /\ \/ disk'[p] = disk[p] /\ (index'[p].sha = index[p].sha \/ (Committed /\ p \in cap.changed \cup cap.deletes))
                 \/ /\ StageWrites("job") /\ p \in Chunk("job") /\ cap.pc = "restage" /\ cap' = cap
                    /\ disk'[p] = stage["job"].read[p] /\ index'[p].sha = disk'[p]
                 \/ p \in stage'["job"].todo /\ stage' = stage /\ cap.pc = "restage" /\ cap' = cap /\ ~Committed
<1>1. ~ReconcileEnters /\ ~ReconcileSettled /\ ~ReconcileScans /\ ~Crash /\ ~Stamp /\ ~CaptureFails
  <2>1. cap'.full \in BOOLEAN /\ ~NoCapture.full /\ ~Begin(FALSE).full /\ Begin(TRUE).pc = "scan"
    BY TypesStep, BeginType DEF Types, CapTypes, CapRecord
  <2>2. ~ReconcileScans /\ ~Crash /\ ~ReconcileEnters
    BY <2>1, CapSteps DEF Crash
  <2>3. ~ReconcileSettled
    BY CapSteps DEF Control
  <2>4. ~Stamp /\ ~CaptureFails
    BY <2>1, EndTypes DEF Stamp, CaptureFails, Types
  <2> QED
    BY <2>2, <2>3, <2>4
<1>2. cap.full
  <2>1. CASE ExecReturns \/ CaptureAfterExec
    BY <2>1, TriggerTypes, BeginType DEF ExecReturns, CaptureAfterExec, Types
  <2> QED
    BY <1>1, <2>1, JobStays, CapSteps DEF JobMoves, Capture
<1>3. host.pc = "reconcile" /\ mirrors = {} /\ stage["host"].todo = {} /\ cap.pc \notin {"settling", "staging"}
  BY <1>2 DEF Control
<1>4. table' = table
  BY <1>1, <1>3, TableStays, HostSteps
<1>5. ASSUME NEW p \in Path PROVE since[p].adrift => since'[p].adrift
  BY <1>1, <1>3, AdriftStays, HostSteps
<1>6. ASSUME NEW w \in Stager, Stages(w)
      PROVE  w = "job" /\ cap.pc = "restage" /\ cap' = cap
  <2>1. stage[w].todo # {}
    <3>1. Chunk(w) # {}
      BY <1>6, StageChanges, StageTurns DEF Stages
    <3> QED
      BY <3>1 DEF Chunk
  <2>2. w = "job" /\ stage["job"].todo # {}
    BY <1>3, <2>1 DEF Stager
  <2>3. cap' = cap
    BY <1>6 DEF Stages, StageWrites, StageTears
  <2> QED
    BY <1>3, <2>2, <2>3 DEF Control
<1>7. ASSUME NEW p \in Path
      PROVE  \/ disk'[p] = disk[p] /\ (index'[p].sha = index[p].sha \/ (Committed /\ p \in cap.changed \cup cap.deletes))
             \/ /\ StageWrites("job") /\ p \in Chunk("job") /\ cap.pc = "restage" /\ cap' = cap
                /\ disk'[p] = stage["job"].read[p] /\ index'[p].sha = disk'[p]
             \/ p \in stage'["job"].todo /\ stage' = stage /\ cap.pc = "restage" /\ cap' = cap /\ ~Committed
  <2>1. CASE \E w \in Stager : StageWrites(w) /\ p \in Chunk(w)
    <3>1. PICK w \in Stager : StageWrites(w) /\ p \in Chunk(w)
      BY <2>1
    <3>2. w = "job" /\ cap.pc = "restage" /\ cap' = cap
      BY <1>6, <3>1 DEF Stages
    <3>3. disk'[p] = stage[w].read[p]
      <4>1. PICK new : new = [q \in Chunk(w) |-> stage[w].read[q]]
        OBVIOUS
      <4>2. Change(new) /\ DOMAIN new = Chunk(w) /\ new[p] = stage[w].read[p]
        BY <3>1, <4>1, StageChanges
      <4> QED
        BY <3>1, <4>2 DEF Change
    <3>4. index'[p] = Plain(stage[w].read[p]) /\ stage[w].read[p] \in Sha
      BY <3>1, StageChanges DEF StageWrites, Chunk, Sha
    <3> QED
      BY <3>1, <3>2, <3>3, <3>4, PlainType
  <2>3. CASE \E w \in Stager : StageTears(w) /\ p \in Chunk(w)
    <3>1. PICK w \in Stager : StageTears(w) /\ p \in Chunk(w)
      BY <2>3
    <3>2. w = "job" /\ cap.pc = "restage" /\ cap' = cap
      BY <1>6, <3>1 DEF Stages
    <3>3. stage' = stage /\ p \in stage[w].todo
      BY <3>1, StageSteps DEF Chunk
    <3>4. ~Committed
      BY <3>2 DEF Committed
    <3> QED
      BY <3>2, <3>3, <3>4
  <2>2. CASE ~\E w \in Stager : Stages(w) /\ p \in Chunk(w)
    <3>1. disk'[p] = disk[p]
      <4>1. ~\E m \in Mount : HydrateTears(m) \/ HydrateFiles(m)
        BY <1>3 DEF HydrateTears, HydrateFiles
      <4>3. mirrors = {} /\ ~\E m \in Mount : Hydrates(m)
        BY <1>3, <4>1 DEF Hydrates
      <4>2. ~\E c \in Content \cup {Absent} : Edit(p, c)
        BY <1>3 DEF Edit
      <4> QED
        BY <2>2, <4>2, <4>3, DiskSteps
    <3>2. index'[p].sha = index[p].sha \/ (Committed /\ p \in cap.changed \cup cap.deletes)
      BY <1>1, <1>3, <2>2, IndexSteps, HostSteps DEF Stages
    <3> QED
      BY <3>1, <3>2
  <2> QED
    BY <2>1, <2>2, <2>3 DEF Stages
<1> QED
  BY <1>2, <1>3, <1>4, <1>5, <1>7

LEMMA ConvergingKeeps ==
  ASSUME Types, Control, CapShape, IndexFollows, StagedApart, Converging, Next
  PROVE  Converging'
<1> SUFFICES ASSUME cap'.full, cap'.pc # "scan" PROVE Converging'
  BY DEF Converging
<1>q. /\ cap.full /\ host.pc = "reconcile" /\ table' = table
      /\ \A p \in Path :
           /\ since[p].adrift => since'[p].adrift
           /\ \/ disk'[p] = disk[p] /\ (index'[p].sha = index[p].sha \/ (Committed /\ p \in cap.changed \cup cap.deletes))
              \/ /\ StageWrites("job") /\ p \in Chunk("job") /\ cap.pc = "restage" /\ cap' = cap
                 /\ disk'[p] = stage["job"].read[p] /\ index'[p].sha = disk'[p]
              \/ p \in stage'["job"].todo /\ stage' = stage /\ cap.pc = "restage" /\ cap' = cap /\ ~Committed
  BY FullQuiet
<1>t. cap \in CapRecord /\ cap.changed \subseteq Path /\ cap.deletes \subseteq Path /\ cap.left \subseteq Mount /\ table \subseteq Mount
  BY DEF Types, CapTypes, CapRecord, TargetTypes
<1>s. /\ cap.pc # "scan" => /\ \A p \in Path : MountOf[p] \in cap.left => cap.seen[p] = disk[p]
                            /\ \A p \in Path : MountOf[p] \in table \ cap.left => Processed(p)
                            /\ \A p \in cap.deletes : disk[p] = Absent
                            /\ cap.pc \in {"commit", "committed"} =>
                                   \A p \in cap.changed \cup cap.deletes : cap.bytes[p] = disk[p]
  BY <1>q DEF Converging
<1>g. ASSUME \A p \in Path : MountOf[p] \in cap'.left => cap'.seen[p] = disk'[p],
             \A p \in Path : MountOf[p] \in table \ cap'.left => Processed(p)',
             \A p \in cap'.deletes : disk'[p] = Absent,
             cap'.pc \in {"commit", "committed"} => \A p \in cap'.changed \cup cap'.deletes : cap'.bytes[p] = disk'[p]
      PROVE  Converging'
  BY <1>g, <1>q DEF Converging
<1>1. CASE Scan
  <2>1. cap'.pc = "mount" /\ cap'.left = Mount /\ cap'.seen = Found /\ cap'.deletes = {}
    BY <1>1, CapSteps DEF CapShape, Busy
  <2>2. \A p \in Path : Found[p] = disk[p] /\ disk'[p] = disk[p]
    BY <1>1, <1>q DEF Found, Scan, target
  <2>3. \A p \in Path : MountOf[p] \notin table \ Mount
    BY <1>t
  <2> QED
    BY <1>g, <2>1, <2>2, <2>3
<1>2. ASSUME NEW m \in Mount, Classify(m) PROVE Converging'
  <2>1. /\ cap.pc = "mount" /\ m \in cap.left /\ cap'.pc = "restage" /\ cap'.left = cap.left \ {m} /\ cap'.seen = cap.seen
        /\ cap'.changed = {p \in Files(m) : m \in table /\ Changed(p)}
        /\ cap'.deletes = {p \in Files(m) : m \in table /\ Deleted(p)}
        /\ stage'["job"].todo = {p \in Files(m) : m \in table /\ Restage(p)}
    BY <1>2, CapSteps, StageSteps
  <2>2. \A p \in Path : disk'[p] = disk[p] /\ index'[p].sha = index[p].sha
    BY <1>q, <2>1, CapSteps
  <2>3. ASSUME NEW p \in Path, MountOf[p] \in table \ cap'.left PROVE Processed(p)'
    <3>1. CASE MountOf[p] # m
      <4>1. Processed(p) /\ cap.pc = "mount"
        BY <1>s, <2>1, <2>3, <3>1
      <4>2. disk[p] = index[p].sha \/ since[p].adrift
        BY <4>1 DEF Processed, Busy
      <4> QED
        BY <1>q, <2>2, <4>2 DEF Processed
    <3>2. CASE MountOf[p] = m
      <4>1. cap.seen[p] = disk[p] /\ m \in table /\ p \in Files(m)
        BY <1>s, <2>1, <2>3, <3>2 DEF Files
      <4>2. CASE disk[p] = index[p].sha
        BY <2>2, <4>2 DEF Processed
      <4>3. CASE disk[p] # index[p].sha
        <5>1. Restage(p) \/ Changed(p) \/ Deleted(p)
          BY <1>q, <4>1, <4>3 DEF Changed, Deleted, Restage, Diverges, Known, Listed, Confirms
        <5>2. p \in stage'["job"].todo \/ p \in cap'.changed \cup cap'.deletes
          BY <2>1, <4>1, <5>1
        <5> QED
          BY <2>1, <5>2 DEF Processed, Busy
      <4> QED
        BY <4>2, <4>3
    <3> QED
      BY <3>1, <3>2
  <2>4. ASSUME NEW p \in cap'.deletes PROVE disk'[p] = Absent
    <3>1. p \in Path /\ MountOf[p] = m /\ cap.seen[p] = Absent
      BY <2>1 DEF Files, Deleted, Listed
    <3> QED
      BY <1>s, <2>1, <2>2, <3>1
  <2>5. \A p \in Path : MountOf[p] \in cap'.left => cap'.seen[p] = disk'[p]
    BY <1>s, <2>1, <2>2
  <2> QED
    BY <1>g, <2>1, <2>3, <2>4, <2>5
<1>3. CASE Restaged
  <2>1. /\ cap.pc = "restage" /\ cap'.left = cap.left /\ cap'.seen = cap.seen /\ cap'.changed = cap.changed
        /\ cap'.deletes = cap.deletes /\ stage["job"].todo = {}
        /\ cap'.pc = IF cap.changed \cup cap.deletes = {} THEN "mount" ELSE "fetch"
    BY <1>3, CapSteps DEF Restaged
  <2>2. \A p \in Path : disk'[p] = disk[p] /\ index'[p].sha = index[p].sha /\ (since[p].adrift => since'[p].adrift)
    BY <1>3, <1>q DEF Restaged, target
  <2>3. ASSUME NEW p \in Path, MountOf[p] \in table \ cap'.left PROVE Processed(p)'
    <3>1. \/ disk[p] = index[p].sha \/ since[p].adrift
          \/ p \in cap.changed \cup cap.deletes
      BY <1>s, <2>1, <2>3 DEF Processed
    <3> QED
      BY <2>1, <2>2, <3>1 DEF Processed, Busy
  <2> QED
    BY <1>g, <1>s, <1>t, <2>1, <2>2, <2>3
<1>4. CASE Fetch
  <2>1. /\ cap.pc = "fetch" /\ cap'.left = cap.left /\ cap'.seen = cap.seen /\ cap'.changed = cap.changed
        /\ cap'.deletes = cap.deletes /\ cap'.pc = "commit" /\ cap'.bytes = ReadFiles(cap.changed)
    BY <1>4, CapSteps
  <2>2. \A p \in Path : disk'[p] = disk[p] /\ index'[p].sha = index[p].sha /\ (since[p].adrift => since'[p].adrift)
    BY <1>4, <1>q DEF Fetch, target
  <2>3. ASSUME NEW p \in Path, MountOf[p] \in table \ cap'.left PROVE Processed(p)'
    <3>1. \/ disk[p] = index[p].sha \/ since[p].adrift
          \/ p \in cap.changed \cup cap.deletes
      BY <1>s, <2>1, <2>3 DEF Processed
    <3> QED
      BY <2>1, <2>2, <3>1 DEF Processed, Busy
  <2>4. ASSUME NEW p \in cap.changed \cup cap.deletes PROVE ReadFiles(cap.changed)[p] = disk[p]
    <3>1. p \in Path /\ cap.changed \cap cap.deletes = {}
      BY <1>t, <2>1 DEF CapShape, Busy
    <3>2. p \in cap.deletes => disk[p] = Absent
      BY <1>s, <2>1
    <3> QED
      BY <3>1, <3>2 DEF ReadFiles
  <2> QED
    BY <1>g, <1>s, <1>t, <2>1, <2>2, <2>3, <2>4
<1>5. CASE Commit
  <2>1. /\ cap.pc = "commit" /\ cap'.left = cap.left /\ cap'.seen = cap.seen /\ cap'.changed = Differs \ cap.deletes
        /\ cap'.deletes = cap.deletes /\ cap'.pc = "committed" /\ cap'.bytes = cap.bytes
    BY <1>5, CapSteps
  <2>2. \A p \in Path : disk'[p] = disk[p] /\ index'[p].sha = index[p].sha /\ (since[p].adrift => since'[p].adrift)
    BY <1>5, <1>q DEF Commit, target
  <2>3. ASSUME NEW p \in Path, MountOf[p] \in table \ cap'.left PROVE Processed(p)'
    <3>1. \/ disk[p] = index[p].sha \/ since[p].adrift
          \/ p \in cap.changed \cup cap.deletes
      BY <1>s, <2>1, <2>3 DEF Processed
    <3>2. CASE p \in Differs \cup cap.deletes
      BY <2>1, <3>2 DEF Processed, Busy
    <3>3. CASE p \in cap.changed /\ p \notin Differs
      <4>1. cap.bytes[p] = Tip(p) /\ cap.bytes[p] = disk[p]
        BY <1>s, <2>1, <3>3 DEF Differs
      <4>2. index[p].sha = Tip(p) \/ since[p].adrift
        BY <1>q, <2>1 DEF IndexFollows
      <4> QED
        BY <2>2, <4>1, <4>2 DEF Processed
    <3> QED
      BY <2>2, <3>1, <3>2, <3>3 DEF Processed
  <2>4. Differs \subseteq cap.changed \cup cap.deletes
    BY DEF Differs
  <2> QED
    BY <1>g, <1>s, <1>t, <2>1, <2>2, <2>3, <2>4
<1>6. CASE Committed
  <2>1. /\ cap.pc = "committed" /\ cap'.left = cap.left /\ cap'.seen = cap.seen /\ cap'.changed = {}
        /\ cap'.deletes = {} /\ cap'.pc = "mount"
    BY <1>6, CapSteps
  <2>2. \A p \in Path : disk'[p] = disk[p] /\ (since[p].adrift => since'[p].adrift)
    BY <1>6, <1>q DEF Committed, target
  <2>3. ASSUME NEW p \in Path, MountOf[p] \in table \ cap'.left PROVE Processed(p)'
    <3>1. CASE p \in cap.changed \cup cap.deletes
      <4>1. index'[p] = Plain(cap.bytes[p]) /\ cap.bytes[p] \in Sha /\ cap.bytes[p] = disk[p]
        BY <1>6, <1>s, <2>1, <3>1 DEF Committed, Types, CapTypes, CapRecord
      <4> QED
        BY <2>2, <4>1, PlainType DEF Processed
    <3>2. CASE p \notin cap.changed \cup cap.deletes
      <4>1. disk[p] = index[p].sha \/ since[p].adrift
        BY <1>s, <2>1, <2>3, <3>2 DEF Processed
      <4>2. index'[p] = index[p]
        BY <1>6, <3>2 DEF Committed
      <4> QED
        BY <2>2, <4>1, <4>2 DEF Processed
    <3> QED
      BY <3>1, <3>2
  <2> QED
    BY <1>g, <1>s, <2>1, <2>2, <2>3
<1>7. CASE Classified
  <2>1. /\ cap.pc = "mount" /\ cap.left = {} /\ cap'.left = {} /\ cap'.deletes = {} /\ cap'.pc = "stamp"
    BY <1>7, CapSteps
  <2>2. \A p \in Path : disk'[p] = disk[p] /\ index'[p].sha = index[p].sha /\ (since[p].adrift => since'[p].adrift)
    BY <1>7, <1>q DEF Classified, target
  <2>3. ASSUME NEW p \in Path, MountOf[p] \in table \ cap'.left PROVE Processed(p)'
    <3>1. disk[p] = index[p].sha \/ since[p].adrift
      BY <1>s, <2>1, <2>3 DEF Processed, Busy
    <3> QED
      BY <2>2, <3>1 DEF Processed
  <2> QED
    BY <1>g, <2>1, <2>3
<1>8. CASE cap' = cap /\ ~Committed
  <2>1. cap.pc # "scan"
    BY <1>8
  <2>2. CASE StageWrites("job") /\ cap.pc = "restage"
    <3>1. /\ Chunk("job") \subseteq stage["job"].todo /\ stage'["job"].todo = stage["job"].todo \ Chunk("job")
          /\ stage["job"].todo \subseteq Files(cap.mount) \ (cap.changed \cup cap.deletes) /\ cap.mount \notin cap.left
      BY <2>2, StageChanges, StageSteps DEF Stager, StagedApart, CapShape, Busy
    <3>6. stage' # stage
      BY <2>2, <3>1, StageChanges DEF Stager
    <3>2. \A p \in Path \ Chunk("job") : disk'[p] = disk[p] /\ index'[p].sha = index[p].sha
      BY <1>8, <1>q, <3>6
    <3>3. ASSUME NEW p \in Path, MountOf[p] \in table \ cap'.left PROVE Processed(p)'
      <4>1. CASE p \in Chunk("job")
        <5>1. index'[p].sha = disk'[p]
          <6>1. PICK new : new = [q \in Chunk("job") |-> stage["job"].read[q]]
            OBVIOUS
          <6>2. Change(new) /\ DOMAIN new = Chunk("job") /\ new[p] = stage["job"].read[p] /\ new[p] \in Sha
            BY <2>2, <4>1, <6>1, StageChanges DEF Stager, Sha
          <6>3. disk'[p] = new[p]
            BY <4>1, <6>2 DEF Change
          <6>4. index'[p] = Plain(stage["job"].read[p])
            BY <2>2, <4>1 DEF StageWrites, Chunk
          <6> QED
            BY <6>2, <6>3, <6>4, PlainType
        <5> QED
          BY <5>1 DEF Processed
      <4>2. CASE p \notin Chunk("job")
        <5>1. Processed(p) /\ disk'[p] = disk[p] /\ index'[p].sha = index[p].sha
          BY <1>8, <1>s, <2>1, <3>2, <3>3, <4>2
        <5> QED
          BY <1>8, <1>q, <3>1, <4>2, <5>1 DEF Processed
      <4> QED
        BY <4>1, <4>2
    <3>4. ASSUME NEW p \in cap.deletes PROVE disk'[p] = Absent
      BY <1>s, <1>t, <2>1, <3>1, <3>2
    <3>5. ASSUME NEW p \in Path, MountOf[p] \in cap.left PROVE cap.seen[p] = disk'[p]
      BY <1>s, <2>1, <3>1, <3>2, <3>5 DEF Files
    <3> QED
      BY <1>8, <1>g, <2>2, <3>3, <3>4, <3>5
  <2>3. CASE ~(StageWrites("job") /\ cap.pc = "restage")
    <3> DEFINE Still(p) == disk'[p] = disk[p] /\ index'[p].sha = index[p].sha
    <3>1. \A p \in Path : Still(p) \/ (p \in stage["job"].todo /\ stage' = stage /\ cap.pc = "restage")
      BY <1>8, <1>q, <2>3
    <3>2. ASSUME NEW p \in Path, MountOf[p] \in table \ cap'.left PROVE Processed(p)'
      <4>1. Processed(p)
        BY <1>8, <1>s, <2>1, <3>2
      <4>2. cap.pc = "restage" => stage'["job"].todo = stage["job"].todo
        <5> SUFFICES ASSUME cap.pc = "restage" PROVE stage'["job"].todo = stage["job"].todo
          OBVIOUS
        <5>1. ~\E m \in Mount : Classify(m)
          BY CapSteps
        <5> QED
          BY <1>8, <2>3, <5>1, JobStage
      <4>3. CASE Still(p)
        BY <1>8, <1>q, <4>1, <4>2, <4>3 DEF Processed
      <4>4. CASE ~Still(p)
        BY <1>8, <3>1, <4>4 DEF Processed
      <4> QED
        BY <4>3, <4>4
    <3>3. cap.pc = "restage" => /\ stage["job"].todo \subseteq Files(cap.mount) \ (cap.changed \cup cap.deletes)
                                /\ cap.mount \notin cap.left
      BY DEF StagedApart, CapShape, Busy
    <3>4. ASSUME NEW p \in cap.deletes PROVE disk'[p] = Absent
      BY <1>s, <1>t, <2>1, <3>1, <3>3
    <3>5. ASSUME NEW p \in Path, MountOf[p] \in cap.left PROVE cap.seen[p] = disk'[p]
      BY <1>s, <2>1, <3>1, <3>3, <3>5 DEF Files
    <3>6. ASSUME cap.pc \in {"commit", "committed"}, NEW p \in cap.changed \cup cap.deletes
          PROVE  cap.bytes[p] = disk'[p]
      BY <1>s, <1>t, <2>1, <3>1, <3>6
    <3> QED
      BY <1>8, <1>g, <3>2, <3>4, <3>5, <3>6
  <2> QED
    BY <2>2, <2>3
<1>9. \/ Scan \/ (\E m \in Mount : Classify(m)) \/ Restaged \/ Fetch \/ Commit \/ Committed \/ Classified
      \/ cap' = cap
  <2>1. CASE ~JobMoves
    BY <2>1, JobStays
  <2>2. CASE ReconcileEnters \/ ReconcileSettled
    BY <2>2, <1>q, CapSteps DEF Control
  <2>3. CASE JobMoves /\ ~ReconcileEnters /\ ~ReconcileSettled /\ (~Capture \/ Stamp)
    <3>1. ~NoCapture.full /\ \A full \in BOOLEAN : Begin(full).pc = "scan"
      BY BeginType
    <3> QED
      BY <2>3, <3>1, CapTurns
  <2> QED
    BY <2>1, <2>2, <2>3 DEF Capture
<1> QED
  BY <1>1, <1>2, <1>3, <1>4, <1>5, <1>6, <1>7, <1>8, <1>9

-----------------------------------------------------------------------------
(* Reports: a command the engine was told of ends the guards of what it    *)
(* changed.                                                                *)

\* nothing of this process would take what the mirror holds of p for stale
Unguarded(p) == ~Guarded(p) /\ resume[MountOf[p]] # epoch

Reported ==
    /\ host.pc \in {"down", "attach"} => \A p \in Path : since[p].edited # "reported"
    /\ host.pc = "exec" => \A p \in Path : Unguarded(p)
    /\ \A p \in Path : since[p].edited = "reported" =>
          /\ Unguarded(p) /\ ~(Pending(p) /\ index[p].unconfirmed)
          /\ ~(host.pc = "written" /\ p = host.path)
    /\ cap.pc = "restage" => \A p \in stage["job"].todo : since[p].edited # "reported" \/ p \in touched

\* a path that is unguarded stays so, but where a write returns or the workspace is attached again
LEMMA UnguardedStays ==
  ASSUME Types, Next, NEW p \in Path, Unguarded(p), ~(Pending(p) /\ index[p].unconfirmed),
         ~(WriteReturns /\ p = host.path), ~AttachWarm(MountOf[p])
  PROVE  Unguarded(p)' /\ ~(Pending(p)' /\ index'[p].unconfirmed)
<1>0. /\ index[p] \in Entry /\ index[p].writeEpoch <= epoch /\ epoch \in Nat /\ index[p].writeEpoch \in Nat
      /\ resume[MountOf[p]] <= epoch /\ resume[MountOf[p]] \in Nat \cup {Closed} /\ MountOf[p] \in Mount
  BY PathMount DEF Types, IndexTypes, Entry
<1>1. Pending(p)' => Pending(p)
  BY PendingSteps
<1>2. resume'[MountOf[p]] # epoch'
  <2>1. CASE epoch' = epoch
    BY <1>0, <2>1, ResumeSteps DEF Unguarded
  <2>2. CASE NoteExec /\ resume' = resume
    <3>1. epoch' = epoch + 1
      BY <2>2 DEF NoteExec
    <3> QED
      BY <1>0, <2>2, <3>1
  <2> QED
    BY <1>0, <2>1, <2>2, ResumeSteps
<1>3. \/ ~index'[p].unconfirmed
      \/ /\ index'[p].unconfirmed = index[p].unconfirmed /\ index'[p].writeEpoch = index[p].writeEpoch /\ epoch' = epoch
      \/ /\ NoteExec /\ index'[p].unconfirmed = index[p].unconfirmed
         /\ index'[p].writeEpoch = IF Pending(p) /\ index[p].unconfirmed THEN epoch + 1 ELSE index[p].writeEpoch
  <2>1. ASSUME NEW sha \in Sha, index'[p] = Plain(sha) PROVE ~index'[p].unconfirmed
    BY <2>1, PlainType
  <2>2. Tip(p) \in Sha /\ Absent \in Sha
    BY TipType DEF Types, Sha
  <2>3. \A w \in Stager : StageWrites(w) /\ p \in Chunk(w) => stage[w].read[p] \in Sha
    BY StageChanges DEF Sha
  <2>4. cap.bytes[p] \in Sha
    BY DEF Types, CapTypes, CapRecord
  <2>5. epoch' = epoch \/ ExecStarts \/ CaptureAfterExec
    BY <1>0, ResumeSteps
  <2>6. ASSUME NEW w \in mirrors, MirrorFails(w) PROVE epoch' = epoch
    BY <2>6 DEF MirrorFails
  <2> QED
    BY <2>1, <2>2, <2>3, <2>4, <2>5, <2>6, IndexSteps
<1>4. ~Guarded(p)'
  <2>1. CASE NoteExec
    <3>1. epoch' = epoch + 1
      BY <2>1 DEF NoteExec
    <3>2. \/ ~index'[p].unconfirmed
          \/ ~(Pending(p) /\ index[p].unconfirmed) /\ index'[p].writeEpoch = index[p].writeEpoch
      BY <1>3
    <3> QED
      BY <1>0, <3>1, <3>2 DEF Guarded
  <2>2. CASE ~NoteExec
    <3>1. epoch' = epoch
      BY <1>0, <2>2, ResumeSteps
    <3> QED
      BY <1>3, <2>2, <3>1 DEF Guarded, Unguarded
  <2> QED
    BY <2>1, <2>2
<1>5. ~(Pending(p)' /\ index'[p].unconfirmed)
  BY <1>1, <1>3
<1> QED
  BY <1>2, <1>4, <1>5 DEF Unguarded

\* a command that starts, or is reported, ends the guards of what is not on the wire
LEMMA ReportEnds ==
  ASSUME Types, NoteExec, resume' = resume, mirrors' = mirrors, NEW p \in Path, ~Pending(p)
  PROVE  Unguarded(p)' /\ ~Pending(p)'
<1>0. /\ index[p].writeEpoch <= epoch /\ epoch \in Nat /\ index[p].writeEpoch \in Nat /\ IndexTypes
      /\ resume[MountOf[p]] <= epoch /\ resume[MountOf[p]] \in Nat \cup {Closed}
  BY PathMount DEF Types, IndexTypes, Entry
<1>1. index'[p].writeEpoch = index[p].writeEpoch /\ epoch' = epoch + 1
  BY <1>0, NoteExecTypes
<1> QED
  BY <1>0, <1>1 DEF Unguarded, Guarded, Pending

LEMMA ReportedKeeps ==
  ASSUME Types, Control, Reported, Next
  PROVE  Reported'
<1>0. "job" \in Stager
  BY DEF Stager
<1>1. ASSUME host'.pc \in {"down", "attach"}, NEW p \in Path PROVE since'[p].edited # "reported"
  <2>1. CASE Crash
    <3>1. ~ExecStarts /\ ~CaptureAfterExec /\ (\A c \in Content \cup {Absent} : ~Edit(p, c))
      <4>1. ~ExecStarts /\ ~CaptureAfterExec
        BY <2>1, HostSteps
      <4>2. ASSUME NEW c \in Content \cup {Absent}, Edit(p, c) PROVE FALSE
        BY <2>1, <4>2, HostSteps DEF Edit
      <4> QED
        BY <4>1, <4>2
    <3>2. since'[p].edited = IF since[p].edited = "no" THEN since[p].edited ELSE "unreported"
      <4> DEFINE e == IF since[p].edited = "no" THEN since[p].edited ELSE "unreported"
      <4>1. \E l, r, u : since'[p] = [since[p] EXCEPT !.edited = e, !.lost = l, !.ran = r, !.adrift = FALSE, !.unsure = u]
        BY <2>1 DEF Crash
      <4> HIDE DEF e
      <4>2. since'[p].edited = e
        BY <4>1 DEF Types, SinceTypes, Fate
      <4> QED
        BY <4>2 DEF e
    <3> QED
      BY <3>2
  <2>2. CASE ~Crash
    <3>1. host.pc \in {"down", "attach"}
      BY <1>1, <2>2, HostMoves, HostSteps DEF Exec
    <3>2. ~ExecStarts /\ ~CaptureAfterExec /\ (\A c \in Content \cup {Absent} : ~Edit(p, c))
      BY <3>1, HostSteps DEF Edit
    <3>3. since[p].edited # "reported"
      BY <3>1 DEF Reported
    <3> QED
      BY <2>2, <3>2, <3>3, SinceSteps
  <2> QED
    BY <2>1, <2>2
<1>2. ASSUME host'.pc = "exec", NEW p \in Path PROVE Unguarded(p)'
  <2>1. CASE ExecStarts
    <3>1. NoteExec /\ resume' = resume /\ mirrors' = mirrors /\ mirrors = {}
      BY <2>1, HostSteps DEF ExecStarts, Control
    <3>2. ~Pending(p)
      BY <3>1 DEF Pending
    <3> QED
      BY <3>1, <3>2, ReportEnds
  <2>2. CASE ~ExecStarts
    <3>1. host.pc = "exec" /\ mirrors = {}
      <4>1. host.pc = "exec"
        BY <1>2, <2>2, HostMoves, HostSteps DEF Exec
      <4> QED
        BY <4>1 DEF Control
    <3>2. ~WriteReturns /\ ~AttachWarm(MountOf[p])
      BY <3>1, HostSteps, PathMount
    <3>3. Unguarded(p) /\ ~Pending(p)
      BY <3>1 DEF Reported, Pending
    <3> QED
      BY <3>2, <3>3, UnguardedStays
  <2> QED
    BY <2>1, <2>2
<1>3. ASSUME NEW p \in Path, since'[p].edited = "reported"
      PROVE  /\ Unguarded(p)' /\ ~(Pending(p)' /\ index'[p].unconfirmed)
             /\ ~(host'.pc = "written" /\ p = host'.path)
  <2>1. ~Crash /\ ~\E c \in Content : WriteCommits(p, c)
    <3>1. ~Crash
      BY <1>1, <1>3, HostSteps
    <3>2. ASSUME NEW c \in Content, WriteCommits(p, c) PROVE FALSE
      <4>1. since' = [since EXCEPT ![p] = AtWrite(p)] /\ AtWrite(p).edited \in {"no", "unreported"}
        BY <3>2 DEF WriteCommits, AtWrite
      <4> QED
        BY <1>3, <4>1 DEF Types, SinceTypes
    <3> QED
      BY <3>1, <3>2
  <2>2. CASE since[p].edited = "reported"
    <3>1. Unguarded(p) /\ ~(Pending(p) /\ index[p].unconfirmed) /\ ~(host.pc = "written" /\ p = host.path)
      BY <2>2 DEF Reported
    <3>2. host.pc \notin {"down", "attach"}
      BY <2>2 DEF Reported
    <3>3. ~(WriteReturns /\ p = host.path) /\ ~AttachWarm(MountOf[p])
      BY <3>1, <3>2, HostSteps, PathMount
    <3>4. Unguarded(p)' /\ ~(Pending(p)' /\ index'[p].unconfirmed)
      BY <3>1, <3>3, UnguardedStays
    <3>5. ~(host'.pc = "written" /\ p = host'.path)
      <4> SUFFICES ASSUME host'.pc = "written", p = host'.path PROVE FALSE
        OBVIOUS
      <4>1. ~\E q \in Path, c \in Content : WriteCommits(q, c)
        BY <2>1, HostSteps
      <4>2. host' = host
        BY <4>1, WrittenStays
      <4> QED
        BY <3>1, <4>2
    <3> QED
      BY <3>4, <3>5
  <2>3. CASE since[p].edited # "reported" /\ (ExecStarts \/ CaptureAfterExec)
    <3>1. ~Pending(p) /\ NoteExec /\ resume' = resume /\ mirrors' = mirrors
      <4>1. ~Pending(p)
        <5>1. ~\E c \in Content \cup {Absent} : Edit(p, c)
          BY <2>3, HostSteps DEF Edit
        <5> QED
          BY <1>3, <2>1, <2>3, <5>1, SinceSteps
      <4> QED
        BY <2>3, <4>1 DEF ExecStarts, CaptureAfterExec
    <3>2. host'.pc # "written"
      BY <2>3, HostSteps
    <3> QED
      BY <3>1, <3>2, ReportEnds
  <2>4. CASE since[p].edited # "reported" /\ ~ExecStarts /\ ~CaptureAfterExec
    <3>1. PICK c \in Content \cup {Absent} : Edit(p, c) /\ host.pc = "exec"
      BY <1>3, <2>1, <2>4, SinceSteps
    <3>2. UNCHANGED <<index, resume, epoch, mirrors, host>> /\ mirrors = {}
      BY <3>1 DEF Edit, Control
    <3>3. Unguarded(p)
      BY <3>1 DEF Reported
    <3> QED
      BY <3>1, <3>2, <3>3 DEF Unguarded, Guarded, Pending
  <2> QED
    BY <2>2, <2>3, <2>4
<1>4. ASSUME cap'.pc = "restage", NEW p \in stage'["job"].todo
      PROVE  since'[p].edited # "reported" \/ p \in touched'
  <2>1. CASE \E m \in Mount : Classify(m)
    <3>1. PICK m \in Mount : Classify(m)
      BY <2>1
    <3>2. p \in Path /\ MountOf[p] \in Mount /\ Restage(p) /\ since' = since
      BY <3>1, PathMount, StageSteps DEF Classify, Files
    <3>3. ~Unguarded(p)
      BY <3>2 DEF Restage, Straggler, Stale, Resuming, Unguarded
    <3> QED
      BY <3>2, <3>3 DEF Reported
  <2>2. CASE ~\E m \in Mount : Classify(m)
    <3>1. cap' = cap /\ p \in stage["job"].todo /\ p \in Path /\ job # "idle"
      BY <1>4, <2>2, JobStage, <1>0 DEF Types, CapTypes, StageRecord
    <3>2. p \in touched => p \in touched'
      BY <1>4, DiskSteps, BeginType, <3>1
    <3>3. CASE p \in touched
      BY <3>2, <3>3
    <3>4. CASE since[p].edited # "reported"
      <4>1. CASE \E c \in Content \cup {Absent} : Edit(p, c)
        <5>1. PICK c \in Content \cup {Absent} : Edit(p, c)
          BY <4>1
        <5>2. Change([q \in {p} |-> c])
          BY <5>1 DEF Edit
        <5>3. p \in touched'
          BY <5>2 DEF Change
        <5> QED
          BY <5>3
      <4>2. CASE ~\E c \in Content \cup {Absent} : Edit(p, c)
        BY <3>1, <3>4, <4>2, SinceSteps
      <4> QED
        BY <4>1, <4>2
    <3> QED
      BY <1>4, <3>1, <3>3, <3>4 DEF Reported
  <2> QED
    BY <2>1, <2>2
<1> QED
  BY <1>1, <1>2, <1>3, <1>4 DEF Reported, Unguarded, Guarded

-----------------------------------------------------------------------------
(* The invariant, and what it shows.                                       *)

EngineInv == ListInv /\ IndexFollows /\ StagedApart /\ Converging /\ Reported

LEMMA EngineInit == Init => EngineInv
<1> SUFFICES ASSUME Init PROVE EngineInv
  OBVIOUS
<1>1. ListInv
  BY ListInit
<1>2. host.pc = "down" /\ cap = NoCapture /\ since = [p \in Path |-> Untroubled]
  BY AwayType DEF Init, HostPc
<1>3. NoCapture.pc = "off" /\ NoCapture.full = FALSE
  BY BeginType
<1>4. IndexFollows /\ StagedApart /\ Converging
  BY <1>2, <1>3 DEF IndexFollows, StagedApart, Converging
<1>5. Reported
  BY <1>2, <1>3 DEF Reported, Untroubled
<1> QED
  BY <1>1, <1>4, <1>5 DEF EngineInv

LEMMA EngineStep == EngineInv /\ [Next]_vars => EngineInv'
<1> SUFFICES ASSUME EngineInv, [Next]_vars PROVE EngineInv'
  OBVIOUS
<1>1. ListInv'
  BY ListStep DEF EngineInv
<1>2. CASE Next
  BY <1>1, <1>2, FollowsKeeps, ApartKeeps, ConvergingKeeps, ReportedKeeps DEF EngineInv, ListInv
<1>3. CASE UNCHANGED vars
  <2>1. UNCHANGED <<history, disk, touched, table, index, resume, epoch, mirrors, job, cap, stage, host, since>>
    BY <1>3 DEF vars, durable, target, slot
  <2>2. IndexFollows' /\ StagedApart' /\ Converging' /\ Reported'
    BY <2>1 DEF EngineInv, IndexFollows, StagedApart, Converging, Processed, Reported, Unguarded, Guarded, Pending, Tip,
       Files, Busy
  <2> QED
    BY <1>1, <2>2 DEF EngineInv
<1> QED
  BY <1>2, <1>3

(* A reconcile that succeeds leaves mirror, branch and index equal on      *)
(* every path of a writable mount, but for paths that went adrift in       *)
(* races the engine does not see.                                          *)
THEOREM ReconcileConverged == Spec => ReconcileConverges
<1>1. Spec => []EngineInv
  BY EngineInit, EngineStep, PTL DEF Spec
<1>2. ASSUME EngineInv, [Next]_vars
      PROVE  [cap.pc = "stamp" /\ cap.full /\ Stamp =>
                 \A p \in Path : MountOf[p] \in table => Converged(p) \/ since[p].adrift]_vars
  <2> SUFFICES ASSUME cap.pc = "stamp", cap.full, Stamp, NEW p \in Path, MountOf[p] \in table
               PROVE  Converged(p) \/ since[p].adrift
    OBVIOUS
  <2>1. Types /\ Control /\ CapShape /\ IndexFollows /\ Converging
    BY <1>2 DEF EngineInv, ListInv
  <2>2. cap.left = {} /\ host.pc = "reconcile"
    BY <2>1 DEF CapShape, Control
  <2>3. disk[p] = index[p].sha \/ since[p].adrift
    BY <2>1, <2>2 DEF Converging, Processed, Busy
  <2>4. index[p].sha = Tip(p) \/ since[p].adrift
    BY <2>1, <2>2 DEF IndexFollows
  <2> QED
    BY <2>3, <2>4 DEF Converged
<1> QED
  BY <1>1, <1>2, PTL DEF Spec, ReconcileConverges

(* The guard that stages a lost write again never overwrites what a        *)
(* command did to the path since, once the engine was told of the command: *)
(* noteExec closed the window, whatever order calls and captures run in.   *)
THEOREM RestageKept == Spec => RestageKeepsWork
<1>1. Spec => []EngineInv
  BY EngineInit, EngineStep, PTL DEF Spec
<1>2. ASSUME EngineInv, [Next]_vars
      PROVE  [cap.pc = "restage" /\ (StageTears("job") \/ StageWrites("job")) =>
                 \A p \in stage["job"].todo :
                    disk'[p] # disk[p] => since[p].edited # "reported" \/ p \in touched]_vars
  BY <1>2 DEF EngineInv, Reported
<1> QED
  BY <1>1, <1>2, PTL DEF Spec, RestageKeepsWork

-----------------------------------------------------------------------------
(* Survival: what the engine believes of a path whose newest tool write    *)
(* nothing has troubled, and what is on its way to the mirror.             *)

\* no command changed p, and the index knows what the mirror holds, since its newest write
Fresh(p) == since[p].edited = "no" /\ ~since[p].unsure /\ ~since[p].adrift

\* and no command ran after its mirror write was lost: the engine owes it to the mirror
Owed(p) == Fresh(p) /\ Tip(p) # Absent /\ (since[p].lost /\ since[p].ran => Pending(p))

\* the mirror holds a whole file, and it is not the branch's
Behind(p) == disk[p] \notin {Tip(p), Torn}
Writing(p) == host.pc = "written" /\ p = host.path
InUse(p) == host.pc # "down" /\ ~(host.pc = "attach" /\ MountOf[p] \in host.left)

\* what the mirror holds was the branch's once, if no command changed it
Lineages ==
    /\ \A p \in Path : since[p].edited = "no" => InLineage(p, disk[p]) \/ disk[p] = Torn
    /\ \A w \in mirrors : w.sha \in Held(w.path)
    /\ \A p \in Path : Last(history[p]).op = "write" => Tip(p) # Absent

\* the stamp says that every mount is hydrated
Hydrated ==
    /\ stamped => marked = Mount
    /\ ~stamped => /\ Path # {} => host.pc \in {"down", "attach"}
                   /\ \A p \in Path : disk[p] \in {Absent, Tip(p), Torn}
    /\ host.pc = "attach" /\ ~stamped =>
          /\ Mount \ host.left \subseteq marked
          /\ host.left # Mount => host.cold
          /\ \A p \in Path : MountOf[p] \notin host.left => ~Behind(p)

\* a dead process left behind what its newest write created
LeftBehind ==
    stamped /\ host.pc \in {"down", "attach"} =>
        \A p \in Path : Fresh(p) /\ disk[p] = Absent => CreatedByNewestWrite(p)

Wire == \A w \in mirrors : Fresh(w.path) => w.sha = Tip(w.path) /\ (w.landed => ~Behind(w.path))

\* a mirror that is behind will be written, or its write was lost
Owing == stamped => \A p \in Path : Fresh(p) /\ Behind(p) => Writing(p) \/ Pending(p) \/ since[p].lost

WriteKnows ==
    host.pc = "written" /\ Fresh(host.path) =>
        /\ ~index[host.path].unconfirmed /\ disk[host.path] \in {index[host.path].sha, Torn}
        /\ ~Pending(host.path)

\* the guard of this process, and of a resumed one, knows the mirror's bytes for stale
InWindow(p) == Guarded(p) /\ index[p].previous = disk[p]
InResume(p) ==
    /\ Resuming(p) /\ since[p].lost /\ ~Pending(p)
    /\ disk[p] \in Held(p) \/ (disk[p] = Absent /\ CreatedByNewestWrite(p))
OwedIsGuarded ==
    \A p \in Path : Owed(p) /\ Behind(p) /\ InUse(p) /\ MountOf[p] \in granted /\ ~Writing(p) =>
        InWindow(p) \/ InResume(p)

\* an index that is plain is true
PlainIsTrue ==
    \A p \in Path : Fresh(p) /\ Behind(p) /\ InUse(p) /\ MountOf[p] \in granted /\ ~Writing(p) =>
        index[p].unconfirmed \/ resume[MountOf[p]] # Closed

\* what the capture saw, will commit and has committed of such a path
Seen ==
    cap.pc \in Busy \cup {"mount"} =>
        \A p \in Path : MountOf[p] \in cap.left /\ Fresh(p) /\ Behind(p) =>
            cap.seen[p] = disk[p] \/ (cap.seen[p] = Absent /\ ~cap.full)
Spared(p) == p \notin cap.deletes /\ ~Behind(p) /\ (cap.pc = "commit" => cap.bytes[p] \in {Tip(p), Torn})
CaptureSpares ==
    /\ cap.deletes # {} => cap.full
    /\ \A p \in cap.changed \cup cap.deletes :
          /\ cap.pc \in {"restage", "fetch", "commit"} /\ Owed(p) /\ cap.mount \in granted => Spared(p)
          /\ cap.pc = "committed" /\ Fresh(p) => ~Behind(p)

Survival ==
    /\ Lineages /\ Hydrated /\ LeftBehind /\ Wire /\ Owing /\ WriteKnows
    /\ OwedIsGuarded /\ PlainIsTrue /\ Seen /\ CaptureSpares

\* how each step changes what befell a path
LEMMA FateSteps ==
  ASSUME Types, Next, NEW p \in Path
  PROVE  LET Written == \E c \in Content : WriteCommits(p, c)
             Restores(w) == StageWrites(w) /\ p \in Chunk(w) /\ stage[w].read[p] = Tip(p) /\ (w = "job" \/ job = "idle")
         IN  /\ since'[p].unsure = since[p].unsure \/ Written \/ Crash
                  \/ (Commit /\ (since[p].unsure \/ (p \in Differs /\ Passing(p)) => since'[p].unsure))
             /\ since[p].lost => since'[p].lost \/ Written \/ \E w \in Stager : Restores(w)
             /\ since[p].ran => since'[p].ran \/ Written \/ Crash \/ \E w \in mirrors : MirrorFails(w) /\ w.path = p
             /\ ExecStarts \/ CaptureAfterExec => since'[p].ran /\ since'[p].lost = since[p].lost
             /\ \A w \in mirrors : MirrorFails(w) /\ w.path = p => since'[p].lost
<1>0. /\ since \in [Path -> Fate]
      /\ Fate = [edited : {"no", "unreported", "reported", "masked"}, lost : BOOLEAN, ran : BOOLEAN, unsure : BOOLEAN,
                 adrift : BOOLEAN]
  BY DEF Types, SinceTypes, Fate
<1> DEFINE Written == \E c \in Content : WriteCommits(p, c)
           Restores(w) == StageWrites(w) /\ p \in Chunk(w) /\ stage[w].read[p] = Tip(p) /\ (w = "job" \/ job = "idle")
           Same == since'[p].unsure = since[p].unsure /\ since'[p].lost = since[p].lost /\ since'[p].ran = since[p].ran
           Fails == \E w \in mirrors : MirrorFails(w) /\ w.path = p
           Moves ==
             \/ Same \/ Written
             \/ /\ ExecStarts \/ CaptureAfterExec
                /\ since'[p].ran /\ since'[p].lost = since[p].lost /\ since'[p].unsure = since[p].unsure
             \/ /\ Fails /\ since'[p].lost /\ since'[p].unsure = since[p].unsure
             \/ /\ \E w \in Stager : StageWrites(w)
                /\ since'[p].ran = since[p].ran /\ since'[p].unsure = since[p].unsure
                /\ since[p].lost => since'[p].lost \/ \E w \in Stager : Restores(w)
             \/ /\ Commit /\ since'[p].lost = since[p].lost /\ since'[p].ran = since[p].ran
                /\ since[p].unsure \/ (p \in Differs /\ Passing(p)) => since'[p].unsure
             \/ Crash /\ (since[p].lost => since'[p].lost)
             \/ /\ since'[p].unsure = since[p].unsure /\ since'[p].ran = since[p].ran
                /\ since[p].lost => since'[p].lost
<1>1. ASSUME NEW q \in Path, NEW c \in Content, WriteCommits(q, c) PROVE Moves
  <2>1. since' = [since EXCEPT ![q] = AtWrite(q)]
    BY <1>1 DEF WriteCommits
  <2>2. CASE p = q
    BY <1>1, <2>2
  <2>3. CASE p # q
    BY <1>0, <2>1, <2>3
  <2> QED
    BY <2>2, <2>3
<1>2. ASSUME WriteReplyLost PROVE Same
  <2>1. since' = [since EXCEPT ![host.path].adrift = TRUE]
    BY <1>2 DEF WriteReplyLost
  <2> QED
    BY <1>0, <2>1
<1>3. ASSUME NEW w \in mirrors, MirrorFails(w)
      PROVE  (w.path = p => since'[p].lost /\ since'[p].unsure = since[p].unsure) /\ (w.path # p => Same)
  <2>1. since' = [since EXCEPT ![w.path] = Lost(w.path)]
    BY <1>3 DEF MirrorFails
  <2>2. w.path = p => Lost(w.path).lost /\ Lost(w.path).unsure = since[p].unsure
    BY <1>0 DEF Lost
  <2> QED
    BY <1>0, <2>1, <2>2
<1>4. ASSUME NEW w \in Stager, StageWrites(w) PROVE Moves
  <2> DEFINE l == since[p].lost /\ ~(p \in Chunk(w) /\ stage[w].read[p] = Tip(p) /\ (w = "job" \/ job = "idle"))
             d == since[p].adrift \/ (p \in Chunk(w) /\ stage[w].read[p] # Tip(p))
  <2>1. since'[p] = [since[p] EXCEPT !.lost = l, !.adrift = d]
    BY <1>4 DEF StageWrites, Chunk
  <2> HIDE DEF l, d
  <2>2. since'[p].ran = since[p].ran /\ since'[p].unsure = since[p].unsure /\ since'[p].lost = l
    BY <1>0, <2>1
  <2>3. since[p].lost => since'[p].lost \/ Restores(w)
    BY <1>4, <2>2 DEF l
  <2> QED
    BY <1>4, <2>2, <2>3
<1>5. ASSUME ExecStarts \/ CaptureAfterExec
      PROVE  since'[p].ran /\ since'[p].lost = since[p].lost /\ since'[p].unsure = since[p].unsure
  <2> DEFINE e(q) == IF since[q].edited # "unreported" THEN since[q].edited
                     ELSE IF Pending(q) \/ job # "idle" THEN "masked" ELSE "reported"
  <2>1. since' = [q \in Path |-> [since[q] EXCEPT !.ran = TRUE, !.edited = e(q)]]
    BY <1>5 DEF ExecStarts, CaptureAfterExec, NoteExec
  <2> HIDE DEF e
  <2> QED
    BY <1>0, <2>1
<1>6. ASSUME NEW q \in Path, NEW c \in Content \cup {Absent}, Edit(q, c) PROVE Moves
  <2> DEFINE e == IF host.pc = "exec" THEN "reported" ELSE "unreported"
  <2>1. since' = [since EXCEPT ![q].edited = e]
    BY <1>6 DEF Edit
  <2> HIDE DEF e
  <2> QED
    BY <1>0, <2>1
<1>7. ASSUME CaptureFails PROVE Moves
  <2> DEFINE l == since[p].lost \/ GivenUp("job", p)
             d == since[p].adrift \/ (cap.pc = "committed" /\ p \in cap.changed \cup cap.deletes)
  <2>1. since'[p] = [since[p] EXCEPT !.lost = l, !.adrift = d]
    BY <1>7 DEF CaptureFails
  <2> HIDE DEF l, d
  <2>2. since'[p].unsure = since[p].unsure /\ since'[p].ran = since[p].ran /\ since'[p].lost = l
    BY <1>0, <2>1
  <2> QED
    BY <2>2 DEF l
<1>8. ASSUME Crash PROVE Moves
  <2> DEFINE l == since[p].lost \/ disk[p] # Tip(p)
  <2>1. \E e, r, u : since'[p] = [since[p] EXCEPT !.edited = e, !.lost = l, !.ran = r, !.adrift = FALSE, !.unsure = u]
    BY <1>8 DEF Crash
  <2> HIDE DEF l
  <2>2. since'[p].lost = l
    BY <1>0, <2>1
  <2> QED
    BY <1>8, <2>2 DEF l
<1>9. ASSUME Commit PROVE Moves
  <2> DEFINE u == since[p].unsure \/ (p \in Differs /\ Passing(p))
  <2>1. since'[p] = [since[p] EXCEPT !.unsure = u]
    BY <1>9 DEF Commit
  <2> HIDE DEF u
  <2>2. since'[p].unsure = u /\ since'[p].lost = since[p].lost /\ since'[p].ran = since[p].ran
    BY <1>0, <2>1
  <2> QED
    BY <1>9, <2>2 DEF u
<1>13. ASSUME ExecFails PROVE Moves
  <2> DEFINE l == since[p].lost \/ GivenUp("host", p)
  <2>1. since'[p] = [since[p] EXCEPT !.lost = l]
    BY <1>13 DEF ExecFails
  <2> HIDE DEF l
  <2>2. since'[p].unsure = since[p].unsure /\ since'[p].ran = since[p].ran /\ since'[p].lost = l
    BY <1>0, <2>1
  <2> QED
    BY <2>2 DEF l
<1>14. ASSUME NEW w \in Stager, StageTears(w) PROVE Same
  <2>1. \E q \in Path : \E d : since' = [since EXCEPT ![q].adrift = d]
    BY <1>14, StageTurns
  <2> QED
    BY <1>0, <2>1
<1>10. ASSUME \/ Materialize \/ WriteReturns \/ Mirror \/ (\E w \in Stager : StageRead(w)) \/ ExecSettled \/ ExecReturns
              \/ Reconcile \/ (Capture /\ ~Commit)
       PROVE  Moves
  <2>1. since' = since
    BY <1>10 DEF Materialize, Attach, Attached, AttachWarm, HydrateTears, HydrateFiles, HydrateDone, WriteReturns,
       Mirror, MirrorTears, MirrorLands,
     MirrorEnds, StageRead, StageTears, ExecSettled, ExecReturns, Reconcile, ReconcileEnters, ReconcileSettled,
     ReconcileScans, Capture,
     Scan, Restaged, Fetch, Committed, Classified, Stamp, Classify
  <2> QED
    BY <2>1
<1>11. ASSUME ExecCall \/ OwnCommand \/ ReconcileCall \/ (\E m \in Mount : Revoke(m)) PROVE Moves
  <2>1. since' = since
    BY <1>11 DEF ExecCall, OwnCommand, ReconcileCall, Revoke
  <2> QED
    BY <2>1
<1>12. Moves
  BY <1>1, <1>2, <1>3, <1>4, <1>5, <1>6, <1>7, <1>8, <1>9, <1>10, <1>11, <1>13, <1>14
     DEF Next, Engine, Restaging, Stager, Exec, Calls, Target, Failing, Environment
<1> QED
  BY <1>3, <1>5, <1>12

LEMMA EditMarks ==
  ASSUME Types, NEW p \in Path, NEW c \in Content \cup {Absent}, Edit(p, c)
  PROVE  since'[p].edited # "no"
<1> DEFINE e == IF host.pc = "exec" THEN "reported" ELSE "unreported"
<1>1. since' = [since EXCEPT ![p].edited = e] /\ e # "no"
  BY DEF Edit
<1> HIDE DEF e
<1> QED
  BY <1>1 DEF Types, SinceTypes, Fate

\* what a path without troubles has not been through
LEMMA FreshSteps ==
  ASSUME Types, Next, NEW p \in Path, Fresh(p)', ~Crash, ~\E c \in Content : WriteCommits(p, c)
  PROVE  /\ Fresh(p)
         /\ \A c \in Content \cup {Absent} : ~Edit(p, c)
         /\ ~(WriteReplyLost /\ p = host.path)
         /\ \A w \in Stager : StageWrites(w) /\ p \in Chunk(w) => stage[w].read[p] = Tip(p)
         /\ ~(CaptureFails /\ cap.pc = "committed" /\ p \in cap.changed \cup cap.deletes)
         /\ Commit /\ p \in Differs => ~Passing(p)
<1>0. since[p] \in Fate /\ since[p].unsure \in BOOLEAN /\ since[p].adrift \in BOOLEAN
  BY DEF Types, SinceTypes, Fate
<1>1. ASSUME NEW c \in Content \cup {Absent}, Edit(p, c) PROVE FALSE
  BY <1>1, EditMarks DEF Fresh
<1>2. since[p].edited = "no" /\ ~since[p].adrift
  BY <1>1, SinceSteps DEF Fresh
<1>3. ~since[p].unsure /\ (Commit /\ p \in Differs => ~Passing(p))
  <2>1. CASE Commit
    <3>1. since'[p].unsure = (since[p].unsure \/ (p \in Differs /\ Passing(p)))
      <4> DEFINE u == since[p].unsure \/ (p \in Differs /\ Passing(p))
      <4>1. since'[p] = [since[p] EXCEPT !.unsure = u]
        BY <2>1 DEF Commit
      <4> HIDE DEF u
      <4>2. since'[p].unsure = u
        BY <1>0, <4>1 DEF Fate
      <4> QED
        BY <4>2 DEF u
    <3> QED
      BY <3>1 DEF Fresh
  <2>2. CASE ~Commit
    BY <2>2, FateSteps DEF Fresh
  <2> QED
    BY <2>1, <2>2
<1> QED
  BY <1>1, <1>2, <1>3, SinceSteps DEF Fresh

\* what a tool write knows that leaves its path without troubles
LEMMA WriteFate ==
  ASSUME Types, NEW p \in Path, NEW c \in Content, WriteCommits(p, c)
  PROVE  /\ since'[p].edited = "no" => disk[p] = Tip(p) \/ since[p].edited = "no"
         /\ ~since'[p].ran
         /\ Fresh(p)' => /\ job = "idle" /\ ~Pending(p) /\ ~index[p].unconfirmed
                         /\ Behind(p) => resume[MountOf[p]] = Closed
                         /\ since[p].unsure \/ since[p].adrift => index[p].sha = disk[p]
<1>1. since'[p] = AtWrite(p)
  BY DEF WriteCommits, Types, SinceTypes
<1>2. /\ AtWrite(p).edited = (IF disk[p] # Tip(p) /\ since[p].edited # "no" THEN "unreported" ELSE "no")
      /\ AtWrite(p).ran = FALSE
  BY DEF AtWrite, Behind
<1>3. ~AtWrite(p).unsure =>
         /\ ~index[p].unconfirmed /\ (Behind(p) => resume[MountOf[p]] = Closed)
         /\ since[p].unsure => index[p].sha = disk[p]
  BY DEF AtWrite, Behind
<1>4. ~AtWrite(p).adrift => job = "idle" /\ ~Pending(p) /\ (since[p].adrift => index[p].sha = disk[p])
  BY DEF AtWrite, Behind
<1> QED
  BY <1>1, <1>2, <1>3, <1>4 DEF Fresh

\* what a crash leaves of a path
LEMMA CrashFate ==
  ASSUME Types, Crash, NEW p \in Path
  PROVE  /\ since'[p].edited = "no" => since[p].edited = "no"
         /\ Tip(p)' = Tip(p) /\ Held(p)' = Held(p) /\ (disk[p] # Tip(p) => since'[p].lost)
         /\ Fresh(p)' /\ disk'[p] = Absent => CreatedByNewestWrite(p)'
         /\ disk' = disk
<1>1. history' = history /\ disk' = disk
  BY DEF Crash, durable, target
<1>2. Tip(p)' = Tip(p) /\ Held(p)' = Held(p) /\ CreatedByNewestWrite(p)' = CreatedByNewestWrite(p)
  BY <1>1 DEF Tip, Held, CreatedByNewestWrite
<1> DEFINE e == IF since[p].edited = "no" THEN since[p].edited ELSE "unreported"
           l == since[p].lost \/ disk[p] # Tip(p)
           u == disk[p] = Absent /\ ~CreatedByNewestWrite(p)
<1>3. \E r : since'[p] = [since[p] EXCEPT !.edited = e, !.lost = l, !.ran = r, !.adrift = FALSE, !.unsure = u]
  BY DEF Crash
<1> HIDE DEF e, l, u
<1>4. since'[p].edited = e /\ since'[p].lost = l /\ since'[p].unsure = u
  BY <1>3 DEF Types, SinceTypes, Fate
<1> QED
  BY <1>1, <1>2, <1>4 DEF Behind, Fresh, e, l, u

\* a file of such a path changes only to what the branch has
LEMMA DiskTrue ==
  ASSUME Types, Wire, Next, NEW p \in Path, Fresh(p)', ~Crash, ~\E c \in Content : WriteCommits(p, c),
         disk'[p] # disk[p]
  PROVE  ~Behind(p)'
<1>1. Fresh(p)
  BY FreshSteps
<1>2. Tip(p)' = Tip(p)
  <2>1. Commit => disk' = disk
    BY DEF Commit, target
  <2> QED
    BY <2>1, TipSteps
<1>3. disk'[p] \in {Tip(p), Torn}
  <2>2. ASSUME NEW w \in mirrors, w.path = p, disk'[p] = w.sha PROVE disk'[p] = Tip(p)
    BY <1>1, <2>2 DEF Wire
  <2>3. ASSUME NEW w \in Stager, Stages(w), p \in Chunk(w), disk'[p] \in {Torn, stage[w].read[p]},
               StageTears(w) /\ stage[w].read[p] # Tip(p) => since'[p].adrift
        PROVE  disk'[p] \in {Tip(p), Torn}
    <3>1. stage[w].read[p] = Tip(p)
      BY <2>3, FreshSteps DEF Stages, Fresh
    <3> QED
      BY <2>3, <3>1
  <2>4. \A c \in Content \cup {Absent} : ~Edit(p, c)
    BY FreshSteps
  <2> QED
    BY <2>2, <2>3, <2>4, DiskSteps
<1> QED
  BY <1>2, <1>3 DEF Behind

\* a path that is behind without troubles was so before, and nothing of it changed
LEMMA BehindStays ==
  ASSUME Types, Wire, Next, NEW p \in Path, Fresh(p)', Behind(p)', ~Crash, ~\E c \in Content : WriteCommits(p, c)
  PROVE  /\ Fresh(p) /\ Behind(p) /\ disk'[p] = disk[p]
         /\ Tip(p)' = Tip(p) /\ Held(p)' = Held(p) /\ CreatedByNewestWrite(p)' = CreatedByNewestWrite(p)
<1>1. Fresh(p) /\ disk'[p] = disk[p]
  BY FreshSteps, DiskTrue
<1>2. ~(Commit /\ p \in Differs)
  <2> SUFFICES ASSUME Commit, p \in Differs PROVE FALSE
    OBVIOUS
  <2>1. cap.bytes[p] = disk[p] /\ Tip(p)' = cap.bytes[p]
    BY FreshSteps, LineageGrows DEF Passing
  <2> QED
    BY <1>1, <2>1 DEF Behind
<1>3. history'[p] = history[p]
  BY <1>2, HistorySteps
<1>4. Tip(p)' = Tip(p) /\ Held(p)' = Held(p)
  BY <1>3, LineageGrows
<1>5. CreatedByNewestWrite(p)' = CreatedByNewestWrite(p)
  BY <1>3 DEF CreatedByNewestWrite
<1> QED
  BY <1>1, <1>4, <1>5 DEF Behind

\* before the workspace is attached only hydration changes it, and nothing the branch
LEMMA AttachQuiet ==
  ASSUME Types, Control, Next, host.pc \in {"down", "attach"}, NEW p \in Path
  PROVE  /\ ~Commit /\ ~\E c \in Content : WriteCommits(p, c)
         /\ history'[p] = history[p] /\ Tip(p)' = Tip(p)
         /\ disk'[p] # disk[p] => \E m \in Mount : HydrateTears(m) \/ HydrateFiles(m)
<1>1. job = "idle" /\ mirrors = {} /\ cap.pc = "off" /\ stage["host"].todo = {} /\ stage["job"].todo = {}
  BY DEF Control, Types, CapTypes
<1>2. ~Commit /\ ~\E c \in Content : WriteCommits(p, c)
  BY <1>1, CapSteps, HostSteps
<1>3. history'[p] = history[p] /\ Tip(p)' = Tip(p)
  BY <1>2, HistorySteps, LineageGrows
<1>4. ASSUME disk'[p] # disk[p] PROVE \E m \in Mount : HydrateTears(m) \/ HydrateFiles(m)
  <2>2. \A w \in Stager : Chunk(w) = {}
    BY <1>1 DEF Stager, Chunk
  <2>3. \A c \in Content \cup {Absent} : ~Edit(p, c)
    BY DEF Edit
  <2> QED
    BY <1>1, <1>4, <2>2, <2>3, DiskSteps DEF Hydrates
<1> QED
  BY <1>2, <1>3, <1>4

\* a mirror write leaves the wire as it ends, fails or dies
LEMMA PendingEnds ==
  ASSUME Types, Next, NEW p \in Path, Pending(p), ~Pending(p)'
  PROVE  Crash \/ \E w \in mirrors : w.path = p /\ (MirrorEnds(w) \/ MirrorFails(w))
<1>u. ASSUME mirrors \subseteq mirrors' PROVE FALSE
  BY <1>u DEF Pending
<1>1. ASSUME WriteReturns PROVE FALSE
  <2>1. PICK w \in mirrors : w.path = p
    BY DEF Pending
  <2>2. \E v \in mirrors' : v.path = p
    BY <1>1, <2>1, LaunchSteps
  <2> QED
    BY <2>2 DEF Pending
<1>2. ASSUME NEW w \in mirrors, MirrorLands(w) PROVE FALSE
  <2>1. PICK v : v = [w EXCEPT !.landed = TRUE]
    OBVIOUS
  <2>2. mirrors' = (mirrors \ {w}) \cup {v}
    BY <1>2, <2>1 DEF MirrorLands
  <2>3. v.path = w.path
    BY <2>1
  <2> QED
    BY <2>2, <2>3 DEF Pending
<1>3. ASSUME NEW w \in mirrors, MirrorEnds(w) \/ MirrorFails(w) PROVE w.path = p
  BY <1>3 DEF MirrorEnds, MirrorFails, Pending
<1>6. ~\E w \in mirrors : MirrorTears(w)
  BY <1>u DEF MirrorTears
<1>4. CASE Materialize \/ Restaging \/ Exec \/ CaptureAfterExec \/ Reconcile \/ Capture
  BY <1>u, <1>4 DEF Materialize, Attach, Attached, AttachWarm, HydrateTears, HydrateFiles, HydrateDone, Restaging,
     StageRead, StageTears, StageWrites,
     Exec, ExecSettled, ExecStarts, ExecReturns, CaptureAfterExec, Reconcile, ReconcileEnters, ReconcileSettled,
     ReconcileScans, Capture, Scan, Restaged, Fetch, Commit, Committed, Classified, Stamp, Classify
<1>5. CASE Calls \/ Target \/ WriteReplyLost \/ ExecFails \/ CaptureFails \/ \E m \in Mount : Revoke(m)
  BY <1>u, <1>5 DEF Calls, WriteCommits, ExecCall, OwnCommand, ReconcileCall, Target, Edit, WriteReplyLost, ExecFails,
     CaptureFails, Revoke
<1> QED
  BY <1>1, <1>2, <1>3, <1>4, <1>5, <1>6 DEF Next, Engine, Mirror, Failing, Environment

\* the first full scan that ends closes the resume guard
LEMMA ResumeCloses ==
  ASSUME Types, Next, NEW m \in Mount, resume'[m] = Closed, resume[m] # Closed
  PROVE  Crash \/ (Classified /\ cap.full)
<1>0. resume \in [Mount -> Nat \cup {Closed}] /\ epoch \in Nat
  BY DEF Types, IndexTypes, CountTypes
<1>1. ASSUME NEW n \in Mount, AttachWarm(n) PROVE FALSE
  <2>1. resume' = [resume EXCEPT ![n] = epoch]
    BY <1>1 DEF AttachWarm
  <2> QED
    BY <1>0, <2>1
<1>2. CASE Classified
  BY <1>2 DEF Classified
<1>3. CASE ExecStarts \/ CaptureAfterExec
  BY <1>3 DEF ExecStarts, CaptureAfterExec
<1>4. CASE \/ Attach \/ Attached \/ (\E n \in Mount : HydrateTears(n) \/ HydrateFiles(n) \/ HydrateDone(n)) \/ WriteReturns
           \/ Mirror \/ Restaging \/ ExecSettled \/ ExecReturns \/ Reconcile \/ (Capture /\ ~Classified)
  BY <1>4 DEF Attach, Attached, HydrateTears, HydrateFiles, HydrateDone, WriteReturns, Mirror, MirrorTears,
     MirrorLands, MirrorEnds, Restaging,
     StageRead, StageTears, StageWrites, ExecSettled, ExecReturns, Reconcile, ReconcileEnters, ReconcileSettled,
     ReconcileScans, Capture,
     Scan, Restaged, Fetch, Commit, Committed, Stamp, Classify
<1>5. CASE Calls \/ Target \/ Failing \/ (\E n \in Mount : Revoke(n))
  BY <1>5 DEF Calls, WriteCommits, ExecCall, OwnCommand, ReconcileCall, Target, Edit, Failing, WriteReplyLost, ExecFails,
     CaptureFails, MirrorFails, Revoke
<1> QED
  BY <1>1, <1>2, <1>3, <1>4, <1>5 DEF Next, Engine, Materialize, Exec, Environment

LEMMA LineagesKeep ==
  ASSUME Types, ShasHeld, Lineages, Next
  PROVE  Lineages'
<1>t. \A p \in Path : InLineage(p, Tip(p))
  BY TipType DEF Types, InLineage
<1>1. ASSUME NEW p \in Path, since'[p].edited = "no" PROVE InLineage(p, disk[p])' \/ disk'[p] = Torn
  <2>1. disk'[p] = disk[p] /\ InLineage(p, disk[p]) => InLineage(p, disk[p])'
    BY LineageGrows DEF InLineage
  <2>2. \A sha : disk'[p] = sha /\ InLineage(p, sha) => InLineage(p, disk[p])'
    BY LineageGrows DEF InLineage
  <2>3. \A w \in mirrors : w.path = p => InLineage(p, w.sha)
    BY DEF Lineages, InLineage
  <2>4. CASE Crash
    BY <1>1, <2>1, <2>2, <2>3, <2>4, CrashFate DEF Lineages
  <2>5. ASSUME NEW c \in Content, WriteCommits(p, c) PROVE InLineage(p, disk[p])' \/ disk'[p] = Torn
    <3>1. disk'[p] = disk[p]
      BY <2>5 DEF WriteCommits, target
    <3> QED
      BY <1>1, <1>t, <2>1, <2>5, <3>1, WriteFate DEF Lineages
  <2>6. CASE ~Crash /\ ~\E c \in Content : WriteCommits(p, c)
    <3>1. since[p].edited = "no"
      BY <1>1, <2>6, EditMarks, SinceSteps
    <3>2. disk'[p] # disk[p] => disk'[p] = Torn \/ InLineage(p, disk'[p])
      <4>1. \A w \in Stager : InLineage(p, stage[w].read[p])
        BY DEF ShasHeld
      <4>2. \A c \in Content \cup {Absent} : ~Edit(p, c)
        BY <1>1, EditMarks
      <4> QED
        BY <1>t, <2>3, <4>1, <4>2, DiskSteps
    <3> QED
      BY <2>1, <2>2, <3>1, <3>2 DEF Lineages
  <2> QED
    BY <2>4, <2>5, <2>6
<1>2. ASSUME NEW w \in mirrors' PROVE w.sha \in Held(w.path)'
  <2>1. CASE WriteReturns
    <3>1. host.pc = "written" /\ history' = history
      BY <2>1 DEF WriteReturns, durable
    <3>2. \/ \E u \in mirrors : u.path = w.path /\ u.sha = w.sha
          \/ w.path = host.path /\ w.sha = host.sha
      BY <2>1, LaunchSteps
    <3> QED
      BY <3>1, <3>2 DEF Lineages, ShasHeld, Held
  <2>2. CASE \E u \in mirrors : u.path = w.path /\ u.sha = w.sha
    <3>1. PICK u \in mirrors : u.path = w.path /\ u.sha = w.sha
      BY <2>2
    <3>2. w.path \in Path /\ w.sha \in Held(w.path)
      BY <3>1 DEF Lineages, Types, MirrorTypes, MirrorRecord
    <3>3. PICK p \in Path : p = w.path
      BY <3>2
    <3> QED
      BY <3>2, <3>3, LineageGrows
  <2>3. ASSUME NEW u \in mirrors, MirrorLands(u) PROVE \E v \in mirrors : v.path = w.path /\ v.sha = w.sha
    <3>1. PICK v : v = [u EXCEPT !.landed = TRUE]
      OBVIOUS
    <3>2. mirrors' = (mirrors \ {u}) \cup {v} /\ v.path = u.path /\ v.sha = u.sha
      BY <2>3, <3>1 DEF MirrorTears, MirrorLands, Types, MirrorTypes, MirrorRecord
    <3> QED
      BY <3>2
  <2>4. WriteReturns \/ (\E u \in mirrors : MirrorLands(u)) \/ mirrors' \subseteq mirrors
    <3>1. CASE Crash \/ \E u \in mirrors : MirrorEnds(u) \/ MirrorFails(u) \/ MirrorTears(u)
      BY <3>1 DEF Crash, MirrorEnds, MirrorFails, MirrorTears
    <3>2. CASE Materialize \/ Restaging \/ Exec \/ CaptureAfterExec \/ Reconcile \/ Capture
      BY <3>2 DEF Materialize, Attach, Attached, AttachWarm, HydrateTears, HydrateFiles, HydrateDone, Restaging,
         StageRead, StageTears, StageWrites,
         Exec, ExecSettled, ExecStarts, ExecReturns, CaptureAfterExec, Reconcile, ReconcileEnters, ReconcileSettled,
         ReconcileScans, Capture, Scan, Restaged, Fetch, Commit, Committed, Classified, Stamp, Classify
    <3>3. CASE Calls \/ Target \/ WriteReplyLost \/ ExecFails \/ CaptureFails \/ \E m \in Mount : Revoke(m)
      BY <3>3 DEF Calls, WriteCommits, ExecCall, OwnCommand, ReconcileCall, Target, Edit, WriteReplyLost, ExecFails,
         CaptureFails, Revoke
    <3> QED
      BY <3>1, <3>2, <3>3 DEF Next, Engine, Mirror, Failing, Environment
  <2> QED
    BY <2>1, <2>2, <2>3, <2>4
<1>3. ASSUME NEW p \in Path, Last(history'[p]).op = "write" PROVE Tip(p)' # Absent
  <2>1. history'[p] = history[p] => Tip(p)' = Tip(p)
    BY LineageGrows
  <2>2. \A c \in Content : WriteCommits(p, c) => Tip(p)' # Absent
    BY LineageGrows, EngineAssumption
  <2>3. ~(Commit /\ p \in Differs /\ history'[p] = Append(history[p], [op |-> "capture", sha |-> cap.bytes[p]]))
    <3> SUFFICES ASSUME history'[p] = Append(history[p], [op |-> "capture", sha |-> cap.bytes[p]]) PROVE FALSE
      OBVIOUS
    <3>1. Last(history'[p]) = [op |-> "capture", sha |-> cap.bytes[p]]
      BY Appended DEF Types, HistoryTypes, Last
    <3> QED
      BY <1>3, <3>1
  <2> QED
    BY <1>3, <2>1, <2>2, <2>3, HistorySteps DEF Lineages
<1> QED
  BY <1>1, <1>2, <1>3 DEF Lineages

\* who writes the stamp and the marker
LEMMA StampSteps ==
  ASSUME Next
  PROVE  /\ stamped' = stamped \/ (Attached /\ stamped' = (stamped \/ host.cold))
         /\ marked' = marked \/ \E m \in Mount : HydrateDone(m) /\ marked' = (Mount \ host.left) \cup {m}
<1>1. CASE Materialize
  BY <1>1 DEF Materialize, Attach, Attached, AttachWarm, HydrateTears, HydrateFiles, HydrateDone, target, Change
<1>2. CASE WriteReturns \/ Mirror \/ Restaging \/ Exec \/ CaptureAfterExec \/ Reconcile
  BY <1>2 DEF WriteReturns, Mirror, MirrorTears, MirrorLands, MirrorEnds, Restaging, StageRead, StageTears,
     StageWrites, Exec, ExecSettled, ExecStarts,
     ExecReturns, CaptureAfterExec, Reconcile, ReconcileEnters, ReconcileSettled, ReconcileScans, Change, target
<1>3. CASE Capture
  BY <1>3 DEF Capture, Scan, Restaged, Fetch, Commit, Committed, Classified, Stamp, Classify, target
<1>4. CASE Calls \/ Target
  BY <1>4 DEF Calls, WriteCommits, ExecCall, OwnCommand, ReconcileCall, Target, Edit, Change, target
<1>5. CASE Failing \/ Environment
  BY <1>5 DEF Failing, WriteReplyLost, ExecFails, CaptureFails, MirrorFails, Environment, Revoke, Crash, Change, target
<1> QED
  BY <1>1, <1>2, <1>3, <1>4, <1>5 DEF Next, Engine

\* once the stamp is there every mount is warm
LEMMA AllWarm ==
  ASSUME Hydrated, stamped, NEW m \in Mount
  PROVE  ~HydrateTears(m) /\ ~HydrateFiles(m) /\ ~HydrateDone(m)
  BY DEF Hydrated, Warm, HydrateTears, HydrateFiles, HydrateDone

LEMMA HydratedKeeps ==
  ASSUME Types, Control, Hydrated, Next
  PROVE  Hydrated'
<1>0. marked \subseteq Mount /\ host.left \subseteq Mount /\ disk \in [Path -> Sha] /\ stamped \in BOOLEAN /\ host.cold \in BOOLEAN
  BY DEF Types, TargetTypes, HostTypes, HostRecord
<1>1. ASSUME stamped' PROVE marked' = Mount
  <2>1. CASE stamped
    BY <2>1, AllWarm, StampSteps DEF Hydrated
  <2>2. CASE ~stamped
    <3>1. Attached /\ host.pc = "attach" /\ host.left = {} /\ marked' = marked
      BY <1>1, <2>2, StampSteps, HostSteps DEF Attached
    <3> QED
      BY <1>0, <2>2, <3>1 DEF Hydrated
  <2> QED
    BY <2>1, <2>2
<1> SUFFICES ASSUME ~stamped'
             PROVE  /\ Path # {} => host'.pc \in {"down", "attach"}
                    /\ \A p \in Path : disk'[p] \in {Absent, Tip(p)', Torn}
                    /\ host'.pc = "attach" =>
                          /\ Mount \ host'.left \subseteq marked'
                          /\ host'.left # Mount => host'.cold
                          /\ \A p \in Path : MountOf[p] \notin host'.left => ~Behind(p)'
  BY <1>1 DEF Hydrated
<1>2. ~stamped /\ \A m \in Mount : ~AttachWarm(m)
  BY <1>0, StampSteps DEF AttachWarm, Warm
<1>3. CASE Path = {}
  <2>1. ~Attached => (host'.pc = "attach" =>
            /\ Mount \ host'.left \subseteq marked'
            /\ host'.left # Mount => host'.cold)
    <3> SUFFICES ASSUME ~Attached, host'.pc = "attach"
                 PROVE  Mount \ host'.left \subseteq marked' /\ (host'.left # Mount => host'.cold)
      OBVIOUS
    <3>1. CASE Attach
      BY <3>1, HostSteps
    <3>2. ASSUME NEW m \in Mount, HydrateDone(m) PROVE Mount \ host'.left \subseteq marked' /\ host'.cold
      <4>1. host' = [host EXCEPT !.left = @ \ {m}, !.cold = TRUE] /\ marked' = (Mount \ host.left) \cup {m}
        BY <3>2 DEF HydrateDone
      <4> QED
        BY <4>1 DEF Types, HostTypes, HostRecord
    <3>3. CASE host' = host
      BY <1>2, <3>3, StampSteps, <3>2 DEF Hydrated
    <3> QED
      BY <1>2, <3>1, <3>2, <3>3, HostMoves, HostSteps DEF Exec
  <2>2. Attached => host'.pc # "attach"
    BY HostSteps
  <2> QED
    BY <1>3, <2>1, <2>2
<1>4. CASE Path # {}
  <2>1. host.pc \in {"down", "attach"} /\ Mount # {}
    BY <1>2, <1>4, PathMount DEF Hydrated
  <2>2. ~Attached
    BY <1>0, <1>2, <2>1, StampSteps DEF Hydrated, Attached
  <2>3. host'.pc \in {"down", "attach"}
    BY <2>1, <2>2, AttachSteps, DownSteps, HostMoves, HostSteps DEF Exec, Control
  <2>4. ASSUME NEW p \in Path PROVE disk'[p] \in {Absent, Tip(p)', Torn} /\ (~Behind(p) => ~Behind(p)')
    <3>1. Tip(p)' = Tip(p) /\ (disk'[p] # disk[p] => \E m \in Mount : HydrateTears(m) \/ HydrateFiles(m))
      BY <2>1, AttachQuiet
    <3>2. disk'[p] # disk[p] => disk'[p] \in {Torn, Tip(p)}
      <4>0. mirrors = {} /\ stage["host"].todo = {} /\ stage["job"].todo = {}
        BY <2>1 DEF Control, Types, CapTypes
      <4>1. \A w \in Stager : Chunk(w) = {}
        BY <4>0 DEF Stager, Chunk
      <4>2. \A c \in Content \cup {Absent} : ~Edit(p, c)
        BY <2>1 DEF Edit
      <4> QED
        BY <4>0, <4>1, <4>2, DiskSteps
    <3> QED
      BY <1>2, <3>1, <3>2 DEF Hydrated, Behind
  <2>5. ASSUME host'.pc = "attach"
        PROVE  /\ Mount \ host'.left \subseteq marked'
               /\ host'.left # Mount => host'.cold
               /\ \A p \in Path : MountOf[p] \notin host'.left => ~Behind(p)'
    <3>1. CASE Attach
      BY <3>1, HostSteps, PathMount
    <3>2. ASSUME NEW m \in Mount, HydrateDone(m)
          PROVE  /\ Mount \ host'.left \subseteq marked' /\ host'.cold
                 /\ \A p \in Path : MountOf[p] \notin host'.left => ~Behind(p)'
      <4>1. host' = [host EXCEPT !.left = @ \ {m}, !.cold = TRUE] /\ marked' = (Mount \ host.left) \cup {m}
        BY <3>2 DEF HydrateDone
      <4>2. host'.left = host.left \ {m} /\ host'.cold
        BY <4>1 DEF Types, HostTypes, HostRecord
      <4>3. ASSUME NEW p \in Path, MountOf[p] = m PROVE ~Behind(p)
        <5>1. disk[p] = Tip(p) \/ Tip(p) = Absent
          BY <3>2, <4>3 DEF HydrateDone, Files
        <5> QED
          BY <1>2, <5>1 DEF Hydrated, Behind
      <4>4. host.pc = "attach"
        BY <3>2, HostSteps
      <4> QED
        BY <1>2, <2>4, <4>1, <4>2, <4>3, <4>4 DEF Hydrated
    <3>3. CASE host' = host
      BY <1>2, <2>4, <2>5, <3>2, <3>3, StampSteps DEF Hydrated
    <3> QED
      BY <1>2, <2>1, <2>2, <2>5, <3>1, <3>2, <3>3, HostMoves, HostSteps DEF Exec
  <2> QED
    BY <2>3, <2>4, <2>5
<1> QED
  BY <1>3, <1>4

LEMMA LeftBehindKeeps ==
  ASSUME Types, Control, Hydrated, LeftBehind, Next
  PROVE  LeftBehind'
<1> SUFFICES ASSUME stamped', host'.pc \in {"down", "attach"}, NEW p \in Path, Fresh(p)', disk'[p] = Absent
             PROVE  CreatedByNewestWrite(p)'
  BY DEF LeftBehind
<1>1. CASE Crash
  BY <1>1, CrashFate
<1>2. CASE ~Crash
  <2>1. host.pc \in {"down", "attach"} /\ ~Attached
    BY <1>2, HostMoves, HostSteps DEF Exec, Control
  <2>2. stamped
    BY <2>1, StampSteps
  <2>3. history'[p] = history[p] /\ disk'[p] = disk[p]
    BY <2>1, <2>2, AllWarm, AttachQuiet
  <2>4. Fresh(p)
    BY <1>2, <2>1, AttachQuiet, FreshSteps
  <2> QED
    BY <2>1, <2>2, <2>3, <2>4 DEF LeftBehind, CreatedByNewestWrite
<1> QED
  BY <1>1, <1>2

LEMMA WireKeeps ==
  ASSUME Types, IndexFollows, Lineages, Wire, CaptureSpares, Next
  PROVE  Wire'
<1> SUFFICES ASSUME NEW w \in mirrors', Fresh(w.path)'
             PROVE  w.sha = Tip(w.path)' /\ (w.landed => ~Behind(w.path)')
  BY DEF Wire
<1>1. mirrors' # {} => ~Crash
  BY DEF Crash
<1>2. PICK p \in Path : p = w.path
  BY MirrorKeeps DEF MirrorTypes, MirrorRecord
<1>3. ~\E c \in Content : WriteCommits(p, c)
  <2> SUFFICES ASSUME NEW c \in Content, WriteCommits(p, c) PROVE FALSE
    OBVIOUS
  <2>1. mirrors' = mirrors
    BY DEF WriteCommits
  <2> QED
    BY <1>2, <2>1, WriteFate DEF Pending
<1>4. Fresh(p)
  BY <1>1, <1>2, <1>3, FreshSteps
<1>5. CASE w \in mirrors
  <2>1. w.sha = Tip(p) /\ (w.landed => ~Behind(p)) /\ w.sha \in Content
    BY <1>2, <1>4, <1>5 DEF Wire, Types, MirrorTypes, MirrorRecord
  <2>2. ~(Commit /\ p \in Differs)
    <3> SUFFICES ASSUME Commit, p \in Differs PROVE FALSE
      OBVIOUS
    <3>1. cap.pc = "commit" /\ cap.mount \in granted /\ p \in cap.changed \cup cap.deletes /\ cap.bytes[p] # Tip(p)
      BY DEF Commit, Differs
    <3>2. Owed(p)
      BY <1>2, <1>4, <1>5, <2>1, EngineAssumption DEF Owed, Pending
    <3>3. cap.bytes[p] = Torn
      BY <3>1, <3>2 DEF CaptureSpares, Spared
    <3> QED
      BY <1>1, <1>2, <1>3, <3>3, FreshSteps DEF Passing
  <2>3. Tip(p)' = Tip(p)
    BY <1>3, <2>2, TipSteps
  <2> QED
    BY <1>1, <1>2, <1>3, <2>1, <2>3, BehindStays
<1>6. CASE w \notin mirrors
  <2>1. CASE WriteReturns
    <3>1. history' = history /\ disk' = disk /\ host.pc = "written"
      BY <2>1 DEF WriteReturns, durable, target
    <3>2. CASE \E u \in mirrors : u.path = w.path /\ u.sha = w.sha /\ u.landed = w.landed
      BY <1>2, <1>4, <3>1, <3>2 DEF Wire, Tip, Behind
    <3>3. CASE w.path = host.path /\ w.sha = host.sha /\ w.landed = FALSE
      BY <1>2, <1>4, <3>1, <3>3 DEF IndexFollows, Fresh, Tip
    <3> QED
      BY <2>1, <3>2, <3>3, LaunchSteps
  <2>2. ASSUME NEW u \in mirrors, MirrorLands(u) PROVE w.sha = Tip(p)' /\ ~Behind(p)'
    <3>1. PICK v : v = [u EXCEPT !.landed = TRUE]
      OBVIOUS
    <3>2. mirrors' = (mirrors \ {u}) \cup {v} /\ v.path = u.path /\ v.sha = u.sha
      BY <2>2, <3>1 DEF MirrorTears, MirrorLands, Types, MirrorTypes, MirrorRecord
    <3>3. u.path = p /\ u.sha = w.sha
      BY <1>2, <1>6, <3>2
    <3>4. history' = history
      BY <2>2 DEF MirrorTears, MirrorLands, durable
    <3>5. disk'[p] \in {u.sha, Torn}
      <4>1. PICK c \in Sha : c \in {Torn, u.sha} /\ Change([q \in {u.path} |-> c])
        BY <2>2, MirrorTurns
      <4>2. PICK new : new = [q \in {u.path} |-> c]
        OBVIOUS
      <4> QED
        BY <3>3, <4>1, <4>2 DEF Change
    <3> QED
      BY <1>4, <3>3, <3>4, <3>5 DEF Wire, Tip, Behind
  <2>3. WriteReturns \/ \E u \in mirrors : MirrorLands(u)
    <3>1. CASE Crash \/ \E u \in mirrors : MirrorEnds(u) \/ MirrorFails(u) \/ MirrorTears(u)
      BY <1>6, <3>1 DEF Crash, MirrorEnds, MirrorFails, MirrorTears
    <3>2. CASE Materialize \/ Restaging \/ Exec \/ CaptureAfterExec \/ Reconcile \/ Capture
      BY <1>6, <3>2 DEF Materialize, Attach, Attached, AttachWarm, HydrateTears, HydrateFiles, HydrateDone,
         Restaging, StageRead, StageTears, StageWrites,
         Exec, ExecSettled, ExecStarts, ExecReturns, CaptureAfterExec, Reconcile, ReconcileEnters, ReconcileSettled,
         ReconcileScans, Capture, Scan, Restaged, Fetch, Commit, Committed, Classified, Stamp, Classify
    <3>3. CASE Calls \/ Target \/ WriteReplyLost \/ ExecFails \/ CaptureFails \/ \E m \in Mount : Revoke(m)
      BY <1>6, <3>3 DEF Calls, WriteCommits, ExecCall, OwnCommand, ReconcileCall, Target, Edit, WriteReplyLost, ExecFails,
         CaptureFails, Revoke
    <3> QED
      BY <3>1, <3>2, <3>3 DEF Next, Engine, Mirror, Failing, Environment
  <2> QED
    BY <1>2, <2>1, <2>2, <2>3
<1> QED
  BY <1>5, <1>6

\* bytes that are staged again reach the mirror
LEMMA StageLands ==
  ASSUME Types, NEW w \in Stager, StageWrites(w), NEW p \in Chunk(w)
  PROVE  p \in Path /\ disk'[p] = stage[w].read[p]
<1>1. PICK new : new = [q \in Chunk(w) |-> stage[w].read[q]]
  OBVIOUS
<1>2. Change(new) /\ p \in Path
  BY <1>1, StageChanges
<1> QED
  BY <1>1, <1>2 DEF Change

LEMMA OwingKeeps ==
  ASSUME Types, Control, Hydrated, Wire, Owing, Next
  PROVE  Owing'
<1> SUFFICES ASSUME stamped', NEW p \in Path, Fresh(p)', Behind(p)'
             PROVE  Writing(p)' \/ Pending(p)' \/ since'[p].lost
  BY DEF Owing
<1>1. CASE Crash
  BY <1>1, CrashFate DEF Behind
<1>2. CASE \E c \in Content : WriteCommits(p, c)
  BY <1>2, HostSteps DEF Writing
<1>3. CASE ~Crash /\ ~\E c \in Content : WriteCommits(p, c)
  <2>1. Fresh(p) /\ Behind(p) /\ disk'[p] = disk[p]
    BY <1>3, BehindStays
  <2>2. stamped
    <3>1. Attached => host.pc = "attach" /\ host.left = {} /\ MountOf[p] \in Mount
      BY HostSteps, PathMount
    <3> QED
      BY <2>1, <3>1, StampSteps DEF Hydrated
  <2>3. CASE Writing(p)
    <3>1. ~WriteReplyLost
      BY <1>3, <2>3, FreshSteps DEF Writing
    <3>2. CASE WriteReturns
      BY <2>3, <3>2, LaunchSteps DEF Pending, Writing
    <3>3. CASE ~WriteReturns
      <4>1. host' = host
        BY <1>3, <2>3, <3>1, <3>3, WriteSteps DEF Writing
      <4> QED
        BY <2>3, <4>1 DEF Writing
    <3> QED
      BY <3>2, <3>3
  <2>4. CASE Pending(p)
    <3>1. ASSUME NEW w \in mirrors, w.path = p, MirrorEnds(w) PROVE FALSE
      <4>1. w.landed
        BY <3>1 DEF MirrorEnds
      <4> QED
        BY <2>1, <3>1, <4>1 DEF Wire
    <3>2. ASSUME NEW w \in mirrors, w.path = p, MirrorFails(w) PROVE since'[p].lost
      BY <3>2, FateSteps
    <3> QED
      BY <1>3, <2>4, <3>1, <3>2, PendingEnds
  <2>5. CASE since[p].lost
    <3>1. ASSUME NEW w \in Stager, StageWrites(w), p \in Chunk(w), stage[w].read[p] = Tip(p) PROVE FALSE
      <4>1. disk'[p] = stage[w].read[p]
        BY <3>1, StageLands
      <4> QED
        BY <2>1, <3>1, <4>1 DEF Behind
    <3> QED
      BY <1>3, <2>5, <3>1, FateSteps
  <2> QED
    BY <2>1, <2>2, <2>3, <2>4, <2>5 DEF Owing
<1> QED
  BY <1>1, <1>2, <1>3

LEMMA WriteKnowsKeeps ==
  ASSUME Types, Control, IndexFollows, Wire, Lineages, WriteKnows, PlainIsTrue, Next
  PROVE  WriteKnows'
<1> SUFFICES ASSUME host'.pc = "written", Fresh(host.path)'
             PROVE  /\ ~index'[host'.path].unconfirmed /\ disk'[host'.path] \in {index'[host'.path].sha, Torn}
                    /\ ~Pending(host.path)'
  BY DEF WriteKnows
<1>1. ASSUME NEW p \in Path, NEW c \in Content, WriteCommits(p, c)
      PROVE  ~index'[p].unconfirmed /\ disk'[p] \in {index'[p].sha, Torn} /\ ~Pending(p)'
  <2>1. host'.path = p /\ host.pc = "idle"
    BY <1>1, HostSteps
  <2>2. Fresh(p)'
    BY <2>1
  <2>3. /\ job = "idle" /\ ~Pending(p) /\ ~index[p].unconfirmed
        /\ Behind(p) => resume[MountOf[p]] = Closed
        /\ since[p].unsure \/ since[p].adrift => index[p].sha = disk[p]
    BY <1>1, <2>2, WriteFate
  <2>4. index' = index /\ disk' = disk /\ mirrors' = mirrors /\ MountOf[p] \in granted
    BY <1>1 DEF WriteCommits, target
  <2>5. ASSUME ~since[p].unsure, ~since[p].adrift, disk[p] # Torn PROVE index[p].sha = disk[p]
    <3>1. disk[p] = Tip(p) \/ since[p].edited = "no"
      BY <1>1, <2>2, WriteFate DEF Fresh
    <3>2. index[p].sha = Tip(p)
      <4>1. cap.pc # "committed"
        BY <2>3 DEF Types, CapTypes
      <4> QED
        BY <2>1, <2>5, <4>1 DEF IndexFollows
    <3>3. ASSUME Behind(p) PROVE FALSE
      <4>1. Fresh(p) /\ InUse(p) /\ ~Writing(p)
        BY <2>1, <2>5, <3>1, <3>3 DEF Behind, Fresh, InUse, Writing
      <4> QED
        BY <2>3, <2>4, <3>3, <4>1 DEF PlainIsTrue
    <3> QED
      BY <2>5, <3>2, <3>3 DEF Behind
  <2>6. ~Pending(p)'
    BY <2>3, <2>4 DEF Pending
  <2> QED
    BY <2>3, <2>4, <2>5, <2>6
<1>2. CASE \E p \in Path, c \in Content : WriteCommits(p, c)
  BY <1>1, <1>2, HostSteps
<1>3. CASE ~\E p \in Path, c \in Content : WriteCommits(p, c)
  <2>1. host' = host
    BY <1>3, WrittenStays
  <2>2. PICK p \in Path : p = host.path
    BY <2>1 DEF Types, HostTypes
  <2>3. ~Crash /\ Fresh(p)' /\ ~WriteReturns
    BY <2>1, <2>2, HostSteps
  <2>4. Fresh(p)
    BY <1>3, <2>3, FreshSteps
  <2>5. ~index[p].unconfirmed /\ disk[p] \in {index[p].sha, Torn} /\ ~Pending(p)
    BY <2>1, <2>2, <2>4 DEF WriteKnows
  <2>6. ~Pending(p)'
    BY <2>3, <2>5, PendingSteps
  <2>7. job = "idle" /\ cap.pc = "off"
    BY <2>1, <2>2, <2>4 DEF IndexFollows, Fresh, Types, CapTypes
  <2>8. stage["host"].todo = {} /\ stage["job"].todo = {}
    BY <2>1, <2>7 DEF Control
  <2>9. \A w \in Stager : Chunk(w) = {}
    BY <2>8 DEF Stager, Chunk
  <2>10. /\ \A m \in Mount : ~AttachWarm(m) /\ ~HydrateDone(m) /\ ~Hydrates(m) /\ ~Classify(m)
         /\ ~ExecStarts /\ ~CaptureAfterExec /\ ~Committed
    BY <2>1, <2>7, HostSteps, CapSteps DEF Hydrates, HydrateTears, HydrateFiles
  <2>11. \A c \in Content \cup {Absent} : ~Edit(p, c)
    BY <2>1 DEF Edit
  <2>12. disk'[p] = disk[p]
    BY <2>3, <2>5, <2>9, <2>10, <2>11, DiskSteps DEF Pending
  <2>13. index'[p].sha = index[p].sha /\ index'[p].unconfirmed = index[p].unconfirmed
    BY <2>3, <2>9, <2>10, IndexSteps
  <2> QED
    BY <2>1, <2>2, <2>5, <2>6, <2>12, <2>13
<1> QED
  BY <1>2, <1>3

\* while a path is behind and its mount in use, only a command moves its marks
LEMMA BehindMarks ==
  ASSUME Types, Control, IndexFollows, Converging, Hydrated, Wire, Seen, CaptureSpares, Next,
         NEW p \in Path, Fresh(p)', Behind(p)', InUse(p), ~Writing(p), MountOf[p] \in granted,
         ~Crash, ~\E c \in Content : WriteCommits(p, c)
  PROVE  /\ index'[p].previous = index[p].previous /\ index'[p].unconfirmed = index[p].unconfirmed
         /\ index'[p].writeEpoch = IF (ExecStarts \/ CaptureAfterExec) /\ Pending(p) /\ index[p].unconfirmed
                                   THEN epoch' ELSE index[p].writeEpoch
         /\ ExecStarts \/ CaptureAfterExec \/ epoch' = epoch
         /\ resume'[MountOf[p]] = resume[MountOf[p]]
         /\ Pending(p)' => Pending(p)
         /\ since[p].lost => since'[p].lost
         /\ stamped
<1> DEFINE m == MountOf[p]
<1>0. m \in Mount
  BY PathMount
<1>1. Fresh(p) /\ Behind(p) /\ disk'[p] = disk[p] /\ Tip(p)' = Tip(p)
  BY BehindStays
<1>2. ~(AttachWarm(m) \/ HydrateDone(m))
  BY <1>0, HostSteps DEF InUse, AttachWarm, HydrateDone
<1>3. ~WriteReturns \/ p # host.path
  BY HostSteps DEF Writing
<1>4. \A w \in Stager : ~(StageWrites(w) /\ p \in Chunk(w))
  BY <1>1, FreshSteps, StageLands DEF Behind
<1>5. ~since[p].adrift /\ host.pc # "down"
  BY <1>1 DEF Fresh, InUse
<1>6. index[p].sha = Tip(p) \/ (cap.pc = "committed" /\ p \in cap.changed \cup cap.deletes)
  BY <1>5 DEF IndexFollows, InUse, Writing
<1>7. ~(Classify(m) /\ Confirms(p))
  <2> SUFFICES ASSUME Classify(m), Confirms(p) PROVE FALSE
    OBVIOUS
  <2>1. cap.pc = "mount" /\ m \in cap.left
    BY <1>0, CapSteps
  <2>2. cap.seen[p] # Absent /\ index[p].sha = cap.seen[p]
    BY DEF Confirms, Listed
  <2>3. cap.seen[p] = disk[p]
    BY <1>1, <2>1, <2>2 DEF Seen
  <2> QED
    BY <1>1, <1>6, <2>1, <2>2, <2>3 DEF Behind
<1>8. ~(Committed /\ p \in cap.changed \cup cap.deletes)
  BY <1>1, CapSteps DEF CaptureSpares
<1>9. ~(Classified /\ cap.full)
  <2> SUFFICES ASSUME Classified, cap.full PROVE FALSE
    OBVIOUS
  <2>1. cap.pc = "mount" /\ cap.left = {}
    BY CapSteps
  <2>2. m \in table
    BY <1>5 DEF Control
  <2>3. disk[p] = index[p].sha
    BY <1>5, <2>1, <2>2 DEF Converging, Processed, Busy
  <2> QED
    BY <1>1, <1>6, <2>1, <2>3 DEF Behind
<1>10. resume'[m] = resume[m]
  BY <1>0, <1>2, <1>9, ResumeSteps, ResumeCloses
<1>11. ExecStarts \/ CaptureAfterExec \/ epoch' = epoch
  BY <1>0, ResumeSteps
<1>12. Pending(p)' => Pending(p)
  BY <1>3, PendingSteps
<1>13. since[p].lost => since'[p].lost
  BY <1>4, FateSteps
<1>14. stamped
  BY <1>1, <1>5 DEF Hydrated, InUse
<1>15. CASE (ExecStarts \/ CaptureAfterExec)
  <2>1. /\ index'[p].previous = index[p].previous
        /\ index'[p].writeEpoch = IF Pending(p) /\ index[p].unconfirmed THEN epoch + 1 ELSE index[p].writeEpoch
        /\ epoch' = epoch + 1
    BY <1>15, NoteExecTypes DEF Types, ExecStarts, CaptureAfterExec, NoteExec
  <2>2. index'[p].unconfirmed = index[p].unconfirmed
    BY <1>15, NoteExecTypes DEF Types, ExecStarts, CaptureAfterExec
  <2> QED
    BY <1>10, <1>12, <1>13, <1>14, <1>15, <2>1, <2>2
<1>16. CASE ~(ExecStarts \/ CaptureAfterExec)
  <2>1. /\ index'[p].previous = index[p].previous /\ index'[p].unconfirmed = index[p].unconfirmed
        /\ index'[p].writeEpoch = index[p].writeEpoch
    BY <1>2, <1>3, <1>4, <1>7, <1>8, <1>16, IndexSteps
  <2> QED
    BY <1>10, <1>11, <1>12, <1>13, <1>14, <1>16, <2>1
<1> QED
  BY <1>15, <1>16

\* a path that is behind comes into use by a warm attach only
LEMMA ComesIntoUse ==
  ASSUME Types, Control, Hydrated, LeftBehind, Lineages, Owing, Wire, Next,
         NEW p \in Path, Fresh(p)', Behind(p)', InUse(p)', ~InUse(p), ~Crash
  PROVE  InResume(p)' /\ resume'[MountOf[p]] # Closed
<1> DEFINE m == MountOf[p]
<1>0. m \in Mount
  BY PathMount
<1>1. host.pc \in {"down", "attach"} /\ mirrors = {} /\ stage["host"].todo = {} /\ stage["job"].todo = {}
  BY DEF InUse, Control, Types, CapTypes
<1>2. ~\E c \in Content : WriteCommits(p, c)
  BY <1>1, AttachQuiet
<1>3. /\ Fresh(p) /\ Behind(p) /\ disk'[p] = disk[p]
      /\ Held(p)' = Held(p) /\ CreatedByNewestWrite(p)' = CreatedByNewestWrite(p)
  BY <1>2, BehindStays
<1>4. host.pc = "attach" /\ m \in host.left
  BY <1>0, DownSteps DEF InUse
<1>5. AttachWarm(m) \/ HydrateDone(m)
  <2>1. CASE host' = host
    BY <2>1 DEF InUse
  <2>2. ASSUME NEW n \in Mount, AttachWarm(n) \/ HydrateDone(n) PROVE n = m
    BY <1>4, <2>2, HostSteps DEF InUse
  <2> QED
    BY <1>4, <2>1, <2>2, AttachSteps
<1>6. ~HydrateDone(m)
  <2> SUFFICES ASSUME HydrateDone(m) PROVE FALSE
    OBVIOUS
  <2>1. disk[p] = Tip(p) \/ Tip(p) = Absent
    BY DEF HydrateDone, Files
  <2>2. ~stamped
    BY <1>0, AllWarm
  <2> QED
    BY <1>3, <2>1, <2>2 DEF Hydrated, Behind
<1>7. AttachWarm(m) /\ stamped
  BY <1>5, <1>6 DEF AttachWarm, Warm
<1>8. /\ index'[p] = Plain(Tip(p)) /\ resume'[m] = epoch /\ epoch' = epoch /\ mirrors' = mirrors /\ since' = since
  BY <1>0, <1>7 DEF AttachWarm, Seed, Types, IndexTypes
<1>9. epoch # Closed
  BY DEF Types, IndexTypes
<1>10. since[p].lost
  BY <1>1, <1>3, <1>7 DEF Owing, Writing, Pending
<1>11. disk[p] \in Held(p) \/ (disk[p] = Absent /\ CreatedByNewestWrite(p))
  BY <1>1, <1>3, <1>7 DEF Lineages, InLineage, LeftBehind, Fresh, Behind
<1>12. ~index'[p].unconfirmed
  BY <1>8, TipType, PlainType DEF Types
<1>13. Resuming(p)'
  BY <1>8, <1>12 DEF Resuming
<1>14. ~Pending(p)'
  BY <1>1, <1>8 DEF Pending
<1> QED
  BY <1>3, <1>8, <1>9, <1>10, <1>11, <1>13, <1>14 DEF InResume

\* a write that returned before opens the window of a path that is behind
LEMMA WindowOpens ==
  ASSUME Types, Control, WriteKnows, Wire, Next,
         NEW p \in Path, Fresh(p)', Behind(p)', Writing(p), ~Writing(p)', ~Crash
  PROVE  InWindow(p)'
<1>1. ~\E q \in Path, c \in Content : WriteCommits(q, c)
  BY HostSteps DEF Writing
<1>2. Fresh(p) /\ Behind(p) /\ disk'[p] = disk[p]
  BY <1>1, BehindStays
<1>3. WriteReturns
  BY <1>1, FreshSteps, WriteSteps DEF Writing
<1>4. index'[p].previous = Confirmed(p) /\ index'[p].writeEpoch = epoch /\ epoch' = epoch
  <2>1. PICK e : e = [Plain(host.sha) EXCEPT !.previous = Confirmed(p), !.unconfirmed = TRUE, !.writeEpoch = epoch]
    OBVIOUS
  <2>2. index' = [index EXCEPT ![p] = e] /\ epoch' = epoch
    BY <1>3, <2>1 DEF WriteReturns, Writing
  <2>3. index'[p] = e
    BY <2>2 DEF Types, IndexTypes
  <2>4. host.sha \in Sha
    BY DEF Types, HostTypes, HostRecord
  <2>5. e.previous = Confirmed(p) /\ e.writeEpoch = epoch
    BY <2>1, <2>4, PlainType DEF Entry
  <2> QED
    BY <2>2, <2>3, <2>5
<1>5. index'[p].unconfirmed
  <2>1. PICK e : e = [Plain(host.sha) EXCEPT !.previous = Confirmed(p), !.unconfirmed = TRUE, !.writeEpoch = epoch]
    OBVIOUS
  <2>2. index' = [index EXCEPT ![p] = e]
    BY <1>3, <2>1 DEF WriteReturns, Writing
  <2>3. index'[p] = e
    BY <2>2 DEF Types, IndexTypes
  <2>4. host.sha \in Sha
    BY DEF Types, HostTypes, HostRecord
  <2>5. e.unconfirmed
    BY <2>1, <2>4, PlainType DEF Entry
  <2> QED
    BY <2>3, <2>5
<1>6. Confirmed(p) = disk[p]
  BY <1>2 DEF WriteKnows, Writing, Confirmed, Behind
<1> QED
  BY <1>2, <1>4, <1>5, <1>6 DEF InWindow, Guarded

LEMMA OwedIsGuardedKeeps ==
  ASSUME Types, Control, IndexFollows, Converging, Survival, Next
  PROVE  OwedIsGuarded'
<1> USE DEF Survival
<1> SUFFICES ASSUME NEW p \in Path, Owed(p)', Behind(p)', InUse(p)', MountOf[p] \in granted', ~Writing(p)'
             PROVE  InWindow(p)' \/ InResume(p)'
  BY DEF OwedIsGuarded
<1>0. Fresh(p)' /\ MountOf[p] \in granted
  BY GrantsShrink DEF Owed
<1>1. ~Crash /\ ~\E c \in Content : WriteCommits(p, c)
  BY HostSteps DEF InUse, Writing
<1>2. CASE ~InUse(p)
  BY <1>0, <1>1, <1>2, ComesIntoUse
<1>3. CASE Writing(p)
  BY <1>0, <1>1, <1>3, WindowOpens
<1>4. CASE InUse(p) /\ ~Writing(p)
  <2>1. /\ Fresh(p) /\ Behind(p) /\ disk'[p] = disk[p] /\ Tip(p)' = Tip(p) /\ Held(p)' = Held(p)
        /\ CreatedByNewestWrite(p)' = CreatedByNewestWrite(p)
    BY <1>0, <1>1, BehindStays
  <2>2. /\ index'[p].previous = index[p].previous
        /\ index'[p].writeEpoch = IF (ExecStarts \/ CaptureAfterExec) /\ Pending(p) /\ index[p].unconfirmed
                                  THEN epoch' ELSE index[p].writeEpoch
        /\ ExecStarts \/ CaptureAfterExec \/ epoch' = epoch
        /\ resume'[MountOf[p]] = resume[MountOf[p]]
    BY <1>0, <1>1, <1>4, BehindMarks
  <2>3. /\ index'[p].unconfirmed = index[p].unconfirmed
        /\ Pending(p)' => Pending(p)
        /\ since[p].lost => since'[p].lost
        /\ stamped
    BY <1>0, <1>1, <1>4, BehindMarks
  <2>4. since'[p].lost /\ since'[p].ran => Pending(p)
    BY <2>3 DEF Owed
  <2>5. since[p].ran => since'[p].ran \/ Pending(p)
    BY <1>1, FateSteps DEF Pending
  <2>6. Owed(p)
    BY <2>1, <2>3, <2>4, <2>5 DEF Owed
  <2>7. since[p].lost \/ Pending(p)
    BY <1>4, <2>1, <2>3 DEF Owing
  <2>8. ExecStarts \/ CaptureAfterExec => Pending(p)
    BY <2>3, <2>4, <2>7, FateSteps
  <2>9. CASE InWindow(p)
    BY <2>1, <2>2, <2>3, <2>8, <2>9 DEF InWindow, Guarded
  <2>10. CASE InResume(p)
    BY <2>1, <2>2, <2>3, <2>8, <2>10 DEF InResume, Resuming
  <2> QED
    BY <1>0, <1>4, <2>1, <2>6, <2>9, <2>10 DEF OwedIsGuarded
<1> QED
  BY <1>2, <1>3, <1>4

LEMMA PlainIsTrueKeeps ==
  ASSUME Types, Control, IndexFollows, Converging, Survival, Next
  PROVE  PlainIsTrue'
<1> USE DEF Survival
<1> SUFFICES ASSUME NEW p \in Path, Fresh(p)', Behind(p)', InUse(p)', MountOf[p] \in granted', ~Writing(p)'
             PROVE  index'[p].unconfirmed \/ resume'[MountOf[p]] # Closed
  BY DEF PlainIsTrue
<1>0. MountOf[p] \in granted
  BY GrantsShrink
<1>1. ~Crash /\ ~\E c \in Content : WriteCommits(p, c)
  BY HostSteps DEF InUse, Writing
<1>2. CASE ~InUse(p)
  BY <1>1, <1>2, ComesIntoUse
<1>3. CASE Writing(p)
  BY <1>1, <1>3, WindowOpens DEF InWindow, Guarded
<1>4. CASE InUse(p) /\ ~Writing(p)
  <2>1. Fresh(p) /\ Behind(p)
    BY <1>1, BehindStays
  <2>2. index'[p].unconfirmed = index[p].unconfirmed /\ resume'[MountOf[p]] = resume[MountOf[p]]
    BY <1>0, <1>1, <1>4, BehindMarks
  <2> QED
    BY <1>0, <1>4, <2>1, <2>2 DEF PlainIsTrue
<1> QED
  BY <1>2, <1>3, <1>4

LEMMA SeenKeeps ==
  ASSUME Types, Control, CapShape, Wire, Seen, Next
  PROVE  Seen'
<1> SUFFICES ASSUME cap'.pc \in Busy \cup {"mount"}, NEW p \in Path, MountOf[p] \in cap'.left, Fresh(p)', Behind(p)'
             PROVE  cap'.seen[p] = disk'[p] \/ (cap'.seen[p] = Absent /\ ~cap'.full)
  BY DEF Seen
<1>1. ~Crash /\ ~\E c \in Content : WriteCommits(p, c)
  <2>1. ~Crash
    BY BeginType DEF Crash, Busy
  <2>2. ASSUME NEW c \in Content, WriteCommits(p, c) PROVE FALSE
    <3>1. job = "idle" /\ cap' = cap
      BY <2>2, WriteFate DEF WriteCommits
    <3> QED
      BY <3>1 DEF Types, CapTypes, Busy
  <2> QED
    BY <2>1, <2>2
<1>2. Fresh(p) /\ Behind(p) /\ disk'[p] = disk[p]
  BY <1>1, BehindStays
<1>3. CASE Scan
  BY <1>2, <1>3, CapSteps DEF Found
<1>4. CASE ~Scan
  <2>1. /\ cap.pc \in Busy \cup {"mount"} /\ cap'.left \subseteq cap.left
        /\ cap'.seen = cap.seen /\ cap'.full = cap.full
    <3>1. CASE UNCHANGED cap
      BY <3>1
    <3>2. CASE Capture /\ ~Stamp
      BY <1>4, <3>2, CapSteps DEF Capture, Busy
    <3>3. CASE ReconcileEnters \/ ReconcileSettled
      BY <3>3, CapSteps DEF Busy
    <3>4. CASE JobMoves /\ (~Capture \/ Stamp) /\ ~ReconcileEnters /\ ~ReconcileSettled
      BY <3>1, <3>4, CapTurns, BeginType DEF Busy
    <3> QED
      BY <3>1, <3>2, <3>3, <3>4, JobStays
  <2> QED
    BY <1>2, <2>1 DEF Seen
<1> QED
  BY <1>3, <1>4

\* a cycle that has classified a mount and not committed it goes on with the same files
LEMMA CycleSteps ==
  ASSUME Types, Next, cap'.pc \in {"restage", "fetch", "commit"}
  PROVE  \/ \E m \in Mount : Classify(m)
         \/ /\ cap.pc \in {"restage", "fetch", "commit"} /\ cap'.mount = cap.mount /\ cap'.full = cap.full
            /\ cap'.changed = cap.changed /\ cap'.deletes = cap.deletes
            /\ cap'.pc = "commit" => \/ cap.pc = "commit" /\ cap'.bytes = cap.bytes
                                     \/ Fetch /\ cap'.bytes = ReadFiles(cap.changed)
            /\ ~Commit
<1>1. CASE UNCHANGED cap
  BY <1>1, CapSteps
<1>2. CASE Capture /\ ~Stamp
  BY <1>2, CapSteps DEF Capture
<1>3. CASE ReconcileEnters \/ ReconcileSettled
  BY <1>3, CapSteps
<1>4. CASE JobMoves /\ (~Capture \/ Stamp) /\ ~ReconcileEnters /\ ~ReconcileSettled
  BY <1>1, <1>4, CapTurns, BeginType
<1> QED
  BY <1>1, <1>2, <1>3, <1>4, JobStays

\* what a scan finds of a path the engine owes is staged again, not captured
LEMMA OwedIsRestaged ==
  ASSUME Types, Control, IndexFollows, OwedIsGuarded, Seen,
         NEW p \in Path, Owed(p), Behind(p), MountOf[p] \in granted, cap.pc = "mount", MountOf[p] \in cap.left
  PROVE  ~Changed(p) /\ ~Deleted(p)
<1>1. Fresh(p) /\ Tip(p) # Absent /\ ~since[p].adrift
  BY DEF Owed, Fresh
<1>2. job # "idle" /\ host.pc \notin {"down", "attach"} /\ ~Writing(p)
  BY <1>1 DEF Types, CapTypes, Control, IndexFollows, Writing
<1>3. InWindow(p) \/ InResume(p)
  BY <1>2 DEF OwedIsGuarded, InUse
<1>4. cap.seen[p] = disk[p] \/ (cap.seen[p] = Absent /\ ~cap.full)
  BY <1>1 DEF Seen
<1>5. Known(p)
  BY <1>1, <1>2 DEF IndexFollows, Known, Writing
<1> SUFFICES ASSUME Diverges(p), Listed(p) \/ cap.full PROVE Restage(p)
  BY <1>5 DEF Changed, Deleted, Diverges
<1>6. cap.seen[p] = disk[p]
  BY <1>4 DEF Listed
<1>7. CASE InWindow(p)
  BY <1>6, <1>7 DEF InWindow, Straggler, Restage
<1>8. CASE InResume(p)
  BY <1>6, <1>8 DEF InResume, Stale, Restage, Listed, Held
<1> QED
  BY <1>3, <1>7, <1>8

LEMMA CaptureSparesKeeps ==
  ASSUME Types, Control, CapShape, IndexFollows, StagedApart, Converging, Survival, Next
  PROVE  CaptureSpares'
<1> USE DEF Survival
<1>1. ASSUME cap'.deletes # {} PROVE cap'.full
  <2>1. CASE UNCHANGED cap
    BY <1>1, <2>1 DEF CaptureSpares
  <2>2. CASE Capture /\ ~Stamp
    BY <1>1, <2>2, CapSteps DEF Capture, CaptureSpares, Deleted, Diverges
  <2>3. CASE ReconcileEnters \/ ReconcileSettled
    <3>1. cap'.deletes = {}
      BY <2>3, CapSteps DEF CapShape, Busy
    <3> QED
      BY <1>1, <3>1
  <2>4. CASE JobMoves /\ (~Capture \/ Stamp) /\ ~ReconcileEnters /\ ~ReconcileSettled
    BY <1>1, <2>1, <2>4, CapTurns, BeginType
  <2> QED
    BY <2>1, <2>2, <2>3, <2>4, JobStays
<1>w. ASSUME NEW p \in Path, Fresh(p)', cap'.pc \in Busy PROVE ~Crash /\ ~\E c \in Content : WriteCommits(p, c)
  <2>1. ~Crash
    BY <1>w, BeginType DEF Crash, Busy
  <2>2. ASSUME NEW c \in Content, WriteCommits(p, c) PROVE FALSE
    <3>1. job = "idle" /\ cap' = cap
      BY <1>w, <2>2, WriteFate DEF WriteCommits
    <3> QED
      BY <1>w, <3>1 DEF Types, CapTypes, Busy
  <2> QED
    BY <2>1, <2>2
<1>2. ASSUME NEW p \in cap'.changed \cup cap'.deletes, cap'.pc \in {"restage", "fetch", "commit"}, Owed(p)',
             cap'.mount \in granted'
      PROVE  Spared(p)'
  <2>0. p \in Path /\ cap'.mount \in granted
    BY <1>2, CapKeeps, GrantsShrink DEF CapTypes, CapRecord
  <2>1. Fresh(p)'
    BY <1>2 DEF Owed
  <2>2. ~Crash /\ ~\E c \in Content : WriteCommits(p, c)
    BY <1>2, <1>w, <2>0, <2>1 DEF Busy
  <2>3. Fresh(p)
    BY <2>0, <2>1, <2>2, FreshSteps
  <2>4. Behind(p)' => Behind(p)
    BY <2>0, <2>1, <2>2, BehindStays
  <2>5. CASE \E m \in Mount : Classify(m)
    <3>1. PICK m \in Mount : Classify(m)
      BY <2>5
    <3>2. /\ cap.pc = "mount" /\ m \in cap.left /\ cap'.mount = m /\ cap'.pc = "restage"
          /\ p \in Files(m) /\ cap'.deletes = {q \in Files(m) : m \in table /\ Deleted(q)}
          /\ Changed(p) \/ Deleted(p)
      BY <1>2, <3>1, CapSteps
    <3>3. disk' = disk /\ history' = history /\ since' = since /\ mirrors' = mirrors
      BY <3>1 DEF Classify, durable, target
    <3>4. Owed(p) /\ Tip(p)' = Tip(p)
      BY <1>2, <3>3 DEF Owed, Fresh, Pending, Tip
    <3>5. MountOf[p] = m
      BY <3>2 DEF Files
    <3>6. ~Behind(p)
      BY <2>0, <3>2, <3>4, <3>5, OwedIsRestaged
    <3>7. ~Deleted(p)
      <4> SUFFICES ASSUME Deleted(p) PROVE FALSE
        OBVIOUS
      <4>1. cap.full /\ cap.seen[p] = Absent
        BY DEF Deleted, Diverges, Listed
      <4>2. cap.seen[p] = disk[p]
        BY <2>0, <3>2, <3>5, <4>1 DEF Converging
      <4> QED
        BY <3>4, <3>6, <4>1, <4>2, EngineAssumption DEF Owed, Behind
    <3> QED
      BY <2>4, <3>2, <3>6, <3>7 DEF Spared
  <2>6. CASE ~\E m \in Mount : Classify(m)
    <3>1. /\ cap.pc \in {"restage", "fetch", "commit"} /\ cap'.mount = cap.mount
          /\ cap'.changed = cap.changed /\ cap'.deletes = cap.deletes
          /\ cap'.pc = "commit" => \/ cap.pc = "commit" /\ cap'.bytes = cap.bytes
                                   \/ Fetch /\ cap'.bytes = ReadFiles(cap.changed)
          /\ ~Commit
      BY <1>2, <2>6, CycleSteps
    <3>2. Tip(p)' = Tip(p)
      BY <2>0, <2>2, <3>1, TipSteps
    <3>3. job # "idle"
      BY <3>1 DEF Types, CapTypes
    <3>4. p \notin stage["job"].todo
      BY <1>2, <3>1 DEF StagedApart, Control
    <3>5. since[p].lost => since'[p].lost
      <4>1. ~\E w \in Stager : StageWrites(w) /\ p \in Chunk(w) /\ (w = "job" \/ job = "idle")
        BY <3>3, <3>4 DEF Chunk
      <4> QED
        BY <2>0, <2>2, <4>1, FateSteps
    <3>6. since[p].ran => since'[p].ran \/ Pending(p)
      BY <2>0, <2>2, FateSteps DEF Pending
    <3>7. Pending(p)' => Pending(p)
      <4>1. WriteReturns /\ p = host.path => FALSE
        BY <2>3, <3>3, HostSteps DEF IndexFollows, Fresh
      <4> QED
        BY <2>0, <4>1, PendingSteps
    <3>8. Owed(p)
      BY <1>2, <2>3, <3>2, <3>5, <3>6, <3>7 DEF Owed
    <3>9. Spared(p)
      BY <1>2, <2>0, <3>1, <3>8 DEF CaptureSpares
    <3>10. cap'.pc = "commit" => cap'.bytes[p] \in {Tip(p), Torn}
      <4>1. CASE cap.pc = "commit" /\ cap'.bytes = cap.bytes
        BY <3>9, <4>1 DEF Spared
      <4>2. CASE cap'.bytes = ReadFiles(cap.changed)
        BY <1>2, <2>0, <3>1, <3>9, <4>2 DEF Spared, ReadFiles, Behind
      <4> QED
        BY <3>1, <4>1, <4>2
    <3> QED
      BY <2>4, <3>1, <3>2, <3>9, <3>10 DEF Spared
  <2> QED
    BY <2>5, <2>6
<1>3. ASSUME NEW p \in cap'.changed \cup cap'.deletes, cap'.pc = "committed", Fresh(p)' PROVE ~Behind(p)'
  <2>0. p \in Path
    BY CapKeeps DEF CapTypes, CapRecord
  <2>1. ~Crash /\ ~\E c \in Content : WriteCommits(p, c)
    BY <1>3, <1>w, <2>0 DEF Busy
  <2>2. CASE Commit
    <3>1. /\ cap.pc = "commit" /\ cap'.changed = Differs \ cap.deletes /\ cap'.deletes = cap.deletes
      BY <2>2, CapSteps
    <3>2. disk' = disk
      BY <2>2 DEF Commit, target
    <3>3. CASE p \in Differs
      <4>1. cap.bytes[p] = disk[p]
        BY <1>3, <2>0, <2>1, <2>2, <3>3, FreshSteps DEF Passing
      <4>2. Tip(p)' = cap.bytes[p]
        BY <2>0, <2>2, <3>3, LineageGrows
      <4> QED
        BY <3>2, <4>1, <4>2 DEF Behind
    <3>4. CASE p \notin Differs
      <4>1. p \in cap.deletes
        BY <1>3, <3>1, <3>4
      <4>2. cap.bytes[p] = disk[p]
        BY <3>1, <4>1 DEF CaptureSpares, Converging
      <4>3. cap.bytes[p] = Tip(p)
        BY <3>4, <4>1 DEF Differs
      <4>4. Tip(p)' = Tip(p)
        BY <2>0, <2>1, <3>4, TipSteps
      <4> QED
        BY <3>2, <4>2, <4>3, <4>4 DEF Behind
    <3> QED
      BY <3>3, <3>4
  <2>3. CASE ~Commit
    <3>1. cap' = cap
      BY <1>3, <2>3, CommittedStays
    <3>2. Fresh(p)
      BY <1>3, <2>0, <2>1, FreshSteps
    <3>3. ~Behind(p)
      BY <1>3, <3>1, <3>2 DEF CaptureSpares
    <3> QED
      BY <1>3, <2>0, <2>1, <3>3, BehindStays
  <2> QED
    BY <2>2, <2>3
<1> QED
  BY <1>1, <1>2, <1>3 DEF CaptureSpares

LEMMA SurvivalInit == Init => Survival
<1> SUFFICES ASSUME Init PROVE Survival
  OBVIOUS
<1>1. /\ disk = [p \in Path |-> Absent] /\ ~stamped /\ mirrors = {} /\ host.pc = "down" /\ cap.pc = "off"
      /\ cap.changed = {} /\ cap.deletes = {}
  BY BeginType DEF Init, Away
<1>2. \A p \in Path : Last(history[p]).op = "import"
  BY DEF Init, Last
<1>3. Lineages
  BY <1>1, <1>2 DEF Lineages, InLineage
<1>4. Hydrated /\ LeftBehind /\ Owing
  BY <1>1 DEF Hydrated, LeftBehind, Owing
<1>5. Wire /\ WriteKnows /\ OwedIsGuarded /\ PlainIsTrue /\ Seen /\ CaptureSpares
  BY <1>1 DEF Wire, WriteKnows, OwedIsGuarded, PlainIsTrue, InUse, Seen, CaptureSpares, Busy
<1> QED
  BY <1>3, <1>4, <1>5 DEF Survival

LEMMA SurvivalStep == EngineInv /\ Survival /\ [Next]_vars => Survival'
<1> SUFFICES ASSUME EngineInv, Survival, [Next]_vars PROVE Survival'
  OBVIOUS
<1>0. Types /\ Control /\ CapShape /\ ShasHeld /\ IndexFollows /\ StagedApart /\ Converging
  BY DEF EngineInv, ListInv
<1>1. CASE Next
  <2>1. Lineages' /\ Hydrated' /\ LeftBehind' /\ Wire' /\ Owing'
    BY <1>0, <1>1, LineagesKeep, HydratedKeeps, LeftBehindKeeps, WireKeeps, OwingKeeps DEF Survival
  <2>2. WriteKnows'
    BY <1>0, <1>1, WriteKnowsKeeps DEF Survival
  <2>3. OwedIsGuarded' /\ PlainIsTrue' /\ CaptureSpares'
    BY <1>0, <1>1, OwedIsGuardedKeeps, PlainIsTrueKeeps, CaptureSparesKeeps
  <2>4. Seen'
    BY <1>0, <1>1, SeenKeeps DEF Survival
  <2> QED
    BY <2>1, <2>2, <2>3, <2>4 DEF Survival
<1>2. CASE UNCHANGED vars
  <2>1. /\ UNCHANGED <<history, granted, disk, stamped, marked, index, resume, epoch, mirrors, cap, host, since>>
        /\ \A p \in Path : Fresh(p)' = Fresh(p) /\ Tip(p)' = Tip(p) /\ Pending(p)' = Pending(p) /\ Held(p)' = Held(p)
                           /\ Behind(p)' = Behind(p) /\ Writing(p)' = Writing(p) /\ InUse(p)' = InUse(p)
                           /\ CreatedByNewestWrite(p)' = CreatedByNewestWrite(p)
    BY <1>2 DEF vars, durable, target, Fresh, Tip, Pending, Held, Behind, Writing, InUse, CreatedByNewestWrite
  <2>2. /\ \A p \in Path : Owed(p)' = Owed(p) /\ InWindow(p)' = InWindow(p) /\ InResume(p)' = InResume(p)
                           /\ Spared(p)' = Spared(p)
        /\ \A p \in Path : \A sha : InLineage(p, sha)' = InLineage(p, sha)
    BY <2>1 DEF Owed, InWindow, InResume, Spared, InLineage, Guarded, Resuming
  <2>3. Lineages' /\ LeftBehind'
    <3>1. \A w \in mirrors : w.path \in Path
      BY <1>0 DEF Types, MirrorTypes, MirrorRecord
    <3> QED
      BY <2>1, <2>2, <3>1 DEF Survival, Lineages, LeftBehind
  <2>4. Hydrated'
    BY <2>1 DEF Survival, Hydrated
  <2>5. Wire' /\ WriteKnows'
    BY <1>2 DEF vars, durable, target, Survival, Wire, WriteKnows, Fresh, Tip, Pending, Behind
  <2>6. Owing' /\ OwedIsGuarded' /\ PlainIsTrue'
    BY <2>1, <2>2 DEF Survival, Owing, OwedIsGuarded, PlainIsTrue
  <2>7. Seen' /\ CaptureSpares'
    BY <1>0, <2>1, <2>2 DEF Survival, Seen, CaptureSpares, Types, CapTypes, CapRecord
  <2> QED
    BY <2>3, <2>4, <2>5, <2>6, <2>7 DEF Survival
<1> QED
  BY <1>1, <1>2

\* what a commit replaces of a write that is owed
LEMMA CommitSpares ==
  ASSUME Types, Survival, Next, NEW p \in Path, Reverts(p)
  PROVE  Justified(p) \/ since[p].unsure \/ since[p].adrift \/ CapturesTorn(p)
<1>1. Last(history'[p]).op = "capture" /\ Last(history[p]).op = "write" /\ history'[p] # history[p]
  BY DEF Reverts, Captures
<1>2. ASSUME NEW c \in Content, history'[p] = Append(history[p], [op |-> "write", sha |-> c]) PROVE FALSE
  <2>1. [op |-> "write", sha |-> c] \in Version
    BY DEF Version, Sha
  <2>2. Last(history'[p]) = [op |-> "write", sha |-> c]
    BY <1>2, <2>1, Appended DEF Types, HistoryTypes
  <2> QED
    BY <1>1, <2>2
<1>3. Commit /\ p \in Differs
  BY <1>1, <1>2, HistorySteps
<1>4. cap.pc = "commit" /\ cap.mount \in granted /\ p \in cap.changed \cup cap.deletes /\ cap.bytes[p] # Tip(p)
  BY <1>3 DEF Commit, Differs
<1>5. Tip(p) # Absent
  BY <1>1 DEF Survival, Lineages
<1>6. ASSUME Owed(p) PROVE CapturesTorn(p)
  <2>1. cap.bytes[p] = Torn
    BY <1>4, <1>6 DEF Survival, CaptureSpares, Spared
  <2>2. Tip(p)' = cap.bytes[p]
    BY <1>3, LineageGrows
  <2> QED
    BY <1>1, <2>1, <2>2 DEF CapturesTorn, Captures, Tip
<1> QED
  BY <1>5, <1>6 DEF Owed, Fresh, Justified

(* No capture takes back a tool write that nothing on the target changed,  *)
(* whatever order calls, mirror writes, scans, commits and crashes come    *)
(* in, files torn on the way included: only what DurableWritesSurvive      *)
(* names, a command's edit, a lost mirror write a command ran after, a file*)
(* the engine's own write has torn, or a race or a torn commit the index   *)
(* does not show.                                                          *)
THEOREM WritesSurvive == Spec => DurableWritesSurvive
<1>1. Init => EngineInv /\ Survival
  BY EngineInit, SurvivalInit
<1>2. EngineInv /\ Survival /\ [Next]_vars => (EngineInv /\ Survival)'
  BY EngineStep, SurvivalStep
<1>3. EngineInv /\ Survival /\ [Next]_vars =>
        [\A p \in Path :
            Reverts(p) => Justified(p) \/ since[p].unsure \/ since[p].adrift \/ CapturesTorn(p)]_vars
  BY CommitSpares DEF EngineInv, ListInv
<1> QED
  BY <1>1, <1>2, <1>3, PTL DEF Spec, DurableWritesSurvive
=============================================================================
