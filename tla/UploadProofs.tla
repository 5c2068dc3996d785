---------------------------- MODULE UploadProofs ----------------------------
(***************************************************************************)
(* What the object store holds, for any number of calls, contents and      *)
(* failures: proofs about Upload.  The steps of a call, of a stream and of *)
(* everything around them are lemmas of their own, for the types and for   *)
(* the rest of the invariant; each has a step per action.                  *)
(***************************************************************************)
EXTENDS Upload, TLAPS

USE DEF Goto, At, Calm, Fault

-----------------------------------------------------------------------------
(* The inductive invariant.                                                *)

\* what is being stored is large once its size is known
Stores == \A c \in Call :
    /\ call[c].pc \notin {"new", "end", "streamPut", "streamRead", "cleanup"} => call[c].sha \in Large
    /\ At(c, "streamPut") => call[c].sha \in Content
    /\ call[c].pc \in {"copy", "streamPut", "streamRead", "streamCopy", "streamInsert"} => ~call[c].cas

\* what is about to be copied was hashed, and is still there unless a PUT has replaced it
CopiesVerified == \A c \in Call :
    /\ At(c, "copy") => quarantine[c] \in {call[c].sha, Missing} \/ (c \in swapped /\ quarantine[c] \in Large)
    /\ At(c, "streamCopy") => quarantine[c] \in {call[c].sha, Missing}

\* a PUT needs a URL, and only uploads and presign hand one out
UrlsAreOfUploads == \A c \in urls :
    /\ call[c].pc \in Deletes \cup {"lock", "confirm", "insert", "end"}
    /\ call[c].sha \in Large
    /\ enforcing => call[c].cas

\* an object that changed under promote is one of a store that enforces nothing, and of a call
\* that has begun
SwapsAreUnverified == \A c \in swapped : ~enforcing /\ call[c].pc \notin {"new", "put", "promote"}

\* a call that is about to insert a row has its object
InsertsConfirmed == \A c \in Call : call[c].pc \in {"insert", "streamInsert"} => cas[call[c].sha] # Missing

\* the advisory lock: no call shares it while gc has it
LockExcludes == Sweeping => Sharing = {}

\* gc does not delete what a row knows
SweepSpares == gc.pc = "sweep" => \A x \in rows : <<"cas", x>> \notin gc.list

\* a call that is not over may have bytes in quarantine while it goes to delete them
Keeps == {"put", "promote", "copy", "promoted", "discard", "streamRead", "streamCopy", "streamInsert", "cleanup"}
QuarantineIsKept == \A c \in Call :
    quarantine[c] # Missing => c \in excused \/ (~call[c].cas /\ call[c].pc \in Keeps)

Rest ==
    /\ CasHoldsVerified /\ RowsHaveObjects /\ UrlsAreOfUploads /\ SwapsAreUnverified
    /\ CopiesVerified /\ InsertsConfirmed /\ LockExcludes /\ QuarantineIsKept

Inv == TypeOK /\ Stores /\ SweepSpares /\ Rest

Pc == {"new", "put", "promote", "copy", "promoted", "discard", "lock", "end"} \cup Shared
Record == [pc : Pc, sha : Content \cup {Missing}, cas : BOOLEAN]

\* what Goto does, without its EXCEPT
Moved(c, pc) ==
    /\ call' \in [Call -> Record]
    /\ call'[c].pc = pc /\ call'[c].sha = call[c].sha /\ call'[c].cas = call[c].cas
    /\ \A d \in Call : d # c => call'[d] = call[d]

LEMMA GotoMoves ==
  ASSUME TypeOK, NEW c \in Call, NEW pc \in Pc, Goto(c, pc)
  PROVE  Moved(c, pc)
  BY DEF TypeOK, Moved, Record, Pc

-----------------------------------------------------------------------------
(* Types.                                                                  *)

LEMMA InitInv == Init => Inv
  BY UploadAssumption DEF Init, TypeOK, NotYet, GcIdle, KeyName, Shared, Inv, Stores, Rest, CasHoldsVerified,
     RowsHaveObjects, UrlsAreOfUploads, SwapsAreUnverified, Deletes, CopiesVerified, InsertsConfirmed, LockExcludes, SweepSpares,
     QuarantineIsKept, Sweeping, Content

LEMMA UploadTypes ==
  ASSUME TypeOK, Stores, CopiesVerified, NEW c \in Call, Uploading(c)
  PROVE  TypeOK' /\ Stores'
<1> USE DEF TypeOK, Stores, store, Shared, Content
<1>1. ASSUME NEW x \in Large, Begin(c, x) PROVE TypeOK' /\ Stores'
  <2>1. (cas[x] # Missing \/ enforcing) \in BOOLEAN
    OBVIOUS
  <2>2. call' \in [Call -> Record]
    BY <1>1, <2>1 DEF Begin, Record, Pc
  <2> QED
    BY <1>1, <2>2 DEF Begin, Record, Pc
<1>3. CASE Uploaded(c)
  BY <1>3 DEF Uploaded
<1>4. CASE Observe(c)
  BY <1>4 DEF Observe
<1>5. CASE Verify(c)
  BY <1>5 DEF Verify
<1>6. CASE Copy(c)
  BY <1>6 DEF Copy, CopiesVerified
<1>7. CASE PromoteFails(c)
  BY <1>7, UploadAssumption DEF PromoteFails
<1>8. CASE Discard(c)
  <2>1. CASE At(c, "promoted") /\ Delete(c, "lock")
    BY <2>1, UploadAssumption DEF Delete
  <2>2. CASE At(c, "discard") /\ Delete(c, "end")
    BY <2>2, UploadAssumption DEF Delete
  <2> QED
    BY <1>8, <2>1, <2>2 DEF Discard
<1>9. CASE LockToCapture(c)
  BY <1>9 DEF LockToCapture
<1>10. CASE ConfirmStored(c)
  BY <1>10 DEF ConfirmStored
<1>11. CASE Insert(c)
  BY <1>11 DEF Insert
<1>12. ASSUME NEW x \in Large, Presign(c, x) PROVE TypeOK' /\ Stores'
  BY <1>12 DEF Presign
<1> QED
  BY <1>1, <1>3, <1>4, <1>5, <1>6, <1>7, <1>8, <1>9, <1>10, <1>11, <1>12 DEF Uploading

LEMMA StreamTypes ==
  ASSUME TypeOK, Stores, CopiesVerified, NEW c \in Call, Streaming(c) \/ Crash(c)
  PROVE  TypeOK' /\ Stores'
<1> USE DEF TypeOK, Stores, store, Shared, Content
<1>1. ASSUME NEW x \in Content, StreamLock(c, x) PROVE TypeOK' /\ Stores'
  BY <1>1 DEF StreamLock
<1>2. CASE StreamPut(c)
  BY <1>2 DEF StreamPut
<1>3. CASE StreamRead(c)
  BY <1>3 DEF StreamRead
<1>4. CASE StreamCopy(c)
  BY <1>4 DEF StreamCopy, CopiesVerified
<1>5. CASE StreamInsert(c)
  BY <1>5 DEF StreamInsert
<1>6. CASE StreamFails(c)
  <2>1. CASE quarantine' = quarantine
    BY <1>6, <2>1, UploadAssumption DEF StreamFails
  <2>2. CASE quarantine' = [quarantine EXCEPT ![c] = call[c].sha]
    BY <1>6, <2>2, UploadAssumption DEF StreamFails
  <2> QED
    BY <1>6, <2>1, <2>2 DEF StreamFails
<1>7. CASE Cleanup(c)
  BY <1>7, UploadAssumption DEF Cleanup, Delete
<1>8. CASE Crash(c)
  BY <1>8, UploadAssumption DEF Crash
<1> QED
  BY <1>1, <1>2, <1>3, <1>4, <1>5, <1>6, <1>7, <1>8 DEF Streaming

LEMMA AroundTypes ==
  ASSUME TypeOK, Stores, Collecting \/ Wire
  PROVE  TypeOK' /\ Stores'
<1> USE DEF TypeOK, Stores, store, Shared, Content
<1>1. CASE GcList
  BY <1>1 DEF GcList, Keys, KeyName
<1>2. CASE GcKnown
  BY <1>2 DEF GcKnown
<1>3. ASSUME NEW k \in gc.list, GcSweep(k) PROVE TypeOK' /\ Stores'
  BY <1>3, UploadAssumption DEF GcSweep, Delete1
<1>4. CASE GcEnd
  BY <1>4 DEF GcEnd, GcIdle
<1>5. ASSUME NEW c \in Call, NEW f \in Large, Land(c, f) PROVE TypeOK' /\ Stores'
  BY <1>5 DEF Land
<1>6. ASSUME NEW c \in Call, Expire(c) PROVE TypeOK' /\ Stores'
  BY <1>6 DEF Expire
<1> QED
  BY <1>1, <1>2, <1>3, <1>4, <1>5, <1>6 DEF Collecting, Wire

-----------------------------------------------------------------------------
(* The rest of the invariant.                                              *)

\* the collector's own steps, and those that add rows
LEMMA SweepSparesRows ==
  ASSUME Inv, Next
  PROVE  SweepSpares'
<1> USE DEF SweepSpares, store
<1>1. ASSUME gc' = gc, rows' = rows PROVE SweepSpares'
  BY <1>1 DEF Inv
<1>2. ASSUME gc' = gc, NEW c \in Call, call[c].pc \in Shared PROVE SweepSpares'
  BY <1>2 DEF Inv, Rest, LockExcludes, Sharing, Sweeping
<1>3. ASSUME NEW c \in Call, Uploading(c) PROVE SweepSpares'
  <2>1. CASE Insert(c)
    BY <1>2, <2>1 DEF Insert, Shared
  <2>2. ASSUME NEW x \in Large, Begin(c, x) \/ Presign(c, x) PROVE SweepSpares'
    BY <1>1, <2>2 DEF Begin, Presign
  <2>3. CASE Uploaded(c) \/ Observe(c) \/ Verify(c) \/ Copy(c) \/ PromoteFails(c)
    BY <1>1, <2>3 DEF Uploaded, Observe, Verify, Copy, PromoteFails
  <2>4. CASE Discard(c) \/ LockToCapture(c) \/ ConfirmStored(c)
    BY <1>1, <2>4 DEF Discard, Delete, LockToCapture, ConfirmStored
  <2> QED
    BY <1>3, <2>1, <2>2, <2>3, <2>4 DEF Uploading
<1>4. ASSUME NEW c \in Call, Streaming(c) \/ Crash(c) PROVE SweepSpares'
  <2>1. CASE StreamInsert(c)
    BY <1>2, <2>1 DEF StreamInsert, Shared
  <2>2. ASSUME NEW x \in Content, StreamLock(c, x) PROVE SweepSpares'
    BY <1>1, <2>2 DEF StreamLock
  <2>3. CASE StreamPut(c) \/ StreamRead(c) \/ StreamCopy(c) \/ StreamFails(c) \/ Cleanup(c) \/ Crash(c)
    BY <1>1, <2>3 DEF StreamPut, StreamRead, StreamCopy, StreamFails, Cleanup, Delete, Crash
  <2> QED
    BY <1>4, <2>1, <2>2, <2>3 DEF Streaming
<1>5. CASE Wire
  BY <1>1, <1>5 DEF Wire, Land, Expire
<1>6. CASE Collecting
  <2>1. CASE GcList
    BY <2>1 DEF GcList
  <2>2. CASE GcKnown
    BY <2>2 DEF GcKnown
  <2>3. ASSUME NEW k \in gc.list, GcSweep(k) PROVE SweepSpares'
    BY <2>3 DEF GcSweep, Inv, TypeOK
  <2>4. CASE GcEnd
    BY <2>4 DEF GcEnd, GcIdle
  <2> QED
    BY <1>6, <2>1, <2>2, <2>3, <2>4 DEF Collecting
<1> QED
  BY <1>3, <1>4, <1>5, <1>6 DEF Next

LEMMA UploadRest ==
  ASSUME Inv, NEW c \in Call, Uploading(c)
  PROVE  Rest'
<1> USE DEF Inv, Rest, TypeOK, Stores, store, CasHoldsVerified, RowsHaveObjects, UrlsAreOfUploads, SwapsAreUnverified, Deletes, CopiesVerified,
        InsertsConfirmed, LockExcludes, QuarantineIsKept, Keeps, Shared, Sharing, Sweeping, Content
<1>1. ASSUME NEW x \in Large, Begin(c, x) PROVE Rest'
  BY <1>1 DEF Begin
<1>3. CASE Uploaded(c)
  <2>0. /\ Moved(c, "promote") \/ Moved(c, "discard")
        /\ UNCHANGED <<enforcing, cas, quarantine, rows, urls, excused, swapped, gc>>
    BY <1>3, GotoMoves DEF Uploaded, Pc
  <2>1. (CasHoldsVerified /\ RowsHaveObjects)'
    BY <1>3, <2>0 DEF Uploaded, Moved
  <2>2. InsertsConfirmed'
    BY <1>3, <2>0 DEF Uploaded, Moved
  <2>3. UrlsAreOfUploads'
    BY <1>3, <2>0 DEF Uploaded, Moved
  <2>4. SwapsAreUnverified'
    BY <1>3, <2>0 DEF Uploaded, Moved
  <2>5. CopiesVerified'
    BY <1>3, <2>0 DEF Uploaded, Moved
  <2>6. LockExcludes'
    BY <1>3, <2>0 DEF Uploaded, Moved
  <2>7. QuarantineIsKept'
    BY <1>3, <2>0 DEF Uploaded, Moved
  <2> QED
    BY <2>1, <2>2, <2>3, <2>4, <2>5, <2>6, <2>7
<1>4. CASE Observe(c)
  <2>1. CASE cas[call[c].sha] = Missing
    BY <1>4, <2>1 DEF Observe
  <2>2. CASE cas[call[c].sha] # Missing
    BY <1>4, <2>2 DEF Observe
  <2> QED
    BY <2>1, <2>2
<1>5. CASE Verify(c)
  BY <1>5 DEF Verify
<1>6. CASE Copy(c)
  <2>1. CASE quarantine[c] = Missing
    <3>0. Moved(c, "discard") /\ UNCHANGED <<enforcing, cas, quarantine, rows, urls, excused, swapped, gc>>
      BY <1>6, <2>1, GotoMoves DEF Copy, Pc
    <3>1. (CasHoldsVerified /\ RowsHaveObjects)'
      BY <1>6, <3>0 DEF Copy, Moved
    <3>2. InsertsConfirmed'
      BY <1>6, <3>0 DEF Copy, Moved
    <3>3. (UrlsAreOfUploads /\ SwapsAreUnverified)'
      BY <1>6, <3>0 DEF Copy, Moved
    <3>4. CopiesVerified'
      BY <1>6, <3>0 DEF Copy, Moved
    <3>5. LockExcludes'
      BY <1>6, <3>0 DEF Copy, Moved
    <3>6. QuarantineIsKept'
      BY <1>6, <3>0 DEF Copy, Moved
    <3> QED
      BY <3>1, <3>2, <3>3, <3>4, <3>5, <3>6
  <2>2. CASE quarantine[c] # Missing
    <3>1. call[c].sha \in Large /\ call[c].sha # Missing
      BY <1>6, UploadAssumption DEF Copy
    <3>2. cas' = [cas EXCEPT ![call[c].sha] = quarantine[c]] /\ UNCHANGED <<enforcing, rows, quarantine, swapped>>
      BY <1>6, <2>2 DEF Copy
    <3>3. c \in swapped \/ quarantine[c] = call[c].sha
      BY <1>6, <2>2 DEF Copy
    <3>4. \A d \in Call : call'[d].sha = call[d].sha
      BY <1>6, <2>2 DEF Copy
    <3>5. CasHoldsVerified'
      BY <3>1, <3>2, <3>3, <3>4
    <3>6. (RowsHaveObjects /\ InsertsConfirmed)'
      BY <1>6, <2>2, <3>1, <3>2 DEF Copy
    <3>7. (UrlsAreOfUploads /\ SwapsAreUnverified /\ CopiesVerified)'
      BY <1>6, <2>2 DEF Copy
    <3>8. LockExcludes'
      BY <1>6, <2>2 DEF Copy
    <3>9. QuarantineIsKept'
      BY <1>6, <2>2 DEF Copy
    <3> QED
      BY <3>5, <3>6, <3>7, <3>8, <3>9
  <2> QED
    BY <2>1, <2>2
<1>7. CASE PromoteFails(c)
  BY <1>7 DEF PromoteFails
<1>8. CASE Discard(c)
  <2>1. (CasHoldsVerified /\ RowsHaveObjects /\ InsertsConfirmed)'
    <3>0. UNCHANGED <<enforcing, cas, rows, swapped>>
      BY <1>8 DEF Discard, Delete
    <3>1. \A d \in Call : call'[d].sha = call[d].sha
      <4>1. ASSUME NEW pc \in Pc, Goto(c, pc) PROVE \A d \in Call : call'[d].sha = call[d].sha
        BY <4>1, GotoMoves DEF Moved
      <4> QED
        BY <1>8, <4>1 DEF Discard, Delete, Pc
    <3>2. (CasHoldsVerified /\ RowsHaveObjects)'
      BY <3>0, <3>1
    <3>3. InsertsConfirmed'
      BY <1>8, <3>0, <3>1 DEF Discard, Delete
    <3> QED
      BY <3>2, <3>3
  <2>2. (UrlsAreOfUploads /\ SwapsAreUnverified)'
    BY <1>8 DEF Discard, Delete
  <2>3. CopiesVerified'
    BY <1>8 DEF Discard, Delete
  <2>4. LockExcludes'
    BY <1>8 DEF Discard, Delete
  <2>5. QuarantineIsKept'
    BY <1>8 DEF Discard, Delete
  <2> QED
    BY <2>1, <2>2, <2>3, <2>4, <2>5
<1>9. CASE LockToCapture(c)
  BY <1>9 DEF LockToCapture
<1>10. CASE ConfirmStored(c)
  <2>1. CASE cas[call[c].sha] = Missing
    BY <1>10, <2>1 DEF ConfirmStored
  <2>2. CASE cas[call[c].sha] # Missing
    BY <1>10, <2>2 DEF ConfirmStored
  <2> QED
    BY <2>1, <2>2
<1>11. CASE Insert(c)
  BY <1>11 DEF Insert
<1>12. ASSUME NEW x \in Large, Presign(c, x) PROVE Rest'
  BY <1>12 DEF Presign
<1> QED
  BY <1>1, <1>3, <1>4, <1>5, <1>6, <1>7, <1>8, <1>9, <1>10, <1>11, <1>12 DEF Uploading

LEMMA StreamRest ==
  ASSUME Inv, NEW c \in Call, Streaming(c) \/ Crash(c)
  PROVE  Rest'
<1> USE DEF Inv, Rest, TypeOK, Stores, store, CasHoldsVerified, RowsHaveObjects, UrlsAreOfUploads, SwapsAreUnverified, Deletes, CopiesVerified,
        InsertsConfirmed, LockExcludes, QuarantineIsKept, Keeps, Shared, Sharing, Sweeping, Content
<1>1. ASSUME NEW x \in Content, StreamLock(c, x) PROVE Rest'
  BY <1>1 DEF StreamLock
<1>2. CASE StreamPut(c)
  <2>1. CASE call[c].sha \in Small
    BY <1>2, <2>1 DEF StreamPut
  <2>2. CASE call[c].sha \notin Small
    BY <1>2, <2>2 DEF StreamPut
  <2> QED
    BY <2>1, <2>2
<1>3. CASE StreamRead(c)
  BY <1>3 DEF StreamRead
<1>4. CASE StreamCopy(c)
  BY <1>4, UploadAssumption DEF StreamCopy
<1>5. CASE StreamInsert(c)
  BY <1>5 DEF StreamInsert
<1>6. CASE StreamFails(c)
  <2>1. CASE quarantine' = quarantine
    BY <1>6, <2>1 DEF StreamFails
  <2>2. CASE quarantine' = [quarantine EXCEPT ![c] = call[c].sha]
    BY <1>6, <2>2 DEF StreamFails
  <2> QED
    BY <1>6, <2>1, <2>2 DEF StreamFails
<1>7. CASE Cleanup(c)
  BY <1>7 DEF Cleanup, Delete
<1>8. CASE Crash(c)
  BY <1>8 DEF Crash
<1> QED
  BY <1>1, <1>2, <1>3, <1>4, <1>5, <1>6, <1>7, <1>8 DEF Streaming

LEMMA AroundRest ==
  ASSUME Inv, Collecting \/ Wire
  PROVE  Rest'
<1> USE DEF Inv, Rest, TypeOK, Stores, store, CasHoldsVerified, RowsHaveObjects, UrlsAreOfUploads, SwapsAreUnverified, Deletes, CopiesVerified,
        InsertsConfirmed, LockExcludes, QuarantineIsKept, Keeps, Shared, Sharing, Sweeping, Content
<1>1. CASE GcList
  BY <1>1 DEF GcList
<1>2. CASE GcKnown
  BY <1>2 DEF GcKnown
<1>3. ASSUME NEW k \in gc.list, GcSweep(k) PROVE Rest'
  BY <1>3 DEF GcSweep, Delete1, SweepSpares
<1>4. CASE GcEnd
  BY <1>4 DEF GcEnd, GcIdle
<1>5. ASSUME NEW c \in Call, NEW f \in Large, Land(c, f) PROVE Rest'
  <2>1. (CasHoldsVerified /\ RowsHaveObjects /\ InsertsConfirmed)'
    BY <1>5, UploadAssumption DEF Land
  <2>2. (UrlsAreOfUploads /\ SwapsAreUnverified)'
    BY <1>5, UploadAssumption DEF Land
  <2>3. CopiesVerified'
    BY <1>5, UploadAssumption DEF Land
  <2>4. LockExcludes'
    BY <1>5, UploadAssumption DEF Land
  <2>5. QuarantineIsKept'
    BY <1>5, UploadAssumption DEF Land
  <2> QED
    BY <2>1, <2>2, <2>3, <2>4, <2>5
<1>6. ASSUME NEW c \in Call, Expire(c) PROVE Rest'
  BY <1>6 DEF Expire
<1> QED
  BY <1>1, <1>2, <1>3, <1>4, <1>5, <1>6 DEF Collecting, Wire

-----------------------------------------------------------------------------
(* The theorems.                                                           *)

LEMMA Invariance == Spec => []Inv
<1>1. Inv /\ UNCHANGED vars => Inv'
  BY DEF vars, store, Inv, Rest, TypeOK, Stores, CasHoldsVerified, RowsHaveObjects, UrlsAreOfUploads, SwapsAreUnverified, Deletes,
     CopiesVerified, InsertsConfirmed, LockExcludes, SweepSpares, QuarantineIsKept, Sharing, Sweeping
<1>2. Inv /\ [Next]_vars => Inv'
  BY <1>1, UploadTypes, StreamTypes, AroundTypes, SweepSparesRows, UploadRest, StreamRest, AroundRest DEF Inv, Rest, Next
<1> QED
  BY InitInv, <1>2, PTL DEF Spec

(* Types: a collector that does not run holds no list, rows of stored      *)
(* blobs are rows of large contents.                                       *)
THEOREM TypesHold == Spec => []TypeOK
  BY Invariance, PTL DEF Inv

(* Whatever targets send, as often and as late as they send it, the       *)
(* object under the CAS key of a content is that content, unless the store *)
(* enforces nothing and a PUT fell between promote's hash and its copy.    *)
THEOREM CasIsVerified == Spec => []CasHoldsVerified
  BY Invariance, PTL DEF Inv, Rest

(* No committed row lacks its object: confirmStored looks under the lock   *)
(* that keeps gc from sweeping.                                            *)
THEOREM NoRowLacksItsObject == Spec => []RowsHaveObjects
  BY Invariance, PTL DEF Inv, Rest

(* Every call deletes its quarantine key on every path out of it.          *)
THEOREM QuarantineIsCleared == Spec => []NoStrayQuarantine
<1>1. Inv => NoStrayQuarantine
  BY DEF Inv, Rest, QuarantineIsKept, NoStrayQuarantine, Keeps
<1> QED
  BY <1>1, Invariance, PTL
=============================================================================
