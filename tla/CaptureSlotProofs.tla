------------------------- MODULE CaptureSlotProofs -------------------------
(***************************************************************************)
(* Proofs about CaptureSlot, for any number of callers, triggers and jobs: *)
(* SlotInv is inductive, and with it jobs never overlap and settle() is    *)
(* quiet.                                                                  *)
(***************************************************************************)
EXTENDS CaptureSlot, TLAPS

LEMMA SlotInit == Init => SlotInv
<1> SUFFICES ASSUME Init PROVE SlotInv
  OBVIOUS
<1>1. caller \in [Caller -> [pc : {"away", "wait", "work", "settle"}, promise : 0 .. chain]]
  BY DEF Init, Away
<1>2. Working = {}
  BY DEF Init, Away, Working
<1> QED BY <1>1, <1>2 DEF Init, SlotInv, TypeOK, OneJobAtATime

\* a drain that starts takes a new promise; those still unresolved are older
LEMMA DrainTypes ==
  ASSUME SlotInv, NEW still \in SUBSET unresolved, drains \subseteq still, StartDrain(still), asked' \in Nat
  PROVE  /\ busy' \in BOOLEAN /\ pending' \in BOOLEAN
         /\ chain' \in Nat /\ seen' \in Nat /\ captures' \in Nat
         /\ unresolved' \subseteq 1 .. chain'
         /\ drains' \subseteq unresolved'
         /\ 0 .. chain \subseteq 0 .. chain'
<1>1. chain \in Nat /\ captures \in Nat /\ unresolved \subseteq 1 .. chain
  BY DEF SlotInv, TypeOK
<1>2. chain' = chain + 1 /\ captures' = captures + 1 /\ seen' = asked' /\ busy' = TRUE /\ pending' = FALSE
  BY DEF StartDrain, StartCapture
<1>3. unresolved' = still \cup {chain + 1} /\ drains' = drains \cup {chain + 1}
  BY DEF StartDrain
<1>4. drains' \subseteq unresolved' /\ busy' \in BOOLEAN /\ pending' \in BOOLEAN
  BY <1>2, <1>3
<1>5. unresolved' \subseteq 1 .. chain'
  BY <1>1, <1>2, <1>3
<1>6. chain' \in Nat /\ seen' \in Nat /\ captures' \in Nat /\ 0 .. chain \subseteq 0 .. chain'
  BY <1>1, <1>2
<1> QED BY <1>4, <1>5, <1>6

\* the steps that start or end a capture
LEMMA TriggerKeeps == SlotInv /\ Trigger => SlotInv'
<1> SUFFICES ASSUME SlotInv, Trigger PROVE SlotInv'
  OBVIOUS
<1>1. asked' \in Nat /\ failures' = failures /\ caller' = caller /\ jobs' = jobs /\ Working' = Working
  BY DEF Trigger, SlotInv, TypeOK, Working
<1>2. CASE busy
  <2>1. /\ busy' = TRUE /\ pending' = TRUE /\ chain' = chain /\ unresolved' = unresolved
        /\ drains' = drains /\ seen' = seen /\ captures' = captures
    BY <1>2 DEF Trigger
  <2>2. TypeOK' /\ OneJobAtATime'
    BY <1>1, <2>1 DEF SlotInv, TypeOK, OneJobAtATime
  <2>3. drains' # {} \/ Working' # {}
    BY <1>1, <1>2, <2>1 DEF SlotInv
  <2> QED BY <2>1, <2>2, <2>3 DEF SlotInv
<1>3. CASE ~busy
  <2>1. drains = {} /\ Working = {}
    BY <1>3 DEF SlotInv
  <2>2. StartDrain(unresolved)
    BY <1>3 DEF Trigger
  <2>3. TypeOK'
    BY <1>1, <2>1, <2>2, DrainTypes DEF SlotInv, TypeOK
  <2> QED BY <1>1, <2>1, <2>2, <2>3 DEF StartDrain, StartCapture, SlotInv, OneJobAtATime
<1> QED BY <1>2, <1>3

LEMMA CaptureKeeps ==
  ASSUME SlotInv, NEW d \in drains, NEW ok \in BOOLEAN, CaptureEnds(d, ok)
  PROVE  SlotInv'
<1>1. busy /\ drains = {d} /\ Working = {}
  BY DEF SlotInv, OneJobAtATime
<1>2. caller' = caller /\ chain' = chain /\ jobs' = jobs /\ Working' = Working
  BY DEF CaptureEnds, Working
<1>3. failures' \in Nat /\ asked' \in Nat
  BY SlotAssumption DEF CaptureEnds, SlotInv, TypeOK
<1>4. CASE pending \/ asked' # asked
  <2>1. pending' = FALSE /\ seen' = asked' /\ captures' = captures + 1
    BY <1>4 DEF CaptureEnds, StartCapture
  <2>2. busy' = busy /\ unresolved' = unresolved /\ drains' = drains
    BY <1>4 DEF CaptureEnds
  <2>3. TypeOK'
    <3>1. seen' \in Nat /\ captures' \in Nat /\ chain' \in Nat /\ jobs' \in Nat
      BY <1>2, <1>3, <2>1 DEF SlotInv, TypeOK
    <3> QED BY <1>2, <1>3, <2>1, <2>2, <3>1 DEF SlotInv, TypeOK
  <2> QED BY <1>1, <1>2, <2>1, <2>2, <2>3 DEF SlotInv, OneJobAtATime
<1>5. CASE ~pending /\ asked' = asked
  <2>1. busy' = FALSE /\ drains' = {} /\ unresolved' = unresolved \ {d}
    BY <1>1, <1>5 DEF CaptureEnds, DrainReturns
  <2>2. pending' = pending /\ seen' = seen /\ captures' = captures
    BY <1>5 DEF CaptureEnds
  <2> QED BY <1>1, <1>2, <1>3, <1>5, <2>1, <2>2 DEF SlotInv, TypeOK, OneJobAtATime
<1> QED BY <1>4, <1>5

\* taking the slot when it is free
LEMMA EnterKeeps ==
  ASSUME SlotInv, NEW c \in Caller, ~busy, Enter(c),
         asked' = asked, seen' = seen, captures' = captures, jobs' \in Nat
  PROVE  SlotInv'
<1>1. drains = {} /\ Working = {} /\ ~pending /\ seen = asked
  BY DEF SlotInv
<1>2. Working' = {c}
  BY <1>1 DEF Enter, Working, SlotInv, TypeOK
<1>3. TypeOK'
  BY <1>1 DEF Enter, SlotInv, TypeOK
<1> QED BY <1>1, <1>2, <1>3 DEF Enter, SlotInv, OneJobAtATime

\* waiting for the promise #chain holds now
LEMMA AwaitKeeps ==
  ASSUME SlotInv, NEW c \in Caller, NEW pc \in {"wait", "settle"}, Await(c, pc),
         caller[c].pc # "work",
         asked' = asked, seen' = seen, captures' = captures, jobs' \in Nat
  PROVE  SlotInv'
<1>1. Working' = Working
  BY DEF Await, Working, SlotInv, TypeOK
<1>2. TypeOK'
  BY DEF Await, slot, SlotInv, TypeOK
<1> QED BY <1>1, <1>2 DEF Await, slot, SlotInv, OneJobAtATime

LEMMA ArriveKeeps == ASSUME SlotInv, NEW c \in Caller, Arrive(c) PROVE SlotInv'
<1>1. jobs' \in Nat /\ asked' = asked /\ seen' = seen /\ captures' = captures /\ caller[c].pc # "work"
  BY DEF Arrive, Exclusive, Settle, Call, SlotInv, TypeOK
<1>2. CASE Exclusive(c) /\ ~busy
  BY <1>1, <1>2, EnterKeeps DEF Exclusive
<1>3. CASE Exclusive(c) /\ busy
  BY <1>1, <1>3, AwaitKeeps DEF Exclusive
<1>4. CASE Settle(c)
  BY <1>1, <1>4, AwaitKeeps DEF Settle
<1> QED BY <1>2, <1>3, <1>4 DEF Arrive

LEMMA WorkEndsKeeps == ASSUME SlotInv, NEW c \in Caller, WorkEnds(c) PROVE SlotInv'
<1>1. busy /\ drains = {} /\ Working = {c}
  BY DEF WorkEnds, Working, SlotInv, OneJobAtATime
<1>2. Working' = {}
  BY <1>1 DEF WorkEnds, Working, Away, SlotInv, TypeOK
<1>3. asked' = asked /\ failures' = failures /\ jobs' = jobs
  BY DEF WorkEnds
<1>4. CASE pending
  <2>1. StartDrain(unresolved \ {caller[c].promise})
    BY <1>4 DEF WorkEnds
  <2>2. /\ busy' \in BOOLEAN /\ pending' \in BOOLEAN
        /\ chain' \in Nat /\ seen' \in Nat /\ captures' \in Nat
        /\ unresolved' \subseteq 1 .. chain'
        /\ drains' \subseteq unresolved'
        /\ 0 .. chain \subseteq 0 .. chain'
    BY <1>1, <1>3, <2>1, DrainTypes DEF SlotInv, TypeOK
  <2>3. TypeOK'
    <3>1. caller' \in [Caller -> [pc : {"away", "wait", "work", "settle"}, promise : 0 .. chain]]
      BY DEF WorkEnds, Away, SlotInv, TypeOK
    <3> QED BY <1>3, <2>2, <3>1 DEF SlotInv, TypeOK
  <2> QED BY <1>1, <1>2, <2>1, <2>3 DEF StartDrain, StartCapture, SlotInv, OneJobAtATime
<1>5. CASE ~pending
  <2>1. /\ busy' = FALSE /\ pending' = pending /\ chain' = chain /\ drains' = drains
        /\ seen' = seen /\ captures' = captures /\ unresolved' \subseteq unresolved
    BY <1>5 DEF WorkEnds
  <2>2. caller' \in [Caller -> [pc : {"away", "wait", "work", "settle"}, promise : 0 .. chain]]
    BY DEF WorkEnds, Away, SlotInv, TypeOK
  <2>3. drains' \subseteq unresolved' /\ unresolved' \subseteq 1 .. chain
    BY <1>1, <2>1 DEF SlotInv, TypeOK
  <2>4. TypeOK'
    BY <1>3, <2>1, <2>2, <2>3 DEF SlotInv, TypeOK
  <2> QED BY <1>1, <1>2, <1>3, <1>5, <2>1, <2>4 DEF SlotInv, OneJobAtATime
<1> QED BY <1>4, <1>5

LEMMA StepKeeps == ASSUME SlotInv, NEW c \in Caller, Step(c) PROVE SlotInv'
<1>1. CASE Resume(c)
  <2>1. jobs' \in Nat /\ asked' = asked /\ seen' = seen /\ captures' = captures /\ caller[c].pc # "work"
    BY <1>1 DEF Resume, Runnable, SlotInv, TypeOK
  <2>2. CASE busy
    BY <1>1, <2>1, <2>2, AwaitKeeps DEF Resume
  <2>3. CASE ~busy
    BY <1>1, <2>1, <2>3, EnterKeeps DEF Resume
  <2> QED BY <2>2, <2>3
<1>2. CASE WorkEnds(c)
  BY <1>2, WorkEndsKeeps
<1>3. CASE SettleResume(c)
  <2>1. jobs' \in Nat /\ asked' = asked /\ seen' = seen /\ captures' = captures /\ caller[c].pc = "settle"
    BY <1>3 DEF SettleResume, Runnable, SlotInv, TypeOK
  <2>2. CASE Await(c, "settle")
    BY <2>1, <2>2, AwaitKeeps
  <2>3. CASE ~Await(c, "settle")
    <3>1. caller' = [caller EXCEPT ![c] = Away] /\ UNCHANGED slot
      BY <1>3, <2>3 DEF SettleResume
    <3>2. Working' = Working
      BY <2>1, <3>1 DEF Working, Away, SlotInv, TypeOK
    <3>3. TypeOK'
      BY <2>1, <3>1 DEF Away, slot, SlotInv, TypeOK
    <3> QED BY <2>1, <3>1, <3>2, <3>3 DEF slot, SlotInv, OneJobAtATime
  <2> QED BY <2>2, <2>3
<1> QED BY <1>1, <1>2, <1>3 DEF Step

\* SlotInv is an invariant of the slot.
THEOREM SlotInvariance == Spec => []SlotInv
<1>1. SlotInv /\ [Next]_vars => SlotInv'
  <2> SUFFICES ASSUME SlotInv, [Next]_vars PROVE SlotInv'
    OBVIOUS
  <2>1. CASE UNCHANGED vars
    BY <2>1 DEF vars, slot, SlotInv, TypeOK, OneJobAtATime, Working
  <2>2. CASE Next
    BY <2>2, TriggerKeeps, CaptureKeeps, ArriveKeeps, StepKeeps DEF Next, Captures
  <2> QED BY <2>1, <2>2
<1> QED BY <1>1, SlotInit, PTL DEF Spec

\* The state of the slot stays well typed: a drain is named by a promise that is still
\* to resolve, and no caller awaits a promise that was never made.
THEOREM SlotTypeCorrect == Spec => []TypeOK
<1>1. SlotInv => TypeOK
  BY DEF SlotInv
<1> QED BY <1>1, SlotInvariance, PTL

\* Two jobs of one target never overlap: drains and exclusive work exclude each other.
THEOREM JobsExcludeEachOther == Spec => []OneJobAtATime
<1>1. SlotInv => OneJobAtATime
  BY DEF SlotInv
<1> QED BY <1>1, SlotInvariance, PTL

\* When settle() returns, nothing runs and every trigger raised so far was captured.
THEOREM SettleIsQuiet == Spec => SettledIsQuiet
<1> DEFINE Quiet == \A c \in Caller : caller[c].pc = "settle" /\ caller'[c].pc = "away" =>
                        seen = asked /\ drains = {} /\ Working = {}
<1>1. SlotInv /\ [Next]_vars => [Quiet]_vars
  <2> SUFFICES ASSUME SlotInv, Next, NEW c \in Caller, caller[c].pc = "settle", caller'[c].pc = "away"
               PROVE  seen = asked /\ drains = {} /\ Working = {}
    OBVIOUS
  <2>1. ~busy
    <3>1. ASSUME Trigger \/ Captures PROVE FALSE
      BY <3>1 DEF Trigger, Captures, CaptureEnds
    <3>2. ASSUME NEW e \in Caller, Arrive(e) \/ Resume(e) \/ WorkEnds(e) PROVE FALSE
      BY <3>2 DEF Arrive, Exclusive, Settle, Call, Resume, Runnable, WorkEnds, Enter, Await, SlotInv, TypeOK
    <3>3. ASSUME NEW e \in Caller, SettleResume(e) PROVE ~busy
      BY <3>3 DEF SettleResume, Runnable, Await, SlotInv, TypeOK
    <3> QED BY <3>1, <3>2, <3>3 DEF Next, Step
  <2> QED BY <2>1 DEF SlotInv
<1>2. Spec => [][Quiet]_vars
  <2>1. Spec => [][Next]_vars
    BY PTL DEF Spec
  <2> QED BY <1>1, <2>1, SlotInvariance, PTL
<1> QED BY <1>2 DEF SettledIsQuiet

-----------------------------------------------------------------------------
(* Captures are asked for: the flag is set only while a trigger waits.     *)

FlagIsOwed == seen <= asked /\ (pending => seen < asked)

LEMMA OwedStep ==
  ASSUME SlotInv, FlagIsOwed, [Next]_vars
  PROVE  FlagIsOwed' /\ (captures' # captures => asked' > seen)
<1> USE DEF FlagIsOwed
<1>1. asked \in Nat /\ seen \in Nat /\ captures \in Nat
  BY DEF SlotInv, TypeOK
<1>2. CASE Trigger
  BY <1>1, <1>2 DEF Trigger, StartDrain, StartCapture
<1>3. ASSUME NEW d \in drains, NEW ok \in BOOLEAN, CaptureEnds(d, ok)
      PROVE  FlagIsOwed' /\ (captures' # captures => asked' > seen)
  BY <1>1, <1>3 DEF CaptureEnds, StartCapture, DrainReturns
<1>4. ASSUME NEW c \in Caller, WorkEnds(c)
      PROVE  FlagIsOwed' /\ (captures' # captures => asked' > seen)
  BY <1>1, <1>4 DEF WorkEnds, StartDrain, StartCapture
<1>5. ASSUME UNCHANGED <<pending, asked, seen, captures>>
      PROVE  FlagIsOwed' /\ (captures' # captures => asked' > seen)
  BY <1>5
<1>6. ASSUME NEW c \in Caller, Arrive(c) \/ Resume(c) \/ SettleResume(c)
      PROVE  UNCHANGED <<pending, asked, seen, captures>>
  BY <1>6 DEF Arrive, Exclusive, Settle, Call, Resume, SettleResume, Runnable, Enter, Await, slot
<1> QED
  BY <1>2, <1>3, <1>4, <1>5, <1>6 DEF Next, Captures, Step, vars, slot

\* A burst of triggers costs one follow-up: no capture starts unless a trigger was raised
\* since the latest capture started.
THEOREM TriggersCoalesce == Spec => CapturesAreAskedFor
<1>1. Init => FlagIsOwed
  BY DEF Init, FlagIsOwed
<1>2. SlotInv /\ FlagIsOwed /\ [Next]_vars => FlagIsOwed' /\ [captures' # captures => asked' > seen]_vars
  BY OwedStep
<1>3. Spec => [][captures' # captures => asked' > seen]_vars
  BY <1>1, <1>2, SlotInvariance, PTL DEF Spec
<1> QED BY <1>3 DEF CapturesAreAskedFor

-----------------------------------------------------------------------------
(* The refinement: each step of the promises is a step of JobSlot, or none *)
(* that its users can see.                                                 *)

LEMMA FreeIsIdle == SlotInv /\ ~busy => HeldBy = "idle" /\ pending = FALSE
  BY DEF SlotInv, TypeOK, HeldBy

LEMMA HeldIsBusy == SlotInv /\ busy => HeldBy # "idle"
  BY DEF SlotInv, HeldBy

LEMMA TriggerRefines == SlotInv /\ Trigger => Promised!Trigger
<1> SUFFICES ASSUME SlotInv, Trigger PROVE Promised!Trigger
  OBVIOUS
<1>1. CASE busy
  <2>1. HeldBy' = HeldBy /\ pending' = TRUE
    BY <1>1 DEF Trigger, HeldBy, Working
  <2> QED BY <1>1, <2>1, HeldIsBusy DEF Promised!Trigger
<1>2. CASE ~busy
  <2>1. HeldBy' = "capture" /\ pending' = FALSE
    BY <1>2 DEF Trigger, StartDrain, StartCapture, HeldBy
  <2> QED BY <1>2, <2>1, FreeIsIdle DEF Promised!Trigger
<1> QED BY <1>1, <1>2

LEMMA CaptureRefines ==
  ASSUME SlotInv, NEW d \in drains, NEW ok \in BOOLEAN, CaptureEnds(d, ok)
  PROVE  Promised!CaptureEnds \/ UNCHANGED <<HeldBy, pending>>
<1>1. drains = {d} /\ Working = {} /\ HeldBy = "capture" /\ pending \in BOOLEAN
  BY DEF SlotInv, TypeOK, OneJobAtATime, HeldBy
<1>2. CASE pending \/ asked' # asked
  <2>1. HeldBy' = "capture" /\ pending' = FALSE
    BY <1>1, <1>2 DEF CaptureEnds, StartCapture, HeldBy
  <2> QED BY <1>1, <2>1 DEF Promised!CaptureEnds, Promised!HandOver
<1>3. CASE ~pending /\ asked' = asked
  <2>1. drains' = {} /\ Working' = {} /\ pending' = pending
    BY <1>1, <1>3 DEF CaptureEnds, DrainReturns, Working
  <2> QED BY <1>1, <1>3, <2>1 DEF HeldBy, Promised!CaptureEnds, Promised!HandOver
<1> QED BY <1>2, <1>3

LEMMA EnterRefines ==
  ASSUME SlotInv, NEW c \in Caller, ~busy, Enter(c)
  PROVE  Promised!Enter
<1>1. HeldBy' = "exclusive"
  <2>1. c \in Working'
    BY DEF Enter, Working, SlotInv, TypeOK
  <2>2. drains' = {}
    BY DEF Enter, SlotInv
  <2> QED BY <2>1, <2>2 DEF HeldBy
<1> QED BY <1>1, FreeIsIdle DEF Enter, Promised!Enter

LEMMA AwaitRefines ==
  ASSUME SlotInv, NEW c \in Caller, NEW pc \in {"wait", "settle"}, Await(c, pc), caller[c].pc # "work"
  PROVE  UNCHANGED <<HeldBy, pending>>
<1>1. Working' = Working
  BY DEF Await, Working, SlotInv, TypeOK
<1> QED BY <1>1 DEF Await, slot, HeldBy

LEMMA WorkEndsRefines ==
  ASSUME SlotInv, NEW c \in Caller, WorkEnds(c)
  PROVE  Promised!WorkEnds
<1>1. drains = {} /\ Working = {c} /\ HeldBy = "exclusive" /\ pending \in BOOLEAN
  BY DEF WorkEnds, Working, SlotInv, TypeOK, OneJobAtATime, HeldBy
<1>2. CASE pending
  <2>1. HeldBy' = "capture" /\ pending' = FALSE
    BY <1>2 DEF WorkEnds, StartDrain, StartCapture, HeldBy
  <2> QED BY <1>1, <1>2, <2>1 DEF Promised!WorkEnds, Promised!HandOver
<1>3. CASE ~pending
  <2>1. drains' = {} /\ Working' = {} /\ pending' = pending
    BY <1>1, <1>3 DEF WorkEnds, Working, Away, SlotInv, TypeOK
  <2> QED BY <1>1, <1>3, <2>1 DEF HeldBy, Promised!WorkEnds, Promised!HandOver
<1> QED BY <1>2, <1>3

LEMMA ArriveRefines ==
  ASSUME SlotInv, NEW c \in Caller, Arrive(c)
  PROVE  Promised!Enter \/ UNCHANGED <<HeldBy, pending>>
<1>1. caller[c].pc # "work"
  BY DEF Arrive, Exclusive, Settle, Call
<1>2. CASE Exclusive(c) /\ ~busy
  BY <1>2, EnterRefines DEF Exclusive
<1>3. CASE Exclusive(c) /\ busy
  BY <1>1, <1>3, AwaitRefines DEF Exclusive
<1>4. CASE Settle(c)
  BY <1>1, <1>4, AwaitRefines DEF Settle
<1> QED BY <1>2, <1>3, <1>4 DEF Arrive

LEMMA StepRefines ==
  ASSUME SlotInv, NEW c \in Caller, Step(c)
  PROVE  Promised!Next \/ UNCHANGED <<HeldBy, pending>>
<1>1. CASE Resume(c) /\ ~busy
  BY <1>1, EnterRefines DEF Resume, Promised!Next
<1>2. CASE Resume(c) /\ busy
  BY <1>2, AwaitRefines DEF Resume, Runnable
<1>3. CASE WorkEnds(c)
  BY <1>3, WorkEndsRefines DEF Promised!Next
<1>4. CASE SettleResume(c)
  <2>1. CASE Await(c, "settle")
    BY <1>4, <2>1, AwaitRefines DEF SettleResume, Runnable
  <2>2. CASE ~Await(c, "settle")
    <3>1. caller' = [caller EXCEPT ![c] = Away] /\ UNCHANGED slot
      BY <1>4, <2>2 DEF SettleResume
    <3>2. Working' = Working
      BY <1>4, <3>1 DEF SettleResume, Runnable, Working, Away, SlotInv, TypeOK
    <3> QED BY <3>1, <3>2 DEF slot, HeldBy
  <2> QED BY <2>1, <2>2
<1> QED BY <1>1, <1>2, <1>3, <1>4 DEF Step

\* The slot of promises is a job slot: every behaviour of slot.ts is one of JobSlot.
THEOREM SlotIsJobSlot == Spec => IsJobSlot
<1>1. Init => Promised!Init
  BY DEF Init, Away, Working, HeldBy, Promised!Init
<1>2. SlotInv /\ [Next]_vars => [Promised!Next]_(Promised!vars)
  <2> SUFFICES ASSUME SlotInv, [Next]_vars PROVE Promised!Next \/ UNCHANGED <<HeldBy, pending>>
    BY DEF Promised!vars
  <2>1. CASE UNCHANGED vars
    BY <2>1 DEF vars, slot, HeldBy, Working
  <2>2. CASE Next
    BY <2>2, TriggerRefines, CaptureRefines, ArriveRefines, StepRefines
       DEF Next, Captures, Promised!Next
  <2> QED BY <2>1, <2>2
<1> QED BY <1>1, <1>2, SlotInvariance, PTL DEF Spec, IsJobSlot, Promised!Spec
=============================================================================
