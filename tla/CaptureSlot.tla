---------------------------- MODULE CaptureSlot ----------------------------
(***************************************************************************)
(* The capture slot of the sync engine, src/src/sync/slot.ts.  At most one *)
(* job holds the slot of a target: a capture drain, or the work of one     *)
(* exclusive() call (the turn-end reconcile).  A trigger raised while it   *)
(* is held is remembered in one flag.                                      *)
(*                                                                         *)
(* JavaScript runs one callback at a time, so what a callback does between *)
(* two awaits is one action.  An await is modelled by its promise: chain   *)
(* counts the promises #chain was ever assigned, `unresolved` holds those  *)
(* that have not resolved.  A resolved promise only makes its waiters      *)
(* runnable: other callbacks may run first and take the slot again.        *)
(***************************************************************************)
EXTENDS Integers

CONSTANTS
    Caller,       \* callers of exclusive() and of settle()
    MaxTriggers,  \* bound: how often trigger() is called
    MaxJobs       \* bound: how often exclusive() and settle() are called

ASSUME SlotAssumption == MaxTriggers \in Nat /\ MaxJobs \in Nat

VARIABLES
    busy,        \* #busy
    pending,     \* #pending
    failures,    \* #failures
    chain,       \* #chain: the promise assigned last
    unresolved,  \* promises that are still to resolve
    drains,      \* the drains in progress, each named by its promise
    caller,      \* where each caller is, and the promise it awaits or has to resolve
    asked,       \* triggers raised so far
    seen,        \* triggers raised before the latest capture started
    captures,    \* captures started so far
    jobs         \* exclusive() and settle() calls so far

slot == <<busy, pending, failures, chain, unresolved, drains>>
vars == <<slot, caller, asked, seen, captures, jobs>>

Away == [pc |-> "away", promise |-> 0]

Init ==
    /\ busy = FALSE
    /\ pending = FALSE
    /\ failures = 0
    /\ chain = 0
    /\ unresolved = {}
    /\ drains = {}
    /\ caller = [c \in Caller |-> Away]
    /\ asked = 0
    /\ seen = 0
    /\ captures = 0
    /\ jobs = 0

-----------------------------------------------------------------------------
\* a capture starts: it sees what was triggered so far
StartCapture ==
    /\ pending' = FALSE
    /\ seen' = asked'
    /\ captures' = captures + 1

\* Mutant: the drain is started beside #chain
StartDrainDetached(still) ==
    /\ StartCapture
    /\ busy' = TRUE
    /\ chain' = chain + 1
    /\ unresolved' = still
    /\ drains' = drains \cup {chain + 1}

\* #drain up to the await of its first capture
StartDrain(still) ==
    /\ StartCapture
    /\ busy' = TRUE
    /\ chain' = chain + 1
    /\ unresolved' = still \cup {chain + 1}
    /\ drains' = drains \cup {chain + 1}

Trigger ==
    /\ asked < MaxTriggers
    /\ asked' = asked + 1
    /\ \/ busy /\ pending' = TRUE /\ UNCHANGED <<busy, chain, unresolved, drains, seen, captures>>
       \/ ~busy /\ StartDrain(unresolved)
    /\ UNCHANGED <<failures, caller, jobs>>

\* the drain returns: `finally` gives the slot back, its promise resolves
DrainReturns(d) ==
    /\ busy' = FALSE
    /\ drains' = drains \ {d}
    /\ unresolved' = unresolved \ {d}

\* Mutants: the flag is not read after the capture; a failed capture keeps the slot
CaptureEndsDeaf(d, ok) ==
    /\ d \in drains
    /\ failures' = IF ok THEN 0 ELSE failures + 1
    /\ DrainReturns(d)
    /\ UNCHANGED <<pending, chain, caller, asked, seen, captures, jobs>>
CaptureEndsWedged(d, ok) ==
    /\ d \in drains
    /\ ok /\ ~pending
    /\ failures' = 0
    /\ DrainReturns(d)
    /\ UNCHANGED <<pending, chain, caller, asked, seen, captures, jobs>>

\* the awaited capture resolves or rejects: the drain goes round again, or returns.
\* A failure is reported to the host first, whose handler may raise a trigger.
CaptureEnds(d, ok) ==
    /\ d \in drains
    /\ failures' = IF ok THEN 0 ELSE failures + 1
    /\ asked' \in {asked} \cup {n \in {asked + 1} : ~ok /\ n <= MaxTriggers}
    /\ \/ /\ pending \/ asked' # asked
          /\ StartCapture
          /\ UNCHANGED <<busy, unresolved, drains>>
       \/ /\ ~pending /\ asked' = asked
          /\ DrainReturns(d)
          /\ UNCHANGED <<pending, seen, captures>>
    /\ UNCHANGED <<chain, caller, jobs>>

-----------------------------------------------------------------------------
\* the slot is free: exclusive() takes it
Enter(c) ==
    /\ busy' = TRUE
    /\ chain' = chain + 1
    /\ unresolved' = unresolved \cup {chain + 1}
    /\ caller' = [caller EXCEPT ![c] = [pc |-> "work", promise |-> chain + 1]]
    /\ UNCHANGED <<pending, failures, drains>>

Await(c, pc) ==
    /\ caller' = [caller EXCEPT ![c] = [pc |-> pc, promise |-> chain]]
    /\ UNCHANGED slot

Call(c) ==
    /\ caller[c].pc = "away"
    /\ jobs < MaxJobs
    /\ jobs' = jobs + 1
    /\ UNCHANGED <<asked, seen, captures>>

Exclusive(c) ==
    /\ Call(c)
    /\ \/ busy /\ Await(c, "wait")
       \/ ~busy /\ Enter(c)

Runnable(c, pc) ==
    /\ caller[c].pc = pc
    /\ caller[c].promise \notin unresolved
    /\ UNCHANGED <<asked, seen, captures, jobs>>

\* Mutant: `if (this.#busy) await` instead of `while`
ResumeOnce(c) == Runnable(c, "wait") /\ Enter(c)

Resume(c) ==
    /\ Runnable(c, "wait")
    /\ \/ busy /\ Await(c, "wait")
       \/ ~busy /\ Enter(c)

\* Mutant: #release starts a drain unasked
WorkEndsAlways(c) ==
    /\ caller[c].pc = "work"
    /\ caller' = [caller EXCEPT ![c] = Away]
    /\ asked' = asked
    /\ StartDrain(unresolved \ {caller[c].promise})
    /\ UNCHANGED <<failures, jobs>>

\* the work resolves or rejects: #release, then finished()
WorkEnds(c) ==
    LET still == unresolved \ {caller[c].promise}
    IN  /\ caller[c].pc = "work"
        /\ caller' = [caller EXCEPT ![c] = Away]
        /\ asked' = asked
        /\ \/ pending /\ StartDrain(still)
           \/ /\ ~pending
              /\ busy' = FALSE
              /\ unresolved' = still
              /\ UNCHANGED <<pending, chain, drains, seen, captures>>
        /\ UNCHANGED <<failures, jobs>>

Settle(c) == Call(c) /\ Await(c, "settle")

\* Mutant: settle() is satisfied with the promise it awaited
SettleResumeOnce(c) ==
    /\ Runnable(c, "settle")
    /\ caller' = [caller EXCEPT ![c] = Away]
    /\ UNCHANGED slot

SettleResume(c) ==
    /\ Runnable(c, "settle")
    /\ \/ (caller[c].promise # chain \/ busy) /\ Await(c, "settle")
       \/ /\ caller[c].promise = chain /\ ~busy
          /\ caller' = [caller EXCEPT ![c] = Away]
          /\ UNCHANGED slot

-----------------------------------------------------------------------------
Captures == \E d \in drains, ok \in BOOLEAN : CaptureEnds(d, ok)
Step(c) == Resume(c) \/ WorkEnds(c) \/ SettleResume(c)
Arrive(c) == Exclusive(c) \/ Settle(c)

Next == Trigger \/ Captures \/ \E c \in Caller : Arrive(c) \/ Step(c)

Spec == Init /\ [][Next]_vars

\* Captures and the exclusive work come to an end, and a runnable callback runs: the
\* event loop drops none.  Nothing is assumed of how captures end.
FairSpec == Spec /\ WF_vars(Captures) /\ \A c \in Caller : WF_vars(Step(c))

-----------------------------------------------------------------------------
(* Properties.                                                             *)

Working == {c \in Caller : caller[c].pc = "work"}

TypeOK ==
    /\ busy \in BOOLEAN /\ pending \in BOOLEAN
    /\ failures \in Nat /\ chain \in Nat /\ jobs \in Nat
    /\ asked \in Nat /\ seen \in Nat /\ captures \in Nat
    /\ unresolved \subseteq 1 .. chain
    /\ drains \subseteq unresolved
    /\ caller \in [Caller -> [pc : {"away", "wait", "work", "settle"}, promise : 0 .. chain]]

(* One job per target: two drains, a drain and a reconcile, or two         *)
(* reconciles never overlap, although a resolved promise wakes all its     *)
(* waiters while triggers keep arriving.                                   *)
OneJobAtATime ==
    /\ \A d, e \in drains : d = e
    /\ \A c, e \in Working : c = e
    /\ drains = {} \/ Working = {}

(* Triggers coalesce: a capture starts only for a trigger that no capture  *)
(* has seen, so a burst of triggers costs one follow-up and not a queue.   *)
CapturesAreAskedFor == [][captures' # captures => asked' > seen]_vars

(* settle() returns only when every trigger raised so far was captured and *)
(* nothing runs.                                                           *)
SettledIsQuiet ==
    [][\A c \in Caller : caller[c].pc = "settle" /\ caller'[c].pc = "away" =>
          seen = asked /\ drains = {} /\ Working = {}]_vars

(* No trigger is lost, however many captures fail before it.               *)
TriggersAreSeen == \A n \in 1 .. MaxTriggers : asked = n ~> seen >= n

(* The slot is never wedged: reconcile gets it once triggers stop, and     *)
(* every caller of exclusive() and settle() gets its answer.               *)
CallersReturn == \A c \in Caller : caller[c].pc # "away" ~> caller[c].pc = "away"

(* The slot is the job slot the engine is written against: with promises,  *)
(* stale wake-ups and failing captures, what its users can see is one job  *)
(* and one flag, and a trigger is never queued twice nor dropped.          *)
HeldBy == IF drains # {} THEN "capture" ELSE IF Working # {} THEN "exclusive" ELSE "idle"

Promised == INSTANCE JobSlot WITH job <- HeldBy, again <- pending

IsJobSlot == Promised!Spec

-----------------------------------------------------------------------------
(* The inductive invariant behind OneJobAtATime and SettledIsQuiet: busy is*)
(* the one lock, a free slot owes nothing, an unset flag owes nothing.     *)
SlotInv ==
    /\ TypeOK
    /\ OneJobAtATime
    /\ ~busy => drains = {} /\ Working = {} /\ ~pending
    /\ busy => drains # {} \/ Working # {}
    /\ ~pending => seen = asked
=============================================================================
