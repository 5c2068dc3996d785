------------------------------- MODULE Grants -------------------------------
(***************************************************************************)
(* The grant cache of one process: class GrantController of                *)
(* src/src/grants.ts.  The host's resolver is another system: it reads the *)
(* policy at some moment after it is asked, and answers later, never, or   *)
(* with an error.  Time goes in ticks.                                     *)
(***************************************************************************)
EXTENDS Integers

CONSTANTS
    Call,     \* the resolve calls in flight
    Tenant, Actor, Mount,
    Grant,    \* the answers a resolver may give
    Unknown,  \* what a call has before it has an answer
    TTL,      \* ttlMs
    Timeout,  \* timeoutMs
    Second,   \* the longest time between two reaps
    All,      \* an argument of invalidate that is left out
    MaxTime   \* bound: the clock stops here

ASSUME GrantsAssumption ==
    /\ Tenant # {} /\ Actor # {} /\ Mount # {}
    /\ TTL \in Nat /\ MaxTime \in Nat
    /\ Timeout \in Nat \ {0} /\ Second \in Nat \ {0}
    /\ Unknown \notin Grant
    /\ All \notin Tenant \cup Mount

VARIABLES
    now,
    policy,       \* the host's decision for each key, at each moment so far
    cache,        \* cache
    nextReapAt,   \* nextReapAt
    call,         \* the calls in flight and the last answers
    invalidated   \* when invalidate was last called for a key (history)

vars == <<now, policy, cache, nextReapAt, call, invalidated>>

Key == [tenant : Tenant, actor : Actor, mount : Mount]
Entry == [key : Key, expiresAt : Nat, grant : Grant]

NoCall == [pc |-> "failed", key |-> CHOOSE k \in Key : TRUE, bypass |-> FALSE, started |-> 0, grant |-> Unknown]

Init ==
    /\ now = 0
    /\ policy \in [{0} -> [Key -> Grant]]
    /\ cache = {}
    /\ nextReapAt = 0
    /\ call = [c \in Call |-> NoCall]
    /\ invalidated = [k \in Key |-> 0]

-----------------------------------------------------------------------------
\* time goes by, and the host may change its mind
Tick ==
    /\ now < MaxTime
    /\ now' = now + 1
    /\ \E decision \in [Key -> Grant] :
          policy' = [t \in 0 .. now + 1 |-> IF t = now + 1 THEN decision ELSE policy[t]]
    /\ UNCHANGED <<cache, nextReapAt, call, invalidated>>

Live == {e \in cache : e.expiresAt > now}
ReapInterval == IF TTL = 0 THEN 1 ELSE IF TTL < Second THEN TTL ELSE Second

Returned(c) == call[c].pc \in {"done", "failed"}

\* reap, then the entry of the key, which expires here too
Kept(k) == IF now >= nextReapAt THEN Live ELSE {e \in cache : e.key = k => e \in Live}
Hits(k) == {e \in Live : e.key = k}
Called(pc, k, bypass, grant) ==
    [pc |-> pc, key |-> k, bypass |-> bypass, started |-> now, grant |-> grant]

\* resolve up to its await
Start(c, k, bypass) ==
    /\ Returned(c)
    /\ now + Timeout <= MaxTime
    /\ nextReapAt' = IF now >= nextReapAt THEN now + ReapInterval ELSE nextReapAt
    /\ cache' = Kept(k)
    /\ \/ /\ ~bypass
          /\ \E e \in Hits(k) : call' = [call EXCEPT ![c] = Called("done", k, bypass, e.grant)]
       \/ /\ bypass \/ Hits(k) = {}
          /\ call' = [call EXCEPT ![c] = Called("asked", k, bypass, Unknown)]
    /\ UNCHANGED <<now, policy, invalidated>>

\* the resolver reads the policy
Decide(c) ==
    /\ call[c].pc = "asked"
    /\ call' = [call EXCEPT ![c].pc = "decided", ![c].grant = policy[now][call[c].key]]
    /\ UNCHANGED <<now, policy, cache, nextReapAt, invalidated>>

\* Mutant: the entry lives on from the moment of the answer
StoredLate(c) == {e \in cache : e.key # call[c].key}
    \cup {[key |-> call[c].key, expiresAt |-> now + TTL, grant |-> call[c].grant]}

\* Mutant: an entry per answer
StoredBeside(c) == cache
    \cup {[key |-> call[c].key, expiresAt |-> call[c].started + TTL, grant |-> call[c].grant]}

\* the entry expires TTL after the call began, however long the resolver took
Stored(c) == {e \in cache : e.key # call[c].key}
    \cup {[key |-> call[c].key, expiresAt |-> call[c].started + TTL, grant |-> call[c].grant]}

\* resolve after its await
Answer(c) ==
    /\ call[c].pc = "decided"
    /\ call' = [call EXCEPT ![c].pc = "done"]
    /\ cache' = IF call[c].bypass THEN cache ELSE Stored(c)
    /\ UNCHANGED <<now, policy, nextReapAt, invalidated>>

Give(c) ==
    /\ call' = [call EXCEPT ![c].pc = "failed", ![c].grant = Unknown]
    /\ UNCHANGED <<now, policy, cache, nextReapAt, invalidated>>

\* the resolver throws, or answers what is no grant
Reject(c) == ~Returned(c) /\ Give(c)

\* Mutant: the timer is not armed
ExpireNever(c) == FALSE /\ Give(c)

\* withTimeout; a timer is late at will
Expire(c) == ~Returned(c) /\ now >= call[c].started + Timeout /\ Give(c)

Invalidate(actor, mount, tenant) ==
    LET matches == {k \in Key : k.actor = actor /\ mount \in {k.mount, All} /\ tenant \in {k.tenant, All}}
    IN  /\ cache' = {e \in cache : e.key \notin matches}
        /\ invalidated' = [k \in Key |-> IF k \in matches THEN now ELSE invalidated[k]]
        /\ UNCHANGED <<now, policy, nextReapAt, call>>

Next ==
    \/ Tick
    \/ \E c \in Call :
          \/ \E k \in Key, bypass \in BOOLEAN : Start(c, k, bypass)
          \/ Decide(c) \/ Answer(c) \/ Reject(c) \/ Expire(c)
    \/ \E a \in Actor, m \in Mount \cup {All}, t \in Tenant \cup {All} : Invalidate(a, m, t)

Spec == Init /\ [][Next]_vars

\* the clock goes on and the timer fires; the resolver owes nothing
FairSpec == Spec /\ WF_vars(Tick) /\ \A c \in Call : WF_vars(Expire(c))

-----------------------------------------------------------------------------
(* Properties.                                                             *)

\* Every variable has its type; the cache is a map.
TypeOK ==
    /\ now \in 0 .. MaxTime
    /\ policy \in [0 .. now -> [Key -> Grant]]
    /\ cache \subseteq Entry
    /\ \A e, f \in cache : e.key = f.key => e = f
    /\ nextReapAt \in Nat
    /\ call \in [Call -> [pc : {"asked", "decided", "done", "failed"}, key : Key, bypass : BOOLEAN,
                          started : 0 .. now, grant : Grant \cup {Unknown}]]
    /\ invalidated \in [Key -> 0 .. now]

InForce(g, k, from) == \E t \in 0 .. now : t >= from /\ policy[t][k] = g

\* the earliest decision that a call may answer with
Oldest(r) == IF r.bypass \/ TTL = 0 THEN r.started ELSE r.started - TTL + 1

(* The revocation bound: what resolve answers was the host's decision at   *)
(* some moment less than TTL before the call, or during it; for a call     *)
(* that bypasses the cache, during it.  Two slow calls for one key may     *)
(* store their answers in either order.                                    *)
GrantsAreRecent ==
    \A c \in Call : call[c].pc = "done" => InForce(call[c].grant, call[c].key, Oldest(call[c]))

(* Every resolve returns, though a resolver may never answer: it fails     *)
(* closed.                                                                 *)
CallsEnd == \A c \in Call : ~Returned(c) ~> Returned(c)

(* After invalidate, the cache no longer serves what was decided before.   *)
InvalidateTakesEffect ==
    [][\A c \in Call : Returned(c) /\ call'[c].pc = "done" /\ call'[c] # call[c] =>
          InForce(call'[c].grant, call'[c].key, invalidated[call'[c].key])]_vars
=============================================================================
