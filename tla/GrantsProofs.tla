---------------------------- MODULE GrantsProofs ----------------------------
(***************************************************************************)
(* The revocation bound of Grants, for any TTL, any timeout and any number *)
(* of calls, keys and grants.                                              *)
(***************************************************************************)
EXTENDS Grants, TLAPS

\* what the cache holds was decided no earlier than its entry's call began
CacheIsRecent == \A e \in cache : InForce(e.grant, e.key, e.expiresAt - TTL)

\* what the resolver has told a call was decided since that call began
DecisionsAreRecent ==
    \A c \in Call : call[c].pc = "decided" => InForce(call[c].grant, call[c].key, call[c].started)

GrantInv == TypeOK /\ CacheIsRecent /\ DecisionsAreRecent /\ GrantsAreRecent

-----------------------------------------------------------------------------
\* The host decides for every moment once: what was in force stays so when time goes by.
LEMMA TickKeeps ==
    ASSUME TypeOK, Tick, NEW g, NEW k \in Key, NEW from \in Int, InForce(g, k, from)
    PROVE  InForce(g, k, from)'
<1>1. PICK t \in 0 .. now : t >= from /\ policy[t][k] = g
  BY DEF InForce
<1>2. now \in Nat /\ now' = now + 1 /\ t \in 0 .. now' /\ t # now + 1
  BY GrantsAssumption DEF Tick, TypeOK
<1>3. policy'[t] = policy[t]
  BY <1>2 DEF Tick
<1> QED BY <1>1, <1>2, <1>3 DEF InForce

\* A later start asks for less.
LEMMA Later ==
    ASSUME now \in Nat, NEW g, NEW k, NEW from \in Int, NEW to \in Int, to <= from, InForce(g, k, from)
    PROVE  InForce(g, k, to)
BY DEF InForce

\* The steps that leave the clock alone leave the past alone.
LEMMA StillKeeps ==
    ASSUME UNCHANGED <<now, policy>>, NEW g, NEW k, NEW from, InForce(g, k, from)
    PROVE  InForce(g, k, from)'
BY DEF InForce

-----------------------------------------------------------------------------
\* The properties hold at the start.
LEMMA InitGrants == Init => GrantInv
<1> SUFFICES ASSUME Init PROVE GrantInv
  OBVIOUS
<1> USE GrantsAssumption DEF Init
<1>1. NoCall.key \in Key
  <2>1. PICK t \in Tenant, a \in Actor, m \in Mount : TRUE
    OBVIOUS
  <2>2. [tenant |-> t, actor |-> a, mount |-> m] \in Key
    BY DEF Key
  <2> QED BY <2>2 DEF NoCall
<1>2. call \in [Call -> [pc : {"asked", "decided", "done", "failed"}, key : Key, bypass : BOOLEAN,
                         started : 0 .. now, grant : Grant \cup {Unknown}]]
  BY <1>1 DEF NoCall
<1>3. policy \in [0 .. now -> [Key -> Grant]]
  <2> 0 .. now = {0}
    OBVIOUS
  <2> QED OBVIOUS
<1>4. TypeOK
  BY <1>2, <1>3 DEF TypeOK
<1>5. CacheIsRecent /\ DecisionsAreRecent /\ GrantsAreRecent
  BY DEF CacheIsRecent, DecisionsAreRecent, GrantsAreRecent, NoCall
<1> QED BY <1>4, <1>5 DEF GrantInv

-----------------------------------------------------------------------------
CallRecord == [pc : {"asked", "decided", "done", "failed"}, key : Key, bypass : BOOLEAN,
               started : 0 .. now, grant : Grant \cup {Unknown}]

(* Time goes by.                                                           *)
LEMMA TickGrants == GrantInv /\ Tick => GrantInv'
<1> SUFFICES ASSUME GrantInv, Tick PROVE GrantInv'
  OBVIOUS
<1> USE GrantsAssumption
<1>1. now \in Nat /\ now' = now + 1 /\ now' \in 0 .. MaxTime /\ 0 .. now \subseteq 0 .. now'
  BY DEF GrantInv, TypeOK, Tick
<1>2. TypeOK'
  <2>1. policy' \in [0 .. now' -> [Key -> Grant]]
    <3>1. PICK decision \in [Key -> Grant] :
              policy' = [t \in 0 .. now + 1 |-> IF t = now + 1 THEN decision ELSE policy[t]]
      BY DEF Tick
    <3>2. \A t \in 0 .. now' : t # now + 1 => t \in 0 .. now
      BY <1>1
    <3>3. \A t \in 0 .. now : policy[t] \in [Key -> Grant]
      BY DEF GrantInv, TypeOK
    <3> QED BY <1>1, <3>1, <3>2, <3>3
  <2>2. call' \in [Call -> CallRecord']
    BY <1>1 DEF GrantInv, TypeOK, Tick, CallRecord
  <2>3. invalidated' \in [Key -> 0 .. now']
    BY <1>1 DEF GrantInv, TypeOK, Tick
  <2> QED BY <1>1, <2>1, <2>2, <2>3 DEF GrantInv, TypeOK, Tick, CallRecord
<1>3. CacheIsRecent'
  <2> SUFFICES ASSUME NEW e \in cache PROVE InForce(e.grant, e.key, e.expiresAt - TTL)'
    BY DEF CacheIsRecent, Tick
  <2>1. e.key \in Key /\ e.expiresAt - TTL \in Int /\ InForce(e.grant, e.key, e.expiresAt - TTL)
    BY DEF GrantInv, CacheIsRecent, TypeOK, Entry
  <2> QED BY <2>1, TickKeeps DEF GrantInv
<1>4. DecisionsAreRecent'
  <2> SUFFICES ASSUME NEW c \in Call, call[c].pc = "decided"
               PROVE  InForce(call[c].grant, call[c].key, call[c].started)'
    BY DEF DecisionsAreRecent, Tick
  <2>1. call[c].key \in Key /\ call[c].started \in Int /\ InForce(call[c].grant, call[c].key, call[c].started)
    BY DEF GrantInv, DecisionsAreRecent, TypeOK
  <2> QED BY <2>1, TickKeeps DEF GrantInv, Tick
<1>5. GrantsAreRecent'
  <2> SUFFICES ASSUME NEW c \in Call, call[c].pc = "done"
               PROVE  InForce(call[c].grant, call[c].key, Oldest(call[c]))'
    BY DEF GrantsAreRecent, Tick
  <2>1. call[c].key \in Key /\ Oldest(call[c]) \in Int /\ InForce(call[c].grant, call[c].key, Oldest(call[c]))
    BY DEF GrantInv, GrantsAreRecent, TypeOK, Oldest
  <2>2. UNCHANGED call
    BY DEF Tick
  <2> QED BY <2>1, <2>2, TickKeeps DEF GrantInv, Oldest
<1> QED BY <1>2, <1>3, <1>4, <1>5 DEF GrantInv

(* resolve until it waits: what it takes from the cache is recent enough.  *)
LEMMA StartGrants ==
    ASSUME GrantInv, NEW c \in Call, NEW k \in Key, NEW bypass \in BOOLEAN, Start(c, k, bypass)
    PROVE  GrantInv'
<1> USE GrantsAssumption
<1>1. now \in 0 .. now /\ now \in Nat /\ cache \subseteq Entry /\ call \in [Call -> CallRecord] /\ nextReapAt \in Nat
  BY DEF GrantInv, TypeOK, CallRecord
<1>2. UNCHANGED <<now, policy, invalidated>> /\ cache' \subseteq cache
  BY DEF Start, Kept, Live
<1>3. nextReapAt' \in Nat
  <2>1. ReapInterval \in Nat
    BY DEF ReapInterval
  <2> QED BY <1>1, <2>1 DEF Start
<1>4. \/ call' = [call EXCEPT ![c] = Called("asked", k, bypass, Unknown)]
      \/ \E e \in cache : /\ e.key = k /\ e.expiresAt > now /\ ~bypass
                          /\ call' = [call EXCEPT ![c] = Called("done", k, bypass, e.grant)]
  <2>1. \A e \in Hits(k) : e \in cache /\ e.key = k /\ e.expiresAt > now
    BY DEF Hits, Live
  <2> QED BY <2>1 DEF Start
<1>5. \A d \in Call \ {c} : call'[d] = call[d]
  BY <1>1, <1>4
<1>6. TypeOK'
  <2>1. Called("asked", k, bypass, Unknown) \in CallRecord
    BY <1>1 DEF CallRecord, Called
  <2>2. \A e \in cache : Called("done", k, bypass, e.grant) \in CallRecord
    BY <1>1 DEF CallRecord, Called, Entry
  <2>3. call' \in [Call -> CallRecord]
    BY <1>1, <1>4, <2>1, <2>2
  <2>4. policy' \in [0 .. now' -> [Key -> Grant]] /\ now' \in 0 .. MaxTime /\ invalidated' \in [Key -> 0 .. now']
    BY <1>2 DEF GrantInv, TypeOK
  <2>5. \A e, f \in cache' : e.key = f.key => e = f
    BY <1>2 DEF GrantInv, TypeOK
  <2> QED BY <1>1, <1>2, <1>3, <2>3, <2>4, <2>5 DEF TypeOK, CallRecord
<1>7. CacheIsRecent'
  <2> SUFFICES ASSUME NEW e \in cache' PROVE InForce(e.grant, e.key, e.expiresAt - TTL)'
    BY DEF CacheIsRecent
  <2>1. InForce(e.grant, e.key, e.expiresAt - TTL)
    BY <1>2 DEF GrantInv, CacheIsRecent
  <2> QED BY <1>2, <2>1, StillKeeps
<1>8. DecisionsAreRecent'
  <2> SUFFICES ASSUME NEW d \in Call, call'[d].pc = "decided"
               PROVE  InForce(call[d].grant, call[d].key, call[d].started)'
    BY DEF DecisionsAreRecent
  <2>1. d # c
    BY <1>1, <1>4 DEF Called
  <2>2. InForce(call[d].grant, call[d].key, call[d].started)
    BY <1>5, <2>1 DEF GrantInv, DecisionsAreRecent
  <2> QED BY <1>2, <1>5, <2>1, <2>2 DEF InForce
<1>9. GrantsAreRecent'
  <2> SUFFICES ASSUME NEW d \in Call, call'[d].pc = "done"
               PROVE  InForce(call'[d].grant, call'[d].key, Oldest(call'[d]))
    BY <1>2 DEF GrantsAreRecent, InForce
  <2>1. CASE d # c
    BY <1>5, <2>1 DEF GrantInv, GrantsAreRecent
  <2>2. CASE d = c
    <3>1. PICK e \in cache : /\ e.key = k /\ e.expiresAt > now /\ ~bypass
                             /\ call' = [call EXCEPT ![c] = Called("done", k, bypass, e.grant)]
      BY <1>1, <1>4, <2>2 DEF Called
    <3>2. call'[c].grant = e.grant /\ call'[c].key = k /\ call'[c].bypass = FALSE /\ call'[c].started = now
      BY <1>1, <3>1 DEF Called
    <3>3. PICK t \in 0 .. now : t >= e.expiresAt - TTL /\ policy[t][k] = e.grant
      BY <3>1 DEF GrantInv, CacheIsRecent, InForce
    <3>4. e.expiresAt \in Nat
      BY <1>1 DEF Entry
    <3>5. TTL # 0 /\ t >= now - TTL + 1
      BY <1>1, <3>1, <3>3, <3>4
    <3> QED BY <2>2, <3>2, <3>3, <3>5 DEF InForce, Oldest
  <2> QED BY <2>1, <2>2
<1> QED BY <1>6, <1>7, <1>8, <1>9 DEF GrantInv

\* Of two invariants over the calls, a step of call c has to be right for c only.
LEMMA OnlyOne ==
    ASSUME GrantInv, UNCHANGED <<now, policy>>, NEW c \in Call,
           \A d \in Call \ {c} : call'[d] = call[d],
           call'[c].pc = "decided" => InForce(call'[c].grant, call'[c].key, call'[c].started),
           call'[c].pc = "done" => InForce(call'[c].grant, call'[c].key, Oldest(call'[c]))
    PROVE  DecisionsAreRecent' /\ GrantsAreRecent'
<1>1. \A d \in Call : call'[d].pc = "decided" => InForce(call'[d].grant, call'[d].key, call'[d].started)
  BY DEF GrantInv, DecisionsAreRecent
<1>2. \A d \in Call : call'[d].pc = "done" => InForce(call'[d].grant, call'[d].key, Oldest(call'[d]))
  BY DEF GrantInv, GrantsAreRecent
<1> QED BY <1>1, <1>2 DEF DecisionsAreRecent, GrantsAreRecent, InForce, Oldest

\* Nothing the cache keeps grows older while the clock stands still.
LEMMA CacheKeeps ==
    ASSUME GrantInv, UNCHANGED <<now, policy>>, cache' \subseteq cache PROVE CacheIsRecent'
BY DEF GrantInv, CacheIsRecent, InForce

(* The resolver reads the policy while the call waits.                     *)
LEMMA DecideGrants == ASSUME GrantInv, NEW c \in Call, Decide(c) PROVE GrantInv'
<1>1. now \in Nat /\ now \in 0 .. now /\ call[c] \in CallRecord /\ policy[now] \in [Key -> Grant]
  BY GrantsAssumption DEF GrantInv, TypeOK, CallRecord
<1>2. /\ call'[c] = [call[c] EXCEPT !.pc = "decided", !.grant = policy[now][call[c].key]]
      /\ \A d \in Call \ {c} : call'[d] = call[d]
  BY DEF Decide, GrantInv, TypeOK
<1>3. policy[now][call[c].key] \in Grant
  BY <1>1 DEF CallRecord
<1>4. TypeOK'
  <2>1. [call[c] EXCEPT !.pc = "decided", !.grant = policy[now][call[c].key]] \in CallRecord
    BY <1>1, <1>3 DEF CallRecord
  <2>2. call' \in [Call -> CallRecord]
    BY <1>2, <2>1 DEF Decide, GrantInv, TypeOK, CallRecord
  <2> QED BY <2>2 DEF Decide, GrantInv, TypeOK, CallRecord
<1>5. CacheIsRecent'
  BY CacheKeeps DEF Decide
<1>6. DecisionsAreRecent' /\ GrantsAreRecent'
  <2>1. InForce(call'[c].grant, call'[c].key, call'[c].started) /\ call'[c].pc # "done"
    BY <1>1, <1>2 DEF CallRecord, InForce
  <2> QED BY <1>2, <2>1, OnlyOne DEF Decide
<1> QED BY <1>4, <1>5, <1>6 DEF GrantInv

(* The answer comes: the entry it leaves expires TTL after the call began. *)
LEMMA AnswerGrants == ASSUME GrantInv, NEW c \in Call, Answer(c) PROVE GrantInv'
<1> USE GrantsAssumption
<1> DEFINE new == [key |-> call[c].key, expiresAt |-> call[c].started + TTL, grant |-> call[c].grant]
<1>1. now \in Nat /\ call[c] \in CallRecord /\ call[c].started \in Nat
  BY DEF GrantInv, TypeOK, CallRecord
<1>2. /\ call'[c] = [call[c] EXCEPT !.pc = "done"]
      /\ \A d \in Call \ {c} : call'[d] = call[d]
      /\ UNCHANGED <<now, policy, nextReapAt, invalidated>>
  BY DEF Answer, GrantInv, TypeOK
<1>3. InForce(call[c].grant, call[c].key, call[c].started)
  BY DEF GrantInv, DecisionsAreRecent, Answer
<1>4. call[c].grant \in Grant
  <2>1. call[c].key \in Key
    BY <1>1 DEF CallRecord
  <2>2. \A t \in 0 .. now : policy[t][call[c].key] \in Grant
    BY <2>1 DEF GrantInv, TypeOK
  <2> QED BY <1>3, <2>2 DEF InForce
<1>5. \A e \in cache' : e \in cache \/ e = new
  BY DEF Answer, Stored
<1>6. TypeOK'
  <2>1. cache' \subseteq Entry
    <3>1. new \in Entry
      BY <1>1, <1>4 DEF Entry, CallRecord
    <3> QED BY <1>5, <3>1 DEF GrantInv, TypeOK
  <2>2. \A e, f \in cache' : e.key = f.key => e = f
    BY DEF Answer, Stored, GrantInv, TypeOK
  <2>3. call' \in [Call -> CallRecord]
    <3>1. [call[c] EXCEPT !.pc = "done"] \in CallRecord
      BY <1>1 DEF CallRecord
    <3> QED BY <3>1 DEF Answer, GrantInv, TypeOK, CallRecord
  <2> QED BY <1>2, <2>1, <2>2, <2>3 DEF GrantInv, TypeOK, CallRecord
<1>7. CacheIsRecent'
  <2>1. InForce(new.grant, new.key, new.expiresAt - TTL)
    BY <1>1, <1>3
  <2> QED BY <1>2, <1>5, <2>1 DEF GrantInv, CacheIsRecent, InForce
<1>8. DecisionsAreRecent' /\ GrantsAreRecent'
  <2>1. Oldest(call[c]) \in Int /\ Oldest(call[c]) <= call[c].started
    BY <1>1 DEF Oldest
  <2>2. InForce(call[c].grant, call[c].key, Oldest(call[c]))
    BY <1>1, <1>3, <2>1, Later
  <2>3. /\ call'[c].pc = "done"
        /\ call'[c].grant = call[c].grant /\ call'[c].key = call[c].key
        /\ call'[c].bypass = call[c].bypass /\ call'[c].started = call[c].started
    BY <1>1, <1>2 DEF CallRecord
  <2>4. Oldest(call'[c]) = Oldest(call[c])
    BY <2>3 DEF Oldest
  <2> QED BY <1>2, <2>2, <2>3, <2>4, OnlyOne
<1> QED BY <1>6, <1>7, <1>8 DEF GrantInv

(* A call that fails has no answer.                                        *)
LEMMA GiveGrants == ASSUME GrantInv, NEW c \in Call, Give(c) PROVE GrantInv'
<1>1. call[c] \in CallRecord
  BY DEF GrantInv, TypeOK, CallRecord
<1>2. /\ call'[c] = [call[c] EXCEPT !.pc = "failed", !.grant = Unknown]
      /\ \A d \in Call \ {c} : call'[d] = call[d]
      /\ UNCHANGED <<now, policy, cache, nextReapAt, invalidated>>
  BY DEF Give, GrantInv, TypeOK
<1>3. TypeOK'
  <2>1. [call[c] EXCEPT !.pc = "failed", !.grant = Unknown] \in CallRecord
    BY <1>1 DEF CallRecord
  <2>2. call' \in [Call -> CallRecord]
    BY <2>1 DEF Give, GrantInv, TypeOK, CallRecord
  <2> QED BY <1>2, <2>2 DEF GrantInv, TypeOK, CallRecord
<1>4. call'[c].pc = "failed"
  BY <1>1, <1>2 DEF CallRecord
<1>5. CacheIsRecent'
  BY <1>2, CacheKeeps
<1>6. DecisionsAreRecent' /\ GrantsAreRecent'
  BY <1>2, <1>4, OnlyOne
<1> QED BY <1>3, <1>5, <1>6 DEF GrantInv

(* invalidate only takes entries away.                                     *)
LEMMA InvalidateGrants ==
    ASSUME GrantInv, NEW a, NEW m, NEW t, Invalidate(a, m, t) PROVE GrantInv'
<1>1. UNCHANGED <<now, policy, nextReapAt, call>> /\ cache' \subseteq cache
  BY DEF Invalidate
<1>2. invalidated' \in [Key -> 0 .. now]
  BY GrantsAssumption DEF Invalidate, GrantInv, TypeOK
<1>3. TypeOK'
  BY <1>1, <1>2 DEF GrantInv, TypeOK
<1> QED BY <1>1, <1>3 DEF GrantInv, CacheIsRecent, DecisionsAreRecent, GrantsAreRecent, InForce, Oldest

-----------------------------------------------------------------------------
(* The invariant holds in every reachable state.                           *)
THEOREM GrantInvariance == Spec => []GrantInv
<1>1. GrantInv /\ [Next]_vars => GrantInv'
  <2> SUFFICES ASSUME GrantInv, [Next]_vars PROVE GrantInv'
    OBVIOUS
  <2>1. CASE Tick
    BY <2>1, TickGrants
  <2>2. CASE \E c \in Call, k \in Key, bypass \in BOOLEAN : Start(c, k, bypass)
    BY <2>2, StartGrants
  <2>3. CASE \E c \in Call : Decide(c)
    BY <2>3, DecideGrants
  <2>4. CASE \E c \in Call : Answer(c)
    BY <2>4, AnswerGrants
  <2>5. CASE \E c \in Call : Reject(c) \/ Expire(c)
    BY <2>5, GiveGrants DEF Reject, Expire
  <2>6. CASE \E a \in Actor, m \in Mount \cup {All}, t \in Tenant \cup {All} : Invalidate(a, m, t)
    BY <2>6, InvalidateGrants
  <2>7. CASE UNCHANGED vars
    BY <2>7 DEF vars, GrantInv, TypeOK, CacheIsRecent, DecisionsAreRecent, GrantsAreRecent, InForce, Oldest
  <2> QED BY <2>1, <2>2, <2>3, <2>4, <2>5, <2>6, <2>7 DEF Next
<1> QED BY InitGrants, <1>1, PTL DEF Spec

(* The cache holds at most one decision of a key, whatever answers come    *)
(* late, and every call is in one of its states.                           *)
THEOREM GrantTypeCorrect == Spec => []TypeOK
<1>1. GrantInv => TypeOK
  BY DEF GrantInv
<1> QED BY GrantInvariance, <1>1, PTL

(* The revocation bound: no answer is older than the TTL, and none that    *)
(* bypasses the cache is older than its call.                              *)
THEOREM RevocationIsBounded == Spec => []GrantsAreRecent
<1>1. GrantInv => GrantsAreRecent
  BY DEF GrantInv
<1> QED BY GrantInvariance, <1>1, PTL
=============================================================================
