------------------------ MODULE ReconcileGateProofs ------------------------
(***************************************************************************)
(* Proofs about ReconcileGate, for any number of workers, requests, keys   *)
(* and any Budget.                                                         *)
(***************************************************************************)
EXTENDS ReconcileGate, TLAPS

\* Whoever is between Lock and Unlock is the one holder of g.mu.
HolderOK ==
  \A w \in Workers : pc[w] \in {"check", "enter", "delete"} => mu = {w}

\* A worker has a request exactly while it is busy.
RequestOK == \A w \in Workers : pc[w] # "idle" => req[w] \in Requests

\* The key a worker is about to enter is still free: nobody entered it since
\* the worker looked, because g.mu was locked all along.
EnterOK == \A w \in Workers : pc[w] = "enter" => Key(w) \notin keys

FailedOK == \A w \in failed : pc[w] \in {"unlock", "delete", "done"}

LockInv == TypeOK /\ HolderOK /\ RequestOK /\ FailedOK

KeyInv == OneReconcilePerKey /\ NoLeakedKey /\ EnterOK

\* The Go types are respected, and g.mu, the requests of the workers and the
\* failed reconciles are consistent with where the workers are in run.
LEMMA LockInvInit == Init => LockInv
BY GateAssumption DEF Init, LockInv, TypeOK, HolderOK, RequestOK, FailedOK, Stages

LEMMA LockInvStep == LockInv /\ [Next]_vars => LockInv'
<1> SUFFICES ASSUME LockInv, [Next]_vars PROVE LockInv'
  OBVIOUS
<1> USE GateAssumption DEF LockInv, TypeOK, HolderOK, RequestOK, FailedOK, Stages, Goto, Key, Done
<1>1. ASSUME NEW r \in Requests, Add(r) PROVE LockInv'
  BY <1>1 DEF Add
<1>2. ASSUME NEW r \in Requests, Expire(r) PROVE LockInv'
  BY <1>2 DEF Expire
<1>3. ASSUME NEW w \in Workers, NEW r \in Requests, Get(w, r) PROVE LockInv'
  BY <1>3 DEF Get
<1>4. ASSUME NEW w \in Workers, Lock(w) PROVE LockInv'
  BY <1>4 DEF Lock
<1>5. ASSUME NEW w \in Workers, Busy(w) PROVE LockInv'
  BY <1>5 DEF Busy
<1>6. ASSUME NEW w \in Workers, Free(w) PROVE LockInv'
  BY <1>6 DEF Free
<1>7. ASSUME NEW w \in Workers, Claim(w) PROVE LockInv'
  BY <1>7 DEF Claim
<1>8. ASSUME NEW w \in Workers, List(w) PROVE LockInv'
  BY <1>8 DEF List
<1>9. ASSUME NEW w \in Workers, FnReturns(w) PROVE LockInv'
  BY <1>9 DEF FnReturns
<1>10. ASSUME NEW w \in Workers, FnFails(w) PROVE LockInv'
  BY <1>10 DEF FnFails
<1>11. ASSUME NEW w \in Workers, Release(w) PROVE LockInv'
  BY <1>11 DEF Release
<1>12. ASSUME NEW w \in Workers, Finish(w) PROVE LockInv'
  BY <1>12 DEF Finish
<1>13. CASE UNCHANGED vars
  BY <1>13 DEF vars
<1> QED
  BY <1>1, <1>2, <1>3, <1>4, <1>5, <1>6, <1>7, <1>8, <1>9, <1>10, <1>11, <1>12, <1>13
     DEF Next, Step

\* A reconcile is admitted for a key only while no other one is, and g.keys
\* records exactly the admitted ones.
LEMMA KeyInvInit == Init => KeyInv
BY DEF Init, KeyInv, OneReconcilePerKey, NoLeakedKey, EnterOK, Admitted

\* Steps that admit nobody and end no reconcile leave the gate as it is.
LEMMA KeyInvFrame ==
  ASSUME KeyInv, keys' = keys,
         \A w \in Workers : pc'[w] \in Admitted <=> pc[w] \in Admitted,
         \A w \in Workers : pc[w] \in Admitted => req'[w] = req[w],
         \A w \in Workers : pc'[w] = "enter" => Key(w)' \notin keys
  PROVE  KeyInv'
BY DEF KeyInv, OneReconcilePerKey, NoLeakedKey, EnterOK, Key

LEMMA KeyInvStep == LockInv /\ KeyInv /\ [Next]_vars => KeyInv'
<1> SUFFICES ASSUME LockInv, KeyInv, [Next]_vars PROVE KeyInv'
  OBVIOUS
<1> USE GateAssumption DEF LockInv, TypeOK, Goto
<1>1. ASSUME NEW r \in Requests, Add(r) \/ Expire(r) PROVE KeyInv'
  BY <1>1, KeyInvFrame DEF Add, Expire, KeyInv, EnterOK, Key
<1>2. ASSUME NEW w \in Workers, NEW r \in Requests, Get(w, r) PROVE KeyInv'
  BY <1>2, KeyInvFrame DEF Get, KeyInv, EnterOK, Key, Admitted
<1>3. ASSUME NEW w \in Workers, Lock(w) PROVE KeyInv'
  BY <1>3, KeyInvFrame DEF Lock, KeyInv, EnterOK, Key, Admitted
<1>4. ASSUME NEW w \in Workers, Busy(w) PROVE KeyInv'
  BY <1>4, KeyInvFrame DEF Busy, Done, KeyInv, EnterOK, Key, Admitted
<1>5. ASSUME NEW w \in Workers, Free(w) PROVE KeyInv'
  BY <1>5, KeyInvFrame DEF Free, KeyInv, EnterOK, Key, Admitted
<1>6. ASSUME NEW w \in Workers, Claim(w) PROVE KeyInv'
  <2> USE <1>6 DEF Claim
  <2>1. Key(w) \notin keys
    BY DEF KeyInv, EnterOK
  <2>2. \A v \in Workers : pc[v] \in Admitted => Key(v) # Key(w)
    BY <2>1 DEF KeyInv, NoLeakedKey
  <2>3. \A v \in Workers : v # w => pc'[v] = pc[v]
    OBVIOUS
  <2>4. pc'[w] = "run" /\ pc[w] = "enter"
    OBVIOUS
  <2>5. OneReconcilePerKey'
    BY <2>2, <2>3 DEF KeyInv, OneReconcilePerKey, Key
  <2>6. NoLeakedKey'
    BY <2>3, <2>4 DEF KeyInv, NoLeakedKey, Key, Admitted
  <2>7. EnterOK'
    BY DEF HolderOK, EnterOK, Key
  <2> QED
    BY <2>5, <2>6, <2>7 DEF KeyInv
<1>7. ASSUME NEW w \in Workers, List(w) \/ FnReturns(w) \/ FnFails(w) PROVE KeyInv'
  BY <1>7, KeyInvFrame DEF List, FnReturns, FnFails, KeyInv, EnterOK, Key, Admitted
<1>8. ASSUME NEW w \in Workers, Release(w) PROVE KeyInv'
  <2> USE <1>8 DEF Release
  <2>1. \A v \in Workers : v # w => pc'[v] = pc[v]
    OBVIOUS
  <2>2. pc'[w] = "done" /\ pc[w] = "delete"
    OBVIOUS
  <2>3. OneReconcilePerKey'
    BY <2>1, <2>2 DEF KeyInv, OneReconcilePerKey, Key, Admitted
  <2>4. \A v \in Workers : pc[v] \in Admitted /\ v # w => Key(v) # Key(w)
    BY <2>2 DEF KeyInv, OneReconcilePerKey, Admitted
  <2>5. NoLeakedKey'
    BY <2>1, <2>2, <2>4 DEF KeyInv, NoLeakedKey, Key, Admitted
  <2>6. EnterOK'
    BY <2>1, <2>2 DEF KeyInv, EnterOK, Key
  <2> QED
    BY <2>3, <2>5, <2>6 DEF KeyInv
<1>9. ASSUME NEW w \in Workers, Finish(w) PROVE KeyInv'
  BY <1>9, KeyInvFrame DEF Finish, Done, KeyInv, EnterOK, Key, Admitted
<1>10. CASE UNCHANGED vars
  BY <1>10, KeyInvFrame DEF vars, KeyInv, EnterOK, Key
<1> QED
  BY <1>1, <1>2, <1>3, <1>4, <1>5, <1>6, <1>7, <1>8, <1>9, <1>10 DEF Next, Step

\* A request that some worker will still read the inputs for.
Carried(r) ==
  \/ r \in dirty \union delayed
  \/ \E w \in Workers :
       req[w] = r /\ (pc[w] \in {"lock", "check", "enter", "run"} \/ w \in failed)

\* Each step hands a carried request on, or reads the inputs of its key.
LEMMA NoLostTriggerStep ==
  LockInv /\ NoLostTrigger /\ [Next]_vars => NoLostTrigger'
<1> SUFFICES ASSUME LockInv, [Next]_vars,
                    \A k \in stale : \E r \in Requests : KeyOf[r] = k /\ Carried(r),
                    NEW k \in stale'
             PROVE  \E r \in Requests : KeyOf[r] = k /\ Carried(r)'
  BY DEF NoLostTrigger, Carried
<1> USE GateAssumption DEF LockInv, TypeOK, Goto
<1>1. ASSUME NEW r \in Requests, Add(r)
      PROVE  Carried(r)' /\ \A q \in Requests : Carried(q) => Carried(q)'
  BY <1>1 DEF Add, Carried
<1>2. ASSUME NEW r \in Requests, Expire(r)
      PROVE  \A q \in Requests : Carried(q) => Carried(q)'
  BY <1>2 DEF Expire, Carried
<1>3. ASSUME NEW w \in Workers, NEW r \in Requests, Get(w, r)
      PROVE  \A q \in Requests : Carried(q) => Carried(q)'
  BY <1>3 DEF Get, Carried, FailedOK
<1>4. ASSUME NEW w \in Workers, Lock(w)
      PROVE  \A q \in Requests : Carried(q) => Carried(q)'
  BY <1>4 DEF Lock, Carried
<1>5. ASSUME NEW w \in Workers, Busy(w)
      PROVE  \A q \in Requests : Carried(q) => Carried(q)'
  BY <1>5 DEF Busy, Done, Carried
<1>6. ASSUME NEW w \in Workers, Free(w) \/ Claim(w)
      PROVE  \A q \in Requests : Carried(q) => Carried(q)'
  BY <1>6 DEF Free, Claim, Carried
<1>7. ASSUME NEW w \in Workers, List(w)
      PROVE  \A q \in Requests : Carried(q) => Carried(q)' \/ q = req[w]
  BY <1>7 DEF List, Carried
<1>8. ASSUME NEW w \in Workers, FnReturns(w) \/ Release(w)
      PROVE  \A q \in Requests : Carried(q) => Carried(q)'
  BY <1>8 DEF FnReturns, Release, Carried
<1>9. ASSUME NEW w \in Workers, FnFails(w)
      PROVE  \A q \in Requests : Carried(q) \/ q = req[w] => Carried(q)'
  BY <1>9 DEF FnFails, Carried
<1>10. ASSUME NEW w \in Workers, Finish(w)
       PROVE  \A q \in Requests : Carried(q) => Carried(q)'
  BY <1>10 DEF Finish, Done, Carried
<1>11. ASSUME UNCHANGED vars
       PROVE  \A q \in Requests : Carried(q) => Carried(q)'
  BY <1>11 DEF vars, Carried
<1>12. ASSUME NEW r \in Requests, Add(r) PROVE stale' = stale \union {KeyOf[r]}
  BY <1>12 DEF Add
<1>13. ASSUME NEW w \in Workers, List(w) PROVE stale' = stale \ {KeyOf[req[w]]}
  BY <1>13 DEF List, Key
<1>14. ASSUME NEW w \in Workers, FnFails(w)
       PROVE  stale' = stale \union {KeyOf[req[w]]} /\ req[w] \in Requests
  BY <1>14 DEF FnFails, Key, RequestOK
<1>15. CASE \E r \in Requests : Add(r)
  BY <1>15, <1>1, <1>12
<1>16. CASE \E w \in Workers : List(w)
  BY <1>16, <1>7, <1>13
<1>17. CASE \E w \in Workers : FnFails(w)
  BY <1>17, <1>9, <1>14
<1>18. CASE \/ UNCHANGED vars
            \/ \E r \in Requests : Expire(r)
            \/ \E w \in Workers, r \in Requests : Get(w, r)
            \/ \E w \in Workers : \/ Lock(w) \/ Busy(w) \/ Free(w) \/ Claim(w)
                                  \/ FnReturns(w) \/ Release(w) \/ Finish(w)
  <2>1. stale' = stale
    BY <1>18 DEF vars, Expire, Get, Lock, Busy, Free, Claim, FnReturns, Release, Finish
  <2>2. \A q \in Requests : Carried(q) => Carried(q)'
    BY <1>18, <1>2, <1>3, <1>4, <1>5, <1>6, <1>8, <1>10, <1>11
  <2> QED
    BY <2>1, <2>2
<1> QED
  BY <1>15, <1>16, <1>17, <1>18 DEF Next, Step

-----------------------------------------------------------------------------
\* The state of every reachable gate is well typed: g.keys only ever holds keys,
\* g.mu at most the workers of the controller.
THEOREM TypeCorrect == Spec => []TypeOK
<1>1. LockInv => TypeOK
  BY DEF LockInv
<1> QED
  BY <1>1, LockInvInit, LockInvStep, PTL DEF Spec

\* "at most one reconcile runs per key" (reconcile_gate.go:10), whatever the
\* number of workers: g.mu makes looking up a key and entering it one step.
THEOREM MutualExclusion == Spec => []OneReconcilePerKey
<1>1. KeyInv => OneReconcilePerKey
  BY DEF KeyInv
<1> QED
  BY <1>1, LockInvInit, LockInvStep, KeyInvInit, KeyInvStep, PTL DEF Spec

\* The deferred delete never leaves a key behind and never removes the key of a
\* reconcile that still runs.
THEOREM KeysAreReleased == Spec => []NoLeakedKey
<1>1. KeyInv => NoLeakedKey
  BY DEF KeyInv
<1> QED
  BY <1>1, LockInvInit, LockInvStep, KeyInvInit, KeyInvStep, PTL DEF Spec

\* No trigger that meets a taken key, and no failed reconcile, is forgotten.
THEOREM TriggersSurvive == Spec => []NoLostTrigger
<1>1. Init => NoLostTrigger
  BY DEF Init, NoLostTrigger
<1> QED
  BY <1>1, LockInvInit, LockInvStep, NoLostTriggerStep, PTL DEF Spec

=============================================================================
