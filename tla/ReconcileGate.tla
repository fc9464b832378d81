--------------------------- MODULE ReconcileGate ---------------------------
(***************************************************************************)
(* The reconcileGate of internal/controller/reconcile_gate.go, driven by   *)
(* the workers of a controller-runtime controller.                         *)
(*                                                                         *)
(* Several requests may share a gate key: the device controller enqueues   *)
(* one request per canonical network name, and all the requests of a       *)
(* namespace share the key of that namespace.  run(key, fn) admits one     *)
(* reconcile per key; a caller that finds the key taken gives up and asks  *)
(* for its request back after 500 ms.                                      *)
(*                                                                         *)
(* The workqueue (dirty, delayed, req) is external: it is modelled from    *)
(* the way the controllers use it.  A request is never handed to two       *)
(* workers at once, and a request added while it is processed comes back.  *)
(***************************************************************************)
EXTENDS Naturals

CONSTANTS
  Workers,    \* goroutines that call Reconcile
  Requests,   \* reconcile.Request values
  Keys,       \* gate keys
  KeyOf,      \* KeyOf[r]: the key Reconcile passes to run for r
  NoRequest,  \* what an idle worker holds
  Budget      \* bound on the watch events and failed reconciles of a behaviour

ASSUME GateAssumption ==
  /\ KeyOf \in [Requests -> Keys]
  /\ NoRequest \notin Requests
  /\ Budget \in Nat

VARIABLES
  dirty,    \* requests waiting for a worker
  delayed,  \* requests that come back after RequeueAfter or a backoff
  pc,       \* where each worker is in run
  req,      \* the request each worker processes
  failed,   \* workers whose fn returned an error
  mu,       \* holder of g.mu: empty or one worker
  keys,     \* g.keys
  stale,    \* history: keys with a change no fn has read, or a failed fn
  budget    \* events and failures left

vars == <<dirty, delayed, pc, req, failed, mu, keys, stale, budget>>

Stages ==
  {"idle", "lock", "check", "enter", "run", "body", "unlock", "delete", "done"}

\* Workers between g.keys[key] = struct{}{} and delete(g.keys, key).
Admitted == {"run", "body", "unlock", "delete"}

Key(w) == KeyOf[req[w]]

Init ==
  /\ dirty = {}
  /\ delayed = {}
  /\ pc = [w \in Workers |-> "idle"]
  /\ req = [w \in Workers |-> NoRequest]
  /\ failed = {}
  /\ mu = {}
  /\ keys = {}
  /\ stale = {}
  /\ budget = Budget

Goto(w, from, to) ==
  /\ pc[w] = from
  /\ pc' = [pc EXCEPT ![w] = to]

\* The worker hands its request back: queue.Done.
Done(w) == req' = [req EXCEPT ![w] = NoRequest]

(***************************************************************************)
(* The workqueue.                                                          *)
(***************************************************************************)

\* A watch event enqueues r: something a reconcile of its key reads changed.
Add(r) ==
  /\ budget > 0
  /\ budget' = budget - 1
  /\ dirty' = dirty \union {r}
  /\ stale' = stale \union {KeyOf[r]}
  /\ UNCHANGED <<delayed, pc, req, failed, mu, keys>>

Get(w, r) ==
  /\ r \in dirty
  /\ \A v \in Workers : req[v] # r
  /\ Goto(w, "idle", "lock")
  /\ dirty' = dirty \ {r}
  /\ req' = [req EXCEPT ![w] = r]
  /\ UNCHANGED <<delayed, failed, mu, keys, stale, budget>>

\* The delay of r ends.
Expire(r) ==
  /\ r \in delayed
  /\ delayed' = delayed \ {r}
  /\ dirty' = dirty \union {r}
  /\ UNCHANGED <<pc, req, failed, mu, keys, stale, budget>>

(***************************************************************************)
(* reconcileGate.run                                                       *)
(***************************************************************************)

\* Mutant of Lock: no mutual exclusion.
LockShared(w) ==
  /\ mu' = {w}
  /\ \/ Goto(w, "lock", "check")
     \/ Goto(w, "unlock", "delete")
  /\ UNCHANGED <<dirty, delayed, req, failed, keys, stale, budget>>

Lock(w) ==
  /\ mu = {}
  /\ mu' = {w}
  /\ \/ Goto(w, "lock", "check")
     \/ Goto(w, "unlock", "delete")
  /\ UNCHANGED <<dirty, delayed, req, failed, keys, stale, budget>>

\* Mutant of Busy: the caller gives up without asking for its request back.
BusyForgets(w) ==
  /\ Goto(w, "check", "idle")
  /\ Key(w) \in keys
  /\ mu' = {}
  /\ Done(w)
  /\ UNCHANGED <<dirty, delayed, failed, keys, stale, budget>>

\* Mutant of Busy: the early return keeps g.mu locked.
BusyKeepsLock(w) ==
  /\ Goto(w, "check", "idle")
  /\ Key(w) \in keys
  /\ delayed' = delayed \union {req[w]}
  /\ Done(w)
  /\ UNCHANGED <<dirty, failed, mu, keys, stale, budget>>

\* The key is taken: unlock and return RequeueAfter.
Busy(w) ==
  /\ Goto(w, "check", "idle")
  /\ Key(w) \in keys
  /\ mu' = {}
  /\ delayed' = delayed \union {req[w]}
  /\ Done(w)
  /\ UNCHANGED <<dirty, failed, keys, stale, budget>>

\* The key is free; g.mu stays locked until it is entered.
Free(w) ==
  /\ Goto(w, "check", "enter")
  /\ Key(w) \notin keys
  /\ UNCHANGED <<dirty, delayed, req, failed, mu, keys, stale, budget>>

\* Mutant of Claim: the request is entered in place of its key.
ClaimRequest(w) ==
  /\ Goto(w, "enter", "run")
  /\ keys' = keys \union {req[w]}
  /\ mu' = {}
  /\ UNCHANGED <<dirty, delayed, req, failed, stale, budget>>

Claim(w) ==
  /\ Goto(w, "enter", "run")
  /\ keys' = keys \union {Key(w)}
  /\ mu' = {}
  /\ UNCHANGED <<dirty, delayed, req, failed, stale, budget>>

\* fn lists its inputs: every change announced so far is read.
List(w) ==
  /\ Goto(w, "run", "body")
  /\ stale' = stale \ {Key(w)}
  /\ UNCHANGED <<dirty, delayed, req, failed, mu, keys, budget>>

FnReturns(w) ==
  /\ Goto(w, "body", "unlock")
  /\ UNCHANGED <<dirty, delayed, req, failed, mu, keys, stale, budget>>

\* fn returns an error or panics: what it read is still to be applied.
FnFails(w) ==
  /\ budget > 0
  /\ Goto(w, "body", "unlock")
  /\ budget' = budget - 1
  /\ failed' = failed \union {w}
  /\ stale' = stale \union {Key(w)}
  /\ UNCHANGED <<dirty, delayed, req, mu, keys>>

\* Mutant of Release: a failed fn leaves its key behind.
ReleaseOnSuccess(w) ==
  /\ Goto(w, "delete", "done")
  /\ keys' = IF w \in failed THEN keys ELSE keys \ {Key(w)}
  /\ mu' = {}
  /\ UNCHANGED <<dirty, delayed, req, failed, stale, budget>>

\* The deferred function.
Release(w) ==
  /\ Goto(w, "delete", "done")
  /\ keys' = keys \ {Key(w)}
  /\ mu' = {}
  /\ UNCHANGED <<dirty, delayed, req, failed, stale, budget>>

\* Back in the controller: an error is retried after a backoff.
Finish(w) ==
  /\ Goto(w, "done", "idle")
  /\ delayed' = IF w \in failed THEN delayed \union {req[w]} ELSE delayed
  /\ failed' = failed \ {w}
  /\ Done(w)
  /\ UNCHANGED <<dirty, mu, keys, stale, budget>>

Step(w) ==
  \/ Busy(w) \/ Free(w) \/ Claim(w) \/ List(w) \/ FnReturns(w) \/ FnFails(w)
  \/ Release(w) \/ Finish(w)

Next ==
  \/ \E r \in Requests : Add(r) \/ Expire(r)
  \/ \E w \in Workers, r \in Requests : Get(w, r)
  \/ \E w \in Workers : Lock(w) \/ Step(w)

(***************************************************************************)
(* Goroutines run, timers fire, and sync.Mutex hands itself to a waiter    *)
(* that has been starved (its starvation mode), hence strong fairness of   *)
(* Lock.  Nothing forces a watch event.                                    *)
(***************************************************************************)
Fairness ==
  /\ \A w \in Workers : WF_vars(Step(w)) /\ SF_vars(Lock(w))
  /\ \A r \in Requests : WF_vars(Expire(r))
  /\ \A r \in Requests : SF_vars(\E w \in Workers : Get(w, r))

Spec == Init /\ [][Next]_vars

FairSpec == Spec /\ Fairness

-----------------------------------------------------------------------------
(***************************************************************************)
(* Properties.                                                             *)
(***************************************************************************)

\* The variables have the shape the Go types give them.
TypeOK ==
  /\ dirty \in SUBSET Requests
  /\ delayed \in SUBSET Requests
  /\ pc \in [Workers -> Stages]
  /\ req \in [Workers -> Requests \union {NoRequest}]
  /\ failed \in SUBSET Workers
  /\ mu \in SUBSET Workers
  /\ keys \in SUBSET Keys
  /\ stale \in SUBSET Keys
  /\ budget \in Nat

\* "at most one reconcile runs per key" (reconcile_gate.go:10): two workers
\* are never both inside fn for requests that share a key.
OneReconcilePerKey ==
  \A v, w \in Workers :
    v # w /\ pc[v] \in Admitted /\ pc[w] \in Admitted => Key(v) # Key(w)

\* A key stays in g.keys exactly as long as a reconcile of it runs: a key left
\* behind would turn every later reconcile of it into a requeue, for ever.
NoLeakedKey ==
  keys = {Key(w) : w \in {v \in Workers : pc[v] \in Admitted}}

\* A change announced by a watch event, or a failed reconcile, is never
\* forgotten: until a reconcile of its key reads the inputs again, a request of
\* that key is queued, delayed, or in the hands of a worker that has yet to
\* read.  This is what the 500 ms requeue of the busy path is for.
NoLostTrigger ==
  \A k \in stale : \E r \in Requests :
    /\ KeyOf[r] = k
    /\ \/ r \in dirty \union delayed
       \/ \E w \in Workers :
            /\ req[w] = r
            /\ pc[w] \in {"lock", "check", "enter", "run"} \/ w \in failed

\* Once events and failures cease, every request is worked off and the gate
\* ends up empty: busy callers neither block one another nor spin for ever.
GateDrains ==
  <>[](dirty = {} /\ delayed = {} /\ stale = {} /\ keys = {} /\ mu = {})

=============================================================================
