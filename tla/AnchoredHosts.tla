---------------------------- MODULE AnchoredHosts ----------------------------
(***************************************************************************)
(* What the load-balancer and the ingress DNS controllers have in common:  *)
(* each reads some kinds of objects and writes one DnsHosts object, owned  *)
(* by an anchor ConfigMap that it creates and watches; every event maps to *)
(* one and the same request.                                               *)
(*                                                                         *)
(* External to the repository and modelled from its use: the API server,   *)
(* here the history of its states per kind; the informers, each with the   *)
(* position in that history its cache has reached; the workqueue with its  *)
(* single request and single worker; the garbage collector, which deletes  *)
(* the DnsHosts object when the anchor it names as its owner is gone.      *)
(***************************************************************************)
EXTENDS Naturals, Sequences

CONSTANTS
  Sources,      \* the kinds of objects the controller reads
  Empty,        \* Empty[s]: the state without objects of kind s
  DryRuns,      \* the values of the DRY_RUN setting
  MaxEdits,     \* bound: edits of objects and deletions of the anchor
  MaxFaults     \* bound: failed or unanswered API calls and operator crashes

ASSUME AnchoredHostsAssumption ==
  /\ "anchor" \notin Sources
  /\ DOMAIN Empty = Sources
  /\ DryRuns \subseteq BOOLEAN
  /\ MaxEdits \in Nat /\ MaxFaults \in Nat

Kinds == Sources \union {"anchor"}

VARIABLES
  dryRun,              \* Config.DryRun
  log,                 \* log[k]: the states of kind k, the last one is current
  seen,                \* seen[k]: the informer's cache of k is log[k][seen[k]]
  hosts,               \* the DnsHosts object, NoHosts when there is none
  version,             \* what the last write of it was built from (history)
  queued,              \* the one request is in the workqueue
  pc, owner, snap,     \* the worker, its anchor, what it listed of each kind
  edits, faults

workVars == <<pc, owner, snap>>
boundVars == <<edits, faults>>
hostVars == <<hosts, version>>
baseVars == <<dryRun, log, seen, hostVars, queued, workVars, boundVars>>

\* The anchor is its uid, the position of its creation in the log; 0: absent.
\* The owner of the DnsHosts object is the uid of an anchor.
NoHosts == [owner |-> 0, entries |-> {}]

Current(k) == log[k][Len(log[k])]
Cached(k) == log[k][seen[k]]
Incoming(k) == log[k][seen[k] + 1]

InputsAt(v) == [s \in Sources |-> log[s][v[s]]]
Inputs == [s \in Sources |-> Current(s)]
NothingRead == [s \in Sources |-> 1]

\* The operator starts with caches that hold everything; initial[s] is what
\* users created before.
AnchoredInit(initial, triggered) ==
  /\ dryRun \in DryRuns
  /\ log = [k \in Kinds |-> IF k = "anchor" THEN <<0>> ELSE <<Empty[k], initial[k]>>]
  /\ seen = [k \in Kinds |-> Len(log[k])]
  /\ hosts = NoHosts /\ version = NothingRead
  /\ queued = triggered
  /\ pc = "idle" /\ owner = 0 /\ snap = NothingRead
  /\ edits = 0 /\ faults = 0

(***************************************************************************)
(* Users and the garbage collector.                                        *)
(***************************************************************************)
Store(k, state) == log' = [log EXCEPT ![k] = Append(@, state)]

Edit(k, state) ==
  /\ edits < MaxEdits
  /\ edits' = edits + 1
  /\ Store(k, state)
  /\ UNCHANGED <<dryRun, seen, hostVars, queued, workVars, faults>>

DeleteAnchor == Current("anchor") # 0 /\ Edit("anchor", 0)

Orphaned == hosts.owner # 0 /\ hosts.owner # Current("anchor")

CollectGarbage ==
  /\ Orphaned
  /\ hosts' = NoHosts
  /\ UNCHANGED <<dryRun, log, seen, version, queued, workVars, boundVars>>

(***************************************************************************)
(* The informers: the cache takes over the next state, then the handlers   *)
(* enqueue the request if the predicates let the event pass.               *)
(***************************************************************************)
Deliver(k, passes) ==
  /\ seen[k] < Len(log[k])
  /\ seen' = [seen EXCEPT ![k] = @ + 1]
  /\ queued' = (queued \/ passes)
  /\ UNCHANGED <<dryRun, log, hostVars, workVars, boundVars>>

\* Mutant of DeliverAnchor: the controller does not watch its anchor.
DeliverAnchorUnseen == Deliver("anchor", FALSE)

\* Every event of the anchor passes anchorOnly.
DeliverAnchor == Deliver("anchor", TRUE)

(***************************************************************************)
(* The reconcile loop: anchor, reads, write.                               *)
(***************************************************************************)
Return == pc' = "idle" /\ owner' = 0 /\ snap' = NothingRead

StartReconcile ==
  /\ pc = "idle"
  /\ queued
  /\ queued' = FALSE
  /\ pc' = "anchor"
  /\ UNCHANGED <<owner, snap, dryRun, log, seen, hostVars, boundVars>>

\* Reconcile returns an error: the request is queued again, rate limited.
ReturnError == Return /\ queued' = TRUE

Fault ==
  /\ faults < MaxFaults
  /\ faults' = faults + 1
  /\ UNCHANGED edits

\* An API call fails, with or without effect.
CallFails == Fault /\ ReturnError

CreateAnchor == Store("anchor", Len(log["anchor"]) + 1)

UseAnchor(uid) == pc' = "list" /\ owner' = uid /\ UNCHANGED <<snap, queued, boundVars>>

\* Mutant of EnsureAnchor: the anchor is written on every reconcile, and the
\* event about it enqueues the request again.
EnsureAnchorTouches ==
  /\ pc = "anchor"
  /\ \/ /\ Cached("anchor") # 0 /\ owner' = Cached("anchor") /\ queued' = TRUE
        /\ UNCHANGED log
     \/ /\ Cached("anchor") = 0 /\ CreateAnchor /\ owner' = Len(log["anchor"]) + 1
        /\ UNCHANGED queued
  /\ pc' = "list"
  /\ UNCHANGED <<snap, boundVars, dryRun, seen, hostVars>>

\* ensureAnchor: CreateOrUpdate decides on the cached ConfigMap.  An anchor in
\* the cache is left as it is (it never needs an update); one that exists only
\* on the API server makes the creation fail with AlreadyExists.
EnsureAnchor ==
  /\ pc = "anchor"
  /\ \/ /\ dryRun \/ Cached("anchor") # 0
        /\ UseAnchor(Cached("anchor"))
        /\ UNCHANGED log
     \/ /\ ~dryRun /\ Cached("anchor") = 0 /\ Current("anchor") = 0
        /\ CreateAnchor
        /\ UseAnchor(Len(log["anchor"]) + 1) \/ CallFails
     \/ /\ ~dryRun /\ Cached("anchor") = 0 /\ Current("anchor") # 0
        /\ ReturnError
        /\ UNCHANGED <<log, boundVars>>
  /\ UNCHANGED <<dryRun, seen, hostVars>>

\* A typed List reads the cache, an unstructured one the API server.
Read(s, stage, position, next) ==
  /\ pc = stage
  /\ snap' = [snap EXCEPT ![s] = position]
  /\ pc' = next
  /\ UNCHANGED <<owner, dryRun, log, seen, hostVars, queued, boundVars>>

\* Mutants of PutDnsHosts: a dry run writes; hosts are added to what is there.
PutInDryRun(entries) ==
  /\ hosts' = [owner |-> owner, entries |-> entries]
  /\ version' = snap

PutMerges(entries) ==
  IF dryRun
  THEN UNCHANGED hostVars
  ELSE hosts' = [owner |-> owner, entries |-> hosts.entries \union entries] /\ version' = snap

\* ApplyUnstructured sets the spec and makes the anchor the owner.
PutDnsHosts(entries) ==
  IF dryRun
  THEN UNCHANGED hostVars
  ELSE hosts' = [owner |-> owner, entries |-> entries] /\ version' = snap

\* A call that fails without an effect; finding the anchor in the cache, or not
\* looking for it in a dry run, is no call.
CallLost(stages) ==
  /\ pc \in stages
  /\ pc = "anchor" => ~dryRun /\ Cached("anchor") = 0
  /\ CallFails
  /\ UNCHANGED <<dryRun, log, seen, hostVars>>

\* The process starts again: new caches, and one event per object found.
Restart(triggered) ==
  /\ Fault
  /\ Return
  /\ seen' = [k \in Kinds |-> Len(log[k])]
  /\ queued' = (triggered \/ Current("anchor") # 0)
  /\ UNCHANGED <<dryRun, log, hostVars>>

-----------------------------------------------------------------------------
\* Nothing is on its way: no event, no request, no reconcile, no garbage.
Settled ==
  /\ \A k \in Kinds : seen[k] = Len(log[k])
  /\ ~queued /\ pc = "idle" /\ ~Orphaned

AnchoredTypeOK ==
  /\ dryRun \in BOOLEAN
  /\ DOMAIN log = Kinds /\ log["anchor"] \in Seq(Nat)
  /\ seen \in [Kinds -> Nat \ {0}]
  /\ \A k \in Kinds : seen[k] <= Len(log[k])
  /\ hosts.owner \in Nat /\ owner \in Nat
  /\ version \in [Sources -> Nat \ {0}] /\ snap \in [Sources -> Nat \ {0}]
  /\ \A s \in Sources : version[s] <= Len(log[s]) /\ snap[s] <= Len(log[s])
  /\ queued \in BOOLEAN
  /\ edits \in Nat /\ faults \in Nat

=============================================================================
