--------------------------- MODULE LoadBalancerDNS ---------------------------
(***************************************************************************)
(* The load-balancer DNS controller                                        *)
(* (internal/controller/loadbalancerdns_controller.go): it publishes the   *)
(* addresses of all LoadBalancer Services in one DnsHosts object.  The     *)
(* machinery it shares with the ingress controller is in AnchoredHosts.    *)
(***************************************************************************)
EXTENDS AnchoredHosts

CONSTANTS
  Nil,          \* no object
  Services,     \* namespace/name of the Services
  HostName,     \* HostName[s]: the Service's name with the suffix
  Addresses,    \* IP addresses
  ServiceSpecs, \* the Services users and the cloud provider write
  Retyping      \* users turn LoadBalancer Services into others

\* An empty IP string.
NoAddress == 0

\* specIP: spec.loadBalancerIP; statusIP: the IP of the first ingress of the
\* status, if there is one.
Service ==
  [type : {"LoadBalancer", "ClusterIP"},
   specIP : Addresses \union {NoAddress}, statusIP : Addresses \union {NoAddress}]

ServiceMap == [Services -> Service \union {Nil}]

ASSUME LoadBalancerAssumption ==
  /\ Sources = {"services"}
  /\ Empty["services"] = [s \in Services |-> Nil]
  /\ Addresses \subseteq Nat \ {NoAddress}
  /\ Retyping \in BOOLEAN
  /\ ServiceSpecs \subseteq Service
  /\ Nil \notin Service

vars == baseVars

IsLoadBalancer(obj) == obj # Nil /\ obj.type = "LoadBalancer"

\* BuildLoadBalancerBased.  The sorts fix the order of addresses and hostnames,
\* so the spec is the set of its (address, hostname) pairs.
Address(obj) == IF obj.statusIP # NoAddress THEN obj.statusIP ELSE obj.specIP

\* Mutant of BuildLoadBalancerBased: a Service without an address is published.
BuildPendingToo(services) ==
  {<<Address(services[s]), HostName[s]>> :
     s \in {x \in Services : IsLoadBalancer(services[x])}}

BuildLoadBalancerBased(services) ==
  {<<Address(services[s]), HostName[s]>> :
     s \in {x \in Services : IsLoadBalancer(services[x]) /\ Address(services[x]) # NoAddress}}

\* On start, every LoadBalancer Service is an event.
StartTriggers(services) == \E s \in Services : IsLoadBalancer(services[s])

Init ==
  \E services \in [Services -> ServiceSpecs \union {Nil}] :
    AnchoredInit([s \in Sources |-> services], StartTriggers(services))

(***************************************************************************)
(* Users and the cloud provider that assigns addresses.                    *)
(***************************************************************************)
StoreService(s, obj) ==
  LET services == Current("services") IN
    /\ obj # services[s]
    /\ Edit("services", [services EXCEPT ![s] = obj])

PutService(s, obj) ==
  /\ IsLoadBalancer(Current("services")[s]) => Retyping \/ IsLoadBalancer(obj)
  /\ StoreService(s, obj)

DeleteService(s) == StoreService(s, Nil)

(***************************************************************************)
(* SetupWithManager: which events enqueue the request.                     *)
(***************************************************************************)

\* Mutant of LbOnly: deletions are not watched.
LbUpdatesOnly(old, new) == IsLoadBalancer(new)

\* CreateFunc and UpdateFunc look at the new object, DeleteFunc at the last one.
LbOnly(old, new) == IF new # Nil THEN IsLoadBalancer(new) ELSE IsLoadBalancer(old)

DeliverService ==
  LET old == Cached("services")
      new == Incoming("services")
  IN  Deliver("services", \E s \in Services : old[s] # new[s] /\ LbOnly(old[s], new[s]))

(***************************************************************************)
(* reconcileLoadBalancer, after ensureAnchor.                              *)
(***************************************************************************)
ListServices == Read("services", "list", seen["services"], "apply")

ApplyDnsHosts ==
  /\ pc = "apply"
  /\ PutDnsHosts(BuildLoadBalancerBased(log["services"][snap["services"]]))
  /\ \/ Return /\ UNCHANGED <<queued, boundVars>>
     \/ CallFails
  /\ UNCHANGED <<dryRun, log, seen>>

(***************************************************************************)
(* Specification.                                                          *)
(***************************************************************************)
Users ==
  \/ \E s \in Services : DeleteService(s) \/ \E obj \in ServiceSpecs : PutService(s, obj)
  \/ DeleteAnchor

Reconcile ==
  \/ StartReconcile \/ EnsureAnchor \/ ListServices \/ ApplyDnsHosts
  \/ CallLost({"anchor", "list", "apply"})

Next ==
  \/ Users
  \/ CollectGarbage
  \/ DeliverService \/ DeliverAnchor
  \/ Reconcile
  \/ Restart(StartTriggers(Current("services")))

Spec == Init /\ [][Next]_vars

\* Watch streams deliver, the worker runs, the garbage collector gets there.
Fairness ==
  /\ WF_vars(DeliverService) /\ WF_vars(DeliverAnchor)
  /\ WF_vars(CollectGarbage) /\ WF_vars(Reconcile)

FairSpec == Spec /\ Fairness

-----------------------------------------------------------------------------
(***************************************************************************)
(* Properties.                                                             *)
(***************************************************************************)

\* Every variable stays within the values its Go type and the API schema allow.
TypeOK ==
  /\ AnchoredTypeOK
  /\ log["services"] \in Seq(ServiceMap)
  /\ hosts.entries \subseteq Addresses \X {HostName[s] : s \in Services}
  /\ pc \in {"idle", "anchor", "list", "apply"}

\* At rest every LoadBalancer Service that has an address resolves to it, after
\* any edits, failed calls and crashes, and also after the anchor was deleted
\* and the garbage collector took the DnsHosts object with it: the ConfigMap
\* watch of SetupWithManager exists to bring it back.
ServicesResolveAtRest ==
  Settled /\ ~dryRun => BuildLoadBalancerBased(Current("services")) \subseteq hosts.entries

\* At rest nothing else resolves: the address of a Service that is gone, or has
\* another address by now, is not handed out any more.
NothingElseResolvesAtRest ==
  Settled => hosts.entries \subseteq BuildLoadBalancerBased(Current("services"))

\* "skip all API writes" (README.md:27): in a dry run the DnsHosts object and
\* the anchor are never touched.
DryRunWritesNothing == dryRun => hosts = NoHosts /\ Current("anchor") = 0

\* After the last edit, failure and crash the controller comes to rest, its own
\* anchor events and the AlreadyExists retries included.
ComesToRest == <>[]Settled

\* What Publisher may show for an input.
Outputs(in) == {BuildLoadBalancerBased(in["services"])}

P == INSTANCE Publisher WITH
       log <- [s \in Sources |-> log[s]],
       published <- hosts.entries

\* The DnsHosts object always shows one state of the Services, and never an
\* older one than before: no retry of a request that failed after its write,
\* late watch event or restart turns it back.
Implements == P!Spec

=============================================================================
