-------------------------- MODULE DeviceController --------------------------
(***************************************************************************)
(* The device controller (internal/controller/device_controller.go): it    *)
(* reads the Devices and Networks of a namespace from informer caches and  *)
(* writes the dnsmasq objects (and the FreeRADIUS devices) built from them *)
(* into one target namespace, prunes the objects nothing calls for any     *)
(* more, and reports in the status of the objects it read.                 *)
(*                                                                         *)
(* Around it, external to the repository and modelled from its use: the    *)
(* API server (optimistic concurrency on status writes), the watch streams *)
(* that feed the caches in order but late, the workqueue with its single   *)
(* worker (SetupWithManager keeps MaxConcurrentReconciles at 1, so the     *)
(* busy path of the gate, see ReconcileGate, is never taken here).         *)
(* Unstructured objects are read from the API server itself; Devices,      *)
(* Networks and the anchor ConfigMaps are read from caches.                *)
(***************************************************************************)
EXTENDS DeviceBased, Sequences

CONSTANTS
  DefaultName,          \* the name "default"
  DryRuns,              \* the values of the DRY_RUN setting
  SeparateFreeRadius,   \* FreeRadiusDevicesNamespace # DnsmasqResourcesNamespace
  DeviceSpecs,          \* the device specs users write
  NetworkSpecs,         \* the network specs users write
  MaxEdits,             \* bound: spec edits after the start
  MaxFaults             \* bound: failed or unanswered API calls and operator crashes

ASSUME DeviceControllerAssumption ==
  /\ DefaultName \in Nat \ {0}
  /\ DryRuns \subseteq BOOLEAN
  /\ SeparateFreeRadius \in BOOLEAN
  /\ DeviceSpecs \subseteq DeviceSpec
  /\ NetworkSpecs \subseteq NetworkSpec
  /\ MaxEdits \in Nat /\ MaxFaults \in Nat

\* gen identifies one version of the spec: it grows with every edit, and also
\* when an object is created again, so equal objects have equal resourceVersions.
\* obs, netCond and ready are the status ("" until the first status write).
DeviceObject ==
  [gen : Nat, spec : DeviceSpec, obs : Nat,
   netCond : {"", "NetworkNotSet", "NetworkMissing", "NetworkFound"},
   ready : {"", "True", "False"}]

NetworkObject ==
  [gen : Nat, spec : NetworkSpec, obs : Nat, ready : {"", "True", "False"}]


Request == [ns : Namespaces, name : Nat]

\* What the API server holds per namespace, and the watch events about it.
DeviceMap == [Namespaces -> [Devices -> DeviceObject \union {Nil}]]
NetworkMap == [Namespaces -> [Networks -> NetworkObject \union {Nil}]]
DeviceEvent == [ns : Namespaces, name : Devices, obj : DeviceObject \union {Nil}]
NetworkEvent == [ns : Namespaces, name : Networks, obj : NetworkObject \union {Nil}]
EntryType == [ns : Namespaces, name : Nat, gen : Nat]
FreeRadiusObject == [device : EntryType, network : EntryType]
Anchors == {"dnsmasq", "freeradius"}

ASSUME NilAssumption ==
  Nil \notin DeviceObject \union NetworkObject \union Request \union FreeRadiusObject

\* Where the worker is in reconcileNamespace.
Stages ==
  {"idle", "listDevices", "listNetworks", "anchor", "options", "dhcpHosts",
   "dnsHosts", "frAnchor", "freeRadius", "pruneDhcpHosts", "pruneDnsHosts",
   "pruneFreeRadius", "deviceStatus", "networkStatus"}

\* The names the loop at a stage goes through.
WorkAt(stage) ==
  CASE stage \in {"dhcpHosts", "dnsHosts", "pruneDhcpHosts", "pruneDnsHosts", "networkStatus"} -> Networks
    [] stage \in {"freeRadius", "pruneFreeRadius", "deviceStatus"} -> Devices
    [] OTHER -> {}

PruneStages == {"pruneDhcpHosts", "pruneDnsHosts", "pruneFreeRadius"}

VARIABLES
  dev, net,             \* API server: Devices and Networks per namespace
  devWatch, netWatch,   \* watch events on their way to the informers
  dryRun,               \* Config.dryRun
  devCache, netCache,   \* informer caches
  queue,                \* workqueue
  pc, req,              \* the worker and the request it reconciles
  snapDev, snapNet,     \* devices.Items and networks.Items
  todo,                 \* what the loop at pc has left to do
  ok,                   \* the ok argument of the status updates
  options,              \* API server: DhcpOptions device-based-hosts, or Nil
  dhcpHosts, dnsHosts,  \* API server: hosts of device-based-n; {} if absent
  freeRadius,           \* API server: FreeRADIUS devices
  anchors, anchorCache, \* anchor ConfigMaps on the API server and in the cache
  edits, faults,        \* bounded
  statusFaults,         \* status writes that failed (history)
  restarts              \* crashes of the operator (history)

inputVars == <<dev, net, devWatch, netWatch>>
cacheVars == <<dryRun, devCache, netCache, anchorCache>>
workVars == <<pc, req, snapDev, snapNet, todo, ok>>
outVars == <<options, dhcpHosts, dnsHosts, freeRadius, anchors>>
boundVars == <<edits, faults, statusFaults, restarts>>
vars == <<inputVars, cacheVars, queue, workVars, outVars, boundVars>>

NoDevices == [d \in Devices |-> Nil]
NoNetworks == [n \in Networks |-> Nil]

NewDevice(spec, g) ==
  [gen |-> g, spec |-> spec, obs |-> 0, netCond |-> "", ready |-> ""]

NewNetwork(spec, g) == [gen |-> g, spec |-> spec, obs |-> 0, ready |-> ""]

(***************************************************************************)
(* Watches.  Every Device and Network event enqueues the request named     *)
(* after the first Network of the namespace in the cache.                  *)
(***************************************************************************)
CanonicalName(nets) ==
  IF Existing(nets) = {}
  THEN DefaultName
  ELSE CHOOSE n \in Existing(nets) : \A m \in Existing(nets) : n <= m

CanonicalNetworkRequest(ns, nets) == [ns |-> ns, name |-> CanonicalName(nets)]

\* A process that starts lists both kinds; each object found is an event.
Inhabited(ns) == Existing(dev[ns]) # {} \/ Existing(net[ns]) # {}

InitialRequests ==
  {CanonicalNetworkRequest(ns, net[ns]) : ns \in {m \in Namespaces : Inhabited(m)}}

Init ==
  /\ dev \in [Namespaces -> [Devices -> {Nil} \union {NewDevice(s, 1) : s \in DeviceSpecs}]]
  /\ net \in [Namespaces -> [Networks -> {Nil} \union {NewNetwork(s, 1) : s \in NetworkSpecs}]]
  /\ devWatch = <<>> /\ netWatch = <<>>
  /\ dryRun \in DryRuns
  /\ devCache = dev /\ netCache = net
  /\ queue = InitialRequests
  /\ pc = "idle" /\ req = Nil
  /\ snapDev = NoDevices /\ snapNet = NoNetworks
  /\ todo = {} /\ ok = TRUE
  /\ options = Nil
  /\ dhcpHosts = [n \in Networks |-> {}]
  /\ dnsHosts = [n \in Networks |-> {}]
  /\ freeRadius = [d \in Devices |-> Nil]
  /\ anchors = {} /\ anchorCache = {}
  /\ edits = 1 /\ faults = 0 /\ statusFaults = 0 /\ restarts = 0

(***************************************************************************)
(* The API server.                                                         *)
(***************************************************************************)
StoreDevice(ns, d, obj) ==
  /\ dev' = [dev EXCEPT ![ns][d] = obj]
  /\ devWatch' = Append(devWatch, [ns |-> ns, name |-> d, obj |-> obj])

StoreNetwork(ns, n, obj) ==
  /\ net' = [net EXCEPT ![ns][n] = obj]
  /\ netWatch' = Append(netWatch, [ns |-> ns, name |-> n, obj |-> obj])

UserEdit ==
  /\ edits <= MaxEdits
  /\ edits' = edits + 1
  /\ UNCHANGED <<cacheVars, queue, workVars, outVars, faults, statusFaults, restarts>>

\* A user creates, changes or deletes a Device or a Network.
PutDevice(ns, d, spec) ==
  /\ UserEdit
  /\ \/ dev[ns][d] = Nil /\ StoreDevice(ns, d, NewDevice(spec, edits + 1))
     \/ /\ dev[ns][d] # Nil
        /\ dev[ns][d].spec # spec
        /\ StoreDevice(ns, d, [dev[ns][d] EXCEPT !.spec = spec, !.gen = edits + 1])
  /\ UNCHANGED <<net, netWatch>>

DeleteDevice(ns, d) ==
  /\ UserEdit
  /\ dev[ns][d] # Nil
  /\ StoreDevice(ns, d, Nil)
  /\ UNCHANGED <<net, netWatch>>

PutNetwork(ns, n, spec) ==
  /\ UserEdit
  /\ \/ net[ns][n] = Nil /\ StoreNetwork(ns, n, NewNetwork(spec, edits + 1))
     \/ /\ net[ns][n] # Nil
        /\ net[ns][n].spec # spec
        /\ StoreNetwork(ns, n, [net[ns][n] EXCEPT !.spec = spec, !.gen = edits + 1])
  /\ UNCHANGED <<dev, devWatch>>

DeleteNetwork(ns, n) ==
  /\ UserEdit
  /\ net[ns][n] # Nil
  /\ StoreNetwork(ns, n, Nil)
  /\ UNCHANGED <<dev, devWatch>>

(***************************************************************************)
(* The informers: a watch event updates the cache, then its handlers run.  *)
(***************************************************************************)
MapDeviceToNetwork(ns) ==
  queue' = queue \union {CanonicalNetworkRequest(ns, netCache[ns])}

\* The For clause adds the same request when the Network is the canonical one.
EnqueueCanonicalNetwork(ns) ==
  queue' = queue \union {CanonicalNetworkRequest(ns, netCache'[ns])}

DeliverDevice ==
  /\ devWatch # <<>>
  /\ LET e == Head(devWatch) IN
       /\ devCache' = [devCache EXCEPT ![e.ns][e.name] = e.obj]
       /\ MapDeviceToNetwork(e.ns)
  /\ devWatch' = Tail(devWatch)
  /\ UNCHANGED <<dev, net, netWatch, dryRun, netCache, anchorCache, workVars, outVars, boundVars>>

DeliverNetwork ==
  /\ netWatch # <<>>
  /\ LET e == Head(netWatch) IN
       /\ netCache' = [netCache EXCEPT ![e.ns][e.name] = e.obj]
       /\ EnqueueCanonicalNetwork(e.ns)
  /\ netWatch' = Tail(netWatch)
  /\ UNCHANGED <<dev, net, devWatch, dryRun, devCache, anchorCache, workVars, outVars, boundVars>>

DeliverAnchor ==
  /\ anchorCache # anchors
  /\ anchorCache' = anchors
  /\ UNCHANGED <<inputVars, dryRun, devCache, netCache, queue, workVars, outVars, boundVars>>

(***************************************************************************)
(* reconcileNamespace: how it moves on and how it ends.                    *)
(***************************************************************************)
Goto(stage, work) ==
  /\ pc' = stage
  /\ todo' = work
  /\ UNCHANGED <<req, snapDev, snapNet, ok, queue>>

\* Reconcile returns; what it listed is dropped.
Return ==
  /\ pc' = "idle" /\ req' = Nil
  /\ snapDev' = NoDevices /\ snapNet' = NoNetworks
  /\ todo' = {} /\ ok' = TRUE

ReturnNil == Return /\ UNCHANGED queue

\* Mutants of ReturnError: the error is swallowed; the request is read after it
\* was cleared.
SwallowError == Return /\ UNCHANGED queue
RequeueCleared == Return /\ queue' = queue \union {req'}

\* An error puts the request back, rate limited.
ReturnError == Return /\ queue' = queue \union {req}

Iterate(x) == Goto(pc, todo \ {x})

\* An API call fails, or takes effect and its answer is lost.
CallFails ==
  /\ faults < MaxFaults
  /\ faults' = faults + 1
  /\ ReturnError
  /\ UNCHANGED <<inputVars, cacheVars, edits, statusFaults, restarts>>

CallReturns == UNCHANGED <<inputVars, cacheVars, boundVars>>

(***************************************************************************)
(* reconcileNamespace: reading.                                            *)
(***************************************************************************)
StartReconcile(r) ==
  /\ pc = "idle"
  /\ r \in queue
  /\ queue' = queue \ {r}
  /\ req' = r
  /\ pc' = "listDevices"
  /\ UNCHANGED <<snapDev, snapNet, todo, ok, inputVars, cacheVars, outVars, boundVars>>

\* Mutant of ListDevices: the API server or the cache is asked.
ListFromEither ==
  /\ pc = "listDevices"
  /\ snapDev' \in {devCache[req.ns], dev[req.ns]}
  /\ pc' = "listNetworks"
  /\ UNCHANGED <<req, snapNet, todo, ok, queue, inputVars, cacheVars, outVars, boundVars>>

ListDevices ==
  /\ pc = "listDevices"
  /\ snapDev' = devCache[req.ns]
  /\ pc' = "listNetworks"
  /\ UNCHANGED <<req, snapNet, todo, ok, queue, inputVars, cacheVars, outVars, boundVars>>

ListNetworks ==
  /\ pc = "listNetworks"
  /\ snapNet' = netCache[req.ns]
  /\ pc' = "anchor"
  /\ UNCHANGED <<req, snapDev, todo, ok, queue, inputVars, cacheVars, outVars, boundVars>>

(***************************************************************************)
(* reconcileNamespace: writing.  The Put operators are the effect of a     *)
(* call on the API server; dryRun stops short of it.                       *)
(***************************************************************************)
WantedDhcpHosts == DhcpHostsNames(req.ns, snapDev, snapNet)
WantedDnsHosts == DnsHostsNames(req.ns, snapDev, snapNet)
WantedFreeRadius == FreeRadiusNames(snapDev, snapNet)

\* Mutant of DesiredNames: every network that exists keeps its objects.
KeepAllNetworks == {HostsNetwork} \union Existing(snapNet)

\* desiredNames: one set of names for both kinds.
DesiredNames == {HostsNetwork} \union WantedDhcpHosts \union WantedDnsHosts

PutAnchor(a) ==
  /\ anchors' = IF dryRun THEN anchors ELSE anchors \union {a}
  /\ UNCHANGED <<options, dhcpHosts, dnsHosts, freeRadius>>

PutDhcpOptions ==
  /\ options' = IF dryRun THEN options ELSE DhcpOptionsSpec(req.ns, snapNet)
  /\ UNCHANGED <<dhcpHosts, dnsHosts, freeRadius, anchors>>

\* Mutant of PutDhcpHosts: an object that exists is not updated.
CreateDhcpHosts(n) ==
  /\ dhcpHosts' = IF dryRun \/ dhcpHosts[n] # {} THEN dhcpHosts
                  ELSE [dhcpHosts EXCEPT ![n] = DhcpHostsSpec(req.ns, snapDev, snapNet, n)]
  /\ UNCHANGED <<options, dnsHosts, freeRadius, anchors>>

PutDhcpHosts(n) ==
  /\ dhcpHosts' = IF dryRun THEN dhcpHosts
                  ELSE [dhcpHosts EXCEPT ![n] = DhcpHostsSpec(req.ns, snapDev, snapNet, n)]
  /\ UNCHANGED <<options, dnsHosts, freeRadius, anchors>>

PutDnsHosts(n) ==
  /\ dnsHosts' = IF dryRun THEN dnsHosts
                 ELSE [dnsHosts EXCEPT ![n] = DnsHostsSpec(req.ns, snapDev, snapNet, n)]
  /\ UNCHANGED <<options, dhcpHosts, freeRadius, anchors>>

PutFreeRadius(d) ==
  /\ freeRadius' = IF dryRun THEN freeRadius
                   ELSE [freeRadius EXCEPT ![d] = FreeRadiusDeviceSpec(req.ns, snapDev, snapNet, d)]
  /\ UNCHANGED <<options, dhcpHosts, dnsHosts, anchors>>

\* CreateOrUpdate decides on the cached ConfigMap: a creation the cache has not
\* seen is tried again and fails with AlreadyExists.
AnchorExists(a) == ~dryRun /\ a \notin anchorCache /\ a \in anchors

EnsureAnchor(stage, a, next, work) ==
  /\ pc = stage
  /\ \/ /\ ~AnchorExists(a)
        /\ PutAnchor(a)
        /\ \/ Goto(next, work) /\ CallReturns
           \/ ~dryRun /\ CallFails
     \/ /\ AnchorExists(a)
        /\ ReturnError
        /\ CallReturns
        /\ UNCHANGED outVars

EnsureDnsmasqAnchor == EnsureAnchor("anchor", "dnsmasq", "options", {})

ApplyDhcpOptions ==
  /\ pc = "options"
  /\ PutDhcpOptions
  /\ Goto("dhcpHosts", WantedDhcpHosts)
  /\ CallReturns

\* The one error that is reported in the device statuses before it is returned.
DhcpOptionsFail ==
  /\ pc = "options"
  /\ PutDhcpOptions \/ UNCHANGED outVars
  /\ faults < MaxFaults
  /\ faults' = faults + 1
  /\ pc' = "deviceStatus"
  /\ todo' = Existing(snapDev)
  /\ ok' = FALSE
  /\ UNCHANGED <<req, snapDev, snapNet, queue, inputVars, cacheVars, edits, statusFaults, restarts>>

ApplyDhcpHosts(n) ==
  /\ pc = "dhcpHosts"
  /\ n \in todo
  /\ PutDhcpHosts(n)
  /\ \/ Iterate(n) /\ CallReturns
     \/ CallFails

ApplyDnsHosts(n) ==
  /\ pc = "dnsHosts"
  /\ n \in todo
  /\ PutDnsHosts(n)
  /\ \/ Iterate(n) /\ CallReturns
     \/ CallFails

EnsureFreeRadiusAnchor ==
  EnsureAnchor("frAnchor", "freeradius", "freeRadius", WantedFreeRadius)

ApplyFreeRadius(d) ==
  /\ pc = "freeRadius"
  /\ d \in todo
  /\ PutFreeRadius(d)
  /\ \/ Iterate(d) /\ CallReturns
     \/ CallFails

(***************************************************************************)
(* pruneManaged: list the managed objects of a kind, delete those whose    *)
(* name is not to be kept.                                                 *)
(***************************************************************************)
PruneList(hosts) == {n \in Networks : hosts[n] # {}} \ DesiredNames

\* Mutant of PruneFreeRadiusList: every device that exists keeps its object.
PruneGoneDevices == Existing(freeRadius) \ Existing(snapDev)

PruneFreeRadiusList == Existing(freeRadius) \ WantedFreeRadius

DeleteDhcpHosts(n) ==
  /\ pc = "pruneDhcpHosts"
  /\ n \in todo
  /\ dhcpHosts' = [dhcpHosts EXCEPT ![n] = {}]
  /\ UNCHANGED <<options, dnsHosts, freeRadius, anchors>>
  /\ \/ Iterate(n) /\ CallReturns
     \/ CallFails

DeleteDnsHosts(n) ==
  /\ pc = "pruneDnsHosts"
  /\ n \in todo
  /\ dnsHosts' = [dnsHosts EXCEPT ![n] = {}]
  /\ UNCHANGED <<options, dhcpHosts, freeRadius, anchors>>
  /\ \/ Iterate(n) /\ CallReturns
     \/ CallFails

DeleteFreeRadius(d) ==
  /\ pc = "pruneFreeRadius"
  /\ d \in todo
  /\ freeRadius' = [freeRadius EXCEPT ![d] = Nil]
  /\ UNCHANGED <<options, dhcpHosts, dnsHosts, anchors>>
  /\ \/ Iterate(d) /\ CallReturns
     \/ CallFails

\* The end of a loop, and the branches on the configuration between them.
ToStatus == Goto("deviceStatus", Existing(snapDev))

ToPrune ==
  IF dryRun THEN ToStatus ELSE Goto("pruneDhcpHosts", PruneList(dhcpHosts))

ToFreeRadius ==
  CASE ~EnableFreeRadiusDevices -> ToPrune
    [] EnableFreeRadiusDevices /\ SeparateFreeRadius -> Goto("frAnchor", {})
    [] OTHER -> Goto("freeRadius", WantedFreeRadius)

EndLoop ==
  /\ todo = {}
  /\ \/ pc = "dhcpHosts" /\ Goto("dnsHosts", WantedDnsHosts)
     \/ pc = "dnsHosts" /\ ToFreeRadius
     \/ pc = "freeRadius" /\ ToPrune
     \/ pc = "pruneDhcpHosts" /\ Goto("pruneDnsHosts", PruneList(dnsHosts))
     \/ /\ pc = "pruneDnsHosts"
        /\ IF EnableFreeRadiusDevices
           THEN Goto("pruneFreeRadius", PruneFreeRadiusList)
           ELSE ToStatus
     \/ pc = "pruneFreeRadius" /\ ToStatus
     \/ pc = "deviceStatus" /\ ok /\ Goto("networkStatus", Existing(snapNet))
     \/ pc = "deviceStatus" /\ ~ok /\ ReturnError
     \/ pc = "networkStatus" /\ ReturnNil
  /\ UNCHANGED outVars
  /\ CallReturns

\* Mutant of CallLost: the loop goes on with the next object.
CallLostIgnored ==
  /\ pc \in {"dhcpHosts", "dnsHosts", "freeRadius"}
  /\ faults < MaxFaults
  /\ faults' = faults + 1
  /\ \E x \in todo : Iterate(x)
  /\ UNCHANGED <<inputVars, cacheVars, outVars, edits, statusFaults, restarts>>

\* A call that fails without an effect on the API server: a List, the Get of
\* PlanUnstructured (also in a dry run), a write or a deletion.
CallLost ==
  /\ \/ pc \in {"listDevices", "listNetworks"} \union PruneStages
     \/ pc \in {"anchor", "frAnchor"} /\ ~dryRun
     \/ pc \in {"dhcpHosts", "dnsHosts", "freeRadius"} /\ todo # {}
  /\ UNCHANGED outVars
  /\ CallFails

(***************************************************************************)
(* updateDeviceStatuses and updateNetworkStatuses.                         *)
(***************************************************************************)
DeviceStatus(obj, nets, success) ==
  LET cond == CASE obj.spec.network = NoNetwork -> "NetworkNotSet"
                [] obj.spec.network \in Existing(nets) -> "NetworkFound"
                [] OTHER -> "NetworkMissing"
  IN  [obj EXCEPT !.obs = obj.gen,
                  !.netCond = cond,
                  !.ready = IF success /\ cond = "NetworkFound" THEN "True" ELSE "False"]

NetworkStatus(obj) == [obj EXCEPT !.obs = obj.gen, !.ready = "True"]

\* Status().Update needs the resourceVersion that was listed; its error, a
\* conflict included, is dropped.
StatusWriteLost ==
  /\ faults < MaxFaults
  /\ faults' = faults + 1
  /\ statusFaults' = statusFaults + 1
  /\ UNCHANGED <<inputVars, edits, restarts>>

First(x) == x \in todo /\ \A y \in todo : x <= y

\* Mutants of WriteDeviceStatus: observedGeneration is not compared; nothing is
\* compared (lastSyncTime always differs); the dry run is not asked for.
WriteConditionsOnly(ns, d, old, new) ==
  IF (new.netCond = old.netCond /\ new.ready = old.ready) \/ dryRun \/ dev[ns][d] # old
  THEN UNCHANGED <<inputVars, boundVars>>
  ELSE StoreDevice(ns, d, new) /\ UNCHANGED <<net, netWatch, boundVars>>

WriteAlways(ns, d, old, new) ==
  IF dryRun \/ dev[ns][d] # old
  THEN UNCHANGED <<inputVars, boundVars>>
  ELSE StoreDevice(ns, d, new) /\ UNCHANGED <<net, netWatch, boundVars>>

WriteInDryRun(ns, d, old, new) ==
  IF new = old \/ dev[ns][d] # old
  THEN UNCHANGED <<inputVars, boundVars>>
  ELSE StoreDevice(ns, d, new) /\ UNCHANGED <<net, netWatch, boundVars>>

WriteDeviceStatus(ns, d, old, new) ==
  IF new = old \/ dryRun \/ dev[ns][d] # old
  THEN UNCHANGED <<inputVars, boundVars>>
  ELSE \/ StoreDevice(ns, d, new) /\ UNCHANGED <<net, netWatch, boundVars>>
       \/ StatusWriteLost

\* Mutant of WriteNetworkStatus: observedGeneration is not compared.
WriteReadyOnly(ns, n, old, new) ==
  IF new.ready = old.ready \/ dryRun \/ net[ns][n] # old
  THEN UNCHANGED <<inputVars, boundVars>>
  ELSE StoreNetwork(ns, n, new) /\ UNCHANGED <<dev, devWatch, boundVars>>

WriteNetworkStatus(ns, n, old, new) ==
  IF new = old \/ dryRun \/ net[ns][n] # old
  THEN UNCHANGED <<inputVars, boundVars>>
  ELSE \/ StoreNetwork(ns, n, new) /\ UNCHANGED <<dev, devWatch, boundVars>>
       \/ StatusWriteLost

UpdateDeviceStatus(d) ==
  /\ pc = "deviceStatus"
  /\ First(d)
  /\ WriteDeviceStatus(req.ns, d, snapDev[d], DeviceStatus(snapDev[d], snapNet, ok))
  /\ Iterate(d)
  /\ UNCHANGED <<cacheVars, outVars>>

UpdateNetworkStatus(n) ==
  /\ pc = "networkStatus"
  /\ First(n)
  /\ WriteNetworkStatus(req.ns, n, snapNet[n], NetworkStatus(snapNet[n]))
  /\ Iterate(n)
  /\ UNCHANGED <<cacheVars, outVars>>

(***************************************************************************)
(* The process dies and starts again, possibly with another DRY_RUN: only  *)
(* the API server remembers.                                               *)
(***************************************************************************)
Restart ==
  /\ faults < MaxFaults
  /\ faults' = faults + 1
  /\ restarts' = restarts + 1
  /\ Return
  /\ dryRun' \in DryRuns
  /\ devWatch' = <<>> /\ netWatch' = <<>>
  /\ devCache' = dev /\ netCache' = net /\ anchorCache' = anchors
  /\ queue' = InitialRequests
  /\ UNCHANGED <<dev, net, outVars, edits, statusFaults>>

(***************************************************************************)
(* Specification.                                                          *)
(***************************************************************************)
Users ==
  \E ns \in Namespaces :
    \/ \E d \in Devices : DeleteDevice(ns, d) \/ \E s \in DeviceSpecs : PutDevice(ns, d, s)
    \/ \E n \in Networks : DeleteNetwork(ns, n) \/ \E s \in NetworkSpecs : PutNetwork(ns, n, s)

Reconcile ==
  \/ \E r \in queue : StartReconcile(r)
  \/ ListDevices \/ ListNetworks
  \/ EnsureDnsmasqAnchor \/ EnsureFreeRadiusAnchor
  \/ ApplyDhcpOptions \/ DhcpOptionsFail
  \/ \E n \in Networks : \/ ApplyDhcpHosts(n) \/ ApplyDnsHosts(n)
                         \/ DeleteDhcpHosts(n) \/ DeleteDnsHosts(n)
                         \/ UpdateNetworkStatus(n)
  \/ \E d \in Devices : ApplyFreeRadius(d) \/ DeleteFreeRadius(d) \/ UpdateDeviceStatus(d)
  \/ EndLoop \/ CallLost

Next ==
  \/ Users
  \/ DeliverDevice \/ DeliverNetwork \/ DeliverAnchor
  \/ Reconcile
  \/ Restart

Spec == Init /\ [][Next]_vars

\* Watch streams deliver, and the worker goroutine runs; users, failures and
\* crashes are free not to happen.
Fairness ==
  /\ WF_vars(DeliverDevice) /\ WF_vars(DeliverNetwork) /\ WF_vars(DeliverAnchor)
  /\ WF_vars(Reconcile)

FairSpec == Spec /\ Fairness

-----------------------------------------------------------------------------
(***************************************************************************)
(* Properties.                                                             *)
(***************************************************************************)

\* The parts of TypeOK: the API server's inputs, the caches, the worker, the
\* published objects, the bounds.
InputsOK ==
  /\ dev \in DeviceMap /\ net \in NetworkMap
  /\ devWatch \in Seq(DeviceEvent) /\ netWatch \in Seq(NetworkEvent)

CachesOK ==
  dryRun \in BOOLEAN /\ devCache \in DeviceMap /\ netCache \in NetworkMap /\ anchorCache \in SUBSET Anchors

WorkOK ==
  /\ queue \in SUBSET Request
  /\ pc \in Stages
  /\ req \in Request \union {Nil}
  /\ pc = "idle" <=> req = Nil
  /\ snapDev \in [Devices -> DeviceObject \union {Nil}]
  /\ snapNet \in [Networks -> NetworkObject \union {Nil}]
  /\ todo \in SUBSET WorkAt(pc)
  /\ ok \in BOOLEAN

OutputsOK ==
  /\ options \in (SUBSET EntryType) \union {Nil}
  /\ dhcpHosts \in [Networks -> SUBSET EntryType]
  /\ dnsHosts \in [Networks -> SUBSET EntryType]
  /\ freeRadius \in [Devices -> FreeRadiusObject \union {Nil}]
  /\ anchors \in SUBSET Anchors

BoundsOK == edits \in Nat /\ faults \in Nat /\ statusFaults \in Nat /\ restarts \in Nat

\* Every variable stays within the values its Go type and the API schema allow,
\* and the worker holds a request exactly while it reconciles.
TypeOK == InputsOK /\ CachesOK /\ WorkOK /\ OutputsOK /\ BoundsOK

\* Nothing about namespace ns is on its way: no watch event, no request, no
\* reconcile.  Without another edit the operator will not look at ns again.
Settled(ns) ==
  /\ \A i \in DOMAIN devWatch : devWatch[i].ns # ns
  /\ \A i \in DOMAIN netWatch : netWatch[i].ns # ns
  /\ \A r \in queue : r.ns # ns
  /\ pc = "idle" \/ req.ns # ns

\* When the operator is done with a namespace, everything its Devices and
\* Networks call for is published, in the version users last wrote: no edit is
\* lost to a stale cache, a failed call, a retry or a crash of the operator
\* (reconcileNamespace always rebuilds all objects from the caches).
PublishedAtRest ==
  ~dryRun => \A ns \in Namespaces : Settled(ns) =>
    /\ Inhabited(ns) => options = DhcpOptionsSpec(ns, net[ns])
    /\ \A n \in Networks :
         /\ n \in DhcpHostsNames(ns, dev[ns], net[ns])
              => dhcpHosts[n] = DhcpHostsSpec(ns, dev[ns], net[ns], n)
         /\ n \in DnsHostsNames(ns, dev[ns], net[ns])
              => dnsHosts[n] = DnsHostsSpec(ns, dev[ns], net[ns], n)
    /\ \A d \in FreeRadiusNames(dev[ns], net[ns]) :
         freeRadius[d] = FreeRadiusDeviceSpec(ns, dev[ns], net[ns], d)

\* Nothing of namespace ns is published that it does not call for any more.
Pruned(ns) ==
  /\ ~Inhabited(ns) => options \in {Nil, {}}
  /\ \A n \in Networks :
       n \notin DhcpHostsNames(ns, dev[ns], net[ns]) \union DnsHostsNames(ns, dev[ns], net[ns])
         => dhcpHosts[n] = {} /\ dnsHosts[n] = {}
  /\ \A d \in Devices \ FreeRadiusNames(dev[ns], net[ns]) : freeRadius[d] = Nil

\* When the operator is done with a namespace, the objects of networks nothing
\* is on any more, and the FreeRADIUS devices of devices that are gone, are
\* gone too: pruneManaged is what turns a removal into a removed DNS name,
\* lease or network login.  A crash may only hide the last removal: a namespace
\* found empty at the start is not looked at.
PrunedAtRest ==
  ~dryRun => \A ns \in Namespaces :
    Settled(ns) /\ (Inhabited(ns) \/ restarts = 0) => Pruned(ns)

\* "keeps [dnsmasq-controller] ... configuration in sync" (README.md:3), also
\* when the last Device and Network went away while the operator was down.
PrunedWhateverHappened ==
  ~dryRun => \A ns \in Namespaces : Settled(ns) => Pruned(ns)

\* Stronger, and not what the code does: a DhcpHosts object no device calls for
\* any more is gone even while the network still has a DnsHosts of that name.
DhcpHostsExact ==
  ~dryRun => \A ns \in Namespaces : Settled(ns) =>
    \A n \in Networks : dhcpHosts[n] = DhcpHostsSpec(ns, dev[ns], net[ns], n)

\* When the operator is done with a namespace, every status reports on the
\* current generation and on the networks that exist: status writes that lost
\* to a concurrent edit (Status().Update drops its conflict error) have been
\* made good by the reconcile that edit triggered.  (A write that failed
\* otherwise is not: its error is dropped, too.)
StatusAtRest ==
  ~dryRun /\ statusFaults = 0 => \A ns \in Namespaces : Settled(ns) =>
    /\ \A d \in Existing(dev[ns]) : dev[ns][d] = DeviceStatus(dev[ns][d], net[ns], TRUE)
    /\ \A n \in Existing(net[ns]) : net[ns][n] = NetworkStatus(net[ns][n])

\* What the device's spec asks for is in the objects of its network.
EntriesPublished(ns, d, obj) ==
  LET n == obj.spec.network
      e == Entry(ns, d, obj)
  IN  /\ n \in Networks
      /\ obj.spec.dhcp => e \in dhcpHosts[n]
      /\ obj.spec.ip => e \in dnsHosts[n]
      /\ EnableFreeRadiusDevices /\ (FreeRadiusDevicesWirelessOnly => obj.spec.wireless)
           => freeRadius[d] # Nil /\ freeRadius[d].device = e

\* A step that turns a Device Ready, or reports it Ready for a new generation,
\* finds the entries of exactly that generation published.
ReadyStep ==
  \A ns \in Namespaces, d \in Devices :
    LET old == dev[ns][d]
        new == dev'[ns][d]
    IN  /\ new # Nil /\ old # Nil
        /\ new.ready = "True"
        /\ <<new.ready, new.obs>> # <<old.ready, old.obs>>
        => new.obs = new.gen /\ EntriesPublished(ns, d, new)

\* Ready is never reported ahead of the writes of a reconcile, nor for a version
\* of the Device other than the one that was published: updateDeviceStatuses
\* comes last, works on what was listed, and loses to any edit since.
ReadyTruthful == [][ReadyStep]_vars

\* "skip all API writes (dnsmasq, FreeRADIUS, status, prune)" (README.md:27): in
\* a dry run only users change what the API server holds.
DryRunStep == dryRun => Users \/ UNCHANGED <<dev, net, outVars>>

\* No sequence of steps of a dry run, failed reads included, reaches a write.
DryRunWritesNothing == [][DryRunStep]_vars

\* The entries published about Devices and about Networks, in whichever object.
DeviceEntries ==
  (UNION {dhcpHosts[n] \union dnsHosts[n] : n \in Networks})
    \union {freeRadius[d].device : d \in Existing(freeRadius)}

NetworkEntries ==
  (IF options = Nil THEN {} ELSE options)
    \union {freeRadius[d].network : d \in Existing(freeRadius)}

\* No entry of S renders an older version than one of T about the same object.
NoneOlder(S, T) ==
  \A e \in S, f \in T : e.ns = f.ns /\ e.name = f.name => f.gen <= e.gen

\* An object that a step writes holds nothing older than what is published.
NoOlderVersion ==
  /\ options' \notin {options, Nil} => NoneOlder(options', NetworkEntries)
  /\ \A n \in Networks :
       /\ dhcpHosts'[n] # dhcpHosts[n] => NoneOlder(dhcpHosts'[n], DeviceEntries)
       /\ dnsHosts'[n] # dnsHosts[n] => NoneOlder(dnsHosts'[n], DeviceEntries)
  /\ \A d \in Devices : freeRadius'[d] \notin {freeRadius[d], Nil} =>
       /\ NoneOlder({freeRadius'[d].device}, DeviceEntries)
       /\ NoneOlder({freeRadius'[d].network}, NetworkEntries)

\* No write goes back: neither a cache that lags behind, nor a retry, nor a
\* crash in the middle of reconcileNamespace lets a version of a Device or
\* Network be published after a newer one, in the same object or in another.
\* (Each reconcile lists anew, and only from the caches, which never go back.)
NeverGoesBack == [][NoOlderVersion]_vars

\* After the last edit and the last failure the operator comes to rest: the
\* status writes it is itself woken by, the retries of failed calls and of
\* anchors the cache has not seen do not keep it going for ever.
ComesToRest == <>[](\A ns \in Namespaces : Settled(ns))

=============================================================================
