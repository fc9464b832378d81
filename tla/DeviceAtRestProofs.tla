------------------------- MODULE DeviceAtRestProofs -------------------------
(***************************************************************************)
(* What DeviceController has published, pruned and reported when it comes  *)
(* to rest, for any number of Devices and Networks in one namespace, any   *)
(* specs, edits, failures and crashes.  With a second namespace none of it *)
(* holds: all namespaces write the same objects.                           *)
(***************************************************************************)
EXTENDS DeviceControllerProofs

OneNamespace == \A a, b \in Namespaces : a = b

-----------------------------------------------------------------------------
(***************************************************************************)
(* The watch streams: a cached object is current, or the last event about  *)
(* it that is on its way carries the current version.                      *)
(***************************************************************************)
About(e, ns, x) == e.ns = ns /\ e.name = x

InStep(watch, cached, stored, ns, x) ==
  \/ cached = stored /\ \A i \in DOMAIN watch : ~About(watch[i], ns, x)
  \/ \E i \in DOMAIN watch :
       /\ About(watch[i], ns, x)
       /\ watch[i].obj = stored
       /\ \A j \in DOMAIN watch : j > i => ~About(watch[j], ns, x)

StreamInv ==
  \A ns \in Namespaces :
    /\ \A d \in Devices : InStep(devWatch, devCache[ns][d], dev[ns][d], ns, d)
    /\ \A n \in Networks : InStep(netWatch, netCache[ns][n], net[ns][n], ns, n)

(***************************************************************************)
(* What a reconcile listed is what the caches hold, unless a request for   *)
(* the namespace waits: every event that changes a cache puts one there.   *)
(***************************************************************************)
Queued(ns) == \E r \in queue : r.ns = ns

ListedInv ==
  pc # "idle" /\ ~Queued(req.ns) =>
    /\ pc # "listDevices" => snapDev = devCache[req.ns]
    /\ pc \notin {"listDevices", "listNetworks"} => snapNet = netCache[req.ns]

(***************************************************************************)
(* What is published and pruned during a reconcile, besides ProgressInv.   *)
(***************************************************************************)
OptionsDone == pc \in AfterDhcpHosts => options = DhcpOptionsSpec(req.ns, snapNet)

AfterPrune == {"deviceStatus", "networkStatus"}

PruneDone ==
  /\ pc \in PruneStages \union AfterPrune =>
       \A n \in Networks \ DesiredNames :
         dhcpHosts[n] = {} \/ (pc = "pruneDhcpHosts" /\ n \in todo)
  /\ pc \in {"pruneDnsHosts", "pruneFreeRadius"} \union AfterPrune =>
       \A n \in Networks \ DesiredNames :
         dnsHosts[n] = {} \/ (pc = "pruneDnsHosts" /\ n \in todo)
  /\ pc \in {"pruneFreeRadius"} \union AfterPrune =>
       \A d \in Devices \ WantedFreeRadius :
         freeRadius[d] = Nil \/ (pc = "pruneFreeRadius" /\ d \in todo)

\* Without the setting no FreeRADIUS device is ever written, so none has to go.
FreeRadiusUnused == ~EnableFreeRadiusDevices => \A d \in Devices : freeRadius[d] = Nil

RoundInv ==
  /\ ok /\ ~dryRun => OptionsDone /\ PruneDone
  /\ FreeRadiusUnused
  /\ pc = "networkStatus" => ok

(***************************************************************************)
(* The statuses: one that is not as the snapshot calls for has been        *)
(* written, or its object has changed; either brings an event.             *)
(***************************************************************************)
Pending(ns) ==
  \/ \E i \in DOMAIN devWatch : devWatch[i].ns = ns
  \/ \E i \in DOMAIN netWatch : netWatch[i].ns = ns
  \/ Queued(ns)

DeviceReported(devs, nets, d) == devs[d] = DeviceStatus(devs[d], nets, TRUE)

NetworkReported(nets, n) == nets[n] = NetworkStatus(nets[n])

StatusInv ==
  pc \in AfterPrune /\ ok /\ ~dryRun /\ statusFaults = 0 /\ ~Pending(req.ns) =>
    /\ \A d \in Existing(snapDev) :
         DeviceReported(snapDev, snapNet, d) \/ (pc = "deviceStatus" /\ d \in todo)
    /\ pc = "networkStatus" =>
         \A n \in Existing(snapNet) : NetworkReported(snapNet, n) \/ n \in todo

(***************************************************************************)
(* Between reconciles, what the caches call for is done.                   *)
(***************************************************************************)
PublishedFor(ns, devs, nets) ==
  /\ Existing(devs) # {} \/ Existing(nets) # {} => options = DhcpOptionsSpec(ns, nets)
  /\ \A n \in DhcpHostsNames(ns, devs, nets) : dhcpHosts[n] = DhcpHostsSpec(ns, devs, nets, n)
  /\ \A n \in DnsHostsNames(ns, devs, nets) : dnsHosts[n] = DnsHostsSpec(ns, devs, nets, n)
  /\ \A d \in FreeRadiusNames(devs, nets) :
       freeRadius[d] = FreeRadiusDeviceSpec(ns, devs, nets, d)

PrunedFor(ns, devs, nets) ==
  /\ Existing(devs) = {} /\ Existing(nets) = {} => options \in {Nil, {}}
  /\ \A n \in Networks \ (DhcpHostsNames(ns, devs, nets) \union DnsHostsNames(ns, devs, nets)) :
       n # HostsNetwork => dhcpHosts[n] = {} /\ dnsHosts[n] = {}
  /\ \A d \in Devices \ FreeRadiusNames(devs, nets) : freeRadius[d] = Nil

ReportedFor(devs, nets) ==
  /\ \A d \in Existing(devs) : DeviceReported(devs, nets, d)
  /\ \A n \in Existing(nets) : NetworkReported(nets, n)

IdleInv ==
  pc = "idle" /\ ~dryRun =>
    \A ns \in Namespaces : ~Queued(ns) =>
      LET devs == devCache[ns]
          nets == netCache[ns]
      IN  /\ PublishedFor(ns, devs, nets)
          /\ Existing(devs) # {} \/ Existing(nets) # {} \/ restarts = 0
               => PrunedFor(ns, devs, nets)
          /\ statusFaults = 0 /\ ~Pending(ns) => ReportedFor(devs, nets)

-----------------------------------------------------------------------------
(***************************************************************************)
(* Steps by what they touch.                                               *)
(***************************************************************************)
Reading == {"idle", "listDevices", "listNetworks"}

\* A step of a reconcile that has listed both kinds and goes on.
Continues ==
  /\ pc \notin Reading /\ pc' \notin Reading
  /\ UNCHANGED <<req, snapDev, snapNet, queue>>

LEMMA ReconcileSteps ==
  ASSUME Reconcile
  PROVE  \/ \E r \in queue : StartReconcile(r)
         \/ ListDevices
         \/ ListNetworks
         \/ Continues
         \/ pc # "idle" /\ ReturnError
         \/ pc = "networkStatus" /\ EndLoop /\ ReturnNil
<1> USE DEF Continues, Reading, Goto, Iterate
<1>1. ASSUME CallFails PROVE ReturnError
  BY <1>1 DEF CallFails
<1>2. ASSUME EnsureDnsmasqAnchor \/ EnsureFreeRadiusAnchor
      PROVE  Continues \/ (pc # "idle" /\ ReturnError)
  BY <1>1, <1>2 DEF EnsureDnsmasqAnchor, EnsureFreeRadiusAnchor, EnsureAnchor
<1>3. ASSUME ApplyDhcpOptions \/ DhcpOptionsFail PROVE Continues
  BY <1>3 DEF ApplyDhcpOptions, DhcpOptionsFail
<1>4. ASSUME NEW n \in Networks,
             ApplyDhcpHosts(n) \/ ApplyDnsHosts(n) \/ DeleteDhcpHosts(n) \/ DeleteDnsHosts(n)
      PROVE  Continues \/ (pc # "idle" /\ ReturnError)
  BY <1>1, <1>4 DEF ApplyDhcpHosts, ApplyDnsHosts, DeleteDhcpHosts, DeleteDnsHosts
<1>5. ASSUME NEW d \in Devices, ApplyFreeRadius(d) \/ DeleteFreeRadius(d)
      PROVE  Continues \/ (pc # "idle" /\ ReturnError)
  BY <1>1, <1>5 DEF ApplyFreeRadius, DeleteFreeRadius
<1>6. ASSUME \/ \E d \in Devices : UpdateDeviceStatus(d)
             \/ \E n \in Networks : UpdateNetworkStatus(n)
      PROVE  Continues
  BY <1>6 DEF UpdateDeviceStatus, UpdateNetworkStatus
<1>7. ASSUME EndLoop
      PROVE  \/ Continues
             \/ pc # "idle" /\ ReturnError
             \/ pc = "networkStatus" /\ EndLoop /\ ReturnNil
  BY <1>7 DEF EndLoop, ToFreeRadius, ToPrune, ToStatus
<1>8. ASSUME CallLost PROVE pc # "idle" /\ ReturnError
  BY <1>1, <1>8 DEF CallLost, PruneStages
<1> QED
  BY <1>2, <1>3, <1>4, <1>5, <1>6, <1>7, <1>8 DEF Reconcile

\* A reconcile reads the caches and never changes them; the only inputs it
\* writes are statuses.
LEMMA ReconcileReads ==
  ASSUME Reconcile
  PROVE  /\ UNCHANGED cacheVars
         /\ \/ UNCHANGED inputVars
            \/ \E d \in Devices : UpdateDeviceStatus(d)
            \/ \E n \in Networks : UpdateNetworkStatus(n)
<1>1. CallReturns \/ CallFails => UNCHANGED <<inputVars, cacheVars>>
  BY DEF CallReturns, CallFails
<1> QED
  BY <1>1 DEF Reconcile, StartReconcile, ListDevices, ListNetworks, EnsureDnsmasqAnchor, EnsureFreeRadiusAnchor,
     EnsureAnchor, ApplyDhcpOptions, DhcpOptionsFail, ApplyDhcpHosts, ApplyDnsHosts, ApplyFreeRadius,
     DeleteDhcpHosts, DeleteDnsHosts, DeleteFreeRadius, EndLoop, CallLost, UpdateDeviceStatus, UpdateNetworkStatus

\* A status write stores a status or leaves the inputs alone.
LEMMA StatusStore ==
  ASSUME TypeInv
  PROVE  /\ \A d \in Devices : UpdateDeviceStatus(d) =>
              \/ UNCHANGED inputVars
              \/ /\ \E obj \in DeviceObject \union {Nil} : StoreDevice(req.ns, d, obj)
                 /\ UNCHANGED <<net, netWatch>>
         /\ \A n \in Networks : UpdateNetworkStatus(n) =>
              \/ UNCHANGED inputVars
              \/ /\ \E obj \in NetworkObject \union {Nil} : StoreNetwork(req.ns, n, obj)
                 /\ UNCHANGED <<dev, devWatch>>
<1>1. ASSUME NEW d \in Devices, UpdateDeviceStatus(d)
      PROVE  \/ UNCHANGED inputVars
             \/ /\ \E obj \in DeviceObject \union {Nil} : StoreDevice(req.ns, d, obj)
                /\ UNCHANGED <<net, netWatch>>
  <2> DEFINE new == DeviceStatus(snapDev[d], snapNet, ok)
  <2>1. snapDev[d] \in DeviceObject
    BY <1>1 DEF UpdateDeviceStatus, First, TypeInv, TypeOK, TodoOK, Existing, WorkOK
  <2>2. new \in DeviceObject
    BY <2>1, StatusType
  <2> HIDE DEF new
  <2> QED
    BY <1>1, <2>2 DEF UpdateDeviceStatus, WriteDeviceStatus, StatusWriteLost, new
<1>2. ASSUME NEW n \in Networks, UpdateNetworkStatus(n)
      PROVE  \/ UNCHANGED inputVars
             \/ /\ \E obj \in NetworkObject \union {Nil} : StoreNetwork(req.ns, n, obj)
                /\ UNCHANGED <<dev, devWatch>>
  <2> DEFINE new == NetworkStatus(snapNet[n])
  <2>1. snapNet[n] \in NetworkObject
    BY <1>2 DEF UpdateNetworkStatus, First, TypeInv, TypeOK, TodoOK, Existing, WorkOK
  <2>2. new \in NetworkObject
    BY <2>1, StatusType
  <2> HIDE DEF new
  <2> QED
    BY <1>2, <2>2 DEF UpdateNetworkStatus, WriteNetworkStatus, StatusWriteLost, new
<1> QED
  BY <1>1, <1>2

-----------------------------------------------------------------------------
(***************************************************************************)
(* The watch streams.                                                      *)
(***************************************************************************)
LEMMA InStepAppend ==
  ASSUME NEW E, NEW w \in Seq(E), NEW e \in E, NEW c, NEW o, NEW ns, NEW x
  PROVE  /\ About(e, ns, x) /\ e.obj = o => InStep(Append(w, e), c, o, ns, x)
         /\ ~About(e, ns, x) /\ InStep(w, c, o, ns, x) => InStep(Append(w, e), c, o, ns, x)
<1> DEFINE v == Append(w, e)
<1>1. /\ DOMAIN w = 1 .. Len(w) /\ Len(w) \in Nat /\ DOMAIN v = 1 .. (Len(w) + 1)
      /\ v[Len(w) + 1] = e
      /\ \A i \in DOMAIN w : v[i] = w[i]
  BY AppendProperties, LenProperties
<1> HIDE DEF v
<1>2. ASSUME About(e, ns, x), e.obj = o PROVE InStep(v, c, o, ns, x)
  <2>1. /\ Len(w) + 1 \in DOMAIN v
        /\ \A j \in DOMAIN v : ~(j > Len(w) + 1)
    BY <1>1
  <2> QED
    BY <1>1, <1>2, <2>1 DEF InStep
<1>3. ASSUME ~About(e, ns, x), InStep(w, c, o, ns, x) PROVE InStep(v, c, o, ns, x)
  <2>1. \A j \in DOMAIN v : j \in DOMAIN w \/ j = Len(w) + 1
    BY <1>1
  <2>2. \A j \in DOMAIN w : j \in DOMAIN v
    BY <1>1
  <2>3. \A j \in DOMAIN v : About(v[j], ns, x) => j \in DOMAIN w /\ About(w[j], ns, x)
    BY <1>1, <1>3, <2>1
  <2>4. CASE c = o /\ \A i \in DOMAIN w : ~About(w[i], ns, x)
    BY <2>3, <2>4 DEF InStep
  <2>5. CASE \E i \in DOMAIN w : /\ About(w[i], ns, x)
                                 /\ w[i].obj = o
                                 /\ \A j \in DOMAIN w : j > i => ~About(w[j], ns, x)
    BY <1>1, <2>2, <2>3, <2>5 DEF InStep
  <2> QED
    BY <1>3, <2>4, <2>5 DEF InStep
<1> QED
  BY <1>2, <1>3 DEF v

LEMMA InStepTail ==
  ASSUME NEW E, NEW w \in Seq(E), w # <<>>, NEW c, NEW o, NEW ns, NEW x,
         InStep(w, c, o, ns, x)
  PROVE  InStep(Tail(w), IF About(Head(w), ns, x) THEN Head(w).obj ELSE c, o, ns, x)
<1> DEFINE v == Tail(w)
           k == IF About(Head(w), ns, x) THEN Head(w).obj ELSE c
<1>1. /\ DOMAIN w = 1 .. Len(w) /\ Len(w) \in Nat \ {0} /\ DOMAIN v = 1 .. (Len(w) - 1)
      /\ Head(w) = w[1]
      /\ \A i \in DOMAIN v : v[i] = w[i + 1]
  BY HeadTailProperties, LenProperties, EmptySeq
<1> HIDE DEF v
<1>2. \A j \in DOMAIN v : j + 1 \in DOMAIN w /\ j \in Nat
  BY <1>1
<1>3. CASE \A i \in DOMAIN w : i > 1 => ~About(w[i], ns, x)
  <2>1. \A j \in DOMAIN v : ~About(v[j], ns, x)
    BY <1>1, <1>2, <1>3
  <2>2. k = o
    BY <1>1, <1>3 DEF InStep
  <2> QED
    BY <2>1, <2>2 DEF InStep, v
<1>4. CASE \E i \in DOMAIN w : i > 1 /\ About(w[i], ns, x)
  <2>1. PICK i \in DOMAIN w : /\ About(w[i], ns, x)
                              /\ w[i].obj = o
                              /\ \A j \in DOMAIN w : j > i => ~About(w[j], ns, x)
    BY <1>4 DEF InStep
  <2>2. i > 1
    BY <1>1, <1>4, <2>1
  <2>3. i - 1 \in DOMAIN v /\ v[i - 1] = w[i]
    BY <1>1, <2>1, <2>2
  <2>4. \A j \in DOMAIN v : j > i - 1 => ~About(v[j], ns, x)
    BY <1>1, <1>2, <2>1
  <2> QED
    BY <2>1, <2>3, <2>4 DEF InStep, v
<1> QED
  BY <1>3, <1>4

\* A new version of an object: its event is the last one about it.
LEMMA StoreInStep ==
  ASSUME TypeInv, StreamInv, NEW ns \in Namespaces
  PROVE  /\ \A d \in Devices, obj \in DeviceObject \union {Nil} :
              StoreDevice(ns, d, obj) /\ UNCHANGED <<devCache, netCache, net, netWatch>> => StreamInv'
         /\ \A n \in Networks, obj \in NetworkObject \union {Nil} :
              StoreNetwork(ns, n, obj) /\ UNCHANGED <<devCache, netCache, dev, devWatch>> => StreamInv'
<1> USE DEF TypeInv, TypeOK, InputsOK
<1>1. ASSUME NEW d \in Devices, NEW obj \in DeviceObject \union {Nil},
             StoreDevice(ns, d, obj), UNCHANGED <<devCache, netCache, net, netWatch>>
      PROVE  StreamInv'
  <2> DEFINE e == [ns |-> ns, name |-> d, obj |-> obj]
  <2>1. e \in DeviceEvent /\ e.ns = ns /\ e.name = d /\ e.obj = obj
    BY DEF DeviceEvent
  <2>2. devWatch' = Append(devWatch, e) /\ devWatch \in Seq(DeviceEvent)
    BY <1>1 DEF StoreDevice
  <2>3. ASSUME NEW m \in Namespaces, NEW c \in Devices
        PROVE  InStep(devWatch', devCache[m][c], dev'[m][c], m, c)
    <3> HIDE DEF e
    <3>1. CASE m = ns /\ c = d
      <4>1. dev'[m][c] = obj
        BY <1>1, <3>1 DEF StoreDevice, DeviceMap
      <4>2. About(e, m, c)
        BY <2>1, <3>1 DEF About
      <4> QED
        BY <2>1, <2>2, <4>1, <4>2, InStepAppend
    <3>2. CASE ~(m = ns /\ c = d)
      <4>1. dev'[m][c] = dev[m][c]
        BY <1>1, <3>2 DEF StoreDevice, DeviceMap
      <4>2. ~About(e, m, c)
        BY <2>1, <3>2 DEF About
      <4>3. InStep(devWatch, devCache[m][c], dev[m][c], m, c)
        BY DEF StreamInv
      <4> QED
        BY <2>1, <2>2, <4>1, <4>2, <4>3, InStepAppend
    <3> QED
      BY <3>1, <3>2
  <2> QED
    BY <1>1, <2>3 DEF StreamInv
<1>2. ASSUME NEW n \in Networks, NEW obj \in NetworkObject \union {Nil},
             StoreNetwork(ns, n, obj), UNCHANGED <<devCache, netCache, dev, devWatch>>
      PROVE  StreamInv'
  <2> DEFINE e == [ns |-> ns, name |-> n, obj |-> obj]
  <2>1. e \in NetworkEvent /\ e.ns = ns /\ e.name = n /\ e.obj = obj
    BY DEF NetworkEvent
  <2>2. netWatch' = Append(netWatch, e) /\ netWatch \in Seq(NetworkEvent)
    BY <1>2 DEF StoreNetwork
  <2>3. ASSUME NEW m \in Namespaces, NEW c \in Networks
        PROVE  InStep(netWatch', netCache[m][c], net'[m][c], m, c)
    <3> HIDE DEF e
    <3>1. CASE m = ns /\ c = n
      <4>1. net'[m][c] = obj
        BY <1>2, <3>1 DEF StoreNetwork, NetworkMap
      <4>2. About(e, m, c)
        BY <2>1, <3>1 DEF About
      <4> QED
        BY <2>1, <2>2, <4>1, <4>2, InStepAppend
    <3>2. CASE ~(m = ns /\ c = n)
      <4>1. net'[m][c] = net[m][c]
        BY <1>2, <3>2 DEF StoreNetwork, NetworkMap
      <4>2. ~About(e, m, c)
        BY <2>1, <3>2 DEF About
      <4>3. InStep(netWatch, netCache[m][c], net[m][c], m, c)
        BY DEF StreamInv
      <4> QED
        BY <2>1, <2>2, <4>1, <4>2, <4>3, InStepAppend
    <3> QED
      BY <3>1, <3>2
  <2> QED
    BY <1>2, <2>3 DEF StreamInv
<1> QED
  BY <1>1, <1>2

LEMMA DeliverInStep ==
  ASSUME TypeInv, StreamInv
  PROVE  DeliverDevice \/ DeliverNetwork => StreamInv'
<1> USE DEF TypeInv, TypeOK, InputsOK, CachesOK
<1>1. ASSUME DeliverDevice PROVE StreamInv'
  <2> DEFINE e == Head(devWatch)
  <2>1. devWatch \in Seq(DeviceEvent) /\ devWatch # <<>> /\ devWatch' = Tail(devWatch)
    BY <1>1 DEF DeliverDevice
  <2>2. e.ns \in Namespaces /\ e.name \in Devices
    <3>1. e \in DeviceEvent
      BY <2>1, HeadTailProperties
    <3> QED
      BY <3>1 DEF DeviceEvent
  <2>3. devCache' = [devCache EXCEPT ![e.ns][e.name] = e.obj]
    BY <1>1 DEF DeliverDevice
  <2> HIDE DEF e
  <2>4. ASSUME NEW m \in Namespaces, NEW c \in Devices
        PROVE  InStep(devWatch', devCache'[m][c], dev[m][c], m, c)
    <3>1. devCache'[m][c] = IF About(e, m, c) THEN e.obj ELSE devCache[m][c]
      BY <2>2, <2>3 DEF About, DeviceMap
    <3>2. InStep(devWatch, devCache[m][c], dev[m][c], m, c)
      BY DEF StreamInv
    <3> QED
      BY <2>1, <3>1, <3>2, InStepTail DEF e
  <2> QED
    BY <1>1, <2>4 DEF StreamInv, DeliverDevice
<1>2. ASSUME DeliverNetwork PROVE StreamInv'
  <2> DEFINE e == Head(netWatch)
  <2>1. netWatch \in Seq(NetworkEvent) /\ netWatch # <<>> /\ netWatch' = Tail(netWatch)
    BY <1>2 DEF DeliverNetwork
  <2>2. e.ns \in Namespaces /\ e.name \in Networks
    <3>1. e \in NetworkEvent
      BY <2>1, HeadTailProperties
    <3> QED
      BY <3>1 DEF NetworkEvent
  <2>3. netCache' = [netCache EXCEPT ![e.ns][e.name] = e.obj]
    BY <1>2 DEF DeliverNetwork
  <2> HIDE DEF e
  <2>4. ASSUME NEW m \in Namespaces, NEW c \in Networks
        PROVE  InStep(netWatch', netCache'[m][c], net[m][c], m, c)
    <3>1. netCache'[m][c] = IF About(e, m, c) THEN e.obj ELSE netCache[m][c]
      BY <2>2, <2>3 DEF About, NetworkMap
    <3>2. InStep(netWatch, netCache[m][c], net[m][c], m, c)
      BY DEF StreamInv
    <3> QED
      BY <2>1, <3>1, <3>2, InStepTail DEF e
  <2> QED
    BY <1>2, <2>4 DEF StreamInv, DeliverNetwork
<1> QED
  BY <1>1, <1>2

\* An edit is a new version of one object.
LEMMA UsersStore ==
  ASSUME TypeInv, Users
  PROVE  \E ns \in Namespaces :
           \/ /\ \E d \in Devices, obj \in DeviceObject \union {Nil} : StoreDevice(ns, d, obj)
              /\ UNCHANGED <<net, netWatch>>
           \/ /\ \E n \in Networks, obj \in NetworkObject \union {Nil} : StoreNetwork(ns, n, obj)
              /\ UNCHANGED <<dev, devWatch>>
<1> USE DEF TypeInv, TypeOK
<1>0. edits + 1 \in Nat
  BY DEF BoundsOK
<1>1. ASSUME NEW ns \in Namespaces, NEW d \in Devices, NEW s \in DeviceSpecs, PutDevice(ns, d, s)
      PROVE  (\E obj \in DeviceObject \union {Nil} : StoreDevice(ns, d, obj)) /\ UNCHANGED <<net, netWatch>>
  <2>1. NewDevice(s, edits + 1) \in DeviceObject
    BY <1>0, NewObjectType
  <2>2. dev[ns][d] # Nil => [dev[ns][d] EXCEPT !.spec = s, !.gen = edits + 1] \in DeviceObject
    <3>1. dev[ns][d] \in DeviceObject \union {Nil} /\ s \in DeviceSpec
      BY DeviceControllerAssumption DEF InputsOK, DeviceMap
    <3> QED
      BY <1>0, <3>1, EditedObjectType
  <2> QED
    BY <1>1, <2>1, <2>2, Zenon DEF PutDevice
<1>2. ASSUME NEW ns \in Namespaces, NEW n \in Networks, NEW s \in NetworkSpecs, PutNetwork(ns, n, s)
      PROVE  (\E obj \in NetworkObject \union {Nil} : StoreNetwork(ns, n, obj)) /\ UNCHANGED <<dev, devWatch>>
  <2>1. NewNetwork(s, edits + 1) \in NetworkObject
    BY <1>0, NewObjectType
  <2>2. net[ns][n] # Nil => [net[ns][n] EXCEPT !.spec = s, !.gen = edits + 1] \in NetworkObject
    <3>1. net[ns][n] \in NetworkObject \union {Nil} /\ s \in NetworkSpec
      BY DeviceControllerAssumption DEF InputsOK, NetworkMap
    <3> QED
      BY <1>0, <3>1, EditedObjectType
  <2> QED
    BY <1>2, <2>1, <2>2, Zenon DEF PutNetwork
<1>3. ASSUME NEW ns \in Namespaces, NEW d \in Devices, DeleteDevice(ns, d)
      PROVE  (\E obj \in DeviceObject \union {Nil} : StoreDevice(ns, d, obj)) /\ UNCHANGED <<net, netWatch>>
  BY <1>3, Zenon DEF DeleteDevice
<1>4. ASSUME NEW ns \in Namespaces, NEW n \in Networks, DeleteNetwork(ns, n)
      PROVE  (\E obj \in NetworkObject \union {Nil} : StoreNetwork(ns, n, obj)) /\ UNCHANGED <<dev, devWatch>>
  BY <1>4, Zenon DEF DeleteNetwork
<1> QED
  BY <1>1, <1>2, <1>3, <1>4, Zenon DEF Users

LEMMA UsersFrame ==
  ASSUME Users
  PROVE  UNCHANGED <<cacheVars, queue, workVars, outVars, faults, statusFaults, restarts>>
BY DEF Users, PutDevice, DeleteDevice, PutNetwork, DeleteNetwork, UserEdit

LEMMA StreamStep == TypeInv /\ StreamInv /\ [Next]_vars => StreamInv'
<1> SUFFICES ASSUME TypeInv, StreamInv, [Next]_vars PROVE StreamInv'
  OBVIOUS
<1>0. ASSUME UNCHANGED <<inputVars, devCache, netCache>> PROVE StreamInv'
  BY <1>0 DEF StreamInv, inputVars
<1>1. CASE Users
  <2>1. UNCHANGED <<devCache, netCache>>
    BY <1>1, UsersFrame DEF cacheVars
  <2> QED
    BY <1>1, <2>1, UsersStore, StoreInStep
<1>2. CASE DeliverDevice \/ DeliverNetwork
  BY <1>2, DeliverInStep
<1>3. CASE DeliverAnchor \/ UNCHANGED vars
  BY <1>0, <1>3 DEF DeliverAnchor, vars, cacheVars
<1>4. CASE Reconcile
  <2>1. UNCHANGED <<devCache, netCache>>
    BY <1>4, ReconcileReads DEF cacheVars
  <2>2. CASE UNCHANGED inputVars
    BY <1>0, <2>1, <2>2
  <2>3. ASSUME NEW d \in Devices, UpdateDeviceStatus(d), ~UNCHANGED inputVars PROVE StreamInv'
    <3>1. req.ns \in Namespaces
      BY <2>3, WorkTypes DEF UpdateDeviceStatus
    <3> QED
      BY <2>1, <2>3, <3>1, StatusStore, StoreInStep
  <2>4. ASSUME NEW n \in Networks, UpdateNetworkStatus(n), ~UNCHANGED inputVars PROVE StreamInv'
    <3>1. req.ns \in Namespaces
      BY <2>4, WorkTypes DEF UpdateNetworkStatus
    <3> QED
      BY <2>1, <2>4, <3>1, StatusStore, StoreInStep
  <2> QED
    BY <1>4, <2>2, <2>3, <2>4, ReconcileReads
<1>5. CASE Restart
  BY <1>5 DEF Restart, StreamInv, InStep
<1> QED
  BY <1>1, <1>2, <1>3, <1>4, <1>5 DEF Next

LEMMA InitStream == Init => StreamInv
BY DEF Init, StreamInv, InStep

-----------------------------------------------------------------------------
(***************************************************************************)
(* What was listed.                                                        *)
(***************************************************************************)

\* An event that changes the cache of a namespace queues a request for it.
LEMMA DeliverQueues ==
  ASSUME TypeInv, DeliverDevice \/ DeliverNetwork
  PROVE  /\ queue \subseteq queue'
         /\ \A ns \in Namespaces :
              \/ Queued(ns)'
              \/ devCache'[ns] = devCache[ns] /\ netCache'[ns] = netCache[ns]
<1> USE DEF TypeInv, TypeOK, InputsOK, CachesOK, CanonicalNetworkRequest
<1>1. CASE DeliverDevice
  <2>1. Head(devWatch) \in DeviceEvent
    BY <1>1, HeadTailProperties DEF DeliverDevice
  <2>2. PICK e \in DeviceEvent :
          /\ devCache' = [devCache EXCEPT ![e.ns][e.name] = e.obj]
          /\ netCache' = netCache
          /\ \E x : queue' = queue \union {[ns |-> e.ns, name |-> x]}
    BY <1>1, <2>1 DEF DeliverDevice, MapDeviceToNetwork
  <2>3. e.ns \in Namespaces
    BY DEF DeviceEvent
  <2>4. \A ns \in Namespaces : ns # e.ns => devCache'[ns] = devCache[ns]
    BY <2>2, <2>3 DEF DeviceMap
  <2>5. Queued(e.ns)'
    <3>1. PICK x : queue' = queue \union {[ns |-> e.ns, name |-> x]}
      BY <2>2
    <3> DEFINE r == [ns |-> e.ns, name |-> x]
    <3>2. r.ns = e.ns
      OBVIOUS
    <3>3. r \in queue'
      BY <3>1
    <3> QED
      BY <3>2, <3>3 DEF Queued
  <2> QED
    BY <2>2, <2>4, <2>5
<1>2. CASE DeliverNetwork
  <2>1. Head(netWatch) \in NetworkEvent
    BY <1>2, HeadTailProperties DEF DeliverNetwork
  <2>2. PICK e \in NetworkEvent :
          /\ netCache' = [netCache EXCEPT ![e.ns][e.name] = e.obj]
          /\ devCache' = devCache
          /\ \E x : queue' = queue \union {[ns |-> e.ns, name |-> x]}
    BY <1>2, <2>1 DEF DeliverNetwork, EnqueueCanonicalNetwork
  <2>3. e.ns \in Namespaces
    BY DEF NetworkEvent
  <2>4. \A ns \in Namespaces : ns # e.ns => netCache'[ns] = netCache[ns]
    BY <2>2, <2>3 DEF NetworkMap
  <2>5. Queued(e.ns)'
    <3>1. PICK x : queue' = queue \union {[ns |-> e.ns, name |-> x]}
      BY <2>2
    <3> DEFINE r == [ns |-> e.ns, name |-> x]
    <3>2. r.ns = e.ns
      OBVIOUS
    <3>3. r \in queue'
      BY <3>1
    <3> QED
      BY <3>2, <3>3 DEF Queued
  <2> QED
    BY <2>2, <2>4, <2>5
<1> QED
  BY <1>1, <1>2

LEMMA ListedStep == TypeInv /\ ListedInv /\ [Next]_vars => ListedInv'
<1> SUFFICES ASSUME TypeInv, ListedInv, [Next]_vars PROVE ListedInv'
  OBVIOUS
<1>1. CASE Users \/ DeliverAnchor \/ UNCHANGED vars
  <2>1. UNCHANGED <<queue, workVars, devCache, netCache>>
    BY <1>1, UsersFrame DEF DeliverAnchor, vars, cacheVars
  <2> QED
    BY <2>1 DEF ListedInv, Queued, workVars
<1>2. CASE DeliverDevice \/ DeliverNetwork
  <2>1. UNCHANGED workVars
    BY <1>2 DEF DeliverDevice, DeliverNetwork
  <2>2. pc # "idle" => req.ns \in Namespaces
    BY WorkTypes
  <2>3. queue \subseteq queue'
    BY <1>2, DeliverQueues
  <2>4. ASSUME pc # "idle", ~Queued(req.ns)'
        PROVE  ~Queued(req.ns) /\ devCache'[req.ns] = devCache[req.ns] /\ netCache'[req.ns] = netCache[req.ns]
    BY <1>2, <2>1, <2>2, <2>3, <2>4, DeliverQueues DEF Queued, workVars
  <2> QED
    BY <2>1, <2>4 DEF ListedInv, workVars
<1>3. CASE Reconcile
  <2>1. UNCHANGED <<devCache, netCache>>
    BY <1>3, ReconcileReads DEF cacheVars
  <2>2. CASE \E r \in queue : StartReconcile(r)
    BY <2>2 DEF StartReconcile, ListedInv
  <2>3. CASE ListDevices \/ ListNetworks
    BY <2>1, <2>3 DEF ListDevices, ListNetworks, ListedInv, Queued
  <2>4. CASE Continues
    BY <2>1, <2>4 DEF Continues, Reading, ListedInv, Queued
  <2>5. CASE ReturnError \/ ReturnNil
    BY <2>5 DEF ReturnError, ReturnNil, Return, ListedInv
  <2> QED
    BY <1>3, <2>2, <2>3, <2>4, <2>5, ReconcileSteps
<1>4. CASE Restart
  BY <1>4 DEF Restart, Return, ListedInv
<1> QED
  BY <1>1, <1>2, <1>3, <1>4 DEF Next

LEMMA InitListed == Init => ListedInv
BY DEF Init, ListedInv

-----------------------------------------------------------------------------
(***************************************************************************)
(* Published options and finished pruning.                                 *)
(***************************************************************************)
LEMMA RoundFrame ==
  ASSUME RoundInv, UNCHANGED <<dryRun, workVars, outVars>>
  PROVE  RoundInv'
BY DEF RoundInv, OptionsDone, PruneDone, FreeRadiusUnused, DesiredNames, WantedDhcpHosts,
   WantedDnsHosts, WantedFreeRadius, workVars, outVars

LEMMA DesiredFrame ==
  ASSUME UNCHANGED <<req, snapDev, snapNet>>
  PROVE  DesiredNames' = DesiredNames /\ WantedFreeRadius' = WantedFreeRadius
BY DEF DesiredNames, WantedDhcpHosts, WantedDnsHosts, WantedFreeRadius

\* Before the options are written there is nothing to show.
LEMMA RoundEarly ==
  ASSUME FreeRadiusUnused', pc' \in {"idle", "listDevices", "listNetworks", "anchor", "options"}
  PROVE  RoundInv'
BY DEF RoundInv, OptionsDone, PruneDone, AfterDhcpHosts, AfterPrune, PruneStages

LEMMA UnusedStep ==
  ASSUME TypeInv, FreeRadiusUnused, [Next]_vars
  PROVE  FreeRadiusUnused'
<1>0. ASSUME UNCHANGED freeRadius PROVE FreeRadiusUnused'
  BY <1>0 DEF FreeRadiusUnused
<1>1. CASE Users \/ DeliverDevice \/ DeliverNetwork \/ DeliverAnchor \/ Restart \/ UNCHANGED vars
  BY <1>0, <1>1, UsersFrame DEF DeliverDevice, DeliverNetwork, DeliverAnchor, Restart, vars, outVars
<1>2. CASE Reconcile
  <2>1. ASSUME NEW d \in Devices, ApplyFreeRadius(d) PROVE EnableFreeRadiusDevices
    BY <2>1 DEF ApplyFreeRadius, TypeInv, TodoOK, WantedFreeRadius, FreeRadiusNames
  <2>2. ASSUME NEW d \in Devices, DeleteFreeRadius(d) PROVE FreeRadiusUnused'
    BY <2>2 DEF DeleteFreeRadius, FreeRadiusUnused, TypeInv, TypeOK, OutputsOK
  <2>3. ASSUME ~\E d \in Devices : ApplyFreeRadius(d) \/ DeleteFreeRadius(d) PROVE UNCHANGED freeRadius
    BY <1>2, <2>3
       DEF Reconcile, StartReconcile, ListDevices, ListNetworks, EnsureDnsmasqAnchor, EnsureFreeRadiusAnchor,
           EnsureAnchor, ApplyDhcpOptions, DhcpOptionsFail, ApplyDhcpHosts, ApplyDnsHosts, DeleteDhcpHosts,
           DeleteDnsHosts, EndLoop, CallLost, UpdateDeviceStatus, UpdateNetworkStatus, PutAnchor,
           PutDhcpOptions, PutDhcpHosts, PutDnsHosts, outVars
  <2> QED
    BY <1>0, <2>1, <2>2, <2>3 DEF FreeRadiusUnused
<1> QED
  BY <1>1, <1>2 DEF Next

LEMMA ApplyRound ==
  ASSUME TypeInv, RoundInv, FreeRadiusUnused'
  PROVE  /\ \A n \in Networks : ApplyDhcpHosts(n) \/ ApplyDnsHosts(n) => RoundInv'
         /\ \A d \in Devices : ApplyFreeRadius(d) => RoundInv'
<1> USE DEF Iterate, Goto
<1>0. ASSUME CallFails PROVE RoundInv'
  BY <1>0, RoundEarly DEF CallFails, ReturnError, Return
<1>1. ASSUME NEW n \in Networks, ApplyDhcpHosts(n) \/ ApplyDnsHosts(n), Iterate(n), UNCHANGED dryRun
      PROVE  RoundInv'
  BY <1>1 DEF ApplyDhcpHosts, ApplyDnsHosts, PutDhcpHosts, PutDnsHosts, RoundInv, OptionsDone, PruneDone,
     AfterDhcpHosts, AfterPrune, PruneStages
<1>2. ASSUME NEW d \in Devices, ApplyFreeRadius(d), Iterate(d), UNCHANGED dryRun PROVE RoundInv'
  BY <1>2 DEF ApplyFreeRadius, PutFreeRadius, RoundInv, OptionsDone, PruneDone,
     AfterDhcpHosts, AfterPrune, PruneStages
<1> QED
  BY <1>0, <1>1, <1>2 DEF ApplyDhcpHosts, ApplyDnsHosts, ApplyFreeRadius, CallReturns, cacheVars

LEMMA DeleteRound ==
  ASSUME TypeInv, RoundInv, FreeRadiusUnused'
  PROVE  /\ \A n \in Networks : DeleteDhcpHosts(n) \/ DeleteDnsHosts(n) => RoundInv'
         /\ \A d \in Devices : DeleteFreeRadius(d) => RoundInv'
<1> USE DEF Iterate, Goto
<1>0. ASSUME CallFails PROVE RoundInv'
  BY <1>0, RoundEarly DEF CallFails, ReturnError, Return
<1>1. ASSUME NEW n \in Networks, DeleteDhcpHosts(n), Iterate(n), UNCHANGED dryRun PROVE RoundInv'
  BY <1>1, DesiredFrame
     DEF DeleteDhcpHosts, TypeInv, TypeOK, OutputsOK, RoundInv, OptionsDone, PruneDone,
         AfterDhcpHosts, AfterPrune, PruneStages
<1>2. ASSUME NEW n \in Networks, DeleteDnsHosts(n), Iterate(n), UNCHANGED dryRun PROVE RoundInv'
  BY <1>2, DesiredFrame
     DEF DeleteDnsHosts, TypeInv, TypeOK, OutputsOK, RoundInv, OptionsDone, PruneDone,
         AfterDhcpHosts, AfterPrune, PruneStages
<1>3. ASSUME NEW d \in Devices, DeleteFreeRadius(d), Iterate(d), UNCHANGED dryRun PROVE RoundInv'
  BY <1>3, DesiredFrame
     DEF DeleteFreeRadius, TypeInv, TypeOK, OutputsOK, RoundInv, OptionsDone, PruneDone,
         AfterDhcpHosts, AfterPrune, PruneStages
<1> QED
  BY <1>0, <1>1, <1>2, <1>3 DEF DeleteDhcpHosts, DeleteDnsHosts, DeleteFreeRadius, CallReturns, cacheVars

LEMMA EndLoopRound ==
  ASSUME TypeInv, RoundInv, FreeRadiusUnused', EndLoop
  PROVE  RoundInv'
<1> USE DEF Goto
<1>1. CASE pc \in {"deviceStatus", "networkStatus"}
  BY <1>1, DesiredFrame, RoundEarly
     DEF EndLoop, CallReturns, cacheVars, ReturnError, ReturnNil, Return, outVars, RoundInv, OptionsDone,
         PruneDone, AfterDhcpHosts, AfterPrune, PruneStages
<1>2. CASE pc \notin {"deviceStatus", "networkStatus"}
  <2>1. UNCHANGED <<req, snapDev, snapNet, ok, dryRun, outVars>>
    BY <1>2 DEF EndLoop, CallReturns, cacheVars, ToFreeRadius, ToPrune, ToStatus
  <2>2. ASSUME ok, ~dryRun PROVE OptionsDone'
    BY <1>2, <2>1, <2>2
       DEF EndLoop, ToFreeRadius, ToPrune, ToStatus, RoundInv, OptionsDone, AfterDhcpHosts, PruneStages, outVars
  <2>3. ASSUME ok, ~dryRun PROVE PruneDone'
    <3>1. CASE pc \in {"dhcpHosts", "dnsHosts", "freeRadius"}
      BY <2>1, <2>3, <3>1, DesiredFrame
         DEF EndLoop, ToFreeRadius, ToPrune, PruneDone, PruneList, PruneStages, AfterPrune, outVars
    <3>2. CASE pc \in PruneStages
      BY <2>1, <2>3, <3>2, DesiredFrame
         DEF EndLoop, ToStatus, RoundInv, PruneDone, PruneList, PruneFreeRadiusList, Existing, PruneStages,
             AfterPrune, outVars, FreeRadiusUnused, TypeInv, TypeOK, OutputsOK
    <3> QED
      BY <1>2, <3>1, <3>2 DEF EndLoop, PruneStages
  <2>4. pc' # "networkStatus"
    BY <1>2 DEF EndLoop, ToFreeRadius, ToPrune, ToStatus
  <2> QED
    BY <2>1, <2>2, <2>3, <2>4 DEF RoundInv
<1> QED
  BY <1>1, <1>2

LEMMA RoundStep == TypeInv /\ RoundInv /\ [Next]_vars => RoundInv'
<1> SUFFICES ASSUME TypeInv, RoundInv, [Next]_vars PROVE RoundInv'
  OBVIOUS
<1>0. FreeRadiusUnused'
  BY UnusedStep DEF RoundInv
<1>1. CASE Users \/ DeliverDevice \/ DeliverNetwork \/ DeliverAnchor \/ UNCHANGED vars
  <2>1. UNCHANGED <<dryRun, workVars, outVars>>
    BY <1>1, UsersFrame DEF DeliverDevice, DeliverNetwork, DeliverAnchor, vars, cacheVars
  <2> QED
    BY <2>1, RoundFrame
<1>2. CASE Restart
  BY <1>0, <1>2, RoundEarly DEF Restart, Return
<1>3. CASE Reconcile
  <2>0. ASSUME CallFails PROVE RoundInv'
    BY <1>0, <2>0, RoundEarly DEF CallFails, ReturnError, Return
  <2>1. CASE (\E r \in queue : StartReconcile(r)) \/ ListDevices \/ ListNetworks \/ EnsureDnsmasqAnchor
    BY <1>0, <2>0, <2>1, RoundEarly
       DEF StartReconcile, ListDevices, ListNetworks, EnsureDnsmasqAnchor, EnsureAnchor, Goto, ReturnError, Return
  <2>2. CASE EnsureFreeRadiusAnchor
    <3>1. CASE CallFails \/ ReturnError
      BY <1>0, <2>0, <3>1, RoundEarly DEF ReturnError, Return
    <3>2. CASE Goto("freeRadius", WantedFreeRadius) /\ PutAnchor("freeradius")
      <4>1. UNCHANGED dryRun
        BY <2>2 DEF EnsureFreeRadiusAnchor, EnsureAnchor, CallReturns, CallFails, cacheVars
      <4> QED
        BY <1>0, <2>2, <3>2, <4>1
           DEF EnsureFreeRadiusAnchor, EnsureAnchor, Goto, PutAnchor, RoundInv, OptionsDone, PruneDone,
               AfterDhcpHosts, AfterPrune, PruneStages
    <3> QED
      BY <2>2, <3>1, <3>2 DEF EnsureFreeRadiusAnchor, EnsureAnchor
  <2>3. CASE ApplyDhcpOptions
    BY <1>0, <2>3
       DEF ApplyDhcpOptions, PutDhcpOptions, CallReturns, cacheVars, Goto, RoundInv, OptionsDone, PruneDone,
           AfterDhcpHosts, AfterPrune, PruneStages
  <2>4. CASE DhcpOptionsFail
    BY <1>0, <2>4 DEF DhcpOptionsFail, RoundInv
  <2>5. ASSUME \/ \E d \in Devices : UpdateDeviceStatus(d)
               \/ \E n \in Networks : UpdateNetworkStatus(n)
        PROVE  RoundInv'
    BY <1>0, <2>5, DesiredFrame
       DEF UpdateDeviceStatus, UpdateNetworkStatus, Iterate, Goto, outVars, cacheVars, RoundInv, OptionsDone,
           PruneDone, AfterDhcpHosts, AfterPrune, PruneStages
  <2>6. CASE CallLost
    BY <2>0, <2>6 DEF CallLost
  <2> QED
    BY <1>0, <1>3, <2>1, <2>2, <2>3, <2>4, <2>5, <2>6, ApplyRound, DeleteRound, EndLoopRound DEF Reconcile
<1> QED
  BY <1>1, <1>2, <1>3 DEF Next

LEMMA InitRound == Init => RoundInv
BY DEF Init, RoundInv, OptionsDone, PruneDone, FreeRadiusUnused, AfterDhcpHosts, AfterPrune, PruneStages

-----------------------------------------------------------------------------
(***************************************************************************)
(* Statuses.                                                               *)
(***************************************************************************)

\* Delivery turns an event into a request of the same namespace.
LEMMA DeliveredIsQueued ==
  ASSUME TypeInv, NEW ns,
         \/ DeliverDevice /\ Head(devWatch).ns = ns
         \/ DeliverNetwork /\ Head(netWatch).ns = ns
  PROVE  Queued(ns)'
<1>1. PICK x : queue' = queue \union {[ns |-> ns, name |-> x]}
  BY DEF DeliverDevice, DeliverNetwork, MapDeviceToNetwork, EnqueueCanonicalNetwork, CanonicalNetworkRequest
<1> DEFINE r == [ns |-> ns, name |-> x]
<1>2. r.ns = ns
  OBVIOUS
<1>3. r \in queue'
  BY <1>1
<1> QED
  BY <1>2, <1>3 DEF Queued

LEMMA StorePending ==
  ASSUME TypeInv, NEW ns, NEW m, Pending(ns) \/ m = ns, queue' = queue,
         \/ (\E d, obj : StoreDevice(m, d, obj)) /\ UNCHANGED netWatch
         \/ (\E n, obj : StoreNetwork(m, n, obj)) /\ UNCHANGED devWatch
  PROVE  Pending(ns)'
<1> USE DEF TypeInv, TypeOK, InputsOK
<1>1. ASSUME NEW E, NEW w \in Seq(E), NEW e
      PROVE  LET v == Append(w, e)
             IN  /\ \A i \in DOMAIN w : i \in DOMAIN v /\ v[i] = w[i]
                 /\ Len(w) + 1 \in DOMAIN v /\ v[Len(w) + 1] = e
  BY AppendProperties, LenProperties
<1>2. CASE (\E d, obj : StoreDevice(m, d, obj)) /\ UNCHANGED netWatch
  <2>1. PICK e : devWatch' = Append(devWatch, e) /\ e.ns = m
    <3>1. PICK d, obj : StoreDevice(m, d, obj)
      BY <1>2
    <3> DEFINE e == [ns |-> m, name |-> d, obj |-> obj]
    <3>2. e.ns = m
      OBVIOUS
    <3> QED
      BY <3>1, <3>2 DEF StoreDevice
  <2>2. /\ \A i \in DOMAIN devWatch : i \in DOMAIN devWatch' /\ devWatch'[i] = devWatch[i]
        /\ Len(devWatch) + 1 \in DOMAIN devWatch' /\ devWatch'[Len(devWatch) + 1] = e
    BY <1>1, <2>1
  <2> QED
    BY <1>2, <2>1, <2>2 DEF Pending, Queued
<1>3. CASE (\E n, obj : StoreNetwork(m, n, obj)) /\ UNCHANGED devWatch
  <2>1. PICK e : netWatch' = Append(netWatch, e) /\ e.ns = m
    <3>1. PICK n, obj : StoreNetwork(m, n, obj)
      BY <1>3
    <3> DEFINE e == [ns |-> m, name |-> n, obj |-> obj]
    <3>2. e.ns = m
      OBVIOUS
    <3> QED
      BY <3>1, <3>2 DEF StoreNetwork
  <2>2. /\ \A i \in DOMAIN netWatch : i \in DOMAIN netWatch' /\ netWatch'[i] = netWatch[i]
        /\ Len(netWatch) + 1 \in DOMAIN netWatch' /\ netWatch'[Len(netWatch) + 1] = e
    BY <1>1, <2>1
  <2> QED
    BY <1>3, <2>1, <2>2 DEF Pending, Queued
<1> QED
  BY <1>2, <1>3

LEMMA DeliverPending ==
  ASSUME TypeInv, NEW ns, Pending(ns), DeliverDevice \/ DeliverNetwork
  PROVE  Pending(ns)'
<1> USE DEF TypeInv, TypeOK, InputsOK
<1>1. CASE Queued(ns)
  BY <1>1, DeliverQueues DEF Pending, Queued
<1>2. ASSUME NEW E, NEW w \in Seq(E), w # <<>>, NEW i \in DOMAIN w, w[i].ns = ns
      PROVE  Head(w).ns = ns \/ \E j \in DOMAIN Tail(w) : Tail(w)[j].ns = ns
  <2> DEFINE v == Tail(w)
  <2>1. /\ DOMAIN w = 1 .. Len(w) /\ Len(w) \in Nat \ {0} /\ DOMAIN v = 1 .. (Len(w) - 1)
        /\ Head(w) = w[1]
        /\ \A j \in DOMAIN v : v[j] = w[j + 1]
    BY <1>2, HeadTailProperties, LenProperties, EmptySeq
  <2> HIDE DEF v
  <2>2. CASE i = 1
    BY <1>2, <2>1, <2>2
  <2>3. CASE i # 1
    <3>1. i - 1 \in DOMAIN v /\ v[i - 1] = w[i]
      BY <2>1, <2>3
    <3> QED
      BY <1>2, <3>1 DEF v
  <2> QED
    BY <2>2, <2>3
<1>3. CASE DeliverDevice
  <2>1. devWatch # <<>> /\ devWatch' = Tail(devWatch) /\ netWatch' = netWatch
    BY <1>3 DEF DeliverDevice
  <2>2. CASE \E i \in DOMAIN devWatch : devWatch[i].ns = ns
    BY <1>2, <1>3, <2>1, <2>2, DeliveredIsQueued DEF Pending
  <2>3. CASE \E i \in DOMAIN netWatch : netWatch[i].ns = ns
    BY <2>1, <2>3 DEF Pending
  <2> QED
    BY <1>1, <2>2, <2>3 DEF Pending
<1>4. CASE DeliverNetwork
  <2>1. netWatch # <<>> /\ netWatch' = Tail(netWatch) /\ devWatch' = devWatch
    BY <1>4 DEF DeliverNetwork
  <2>2. CASE \E i \in DOMAIN netWatch : netWatch[i].ns = ns
    BY <1>2, <1>4, <2>1, <2>2, DeliveredIsQueued DEF Pending
  <2>3. CASE \E i \in DOMAIN devWatch : devWatch[i].ns = ns
    BY <2>1, <2>3 DEF Pending
  <2> QED
    BY <1>1, <2>2, <2>3 DEF Pending
<1> QED
  BY <1>3, <1>4

\* What is on its way to the worker stays on its way until it takes it up.
LEMMA PendingStays ==
  ASSUME TypeInv, NEW ns, Pending(ns), [Next]_vars, ~Restart, pc # "idle" \/ pc' = "idle"
  PROVE  Pending(ns)'
<1>0. ASSUME UNCHANGED inputVars, queue \subseteq queue' PROVE Pending(ns)'
  BY <1>0 DEF Pending, Queued, inputVars
<1>1. CASE Users
  <2>1. queue' = queue
    BY <1>1, UsersFrame
  <2>2. PICK m \in Namespaces :
          \/ (\E d, obj : StoreDevice(m, d, obj)) /\ UNCHANGED netWatch
          \/ (\E n, obj : StoreNetwork(m, n, obj)) /\ UNCHANGED devWatch
    BY <1>1, UsersStore
  <2> QED
    BY <2>1, <2>2, StorePending
<1>2. CASE DeliverDevice \/ DeliverNetwork
  BY <1>2, DeliverPending
<1>3. CASE DeliverAnchor \/ UNCHANGED vars
  BY <1>0, <1>3 DEF DeliverAnchor, vars
<1>4. CASE Reconcile
  <2>1. queue \subseteq queue'
    <3>1. ~\E r \in queue : StartReconcile(r)
      BY DEF StartReconcile
    <3> QED
      BY <1>4, <3>1, ReconcileSteps DEF ListDevices, ListNetworks, Continues, ReturnError, ReturnNil
  <2>2. CASE UNCHANGED inputVars
    BY <1>0, <2>1, <2>2
  <2>3. CASE ~UNCHANGED inputVars
    <3>1. PICK m : \/ (\E d, obj : StoreDevice(m, d, obj)) /\ UNCHANGED netWatch
                   \/ (\E n, obj : StoreNetwork(m, n, obj)) /\ UNCHANGED devWatch
      BY <1>4, <2>3, ReconcileReads, StatusStore
    <3>2. queue' = queue
      BY <1>4, <2>3, ReconcileReads DEF UpdateDeviceStatus, UpdateNetworkStatus, Iterate, Goto
    <3> QED
      BY <3>1, <3>2, StorePending
  <2> QED
    BY <2>2, <2>3
<1> QED
  BY <1>1, <1>2, <1>3, <1>4 DEF Next

\* With nothing on its way the caches are the API server's state.
LEMMA CachesCurrent ==
  ASSUME TypeInv, StreamInv, NEW ns \in Namespaces
  PROVE  /\ (\A i \in DOMAIN devWatch : devWatch[i].ns # ns) => devCache[ns] = dev[ns]
         /\ (\A i \in DOMAIN netWatch : netWatch[i].ns # ns) => netCache[ns] = net[ns]
<1>1. /\ devCache[ns] \in DeviceList /\ dev[ns] \in DeviceList
      /\ netCache[ns] \in NetworkList /\ net[ns] \in NetworkList
  BY DEF TypeInv, TypeOK, InputsOK, CachesOK, DeviceMap, NetworkMap, DeviceList, NetworkList
<1>2. ASSUME \A i \in DOMAIN devWatch : devWatch[i].ns # ns
      PROVE  \A d \in Devices : devCache[ns][d] = dev[ns][d]
  BY <1>2 DEF StreamInv, InStep, About
<1>3. ASSUME \A i \in DOMAIN netWatch : netWatch[i].ns # ns
      PROVE  \A n \in Networks : netCache[ns][n] = net[ns][n]
  BY <1>3 DEF StreamInv, InStep, About
<1> QED
  BY <1>1, <1>2, <1>3 DEF DeviceList, NetworkList

\* A status that is not up to date is written, or its object has changed since
\* it was listed; both mean that an event is on its way.
LEMMA DeviceStatusDone ==
  ASSUME TypeInv, StreamInv, ListedInv, ok, ~dryRun, NEW d \in Devices, UpdateDeviceStatus(d),
         statusFaults' = 0, NEW ns, ns = req.ns, ~Pending(ns), ~Pending(ns)'
  PROVE  DeviceReported(snapDev, snapNet, d)
<1> DEFINE new == DeviceStatus(snapDev[d], snapNet, ok)
<1>1. ok = TRUE
  BY DEF TypeInv, TypeOK, WorkOK
<1>2. pc = "deviceStatus" /\ ns \in Namespaces
  BY WorkTypes DEF UpdateDeviceStatus
<1>3. snapDev[d] = dev[ns][d]
  <2>1. snapDev = devCache[ns]
    BY <1>2 DEF ListedInv, Pending
  <2> QED
    BY <1>2, <2>1, CachesCurrent DEF Pending
<1> HIDE DEF new
<1>4. queue' = queue
  BY DEF UpdateDeviceStatus, Iterate, Goto
<1>5. ~(StoreDevice(ns, d, new) /\ UNCHANGED netWatch)
  BY <1>4, StorePending
<1>6. ~StatusWriteLost
  BY DEF StatusWriteLost, TypeInv, TypeOK, BoundsOK
<1>7. new = snapDev[d]
  BY <1>3, <1>5, <1>6 DEF UpdateDeviceStatus, WriteDeviceStatus, new
<1> QED
  BY <1>1, <1>7 DEF new, DeviceReported

LEMMA NetworkStatusDone ==
  ASSUME TypeInv, StreamInv, ListedInv, ~dryRun, NEW n \in Networks, UpdateNetworkStatus(n),
         statusFaults' = 0, NEW ns, ns = req.ns, ~Pending(ns), ~Pending(ns)'
  PROVE  NetworkReported(snapNet, n)
<1> DEFINE new == NetworkStatus(snapNet[n])
<1>1. pc = "networkStatus" /\ ns \in Namespaces
  BY WorkTypes DEF UpdateNetworkStatus
<1>2. snapNet[n] = net[ns][n]
  <2>1. snapNet = netCache[ns]
    BY <1>1 DEF ListedInv, Pending
  <2> QED
    BY <1>1, <2>1, CachesCurrent DEF Pending
<1> HIDE DEF new
<1>3. queue' = queue
  BY DEF UpdateNetworkStatus, Iterate, Goto
<1>4. ~(StoreNetwork(ns, n, new) /\ UNCHANGED devWatch)
  BY <1>3, StorePending
<1>5. ~StatusWriteLost
  BY DEF StatusWriteLost, TypeInv, TypeOK, BoundsOK
<1>6. new = snapNet[n]
  BY <1>2, <1>4, <1>5 DEF UpdateNetworkStatus, WriteNetworkStatus, new
<1> QED
  BY <1>6 DEF new, NetworkReported

\* Only these steps lead to the status loops or stay in them.
LEMMA ToAfterPrune ==
  ASSUME Reconcile, pc' \in AfterPrune, ok'
  PROVE  \/ \E d \in Devices : UpdateDeviceStatus(d)
         \/ \E n \in Networks : UpdateNetworkStatus(n)
         \/ EndLoop
<1> USE DEF AfterPrune, Goto, Iterate
<1>1. ~CallFails /\ ~ReturnError
  BY DEF CallFails, ReturnError, Return
<1> QED
  BY <1>1 DEF Reconcile, StartReconcile, ListDevices, ListNetworks, EnsureDnsmasqAnchor, EnsureFreeRadiusAnchor,
     EnsureAnchor, ApplyDhcpOptions, DhcpOptionsFail, ApplyDhcpHosts, ApplyDnsHosts, ApplyFreeRadius,
     DeleteDhcpHosts, DeleteDnsHosts, DeleteFreeRadius, CallLost

LEMMA StatusFaultsGrow == TypeInv /\ [Next]_vars /\ statusFaults' = 0 => statusFaults = 0
<1> SUFFICES ASSUME TypeInv, [Next]_vars, statusFaults' # statusFaults PROVE statusFaults' # 0
  OBVIOUS
<1>1. ASSUME StatusWriteLost PROVE statusFaults' # 0
  BY <1>1 DEF StatusWriteLost, TypeInv, TypeOK, BoundsOK
<1>2. ~Users /\ ~DeliverDevice /\ ~DeliverNetwork /\ ~DeliverAnchor /\ ~Restart /\ ~UNCHANGED vars
  BY UsersFrame DEF DeliverDevice, DeliverNetwork, DeliverAnchor, Restart, vars, boundVars
<1>3. ~CallReturns /\ ~CallFails
  BY DEF CallReturns, CallFails, boundVars
<1>4. Reconcile
  BY <1>2 DEF Next
<1> QED
  BY <1>1, <1>3, <1>4
     DEF Reconcile, StartReconcile, ListDevices, ListNetworks, EnsureDnsmasqAnchor, EnsureFreeRadiusAnchor,
         EnsureAnchor, ApplyDhcpOptions, DhcpOptionsFail, ApplyDhcpHosts, ApplyDnsHosts, ApplyFreeRadius,
         DeleteDhcpHosts, DeleteDnsHosts, DeleteFreeRadius, EndLoop, CallLost, UpdateDeviceStatus,
         UpdateNetworkStatus, WriteDeviceStatus, WriteNetworkStatus, StoreDevice, StoreNetwork, boundVars

LEMMA StatusStep ==
  TypeInv /\ StreamInv /\ ListedInv /\ StatusInv /\ [Next]_vars => StatusInv'
<1> SUFFICES ASSUME TypeInv, StreamInv, ListedInv, StatusInv, [Next]_vars,
                    pc' \in AfterPrune, ok', ~dryRun', statusFaults' = 0,
                    NEW ns, ns = req'.ns, ~Pending(ns)'
             PROVE  /\ \A d \in Existing(snapDev') :
                         \/ DeviceReported(snapDev', snapNet', d)
                         \/ pc' = "deviceStatus" /\ d \in todo'
                    /\ pc' = "networkStatus" =>
                         \A n \in Existing(snapNet') : NetworkReported(snapNet', n) \/ n \in todo'
  BY DEF StatusInv
<1>1. statusFaults = 0
  BY StatusFaultsGrow
<1>2. ~Restart
  BY DEF Restart, Return, AfterPrune
<1>3. CASE Users \/ DeliverDevice \/ DeliverNetwork \/ DeliverAnchor \/ UNCHANGED vars
  <2>1. UNCHANGED <<dryRun, workVars>>
    BY <1>3, UsersFrame DEF DeliverDevice, DeliverNetwork, DeliverAnchor, vars, cacheVars
  <2>2. ~Pending(ns)
    BY <1>2, <2>1, PendingStays DEF workVars, AfterPrune
  <2> QED
    BY <1>1, <2>1, <2>2 DEF StatusInv, workVars
<1>4. CASE Reconcile
  <2>0. dryRun' = dryRun
    BY <1>4, ReconcileReads DEF cacheVars
  <2>1. \/ \E d \in Devices : UpdateDeviceStatus(d)
        \/ \E n \in Networks : UpdateNetworkStatus(n)
        \/ EndLoop
    BY <1>4, ToAfterPrune
  <2>2. UNCHANGED <<req, snapDev, snapNet, ok>> /\ pc # "idle"
    BY <2>1 DEF UpdateDeviceStatus, UpdateNetworkStatus, EndLoop, ToFreeRadius, ToPrune, ToStatus,
       ReturnError, ReturnNil, Return, Iterate, Goto, AfterPrune
  <2>3. ~Pending(ns)
    BY <1>2, <2>2, PendingStays
  <2>4. ASSUME NEW d \in Devices, UpdateDeviceStatus(d)
        PROVE  \A c \in Existing(snapDev) : DeviceReported(snapDev, snapNet, c) \/ c \in todo'
    <3>1. DeviceReported(snapDev, snapNet, d)
      BY <2>0, <2>2, <2>3, <2>4, DeviceStatusDone
    <3> QED
      BY <1>1, <2>0, <2>2, <2>3, <2>4, <3>1 DEF StatusInv, UpdateDeviceStatus, Iterate, Goto, AfterPrune
  <2>5. ASSUME NEW n \in Networks, UpdateNetworkStatus(n)
        PROVE  /\ \A d \in Existing(snapDev) : DeviceReported(snapDev, snapNet, d)
               /\ \A c \in Existing(snapNet) : NetworkReported(snapNet, c) \/ c \in todo'
    <3>1. NetworkReported(snapNet, n)
      BY <2>0, <2>2, <2>3, <2>5, NetworkStatusDone
    <3> QED
      BY <1>1, <2>0, <2>2, <2>3, <2>5, <3>1 DEF StatusInv, UpdateNetworkStatus, Iterate, Goto, AfterPrune
  <2>6. CASE EndLoop
    <3>1. CASE pc = "deviceStatus"
      <4>1. pc' = "networkStatus" /\ todo' = Existing(snapNet) /\ todo = {}
        BY <2>6, <3>1 DEF EndLoop, ReturnError, Return, Goto, AfterPrune
      <4>2. \A d \in Existing(snapDev) : DeviceReported(snapDev, snapNet, d)
        BY <1>1, <2>0, <2>2, <2>3, <3>1, <4>1 DEF StatusInv, AfterPrune
      <4> QED
        BY <2>2, <4>1, <4>2
    <3>2. CASE pc # "deviceStatus"
      <4>1. pc' = "deviceStatus" /\ todo' = Existing(snapDev)
        BY <2>6, <3>2 DEF EndLoop, ToFreeRadius, ToPrune, ToStatus, ReturnError, ReturnNil, Return, Goto, AfterPrune
      <4> QED
        BY <2>2, <4>1
    <3> QED
      BY <3>1, <3>2
  <2>7. /\ \A d \in Devices : UpdateDeviceStatus(d) => pc' = "deviceStatus"
        /\ \A n \in Networks : UpdateNetworkStatus(n) => pc' = "networkStatus"
    BY DEF UpdateDeviceStatus, UpdateNetworkStatus, Iterate, Goto
  <2> QED
    BY <2>1, <2>2, <2>4, <2>5, <2>6, <2>7
<1> QED
  BY <1>2, <1>3, <1>4 DEF Next

LEMMA InitStatus == Init => StatusInv
BY DEF Init, StatusInv, AfterPrune

-----------------------------------------------------------------------------
(***************************************************************************)
(* Between reconciles.                                                     *)
(***************************************************************************)

\* An empty namespace calls for nothing.
LEMMA NothingWanted ==
  ASSUME NEW ns, NEW devs, NEW nets, Existing(devs) = {}
  PROVE  /\ DhcpHostsNames(ns, devs, nets) = {}
         /\ DnsHostsNames(ns, devs, nets) = {}
         /\ FreeRadiusNames(devs, nets) = {}
BY DEF DhcpHostsNames, DnsHostsNames, FreeRadiusNames, DhcpHostsSpec, DnsHostsSpec, OnNetwork

\* Only an empty namespace is left alone at the start of the process.
LEMMA InitialRequestsCover ==
  ASSUME NEW ns \in Namespaces, \A r \in InitialRequests : r.ns # ns
  PROVE  Existing(dev[ns]) = {} /\ Existing(net[ns]) = {}
<1> SUFFICES ASSUME Inhabited(ns) PROVE FALSE
  BY DEF Inhabited
<1> DEFINE r == CanonicalNetworkRequest(ns, net[ns])
<1>1. r \in InitialRequests
  BY DEF InitialRequests
<1>2. r.ns = ns
  BY DEF CanonicalNetworkRequest
<1> QED
  BY <1>1, <1>2

LEMMA InitIdle == Init => IdleInv
<1> SUFFICES ASSUME Init, NEW ns \in Namespaces, ~Queued(ns)
             PROVE  /\ PublishedFor(ns, devCache[ns], netCache[ns])
                    /\ PrunedFor(ns, devCache[ns], netCache[ns])
                    /\ ReportedFor(devCache[ns], netCache[ns])
  BY DEF IdleInv
<1>1. devCache[ns] = dev[ns] /\ netCache[ns] = net[ns]
  BY DEF Init
<1>2. Existing(dev[ns]) = {} /\ Existing(net[ns]) = {}
  BY InitialRequestsCover DEF Init, Queued
<1> QED
  BY <1>1, <1>2, NothingWanted DEF Init, PublishedFor, PrunedFor, ReportedFor

LEMMA RestartIdle ==
  ASSUME TypeInv, Restart
  PROVE  IdleInv'
<1> SUFFICES ASSUME NEW ns \in Namespaces, ~Queued(ns)'
             PROVE  /\ PublishedFor(ns, devCache[ns], netCache[ns])'
                    /\ ~(Existing(devCache'[ns]) # {} \/ Existing(netCache'[ns]) # {} \/ restarts' = 0)
                    /\ ReportedFor(devCache[ns], netCache[ns])'
  BY DEF IdleInv
<1>1. devCache'[ns] = dev[ns] /\ netCache'[ns] = net[ns]
  BY DEF Restart
<1>2. Existing(dev[ns]) = {} /\ Existing(net[ns]) = {}
  BY InitialRequestsCover DEF Restart, Queued
<1>3. restarts' # 0
  BY DEF Restart, TypeInv, TypeOK, BoundsOK
<1> QED
  BY <1>1, <1>2, <1>3, NothingWanted DEF PublishedFor, ReportedFor

\* A reconcile that comes to its end without an error has done everything its
\* snapshot calls for.
LEMMA RoundDone ==
  ASSUME TypeInv, ProgressInv, RoundInv, ~dryRun, pc = "networkStatus", NEW ns, ns = req.ns
  PROVE  PublishedFor(ns, snapDev, snapNet) /\ PrunedFor(ns, snapDev, snapNet)
<1>1. /\ pc \in AfterDhcpHosts /\ pc \in AfterDnsHosts /\ pc \in AfterFreeRadius /\ pc \in AfterPrune
      /\ ok
  BY DEF AfterDhcpHosts, AfterDnsHosts, AfterFreeRadius, AfterPrune, RoundInv
<1>2. options = DhcpOptionsSpec(ns, snapNet)
  BY <1>1 DEF RoundInv, OptionsDone
<1>3. PublishedFor(ns, snapDev, snapNet)
  BY <1>1, <1>2 DEF ProgressInv, DhcpHostsDone, DnsHostsDone, FreeRadiusDone, PublishedFor,
     WantedDhcpHosts, WantedDnsHosts, WantedFreeRadius
<1>4. Existing(snapNet) = {} => options = {}
  BY <1>2 DEF DhcpOptionsSpec
<1>5. PruneDone
  BY <1>1 DEF RoundInv
<1>6. \A n \in Networks \ DesiredNames : dhcpHosts[n] = {} /\ dnsHosts[n] = {}
  BY <1>1, <1>5 DEF PruneDone
<1>7. \A d \in Devices \ WantedFreeRadius : freeRadius[d] = Nil
  BY <1>1, <1>5 DEF PruneDone
<1>8. PrunedFor(ns, snapDev, snapNet)
  BY <1>4, <1>6, <1>7 DEF PrunedFor, DesiredNames, WantedDhcpHosts, WantedDnsHosts, WantedFreeRadius
<1> QED
  BY <1>3, <1>8

LEMMA IdleStep ==
  ASSUME OneNamespace
  PROVE  TypeInv /\ StreamInv /\ ListedInv /\ ProgressInv /\ RoundInv /\ StatusInv /\ IdleInv /\ [Next]_vars
           => IdleInv'
<1> SUFFICES ASSUME TypeInv, StreamInv, ListedInv, ProgressInv, RoundInv, StatusInv, IdleInv, [Next]_vars
             PROVE  IdleInv'
  OBVIOUS
<1>1. CASE Restart
  BY <1>1, RestartIdle
<1>2. CASE ~Restart
  <2> SUFFICES ASSUME pc' = "idle", ~dryRun', NEW ns \in Namespaces, ~Queued(ns)'
               PROVE  /\ PublishedFor(ns, devCache[ns], netCache[ns])'
                      /\ Existing(devCache'[ns]) # {} \/ Existing(netCache'[ns]) # {} \/ restarts' = 0
                           => PrunedFor(ns, devCache[ns], netCache[ns])'
                      /\ statusFaults' = 0 /\ ~Pending(ns)' => ReportedFor(devCache[ns], netCache[ns])'
    BY DEF IdleInv
  <2> USE DEF OneNamespace
  <2>1. CASE Users \/ DeliverAnchor \/ UNCHANGED vars
    <3>1. UNCHANGED <<dryRun, devCache, netCache, queue, workVars, outVars, statusFaults, restarts>>
      BY <2>1, UsersFrame DEF DeliverAnchor, vars, cacheVars, boundVars
    <3>2. pc = "idle" /\ ~dryRun /\ ~Queued(ns)
      BY <3>1 DEF workVars, Queued
    <3>3. Pending(ns) => Pending(ns)'
      BY <1>2, PendingStays
    <3> QED
      BY <3>1, <3>2, <3>3 DEF IdleInv, PublishedFor, PrunedFor, ReportedFor, outVars
  <2>2. CASE DeliverDevice \/ DeliverNetwork
    <3>1. \/ DeliverDevice /\ Head(devWatch) \in DeviceEvent
          \/ DeliverNetwork /\ Head(netWatch) \in NetworkEvent
      BY <2>2, HeadTailProperties DEF DeliverDevice, DeliverNetwork, TypeInv, TypeOK, InputsOK
    <3>2. \/ DeliverDevice /\ Head(devWatch).ns = ns
          \/ DeliverNetwork /\ Head(netWatch).ns = ns
      BY <3>1 DEF DeviceEvent, NetworkEvent
    <3> QED
      BY <3>2, DeliveredIsQueued
  <2>3. CASE Reconcile
    <3>1. UNCHANGED <<dryRun, devCache, netCache>>
      BY <2>3, ReconcileReads DEF cacheVars
    <3>2. ~ReturnError \/ pc = "idle"
      <4>1. pc # "idle" => req \in Request /\ req.ns \in Namespaces
        BY WorkTypes DEF TypeInv, TypeOK, WorkOK
      <4> QED
        BY <4>1 DEF ReturnError, Queued
    <3>3. pc = "networkStatus" /\ EndLoop /\ ReturnNil
      BY <2>3, <3>2, ReconcileSteps DEF StartReconcile, ListDevices, ListNetworks, Continues, Reading
    <3>4. req.ns = ns
      BY <3>3, WorkTypes
    <3>5. queue' = queue /\ todo = {} /\ UNCHANGED <<outVars, boundVars, inputVars>>
      BY <3>3 DEF EndLoop, ReturnNil, CallReturns
    <3>6. snapDev = devCache[ns] /\ snapNet = netCache[ns]
      BY <3>3, <3>4, <3>5 DEF ListedInv, Queued
    <3>7. PublishedFor(ns, snapDev, snapNet) /\ PrunedFor(ns, snapDev, snapNet)
      BY <3>1, <3>3, <3>4, RoundDone
    <3>8. ASSUME statusFaults' = 0, ~Pending(ns)' PROVE ReportedFor(snapDev, snapNet)
      <4>1. statusFaults = 0 /\ ~Pending(ns)
        BY <3>5, <3>8 DEF boundVars, inputVars, Pending, Queued
      <4>2. ok /\ pc \in AfterPrune
        BY <3>3 DEF RoundInv, AfterPrune
      <4> QED
        BY <3>1, <3>3, <3>4, <3>5, <4>1, <4>2 DEF StatusInv, ReportedFor
    <3> QED
      BY <3>1, <3>5, <3>6, <3>7, <3>8 DEF PublishedFor, PrunedFor, ReportedFor, outVars
  <2> QED
    BY <1>2, <2>1, <2>2, <2>3 DEF Next
<1> QED
  BY <1>1, <1>2

-----------------------------------------------------------------------------
(***************************************************************************)
(* At rest.                                                                *)
(***************************************************************************)
RestInv ==
  /\ TypeInv /\ ProgressInv
  /\ StreamInv /\ ListedInv /\ RoundInv /\ StatusInv /\ IdleInv

LEMMA RestInvariant ==
  ASSUME OneNamespace
  PROVE  Spec => []RestInv
<1>1. Init => RestInv
  BY InitTypeInv, InitProgress, InitStream, InitListed, InitRound, InitStatus, InitIdle DEF RestInv
<1>2. RestInv /\ [Next]_vars => RestInv'
  BY TypeInvStep, ProgressStep, StreamStep, ListedStep, RoundStep, StatusStep, IdleStep DEF RestInv
<1> QED
  BY <1>1, <1>2, PTL DEF Spec

\* A namespace the operator is done with: what the caches call for is what the
\* API server's objects call for.
LEMMA SettledIs ==
  ASSUME OneNamespace, RestInv, ~dryRun, NEW ns \in Namespaces, Settled(ns)
  PROVE  /\ PublishedFor(ns, dev[ns], net[ns])
         /\ Inhabited(ns) \/ restarts = 0 => PrunedFor(ns, dev[ns], net[ns])
         /\ statusFaults = 0 => ReportedFor(dev[ns], net[ns])
<1>1. devCache[ns] = dev[ns] /\ netCache[ns] = net[ns]
  BY CachesCurrent DEF RestInv, Settled
<1>2. ~Queued(ns) /\ ~Pending(ns)
  BY DEF Settled, Queued, Pending
<1>3. pc = "idle"
  BY WorkTypes DEF RestInv, Settled, OneNamespace
<1> QED
  BY <1>1, <1>2, <1>3 DEF RestInv, IdleInv, Inhabited

\* No edit is lost: whenever the operator is done with its namespace, the
\* options, leases, DNS names and FreeRADIUS devices are exactly those its
\* Devices and Networks call for in the version users last wrote, after any
\* edits, stale reads, failed calls and crashes.
THEOREM PublishedWhenAtRest ==
  ASSUME OneNamespace
  PROVE  Spec => []PublishedAtRest
<1>1. RestInv => PublishedAtRest
  BY SettledIs DEF PublishedAtRest, PublishedFor, Inhabited
<1> QED
  BY <1>1, RestInvariant, PTL

\* Whenever the operator is done with its namespace, the objects of networks
\* nothing is on any more and the FreeRADIUS devices of devices that are gone
\* were deleted, as long as no network is called "hosts", the one name
\* pruneManaged always keeps.
THEOREM PrunedWhenAtRest ==
  ASSUME OneNamespace, HostsNetwork \notin Networks
  PROVE  Spec => []PrunedAtRest
<1>1. RestInv => PrunedAtRest
  <2> SUFFICES ASSUME RestInv, ~dryRun, NEW ns \in Namespaces, Settled(ns), Inhabited(ns) \/ restarts = 0
               PROVE  Pruned(ns)
    BY DEF PrunedAtRest
  <2>1. PrunedFor(ns, dev[ns], net[ns])
    BY SettledIs
  <2> QED
    BY <2>1 DEF PrunedFor, Pruned, Inhabited
<1> QED
  BY <1>1, RestInvariant, PTL

\* Whenever the operator is done with its namespace, and no status write failed
\* for another reason than a concurrent change, every Device and Network
\* reports on its current generation and on the networks that exist.
THEOREM StatusWhenAtRest ==
  ASSUME OneNamespace
  PROVE  Spec => []StatusAtRest
<1>1. RestInv => StatusAtRest
  BY SettledIs DEF StatusAtRest, ReportedFor, DeviceReported, NetworkReported
<1> QED
  BY <1>1, RestInvariant, PTL

=============================================================================
