----------------------- MODULE DeviceControllerProofs -----------------------
(***************************************************************************)
(* Proofs about DeviceController, for every value of its constants: any    *)
(* number of namespaces, Devices and Networks, any specs, edits, failures  *)
(* and crashes.                                                            *)
(***************************************************************************)
EXTENDS DeviceController, SequenceTheorems, WellFoundedInduction, TLAPS

DeviceList == [Devices -> DeviceObject \union {Nil}]
NetworkList == [Networks -> NetworkObject \union {Nil}]

-----------------------------------------------------------------------------
(***************************************************************************)
(* What BuildDeviceBased and the status functions return.                  *)
(***************************************************************************)

\* A non-empty set of numbers has a least element.
LEMMA NatMinimum ==
  ASSUME NEW S, S \subseteq Nat, S # {}
  PROVE  \E n \in S : \A m \in S : n <= m
<1> DEFINE R == OpToRel(<, Nat)
<1>1. \E x \in S : \A y \in S : ~(<<y, x>> \in R)
  <2> HIDE DEF R
  <2>1. IsWellFoundedOn(R, Nat)
    BY NatLessThanWellFounded DEF R
  <2> QED
    BY <2>1, WFMin
<1>2. \A x, y \in Nat : y < x => <<y, x>> \in R
  BY DEF OpToRel
<1>3. PICK n \in S : \A m \in S : ~(<<m, n>> \in R)
  BY <1>1
<1>4. \A m \in S : ~(m < n)
  <2> HIDE DEF R
  <2> QED
    BY <1>2, <1>3
<1>5. \A m \in S : n <= m
  BY <1>4
<1> QED
  BY <1>5

LEMMA CanonicalNameType ==
  ASSUME NEW nets \in NetworkList
  PROVE  CanonicalName(nets) \in Nat
<1>1. Existing(nets) \subseteq Nat
  BY DeviceBasedAssumption DEF Existing, NetworkList
<1>2. CASE Existing(nets) = {}
  BY <1>2, DeviceControllerAssumption DEF CanonicalName
<1>3. CASE Existing(nets) # {}
  BY <1>1, <1>3, NatMinimum DEF CanonicalName
<1> QED
  BY <1>2, <1>3

LEMMA CanonicalRequestType ==
  ASSUME NEW ns \in Namespaces, NEW nets \in NetworkList
  PROVE  CanonicalNetworkRequest(ns, nets) \in Request
BY CanonicalNameType DEF CanonicalNetworkRequest, Request

LEMMA HostsType ==
  ASSUME NEW ns \in Namespaces, NEW devs \in DeviceList, NEW nets \in NetworkList
  PROVE  /\ DhcpOptionsSpec(ns, nets) \subseteq EntryType
         /\ \A n : DhcpHostsSpec(ns, devs, nets, n) \subseteq EntryType
         /\ \A n : DnsHostsSpec(ns, devs, nets, n) \subseteq EntryType
         /\ DhcpHostsNames(ns, devs, nets) \subseteq Networks
         /\ DnsHostsNames(ns, devs, nets) \subseteq Networks
<1>1. \A d \in Existing(devs) : Entry(ns, d, devs[d]) \in EntryType
  BY DeviceBasedAssumption DEF Existing, Entry, EntryType, DeviceList, DeviceObject
<1>2. \A n \in Existing(nets) : Entry(ns, n, nets[n]) \in EntryType
  BY DeviceBasedAssumption DEF Existing, Entry, EntryType, NetworkList, NetworkObject
<1>3. DhcpOptionsSpec(ns, nets) \subseteq EntryType
  BY <1>2 DEF DhcpOptionsSpec
<1>4. \A n : DhcpHostsSpec(ns, devs, nets, n) \subseteq EntryType
  BY <1>1 DEF DhcpHostsSpec, OnNetwork
<1>5. \A n : DnsHostsSpec(ns, devs, nets, n) \subseteq EntryType
  BY <1>1 DEF DnsHostsSpec, OnNetwork
<1> QED
  BY <1>3, <1>4, <1>5 DEF DhcpHostsNames, DnsHostsNames

LEMMA FreeRadiusType ==
  ASSUME NEW ns \in Namespaces, NEW devs \in DeviceList, NEW nets \in NetworkList,
         NEW d \in FreeRadiusNames(devs, nets)
  PROVE  /\ d \in Devices
         /\ FreeRadiusDeviceSpec(ns, devs, nets, d) \in FreeRadiusObject
<1>1. d \in Devices /\ devs[d] \in DeviceObject
  BY DEF FreeRadiusNames, Existing, DeviceList
<1>2. Entry(ns, d, devs[d]) \in EntryType
  BY <1>1, DeviceBasedAssumption DEF Entry, EntryType, DeviceObject
<1> DEFINE n == devs[d].spec.network
<1>3. n \in Networks /\ nets[n] \in NetworkObject
  BY DEF FreeRadiusNames, Existing, NetworkList
<1>4. Entry(ns, n, nets[n]) \in EntryType
  BY <1>3, DeviceBasedAssumption DEF Entry, EntryType, NetworkObject
<1> QED
  BY <1>1, <1>2, <1>4 DEF FreeRadiusDeviceSpec, FreeRadiusObject

LEMMA StatusType ==
  /\ \A nets, b : \A obj \in DeviceObject : DeviceStatus(obj, nets, b) \in DeviceObject
  /\ \A obj \in NetworkObject : NetworkStatus(obj) \in NetworkObject
BY DEF DeviceStatus, NetworkStatus, DeviceObject, NetworkObject

LEMMA NewObjectType ==
  ASSUME NEW g \in Nat
  PROVE  /\ \A s \in DeviceSpecs : NewDevice(s, g) \in DeviceObject
         /\ \A s \in NetworkSpecs : NewNetwork(s, g) \in NetworkObject
BY DeviceControllerAssumption DEF NewDevice, NewNetwork, DeviceObject, NetworkObject

LEMMA EditedObjectType ==
  ASSUME NEW g \in Nat
  PROVE  /\ \A obj \in DeviceObject, s \in DeviceSpec :
              [obj EXCEPT !.spec = s, !.gen = g] \in DeviceObject
         /\ \A obj \in NetworkObject, s \in NetworkSpec :
              [obj EXCEPT !.spec = s, !.gen = g] \in NetworkObject
BY DEF DeviceObject, NetworkObject

-----------------------------------------------------------------------------
(***************************************************************************)
(* Type correctness.  TypeOK is not inductive: the loops over FreeRADIUS   *)
(* devices and statuses must be known to visit only objects that were      *)
(* listed, or they would read the fields of an object that does not exist. *)
(***************************************************************************)
TodoOK ==
  /\ pc = "freeRadius" => todo \subseteq WantedFreeRadius
  /\ pc = "deviceStatus" => todo \subseteq Existing(snapDev)
  /\ pc = "networkStatus" => todo \subseteq Existing(snapNet)

WorkInv == WorkOK /\ TodoOK

TypeInv == TypeOK /\ TodoOK

LEMMA RequestNotNil == Nil \notin Request
BY NilAssumption

\* Moving on within a reconcile.
LEMMA GotoOK ==
  ASSUME WorkInv, pc # "idle",
         NEW stage \in Stages \ {"idle", "freeRadius", "deviceStatus", "networkStatus"},
         NEW work \in SUBSET WorkAt(stage), Goto(stage, work)
  PROVE  WorkInv'
BY DEF WorkInv, WorkOK, TodoOK, Goto

LEMMA GotoFreeRadiusOK ==
  ASSUME WorkInv, pc # "idle", Goto("freeRadius", WantedFreeRadius)
  PROVE  WorkInv'
<1>1. WantedFreeRadius \subseteq Devices
  BY DEF WorkInv, WorkOK, WantedFreeRadius, FreeRadiusNames, Existing
<1>2. WantedFreeRadius' = WantedFreeRadius
  BY DEF Goto, WantedFreeRadius
<1> QED
  BY <1>1, <1>2 DEF WorkInv, WorkOK, TodoOK, Goto, WorkAt, Stages

LEMMA ToStatusOK ==
  ASSUME WorkInv, pc # "idle", ToStatus
  PROVE  WorkInv'
BY DEF WorkInv, WorkOK, TodoOK, ToStatus, Goto, WorkAt, Stages, Existing

LEMMA IterateOK ==
  ASSUME WorkInv, pc # "idle", NEW x, Iterate(x)
  PROVE  WorkInv'
<1>1. WantedFreeRadius' = WantedFreeRadius
  BY DEF Iterate, Goto, WantedFreeRadius
<1> QED
  BY <1>1 DEF WorkInv, WorkOK, TodoOK, Iterate, Goto

LEMMA ReturnOK ==
  ASSUME WorkInv, pc # "idle", ReturnError \/ ReturnNil
  PROVE  WorkInv'
BY DEF WorkInv, WorkOK, TodoOK, ReturnError, ReturnNil, Return, Stages, WorkAt, NoDevices, NoNetworks

LEMMA CallFailsOK ==
  ASSUME TypeInv, pc # "idle", CallFails
  PROVE  WorkInv' /\ InputsOK' /\ CachesOK' /\ BoundsOK'
<1>1. WorkInv'
  BY ReturnOK DEF TypeInv, TypeOK, WorkInv, CallFails
<1> QED
  BY <1>1 DEF TypeInv, TypeOK, InputsOK, CachesOK, BoundsOK, CallFails, inputVars, cacheVars

LEMMA CallReturnsOK ==
  ASSUME TypeInv, CallReturns
  PROVE  InputsOK' /\ CachesOK' /\ BoundsOK'
BY DEF TypeInv, TypeOK, InputsOK, CachesOK, BoundsOK, CallReturns, inputVars, cacheVars, boundVars

LEMMA OutputsFrame ==
  ASSUME TypeInv, UNCHANGED outVars
  PROVE  OutputsOK'
BY DEF TypeInv, TypeOK, OutputsOK, outVars

\* What a reconcile writes is well typed because what it listed is.
LEMMA WorkTypes ==
  ASSUME TypeInv, pc # "idle"
  PROVE  req.ns \in Namespaces /\ snapDev \in DeviceList /\ snapNet \in NetworkList
BY DEF TypeInv, TypeOK, WorkOK, Request, DeviceList, NetworkList

LEMMA PutOK ==
  ASSUME TypeInv, pc # "idle"
  PROVE  /\ \A a \in Anchors : PutAnchor(a) => OutputsOK'
         /\ PutDhcpOptions => OutputsOK'
         /\ \A n \in Networks : PutDhcpHosts(n) \/ PutDnsHosts(n) => OutputsOK'
         /\ \A d \in WantedFreeRadius : PutFreeRadius(d) => OutputsOK'
<1> USE WorkTypes
<1>1. \A a \in Anchors : PutAnchor(a) => OutputsOK'
  BY DEF TypeInv, TypeOK, OutputsOK, PutAnchor
<1>2. PutDhcpOptions => OutputsOK'
  <2>1. DhcpOptionsSpec(req.ns, snapNet) \in SUBSET EntryType
    BY HostsType
  <2> QED
    BY <2>1 DEF TypeInv, TypeOK, OutputsOK, PutDhcpOptions
<1>3. ASSUME NEW n \in Networks PROVE PutDhcpHosts(n) \/ PutDnsHosts(n) => OutputsOK'
  <2>1. /\ DhcpHostsSpec(req.ns, snapDev, snapNet, n) \in SUBSET EntryType
        /\ DnsHostsSpec(req.ns, snapDev, snapNet, n) \in SUBSET EntryType
    BY HostsType
  <2> QED
    BY <2>1 DEF TypeInv, TypeOK, OutputsOK, PutDhcpHosts, PutDnsHosts
<1>4. ASSUME NEW d \in WantedFreeRadius PROVE PutFreeRadius(d) => OutputsOK'
  <2>1. /\ d \in Devices
        /\ FreeRadiusDeviceSpec(req.ns, snapDev, snapNet, d) \in FreeRadiusObject
    BY FreeRadiusType DEF WantedFreeRadius
  <2> QED
    BY <2>1 DEF TypeInv, TypeOK, OutputsOK, PutFreeRadius
<1> QED
  BY <1>1, <1>2, <1>3, <1>4

\* The watch streams carry well-typed events.
LEMMA StoreOK ==
  ASSUME InputsOK, NEW ns \in Namespaces
  PROVE  /\ \A d \in Devices, obj \in DeviceObject \union {Nil} :
              StoreDevice(ns, d, obj) => dev' \in DeviceMap /\ devWatch' \in Seq(DeviceEvent)
         /\ \A n \in Networks, obj \in NetworkObject \union {Nil} :
              StoreNetwork(ns, n, obj) => net' \in NetworkMap /\ netWatch' \in Seq(NetworkEvent)
<1>1. ASSUME NEW d \in Devices, NEW obj \in DeviceObject \union {Nil}, StoreDevice(ns, d, obj)
      PROVE  dev' \in DeviceMap /\ devWatch' \in Seq(DeviceEvent)
  <2>1. [ns |-> ns, name |-> d, obj |-> obj] \in DeviceEvent
    BY DEF DeviceEvent
  <2>2. devWatch' \in Seq(DeviceEvent)
    BY <1>1, <2>1, AppendProperties DEF InputsOK, StoreDevice
  <2>3. dev' \in DeviceMap
    BY <1>1 DEF InputsOK, StoreDevice, DeviceMap
  <2> QED
    BY <2>2, <2>3
<1>2. ASSUME NEW n \in Networks, NEW obj \in NetworkObject \union {Nil}, StoreNetwork(ns, n, obj)
      PROVE  net' \in NetworkMap /\ netWatch' \in Seq(NetworkEvent)
  <2>1. [ns |-> ns, name |-> n, obj |-> obj] \in NetworkEvent
    BY DEF NetworkEvent
  <2>2. netWatch' \in Seq(NetworkEvent)
    BY <1>2, <2>1, AppendProperties DEF InputsOK, StoreNetwork
  <2>3. net' \in NetworkMap
    BY <1>2 DEF InputsOK, StoreNetwork, NetworkMap
  <2> QED
    BY <2>2, <2>3
<1> QED
  BY <1>1, <1>2

LEMMA WorkFrame ==
  ASSUME WorkInv, UNCHANGED <<queue, workVars>>
  PROVE  WorkInv'
BY DEF WorkInv, WorkOK, TodoOK, WantedFreeRadius, workVars

\* Edits by users.
LEMMA UsersTypeInv == TypeInv /\ Users => TypeInv'
<1> SUFFICES ASSUME TypeInv, Users PROVE TypeInv'
  OBVIOUS
<1>1. UserEdit
  BY DEF Users, PutDevice, DeleteDevice, PutNetwork, DeleteNetwork
<1>2. CachesOK' /\ WorkInv' /\ OutputsOK' /\ BoundsOK'
  <2>1. edits + 1 \in Nat
    BY DEF TypeInv, TypeOK, BoundsOK
  <2>2. WorkInv'
    BY <1>1, WorkFrame DEF UserEdit, TypeInv, TypeOK, WorkInv
  <2>3. OutputsOK'
    BY <1>1, OutputsFrame DEF UserEdit
  <2> QED
    BY <1>1, <2>1, <2>2, <2>3 DEF UserEdit, cacheVars, TypeInv, TypeOK, CachesOK, BoundsOK
<1>3. InputsOK'
  <2> USE DEF TypeInv, TypeOK
  <2>0. edits + 1 \in Nat
    BY DEF BoundsOK
  <2>1. ASSUME NEW ns \in Namespaces, NEW d \in Devices, DeleteDevice(ns, d) PROVE InputsOK'
    BY <2>1, StoreOK DEF DeleteDevice, InputsOK
  <2>2. ASSUME NEW ns \in Namespaces, NEW n \in Networks, DeleteNetwork(ns, n) PROVE InputsOK'
    BY <2>2, StoreOK DEF DeleteNetwork, InputsOK
  <2>3. ASSUME NEW ns \in Namespaces, NEW d \in Devices, NEW s \in DeviceSpecs, PutDevice(ns, d, s)
        PROVE  InputsOK'
    <3>1. NewDevice(s, edits + 1) \in DeviceObject
      BY <2>0, NewObjectType
    <3>2. dev[ns][d] # Nil =>
            [dev[ns][d] EXCEPT !.spec = s, !.gen = edits + 1] \in DeviceObject
      <4>1. dev[ns][d] \in DeviceObject \union {Nil} /\ s \in DeviceSpec
        BY DeviceControllerAssumption DEF InputsOK, DeviceMap
      <4> QED
        BY <2>0, <4>1, EditedObjectType
    <3>3. \E obj \in DeviceObject \union {Nil} : StoreDevice(ns, d, obj)
      BY <2>3, <3>1, <3>2, Zenon DEF PutDevice
    <3> QED
      BY <2>3, <3>3, StoreOK DEF PutDevice, InputsOK
  <2>4. ASSUME NEW ns \in Namespaces, NEW n \in Networks, NEW s \in NetworkSpecs, PutNetwork(ns, n, s)
        PROVE  InputsOK'
    <3>1. NewNetwork(s, edits + 1) \in NetworkObject
      BY <2>0, NewObjectType
    <3>2. net[ns][n] # Nil =>
            [net[ns][n] EXCEPT !.spec = s, !.gen = edits + 1] \in NetworkObject
      <4>1. net[ns][n] \in NetworkObject \union {Nil} /\ s \in NetworkSpec
        BY DeviceControllerAssumption DEF InputsOK, NetworkMap
      <4> QED
        BY <2>0, <4>1, EditedObjectType
    <3>3. \E obj \in NetworkObject \union {Nil} : StoreNetwork(ns, n, obj)
      BY <2>4, <3>1, <3>2, Zenon DEF PutNetwork
    <3> QED
      BY <2>4, <3>3, StoreOK DEF PutNetwork, InputsOK
  <2> QED
    BY <2>1, <2>2, <2>3, <2>4 DEF Users
<1> QED
  BY <1>2, <1>3 DEF TypeInv, TypeOK, WorkInv

\* Watch events.
LEMMA DeliverTypeInv ==
  TypeInv /\ (DeliverDevice \/ DeliverNetwork \/ DeliverAnchor) => TypeInv'
<1> USE DEF TypeInv, TypeOK
<1>1. ASSUME TypeInv, DeliverDevice PROVE TypeInv'
  <2> DEFINE e == Head(devWatch)
  <2>1. e \in DeviceEvent /\ devWatch' \in Seq(DeviceEvent)
    BY <1>1, HeadTailProperties DEF DeliverDevice, InputsOK
  <2>2. devCache' \in DeviceMap
    BY <1>1, <2>1 DEF DeliverDevice, CachesOK, DeviceMap, DeviceEvent
  <2>3. queue' \in SUBSET Request
    <3>1. e.ns \in Namespaces /\ netCache[e.ns] \in NetworkList
      BY <1>1, <2>1 DEF DeviceEvent, CachesOK, NetworkMap, NetworkList
    <3> QED
      BY <1>1, <3>1, CanonicalRequestType DEF DeliverDevice, MapDeviceToNetwork, WorkOK
  <2>4. WorkOK' /\ TodoOK'
    BY <1>1, <2>3 DEF DeliverDevice, workVars, WorkOK, TodoOK, WantedFreeRadius
  <2>5. OutputsOK' /\ BoundsOK'
    BY <1>1 DEF DeliverDevice, outVars, boundVars, OutputsOK, BoundsOK
  <2> QED
    BY <1>1, <2>1, <2>2, <2>4, <2>5 DEF DeliverDevice, InputsOK, CachesOK
<1>2. ASSUME TypeInv, DeliverNetwork PROVE TypeInv'
  <2> DEFINE e == Head(netWatch)
  <2>1. e \in NetworkEvent /\ netWatch' \in Seq(NetworkEvent)
    BY <1>2, HeadTailProperties DEF DeliverNetwork, InputsOK
  <2>2. netCache' \in NetworkMap
    BY <1>2, <2>1 DEF DeliverNetwork, CachesOK, NetworkMap, NetworkEvent
  <2>3. queue' \in SUBSET Request
    <3>1. e.ns \in Namespaces /\ netCache'[e.ns] \in NetworkList
      BY <2>1, <2>2 DEF NetworkEvent, NetworkMap, NetworkList
    <3> QED
      BY <1>2, <3>1, CanonicalRequestType DEF DeliverNetwork, EnqueueCanonicalNetwork, WorkOK
  <2>4. WorkOK' /\ TodoOK'
    BY <1>2, <2>3 DEF DeliverNetwork, workVars, WorkOK, TodoOK, WantedFreeRadius
  <2>5. OutputsOK' /\ BoundsOK'
    BY <1>2 DEF DeliverNetwork, outVars, boundVars, OutputsOK, BoundsOK
  <2> QED
    BY <1>2, <2>1, <2>2, <2>4, <2>5 DEF DeliverNetwork, InputsOK, CachesOK
<1>3. ASSUME TypeInv, DeliverAnchor PROVE TypeInv'
  <2>1. WorkInv'
    BY <1>3, WorkFrame DEF DeliverAnchor, WorkInv
  <2>2. OutputsOK'
    BY <1>3, OutputsFrame DEF DeliverAnchor
  <2> QED
    BY <1>3, <2>1, <2>2 DEF DeliverAnchor, inputVars, boundVars, InputsOK, CachesOK, BoundsOK,
       OutputsOK, WorkInv
<1> QED
  BY <1>1, <1>2, <1>3

\* Reading: a reconcile takes up a request and copies the caches.
LEMMA ReadTypeInv ==
  /\ TypeInv /\ (\E r \in queue : StartReconcile(r)) => TypeInv'
  /\ TypeInv /\ (ListDevices \/ ListNetworks) => TypeInv'
<1> USE DEF TypeInv, TypeOK
<1>1. ASSUME TypeInv, NEW r \in queue, StartReconcile(r) PROVE TypeInv'
  <2>1. r \in Request
    BY <1>1 DEF WorkOK
  <2>2. WorkOK' /\ TodoOK'
    BY <1>1, <2>1, RequestNotNil DEF StartReconcile, WorkOK, TodoOK, Stages, WorkAt
  <2> QED
    BY <1>1, <2>2 DEF StartReconcile, inputVars, cacheVars, outVars, boundVars,
       InputsOK, CachesOK, OutputsOK, BoundsOK
<1>2. ASSUME TypeInv, ListDevices \/ ListNetworks PROVE TypeInv'
  <2>1. pc # "idle"
    BY <1>2 DEF ListDevices, ListNetworks
  <2>2. req.ns \in Namespaces
    BY <1>2, <2>1, WorkTypes
  <2>3. WorkOK' /\ TodoOK'
    BY <1>2, <2>1, <2>2
       DEF ListDevices, ListNetworks, WorkOK, TodoOK, Stages, WorkAt, CachesOK, DeviceMap, NetworkMap
  <2> QED
    BY <1>2, <2>3 DEF ListDevices, ListNetworks, inputVars, cacheVars, outVars, boundVars,
       InputsOK, CachesOK, OutputsOK, BoundsOK
<1> QED
  BY <1>1, <1>2

\* Writing.
LEMMA AnchorTypeInv ==
  TypeInv /\ (EnsureDnsmasqAnchor \/ EnsureFreeRadiusAnchor) => TypeInv'
<1> SUFFICES ASSUME TypeInv, EnsureDnsmasqAnchor \/ EnsureFreeRadiusAnchor PROVE TypeInv'
  OBVIOUS
<1> USE DEF TypeInv, TypeOK, WorkInv
<1>1. pc # "idle"
  BY DEF EnsureDnsmasqAnchor, EnsureFreeRadiusAnchor, EnsureAnchor
<1>2. OutputsOK'
  BY <1>1, PutOK, OutputsFrame
     DEF EnsureDnsmasqAnchor, EnsureFreeRadiusAnchor, EnsureAnchor, Anchors
<1>3. \/ /\ Goto("options", {}) \/ Goto("freeRadius", WantedFreeRadius) \/ ReturnError
         /\ CallReturns
      \/ CallFails
  BY DEF EnsureDnsmasqAnchor, EnsureFreeRadiusAnchor, EnsureAnchor
<1>4. CASE CallFails
  BY <1>1, <1>2, <1>4, CallFailsOK
<1>5. CASE CallReturns /\ Goto("options", {})
  <2>1. WorkInv'
    BY <1>1, <1>5, GotoOK DEF Stages, WorkAt
  <2> QED
    BY <1>2, <1>5, <2>1, CallReturnsOK
<1>6. CASE CallReturns /\ Goto("freeRadius", WantedFreeRadius)
  <2>1. WorkInv'
    BY <1>1, <1>6, GotoFreeRadiusOK
  <2> QED
    BY <1>2, <1>6, <2>1, CallReturnsOK
<1>7. CASE CallReturns /\ ReturnError
  <2>1. WorkInv'
    BY <1>1, <1>7, ReturnOK
  <2> QED
    BY <1>2, <1>7, <2>1, CallReturnsOK
<1> QED
  BY <1>3, <1>4, <1>5, <1>6, <1>7

LEMMA OptionsTypeInv ==
  TypeInv /\ (ApplyDhcpOptions \/ DhcpOptionsFail) => TypeInv'
<1> USE DEF TypeInv, TypeOK, WorkInv
<1>1. ASSUME TypeInv, ApplyDhcpOptions PROVE TypeInv'
  <2>1. pc # "idle"
    BY <1>1 DEF ApplyDhcpOptions
  <2>2. WantedDhcpHosts \subseteq Networks
    BY DEF WantedDhcpHosts, DhcpHostsNames
  <2>3. WorkInv'
    BY <1>1, <2>1, <2>2, GotoOK DEF ApplyDhcpOptions, Stages, WorkAt
  <2>4. OutputsOK'
    BY <1>1, <2>1, PutOK DEF ApplyDhcpOptions
  <2> QED
    BY <1>1, <2>3, <2>4, CallReturnsOK DEF ApplyDhcpOptions
<1>2. ASSUME TypeInv, DhcpOptionsFail PROVE TypeInv'
  <2>1. pc # "idle"
    BY <1>2 DEF DhcpOptionsFail
  <2>2. OutputsOK'
    BY <1>2, <2>1, PutOK, OutputsFrame DEF DhcpOptionsFail
  <2>3. WorkInv'
    BY <1>2 DEF DhcpOptionsFail, WorkOK, TodoOK, Stages, WorkAt, Existing
  <2> QED
    BY <1>2, <2>2, <2>3 DEF DhcpOptionsFail, InputsOK, CachesOK, BoundsOK, inputVars, cacheVars
<1> QED
  BY <1>1, <1>2

\* The apply and delete loops: one object, then the rest, or a failure.
LEMMA LoopTypeInv ==
  ASSUME TypeInv, pc # "idle", OutputsOK', NEW x,
         (Iterate(x) /\ CallReturns) \/ CallFails
  PROVE  TypeInv'
<1> USE DEF TypeInv, TypeOK, WorkInv
<1>1. CASE CallFails
  BY <1>1, CallFailsOK
<1>2. CASE Iterate(x) /\ CallReturns
  <2>1. WorkInv'
    BY <1>2, IterateOK
  <2> QED
    BY <1>2, <2>1, CallReturnsOK
<1> QED
  BY <1>1, <1>2

LEMMA ApplyTypeInv ==
  ASSUME TypeInv
  PROVE  /\ \A n \in Networks : ApplyDhcpHosts(n) \/ ApplyDnsHosts(n) => TypeInv'
         /\ \A n \in Networks : DeleteDhcpHosts(n) \/ DeleteDnsHosts(n) => TypeInv'
         /\ \A d \in Devices : ApplyFreeRadius(d) \/ DeleteFreeRadius(d) => TypeInv'
<1>1. ASSUME NEW n \in Networks, ApplyDhcpHosts(n) \/ ApplyDnsHosts(n) PROVE TypeInv'
  <2>1. pc # "idle"
    BY <1>1 DEF ApplyDhcpHosts, ApplyDnsHosts
  <2>2. OutputsOK'
    BY <1>1, <2>1, PutOK DEF ApplyDhcpHosts, ApplyDnsHosts
  <2> QED
    BY <1>1, <2>1, <2>2, LoopTypeInv DEF ApplyDhcpHosts, ApplyDnsHosts
<1>2. ASSUME NEW n \in Networks, DeleteDhcpHosts(n) \/ DeleteDnsHosts(n) PROVE TypeInv'
  <2>1. pc # "idle"
    BY <1>2 DEF DeleteDhcpHosts, DeleteDnsHosts
  <2>2. OutputsOK'
    BY <1>2 DEF DeleteDhcpHosts, DeleteDnsHosts, TypeInv, TypeOK, OutputsOK
  <2> QED
    BY <1>2, <2>1, <2>2, LoopTypeInv DEF DeleteDhcpHosts, DeleteDnsHosts
<1>3. ASSUME NEW d \in Devices, ApplyFreeRadius(d) PROVE TypeInv'
  <2>1. pc # "idle" /\ d \in WantedFreeRadius
    BY <1>3 DEF ApplyFreeRadius, TypeInv, TodoOK
  <2>2. OutputsOK'
    BY <1>3, <2>1, PutOK DEF ApplyFreeRadius
  <2> QED
    BY <1>3, <2>1, <2>2, LoopTypeInv DEF ApplyFreeRadius
<1>4. ASSUME NEW d \in Devices, DeleteFreeRadius(d) PROVE TypeInv'
  <2>1. pc # "idle"
    BY <1>4 DEF DeleteFreeRadius
  <2>2. OutputsOK'
    BY <1>4 DEF DeleteFreeRadius, TypeInv, TypeOK, OutputsOK
  <2> QED
    BY <1>4, <2>1, <2>2, LoopTypeInv DEF DeleteFreeRadius
<1> QED
  BY <1>1, <1>2, <1>3, <1>4

LEMMA EndLoopTypeInv == TypeInv /\ (EndLoop \/ CallLost) => TypeInv'
<1> USE DEF TypeInv, TypeOK, WorkInv
<1>1. ASSUME TypeInv, EndLoop PROVE TypeInv'
  <2>1. pc # "idle"
    BY <1>1 DEF EndLoop
  <2>2. /\ WantedDnsHosts \in SUBSET WorkAt("dnsHosts")
        /\ PruneList(dhcpHosts) \in SUBSET WorkAt("pruneDhcpHosts")
        /\ PruneList(dnsHosts) \in SUBSET WorkAt("pruneDnsHosts")
        /\ PruneFreeRadiusList \in SUBSET WorkAt("pruneFreeRadius")
        /\ {} \in SUBSET WorkAt("frAnchor")
    BY <1>1 DEF WantedDnsHosts, DnsHostsNames, PruneList, PruneFreeRadiusList, Existing, WorkAt, OutputsOK
  <2>3. ASSUME ToPrune PROVE WorkInv'
    BY <1>1, <2>1, <2>2, <2>3, GotoOK, ToStatusOK DEF ToPrune, Stages
  <2>4. ASSUME ToFreeRadius PROVE WorkInv'
    BY <1>1, <2>1, <2>2, <2>3, <2>4, GotoOK, GotoFreeRadiusOK DEF ToFreeRadius, Stages
  <2>5. ASSUME Goto("networkStatus", Existing(snapNet)) PROVE WorkInv'
    BY <1>1, <2>1, <2>5 DEF WorkOK, TodoOK, Goto, WorkAt, Stages, Existing
  <2>6. ASSUME \/ Goto("dnsHosts", WantedDnsHosts)
               \/ Goto("pruneDnsHosts", PruneList(dnsHosts))
               \/ Goto("pruneFreeRadius", PruneFreeRadiusList)
        PROVE  WorkInv'
    BY <1>1, <2>1, <2>2, <2>6, GotoOK DEF Stages
  <2>7. WorkInv'
    BY <1>1, <2>1, <2>3, <2>4, <2>5, <2>6, ToStatusOK, ReturnOK DEF EndLoop
  <2> QED
    BY <1>1, <2>7, CallReturnsOK, OutputsFrame DEF EndLoop
<1>2. ASSUME TypeInv, CallLost PROVE TypeInv'
  <2>1. pc # "idle"
    BY <1>2 DEF CallLost, PruneStages
  <2> QED
    BY <1>2, <2>1, CallFailsOK, OutputsFrame DEF CallLost
<1> QED
  BY <1>1, <1>2

\* Status writes.
LEMMA UpdateStatusTypeInv ==
  ASSUME TypeInv
  PROVE  /\ \A d \in Devices : UpdateDeviceStatus(d) => TypeInv'
         /\ \A n \in Networks : UpdateNetworkStatus(n) => TypeInv'
<1> USE DEF TypeInv, TypeOK, WorkInv
<1>1. ASSUME NEW d \in Devices, UpdateDeviceStatus(d) PROVE TypeInv'
  <2>1. pc # "idle" /\ req.ns \in Namespaces
    BY <1>1, WorkTypes DEF UpdateDeviceStatus
  <2>2. snapDev[d] \in DeviceObject
    BY <1>1 DEF UpdateDeviceStatus, First, TodoOK, Existing, WorkOK
  <2> DEFINE new == DeviceStatus(snapDev[d], snapNet, ok)
  <2>3. new \in DeviceObject
    BY <2>2, StatusType
  <2>4. \/ UNCHANGED <<inputVars, boundVars>>
        \/ StoreDevice(req.ns, d, new) /\ UNCHANGED <<net, netWatch, boundVars>>
        \/ StatusWriteLost
    BY <1>1 DEF UpdateDeviceStatus, WriteDeviceStatus
  <2>5. InputsOK' /\ BoundsOK'
    <3> HIDE DEF new
    <3>1. CASE UNCHANGED <<inputVars, boundVars>>
      BY <3>1 DEF inputVars, boundVars, InputsOK, BoundsOK
    <3>2. CASE StoreDevice(req.ns, d, new) /\ UNCHANGED <<net, netWatch, boundVars>>
      BY <3>2, <2>1, <2>3, StoreOK DEF boundVars, InputsOK, BoundsOK
    <3>3. CASE StatusWriteLost
      BY <3>3 DEF StatusWriteLost, inputVars, InputsOK, BoundsOK
    <3> QED
      BY <2>4, <3>1, <3>2, <3>3
  <2>6. WorkInv'
    BY <1>1, <2>1, IterateOK DEF UpdateDeviceStatus
  <2>7. OutputsOK' /\ CachesOK'
    BY <1>1 DEF UpdateDeviceStatus, outVars, cacheVars, OutputsOK, CachesOK
  <2> QED
    BY <2>5, <2>6, <2>7
<1>2. ASSUME NEW n \in Networks, UpdateNetworkStatus(n) PROVE TypeInv'
  <2>1. pc # "idle" /\ req.ns \in Namespaces
    BY <1>2, WorkTypes DEF UpdateNetworkStatus
  <2>2. snapNet[n] \in NetworkObject
    BY <1>2 DEF UpdateNetworkStatus, First, TodoOK, Existing, WorkOK
  <2> DEFINE new == NetworkStatus(snapNet[n])
  <2>3. new \in NetworkObject
    BY <2>2, StatusType
  <2>4. \/ UNCHANGED <<inputVars, boundVars>>
        \/ StoreNetwork(req.ns, n, new) /\ UNCHANGED <<dev, devWatch, boundVars>>
        \/ StatusWriteLost
    BY <1>2 DEF UpdateNetworkStatus, WriteNetworkStatus
  <2>5. InputsOK' /\ BoundsOK'
    <3> HIDE DEF new
    <3>1. CASE UNCHANGED <<inputVars, boundVars>>
      BY <3>1 DEF inputVars, boundVars, InputsOK, BoundsOK
    <3>2. CASE StoreNetwork(req.ns, n, new) /\ UNCHANGED <<dev, devWatch, boundVars>>
      BY <3>2, <2>1, <2>3, StoreOK DEF boundVars, InputsOK, BoundsOK
    <3>3. CASE StatusWriteLost
      BY <3>3 DEF StatusWriteLost, inputVars, InputsOK, BoundsOK
    <3> QED
      BY <2>4, <3>1, <3>2, <3>3
  <2>6. WorkInv'
    BY <1>2, <2>1, IterateOK DEF UpdateNetworkStatus
  <2>7. OutputsOK' /\ CachesOK'
    BY <1>2 DEF UpdateNetworkStatus, outVars, cacheVars, OutputsOK, CachesOK
  <2> QED
    BY <2>5, <2>6, <2>7
<1> QED
  BY <1>1, <1>2

\* The start of the process.
LEMMA InitialRequestsType ==
  ASSUME net \in NetworkMap
  PROVE  InitialRequests \subseteq Request
<1>1. \A ns \in Namespaces : net[ns] \in NetworkList
  BY DEF NetworkMap, NetworkList
<1> QED
  BY <1>1, CanonicalRequestType DEF InitialRequests

LEMMA InitTypeInv == Init => TypeInv
<1> SUFFICES ASSUME Init PROVE TypeInv
  OBVIOUS
<1>1. dev \in DeviceMap /\ net \in NetworkMap
  <2>1. /\ {NewDevice(s, 1) : s \in DeviceSpecs} \subseteq DeviceObject
        /\ {NewNetwork(s, 1) : s \in NetworkSpecs} \subseteq NetworkObject
    BY NewObjectType
  <2> QED
    BY <2>1 DEF Init, DeviceMap, NetworkMap
<1>2. InputsOK /\ CachesOK
  BY <1>1, EmptySeq, DeviceControllerAssumption DEF Init, InputsOK, CachesOK
<1>3. WorkOK /\ TodoOK
  BY <1>1, InitialRequestsType, RequestNotNil
     DEF Init, WorkOK, TodoOK, Stages, WorkAt, NoDevices, NoNetworks
<1>4. OutputsOK /\ BoundsOK
  BY DEF Init, OutputsOK, BoundsOK
<1> QED
  BY <1>2, <1>3, <1>4 DEF TypeInv, TypeOK

LEMMA RestartTypeInv == TypeInv /\ Restart => TypeInv'
<1> SUFFICES ASSUME TypeInv, Restart PROVE TypeInv'
  OBVIOUS
<1> USE DEF TypeInv, TypeOK, Restart
<1>1. InputsOK' /\ CachesOK'
  BY EmptySeq, DeviceControllerAssumption DEF InputsOK, CachesOK, OutputsOK
<1>2. WorkOK' /\ TodoOK'
  BY InitialRequestsType, RequestNotNil
     DEF InputsOK, WorkOK, TodoOK, Return, Stages, WorkAt, NoDevices, NoNetworks
<1>3. OutputsOK' /\ BoundsOK'
  BY DEF outVars, OutputsOK, BoundsOK
<1> QED
  BY <1>1, <1>2, <1>3

LEMMA TypeInvStep == TypeInv /\ [Next]_vars => TypeInv'
<1> SUFFICES ASSUME TypeInv, [Next]_vars PROVE TypeInv'
  OBVIOUS
<1>1. CASE Users
  BY <1>1, UsersTypeInv
<1>2. CASE DeliverDevice \/ DeliverNetwork \/ DeliverAnchor
  BY <1>2, DeliverTypeInv
<1>3. CASE Reconcile
  BY <1>3, ReadTypeInv, AnchorTypeInv, OptionsTypeInv, ApplyTypeInv, EndLoopTypeInv, UpdateStatusTypeInv
     DEF Reconcile
<1>4. CASE Restart
  BY <1>4, RestartTypeInv
<1>5. CASE UNCHANGED vars
  BY <1>5 DEF vars, inputVars, cacheVars, workVars, outVars, boundVars, TypeInv, TypeOK, TodoOK,
     InputsOK, CachesOK, WorkOK, OutputsOK, BoundsOK, WantedFreeRadius
<1> QED
  BY <1>1, <1>2, <1>3, <1>4, <1>5 DEF Next

\* No reconcile of any namespace ever reads a field of an object that was not
\* listed, and everything it publishes and every request it is given has the
\* type the API gives it.
THEOREM TypeCorrect == Spec => []TypeOK
<1>1. TypeInv => TypeOK
  BY DEF TypeInv
<1> QED
  BY <1>1, InitTypeInv, TypeInvStep, PTL DEF Spec

-----------------------------------------------------------------------------
(***************************************************************************)
(* How far a reconcile has come.  Between the loop that writes a kind of   *)
(* objects and the end of the reconcile, every object of that kind the     *)
(* snapshot calls for is published as built from the snapshot: nobody else *)
(* writes them, and pruning spares them.                                   *)
(***************************************************************************)
AfterDhcpHosts ==
  {"dhcpHosts", "dnsHosts", "frAnchor", "freeRadius", "deviceStatus", "networkStatus"}
    \union PruneStages
AfterDnsHosts == AfterDhcpHosts \ {"dhcpHosts"}
AfterFreeRadius == AfterDnsHosts \ {"dnsHosts", "frAnchor"}

DhcpHostsDone ==
  pc \in AfterDhcpHosts =>
    \A n \in WantedDhcpHosts :
      \/ dhcpHosts[n] = DhcpHostsSpec(req.ns, snapDev, snapNet, n)
      \/ pc = "dhcpHosts" /\ n \in todo

DnsHostsDone ==
  pc \in AfterDnsHosts =>
    \A n \in WantedDnsHosts :
      \/ dnsHosts[n] = DnsHostsSpec(req.ns, snapDev, snapNet, n)
      \/ pc = "dnsHosts" /\ n \in todo

FreeRadiusDone ==
  pc \in AfterFreeRadius =>
    \A d \in WantedFreeRadius :
      \/ freeRadius[d] = FreeRadiusDeviceSpec(req.ns, snapDev, snapNet, d)
      \/ pc = "freeRadius" /\ d \in todo

\* Pruning spares what the snapshot calls for.
PruneOK ==
  /\ pc = "pruneDhcpHosts" => todo \intersect WantedDhcpHosts = {}
  /\ pc = "pruneDnsHosts" => todo \intersect WantedDnsHosts = {}
  /\ pc = "pruneFreeRadius" => todo \intersect WantedFreeRadius = {}

ProgressInv == ok /\ ~dryRun => DhcpHostsDone /\ DnsHostsDone /\ FreeRadiusDone /\ PruneOK

LEMMA ProgressFrame ==
  ASSUME ProgressInv, UNCHANGED <<dryRun, workVars, outVars>>
  PROVE  ProgressInv'
BY DEF ProgressInv, DhcpHostsDone, DnsHostsDone, FreeRadiusDone, PruneOK, WantedDhcpHosts,
   WantedDnsHosts, WantedFreeRadius, workVars, outVars

\* Before the first loop, and between reconciles, there is nothing to show.
LEMMA ProgressEarly ==
  ASSUME pc' \in {"idle", "listDevices", "listNetworks", "anchor", "options"}
  PROVE  ProgressInv'
BY DEF ProgressInv, DhcpHostsDone, DnsHostsDone, FreeRadiusDone, PruneOK,
   AfterDhcpHosts, AfterDnsHosts, AfterFreeRadius, PruneStages

\* What the snapshot calls for does not change while the snapshot does not.
LEMMA WantedFrame ==
  ASSUME UNCHANGED <<req, snapDev, snapNet>>
  PROVE  /\ WantedDhcpHosts' = WantedDhcpHosts
         /\ WantedDnsHosts' = WantedDnsHosts
         /\ WantedFreeRadius' = WantedFreeRadius
BY DEF WantedDhcpHosts, WantedDnsHosts, WantedFreeRadius

LEMMA ApplyProgress ==
  ASSUME TypeInv, ProgressInv
  PROVE  /\ \A n \in Networks : ApplyDhcpHosts(n) \/ ApplyDnsHosts(n) => ProgressInv'
         /\ \A d \in Devices : ApplyFreeRadius(d) => ProgressInv'
<1> USE DEF Iterate, Goto
<1>0. ASSUME CallFails PROVE ProgressInv'
  BY <1>0, ProgressEarly DEF CallFails, ReturnError, Return
<1>1. ASSUME NEW n \in Networks, ApplyDhcpHosts(n), Iterate(n), UNCHANGED dryRun PROVE ProgressInv'
  BY <1>1, WantedFrame
     DEF ApplyDhcpHosts, PutDhcpHosts, TypeInv, TypeOK, OutputsOK, ProgressInv, DhcpHostsDone,
         DnsHostsDone, FreeRadiusDone, PruneOK, AfterDhcpHosts, AfterDnsHosts, AfterFreeRadius, PruneStages
<1>2. ASSUME NEW n \in Networks, ApplyDnsHosts(n), Iterate(n), UNCHANGED dryRun PROVE ProgressInv'
  BY <1>2, WantedFrame
     DEF ApplyDnsHosts, PutDnsHosts, TypeInv, TypeOK, OutputsOK, ProgressInv, DhcpHostsDone,
         DnsHostsDone, FreeRadiusDone, PruneOK, AfterDhcpHosts, AfterDnsHosts, AfterFreeRadius, PruneStages
<1>3. ASSUME NEW d \in Devices, ApplyFreeRadius(d), Iterate(d), UNCHANGED dryRun PROVE ProgressInv'
  BY <1>3, WantedFrame
     DEF ApplyFreeRadius, PutFreeRadius, TypeInv, TypeOK, OutputsOK, ProgressInv, DhcpHostsDone,
         DnsHostsDone, FreeRadiusDone, PruneOK, AfterDhcpHosts, AfterDnsHosts, AfterFreeRadius, PruneStages
<1> QED
  BY <1>0, <1>1, <1>2, <1>3 DEF ApplyDhcpHosts, ApplyDnsHosts, ApplyFreeRadius, CallReturns, cacheVars

LEMMA DeleteProgress ==
  ASSUME TypeInv, ProgressInv
  PROVE  /\ \A n \in Networks : DeleteDhcpHosts(n) \/ DeleteDnsHosts(n) => ProgressInv'
         /\ \A d \in Devices : DeleteFreeRadius(d) => ProgressInv'
<1> USE DEF Iterate, Goto
<1>0. ASSUME CallFails PROVE ProgressInv'
  BY <1>0, ProgressEarly DEF CallFails, ReturnError, Return
<1>1. ASSUME NEW n \in Networks, DeleteDhcpHosts(n), Iterate(n), UNCHANGED dryRun PROVE ProgressInv'
  BY <1>1, WantedFrame
     DEF DeleteDhcpHosts, TypeInv, TypeOK, OutputsOK, ProgressInv, DhcpHostsDone,
         DnsHostsDone, FreeRadiusDone, PruneOK, AfterDhcpHosts, AfterDnsHosts, AfterFreeRadius, PruneStages
<1>2. ASSUME NEW n \in Networks, DeleteDnsHosts(n), Iterate(n), UNCHANGED dryRun PROVE ProgressInv'
  BY <1>2, WantedFrame
     DEF DeleteDnsHosts, TypeInv, TypeOK, OutputsOK, ProgressInv, DhcpHostsDone,
         DnsHostsDone, FreeRadiusDone, PruneOK, AfterDhcpHosts, AfterDnsHosts, AfterFreeRadius, PruneStages
<1>3. ASSUME NEW d \in Devices, DeleteFreeRadius(d), Iterate(d), UNCHANGED dryRun PROVE ProgressInv'
  BY <1>3, WantedFrame
     DEF DeleteFreeRadius, TypeInv, TypeOK, OutputsOK, ProgressInv, DhcpHostsDone,
         DnsHostsDone, FreeRadiusDone, PruneOK, AfterDhcpHosts, AfterDnsHosts, AfterFreeRadius, PruneStages
<1> QED
  BY <1>0, <1>1, <1>2, <1>3 DEF DeleteDhcpHosts, DeleteDnsHosts, DeleteFreeRadius, CallReturns, cacheVars

LEMMA EndLoopProgress == TypeInv /\ ProgressInv /\ EndLoop => ProgressInv'
<1> SUFFICES ASSUME TypeInv, ProgressInv, EndLoop, ok, ~dryRun PROVE ProgressInv'
  <2>0. EndLoop => UNCHANGED dryRun
    BY DEF EndLoop, CallReturns, cacheVars
  <2>1. ASSUME EndLoop, ~ok PROVE pc' = "idle" \/ ok' = ok
    BY <2>1 DEF EndLoop, ReturnError, ReturnNil, Return, ToFreeRadius, ToPrune, ToStatus, Goto
  <2>2. ASSUME EndLoop, ~ok PROVE ProgressInv'
    BY <2>1, <2>2, ProgressEarly DEF ProgressInv
  <2> QED
    BY <2>0, <2>2 DEF ProgressInv
<1> USE DEF Goto
<1>1. CASE pc \in {"deviceStatus", "networkStatus"}
  BY <1>1, WantedFrame, ProgressEarly
     DEF EndLoop, ReturnError, ReturnNil, Return, outVars, ProgressInv, DhcpHostsDone, DnsHostsDone, FreeRadiusDone,
         PruneOK, AfterDhcpHosts, AfterDnsHosts, AfterFreeRadius, PruneStages
<1>2. CASE pc \notin {"deviceStatus", "networkStatus"}
  <2>1. UNCHANGED <<req, snapDev, snapNet, ok, outVars>>
    BY <1>2 DEF EndLoop, ToFreeRadius, ToPrune, ToStatus
  <2>2. PruneOK'
    BY <1>2, <2>1, WantedFrame
       DEF EndLoop, ToFreeRadius, ToPrune, ToStatus, PruneOK, PruneList, PruneFreeRadiusList, DesiredNames
  <2>3. DhcpHostsDone'
    BY <1>2, <2>1, WantedFrame
       DEF EndLoop, ToFreeRadius, ToPrune, ToStatus, ProgressInv, DhcpHostsDone, AfterDhcpHosts, PruneStages, outVars
  <2>4. DnsHostsDone'
    BY <1>2, <2>1, WantedFrame
       DEF EndLoop, ToFreeRadius, ToPrune, ToStatus, ProgressInv, DnsHostsDone, AfterDhcpHosts,
           AfterDnsHosts, PruneStages, outVars
  <2>5. FreeRadiusDone'
    BY <1>2, <2>1, WantedFrame
       DEF EndLoop, ToFreeRadius, ToPrune, ToStatus, ProgressInv, FreeRadiusDone, AfterDhcpHosts,
           AfterDnsHosts, AfterFreeRadius, PruneStages, WantedFreeRadius, FreeRadiusNames, outVars
  <2> QED
    BY <2>2, <2>3, <2>4, <2>5 DEF ProgressInv
<1> QED
  BY <1>1, <1>2

LEMMA ProgressStep == TypeInv /\ ProgressInv /\ [Next]_vars => ProgressInv'
<1> SUFFICES ASSUME TypeInv, ProgressInv, [Next]_vars PROVE ProgressInv'
  OBVIOUS
<1>1. CASE Users \/ DeliverDevice \/ DeliverNetwork \/ DeliverAnchor
  <2>1. UNCHANGED <<dryRun, workVars, outVars>>
    BY <1>1 DEF Users, PutDevice, DeleteDevice, PutNetwork, DeleteNetwork, UserEdit,
       DeliverDevice, DeliverNetwork, DeliverAnchor, cacheVars
  <2> QED
    BY <2>1, ProgressFrame
<1>2. CASE Restart
  BY <1>2, ProgressEarly DEF Restart, Return
<1>3. CASE UNCHANGED vars
  BY <1>3, ProgressFrame DEF vars, cacheVars
<1>4. CASE Reconcile
  <2>0. ASSUME CallFails PROVE ProgressInv'
    BY <2>0, ProgressEarly DEF CallFails, ReturnError, Return
  <2>1. CASE (\E r \in queue : StartReconcile(r)) \/ ListDevices \/ ListNetworks \/ EnsureDnsmasqAnchor
    BY <2>0, <2>1, ProgressEarly
       DEF StartReconcile, ListDevices, ListNetworks, EnsureDnsmasqAnchor, EnsureAnchor, Goto, ReturnError, Return
  <2>2. CASE EnsureFreeRadiusAnchor
    <3>1. CASE CallFails \/ ReturnError
      BY <2>0, <3>1, ProgressEarly DEF ReturnError, Return
    <3>2. CASE Goto("freeRadius", WantedFreeRadius) /\ PutAnchor("freeradius")
      BY <2>2, <3>2, WantedFrame
         DEF EnsureFreeRadiusAnchor, EnsureAnchor, CallReturns, CallFails, cacheVars, Goto, PutAnchor, ProgressInv, DhcpHostsDone, DnsHostsDone,
             FreeRadiusDone, PruneOK, AfterDhcpHosts, AfterDnsHosts, AfterFreeRadius, PruneStages
    <3> QED
      BY <2>2, <3>1, <3>2 DEF EnsureFreeRadiusAnchor, EnsureAnchor
  <2>3. CASE ApplyDhcpOptions
    BY <2>3, WantedFrame
       DEF ApplyDhcpOptions, CallReturns, cacheVars, Goto, ProgressInv, DhcpHostsDone, DnsHostsDone,
           FreeRadiusDone, PruneOK, AfterDhcpHosts, AfterDnsHosts, AfterFreeRadius, PruneStages
  <2>4. CASE DhcpOptionsFail
    BY <2>4 DEF DhcpOptionsFail, ProgressInv
  <2>5. ASSUME \/ \E d \in Devices : UpdateDeviceStatus(d)
               \/ \E n \in Networks : UpdateNetworkStatus(n)
        PROVE  ProgressInv'
    BY <2>5, WantedFrame
       DEF UpdateDeviceStatus, UpdateNetworkStatus, Iterate, Goto, outVars, cacheVars, ProgressInv, DhcpHostsDone, DnsHostsDone,
           FreeRadiusDone, PruneOK, AfterDhcpHosts, AfterDnsHosts, AfterFreeRadius, PruneStages
  <2>6. CASE CallLost
    BY <2>0, <2>6 DEF CallLost
  <2> QED
    BY <1>4, <2>1, <2>2, <2>3, <2>4, <2>5, <2>6, ApplyProgress, DeleteProgress, EndLoopProgress DEF Reconcile
<1> QED
  BY <1>1, <1>2, <1>3, <1>4 DEF Next

LEMMA InitProgress == Init => ProgressInv
BY DEF Init, ProgressInv, DhcpHostsDone, DnsHostsDone, FreeRadiusDone, PruneOK,
   AfterDhcpHosts, AfterDnsHosts, AfterFreeRadius, PruneStages

-----------------------------------------------------------------------------
(***************************************************************************)
(* A status write that turns a Device Ready.                               *)
(***************************************************************************)

\* What updateDeviceStatuses writes when it reports Ready.
LEMMA ReadyStatus ==
  ASSUME NEW obj \in DeviceObject, NEW nets, NEW b \in BOOLEAN,
         DeviceStatus(obj, nets, b).ready = "True"
  PROVE  b /\ obj.spec.network \in Existing(nets)
BY DEF DeviceStatus, DeviceObject

LEMMA StatusKeepsSpec ==
  ASSUME NEW obj \in DeviceObject, NEW nets, NEW b \in BOOLEAN
  PROVE  LET new == DeviceStatus(obj, nets, b)
         IN  new.gen = obj.gen /\ new.obs = obj.gen /\ new.spec = obj.spec
BY DEF DeviceStatus, DeviceObject

\* A Device that the snapshot shows on an existing network, late in a reconcile.
LEMMA SnapshotPublished ==
  ASSUME TypeInv, ProgressInv, ok, ~dryRun, pc = "deviceStatus",
         NEW d \in Existing(snapDev), snapDev[d].spec.network \in Existing(snapNet)
  PROVE  EntriesPublished(req.ns, d, snapDev[d])
<1> DEFINE n == snapDev[d].spec.network
           e == Entry(req.ns, d, snapDev[d])
<1>1. n \in Networks /\ d \in Devices /\ d \in OnNetwork(snapDev, snapNet, n)
  BY DEF TypeInv, TypeOK, WorkOK, Existing, OnNetwork
<1>2. pc \in AfterDhcpHosts /\ pc \in AfterDnsHosts /\ pc \in AfterFreeRadius
  BY DEF AfterDhcpHosts, AfterDnsHosts, AfterFreeRadius
<1>3. ASSUME snapDev[d].spec.dhcp PROVE e \in dhcpHosts[n]
  <2>1. e \in DhcpHostsSpec(req.ns, snapDev, snapNet, n)
    BY <1>1, <1>3 DEF DhcpHostsSpec
  <2>2. n \in WantedDhcpHosts
    BY <1>1, <2>1 DEF WantedDhcpHosts, DhcpHostsNames
  <2> QED
    BY <1>2, <2>1, <2>2 DEF ProgressInv, DhcpHostsDone
<1>4. ASSUME snapDev[d].spec.ip PROVE e \in dnsHosts[n]
  <2>1. e \in DnsHostsSpec(req.ns, snapDev, snapNet, n)
    BY <1>1, <1>4 DEF DnsHostsSpec
  <2>2. n \in WantedDnsHosts
    BY <1>1, <2>1 DEF WantedDnsHosts, DnsHostsNames
  <2> QED
    BY <1>2, <2>1, <2>2 DEF ProgressInv, DnsHostsDone
<1>5. ASSUME EnableFreeRadiusDevices, FreeRadiusDevicesWirelessOnly => snapDev[d].spec.wireless
      PROVE  freeRadius[d] # Nil /\ freeRadius[d].device = e
  <2>1. d \in WantedFreeRadius
    BY <1>5 DEF WantedFreeRadius, FreeRadiusNames
  <2>2. freeRadius[d] = FreeRadiusDeviceSpec(req.ns, snapDev, snapNet, d)
    BY <1>2, <2>1 DEF ProgressInv, FreeRadiusDone
  <2>3. freeRadius[d].device = e
    BY <2>2 DEF FreeRadiusDeviceSpec
  <2>4. freeRadius[d] # Nil
    BY <2>1, <2>2, FreeRadiusType, WorkTypes, NilAssumption DEF WantedFreeRadius
  <2> QED
    BY <2>3, <2>4
<1> QED
  BY <1>1, <1>3, <1>4, <1>5 DEF EntriesPublished

\* Users never write a status, and only updateDeviceStatuses does.
LEMMA ReadyStepLemma == TypeInv /\ ProgressInv /\ [Next]_vars => ReadyStep
<1> SUFFICES ASSUME TypeInv, ProgressInv, [Next]_vars,
                    NEW ns \in Namespaces, NEW d \in Devices,
                    dev[ns][d] # Nil, dev'[ns][d] # Nil, dev'[ns][d].ready = "True",
                    <<dev'[ns][d].ready, dev'[ns][d].obs>> # <<dev[ns][d].ready, dev[ns][d].obs>>
             PROVE  dev'[ns][d].obs = dev'[ns][d].gen /\ EntriesPublished(ns, d, dev'[ns][d])
  BY DEF ReadyStep
<1>0. dev'[ns][d] # dev[ns][d]
  OBVIOUS
<1>1. ASSUME UNCHANGED dev PROVE FALSE
  BY <1>0, <1>1
<1>2. CASE Users
  <2>1. PICK m \in Namespaces, c \in Devices :
          \/ DeleteDevice(m, c)
          \/ \E s \in DeviceSpecs : PutDevice(m, c, s)
    BY <1>1, <1>2 DEF Users, PutNetwork, DeleteNetwork
  <2>2. dev \in [Namespaces -> [Devices -> DeviceObject \union {Nil}]]
    BY DEF TypeInv, TypeOK, InputsOK, DeviceMap
  <2>3. m = ns /\ c = d
    <3>1. PICK obj : dev' = [dev EXCEPT ![m][c] = obj]
      BY <2>1, Zenon DEF PutDevice, DeleteDevice, StoreDevice
    <3> QED
      BY <1>0, <2>2, <3>1
  <2>4. ~DeleteDevice(ns, d)
    BY <2>2 DEF DeleteDevice, StoreDevice
  <2>5. PICK s \in DeviceSpecs : PutDevice(ns, d, s)
    BY <2>1, <2>3, <2>4
  <2>6. dev'[ns][d] = [dev[ns][d] EXCEPT !.spec = s, !.gen = edits + 1]
    BY <2>2, <2>5 DEF PutDevice, StoreDevice
  <2>7. dev[ns][d] \in DeviceObject
    BY <2>2
  <2> QED
    BY <2>6, <2>7 DEF DeviceObject
<1>3. CASE DeliverDevice \/ DeliverNetwork \/ DeliverAnchor \/ Restart \/ UNCHANGED vars
  BY <1>1, <1>3 DEF DeliverDevice, DeliverNetwork, DeliverAnchor, Restart, vars, inputVars
<1>4. CASE Reconcile
  <2>1. PICK c \in Devices : UpdateDeviceStatus(c)
    <3>1. ASSUME CallReturns \/ CallFails PROVE FALSE
      BY <1>1, <3>1 DEF CallReturns, CallFails, inputVars
    <3>2. ASSUME NEW n \in Networks, UpdateNetworkStatus(n) PROVE FALSE
      BY <1>1, <3>2 DEF UpdateNetworkStatus, WriteNetworkStatus, StatusWriteLost, inputVars
    <3> QED
      BY <1>1, <1>4, <3>1, <3>2
         DEF Reconcile, StartReconcile, ListDevices, ListNetworks, EnsureDnsmasqAnchor, EnsureFreeRadiusAnchor,
             EnsureAnchor, ApplyDhcpOptions, DhcpOptionsFail, ApplyDhcpHosts, ApplyDnsHosts, ApplyFreeRadius,
             DeleteDhcpHosts, DeleteDnsHosts, DeleteFreeRadius, EndLoop, CallLost, inputVars
  <2> DEFINE new == DeviceStatus(snapDev[c], snapNet, ok)
  <2>2. ~dryRun /\ StoreDevice(req.ns, c, new)
    BY <1>1, <2>1 DEF UpdateDeviceStatus, WriteDeviceStatus, StatusWriteLost, inputVars
  <2>3. /\ pc = "deviceStatus" /\ c \in Existing(snapDev) /\ snapDev[c] \in DeviceObject /\ ok \in BOOLEAN
        /\ req.ns \in Namespaces
    BY <2>1, WorkTypes DEF UpdateDeviceStatus, First, TypeInv, TypeOK, TodoOK, Existing, WorkOK
  <2>4. dev \in [Namespaces -> [Devices -> DeviceObject \union {Nil}]]
    BY DEF TypeInv, TypeOK, InputsOK, DeviceMap
  <2> HIDE DEF new
  <2>5. req.ns = ns /\ c = d /\ dev'[ns][d] = new
    BY <1>0, <2>2, <2>3, <2>4 DEF StoreDevice
  <2>6. ok /\ snapDev[d].spec.network \in Existing(snapNet)
    BY <2>3, <2>5, ReadyStatus DEF new
  <2>7. EntriesPublished(ns, d, snapDev[d])
    BY <2>2, <2>3, <2>5, <2>6, SnapshotPublished
  <2>8. new.gen = snapDev[d].gen /\ new.obs = snapDev[d].gen /\ new.spec = snapDev[d].spec
    BY <2>3, <2>5, StatusKeepsSpec DEF new
  <2>9. EntriesPublished(ns, d, new)
    BY <2>7, <2>8 DEF EntriesPublished, Entry
  <2> QED
    BY <2>5, <2>8, <2>9
<1> QED
  BY <1>2, <1>3, <1>4 DEF Next

\* However edits, late watch events, failed calls, crashes and the reconciles of
\* other namespaces interleave, a Device is reported Ready only when its own
\* DHCP, DNS and FreeRADIUS entries of that generation are published.
THEOREM ReadyIsTruthful == Spec => ReadyTruthful
<1>1. TypeInv /\ ProgressInv /\ [Next]_vars => [ReadyStep]_vars
  BY ReadyStepLemma
<1> QED
  BY <1>1, InitTypeInv, TypeInvStep, InitProgress, ProgressStep, PTL DEF Spec, ReadyTruthful

-----------------------------------------------------------------------------
(***************************************************************************)
(* Dry runs.  Every write is guarded by dryRun where it is made, except    *)
(* the deletions of pruneManaged: those a dry run must never reach.        *)
(***************************************************************************)
NoPruneInv == dryRun => pc \notin PruneStages

LEMMA NoPruneStep == NoPruneInv /\ [Next]_vars => NoPruneInv'
<1> SUFFICES ASSUME NoPruneInv, [Next]_vars, dryRun' PROVE pc' \notin PruneStages
  BY DEF NoPruneInv
<1> USE DEF NoPruneInv, PruneStages
<1>0. ASSUME CallFails PROVE pc' = "idle"
  BY <1>0 DEF CallFails, ReturnError, Return
<1>1. CASE Users \/ DeliverDevice \/ DeliverNetwork \/ DeliverAnchor \/ UNCHANGED vars
  <2>1. UNCHANGED <<pc, dryRun>>
    BY <1>1 DEF Users, PutDevice, DeleteDevice, PutNetwork, DeleteNetwork, UserEdit,
       DeliverDevice, DeliverNetwork, DeliverAnchor, vars, workVars, cacheVars
  <2> QED
    BY <2>1
<1>2. CASE Restart
  BY <1>2 DEF Restart, Return
<1>3. CASE EndLoop
  BY <1>3 DEF EndLoop, CallReturns, cacheVars, ToFreeRadius, ToPrune, ToStatus, Goto, ReturnError, ReturnNil, Return
<1>4. CASE Reconcile /\ ~EndLoop
  <2>1. dryRun
    <3>1. CallReturns \/ CallFails \/ UNCHANGED cacheVars => dryRun' = dryRun
      BY DEF CallReturns, CallFails, cacheVars
    <3> QED
      BY <1>4, <3>1
         DEF Reconcile, StartReconcile, ListDevices, ListNetworks, EnsureDnsmasqAnchor, EnsureFreeRadiusAnchor,
             EnsureAnchor, ApplyDhcpOptions, DhcpOptionsFail, ApplyDhcpHosts, ApplyDnsHosts, ApplyFreeRadius,
             DeleteDhcpHosts, DeleteDnsHosts, DeleteFreeRadius, CallLost, UpdateDeviceStatus, UpdateNetworkStatus
  <2> QED
    BY <1>0, <1>4, <2>1
       DEF Reconcile, StartReconcile, ListDevices, ListNetworks, EnsureDnsmasqAnchor, EnsureFreeRadiusAnchor,
           EnsureAnchor, ApplyDhcpOptions, DhcpOptionsFail, ApplyDhcpHosts, ApplyDnsHosts, ApplyFreeRadius,
           DeleteDhcpHosts, DeleteDnsHosts, DeleteFreeRadius, CallLost, UpdateDeviceStatus,
           UpdateNetworkStatus, Iterate, Goto, ReturnError, Return
<1> QED
  BY <1>1, <1>2, <1>3, <1>4 DEF Next

LEMMA DryRunStepLemma == NoPruneInv /\ [Next]_vars => [DryRunStep]_vars
<1> SUFFICES ASSUME NoPruneInv, Next, dryRun, ~Users PROVE UNCHANGED <<dev, net, outVars>>
  BY DEF DryRunStep
<1>1. CASE DeliverDevice \/ DeliverNetwork \/ DeliverAnchor \/ Restart
  BY <1>1 DEF DeliverDevice, DeliverNetwork, DeliverAnchor, Restart, inputVars
<1>2. CASE Reconcile
  <2>1. ASSUME NEW n \in Networks, DeleteDhcpHosts(n) \/ DeleteDnsHosts(n) PROVE FALSE
    BY <2>1 DEF DeleteDhcpHosts, DeleteDnsHosts, NoPruneInv, PruneStages
  <2>2. ASSUME NEW d \in Devices, DeleteFreeRadius(d) PROVE FALSE
    BY <2>2 DEF DeleteFreeRadius, NoPruneInv, PruneStages
  <2>3. ASSUME CallReturns \/ CallFails PROVE UNCHANGED <<dev, net>>
    BY <2>3 DEF CallReturns, CallFails, inputVars
  <2>4. ASSUME \/ \E d \in Devices : UpdateDeviceStatus(d)
               \/ \E n \in Networks : UpdateNetworkStatus(n)
        PROVE  UNCHANGED <<dev, net, outVars>>
    BY <2>4 DEF UpdateDeviceStatus, UpdateNetworkStatus, WriteDeviceStatus, WriteNetworkStatus, inputVars
  <2>5. ASSUME \/ EnsureDnsmasqAnchor \/ EnsureFreeRadiusAnchor \/ ApplyDhcpOptions
               \/ \E n \in Networks : ApplyDhcpHosts(n) \/ ApplyDnsHosts(n)
               \/ \E d \in Devices : ApplyFreeRadius(d)
        PROVE  UNCHANGED <<dev, net, outVars>>
    BY <2>3, <2>5 DEF EnsureDnsmasqAnchor, EnsureFreeRadiusAnchor, EnsureAnchor, ApplyDhcpOptions, ApplyDhcpHosts,
       ApplyDnsHosts, ApplyFreeRadius, PutAnchor, PutDhcpOptions, PutDhcpHosts, PutDnsHosts, PutFreeRadius, outVars
  <2>6. ASSUME \/ \E r \in queue : StartReconcile(r)
               \/ ListDevices \/ ListNetworks \/ DhcpOptionsFail \/ EndLoop \/ CallLost
        PROVE  UNCHANGED <<dev, net, outVars>>
    BY <2>3, <2>6 DEF StartReconcile, ListDevices, ListNetworks, DhcpOptionsFail, PutDhcpOptions, EndLoop, CallLost,
       inputVars, outVars
  <2> QED
    BY <1>2, <2>1, <2>2, <2>4, <2>5, <2>6 DEF Reconcile
<1> QED
  BY <1>1, <1>2 DEF Next

\* "skip all API writes (dnsmasq, FreeRADIUS, status, prune)" (README.md:27): with
\* DRY_RUN set, no behaviour of the device controller changes an object.
THEOREM DryRunIsSafe == Spec => DryRunWritesNothing
<1>1. Init => NoPruneInv
  BY DEF Init, NoPruneInv, PruneStages
<1> QED
  BY <1>1, NoPruneStep, DryRunStepLemma, PTL DEF Spec, DryRunWritesNothing

=============================================================================
