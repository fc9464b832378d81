------------------------ MODULE DeviceVersionsProofs ------------------------
(***************************************************************************)
(* The versions that DeviceController publishes never go back, for any     *)
(* number of namespaces, Devices and Networks, any edits, failures and     *)
(* crashes.  A version of an object is reached once neither the cache nor  *)
(* the watch stream nor the API server can still produce an older one;     *)
(* everything cached, listed or published is reached.                      *)
(***************************************************************************)
EXTENDS DeviceAtRestProofs

NotAbove(g, obj) == obj # Nil => g <= obj.gen

Reached(g, watch, cached, stored, last, ns, x) ==
  /\ g <= last
  /\ NotAbove(g, cached[ns][x]) /\ NotAbove(g, stored[ns][x])
  /\ \A i \in DOMAIN watch : About(watch[i], ns, x) => NotAbove(g, watch[i].obj)

\* Events carry no older versions than the events before them, the API server
\* holds no older ones than they carry, and the last edit made the last version.
InOrder(Names, watch, cached, stored, last) ==
  /\ \A ns \in Namespaces, x \in Names :
       /\ stored[ns][x] # Nil => stored[ns][x].gen <= last
       /\ cached[ns][x] # Nil => Reached(cached[ns][x].gen, watch, cached, stored, last, ns, x)
  /\ \A i \in DOMAIN watch : watch[i].obj # Nil =>
       /\ watch[i].obj.gen <= last
       /\ NotAbove(watch[i].obj.gen, stored[watch[i].ns][watch[i].name])
       /\ \A j \in DOMAIN watch : i < j /\ About(watch[j], watch[i].ns, watch[i].name)
            => NotAbove(watch[i].obj.gen, watch[j].obj)

DeviceReached(g, ns, d) == Reached(g, devWatch, devCache, dev, edits, ns, d)

NetworkReached(g, ns, n) == Reached(g, netWatch, netCache, net, edits, ns, n)

OrderInv ==
  /\ InOrder(Devices, devWatch, devCache, dev, edits)
  /\ InOrder(Networks, netWatch, netCache, net, edits)

SnapshotInv ==
  /\ \A d \in Devices : snapDev[d] # Nil =>
       pc # "idle" /\ DeviceReached(snapDev[d].gen, req.ns, d)
  /\ \A n \in Networks : snapNet[n] # Nil =>
       pc # "idle" /\ NetworkReached(snapNet[n].gen, req.ns, n)

EntriesInv ==
  /\ \A e \in DeviceEntries :
       /\ e.name \in Devices /\ DeviceReached(e.gen, e.ns, e.name)
       /\ pc # "idle" /\ e.ns = req.ns => NotAbove(e.gen, snapDev[e.name])
  /\ \A e \in NetworkEntries :
       /\ e.name \in Networks /\ NetworkReached(e.gen, e.ns, e.name)
       /\ pc # "idle" /\ e.ns = req.ns => NotAbove(e.gen, snapNet[e.name])

VersionInv == TypeInv /\ OrderInv /\ SnapshotInv /\ EntriesInv

-----------------------------------------------------------------------------
(***************************************************************************)
(* What a new version, a delivery and a start of the process do to the     *)
(* order, for Devices and Networks alike.                                  *)
(***************************************************************************)
Maps(Names, Objs) == [Namespaces -> [Names -> Objs \union {Nil}]]

Events(Names, Objs) == [ns : Namespaces, name : Names, obj : Objs \union {Nil}]

\* The new version is that of the last edit, or keeps the one of the object.
LEMMA ReachedStore ==
  ASSUME NEW Names, NEW Objs, \A o \in Objs : o.gen \in Nat,
         NEW w \in Seq(Events(Names, Objs)), NEW c \in Maps(Names, Objs), NEW s \in Maps(Names, Objs),
         NEW last \in Nat, NEW next \in Nat, last <= next,
         NEW ns \in Namespaces, NEW x \in Names, NEW o \in Objs \union {Nil},
         o # Nil => o.gen <= next /\ (last <= o.gen \/ (s[ns][x] # Nil /\ s[ns][x].gen <= o.gen)),
         NEW e, e \in Events(Names, Objs), e.ns = ns, e.name = x, e.obj = o,
         NEW t, t = [s EXCEPT ![ns][x] = o],
         NEW g \in Nat, NEW m \in Namespaces, NEW y \in Names, Reached(g, w, c, s, last, m, y)
  PROVE  Reached(g, Append(w, e), c, t, next, m, y)
<1> DEFINE v == Append(w, e)
<1>1. /\ DOMAIN w = 1 .. Len(w) /\ Len(w) \in Nat /\ DOMAIN v = 1 .. (Len(w) + 1)
      /\ v[Len(w) + 1] = e
      /\ \A i \in DOMAIN w : v[i] = w[i]
  BY AppendProperties, LenProperties
<1> HIDE DEF v
<1>2. g <= next
  BY DEF Reached
<1>3. ASSUME m = ns, y = x PROVE NotAbove(g, o)
  <2>1. ASSUME o # Nil PROVE g <= o.gen
    <3>1. o.gen \in Nat /\ g <= last
      BY <2>1 DEF Reached
    <3>2. CASE last <= o.gen
      BY <3>1, <3>2
    <3>3. CASE s[ns][x] # Nil /\ s[ns][x].gen <= o.gen
      <4>1. s[ns][x] \in Objs
        BY <3>3 DEF Maps
      <4>2. s[ns][x].gen \in Nat /\ g <= s[ns][x].gen
        BY <1>3, <3>3, <4>1 DEF Reached, NotAbove
      <4> QED
        BY <3>1, <3>3, <4>2
    <3> QED
      BY <2>1, <3>2, <3>3
  <2> QED
    BY <2>1 DEF NotAbove
<1>4. NotAbove(g, t[m][y])
  <2>1. t[m][y] = IF m = ns /\ y = x THEN o ELSE s[m][y]
    BY DEF Maps
  <2> QED
    BY <1>3, <2>1 DEF Reached
<1>5. ASSUME NEW i \in DOMAIN v, About(v[i], m, y) PROVE NotAbove(g, v[i].obj)
  <2>1. CASE i \in DOMAIN w
    BY <1>1, <1>5, <2>1 DEF Reached
  <2>2. CASE i = Len(w) + 1
    BY <1>1, <1>3, <1>5, <2>2 DEF About
  <2> QED
    BY <1>1, <2>1, <2>2
<1> QED
  BY <1>2, <1>4, <1>5 DEF Reached, v

LEMMA OrderStore ==
  ASSUME NEW Names, NEW Objs, \A o \in Objs : o.gen \in Nat,
         NEW w \in Seq(Events(Names, Objs)), NEW c \in Maps(Names, Objs), NEW s \in Maps(Names, Objs),
         NEW last \in Nat, NEW next \in Nat, last <= next,
         NEW ns \in Namespaces, NEW x \in Names, NEW o \in Objs \union {Nil},
         o # Nil => o.gen <= next /\ (last <= o.gen \/ (s[ns][x] # Nil /\ s[ns][x].gen <= o.gen)),
         NEW e, e \in Events(Names, Objs), e.ns = ns, e.name = x, e.obj = o,
         NEW t, t = [s EXCEPT ![ns][x] = o],
         InOrder(Names, w, c, s, last)
  PROVE  InOrder(Names, Append(w, e), c, t, next)
<1> DEFINE v == Append(w, e)
<1>1. /\ DOMAIN w = 1 .. Len(w) /\ Len(w) \in Nat /\ DOMAIN v = 1 .. (Len(w) + 1)
      /\ v[Len(w) + 1] = e
      /\ \A i \in DOMAIN w : v[i] = w[i]
  BY AppendProperties, LenProperties
<1>2. \A m \in Namespaces, y \in Names : t[m][y] = IF m = ns /\ y = x THEN o ELSE s[m][y]
  BY DEF Maps
<1>3. \A i \in DOMAIN w : w[i] \in Events(Names, Objs)
  BY <1>1, ElementOfSeq
<1>4. ASSUME NEW g \in Nat, NEW m \in Namespaces, NEW y \in Names, Reached(g, w, c, s, last, m, y)
      PROVE  Reached(g, v, c, t, next, m, y)
  BY <1>4, ReachedStore
<1> HIDE DEF v
<1>5. ASSUME NEW m \in Namespaces, NEW y \in Names, t[m][y] # Nil PROVE t[m][y].gen <= next
  <2>1. CASE m = ns /\ y = x
    BY <1>2, <1>5, <2>1
  <2>2. CASE ~(m = ns /\ y = x)
    <3>1. t[m][y] = s[m][y] /\ s[m][y] \in Objs
      BY <1>2, <1>5, <2>2 DEF Maps
    <3>2. s[m][y].gen <= last /\ s[m][y].gen \in Nat
      BY <1>5, <3>1 DEF InOrder
    <3> QED
      BY <3>1, <3>2
  <2> QED
    BY <2>1, <2>2
<1>6. ASSUME NEW m \in Namespaces, NEW y \in Names, c[m][y] # Nil
      PROVE  Reached(c[m][y].gen, v, c, t, next, m, y)
  <2>1. c[m][y] \in Objs
    BY <1>6 DEF Maps
  <2>2. c[m][y].gen \in Nat /\ Reached(c[m][y].gen, w, c, s, last, m, y)
    BY <1>6, <2>1 DEF InOrder
  <2> QED
    BY <1>4, <2>2
<1>7. ASSUME NEW i \in DOMAIN v, v[i].obj # Nil
      PROVE  /\ v[i].obj.gen <= next
             /\ NotAbove(v[i].obj.gen, t[v[i].ns][v[i].name])
             /\ \A j \in DOMAIN v : i < j /\ About(v[j], v[i].ns, v[i].name) => NotAbove(v[i].obj.gen, v[j].obj)
  <2>1. CASE i = Len(w) + 1
    <3>1. v[i] = e /\ e.obj = o /\ o \in Objs /\ \A j \in DOMAIN v : ~(i < j)
      BY <1>1, <1>7, <2>1
    <3>2. t[e.ns][e.name] = o /\ o.gen \in Nat
      BY <1>2, <3>1
    <3> QED
      BY <1>7, <3>1, <3>2 DEF NotAbove
  <2>2. CASE i \in DOMAIN w
    <3> DEFINE g == w[i].obj.gen
               m == w[i].ns
               y == w[i].name
    <3>1. v[i] = w[i] /\ w[i].obj \in Objs /\ m \in Namespaces /\ y \in Names /\ w[i].obj # Nil
      BY <1>1, <1>3, <1>7, <2>2 DEF Events
    <3>2. g \in Nat /\ g <= last /\ NotAbove(g, s[m][y])
      BY <2>2, <3>1 DEF InOrder
    <3>3. ASSUME m = ns, y = x PROVE NotAbove(g, o)
      <4>1. ASSUME o # Nil PROVE g <= o.gen
        <5>1. o.gen \in Nat
          BY <4>1
        <5>2. CASE last <= o.gen
          BY <3>2, <5>1, <5>2
        <5>3. CASE s[ns][x] # Nil /\ s[ns][x].gen <= o.gen
          <6>1. s[ns][x] \in Objs
            BY <5>3 DEF Maps
          <6>2. s[ns][x].gen \in Nat /\ g <= s[ns][x].gen
            BY <3>2, <3>3, <5>3, <6>1 DEF NotAbove
          <6> QED
            BY <3>2, <5>1, <5>3, <6>2
        <5> QED
          BY <4>1, <5>2, <5>3
      <4> QED
        BY <4>1 DEF NotAbove
    <3>4. NotAbove(g, t[m][y])
      BY <1>2, <3>1, <3>2, <3>3
    <3>5. ASSUME NEW j \in DOMAIN v, i < j, About(v[j], m, y) PROVE NotAbove(g, v[j].obj)
      <4>1. CASE j \in DOMAIN w
        BY <1>1, <2>2, <3>1, <3>5, <4>1 DEF InOrder
      <4>2. CASE j = Len(w) + 1
        BY <1>1, <3>3, <3>5, <4>2 DEF About
      <4> QED
        BY <1>1, <4>1, <4>2
    <3>6. g <= next
      BY <3>2
    <3> QED
      BY <3>1, <3>4, <3>5, <3>6
  <2> QED
    BY <1>1, <2>1, <2>2
<1> QED
  BY <1>5, <1>6, <1>7 DEF InOrder, v

\* The next event reaches the cache.
LEMMA ReachedTail ==
  ASSUME NEW Names, NEW Objs,
         NEW w \in Seq(Events(Names, Objs)), w # <<>>, NEW c \in Maps(Names, Objs), NEW s,
         NEW k, k = [c EXCEPT ![Head(w).ns][Head(w).name] = Head(w).obj],
         NEW last \in Nat, NEW g \in Nat, NEW m \in Namespaces, NEW y \in Names, Reached(g, w, c, s, last, m, y)
  PROVE  Reached(g, Tail(w), k, s, last, m, y)
<1> DEFINE v == Tail(w)
           h == Head(w)
<1>1. /\ DOMAIN w = 1 .. Len(w) /\ Len(w) \in Nat \ {0} /\ DOMAIN v = 1 .. (Len(w) - 1)
      /\ h = w[1]
      /\ \A i \in DOMAIN v : v[i] = w[i + 1]
  BY HeadTailProperties, LenProperties, EmptySeq
<1>2. h \in Events(Names, Objs)
  BY <1>1, HeadTailProperties
<1> HIDE DEF v, h
<1>3. k = [c EXCEPT ![h.ns][h.name] = h.obj]
  BY DEF h
<1>4. k[m][y] = IF About(h, m, y) THEN h.obj ELSE c[m][y]
  BY <1>2, <1>3 DEF Events, Maps, About
<1>5. NotAbove(g, k[m][y])
  <2>1. 1 \in DOMAIN w
    BY <1>1
  <2>2. About(h, m, y) => NotAbove(g, h.obj)
    BY <1>1, <2>1 DEF Reached
  <2> QED
    BY <1>4, <2>2 DEF Reached
<1>6. ASSUME NEW i \in DOMAIN v, About(v[i], m, y) PROVE NotAbove(g, v[i].obj)
  <2>1. i + 1 \in DOMAIN w
    BY <1>1
  <2> QED
    BY <1>1, <1>6, <2>1 DEF Reached
<1> QED
  BY <1>5, <1>6 DEF Reached, v

LEMMA OrderTail ==
  ASSUME NEW Names, NEW Objs, \A o \in Objs : o.gen \in Nat,
         NEW w \in Seq(Events(Names, Objs)), w # <<>>, NEW c \in Maps(Names, Objs), NEW s \in Maps(Names, Objs),
         NEW k, k = [c EXCEPT ![Head(w).ns][Head(w).name] = Head(w).obj],
         NEW last \in Nat, InOrder(Names, w, c, s, last)
  PROVE  InOrder(Names, Tail(w), k, s, last)
<1> DEFINE v == Tail(w)
           h == Head(w)
<1>1. /\ DOMAIN w = 1 .. Len(w) /\ Len(w) \in Nat \ {0} /\ DOMAIN v = 1 .. (Len(w) - 1)
      /\ h = w[1]
      /\ \A i \in DOMAIN v : v[i] = w[i + 1]
  BY HeadTailProperties, LenProperties, EmptySeq
<1>2. h \in Events(Names, Objs)
  BY <1>1, HeadTailProperties
<1>3. ASSUME NEW g \in Nat, NEW m \in Namespaces, NEW y \in Names, Reached(g, w, c, s, last, m, y)
      PROVE  Reached(g, v, k, s, last, m, y)
  BY <1>3, ReachedTail
<1>4. k = [c EXCEPT ![h.ns][h.name] = h.obj]
  OBVIOUS
<1> HIDE DEF v, h
<1>5. h.ns \in Namespaces /\ h.name \in Names /\ h.obj \in Objs \union {Nil}
  BY <1>2 DEF Events
<1>6. \A m \in Namespaces, y \in Names : k[m][y] = IF About(h, m, y) THEN h.obj ELSE c[m][y]
  BY <1>4, <1>5 DEF Maps, About
<1>7. ASSUME NEW m \in Namespaces, NEW y \in Names, k[m][y] # Nil
      PROVE  Reached(k[m][y].gen, v, k, s, last, m, y)
  <2>1. CASE About(h, m, y)
    <3>1. k[m][y] = h.obj /\ h.obj \in Objs /\ h.obj # Nil /\ h.ns = m /\ h.name = y
      BY <1>5, <1>6, <1>7, <2>1 DEF About
    <3>2. 1 \in DOMAIN w
      BY <1>1
    <3>3. h.obj.gen \in Nat /\ h.obj.gen <= last /\ NotAbove(h.obj.gen, s[m][y])
      BY <1>1, <3>1, <3>2 DEF InOrder
    <3>4. ASSUME NEW i \in DOMAIN v, About(v[i], m, y) PROVE NotAbove(h.obj.gen, v[i].obj)
      <4>1. i + 1 \in DOMAIN w /\ 1 < i + 1 /\ v[i] = w[i + 1]
        BY <1>1
      <4>2. w[1].obj # Nil /\ About(w[i + 1], w[1].ns, w[1].name)
        BY <1>1, <3>1, <3>4, <4>1
      <4>3. NotAbove(w[1].obj.gen, w[i + 1].obj)
        BY <3>2, <4>1, <4>2 DEF InOrder
      <4> QED
        BY <1>1, <4>1, <4>3
    <3> QED
      BY <3>1, <3>3, <3>4 DEF Reached, NotAbove
  <2>2. CASE ~About(h, m, y)
    <3>1. k[m][y] = c[m][y] /\ c[m][y] \in Objs
      BY <1>6, <1>7, <2>2 DEF Maps
    <3>2. c[m][y].gen \in Nat /\ Reached(c[m][y].gen, w, c, s, last, m, y)
      BY <1>7, <3>1 DEF InOrder
    <3> QED
      BY <1>3, <3>1, <3>2
  <2> QED
    BY <2>1, <2>2
<1>8. ASSUME NEW i \in DOMAIN v, v[i].obj # Nil
      PROVE  /\ v[i].obj.gen <= last
             /\ NotAbove(v[i].obj.gen, s[v[i].ns][v[i].name])
             /\ \A j \in DOMAIN v : i < j /\ About(v[j], v[i].ns, v[i].name) => NotAbove(v[i].obj.gen, v[j].obj)
  <2>1. i + 1 \in DOMAIN w /\ v[i] = w[i + 1]
    BY <1>1
  <2>2. ASSUME NEW j \in DOMAIN v, i < j, About(v[j], v[i].ns, v[i].name) PROVE NotAbove(v[i].obj.gen, v[j].obj)
    <3>1. j + 1 \in DOMAIN w /\ v[j] = w[j + 1] /\ i + 1 < j + 1
      BY <1>1, <2>2
    <3> QED
      BY <1>8, <2>1, <2>2, <3>1 DEF InOrder
  <2> QED
    BY <1>8, <2>1, <2>2 DEF InOrder
<1> QED
  BY <1>7, <1>8 DEF InOrder, v

\* The process starts: everything is listed anew.
LEMMA OrderFresh ==
  ASSUME NEW Names, NEW Objs, \A o \in Objs : o.gen \in Nat,
         NEW w, NEW c, NEW s \in Maps(Names, Objs), NEW last \in Nat
  PROVE  /\ \A g \in Nat, m \in Namespaces, y \in Names :
              Reached(g, w, c, s, last, m, y) => Reached(g, <<>>, s, s, last, m, y)
         /\ InOrder(Names, w, c, s, last) => InOrder(Names, <<>>, s, s, last)
<1>1. DOMAIN <<>> = {}
  OBVIOUS
<1>2. ASSUME InOrder(Names, w, c, s, last), NEW m \in Namespaces, NEW y \in Names, s[m][y] # Nil
      PROVE  s[m][y].gen <= last /\ Reached(s[m][y].gen, <<>>, s, s, last, m, y)
  <2>1. s[m][y] \in Objs
    BY <1>2 DEF Maps
  <2>2. s[m][y].gen \in Nat /\ s[m][y].gen <= last
    BY <1>2, <2>1 DEF InOrder
  <2> QED
    BY <1>1, <2>2 DEF Reached, NotAbove
<1> QED
  BY <1>1, <1>2 DEF Reached, InOrder

-----------------------------------------------------------------------------
(***************************************************************************)
(* The inputs and the caches: what is reached stays reached.               *)
(***************************************************************************)
DevicesLater ==
  \A g \in Nat, ns \in Namespaces, d \in Devices : DeviceReached(g, ns, d) => DeviceReached(g, ns, d)'

NetworksLater ==
  \A g \in Nat, ns \in Namespaces, n \in Networks : NetworkReached(g, ns, n) => NetworkReached(g, ns, n)'

DevicesOrdered == InOrder(Devices, devWatch, devCache, dev, edits)

NetworksOrdered == InOrder(Networks, netWatch, netCache, net, edits)

LEMMA InputTypes ==
  ASSUME TypeInv
  PROVE  /\ devWatch \in Seq(Events(Devices, DeviceObject)) /\ netWatch \in Seq(Events(Networks, NetworkObject))
         /\ dev \in Maps(Devices, DeviceObject) /\ devCache \in Maps(Devices, DeviceObject)
         /\ net \in Maps(Networks, NetworkObject) /\ netCache \in Maps(Networks, NetworkObject)
         /\ edits \in Nat
         /\ \A o \in DeviceObject : o.gen \in Nat
         /\ \A o \in NetworkObject : o.gen \in Nat
<1>1. /\ Events(Devices, DeviceObject) = DeviceEvent /\ Events(Networks, NetworkObject) = NetworkEvent
      /\ Maps(Devices, DeviceObject) = DeviceMap /\ Maps(Networks, NetworkObject) = NetworkMap
  BY DEF Events, Maps, DeviceEvent, NetworkEvent, DeviceMap, NetworkMap
<1>2. /\ \A o \in DeviceObject : o.gen \in Nat
      /\ \A o \in NetworkObject : o.gen \in Nat
  BY DEF DeviceObject, NetworkObject
<1> QED
  BY <1>1, <1>2 DEF TypeInv, TypeOK, InputsOK, CachesOK, BoundsOK

\* An object of version g that may be stored where old is.
Follows(obj, old, g) ==
  obj # Nil => obj.gen <= g /\ (edits <= obj.gen \/ (old # Nil /\ old.gen <= obj.gen))

LEMMA StoreDeviceLater ==
  ASSUME TypeInv, DevicesOrdered, NEW ns \in Namespaces, NEW d \in Devices,
         NEW obj \in DeviceObject \union {Nil}, StoreDevice(ns, d, obj),
         edits' \in Nat, edits <= edits', Follows(obj, dev[ns][d], edits'), UNCHANGED devCache
  PROVE  DevicesOrdered' /\ DevicesLater
<1> DEFINE e == [ns |-> ns, name |-> d, obj |-> obj]
<1>1. e \in Events(Devices, DeviceObject) /\ e.ns = ns /\ e.name = d /\ e.obj = obj
  BY DEF Events
<1>2. devWatch' = Append(devWatch, e) /\ dev' = [dev EXCEPT ![ns][d] = obj]
  BY DEF StoreDevice
<1> HIDE DEF e
<1>3. obj # Nil => obj.gen <= edits' /\ (edits <= obj.gen \/ (dev[ns][d] # Nil /\ dev[ns][d].gen <= obj.gen))
  BY DEF Follows
<1>4. InOrder(Devices, devWatch', devCache, dev', edits')
  BY <1>1, <1>2, <1>3, InputTypes, OrderStore DEF DevicesOrdered
<1>5. ASSUME NEW g \in Nat, NEW m \in Namespaces, NEW y \in Devices, DeviceReached(g, m, y)
      PROVE  Reached(g, devWatch', devCache, dev', edits', m, y)
  BY <1>1, <1>2, <1>3, <1>5, InputTypes, ReachedStore DEF DeviceReached
<1> QED
  BY <1>4, <1>5 DEF DevicesOrdered, DevicesLater, DeviceReached

LEMMA StoreNetworkLater ==
  ASSUME TypeInv, NetworksOrdered, NEW ns \in Namespaces, NEW n \in Networks,
         NEW obj \in NetworkObject \union {Nil}, StoreNetwork(ns, n, obj),
         edits' \in Nat, edits <= edits', Follows(obj, net[ns][n], edits'), UNCHANGED netCache
  PROVE  NetworksOrdered' /\ NetworksLater
<1> DEFINE e == [ns |-> ns, name |-> n, obj |-> obj]
<1>1. e \in Events(Networks, NetworkObject) /\ e.ns = ns /\ e.name = n /\ e.obj = obj
  BY DEF Events
<1>2. netWatch' = Append(netWatch, e) /\ net' = [net EXCEPT ![ns][n] = obj]
  BY DEF StoreNetwork
<1> HIDE DEF e
<1>3. obj # Nil => obj.gen <= edits' /\ (edits <= obj.gen \/ (net[ns][n] # Nil /\ net[ns][n].gen <= obj.gen))
  BY DEF Follows
<1>4. InOrder(Networks, netWatch', netCache, net', edits')
  BY <1>1, <1>2, <1>3, InputTypes, OrderStore DEF NetworksOrdered
<1>5. ASSUME NEW g \in Nat, NEW m \in Namespaces, NEW y \in Networks, NetworkReached(g, m, y)
      PROVE  Reached(g, netWatch', netCache, net', edits', m, y)
  BY <1>1, <1>2, <1>3, <1>5, InputTypes, ReachedStore DEF NetworkReached
<1> QED
  BY <1>4, <1>5 DEF NetworksOrdered, NetworksLater, NetworkReached

\* Nothing happens to the Devices, or to the Networks; edits may go on.
LEMMA SameLater ==
  ASSUME TypeInv, edits' \in Nat, edits <= edits'
  PROVE  /\ DevicesOrdered /\ UNCHANGED <<devWatch, devCache, dev>> => DevicesOrdered' /\ DevicesLater
         /\ NetworksOrdered /\ UNCHANGED <<netWatch, netCache, net>> => NetworksOrdered' /\ NetworksLater
<1>1. ASSUME NEW Names, NEW Objs, \A o \in Objs : o.gen \in Nat,
             NEW w \in Seq(Events(Names, Objs)), NEW c \in Maps(Names, Objs), NEW s \in Maps(Names, Objs)
      PROVE  /\ \A g \in Nat, ns \in Namespaces, x \in Names :
                  Reached(g, w, c, s, edits, ns, x) => Reached(g, w, c, s, edits', ns, x)
             /\ InOrder(Names, w, c, s, edits) => InOrder(Names, w, c, s, edits')
  <2>0. edits \in Nat
    BY InputTypes
  <2>1. ASSUME NEW g \in Nat, NEW ns \in Namespaces, NEW x \in Names, Reached(g, w, c, s, edits, ns, x)
        PROVE  Reached(g, w, c, s, edits', ns, x)
    <3>1. g <= edits'
      BY <2>0, <2>1 DEF Reached
    <3> QED
      BY <2>1, <3>1 DEF Reached
  <2>2. ASSUME InOrder(Names, w, c, s, edits) PROVE InOrder(Names, w, c, s, edits')
    <3>1. ASSUME NEW ns \in Namespaces, NEW x \in Names, s[ns][x] # Nil PROVE s[ns][x].gen <= edits'
      <4>1. s[ns][x] \in Objs
        BY <3>1 DEF Maps
      <4>2. s[ns][x].gen \in Nat /\ s[ns][x].gen <= edits
        BY <1>1, <2>2, <3>1, <4>1 DEF InOrder
      <4> QED
        BY <2>0, <4>2
    <3>2. ASSUME NEW ns \in Namespaces, NEW x \in Names, c[ns][x] # Nil
          PROVE  Reached(c[ns][x].gen, w, c, s, edits', ns, x)
      <4>1. c[ns][x] \in Objs
        BY <3>2 DEF Maps
      <4>2. c[ns][x].gen \in Nat /\ Reached(c[ns][x].gen, w, c, s, edits, ns, x)
        BY <1>1, <2>2, <3>2, <4>1 DEF InOrder
      <4> QED
        BY <2>1, <4>2
    <3>3. ASSUME NEW i \in DOMAIN w, w[i].obj # Nil PROVE w[i].obj.gen <= edits'
      <4>1. w[i] \in Events(Names, Objs)
        BY LenProperties, ElementOfSeq
      <4>2. w[i].obj \in Objs
        BY <3>3, <4>1 DEF Events
      <4>3. w[i].obj.gen \in Nat /\ w[i].obj.gen <= edits
        BY <1>1, <2>2, <3>3, <4>2 DEF InOrder
      <4> QED
        BY <2>0, <4>3
    <3> QED
      BY <2>2, <3>1, <3>2, <3>3 DEF InOrder
  <2> QED
    BY <2>1, <2>2
<1>2. ASSUME DevicesOrdered, UNCHANGED <<devWatch, devCache, dev>> PROVE DevicesOrdered' /\ DevicesLater
  <2>1. InOrder(Devices, devWatch, devCache, dev, edits')
    BY <1>1, <1>2, InputTypes DEF DevicesOrdered
  <2>2. ASSUME NEW g \in Nat, NEW ns \in Namespaces, NEW x \in Devices, DeviceReached(g, ns, x)
        PROVE  Reached(g, devWatch, devCache, dev, edits', ns, x)
    BY <1>1, <2>2, InputTypes DEF DeviceReached
  <2> QED
    BY <1>2, <2>1, <2>2 DEF DevicesOrdered, DevicesLater, DeviceReached
<1>3. ASSUME NetworksOrdered, UNCHANGED <<netWatch, netCache, net>> PROVE NetworksOrdered' /\ NetworksLater
  <2>1. InOrder(Networks, netWatch, netCache, net, edits')
    BY <1>1, <1>3, InputTypes DEF NetworksOrdered
  <2>2. ASSUME NEW g \in Nat, NEW ns \in Namespaces, NEW x \in Networks, NetworkReached(g, ns, x)
        PROVE  Reached(g, netWatch, netCache, net, edits', ns, x)
    BY <1>1, <2>2, InputTypes DEF NetworkReached
  <2> QED
    BY <1>3, <2>1, <2>2 DEF NetworksOrdered, NetworksLater, NetworkReached
<1> QED
  BY <1>2, <1>3

\* The version of an edit is the next one.
LEMMA UsersLater ==
  ASSUME TypeInv, OrderInv, Users
  PROVE  OrderInv' /\ DevicesLater /\ NetworksLater
<1>1. /\ edits \in Nat /\ edits' = edits + 1 /\ edits' \in Nat /\ edits <= edits'
      /\ UNCHANGED <<devCache, netCache>>
  <2>1. UserEdit
    BY DEF Users, PutDevice, DeleteDevice, PutNetwork, DeleteNetwork
  <2>2. edits' = edits + 1 /\ UNCHANGED <<devCache, netCache>>
    BY <2>1 DEF UserEdit, cacheVars
  <2>3. edits \in Nat
    BY InputTypes
  <2> QED
    BY <2>2, <2>3
<1>2. DevicesOrdered /\ NetworksOrdered
  BY DEF OrderInv, DevicesOrdered, NetworksOrdered
<1>3. ASSUME NEW ns \in Namespaces, NEW d \in Devices, NEW obj \in DeviceObject \union {Nil},
             StoreDevice(ns, d, obj), UNCHANGED <<net, netWatch>>, obj # Nil => obj.gen = edits + 1
      PROVE  OrderInv' /\ DevicesLater /\ NetworksLater
  <2>1. Follows(obj, dev[ns][d], edits')
    BY <1>1, <1>3 DEF Follows
  <2>2. DevicesOrdered' /\ DevicesLater
    BY <1>1, <1>2, <1>3, <2>1, StoreDeviceLater
  <2>3. NetworksOrdered' /\ NetworksLater
    BY <1>1, <1>2, <1>3, SameLater
  <2> QED
    BY <2>2, <2>3 DEF OrderInv, DevicesOrdered, NetworksOrdered
<1>4. ASSUME NEW ns \in Namespaces, NEW n \in Networks, NEW obj \in NetworkObject \union {Nil},
             StoreNetwork(ns, n, obj), UNCHANGED <<dev, devWatch>>, obj # Nil => obj.gen = edits + 1
      PROVE  OrderInv' /\ DevicesLater /\ NetworksLater
  <2>1. Follows(obj, net[ns][n], edits')
    BY <1>1, <1>4 DEF Follows
  <2>2. NetworksOrdered' /\ NetworksLater
    BY <1>1, <1>2, <1>4, <2>1, StoreNetworkLater
  <2>3. DevicesOrdered' /\ DevicesLater
    BY <1>1, <1>2, <1>4, SameLater
  <2> QED
    BY <2>2, <2>3 DEF OrderInv, DevicesOrdered, NetworksOrdered
<1>5. ASSUME NEW ns \in Namespaces, NEW d \in Devices, NEW s \in DeviceSpecs, PutDevice(ns, d, s)
      PROVE  OrderInv' /\ DevicesLater /\ NetworksLater
  <2> DEFINE new == NewDevice(s, edits + 1)
             edited == [dev[ns][d] EXCEPT !.spec = s, !.gen = edits + 1]
  <2>1. new \in DeviceObject /\ new.gen = edits + 1
    BY <1>1, NewObjectType DEF NewDevice
  <2>2. ASSUME dev[ns][d] # Nil PROVE edited \in DeviceObject /\ edited.gen = edits + 1
    <3>1. dev[ns][d] \in DeviceObject /\ s \in DeviceSpec
      BY <2>2, DeviceControllerAssumption DEF TypeInv, TypeOK, InputsOK, DeviceMap
    <3>2. edited \in DeviceObject
      BY <1>1, <3>1, EditedObjectType
    <3>3. edited.gen = edits + 1
      BY <3>1 DEF DeviceObject
    <3> QED
      BY <3>2, <3>3
  <2> HIDE DEF new, edited
  <2>3. \/ StoreDevice(ns, d, new)
        \/ dev[ns][d] # Nil /\ StoreDevice(ns, d, edited)
    BY <1>5, Zenon DEF PutDevice, new, edited
  <2>4. UNCHANGED <<net, netWatch>>
    BY <1>5 DEF PutDevice
  <2> QED
    BY <1>3, <2>1, <2>2, <2>3, <2>4
<1>6. ASSUME NEW ns \in Namespaces, NEW n \in Networks, NEW s \in NetworkSpecs, PutNetwork(ns, n, s)
      PROVE  OrderInv' /\ DevicesLater /\ NetworksLater
  <2> DEFINE new == NewNetwork(s, edits + 1)
             edited == [net[ns][n] EXCEPT !.spec = s, !.gen = edits + 1]
  <2>1. new \in NetworkObject /\ new.gen = edits + 1
    BY <1>1, NewObjectType DEF NewNetwork
  <2>2. ASSUME net[ns][n] # Nil PROVE edited \in NetworkObject /\ edited.gen = edits + 1
    <3>1. net[ns][n] \in NetworkObject /\ s \in NetworkSpec
      BY <2>2, DeviceControllerAssumption DEF TypeInv, TypeOK, InputsOK, NetworkMap
    <3>2. edited \in NetworkObject
      BY <1>1, <3>1, EditedObjectType
    <3>3. edited.gen = edits + 1
      BY <3>1 DEF NetworkObject
    <3> QED
      BY <3>2, <3>3
  <2> HIDE DEF new, edited
  <2>3. \/ StoreNetwork(ns, n, new)
        \/ net[ns][n] # Nil /\ StoreNetwork(ns, n, edited)
    BY <1>6, Zenon DEF PutNetwork, new, edited
  <2>4. UNCHANGED <<dev, devWatch>>
    BY <1>6 DEF PutNetwork
  <2> QED
    BY <1>4, <2>1, <2>2, <2>3, <2>4
<1>7. ASSUME NEW ns \in Namespaces, NEW d \in Devices, DeleteDevice(ns, d)
      PROVE  OrderInv' /\ DevicesLater /\ NetworksLater
  BY <1>3, <1>7 DEF DeleteDevice
<1>8. ASSUME NEW ns \in Namespaces, NEW n \in Networks, DeleteNetwork(ns, n)
      PROVE  OrderInv' /\ DevicesLater /\ NetworksLater
  BY <1>4, <1>8 DEF DeleteNetwork
<1> QED
  BY <1>5, <1>6, <1>7, <1>8, Zenon DEF Users

\* A status keeps the version of the object, or loses to an edit.
LEMMA StatusLater ==
  ASSUME TypeInv, OrderInv
  PROVE  /\ \A d \in Devices : UpdateDeviceStatus(d) => OrderInv' /\ DevicesLater /\ NetworksLater
         /\ \A n \in Networks : UpdateNetworkStatus(n) => OrderInv' /\ DevicesLater /\ NetworksLater
<1>0. DevicesOrdered /\ NetworksOrdered /\ edits \in Nat
  BY InputTypes DEF OrderInv, DevicesOrdered, NetworksOrdered
<1>1. ASSUME NEW d \in Devices, UpdateDeviceStatus(d) PROVE OrderInv' /\ DevicesLater /\ NetworksLater
  <2> DEFINE new == DeviceStatus(snapDev[d], snapNet, ok)
  <2>1. snapDev[d] \in DeviceObject /\ ok \in BOOLEAN
    BY <1>1 DEF UpdateDeviceStatus, First, TypeInv, TypeOK, TodoOK, Existing, WorkOK
  <2>2. new \in DeviceObject /\ new.gen = snapDev[d].gen /\ new.gen \in Nat
    BY <2>1, StatusType, StatusKeepsSpec, InputTypes
  <2>3. req.ns \in Namespaces
    BY <1>1, WorkTypes DEF UpdateDeviceStatus
  <2>4. UNCHANGED <<devCache, netCache, edits>>
    BY <1>1 DEF UpdateDeviceStatus, WriteDeviceStatus, StatusWriteLost, cacheVars, boundVars
  <2> HIDE DEF new
  <2>5. \/ UNCHANGED inputVars
        \/ dev[req.ns][d] = snapDev[d] /\ StoreDevice(req.ns, d, new) /\ UNCHANGED <<net, netWatch>>
    BY <1>1 DEF UpdateDeviceStatus, WriteDeviceStatus, StatusWriteLost, new
  <2>6. CASE UNCHANGED inputVars
    BY <1>0, <2>4, <2>6, SameLater DEF inputVars, OrderInv, DevicesOrdered, NetworksOrdered
  <2>7. CASE dev[req.ns][d] = snapDev[d] /\ StoreDevice(req.ns, d, new) /\ UNCHANGED <<net, netWatch>>
    <3>1. dev[req.ns][d] # Nil
      BY <2>1, <2>7, NilAssumption
    <3>2. snapDev[d].gen <= edits
      BY <1>0, <2>3, <2>7, <3>1 DEF DevicesOrdered, InOrder
    <3>3. Follows(new, dev[req.ns][d], edits')
      BY <2>2, <2>4, <2>7, <3>1, <3>2 DEF Follows
    <3>4. DevicesOrdered' /\ DevicesLater
      BY <1>0, <2>2, <2>3, <2>4, <2>7, <3>3, StoreDeviceLater
    <3>5. NetworksOrdered' /\ NetworksLater
      BY <1>0, <2>4, <2>7, SameLater
    <3> QED
      BY <3>4, <3>5 DEF OrderInv, DevicesOrdered, NetworksOrdered
  <2> QED
    BY <2>5, <2>6, <2>7
<1>2. ASSUME NEW n \in Networks, UpdateNetworkStatus(n) PROVE OrderInv' /\ DevicesLater /\ NetworksLater
  <2> DEFINE new == NetworkStatus(snapNet[n])
  <2>1. snapNet[n] \in NetworkObject
    BY <1>2 DEF UpdateNetworkStatus, First, TypeInv, TypeOK, TodoOK, Existing, WorkOK
  <2>2. new \in NetworkObject /\ new.gen = snapNet[n].gen /\ new.gen \in Nat
    <3>1. new \in NetworkObject
      BY <2>1, StatusType
    <3>2. new.gen = snapNet[n].gen
      BY <2>1 DEF NetworkStatus, NetworkObject
    <3> QED
      BY <3>1, <3>2, InputTypes
  <2>3. req.ns \in Namespaces
    BY <1>2, WorkTypes DEF UpdateNetworkStatus
  <2>4. UNCHANGED <<devCache, netCache, edits>>
    BY <1>2 DEF UpdateNetworkStatus, WriteNetworkStatus, StatusWriteLost, cacheVars, boundVars
  <2> HIDE DEF new
  <2>5. \/ UNCHANGED inputVars
        \/ net[req.ns][n] = snapNet[n] /\ StoreNetwork(req.ns, n, new) /\ UNCHANGED <<dev, devWatch>>
    BY <1>2 DEF UpdateNetworkStatus, WriteNetworkStatus, StatusWriteLost, new
  <2>6. CASE UNCHANGED inputVars
    BY <1>0, <2>4, <2>6, SameLater DEF inputVars, OrderInv, DevicesOrdered, NetworksOrdered
  <2>7. CASE net[req.ns][n] = snapNet[n] /\ StoreNetwork(req.ns, n, new) /\ UNCHANGED <<dev, devWatch>>
    <3>1. net[req.ns][n] # Nil
      BY <2>1, <2>7, NilAssumption
    <3>2. snapNet[n].gen <= edits
      BY <1>0, <2>3, <2>7, <3>1 DEF NetworksOrdered, InOrder
    <3>3. Follows(new, net[req.ns][n], edits')
      BY <2>2, <2>4, <2>7, <3>1, <3>2 DEF Follows
    <3>4. NetworksOrdered' /\ NetworksLater
      BY <1>0, <2>2, <2>3, <2>4, <2>7, <3>3, StoreNetworkLater
    <3>5. DevicesOrdered' /\ DevicesLater
      BY <1>0, <2>4, <2>7, SameLater
    <3> QED
      BY <3>4, <3>5 DEF OrderInv, DevicesOrdered, NetworksOrdered
  <2> QED
    BY <2>5, <2>6, <2>7
<1> QED
  BY <1>1, <1>2

LEMMA DeliverLater ==
  ASSUME TypeInv, OrderInv, DeliverDevice \/ DeliverNetwork
  PROVE  OrderInv' /\ DevicesLater /\ NetworksLater
<1>0. DevicesOrdered /\ NetworksOrdered /\ edits \in Nat
  BY InputTypes DEF OrderInv, DevicesOrdered, NetworksOrdered
<1>1. CASE DeliverDevice
  <2>1. /\ devWatch # <<>> /\ devWatch' = Tail(devWatch) /\ UNCHANGED <<dev, net, netWatch, netCache, edits>>
        /\ devCache' = [devCache EXCEPT ![Head(devWatch).ns][Head(devWatch).name] = Head(devWatch).obj]
    BY <1>1 DEF DeliverDevice, boundVars
  <2>2. InOrder(Devices, devWatch', devCache', dev, edits)
    BY <1>0, <2>1, InputTypes, OrderTail DEF DevicesOrdered
  <2>3. ASSUME NEW g \in Nat, NEW m \in Namespaces, NEW y \in Devices, DeviceReached(g, m, y)
        PROVE  Reached(g, devWatch', devCache', dev, edits, m, y)
    BY <2>1, <2>3, InputTypes, ReachedTail DEF DeviceReached
  <2>4. NetworksOrdered' /\ NetworksLater
    BY <1>0, <2>1, SameLater
  <2> QED
    BY <2>1, <2>2, <2>3, <2>4 DEF OrderInv, DevicesLater, DeviceReached, NetworksOrdered
<1>2. CASE DeliverNetwork
  <2>1. /\ netWatch # <<>> /\ netWatch' = Tail(netWatch) /\ UNCHANGED <<net, dev, devWatch, devCache, edits>>
        /\ netCache' = [netCache EXCEPT ![Head(netWatch).ns][Head(netWatch).name] = Head(netWatch).obj]
    BY <1>2 DEF DeliverNetwork, boundVars
  <2>2. InOrder(Networks, netWatch', netCache', net, edits)
    BY <1>0, <2>1, InputTypes, OrderTail DEF NetworksOrdered
  <2>3. ASSUME NEW g \in Nat, NEW m \in Namespaces, NEW y \in Networks, NetworkReached(g, m, y)
        PROVE  Reached(g, netWatch', netCache', net, edits, m, y)
    BY <2>1, <2>3, InputTypes, ReachedTail DEF NetworkReached
  <2>4. DevicesOrdered' /\ DevicesLater
    BY <1>0, <2>1, SameLater
  <2> QED
    BY <2>1, <2>2, <2>3, <2>4 DEF OrderInv, NetworksLater, NetworkReached, DevicesOrdered
<1> QED
  BY <1>1, <1>2

LEMMA RestartLater ==
  ASSUME TypeInv, OrderInv, Restart
  PROVE  OrderInv' /\ DevicesLater /\ NetworksLater
<1>1. /\ devWatch' = <<>> /\ devCache' = dev /\ netWatch' = <<>> /\ netCache' = net
      /\ UNCHANGED <<dev, net, edits>>
  BY DEF Restart
<1>2. InOrder(Devices, <<>>, dev, dev, edits) /\ InOrder(Networks, <<>>, net, net, edits)
  BY InputTypes, OrderFresh DEF OrderInv
<1>3. ASSUME NEW g \in Nat, NEW m \in Namespaces, NEW y \in Devices, DeviceReached(g, m, y)
      PROVE  Reached(g, <<>>, dev, dev, edits, m, y)
  BY <1>3, InputTypes, OrderFresh DEF DeviceReached
<1>4. ASSUME NEW g \in Nat, NEW m \in Namespaces, NEW y \in Networks, NetworkReached(g, m, y)
      PROVE  Reached(g, <<>>, net, net, edits, m, y)
  BY <1>4, InputTypes, OrderFresh DEF NetworkReached
<1> QED
  BY <1>1, <1>2, <1>3, <1>4 DEF OrderInv, DevicesLater, NetworksLater, DeviceReached, NetworkReached

LEMMA EditsByUsers == Reconcile => UNCHANGED edits
<1>1. CallReturns \/ CallFails => UNCHANGED edits
  BY DEF CallReturns, CallFails, boundVars
<1> QED
  BY <1>1 DEF Reconcile, StartReconcile, ListDevices, ListNetworks, EnsureDnsmasqAnchor, EnsureFreeRadiusAnchor,
     EnsureAnchor, ApplyDhcpOptions, DhcpOptionsFail, ApplyDhcpHosts, ApplyDnsHosts, ApplyFreeRadius,
     DeleteDhcpHosts, DeleteDnsHosts, DeleteFreeRadius, EndLoop, CallLost, UpdateDeviceStatus, UpdateNetworkStatus,
     WriteDeviceStatus, WriteNetworkStatus, StatusWriteLost, boundVars

LEMMA OrderStep ==
  ASSUME TypeInv, OrderInv, [Next]_vars
  PROVE  OrderInv' /\ DevicesLater /\ NetworksLater
<1>0. ASSUME UNCHANGED <<inputVars, devCache, netCache, edits>>
      PROVE  OrderInv' /\ DevicesLater /\ NetworksLater
  BY <1>0 DEF OrderInv, DevicesLater, NetworksLater, DeviceReached, NetworkReached, inputVars
<1>1. CASE Users
  BY <1>1, UsersLater
<1>2. CASE DeliverDevice \/ DeliverNetwork
  BY <1>2, DeliverLater
<1>3. CASE DeliverAnchor \/ UNCHANGED vars
  BY <1>0, <1>3 DEF DeliverAnchor, vars, cacheVars, boundVars
<1>4. CASE Reconcile
  <2>1. UNCHANGED <<devCache, netCache, edits>>
    BY <1>4, ReconcileReads, EditsByUsers DEF cacheVars
  <2> QED
    BY <1>0, <1>4, <2>1, ReconcileReads, StatusLater
<1>5. CASE Restart
  BY <1>5, RestartLater
<1> QED
  BY <1>1, <1>2, <1>3, <1>4, <1>5 DEF Next

-----------------------------------------------------------------------------
(***************************************************************************)
(* What a reconcile has listed comes from the caches.                      *)
(***************************************************************************)
LEMMA SnapshotStep ==
  ASSUME TypeInv, SnapshotInv, [Next]_vars
  PROVE  /\ \A d \in Devices : snapDev'[d] # Nil =>
              /\ pc # "idle" /\ pc' # "idle" /\ req' = req
              /\ snapDev'[d] = snapDev[d] \/ snapDev'[d] = devCache[req.ns][d]
         /\ \A n \in Networks : snapNet'[n] # Nil =>
              /\ pc # "idle" /\ pc' # "idle" /\ req' = req
              /\ snapNet'[n] = snapNet[n] \/ snapNet'[n] = netCache[req.ns][n]
<1> DEFINE Goal == /\ \A d \in Devices : snapDev'[d] # Nil =>
                        /\ pc # "idle" /\ pc' # "idle" /\ req' = req
                        /\ snapDev'[d] = snapDev[d] \/ snapDev'[d] = devCache[req.ns][d]
                   /\ \A n \in Networks : snapNet'[n] # Nil =>
                        /\ pc # "idle" /\ pc' # "idle" /\ req' = req
                        /\ snapNet'[n] = snapNet[n] \/ snapNet'[n] = netCache[req.ns][n]
<1> SUFFICES Goal
  OBVIOUS
<1>1. ASSUME Return PROVE Goal
  BY <1>1 DEF Return, NoDevices, NoNetworks
<1>2. ASSUME UNCHANGED workVars PROVE Goal
  BY <1>2 DEF workVars, SnapshotInv
<1>3. CASE Users
  BY <1>2, <1>3, UsersFrame
<1>4. CASE DeliverDevice \/ DeliverNetwork \/ DeliverAnchor \/ UNCHANGED vars
  BY <1>2, <1>4 DEF DeliverDevice, DeliverNetwork, DeliverAnchor, vars
<1>5. CASE Restart
  BY <1>1, <1>5 DEF Restart
<1>6. CASE Reconcile
  <2>1. ASSUME NEW r \in queue, StartReconcile(r) PROVE Goal
    BY <2>1 DEF StartReconcile, SnapshotInv
  <2>2. ASSUME ListDevices \/ ListNetworks PROVE Goal
    BY <2>2 DEF ListDevices, ListNetworks, SnapshotInv
  <2>3. ASSUME Continues PROVE Goal
    BY <2>3 DEF Continues, Reading, SnapshotInv
  <2>4. ASSUME ReturnError \/ ReturnNil PROVE Goal
    BY <1>1, <2>4 DEF ReturnError, ReturnNil
  <2> HIDE DEF Goal
  <2> QED
    BY <1>6, <2>1, <2>2, <2>3, <2>4, ReconcileSteps
<1> QED
  BY <1>3, <1>4, <1>5, <1>6 DEF Next

LEMMA SnapshotKept ==
  ASSUME TypeInv, OrderInv, SnapshotInv, [Next]_vars
  PROVE  SnapshotInv'
<1>1. DevicesLater /\ NetworksLater
  BY OrderStep
<1>2. ASSUME NEW d \in Devices, snapDev'[d] # Nil
      PROVE  pc' # "idle" /\ DeviceReached(snapDev[d].gen, req.ns, d)'
  <2>1. /\ pc # "idle" /\ pc' # "idle" /\ req' = req
        /\ snapDev'[d] = snapDev[d] \/ snapDev'[d] = devCache[req.ns][d]
    BY <1>2, SnapshotStep
  <2>2. req.ns \in Namespaces /\ snapDev[d] \in DeviceObject \union {Nil}
        /\ devCache[req.ns][d] \in DeviceObject \union {Nil}
    BY <2>1, WorkTypes DEF DeviceList, TypeInv, TypeOK, CachesOK, DeviceMap
  <2>3. PICK obj \in {snapDev[d], devCache[req.ns][d]} : obj = snapDev'[d]
    BY <2>1
  <2>4. obj \in DeviceObject /\ obj.gen \in Nat
    BY <1>2, <2>2, <2>3, InputTypes
  <2>5. DeviceReached(obj.gen, req.ns, d)
    BY <1>2, <2>1, <2>2, <2>3 DEF SnapshotInv, OrderInv, InOrder, DeviceReached
  <2>6. DeviceReached(obj.gen, req.ns, d)'
    BY <1>1, <2>1, <2>2, <2>4, <2>5 DEF DevicesLater
  <2> QED
    BY <2>1, <2>3, <2>6
<1>3. ASSUME NEW n \in Networks, snapNet'[n] # Nil
      PROVE  pc' # "idle" /\ NetworkReached(snapNet[n].gen, req.ns, n)'
  <2>1. /\ pc # "idle" /\ pc' # "idle" /\ req' = req
        /\ snapNet'[n] = snapNet[n] \/ snapNet'[n] = netCache[req.ns][n]
    BY <1>3, SnapshotStep
  <2>2. req.ns \in Namespaces /\ snapNet[n] \in NetworkObject \union {Nil}
        /\ netCache[req.ns][n] \in NetworkObject \union {Nil}
    BY <2>1, WorkTypes DEF NetworkList, TypeInv, TypeOK, CachesOK, NetworkMap
  <2>3. PICK obj \in {snapNet[n], netCache[req.ns][n]} : obj = snapNet'[n]
    BY <2>1
  <2>4. obj \in NetworkObject /\ obj.gen \in Nat
    BY <1>3, <2>2, <2>3, InputTypes
  <2>5. NetworkReached(obj.gen, req.ns, n)
    BY <1>3, <2>1, <2>2, <2>3 DEF SnapshotInv, OrderInv, InOrder, NetworkReached
  <2>6. NetworkReached(obj.gen, req.ns, n)'
    BY <1>1, <2>1, <2>2, <2>4, <2>5 DEF NetworksLater
  <2> QED
    BY <2>1, <2>3, <2>6
<1> QED
  BY <1>2, <1>3 DEF SnapshotInv

-----------------------------------------------------------------------------
(***************************************************************************)
(* What is written comes from the snapshot.                                *)
(***************************************************************************)
ListedDevice(e) ==
  /\ pc # "idle" /\ e.ns = req.ns
  /\ e.name \in Devices /\ snapDev[e.name] # Nil /\ e.gen = snapDev[e.name].gen

ListedNetwork(e) ==
  /\ pc # "idle" /\ e.ns = req.ns
  /\ e.name \in Networks /\ snapNet[e.name] # Nil /\ e.gen = snapNet[e.name].gen

LEMMA SpecsListed ==
  ASSUME TypeInv, pc # "idle"
  PROVE  /\ \A e \in DhcpOptionsSpec(req.ns, snapNet) : ListedNetwork(e)
         /\ \A n : \A e \in DhcpHostsSpec(req.ns, snapDev, snapNet, n) : ListedDevice(e)
         /\ \A n : \A e \in DnsHostsSpec(req.ns, snapDev, snapNet, n) : ListedDevice(e)
         /\ \A d \in WantedFreeRadius :
              /\ ListedDevice(FreeRadiusDeviceSpec(req.ns, snapDev, snapNet, d).device)
              /\ ListedNetwork(FreeRadiusDeviceSpec(req.ns, snapDev, snapNet, d).network)
<1>1. \A d \in Existing(snapDev) : ListedDevice(Entry(req.ns, d, snapDev[d]))
  BY WorkTypes DEF DeviceList, Existing, Entry, ListedDevice
<1>2. \A n \in Existing(snapNet) : ListedNetwork(Entry(req.ns, n, snapNet[n]))
  BY WorkTypes DEF NetworkList, Existing, Entry, ListedNetwork
<1>3. \A e \in DhcpOptionsSpec(req.ns, snapNet) : ListedNetwork(e)
  BY <1>2 DEF DhcpOptionsSpec
<1>4. \A n : \A e \in DhcpHostsSpec(req.ns, snapDev, snapNet, n) : ListedDevice(e)
  BY <1>1 DEF DhcpHostsSpec, OnNetwork
<1>5. \A n : \A e \in DnsHostsSpec(req.ns, snapDev, snapNet, n) : ListedDevice(e)
  BY <1>1 DEF DnsHostsSpec, OnNetwork
<1>6. ASSUME NEW d \in WantedFreeRadius
      PROVE  /\ ListedDevice(FreeRadiusDeviceSpec(req.ns, snapDev, snapNet, d).device)
             /\ ListedNetwork(FreeRadiusDeviceSpec(req.ns, snapDev, snapNet, d).network)
  <2>1. d \in Existing(snapDev) /\ snapDev[d].spec.network \in Existing(snapNet)
    BY DEF WantedFreeRadius, FreeRadiusNames
  <2> QED
    BY <1>1, <1>2, <2>1 DEF FreeRadiusDeviceSpec
<1> QED
  BY <1>3, <1>4, <1>5, <1>6

\* An object that a step changes is deleted or rendered from the snapshot.
WritesListed ==
  /\ options' \notin {options, Nil} => \A e \in options' : ListedNetwork(e)
  /\ \A n \in Networks :
       /\ dhcpHosts'[n] # dhcpHosts[n] => \A e \in dhcpHosts'[n] : ListedDevice(e)
       /\ dnsHosts'[n] # dnsHosts[n] => \A e \in dnsHosts'[n] : ListedDevice(e)
  /\ \A d \in Devices : freeRadius'[d] \notin {freeRadius[d], Nil} =>
       ListedDevice(freeRadius'[d].device) /\ ListedNetwork(freeRadius'[d].network)

LEMMA PutsListed ==
  ASSUME TypeInv, pc # "idle"
  PROVE  /\ PutDhcpOptions => WritesListed
         /\ \A n \in Networks : PutDhcpHosts(n) \/ PutDnsHosts(n) => WritesListed
         /\ \A d \in WantedFreeRadius : PutFreeRadius(d) => WritesListed
<1>1. ASSUME PutDhcpOptions PROVE WritesListed
  BY <1>1, SpecsListed DEF PutDhcpOptions, WritesListed
<1>2. ASSUME NEW n \in Networks, PutDhcpHosts(n) PROVE WritesListed
  <2>1. \A m \in Networks :
          dhcpHosts'[m] = dhcpHosts[m] \/ dhcpHosts'[m] = DhcpHostsSpec(req.ns, snapDev, snapNet, m)
    BY <1>2 DEF PutDhcpHosts, TypeInv, TypeOK, OutputsOK
  <2> QED
    BY <1>2, <2>1, SpecsListed DEF PutDhcpHosts, WritesListed
<1>3. ASSUME NEW n \in Networks, PutDnsHosts(n) PROVE WritesListed
  <2>1. \A m \in Networks :
          dnsHosts'[m] = dnsHosts[m] \/ dnsHosts'[m] = DnsHostsSpec(req.ns, snapDev, snapNet, m)
    BY <1>3 DEF PutDnsHosts, TypeInv, TypeOK, OutputsOK
  <2> QED
    BY <1>3, <2>1, SpecsListed DEF PutDnsHosts, WritesListed
<1>4. ASSUME NEW d \in WantedFreeRadius, PutFreeRadius(d) PROVE WritesListed
  <2>1. \A c \in Devices :
          \/ freeRadius'[c] = freeRadius[c]
          \/ c = d /\ freeRadius'[c] = FreeRadiusDeviceSpec(req.ns, snapDev, snapNet, d)
    BY <1>4 DEF PutFreeRadius, TypeInv, TypeOK, OutputsOK
  <2> QED
    BY <1>4, <2>1, SpecsListed DEF PutFreeRadius, WritesListed
<1> QED
  BY <1>1, <1>2, <1>3, <1>4

LEMMA DeletesListed ==
  ASSUME TypeInv
  PROVE  /\ \A n \in Networks : DeleteDhcpHosts(n) \/ DeleteDnsHosts(n) => WritesListed
         /\ \A d \in Devices : DeleteFreeRadius(d) => WritesListed
<1>1. ASSUME NEW n \in Networks, DeleteDhcpHosts(n) PROVE WritesListed
  <2>1. \A m \in Networks : dhcpHosts'[m] = dhcpHosts[m] \/ dhcpHosts'[m] = {}
    BY <1>1 DEF DeleteDhcpHosts, TypeInv, TypeOK, OutputsOK
  <2> QED
    BY <1>1, <2>1 DEF DeleteDhcpHosts, WritesListed
<1>2. ASSUME NEW n \in Networks, DeleteDnsHosts(n) PROVE WritesListed
  <2>1. \A m \in Networks : dnsHosts'[m] = dnsHosts[m] \/ dnsHosts'[m] = {}
    BY <1>2 DEF DeleteDnsHosts, TypeInv, TypeOK, OutputsOK
  <2> QED
    BY <1>2, <2>1 DEF DeleteDnsHosts, WritesListed
<1>3. ASSUME NEW d \in Devices, DeleteFreeRadius(d) PROVE WritesListed
  <2>1. \A c \in Devices : freeRadius'[c] = freeRadius[c] \/ freeRadius'[c] = Nil
    BY <1>3 DEF DeleteFreeRadius, TypeInv, TypeOK, OutputsOK
  <2> QED
    BY <1>3, <2>1 DEF DeleteFreeRadius, WritesListed
<1> QED
  BY <1>1, <1>2, <1>3

LEMMA WritesStep == TypeInv /\ [Next]_vars => WritesListed
<1> SUFFICES ASSUME TypeInv, [Next]_vars PROVE WritesListed
  OBVIOUS
<1>0. ASSUME UNCHANGED <<options, dhcpHosts, dnsHosts, freeRadius>> PROVE WritesListed
  BY <1>0 DEF WritesListed
<1>1. CASE Users
  BY <1>0, <1>1, UsersFrame DEF outVars
<1>2. CASE DeliverDevice \/ DeliverNetwork \/ DeliverAnchor \/ Restart \/ UNCHANGED vars
  BY <1>0, <1>2 DEF DeliverDevice, DeliverNetwork, DeliverAnchor, Restart, vars, outVars
<1>3. CASE Reconcile
  <2>1. ASSUME NEW n \in Networks, ApplyDhcpHosts(n) \/ ApplyDnsHosts(n) PROVE WritesListed
    <3>1. pc # "idle" /\ (PutDhcpHosts(n) \/ PutDnsHosts(n))
      BY <2>1 DEF ApplyDhcpHosts, ApplyDnsHosts
    <3> QED
      BY <3>1, PutsListed
  <2>2. ASSUME NEW d \in Devices, ApplyFreeRadius(d) PROVE WritesListed
    <3>1. pc # "idle" /\ PutFreeRadius(d) /\ d \in WantedFreeRadius
      BY <2>2 DEF ApplyFreeRadius, TypeInv, TodoOK
    <3> QED
      BY <3>1, PutsListed
  <2>3. ASSUME ApplyDhcpOptions \/ DhcpOptionsFail PROVE WritesListed
    <3>1. pc # "idle" /\ (PutDhcpOptions \/ UNCHANGED outVars)
      BY <2>3 DEF ApplyDhcpOptions, DhcpOptionsFail
    <3> QED
      BY <1>0, <3>1, PutsListed DEF outVars
  <2>4. ASSUME EnsureDnsmasqAnchor \/ EnsureFreeRadiusAnchor PROVE WritesListed
    BY <1>0, <2>4 DEF EnsureDnsmasqAnchor, EnsureFreeRadiusAnchor, EnsureAnchor, PutAnchor, outVars
  <2>5. ASSUME (\E r \in queue : StartReconcile(r)) \/ ListDevices \/ ListNetworks \/ EndLoop \/ CallLost
        PROVE  WritesListed
    BY <1>0, <2>5 DEF StartReconcile, ListDevices, ListNetworks, EndLoop, CallLost, outVars
  <2>6. ASSUME \/ \E d \in Devices : UpdateDeviceStatus(d)
               \/ \E n \in Networks : UpdateNetworkStatus(n)
        PROVE  WritesListed
    BY <1>0, <2>6 DEF UpdateDeviceStatus, UpdateNetworkStatus, outVars
  <2> QED
    BY <1>3, <2>1, <2>2, <2>3, <2>4, <2>5, <2>6, DeletesListed DEF Reconcile
<1> QED
  BY <1>1, <1>2, <1>3 DEF Next

-----------------------------------------------------------------------------
(***************************************************************************)
(* What is published is reached, and no version above what was listed.     *)
(***************************************************************************)
LEMMA EntryTypes ==
  ASSUME TypeInv
  PROVE  DeviceEntries \subseteq EntryType /\ NetworkEntries \subseteq EntryType
<1>1. \A d \in Existing(freeRadius) : freeRadius[d].device \in EntryType /\ freeRadius[d].network \in EntryType
  BY DEF TypeInv, TypeOK, OutputsOK, Existing, FreeRadiusObject
<1>2. \A n \in Networks : dhcpHosts[n] \subseteq EntryType /\ dnsHosts[n] \subseteq EntryType
  BY DEF TypeInv, TypeOK, OutputsOK
<1>3. ASSUME NEW e \in DeviceEntries PROVE e \in EntryType
  <2>1. CASE \E n \in Networks : e \in dhcpHosts[n] \union dnsHosts[n]
    BY <1>2, <2>1
  <2>2. CASE \E d \in Existing(freeRadius) : e = freeRadius[d].device
    BY <1>1, <2>2
  <2> QED
    BY <2>1, <2>2 DEF DeviceEntries
<1>4. NetworkEntries \subseteq EntryType
  BY <1>1 DEF NetworkEntries, TypeInv, TypeOK, OutputsOK
<1> QED
  BY <1>3, <1>4

\* An entry that is published after a step was published before or is new.
LEMMA EntriesFrom ==
  ASSUME TypeInv, TypeInv', WritesListed
  PROVE  /\ \A e \in DeviceEntries' : e \in DeviceEntries \/ ListedDevice(e)
         /\ \A e \in NetworkEntries' : e \in NetworkEntries \/ ListedNetwork(e)
<1>1. DOMAIN freeRadius = Devices /\ DOMAIN freeRadius' = Devices
  BY DEF TypeInv, TypeOK, OutputsOK
<1>2. ASSUME NEW d \in Existing(freeRadius')
      PROVE  /\ freeRadius'[d].device \in DeviceEntries \/ ListedDevice(freeRadius'[d].device)
             /\ freeRadius'[d].network \in NetworkEntries \/ ListedNetwork(freeRadius'[d].network)
  <2>1. d \in Devices /\ freeRadius'[d] # Nil
    BY <1>1, <1>2 DEF Existing
  <2>2. CASE freeRadius'[d] = freeRadius[d]
    <3>1. d \in Existing(freeRadius)
      BY <1>1, <2>1, <2>2 DEF Existing
    <3>2. freeRadius[d].device \in DeviceEntries
      BY <3>1 DEF DeviceEntries
    <3>3. freeRadius[d].network \in NetworkEntries
      BY <3>1 DEF NetworkEntries
    <3> QED
      BY <2>2, <3>2, <3>3
  <2>3. CASE freeRadius'[d] # freeRadius[d]
    BY <2>1, <2>3 DEF WritesListed
  <2> QED
    BY <2>2, <2>3
<1>3. ASSUME NEW n \in Networks, NEW e \in dhcpHosts'[n] \union dnsHosts'[n]
      PROVE  e \in DeviceEntries \/ ListedDevice(e)
  <2>1. CASE e \in dhcpHosts[n] \union dnsHosts[n]
    BY <2>1 DEF DeviceEntries
  <2>2. CASE e \notin dhcpHosts[n] \union dnsHosts[n]
    BY <1>3, <2>2 DEF WritesListed
  <2> QED
    BY <2>1, <2>2
<1>4. ASSUME options' # Nil, NEW e \in options' PROVE e \in NetworkEntries \/ ListedNetwork(e)
  <2>1. CASE options' = options
    BY <1>4, <2>1 DEF NetworkEntries
  <2>2. CASE options' # options
    BY <1>4, <2>2 DEF WritesListed
  <2> QED
    BY <2>1, <2>2
<1>5. ASSUME NEW e \in DeviceEntries' PROVE e \in DeviceEntries \/ ListedDevice(e)
  <2>1. \/ \E n \in Networks : e \in dhcpHosts'[n] \union dnsHosts'[n]
        \/ \E d \in Existing(freeRadius') : e = freeRadius'[d].device
    BY DEF DeviceEntries
  <2>2. CASE \E n \in Networks : e \in dhcpHosts'[n] \union dnsHosts'[n]
    BY <1>3, <2>2
  <2>3. CASE \E d \in Existing(freeRadius') : e = freeRadius'[d].device
    BY <1>2, <2>3
  <2> QED
    BY <2>1, <2>2, <2>3
<1>6. ASSUME NEW e \in NetworkEntries' PROVE e \in NetworkEntries \/ ListedNetwork(e)
  <2>1. \/ options' # Nil /\ e \in options'
        \/ \E d \in Existing(freeRadius') : e = freeRadius'[d].network
    BY DEF NetworkEntries
  <2>2. CASE options' # Nil /\ e \in options'
    BY <1>4, <2>2
  <2>3. CASE \E d \in Existing(freeRadius') : e = freeRadius'[d].network
    BY <1>2, <2>3
  <2> QED
    BY <2>1, <2>2, <2>3
<1> QED
  BY <1>5, <1>6

LEMMA EntriesKept ==
  ASSUME VersionInv, TypeInv', [Next]_vars
  PROVE  EntriesInv'
<1> USE DEF VersionInv
<1>0. DevicesLater /\ NetworksLater /\ WritesListed
  BY OrderStep, WritesStep
<1>1. ASSUME NEW e \in DeviceEntries'
      PROVE  /\ e.name \in Devices /\ Reached(e.gen, devWatch', devCache', dev', edits', e.ns, e.name)
             /\ pc' # "idle" /\ e.ns = req'.ns => NotAbove(e.gen, snapDev'[e.name])
  <2>1. e \in DeviceEntries \/ ListedDevice(e)
    BY <1>0, EntriesFrom
  <2>2. e.ns \in Namespaces /\ e.gen \in Nat
    <3>1. CASE e \in DeviceEntries
      BY <3>1, EntryTypes DEF EntryType
    <3>2. CASE ListedDevice(e)
      <4>1. req.ns \in Namespaces /\ snapDev[e.name] \in DeviceObject
        BY <3>2, WorkTypes DEF ListedDevice, DeviceList
      <4> QED
        BY <3>2, <4>1, InputTypes DEF ListedDevice
    <3> QED
      BY <2>1, <3>1, <3>2
  <2>3. e.name \in Devices /\ DeviceReached(e.gen, e.ns, e.name)
    BY <2>1 DEF EntriesInv, SnapshotInv, ListedDevice
  <2>4. Reached(e.gen, devWatch', devCache', dev', edits', e.ns, e.name)
    BY <1>0, <2>2, <2>3 DEF DevicesLater, DeviceReached
  <2>5. ASSUME pc' # "idle", e.ns = req'.ns, snapDev'[e.name] # Nil PROVE e.gen <= snapDev'[e.name].gen
    <3>1. /\ pc # "idle" /\ req' = req
          /\ snapDev'[e.name] = snapDev[e.name] \/ snapDev'[e.name] = devCache[req.ns][e.name]
      BY <2>3, <2>5, SnapshotStep
    <3>2. CASE snapDev'[e.name] = snapDev[e.name]
      <4>1. CASE e \in DeviceEntries
        BY <2>5, <3>1, <3>2, <4>1 DEF EntriesInv, NotAbove
      <4>2. CASE ListedDevice(e)
        BY <2>2, <3>2, <4>2 DEF ListedDevice
      <4> QED
        BY <2>1, <4>1, <4>2
    <3>3. CASE snapDev'[e.name] = devCache[req.ns][e.name]
      BY <2>3, <2>5, <3>1, <3>3 DEF DeviceReached, Reached, NotAbove
    <3> QED
      BY <3>1, <3>2, <3>3
  <2> QED
    BY <2>3, <2>4, <2>5 DEF NotAbove
<1>2. ASSUME NEW e \in NetworkEntries'
      PROVE  /\ e.name \in Networks /\ Reached(e.gen, netWatch', netCache', net', edits', e.ns, e.name)
             /\ pc' # "idle" /\ e.ns = req'.ns => NotAbove(e.gen, snapNet'[e.name])
  <2>1. e \in NetworkEntries \/ ListedNetwork(e)
    BY <1>0, EntriesFrom
  <2>2. e.ns \in Namespaces /\ e.gen \in Nat
    <3>1. CASE e \in NetworkEntries
      BY <3>1, EntryTypes DEF EntryType
    <3>2. CASE ListedNetwork(e)
      <4>1. req.ns \in Namespaces /\ snapNet[e.name] \in NetworkObject
        BY <3>2, WorkTypes DEF ListedNetwork, NetworkList
      <4> QED
        BY <3>2, <4>1, InputTypes DEF ListedNetwork
    <3> QED
      BY <2>1, <3>1, <3>2
  <2>3. e.name \in Networks /\ NetworkReached(e.gen, e.ns, e.name)
    BY <2>1 DEF EntriesInv, SnapshotInv, ListedNetwork
  <2>4. Reached(e.gen, netWatch', netCache', net', edits', e.ns, e.name)
    BY <1>0, <2>2, <2>3 DEF NetworksLater, NetworkReached
  <2>5. ASSUME pc' # "idle", e.ns = req'.ns, snapNet'[e.name] # Nil PROVE e.gen <= snapNet'[e.name].gen
    <3>1. /\ pc # "idle" /\ req' = req
          /\ snapNet'[e.name] = snapNet[e.name] \/ snapNet'[e.name] = netCache[req.ns][e.name]
      BY <2>3, <2>5, SnapshotStep
    <3>2. CASE snapNet'[e.name] = snapNet[e.name]
      <4>1. CASE e \in NetworkEntries
        BY <2>5, <3>1, <3>2, <4>1 DEF EntriesInv, NotAbove
      <4>2. CASE ListedNetwork(e)
        BY <2>2, <3>2, <4>2 DEF ListedNetwork
      <4> QED
        BY <2>1, <4>1, <4>2
    <3>3. CASE snapNet'[e.name] = netCache[req.ns][e.name]
      BY <2>3, <2>5, <3>1, <3>3 DEF NetworkReached, Reached, NotAbove
    <3> QED
      BY <3>1, <3>2, <3>3
  <2> QED
    BY <2>3, <2>4, <2>5 DEF NotAbove
<1> QED
  BY <1>1, <1>2 DEF EntriesInv, DeviceReached, NetworkReached

LEMMA VersionStep == VersionInv /\ [Next]_vars => VersionInv'
<1> SUFFICES ASSUME VersionInv, [Next]_vars PROVE VersionInv'
  OBVIOUS
<1>1. TypeInv'
  BY TypeInvStep DEF VersionInv
<1>2. OrderInv' /\ SnapshotInv'
  BY OrderStep, SnapshotKept DEF VersionInv
<1>3. EntriesInv'
  BY <1>1, EntriesKept
<1> QED
  BY <1>1, <1>2, <1>3 DEF VersionInv

LEMMA NewVersion ==
  ASSUME NEW s, NEW g
  PROVE  NewDevice(s, g).gen = g /\ NewNetwork(s, g).gen = g
BY DEF NewDevice, NewNetwork

LEMMA InitVersion == Init => VersionInv
<1> SUFFICES ASSUME Init PROVE VersionInv
  OBVIOUS
<1>1. TypeInv
  BY InitTypeInv
<1>2. OrderInv
  <2>1. devWatch = <<>> /\ netWatch = <<>> /\ devCache = dev /\ netCache = net /\ edits = 1
    BY DEF Init
  <2>2. /\ \A ns \in Namespaces, d \in Devices : dev[ns][d] # Nil => dev[ns][d].gen = 1
        /\ \A ns \in Namespaces, n \in Networks : net[ns][n] # Nil => net[ns][n].gen = 1
    <3>1. ASSUME NEW ns \in Namespaces, NEW d \in Devices, dev[ns][d] # Nil PROVE dev[ns][d].gen = 1
      <4>1. PICK s \in DeviceSpecs : dev[ns][d] = NewDevice(s, 1)
        BY <3>1 DEF Init
      <4> QED
        BY <4>1, NewVersion
    <3>2. ASSUME NEW ns \in Namespaces, NEW n \in Networks, net[ns][n] # Nil PROVE net[ns][n].gen = 1
      <4>1. PICK s \in NetworkSpecs : net[ns][n] = NewNetwork(s, 1)
        BY <3>2 DEF Init
      <4> QED
        BY <4>1, NewVersion
    <3> QED
      BY <3>1, <3>2
  <2>3. DOMAIN <<>> = {}
    OBVIOUS
  <2> QED
    BY <2>1, <2>2, <2>3 DEF OrderInv, InOrder, Reached, NotAbove
<1>3. SnapshotInv
  BY DEF Init, SnapshotInv, NoDevices, NoNetworks
<1>4. EntriesInv
  <2>1. DeviceEntries = {} /\ NetworkEntries = {}
    BY DEF Init, DeviceEntries, NetworkEntries, Existing
  <2> QED
    BY <2>1 DEF EntriesInv
<1> QED
  BY <1>1, <1>2, <1>3, <1>4 DEF VersionInv

\* What was listed is no older than what is published of the same namespace.
LEMMA ListedNotOlder ==
  ASSUME EntriesInv, NEW e
  PROVE  /\ ListedDevice(e) => \A f \in DeviceEntries : e.ns = f.ns /\ e.name = f.name => f.gen <= e.gen
         /\ ListedNetwork(e) => \A f \in NetworkEntries : e.ns = f.ns /\ e.name = f.name => f.gen <= e.gen
BY DEF EntriesInv, ListedDevice, ListedNetwork, NotAbove

\* However caches lag behind and whatever fails, crashes or is retried, in any
\* number of namespaces: once a version of a Device or a Network has been
\* published, nothing older is written into any object as long as it is there.
THEOREM VersionsNeverGoBack == Spec => NeverGoesBack
<1>1. VersionInv /\ [Next]_vars => [NoOlderVersion]_vars
  <2> SUFFICES ASSUME VersionInv, [Next]_vars PROVE NoOlderVersion
    OBVIOUS
  <2>1. WritesListed /\ EntriesInv
    BY WritesStep DEF VersionInv
  <2>2. /\ \A e : ListedDevice(e) => NoneOlder({e}, DeviceEntries)
        /\ \A e : ListedNetwork(e) => NoneOlder({e}, NetworkEntries)
    BY <2>1, ListedNotOlder DEF NoneOlder
  <2>3. /\ \A S : (\A e \in S : ListedDevice(e)) => NoneOlder(S, DeviceEntries)
        /\ \A S : (\A e \in S : ListedNetwork(e)) => NoneOlder(S, NetworkEntries)
    BY <2>1, ListedNotOlder DEF NoneOlder
  <2> QED
    BY <2>1, <2>2, <2>3 DEF WritesListed, NoOlderVersion
<1> QED
  BY <1>1, InitVersion, VersionStep, PTL DEF Spec, NeverGoesBack

=============================================================================
