-------------------------- MODULE IngressDNSProofs --------------------------
(***************************************************************************)
(* Proofs about IngressDNS, for any routers, Ingresses, HTTPRoutes, edits, *)
(* failures and crashes: its types, what a dry run leaves alone, that it   *)
(* implements Publisher, that a class resolves to its router, what is      *)
(* published when it rests, and what a Ready router says.                  *)
(***************************************************************************)
EXTENDS IngressDNS, SequenceTheorems, NaturalsInduction, WellFoundedInduction, TLAPS

-----------------------------------------------------------------------------
(***************************************************************************)
(* Types.  IngressTypeOK is not inductive: the positions a reconcile works *)
(* from must not be before the ones published last, the routers whose      *)
(* status is to be written must exist in what was listed, and what is      *)
(* published must be what BuildIngressBased makes of some states.  The     *)
(* first two are TypeInv; the last, PublishedInv, comes with the proof     *)
(* that a class resolves to its router.                                    *)
(***************************************************************************)
Stages == {"idle", "anchor", "list", "listIngresses", "listRoutes", "apply", "status"}

StateSet(k) ==
  CASE k = "anchor" -> Nat
    [] k = "routers" -> States(Routers, Router)
    [] k = "ingresses" -> States(Ingresses, IngressSpecs)
    [] k = "routes" -> States(Routes, RouteSpecs)

LogOK == DOMAIN log = Kinds /\ \A k \in Kinds : log[k] \in Seq(StateSet(k))

\* The kinds read from caches, and those a reconcile has read so far.
CachedSources == {"routers", "ingresses"}

ReadBy(stage) ==
  CASE stage = "listIngresses" -> {"routers"}
    [] stage = "listRoutes" -> {"routers", "ingresses"}
    [] stage \in {"apply", "status"} -> {"routers", "ingresses", "routes"}
    [] OTHER -> {}

\* Positions that a write may be built from.
Readable(v) ==
  /\ v \in [Sources -> Nat \ {0}]
  /\ \A s \in Sources : v[s] <= Len(log[s])
  /\ \A s \in CachedSources : v[s] <= seen[s]
  /\ ~useRoutes => v["routes"] = 1

CachesOK ==
  /\ seen \in [Kinds -> Nat \ {0}]
  /\ \A k \in Kinds : seen[k] <= Len(log[k])
  /\ log["routes"][1] = Empty["routes"]

PositionsOK ==
  /\ CachesOK
  /\ Readable(version) /\ Readable(snap)
  /\ \A s \in ReadBy(pc) : version[s] <= snap[s]

WorkOK ==
  /\ pc \in Stages
  /\ owner \in Nat
  /\ todo \subseteq Routers
  /\ pc = "status" => todo \subseteq Existing(log["routers"][snap["routers"]])
  /\ pc # "status" => todo = {}

ValuesOK ==
  /\ dryRun \in BOOLEAN /\ queued \in BOOLEAN /\ useRoutes \in BOOLEAN /\ statusLost \in BOOLEAN
  /\ hosts.owner \in Nat
  /\ edits \in Nat /\ faults \in Nat

TypeInv == LogOK /\ PositionsOK /\ WorkOK /\ ValuesOK

LEMMA KindsAre ==
  /\ Sources = {"routers", "ingresses", "routes"}
  /\ Kinds = {"routers", "ingresses", "routes", "anchor"}
BY IngressAssumption DEF Kinds

LEMMA StateSets ==
  /\ StateSet("anchor") = Nat
  /\ StateSet("routers") = States(Routers, Router)
  /\ StateSet("ingresses") = States(Ingresses, IngressSpecs)
  /\ StateSet("routes") = States(Routes, RouteSpecs)
BY DEF StateSet

LEMMA ReadByStage ==
  /\ ReadBy("listIngresses") = {"routers"}
  /\ ReadBy("listRoutes") = {"routers", "ingresses"}
  /\ ReadBy("apply") = {"routers", "ingresses", "routes"}
  /\ ReadBy("status") = {"routers", "ingresses", "routes"}
  /\ ReadBy("idle") = {} /\ ReadBy("anchor") = {} /\ ReadBy("list") = {}
BY DEF ReadBy

\* A set of naturals that is not empty has a least element.
LEMMA LeastNatural ==
  ASSUME NEW T \in SUBSET Nat, T # {}
  PROVE  \E n \in T : \A m \in T : n <= m
<1>1. IsWellFoundedOn(OpToRel(<, Nat), Nat)
  BY NatLessThanWellFounded
<1>2. PICK n \in T : \A m \in T : ~(<<m, n>> \in OpToRel(<, Nat))
  BY <1>1, WFMin
<1>3. \A m \in T : ~(m < n)
  BY <1>2 DEF OpToRel
<1> QED
  BY <1>3

LEMMA LogLengths == LogOK => \A k \in Kinds : Len(log[k]) \in Nat
BY LenProperties DEF LogOK

\* The positions in use, and what is found there.
LEMMA PositionRanges ==
  ASSUME TypeInv
  PROVE  /\ \A k \in Kinds : Len(log[k]) \in Nat \ {0} /\ seen[k] \in 1 .. Len(log[k])
         /\ \A s \in Sources : snap[s] \in 1 .. Len(log[s]) /\ version[s] \in 1 .. Len(log[s])
         /\ \A k \in Kinds : \A i \in 1 .. Len(log[k]) : log[k][i] \in StateSet(k)
<1>1. \A k \in Kinds : Len(log[k]) \in Nat
  BY LogLengths DEF TypeInv
<1>2. ASSUME NEW k \in Kinds PROVE Len(log[k]) \in Nat \ {0} /\ seen[k] \in 1 .. Len(log[k])
  <2>1. seen[k] \in Nat \ {0} /\ seen[k] <= Len(log[k])
    BY DEF TypeInv, PositionsOK, CachesOK
  <2>2. Len(log[k]) \in Nat
    BY <1>1
  <2> QED
    BY <2>1, <2>2
<1>3. ASSUME NEW s \in Sources PROVE snap[s] \in 1 .. Len(log[s]) /\ version[s] \in 1 .. Len(log[s])
  <2>1. Len(log[s]) \in Nat
    BY <1>1, KindsAre
  <2>2. snap[s] \in Nat \ {0} /\ snap[s] <= Len(log[s])
    BY DEF TypeInv, PositionsOK, Readable
  <2>3. version[s] \in Nat \ {0} /\ version[s] <= Len(log[s])
    BY DEF TypeInv, PositionsOK, Readable
  <2> QED
    BY <2>1, <2>2, <2>3
<1>4. ASSUME NEW k \in Kinds, NEW i \in 1 .. Len(log[k]) PROVE log[k][i] \in StateSet(k)
  BY <1>4, ElementOfSeq DEF TypeInv, LogOK
<1> QED
  BY <1>2, <1>3, <1>4

LEMMA CurrentType == TypeInv => \A k \in Kinds : Current(k) \in StateSet(k)
BY PositionRanges DEF Current

\* How far the anchor's cache is.
LEMMA AnchorRange ==
  ASSUME TypeInv
  PROVE  Len(log["anchor"]) \in Nat /\ seen["anchor"] \in Nat /\ seen["anchor"] <= Len(log["anchor"])
<1>1. "anchor" \in Kinds
  BY KindsAre
<1>2. Len(log["anchor"]) \in Nat \ {0} /\ seen["anchor"] \in 1 .. Len(log["anchor"])
  BY <1>1, PositionRanges
<1> QED
  BY <1>2

\* Appending to one of the logs.
LEMMA StoreLog ==
  ASSUME TypeInv, NEW k \in Kinds, NEW state \in StateSet(k), Store(k, state)
  PROVE  /\ LogOK'
         /\ Len(log'[k]) = Len(log[k]) + 1
         /\ Current(k)' = state
         /\ \A x \in Kinds : /\ Len(log[x]) \in Nat \ {0} /\ Len(log'[x]) \in Nat \ {0}
                             /\ Len(log[x]) <= Len(log'[x])
                             /\ \A i \in 1 .. Len(log[x]) : log'[x][i] = log[x][i]
         /\ \A x \in Kinds \ {k} : log'[x] = log[x] /\ Current(x)' = Current(x)
<1>1. /\ log' = [log EXCEPT ![k] = Append(log[k], state)]
      /\ DOMAIN log = Kinds
  BY DEF Store, TypeInv, LogOK
<1>2. /\ log'[k] = Append(log[k], state)
      /\ \A x \in Kinds \ {k} : log'[x] = log[x] /\ Current(x)' = Current(x)
      /\ DOMAIN log' = Kinds
  BY <1>1 DEF Current
<1> DEFINE S == StateSet(k)
           seq == log[k]
           app == Append(seq, state)
<1>3. seq \in Seq(S) /\ Len(seq) \in Nat \ {0}
  BY PositionRanges DEF TypeInv, LogOK
<1>4. state \in S
  OBVIOUS
<1> HIDE DEF seq, S
<1>5. /\ app \in Seq(S) /\ Len(app) = Len(seq) + 1 /\ app[Len(seq) + 1] = state
      /\ \A i \in 1 .. Len(seq) : app[i] = seq[i]
  BY <1>3, <1>4, AppendProperties
<1> HIDE DEF app
<1>6. log'[k] = app
  BY <1>2 DEF app, seq
<1>7. /\ log'[k] \in Seq(S) /\ Len(log'[k]) = Len(log[k]) + 1 /\ Current(k)' = state
      /\ Len(log[k]) \in Nat \ {0} /\ Len(log'[k]) \in Nat \ {0}
      /\ \A i \in 1 .. Len(log[k]) : log'[k][i] = log[k][i]
  BY <1>3, <1>5, <1>6 DEF seq, Current
<1>8. \A x \in Kinds \ {k} : log'[x] \in Seq(StateSet(x)) /\ Len(log[x]) \in Nat \ {0}
  BY <1>2, PositionRanges DEF TypeInv, LogOK
<1>9. LogOK'
  BY <1>2, <1>7, <1>8 DEF LogOK, S, StateSet
<1> QED
  BY <1>2, <1>7, <1>8, <1>9

\* A log that only grows keeps every position and what is found there.
LogGrows ==
  /\ LogOK'
  /\ \A k \in Kinds : /\ Len(log[k]) \in Nat \ {0} /\ Len(log'[k]) \in Nat \ {0}
                      /\ Len(log[k]) <= Len(log'[k])
                      /\ \A i \in 1 .. Len(log[k]) : log'[k][i] = log[k][i]

LEMMA StoreGrows ==
  ASSUME TypeInv, NEW k \in Kinds, NEW state \in StateSet(k), Store(k, state)
  PROVE  LogGrows
BY StoreLog DEF LogGrows

LEMMA SameLog == TypeInv /\ UNCHANGED log => LogGrows
<1> SUFFICES ASSUME TypeInv, UNCHANGED log PROVE LogGrows
  OBVIOUS
<1>1. LogOK'
  BY DEF TypeInv, LogOK
<1> QED
  BY <1>1, PositionRanges DEF LogGrows

LEMMA CachesKept ==
  ASSUME TypeInv, LogGrows,
         \/ UNCHANGED seen
         \/ seen' \in [Kinds -> Nat \ {0}] /\ \A k \in Kinds : seen'[k] <= Len(log[k])
  PROVE  CachesOK'
<1>1. log'["routes"][1] = log["routes"][1]
  BY KindsAre DEF LogGrows
<1>2. seen' \in [Kinds -> Nat \ {0}] /\ \A k \in Kinds : seen'[k] <= Len(log[k])
  BY DEF TypeInv, PositionsOK, CachesOK
<1>3. \A k \in Kinds : seen'[k] <= Len(log'[k])
  BY <1>2 DEF LogGrows
<1> QED
  BY <1>1, <1>2, <1>3 DEF TypeInv, PositionsOK, CachesOK

LEMMA ReadableKept ==
  ASSUME TypeInv, LogGrows, UNCHANGED useRoutes, NEW v, Readable(v),
         NEW w, w = v,
         seen' \in [Kinds -> Nat \ {0}], \A k \in Kinds : seen[k] <= seen'[k]
  PROVE  /\ w \in [Sources -> Nat \ {0}]
         /\ \A s \in Sources : w[s] <= Len(log'[s])
         /\ \A s \in CachedSources : w[s] <= seen'[s]
         /\ ~useRoutes' => w["routes"] = 1
<1>1. Sources \subseteq Kinds /\ CachedSources \subseteq Sources
  BY KindsAre DEF CachedSources
<1>2. \A s \in Sources : v[s] \in Nat /\ v[s] <= Len(log[s])
  BY DEF Readable
<1>3. \A s \in Sources : v[s] <= Len(log'[s])
  BY <1>1, <1>2 DEF LogGrows
<1>4. \A s \in CachedSources : v[s] <= seen[s] /\ seen[s] <= seen'[s] /\ seen[s] \in Nat /\ seen'[s] \in Nat
  BY <1>1 DEF Readable, TypeInv, PositionsOK, CachesOK
<1>5. \A s \in CachedSources : v[s] <= seen'[s]
  BY <1>1, <1>2, <1>4
<1> QED
  BY <1>3, <1>5 DEF Readable

LEMMA PositionsKept ==
  ASSUME TypeInv, LogGrows, UNCHANGED <<seen, version, snap, pc, useRoutes>>
  PROVE  PositionsOK'
<1>1. CachesOK'
  BY CachesKept
<1>2. seen' \in [Kinds -> Nat \ {0}] /\ \A k \in Kinds : seen[k] <= seen'[k]
  BY DEF TypeInv, PositionsOK, CachesOK
<1>3. Readable(version)'
  BY <1>2, ReadableKept DEF TypeInv, PositionsOK, Readable
<1>4. Readable(snap)'
  BY <1>2, ReadableKept DEF TypeInv, PositionsOK, Readable
<1> QED
  BY <1>1, <1>3, <1>4 DEF TypeInv, PositionsOK

\* What was listed stays what it was.
LEMMA ListedKept ==
  ASSUME TypeInv, LogGrows, UNCHANGED snap
  PROVE  \A s \in Sources : log'[s][snap'[s]] = log[s][snap[s]]
<1> SUFFICES ASSUME NEW s \in Sources PROVE log'[s][snap'[s]] = log[s][snap[s]]
  OBVIOUS
<1>1. s \in Kinds
  BY KindsAre
<1>2. snap[s] \in 1 .. Len(log[s])
  BY PositionRanges
<1>3. \A i \in 1 .. Len(log[s]) : log'[s][i] = log[s][i]
  BY <1>1 DEF LogGrows
<1>4. log'[s][snap[s]] = log[s][snap[s]]
  BY <1>2, <1>3
<1> QED
  BY <1>4

\* What a user's edit may do to the routers: it reports nothing, and the
\* generation of a router grows as long as it exists.
Succeeds(old, new) ==
  \A r \in Routers : new[r] # Nil =>
    IF old[r] = Nil
    THEN ~new[r].ready /\ new[r].obs = 0
    ELSE old[r].gen <= new[r].gen /\ new[r].ready = old[r].ready /\ new[r].obs = old[r].obs

LEMMA PutRouterIs ==
  ASSUME TypeInv, NEW r \in Routers, NEW obj \in Router \union {Nil}, StoreObject("routers", r, obj),
         obj # Nil =>
           IF Current("routers")[r] = Nil
           THEN ~obj.ready /\ obj.obs = 0
           ELSE /\ Current("routers")[r].gen <= obj.gen
                /\ obj.ready = Current("routers")[r].ready /\ obj.obs = Current("routers")[r].obs
  PROVE  \E state \in StateSet("routers") : Edit("routers", state) /\ Succeeds(Current("routers"), state)
<1> DEFINE routers == Current("routers")
           new == [routers EXCEPT ![r] = obj]
<1>1. routers \in States(Routers, Router)
  BY CurrentType, KindsAre, StateSets
<1> HIDE DEF routers
<1>2. new \in States(Routers, Router) /\ new[r] = obj /\ \A x \in Routers \ {r} : new[x] = routers[x]
  BY <1>1 DEF States
<1>3. \A x \in Routers : routers[x] # Nil => routers[x].gen \in Nat
  BY <1>1 DEF States, Router
<1>4. Succeeds(routers, new)
  <2> SUFFICES ASSUME NEW x \in Routers, new[x] # Nil
               PROVE  IF routers[x] = Nil
                      THEN ~new[x].ready /\ new[x].obs = 0
                      ELSE routers[x].gen <= new[x].gen /\ new[x].ready = routers[x].ready /\ new[x].obs = routers[x].obs
    BY DEF Succeeds
  <2>1. CASE x = r
    BY <1>2, <2>1 DEF routers
  <2>2. CASE x # r
    <3>1. new[x] = routers[x] /\ routers[x] # Nil
      BY <1>2, <2>2
    <3> QED
      BY <1>3, <3>1
  <2> QED
    BY <2>1, <2>2
<1> QED
  BY <1>2, <1>4, StateSets DEF StoreObject, routers

LEMMA PutOtherIs ==
  ASSUME TypeInv, NEW s \in Sources, NEW ids, NEW objs, StateSet(s) = States(ids, objs),
         NEW x \in ids, NEW obj \in objs \union {Nil}, StoreObject(s, x, obj)
  PROVE  \E state \in StateSet(s) : Edit(s, state)
<1> DEFINE old == Current(s)
           new == [old EXCEPT ![x] = obj]
<1>1. old \in [ids -> objs \union {Nil}]
  BY CurrentType, KindsAre DEF States
<1> HIDE DEF old
<1>2. new \in [ids -> objs \union {Nil}]
  BY <1>1
<1> QED
  BY <1>2 DEF StoreObject, old, States

\* Every step of the users is an edit of one kind.
LEMMA UsersAre ==
  ASSUME TypeInv, Users
  PROVE  \E k \in Kinds : \E state \in StateSet(k) :
           /\ Edit(k, state)
           /\ k = "routers" => Succeeds(Current("routers"), state)
           /\ k = "anchor" => Current("anchor") # 0 /\ state = 0
<1>1. ASSUME NEW r \in Routers, StoreObject("routers", r, Nil) \/ \E spec \in RouterSpecs : PutRouter(r, spec)
      PROVE  \E state \in StateSet("routers") : Edit("routers", state) /\ Succeeds(Current("routers"), state)
  <2>1. CASE StoreObject("routers", r, Nil)
    BY <2>1, PutRouterIs
  <2>2. ASSUME NEW spec \in RouterSpecs, PutRouter(r, spec)
        PROVE  \E state \in StateSet("routers") : Edit("routers", state) /\ Succeeds(Current("routers"), state)
    <3> DEFINE ir == Current("routers")[r]
    <3>1. ir \in Router \union {Nil}
      BY CurrentType, KindsAre, StateSets DEF States
    <3>2. spec.class \in Classes \union {NoClass} /\ spec.ip \in Nat
      BY IngressAssumption DEF RouterSpec
    <3>3. CASE ir = Nil /\ StoreObject("routers", r, NewRouter(spec))
      <4>1. NewRouter(spec) \in Router /\ ~NewRouter(spec).ready /\ NewRouter(spec).obs = 0
        BY <3>2 DEF NewRouter, Router
      <4> QED
        BY <3>3, <4>1, PutRouterIs
    <3>4. CASE /\ ir # Nil
               /\ StoreObject("routers", r, [ir EXCEPT !.gen = @ + 1, !.class = spec.class, !.ip = spec.ip])
      <4> DEFINE obj == [ir EXCEPT !.gen = @ + 1, !.class = spec.class, !.ip = spec.ip]
      <4>1. ir \in Router
        BY <3>1, <3>4
      <4> HIDE DEF ir
      <4> DEFINE a == [ir EXCEPT !.gen = ir.gen + 1]
                 b == [a EXCEPT !.class = spec.class]
      <4>a. a \in Router /\ ir.gen <= a.gen /\ a.ready = ir.ready /\ a.obs = ir.obs
        BY <4>1 DEF Router
      <4>b. obj = [b EXCEPT !.ip = spec.ip]
        OBVIOUS
      <4> HIDE DEF a
      <4>c. b \in Router /\ b.gen = a.gen /\ b.ready = a.ready /\ b.obs = a.obs
        BY <3>2, <4>a DEF Router
      <4> HIDE DEF b, obj
      <4>2. obj \in Router /\ ir.gen <= obj.gen /\ obj.ready = ir.ready /\ obj.obs = ir.obs
        BY <3>2, <4>a, <4>b, <4>c DEF Router
      <4>3. StoreObject("routers", r, obj)
        BY <3>4 DEF obj
      <4> QED
        BY <3>4, <4>2, <4>3, PutRouterIs DEF ir
    <3> QED
      BY <2>2, <3>3, <3>4 DEF PutRouter
  <2> QED
    BY <1>1, <2>1, <2>2
<1>2. ASSUME NEW i \in Ingresses, NEW obj \in IngressSpecs \union {Nil}, StoreObject("ingresses", i, obj)
      PROVE  \E state \in StateSet("ingresses") : Edit("ingresses", state)
  BY <1>2, PutOtherIs, StateSets, KindsAre
<1>3. ASSUME NEW h \in Routes, NEW obj \in RouteSpecs \union {Nil}, StoreObject("routes", h, obj)
      PROVE  \E state \in StateSet("routes") : Edit("routes", state)
  BY <1>3, PutOtherIs, StateSets, KindsAre
<1>4. CASE DeleteAnchor
  BY <1>4, StateSets, KindsAre DEF DeleteAnchor
<1> QED
  BY <1>1, <1>2, <1>3, <1>4, KindsAre DEF Users

LEMMA EditType ==
  ASSUME TypeInv, NEW k \in Kinds, NEW state \in StateSet(k), Edit(k, state), UNCHANGED statusVars
  PROVE  TypeInv'
<1>1. /\ Store(k, state)
      /\ UNCHANGED <<dryRun, seen, hosts, version, queued, pc, owner, snap, faults, useRoutes, todo, statusLost>>
      /\ edits' \in Nat
  BY DEF Edit, hostVars, workVars, statusVars, TypeInv, ValuesOK
<1>2. LogGrows
  BY <1>1, StoreGrows
<1>3. PositionsOK'
  BY <1>1, <1>2, PositionsKept
<1>4. log'["routers"][snap'["routers"]] = log["routers"][snap["routers"]]
  BY <1>1, <1>2, ListedKept, KindsAre
<1> QED
  BY <1>1, <1>2, <1>3, <1>4 DEF TypeInv, LogGrows, WorkOK, ValuesOK

LEMMA DeliverType ==
  ASSUME TypeInv, NEW k \in Kinds, NEW passes \in BOOLEAN, Deliver(k, passes), UNCHANGED statusVars
  PROVE  TypeInv'
<1>1. UNCHANGED <<dryRun, log, hosts, version, pc, owner, snap, edits, faults, useRoutes, todo, statusLost>>
  BY DEF Deliver, hostVars, workVars, boundVars, statusVars
<1>2. /\ seen' \in [Kinds -> Nat \ {0}]
      /\ \A x \in Kinds : seen'[x] <= Len(log[x]) /\ seen[x] <= seen'[x]
  BY PositionRanges DEF Deliver, TypeInv, PositionsOK, CachesOK
<1>3. LogGrows
  BY <1>1, SameLog
<1>4. CachesOK' /\ Readable(version)' /\ Readable(snap)'
  <2>1. CachesOK'
    BY <1>2, <1>3, CachesKept
  <2>2. Readable(version)'
    BY <1>1, <1>2, <1>3, ReadableKept DEF TypeInv, PositionsOK, Readable
  <2>3. Readable(snap)'
    BY <1>1, <1>2, <1>3, ReadableKept DEF TypeInv, PositionsOK, Readable
  <2> QED
    BY <2>1, <2>2, <2>3
<1>5. PositionsOK'
  BY <1>1, <1>4 DEF TypeInv, PositionsOK
<1>6. queued' \in BOOLEAN
  BY DEF Deliver, TypeInv, ValuesOK
<1> QED
  BY <1>1, <1>3, <1>5, <1>6 DEF TypeInv, LogGrows, WorkOK, ValuesOK

\* The end of a reconcile, whatever its outcome.
LEMMA ReturnType ==
  ASSUME TypeInv, LogGrows, Return, todo' = {}, UNCHANGED useRoutes,
         version' = version \/ version' = snap,
         \/ UNCHANGED seen
         \/ seen' \in [Kinds -> Nat \ {0}] /\ \A k \in Kinds : seen[k] <= seen'[k] /\ seen'[k] <= Len(log[k])
  PROVE  PositionsOK' /\ WorkOK'
<1>1. snap' = [s \in Sources |-> 1] /\ pc' = "idle" /\ owner' = 0
  BY DEF Return, NothingRead
<1>2. CachesOK'
  BY CachesKept
<1>3. seen' \in [Kinds -> Nat \ {0}] /\ \A k \in Kinds : seen[k] <= seen'[k]
  BY DEF TypeInv, PositionsOK, CachesOK
<1>4. Readable(version)'
  <2>1. CASE version' = version
    BY <1>3, <2>1, ReadableKept DEF TypeInv, PositionsOK, Readable
  <2>2. CASE version' = snap
    BY <1>3, <2>2, ReadableKept DEF TypeInv, PositionsOK, Readable
  <2> QED
    BY <2>1, <2>2
<1>5. Readable(snap)'
  <2>1. \A s \in Sources : snap'[s] = 1 /\ Len(log'[s]) \in Nat \ {0}
    BY <1>1, KindsAre DEF LogGrows
  <2>2. \A s \in CachedSources : seen'[s] \in Nat \ {0} /\ snap'[s] = 1
    BY <1>3, <2>1, KindsAre DEF CachedSources
  <2> QED
    BY <1>1, <2>1, <2>2, KindsAre DEF Readable
<1> QED
  BY <1>1, <1>2, <1>4, <1>5, ReadByStage DEF PositionsOK, WorkOK, Stages

\* One of the reads.
LEMMA ReadType ==
  ASSUME TypeInv, NEW s \in Sources, NEW position \in Nat \ {0}, NEW next \in Stages \ {"status"},
         NEW stage \in Stages \ {"status"}, Read(s, stage, position, next), UNCHANGED statusVars,
         position <= Len(log[s]), version[s] <= position,
         s \in CachedSources => position <= seen[s],
         s = "routes" /\ ~useRoutes => position = 1,
         ReadBy(next) \subseteq ReadBy(stage) \union {s}, ReadBy(next) \subseteq Sources
  PROVE  TypeInv'
<1>1. /\ pc = stage /\ pc' = next /\ snap' = [snap EXCEPT ![s] = position]
      /\ UNCHANGED <<dryRun, log, seen, hosts, version, queued, owner, edits, faults, useRoutes, todo, statusLost>>
  BY DEF Read, hostVars, boundVars, statusVars
<1>2. /\ snap' \in [Sources -> Nat \ {0}] /\ snap'[s] = position
      /\ \A x \in Sources \ {s} : snap'[x] = snap[x]
  BY <1>1 DEF TypeInv, PositionsOK, Readable
<1>3. Readable(snap)'
  <2>1. \A x \in Sources : snap'[x] <= Len(log'[x])
    BY <1>1, <1>2 DEF TypeInv, PositionsOK, Readable
  <2>2. \A x \in CachedSources : snap'[x] <= seen'[x]
    BY <1>1, <1>2, KindsAre DEF TypeInv, PositionsOK, Readable, CachedSources
  <2>3. ~useRoutes' => snap'["routes"] = 1
    BY <1>1, <1>2, KindsAre DEF TypeInv, PositionsOK, Readable
  <2> QED
    BY <1>2, <2>1, <2>2, <2>3 DEF Readable
<1>4. \A x \in ReadBy(pc') : version'[x] <= snap'[x]
  BY <1>1, <1>2 DEF TypeInv, PositionsOK
<1>5. CachesOK' /\ Readable(version)'
  BY <1>1 DEF TypeInv, PositionsOK, CachesOK, Readable
<1>6. WorkOK'
  BY <1>1 DEF TypeInv, WorkOK
<1> QED
  BY <1>1, <1>3, <1>4, <1>5, <1>6 DEF TypeInv, LogOK, PositionsOK, ValuesOK

\* A router that has not changed since it was listed is still the one listed.
LEMMA UnchangedSince ==
  ASSUME TypeInv, NEW r, ~ChangedSince(r)
  PROVE  \A i \in snap["routers"] .. Len(log["routers"]) :
           log["routers"][i][r] = log["routers"][snap["routers"]][r]
<1> DEFINE routers == log["routers"]
           p == snap["routers"]
           n == Len(routers)
           T == {i \in p .. n : routers[i][r] # routers[p][r]}
<1>1. p \in Nat \ {0} /\ n \in Nat
  <2>1. "routers" \in Sources /\ "routers" \in Kinds
    BY KindsAre
  <2>2. p \in 1 .. n
    BY <2>1, PositionRanges
  <2>3. n \in Nat
    BY <2>1, PositionRanges
  <2> QED
    BY <2>2, <2>3
<1>2. \A i \in p + 1 .. n : routers[i][r] = routers[i - 1][r]
  BY DEF ChangedSince
<1> HIDE DEF routers, p, n
<1>3. ASSUME T # {} PROVE FALSE
  <2>1. T \in SUBSET Nat
    BY <1>1
  <2>2. PICK i \in T : \A m \in T : i <= m
    BY <1>3, <2>1, LeastNatural
  <2>3. i \in p .. n /\ i # p /\ routers[i][r] # routers[p][r]
    BY <2>2
  <2>4. i - 1 \in p .. n /\ i \in p + 1 .. n /\ ~(i <= i - 1)
    BY <1>1, <2>3
  <2>5. routers[i - 1][r] = routers[p][r]
    BY <2>2, <2>4
  <2> QED
    BY <1>2, <2>3, <2>4, <2>5
<1>4. \A i \in p .. n : routers[i][r] = routers[p][r]
  BY <1>3
<1> QED
  BY <1>4 DEF routers, p, n

\* What a status write stores.
LEMMA WriteStatusIs ==
  ASSUME TypeInv, pc = "status", NEW r \in todo, ~Unwritten(r), WriteStatus(r)
  PROVE  \E state \in StateSet("routers") :
           /\ Store("routers", state)
           /\ r \in Routers /\ Current("routers")[r] \in Router
           /\ Current("routers")[r] = log["routers"][snap["routers"]][r]
           /\ state[r].gen = Current("routers")[r].gen
           /\ state[r].obs = Current("routers")[r].gen
           /\ state[r].ready = TRUE
           /\ state[r] # Nil
           /\ \A x \in Routers \ {r} : state[x] = Current("routers")[x]
<1> DEFINE routers == Current("routers")
           listed == log["routers"][snap["routers"]]
           a == [routers[r] EXCEPT !.ready = TRUE]
           b == [a EXCEPT !.obs = listed[r].gen]
           state == [routers EXCEPT ![r] = b]
<1>1. r \in Routers /\ listed[r] # Nil
  BY DEF TypeInv, WorkOK, Existing
<1>2. routers \in [Routers -> Router \union {Nil}]
  BY CurrentType, KindsAre, StateSets DEF States
<1>3. routers[r] = listed[r]
  <2>1. Len(log["routers"]) \in snap["routers"] .. Len(log["routers"])
    BY PositionRanges, KindsAre
  <2> QED
    BY <2>1, UnchangedSince DEF Unwritten, Current
<1>4. Listed["routers"][r] = listed[r]
  BY KindsAre DEF Listed, InputsAt
<1>5. Store("routers", [routers EXCEPT ![r].ready = TRUE, ![r].obs = listed[r].gen])
  BY <1>4 DEF WriteStatus
<1> HIDE DEF routers, listed
<1>6. routers[r] \in Router
  BY <1>1, <1>2, <1>3
<1>7. [routers EXCEPT ![r].ready = TRUE, ![r].obs = listed[r].gen] = state
  BY <1>1, <1>2
<1>8. a \in Router /\ a.gen = routers[r].gen /\ a.ready = TRUE
  BY <1>6 DEF Router
<1> HIDE DEF a
<1>9. listed[r].gen \in Nat
  BY <1>3, <1>6 DEF Router
<1>10. b \in Router /\ b.gen = routers[r].gen /\ b.ready = TRUE /\ b.obs = routers[r].gen
  BY <1>3, <1>8, <1>9 DEF Router
<1> HIDE DEF b
<1>11. state \in [Routers -> Router \union {Nil}] /\ state[r] = b /\ \A x \in Routers \ {r} : state[x] = routers[x]
  BY <1>1, <1>2, <1>10
<1> HIDE DEF state
<1>12. state \in StateSet("routers") /\ Store("routers", state)
  BY <1>5, <1>7, <1>11, StateSets DEF States
<1>13. b # Nil
  BY <1>10, IngressAssumption
<1>14. /\ r \in Routers /\ routers[r] \in Router /\ routers[r] = listed[r]
       /\ state[r].gen = routers[r].gen /\ state[r].obs = routers[r].gen
       /\ state[r].ready = TRUE /\ state[r] # Nil
       /\ \A x \in Routers \ {r} : state[x] = routers[x]
  BY <1>1, <1>3, <1>6, <1>10, <1>11, <1>13
<1> QED
  BY <1>12, <1>14 DEF routers, listed

\* The initial state, kind by kind.
LEMMA InitIs ==
  ASSUME Init
  PROVE  \E in \in InitialInputs :
           /\ DOMAIN log = Kinds
           /\ log["anchor"] = <<0>>
           /\ \A s \in Sources : log[s] = <<Empty[s], in[s]>>
           /\ Len(log["anchor"]) = 1 /\ \A s \in Sources : Len(log[s]) = 2
           /\ seen = [k \in Kinds |-> Len(log[k])]
           /\ version = [s \in Sources |-> 1] /\ snap = [s \in Sources |-> 1]
           /\ hosts = NoHosts /\ queued = StartTriggers(in)
           /\ pc = "idle" /\ owner = 0 /\ edits = 0 /\ faults = 0
           /\ dryRun \in BOOLEAN /\ useRoutes \in BOOLEAN
           /\ todo = {} /\ statusLost = FALSE
<1>1. PICK in \in InitialInputs : AnchoredInit(in, StartTriggers(in))
  BY DEF Init
<1>2. log = [k \in Kinds |-> IF k = "anchor" THEN <<0>> ELSE <<Empty[k], in[k]>>]
  BY <1>1 DEF AnchoredInit
<1>3. /\ DOMAIN log = Kinds /\ log["anchor"] = <<0>>
      /\ \A s \in Sources : log[s] = <<Empty[s], in[s]>>
  BY <1>2, KindsAre
<1>4. Len(log["anchor"]) = 1 /\ \A s \in Sources : Len(log[s]) = 2
  <2>1. Len(log["anchor"]) = 1
    BY <1>3
  <2>2. ASSUME NEW s \in Sources PROVE Len(log[s]) = 2
    <3>1. log[s] = <<Empty[s], in[s]>>
      BY <1>3
    <3> QED
      BY <3>1
  <2> QED
    BY <2>1, <2>2
<1>5. dryRun \in BOOLEAN /\ useRoutes \in BOOLEAN
  BY <1>1, AnchoredHostsAssumption, IngressAssumption DEF AnchoredInit, Init
<1>6. /\ seen = [k \in Kinds |-> Len(log[k])]
      /\ version = [s \in Sources |-> 1] /\ snap = [s \in Sources |-> 1]
      /\ hosts = NoHosts /\ queued = StartTriggers(in)
      /\ pc = "idle" /\ owner = 0 /\ edits = 0 /\ faults = 0
  BY <1>1 DEF AnchoredInit, NothingRead
<1> QED
  BY <1>3, <1>4, <1>5, <1>6 DEF Init

LEMMA InitType == Init => TypeInv
<1> SUFFICES ASSUME Init PROVE TypeInv
  OBVIOUS
<1> USE KindsAre
<1>1. PICK in \in InitialInputs :
           /\ DOMAIN log = Kinds
           /\ log["anchor"] = <<0>>
           /\ \A s \in Sources : log[s] = <<Empty[s], in[s]>>
           /\ Len(log["anchor"]) = 1 /\ \A s \in Sources : Len(log[s]) = 2
           /\ seen = [k \in Kinds |-> Len(log[k])]
           /\ version = [s \in Sources |-> 1] /\ snap = [s \in Sources |-> 1]
           /\ hosts = NoHosts /\ queued = StartTriggers(in)
           /\ pc = "idle" /\ owner = 0 /\ edits = 0 /\ faults = 0
           /\ dryRun \in BOOLEAN /\ useRoutes \in BOOLEAN
           /\ todo = {} /\ statusLost = FALSE
  BY InitIs
<1>2. \A s \in Sources : Empty[s] \in StateSet(s) /\ in[s] \in StateSet(s)
  <2>1. /\ Empty["routers"] = [r \in Routers |-> Nil] /\ Empty["ingresses"] = [i \in Ingresses |-> Nil]
        /\ Empty["routes"] = [h \in Routes |-> Nil]
    BY IngressAssumption
  <2>2. /\ Empty["routers"] \in States(Routers, Router) /\ Empty["ingresses"] \in States(Ingresses, IngressSpecs)
        /\ Empty["routes"] \in States(Routes, RouteSpecs)
    BY <2>1 DEF States
  <2>3. /\ in["routers"] \in States(Routers, Router) /\ in["ingresses"] \in States(Ingresses, IngressSpecs)
        /\ in["routes"] \in States(Routes, RouteSpecs)
    BY InitialInputsAssumption
  <2> QED
    BY <2>2, <2>3, StateSets
<1>3. ASSUME NEW s \in Sources PROVE log[s] \in Seq(StateSet(s)) /\ log[s][1] = Empty[s]
  <2> DEFINE S == StateSet(s)
             e == Empty[s]
             i == in[s]
  <2>1. e \in S /\ i \in S /\ log[s] = <<e, i>>
    BY <1>1, <1>2
  <2> HIDE DEF S, e, i
  <2>2. <<e, i>> \in Seq(S) /\ <<e, i>>[1] = e
    BY <2>1
  <2> QED
    BY <2>1, <2>2 DEF S, e
<1>4. log["anchor"] \in Seq(StateSet("anchor"))
  BY <1>1, StateSets
<1>5. LogOK
  BY <1>1, <1>3, <1>4 DEF LogOK
<1>6. \A k \in Kinds : seen[k] = Len(log[k]) /\ Len(log[k]) \in Nat \ {0}
  <2>1. \A k \in Kinds : seen[k] = Len(log[k])
    BY <1>1
  <2>2. ASSUME NEW k \in Kinds PROVE Len(log[k]) \in Nat \ {0}
    <3>1. CASE k = "anchor"
      <4>1. Len(log[k]) = 1
        BY <1>1, <3>1
      <4> QED
        BY <4>1
    <3>2. CASE k \in Sources
      <4>1. Len(log[k]) = 2
        BY <1>1, <3>2
      <4> QED
        BY <4>1
    <3> QED
      BY <3>1, <3>2
  <2> QED
    BY <2>1, <2>2
<1>7. CachesOK
  BY <1>1, <1>3, <1>6 DEF CachesOK
<1>8. \A s \in Sources : version[s] = 1 /\ snap[s] = 1
  BY <1>1
<1>9. Readable(version) /\ Readable(snap)
  BY <1>1, <1>6, <1>8 DEF Readable, CachedSources
<1>10. PositionsOK
  BY <1>1, <1>7, <1>9, ReadByStage DEF PositionsOK
<1>11. StartTriggers(in) \in BOOLEAN
  BY DEF StartTriggers
<1> QED
  BY <1>1, <1>5, <1>10, <1>11 DEF TypeInv, WorkOK, ValuesOK, Stages, NoHosts

LEMMA EnsureAnchorType == TypeInv /\ EnsureAnchor /\ UNCHANGED statusVars => TypeInv' /\ LogGrows
<1> SUFFICES ASSUME TypeInv, EnsureAnchor, UNCHANGED statusVars PROVE TypeInv' /\ LogGrows
  OBVIOUS
<1> USE KindsAre
<1>1. UNCHANGED <<dryRun, seen, hosts, version, useRoutes, todo, statusLost>> /\ pc = "anchor" /\ todo = {}
  BY DEF EnsureAnchor, hostVars, statusVars, TypeInv, WorkOK
<1>2. Len(log["anchor"]) + 1 \in Nat /\ Cached("anchor") \in Nat
  <2>1. "anchor" \in Kinds
    OBVIOUS
  <2>2. Len(log["anchor"]) \in Nat \ {0} /\ seen["anchor"] \in 1 .. Len(log["anchor"])
    BY <2>1, PositionRanges
  <2>3. \A i \in 1 .. Len(log["anchor"]) : log["anchor"][i] \in StateSet("anchor")
    BY <2>1, PositionRanges
  <2>4. log["anchor"][seen["anchor"]] \in Nat
    BY <2>2, <2>3, StateSets
  <2> QED
    BY <2>2, <2>4 DEF Cached
<1>3. LogGrows
  <2>1. CASE UNCHANGED log
    BY <2>1, SameLog
  <2>2. CASE CreateAnchor
    BY <1>2, <2>2, StoreGrows, StateSets DEF CreateAnchor
  <2> QED
    BY <2>1, <2>2 DEF EnsureAnchor
<1>4. CASE \E uid \in Nat : UseAnchor(uid)
  <2>1. pc' = "list" /\ owner' \in Nat /\ UNCHANGED <<snap, queued, edits, faults>>
    BY <1>4 DEF UseAnchor, boundVars
  <2>2. CachesOK' /\ Readable(version)' /\ Readable(snap)'
    <3>1. seen' \in [Kinds -> Nat \ {0}] /\ \A k \in Kinds : seen[k] <= seen'[k]
      BY <1>1 DEF TypeInv, PositionsOK, CachesOK
    <3>2. CachesOK'
      BY <1>1, <1>3, CachesKept
    <3>3. Readable(version)'
      BY <1>1, <1>3, <3>1, ReadableKept DEF TypeInv, PositionsOK, Readable
    <3>4. Readable(snap)'
      BY <1>1, <1>3, <2>1, <3>1, ReadableKept DEF TypeInv, PositionsOK, Readable
    <3> QED
      BY <3>2, <3>3, <3>4
  <2>3. PositionsOK'
    BY <2>1, <2>2, ReadByStage DEF PositionsOK
  <2>4. WorkOK'
    BY <1>1, <2>1 DEF TypeInv, WorkOK, Stages
  <2> QED
    BY <1>1, <1>3, <2>1, <2>3, <2>4 DEF TypeInv, LogGrows, ValuesOK
<1>5. CASE ReturnError /\ edits' \in Nat /\ faults' \in Nat
  <2>1. Return /\ queued' = TRUE
    BY <1>5 DEF ReturnError
  <2>2. PositionsOK' /\ WorkOK'
    BY <1>1, <1>3, <2>1, ReturnType
  <2> QED
    BY <1>1, <1>3, <1>5, <2>1, <2>2 DEF TypeInv, LogGrows, ValuesOK
<1>6. CallFails => ReturnError /\ edits' \in Nat /\ faults' \in Nat
  BY DEF CallFails, Fault, TypeInv, ValuesOK
<1> QED
  BY <1>2, <1>3, <1>4, <1>5, <1>6 DEF EnsureAnchor, TypeInv, ValuesOK, boundVars

\* The steps of a reconcile up to the write.
LEMMA BeforeWriteType == TypeInv /\ BeforeWrite /\ UNCHANGED statusVars => TypeInv' /\ LogGrows
<1> SUFFICES ASSUME TypeInv, BeforeWrite, UNCHANGED statusVars PROVE TypeInv' /\ LogGrows
  OBVIOUS
<1> USE KindsAre
<1>1. CASE StartReconcile
  <2>1. /\ pc = "idle" /\ pc' = "anchor" /\ queued' = FALSE
        /\ UNCHANGED <<dryRun, log, seen, hosts, version, owner, snap, edits, faults, useRoutes, todo, statusLost>>
    BY <1>1 DEF StartReconcile, hostVars, boundVars, statusVars
  <2>2. PositionsOK'
    BY <2>1, ReadByStage DEF TypeInv, PositionsOK, CachesOK, Readable
  <2> QED
    BY <2>1, <2>2, SameLog DEF TypeInv, LogGrows, WorkOK, ValuesOK, Stages
<1>2. CASE EnsureAnchor
  BY <1>2, EnsureAnchorType
<1>3. CASE ListRouters
  <2>1. /\ seen["routers"] \in Nat \ {0} /\ seen["routers"] <= Len(log["routers"])
        /\ version["routers"] <= seen["routers"]
    BY DEF TypeInv, PositionsOK, CachesOK, Readable, CachedSources
  <2>2. TypeInv'
    BY <1>3, <2>1, ReadType, ReadByStage DEF ListRouters, Stages
  <2> QED
    BY <1>3, <2>2, SameLog DEF ListRouters, Read
<1>4. CASE ListIngresses
  <2>1. /\ seen["ingresses"] \in Nat \ {0} /\ seen["ingresses"] <= Len(log["ingresses"])
        /\ version["ingresses"] <= seen["ingresses"]
    BY DEF TypeInv, PositionsOK, CachesOK, Readable, CachedSources
  <2>2. TypeInv'
    BY <1>4, <2>1, ReadType, ReadByStage DEF ListIngresses, Stages
  <2> QED
    BY <1>4, <2>2, SameLog DEF ListIngresses, Read
<1>5. CASE ListHTTPRoutes
  <2> DEFINE position == IF useRoutes THEN Len(log["routes"]) ELSE 1
  <2>1. /\ position \in Nat \ {0} /\ position <= Len(log["routes"]) /\ version["routes"] <= position
        /\ ~useRoutes => position = 1
    BY PositionRanges DEF TypeInv, PositionsOK, Readable
  <2>2. Read("routes", "listRoutes", position, "apply")
    BY <1>5 DEF ListHTTPRoutes
  <2> HIDE DEF position
  <2>3. TypeInv'
    BY <2>1, <2>2, ReadType, ReadByStage DEF Stages, CachedSources
  <2> QED
    BY <2>2, <2>3, SameLog DEF Read
<1>6. CASE CallLost({"anchor", "list", "listIngresses", "listRoutes", "apply"})
  <2>1. /\ Return /\ queued' = TRUE /\ pc # "status"
        /\ UNCHANGED <<dryRun, log, seen, hosts, version, edits, useRoutes, todo, statusLost>> /\ faults' \in Nat
    BY <1>6 DEF CallLost, CallFails, ReturnError, Fault, hostVars, statusVars, TypeInv, ValuesOK
  <2>2. LogGrows
    BY <2>1, SameLog
  <2>3. PositionsOK' /\ WorkOK'
    BY <2>1, <2>2, ReturnType DEF TypeInv, WorkOK
  <2> QED
    BY <2>1, <2>2, <2>3 DEF TypeInv, LogGrows, ValuesOK
<1> QED
  BY <1>1, <1>2, <1>3, <1>4, <1>5, <1>6 DEF BeforeWrite

LEMMA ApplyType == TypeInv /\ ApplyDnsHosts => TypeInv'
<1> SUFFICES ASSUME TypeInv, ApplyDnsHosts PROVE TypeInv'
  OBVIOUS
<1>1. /\ pc = "apply" /\ UNCHANGED <<dryRun, log, seen, useRoutes, statusLost>>
      /\ hosts'.owner \in Nat
      /\ version' = version \/ version' = snap
  BY DEF ApplyDnsHosts, PutDnsHosts, hostVars, TypeInv, ValuesOK, WorkOK
<1>2. LogGrows
  BY <1>1, SameLog
<1>3. CASE CallFails /\ UNCHANGED todo
  <2>1. Return /\ queued' = TRUE /\ edits' \in Nat /\ faults' \in Nat /\ todo' = {}
    BY <1>1, <1>3 DEF CallFails, ReturnError, Fault, TypeInv, ValuesOK, WorkOK
  <2>2. PositionsOK' /\ WorkOK'
    BY <1>1, <1>2, <2>1, ReturnType
  <2> QED
    BY <1>1, <1>2, <2>1, <2>2 DEF TypeInv, LogGrows, ValuesOK
<1>4. CASE /\ pc' = "status" /\ todo' = Existing(Listed["routers"])
           /\ UNCHANGED <<owner, snap, queued, boundVars>>
  <2>1. Listed["routers"] = log["routers"][snap["routers"]]
    BY KindsAre DEF Listed, InputsAt
  <2>2. log["routers"][snap["routers"]] \in States(Routers, Router)
    BY PositionRanges, KindsAre, StateSets
  <2>3. WorkOK'
    BY <1>1, <1>4, <2>1, <2>2 DEF TypeInv, WorkOK, Stages, Existing, States
  <2>4. Readable(version)' /\ Readable(snap)' /\ CachesOK'
    BY <1>1, <1>4 DEF TypeInv, PositionsOK, Readable, CachesOK
  <2>5. \A s \in ReadBy("status") : version'[s] <= snap'[s]
    <3>1. \A s \in ReadBy("status") : version[s] <= snap[s] /\ snap[s] \in Nat
      BY <1>1, ReadByStage, KindsAre DEF TypeInv, PositionsOK, Readable
    <3> QED
      BY <1>1, <1>4, <3>1
  <2> QED
    BY <1>1, <1>2, <1>4, <2>3, <2>4, <2>5 DEF TypeInv, PositionsOK, LogGrows, ValuesOK, boundVars
<1> QED
  BY <1>3, <1>4 DEF ApplyDnsHosts

LEMMA StatusType == TypeInv /\ (\E r \in Routers : UpdateRouterStatus(r)) => TypeInv' /\ LogGrows
<1> SUFFICES ASSUME TypeInv, NEW r \in Routers, UpdateRouterStatus(r) PROVE TypeInv' /\ LogGrows
  OBVIOUS
<1>1. /\ pc = "status" /\ r \in todo /\ todo' = todo \ {r}
      /\ UNCHANGED <<pc, owner, snap, dryRun, seen, hosts, version, queued, useRoutes>>
  BY DEF UpdateRouterStatus, workVars, hostVars
<1>a. statusLost' \in BOOLEAN /\ edits' \in Nat /\ faults' \in Nat
  <2>1. CASE UNCHANGED <<statusLost, edits, faults>>
    BY <2>1 DEF TypeInv, ValuesOK
  <2>2. CASE Fault /\ statusLost' = TRUE
    BY <2>2 DEF Fault, TypeInv, ValuesOK
  <2> QED
    BY <2>1, <2>2 DEF UpdateRouterStatus, boundVars
<1>2. LogGrows
  <2>1. CASE UNCHANGED log
    BY <2>1, SameLog
  <2>2. CASE ~Unwritten(r) /\ WriteStatus(r)
    BY <1>1, <2>2, WriteStatusIs, StoreGrows, KindsAre
  <2> QED
    BY <2>1, <2>2 DEF UpdateRouterStatus
<1>3. PositionsOK'
  BY <1>1, <1>2, PositionsKept
<1>4. log'["routers"][snap'["routers"]] = log["routers"][snap["routers"]]
  BY <1>1, <1>2, ListedKept, KindsAre
<1> QED
  BY <1>1, <1>a, <1>2, <1>3, <1>4 DEF TypeInv, LogGrows, WorkOK, ValuesOK

LEMMA RestartType == TypeInv /\ CrashAndRestart => TypeInv'
<1> SUFFICES ASSUME TypeInv, CrashAndRestart PROVE TypeInv'
  OBVIOUS
<1>1. /\ Return /\ todo' = {} /\ UNCHANGED <<dryRun, log, hosts, version, useRoutes, statusLost>>
      /\ seen' = [k \in Kinds |-> Len(log[k])]
      /\ queued' \in BOOLEAN /\ edits' \in Nat /\ faults' \in Nat
  BY DEF CrashAndRestart, Restart, Fault, hostVars, StartTriggers, TypeInv, ValuesOK
<1>2. LogGrows
  BY <1>1, SameLog
<1>3. seen' \in [Kinds -> Nat \ {0}] /\ \A k \in Kinds : seen[k] <= seen'[k] /\ seen'[k] <= Len(log[k])
  BY <1>1, PositionRanges
<1>4. PositionsOK' /\ WorkOK'
  BY <1>1, <1>2, <1>3, ReturnType
<1> QED
  BY <1>1, <1>2, <1>4 DEF TypeInv, LogGrows, ValuesOK

LEMMA TypeStep == TypeInv /\ [Next]_vars => TypeInv'
<1> SUFFICES ASSUME TypeInv, [Next]_vars PROVE TypeInv'
  OBVIOUS
<1>1. CASE Users /\ UNCHANGED statusVars
  BY <1>1, UsersAre, EditType
<1>2. CASE CollectGarbage /\ UNCHANGED statusVars
  <2>1. /\ hosts'.owner = 0
        /\ UNCHANGED <<dryRun, log, seen, version, queued, pc, owner, snap, edits, faults, useRoutes, todo, statusLost>>
    BY <1>2 DEF CollectGarbage, NoHosts, workVars, boundVars, statusVars
  <2>2. LogGrows
    BY <2>1, SameLog
  <2>3. PositionsOK'
    BY <2>1, <2>2, PositionsKept
  <2> QED
    BY <2>1, <2>2, <2>3 DEF TypeInv, LogGrows, WorkOK, ValuesOK
<1>3. CASE Watches /\ UNCHANGED statusVars
  BY <1>3, DeliverType, KindsAre DEF Watches, DeliverAnchor, DeliverInput
<1>4. CASE BeforeWrite /\ UNCHANGED statusVars
  BY <1>4, BeforeWriteType
<1>5. CASE ApplyDnsHosts
  BY <1>5, ApplyType
<1>6. CASE \E r \in Routers : UpdateRouterStatus(r)
  BY <1>6, StatusType
<1>7. CASE FinishReconcile
  <2>1. /\ Return /\ todo' = {}
        /\ UNCHANGED <<dryRun, log, seen, hosts, version, queued, edits, faults, useRoutes, statusLost>>
    BY <1>7 DEF FinishReconcile, hostVars, boundVars, statusVars
  <2>2. LogGrows
    BY <2>1, SameLog
  <2>3. PositionsOK' /\ WorkOK'
    BY <2>1, <2>2, ReturnType
  <2> QED
    BY <2>1, <2>2, <2>3 DEF TypeInv, LogGrows, ValuesOK
<1>8. CASE CrashAndRestart
  BY <1>8, RestartType
<1>9. CASE UNCHANGED vars
  BY <1>9 DEF vars, baseVars, hostVars, workVars, boundVars, statusVars, TypeInv, LogOK, PositionsOK, CachesOK,
     Readable, WorkOK, ValuesOK
<1> QED
  BY <1>1, <1>2, <1>3, <1>4, <1>5, <1>6, <1>7, <1>8, <1>9 DEF Next, Reconcile

-----------------------------------------------------------------------------
(***************************************************************************)
(* Dry runs.                                                               *)
(***************************************************************************)
Unreported(routers) == \A r \in Existing(routers) : routers[r].obs = 0

LEMMA EditUnreported ==
  ASSUME TypeInv, Users, Current("anchor") = 0, Unreported(Current("routers"))
  PROVE  Current("anchor")' = 0 /\ Unreported(Current("routers")')
<1>1. PICK k \in Kinds : \E state \in StateSet(k) :
        /\ Edit(k, state)
        /\ k = "routers" => Succeeds(Current("routers"), state)
        /\ k = "anchor" => Current("anchor") # 0 /\ state = 0
  BY UsersAre
<1>2. PICK state \in StateSet(k) :
        /\ Edit(k, state)
        /\ k = "routers" => Succeeds(Current("routers"), state)
        /\ k = "anchor" => Current("anchor") # 0 /\ state = 0
  BY <1>1
<1>3. /\ k # "anchor"
      /\ Current(k)' = state
      /\ \A x \in Kinds \ {k} : Current(x)' = Current(x)
  BY <1>2, StoreLog DEF Edit
<1>4. CASE k = "routers"
  <2>1. state \in [Routers -> Router \union {Nil}] /\ Current("routers") \in [Routers -> Router \union {Nil}]
    BY <1>4, CurrentType, KindsAre, StateSets DEF States
  <2>2. ASSUME NEW r \in Routers, state[r] # Nil PROVE state[r].obs = 0
    BY <1>2, <1>4, <2>1, <2>2 DEF Succeeds, Unreported, Existing
  <2>3. Unreported(state)
    BY <2>1, <2>2 DEF Unreported, Existing
  <2> QED
    BY <1>3, <1>4, <2>3, KindsAre
<1>5. CASE k # "routers"
  BY <1>3, <1>5, KindsAre
<1> QED
  BY <1>4, <1>5

\* "skip all API writes" (README.md:27): with DRY_RUN set, no anchor and no
\* DnsHosts object ever appears and no router gets a status.
THEOREM DryRunIsSafe == Spec => []DryRunWritesNothing
<1> DEFINE Safe == hosts = NoHosts /\ Current("anchor") = 0 /\ Unreported(Current("routers"))
<1>0. DryRunWritesNothing <=> (dryRun => Safe)
  BY DEF DryRunWritesNothing, Unreported
<1>1. Init => DryRunWritesNothing
  <2> SUFFICES ASSUME Init PROVE Safe
    BY <1>0
  <2>1. PICK in \in InitialInputs : /\ log["anchor"] = <<0>> /\ log["routers"] = <<Empty["routers"], in["routers"]>>
                                    /\ hosts = NoHosts
    BY InitIs, KindsAre
  <2>2. Current("anchor") = 0 /\ Current("routers") = in["routers"]
    BY <2>1 DEF Current
  <2> QED
    BY <2>1, <2>2, InitialInputsAssumption DEF Unreported
<1>2. TypeInv /\ DryRunWritesNothing /\ [Next]_vars => DryRunWritesNothing'
  <2> SUFFICES ASSUME TypeInv, dryRun => Safe, [Next]_vars, dryRun' PROVE Safe'
    BY DEF DryRunWritesNothing, Unreported
  <2> USE DEF Unreported
  <2>0. ASSUME dryRun, UNCHANGED <<hosts, log>> PROVE Safe'
    BY <2>0 DEF Current
  <2>1. CASE Users /\ UNCHANGED statusVars
    <3>1. UNCHANGED <<dryRun, hosts>>
      BY <2>1, UsersAre DEF Edit, hostVars
    <3> QED
      BY <2>1, <3>1, EditUnreported
  <2>2. CASE CollectGarbage
    BY <2>2 DEF CollectGarbage, Orphaned, NoHosts
  <2>3. CASE Watches
    BY <2>0, <2>3 DEF Watches, DeliverAnchor, DeliverInput, Deliver, hostVars
  <2>4. CASE BeforeWrite
    BY <2>0, <2>4 DEF BeforeWrite, StartReconcile, EnsureAnchor, ListRouters, ListIngresses, ListHTTPRoutes, Read,
       CallLost, hostVars
  <2>5. CASE ApplyDnsHosts
    BY <2>0, <2>5 DEF ApplyDnsHosts, PutDnsHosts, hostVars
  <2>6. CASE \E r \in Routers : UpdateRouterStatus(r)
    BY <2>0, <2>6 DEF UpdateRouterStatus, Unwritten, hostVars
  <2>7. CASE FinishReconcile
    BY <2>0, <2>7 DEF FinishReconcile, hostVars
  <2>8. CASE CrashAndRestart
    BY <2>0, <2>8 DEF CrashAndRestart, Restart, hostVars
  <2>9. CASE UNCHANGED vars
    BY <2>0, <2>9 DEF vars, baseVars, hostVars
  <2> QED
    BY <2>1, <2>2, <2>3, <2>4, <2>5, <2>6, <2>7, <2>8, <2>9 DEF Next, Reconcile
<1> QED
  BY <1>1, <1>2, InitType, TypeStep, PTL DEF Spec

-----------------------------------------------------------------------------
(***************************************************************************)
(* Refinement.                                                             *)
(***************************************************************************)
LEMMA InitRefines == Init => P!Init
<1> SUFFICES ASSUME Init PROVE P!Init
  OBVIOUS
<1>1. \A s \in Sources : Len(log[s]) \in Nat \ {0}
  BY InitType, PositionRanges, KindsAre
<1>2. version = [s \in Sources |-> 1] /\ hosts = NoHosts
  BY InitIs
<1>3. hosts.entries = {}
  BY <1>2 DEF NoHosts
<1> QED
  BY <1>1, <1>2, <1>3 DEF P!Init

\* A state added to the log of a source is a change, one added to the log of
\* the anchor is invisible.
LEMMA StoreRefines ==
  ASSUME TypeInv, NEW k \in Kinds, NEW state \in StateSet(k), Store(k, state), UNCHANGED <<version, hosts>>
  PROVE  [P!Next]_P!pubVars
<1>1. CASE k = "anchor"
  <2>1. \A s \in Sources : log'[s] = log[s]
    BY <1>1, StoreLog, KindsAre
  <2>2. [s \in Sources |-> log'[s]] = [s \in Sources |-> log[s]]
    BY <2>1
  <2> QED
    BY <2>2 DEF P!pubVars
<1>2. CASE k \in Sources
  <2>1. /\ Len(log[k]) < Len(log'[k])
        /\ \A i \in 1 .. Len(log[k]) : log'[k][i] = log[k][i]
        /\ \A s \in Sources \ {k} : log'[s] = log[s]
    BY <1>2, StoreLog, KindsAre
  <2>2. P!Change(k)
    BY <1>2, <2>1 DEF P!Change, P!Grows
  <2> QED
    BY <1>2, <2>2 DEF P!Next
<1> QED
  BY <1>1, <1>2, KindsAre

\* Edits and status writes are changes of the input, the write publishes, the
\* garbage collector withdraws; everything else is invisible.
LEMMA StepRefines == TypeInv /\ [Next]_vars => [P!Next]_P!pubVars
<1> SUFFICES ASSUME TypeInv, [Next]_vars PROVE [P!Next]_P!pubVars
  OBVIOUS
<1>0. ASSUME UNCHANGED <<log, version, hosts>> PROVE UNCHANGED P!pubVars
  BY <1>0 DEF P!pubVars
<1>1. CASE Users
  BY <1>1, UsersAre, StoreRefines DEF Edit, hostVars
<1>2. CASE CollectGarbage
  BY <1>2 DEF CollectGarbage, NoHosts, P!Next, P!Withdraw
<1>3. CASE Watches
  BY <1>0, <1>3 DEF Watches, DeliverAnchor, DeliverInput, Deliver, hostVars
<1>4. CASE BeforeWrite
  <2>1. UNCHANGED <<version, hosts>>
    BY <1>4 DEF BeforeWrite, StartReconcile, EnsureAnchor, ListRouters, ListIngresses, ListHTTPRoutes, Read, CallLost,
       hostVars
  <2>2. CASE CreateAnchor
    <3>1. "anchor" \in Kinds /\ StateSet("anchor") = Nat
      BY KindsAre, StateSets
    <3>2. Len(log["anchor"]) \in Nat
      BY <3>1, PositionRanges
    <3>3. Len(log["anchor"]) + 1 \in StateSet("anchor")
      BY <3>1, <3>2
    <3> QED
      BY <2>1, <2>2, <3>1, <3>3, StoreRefines DEF CreateAnchor
  <2>3. CASE UNCHANGED log
    BY <1>0, <2>1, <2>3
  <2> QED
    BY <1>4, <2>2, <2>3 DEF BeforeWrite, StartReconcile, EnsureAnchor, ListRouters, ListIngresses, ListHTTPRoutes,
       Read, CallLost
<1>5. CASE ApplyDnsHosts
  <2>1. UNCHANGED log /\ pc = "apply"
    BY <1>5 DEF ApplyDnsHosts
  <2>2. CASE dryRun
    BY <1>0, <1>5, <2>1, <2>2 DEF ApplyDnsHosts, PutDnsHosts, hostVars
  <2>3. CASE ~dryRun
    <3>1. version' = snap /\ hosts'.entries \in BuildIngressBased(Listed)
      BY <1>5, <2>3 DEF ApplyDnsHosts, PutDnsHosts
    <3>2. snap = [s \in Sources |-> snap[s]]
      BY DEF TypeInv, PositionsOK, Readable
    <3>3. \A s \in Sources : snap[s] \in version[s] .. Len(log[s])
      <4>1. \A s \in Sources : version[s] <= snap[s]
        BY <2>1, ReadByStage, KindsAre DEF TypeInv, PositionsOK
      <4>2. ASSUME NEW s \in Sources PROVE snap[s] \in version[s] .. Len(log[s])
        <5>1. s \in Kinds
          BY KindsAre
        <5>2. Len(log[s]) \in Nat
          BY <5>1, PositionRanges
        <5>3. snap[s] \in 1 .. Len(log[s]) /\ version[s] \in 1 .. Len(log[s])
          BY PositionRanges
        <5> QED
          BY <4>1, <5>2, <5>3
      <4> QED
        BY <4>2
    <3>4. hosts'.entries \in Outputs([s \in Sources |-> log[s][snap[s]]])
      BY <3>1 DEF Outputs, Listed, InputsAt
    <3>5. [s \in Sources |-> [x \in Sources |-> log[x]][s][snap[s]]] = [s \in Sources |-> log[s][snap[s]]]
      OBVIOUS
    <3>6. P!Publish
      BY <2>1, <3>1, <3>2, <3>3, <3>4, <3>5 DEF P!Publish
    <3> QED
      BY <3>6 DEF P!Next
  <2> QED
    BY <2>2, <2>3
<1>6. CASE \E r \in Routers : UpdateRouterStatus(r)
  <2>1. PICK r \in Routers : UpdateRouterStatus(r)
    BY <1>6
  <2>2. UNCHANGED <<version, hosts>> /\ pc = "status" /\ r \in todo
    BY <2>1 DEF UpdateRouterStatus, hostVars
  <2>3. CASE UNCHANGED log
    BY <1>0, <2>2, <2>3
  <2>4. CASE ~Unwritten(r) /\ WriteStatus(r)
    BY <2>2, <2>4, WriteStatusIs, StoreRefines, KindsAre
  <2> QED
    BY <2>1, <2>3, <2>4 DEF UpdateRouterStatus
<1>7. CASE FinishReconcile \/ CrashAndRestart \/ UNCHANGED vars
  BY <1>0, <1>7 DEF FinishReconcile, CrashAndRestart, Restart, vars, baseVars, hostVars
<1> QED
  BY <1>1, <1>2, <1>3, <1>4, <1>5, <1>6, <1>7 DEF Next, Reconcile

\* Although HTTPRoutes are read live and routers and Ingresses from caches,
\* calls fail after they took effect and the process restarts, the DnsHosts
\* object is always built from one state of each kind, none of them older than
\* in the write before.
THEOREM Refinement == Spec => Implements
BY InitRefines, StepRefines, InitType, TypeStep, PTL DEF Spec, Implements, P!Spec

-----------------------------------------------------------------------------
(***************************************************************************)
(* A class resolves to its router.                                         *)
(***************************************************************************)
LEMMA GrowStep == TypeInv /\ [Next]_vars => LogGrows
<1> SUFFICES ASSUME TypeInv, [Next]_vars PROVE LogGrows
  OBVIOUS
<1>1. CASE Users
  BY <1>1, UsersAre, StoreGrows DEF Edit
<1>2. CASE BeforeWrite /\ UNCHANGED statusVars
  BY <1>2, BeforeWriteType
<1>3. CASE \E r \in Routers : UpdateRouterStatus(r)
  BY <1>3, StatusType
<1>4. CASE CollectGarbage \/ Watches \/ ApplyDnsHosts \/ FinishReconcile \/ CrashAndRestart \/ UNCHANGED vars
  <2>1. UNCHANGED log
    BY <1>4 DEF CollectGarbage, Watches, DeliverAnchor, DeliverInput, Deliver, ApplyDnsHosts, FinishReconcile,
       CrashAndRestart, Restart, vars, baseVars
  <2> QED
    BY <2>1, SameLog
<1> QED
  BY <1>1, <1>2, <1>3, <1>4 DEF Next, Reconcile

\* Only the write changes what is published, and the garbage collector ends it.
LEMMA HostsStep ==
  ASSUME [Next]_vars
  PROVE  \/ UNCHANGED <<hosts, version>>
         \/ CollectGarbage /\ hosts' = NoHosts /\ UNCHANGED version
         \/ /\ ApplyDnsHosts /\ ~dryRun
            /\ hosts'.owner = owner /\ hosts'.entries \in BuildIngressBased(Listed) /\ version' = snap
<1>1. CASE Users
  BY <1>1 DEF Users, StoreObject, PutRouter, DeleteAnchor, Edit, hostVars
<1>2. CASE CollectGarbage
  BY <1>2 DEF CollectGarbage
<1>3. CASE Watches
  BY <1>3 DEF Watches, DeliverAnchor, DeliverInput, Deliver, hostVars
<1>4. CASE BeforeWrite
  BY <1>4 DEF BeforeWrite, StartReconcile, EnsureAnchor, ListRouters, ListIngresses, ListHTTPRoutes, Read, CallLost,
     hostVars
<1>5. CASE ApplyDnsHosts
  BY <1>5 DEF ApplyDnsHosts, PutDnsHosts, hostVars
<1>6. CASE \E r \in Routers : UpdateRouterStatus(r)
  BY <1>6 DEF UpdateRouterStatus, hostVars
<1>7. CASE FinishReconcile \/ CrashAndRestart \/ UNCHANGED vars
  BY <1>7 DEF FinishReconcile, CrashAndRestart, Restart, vars, baseVars, hostVars
<1> QED
  BY <1>1, <1>2, <1>3, <1>4, <1>5, <1>6, <1>7 DEF Next, Reconcile

PublishedInv == hosts # NoHosts => hosts.entries \in BuildIngressBased(InputsAt(version))

LEMMA PublishedStep == TypeInv /\ PublishedInv /\ [Next]_vars => PublishedInv'
<1> SUFFICES ASSUME TypeInv, PublishedInv, [Next]_vars, hosts' # NoHosts
             PROVE  hosts'.entries \in BuildIngressBased(InputsAt(version)')
  BY DEF PublishedInv, NoHosts, BuildIngressBased, BuildWith, HostIP, RouterByClass, Served, OfClass, LastByName,
     Existing, IngressClaims, RouteClaims, IngressClass, Least
<1>1. LogGrows
  BY GrowStep
<1>2. CASE UNCHANGED <<hosts, version>>
  <2>1. \A s \in Sources : s \in Kinds /\ version[s] \in 1 .. Len(log[s])
    BY PositionRanges, KindsAre
  <2>2. \A s \in Sources : log'[s][version'[s]] = log[s][version[s]]
    BY <1>1, <1>2, <2>1 DEF LogGrows
  <2>3. InputsAt(version)' = InputsAt(version)
    BY <2>2 DEF InputsAt
  <2> QED
    BY <1>2, <2>3 DEF PublishedInv
<1>3. CASE hosts' = NoHosts
  BY <1>3
<1>4. CASE ApplyDnsHosts /\ hosts'.entries \in BuildIngressBased(Listed) /\ version' = snap
  <2>1. InputsAt(version)' = Listed
    BY <1>4 DEF ApplyDnsHosts, InputsAt, Listed
  <2> QED
    BY <1>4, <2>1
<1> QED
  BY <1>2, <1>3, <1>4, HostsStep

\* The classes served, and by whom.
LEMMA RouterServes ==
  ASSUME NEW routers \in States(Routers, Router), NEW byClass \in RouterByClass(routers)
  PROVE  /\ DOMAIN byClass = Served(routers) /\ Served(routers) \subseteq Classes
         /\ \A c \in DOMAIN byClass : byClass[c] \in Existing(routers)
<1>1. DOMAIN byClass = Served(routers) /\ Served(routers) \subseteq Classes
  BY DEF RouterByClass, Served
<1>2. ASSUME NEW c \in DOMAIN byClass PROVE byClass[c] \in Existing(routers)
  <2>1. byClass[c] \in LastByName(OfClass(routers, c))
    BY <1>1 DEF RouterByClass
  <2> QED
    BY <2>1 DEF LastByName, OfClass
<1> QED
  BY <1>1, <1>2

\* The router of a class, when no two routers share a name.
LEMMA RouterOfClass ==
  ASSUME NEW routers \in States(Routers, Router), DistinctNames(routers), NEW byClass \in RouterByClass(routers)
  PROVE  /\ DOMAIN byClass = Served(routers) /\ Served(routers) \subseteq Classes
         /\ \A c \in Served(routers) : /\ byClass[c] \in Existing(routers)
                                       /\ LastByName(OfClass(routers, c)) = {byClass[c]}
         /\ \A c : c \notin Served(routers) /\ c # NoClass => LastByName(OfClass(routers, c)) = {}
<1>1. DOMAIN byClass = Served(routers) /\ Served(routers) \subseteq Classes
  BY DEF RouterByClass, Served
<1>2. ASSUME NEW c \in Served(routers)
      PROVE  byClass[c] \in Existing(routers) /\ LastByName(OfClass(routers, c)) = {byClass[c]}
  <2> DEFINE rs == OfClass(routers, c)
  <2>1. byClass[c] \in LastByName(rs)
    BY DEF RouterByClass
  <2>2. rs \subseteq Existing(routers) /\ Existing(routers) \subseteq Routers
    BY DEF OfClass, Existing, States
  <2> HIDE DEF rs
  <2>3. byClass[c] \in rs /\ \A x \in rs : RouterName[x] <= RouterName[byClass[c]]
    BY <2>1 DEF LastByName
  <2>4. ASSUME NEW r \in LastByName(rs) PROVE r = byClass[c]
    <3>1. r \in rs /\ RouterName[byClass[c]] <= RouterName[r] /\ RouterName[r] <= RouterName[byClass[c]]
      BY <2>3 DEF LastByName
    <3>2. RouterName[r] \in Nat /\ RouterName[byClass[c]] \in Nat
      BY <2>2, <2>3, <3>1, IngressAssumption
    <3>3. RouterName[r] = RouterName[byClass[c]]
      BY <3>1, <3>2
    <3> QED
      BY <2>2, <2>3, <3>1, <3>3 DEF DistinctNames
  <2> QED
    BY <2>1, <2>2, <2>3, <2>4 DEF rs
<1>3. ASSUME NEW c, c \notin Served(routers), c # NoClass PROVE LastByName(OfClass(routers, c)) = {}
  <2>1. \A r \in Existing(routers) : routers[r].class \in Classes \union {NoClass}
    BY DEF Existing, States, Router
  <2>2. OfClass(routers, c) = {}
    BY <1>3, <2>1 DEF OfClass, Served
  <2> QED
    BY <2>2 DEF LastByName
<1> QED
  BY <1>1, <1>2, <1>3

\* A least element is one of the set.
LEMMA LeastIn == ASSUME NEW T \in SUBSET Nat, T # {} PROVE Least(T) \in T
BY LeastNatural DEF Least

\* getHost keys the entries by router name: the address it finds there is that of
\* a router that serves a class and has that name.
LEMMA HostIPOfName ==
  ASSUME NEW in, in["routers"] \in States(Routers, Router), in["ingresses"] \in States(Ingresses, IngressSpecs),
         NEW byClass \in RouterByClass(in["routers"]),
         NEW x \in IngressClaims(in["ingresses"]) \union RouteClaims(in["routes"]), x.class \in DOMAIN byClass
  PROVE  \E c \in DOMAIN byClass :
           /\ RouterName[byClass[c]] = RouterName[byClass[x.class]]
           /\ HostIP(in, byClass, RouterName[byClass[x.class]]) = in["routers"][byClass[c]].ip
<1> DEFINE ings == in["ingresses"]
           name == RouterName[byClass[x.class]]
           Named(c) == c \in DOMAIN byClass /\ RouterName[byClass[c]] = name
           first == {i \in Existing(ings) : Named(IngressClass(ings[i]))}
           gateways == {c \in {y.class : y \in RouteClaims(in["routes"])} : Named(c)}
           class == IF first # {} THEN IngressClass(ings[Least(first)]) ELSE Least(gateways)
<1>1. HostIP(in, byClass, name) = in["routers"][byClass[class]].ip
  BY DEF HostIP
<1>2. DOMAIN byClass \subseteq Classes /\ \A c \in DOMAIN byClass : byClass[c] \in Existing(in["routers"])
  BY RouterServes
<1>3. \A c : Named(c) => c \in DOMAIN byClass /\ RouterName[byClass[c]] = name
  OBVIOUS
<1>4. Named(x.class)
  OBVIOUS
<1> HIDE DEF Named
<1>5. CASE first # {}
  <2>1. first \in SUBSET Nat
    BY IngressAssumption DEF Existing, States
  <2>2. Least(first) \in first
    BY <1>5, <2>1, LeastIn
  <2>3. Named(class)
    BY <1>5, <2>2
  <2> QED
    BY <1>1, <1>3, <2>3
<1>6. CASE first = {}
  <2>1. x \notin IngressClaims(ings)
    <3> SUFFICES ASSUME x \in IngressClaims(ings) PROVE FALSE
      OBVIOUS
    <3>1. PICK i \in Existing(ings) : x = [class |-> IngressClass(ings[i]), hosts |-> ings[i].hosts]
      BY DEF IngressClaims
    <3>2. x.class = IngressClass(ings[i])
      BY <3>1
    <3> QED
      BY <1>4, <1>6, <3>2
  <2>2. x.class \in gateways
    BY <1>4, <2>1
  <2>3. gateways \in SUBSET Nat
    BY <1>2, IngressAssumption DEF Named
  <2>4. Least(gateways) \in gateways
    BY <2>2, <2>3, LeastIn
  <2>5. Named(class)
    BY <1>6, <2>4
  <2> QED
    BY <1>1, <1>3, <2>5
<1> QED
  BY <1>5, <1>6

\* Without shared names it is the router of the class asked for.
LEMMA HostIPOfClass ==
  ASSUME NEW in, in["routers"] \in States(Routers, Router), in["ingresses"] \in States(Ingresses, IngressSpecs),
         DistinctNames(in["routers"]), NEW byClass \in RouterByClass(in["routers"]),
         NEW x \in IngressClaims(in["ingresses"]) \union RouteClaims(in["routes"]), x.class \in DOMAIN byClass
  PROVE  HostIP(in, byClass, RouterName[byClass[x.class]]) = in["routers"][byClass[x.class]].ip
<1>1. PICK c \in DOMAIN byClass :
        /\ RouterName[byClass[c]] = RouterName[byClass[x.class]]
        /\ HostIP(in, byClass, RouterName[byClass[x.class]]) = in["routers"][byClass[c]].ip
  BY HostIPOfName
<1>2. byClass[c] \in Existing(in["routers"]) /\ byClass[x.class] \in Existing(in["routers"])
  BY RouterServes
<1>3. byClass[c] = byClass[x.class]
  BY <1>1, <1>2 DEF DistinctNames
<1> QED
  BY <1>1, <1>3

\* What is built has addresses of routers and hostnames of rules.
LEMMA BuildTyped ==
  ASSUME NEW in, in["routers"] \in States(Routers, Router), in["ingresses"] \in States(Ingresses, IngressSpecs),
         in["routes"] \in States(Routes, RouteSpecs), NEW byClass \in RouterByClass(in["routers"])
  PROVE  BuildWith(in, byClass) \subseteq Nat \X HostNames
<1> DEFINE all == IngressClaims(in["ingresses"]) \union RouteClaims(in["routes"])
           Ip(x) == HostIP(in, byClass, RouterName[byClass[x.class]])
<1>1. ASSUME NEW x \in all, x.class \in DOMAIN byClass PROVE Ip(x) \in Nat
  <2>1. PICK c \in DOMAIN byClass : Ip(x) = in["routers"][byClass[c]].ip
    BY <1>1, HostIPOfName
  <2>2. byClass[c] \in Existing(in["routers"])
    BY RouterServes
  <2>3. in["routers"][byClass[c]] \in Router
    BY <2>2 DEF Existing, States
  <2> QED
    BY <2>1, <2>3 DEF Router
<1>2. ASSUME NEW x \in all PROVE x.hosts \subseteq HostNames
  <2>1. CASE x \in IngressClaims(in["ingresses"])
    <3>1. PICK i \in Existing(in["ingresses"]) : x.hosts = in["ingresses"][i].hosts
      BY <2>1 DEF IngressClaims
    <3>2. in["ingresses"][i] \in IngressSpecs
      BY <3>1 DEF Existing, States
    <3> QED
      BY <3>1, <3>2 DEF HostNames
  <2>2. CASE x \in RouteClaims(in["routes"])
    <3>1. PICK h \in Existing(in["routes"]) : x.hosts = in["routes"][h].hosts
      BY <2>2 DEF RouteClaims
    <3>2. in["routes"][h] \in RouteSpecs
      BY <3>1 DEF Existing, States
    <3> QED
      BY <3>1, <3>2 DEF HostNames
  <2> QED
    BY <2>1, <2>2
<1>3. BuildWith(in, byClass) = UNION {{<<Ip(x), h>> : h \in x.hosts} : x \in {y \in all : y.class \in DOMAIN byClass}}
  BY DEF BuildWith
<1> HIDE DEF all, Ip
<1> QED
  BY <1>1, <1>2, <1>3

\* Every variable keeps its type; the states a reconcile read and the last write
\* was built from are states the logs have; no hostname is published without
\* the address of a router, also when its class has lost its last one
\* (BuildIngressBased, the two checks of routerByClass).
THEOREM TypeCorrect == Spec => []IngressTypeOK
<1>1. ASSUME TypeInv, PublishedInv PROVE IngressTypeOK
  <2>1. /\ log["anchor"] \in Seq(Nat) /\ log["routers"] \in Seq(States(Routers, Router))
        /\ log["ingresses"] \in Seq(States(Ingresses, IngressSpecs))
        /\ log["routes"] \in Seq(States(Routes, RouteSpecs))
    BY <1>1, KindsAre, StateSets DEF TypeInv, LogOK
  <2>2. AnchoredTypeOK
    BY <1>1, <2>1 DEF TypeInv, LogOK, PositionsOK, CachesOK, Readable, WorkOK, ValuesOK, AnchoredTypeOK
  <2>3. hosts.entries \subseteq Nat \X HostNames
    <3>1. CASE hosts = NoHosts
      BY <3>1 DEF NoHosts
    <3>2. CASE hosts # NoHosts
      <4> DEFINE in == InputsAt(version)
      <4>1. /\ in["routers"] \in States(Routers, Router) /\ in["ingresses"] \in States(Ingresses, IngressSpecs)
            /\ in["routes"] \in States(Routes, RouteSpecs)
        BY <1>1, PositionRanges, KindsAre, StateSets DEF InputsAt
      <4>2. PICK byClass \in RouterByClass(in["routers"]) : hosts.entries = BuildWith(in, byClass)
        BY <1>1, <3>2 DEF PublishedInv, BuildIngressBased
      <4> HIDE DEF in
      <4> QED
        BY <4>1, <4>2, BuildTyped
    <3> QED
      BY <3>1, <3>2
  <2> QED
    BY <1>1, <2>1, <2>2, <2>3 DEF TypeInv, WorkOK, ValuesOK, Stages, IngressTypeOK
<1>2. Init => PublishedInv
  BY InitIs DEF PublishedInv
<1> QED
  BY <1>1, <1>2, PublishedStep, InitType, TypeStep, PTL DEF Spec

\* The table of classes, the entries by router name: put together they are
\* the promised names, however routers of one class are sorted.
LEMMA BuildIsPromised ==
  ASSUME NEW in, in["routers"] \in States(Routers, Router), in["ingresses"] \in States(Ingresses, IngressSpecs),
         DistinctNames(in["routers"]), NEW byClass \in RouterByClass(in["routers"])
  PROVE  BuildWith(in, byClass) = Promised(in)
<1> DEFINE all == IngressClaims(in["ingresses"]) \union RouteClaims(in["routes"])
           claims == {x \in all : x.class \in DOMAIN byClass}
           Entry(x, h) == <<in["routers"][byClass[x.class]].ip, h>>
           names == {x \in all : x.class # NoClass}
           Last(x) == LastByName(OfClass(in["routers"], x.class))
<1>1. BuildWith(in, byClass) = UNION {{Entry(x, h) : h \in x.hosts} : x \in claims}
  <2>1. \A x \in claims : HostIP(in, byClass, RouterName[byClass[x.class]]) = in["routers"][byClass[x.class]].ip
    BY HostIPOfClass
  <2> QED
    BY <2>1 DEF BuildWith
<1>2. Promised(in) = UNION {UNION {{<<in["routers"][r].ip, h>> : h \in x.hosts} : r \in Last(x)} : x \in names}
  BY DEF Promised
<1>3. \A x \in claims : x \in names /\ Last(x) = {byClass[x.class]}
  BY RouterOfClass, IngressAssumption
<1>4. \A x \in names \ claims : Last(x) = {}
  BY RouterOfClass
<1> HIDE DEF claims, names, Last
<1>5. claims \subseteq names
  BY <1>3
<1>6. \A x \in claims :
        UNION {{<<in["routers"][r].ip, h>> : h \in x.hosts} : r \in Last(x)} = {Entry(x, h) : h \in x.hosts}
  BY <1>3
<1>7. \A x \in names \ claims :
        UNION {{<<in["routers"][r].ip, h>> : h \in x.hosts} : r \in Last(x)} = {}
  BY <1>4
<1> QED
  BY <1>1, <1>2, <1>5, <1>6, <1>7

\* As long as no two routers share a name, every hostname of a class with a
\* router resolves to the address of the last of them by name, and nothing else
\* is published (README.md:50, BuildIngressBased), in the states the last write
\* was made from.
THEOREM ClassResolves == Spec => []ClassResolvesToItsRouter
<1>1. TypeInv /\ PublishedInv => ClassResolvesToItsRouter
  <2> DEFINE in == InputsAt(version)
  <2> SUFFICES ASSUME TypeInv, PublishedInv, hosts # NoHosts, DistinctNames(in["routers"])
               PROVE  hosts.entries = Promised(in)
    BY DEF ClassResolvesToItsRouter
  <2>1. in["routers"] \in States(Routers, Router) /\ in["ingresses"] \in States(Ingresses, IngressSpecs)
    BY PositionRanges, KindsAre, StateSets DEF InputsAt
  <2>2. PICK byClass \in RouterByClass(in["routers"]) : hosts.entries = BuildWith(in, byClass)
    BY DEF PublishedInv, BuildIngressBased
  <2> HIDE DEF in
  <2> QED
    BY <2>1, <2>2, BuildIsPromised
<1>2. Init => PublishedInv
  BY InitIs DEF PublishedInv
<1> QED
  BY <1>1, <1>2, PublishedStep, InitType, TypeStep, PTL DEF Spec

-----------------------------------------------------------------------------
(***************************************************************************)
(* What is published at rest.  The invariant follows what the worker knows *)
(* through a reconcile: unless the request is queued again, what it listed *)
(* is not behind the caches, the anchor it holds is the one there is or    *)
(* its deletion is still to be seen; and once it has written, the same     *)
(* holds of the DnsHosts object.                                           *)
(***************************************************************************)
AnchorEventPending == seen["anchor"] < Len(log["anchor"])

\* Position p of kind s is not behind the cache.
UpToDate(s, p) == (s = "routes" /\ ~useRoutes) \/ seen[s] <= p

ListedOK == ~queued => \A s \in ReadBy(pc) : UpToDate(s, snap[s])

OwnerOK ==
  pc \in {"list", "listIngresses", "listRoutes", "apply"} =>
    owner # 0 /\ (owner = Current("anchor") \/ AnchorEventPending \/ queued)

OwnedOK == hosts.owner = 0 => hosts = NoHosts

NothingCached == \A s \in Sources : Existing(Cached(s)) = {}

Shown ==
  /\ hosts.owner = Current("anchor") /\ hosts.owner # 0
  /\ \A s \in Sources : UpToDate(s, version[s])

DoneOK ==
  pc \in {"idle", "status"} /\ ~queued =>
    \/ AnchorEventPending
    \/ pc = "idle" /\ Current("anchor") = 0 /\ NothingCached
    \/ Shown

FreshInv == ~dryRun => ListedOK /\ OwnerOK /\ OwnedOK /\ DoneOK

LEMMA SettingsStep == [Next]_vars => UNCHANGED <<dryRun, useRoutes>>
<1> SUFFICES ASSUME [Next]_vars PROVE UNCHANGED <<dryRun, useRoutes>>
  OBVIOUS
<1>1. CASE Users /\ UNCHANGED statusVars
  BY <1>1 DEF Users, StoreObject, PutRouter, DeleteAnchor, Edit, statusVars
<1>2. CASE (CollectGarbage \/ Watches) /\ UNCHANGED statusVars
  BY <1>2 DEF CollectGarbage, Watches, DeliverAnchor, DeliverInput, Deliver, statusVars
<1>3. CASE BeforeWrite /\ UNCHANGED statusVars
  BY <1>3 DEF BeforeWrite, StartReconcile, EnsureAnchor, ListRouters, ListIngresses, ListHTTPRoutes, Read, CallLost,
     statusVars
<1>4. CASE ApplyDnsHosts \/ (\E r \in Routers : UpdateRouterStatus(r)) \/ FinishReconcile \/ CrashAndRestart
  BY <1>4 DEF ApplyDnsHosts, UpdateRouterStatus, FinishReconcile, CrashAndRestart, Restart, statusVars
<1>5. CASE UNCHANGED vars
  BY <1>5 DEF vars, baseVars, statusVars
<1> QED
  BY <1>1, <1>2, <1>3, <1>4, <1>5 DEF Next, Reconcile

\* What a cache holds does not change unless the cache does.
LEMMA CachedKept ==
  ASSUME TypeInv, LogGrows, UNCHANGED seen
  PROVE  \A k \in Kinds : Cached(k)' = Cached(k)
<1>1. \A k \in Kinds : seen[k] \in 1 .. Len(log[k])
  BY PositionRanges
<1> QED
  BY <1>1 DEF LogGrows, Cached

LEMMA FreshInit == Init => FreshInv
<1> SUFFICES ASSUME Init PROVE ListedOK /\ OwnerOK /\ OwnedOK /\ DoneOK
  BY DEF FreshInv
<1>1. PICK in \in InitialInputs :
        /\ log["anchor"] = <<0>> /\ \A s \in Sources : log[s] = <<Empty[s], in[s]>>
        /\ Len(log["anchor"]) = 1 /\ \A s \in Sources : Len(log[s]) = 2
        /\ seen = [k \in Kinds |-> Len(log[k])]
        /\ hosts = NoHosts /\ queued = StartTriggers(in) /\ pc = "idle"
  BY InitIs
<1>2. ListedOK /\ OwnerOK /\ OwnedOK
  BY <1>1, ReadByStage DEF ListedOK, OwnerOK, OwnedOK
<1>3. ASSUME ~queued PROVE NothingCached
  <2>1. \A s \in Sources : Existing(in[s]) = {}
    BY <1>1, <1>3 DEF StartTriggers
  <2>2. \A s \in Sources : seen[s] = 2
    BY <1>1, KindsAre
  <2>3. ASSUME NEW s \in Sources PROVE Cached(s) = in[s]
    <3>1. Cached(s) = log[s][2] /\ log[s] = <<Empty[s], in[s]>>
      BY <1>1, <2>2 DEF Cached
    <3> DEFINE e == Empty[s]
               i == in[s]
    <3>2. log[s] = <<e, i>>
      BY <3>1
    <3> HIDE DEF e, i
    <3>3. log[s][2] = i
      BY <3>2
    <3> QED
      BY <3>1, <3>3 DEF i
  <2> QED
    BY <2>1, <2>3 DEF NothingCached
<1>4. Current("anchor") = 0
  BY <1>1 DEF Current
<1> QED
  BY <1>1, <1>2, <1>3, <1>4 DEF DoneOK

\* A request that is queued will make up for anything.
LEMMA FreshQueued ==
  ASSUME queued', OwnedOK', pc' \in {"idle", "anchor"} \/ owner' # 0
  PROVE  FreshInv'
BY DEF FreshInv, ListedOK, OwnerOK, DoneOK

LEMMA FreshEdit ==
  ASSUME TypeInv, FreshInv, Users, UNCHANGED statusVars
  PROVE  FreshInv'
<1>1. PICK k \in Kinds : \E state \in StateSet(k) : Edit(k, state)
  BY UsersAre
<1>2. PICK state \in StateSet(k) : Edit(k, state)
  BY <1>1
<1>3. /\ Store(k, state)
      /\ UNCHANGED <<dryRun, seen, hosts, version, queued, pc, owner, snap, useRoutes>>
  BY <1>2 DEF Edit, hostVars, workVars, statusVars
<1>4. LogGrows
  BY <1>3, StoreGrows
<1>5. Len(log["anchor"]) \in Nat /\ seen["anchor"] \in Nat /\ seen["anchor"] <= Len(log["anchor"])
  BY AnchorRange
<1>6. AnchorEventPending' \/ (Current("anchor")' = Current("anchor") /\ ~AnchorEventPending)
  <2>1. CASE k = "anchor"
    <3>1. Len(log'["anchor"]) = Len(log["anchor"]) + 1
      BY <1>3, <2>1, StoreLog
    <3> QED
      BY <1>3, <1>5, <3>1 DEF AnchorEventPending
  <2>2. CASE k # "anchor"
    BY <1>3, <2>2, StoreLog, KindsAre DEF AnchorEventPending
  <2> QED
    BY <2>1, <2>2
<1>7. NothingCached' <=> NothingCached
  BY <1>3, <1>4, CachedKept, KindsAre DEF NothingCached
<1> QED
  BY <1>3, <1>6, <1>7 DEF FreshInv, ListedOK, OwnerOK, OwnedOK, DoneOK, Shown, UpToDate

LEMMA FreshBeforeWrite ==
  ASSUME TypeInv, FreshInv, BeforeWrite, UNCHANGED statusVars, ~dryRun
  PROVE  FreshInv'
<1> USE KindsAre
<1>1. UNCHANGED <<seen, hosts, version, useRoutes>> /\ OwnedOK'
  BY DEF BeforeWrite, StartReconcile, EnsureAnchor, ListRouters, ListIngresses, ListHTTPRoutes, Read, CallLost,
     hostVars, statusVars, FreshInv, OwnedOK
<1>2. CASE StartReconcile
  <2>1. pc' = "anchor"
    BY <1>2 DEF StartReconcile
  <2> QED
    BY <1>1, <2>1, ReadByStage DEF FreshInv, ListedOK, OwnerOK, DoneOK
<1>3. CASE EnsureAnchor
  <2>1. CASE ReturnError
    BY <1>1, <2>1, FreshQueued DEF ReturnError, Return
  <2>2. CASE Cached("anchor") # 0 /\ UseAnchor(Cached("anchor")) /\ UNCHANGED log
    <3>1. pc' = "list" /\ owner' = Cached("anchor") /\ UNCHANGED <<seen, log>>
      BY <1>1, <2>2 DEF UseAnchor
    <3>2. Cached("anchor") = Current("anchor") \/ AnchorEventPending
      BY AnchorRange DEF Cached, Current, AnchorEventPending
    <3>3. OwnerOK'
      BY <2>2, <3>1, <3>2 DEF OwnerOK, Current, AnchorEventPending
    <3> QED
      BY <1>1, <3>1, <3>3, ReadByStage DEF FreshInv, ListedOK, DoneOK
  <2>3. CASE CreateAnchor /\ UseAnchor(Len(log["anchor"]) + 1)
    <3>1. pc' = "list" /\ owner' = Len(log["anchor"]) + 1
      BY <2>3 DEF UseAnchor
    <3>2. Len(log["anchor"]) \in Nat
      BY PositionRanges
    <3>3. Len(log["anchor"]) + 1 \in StateSet("anchor")
      BY <3>2, StateSets
    <3>4. Current("anchor")' = Len(log["anchor"]) + 1
      BY <2>3, <3>3, StoreLog DEF CreateAnchor
    <3>5. OwnerOK'
      BY <3>1, <3>2, <3>4 DEF OwnerOK
    <3> QED
      BY <1>1, <3>1, <3>5, ReadByStage DEF FreshInv, ListedOK, DoneOK
  <2> QED
    BY <1>3, <2>1, <2>2, <2>3 DEF EnsureAnchor, CallFails
<1>4. CASE ListRouters
  <2>1. /\ pc = "list" /\ pc' = "listIngresses" /\ snap' = [snap EXCEPT !["routers"] = seen["routers"]]
        /\ UNCHANGED <<owner, log, queued>>
    BY <1>4 DEF ListRouters, Read
  <2>2. snap'["routers"] = seen["routers"] /\ seen["routers"] \in Nat
    BY <2>1, PositionRanges DEF TypeInv, PositionsOK, Readable
  <2>3. ListedOK'
    BY <1>1, <2>1, <2>2, ReadByStage DEF ListedOK, UpToDate
  <2> QED
    BY <1>1, <2>1, <2>3 DEF FreshInv, OwnerOK, DoneOK, Current, AnchorEventPending
<1>5. CASE ListIngresses
  <2>1. /\ pc = "listIngresses" /\ pc' = "listRoutes" /\ snap' = [snap EXCEPT !["ingresses"] = seen["ingresses"]]
        /\ UNCHANGED <<owner, log, queued>>
    BY <1>5 DEF ListIngresses, Read
  <2>2. /\ snap'["ingresses"] = seen["ingresses"] /\ seen["ingresses"] \in Nat
        /\ snap'["routers"] = snap["routers"]
    BY <2>1, PositionRanges DEF TypeInv, PositionsOK, Readable
  <2>3. ListedOK'
    BY <1>1, <2>1, <2>2, ReadByStage DEF FreshInv, ListedOK, UpToDate
  <2> QED
    BY <1>1, <2>1, <2>3 DEF FreshInv, OwnerOK, DoneOK, Current, AnchorEventPending
<1>6. CASE ListHTTPRoutes
  <2> DEFINE position == IF useRoutes THEN Len(log["routes"]) ELSE 1
  <2>1. /\ pc = "listRoutes" /\ pc' = "apply" /\ snap' = [snap EXCEPT !["routes"] = position]
        /\ UNCHANGED <<owner, log, queued>>
    BY <1>6 DEF ListHTTPRoutes, Read
  <2>2. useRoutes => seen["routes"] <= position
    BY PositionRanges
  <2> HIDE DEF position
  <2>3. /\ snap'["routes"] = position
        /\ snap'["routers"] = snap["routers"] /\ snap'["ingresses"] = snap["ingresses"]
    BY <2>1 DEF TypeInv, PositionsOK, Readable
  <2>4. ListedOK'
    BY <1>1, <2>1, <2>2, <2>3, ReadByStage DEF FreshInv, ListedOK, UpToDate
  <2> QED
    BY <1>1, <2>1, <2>4 DEF FreshInv, OwnerOK, DoneOK, Current, AnchorEventPending
<1>7. CASE CallLost({"anchor", "list", "listIngresses", "listRoutes", "apply"})
  BY <1>1, <1>7, FreshQueued DEF CallLost, CallFails, ReturnError, Return
<1> QED
  BY <1>2, <1>3, <1>4, <1>5, <1>6, <1>7 DEF BeforeWrite

LEMMA FreshApply ==
  ASSUME TypeInv, FreshInv, ApplyDnsHosts, ~dryRun
  PROVE  FreshInv'
<1>1. /\ pc = "apply" /\ UNCHANGED <<dryRun, log, seen, useRoutes>>
      /\ hosts'.owner = owner /\ version' = snap
  BY DEF ApplyDnsHosts, PutDnsHosts
<1>2. OwnerOK /\ ListedOK /\ owner # 0
  BY <1>1 DEF FreshInv, OwnerOK
<1>3. OwnedOK'
  BY <1>1, <1>2 DEF OwnedOK
<1>4. CASE CallFails
  BY <1>3, <1>4, FreshQueued DEF CallFails, ReturnError, Return
<1>5. CASE pc' = "status" /\ UNCHANGED <<owner, snap, queued>>
  <2>1. ListedOK'
    BY <1>1, <1>2, <1>5, ReadByStage DEF ListedOK, UpToDate
  <2>2. DoneOK'
    BY <1>1, <1>2, <1>5, ReadByStage, KindsAre DEF DoneOK, Shown, OwnerOK, ListedOK, UpToDate, AnchorEventPending,
       Current
  <2> QED
    BY <1>3, <1>5, <2>1, <2>2 DEF FreshInv, OwnerOK
<1> QED
  BY <1>4, <1>5 DEF ApplyDnsHosts

LEMMA FreshStatus ==
  ASSUME TypeInv, FreshInv, NEW r \in Routers, UpdateRouterStatus(r)
  PROVE  FreshInv'
<1>1. /\ pc = "status" /\ r \in todo
      /\ UNCHANGED <<pc, owner, snap, dryRun, seen, hosts, version, queued, useRoutes>>
  BY DEF UpdateRouterStatus, workVars, hostVars
<1>2. log'["anchor"] = log["anchor"]
  <2>1. CASE ~Unwritten(r) /\ WriteStatus(r)
    BY <1>1, <2>1, WriteStatusIs, StoreLog, KindsAre
  <2>2. CASE UNCHANGED log
    BY <2>2
  <2> QED
    BY <2>1, <2>2 DEF UpdateRouterStatus
<1> QED
  BY <1>1, <1>2 DEF FreshInv, ListedOK, OwnerOK, OwnedOK, DoneOK, Shown, UpToDate, AnchorEventPending, Current

LEMMA FreshRestart ==
  ASSUME TypeInv, FreshInv, CrashAndRestart, ~dryRun
  PROVE  FreshInv'
<1>1. /\ pc' = "idle" /\ UNCHANGED <<log, hosts>>
      /\ seen' = [k \in Kinds |-> Len(log[k])]
      /\ queued' = (StartTriggers(Inputs) \/ Current("anchor") # 0)
  BY DEF CrashAndRestart, Restart, Return, hostVars
<1>2. OwnedOK'
  BY <1>1 DEF FreshInv, OwnedOK
<1>3. ASSUME ~queued' PROVE Current("anchor")' = 0 /\ NothingCached'
  <2>1. \A s \in Sources : Existing(Current(s)) = {}
    BY <1>1, <1>3 DEF StartTriggers, Inputs
  <2>2. \A s \in Sources : Cached(s)' = Current(s)
    BY <1>1, KindsAre DEF Cached, Current
  <2> QED
    BY <1>1, <1>3, <2>1, <2>2 DEF NothingCached, Current
<1> QED
  BY <1>1, <1>2, <1>3, ReadByStage DEF FreshInv, ListedOK, OwnerOK, DoneOK

LEMMA FreshStep == TypeInv /\ FreshInv /\ [Next]_vars => FreshInv'
<1> SUFFICES ASSUME TypeInv, FreshInv, [Next]_vars, ~dryRun PROVE FreshInv'
  BY SettingsStep DEF FreshInv
<1>1. CASE Users /\ UNCHANGED statusVars
  BY <1>1, FreshEdit
<1>2. CASE CollectGarbage /\ UNCHANGED statusVars
  <2>1. /\ Orphaned /\ hosts' = NoHosts
        /\ UNCHANGED <<dryRun, log, seen, version, queued, pc, owner, snap, useRoutes>>
    BY <1>2 DEF CollectGarbage, workVars, statusVars
  <2>2. NothingCached' <=> NothingCached
    BY <2>1 DEF NothingCached, Cached
  <2>3. ~Shown
    BY <2>1 DEF Orphaned, Shown
  <2> QED
    BY <2>1, <2>2, <2>3 DEF FreshInv, ListedOK, OwnerOK, OwnedOK, DoneOK, UpToDate, AnchorEventPending, Current
<1>3. CASE Watches
  <2>1. queued' /\ UNCHANGED <<hosts, pc, owner>>
    BY <1>3 DEF Watches, DeliverAnchor, DeliverInput, Deliver, hostVars, workVars
  <2>2. OwnedOK'
    BY <2>1 DEF FreshInv, OwnedOK
  <2> QED
    BY <2>1, <2>2 DEF FreshInv, ListedOK, OwnerOK, DoneOK
<1>4. CASE BeforeWrite /\ UNCHANGED statusVars
  BY <1>4, FreshBeforeWrite
<1>5. CASE ApplyDnsHosts
  BY <1>5, FreshApply
<1>6. CASE \E r \in Routers : UpdateRouterStatus(r)
  BY <1>6, FreshStatus
<1>7. CASE FinishReconcile
  <2>1. pc = "status" /\ pc' = "idle" /\ UNCHANGED <<log, seen, hosts, version, queued, useRoutes>>
    BY <1>7 DEF FinishReconcile, Return, hostVars, statusVars
  <2> QED
    BY <2>1, ReadByStage DEF FreshInv, ListedOK, OwnerOK, OwnedOK, DoneOK, Shown, UpToDate, AnchorEventPending, Current
<1>8. CASE CrashAndRestart
  BY <1>8, FreshRestart
<1>9. CASE UNCHANGED vars
  <2>1. UNCHANGED <<dryRun, log, seen, hosts, version, queued, pc, owner, snap, useRoutes>>
    BY <1>9 DEF vars, baseVars, hostVars, workVars, statusVars
  <2>2. NothingCached' <=> NothingCached
    BY <2>1 DEF NothingCached, Cached
  <2> QED
    BY <2>1, <2>2 DEF FreshInv, ListedOK, OwnerOK, OwnedOK, DoneOK, Shown, UpToDate, AnchorEventPending, Current
<1> QED
  BY <1>1, <1>2, <1>3, <1>4, <1>5, <1>6, <1>7, <1>8, <1>9 DEF Next, Reconcile

\* Without routers there is nothing to publish.
LEMMA NothingServed ==
  ASSUME NEW in, Existing(in["routers"]) = {}
  PROVE  {} \in BuildIngressBased(in)
<1>1. Served(in["routers"]) = {}
  BY DEF Served, OfClass
<1> DEFINE none == [c \in {} |-> 0]
<1>2. none \in RouterByClass(in["routers"]) /\ DOMAIN none = {}
  BY <1>1 DEF RouterByClass
<1> HIDE DEF none
<1>3. BuildWith(in, none) = {}
  BY <1>2 DEF BuildWith
<1> QED
  BY <1>2, <1>3 DEF BuildIngressBased

\* What the setting hides is at the position that is never read past.
LEMMA RelevantIsRead ==
  ASSUME TypeInv, \A k \in Kinds : seen[k] = Len(log[k]), \A s \in Sources : UpToDate(s, version[s])
  PROVE  InputsAt(version) = Relevant(Inputs)
<1>1. \A s \in Sources : version[s] \in 1 .. Len(log[s]) /\ Len(log[s]) \in Nat
  BY PositionRanges, KindsAre
<1>2. \A s \in Sources : (s = "routes" /\ ~useRoutes) \/ version[s] = Len(log[s])
  BY <1>1, KindsAre DEF UpToDate
<1>3. Inputs = [s \in Sources |-> log[s][Len(log[s])]]
  BY DEF Inputs, Current
<1>4. CASE useRoutes
  <2>1. \A s \in Sources : version[s] = Len(log[s])
    BY <1>2, <1>4
  <2> QED
    BY <1>3, <1>4, <2>1 DEF InputsAt, Relevant
<1>5. CASE ~useRoutes
  <2>1. log["routes"][version["routes"]] = Empty["routes"]
    BY <1>5 DEF TypeInv, PositionsOK, CachesOK, Readable
  <2>2. \A s \in Sources \ {"routes"} : version[s] = Len(log[s])
    BY <1>2
  <2>3. Relevant(Inputs) = [s \in Sources |-> IF s = "routes" THEN Empty["routes"] ELSE log[s][Len(log[s])]]
    BY <1>3, <1>5 DEF Relevant
  <2> QED
    BY <2>1, <2>2, <2>3 DEF InputsAt
<1> QED
  BY <1>4, <1>5

\* When no event, request, reconcile or garbage is left, the DnsHosts object
\* shows the routers, the Ingresses and, if the setting says so, the HTTPRoutes
\* as they are, whatever edits, failed calls, crashes and deletions of the
\* anchor came before (reconcileIngress and its watches).
THEOREM FreshAtRest == Spec => []UpToDateAtRest
<1>1. TypeInv /\ PublishedInv /\ FreshInv => UpToDateAtRest
  <2> SUFFICES ASSUME TypeInv, PublishedInv, FreshInv, Settled, ~dryRun
               PROVE  hosts.entries \in BuildIngressBased(Relevant(Inputs))
    BY DEF UpToDateAtRest
  <2>1. \A k \in Kinds : seen[k] = Len(log[k]) /\ Len(log[k]) \in Nat
    BY PositionRanges DEF Settled
  <2>2. OwnedOK /\ (Shown \/ (Current("anchor") = 0 /\ NothingCached))
    BY <2>1, KindsAre DEF FreshInv, DoneOK, Settled, AnchorEventPending
  <2>3. CASE Shown
    <3>1. hosts # NoHosts
      BY <2>3 DEF Shown, NoHosts
    <3>2. InputsAt(version) = Relevant(Inputs)
      BY <2>1, <2>3, RelevantIsRead DEF Shown
    <3> QED
      BY <3>1, <3>2 DEF PublishedInv
  <2>4. CASE Current("anchor") = 0 /\ NothingCached
    <3>1. hosts = NoHosts
      BY <2>2, <2>4 DEF Settled, Orphaned, OwnedOK
    <3>2. hosts.entries = {}
      BY <3>1 DEF NoHosts
    <3>3. Cached("routers") = Current("routers")
      BY <2>1, KindsAre DEF Cached, Current
    <3>4. Relevant(Inputs)["routers"] = Current("routers")
      BY KindsAre DEF Relevant, Inputs
    <3>5. Existing(Relevant(Inputs)["routers"]) = {}
      BY <2>4, <3>3, <3>4, KindsAre DEF NothingCached
    <3> QED
      BY <3>2, <3>5, NothingServed
  <2> QED
    BY <2>2, <2>3, <2>4
<1>2. Init => PublishedInv
  BY InitIs DEF PublishedInv
<1> QED
  BY <1>1, <1>2, PublishedStep, FreshInit, FreshStep, InitType, TypeStep, PTL DEF Spec

-----------------------------------------------------------------------------
(***************************************************************************)
(* What a Ready router says.  Ready is written for the generation that was *)
(* listed, after the write built from it; the router may since have been   *)
(* changed, or deleted and created again, which must not make an old write *)
(* count for the new router.                                               *)
(***************************************************************************)
\* A router exists in all states from i to j.
Lives(r, i, j) == \A n \in i .. j : log["routers"][n][r] # Nil

GensGrow ==
  \A r \in Routers : \A i, j \in 1 .. Len(log["routers"]) :
    i <= j /\ Lives(r, i, j) => log["routers"][i][r].gen <= log["routers"][j][r].gen

WrittenBefore(r) ==
  \E i \in 1 .. version["routers"] :
    /\ Lives(r, i, Len(log["routers"]))
    /\ Current("routers")[r].obs <= log["routers"][i][r].gen

ReadyInv ==
  /\ GensGrow
  /\ \A r \in Existing(Current("routers")) : Current("routers")[r].ready => WrittenBefore(r)
  /\ pc = "status" /\ ~dryRun => snap["routers"] <= version["routers"]

LEMMA RouterAt ==
  ASSUME TypeInv
  PROVE  /\ Len(log["routers"]) \in Nat \ {0} /\ version["routers"] \in 1 .. Len(log["routers"])
         /\ snap["routers"] \in 1 .. Len(log["routers"])
         /\ \A i \in 1 .. Len(log["routers"]) :
              /\ log["routers"][i] \in [Routers -> Router \union {Nil}]
              /\ \A r \in Routers : log["routers"][i][r] # Nil => log["routers"][i][r].gen \in Nat
<1>1. /\ Len(log["routers"]) \in Nat \ {0} /\ version["routers"] \in 1 .. Len(log["routers"])
      /\ snap["routers"] \in 1 .. Len(log["routers"])
  BY PositionRanges, KindsAre
<1>2. \A i \in 1 .. Len(log["routers"]) : log["routers"][i] \in [Routers -> Router \union {Nil}]
  BY PositionRanges, KindsAre, StateSets DEF States
<1>3. \A x \in Router : x.gen \in Nat
  BY DEF Router
<1> QED
  BY <1>1, <1>2, <1>3

LEMMA ReadyInit == Init => ReadyInv
<1> SUFFICES ASSUME Init PROVE ReadyInv
  OBVIOUS
<1>1. PICK in \in InitialInputs :
        \A s \in Sources : log[s] = <<Empty[s], in[s]>> /\ Len(log[s]) = 2 /\ pc = "idle"
  BY InitIs
<1> DEFINE e == Empty["routers"]
           i2 == in["routers"]
<1>2. log["routers"] = <<e, i2>> /\ Len(log["routers"]) = 2 /\ pc = "idle"
  BY <1>1, KindsAre
<1>3. \A r \in Routers : e[r] = Nil
  BY IngressAssumption
<1>4. \A r \in Existing(i2) : ~i2[r].ready
  BY InitialInputsAssumption
<1>5. TypeInv
  BY InitType
<1> HIDE DEF e, i2
<1>6. log["routers"][1] = e /\ log["routers"][2] = i2 /\ Current("routers") = i2
  BY <1>2 DEF Current
<1>7. GensGrow
  <2> SUFFICES ASSUME NEW r \in Routers, NEW i \in 1 .. 2, NEW j \in 1 .. 2, i <= j, Lives(r, i, j)
               PROVE  log["routers"][i][r].gen <= log["routers"][j][r].gen
    BY <1>2 DEF GensGrow
  <2>1. log["routers"][i][r] # Nil
    BY DEF Lives
  <2>2. i = 2 /\ j = 2
    BY <1>3, <1>6, <2>1
  <2>3. log["routers"][2][r].gen \in Nat
    BY <1>2, <1>5, <2>1, <2>2, RouterAt
  <2> QED
    BY <2>2, <2>3
<1> QED
  BY <1>2, <1>4, <1>6, <1>7 DEF ReadyInv

\* Storing a state of the routers appends it to their log.
LEMMA RoutersAppended ==
  ASSUME TypeInv, NEW state \in StateSet("routers"), Store("routers", state)
  PROVE  /\ Len(log["routers"]) \in Nat \ {0} /\ Len(log'["routers"]) = Len(log["routers"]) + 1
         /\ log'["routers"][Len(log["routers"]) + 1] = state
         /\ \A n \in 1 .. Len(log["routers"]) : log'["routers"][n] = log["routers"][n]
<1>1. "routers" \in Kinds
  BY KindsAre
<1>2. Len(log'["routers"]) = Len(log["routers"]) + 1 /\ Current("routers")' = state
  BY <1>1, StoreLog
<1>3. /\ Len(log["routers"]) \in Nat \ {0}
      /\ \A n \in 1 .. Len(log["routers"]) : log'["routers"][n] = log["routers"][n]
  BY <1>1, StoreLog
<1>4. log'["routers"][Len(log["routers"]) + 1] = state
  BY <1>2 DEF Current
<1> QED
  BY <1>2, <1>3, <1>4

\* A router that exists on, in the state added last.
LEMMA LivesOn ==
  ASSUME TypeInv, NEW state \in StateSet("routers"), Store("routers", state),
         NEW r, NEW i \in 1 .. Len(log["routers"]), Lives(r, i, Len(log["routers"])), state[r] # Nil
  PROVE  Lives(r, i, Len(log["routers"]))'
<1>1. /\ Len(log["routers"]) \in Nat \ {0} /\ Len(log'["routers"]) = Len(log["routers"]) + 1
      /\ log'["routers"][Len(log["routers"]) + 1] = state
      /\ \A n \in 1 .. Len(log["routers"]) : log'["routers"][n] = log["routers"][n]
  BY RoutersAppended
<1>2. ASSUME NEW n \in i .. Len(log["routers"]) PROVE log'["routers"][n][r] # Nil
  <2>1. n \in 1 .. Len(log["routers"]) /\ log["routers"][n][r] # Nil
    BY <1>1 DEF Lives
  <2> QED
    BY <1>1, <2>1
<1>3. log'["routers"][Len(log["routers"]) + 1][r] # Nil
  BY <1>1
<1>4. \A n \in i .. Len(log["routers"]) + 1 : n \in i .. Len(log["routers"]) \/ n = Len(log["routers"]) + 1
  BY <1>1
<1> QED
  BY <1>1, <1>2, <1>3, <1>4 DEF Lives

LEMMA GensGrowKept ==
  ASSUME TypeInv, GensGrow, NEW state \in StateSet("routers"), Store("routers", state),
         \A r \in Routers : Current("routers")[r] # Nil /\ state[r] # Nil => Current("routers")[r].gen <= state[r].gen
  PROVE  GensGrow'
<1> DEFINE n == Len(log["routers"])
           old == log["routers"]
           new == log'["routers"]
<1>1. /\ n \in Nat \ {0} /\ Len(new) = n + 1 /\ new[n + 1] = state
      /\ \A i \in 1 .. n : new[i] = old[i]
  BY RoutersAppended
<1>2. \A r \in Routers : state[r] # Nil => state[r].gen \in Nat
  BY StateSets DEF States, Router
<1>3. \A i \in 1 .. n : \A r \in Routers : old[i][r] # Nil => old[i][r].gen \in Nat
  BY RouterAt
<1>4. old[n] = Current("routers")
  BY DEF Current
<1>5. \A r \in Routers : \A i, j \in 1 .. n : i <= j /\ (\A m \in i .. j : old[m][r] # Nil) => old[i][r].gen <= old[j][r].gen
  BY DEF GensGrow, Lives
<1> HIDE DEF n, old, new
<1> SUFFICES ASSUME NEW r \in Routers, NEW i \in 1 .. n + 1, NEW j \in 1 .. n + 1, i <= j,
                    \A m \in i .. j : new[m][r] # Nil
             PROVE  new[i][r].gen <= new[j][r].gen
  BY <1>1 DEF GensGrow, Lives, new
<1>6. CASE j \in 1 .. n
  <2>1. i \in 1 .. n /\ \A m \in i .. j : m \in 1 .. n
    BY <1>1, <1>6
  <2>2. \A m \in i .. j : old[m][r] # Nil
    BY <1>1, <2>1
  <2> QED
    BY <1>1, <1>5, <1>6, <2>1, <2>2
<1>7. CASE j = n + 1 /\ i = n + 1
  <2>1. state[r] # Nil
    BY <1>1, <1>7
  <2> QED
    BY <1>1, <1>2, <1>7, <2>1
<1>8. CASE j = n + 1 /\ i \in 1 .. n
  <2>1. n \in i .. j /\ n + 1 \in i .. j /\ n \in 1 .. n /\ \A m \in i .. n : m \in i .. j /\ m \in 1 .. n
    BY <1>1, <1>8
  <2>2. (\A m \in i .. n : old[m][r] # Nil) /\ state[r] # Nil /\ old[n][r] # Nil /\ old[i][r] # Nil
    BY <1>1, <1>8, <2>1
  <2>3. old[i][r].gen <= old[n][r].gen /\ old[n][r].gen <= state[r].gen
    BY <1>4, <1>5, <1>8, <2>1, <2>2
  <2>4. old[i][r].gen \in Nat /\ old[n][r].gen \in Nat /\ state[r].gen \in Nat
    BY <1>2, <1>3, <1>8, <2>1, <2>2
  <2> QED
    BY <1>1, <1>8, <2>3, <2>4
<1> QED
  BY <1>1, <1>6, <1>7, <1>8

\* A write counts for a router as long as it exists and its status is the same.
LEMMA WrittenKept ==
  ASSUME TypeInv, NEW state \in StateSet("routers"), Store("routers", state), UNCHANGED version,
         NEW r \in Routers, WrittenBefore(r), state[r] # Nil, state[r].obs = Current("routers")[r].obs
  PROVE  WrittenBefore(r)'
<1>1. PICK i \in 1 .. version["routers"] :
        /\ Lives(r, i, Len(log["routers"]))
        /\ Current("routers")[r].obs <= log["routers"][i][r].gen
  BY DEF WrittenBefore
<1>2. i \in 1 .. Len(log["routers"])
  BY RouterAt
<1>3. Current("routers")' = state /\ log'["routers"][i] = log["routers"][i]
  BY <1>2, StoreLog, KindsAre
<1>4. Lives(r, i, Len(log["routers"]))'
  BY <1>1, <1>2, LivesOn
<1> QED
  BY <1>1, <1>3, <1>4 DEF WrittenBefore

LEMMA ReadyEdit ==
  ASSUME TypeInv, ReadyInv, Users
  PROVE  ReadyInv'
<1>1. PICK k \in Kinds : \E state \in StateSet(k) :
        Edit(k, state) /\ (k = "routers" => Succeeds(Current("routers"), state))
  BY UsersAre
<1>2. PICK state \in StateSet(k) : Edit(k, state) /\ (k = "routers" => Succeeds(Current("routers"), state))
  BY <1>1
<1>3. Store(k, state) /\ UNCHANGED <<dryRun, version, pc, snap>>
  BY <1>2 DEF Edit, hostVars, workVars
<1>4. CASE k # "routers"
  <2>1. log'["routers"] = log["routers"]
    BY <1>3, <1>4, StoreLog, KindsAre
  <2> QED
    BY <1>3, <2>1 DEF ReadyInv, GensGrow, Lives, WrittenBefore, Current, Existing
<1>5. CASE k = "routers"
  <2>1. /\ state \in StateSet("routers") /\ Store("routers", state) /\ Succeeds(Current("routers"), state)
        /\ Current("routers")' = state
    BY <1>2, <1>3, <1>5, StoreLog
  <2>2. GensGrow'
    BY <2>1, GensGrowKept DEF ReadyInv, Succeeds
  <2>3. DOMAIN state = Routers /\ DOMAIN Current("routers") = Routers
    BY <2>1, CurrentType, KindsAre, StateSets DEF States
  <2>4. ASSUME NEW r \in Existing(state), state[r].ready PROVE WrittenBefore(r)'
    <3>1. r \in Routers /\ state[r] # Nil
      BY <2>3 DEF Existing
    <3>2. /\ Current("routers")[r] # Nil /\ Current("routers")[r].ready
          /\ state[r].obs = Current("routers")[r].obs
      BY <2>1, <2>4, <3>1 DEF Succeeds
    <3>3. WrittenBefore(r)
      BY <2>3, <3>1, <3>2 DEF ReadyInv, Existing
    <3> QED
      BY <1>3, <2>1, <3>1, <3>2, <3>3, WrittenKept
  <2> QED
    BY <1>3, <2>1, <2>2, <2>4 DEF ReadyInv
<1> QED
  BY <1>4, <1>5

LEMMA ReadyStatus ==
  ASSUME TypeInv, ReadyInv, NEW r \in Routers, UpdateRouterStatus(r)
  PROVE  ReadyInv'
<1>1. pc = "status" /\ r \in todo /\ UNCHANGED <<dryRun, version, pc, snap>>
  BY DEF UpdateRouterStatus, hostVars, workVars
<1>2. CASE UNCHANGED log
  BY <1>1, <1>2 DEF ReadyInv, GensGrow, Lives, WrittenBefore, Current, Existing
<1>3. CASE ~Unwritten(r) /\ WriteStatus(r)
  <2>1. PICK state \in StateSet("routers") :
           /\ Store("routers", state)
           /\ r \in Routers /\ Current("routers")[r] \in Router
           /\ Current("routers")[r] = log["routers"][snap["routers"]][r]
           /\ state[r].gen = Current("routers")[r].gen
           /\ state[r].obs = Current("routers")[r].gen
           /\ state[r].ready = TRUE
           /\ state[r] # Nil
           /\ \A x \in Routers \ {r} : state[x] = Current("routers")[x]
    BY <1>1, <1>3, WriteStatusIs
  <2>2. Current("routers")' = state
    BY <2>1, StoreLog, KindsAre
  <2>3. DOMAIN state = Routers /\ DOMAIN Current("routers") = Routers
    BY <2>1, CurrentType, KindsAre, StateSets DEF States
  <2>4. Current("routers") = log["routers"][Len(log["routers"])]
    BY DEF Current
  <2>5. \A x \in Routers : Current("routers")[x] # Nil /\ state[x] # Nil => Current("routers")[x].gen <= state[x].gen
    <3>1. \A x \in Routers : Current("routers")[x] # Nil => Current("routers")[x].gen \in Nat
      BY <2>4, RouterAt
    <3>2. \A x \in Routers : state[x].gen = Current("routers")[x].gen
      BY <2>1
    <3> QED
      BY <3>1, <3>2
  <2>6. GensGrow'
    BY <2>1, <2>5, GensGrowKept DEF ReadyInv
  <2>7. ASSUME NEW x \in Existing(state), state[x].ready PROVE WrittenBefore(x)'
    <3>1. x \in Routers /\ state[x] # Nil
      BY <2>3 DEF Existing
    <3>2. CASE x # r
      <4>1. state[x] = Current("routers")[x]
        BY <2>1, <3>1, <3>2
      <4>2. WrittenBefore(x)
        BY <2>3, <2>7, <3>1, <4>1 DEF ReadyInv, Existing
      <4> QED
        BY <1>1, <2>1, <3>1, <4>1, <4>2, WrittenKept
    <3>3. CASE x = r
      <4> DEFINE p == snap["routers"]
      <4>1. p \in 1 .. Len(log["routers"]) /\ p \in 1 .. version["routers"]
        BY <1>1, <1>3, RouterAt DEF ReadyInv, Unwritten
      <4>2. log["routers"][p][r] # Nil
        BY <2>1, IngressAssumption
      <4>3. Lives(r, p, Len(log["routers"]))
        BY <1>3, <4>2, UnchangedSince DEF Unwritten, Lives
      <4>4. Lives(r, p, Len(log["routers"]))'
        <5>1. Lives(r, snap["routers"], Len(log["routers"]))'
          BY <1>1, <2>1, <4>1, <4>3, LivesOn DEF Lives
        <5> QED
          BY <5>1
      <4>5. log'["routers"][p] = log["routers"][p]
        BY <2>1, <4>1, StoreLog, KindsAre
      <4>6. state[r].obs = log["routers"][p][r].gen /\ state[r].obs \in Nat
        BY <2>1 DEF Router
      <4>7. state[r].obs <= log'["routers"][p][r].gen
        BY <4>5, <4>6
      <4> QED
        BY <1>1, <2>2, <3>3, <4>1, <4>4, <4>7 DEF WrittenBefore
    <3> QED
      BY <3>2, <3>3
  <2> QED
    BY <1>1, <2>2, <2>6, <2>7 DEF ReadyInv
<1> QED
  BY <1>2, <1>3 DEF UpdateRouterStatus

LEMMA ReadyStep == TypeInv /\ ReadyInv /\ [Next]_vars => ReadyInv'
<1> SUFFICES ASSUME TypeInv, ReadyInv, [Next]_vars PROVE ReadyInv'
  OBVIOUS
<1> USE DEF ReadyInv, GensGrow, Lives, WrittenBefore, Current, Existing
<1>0. ASSUME log'["routers"] = log["routers"], UNCHANGED <<dryRun, version>>,
             pc' # "status" \/ UNCHANGED <<pc, snap>>
      PROVE  ReadyInv'
  BY <1>0
<1>1. CASE Users
  BY <1>1, ReadyEdit
<1>2. CASE CollectGarbage \/ Watches
  BY <1>0, <1>2 DEF CollectGarbage, Watches, DeliverAnchor, DeliverInput, Deliver, hostVars, workVars
<1>3. CASE BeforeWrite
  <2>1. UNCHANGED <<dryRun, version>> /\ pc' # "status"
    BY <1>3 DEF BeforeWrite, StartReconcile, EnsureAnchor, UseAnchor, ReturnError, Return, CallFails, ListRouters,
       ListIngresses, ListHTTPRoutes, Read, CallLost, hostVars
  <2>2. log'["routers"] = log["routers"]
    <3>1. CASE CreateAnchor
      <4>1. "routers" # "anchor" /\ "routers" \in DOMAIN log
        BY KindsAre DEF TypeInv, LogOK
      <4> QED
        BY <3>1, <4>1 DEF CreateAnchor, Store
    <3>2. CASE UNCHANGED log
      BY <3>2
    <3> QED
      BY <1>3, <3>1, <3>2 DEF BeforeWrite, StartReconcile, EnsureAnchor, ListRouters, ListIngresses, ListHTTPRoutes,
         Read, CallLost
  <2> QED
    BY <1>0, <2>1, <2>2
<1>4. CASE ApplyDnsHosts
  <2>1. pc = "apply" /\ UNCHANGED <<log, dryRun>>
    BY <1>4 DEF ApplyDnsHosts
  <2>2. CASE dryRun
    <3>1. UNCHANGED version
      BY <1>4, <2>2 DEF ApplyDnsHosts, PutDnsHosts, hostVars
    <3> QED
      BY <2>1, <2>2, <3>1
  <2>3. CASE ~dryRun
    <3>1. version' = snap
      BY <1>4, <2>3 DEF ApplyDnsHosts, PutDnsHosts
    <3>2. version["routers"] <= snap["routers"]
      BY <2>1, ReadByStage DEF TypeInv, PositionsOK
    <3>3. 1 .. version["routers"] \subseteq 1 .. version'["routers"]
      BY <3>1, <3>2, RouterAt
    <3>4. pc' = "status" => snap'["routers"] <= version'["routers"]
      <4>1. pc' = "status" => snap' = snap
        BY <1>4 DEF ApplyDnsHosts, CallFails, ReturnError, Return
      <4> QED
        BY <3>1, <4>1, RouterAt
    <3> QED
      BY <2>1, <3>3, <3>4
  <2> QED
    BY <2>2, <2>3
<1>5. CASE \E r \in Routers : UpdateRouterStatus(r)
  BY <1>5, ReadyStatus
<1>6. CASE FinishReconcile \/ CrashAndRestart
  BY <1>0, <1>6 DEF FinishReconcile, CrashAndRestart, Restart, Return, hostVars
<1>7. CASE UNCHANGED vars
  BY <1>0, <1>7 DEF vars, baseVars, hostVars, workVars
<1> QED
  BY <1>1, <1>2, <1>3, <1>4, <1>5, <1>6, <1>7 DEF Next, Reconcile

\* The state in which a router was last created.
LEMMA BornIs ==
  ASSUME TypeInv, NEW r \in Existing(Current("routers"))
  PROVE  /\ Born(r) \in 1 .. Len(log["routers"])
         /\ Lives(r, Born(r), Len(log["routers"]))
         /\ Born(r) = 1 \/ log["routers"][Born(r) - 1][r] = Nil
<1> DEFINE routers == log["routers"]
           n == Len(routers)
           T == {i \in 1 .. n : \A j \in i .. n : routers[j][r] # Nil}
           Begins(i) == /\ \A j \in i .. n : routers[j][r] # Nil
                        /\ i = 1 \/ routers[i - 1][r] = Nil
<1>1. n \in Nat \ {0} /\ routers[n][r] # Nil
  BY RouterAt DEF Existing, Current
<1>2. DOMAIN routers = 1 .. n
  BY KindsAre, LenProperties DEF TypeInv, LogOK
<1>3. Born(r) = CHOOSE i \in 1 .. n : Begins(i)
  BY <1>2 DEF Born
<1> HIDE DEF n, routers
<1>4. n \in T
  BY <1>1
<1>5. PICK i \in T : \A m \in T : i <= m
  <2>1. T \in SUBSET Nat
    BY <1>1
  <2> QED
    BY <1>4, <2>1, LeastNatural
<1>6. Begins(i)
  <2>1. CASE i # 1
    <3>1. i - 1 \notin T /\ i - 1 \in 1 .. n /\ i \in 1 .. n
      BY <1>1, <1>5, <2>1
    <3>2. PICK j \in i - 1 .. n : routers[j][r] = Nil
      BY <3>1
    <3>3. j \notin i .. n
      BY <1>5, <3>2
    <3>4. j = i - 1
      BY <1>1, <3>1, <3>2, <3>3
    <3> QED
      BY <1>5, <3>2, <3>4
  <2> QED
    BY <1>5, <2>1
<1>7. Born(r) \in 1 .. n /\ Begins(Born(r))
  BY <1>3, <1>5, <1>6
<1> QED
  BY <1>7 DEF Lives, n, routers

\* A Ready router says: a DnsHosts object built from this very router, in the
\* generation it reports or a later one, was written (updateRouterStatuses),
\* even when it was changed, deleted or created again in between.
THEOREM ReadyIsPublished == Spec => []ReadyWasPublished
<1>1. TypeInv /\ ReadyInv => ReadyWasPublished
  <2> SUFFICES ASSUME TypeInv, ReadyInv, NEW r \in Existing(Current("routers")), Current("routers")[r].ready
               PROVE  /\ version["routers"] >= Born(r)
                      /\ log["routers"][version["routers"]][r].gen >= Current("routers")[r].obs
    BY DEF ReadyWasPublished
  <2> DEFINE n == Len(log["routers"])
             v == version["routers"]
  <2>1. PICK i \in 1 .. v : Lives(r, i, n) /\ Current("routers")[r].obs <= log["routers"][i][r].gen
    BY DEF ReadyInv, WrittenBefore
  <2>2. n \in Nat /\ v \in 1 .. n /\ i \in 1 .. n
    BY RouterAt
  <2>3. r \in Routers /\ Current("routers")[r].obs \in Nat
    <3>1. Current("routers") \in [Routers -> Router \union {Nil}] /\ r \in Routers
      BY CurrentType, KindsAre, StateSets DEF States, Existing
    <3>2. Current("routers")[r] \in Router
      BY <3>1 DEF Existing
    <3> QED
      BY <3>1, <3>2 DEF Router
  <2>4. Born(r) <= i
    <3>1. Born(r) \in 1 .. n /\ (Born(r) = 1 \/ log["routers"][Born(r) - 1][r] = Nil)
      BY BornIs
    <3>2. ASSUME i < Born(r) PROVE FALSE
      <4>1. Born(r) # 1 /\ Born(r) - 1 \in i .. n
        BY <2>2, <3>1, <3>2
      <4> QED
        BY <2>1, <3>1, <4>1 DEF Lives
    <3> QED
      BY <2>2, <3>1, <3>2
  <2>5. Born(r) \in 1 .. n
    BY BornIs
  <2>6. Lives(r, i, v)
    BY <2>1, <2>2 DEF Lives
  <2>7. log["routers"][i][r].gen <= log["routers"][v][r].gen
    BY <2>2, <2>3, <2>6 DEF ReadyInv, GensGrow
  <2>8. log["routers"][i][r].gen \in Nat /\ log["routers"][v][r].gen \in Nat
    <3>1. log["routers"][i][r] # Nil /\ log["routers"][v][r] # Nil
      BY <2>2, <2>6 DEF Lives
    <3> QED
      BY <2>2, <2>3, <3>1, RouterAt
  <2> QED
    BY <2>1, <2>2, <2>3, <2>4, <2>5, <2>7, <2>8
<1> QED
  BY <1>1, ReadyInit, ReadyStep, InitType, TypeStep, PTL DEF Spec

-----------------------------------------------------------------------------
(***************************************************************************)
(* Every router is Ready at rest.                                          *)
(***************************************************************************)
AllReported == \A r \in Existing(Current("routers")) \ todo : Current("routers")[r].ready

ReportedInv ==
  /\ ~dryRun /\ ~statusLost /\ ~queued
  /\ pc \in {"idle", "status"} /\ seen["routers"] = Len(log["routers"])
  => AllReported

\* A reconcile that is not to be repeated listed the routers the cache holds.
LEMMA ListedIsCached ==
  ASSUME TypeInv, FreshInv, ~dryRun, ~queued, pc \in {"apply", "status"}, seen["routers"] = Len(log["routers"])
  PROVE  /\ snap["routers"] = Len(log["routers"]) /\ Len(log["routers"]) \in Nat
         /\ Listed["routers"] = Current("routers")
<1>1. UpToDate("routers", snap["routers"])
  BY ReadByStage DEF FreshInv, ListedOK
<1>2. snap["routers"] = Len(log["routers"]) /\ Len(log["routers"]) \in Nat
  BY <1>1, RouterAt DEF UpToDate
<1> QED
  BY <1>2, KindsAre DEF Listed, InputsAt, Current

LEMMA ReportedStatus ==
  ASSUME TypeInv, FreshInv, ReportedInv, NEW r \in Routers, UpdateRouterStatus(r)
  PROVE  ReportedInv'
<1>1. /\ pc = "status" /\ r \in todo /\ todo' = todo \ {r}
      /\ UNCHANGED <<dryRun, queued, pc, seen>>
  BY DEF UpdateRouterStatus, workVars
<1>2. CASE ~Unwritten(r) /\ WriteStatus(r)
  <2>1. Len(log'["routers"]) = Len(log["routers"]) + 1
    BY <1>1, <1>2, WriteStatusIs, StoreLog, KindsAre
  <2>2. seen["routers"] \in 1 .. Len(log["routers"]) /\ Len(log["routers"]) \in Nat
    BY PositionRanges, KindsAre
  <2>3. seen'["routers"] # Len(log'["routers"])
    BY <1>1, <2>1, <2>2
  <2> QED
    BY <2>3 DEF ReportedInv
<1>3. CASE statusLost' = TRUE
  BY <1>3 DEF ReportedInv
<1>4. CASE Unwritten(r) /\ UNCHANGED <<log, statusLost>>
  <2> SUFFICES ASSUME ~dryRun, ~statusLost, ~queued, seen["routers"] = Len(log["routers"]) PROVE AllReported'
    BY <1>1, <1>4 DEF ReportedInv
  <2>1. /\ snap["routers"] = Len(log["routers"]) /\ Len(log["routers"]) \in Nat
        /\ Listed["routers"] = Current("routers")
    BY <1>1, ListedIsCached
  <2>2. ~ChangedSince(r)
    BY <2>1 DEF ChangedSince
  <2>3. Current("routers")[r].ready
    BY <1>4, <2>1, <2>2 DEF Unwritten
  <2>4. AllReported
    BY <1>1 DEF ReportedInv
  <2>5. Current("routers")' = Current("routers")
    BY <1>4 DEF Current
  <2> QED
    BY <1>1, <2>3, <2>4, <2>5 DEF AllReported, Existing
<1> QED
  BY <1>2, <1>3, <1>4 DEF UpdateRouterStatus

LEMMA ReportedStep == TypeInv /\ FreshInv /\ ReportedInv /\ [Next]_vars => ReportedInv'
<1> SUFFICES ASSUME TypeInv, FreshInv, ReportedInv, [Next]_vars PROVE ReportedInv'
  OBVIOUS
<1>0. ASSUME log'["routers"] = log["routers"], UNCHANGED <<dryRun, seen, queued, statusLost, todo, pc>>
      PROVE  ReportedInv'
  BY <1>0 DEF ReportedInv, AllReported, Current, Existing
<1>1. CASE Users /\ UNCHANGED statusVars
  <2>1. PICK k \in Kinds : \E state \in StateSet(k) : Edit(k, state)
    BY <1>1, UsersAre
  <2>2. PICK state \in StateSet(k) : Edit(k, state)
    BY <2>1
  <2>3. Store(k, state) /\ UNCHANGED <<dryRun, seen, queued, statusLost, todo, pc>>
    BY <1>1, <2>2 DEF Edit, workVars, statusVars
  <2>4. CASE k = "routers"
    <3>1. Len(log'["routers"]) = Len(log["routers"]) + 1
      BY <2>3, <2>4, StoreLog
    <3>2. seen["routers"] \in 1 .. Len(log["routers"]) /\ Len(log["routers"]) \in Nat
      BY PositionRanges, KindsAre
    <3>3. seen'["routers"] # Len(log'["routers"])
      BY <2>3, <3>1, <3>2
    <3> QED
      BY <3>3 DEF ReportedInv
  <2>5. CASE k # "routers"
    BY <1>0, <2>3, <2>5, StoreLog, KindsAre
  <2> QED
    BY <2>4, <2>5
<1>2. CASE CollectGarbage /\ UNCHANGED statusVars
  BY <1>0, <1>2 DEF CollectGarbage, workVars, statusVars
<1>3. CASE Watches
  BY <1>3 DEF Watches, DeliverAnchor, DeliverInput, Deliver, ReportedInv
<1>4. CASE BeforeWrite
  BY <1>4 DEF BeforeWrite, StartReconcile, EnsureAnchor, UseAnchor, CallFails, ReturnError, ListRouters,
     ListIngresses, ListHTTPRoutes, Read, CallLost, ReportedInv
<1>5. CASE ApplyDnsHosts
  <2>1. pc = "apply" /\ UNCHANGED <<dryRun, log, seen>>
    BY <1>5 DEF ApplyDnsHosts
  <2>2. CASE CallFails
    BY <2>2 DEF CallFails, ReturnError, ReportedInv
  <2>3. CASE pc' = "status" /\ todo' = Existing(Listed["routers"]) /\ UNCHANGED queued
    <3> SUFFICES ASSUME ~dryRun, ~queued, seen["routers"] = Len(log["routers"]) PROVE AllReported'
      BY <2>1, <2>3 DEF ReportedInv
    <3>1. Listed["routers"] = Current("routers") /\ Current("routers")' = Current("routers")
      BY <2>1, ListedIsCached DEF Current
    <3> QED
      BY <2>3, <3>1 DEF AllReported, Existing
  <2> QED
    BY <1>5, <2>2, <2>3 DEF ApplyDnsHosts
<1>6. CASE \E r \in Routers : UpdateRouterStatus(r)
  BY <1>6, ReportedStatus
<1>7. CASE FinishReconcile
  BY <1>7 DEF FinishReconcile, statusVars, ReportedInv, AllReported, Current, Existing
<1>8. CASE CrashAndRestart
  <2>1. UNCHANGED log /\ queued' = (StartTriggers(Inputs) \/ Current("anchor") # 0)
    BY <1>8 DEF CrashAndRestart, Restart
  <2>2. ~queued' => Existing(Current("routers")) = {}
    BY <2>1, KindsAre DEF StartTriggers, Inputs
  <2> QED
    BY <2>1, <2>2 DEF ReportedInv, AllReported, Current, Existing
<1>9. CASE UNCHANGED vars
  BY <1>0, <1>9 DEF vars, baseVars, workVars, statusVars
<1> QED
  BY <1>1, <1>2, <1>3, <1>4, <1>5, <1>6, <1>7, <1>8, <1>9 DEF Next, Reconcile

\* When nothing is on its way every router is Ready: a status refused because
\* the router changed in the meantime is written by a later reconcile
\* (updateRouterStatuses), unless a status write failed for another reason.
THEOREM AllReadyAtRest == Spec => []ReadyAtRest
<1>1. TypeInv /\ ReportedInv => ReadyAtRest
  BY KindsAre DEF TypeInv, WorkOK, ReportedInv, AllReported, ReadyAtRest, Settled
<1>2. Init => ReportedInv
  <2> SUFFICES ASSUME Init, ~queued PROVE AllReported
    BY DEF ReportedInv
  <2>1. PICK in \in InitialInputs :
          \A s \in Sources : log[s] = <<Empty[s], in[s]>> /\ Len(log[s]) = 2 /\ queued = StartTriggers(in)
    BY InitIs
  <2>2. Existing(in["routers"]) = {}
    BY <2>1, KindsAre DEF StartTriggers
  <2>3. Current("routers") = in["routers"]
    <3> DEFINE e == Empty["routers"]
               i == in["routers"]
    <3>1. log["routers"] = <<e, i>> /\ Len(log["routers"]) = 2
      BY <2>1, KindsAre
    <3> HIDE DEF e, i
    <3>2. log["routers"][2] = i
      BY <3>1
    <3> QED
      BY <3>1, <3>2 DEF Current, i
  <2> QED
    BY <2>2, <2>3 DEF AllReported
<1> QED
  BY <1>1, <1>2, ReportedStep, FreshInit, FreshStep, InitType, TypeStep, PTL DEF Spec

=============================================================================
