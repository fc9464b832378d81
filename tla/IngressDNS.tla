----------------------------- MODULE IngressDNS -----------------------------
(***************************************************************************)
(* The ingress DNS controller (internal/controller/ingressdns_controller.go *)
(* and internal/desired/ingress.go): it publishes the hostnames of the     *)
(* Ingresses and HTTPRoutes under the address of the IngressRouter of      *)
(* their class in one DnsHosts object, and marks the routers Ready.  The   *)
(* machinery it shares with the load-balancer controller is in             *)
(* AnchoredHosts.                                                          *)
(*                                                                         *)
(* IngressRouters and Ingresses are read from informer caches, HTTPRoutes, *)
(* being unstructured, from the API server; all three are watched.         *)
(***************************************************************************)
EXTENDS AnchoredHosts

CONSTANTS
  Nil,            \* no object
  Routers,        \* namespace/name of the IngressRouters
  RouterName,     \* RouterName[r]: the name alone, a number in string order
  Ingresses,      \* Ingresses, numbered in the order of namespace/name
  Routes,         \* namespace/name of the HTTPRoutes
  Classes,        \* ingress classes and gateways, numbers in string order
  InitialInputs,  \* what users may have created before the operator starts
  RouterSpecs,    \* the IngressRouter specs users write
  IngressSpecs,   \* the Ingresses users write
  RouteSpecs,     \* the HTTPRoutes users write
  UseHTTPRoutes   \* the values of the USE_HTTP_ROUTES_FOR_INGRESS setting

\* An empty class, an Ingress without ingressClassName and without annotation,
\* an HTTPRoute without parent or with a nameless one.
NoClass == 0

\* An Ingress or HTTPRoute: its class and the hosts of its rules.  className is
\* Nil when spec.ingressClassName is absent; then the annotation counts.
\* RouterSpec: class and address.  Router: with generation and status.
RouterSpec == [class : Classes \union {NoClass}, ip : Nat]
Router == [gen : Nat, class : Classes \union {NoClass}, ip : Nat, obs : Nat, ready : BOOLEAN]

States(ids, objs) == [ids -> objs \union {Nil}]
Existing(objs) == {x \in DOMAIN objs : objs[x] # Nil}

ASSUME IngressAssumption ==
  /\ Sources = {"routers", "ingresses", "routes"}
  /\ Empty = [routers |-> [r \in Routers |-> Nil], ingresses |-> [i \in Ingresses |-> Nil],
              routes |-> [h \in Routes |-> Nil]]
  /\ RouterName \in [Routers -> Nat]
  /\ Ingresses \subseteq Nat
  /\ Classes \subseteq Nat \ {NoClass}
  /\ UseHTTPRoutes \subseteq BOOLEAN
  /\ RouterSpecs \subseteq RouterSpec
  /\ Nil \notin Router

\* No operator has reported on a router yet.
ASSUME InitialInputsAssumption ==
  \A in \in InitialInputs :
    /\ in["routers"] \in States(Routers, Router)
    /\ in["ingresses"] \in States(Ingresses, IngressSpecs)
    /\ in["routes"] \in States(Routes, RouteSpecs)
    /\ \A r \in Existing(in["routers"]) : in["routers"][r].obs = 0 /\ ~in["routers"][r].ready

VARIABLES
  useRoutes,      \* Config.UseHTTPRoutesForIngress
  todo,           \* routers whose status updateRouterStatuses has not handled
  statusLost      \* a status write failed (history)

statusVars == <<useRoutes, todo, statusLost>>
vars == <<baseVars, statusVars>>

(***************************************************************************)
(* BuildIngressBased.                                                      *)
(***************************************************************************)
IngressClass(ing) == IF ing.className # Nil THEN ing.className ELSE ing.annotation

\* Among the routers of a class the last one by name wins.  The sort compares
\* names alone: of two with the same name either may come last.
OfClass(routers, c) == {r \in Existing(routers) : routers[r].class = c}
LastByName(rs) == {r \in rs : \A x \in rs : RouterName[x] <= RouterName[r]}
Served(routers) == {c \in Classes : OfClass(routers, c) # {}}

RouterByClass(routers) ==
  {byClass \in [Served(routers) -> Routers] :
     \A c \in Served(routers) : byClass[c] \in LastByName(OfClass(routers, c))}

\* What asks for names: the class and the hostnames, Ingresses before routes.
IngressClaims(ings) ==
  {[class |-> IngressClass(ings[i]), hosts |-> ings[i].hosts] : i \in Existing(ings)}
RouteClaims(routes) ==
  {[class |-> routes[h].gateway, hosts |-> routes[h].hosts] : h \in Existing(routes)}

Least(S) == CHOOSE x \in S : \A y \in S : x <= y

\* Mutant of HostIP: one address for all.
HostIPOfAnyName(in, byClass, name) ==
  LET c == CHOOSE x \in DOMAIN byClass : TRUE IN in["routers"][byClass[c]].ip

\* getHost: the entry of a router name has the address of the router of that
\* name that is asked for first.
HostIP(in, byClass, name) ==
  LET ings == in["ingresses"]
      Named(c) == c \in DOMAIN byClass /\ RouterName[byClass[c]] = name
      first == {i \in Existing(ings) : Named(IngressClass(ings[i]))}
      gateways == {c \in {x.class : x \in RouteClaims(in["routes"])} : Named(c)}
      class == IF first # {} THEN IngressClass(ings[Least(first)]) ELSE Least(gateways)
  IN  in["routers"][byClass[class]].ip

\* Mutant of BuildWith: a class without a router is not skipped, the router
\* found for it is the zero value, without an address.
BuildUnserved(in, byClass) ==
  UNION {{<<IF x.class \in DOMAIN byClass THEN in["routers"][byClass[x.class]].ip ELSE Nil, h>> :
            h \in x.hosts} :
         x \in IngressClaims(in["ingresses"]) \union RouteClaims(in["routes"])}

BuildWith(in, byClass) ==
  LET claims == {x \in IngressClaims(in["ingresses"]) \union RouteClaims(in["routes"]) :
                   x.class \in DOMAIN byClass}
  IN  UNION {{<<HostIP(in, byClass, RouterName[byClass[x.class]]), h>> : h \in x.hosts} : x \in claims}

\* The specs BuildIngressBased may return.
BuildIngressBased(in) == {BuildWith(in, byClass) : byClass \in RouterByClass(in["routers"])}

(***************************************************************************)
(* Start, users, watches: every event of the three kinds passes.           *)
(***************************************************************************)
StartTriggers(in) == \E s \in Sources : Existing(in[s]) # {}

NewRouter(spec) ==
  [gen |-> 1, class |-> spec.class, ip |-> spec.ip, obs |-> 0, ready |-> FALSE]

Init ==
  /\ \E initial \in InitialInputs : AnchoredInit(initial, StartTriggers(initial))
  /\ useRoutes \in UseHTTPRoutes
  /\ todo = {} /\ statusLost = FALSE

StoreObject(s, x, obj) ==
  /\ obj # Current(s)[x]
  /\ Edit(s, [Current(s) EXCEPT ![x] = obj])

PutRouter(r, spec) ==
  LET ir == Current("routers")[r] IN
    \/ ir = Nil /\ StoreObject("routers", r, NewRouter(spec))
    \/ /\ ir # Nil
       /\ <<ir.class, ir.ip>> # <<spec.class, spec.ip>>
       /\ StoreObject("routers", r, [ir EXCEPT !.gen = @ + 1, !.class = spec.class, !.ip = spec.ip])

Users ==
  \/ \E r \in Routers :
       StoreObject("routers", r, Nil) \/ \E spec \in RouterSpecs : PutRouter(r, spec)
  \/ \E i \in Ingresses : \E obj \in IngressSpecs \union {Nil} : StoreObject("ingresses", i, obj)
  \/ \E h \in Routes : \E obj \in RouteSpecs \union {Nil} : StoreObject("routes", h, obj)
  \/ DeleteAnchor

\* Mutants of DeliverInput: HTTPRoutes, or IngressRouters, are not watched.
DeliverCachedInput(s) == Deliver(s, s # "routes")
DeliverRoutersUnseen(s) == Deliver(s, s # "routers")

DeliverInput(s) == Deliver(s, TRUE)

(***************************************************************************)
(* reconcileIngress, after ensureIngressAnchor.                            *)
(***************************************************************************)
ListRouters == Read("routers", "list", seen["routers"], "listIngresses")
ListIngresses == Read("ingresses", "listIngresses", seen["ingresses"], "listRoutes")

\* The first state of a log is the one without objects.
ListHTTPRoutes ==
  Read("routes", "listRoutes", IF useRoutes THEN Len(log["routes"]) ELSE 1, "apply")

Listed == InputsAt(snap)

\* Mutant of ApplyDnsHosts: a failed write is only logged, and the routers are
\* reported as synced.
ApplyIgnoringErrors ==
  /\ pc = "apply"
  /\ \/ \E entries \in BuildIngressBased(Listed) : PutDnsHosts(entries)
     \/ UNCHANGED hostVars
  /\ pc' = "status" /\ todo' = Existing(Listed["routers"])
  /\ UNCHANGED <<owner, snap, queued, boundVars>>
  /\ UNCHANGED <<dryRun, log, seen, useRoutes, statusLost>>

ApplyDnsHosts ==
  /\ pc = "apply"
  /\ \E entries \in BuildIngressBased(Listed) : PutDnsHosts(entries)
  /\ \/ /\ pc' = "status" /\ todo' = Existing(Listed["routers"])
        /\ UNCHANGED <<owner, snap, queued, boundVars>>
     \/ CallFails /\ UNCHANGED todo
  /\ UNCHANGED <<dryRun, log, seen, useRoutes, statusLost>>

\* The API server refuses a status computed from an object that has changed.
ChangedSince(r) ==
  \E i \in snap["routers"] + 1 .. Len(log["routers"]) :
    log["routers"][i][r] # log["routers"][i - 1][r]

\* Mutant of Unwritten: a router is reported in a dry run, too.
UnwrittenInDryRun(r) == Listed["routers"][r].ready \/ ChangedSince(r)

\* No write: only the conditions are compared; a dry run; a conflict, whose
\* error is dropped.
Unwritten(r) == Listed["routers"][r].ready \/ dryRun \/ ChangedSince(r)

WriteStatus(r) ==
  Store("routers", [Current("routers") EXCEPT ![r].ready = TRUE,
                                              ![r].obs = Listed["routers"][r].gen])

\* One iteration of updateRouterStatuses, whose routers are sorted by name.
\* The error of a failed write is dropped.
UpdateRouterStatus(r) ==
  /\ pc = "status"
  /\ r \in todo /\ \A x \in todo : RouterName[r] <= RouterName[x]
  /\ todo' = todo \ {r}
  /\ \/ Unwritten(r) /\ UNCHANGED <<log, statusLost, boundVars>>
     \/ ~Unwritten(r) /\ WriteStatus(r) /\ UNCHANGED <<statusLost, boundVars>>
     \/ ~Unwritten(r) /\ Fault /\ statusLost' = TRUE /\ UNCHANGED log
  /\ UNCHANGED <<workVars, dryRun, seen, hostVars, queued, useRoutes>>

FinishReconcile ==
  /\ pc = "status" /\ todo = {}
  /\ Return
  /\ UNCHANGED <<dryRun, log, seen, hostVars, queued, boundVars, statusVars>>

CrashAndRestart ==
  /\ Restart(StartTriggers(Inputs))
  /\ todo' = {}
  /\ UNCHANGED <<useRoutes, statusLost>>

(***************************************************************************)
(* Specification.                                                          *)
(***************************************************************************)
Watches == DeliverAnchor \/ \E s \in Sources : DeliverInput(s)

BeforeWrite ==
  \/ StartReconcile \/ EnsureAnchor \/ ListRouters \/ ListIngresses \/ ListHTTPRoutes
  \/ CallLost({"anchor", "list", "listIngresses", "listRoutes", "apply"})

Reconcile ==
  \/ BeforeWrite /\ UNCHANGED statusVars
  \/ ApplyDnsHosts
  \/ \E r \in Routers : UpdateRouterStatus(r)
  \/ FinishReconcile

Next ==
  \/ (Users \/ CollectGarbage \/ Watches) /\ UNCHANGED statusVars
  \/ Reconcile
  \/ CrashAndRestart

Spec == Init /\ [][Next]_vars

\* Watch streams deliver, the worker runs, the garbage collector gets there.
Fairness ==
  /\ \A s \in Sources : WF_vars(DeliverInput(s) /\ UNCHANGED statusVars)
  /\ WF_vars(DeliverAnchor /\ UNCHANGED statusVars)
  /\ WF_vars(CollectGarbage /\ UNCHANGED statusVars)
  /\ WF_vars(Reconcile)

FairSpec == Spec /\ Fairness

-----------------------------------------------------------------------------
(***************************************************************************)
(* Properties.                                                             *)
(***************************************************************************)

\* The hostnames in the rules users write.
HostNames == UNION {obj.hosts : obj \in IngressSpecs \union RouteSpecs}

\* Every variable stays within the values its Go type and the API schema allow;
\* what a reconcile read or a write was built from is a state there was; only
\* hostnames of rules are published, each with the address of some router and
\* never with none, whatever classes lose their routers meanwhile.
IngressTypeOK ==
  /\ AnchoredTypeOK
  /\ log["routers"] \in Seq(States(Routers, Router))
  /\ log["ingresses"] \in Seq(States(Ingresses, IngressSpecs))
  /\ log["routes"] \in Seq(States(Routes, RouteSpecs))
  /\ hosts.entries \subseteq Nat \X HostNames
  /\ pc \in {"idle", "anchor", "list", "listIngresses", "listRoutes", "apply", "status"}
  /\ useRoutes \in BOOLEAN
  /\ todo \subseteq Routers
  /\ statusLost \in BOOLEAN

\* What Publisher may show for an input.
Outputs(in) == BuildIngressBased(in)

P == INSTANCE Publisher WITH
       log <- [s \in Sources |-> log[s]],
       published <- hosts.entries

\* The DnsHosts object is always built from one state of the routers, one of
\* the Ingresses and one of the HTTPRoutes, none of them older than in the
\* write before, although routes are read live and the others from caches.
Implements == P!Spec

\* What the setting lets the controller look at.
Relevant(in) == IF useRoutes THEN in ELSE [in EXCEPT !["routes"] = Empty["routes"]]

\* At rest the DnsHosts object shows the objects as they are now, after any
\* edits, failed calls, crashes and deletions of the anchor.
UpToDateAtRest ==
  Settled /\ ~dryRun => hosts.entries \in BuildIngressBased(Relevant(Inputs))

\* The address README.md:50 promises a hostname: that of the router of its
\* class, the last by name when there are several.
Promised(in) ==
  LET claims == {x \in IngressClaims(in["ingresses"]) \union RouteClaims(in["routes"]) :
                   x.class # NoClass}
  IN  UNION {UNION {{<<in["routers"][r].ip, h>> : h \in x.hosts} :
                      r \in LastByName(OfClass(in["routers"], x.class))} : x \in claims}

DistinctNames(routers) ==
  \A r, x \in Existing(routers) : RouterName[r] = RouterName[x] => r = x

\* As long as no two routers share a name, a hostname resolves to the address
\* of the router of its class, and every such hostname resolves, in the states
\* the write was made from; the entries are collected by router name and not
\* by class, so this needs the map from classes to routers to be undone.
ClassResolvesToItsRouter ==
  LET in == InputsAt(version) IN
    hosts # NoHosts /\ DistinctNames(in["routers"]) => hosts.entries = Promised(in)

\* "`spec.ipAddress` (DNS target for that ingress class)" (README.md:50): a
\* hostname resolves only to the address of the router of its class, also when
\* routers of different namespaces share a name.
ClassResolvesWhateverTheNames == hosts.entries \subseteq Promised(InputsAt(version))

\* When a router was last created.
Born(r) ==
  LET routers == log["routers"] IN
    CHOOSE i \in DOMAIN routers :
      /\ \A j \in i .. Len(routers) : routers[j][r] # Nil
      /\ i = 1 \/ routers[i - 1][r] = Nil

\* A router is reported Ready, for a generation, only once a DnsHosts object
\* built from that generation of this very router, or a later one, was written.
ReadyWasPublished ==
  \A r \in Existing(Current("routers")) :
    Current("routers")[r].ready =>
      /\ version["routers"] >= Born(r)
      /\ log["routers"][version["routers"]][r].gen >= Current("routers")[r].obs

\* At rest every router is Ready: a status write refused because the router
\* changed meanwhile is made up for, unless a write failed for another reason,
\* whose error updateRouterStatuses drops.
ReadyAtRest ==
  Settled /\ ~dryRun /\ ~statusLost =>
    \A r \in Existing(Current("routers")) : Current("routers")[r].ready

\* "skip all API writes" (README.md:27), the status of the routers included.
DryRunWritesNothing ==
  dryRun => /\ hosts = NoHosts /\ Current("anchor") = 0
            /\ \A r \in Existing(Current("routers")) : Current("routers")[r].obs = 0

\* After the last edit, failure and crash the controller comes to rest, the
\* events of its own status writes and of its anchor included.
ComesToRest == <>[]Settled

=============================================================================
