# A TLA+ model of homelab-operator

homelab-operator is a Kubernetes operator. It turns the Devices and Networks of a
homelab, and the LoadBalancer Services and Ingresses of a cluster, into objects of
dnsmasq-controller (DHCP options, DHCP hosts, DNS hosts) and of freeradius-operator.
This directory holds TLA+ modules translated from its source, the TLC configurations
that check them on small instances, and TLAPS proofs of the central properties for
every instance.

Paths are relative to the repository; `device_controller.go` and its neighbours are in
`internal/controller/`.

## Inventory

| Component | State it keeps | Operations | Hard part | What makes it correct |
|---|---|---|---|---|
| Device controller, `device_controller.go` | none of its own between reconciles; workqueue, informer caches, the objects and statuses it writes | `reconcileNamespace`, `pruneManaged`, `updateDeviceStatuses`, `updateNetworkStatuses`, three watch handlers | stale caches, partial writes, lost answers, crashes, status writes that race edits and wake the controller again | what is published, pruned and reported agrees with the last edit once nothing is left to do; no write goes back to an older version; `Ready` is never ahead of the writes |
| Desired state, `internal/desired/devicebased.go` | none (pure) | `BuildDeviceBased` | one name space for several kinds of object | every spec that asks for an entry gets it |
| Reconcile gate, `reconcile_gate.go` | a mutex, the set of busy keys | `run` | workers that overlap, errors and panics of the body | mutual exclusion per key, no leaked key, no lost trigger |
| LoadBalancer DNS controller, `loadbalancerdns_controller.go`, `internal/desired/loadbalancer.go` | anchor ConfigMap, one DnsHosts object | `reconcileLoadBalancer`, two watches with predicates | filtered events, anchor deleted under a reconcile, garbage collection | exactly the current addresses resolve at rest |
| Ingress DNS controller, `ingressdns_controller.go`, `internal/desired/ingress.go` | anchor, one DnsHosts object, IngressRouter statuses | `reconcileIngress`, `updateRouterStatuses` | three inputs read at different times, two from caches and one live; status writes whose errors are dropped | never an older mix of inputs, current at rest, each class at its router's address, `Ready` never ahead of the write |
| Apply and plan, `internal/ensure/` | none | `Apply`, `ApplyUnstructured`, `PlanUnstructured` | create-or-update on a stale read | idempotent; no write in a dry run |
| dnsmasq objects, `internal/dnsmasq/` | none | `NormalizeDnsHosts`, conversions | a comparison that mixes two orders | equal inputs, equal specs |
| Configuration, `internal/config/`, `cmd/main.go` | `Config`, the flag targets | `Load`, `BindFlags`, `flag.Parse`, `ApplyCSVFlags` | defaults derived twice, values copied before the flags are parsed | the operator starts with the settings its documentation promises |
| Trigger recorder, reconcile log | last trigger per key | `note`, `consume` | - | affect log lines only |
| Manager, `cmd/main.go` | caches, leader lease | start, stop | restart | - |
| API types, scheme, labels, deep copies | - | - | - | - |

How they interact: informers feed caches and call the watch handlers; the handlers put
requests on a controller's workqueue; its worker calls `Reconcile`, which goes through
the gate to the reconcile function; that reads the caches, builds the desired objects,
and writes them to the API server with the `ensure` helpers. Unstructured objects (all
dnsmasq and FreeRADIUS kinds) are read from the API server itself, typed ones (Devices,
Networks, Services, ConfigMaps) from the caches. Status writes and anchor writes come
back as watch events of the same controller.

The hazards this leads to are listed, each at its line, in `PROJECT.json`.

## Modules

| Module | Models | Extends |
|---|---|---|
| `ReconcileGate` | `reconcileGate.run` under a workqueue and several workers | |
| `ReconcileGateProofs` | theorems about it | `ReconcileGate` |
| `DeviceBased` | `BuildDeviceBased` as operators on a snapshot | |
| `DeviceController` | the device controller, its watches, and the API server around it | `DeviceBased` |
| `DeviceControllerProofs` | theorems about its types, `Ready` and dry runs | `DeviceController` |
| `DeviceAtRestProofs` | theorems about what it leaves behind at rest | `DeviceControllerProofs` |
| `DeviceVersionsProofs` | theorem that what it writes never goes back | `DeviceAtRestProofs` |
| `Publisher` | abstract: one object that shows one state of its inputs after another | |
| `AnchoredHosts` | what the two DNS controllers share: anchor, informers, queue, reads, the write, restarts, garbage collection | |
| `LoadBalancerDNS` | the LoadBalancer DNS controller | `AnchoredHosts`; instantiates `Publisher` |
| `LoadBalancerDNSProofs` | theorems about it | `LoadBalancerDNS` |
| `IngressDNS` | the ingress DNS controller with its router statuses | `AnchoredHosts`; instantiates `Publisher` |
| `IngressDNSProofs` | theorems about it | `IngressDNS` |
| `Configuration` | how `main` gets its settings from environment and flags | |
| `ConfigurationProofs` | theorems about it | `Configuration` |
| `MC...` | constants for TLC | the module after `MC` |

Definitions marked "Mutant of ..." are deliberately wrong variants of the definition
that follows them. No specification uses them; each is a plausible bug, and replacing
the right definition by it makes TLC report the property paired with it in
`PROJECT.json`.

### ReconcileGate

`mu` and `keys` are the fields of `reconcileGate`; `pc[w]` is where worker `w` is in
`run`. `Lock`, `Busy` (the early return with `RequeueAfter`), `Free`, `Claim`, `List`
and `FnReturns`/`FnFails` (the body) and `Release` (the deferred function) are its
steps. `dirty`, `delayed` and `req` stand for the workqueue: a request is never with two
workers, one that is added while it is processed comes back. The history variable
`stale` holds the keys with a change no body has read yet.
`SetupWithManager` leaves a controller one worker, with which the gate is never busy;
the module answers what the gate is worth when there are more.

### DeviceBased and DeviceController

A snapshot maps Device and Network names to objects or `Nil`. Names are numbers in
string order (the code takes the first Network of a namespace as its canonical one). An
object has a generation, the fields of its spec the code branches on, and its status.
What a spec is rendered to (addresses, MACs, hostnames, VLAN) is represented by the
generation it was rendered from, so a stale entry is always told from a current one.
`lastSyncTime` and condition messages are left out: the code does not compare them. The
domain-name and domain-search options come from the configuration alone and are left out.

| State | In the code |
|---|---|
| `dev`, `net`, `devWatch`, `netWatch`, `devCache`, `netCache` | API server, watch streams and caches of Devices and Networks |
| `options`, `dhcpHosts`, `dnsHosts`, `freeRadius`, `anchors` | what the operator owns on the API server |
| `dryRun` | `Config.DryRun`, fixed for one life of the process |
| `queue`, `req`, `pc`, `todo` | workqueue, current request, position in `reconcileNamespace`, rest of its current loop |
| `snapDev`, `snapNet`, `ok` | `devices.Items`, `networks.Items`, the argument of the status functions |

Every API call is a step of its own, so edits, deliveries and crashes fall between any
two of them. A call succeeds, fails without effect (`CallLost`), or takes effect while
its answer is lost (`CallFails` next to the effect). Loops over Go maps take their
elements in any order, loops over sorted slices in order (`First`). The error of
`applyDhcpOptions` goes through the device statuses (`DhcpOptionsFail`); all others
return at once and leave the statuses alone. `Status().Update` needs the
resourceVersion that was listed; a conflict or a failure is dropped, as on line 326.
`Restart` is a crash at any point: only the API server remembers, the new process may
have another `DRY_RUN`, and it is woken by one event for each object that exists. Failed
calls, lost status writes and crashes share the budget `MaxFaults`.

### Publisher and AnchoredHosts

`Publisher` is the promise of a controller that fills one DnsHosts object: whatever is
published is what the builder makes of one state of every kind of input, none of them
older than the state shown before; besides, the object may disappear. It knows no
caches, queues, retries or crashes.

`AnchoredHosts` keeps, for each kind of object, the `log` of its states on the API server.
An informer's cache is a position in that log (`seen`), what a reconcile listed is another
(`snap`), and what the last write was built from a third (`version`, a history variable).
A typed `List` reads the cache's position, an unstructured one the end of the log. The
anchor ConfigMap is its uid. `EnsureAnchor` is the `CreateOrUpdate` on a cache that may
lag: an anchor that exists but is not cached makes it fail with AlreadyExists. Deleting
the anchor orphans the DnsHosts object until `CollectGarbage` takes it, or a reconcile
gives it a new owner. `SetOwnerReference` replaces a reference of the same kind and name,
so the object has one owner at any time.

### LoadBalancerDNS

A Service has a type, `spec.loadBalancerIP` and the address of its status. The DnsHosts
object is the set of its (address, hostname) pairs; two Services of one name in different
namespaces share a hostname. `LbOnly` is the event predicate. The refinement maps `log` to
its input part and `published` to the entries.

### IngressDNS

An IngressRouter has a class, an address, a generation and its status; an Ingress has
`ingressClassName`, the annotation that counts without it, and hosts; an HTTPRoute its
first parent and hosts. `RouterByClass` is the map the loop over routers sorted by name
fills, the last one winning; sorting by name alone leaves the order of two routers of
one name open, so it is a set of possible maps. `HostIP` is `getHost`: entries are
collected by router name, with the address of the router that was asked for first.
`ListHTTPRoutes` reads the API server itself, after the caches were read, or nothing when
`USE_HTTP_ROUTES_FOR_INGRESS` is off. `UpdateRouterStatus` is one iteration of
`updateRouterStatuses`: conditions alone are compared, a write computed from an outdated
router is refused, and every error is dropped.

### Configuration

`Load`, `BindFlags`, `Parse` and `ApplyCSVFlags` are the four calls of `main`, in order.
`bound` is the local struct the comma-separated flags are registered on and `csvFlags` the
copy `BindFlags` returned. Settings that are only copied are represented by one of each
type. A comma-separated string is the sequence of its pieces, each without the blanks
around it. `Pieces` says into which pieces a text is cut, and a text that is its only piece
is one of `Words`; `Join` is `strings.Join` of a list, which cuts a part with a comma of its
own into several pieces; `NonBlank` is the loop of `splitCommaList` that drops the blank
ones. So a list that `deriveDomainSearch` made of the domain name `a,b` comes back from the
flags with a part more than it had. `Domain` says what a text is without the blanks around
it and a leading dot (a blank behind the dot stays); `Texts`, its domain, is the set of texts
of an instance.

## Runs

"At rest" means that no event, request or reconcile is under way (`Settled`): without
another edit the operator will not act again, so what holds there is what users see.

| Run | Instance | Shows |
|---|---|---|
| `gate` | fairness, 2 workers, 3 requests on 2 keys, 4 events or failures | `OneReconcilePerKey`, `NoLeakedKey`, `NoLostTrigger`, `GateDrains` |
| `device_edits` | 1 device that moves between 2 networks, becomes wired or leaves them, FreeRADIUS, 2 edits, 1 fault (failed call, lost status write, or crash, after which `DRY_RUN` may differ); 6.1 million states | `PublishedAtRest`, `PrunedAtRest`, `StatusAtRest`, `ReadyTruthful`, `DryRunWritesNothing`, `NeverGoesBack` |
| `device_shared` | fairness, 2 devices on 1 network with 2 specs, FreeRADIUS in a namespace of its own, 1 edit, 1 fault; 570 thousand states | `PublishedAtRest`, `PrunedAtRest`, `StatusAtRest`, `ComesToRest` |
| `lb_publish` | fairness, 2 Services of one name and 2 addresses, dry run or not, 2 edits or anchor deletions, 2 faults; 620 thousand states | `ServicesResolveAtRest`, `NothingElseResolvesAtRest`, `DryRunWritesNothing`, `ComesToRest`, `Implements` |
| `ingress_publish` | fairness, 2 routers, 2 classes, an Ingress and an HTTPRoute, with and without HTTPRoutes, dry run or not, 2 edits or anchor deletions, 1 fault; 1.0 million states | `UpToDateAtRest`, `ClassResolvesToItsRouter`, `ReadyWasPublished`, `ReadyAtRest`, `DryRunWritesNothing`, `ComesToRest`, `Implements` |
| `config_start` | two groups of settings, the lists with what they are derived from and the namespaces with FreeRADIUS; environment and command line each give any values to the settings of one group, 1 to 3 of each and absent, with a domain name of two parts, one of a comma alone, and a suffix with a blank behind its dot; 157 thousand states | `StartsAsDocumented`, `DerivedFromOneSide` |

The device and LoadBalancer runs start from every set of objects over the given specs,
the ingress run from two routers of one class with an Ingress and an HTTPRoute of that
class, so "edits" count only what happens while the operator runs. The bounds are enough
for the cases that matter: two edits put one before and one after the point where a
reconcile listed the object, or change two kinds of input between two reads; a second
network is needed for a device to move and for the canonical request to change; two
devices are needed for an object to change without disappearing; two routers are needed
for one to take over a class from the other; a single failure, crash or anchor deletion
can fall at any step, and after it the controller starts from a state in which nothing
is remembered. Two requests on one key and a third on another are what makes a gate
worth having. Deadlock is not checked because every model may come to rest; `GateDrains`
and `ComesToRest` say that it does and never in the middle of a reconcile.

### Where the code and its documentation disagree

Each of these runs checks one property and ends in a counterexample; `PROJECT.json`
quotes the sentence that is contradicted.

| Run | What the code does |
|---|---|
| `device_lease_off` | `desiredNames` is one set for DhcpHosts and DnsHosts. A device that gives up DHCP while the network still has a DnsHosts object keeps its lease (`DhcpHostsExact`). |
| `device_two_namespaces` | Every namespace is published to the same objects of the target namespace; the last reconcile wins and prunes the rest. |
| `device_emptied_while_down` | Objects of a namespace that was emptied during a restart are never pruned. |
| `lb_retyped_service` | A Service that stops being a LoadBalancer raises no reconcile; its name keeps resolving until some other event. |
| `ingress_same_name` | Two IngressRouters of one name in different namespaces serve two classes: the hosts of both are published under the address of the one asked for first. |
| `config_flags` | `--dnsmasq-domain-search` and `--homelab-watch-namespaces` are parsed into a struct that nobody reads: the lists stay as the environment set them. The search list and the FreeRADIUS namespace are derived before the flags are parsed, and count as set afterwards: they do not follow a flag that changes what they are derived from. The counterexample has both (`FlagsCount`). |

The passing runs stay clear of these cases, and of the following limits of the code, and
say so in their constants or in the property:

- `PrunedAtRest` asks only that the objects of a network go when nothing on it calls for
  either kind, and, after a crash, only in namespaces that are not empty;
- there is one namespace of Devices, no two routers of one name, and no LoadBalancer
  Service that changes its type;
- a network called `hosts` shares the name of the DhcpOptions object, which is always
  kept, so its objects are never pruned (`device_controller.go:95`): no network has that name;
- a status write that fails other than by a conflict is dropped and not retried
  (`device_controller.go:326`, `ingressdns_controller.go:147`): `StatusAtRest` and
  `ReadyAtRest` leave such behaviours out;
- once an IngressRouter is Ready its `observedGeneration` does not follow later edits
  (`ingressdns_controller.go:141` compares the conditions only): no property asks for it;
- a default that `Load` derived from the environment does not follow a flag (run
  `config_flags`): `StartsAsDocumented` leaves out `StaleSearch` and `StaleNamespace`, and
  `DerivedFromOneSide` says what is true of these, too: the default is that of the
  environment or that of the final settings, and no mix of both;
- a derived search part with a comma or a blank is cut anew by the flags (`flags.go:17`,
  `flags.go:59`): both properties compare such lists as they are after joining and
  splitting, and exactly when they consist of words.

## Fairness

- `ReconcileGate`: worker goroutines run (weak fairness of their steps); `sync.Mutex`
  hands itself to a starving waiter, and the workqueue hands out requests in order,
  hence strong fairness of `Lock` and `Get`; delays expire. No event is forced.
- `DeviceController`, `LoadBalancerDNS`, `IngressDNS`: watch streams deliver, the worker
  runs, the garbage collector collects (weak fairness). Users, failures and crashes are
  free not to happen, and are bounded, which is what "after the last edit" in
  `ComesToRest` means.

## Proofs

`tlapm` checks these for every value of the constants that satisfies the named
assumptions (`GateAssumption`; `DeviceBasedAssumption`, `DeviceControllerAssumption`,
`NilAssumption`; `AnchoredHostsAssumption`, `LoadBalancerAssumption`; `IngressAssumption`,
`InitialInputsAssumption`; `ConfigurationAssumption`), which say what sets the constants
belong to, which kinds of object a controller reads and, for the ingress controller, that
the objects found at the start have never been reported on. Every safety property of the
passing runs is proved; TLC found the inductive invariants of the ingress and of the device
controller to hold on the instances of their runs before they were proved.

- `ReconcileGateProofs`: `TypeCorrect`, `MutualExclusion`, `KeysAreReleased`,
  `TriggersSurvive`. `OneReconcilePerKey` is not inductive. `LockInv` adds that the
  mutex is held by exactly the workers between `Lock` and an unlock, and that a worker
  has a request exactly when it is not idle; `KeyInv` adds that two admitted workers have
  different keys and that a worker about to claim a key still finds it free, which rests
  on the mutex. `NoLostTrigger` is inductive relative to these two.
- `DeviceControllerProofs`:
  - `TypeCorrect`, with `TodoOK` (what is left in a loop is a subset of what the loop was
    given, hence of names with an object) as strengthening;
  - `ReadyIsTruthful` (`ReadyTruthful`): `ProgressInv` says, for each position in
    `reconcileNamespace`, which of the wanted objects are already published as the
    snapshot calls for: all that are not in `todo` of the current loop, all of the
    earlier loops; and that pruning has left every wanted object alone. At the status
    stage with `ok` everything wanted is published, and the status write succeeds only
    on the listed version;
  - `DryRunIsSafe` (`DryRunWritesNothing`): `NoPruneInv` says that a dry run never gets
    to a prune stage, the only writes whose steps do not ask again.
- `DeviceAtRestProofs`: `PublishedWhenAtRest`, `PrunedWhenAtRest` and `StatusWhenAtRest`
  (`PublishedAtRest`, `PrunedAtRest`, `StatusAtRest`). They assume `OneNamespace`, because
  all namespaces write the same objects (run `device_two_namespaces`), and pruning also
  that no network is called `hosts`. The properties speak of states at rest only, so the
  invariant has to follow an edit all the way:
  - `StreamInv`: a cached object is current, or the last event about it that is on its way
    carries the current version. Streams are sequences; what is needed of them are the
    lemmas `InStepAppend` and `InStepTail`;
  - `ListedInv`: what a reconcile listed is what the caches hold, unless a request for the
    namespace is queued, since every event that changes a cache queues one;
  - `RoundInv` completes `ProgressInv`: the options are published and, stage by stage,
    what the snapshot does not call for is pruned or still in `todo`. That the FreeRADIUS
    devices need no pruning without the setting is `FreeRadiusUnused`;
  - `StatusInv`: a status the loops have passed is right, or something is on its way
    (`Pending`): a status is skipped only when it is right or the object is not the one that
    was listed, and both that change and a status write bring an event;
  - `IdleInv`: between reconciles, unless a request is queued, what the caches call for is
    published, pruned (unless a crash found the namespace empty) and reported.
- `DeviceVersionsProofs`: `VersionsNeverGoBack` (`NeverGoesBack`), for any number of
  namespaces. A version of an object is `Reached` when neither the cache nor an event on its
  way nor the API server has an older one. The lemmas `ReachedStore`, `ReachedTail` and
  `OrderFresh` say that a reached version stays reached by a new version of the object, a
  delivery and a start of the process; they are stated once for Devices and Networks.
  `OrderInv` says that the streams carry versions in order, so that what enters a cache is
  reached; `SnapshotInv` that what was listed is; `EntriesInv` that what is published is,
  and is not above what was listed of its namespace. `WritesListed` then gives the property:
  an object that a step changes is deleted or rendered from the snapshot. The argument
  needs no knowledge of the order of the writes, of pruning, or of the queue.
- `LoadBalancerDNSProofs`:
  - `TypeCorrect`, with `PositionsOK` as strengthening: neither what was listed nor what
    was published is ahead of the cache, and at the write what was published is not
    ahead of what was listed;
  - `DryRunIsSafe`;
  - `Refinement` (`Implements`): an edit or a new anchor is `Change` or a stutter, the
    write is `Publish` (it goes forward because of `PositionsOK`), the garbage collector's
    step is `Withdraw`, all others stutter;
  - `ServicesResolve` and `NothingElseResolves`, the two at-rest properties. `FreshInv`
    says where an update that is not published yet is: unless a request is queued, what
    was listed shows the same as the cache (`ListedOK`), and what is published does when
    the worker is idle (`IdleOK`), because an event the predicates filter out makes no
    difference to what is built (`SilentEvent`); and the anchor in use is the current one
    unless an event about it is on its way or the request comes again (`OwnerOK`), which
    is what keeps the garbage collector off an object at rest. Nothing else resolves only as
    long as types are kept (`TypesKept`), so that theorem assumes `~Retyping`; the run
    `lb_retyped_service` shows that it has to.

- `IngressDNSProofs`:
  - `TypeCorrect`, with `TypeInv`: routes are read live and the rest from caches, so what
    was published is at most what was listed, and that at most what the log has, kind by
    kind (`PositionsOK`). That every entry has the address of a router and the hostname of a
    rule needs `PublishedInv` (below) and what the builder returns (`HostIPOfName`,
    `BuildTyped`), whether or not routers share a name;
  - `DryRunIsSafe`; `Refinement` (`Implements`) as for LoadBalancers;
  - `ClassResolves` (`ClassResolvesToItsRouter`): `PublishedInv` says that the entries are
    what `BuildIngressBased` makes of the inputs at `version`; the rest is about that
    function: with different names the entries collected by router name are those promised
    by class;
  - `FreshAtRest` (`UpToDateAtRest`): `FreshInv` says for each kind of input where an update
    that is not published yet is (`ListedOK`, `DoneOK`), and that the owner of the object is
    the current anchor unless an event or a retry is on its way (`OwnerOK`, `OwnedOK`);
  - `ReadyIsPublished` (`ReadyWasPublished`): `ReadyInv` says that generations only grow
    within the life of a router (`GensGrow`) and that a reported one was written before
    (`WrittenBefore`). What a `CHOOSE` of the last birth returns is found with a least
    counterexample (`LeastNatural`) instead of an induction;
  - `AllReadyAtRest` (`ReadyAtRest`): `ReportedInv` says that a router the loop has passed
    is Ready or has changed since it was listed, which brings an event.
- `ConfigurationProofs`: `TypeCorrect`, `DocumentedStart` (`StartsAsDocumented`),
  `DerivedOnce` (`DerivedFromOneSide`), for any texts, whatever `Domain` and `Pieces` make of
  them. `StartInv` says what `cfg` is after each call of `main`. `FlattenType` and
  `FlattenSingles` say what putting sequences together returns, by the least round at which
  it would not; from them `RejoinType`, that joining and splitting gives a list of words
  without blanks, and `RejoinKeeps`, that it changes no such list. `FinalizeIs`, `DeriveFrom`
  and `DeriveAfresh` say what a derived setting depends on: the second pass derives only what
  the first left empty or what came back empty from the flags.

Only model-checked: liveness (`GateDrains`, `ComesToRest`), which the prover does not reach,
and the runs that end in a counterexample.

## Not modelled

- The trigger recorder and the reconcile log, and the action and summary of a plan: they
  decide only what is logged.
- `internal/dnsmasq/`: conversion to JSON, and sorting that fixes the order of entries. The
  modules use only that equal inputs give equal specs. `compareIP` (`spec.go:29`) is not
  transitive when some strings are no addresses; the order of the entries may then depend
  on the input order, which changes no name's address.
- TLS, metrics, probes, leader election in `main.go`, and the namespace restriction of the
  caches: with `HOMELAB_WATCH_NAMESPACES` set, the anchors can be read only if the dnsmasq
  namespace is one of them (`main.go:118`), which the modules assume.
- Informers that never start: HTTPRoutes are watched whatever the setting
  (`ingressdns_controller.go:172`), so without the Gateway API the controller would wait
  for ever. The modules assume that all watched kinds exist.
- The deletion of the device controller's anchor, which it does not watch
  (`device_controller.go:392`): its objects would be collected and stay away until the
  next event.
- Labels and scheme registration; generated deep copies.

## Roadmap

1. An abstract specification of the device controller (objects that show one snapshot of a
   namespace after another) and its refinement, on the invariants of `DeviceAtRestProofs` and
   `DeviceVersionsProofs`. `NeverGoesBack` is the part of it that is stated so far.
2. What two namespaces can rely on: the at-rest properties for the namespace that was
   reconciled last.
3. The anchor of the device controller: deletion and garbage collection.
