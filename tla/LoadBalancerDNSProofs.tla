------------------------ MODULE LoadBalancerDNSProofs ------------------------
(***************************************************************************)
(* Proofs about LoadBalancerDNS, for any Services, addresses, edits,       *)
(* failures and crashes: its types, what is published when it rests, what  *)
(* a dry run leaves alone, and that it implements Publisher.               *)
(***************************************************************************)
EXTENDS LoadBalancerDNS, SequenceTheorems, TLAPS

-----------------------------------------------------------------------------
(***************************************************************************)
(* Types.  TypeOK is not inductive: the position a reconcile works from    *)
(* must be one the log has, and not before the one published last.         *)
(***************************************************************************)
LogOK ==
  /\ DOMAIN log = Kinds
  /\ log["anchor"] \in Seq(Nat)
  /\ log["services"] \in Seq(ServiceMap)

PositionsOK ==
  /\ seen \in [Kinds -> Nat \ {0}]
  /\ \A k \in Kinds : seen[k] <= Len(log[k])
  /\ version \in [Sources -> Nat \ {0}]
  /\ snap \in [Sources -> Nat \ {0}]
  /\ version["services"] <= seen["services"]
  /\ snap["services"] <= seen["services"]
  /\ pc = "apply" => version["services"] <= snap["services"]

EntryType == Addresses \X {HostName[s] : s \in Services}

RestOK ==
  /\ dryRun \in BOOLEAN
  /\ hosts \in [owner : Nat, entries : SUBSET EntryType]
  /\ owner \in Nat
  /\ queued \in BOOLEAN
  /\ pc \in {"idle", "anchor", "list", "apply"}
  /\ edits \in Nat /\ faults \in Nat

TypeInv == LogOK /\ PositionsOK /\ RestOK

LEMMA KindsAre == Kinds = {"services", "anchor"} /\ Sources = {"services"}
BY LoadBalancerAssumption DEF Kinds

LEMMA TypeInvImplies == TypeInv => TypeOK
<1> SUFFICES ASSUME TypeInv PROVE TypeOK
  OBVIOUS
<1>1. Len(log["services"]) \in Nat
  BY LenProperties DEF TypeInv, LogOK
<1>2. \A s \in Sources : version[s] <= Len(log[s]) /\ snap[s] <= Len(log[s])
  BY <1>1, KindsAre DEF TypeInv, PositionsOK
<1> QED
  BY <1>2 DEF TypeInv, LogOK, PositionsOK, RestOK, TypeOK, AnchoredTypeOK, EntryType

\* What is built from Services is well typed.
LEMMA BuildType ==
  ASSUME NEW services \in ServiceMap
  PROVE  BuildLoadBalancerBased(services) \in SUBSET EntryType
<1> SUFFICES ASSUME NEW s \in Services, IsLoadBalancer(services[s]), Address(services[s]) # NoAddress
             PROVE  <<Address(services[s]), HostName[s]>> \in EntryType
  BY DEF BuildLoadBalancerBased
<1>1. services[s] \in Service
  BY DEF ServiceMap, IsLoadBalancer
<1>2. Address(services[s]) \in Addresses
  BY <1>1 DEF Address, Service
<1> QED
  BY <1>2 DEF EntryType

\* Appending to one of the logs.
LEMMA StoreLog ==
  ASSUME LogOK, NEW k \in Kinds, NEW state,
         k = "anchor" => state \in Nat, k = "services" => state \in ServiceMap,
         Store(k, state)
  PROVE  /\ LogOK'
         /\ Len(log[k]) \in Nat
         /\ Len(log'[k]) = Len(log[k]) + 1
         /\ log'[k][Len(log[k]) + 1] = state
         /\ \A i \in 1 .. Len(log[k]) : log'[k][i] = log[k][i]
         /\ \A other \in Kinds \ {k} : log'[other] = log[other]
<1>1. /\ log' = [log EXCEPT ![k] = Append(log[k], state)]
      /\ DOMAIN log = Kinds
  BY DEF Store, LogOK
<1>2. log'[k] = Append(log[k], state) /\ (\A other \in Kinds \ {k} : log'[other] = log[other]) /\ DOMAIN log' = Kinds
  BY <1>1
<1>3. ASSUME NEW S, log[k] \in Seq(S), state \in S
      PROVE  /\ log'[k] \in Seq(S)
             /\ Len(log[k]) \in Nat
             /\ Len(log'[k]) = Len(log[k]) + 1
             /\ log'[k][Len(log[k]) + 1] = state
             /\ \A i \in 1 .. Len(log[k]) : log'[k][i] = log[k][i]
  <2> DEFINE seq == log[k]
             app == Append(seq, state)
  <2>1. seq \in Seq(S) /\ Len(seq) \in Nat
    BY <1>3, LenProperties
  <2> HIDE DEF seq
  <2>2. /\ app \in Seq(S) /\ Len(app) = Len(seq) + 1 /\ app[Len(seq) + 1] = state
        /\ \A i \in 1 .. Len(seq) : app[i] = seq[i]
    BY <1>3, <2>1, AppendProperties
  <2> HIDE DEF app
  <2>3. log'[k] = app
    BY <1>2 DEF app, seq
  <2> QED
    BY <2>1, <2>2, <2>3 DEF seq
<1>4. CASE k = "anchor"
  BY <1>2, <1>3, <1>4, KindsAre DEF LogOK
<1>5. CASE k = "services"
  BY <1>2, <1>3, <1>5, KindsAre DEF LogOK
<1> QED
  BY <1>2, <1>4, <1>5, KindsAre

LEMMA LogLengths == LogOK => \A k \in Kinds : Len(log[k]) \in Nat
BY KindsAre, LenProperties DEF LogOK

\* An edit of the objects, by whomever, moves no position.
LEMMA EditType ==
  ASSUME TypeInv, NEW k \in Kinds, NEW state,
         k = "anchor" => state \in Nat, k = "services" => state \in ServiceMap,
         Edit(k, state)
  PROVE  TypeInv'
<1>1. Store(k, state) /\ UNCHANGED <<dryRun, seen, hosts, version, queued, pc, owner, snap, faults>> /\ edits' \in Nat
  BY DEF Edit, hostVars, workVars, TypeInv, RestOK
<1>2. LogOK' /\ \A x \in Kinds : Len(log[x]) \in Nat /\ Len(log'[x]) \in Nat /\ Len(log'[x]) >= Len(log[x])
  BY <1>1, StoreLog, LogLengths DEF TypeInv
<1>3. PositionsOK'
  BY <1>1, <1>2 DEF TypeInv, PositionsOK
<1> QED
  BY <1>1, <1>2, <1>3 DEF TypeInv, RestOK

LEMMA CurrentServices == TypeInv => Current("services") \in ServiceMap /\ Len(log["services"]) \in Nat \ {0}
<1> SUFFICES ASSUME TypeInv PROVE Current("services") \in ServiceMap /\ Len(log["services"]) \in Nat \ {0}
  OBVIOUS
<1>1. Len(log["services"]) \in Nat /\ seen["services"] \in Nat \ {0} /\ seen["services"] <= Len(log["services"])
  BY KindsAre, LogLengths DEF TypeInv, PositionsOK
<1> QED
  BY <1>1, ElementOfSeq DEF TypeInv, LogOK, Current

\* Without Retyping no Service stops being a LoadBalancer while it exists.
KeepsTypes(old, new) ==
  ~Retyping => \A s \in Services : IsLoadBalancer(old[s]) => IsLoadBalancer(new[s]) \/ new[s] = Nil

LEMMA UsersAre ==
  ASSUME TypeInv, Users
  PROVE  \/ DeleteAnchor /\ Edit("anchor", 0)
         \/ \E services \in ServiceMap :
              Edit("services", services) /\ KeepsTypes(Current("services"), services)
<1>1. ASSUME NEW s \in Services, NEW obj \in Service \union {Nil}, StoreService(s, obj),
             \/ obj = Nil
             \/ IsLoadBalancer(Current("services")[s]) => Retyping \/ IsLoadBalancer(obj)
      PROVE  \E services \in ServiceMap :
               Edit("services", services) /\ KeepsTypes(Current("services"), services)
  <2> DEFINE services == [Current("services") EXCEPT ![s] = obj]
  <2>1. services \in ServiceMap
    BY CurrentServices DEF ServiceMap
  <2>2. KeepsTypes(Current("services"), services)
    <3>1. services[s] = obj /\ \A x \in Services \ {s} : services[x] = Current("services")[x]
      BY CurrentServices DEF ServiceMap
    <3> QED
      BY <1>1, <3>1 DEF KeepsTypes
  <2> QED
    BY <1>1, <2>1, <2>2 DEF StoreService
<1>2. ServiceSpecs \subseteq Service
  BY LoadBalancerAssumption
<1> QED
  BY <1>1, <1>2 DEF Users, DeleteService, PutService, DeleteAnchor

LEMMA UsersType == TypeInv /\ Users => TypeInv'
BY UsersAre, EditType, KindsAre

LEMMA DeliverType ==
  ASSUME TypeInv, NEW k \in Kinds, NEW passes \in BOOLEAN, Deliver(k, passes)
  PROVE  TypeInv'
<1>1. UNCHANGED <<dryRun, log, hosts, version, pc, owner, snap, edits, faults>>
  BY DEF Deliver, hostVars, workVars, boundVars
<1>2. seen' \in [Kinds -> Nat \ {0}] /\ (\A x \in Kinds : seen'[x] <= Len(log[x]) /\ seen[x] <= seen'[x])
  BY LogLengths DEF Deliver, TypeInv, PositionsOK
<1>3. PositionsOK'
  BY <1>1, <1>2, KindsAre DEF TypeInv, PositionsOK
<1>4. queued' \in BOOLEAN
  BY DEF Deliver, TypeInv, RestOK
<1> QED
  BY <1>1, <1>3, <1>4 DEF TypeInv, LogOK, RestOK

LEMMA ReturnErrorType ==
  ASSUME TypeInv, ReturnError, UNCHANGED <<seen, version>>, LogOK', \A k \in Kinds : Len(log'[k]) >= Len(log[k])
  PROVE  PositionsOK' /\ pc' = "idle" /\ owner' \in Nat /\ queued' = TRUE
<1>1. snap' = [s \in Sources |-> 1] /\ pc' = "idle" /\ owner' = 0 /\ queued' = TRUE
  BY DEF ReturnError, Return, NothingRead
<1>2. \A k \in Kinds : Len(log'[k]) \in Nat /\ Len(log[k]) \in Nat
  BY LogLengths, KindsAre, LenProperties DEF TypeInv, LogOK
<1> QED
  BY <1>1, <1>2, KindsAre DEF TypeInv, PositionsOK

LEMMA InitType == Init => TypeInv
<1> SUFFICES ASSUME NEW services \in [Services -> ServiceSpecs \union {Nil}],
                    AnchoredInit([s \in Sources |-> services], StartTriggers(services))
             PROVE  TypeInv
  BY DEF Init
<1> USE KindsAre
<1>1. log = [k \in Kinds |-> IF k = "anchor" THEN <<0>> ELSE <<Empty[k], services>>]
  BY DEF AnchoredInit
<1>2. log["anchor"] = <<0>> /\ log["services"] = <<Empty["services"], services>> /\ DOMAIN log = Kinds
  BY <1>1
<1>3. Empty["services"] \in ServiceMap /\ services \in ServiceMap
  BY LoadBalancerAssumption DEF ServiceMap
<1>4. LogOK /\ Len(log["anchor"]) = 1 /\ Len(log["services"]) = 2
  BY <1>2, <1>3 DEF LogOK
<1>5. seen = [k \in Kinds |-> Len(log[k])] /\ version = [s \in Sources |-> 1] /\ snap = [s \in Sources |-> 1]
  BY DEF AnchoredInit, NothingRead
<1>6. PositionsOK
  <2>1. \A k \in Kinds : Len(log[k]) \in Nat \ {0} /\ seen[k] = Len(log[k])
    <3> SUFFICES ASSUME NEW k \in Kinds PROVE Len(log[k]) \in Nat \ {0} /\ seen[k] = Len(log[k])
      OBVIOUS
    <3>1. seen[k] = Len(log[k])
      BY <1>5
    <3>2. k = "anchor" => Len(log[k]) = 1
      BY <1>4, Zenon
    <3>3. k = "services" => Len(log[k]) = 2
      BY <1>4, Zenon
    <3>4. Len(log[k]) = 1 \/ Len(log[k]) = 2
      BY <3>2, <3>3, KindsAre, Zenon
    <3>5. 1 \in Nat \ {0} /\ 2 \in Nat \ {0}
      OBVIOUS
    <3> QED
      BY <3>1, <3>4, <3>5, Zenon
  <2>2. seen \in [Kinds -> Nat \ {0}]
    BY <1>5, <2>1
  <2>3. \A s \in Sources : version[s] = 1 /\ snap[s] = 1
    BY <1>5
  <2>4. version \in [Sources -> Nat \ {0}] /\ snap \in [Sources -> Nat \ {0}]
    BY <1>5
  <2> QED
    BY <2>1, <2>2, <2>3, <2>4 DEF PositionsOK
<1>7. RestOK
  BY AnchoredHostsAssumption DEF AnchoredInit, RestOK, NoHosts, StartTriggers
<1> QED
  BY <1>4, <1>6, <1>7 DEF TypeInv

LEMMA EnsureAnchorType == TypeInv /\ EnsureAnchor => TypeInv'
<1> SUFFICES ASSUME TypeInv, EnsureAnchor PROVE TypeInv'
  OBVIOUS
<1> USE KindsAre
<1>1. UNCHANGED <<dryRun, seen, hosts, version>> /\ pc = "anchor"
  BY DEF EnsureAnchor, hostVars
<1>2. /\ LogOK'
      /\ \A k \in Kinds : Len(log[k]) \in Nat /\ Len(log'[k]) \in Nat /\ Len(log'[k]) >= Len(log[k])
  <2>1. CASE UNCHANGED log
    BY <2>1, LogLengths DEF TypeInv, LogOK
  <2>2. CASE CreateAnchor
    <3>1. Len(log["anchor"]) + 1 \in Nat
      BY LogLengths DEF TypeInv
    <3> QED
      BY <2>2, <3>1, StoreLog, LogLengths DEF CreateAnchor, TypeInv
  <2> QED
    BY <2>1, <2>2 DEF EnsureAnchor
<1>3. Cached("anchor") \in Nat
  BY ElementOfSeq, LogLengths DEF Cached, TypeInv, LogOK, PositionsOK
<1>4. CASE \E uid \in Nat : UseAnchor(uid)
  <2>1. pc' = "list" /\ owner' \in Nat /\ UNCHANGED <<snap, queued, edits, faults>>
    BY <1>4 DEF UseAnchor, boundVars
  <2>2. PositionsOK'
    BY <1>1, <1>2, <2>1 DEF TypeInv, PositionsOK
  <2> QED
    BY <1>1, <1>2, <2>1, <2>2 DEF TypeInv, RestOK
<1>5. CASE ReturnError /\ edits' \in Nat /\ faults' \in Nat
  BY <1>1, <1>2, <1>5, ReturnErrorType DEF TypeInv, RestOK
<1>6. CallFails => ReturnError /\ edits' \in Nat /\ faults' \in Nat
  BY DEF CallFails, Fault, TypeInv, RestOK
<1>7. Len(log["anchor"]) + 1 \in Nat
  BY LogLengths DEF TypeInv
<1> QED
  BY <1>3, <1>4, <1>5, <1>6, <1>7 DEF EnsureAnchor, TypeInv, RestOK, boundVars

LEMMA ReconcileType == TypeInv /\ Reconcile => TypeInv'
<1> SUFFICES ASSUME TypeInv, Reconcile PROVE TypeInv'
  OBVIOUS
<1> USE KindsAre
<1>1. CASE StartReconcile
  BY <1>1 DEF StartReconcile, hostVars, boundVars, TypeInv, LogOK, PositionsOK, RestOK
<1>2. CASE EnsureAnchor
  BY <1>2, EnsureAnchorType
<1>3. CASE ListServices
  BY <1>3 DEF ListServices, Read, hostVars, boundVars, TypeInv, LogOK, PositionsOK, RestOK
<1>4. CASE CallLost({"anchor", "list", "apply"})
  <2>1. ReturnError /\ UNCHANGED <<dryRun, log, seen, hosts, version, edits>> /\ faults' \in Nat
    BY <1>4 DEF CallLost, CallFails, Fault, hostVars, TypeInv, RestOK
  <2>2. LogOK' /\ \A k \in Kinds : Len(log'[k]) >= Len(log[k])
    BY <2>1, LogLengths DEF TypeInv, LogOK
  <2> QED
    BY <2>1, <2>2, ReturnErrorType DEF TypeInv, RestOK
<1>5. CASE ApplyDnsHosts
  <2> DEFINE services == log["services"][snap["services"]]
  <2>1. services \in ServiceMap
    <3>1. snap["services"] \in 1 .. Len(log["services"])
      BY LogLengths DEF TypeInv, PositionsOK
    <3> QED
      BY <3>1, ElementOfSeq DEF TypeInv, LogOK
  <2>2. BuildLoadBalancerBased(services) \in SUBSET EntryType
    BY <2>1, BuildType
  <2>3. UNCHANGED <<dryRun, log, seen>> /\ pc = "apply" /\ PutDnsHosts(BuildLoadBalancerBased(services))
    BY <1>5 DEF ApplyDnsHosts
  <2> HIDE DEF services
  <2>4. /\ hosts' \in [owner : Nat, entries : SUBSET EntryType]
        /\ version' \in {version, snap}
    BY <2>2, <2>3 DEF PutDnsHosts, hostVars, TypeInv, RestOK
  <2>5. /\ snap' = [s \in Sources |-> 1] /\ pc' = "idle" /\ owner' = 0 /\ queued' \in BOOLEAN
        /\ edits' \in Nat /\ faults' \in Nat
    <3>1. CASE Return /\ UNCHANGED <<queued, boundVars>>
      BY <3>1 DEF Return, NothingRead, boundVars, TypeInv, RestOK
    <3>2. CASE CallFails
      BY <3>2 DEF Return, NothingRead, CallFails, Fault, ReturnError, TypeInv, RestOK
    <3> QED
      BY <1>5, <3>1, <3>2 DEF ApplyDnsHosts
  <2>6. PositionsOK'
    BY <2>3, <2>4, <2>5 DEF TypeInv, PositionsOK
  <2> QED
    BY <2>3, <2>4, <2>5, <2>6 DEF TypeInv, LogOK, RestOK
<1> QED
  BY <1>1, <1>2, <1>3, <1>4, <1>5 DEF Reconcile

LEMMA TypeStep == TypeInv /\ [Next]_vars => TypeInv'
<1> SUFFICES ASSUME TypeInv, [Next]_vars PROVE TypeInv'
  OBVIOUS
<1> USE KindsAre
<1>1. CASE Users
  BY <1>1, UsersType
<1>2. CASE CollectGarbage
  BY <1>2 DEF CollectGarbage, NoHosts, workVars, boundVars, TypeInv, LogOK, PositionsOK, RestOK
<1>3. CASE DeliverService
  BY <1>3, DeliverType DEF DeliverService
<1>4. CASE DeliverAnchor
  BY <1>4, DeliverType DEF DeliverAnchor
<1>5. CASE Reconcile
  BY <1>5, ReconcileType
<1>6. ASSUME NEW triggered \in BOOLEAN, Restart(triggered) PROVE TypeInv'
  <2>1. /\ snap' = [s \in Sources |-> 1] /\ pc' = "idle" /\ owner' = 0 /\ queued' \in BOOLEAN
        /\ edits' \in Nat /\ faults' \in Nat
        /\ seen' = [k \in Kinds |-> Len(log[k])]
        /\ UNCHANGED <<dryRun, log, hosts, version>>
    BY <1>6 DEF Restart, Return, NothingRead, Fault, hostVars, TypeInv, RestOK
  <2>2. \A k \in Kinds : Len(log[k]) \in Nat \ {0} /\ seen[k] <= Len(log[k])
    BY LogLengths DEF TypeInv, PositionsOK
  <2>3. PositionsOK'
    BY <2>1, <2>2 DEF TypeInv, PositionsOK
  <2> QED
    BY <2>1, <2>3 DEF TypeInv, LogOK, RestOK
<1>7. CASE UNCHANGED vars
  BY <1>7 DEF vars, baseVars, hostVars, workVars, boundVars, TypeInv, LogOK, PositionsOK, RestOK
<1>8. StartTriggers(Current("services")) \in BOOLEAN
  BY DEF StartTriggers
<1> QED
  BY <1>1, <1>2, <1>3, <1>4, <1>5, <1>6, <1>7, <1>8 DEF Next

\* However Services come and go, calls fail and the process restarts, the
\* controller reads only positions its logs have, and publishes only addresses
\* and host names of Services.
THEOREM TypeCorrect == Spec => []TypeOK
BY InitType, TypeStep, TypeInvImplies, PTL DEF Spec

-----------------------------------------------------------------------------
(***************************************************************************)
(* Dry runs.                                                               *)
(***************************************************************************)

\* "skip all API writes" (README.md:27): with DRY_RUN set, neither the anchor
\* nor the DnsHosts object ever appears.
THEOREM DryRunIsSafe == Spec => []DryRunWritesNothing
<1>1. Init => DryRunWritesNothing
  <2> SUFFICES ASSUME NEW services \in [Services -> ServiceSpecs \union {Nil}],
                      AnchoredInit([s \in Sources |-> services], StartTriggers(services))
               PROVE  DryRunWritesNothing
    BY DEF Init
  <2>1. log["anchor"] = <<0>> /\ hosts = NoHosts
    BY KindsAre DEF AnchoredInit
  <2> QED
    BY <2>1 DEF DryRunWritesNothing, Current
<1>2. TypeInv /\ DryRunWritesNothing /\ [Next]_vars => DryRunWritesNothing'
  <2> SUFFICES ASSUME TypeInv, DryRunWritesNothing, [Next]_vars, dryRun'
               PROVE  hosts' = NoHosts /\ Current("anchor")' = 0
    BY DEF DryRunWritesNothing
  <2>1. dryRun
    BY DEF Next, Users, PutService, DeleteService, StoreService, DeleteAnchor, Edit, CollectGarbage, DeliverService,
       DeliverAnchor, Deliver, Reconcile, StartReconcile, EnsureAnchor, ListServices, Read, ApplyDnsHosts, CallLost,
       Restart, vars, baseVars
  <2>2. hosts = NoHosts /\ Current("anchor") = 0
    BY <2>1 DEF DryRunWritesNothing
  <2>3. hosts' = NoHosts
    BY <2>1, <2>2
       DEF Next, Users, PutService, DeleteService, StoreService, DeleteAnchor, Edit, CollectGarbage, DeliverService,
       DeliverAnchor, Deliver, Reconcile, StartReconcile, EnsureAnchor, ListServices, Read, ApplyDnsHosts, CallLost,
       PutDnsHosts, Restart, vars, baseVars, hostVars
  <2>4. UNCHANGED log["anchor"]
    <3>1. CASE Users
      <4>1. PICK services \in ServiceMap : Edit("services", services)
        BY <2>2, <3>1, UsersAre DEF DeleteAnchor
      <4> QED
        BY <4>1, StoreLog, KindsAre DEF Edit, TypeInv
    <3>2. CASE ~Users
      BY <2>1, <2>2, <3>2
         DEF Next, CollectGarbage, DeliverService, DeliverAnchor, Deliver, Reconcile, StartReconcile, EnsureAnchor,
         ListServices, Read, ApplyDnsHosts, CallLost, Restart, vars, baseVars
    <3> QED
      BY <3>1, <3>2
  <2> QED
    BY <2>2, <2>3, <2>4 DEF Current
<1> QED
  BY <1>1, <1>2, InitType, TypeStep, PTL DEF Spec

-----------------------------------------------------------------------------
(***************************************************************************)
(* Refinement.                                                             *)
(***************************************************************************)
LEMMA InitRefines == Init => P!Init
<1> SUFFICES ASSUME Init PROVE P!Init
  OBVIOUS
<1>1. \A s \in Sources : Len(log[s]) \in Nat \ {0}
  BY InitType, CurrentServices, KindsAre
<1>2. version = [s \in Sources |-> 1] /\ hosts.entries = {}
  BY DEF Init, AnchoredInit, NothingRead, NoHosts
<1> QED
  BY <1>1, <1>2 DEF P!Init

\* Edits are changes of the input, the write publishes, the garbage collector
\* withdraws; everything else is invisible.
LEMMA StepRefines == TypeInv /\ [Next]_vars => [P!Next]_P!pubVars
<1> SUFFICES ASSUME TypeInv, [Next]_vars PROVE [P!Next]_P!pubVars
  OBVIOUS
<1> USE KindsAre
<1>0. ASSUME UNCHANGED <<log["services"], version, hosts>> PROVE UNCHANGED P!pubVars
  <2>1. [s \in Sources |-> log'[s]] = [s \in Sources |-> log[s]]
    BY <1>0
  <2> QED
    BY <1>0, <2>1 DEF P!pubVars
<1>1. CASE Users
  <2>1. CASE Edit("anchor", 0)
    BY <1>0, <2>1, StoreLog DEF Edit, hostVars, TypeInv
  <2>2. ASSUME NEW services \in ServiceMap, Edit("services", services) PROVE P!Next
    <3>1. /\ Len(log["services"]) \in Nat
          /\ Len(log'["services"]) = Len(log["services"]) + 1
          /\ \A i \in 1 .. Len(log["services"]) : log'["services"][i] = log["services"][i]
          /\ UNCHANGED <<version, hosts>>
      BY <2>2, StoreLog DEF Edit, hostVars, TypeInv
    <3>2. P!Change("services")
      BY <3>1 DEF P!Change, P!Grows
    <3> QED
      BY <3>2 DEF P!Next
  <2> QED
    BY <1>1, <2>1, <2>2, UsersAre
<1>2. CASE CollectGarbage
  BY <1>2 DEF CollectGarbage, NoHosts, P!Next, P!Withdraw
<1>3. CASE DeliverService \/ DeliverAnchor \/ \E triggered \in BOOLEAN : Restart(triggered)
  BY <1>0, <1>3 DEF DeliverService, DeliverAnchor, Deliver, Restart, hostVars
<1>4. CASE Reconcile /\ ~ApplyDnsHosts
  <2>1. UNCHANGED <<version, hosts>>
    BY <1>4 DEF Reconcile, StartReconcile, EnsureAnchor, ListServices, Read, CallLost, hostVars
  <2>2. UNCHANGED log["services"]
    <3>1. CASE UNCHANGED log
      BY <3>1
    <3>2. CASE CreateAnchor
      BY <3>2, StoreLog, LogLengths DEF CreateAnchor, TypeInv
    <3> QED
      BY <1>4, <3>1, <3>2 DEF Reconcile, StartReconcile, EnsureAnchor, ListServices, Read, CallLost
  <2> QED
    BY <1>0, <2>1, <2>2
<1>5. CASE ApplyDnsHosts
  <2>1. UNCHANGED log /\ pc = "apply"
    BY <1>5 DEF ApplyDnsHosts
  <2>2. CASE dryRun
    BY <1>0, <1>5, <2>1, <2>2 DEF ApplyDnsHosts, PutDnsHosts, hostVars
  <2>3. CASE ~dryRun
    <3>1. /\ version' = snap
          /\ hosts'.entries = BuildLoadBalancerBased(log["services"][snap["services"]])
      BY <1>5, <2>3 DEF ApplyDnsHosts, PutDnsHosts
    <3>2. snap["services"] \in version["services"] .. Len(log["services"]) /\ snap = [s \in Sources |-> snap[s]]
      BY <2>1, LogLengths DEF TypeInv, PositionsOK
    <3>3. hosts'.entries \in Outputs([s \in Sources |-> log[s][snap[s]]])
      BY <3>1 DEF Outputs
    <3>4. P!Publish
      BY <2>1, <3>1, <3>2, <3>3 DEF P!Publish
    <3> QED
      BY <3>4 DEF P!Next
  <2> QED
    BY <2>2, <2>3
<1>6. CASE UNCHANGED vars
  BY <1>0, <1>6 DEF vars, baseVars, hostVars
<1>7. StartTriggers(Current("services")) \in BOOLEAN
  BY DEF StartTriggers
<1> QED
  BY <1>1, <1>2, <1>3, <1>4, <1>5, <1>6, <1>7 DEF Next

\* Through late watch events, retries of writes whose answer was lost, and
\* restarts, the DnsHosts object shows one state of the Services after another
\* and never turns back to an older one.
THEOREM Refinement == Spec => Implements
BY InitRefines, StepRefines, InitType, TypeStep, PTL DEF Spec, Implements, P!Spec

-----------------------------------------------------------------------------
(***************************************************************************)
(* At rest.  While a request is queued, or a reconcile has yet to read,    *)
(* the controller will make good whatever is wrong.  Otherwise every event *)
(* delivered since the Services were read made no difference to what is    *)
(* built from them; and the anchor is the owner unless its event is still  *)
(* on its way.                                                             *)
(***************************************************************************)

\* What entries show of the Services: all of them and, as long as no Service
\* changes its type, nothing else.
Shows(entries, services) ==
  /\ BuildLoadBalancerBased(services) \subseteq entries
  /\ ~Retyping => entries \subseteq BuildLoadBalancerBased(services)

AnchorEventPending == seen["anchor"] < Len(log["anchor"])

\* The Services that were listed are as good as the cached ones.
ListedOK ==
  pc = "apply" /\ ~queued =>
    Shows(BuildLoadBalancerBased(log["services"][snap["services"]]), Cached("services"))

\* The anchor a reconcile works with, unless the request comes again.
OwnerOK ==
  pc \in {"list", "apply"} =>
    owner # 0 /\ (owner = Current("anchor") \/ AnchorEventPending \/ queued)

\* A DnsHosts object has an owner.
OwnedOK == hosts.owner = 0 => hosts = NoHosts

\* Between reconciles, with no request queued.
IdleOK ==
  pc = "idle" /\ ~queued =>
    \/ AnchorEventPending
    \/ Current("anchor") = 0 /\ ~StartTriggers(Cached("services"))
    \/ hosts.owner = Current("anchor") /\ hosts.owner # 0 /\ Shows(hosts.entries, Cached("services"))

FreshInv == ~dryRun => ListedOK /\ OwnerOK /\ OwnedOK /\ IdleOK

TypesKept ==
  \A i \in 1 .. Len(log["services"]) - 1 : KeepsTypes(log["services"][i], log["services"][i + 1])

RestInv == FreshInv /\ TypesKept

\* An event the predicates filter out makes no difference.
LEMMA SilentEvent ==
  ASSUME NEW old \in ServiceMap, NEW new \in ServiceMap, KeepsTypes(old, new),
         \A s \in Services : old[s] # new[s] => ~LbOnly(old[s], new[s])
  PROVE  /\ \A entries : Shows(entries, old) => Shows(entries, new)
         /\ StartTriggers(new) => StartTriggers(old)
<1>1. ASSUME NEW s \in Services, IsLoadBalancer(new[s]) PROVE old[s] = new[s]
  BY <1>1 DEF LbOnly, IsLoadBalancer
<1>2. ASSUME NEW s \in Services, IsLoadBalancer(old[s]), ~Retyping PROVE old[s] = new[s]
  BY <1>1, <1>2 DEF KeepsTypes, LbOnly, IsLoadBalancer
<1>3. BuildLoadBalancerBased(new) \subseteq BuildLoadBalancerBased(old)
  <2> SUFFICES ASSUME NEW s \in Services, IsLoadBalancer(new[s]), Address(new[s]) # NoAddress
               PROVE  <<Address(new[s]), HostName[s]>> \in BuildLoadBalancerBased(old)
    BY DEF BuildLoadBalancerBased
  <2> QED
    BY <1>1 DEF BuildLoadBalancerBased
<1>4. ~Retyping => BuildLoadBalancerBased(old) \subseteq BuildLoadBalancerBased(new)
  <2> SUFFICES ASSUME ~Retyping, NEW s \in Services, IsLoadBalancer(old[s]), Address(old[s]) # NoAddress
               PROVE  <<Address(old[s]), HostName[s]>> \in BuildLoadBalancerBased(new)
    BY DEF BuildLoadBalancerBased
  <2> QED
    BY <1>2 DEF BuildLoadBalancerBased
<1> QED
  BY <1>1, <1>3, <1>4 DEF Shows, StartTriggers

\* Nothing is built when no Service would trigger the start.
LEMMA NothingToBuild ==
  ASSUME NEW services, ~StartTriggers(services)
  PROVE  BuildLoadBalancerBased(services) = {}
BY DEF StartTriggers, BuildLoadBalancerBased

LEMMA PositionRanges ==
  ASSUME TypeInv
  PROVE  /\ \A k \in Kinds : seen[k] \in 1 .. Len(log[k])
         /\ snap["services"] \in 1 .. Len(log["services"])
         /\ \A k \in Kinds : Len(log[k]) \in Nat \ {0}
         /\ \A i \in 1 .. Len(log["services"]) : log["services"][i] \in ServiceMap
         /\ \A i \in 1 .. Len(log["anchor"]) : log["anchor"][i] \in Nat
<1>1. \A k \in Kinds : Len(log[k]) \in Nat
  BY LogLengths DEF TypeInv
<1> QED
  BY <1>1, KindsAre, ElementOfSeq DEF TypeInv, LogOK, PositionsOK

LEMMA InitRest == Init => RestInv
<1> SUFFICES ASSUME NEW services \in [Services -> ServiceSpecs \union {Nil}],
                    AnchoredInit([s \in Sources |-> services], StartTriggers(services))
             PROVE  RestInv
  BY DEF Init
<1> USE KindsAre
<1>1. /\ log["anchor"] = <<0>> /\ log["services"] = <<Empty["services"], services>>
      /\ seen["services"] = 2 /\ hosts = NoHosts /\ pc = "idle" /\ queued = StartTriggers(services)
  BY DEF AnchoredInit
<1>2. Current("anchor") = 0 /\ Cached("services") = services
  BY <1>1 DEF Current, Cached
<1>3. FreshInv
  BY <1>1, <1>2 DEF FreshInv, ListedOK, OwnerOK, OwnedOK, IdleOK
<1>4. TypesKept
  <2>1. Empty["services"] = [s \in Services |-> Nil]
    BY LoadBalancerAssumption
  <2>2. KeepsTypes(Empty["services"], services)
    BY <2>1 DEF KeepsTypes, IsLoadBalancer
  <2> QED
    BY <1>1, <2>2 DEF TypesKept
<1> QED
  BY <1>3, <1>4 DEF RestInv

LEMMA TypesKeptStep == TypeInv /\ TypesKept /\ [Next]_vars => TypesKept'
<1> SUFFICES ASSUME TypeInv, TypesKept, [Next]_vars PROVE TypesKept'
  OBVIOUS
<1> USE KindsAre
<1>1. ASSUME NEW services \in ServiceMap, Edit("services", services), KeepsTypes(Current("services"), services)
      PROVE  TypesKept'
  <2> DEFINE n == Len(log["services"])
  <2>1. /\ n \in Nat \ {0} /\ Len(log'["services"]) = n + 1 /\ log'["services"][n + 1] = services
        /\ \A i \in 1 .. n : log'["services"][i] = log["services"][i]
    BY <1>1, StoreLog, PositionRanges DEF Edit, TypeInv
  <2>2. log'["services"][n] = Current("services")
    BY <2>1 DEF Current
  <2> HIDE DEF n
  <2>3. ASSUME NEW i \in 1 .. n
        PROVE  KeepsTypes(log'["services"][i], log'["services"][i + 1])
    <3>1. CASE i = n
      BY <1>1, <2>1, <2>2, <3>1
    <3>2. CASE i # n
      <4>1. i \in 1 .. n - 1 /\ i + 1 \in 1 .. n
        BY <2>1, <3>2
      <4> QED
        BY <2>1, <4>1 DEF TypesKept, n
    <3> QED
      BY <3>1, <3>2
  <2>4. Len(log'["services"]) - 1 = n
    BY <2>1
  <2> QED
    BY <2>3, <2>4 DEF TypesKept, KeepsTypes
<1>2. CASE UNCHANGED log["services"]
  BY <1>2 DEF TypesKept, KeepsTypes
<1>3. CASE Users
  BY <1>1, <1>2, <1>3, UsersAre, StoreLog DEF Edit, TypeInv
<1>4. CASE ~Users
  <2>1. CASE UNCHANGED log
    BY <1>2, <2>1
  <2>2. CASE CreateAnchor
    BY <1>2, <2>2, StoreLog, LogLengths DEF CreateAnchor, TypeInv
  <2> QED
    BY <1>4, <2>1, <2>2
       DEF Next, CollectGarbage, DeliverService, DeliverAnchor, Deliver, Reconcile, StartReconcile, EnsureAnchor,
       ListServices, Read, ApplyDnsHosts, CallLost, Restart, vars, baseVars
<1> QED
  BY <1>3, <1>4

\* Edits: the cache does not move.
LEMMA UsersFresh == TypeInv /\ FreshInv /\ Users => FreshInv'
<1> SUFFICES ASSUME TypeInv, FreshInv, Users PROVE FreshInv'
  OBVIOUS
<1> USE KindsAre
<1>1. CASE Edit("anchor", 0)
  <2>1. UNCHANGED <<dryRun, seen, hosts, queued, pc, owner, snap, log["services"]>> /\ AnchorEventPending'
    <3>1. Store("anchor", 0) /\ UNCHANGED <<dryRun, seen, hosts, queued, pc, owner, snap>>
      BY <1>1 DEF Edit, hostVars, workVars
    <3>2. log'["services"] = log["services"] /\ Len(log'["anchor"]) = Len(log["anchor"]) + 1
      BY <3>1, StoreLog DEF TypeInv
    <3> QED
      BY <3>1, <3>2, PositionRanges DEF AnchorEventPending
  <2> QED
    BY <2>1 DEF FreshInv, ListedOK, OwnerOK, OwnedOK, IdleOK, Cached
<1>2. ASSUME NEW services \in ServiceMap, Edit("services", services) PROVE FreshInv'
  <2>1. /\ UNCHANGED <<dryRun, seen, hosts, queued, pc, owner, snap, log["anchor"]>>
        /\ \A i \in 1 .. Len(log["services"]) : log'["services"][i] = log["services"][i]
    BY <1>2, StoreLog DEF Edit, hostVars, workVars, TypeInv
  <2>2. /\ UNCHANGED <<Cached("services"), Current("anchor"), AnchorEventPending>>
        /\ log'["services"][snap["services"]] = log["services"][snap["services"]]
    BY <2>1, PositionRanges DEF Cached, Current, AnchorEventPending
  <2> QED
    BY <2>1, <2>2 DEF FreshInv, ListedOK, OwnerOK, OwnedOK, IdleOK
<1> QED
  BY <1>1, <1>2, UsersAre

\* A watch event either brings the request back or makes no difference.
LEMMA DeliverFresh == TypeInv /\ RestInv /\ (DeliverService \/ DeliverAnchor) => FreshInv'
<1> SUFFICES ASSUME TypeInv, RestInv, DeliverService \/ DeliverAnchor PROVE FreshInv'
  OBVIOUS
<1> USE KindsAre
<1>0. UNCHANGED <<dryRun, log, hosts, pc, owner, snap>>
  BY DEF DeliverService, DeliverAnchor, Deliver, hostVars, workVars
<1>1. CASE queued'
  BY <1>0, <1>1 DEF RestInv, FreshInv, ListedOK, OwnerOK, OwnedOK, IdleOK
<1>2. CASE ~queued'
  <2> DEFINE old == Cached("services")
             new == Incoming("services")
             passes == \E s \in Services : old[s] # new[s] /\ LbOnly(old[s], new[s])
  <2>1. DeliverService /\ ~queued /\ ~passes
    BY <1>2 DEF DeliverService, DeliverAnchor, Deliver
  <2>2. /\ seen["services"] < Len(log["services"])
        /\ seen'["services"] = seen["services"] + 1 /\ seen'["anchor"] = seen["anchor"]
    BY <2>1 DEF DeliverService, Deliver, TypeInv, PositionsOK
  <2>3. Cached("services")' = new /\ UNCHANGED <<Current("anchor"), AnchorEventPending>>
    BY <1>0, <2>2 DEF Cached, Incoming, Current, AnchorEventPending
  <2>4. old \in ServiceMap /\ new \in ServiceMap /\ KeepsTypes(old, new)
    <3>1. seen["services"] \in 1 .. Len(log["services"]) - 1 /\ seen["services"] + 1 \in 1 .. Len(log["services"])
      BY <2>2, PositionRanges
    <3> QED
      BY <3>1, PositionRanges DEF Cached, Incoming, RestInv, TypesKept
  <2> HIDE DEF old, new
  <2>5. /\ \A entries : Shows(entries, old) => Shows(entries, new)
        /\ StartTriggers(new) => StartTriggers(old)
    BY <2>1, <2>4, SilentEvent
  <2>6. /\ Shows(hosts.entries, Cached("services"))' = Shows(hosts.entries, new)
        /\ StartTriggers(Cached("services"))' = StartTriggers(new)
    BY <1>0, <2>3 DEF Shows, StartTriggers, BuildLoadBalancerBased
  <2>7. ~dryRun => ListedOK'
    BY <1>0, <2>1, <2>3, <2>5 DEF old, RestInv, FreshInv, ListedOK, Shows
  <2> QED
    BY <1>0, <2>1, <2>3, <2>5, <2>6, <2>7 DEF old, RestInv, FreshInv, OwnerOK, OwnedOK, IdleOK
<1> QED
  BY <1>1, <1>2

\* The steps of a reconcile, its failures and restarts.
LEMMA ReconcileFresh == TypeInv /\ FreshInv /\ Reconcile => FreshInv'
<1>a. Reconcile => UNCHANGED dryRun
  BY DEF Reconcile, StartReconcile, EnsureAnchor, ListServices, Read, ApplyDnsHosts, CallLost
<1> SUFFICES ASSUME TypeInv, FreshInv, Reconcile, ~dryRun PROVE ListedOK' /\ OwnerOK' /\ OwnedOK' /\ IdleOK'
  BY <1>a DEF FreshInv
<1> USE KindsAre
<1>0. ASSUME ReturnError, UNCHANGED hosts PROVE ListedOK' /\ OwnerOK' /\ OwnedOK' /\ IdleOK'
  BY <1>0 DEF ReturnError, Return, FreshInv, ListedOK, OwnerOK, OwnedOK, IdleOK
<1>1. CASE StartReconcile
  BY <1>1 DEF StartReconcile, hostVars, FreshInv, ListedOK, OwnerOK, OwnedOK, IdleOK
<1>2. CASE EnsureAnchor
  <2>1. CASE ReturnError
    BY <1>0, <1>2, <2>1 DEF EnsureAnchor, hostVars
  <2>2. CASE ~ReturnError
    <3>1. PICK uid : UseAnchor(uid) /\ uid # 0 /\ (uid = Current("anchor")' \/ AnchorEventPending')
      <4>1. CASE Cached("anchor") # 0 /\ UseAnchor(Cached("anchor")) /\ UNCHANGED log
        <5>1. Cached("anchor") = Current("anchor")' \/ AnchorEventPending'
          BY <1>2, <4>1, PositionRanges DEF EnsureAnchor, Cached, Current, AnchorEventPending
        <5> QED
          BY <4>1, <5>1
      <4>2. CASE CreateAnchor /\ UseAnchor(Len(log["anchor"]) + 1)
        <5>1. Len(log["anchor"]) + 1 \in Nat \ {0} /\ Len(log["anchor"]) + 1 = Current("anchor")'
          BY <4>2, StoreLog, PositionRanges DEF CreateAnchor, Current, TypeInv
        <5> QED
          BY <4>2, <5>1
      <4> QED
        BY <1>2, <2>2, <4>1, <4>2 DEF EnsureAnchor, CallFails
    <3>2. pc' = "list" /\ owner' = uid /\ UNCHANGED hosts
      BY <1>2, <3>1 DEF EnsureAnchor, UseAnchor, hostVars
    <3> QED
      BY <3>1, <3>2 DEF FreshInv, ListedOK, OwnerOK, OwnedOK, IdleOK
  <2> QED
    BY <2>1, <2>2
<1>3. CASE ListServices
  <2>1. /\ pc' = "apply" /\ snap'["services"] = seen["services"] /\ pc = "list"
        /\ UNCHANGED <<owner, log, seen, hosts, queued>>
    BY <1>3 DEF ListServices, Read, hostVars, TypeInv, PositionsOK
  <2>2. UNCHANGED <<Current("anchor"), AnchorEventPending>>
    BY <2>1 DEF Current, AnchorEventPending
  <2>3. ListedOK'
    BY <2>1 DEF ListedOK, Shows, Cached
  <2> QED
    BY <2>1, <2>2, <2>3 DEF FreshInv, OwnerOK, OwnedOK, IdleOK
<1>4. CASE ApplyDnsHosts
  <2> DEFINE built == BuildLoadBalancerBased(log["services"][snap["services"]])
  <2>1. /\ pc = "apply" /\ hosts' = [owner |-> owner, entries |-> built] /\ pc' = "idle"
        /\ UNCHANGED <<log, seen>>
        /\ queued => queued'
    BY <1>4 DEF ApplyDnsHosts, PutDnsHosts, Return, CallFails, ReturnError
  <2>2. UNCHANGED <<Current("anchor"), AnchorEventPending, Cached("services")>>
    BY <2>1 DEF Current, AnchorEventPending, Cached
  <2>3. owner # 0
    BY <2>1 DEF FreshInv, OwnerOK
  <2>4. ListedOK' /\ OwnerOK' /\ OwnedOK'
    BY <2>1, <2>3 DEF ListedOK, OwnerOK, OwnedOK
  <2>5. ASSUME ~queued' PROVE AnchorEventPending \/ (owner = Current("anchor") /\ Shows(built, Cached("services")))
    BY <2>1, <2>5 DEF FreshInv, ListedOK, OwnerOK
  <2> HIDE DEF built
  <2>6. Shows(hosts.entries, Cached("services"))' = Shows(built, Cached("services"))
    BY <2>1, <2>2 DEF Shows, BuildLoadBalancerBased
  <2> QED
    BY <2>1, <2>2, <2>3, <2>4, <2>5, <2>6 DEF IdleOK
<1>5. CASE CallLost({"anchor", "list", "apply"})
  BY <1>0, <1>5 DEF CallLost, CallFails, hostVars
<1> QED
  BY <1>1, <1>2, <1>3, <1>4, <1>5 DEF Reconcile

LEMMA RestStep == TypeInv /\ RestInv /\ [Next]_vars => RestInv'
<1> SUFFICES ASSUME TypeInv, RestInv, [Next]_vars PROVE FreshInv'
  BY TypesKeptStep DEF RestInv
<1> USE DEF RestInv
<1>1. CASE Users
  BY <1>1, UsersFresh
<1>2. CASE CollectGarbage
  <2>1. UNCHANGED <<dryRun, log, seen, queued, pc, owner, snap>> /\ hosts' = NoHosts /\ Orphaned
    BY <1>2 DEF CollectGarbage, workVars
  <2>2. UNCHANGED <<Current("anchor"), AnchorEventPending, Cached("services")>>
    BY <2>1 DEF Current, AnchorEventPending, Cached
  <2>3. hosts.owner # Current("anchor")
    BY <2>1 DEF Orphaned
  <2> QED
    BY <2>1, <2>2, <2>3 DEF FreshInv, ListedOK, OwnerOK, OwnedOK, IdleOK
<1>3. CASE DeliverService \/ DeliverAnchor
  BY <1>3, DeliverFresh
<1>4. CASE Reconcile
  BY <1>4, ReconcileFresh
<1>5. CASE Restart(StartTriggers(Current("services")))
  <2>1. /\ UNCHANGED <<dryRun, log, hosts>> /\ pc' = "idle"
        /\ seen'["services"] = Len(log["services"])
        /\ queued' = (StartTriggers(Current("services")) \/ Current("anchor") # 0)
    BY <1>5, KindsAre DEF Restart, Return, hostVars
  <2>2. Cached("services")' = Current("services") /\ UNCHANGED Current("anchor")
    BY <2>1 DEF Cached, Current
  <2>3. StartTriggers(Cached("services"))' = StartTriggers(Current("services"))
    BY <2>2 DEF StartTriggers
  <2> QED
    BY <2>1, <2>2, <2>3 DEF FreshInv, ListedOK, OwnerOK, OwnedOK, IdleOK
<1>6. CASE UNCHANGED vars
  BY <1>6 DEF vars, baseVars, hostVars, workVars, FreshInv, ListedOK, OwnerOK, OwnedOK, IdleOK, AnchorEventPending,
     Current, Cached, Shows, StartTriggers, BuildLoadBalancerBased
<1> QED
  BY <1>1, <1>2, <1>3, <1>4, <1>5, <1>6 DEF Next

\* With nothing on its way the object shows the Services as they are.
LEMMA RestShows ==
  ASSUME TypeInv, FreshInv, Settled, ~dryRun
  PROVE  Shows(hosts.entries, Current("services"))
<1> USE KindsAre
<1>1. /\ pc = "idle" /\ ~queued /\ ~AnchorEventPending
      /\ Cached("services") = Current("services")
      /\ hosts.owner = 0 \/ hosts.owner = Current("anchor")
  <2>1. seen["services"] = Len(log["services"]) /\ seen["anchor"] = Len(log["anchor"])
    BY DEF Settled
  <2> QED
    BY <2>1, PositionRanges DEF Settled, AnchorEventPending, Cached, Current, Orphaned
<1>2. CASE Current("anchor") = 0 /\ ~StartTriggers(Current("services"))
  <2>1. hosts.entries = {}
    BY <1>1, <1>2 DEF FreshInv, OwnedOK, NoHosts
  <2> QED
    BY <1>2, <2>1, NothingToBuild DEF Shows
<1> QED
  BY <1>1, <1>2 DEF FreshInv, IdleOK

\* Whatever the Services, edits, failures, crashes and deletions of the anchor:
\* once the controller rests, every LoadBalancer Service with an address resolves.
THEOREM ServicesResolve == Spec => []ServicesResolveAtRest
<1>1. TypeInv /\ RestInv => ServicesResolveAtRest
  BY RestShows DEF RestInv, Shows, ServicesResolveAtRest
<1> QED
  BY <1>1, InitType, TypeStep, InitRest, RestStep, PTL DEF Spec

\* As long as Services do not change from LoadBalancer to another type, no
\* outdated address is left once the controller rests.
THEOREM NothingElseResolves == ASSUME ~Retyping PROVE Spec => []NothingElseResolvesAtRest
<1>1. TypeInv /\ RestInv /\ DryRunWritesNothing => NothingElseResolvesAtRest
  <2> SUFFICES ASSUME TypeInv, RestInv, DryRunWritesNothing, Settled
               PROVE  hosts.entries \subseteq BuildLoadBalancerBased(Current("services"))
    BY DEF NothingElseResolvesAtRest
  <2>1. CASE dryRun
    BY <2>1 DEF DryRunWritesNothing, NoHosts
  <2>2. CASE ~dryRun
    BY <2>2, RestShows DEF RestInv, Shows
  <2> QED
    BY <2>1, <2>2
<1> QED
  BY <1>1, InitType, TypeStep, InitRest, RestStep, DryRunIsSafe, PTL DEF Spec

=============================================================================
