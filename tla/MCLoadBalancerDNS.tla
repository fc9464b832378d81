------------------------- MODULE MCLoadBalancerDNS -------------------------
(***************************************************************************)
(* Two Services of the same name in different namespaces.                  *)
(***************************************************************************)
EXTENDS LoadBalancerDNS

CONSTANTS a, b, web

MCServices == {a, b}
MCSources == {"services"}
MCEmpty == [k \in MCSources |-> [s \in MCServices |-> Nil]]
MCHostName == [s \in MCServices |-> web]

Svc(type, specIP, statusIP) == [type |-> type, specIP |-> specIP, statusIP |-> statusIP]

\* Waiting for an address, with the one asked for, with another one assigned,
\* and not a LoadBalancer although an address is left in its spec.
MCServiceSpecs ==
  {Svc("LoadBalancer", NoAddress, NoAddress), Svc("LoadBalancer", 1, NoAddress),
   Svc("LoadBalancer", 1, 2), Svc("ClusterIP", 1, NoAddress)}

=============================================================================
