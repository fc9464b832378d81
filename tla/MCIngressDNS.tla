---------------------------- MODULE MCIngressDNS ----------------------------
(***************************************************************************)
(* Two classes; routers r1 and r2 of one name in different namespaces, r3  *)
(* of a later name; an Ingress and an HTTPRoute.                           *)
(***************************************************************************)
EXTENDS IngressDNS

CONSTANTS r1, r2, r3, route, x, y

MCSources == {"routers", "ingresses", "routes"}
MCRouterName == [r \in Routers |-> IF r = r3 THEN 2 ELSE 1]
MCEmpty ==
  [routers |-> [r \in Routers |-> Nil], ingresses |-> [i \in Ingresses |-> Nil],
   routes |-> [h \in Routes |-> Nil]]

Rtr(class, ip) == [class |-> class, ip |-> ip]

\* A router of either class, at different addresses.
MCRouterSpecs == {Rtr(1, 1), Rtr(2, 2)}

\* One by class name that overrides an annotation, one by annotation.
MCIngressSpecs ==
  {[className |-> 1, annotation |-> 2, hosts |-> {x}],
   [className |-> Nil, annotation |-> 2, hosts |-> {x}]}

MCRouteSpecs == {[gateway |-> 1, hosts |-> {x, y}], [gateway |-> NoClass, hosts |-> {y}]}

Unreported(class, ip) == [gen |-> 1, class |-> class, ip |-> ip, obs |-> 0, ready |-> FALSE]

\* Two routers of one class, an Ingress and an HTTPRoute of that class.
MCInitialInputs ==
  {[routers |-> [r \in Routers |-> Unreported(1, IF r = r1 THEN 1 ELSE 2)],
    ingresses |-> [i \in Ingresses |-> [className |-> 1, annotation |-> 2, hosts |-> {x}]],
    routes |-> [h \in Routes |-> [gateway |-> 1, hosts |-> {x, y}]]]}

=============================================================================
