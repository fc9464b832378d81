------------------------------ MODULE Publisher ------------------------------
(***************************************************************************)
(* What a controller that fills one DnsHosts object promises, whatever its *)
(* caches, its queue, its retries and its crashes do: the object always    *)
(* holds what the builder makes of one state of every kind of input, and   *)
(* it never falls back to an older state than the one it showed before.    *)
(* Only its disappearance, with the anchor that owns it, is allowed        *)
(* besides.  LoadBalancerDNS and IngressDNS implement this.                *)
(***************************************************************************)
EXTENDS Naturals, Sequences

CONSTANTS
  Sources,     \* the kinds of objects that are read
  Outputs(_)   \* Outputs(in): what may be published for the input in

VARIABLES
  log,         \* log[s]: the states of the objects of kind s so far
  version,     \* version[s]: the state of s the last write was built from
  published    \* the published entries, {} when there is no object

pubVars == <<log, version, published>>

InputsAt(v) == [s \in Sources |-> log[s][v[s]]]

Latest == [s \in Sources |-> Len(log[s])]

\* The log begins with the state without any object.
Init ==
  /\ \A s \in Sources : Len(log[s]) \in Nat \ {0}
  /\ version = [s \in Sources |-> 1]
  /\ published = {}

Grows(s) ==
  /\ Len(log[s]) < Len(log'[s])
  /\ \A i \in 1..Len(log[s]) : log'[s][i] = log[s][i]

\* Somebody changes objects of one kind.
Change(s) ==
  /\ Grows(s)
  /\ \A other \in Sources \ {s} : log'[other] = log[other]
  /\ UNCHANGED <<version, published>>

Publish ==
  /\ \A s \in Sources : version'[s] \in version[s] .. Len(log[s])
  /\ version' = [s \in Sources |-> version'[s]]
  /\ published' \in Outputs([s \in Sources |-> log[s][version'[s]]])
  /\ UNCHANGED log

\* The object is gone.
Withdraw ==
  /\ published' = {}
  /\ UNCHANGED <<log, version>>

Next == (\E s \in Sources : Change(s)) \/ Publish \/ Withdraw

Spec == Init /\ [][Next]_pubVars

=============================================================================
