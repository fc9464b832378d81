---------------------------- MODULE DeviceBased ----------------------------
(***************************************************************************)
(* BuildDeviceBased of internal/desired/devicebased.go: the dnsmasq and    *)
(* FreeRADIUS objects that a snapshot of the Devices and Networks of one   *)
(* namespace calls for.                                                    *)
(*                                                                         *)
(* A snapshot maps names to API objects, or to Nil where there is none.    *)
(* Names are positive numbers that stand for their position in string      *)
(* order.  What a spec renders into an entry (IP address, MACs, hostnames, *)
(* VLAN, router, DNS server) is abstracted to the generation of the object *)
(* it was rendered from, so that no two versions render alike; a field is  *)
(* kept only when the code branches on it.  The order of the entries of an *)
(* object is fixed by the sorts of BuildDeviceBased and NormalizeDnsHosts, *)
(* so an object's spec is the set of its entries.                          *)
(***************************************************************************)
EXTENDS Naturals

CONSTANTS
  Nil,              \* no object
  Namespaces,       \* namespaces that hold Devices and Networks
  Devices,          \* Device names
  Networks,         \* Network names
  HostsNetwork,     \* the Network name "hosts"
  EnableFreeRadiusDevices,
  FreeRadiusDevicesWirelessOnly

\* spec.network = ""
NoNetwork == 0

ASSUME DeviceBasedAssumption ==
  /\ Devices \subseteq Nat \ {0}
  /\ Networks \subseteq Nat \ {0}
  /\ HostsNetwork \in Nat \ {0}
  /\ EnableFreeRadiusDevices \in BOOLEAN
  /\ FreeRadiusDevicesWirelessOnly \in BOOLEAN

\* ip: spec.ip # "".
DeviceSpec ==
  [network : Networks \union {NoNetwork}, ip : BOOLEAN, dhcp : BOOLEAN,
   wireless : BOOLEAN]

\* router: spec.router # "".
NetworkSpec == [serveDHCP : BOOLEAN, router : BOOLEAN]

Existing(objs) == {x \in DOMAIN objs : objs[x] # Nil}

\* A host entry of ns's device d, an option of its network n.
Entry(ns, name, obj) == [ns |-> ns, name |-> name, gen |-> obj.gen]

\* The devices the second loop of BuildDeviceBased does not skip, on network n.
OnNetwork(devs, nets, n) ==
  {d \in Existing(devs) : devs[d].spec.network = n /\ n \in Existing(nets)}

DhcpOptionsSpec(ns, nets) ==
  {Entry(ns, n, nets[n]) :
     n \in {m \in Existing(nets) : nets[m].spec.serveDHCP /\ nets[m].spec.router}}

\* The DhcpHosts and DnsHosts called device-based-n; {} when there is to be none.
DhcpHostsSpec(ns, devs, nets, n) ==
  {Entry(ns, d, devs[d]) : d \in {e \in OnNetwork(devs, nets, n) : devs[e].spec.dhcp}}

DnsHostsSpec(ns, devs, nets, n) ==
  {Entry(ns, d, devs[d]) : d \in {e \in OnNetwork(devs, nets, n) : devs[e].spec.ip}}

FreeRadiusNames(devs, nets) ==
  {d \in Existing(devs) :
     /\ EnableFreeRadiusDevices
     /\ devs[d].spec.network \in Existing(nets)
     /\ FreeRadiusDevicesWirelessOnly => devs[d].spec.wireless}

\* MAC addresses of the device, VLAN of its network.
FreeRadiusDeviceSpec(ns, devs, nets, d) ==
  [device |-> Entry(ns, d, devs[d]),
   network |-> Entry(ns, devs[d].spec.network, nets[devs[d].spec.network])]

DhcpHostsNames(ns, devs, nets) ==
  {n \in Networks : DhcpHostsSpec(ns, devs, nets, n) # {}}

DnsHostsNames(ns, devs, nets) ==
  {n \in Networks : DnsHostsSpec(ns, devs, nets, n) # {}}

=============================================================================
