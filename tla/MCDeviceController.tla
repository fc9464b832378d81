------------------------- MODULE MCDeviceController -------------------------
(***************************************************************************)
(* Constants for the runs of DeviceController.  Specs are picked so that   *)
(* the cases the code tells apart occur with few of them.                  *)
(***************************************************************************)
EXTENDS DeviceController

Dev(network, ip, dhcp, wireless) ==
  [network |-> network, ip |-> ip, dhcp |-> dhcp, wireless |-> wireless]

Net(serveDHCP, router) == [serveDHCP |-> serveDHCP, router |-> router]

\* A lease and a DNS name on network 1, the same device moved to network 2 and
\* wired there, or taken off the networks.
MovingDevices ==
  {Dev(1, TRUE, TRUE, TRUE), Dev(2, TRUE, TRUE, FALSE), Dev(NoNetwork, TRUE, TRUE, TRUE)}

WirelessDevices == {Dev(1, TRUE, TRUE, TRUE)}

\* DHCP switched off while the IP address stays.
LeaseTogglingDevices == {Dev(1, TRUE, TRUE, FALSE), Dev(1, TRUE, FALSE, FALSE)}

ServedNetworks == {Net(TRUE, TRUE)}
AllNetworks == {Net(TRUE, TRUE), Net(FALSE, TRUE)}

=============================================================================
