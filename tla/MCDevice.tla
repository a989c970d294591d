------------------------------ MODULE MCDevice ------------------------------
(***************************************************************************)
(* Device with two peers, channels with one place and a host with three    *)
(* ports.  Packets are sent only to a device that was asked to use port 1: *)
(* what happens to them does not depend on the port.                       *)
(***************************************************************************)
EXTENDS Device

MCPeers == {"p", "q"}
MCPorts == {1, 2, 3}

MCNext == DeviceNext /\ (sent' # sent => asked = 1)

MCSpec == DeviceInit /\ [][MCNext]_deviceVars /\ DeviceFairness
=============================================================================
