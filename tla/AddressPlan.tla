----------------------------- MODULE AddressPlan -----------------------------
(***************************************************************************)
(* The addresses of the emulation, as numbers: IPv4 addresses of           *)
(* interfaces and loopbacks, and the addresses of the controller plane.    *)
(* From the most significant bit on, an interface has                      *)
(*   owner (2 bits), node (13), loopback (1), peer (13), 1, 0, end,        *)
(* and a node of the controller plane 11111, 13 zeros, node (13) and 1.    *)
(* Ids is 2^13 in the code: the layout is the same for any other number.   *)
(***************************************************************************)
EXTENDS Integers

CONSTANT Ids   \* number of node identifiers that fit in their field

ASSUME IdsAssumption == Ids \in Nat \ {0}

Id == 0..(Ids - 1)

Types == {"Satellite", "GroundStation", "UserTerminal"}

Owner(type) == CASE type = "Satellite" -> 2
                 [] type = "GroundStation" -> 1
                 [] type = "UserTerminal" -> 3

\* Mutant: the peer is left out.
BaseIp_NoPeer(type, node, loopback, peer) ==
  (((Owner(type) * Ids + node) * 2 + (IF loopback THEN 1 ELSE 0)) * Ids) * 4 + 2

\* base_ip of get_ipv4_address: every bit but the last one.
BaseIp(type, node, loopback, peer) ==
  (((Owner(type) * Ids + node) * 2 + (IF loopback THEN 1 ELSE 0)) * Ids + peer) * 4 + 2

\* The address of the node and the one of its peer; the end with the lower
\* identifier has the even address.
GetIpv4Address(node, peer, type, loopback) ==
  LET base == BaseIp(type, node, loopback, peer)
  IN IF node < peer THEN <<base * 2, base * 2 + 1>> ELSE <<base * 2 + 1, base * 2>>

\* set_ipv4_address of a loopback: the first of the two, with the node as its peer.
LoopbackIp(type, node) == GetIpv4Address(node, node, type, TRUE)[1]

\* set_ipv4_address of an interface: the end that comes first in the list of
\* interfaces, the source, sets both.
LinkIps(type, source, target) == GetIpv4Address(source, target, type, FALSE)

BuildControllerIp(node) == (31 * Ids * Ids + node) * 2 + 1

\* A /31: the two addresses differ in their last bit.
SameSubnet(ip1, ip2) == ip1 \div 2 = ip2 \div 2
=============================================================================
