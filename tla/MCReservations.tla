--------------------------- MODULE MCReservations ---------------------------
(* Addresses of 4 bits: subnets of 16, 8, 4, 2 and 1 addresses, two of them *)
(* at the top of the address space, one with a DHCP range that is larger    *)
(* than the block; and networks that the code does not accept.  Both        *)
(* machines hash to the same candidate.                                     *)
EXTENDS Reservations, TLC

CONSTANTS a, b

Subnet(address, prefix, range) ==
    [family |-> "inet", v4 |-> TRUE, address |-> address, prefix |-> prefix,
     netmask |-> TRUE, range |-> range]

AllNetworks ==
    {Subnet(1, 0, NoRange), Subnet(9, 1, NoRange), Subnet(13, 2, NoRange),
     Subnet(1, 3, NoRange), Subnet(1, 4, NoRange), Subnet(1, 1, <<3, 6>>),
     [Subnet(1, 1, NoRange) EXCEPT !.family = "ipv6", !.v4 = FALSE],
     [Subnet(1, 1, NoRange) EXCEPT !.family = "ipv4"],
     [Subnet(1, 1, <<3, 6>>) EXCEPT !.netmask = FALSE]}

\* The network that libvirt sets up under the name "default": an address, a
\* netmask and a DHCP range, and no family attribute.
DefaultNetwork == {[Subnet(1, 1, <<3, 6>>) EXCEPT !.family = "none"]}

SameHash == (a :> 5) @@ (b :> 5)
=============================================================================
