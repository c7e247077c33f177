-------------------------------- MODULE Ipv4 --------------------------------
(***************************************************************************)
(* Addresses of the drivers and the tools (common/src/ebus/ipv4.cpp).  A   *)
(* text is the sequence of its parts between dots, each with its value, -1 *)
(* when it is no number, and its number of characters; what it denotes is  *)
(* a sequence of four octets.                                              *)
(***************************************************************************)
EXTENDS Integers, Sequences
LOCAL INSTANCE FiniteSetsExt

PartOk(p) == p.value \in 0 .. 255 /\ p.digits \in 1 .. 3 /\ (p.digits > 1 => p.value >= 10 ^ (p.digits - 1))
ParseIpv4(text) == Len(text) = 4 /\ \A k \in DOMAIN text : PartOk(text[k])

(* What an address denotes, however it is written. *)
Denotes(text) == [k \in DOMAIN text |-> text[k].value]

Zeros == <<0, 0, 0, 0>>

(* The bits of an octet, and the octet of those that two have in common. *)
Bits(n) == {k \in 0 .. 7 : (n \div 2 ^ k) % 2 = 1}
Common(m, n) == MapThenSumSet(LAMBDA k : 2 ^ k, Bits(m) \cap Bits(n))

Masked(a, mask) == [k \in 1 .. 4 |-> Common(a[k], mask[k])]
HostBits(mask) == [k \in 1 .. 4 |-> 255 - mask[k]]

(* The mask of n ones, and how many ones a mask begins with, -1 when a one
   follows a zero. *)
MaskOf(n) ==
    LET ones(k) == IF n >= 8 * k THEN 8 ELSE IF n <= 8 * (k - 1) THEN 0 ELSE n - 8 * (k - 1)
    IN  [k \in 1 .. 4 |-> 256 - 2 ^ (8 - ones(k))]
PrefixLength(mask) ==
    IF \E n \in 0 .. 32 : mask = MaskOf(n) THEN CHOOSE n \in 0 .. 32 : mask = MaskOf(n) ELSE -1

SameSubnet(a, b, mask) == Masked(a, mask) = Masked(b, mask)

(* Neither loopback, multicast nor reserved, neither the network itself nor its
   broadcast address. *)
IsUsableHost(ip, mask) ==
    /\ ip # Zeros /\ ip[1] # 127 /\ ip[1] < 224
    /\ mask \notin {Zeros, MaskOf(32)} =>
          Masked(ip, mask) # ip /\ Masked(ip, HostBits(mask)) # HostBits(mask)

----------------------------------------------------------------------------
(* ValidateSetIp: [ip, subnet_mask, gateway] are texts, and so are the addresses
   of the adapter, of which those that do not parse are passed over. *)

HostAddresses(addresses) ==
    {[ip |-> Denotes(h.ip), mask |-> Denotes(h.mask)] :
        h \in {a \in addresses : ParseIpv4(a.ip) /\ ParseIpv4(a.mask)}}

(* Both sides must agree that they share a subnet. *)
Share(h, ip, mask) == SameSubnet(h.ip, ip, h.mask) /\ SameSubnet(h.ip, ip, mask)

GatewayOk(gateway, ip, mask) ==
    gateway # Zeros =>
        SameSubnet(gateway, ip, mask) /\ IsUsableHost(gateway, mask) /\ gateway # ip

ValidateSetIp(r, addresses) ==
    LET ip == Denotes(r.ip)  mask == Denotes(r.subnet_mask)  hosts == HostAddresses(addresses)
    IN  /\ ParseIpv4(r.ip) /\ ParseIpv4(r.subnet_mask) /\ ParseIpv4(r.gateway)
        /\ PrefixLength(mask) \in 8 .. 30 /\ IsUsableHost(ip, mask)
        /\ GatewayOk(Denotes(r.gateway), ip, mask)
        /\ \A h \in hosts : h.ip # ip
        /\ r.allow_foreign_subnet \/ \E h \in hosts : Share(h, ip, mask)
=============================================================================
