-------------------------- MODULE MCCameraProfiles --------------------------
(* Each operating mode of both profiles, and the requests of an operator who
   gives the camera an address that it can have, that it must not have, or that
   leaves the subnets of the host. *)
EXTENDS CameraBringUp, TLC

Base == [kind |-> "gox", external |-> TRUE, sync |-> TRUE, width |-> 0, offset |-> 0,
         ptp |-> "off", mroi |-> FALSE, pulseWidth |-> FALSE, dark |-> FALSE, raw |-> << >>]

(* Each operating mode once, each window, and each kind of override. *)
MCConfigs ==
    {[Base EXCEPT !.ptp = p] : p \in {"off", "abort", "warn_continue"}}
    \cup {[Base EXCEPT !.external = FALSE, !.width = w, !.offset = o] :
             w \in {0, 1, 2}, o \in {0, 2}}
    \cup {[Base EXCEPT !.raw = r] : r \in RawLists}
    \cup {[Base EXCEPT !.kind = "fx10", !.external = e, !.pulseWidth = e /\ m, !.mroi = m,
                       !.dark = ~e] : e \in BOOLEAN, m \in BOOLEAN}
    \cup {[Base EXCEPT !.kind = "fx10", !.raw = r] : r \in RawLists}

----------------------------------------------------------------------------
Text(octets) ==
    [k \in DOMAIN octets |->
        [value |-> octets[k],
         digits |-> IF octets[k] > 99 THEN 3 ELSE IF octets[k] > 9 THEN 2 ELSE 1]]

Ask == [usable |-> TRUE, mac |-> TRUE, ip |-> Text(<<10, 0, 0, 70>>),
        subnet_mask |-> Text(<<255, 255, 255, 192>>), gateway |-> Text(Zeros),
        allow_foreign_subnet |-> FALSE]
For(octets) == [Ask EXCEPT !.ip = Text(octets)]
Under(octets) == [Ask EXCEPT !.subnet_mask = Text(octets)]
Through(octets) == [Ask EXCEPT !.gateway = Text(octets)]

(* The first four can be had. *)
MCRequests ==
    {Ask, Through(<<10, 0, 0, 65>>), [For(<<10, 9, 0, 70>>) EXCEPT !.allow_foreign_subnet = TRUE],
     [Under(<<255, 255, 255, 224>>) EXCEPT !.allow_foreign_subnet = TRUE],
     [Ask EXCEPT !.usable = FALSE], [Ask EXCEPT !.mac = FALSE],
     [Ask EXCEPT !.ip[4] = [value |-> 7, digits |-> 2]], [Ask EXCEPT !.gateway = << >>],
     For(<<10, 0, 0, 256>>), For(<<10, 0, 0, 64>>), For(<<10, 0, 0, 127>>), For(<<10, 0, 0, 2>>),
     For(<<10, 0, 0, 100>>), For(<<127, 0, 0, 70>>), For(<<224, 0, 0, 70>>), For(Zeros),
     Under(<<255, 255, 0, 255>>), Under(<<254, 0, 0, 0>>), Under(<<255, 255, 255, 254>>),
     Under(<<255, 255, 255, 224>>),
     Through(<<10, 0, 0, 70>>), Through(<<10, 0, 0, 127>>), Through(<<10, 0, 0, 2>>)}

Adapter(octets, prefix, sees) ==
    [addresses |-> {[ip |-> Text(octets), mask |-> Text(MaskOf(prefix))], [ip |-> << >>, mask |-> << >>]},
     sees |-> sees]
Host(second) == <<Adapter(<<10, 0, 0, 100>>, 26, TRUE), Adapter(<<10, 9, 0, 1>>, 16, second)>>
Place(octets) == [ip |-> octets, mask |-> MaskOf(26), gateway |-> Zeros]
Kept(octets, enabled) == [enabled |-> enabled] @@ Place(octets)

(* A new camera with an address of its own, one that has been moved here, one
   that already has the address and cannot keep it, one that two adapters see, and
   one that has the address stored under a mask that leaves out the host. *)
MCNetworks ==
    <<[adapters |-> Host(FALSE), now |-> Place(<<169, 254, 0, 5>>), stored |-> Kept(Zeros, FALSE),
       own |-> Place(<<169, 254, 0, 5>>), offers |-> TRUE],
      [adapters |-> Host(FALSE), now |-> Place(<<10, 9, 0, 70>>), stored |-> Kept(<<10, 9, 0, 70>>, TRUE),
       own |-> Place(<<169, 254, 0, 5>>), offers |-> TRUE],
      [adapters |-> Host(FALSE), now |-> Place(<<10, 0, 0, 70>>), stored |-> Kept(Zeros, FALSE),
       own |-> Place(<<10, 0, 0, 70>>), offers |-> FALSE],
      [adapters |-> Host(TRUE), now |-> Place(<<10, 0, 0, 70>>), stored |-> Kept(<<10, 0, 0, 70>>, TRUE),
       own |-> Place(<<169, 254, 0, 5>>), offers |-> TRUE],
      [adapters |-> Host(FALSE), now |-> Place(<<169, 254, 0, 5>>),
       stored |-> [mask |-> MaskOf(30)] @@ Kept(<<10, 0, 0, 70>>, TRUE),
       own |-> Place(<<169, 254, 0, 5>>), offers |-> TRUE]>>
=============================================================================
