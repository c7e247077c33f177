--------------------------- MODULE CameraAddress ----------------------------
(***************************************************************************)
(* How a camera gets its address and how its driver finds it: ebus_set_ip  *)
(* (common/src/ebus/set_ip_main.cpp, ip_config.cpp) and FindCamera         *)
(* (discovery.cpp).                                                        *)
(*                                                                         *)
(* The camera is one device among the adapters of the host.  A discovery   *)
(* may miss it on any adapter, FORCEIP takes effect later or never, a      *)
(* write of a node fails with or without its effect, and the power may go  *)
(* at any time: the camera then comes up with what it has stored, or with  *)
(* an address of its own while persistent addresses are switched off.      *)
(***************************************************************************)
EXTENDS Ipv4, FiniteSets, FiniteSetsExt

CONSTANTS
    Requests,  \* arguments of the tool: [usable, mac, ip, subnet_mask, gateway, allow_foreign_subnet]
    Networks   \* a sequence of [adapters, now, stored, own, offers]: the host, and the
               \* camera before the tool

PersistentNodes == <<"ip", "mask", "gateway", "enabled">>

(* A host has finitely many adapters; four octets are an address. *)
Octets == [1 .. 4 -> 0 .. 255]
ASSUME NetworksAssumption ==
    \A w \in DOMAIN Networks :
       /\ DOMAIN Networks[w].adapters \subseteq Nat /\ IsFiniteSet(DOMAIN Networks[w].adapters)
       /\ Networks[w].stored \in [ip : Octets, mask : Octets, gateway : Octets, enabled : BOOLEAN]

NoRequest == [usable |-> FALSE]

VARIABLES
    request,   \* what the operator asked of ebus_set_ip
    where,     \* the network, by its number
    now,       \* the address of the camera: [ip, mask, gateway]
    stored,    \* GevPersistent*: [ip, mask, gateway, enabled]
    forced,    \* a FORCEIP has not reached its effect
    tool, exit,\* where SetDeviceIp is, and its exit code
    adapter,   \* the adapter that saw the camera
    node,      \* the node to be written next
    linked,    \* the tool controls the camera
    errors     \* of the persistent write

addressVars == <<request, where, now, stored, forced, tool, exit, adapter, node, linked, errors>>

NoExit == -1
net == Networks[where]

AddressInit ==
    /\ request \in Requests \cup {NoRequest} /\ where \in DOMAIN Networks
    /\ now = net.now /\ stored = net.stored /\ forced = FALSE
    /\ tool = IF request = NoRequest THEN "absent" ELSE "begin"
    /\ exit = NoExit /\ adapter = 0 /\ node = 1 /\ linked = FALSE /\ errors = {}

(* What the request asks for, as the camera would store it. *)
Wanted ==
    [ip |-> Denotes(request.ip), mask |-> Denotes(request.subnet_mask),
     gateway |-> Denotes(request.gateway), enabled |-> TRUE]
AddressOf(s) == [ip |-> s.ip, mask |-> s.mask, gateway |-> s.gateway]

(* DiscoverDevices: the adapters on which the camera answers in time. *)
Sightings == SUBSET {a \in DOMAIN net.adapters : net.adapters[a].sees}

(* IsConfigurationValid of the SDK. *)
ConfigurationValid(a) ==
    \E h \in HostAddresses(net.adapters[a].addresses) : Share(h, now.ip, now.mask)

----------------------------------------------------------------------------
(* ebus_set_ip. *)

Fail(code) == tool' = "ended" /\ exit' = code
Step(next) == tool' = next /\ UNCHANGED exit

(* Arguments that do not parse, or a MAC address that is none. *)
Arguments ==
    /\ tool = "begin"
    /\ IF request.usable /\ request.mac THEN Step("discover") ELSE Fail(2)
    /\ UNCHANGED <<request, where, now, stored, forced, adapter, node, linked, errors>>

FindByMac ==
    /\ tool = "discover"
    /\ \/ Fail(7) /\ UNCHANGED adapter
       \/ \E seen \in Sightings :
             IF seen = {} THEN Fail(3) /\ UNCHANGED adapter
             ELSE Step("validate") /\ adapter' = Min(seen)
    /\ UNCHANGED <<request, where, now, stored, forced, node, linked, errors>>

Validate ==
    /\ tool = "validate"
    /\ IF ValidateSetIp(request, net.adapters[adapter].addresses) THEN Step("force") ELSE Fail(2)
    /\ UNCHANGED <<request, where, now, stored, forced, adapter, node, linked, errors>>

(* A FORCEIP that the SDK calls rejected may have got through. *)
ForceIp ==
    /\ tool = "force" /\ forced' \in BOOLEAN /\ (Fail(4) \/ Step("await"))
    /\ UNCHANGED <<request, where, now, stored, adapter, node, linked, errors>>

(* One pass of the wait for the new address: the camera is looked at once more
   before the deadline counts.  The last sighting says whether the camera can
   keep an address. *)
AwaitAddress ==
    /\ tool = "await"
    /\ \/ \E seen \in Sightings :
             /\ seen # {} /\ now.ip = Wanted.ip /\ ConfigurationValid(Min(seen))
             /\ IF net.offers THEN Step("connect") ELSE Fail(6)
       \/ Fail(5)
    /\ UNCHANGED <<request, where, now, stored, forced, adapter, node, linked, errors>>

(* Control access at the new address. *)
ConnectForWrite ==
    /\ tool = "connect"
    /\ \/ now.ip = Wanted.ip /\ Step("write") /\ linked' = TRUE
       \/ Fail(7) /\ UNCHANGED linked
    /\ UNCHANGED <<request, where, now, stored, forced, adapter, node, errors>>

(* Mutant: an error does not outlive the next write. *)
NotedLast(name, done) == IF done THEN {} ELSE {name}

(* The errors after the write of a node. *)
Noted(name, done) == IF done THEN errors ELSE errors \cup {name}

(* write_ipv4_node and write_bool_node: absent, locked or of a strange type, not
   accepted, or not read back as written.  The next node is written all the
   same. *)
WriteNode ==
    /\ tool = "write" /\ node <= Len(PersistentNodes)
    /\ LET name == PersistentNodes[node]
           taken == [stored EXCEPT ![name] = Wanted[name]]
       IN  \/ linked /\ stored' = taken /\ errors' = Noted(name, TRUE)
           \/ (stored' = stored \/ (linked /\ stored' = taken)) /\ errors' = Noted(name, FALSE)
    /\ node' = node + 1
    /\ UNCHANGED <<request, where, now, forced, tool, exit, adapter, linked>>

PersistDone ==
    /\ tool = "write" /\ node > Len(PersistentNodes)
    /\ linked' = FALSE /\ Fail(IF errors = {} THEN 0 ELSE 6)
    /\ UNCHANGED <<request, where, now, stored, forced, adapter, node, errors>>

SetDeviceIp ==
    \/ Arguments \/ FindByMac \/ Validate \/ ForceIp \/ AwaitAddress \/ ConnectForWrite
    \/ WriteNode \/ PersistDone

----------------------------------------------------------------------------
(* The camera. *)

Readdressed ==
    /\ forced /\ forced' = FALSE /\ now' = AddressOf(Wanted)
    /\ UNCHANGED <<request, where, stored, tool, exit, adapter, node, linked, errors>>

PowerCycle ==
    /\ request # NoRequest /\ now' = IF stored.enabled THEN AddressOf(stored) ELSE net.own
    /\ forced' = FALSE /\ linked' = FALSE
    /\ UNCHANGED <<request, where, stored, tool, exit, adapter, node, errors>>

CameraMoves == Readdressed \/ PowerCycle

----------------------------------------------------------------------------
(* FindCamera: the adapter on which the camera is found, or why it is not. *)
FindCamera(seen) ==
    IF Cardinality(seen) # 1 THEN (IF seen = {} THEN "missing" ELSE "ambiguous")
    ELSE IF ConfigurationValid(Min(seen)) THEN "found" ELSE "foreign"

----------------------------------------------------------------------------
(* An exit code of 0 means that the camera has stored the address that was asked
   for and will come up with it; with every other code except that of a write
   that failed half-way, what the camera has stored is what it had before, so
   that its next power-up brings the previous address back (SetDeviceIp). *)
AddressIsHonest ==
    /\ exit = 0 => stored = Wanted
    /\ exit \notin {NoExit, 0, 6} \/ (exit = 6 /\ ~net.offers) => stored = net.stored

=============================================================================
