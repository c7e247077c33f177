--------------------------- MODULE CameraBringUp ----------------------------
(***************************************************************************)
(* A camera from its address to its capture: ebus_set_ip may give it one   *)
(* (module CameraAddress), the engine looks for it by its MAC address, and *)
(* the hooks of its profile prepare and watch it (module CameraProfiles).  *)
(* The hooks do not depend on the address: a camera that the tool has      *)
(* worked on is looked for and not used, a bound of this model.            *)
(***************************************************************************)
EXTENDS CameraProfiles, CameraAddress

VARIABLE located   \* no, or the outcome of FindCamera

bringUpVars == <<vars, addressVars, located>>

Seeing == {a \in DOMAIN net.adapters : net.adapters[a].sees}

(* The address matters to none of the profiles: one of them stands for all where
   the tool runs, and elsewhere the camera is where one adapter can reach it. *)
BringUpInit ==
    /\ Init /\ AddressInit /\ located = "no"
    /\ IF request = NoRequest THEN FindCamera(Seeing) = "found"
       ELSE cfg = CHOOSE c \in Configs : TRUE

(* The tool ends before the acquisition is started. *)
SetIp == (SetDeviceIp \/ CameraMoves) /\ UNCHANGED <<vars, located>>

(* Impl::Init looks for the camera and connects to it, which may fail; what
   FindCamera throws fails the driver.  A stop is noticed before and after. *)
Locate ==
    /\ pc = "begin" /\ located = "no" /\ tool \in {"absent", "ended"}
    /\ \/ stop /\ Interrupted /\ located' = "stopped"
       \/ /\ ~stop /\ located' \in {"error"} \cup {FindCamera(seen) : seen \in Sightings}
          /\ \/ Throw("device")
             \/ located' = "found" /\ (Interrupted \/ Goto("begin"))
    /\ UNCHANGED <<cfg, round, at, phase, attempt, faults, comm, reportVars, counterVars, deviceVars,
                   triggerVars, sinceRead, addressVars>>

InUse == located = "found" /\ request = NoRequest

Hooks == InUse /\ HookStep /\ UNCHANGED <<addressVars, located>>
Around ==
    /\ \/ RequestStop /\ request = NoRequest
       \/ InUse /\ (BecomeReady \/ ClockMoves \/ Trigger \/ CameraForgets)
    /\ UNCHANGED <<addressVars, located>>
Ended == located # "no" /\ (pc = "over" \/ ~InUse) /\ UNCHANGED bringUpVars

BringUpNext == SetIp \/ Locate \/ Hooks \/ Around \/ Ended

(* The engine's thread runs; nothing is asked of the camera or the operator. *)
BringUpSpec == BringUpInit /\ [][BringUpNext]_bringUpVars /\ WF_bringUpVars(Hooks)

(* After ebus_set_ip has succeeded the camera answers at the address that was
   asked for, also after a loss of power; and without the permission to leave
   the host's subnets the driver does not refuse it as foreign.  The tool does not
   look at the mask again: a camera that loses power before the write and has the
   address stored under another mask keeps that one until its next power-up
   (SetDeviceIp, FindCamera). *)
SetIpServesTheDriver ==
    exit = 0 =>
        /\ now.ip = Wanted.ip
        /\ /\ ~request.allow_foreign_subnet /\ Cardinality(Seeing) = 1
           /\ now.mask = Wanted.mask
           => FindCamera(Seeing) = "found"

(* The tool's exit code can be trusted by its operator and by the driver that
   runs next, and the hooks leave no raised time-outs behind. *)
BringUpInv == ProfileInv /\ AddressIsHonest /\ SetIpServesTheDriver
=============================================================================
