-------------------------- MODULE TriggerRigProofs --------------------------
(***************************************************************************)
(* Proofs about SensorSyncHub for any set of participants with any         *)
(* channels and rates, calling in any order; and about TriggerRig for      *)
(* every set of rigs: the hub's invariant holds under the calls that the   *)
(* cameras make, and what the files were checked for makes them the right  *)
(* ones.                                                                   *)
(***************************************************************************)
EXTENDS TriggerRig, FiniteSetTheorems, TLAPS

----------------------------------------------------------------------------
(* The hub. *)

USE ConfigAssumption

(* Register lets two participants share a pair only at one rate. *)
PairsAgree ==
    \A p, q \in participants : Group(channel[p]) = Group(channel[q]) => rate[p] = rate[q]

(* ... and only on the channels that the board has. *)
ChannelsValid == \A p \in participants : Group(channel[p]) \in Groups

HubInv ==
    /\ HubTypeOK
    /\ PairsAgree
    /\ ChannelsValid
    /\ StartedMeansAllArmed
    /\ BoardServesParticipants

(* A planned rate is the rate every participant of the pair asked for. *)
LEMMA PlannedServes ==
    ASSUME HubTypeOK, PairsAgree
    PROVE  /\ PlannedRates \in [Groups -> Nat]
           /\ \A p \in participants :
                 Group(channel[p]) \in Groups => PlannedRates[Group(channel[p])] = rate[p]
           /\ \A g \in Groups :
                 PlannedRates[g] # 0 => \E p \in participants : Group(channel[p]) = g
<1>1. ASSUME NEW g \in Groups, NEW p \in participants, Group(channel[p]) = g
      PROVE  /\ PlannedRates[g] = rate[CHOOSE q \in participants : Group(channel[q]) = g]
             /\ (CHOOSE q \in participants : Group(channel[q]) = g) \in participants
             /\ Group(channel[CHOOSE q \in participants : Group(channel[q]) = g]) = g
  BY <1>1 DEF PlannedRates
<1>2. ASSUME NEW g \in Groups, ~\E p \in participants : Group(channel[p]) = g
      PROVE  PlannedRates[g] = 0
  BY <1>2 DEF PlannedRates
<1>3. ASSUME NEW p \in participants, Group(channel[p]) \in Groups
      PROVE  PlannedRates[Group(channel[p])] = rate[p]
  BY <1>1, <1>3, Zenon DEF PairsAgree
<1>4. ASSUME NEW g \in Groups PROVE PlannedRates[g] \in Nat
  <2>1. CASE \E p \in participants : Group(channel[p]) = g
    BY <1>1, <2>1 DEF HubTypeOK
  <2>2. CASE ~\E p \in participants : Group(channel[p]) = g
    BY <1>2, <2>2
  <2>. QED BY <2>1, <2>2
<1>5. PlannedRates \in [Groups -> Nat]
  BY <1>4 DEF PlannedRates
<1>. QED BY <1>2, <1>3, <1>5

LEMMA InitHub == HubInit => HubInv
<1>. SUFFICES ASSUME HubInit PROVE HubInv
  OBVIOUS
<1>1. channel \in [Owners -> Int] /\ rate \in [Owners -> Nat] /\ board \in [Groups -> Nat]
  BY DEF HubInit, Off
<1>2. HubTypeOK
  BY <1>1 DEF HubInit, HubTypeOK
<1>. QED
  BY <1>2 DEF HubInit, HubInv, PairsAgree, ChannelsValid, StartedMeansAllArmed,
     BoardServesParticipants

LEMMA RegisterHub ==
    ASSUME HubInv, NEW o \in Owners, NEW ch \in Int, NEW hz \in Nat, Register(o, ch, hz)
    PROVE  HubInv'
<1>1. HubOk' => board' = Off
  BY DEF HubInv, HubTypeOK, BoardServesParticipants, HubOk, Register, Registrable
<1>2. HubTypeOK'
  <2>1. channel' \in [Owners -> Int] /\ rate' \in [Owners -> Nat]
    BY DEF HubInv, HubTypeOK, Register
  <2>. QED BY <2>1 DEF HubInv, HubTypeOK, Register
<1>3. /\ o \notin participants /\ participants' = participants \cup {o}
      /\ channel'[o] = ch /\ rate'[o] = hz
      /\ \A p \in participants :
            /\ channel'[p] = channel[p] /\ rate'[p] = rate[p]
            /\ Group(channel[p]) = Group(ch) => rate[p] = hz
  BY DEF HubInv, HubTypeOK, Register, Registrable
<1>4. PairsAgree'
  <2>. SUFFICES ASSUME NEW p \in participants', NEW q \in participants',
                       Group(channel'[p]) = Group(channel'[q])
                PROVE  rate'[p] = rate'[q]
    BY DEF PairsAgree
  <2>1. CASE p \in participants /\ q \in participants
    BY <1>3, <2>1, Zenon DEF HubInv, PairsAgree
  <2>2. CASE p \in participants /\ q = o
    BY <1>3, <2>2, Zenon
  <2>3. CASE p = o /\ q \in participants
    BY <1>3, <2>3, Zenon
  <2>. QED BY <1>3, <2>1, <2>2, <2>3
<1>5. Group(ch) \in Groups
  BY DEF Register, Registrable, ChannelCount, Group, Groups
<1>6. ChannelsValid'
  BY <1>3, <1>5 DEF HubInv, ChannelsValid
<1>7. StartedMeansAllArmed' /\ BoardServesParticipants'
  BY <1>1 DEF StartedMeansAllArmed, BoardServesParticipants, Register, Registrable
<1>. QED
  BY <1>2, <1>4, <1>6, <1>7 DEF HubInv

LEMMA ThrowHub ==
    ASSUME HubInv, NEW o \in Owners, NEW ch, NEW hz, RegisterThrows(o, ch, hz) \/ ArmThrows(o)
    PROVE  HubInv'
<1>1. CASE UNCHANGED hubVars
  BY <1>1 DEF HubInv, HubTypeOK, PairsAgree, ChannelsValid, StartedMeansAllArmed,
     BoardServesParticipants, HubOk, hubVars
<1>2. ASSUME ~UNCHANGED hubVars
      PROVE  /\ failed' = TRUE /\ armed' \in {armed, armed \cup {o}}
             /\ board' \in {board, PlannedRates}
             /\ UNCHANGED <<port, participants, channel, rate, opened, started, ended, backendOk>>
  BY <1>2 DEF RegisterThrows, ArmThrows
<1>3. CASE ~UNCHANGED hubVars
  BY <1>2, <1>3, PlannedServes DEF HubInv, HubTypeOK, PairsAgree, ChannelsValid, StartedMeansAllArmed,
     BoardServesParticipants, HubOk
<1>. QED BY <1>1, <1>3

LEMMA ArmHub == HubInv /\ (\E o \in Owners : Arm(o)) => HubInv'
<1>. SUFFICES ASSUME HubInv, NEW o \in Owners, Arm(o) PROVE HubInv'
  OBVIOUS
<1>1. HubTypeOK'
  BY PlannedServes DEF HubInv, HubTypeOK, Arm
<1>2. PairsAgree' /\ ChannelsValid'
  BY DEF HubInv, PairsAgree, ChannelsValid, Arm
<1>3. CASE started \/ ~AllArmed
  BY <1>1, <1>2, <1>3 DEF HubInv, StartedMeansAllArmed, BoardServesParticipants, HubOk, Arm
<1>4. CASE ~(started \/ ~AllArmed)
  <2>1. started' = TRUE /\ board' = PlannedRates /\ participants \subseteq armed'
        /\ ~ended' /\ participants' = participants /\ UNCHANGED <<channel, rate>>
    BY <1>4 DEF Arm, AllArmed, Armable, HubInv, HubTypeOK
  <2>2. BoardServesParticipants'
    BY <2>1, PlannedServes DEF BoardServesParticipants, ChannelsValid, HubInv
  <2>. QED BY <1>1, <1>2, <2>1, <2>2 DEF HubInv, StartedMeansAllArmed
<1>. QED BY <1>3, <1>4

LEMMA DisarmHub == HubInv /\ (\E o \in Owners : Disarm(o)) => HubInv'
<1>. SUFFICES ASSUME HubInv, NEW o \in Owners, Disarm(o) PROVE HubInv'
  OBVIOUS
<1>1. Off \in [Groups -> Nat]
  BY DEF Off
<1>2. HubTypeOK'
  BY <1>1 DEF HubInv, HubTypeOK, Disarm, hubVars
<1>3. UNCHANGED <<port, participants, channel, rate, armed, started>>
  BY DEF Disarm, hubVars
<1>5. PairsAgree' /\ ChannelsValid' /\ StartedMeansAllArmed'
  BY <1>3 DEF HubInv, PairsAgree, ChannelsValid, StartedMeansAllArmed
<1>4. BoardServesParticipants'
  BY DEF HubInv, HubTypeOK, BoardServesParticipants, HubOk, Disarm, hubVars
<1>. QED BY <1>2, <1>4, <1>5 DEF HubInv

LEMMA FailHub == HubInv /\ (BackendFails \/ UNCHANGED hubVars) => HubInv'
<1>. SUFFICES ASSUME HubInv, BackendFails \/ UNCHANGED hubVars PROVE HubInv'
  OBVIOUS
<1>1. /\ UNCHANGED <<port, participants, channel, rate, armed, opened, started, ended, failed, board>>
      /\ backendOk' \in {backendOk, FALSE}
  BY DEF BackendFails, hubVars
<1>2. BoardServesParticipants'
  BY <1>1 DEF HubInv, HubTypeOK, BoardServesParticipants, HubOk
<1>. QED
  BY <1>1, <1>2 DEF HubInv, HubTypeOK, PairsAgree, ChannelsValid, StartedMeansAllArmed

LEMMA HubInductive == HubSpec => []HubInv
<1>1. HubInv /\ [HubNext]_hubVars => HubInv'
  <2>. SUFFICES ASSUME HubInv, [HubNext]_hubVars PROVE HubInv'
    OBVIOUS
  <2>1. CASE \E o \in Owners, ch \in Channels, hz \in Rates : Register(o, ch, hz)
    BY <2>1, RegisterHub
  <2>2. CASE \E o \in Owners, ch \in Channels, hz \in Rates : RegisterThrows(o, ch, hz)
    <3>1. PICK o \in Owners, ch \in Channels, hz \in Rates : RegisterThrows(o, ch, hz)
      BY <2>2
    <3>. QED BY <3>1, ThrowHub
  <2>3. CASE \E o \in Owners : Arm(o) \/ ArmThrows(o) \/ Disarm(o)
    <3>1. PICK o \in Owners : Arm(o) \/ ArmThrows(o) \/ Disarm(o)
      BY <2>3
    <3>2. CASE Arm(o)
      BY <3>2, ArmHub
    <3>3. CASE ArmThrows(o)
      BY <3>3, ThrowHub
    <3>4. CASE Disarm(o)
      BY <3>4, DisarmHub
    <3>. QED BY <3>1, <3>2, <3>3, <3>4
  <2>4. CASE BackendFails \/ UNCHANGED hubVars
    BY <2>4, FailHub
  <2>. QED BY <2>1, <2>2, <2>3, <2>4, Zenon DEF HubNext
<1>. QED BY <1>1, InitHub, PTL DEF HubSpec

(* Whatever the participants do, pulses start only after the last of them has
   armed (SensorSyncHub::Arm, Register's refusal of late participants). *)
THEOREM StartCorrect == HubSpec => []StartedMeansAllArmed
BY HubInductive, PTL DEF HubInv

(* Whatever the participants do, running pulses have the rate that everyone on
   the pair asked for and do not outlive the session without a reported
   failure (PlannedRatesLocked, Register, Disarm). *)
THEOREM BoardCorrect == HubSpec => []BoardServesParticipants
BY HubInductive, PTL DEF HubInv

(* Whatever the participants do, an ended session stays ended and a failed hub
   stays failed (Arm's refusals, Disarm, FailLocked). *)
THEOREM NoRestartCorrect == HubSpec => NoRestart
<1>1. HubInv /\ [HubNext]_hubVars =>
         [/\ ended => ended' /\ started' = started /\ (board' = board \/ board' = Off)
          /\ ~HubOk => ~HubOk']_hubVars
  <2>. SUFFICES ASSUME HubInv, HubNext
                PROVE  /\ ended => ended' /\ started' = started /\ (board' = board \/ board' = Off)
                       /\ ~HubOk => ~HubOk'
    OBVIOUS
  <2>. USE DEF HubOk, hubVars, HubInv, HubTypeOK
  <2>1. ASSUME NEW o \in Owners, NEW ch \in Channels, NEW hz \in Rates,
               Register(o, ch, hz) \/ RegisterThrows(o, ch, hz)
        PROVE  /\ ended => ended' /\ started' = started /\ (board' = board \/ board' = Off)
               /\ ~HubOk => ~HubOk'
    BY <2>1 DEF Register, RegisterThrows
  <2>2. ASSUME NEW o \in Owners, Arm(o) \/ ArmThrows(o)
        PROVE  /\ ended => ended' /\ started' = started /\ (board' = board \/ board' = Off)
               /\ ~HubOk => ~HubOk'
    BY <2>2 DEF Arm, ArmThrows, Armable
  <2>3. ASSUME NEW o \in Owners, Disarm(o)
        PROVE  /\ ended => ended' /\ started' = started /\ (board' = board \/ board' = Off)
               /\ ~HubOk => ~HubOk'
    <3>1. ended => UNCHANGED hubVars
      BY <2>3 DEF Disarm
    <3>2. started' = started
      BY <2>3 DEF Disarm
    <3>3. CASE ended
      BY <3>1, <3>3
    <3>4. CASE ~ended
      <4>1. failed => failed'
        BY <2>3, <3>4 DEF Disarm
      <4>2. ~backendOk => ~backendOk'
        BY <2>3, <3>4 DEF Disarm
      <4>. QED BY <3>2, <3>4, <4>1, <4>2
    <3>. QED BY <3>3, <3>4
  <2>4. CASE BackendFails
    BY <2>4 DEF BackendFails
  <2>. QED BY <2>1, <2>2, <2>3, <2>4 DEF HubNext
<1>. QED BY <1>1, HubInductive, PTL DEF HubSpec, NoRestart

----------------------------------------------------------------------------
(* The rig. *)

(* What the coordinator's phase tells of the hub and of the options. *)
PhaseInv ==
    /\ port = PortGiven(Rigs[rig].main)
    /\ phase \in {"load", "refused"} => participants = {} /\ \A c \in Owners : pc[c] = "absent"
    /\ phase \in {"load", "init"} => ~started /\ ~ended
    /\ phase \in {"init", "run", "down"} =>
          ~LoadFails(Rigs[rig]) /\ options = Definitions(Rigs[rig])

(* Where a camera's thread runs. *)
Inside == {"start", "arm", "monitor", "disarm", "stopSource"}

(* A camera registers before it runs, with what its file says; it acquires
   from before it arms until it has left the session, which that ends. *)
CameraInv(c) ==
    /\ pc[c] # "absent" => c \in DOMAIN options
    /\ phase = "init" => pc[c] \in {"absent", "init", "ready"} /\ c \notin armed
    /\ phase = "init" /\ pc[c] = "ready" => Preparable(c)
    /\ pc[c] \in Inside => phase = "run"
    /\ c \in participants =>
          /\ pc[c] \notin {"absent", "init"} /\ Sync(c)
          /\ channel[c] = options[c].channel /\ rate[c] = options[c].pulse_hz
    /\ phase \in {"init", "run"} /\ pc[c] \notin {"absent", "init"} /\ Sync(c) => c \in participants
    /\ phase \in {"load", "refused", "init"} => ~acquired[c]
    /\ acquired[c] /\ Sync(c) => c \in participants
    /\ pc[c] \in {"arm", "monitor"} => cameraOn[c]
    /\ c \in participants /\ pc[c] \in {"stopSource", "returned", "finalChecks", "done"} => ended
    /\ c \in armed => c \in participants /\ (cameraOn[c] \/ ended)
    /\ pc[c] = "done" /\ acquired[c] /\ Sync(c) /\ ~faulty[c] => started /\ ended /\ HubOk

RigIInv ==
    /\ TypeOK /\ HubInv /\ PhaseInv
    /\ \A c \in Owners : CameraInv(c)

----------------------------------------------------------------------------
(* What the files' checks let through. *)

LEMMA OrElseOption ==
    ASSUME NEW s, IsOption(s)
    PROVE  /\ \A n \in Nat : OrElse(s, n) \in Nat
           /\ \A v \in s : OrElse(s, 0) = v
<1>1. CASE s = {}
  BY <1>1 DEF OrElse
<1>2. CASE s # {}
  <2>1. (CHOOSE v \in s : TRUE) \in s
    BY <1>2
  <2>. QED BY <1>2, <2>1 DEF OrElse, IsOption
<1>. QED BY <1>1, <1>2

(* The options of the FX10. *)
LEMMA Fx10Definition ==
    ASSUME NEW r, Fx10Owner \in DOMAIN Definitions(r)
    PROVE  r.main.enable_fx10 /\ Definitions(r)[Fx10Owner] = Fx10Options(r.fx10)
<1>1. \A i : GoxOwner(r.gox, i) # Fx10Owner
  BY DEF GoxOwner, Fx10Owner, SyncOwner
<1>. QED BY <1>1 DEF Definitions

(* The options of any other camera come from one entry of the Go-X file. *)
LEMMA GoxDefinition ==
    ASSUME NEW r, NEW c \in DOMAIN Definitions(r), c # Fx10Owner
    PROVE  /\ r.main.enable_gox
           /\ \E i \in Gox!EnabledCameras(r.gox) :
                 c = GoxOwner(r.gox, i) /\ Definitions(r)[c] = GoxOptions(r.gox, r.gox.cameras[i])
<1>. DEFINE goxs == IF r.main.enable_gox THEN Gox!EnabledCameras(r.gox) ELSE {}
            entry == CHOOSE i \in goxs : GoxOwner(r.gox, i) = c
<1>1. c \in {GoxOwner(r.gox, i) : i \in goxs}
  BY DEF Definitions
<1>2. entry \in goxs /\ GoxOwner(r.gox, entry) = c
  BY <1>1
<1>3. Definitions(r)[c] = GoxOptions(r.gox, r.gox.cameras[entry])
  BY DEF Definitions
<1>4. r.main.enable_gox /\ entry \in Gox!EnabledCameras(r.gox)
  BY <1>2
<1>. HIDE DEF entry
<1>. QED BY <1>2, <1>3, <1>4

LEMMA TriggerChannel ==
    ASSUME NEW t, Gox!TriggerOk(t) PROVE t.sensor_channel \in 2 .. 3
BY SMT DEF Gox!TriggerOk

(* What is known of an entry of a Go-X file that loads. *)
LEMMA GoxChecked ==
    ASSUME NEW r, NumbersOk(r), ~LoadFails(r), r.main.enable_gox,
           NEW i \in Gox!EnabledCameras(r.gox)
    PROVE  LET a == r.gox.cameras[i].acquisition
               o == GoxOptions(r.gox, r.gox.cameras[i])
           IN  /\ o.channel \in 2 .. 3 /\ o.pulse_hz \in Nat
               /\ o.pulse_hz = 0 \/ o.pulse_hz \in 1 .. 10
               /\ \A ms \in o.exposure_ms : ms \in Nat /\ ms * o.pulse_hz < 900
<1>. DEFINE cam == r.gox.cameras[i]
            a == cam.acquisition
            o == GoxOptions(r.gox, cam)
<1>1. /\ i \in DOMAIN r.gox.cameras /\ Gox!ParseCamera(cam)
      /\ Gox!CheckSensorTriggerRig(r.gox)
  BY DEF Gox!EnabledCameras, LoadFails, Gox!ParseRoot
<1>2. IsOption(a.exposure_ms) /\ IsOption(a.frame_rate_hz)
  BY <1>1 DEF NumbersOk
<1>3. o.channel = a.trigger.sensor_channel /\ a.trigger.sensor_channel \in 2 .. 3
  <2>1. Gox!TriggerOk(a.trigger)
    BY <1>1 DEF Gox!ParseCamera, Gox!ParseAcquisition
  <2>2. a.trigger.sensor_channel \in 2 .. 3
    BY <2>1, TriggerChannel, Zenon
  <2>. QED BY <2>2 DEF GoxOptions
<1>4. o.exposure_ms = a.exposure_ms
      /\ o.pulse_hz = (IF r.gox.sensor_trigger /\ Gox!External(cam)
                       THEN OrElse(a.frame_rate_hz, 0) ELSE 0)
  BY DEF GoxOptions
<1>5. CASE r.gox.sensor_trigger /\ Gox!External(cam)
  <2>1. /\ \E hz \in a.frame_rate_hz : hz # 0 /\ Gox!JaiRate(hz)
        /\ Gox!ExposureFits(a.exposure_ms, a.frame_rate_hz)
    BY <1>1, <1>5 DEF Gox!CheckSensorTriggerRig
  <2>2. PICK hz \in a.frame_rate_hz : hz # 0 /\ Gox!JaiRate(hz)
    BY <2>1
  <2>3. o.pulse_hz = hz
    BY <1>2, <1>4, <1>5, <2>2, OrElseOption
  <2>4. hz \in 1 .. 10
    BY <2>2 DEF Gox!JaiRate
  <2>5. \A ms \in a.exposure_ms : ms \in Nat /\ ms * hz < 900
    BY <1>2, <2>1 DEF Gox!ExposureFits, IsOption
  <2>. QED BY <1>3, <1>4, <2>3, <2>4, <2>5
<1>6. CASE ~(r.gox.sensor_trigger /\ Gox!External(cam))
  BY <1>2, <1>3, <1>4, <1>6 DEF IsOption
<1>. QED BY <1>5, <1>6

(* What is known of an FX10 file that loads. *)
LEMMA Fx10Checked ==
    ASSUME NEW r, NumbersOk(r), ~LoadFails(r), r.main.enable_fx10
    PROVE  LET o == Fx10Options(r.fx10)
           IN  /\ o.channel \in 0 .. 3 /\ o.pulse_hz \in Nat
               /\ o.sensor_sync => ValidRate(Group(o.channel), o.pulse_hz)
               /\ \A ms \in o.exposure_ms : ms \in Nat /\ ms * o.pulse_hz < 900
<1>. DEFINE acq == r.fx10.acquisition
            st == r.fx10.sensor_trigger
            o == Fx10Options(r.fx10)
<1>1. Fx10!ParseAcquisition(acq) /\ Fx10!ParseSensorTrigger(st, acq)
  BY DEF LoadFails, Fx10!ParseRoot
<1>2. acq.exposure_ms \in Nat /\ acq.frame_rate_hz \in Nat
  BY DEF NumbersOk
<1>3. /\ o.channel = st.trigger_channel /\ o.sensor_sync = st.enabled
      /\ o.exposure_ms = {acq.exposure_ms}
      /\ o.pulse_hz = (IF st.enabled /\ acq.trigger.mode = "external" THEN acq.frame_rate_hz ELSE 0)
  BY DEF Fx10Options
<1>4. acq.exposure_ms * acq.frame_rate_hz < 900
  BY <1>1 DEF Fx10!ParseAcquisition
<1>5. st.trigger_channel \in 0 .. 3
      /\ (st.enabled /\ acq.trigger.mode = "external" =>
             ValidRate(Group(st.trigger_channel), acq.frame_rate_hz))
  BY <1>1 DEF Fx10!ParseSensorTrigger, Fx10!GroupRate, ValidRate, Group
<1>6. ValidRate(Group(st.trigger_channel), 0)
  BY DEF ValidRate
<1>. QED BY <1>2, <1>3, <1>4, <1>5, <1>6

(* No camera of a rig that loads is pulsed faster than its exposure allows. *)
LEMMA DefinitionsExpose ==
    ASSUME NEW r, NumbersOk(r), ~LoadFails(r), NEW c \in DOMAIN Definitions(r)
    PROVE  LET o == Definitions(r)[c]
           IN  o.pulse_hz \in Nat /\ \A ms \in o.exposure_ms : ms * o.pulse_hz < 900
<1>1. CASE c = Fx10Owner
  <2>1. r.main.enable_fx10 /\ Definitions(r)[c] = Fx10Options(r.fx10)
    BY <1>1, Fx10Definition
  <2>2. /\ Fx10Options(r.fx10).pulse_hz \in Nat
        /\ \A ms \in Fx10Options(r.fx10).exposure_ms : ms * Fx10Options(r.fx10).pulse_hz < 900
    BY <2>1, Fx10Checked
  <2>. QED BY <2>1, <2>2
<1>2. CASE c # Fx10Owner
  <2>1. PICK i \in Gox!EnabledCameras(r.gox) :
               Definitions(r)[c] = GoxOptions(r.gox, r.gox.cameras[i])
    BY <1>2, GoxDefinition
  <2>2. r.main.enable_gox
    BY <1>2, GoxDefinition
  <2>. QED BY <2>1, <2>2, GoxChecked
<1>. QED BY <1>1, <1>2
----------------------------------------------------------------------------
(* What the hub's operations do to the rig's view of it. *)

LEMMA RegisterEffect ==
    ASSUME NEW o \in Owners, NEW ch, NEW hz, HubTypeOK, Register(o, ch, hz)
    PROVE  /\ participants' = participants \cup {o}
           /\ channel'[o] = ch /\ rate'[o] = hz
           /\ \A p \in Owners : p # o => channel'[p] = channel[p] /\ rate'[p] = rate[p]
           /\ UNCHANGED <<port, armed, started, ended, failed, backendOk>>
           /\ ~started /\ ~ended /\ ch \in Int
BY DEF Register, Registrable, HubTypeOK, ChannelCount

LEMMA RegisterThrowsEffect ==
    ASSUME NEW o, NEW ch, NEW hz, RegisterThrows(o, ch, hz)
    PROVE  /\ UNCHANGED <<port, participants, channel, rate, armed, started, ended>>
           /\ ended => UNCHANGED hubVars
BY DEF RegisterThrows, Registrable, hubVars

LEMMA ArmEffect ==
    ASSUME NEW o, Arm(o) \/ ArmThrows(o)
    PROVE  /\ UNCHANGED <<port, participants, channel, rate, ended>>
           /\ armed' = armed \/ (o \in participants /\ armed' = armed \cup {o})
           /\ ended => UNCHANGED hubVars
BY DEF Arm, ArmThrows, Armable, hubVars

LEMMA DisarmEffect ==
    ASSUME NEW o, HubTypeOK, Disarm(o)
    PROVE  /\ UNCHANGED <<port, participants, channel, rate, armed, started>>
           /\ ended' /\ (ended => UNCHANGED hubVars)
BY DEF Disarm, hubVars, HubTypeOK

(* A hub whose session has ended answers the same for ever. *)
LEMMA EndedKeeps ==
    ASSUME UNCHANGED hubVars
    PROVE  /\ UNCHANGED <<port, participants, channel, rate, armed, started, ended>>
           /\ HubOk' = HubOk
BY DEF hubVars, HubOk

LEMMA PreparableKeeps ==
    ASSUME NEW c, UNCHANGED <<rig, options>>
    PROVE  Preparable(c)' = Preparable(c) /\ Sync(c)' = Sync(c)
BY DEF Preparable, Sync

----------------------------------------------------------------------------
(* One lemma per action: it keeps the invariant. *)

LEMMA InitRig == Init => RigIInv
<1>. SUFFICES ASSUME Init PROVE RigIInv
  OBVIOUS
<1>1. HubInv
  BY InitHub DEF Init
<1>2. TypeOK
  <2>1. HubTypeOK
    BY <1>1 DEF HubInv
  <2>2. DOMAIN options = {}
    BY DEF Init
  <2>. QED BY <2>1, <2>2 DEF TypeOK, Init, CameraPCs
<1>3. PhaseInv
  BY DEF PhaseInv, Init, HubInit
<1>4. ASSUME NEW c \in Owners PROVE CameraInv(c)
  BY DEF CameraInv, Init, HubInit, Inside
<1>. QED BY <1>1, <1>2, <1>3, <1>4 DEF RigIInv
(* Steps of a camera that leave the hub alone. *)
QuietCamera(c) ==
    \/ RunCamera(c) \/ StartCamera(c) \/ MonitorHub(c) \/ WaitedTooLong(c) \/ CameraTrouble(c)
    \/ LeaveMonitor(c) \/ StopSource(c) \/ FinalChecks(c)

LEMMA QuietCameraRig ==
    ASSUME RigIInv, NEW c \in Owners, QuietCamera(c)
    PROVE  RigIInv'
<1>. USE DEF Goto, Fails, Stops
<1>1. UNCHANGED <<rig, options, phase, hubVars, term>>
  BY Zenon DEF QuietCamera, RunCamera, StartCamera, MonitorHub, WaitedTooLong, CameraTrouble,
     LeaveMonitor, StopSource, FinalChecks
<1>2. HubInv'
  BY <1>1, FailHub DEF RigIInv
<1>3. TypeOK'
  <2>1. /\ \E where \in CameraPCs : pc' \in {pc, [pc EXCEPT ![c] = where]}
        /\ acquired' \in {acquired, [acquired EXCEPT ![c] = TRUE]}
        /\ \E b \in BOOLEAN : cameraOn' \in {cameraOn, [cameraOn EXCEPT ![c] = b]}
        /\ faulty' \in {faulty, [faulty EXCEPT ![c] = TRUE]}
        /\ stop' \in {stop, [stop EXCEPT ![c] = TRUE]}
    BY DEF QuietCamera, RunCamera, StartCamera, MonitorHub, WaitedTooLong, CameraTrouble,
       LeaveMonitor, StopSource, FinalChecks, CameraPCs
  <2>. QED BY <1>1, <1>2, <2>1 DEF RigIInv, TypeOK, HubInv
<1>4. /\ UNCHANGED <<port, participants, channel, rate, armed, started, ended>>
      /\ HubOk' = HubOk
  BY <1>1, EndedKeeps
<1>5. PhaseInv'
  <2>1. phase \in {"load", "refused"} => pc[c] = "absent"
    BY DEF RigIInv, PhaseInv
  <2>2. phase \notin {"load", "refused"}
    BY <2>1 DEF QuietCamera, RunCamera, StartCamera, MonitorHub, WaitedTooLong, CameraTrouble,
       LeaveMonitor, StopSource, FinalChecks
  <2>. QED BY <1>1, <1>4, <2>2 DEF RigIInv, PhaseInv
<1>6. ASSUME NEW d \in Owners PROVE CameraInv(d)'
  <2>0. CameraInv(c) /\ CameraInv(d) /\ TypeOK /\ Preparable(d)' = Preparable(d) /\ Sync(d)' = Sync(d)
    BY <1>1, PreparableKeeps DEF RigIInv
  <2>. USE <1>1, <1>4, <2>0 DEF CameraInv, TypeOK, Inside
  <2>1. CASE d # c
    <3>1. /\ pc'[d] = pc[d] /\ acquired'[d] = acquired[d] /\ cameraOn'[d] = cameraOn[d]
          /\ faulty'[d] = faulty[d]
      BY <2>1 DEF QuietCamera, RunCamera, StartCamera, MonitorHub, WaitedTooLong, CameraTrouble,
         LeaveMonitor, StopSource, FinalChecks
    <3>. QED BY <3>1
  <2>2. CASE d = c
    <3>1. CASE RunCamera(c)
      BY <2>2, <3>1 DEF RunCamera
    <3>2. CASE StartCamera(c)
      BY <2>2, <3>2 DEF StartCamera
    <3>3. CASE MonitorHub(c) \/ WaitedTooLong(c) \/ CameraTrouble(c)
      BY <2>2, <3>3 DEF MonitorHub, WaitedTooLong, CameraTrouble
    <3>4. CASE LeaveMonitor(c)
      BY <2>2, <3>4 DEF LeaveMonitor
    <3>5. CASE StopSource(c)
      BY <2>2, <3>5 DEF StopSource
    <3>6. CASE FinalChecks(c)
      BY <2>2, <3>6 DEF FinalChecks, SyncFault
    <3>. QED BY <3>1, <3>2, <3>3, <3>4, <3>5, <3>6 DEF QuietCamera
  <2>. QED BY <2>1, <2>2
<1>. QED BY <1>2, <1>3, <1>5, <1>6 DEF RigIInv
LEMMA LoadRig == RigIInv /\ Load => RigIInv'
<1>. SUFFICES ASSUME RigIInv, Load PROVE RigIInv'
  OBVIOUS
<1>1. UNCHANGED <<rig, hubVars, acquired, cameraOn, faulty, stop, term>> /\ phase = "load"
  BY DEF Load
<1>2. HubInv'
  BY <1>1, FailHub DEF RigIInv
<1>3. /\ UNCHANGED <<port, participants, channel, rate, armed, started, ended>>
      /\ HubOk' = HubOk
  BY <1>1, EndedKeeps
<1>4. rig \in DOMAIN Rigs
  BY DEF RigIInv, TypeOK
<1>5. CASE LoadFails(Rigs[rig])
  <2>1. phase' = "refused" /\ UNCHANGED <<options, pc>>
    BY <1>5 DEF Load
  <2>2. TypeOK' /\ PhaseInv'
    BY <1>1, <1>2, <1>3, <2>1 DEF RigIInv, TypeOK, HubInv, PhaseInv
  <2>3. ASSUME NEW d \in Owners PROVE CameraInv(d)'
    BY <1>1, <1>3, <2>1, PreparableKeeps DEF RigIInv, CameraInv, PhaseInv, Inside
  <2>. QED BY <1>2, <2>2, <2>3 DEF RigIInv
<1>6. CASE ~LoadFails(Rigs[rig])
  <2>1. /\ phase' = "init" /\ options' = Definitions(Rigs[rig])
        /\ pc' = [d \in Owners |-> IF d \in DOMAIN options' THEN "init" ELSE "absent"]
    BY <1>6 DEF Load
  <2>2. DOMAIN options' \subseteq Owners
    BY <1>4, <2>1, RigsAssumption
  <2>3. TypeOK'
    BY <1>1, <1>2, <2>1, <2>2 DEF RigIInv, TypeOK, HubInv, CameraPCs
  <2>4. PhaseInv'
    BY <1>1, <1>3, <1>6, <2>1 DEF RigIInv, PhaseInv
  <2>5. ASSUME NEW d \in Owners PROVE CameraInv(d)'
    <3>1. /\ participants = {} /\ d \notin armed /\ ~acquired[d]
          /\ pc'[d] = (IF d \in DOMAIN options' THEN "init" ELSE "absent")
      BY <1>1, <2>1 DEF RigIInv, PhaseInv, CameraInv
    <3>. QED BY <1>1, <1>3, <2>1, <3>1 DEF CameraInv, Inside
  <2>. QED BY <1>2, <2>3, <2>4, <2>5 DEF RigIInv
<1>. QED BY <1>5, <1>6

(* The other steps of the coordinator, and the operator's. *)
LEMMA CoordinatorRig ==
    ASSUME RigIInv, BeginRun \/ StopAll \/ JoinAll \/ OperatorStop \/ UNCHANGED vars
    PROVE  RigIInv'
<1>1. UNCHANGED <<rig, options, hubVars, pc, acquired, cameraOn, faulty, stop>>
  BY DEF BeginRun, StopAll, JoinAll, OperatorStop, vars, camVars
<1>2. HubInv'
  BY <1>1, FailHub DEF RigIInv
<1>3. /\ UNCHANGED <<port, participants, channel, rate, armed, started, ended>>
      /\ HubOk' = HubOk
  BY <1>1, EndedKeeps
<1>4. /\ phase' \in {phase, "run", "down"} /\ term' \in BOOLEAN
      /\ phase' # phase => phase \in {"init", "run"} /\ \A c \in Owners : pc[c] \notin Inside
      /\ phase = "init" /\ phase' # phase => \A c \in Owners : pc[c] # "init"
      /\ phase' = "run" => phase \in {"init", "run"}
  BY DEF RigIInv, TypeOK, BeginRun, StopAll, JoinAll, OperatorStop, vars, camVars, Inside
<1>5. TypeOK' /\ PhaseInv'
  BY <1>1, <1>2, <1>3, <1>4 DEF RigIInv, TypeOK, HubInv, PhaseInv
<1>6. ASSUME NEW d \in Owners PROVE CameraInv(d)'
  <2>1. CameraInv(d) /\ Preparable(d)' = Preparable(d) /\ Sync(d)' = Sync(d)
    BY <1>1, PreparableKeeps DEF RigIInv
  <2>. QED BY <1>1, <1>3, <1>4, <2>1 DEF CameraInv
<1>. QED BY <1>2, <1>5, <1>6 DEF RigIInv

(* A rate that a camera of the rig registers is a number. *)
LEMMA RateIsNumber ==
    ASSUME RigIInv, phase \in {"init", "run", "down"}, NEW c \in DOMAIN options
    PROVE  options[c].pulse_hz \in Nat
BY DefinitionsExpose, RigsAssumption DEF RigIInv, PhaseInv, TypeOK

LEMMA InitCameraRig ==
    ASSUME RigIInv, NEW c \in Owners, InitCamera(c)
    PROVE  RigIInv'
<1>. USE DEF Goto
<1>1. /\ UNCHANGED <<rig, options, phase, acquired, cameraOn, faulty, stop, term>>
      /\ phase = "init" /\ pc[c] = "init" /\ pc' = [pc EXCEPT ![c] = "ready"] /\ Preparable(c)
  BY DEF InitCamera
<1>2. CASE Sync(c)
  <2>1. Register(c, options[c].channel, options[c].pulse_hz)
    BY <1>2 DEF InitCamera, RegisterCamera
  <2>2. HubTypeOK /\ options[c].pulse_hz \in Nat
    BY <1>1, RateIsNumber DEF RigIInv, HubInv, CameraInv
  <2>3. /\ participants' = participants \cup {c}
        /\ channel'[c] = options[c].channel /\ rate'[c] = options[c].pulse_hz
        /\ \A p \in Owners : p # c => channel'[p] = channel[p] /\ rate'[p] = rate[p]
        /\ UNCHANGED <<port, armed, started, ended, failed, backendOk>>
        /\ ~started /\ ~ended /\ options[c].channel \in Int
    BY <2>1, <2>2, RegisterEffect
  <2>4. HubInv'
    BY <2>1, <2>2, <2>3, RegisterHub DEF RigIInv
  <2>5. TypeOK' /\ PhaseInv'
    BY <1>1, <2>3, <2>4 DEF RigIInv, TypeOK, HubInv, PhaseInv, CameraPCs
  <2>6. HubOk' = HubOk
    BY <2>3 DEF HubOk
  <2>7. ASSUME NEW d \in Owners PROVE CameraInv(d)'
    <3>1. CameraInv(c) /\ CameraInv(d) /\ TypeOK
          /\ Preparable(d)' = Preparable(d) /\ Sync(d)' = Sync(d)
      BY <1>1, PreparableKeeps DEF RigIInv
    <3>2. CASE d # c
      BY <1>1, <2>3, <2>6, <3>1, <3>2 DEF CameraInv, TypeOK, Inside
    <3>3. CASE d = c
      BY <1>1, <1>2, <2>3, <2>6, <3>1, <3>3 DEF CameraInv, TypeOK, Inside
    <3>. QED BY <3>2, <3>3
  <2>. QED BY <2>4, <2>5, <2>7 DEF RigIInv
<1>3. CASE ~Sync(c)
  <2>1. UNCHANGED hubVars
    BY <1>3 DEF InitCamera
  <2>2. HubInv'
    BY <2>1, FailHub DEF RigIInv
  <2>3. /\ UNCHANGED <<port, participants, channel, rate, armed, started, ended>>
        /\ HubOk' = HubOk
    BY <2>1, EndedKeeps
  <2>4. TypeOK' /\ PhaseInv'
    BY <1>1, <2>2, <2>3 DEF RigIInv, TypeOK, HubInv, PhaseInv, CameraPCs
  <2>5. ASSUME NEW d \in Owners PROVE CameraInv(d)'
    <3>1. CameraInv(c) /\ CameraInv(d) /\ TypeOK
          /\ Preparable(d)' = Preparable(d) /\ Sync(d)' = Sync(d)
      BY <1>1, PreparableKeeps DEF RigIInv
    <3>. QED BY <1>1, <1>3, <2>3, <3>1 DEF CameraInv, TypeOK, Inside
  <2>. QED BY <2>2, <2>4, <2>5 DEF RigIInv
<1>. QED BY <1>2, <1>3
LEMMA InitFailsRig ==
    ASSUME RigIInv, NEW c \in Owners, InitFails(c)
    PROVE  RigIInv'
<1>. USE DEF Goto, Fails, Stops
<1>1. /\ UNCHANGED <<rig, options, acquired, cameraOn>> /\ phase = "init" /\ phase' = "down"
      /\ pc[c] = "init" /\ pc' = [pc EXCEPT ![c] = "ready"] /\ term' = TRUE
      /\ faulty' \in {faulty, [faulty EXCEPT ![c] = TRUE]} /\ stop' = [stop EXCEPT ![c] = TRUE]
  BY DEF InitFails
<1>2. \/ UNCHANGED hubVars
      \/ RegisterThrows(c, options[c].channel, options[c].pulse_hz)
      \/ Sync(c) /\ Register(c, options[c].channel, options[c].pulse_hz)
  BY DEF InitFails, RegisterCamera
<1>3. HubTypeOK /\ options[c].pulse_hz \in Nat /\ ~started /\ ~ended
  BY <1>1, RateIsNumber DEF RigIInv, HubInv, CameraInv, PhaseInv
<1>4. CASE UNCHANGED hubVars \/ RegisterThrows(c, options[c].channel, options[c].pulse_hz)
  <2>1. HubInv'
    BY <1>4, FailHub, ThrowHub DEF RigIInv
  <2>2. UNCHANGED <<port, participants, channel, rate, armed, started, ended>>
    BY <1>4, EndedKeeps, RegisterThrowsEffect
  <2>3. TypeOK' /\ PhaseInv'
    BY <1>1, <2>1, <2>2 DEF RigIInv, TypeOK, HubInv, PhaseInv, CameraPCs
  <2>4. ASSUME NEW d \in Owners PROVE CameraInv(d)'
    <3>1. CameraInv(c) /\ CameraInv(d) /\ TypeOK /\ Sync(d)' = Sync(d)
      BY <1>1, PreparableKeeps DEF RigIInv
    <3>. QED BY <1>1, <1>3, <2>2, <3>1 DEF CameraInv, TypeOK, Inside
  <2>. QED BY <2>1, <2>3, <2>4 DEF RigIInv
<1>5. CASE Sync(c) /\ Register(c, options[c].channel, options[c].pulse_hz)
  <2>1. /\ participants' = participants \cup {c}
        /\ channel'[c] = options[c].channel /\ rate'[c] = options[c].pulse_hz
        /\ \A p \in Owners : p # c => channel'[p] = channel[p] /\ rate'[p] = rate[p]
        /\ UNCHANGED <<port, armed, started, ended, failed, backendOk>>
        /\ ~started /\ ~ended /\ options[c].channel \in Int
    BY <1>3, <1>5, RegisterEffect
  <2>2. HubInv'
    BY <1>3, <1>5, <2>1, RegisterHub DEF RigIInv
  <2>3. TypeOK' /\ PhaseInv'
    BY <1>1, <2>1, <2>2 DEF RigIInv, TypeOK, HubInv, PhaseInv, CameraPCs
  <2>4. ASSUME NEW d \in Owners PROVE CameraInv(d)'
    <3>1. CameraInv(c) /\ CameraInv(d) /\ TypeOK /\ Sync(d)' = Sync(d)
      BY <1>1, PreparableKeeps DEF RigIInv
    <3>2. CASE d # c
      BY <1>1, <2>1, <3>1, <3>2 DEF CameraInv, TypeOK, Inside
    <3>3. CASE d = c
      BY <1>1, <1>5, <2>1, <3>1, <3>3 DEF CameraInv, TypeOK, Inside
    <3>. QED BY <3>2, <3>3
  <2>. QED BY <2>2, <2>3, <2>4 DEF RigIInv
<1>. QED BY <1>2, <1>4, <1>5

LEMMA ArmCameraRig ==
    ASSUME RigIInv, NEW c \in Owners, ArmCamera(c)
    PROVE  RigIInv'
<1>. USE DEF Goto, Fails, Stops
<1>1. /\ UNCHANGED <<rig, options, phase, acquired, cameraOn, term>> /\ pc[c] = "arm"
      /\ \E where \in {"monitor", "disarm"} : pc' = [pc EXCEPT ![c] = where]
      /\ faulty' \in {faulty, [faulty EXCEPT ![c] = TRUE]}
      /\ stop' \in {stop, [stop EXCEPT ![c] = TRUE]}
  BY DEF ArmCamera
<1>2. UNCHANGED hubVars \/ Arm(c) \/ ArmThrows(c)
  BY DEF ArmCamera
<1>3. HubInv'
  BY <1>2, FailHub, ThrowHub, ArmHub DEF RigIInv
<1>4. /\ UNCHANGED <<port, participants, channel, rate, ended>>
      /\ armed' = armed \/ (c \in participants /\ armed' = armed \cup {c})
      /\ ended => UNCHANGED hubVars
  BY <1>2, EndedKeeps, ArmEffect
<1>5. ended => started' = started /\ HubOk' = HubOk
  BY <1>4, EndedKeeps
<1>6. phase = "run"
  BY <1>1 DEF RigIInv, CameraInv, Inside
<1>7. TypeOK' /\ PhaseInv'
  BY <1>1, <1>3, <1>4, <1>6 DEF RigIInv, TypeOK, HubInv, PhaseInv, CameraPCs
<1>8. ASSUME NEW d \in Owners PROVE CameraInv(d)'
  <2>1. CameraInv(c) /\ CameraInv(d) /\ TypeOK
        /\ Preparable(d)' = Preparable(d) /\ Sync(d)' = Sync(d)
    BY <1>1, PreparableKeeps DEF RigIInv
  <2>2. CASE d # c
    BY <1>1, <1>4, <1>5, <1>6, <2>1, <2>2 DEF CameraInv, TypeOK, Inside
  <2>3. CASE d = c
    BY <1>1, <1>4, <1>5, <1>6, <2>1, <2>3 DEF CameraInv, TypeOK, Inside
  <2>. QED BY <2>2, <2>3
<1>. QED BY <1>3, <1>7, <1>8 DEF RigIInv

(* DisarmCamera and ShutdownCamera: a participant leaves by ending the session. *)
LEMMA LeaveRig ==
    ASSUME RigIInv, NEW c \in Owners, DisarmCamera(c) \/ ShutdownCamera(c)
    PROVE  RigIInv'
<1>. USE DEF Goto, Stops
<1>1. /\ UNCHANGED <<rig, options, phase, acquired, cameraOn, faulty, term>>
      /\ stop' = [stop EXCEPT ![c] = TRUE]
      /\ phase \in {"run", "down"}
      /\ \/ pc[c] = "disarm" /\ pc' = [pc EXCEPT ![c] = "stopSource"] /\ phase = "run"
         \/ /\ pc[c] \in {"ready", "returned"} /\ pc' = [pc EXCEPT ![c] = "finalChecks"]
            /\ phase = "down"
  BY DEF DisarmCamera, ShutdownCamera, RigIInv, CameraInv, Inside
<1>2. /\ UNCHANGED hubVars \/ Disarm(c)
      /\ c \in participants /\ pc[c] # "returned" => Disarm(c)
  BY DEF DisarmCamera, ShutdownCamera
<1>3. HubInv' /\ HubTypeOK
  BY <1>2, FailHub, DisarmHub DEF RigIInv, HubInv
<1>4. /\ UNCHANGED <<port, participants, channel, rate, armed, started>>
      /\ ended => UNCHANGED hubVars
      /\ c \in participants => ended'
      /\ ended => ended'
  BY <1>2, <1>3, EndedKeeps, DisarmEffect DEF RigIInv, CameraInv
<1>5. ended => HubOk' = HubOk
  BY <1>4, EndedKeeps
<1>6. TypeOK' /\ PhaseInv'
  BY <1>1, <1>3, <1>4 DEF RigIInv, TypeOK, HubInv, PhaseInv, CameraPCs
<1>7. ASSUME NEW d \in Owners PROVE CameraInv(d)'
  <2>1. CameraInv(c) /\ CameraInv(d) /\ TypeOK
        /\ Preparable(d)' = Preparable(d) /\ Sync(d)' = Sync(d)
    BY <1>1, PreparableKeeps DEF RigIInv
  <2>2. CASE d # c
    BY <1>1, <1>4, <1>5, <2>1, <2>2 DEF CameraInv, TypeOK, Inside
  <2>3. CASE d = c
    BY <1>1, <1>4, <1>5, <2>1, <2>3 DEF CameraInv, TypeOK, Inside
  <2>. QED BY <2>2, <2>3
<1>. QED BY <1>3, <1>6, <1>7 DEF RigIInv

LEMMA BackendFailsRig ==
    ASSUME RigIInv, BackendFails, UNCHANGED camVars
    PROVE  RigIInv'
<1>1. /\ UNCHANGED <<port, participants, channel, rate, armed, started, ended>> /\ ~ended
      /\ UNCHANGED <<rig, options, phase, pc, acquired, cameraOn, faulty, stop, term>>
  BY DEF BackendFails, camVars
<1>2. HubInv'
  BY FailHub DEF RigIInv
<1>3. TypeOK' /\ PhaseInv'
  BY <1>1, <1>2 DEF RigIInv, TypeOK, HubInv, PhaseInv
<1>4. ASSUME NEW d \in Owners PROVE CameraInv(d)'
  BY <1>1, PreparableKeeps DEF RigIInv, CameraInv
<1>. QED BY <1>2, <1>3, <1>4 DEF RigIInv

LEMMA RigInductive == Spec => []RigIInv
<1>1. RigIInv /\ [Next]_vars => RigIInv'
  <2>. SUFFICES ASSUME RigIInv, [Next]_vars PROVE RigIInv'
    OBVIOUS
  <2>1. ASSUME NEW c \in Owners,
               CameraStep(c) \/ StartCamera(c) \/ WaitedTooLong(c) \/ CameraTrouble(c)
        PROVE  RigIInv'
    <3>1. CASE QuietCamera(c)
      BY <3>1, QuietCameraRig
    <3>2. CASE InitCamera(c)
      BY <3>2, InitCameraRig
    <3>3. CASE InitFails(c)
      BY <3>3, InitFailsRig
    <3>4. CASE ArmCamera(c)
      BY <3>4, ArmCameraRig
    <3>5. CASE DisarmCamera(c) \/ ShutdownCamera(c)
      BY <3>5, LeaveRig
    <3>. QED BY <2>1, <3>1, <3>2, <3>3, <3>4, <3>5, Zenon DEF CameraStep, QuietCamera
  <2>2. CASE CoordinatorStep \/ OperatorStop \/ Terminated \/ UNCHANGED vars
    BY <2>2, LoadRig, CoordinatorRig, Zenon DEF CoordinatorStep, Terminated
  <2>3. CASE BackendFails /\ UNCHANGED camVars
    BY <2>3, BackendFailsRig
  <2>. QED BY <2>1, <2>2, <2>3, Zenon DEF Next
<1>. QED BY <1>1, InitRig, PTL DEF Spec

----------------------------------------------------------------------------
(* What follows from it. *)

(* No trigger is sent that a camera cannot answer, whatever rigs there are
   (EbusCameraDriver::Run and StopWorkers, SensorSyncHub::Arm, the exposure
   checks of both app_config.cpp). *)
THEOREM PulsesCorrect == Spec => []PulsesFindEveryCamera
<1>1. RigIInv => PulsesFindEveryCamera
  <2>. SUFFICES ASSUME RigIInv, board # Off, HubOk, NEW c \in participants
                PROVE  /\ cameraOn[c]
                       /\ \A ms \in options[c].exposure_ms : ms * board[Group(channel[c])] < 900
    BY DEF PulsesFindEveryCamera
  <2>1. /\ started /\ ~ended /\ participants \subseteq armed
        /\ board[Group(channel[c])] = rate[c] /\ c \in Owners
    BY DEF RigIInv, HubInv, HubTypeOK, BoardServesParticipants, StartedMeansAllArmed
  <2>2. /\ cameraOn[c] /\ c \in DOMAIN options /\ rate[c] = options[c].pulse_hz
        /\ phase \notin {"load", "refused"}
    BY <2>1 DEF RigIInv, CameraInv, PhaseInv
  <2>3. /\ ~LoadFails(Rigs[rig]) /\ options = Definitions(Rigs[rig]) /\ rig \in DOMAIN Rigs
    BY <2>2 DEF RigIInv, PhaseInv, TypeOK
  <2>4. \A ms \in options[c].exposure_ms : ms * options[c].pulse_hz < 900
    BY <2>2, <2>3, DefinitionsExpose, RigsAssumption
  <2>. QED BY <2>1, <2>2, <2>4
<1>. QED BY <1>1, RigInductive, PTL

(* When the rig is down no session is left open. *)
LEMMA ClosedImplied == RigIInv => SessionClosed
<1>. SUFFICES ASSUME RigIInv, AllDone, NEW c \in participants
              PROVE  ended /\ (HubOk => board = Off)
  BY DEF SessionClosed
<1>1. c \in Owners /\ pc[c] \notin {"absent", "init"} /\ phase # "refused"
  BY DEF RigIInv, HubInv, HubTypeOK, CameraInv, PhaseInv
<1>2. pc[c] = "done"
  BY <1>1 DEF AllDone
<1>3. ended
  BY <1>1, <1>2 DEF RigIInv, CameraInv
<1>. QED BY <1>3 DEF RigIInv, HubInv, BoardServesParticipants

LEMMA CleanImplied == RigIInv => CleanCameraHadSession
BY DEF RigIInv, CameraInv, CleanCameraHadSession

(* Min and Max of two numbers. *)
LEMMA MinOfTwo ==
    ASSUME NEW m \in Int, NEW n \in Int
    PROVE  Min({m, n}) = (IF m <= n THEN m ELSE n) /\ Max({m, n}) = (IF m <= n THEN n ELSE m)
BY DEF Min, Max

(* What Allocate lets through fits. *)
LEMMA AllocateFits ==
    ASSUME NEW o, NEW device, AllocateOk(o, device),
           {o.max_buffer_memory_mb, o.sdk_buffers, o.queue_frames, o.expected_rate_hz,
            o.stall_budget_s, device.payload_kb, device.sdk_max} \subseteq Nat
    PROVE  LET pool == Pool(o, device)
           IN  /\ pool.sdk >= 4 /\ (device.sdk_max > 0 => pool.sdk <= device.sdk_max)
               /\ pool.queue >= 2
               /\ (pool.sdk + pool.queue + 2) * device.payload_kb <= o.max_buffer_memory_mb * 1024
<1>. DEFINE slots == Slots(o, device)
            most == Max({4, o.sdk_buffers})
            capped == IF device.sdk_max > 0 THEN Min({most, device.sdk_max}) ELSE most
            sdk == Min({capped, slots - 4})
            wanted == IF o.queue_frames > 0 THEN o.queue_frames
                      ELSE Max({2, o.expected_rate_hz * o.stall_budget_s})
            queue == Min({wanted, slots - sdk - 2})
            kb == device.payload_kb
            mem == o.max_buffer_memory_mb * 1024
<1>1. Pool(o, device) = [sdk |-> sdk, wanted |-> wanted, queue |-> queue]
  BY DEF Pool
<1>2. kb \in Nat /\ kb > 0 /\ mem \in Nat /\ slots = mem \div kb
  BY DEF AllocateOk, Slots
<1>3. slots \in Nat /\ slots * kb <= mem
  <2>. HIDE DEF kb, mem, slots
  <2>. QED BY <1>2
<1>4. most \in Nat
  <2>1. 4 \in Int /\ o.sdk_buffers \in Int
    OBVIOUS
  <2>2. most = (IF 4 <= o.sdk_buffers THEN o.sdk_buffers ELSE 4)
    BY <2>1, MinOfTwo, Zenon
  <2>. QED BY <2>2
<1>5. capped \in Nat /\ (device.sdk_max > 0 => capped <= device.sdk_max)
  <2>. HIDE DEF most
  <2>1. Min({most, device.sdk_max}) = (IF most <= device.sdk_max THEN most ELSE device.sdk_max)
    BY <1>4, MinOfTwo
  <2>. QED BY <1>4, <2>1
<1>6. /\ sdk \in Int /\ sdk <= capped /\ sdk <= slots - 4 /\ sdk >= 4
  <2>1. sdk >= 4
    BY <1>1 DEF AllocateOk
  <2>. HIDE DEF capped, slots
  <2>2. Min({capped, slots - 4}) = (IF capped <= slots - 4 THEN capped ELSE slots - 4)
    BY <1>3, <1>5, MinOfTwo
  <2>. QED BY <1>3, <1>5, <2>1, <2>2
<1>7. wanted \in Nat /\ wanted >= 2
  <2>1. wanted >= 2
    BY <1>1 DEF AllocateOk
  <2>2. o.expected_rate_hz * o.stall_budget_s \in Int /\ 2 \in Int
    OBVIOUS
  <2>3. Max({2, o.expected_rate_hz * o.stall_budget_s})
           = (IF 2 <= o.expected_rate_hz * o.stall_budget_s
              THEN o.expected_rate_hz * o.stall_budget_s ELSE 2)
    BY <2>2, MinOfTwo, Zenon
  <2>. QED BY <2>1, <2>2, <2>3
<1>8. queue \in Int /\ queue >= 2 /\ queue <= slots - sdk - 2
  <2>. HIDE DEF wanted, slots, sdk
  <2>1. Min({wanted, slots - sdk - 2})
           = (IF wanted <= slots - sdk - 2 THEN wanted ELSE slots - sdk - 2)
    BY <1>3, <1>6, <1>7, MinOfTwo
  <2>. QED BY <1>3, <1>6, <1>7, <2>1
<1>9. (sdk + queue + 2) * kb <= mem
  <2>. HIDE DEF sdk, queue, slots, kb, mem
  <2>1. sdk + queue + 2 <= slots /\ sdk + queue + 2 \in Nat
    BY <1>3, <1>6, <1>8
  <2>2. \A m, n \in Nat : m <= n => m * kb <= n * kb
    BY <1>2
  <2>3. (sdk + queue + 2) * kb <= slots * kb
    BY <1>3, <2>1, <2>2
  <2>4. (sdk + queue + 2) * kb \in Nat /\ slots * kb \in Nat
    BY <1>2, <1>3, <2>1
  <2>. QED BY <1>2, <1>3, <2>3, <2>4
<1>10. sdk <= device.sdk_max \/ ~(device.sdk_max > 0)
  <2>. HIDE DEF sdk, capped
  <2>. QED BY <1>5, <1>6
<1>. HIDE DEF sdk, queue, wanted
<1>. QED BY <1>1, <1>6, <1>8, <1>9, <1>10

LEMMA ClampNumber ==
    ASSUME NEW n \in Nat, NEW lo \in Nat, NEW hi \in Nat
    PROVE  Clamp(n, lo, hi) \in Nat
<1>. DEFINE least == Min({n, hi})
<1>1. Clamp(n, lo, hi) = Max({lo, least})
  BY DEF Clamp
<1>2. n \in Int /\ hi \in Int /\ lo \in Int
  OBVIOUS
<1>3. least = (IF n <= hi THEN n ELSE hi)
  BY <1>2, MinOfTwo, Zenon
<1>. HIDE DEF least
<1>4. least \in Nat /\ least \in Int
  BY <1>3
<1>5. Max({lo, least}) = (IF lo <= least THEN least ELSE lo)
  BY <1>2, <1>4, MinOfTwo, Zenon
<1>. QED BY <1>1, <1>4, <1>5

(* The numbers of a camera's options are numbers. *)
LEMMA DefinitionNumbers ==
    ASSUME NEW r, NumbersOk(r), NEW c \in DOMAIN Definitions(r)
    PROVE  LET o == Definitions(r)[c]
           IN  {o.max_buffer_memory_mb, o.sdk_buffers, o.queue_frames, o.expected_rate_hz,
                o.stall_budget_s, r.devices[c].payload_kb, r.devices[c].sdk_max} \subseteq Nat
<1>1. {r.devices[c].payload_kb, r.devices[c].sdk_max} \subseteq Nat
  BY DEF NumbersOk
<1>2. CASE c = Fx10Owner
  <2>1. Definitions(r)[c] = Fx10Options(r.fx10)
    BY <1>2, Fx10Definition
  <2>2. {r.fx10.network.buffer_count, r.fx10.network.max_buffer_memory_mb,
         r.fx10.network.stall_budget_s, r.fx10.acquisition.frame_rate_hz} \subseteq Nat
    BY DEF NumbersOk
  <2>. DEFINE o == Fx10Options(r.fx10)
  <2>3. /\ o.sdk_buffers = (IF r.fx10.network.buffer_count > 0 THEN r.fx10.network.buffer_count
                            ELSE 16)
        /\ o.queue_frames = 0 /\ o.max_buffer_memory_mb = r.fx10.network.max_buffer_memory_mb
        /\ o.expected_rate_hz = r.fx10.acquisition.frame_rate_hz
        /\ o.stall_budget_s = r.fx10.network.stall_budget_s
    BY DEF Fx10Options
  <2>. HIDE DEF o
  <2>4. {o.max_buffer_memory_mb, o.sdk_buffers, o.queue_frames, o.expected_rate_hz,
         o.stall_budget_s} \subseteq Nat
    BY <2>2, <2>3
  <2>. QED BY <1>1, <2>1, <2>4 DEF o
<1>3. CASE c # Fx10Owner
  <2>1. PICK i \in Gox!EnabledCameras(r.gox) :
               Definitions(r)[c] = GoxOptions(r.gox, r.gox.cameras[i])
    BY <1>3, GoxDefinition
  <2>. DEFINE cam == r.gox.cameras[i]
              rate_ == cam.acquisition.frame_rate_hz
              o == GoxOptions(r.gox, cam)
  <2>2. /\ IsOption(rate_) /\ cam.network.buffer_count \in Nat
        /\ r.gox.output.queue_max_frames \in Nat
    BY DEF NumbersOk, Gox!EnabledCameras
  <2>3. OrElse(rate_, 0) \in Nat /\ OrElse(rate_, 1) \in Nat
    BY <2>2, OrElseOption
  <2>4. AutoBufferCount(OrElse(rate_, 0)) \in Nat /\ AutoQueueFrames(OrElse(rate_, 0)) \in Nat
    <3>. DEFINE hz == OrElse(rate_, 0)
    <3>. HIDE DEF hz
    <3>1. hz \in Nat /\ hz + 8 \in Nat /\ 2 * hz \in Nat
      BY <2>3 DEF hz
    <3>2. Clamp(hz + 8, 8, 64) \in Nat /\ Clamp(2 * hz, 4, 64) \in Nat
      BY <3>1, ClampNumber
    <3>. QED BY <3>2 DEF AutoBufferCount, AutoQueueFrames, hz
  <2>5. /\ o.sdk_buffers = (IF cam.network.buffer_count # 0 THEN cam.network.buffer_count
                            ELSE AutoBufferCount(OrElse(rate_, 0)))
        /\ o.queue_frames = (IF r.gox.output.queue_max_frames # 0 THEN r.gox.output.queue_max_frames
                             ELSE AutoQueueFrames(OrElse(rate_, 0)))
        /\ o.max_buffer_memory_mb = 512 /\ o.expected_rate_hz = OrElse(rate_, 1)
        /\ o.stall_budget_s = 2
    BY DEF GoxOptions
  <2>. HIDE DEF o
  <2>6. {o.max_buffer_memory_mb, o.sdk_buffers, o.queue_frames, o.expected_rate_hz,
         o.stall_budget_s} \subseteq Nat
    BY <2>2, <2>3, <2>4, <2>5
  <2>. QED BY <1>1, <2>1, <2>6 DEF o
<1>. QED BY <1>2, <1>3

LEMMA PoolsImplied == RigIInv => PoolsFit
<1>. SUFFICES ASSUME RigIInv, phase = "init", NEW c \in DOMAIN options, pc[c] = "ready"
              PROVE  LET device == Rigs[rig].devices[c]
                         pool == Pool(options[c], device)
                     IN  /\ pool.sdk >= 4 /\ (device.sdk_max > 0 => pool.sdk <= device.sdk_max)
                         /\ pool.queue >= 2
                         /\ (pool.sdk + pool.queue + 2) * device.payload_kb
                               <= options[c].max_buffer_memory_mb * 1024
  BY DEF PoolsFit
<1>1. options = Definitions(Rigs[rig]) /\ NumbersOk(Rigs[rig]) /\ c \in Owners
  BY RigsAssumption DEF RigIInv, PhaseInv, TypeOK
<1>2. AllocateOk(options[c], Rigs[rig].devices[c])
  BY <1>1 DEF RigIInv, CameraInv, Preparable
<1>3. LET o == options[c]
          device == Rigs[rig].devices[c]
      IN  {o.max_buffer_memory_mb, o.sdk_buffers, o.queue_frames, o.expected_rate_hz,
           o.stall_budget_s, device.payload_kb, device.sdk_max} \subseteq Nat
  BY <1>1, DefinitionNumbers
<1>. QED BY <1>2, <1>3, AllocateFits

(* ResolveForGeometry gives wavelengths to the image that was calibrated. *)
LEMMA AxisOfCalibrated ==
    ASSUME NEW w, NEW files, NEW g, NEW line, Fx10!ResolveForGeometry(w, files, g, line),
           w.source \in {"none", "file", "list", "grid"},
           \A f \in DOMAIN files : files[f] \in Seq(Seq(Nat)),
           Fx10!Axis(w, files, g) # Fx10!NoAxis
    PROVE  LET axis == Fx10!Axis(w, files, g)
           IN  /\ Len(axis.nm) = g.bands /\ Len(axis.fwhm) \in {0, Len(axis.nm)}
               /\ g.serial = w.calibration.device_serial
               /\ \A side \in {"samples", "bands", "offset_x", "offset_y"} :
                     g[side] = w.calibration[side]
<1>. DEFINE axis == Fx10!Resolved(w, files, g.bands)
<1>1. /\ w.source \in {"file", "list"} /\ Fx10!Axis(w, files, g) = axis
      /\ Fx10!Calibrated(w.calibration, g, line) /\ Fx10!ResolveWavelengths(w, files, g.bands)
  <2>1. w.source # "none"
    BY DEF Fx10!Axis
  <2>2. /\ w.source # "grid" /\ Fx10!ResolveWavelengths(w, files, g.bands)
        /\ (w.source # "none" => Fx10!Calibrated(w.calibration, g, line))
    BY DEF Fx10!ResolveForGeometry
  <2>. QED BY <2>1, <2>2 DEF Fx10!Axis
<1>2. /\ g.serial = w.calibration.device_serial
      /\ g["samples"] = w.calibration["samples"] /\ g["bands"] = w.calibration["bands"]
      /\ g["offset_x"] = w.calibration["offset_x"] /\ g["offset_y"] = w.calibration["offset_y"]
  BY <1>1, Zenon DEF Fx10!Calibrated
<1>3. Fx10!AxisOk(axis)
  BY <1>1 DEF Fx10!ResolveWavelengths
<1>4. Len(axis.fwhm) \in {0, Len(axis.nm)}
  BY <1>3 DEF Fx10!AxisOk
<1>5. Len(axis.nm) = g.bands
  <2>1. CASE w.source = "list"
    <3>1. axis.nm = w.list /\ Len(w.list) = g.bands
      BY <1>1, <2>1 DEF Fx10!ResolveWavelengths, Fx10!Resolved, Fx10!NoAxis
    <3>. QED BY <3>1
  <2>2. CASE w.source = "file"
    <3>. DEFINE lines == files[w.file]
    <3>1. w.file \in DOMAIN files /\ Fx10!FileOk(lines, g.bands)
      BY <1>1, <2>2 DEF Fx10!ResolveWavelengths
    <3>2. axis.nm = [i \in DOMAIN lines |-> lines[i][1]]
      BY <2>2 DEF Fx10!Resolved, Fx10!FromFile
    <3>3. lines \in Seq(Seq(Nat)) /\ Len(lines) = g.bands
          /\ \A i \in DOMAIN lines : Len(lines[i]) \in {1, 2}
      BY <3>1 DEF Fx10!FileOk
    <3>. HIDE DEF axis, lines
    <3>4. DOMAIN lines = 1 .. Len(lines) /\ Len(lines) \in Nat
      BY <3>3
    <3>5. ASSUME NEW i \in DOMAIN lines PROVE lines[i][1] \in Nat
      <4>1. lines[i] \in Seq(Nat) /\ Len(lines[i]) \in {1, 2}
        BY <3>3
      <4>2. 1 \in DOMAIN lines[i]
        BY <4>1
      <4>. QED BY <4>1, <4>2
    <3>6. axis.nm \in Seq(Nat) /\ DOMAIN axis.nm = 1 .. Len(lines)
      BY <3>2, <3>4, <3>5
    <3>. QED BY <3>3, <3>6
  <2>. QED BY <1>1, <2>1, <2>2
<1>. HIDE DEF axis
<1>. QED BY <1>1, <1>2, <1>4, <1>5

LEMMA OutputSource ==
    ASSUME NEW out, Fx10!ParseOutput(out)
    PROVE  out.wavelengths.source \in {"none", "file", "list", "grid"}
BY DEF Fx10!ParseOutput

LEMMA AxisImplied == RigIInv => AxisMatches
<1>. SUFFICES ASSUME RigIInv, phase = "init", pc[Fx10Owner] = "ready"
              PROVE  AxisMatches
  BY DEF AxisMatches
<1>. DEFINE r == Rigs[rig]
            w == r.fx10.output.wavelengths
<1>1. /\ Fx10Owner \in Owners /\ options = Definitions(r) /\ NumbersOk(r) /\ ~LoadFails(r)
  BY RigsAssumption DEF RigIInv, PhaseInv, TypeOK
<1>2. Preparable(Fx10Owner) /\ Fx10Owner \in DOMAIN options
  BY <1>1 DEF RigIInv, CameraInv
<1>3. Fx10!ResolveForGeometry(w, r.files, r.geometry, r.fx10.acquisition.status_line)
  BY <1>2 DEF Preparable
<1>4. Fx10!ParseOutput(r.fx10.output)
  BY <1>1, <1>2, Fx10Definition DEF LoadFails, Fx10!ParseRoot
<1>5. w.source \in {"none", "file", "list", "grid"}
  BY <1>4, OutputSource
<1>6. \A f \in DOMAIN r.files : r.files[f] \in Seq(Seq(Nat))
  BY <1>1 DEF NumbersOk
<1>7. Fx10!Axis(w, r.files, r.geometry) # Fx10!NoAxis =>
         LET axis == Fx10!Axis(w, r.files, r.geometry)
         IN  /\ Len(axis.nm) = r.geometry.bands /\ Len(axis.fwhm) \in {0, Len(axis.nm)}
             /\ r.geometry.serial = w.calibration.device_serial
             /\ \A side \in {"samples", "bands", "offset_x", "offset_y"} :
                   r.geometry[side] = w.calibration[side]
  BY <1>3, <1>5, <1>6, AxisOfCalibrated
<1>. QED BY <1>7 DEF AxisMatches

(* Two cameras of a compatible rig can share the board. *)
LEMMA DefinitionsShare ==
    ASSUME NEW r, NumbersOk(r), ~LoadFails(r), Compatible(r),
           NEW c \in DOMAIN Definitions(r), NEW d \in DOMAIN Definitions(r), c # d,
           Definitions(r)[c].sensor_sync
    PROVE  LET o == Definitions(r)[c]
               p == Definitions(r)[d]
           IN  /\ o.channel # p.channel
               /\ Group(o.channel) = Group(p.channel) => o.pulse_hz = p.pulse_hz
<1>1. CASE c # Fx10Owner /\ d # Fx10Owner
  <2>1. PICK i \in Gox!EnabledCameras(r.gox) :
               c = GoxOwner(r.gox, i) /\ Definitions(r)[c] = GoxOptions(r.gox, r.gox.cameras[i])
    BY <1>1, GoxDefinition
  <2>2. PICK k \in Gox!EnabledCameras(r.gox) :
               d = GoxOwner(r.gox, k) /\ Definitions(r)[d] = GoxOptions(r.gox, r.gox.cameras[k])
    BY <1>1, GoxDefinition
  <2>3. i # k /\ r.main.enable_gox
    BY <1>1, <2>1, <2>2, GoxDefinition
  <2>4. r.gox.sensor_trigger
    <3>1. GoxOptions(r.gox, r.gox.cameras[i]).sensor_sync = r.gox.sensor_trigger
      BY DEF GoxOptions
    <3>. QED BY <2>1, <3>1
  <2>. DEFINE a == r.gox.cameras[i].acquisition
              b == r.gox.cameras[k].acquisition
  <2>5. /\ a.trigger.sensor_channel # b.trigger.sensor_channel
        /\ Gox!External(r.gox.cameras[i]) = Gox!External(r.gox.cameras[k])
        /\ Gox!External(r.gox.cameras[i]) => a.frame_rate_hz = b.frame_rate_hz
    BY <2>3, <2>4 DEF LoadFails, Gox!ParseRoot, Gox!CheckSensorTriggerRig, Compatible
  <2>. DEFINE o == GoxOptions(r.gox, r.gox.cameras[i])
              p == GoxOptions(r.gox, r.gox.cameras[k])
  <2>6. /\ o.channel = a.trigger.sensor_channel /\ p.channel = b.trigger.sensor_channel
        /\ o.pulse_hz = (IF r.gox.sensor_trigger /\ Gox!External(r.gox.cameras[i])
                         THEN OrElse(a.frame_rate_hz, 0) ELSE 0)
        /\ p.pulse_hz = (IF r.gox.sensor_trigger /\ Gox!External(r.gox.cameras[k])
                         THEN OrElse(b.frame_rate_hz, 0) ELSE 0)
    BY DEF GoxOptions
  <2>. HIDE DEF o, p
  <2>7. o.channel # p.channel /\ o.pulse_hz = p.pulse_hz
    BY <2>5, <2>6
  <2>. QED BY <2>1, <2>2, <2>7 DEF o, p
<1>2. ASSUME NEW e \in DOMAIN Definitions(r), e # Fx10Owner
      PROVE  Definitions(r)[e].channel \in 2 .. 3
  <2>1. PICK i \in Gox!EnabledCameras(r.gox) :
               Definitions(r)[e] = GoxOptions(r.gox, r.gox.cameras[i])
    BY <1>2, GoxDefinition
  <2>2. r.main.enable_gox
    BY <1>2, GoxDefinition
  <2>. QED BY <2>1, <2>2, GoxChecked
<1>3. ASSUME NEW e \in DOMAIN Definitions(r), e = Fx10Owner
      PROVE  Definitions(r)[e].channel \in 0 .. 1
  <2>1. Definitions(r)[e] = Fx10Options(r.fx10)
    BY <1>3, Fx10Definition
  <2>2. Fx10Options(r.fx10).channel = r.fx10.sensor_trigger.trigger_channel
    BY DEF Fx10Options
  <2>3. r.fx10.sensor_trigger.trigger_channel \in 0 .. 1
    BY Zenon DEF Compatible
  <2>. QED BY <2>1, <2>2, <2>3
<1>4. CASE c = Fx10Owner \/ d = Fx10Owner
  <2>1. \/ Definitions(r)[c].channel \in 0 .. 1 /\ Definitions(r)[d].channel \in 2 .. 3
        \/ Definitions(r)[c].channel \in 2 .. 3 /\ Definitions(r)[d].channel \in 0 .. 1
    BY <1>2, <1>3, <1>4
  <2>. QED BY <2>1 DEF Group
<1>. QED BY <1>1, <1>4

(* What a camera of a rig that loads asks of the board, the board has. *)
LEMMA DefinitionsRegister ==
    ASSUME NEW r, NumbersOk(r), ~LoadFails(r), NEW c \in DOMAIN Definitions(r),
           Definitions(r)[c].sensor_sync
    PROVE  LET o == Definitions(r)[c]
           IN  o.channel \in 0 .. ChannelCount - 1 /\ ValidRate(Group(o.channel), o.pulse_hz)
<1>1. CASE c = Fx10Owner
  <2>1. r.main.enable_fx10 /\ Definitions(r)[c] = Fx10Options(r.fx10)
    BY <1>1, Fx10Definition
  <2>2. LET o == Fx10Options(r.fx10)
        IN  /\ o.channel \in 0 .. 3
            /\ o.sensor_sync => ValidRate(Group(o.channel), o.pulse_hz)
    BY <2>1, Fx10Checked
  <2>. QED BY <2>1, <2>2 DEF ChannelCount
<1>2. CASE c # Fx10Owner
  <2>1. PICK i \in Gox!EnabledCameras(r.gox) :
               Definitions(r)[c] = GoxOptions(r.gox, r.gox.cameras[i])
    BY <1>2, GoxDefinition
  <2>2. r.main.enable_gox
    BY <1>2, GoxDefinition
  <2>. DEFINE o == GoxOptions(r.gox, r.gox.cameras[i])
  <2>3. o.channel \in 2 .. 3 /\ (o.pulse_hz = 0 \/ o.pulse_hz \in 1 .. 10)
    BY <2>2, GoxChecked
  <2>. HIDE DEF o
  <2>4. o.channel \in 0 .. ChannelCount - 1 /\ Group(o.channel) = 1
    BY <2>3 DEF ChannelCount, Group
  <2>5. ValidRate(Group(o.channel), o.pulse_hz)
    BY <2>3, <2>4 DEF ValidRate
  <2>. QED BY <2>1, <2>4, <2>5 DEF o
<1>. QED BY <1>1, <1>2

(* Who waits for a channel that no participant has finds a place. *)
LEMMA PlaceIsLeft ==
    ASSUME NEW n \in Nat, n > 0, NEW S, NEW f, NEW ch \in 0 .. n - 1,
           \A p \in S : f[p] \in 0 .. n - 1 /\ f[p] # ch,
           \A p, q \in S : f[p] = f[q] => p = q
    PROVE  Cardinality(S) < n
<1>. DEFINE others == (0 .. n - 1) \ {ch}
            g == [p \in S |-> f[p]]
<1>1. g \in Injection(S, others)
  BY DEF Injection, IsInjective
<1>2. IsFiniteSet(0 .. n - 1) /\ Cardinality(0 .. n - 1) = n
  BY FS_Interval
<1>3. IsFiniteSet(others) /\ Cardinality(others) = n - 1
  BY <1>2, FS_RemoveElement
<1>4. IsFiniteSet(S) /\ Cardinality(S) <= Cardinality(others)
  BY <1>1, <1>3, FS_Injection
<1>5. Cardinality(S) \in Nat
  BY <1>4, FS_CardinalityType
<1>. QED BY <1>3, <1>4, <1>5

LEMMA RegistersImplied == RigIInv => AcceptedRegisters
<1>. SUFFICES ASSUME RigIInv, phase = "init", Compatible(Rigs[rig]), NEW c \in DOMAIN options,
                     pc[c] = "init", Sync(c)
              PROVE  Registrable(c, options[c].channel, options[c].pulse_hz)
  BY DEF AcceptedRegisters
<1>. DEFINE r == Rigs[rig]
<1>1. /\ options = Definitions(r) /\ NumbersOk(r) /\ ~LoadFails(r) /\ c \in Owners
      /\ port = PortGiven(r.main) /\ ~started /\ ~ended /\ participants \subseteq Owners
  BY RigsAssumption DEF RigIInv, PhaseInv, TypeOK, HubTypeOK
<1>2. port
  BY <1>1 DEF Compatible
<1>3. options[c].channel \in 0 .. ChannelCount - 1
      /\ ValidRate(Group(options[c].channel), options[c].pulse_hz)
  BY <1>1, DefinitionsRegister DEF Sync
<1>4. c \notin participants
  BY <1>1 DEF RigIInv, CameraInv
<1>5. ASSUME NEW p \in participants
      PROVE  /\ p \in DOMAIN options /\ p # c /\ options[p].sensor_sync
             /\ channel[p] = options[p].channel /\ rate[p] = options[p].pulse_hz
  BY <1>1, <1>4 DEF RigIInv, CameraInv, Sync
<1>6. \A p \in participants :
         /\ channel[p] # options[c].channel
         /\ Group(channel[p]) = Group(options[c].channel) => rate[p] = options[c].pulse_hz
  BY <1>1, <1>5, DefinitionsShare
<1>7. \A p \in participants : channel[p] \in 0 .. ChannelCount - 1
  BY <1>1, <1>5, DefinitionsRegister
<1>8. \A p, q \in participants : channel[p] = channel[q] => p = q
  BY <1>1, <1>5, DefinitionsShare
<1>9. Cardinality(participants) < ChannelCount
  <2>1. ChannelCount \in Nat /\ ChannelCount > 0
    BY DEF ChannelCount
  <2>. QED BY <1>3, <1>6, <1>7, <1>8, <2>1, PlaceIsLeft
<1>. QED BY <1>1, <1>2, <1>3, <1>4, <1>6, <1>9 DEF Registrable

(* For every set of rigs: what the files' checks let through can be registered,
   fits the memory and has the right wavelengths, the last camera to shut down
   has closed the session, and a clean one had a session (SensorSyncHub::Register,
   Allocate, ResolveForGeometry, Shutdown). *)
THEOREM RigCorrect == Spec => []RigInv
<1>1. RigIInv => RigInv
  BY RegistersImplied, PoolsImplied, AxisImplied, ClosedImplied, CleanImplied DEF RigInv, RigIInv
<1>. QED BY <1>1, RigInductive, PTL

=============================================================================
