------------------------------ MODULE RigConfig ------------------------------
(***************************************************************************)
(* From the files to the cameras: the main file (common/src/main_config    *)
(* .cpp), the options that MakeGoxCameras and MakeFx10Camera give to an    *)
(* EbusCameraDriver (ebus_driver/src/gox_config.cpp, fx10_config.cpp), and *)
(* the buffers its Allocate takes (gox_driver/src/buffering.cpp,           *)
(* ebus_driver/src/camera_driver.cpp).                                     *)
(***************************************************************************)
EXTENDS Integers, Sequences, FiniteSets, FiniteSetsExt, ConfigUtil

Gox == INSTANCE GoxConfig
Fx10 == INSTANCE Fx10Config

----------------------------------------------------------------------------
(* The main file; 0 disables a limit, an empty port the trigger board. *)

GuardsOk(g) ==
    /\ {g.disk_min_free_gib, g.disk_warn_free_gib, g.no_data_warn_s, g.no_data_abort_s}
          \subseteq 0 .. 86400
    /\ g.disk_warn_free_gib > 0 => g.disk_warn_free_gib > g.disk_min_free_gib
    /\ g.no_data_abort_s > 0 => g.no_data_warn_s < g.no_data_abort_s

ParseMainConfig(main) ==
    /\ WellFormed(main.file) /\ GuardsOk(main.guards)
    /\ main.port \in {"", "absolute"}

(* RunAcquisition gives the hub the port. *)
PortGiven(main) == main.port # ""

(* What RunAcquisition does before it makes a driver. *)
LoadFails(r) ==
    \/ ~ParseMainConfig(r.main)
    \/ ~r.main.enable_fx10 /\ ~r.main.enable_gox /\ ~r.main.enable_others
    \/ r.main.enable_fx10 /\ ~Fx10!ParseRoot(r.fx10)
    \/ r.main.enable_gox /\ ~Gox!ParseRoot(r.gox)

----------------------------------------------------------------------------
(* Options. *)

Clamp(n, lo, hi) == Max({lo, Min({n, hi})})

OrElse(option, default) == IF option = {} THEN default ELSE CHOOSE v \in option : TRUE

(* One second of frames, and two. *)
AutoBufferCount(hz) == IF hz > 0 THEN Clamp(hz + 8, 8, 64) ELSE 16
AutoQueueFrames(hz) == IF hz > 0 THEN Clamp(2 * hz, 4, 64) ELSE 8

GoxOptions(doc, c) ==
    LET rate == c.acquisition.frame_rate_hz
        external == Gox!External(c)
    IN  [sdk_buffers  |-> IF c.network.buffer_count # 0 THEN c.network.buffer_count
                          ELSE AutoBufferCount(OrElse(rate, 0)),
         queue_frames |-> IF doc.output.queue_max_frames # 0 THEN doc.output.queue_max_frames
                          ELSE AutoQueueFrames(OrElse(rate, 0)),
         max_buffer_memory_mb |-> 512, expected_rate_hz |-> OrElse(rate, 1), stall_budget_s |-> 2,
         exposure_ms  |-> c.acquisition.exposure_ms,
         addressed    |-> c.mac # "" \/ c.ip # "",
         sensor_sync  |-> doc.sensor_trigger,
         channel      |-> c.acquisition.trigger.sensor_channel,
         pulse_hz     |-> IF doc.sensor_trigger /\ external THEN OrElse(rate, 0) ELSE 0,
         expect_data  |-> ~external \/ doc.sensor_trigger]

Fx10Options(doc) ==
    LET acq == doc.acquisition
        external == acq.trigger.mode = "external"
    IN  [sdk_buffers  |-> IF doc.network.buffer_count > 0 THEN doc.network.buffer_count ELSE 16,
         queue_frames |-> 0,
         max_buffer_memory_mb |-> doc.network.max_buffer_memory_mb,
         expected_rate_hz |-> acq.frame_rate_hz, stall_budget_s |-> doc.network.stall_budget_s,
         exposure_ms  |-> {acq.exposure_ms},
         addressed    |-> doc.mac # "" \/ doc.ip # "",
         sensor_sync  |-> doc.sensor_trigger.enabled,
         channel      |-> doc.sensor_trigger.trigger_channel,
         pulse_hz     |-> IF doc.sensor_trigger.enabled /\ external THEN acq.frame_rate_hz ELSE 0,
         expect_data  |-> ~external \/ doc.sensor_trigger.enabled]

(* The names that the cameras have for the hub; a Go-X camera may have any
   identifier, that of the FX10 too. *)
SyncOwner(kind, id) == <<kind, id>>

Fx10Owner == SyncOwner("fx10", "fx10")
GoxOwner(doc, i) == SyncOwner("gox", doc.cameras[i].id.text)

(* The cameras of a rig, by these names, with their options. *)
Definitions(r) ==
    LET goxs == IF r.main.enable_gox THEN Gox!EnabledCameras(r.gox) ELSE {}
        fx10s == IF r.main.enable_fx10 THEN {Fx10Owner} ELSE {}
    IN  [c \in fx10s \cup {GoxOwner(r.gox, i) : i \in goxs} |->
           IF c = Fx10Owner THEN Fx10Options(r.fx10)
           ELSE GoxOptions(r.gox, r.gox.cameras[CHOOSE i \in goxs : GoxOwner(r.gox, i) = c])]

----------------------------------------------------------------------------
(* The numbers of a rig: whole, and at most one where the file may be silent. *)

IsOption(s) == s \subseteq Nat /\ \A u, v \in s : u = v

NumbersOk(r) ==
    /\ \A i \in DOMAIN r.gox.cameras :
          LET c == r.gox.cameras[i]
          IN  /\ IsOption(c.acquisition.exposure_ms) /\ IsOption(c.acquisition.frame_rate_hz)
              /\ c.network.buffer_count \in Nat
    /\ {r.gox.output.queue_max_frames, r.fx10.network.buffer_count,
        r.fx10.network.max_buffer_memory_mb, r.fx10.network.stall_budget_s,
        r.fx10.acquisition.exposure_ms, r.fx10.acquisition.frame_rate_hz} \subseteq Nat
    /\ \A c \in DOMAIN Definitions(r) : {r.devices[c].payload_kb, r.devices[c].sdk_max} \subseteq Nat
    /\ \A f \in DOMAIN r.files : r.files[f] \in Seq(Seq(Nat))
    /\ {r.fx10.output.wavelengths.list, r.fx10.output.wavelengths.fwhm_list} \subseteq Seq(Nat)

----------------------------------------------------------------------------
(* Buffers: the device has a payload size in kB and the stream a maximum, 0
   when it has none. *)

Slots(o, device) == (o.max_buffer_memory_mb * 1024) \div device.payload_kb

Pool(o, device) ==
    LET slots == Slots(o, device)
        capped == IF device.sdk_max > 0 THEN Min({Max({4, o.sdk_buffers}), device.sdk_max})
                  ELSE Max({4, o.sdk_buffers})
        sdk == Min({capped, slots - 4})
        wanted == IF o.queue_frames > 0 THEN o.queue_frames
                  ELSE Max({2, o.expected_rate_hz * o.stall_budget_s})
    IN  [sdk |-> sdk, wanted |-> wanted, queue |-> Min({wanted, slots - sdk - 2})]

(* When Allocate does not throw. *)
AllocateOk(o, device) ==
    /\ device.payload_kb > 0 /\ o.expected_rate_hz > 0
    /\ Slots(o, device) >= 8
    /\ Pool(o, device).sdk >= 4 /\ Pool(o, device).wanted >= 2
=============================================================================
