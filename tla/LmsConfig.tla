----------------------------- MODULE LmsConfig ------------------------------
(***************************************************************************)
(* Which scanner files the driver accepts                                  *)
(* (lms4xxx_driver/src/app_config.cpp).  Documents are those of module     *)
(* ConfigUtil.                                                             *)
(***************************************************************************)
EXTENDS Integers, Sequences, ConfigUtil, Ipv4

CONSTANT Cpus   \* std::thread::hardware_concurrency

ASSUME CpusAssumption == Cpus \in Nat \ {0}

IsIpv4(text) == ParseIpv4(text)

ParseScan(scan) == scan.remission \in {"rssi", "refl"}

ParseNtp(n) ==
    /\ {n.sync_interval_s, n.check_status_s, n.lock_timeout_s} \subseteq 1 .. 3600
    /\ n.max_time_step_ms \in 1 .. 60000
    /\ n.enabled => IsIpv4(n.server)

ParseNetwork(n) ==
    /\ n.recv_buffer_bytes \in 64 * 1024 .. 256 * 1024 * 1024
    /\ n.receive_thread_priority \in 1 .. 99 /\ n.receive_thread_cpu \in -1 .. Cpus - 1
    /\ {n.connect_timeout_ms, n.response_timeout_ms, n.config_timeout_ms} \subseteq 100 .. 60000
    /\ {n.keepalive_idle_s, n.keepalive_interval_s} \subseteq 1 .. 7200
    /\ n.keepalive_count \in 1 .. 100

ParseOutput(out) ==
    /\ out.queue_max_frames \in 2 .. 1024 * 1024
    /\ out.max_file_bytes = 0 \/ out.max_file_bytes >= 1024 * 1024
    /\ out.flush_interval_ms \in 1 .. 60000

LidarOk(l) ==
    /\ l.id # "" /\ l.id_length <= 63 /\ l.id_plain
    /\ IsIpv4(l.ip) /\ l.port \in 1 .. 65535

(* Two enabled entries would fight over the scanner's only control connection;
   the texts of their addresses are compared. *)
ParseLidars(lidars) ==
    /\ lidars # << >>
    /\ \A k \in DOMAIN lidars : LidarOk(lidars[k])
    /\ \A j, k \in DOMAIN lidars :
          j # k => /\ lidars[j].id # lidars[k].id
                   /\ lidars[j].enabled /\ lidars[k].enabled => lidars[j].ip # lidars[k].ip

EnabledLidars(doc) == SelectSeq(doc.lidars, LAMBDA l : l.enabled)

ParseRoot(doc, require_enabled_lidar) ==
    /\ WellFormed(doc.file)
    /\ ParseLidars(doc.lidars) /\ ParseScan(doc.scan) /\ ParseNtp(doc.ntp)
    /\ ParseNetwork(doc.network) /\ ParseOutput(doc.output)
    /\ {doc.telemetry_interval_s, doc.stats_interval_s} \subseteq 0 .. 3600
    /\ require_enabled_lidar => EnabledLidars(doc) # << >>
=============================================================================
