--------------------------- MODULE SensorSyncHub ---------------------------
(***************************************************************************)
(* The one trigger-board session that all cameras share: SensorSyncHub of  *)
(* common/src/sensor_sync_hub.cpp.  Every operation holds the hub's mutex, *)
(* so each is one step; the board behind it (SensorSyncBackend, in reality *)
(* SensorSyncLog and the serial client) is external and may fail.          *)
(*                                                                         *)
(* This module states the operations and a specification in which any      *)
(* participant calls any of them at any time; module TriggerRig calls them *)
(* in the order the cameras do.                                            *)
(***************************************************************************)
EXTENDS Integers, FiniteSets

CONSTANTS
    Owners,    \* names of possible participants
    Channels,  \* the channels that they may ask for, ...
    Rates      \* ... and the pulse rates

ChannelCount == 4
Groups == 0 .. 1

ASSUME ConfigAssumption == Channels \subseteq Int /\ Rates \subseteq Nat

(* trigger::validRate: what each pair of outputs can run. *)
ValidRate(group, hz) ==
    hz = 0 \/ (IF group = 0 THEN hz >= 20 ELSE hz \in 1 .. 10)

Group(channel) == channel \div 2

VARIABLES
    port,          \* a serial port is configured
    participants,  \* owners in participants_
    channel,       \* their channels, ...
    rate,          \* ... and their pulse_hz
    armed,         \* those of them that are armed
    opened, started, ended,
    failed,        \* failed_
    backendOk,     \* the board's own verdict
    board          \* the rate each group of outputs is running at

hubVars == <<port, participants, channel, rate, armed, opened, started, ended, failed, backendOk, board>>

Off == [g \in Groups |-> 0]

(* The values the hub's fields may take. *)
HubTypeOK ==
    /\ port \in BOOLEAN
    /\ participants \in SUBSET Owners
    /\ channel \in [Owners -> Int] /\ rate \in [Owners -> Nat]
    /\ armed \in SUBSET Owners
    /\ opened \in BOOLEAN /\ started \in BOOLEAN /\ ended \in BOOLEAN
    /\ failed \in BOOLEAN /\ backendOk \in BOOLEAN
    /\ board \in [Groups -> Nat]

HubInit ==
    /\ port \in BOOLEAN
    /\ participants = {} /\ armed = {}
    /\ channel = [o \in Owners |-> 0] /\ rate = [o \in Owners |-> 0]
    /\ opened = FALSE /\ started = FALSE /\ ended = FALSE
    /\ failed = FALSE /\ backendOk = TRUE
    /\ board = Off

(* The checks of Register that precede the opening of the board. *)
Registrable(o, ch, hz) ==
    /\ port /\ ~started /\ ~ended
    /\ ch \in 0 .. ChannelCount - 1
    /\ ValidRate(Group(ch), hz)
    /\ Cardinality(participants) < ChannelCount
    /\ o \notin participants
    /\ \A p \in participants :
          /\ channel[p] # ch
          /\ Group(channel[p]) = Group(ch) => rate[p] = hz

Register(o, ch, hz) ==
    /\ Registrable(o, ch, hz)
    /\ participants' = participants \cup {o}
    /\ channel' = [channel EXCEPT ![o] = ch] /\ rate' = [rate EXCEPT ![o] = hz]
    /\ opened' = TRUE
    /\ UNCHANGED <<port, armed, started, ended, failed, backendOk, board>>

(* Register throws: refused, or the board does not open. *)
RegisterThrows(o, ch, hz) ==
    \/ ~Registrable(o, ch, hz) /\ UNCHANGED hubVars
    \/ /\ Registrable(o, ch, hz) /\ ~opened /\ failed' = TRUE
       /\ UNCHANGED <<port, participants, channel, rate, armed, opened, started, ended,
                      backendOk, board>>

(* PlannedRates: a group runs at the rate of its participants; one without a
   participant is switched off. *)
PlannedRates ==
    [g \in Groups |->
        IF \E p \in participants : Group(channel[p]) = g
        THEN rate[CHOOSE p \in participants : Group(channel[p]) = g]
        ELSE 0]

Armable(o) == o \in participants /\ ~ended /\ ~failed

AllArmed == participants \subseteq armed'

(* Arm returns: true when the session runs, false while others are awaited. *)
Arm(o) ==
    /\ Armable(o)
    /\ armed' = armed \cup {o}
    /\ IF started \/ ~AllArmed
       THEN UNCHANGED <<started, board>>
       ELSE started' = TRUE /\ board' = PlannedRates
    /\ UNCHANGED <<port, participants, channel, rate, opened, ended, failed, backendOk>>

(* Arm throws: refused, or the START of the last participant to arm fails,
   which does not tell whether the board executed it. *)
ArmThrows(o) ==
    \/ ~Armable(o) /\ UNCHANGED hubVars
    \/ /\ Armable(o)
       /\ armed' = armed \cup {o}
       /\ ~started /\ AllArmed
       /\ failed' = TRUE
       /\ board' \in {board, PlannedRates}
       /\ UNCHANGED <<port, participants, channel, rate, opened, started, ended, backendOk>>

(* Disarm: the first caller ends the session and stops the board, whose STOP
   may fail and leave it pulsing. *)
Disarm(o) ==
    \/ ended /\ UNCHANGED hubVars
    \/ /\ ~ended /\ ~started /\ ended' = TRUE
       /\ UNCHANGED <<port, participants, channel, rate, armed, opened, started, failed, backendOk, board>>
    \/ /\ ~ended /\ started /\ ended' = TRUE
       /\ backendOk' \in {backendOk, FALSE}
       /\ failed' = (failed \/ ~backendOk')
       /\ board' \in IF backendOk' THEN {Off} ELSE {board, Off}
       /\ UNCHANGED <<port, participants, channel, rate, armed, opened, started>>

(* Ok. *)
HubOk == ~failed /\ (started => backendOk)

(* The board reports an error, or its log cannot be written. *)
BackendFails ==
    /\ started /\ ~ended /\ backendOk /\ backendOk' = FALSE
    /\ UNCHANGED <<port, participants, channel, rate, armed, opened, started, ended, failed, board>>

HubNext ==
    \/ \E o \in Owners, ch \in Channels, hz \in Rates :
          Register(o, ch, hz) \/ RegisterThrows(o, ch, hz)
    \/ \E o \in Owners : Arm(o) \/ ArmThrows(o) \/ Disarm(o)
    \/ BackendFails

HubSpec == HubInit /\ [][HubNext]_hubVars

----------------------------------------------------------------------------
(* Properties of the hub, whatever its participants do.                    *)

(* Once the session has started every participant has armed its camera: none
   joins later, and START waits for the last of them. *)
StartedMeansAllArmed == started => participants \subseteq armed

(* As long as the hub reports no failure, pulses run only between START and
   STOP, each pair of outputs at exactly the rate every participant on it asked
   for, and a pair nobody uses is off. *)
BoardServesParticipants ==
    board # Off /\ HubOk =>
       /\ started /\ ~ended
       /\ \A p \in participants : board[Group(channel[p])] = rate[p]
       /\ \A g \in Groups : board[g] # 0 => \E p \in participants : Group(channel[p]) = g

(* A session that has ended is never started again and its pulses never come
   back; a failure of the hub is never forgotten. *)
NoRestart == [][/\ ended => ended' /\ started' = started /\ (board' = board \/ board' = Off)
                /\ ~HubOk => ~HubOk']_hubVars

=============================================================================
