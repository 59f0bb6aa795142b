------------------------------ MODULE Telemetry ------------------------------
(***************************************************************************)
(* A device and the backend, joined by the broker: what the database says  *)
(* of the device and what the device does.                                 *)
(***************************************************************************)
EXTENDS EdgeClient, CrowdStore

vars == <<linkVars, faults, clientVars, storeVars, adminVars>>

Init == LinkInit /\ ClientInit /\ StoreInit

(* A start or stop that is sent settles what the device is meant to do,    *)
(* provided that it leaves.                                                *)
Send(c) ==
    /\ SendAdmin(c)
    /\ drift' = IF IsSwitch(c) THEN down' = down ELSE drift
    /\ UNCHANGED <<proc, settings, counted, lost, unsaid>>

Edge(A) == A /\ UNCHANGED <<storeVars, adminVars>>
Store(A) == A /\ UNCHANGED clientVars

Next ==
    \/ Edge(EdgeNext)
    \/ Store(StoreNext)
    \/ \E c \in Commands : Send(c)

Spec == Init /\ [][Next]_vars

-----------------------------------------------------------------------------
(* Every variable keeps its type.                                          *)
TypeOK ==
    /\ out \in Link /\ up \in Link
    /\ retained \in Message
    /\ down \in Seq(Commands)
    /\ proc \in {"down", "boot", "run"}
    /\ DOMAIN settings = Key
    /\ counted \in Nat /\ lost \subseteq Nat
    /\ net \in {"alive", "dead"}
    /\ db \in [online : BOOLEAN, active : BOOLEAN, count : Nat, stored : SUBSET Nat]
    /\ devices \in {"unknown", "online", "offline"}
    /\ sending \in {None, "start_pipeline", "stop_pipeline"}
    /\ missed \subseteq Nat
    /\ faults \in 0 .. MaxFaults /\ commands \in 0 .. MaxCommands
    /\ linked \in BOOLEAN /\ writer \in BOOLEAN /\ seeded \in BOOLEAN
    /\ unsaid \in BOOLEAN /\ drift \in BOOLEAN /\ stale \in BOOLEAN
    /\ unrecorded \in BOOLEAN

(* current_counts falls behind the history only while the counts that will *)
(* overtake it are on their way again, or were dropped: redelivery keeps   *)
(* the order, so the unconditional upsert of write_crowd_count ends right. *)
RewindHasCause ==
    db.stored # {} /\ db.count < Max(db.stored) =>
        Max(db.stored) \in Counts(Pending(up) \cup Pending(out)) \cup missed \cup lost

(* Once no status is under way, the backend takes the device for online    *)
(* exactly when it is connected: the will and the order of the statuses    *)
(* see to it.  Excused: a status that the database missed, and a shutdown  *)
(* whose own offline message stayed behind a full window.                  *)
StatusConverges ==
    /\ net = "alive" /\ ~ unsaid
    /\ Statuses(Pending(up)) = {}
    /\ linked => Statuses(Pending(out)) = {}
    => /\ devices # (IF linked THEN "offline" ELSE "online")
       /\ stale \/ ~ seeded \/ db.online = linked

(* When every command has been handled, stops.pipeline_active is what the  *)
(* device does, unless since the last start or stop was sent it restarted, *)
(* got another setting, never received the command or dropped it at its    *)
(* start, or the database missed it.                                       *)
PipelineFlagHasCause ==
    /\ down = << >> /\ sending = None
    /\ ~ drift /\ ~ unrecorded
    => db.active = settings.pipeline_active
=============================================================================
