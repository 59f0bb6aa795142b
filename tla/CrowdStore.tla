----------------------------- MODULE CrowdStore ------------------------------
(***************************************************************************)
(* BrokerHandler and the DatabaseWriter methods it calls, for one device:  *)
(* the paho network thread handles telemetry and stores it, the command    *)
(* loop sends admin commands and records them.  Every writer method is one *)
(* transaction, and swallows what it raises.                               *)
(*                                                                         *)
(* Left out: log entries and the audit of the commands (rows that are only *)
(* added and that nothing here reads), and the images that are saved.      *)
(***************************************************************************)
EXTENDS MqttLink

CONSTANTS
    Commands,     \* the admin commands that are sent
    MaxCommands   \* bound on their number

ASSUME StoreAssumption == MaxCommands \in Nat

VARIABLES
    net,       \* the paho network thread: "alive" or "dead"
    writer,    \* _db_writer exists
    seeded,    \* the stops table has a row for the device
    db,        \* its rows: stops (online, active), current_counts (count)
               \* and the counts that crowd_count has stored
    devices,   \* _devices: "unknown", "online" or "offline"
    sending,   \* the switch send_admin has published and not yet recorded
    commands,  \* commands sent
    (* history *)
    missed,    \* counts handled last without being stored
    stale,     \* the last status handled was not stored
    unrecorded \* the last switch was not recorded

storeVars == <<net, writer, seeded, db, devices, missed, stale>>
adminVars == <<sending, commands, unrecorded>>

None == "none"
NoCount == 0

(* The schema's defaults.                                                  *)
NewStop == [online |-> FALSE, active |-> FALSE, count |-> NoCount, stored |-> {}]

StoreInit ==
    /\ net = "alive" /\ writer = TRUE
    /\ seeded \in BOOLEAN
    /\ db = NewStop
    /\ devices = "unknown"
    /\ sending = None /\ commands = 0
    /\ missed = {} /\ stale = FALSE /\ unrecorded = FALSE

-----------------------------------------------------------------------------
(* The network thread: _on_message.                                         *)

(* _resolve_stop_id: a device that is not in the cache is looked up again. *)
Resolves == seeded

(* write_crowd_count: the upsert takes whatever comes.                     *)
WriteOnce(n) ==
    [db EXCEPT !.stored = @ \cup {n}, !.count = IF @ = NoCount THEN n ELSE @]

WriteCrowdCount(n) ==
    [db EXCEPT !.stored = @ \cup {n}, !.count = n]

(* upsert_stop updates the row, if there is one.                           *)
UpsertStop(online) == IF seeded THEN [db EXCEPT !.online = online] ELSE db

Receive(topic) ==
    /\ net = "alive"
    /\ Waiting(up) /\ Head(up.queue).topic = topic
    /\ up' = Deliver(up)
    /\ UNCHANGED <<linked, out, retained, down, net, writer, seeded, adminVars>>

(* The database is not used, or raises.                                    *)
Unwritten(usable) ==
    /\ \/ ~ usable /\ UNCHANGED faults
       \/ usable /\ Fault
    /\ UNCHANGED db

HandleCrowdCount ==
    /\ Receive("crowdCount")
    /\ LET n == Head(up.queue).of
       IN \/ /\ writer /\ Resolves
             /\ db' = WriteCrowdCount(n)
             /\ missed' = missed \ {n}
             /\ UNCHANGED faults
          \/ /\ Unwritten(writer /\ Resolves)
             /\ missed' = missed \cup {n}
    /\ UNCHANGED <<devices, stale>>

HandleStatus ==
    /\ Receive("status")
    /\ LET online == Head(up.queue) = Online
       IN /\ devices' = IF online THEN "online" ELSE "offline"
          /\ \/ /\ writer
                /\ db' = UpsertStop(online)
                /\ stale' = ~ seeded
                /\ UNCHANGED faults
             \/ Unwritten(writer) /\ stale' = TRUE
    /\ UNCHANGED missed

(* An image, of this device or of another, is written to its file outside  *)
(* any try: an error there ends the network thread.  The process goes on,  *)
(* so the supervisor sees nothing.                                         *)
HandleImageRaises ==
    /\ net = "alive"
    /\ Fault
    /\ net' = "dead"
    /\ UNCHANGED <<linkVars, writer, seeded, db, devices, missed, stale, adminVars>>

-----------------------------------------------------------------------------
(* The connection to the broker, the process and the database              *)

(* _on_connect subscribes again, for which the broker sends the retained   *)
(* status again.                                                           *)
Resubscribe ==
    \E n \in 0 .. Len(up.recent) : up' = Publish(Resume(up, n), retained)

ReconnectBackend ==
    /\ net = "alive"
    /\ Fault
    /\ Resubscribe
    /\ UNCHANGED <<linked, out, retained, down, storeVars, adminVars>>

(* The supervisor starts the process again.  When the pool does not open   *)
(* the handler runs without a writer for as long as it lives.              *)
RestartBackend ==
    /\ Fault
    /\ Resubscribe
    /\ net' = "alive"
    /\ writer' \in BOOLEAN
    /\ devices' = "unknown"
    /\ sending' = None
    /\ unrecorded' = (unrecorded \/ sending # None)
    /\ UNCHANGED <<linked, out, retained, down, seeded, db, commands, missed, stale>>

(* seed.py inserts the stop.                                               *)
Seed ==
    /\ ~ seeded
    /\ seeded' = TRUE
    /\ UNCHANGED <<linkVars, net, writer, db, devices, missed, stale, adminVars, faults>>

-----------------------------------------------------------------------------
(* The command loop: send_admin                                            *)

RecordedStop(c) == c.action = "stop_pipeline"

Recorded(c) == c.action \in {"start_pipeline", "stop_pipeline"}

(* publish only queues the command: it never leaves when the network       *)
(* thread is dead, or when the process ends before the client is connected *)
(* again.  The record of it does not wait for that.                        *)
SendAdmin(c) ==
    /\ sending = None
    /\ commands < MaxCommands
    /\ commands' = commands + 1
    /\ \/ net = "alive" /\ down' = Append(down, c) /\ UNCHANGED faults
       \/ net = "alive" /\ Fault /\ UNCHANGED down
       \/ net = "dead" /\ UNCHANGED <<down, faults>>
    /\ sending' = IF writer /\ Recorded(c) THEN c.action ELSE None
    /\ unrecorded' = IF Recorded(c) THEN ~ writer ELSE unrecorded
    /\ UNCHANGED <<linked, out, up, retained, storeVars>>

Wanted == sending = "start_pipeline"

(* update_pipeline_active                                                  *)
RecordSwitch ==
    /\ sending # None
    /\ sending' = None
    /\ \/ /\ db' = IF seeded THEN [db EXCEPT !.active = Wanted] ELSE db
          /\ unrecorded' = ~ seeded
          /\ UNCHANGED faults
       \/ Unwritten(TRUE) /\ unrecorded' = TRUE
    /\ UNCHANGED <<linkVars, net, writer, seeded, devices, commands, missed, stale>>

StoreNext ==
    \/ HandleCrowdCount \/ HandleStatus \/ HandleImageRaises
    \/ ReconnectBackend \/ RestartBackend \/ Seed
    \/ RecordSwitch
=============================================================================
