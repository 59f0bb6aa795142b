---------------------------- MODULE EdgeSettings -----------------------------
(***************************************************************************)
(* RuntimeSettings and handle_admin: what an admin command makes of the    *)
(* settings.  A command carries the changes of update_config in the order  *)
(* of the dictionary.                                                      *)
(***************************************************************************)
EXTENDS Integers, Sequences, FiniteSetsExt

(* The key that stops the pipeline, and one of those float() converts.     *)
Key == {"pipeline_active", "capture_interval"}
Bad == -1
Defaults == [pipeline_active |-> TRUE, capture_interval |-> 10]

Command(action, changes) == [action |-> action, changes |-> changes]
Change(key, value) == [key |-> key, value |-> value]

(* update makes a Boolean of the value of pipeline_active, and json a       *)
(* dictionary of the changes.                                              *)
IsCommand(c) ==
    \A i \in 1 .. Len(c.changes) :
        c.changes[i].key = "pipeline_active" => c.changes[i].value \in BOOLEAN

StopPipeline == Command("stop_pipeline", << >>)
StartPipeline == Command("start_pipeline", << >>)
Pause == Command("update_config", <<Change("pipeline_active", FALSE)>>)
PauseBadly == Command("update_config", <<Change("pipeline_active", FALSE),
                                         Change("capture_interval", Bad)>>)
Retune == Command("update_config", <<Change("unknown", Bad), Change("capture_interval", 5)>>)
Status == Command("status", << >>)
Unknown == Command("unknown", << >>)

IsSwitch(c) == c.action \in {"start_pipeline", "stop_pipeline"}

(* float() raises.                                                         *)
Raises(c) == c.key = "capture_interval" /\ c.value = Bad

(* RuntimeSettings.update: keys are converted and set one after another,   *)
(* so those before a value that raises are set, and unknown keys skipped.  *)
Update(settings, changes) ==
    [k \in Key |->
        LET at == {i \in 1 .. Len(changes) :
                      /\ changes[i].key = k
                      /\ \A j \in 1 .. i : ~ Raises(changes[j])}
        IN IF at = {} THEN settings[k] ELSE changes[Max(at)].value]

(* handle_admin: the settings it leaves; restart and status are            *)
(* placeholders.                                                           *)
HandleAdmin(settings, c) ==
    CASE c.action = "update_config" -> Update(settings, c.changes)
      [] c.action = "stop_pipeline" -> [settings EXCEPT !.pipeline_active = FALSE]
      [] c.action = "start_pipeline" -> [settings EXCEPT !.pipeline_active = TRUE]
      [] OTHER -> settings
=============================================================================
