----------------------------- MODULE EdgeClient ------------------------------
(***************************************************************************)
(* The MQTT client of an edge device (comms.py, main.py): what the process *)
(* publishes, what it does with admin commands, and what becomes of both   *)
(* when the connection or the process is lost.                             *)
(*                                                                         *)
(* The threads behind the counts are EdgePipeline's; here a count may come *)
(* whenever the process runs, each newer than the one before.  Log entries *)
(* and images, which nothing here depends on, are left out.                *)
(***************************************************************************)
EXTENDS MqttLink, EdgeSettings

CONSTANT MaxCounts   \* bound on counts

ASSUME ClientAssumption == {MaxCounts, Inflight, MaxFaults} \subseteq Nat

VARIABLES
    proc,      \* "down", "boot" (callbacks not wired), "run"
    settings,  \* RuntimeSettings
    counted,   \* counts published
    (* history *)
    lost,      \* counts a process ended with, not delivered
    unsaid,    \* the last process ended and its offline status was never sent
    drift      \* something other than the last start or stop sent has had its
               \* say in what the device does

clientVars == <<proc, settings, counted, lost, unsaid, drift>>

ClientInit ==
    /\ proc = "down" /\ settings = Defaults /\ counted = 0
    /\ lost = {} /\ unsaid = FALSE /\ drift = TRUE

-----------------------------------------------------------------------------
(* The process                                                             *)

(* connect and loop_start; _on_connect says that the device is online.     *)
Boot ==
    /\ proc = "down"
    /\ proc' = "boot"
    /\ linked' = TRUE
    /\ out' = Publish(EmptyLink, Online)
    /\ settings' = Defaults
    /\ unsaid' = FALSE
    /\ drift' = TRUE
    /\ UNCHANGED <<up, retained, down, faults, counted, lost>>

(* The callbacks are wired and the threads started.                        *)
Wire ==
    /\ proc = "boot"
    /\ proc' = "run"
    /\ UNCHANGED <<linkVars, faults, settings, counted, lost, unsaid, drift>>

(* send_crowd_count                                                        *)
SendCount ==
    /\ proc = "run"
    /\ counted < MaxCounts
    /\ counted' = counted + 1
    /\ out' = Publish(out, Count(counted'))
    /\ UNCHANGED <<linked, up, retained, down, faults, proc, settings, lost, unsaid, drift>>

ReceiveAdmin ==
    /\ proc = "run" /\ linked
    /\ down # << >>
    /\ LET c == Head(down)
       IN /\ settings' = HandleAdmin(settings, c)
          /\ drift' = \/ drift
                      \/ /\ settings'.pipeline_active # settings.pipeline_active
                         /\ ~ IsSwitch(c)
    /\ down' = Tail(down)
    /\ UNCHANGED <<linked, out, up, retained, faults, proc, counted, lost, unsaid>>

(* The client is connected before set_admin_callback: a command that comes *)
(* in between is dropped, without a word.                                  *)
DropAdmin ==
    /\ proc = "boot" /\ linked
    /\ down # << >>
    /\ down' = Tail(down)
    /\ drift' = (drift \/ IsSwitch(Head(down)))
    /\ UNCHANGED <<linked, out, up, retained, faults, proc, settings, counted, lost,
                   unsaid>>

NoWill == << >>

(* will_set: what the broker publishes when the connection is lost.        *)
Will == <<Offline>>

(* What the client has not sent is gone with it.                           *)
ProcessEnds(sent) ==
    /\ proc' = "down"
    /\ linked' = FALSE
    /\ out' = EmptyLink
    /\ lost' = lost \cup (Counts(Pending(out)) \ Counts({sent[i] : i \in 1 .. Len(sent)}))
    /\ UNCHANGED <<settings, counted>>

(* disconnect: the offline status is published and the connection closed   *)
(* at once, which withdraws the will.  What does not fit in the window     *)
(* beside the n messages not yet acknowledged is never sent.               *)
Disconnect(n) ==
    /\ proc = "run"
    /\ Fault
    /\ LET said == Append(out.queue, Offline)
           sent == IF linked THEN SubSeq(said, 1, Min({Inflight - n, Len(said)})) ELSE << >>
       IN /\ ProcessEnds(sent)
          /\ Arrive(sent)
          /\ unsaid' = (linked /\ sent # said)
    /\ UNCHANGED <<down, drift>>

(* The broker publishes the will.  The command that was being delivered    *)
(* may be lost with the client's memory.                                   *)
Crash ==
    /\ proc # "down"
    /\ Fault
    /\ ProcessEnds(<< >>)
    /\ IF linked THEN Arrive(Will) ELSE UNCHANGED <<up, retained>>
    /\ \/ UNCHANGED <<down, drift>>
       \/ /\ linked /\ down # << >>
          /\ down' = Tail(down)
          /\ drift' = TRUE
    /\ UNCHANGED unsaid

-----------------------------------------------------------------------------
(* The connection                                                          *)

Transmit ==
    /\ linked
    /\ Waiting(out)
    /\ out' = Deliver(out)
    /\ Arrive(<<Head(out.queue)>>)
    /\ UNCHANGED <<linked, down, faults, clientVars>>

LoseLink ==
    /\ linked
    /\ Fault
    /\ linked' = FALSE
    /\ Arrive(Will)
    /\ UNCHANGED <<out, down, clientVars>>

Reconnect(n) ==
    /\ ~ linked /\ proc # "down"
    /\ linked' = TRUE
    /\ out' = ResumeWith(out, n, Online)
    /\ UNCHANGED <<up, retained, down, faults, clientVars>>

EdgeNext ==
    \/ Boot \/ Wire \/ SendCount \/ ReceiveAdmin \/ DropAdmin \/ Crash
    \/ Transmit \/ LoseLink
    \/ \E n \in 0 .. Len(out.recent) : Disconnect(n) \/ Reconnect(n)
=============================================================================
