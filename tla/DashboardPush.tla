---------------------------- MODULE DashboardPush ----------------------------
(***************************************************************************)
(* The live dashboard: PostgreSQL notifications, the coalescing timer, the *)
(* broadcast tasks and the WebSocket clients of the API server.  All of it *)
(* is one asyncio event loop, so a step runs from one await to the next;   *)
(* only the queries of a payload run in executor threads.                  *)
(*                                                                         *)
(* The database is the number of changes committed, a payload the number   *)
(* it has seen, at the first of its queries.  A Socket is one connection:  *)
(* a page that reconnects is a new one.                                    *)
(***************************************************************************)
EXTENDS Integers, Sequences, SequencesExt

CONSTANTS
    Socket,
    Slot,        \* bounds the broadcasts under way at the same time
    MaxChanges,  \* bound on committed changes
    MaxFaults    \* bound on builds that raise (no connection left in the pool)
                 \* and losses of the LISTEN connection

ASSUME BoundsAssumption == {MaxChanges, MaxFaults} \subseteq Nat

VARIABLES
    db,        \* changes committed
    listen,    \* the LISTEN connection: "connecting", "up" or "lost"
    notices,   \* notifications on their way, by the change they are about
    notified,  \* the latest change _on_notify was called for
    handle,    \* _coalesce_handle: "none", a "live" timer or one that has "fired"
    timers,    \* live timers
    task,      \* the _do_broadcast tasks
    clients,   \* ConnectionManager._clients
    ws,        \* how far the handler of a socket has come
    initial,   \* the payload it has built
    closed,    \* sockets closed by the page
    shown,     \* the payload the page shows
    (* history *)
    served,    \* the latest change a broadcast has read, or had no client for
    missed,    \* a change was committed and nobody was listening
    passedBy,  \* clients a broadcast passed by or whose payload went back
    failures, losses

feedVars == <<listen, notices, notified, missed, losses>>
timerVars == <<handle, timers>>
clientVars == <<clients, ws, initial, closed, shown>>
vars == <<db, feedVars, timerVars, task, clientVars, served, passedBy, failures>>

Version == 0 .. MaxChanges

Task == [pc : {"free", "scheduled", "building", "sending"}, payload : Version,
         pos : Nat \ {0}, reached : SUBSET Socket, stale : SUBSET Socket]

Free == [pc |-> "free", payload |-> 0, pos |-> 1, reached |-> {}, stale |-> {}]

Scheduled == [Free EXCEPT !.pc = "scheduled"]

Listed == ToSet(clients)

(* _clients.remove for every client of gone; one that is not in the list   *)
(* makes no difference.                                                    *)
Without(list, gone) ==
    LET kept[n \in 0 .. Len(list)] ==
          IF n = 0 THEN <<>>
          ELSE IF list[n] \in gone THEN kept[n - 1]
          ELSE Append(kept[n - 1], list[n])
    IN kept[Len(list)]

Init ==
    /\ db = 0
    /\ listen = "connecting" /\ notices = {} /\ notified = 0
    /\ missed = FALSE /\ losses = 0
    /\ handle = "none" /\ timers = 0
    /\ task = [s \in Slot |-> Free]
    /\ clients = <<>>
    /\ ws = [c \in Socket |-> "new"]
    /\ initial = [c \in Socket |-> 0]
    /\ closed = {}
    /\ shown = [c \in Socket |-> 0]
    /\ served = 0 /\ passedBy = {} /\ failures = 0

-----------------------------------------------------------------------------
(* The database and the LISTEN connection                                  *)

(* A writer commits, with a NOTIFY in the transaction.                     *)
Commit ==
    /\ db < MaxChanges
    /\ db' = db + 1
    /\ notices' = IF listen = "up" THEN notices \cup {db + 1} ELSE notices
    /\ missed' = (missed \/ listen # "up")
    /\ UNCHANGED <<listen, notified, losses, timerVars, task, clientVars, served,
                   passedBy, failures>>

(* asyncpg.connect and add_listener; a failed attempt is repeated.         *)
ListenConnects ==
    /\ listen = "connecting"
    /\ listen' = "up"
    /\ UNCHANGED <<db, notices, notified, missed, losses, timerVars, task,
                   clientVars, served, passedBy, failures>>

(* The connection breaks.  _listen_loop sleeps on and does not find out.   *)
ListenLost ==
    /\ listen = "up"
    /\ failures + losses < MaxFaults
    /\ losses' = losses + 1
    /\ listen' = "lost"
    /\ missed' = (missed \/ notices # {})
    /\ notices' = {}
    /\ UNCHANGED <<db, notified, timerVars, task, clientVars, served, passedBy,
                   failures>>

-----------------------------------------------------------------------------
(* Coalescing                                                              *)

NoNewTimer == IF handle = "live" THEN timers - 1 ELSE timers

(* cancel() ends the timer of the handle if it is still live.              *)
TimersAfterNotify == IF handle = "live" THEN timers ELSE timers + 1

_on_notify ==
    \E v \in notices :
        /\ \A other \in notices : v <= other
        /\ notices' = notices \ {v}
        /\ notified' = v
        /\ timers' = TimersAfterNotify
        /\ handle' = "live"
        /\ UNCHANGED <<db, listen, missed, losses, task, clientVars, served,
                       passedBy, failures>>

(* _schedule_broadcast.  Timers fire in the order they were set, the one   *)
(* the handle refers to last.                                              *)
_schedule_broadcast(s) ==
    /\ timers > 0
    /\ task[s].pc = "free"
    /\ timers' = timers - 1
    /\ handle' = IF handle = "live" /\ timers = 1 THEN "fired" ELSE handle
    /\ task' = [task EXCEPT ![s] = Scheduled]
    /\ UNCHANGED <<db, feedVars, clientVars, served, passedBy, failures>>

(* _do_broadcast up to its first await: the handle is forgotten, a timer   *)
(* set since the task was scheduled included.                              *)
StartBroadcast(s) ==
    /\ task[s].pc = "scheduled"
    /\ handle' = "none"
    /\ IF clients = <<>>
       THEN task' = [task EXCEPT ![s] = Free] /\ served' = db
       ELSE task' = [task EXCEPT ![s].pc = "building"] /\ UNCHANGED served
    /\ UNCHANGED <<db, feedVars, timers, clientVars, passedBy, failures>>

(* build_dashboard_payload in its thread, at the first query; then         *)
(* manager.broadcast has the payload.                                      *)
ReadDashboard(s) ==
    /\ task[s].pc = "building"
    /\ task' = [task EXCEPT ![s].pc = "sending", ![s].payload = db]
    /\ served' = db
    /\ UNCHANGED <<db, feedVars, timerVars, clientVars, passedBy, failures>>

(* It raises; the broadcast is logged as failed and not repeated.          *)
BuildFails(s) ==
    /\ task[s].pc = "building"
    /\ failures + losses < MaxFaults
    /\ failures' = failures + 1
    /\ task' = [task EXCEPT ![s] = Free]
    /\ UNCHANGED <<db, feedVars, timerVars, clientVars, served, passedBy>>

-----------------------------------------------------------------------------
(* ConnectionManager.broadcast                                             *)

(* The page shows what arrives last.                                       *)
Show(c, payload) ==
    /\ shown' = [shown EXCEPT ![c] = payload]
    /\ passedBy' = IF payload < shown[c] THEN passedBy \cup {c} ELSE passedBy

(* for ws in self._clients: the iterator is an index into the list, which  *)
(* others change while send_text is awaited.  Sending to a closed socket   *)
(* raises or is swallowed.                                                 *)
SendText(s) ==
    LET t == task[s]
        c == clients[t.pos]
    IN /\ t.pc = "sending"
       /\ t.pos <= Len(clients)
       /\ \/ c \notin closed /\ Show(c, t.payload)
          \/ c \in closed /\ UNCHANGED <<shown, passedBy>>
       /\ \E stale \in {t.stale, t.stale \cup (closed \cap {c})} :
            task' = [task EXCEPT ![s].pos = @ + 1, ![s].stale = stale,
                                 ![s].reached = @ \cup {c}]
       /\ UNCHANGED <<db, feedVars, timerVars, clients, ws, initial, closed,
                      served, failures>>

(* Clients in the list that get neither this payload nor a newer one.      *)
PassedBy(s) ==
    {c \in Listed \ (task[s].reached \cup closed) :
        \/ ws[c] = "built" /\ initial[c] < task[s].payload
        \/ ws[c] = "open" /\ shown[c] < task[s].payload}

(* The loop ends, and the stale clients are removed.                       *)
FinishBroadcast(s) ==
    /\ task[s].pc = "sending"
    /\ task[s].pos > Len(clients)
    /\ clients' = Without(clients, task[s].stale)
    /\ passedBy' = passedBy \cup PassedBy(s)
    /\ task' = [task EXCEPT ![s] = Free]
    /\ UNCHANGED <<db, feedVars, timerVars, ws, initial, closed, shown, served,
                   failures>>

-----------------------------------------------------------------------------
(* dashboard_ws                                                            *)

ConnectLate(c) ==
    /\ ws[c] = "new"
    /\ ws' = [ws EXCEPT ![c] = "building"]
    /\ UNCHANGED <<db, feedVars, timerVars, task, clients, initial, closed, shown,
                   served, passedBy, failures>>

(* manager.connect, up to the await of the initial build                   *)
Connect(c) ==
    /\ ws[c] = "new"
    /\ clients' = Append(clients, c)
    /\ ws' = [ws EXCEPT ![c] = "building"]
    /\ UNCHANGED <<db, feedVars, timerVars, task, initial, closed, shown, served,
                   passedBy, failures>>

ReadInitial(c) ==
    /\ ws[c] = "building"
    /\ ws' = [ws EXCEPT ![c] = "built"]
    /\ initial' = [initial EXCEPT ![c] = db]
    /\ UNCHANGED <<db, feedVars, timerVars, task, clients, closed, shown, served,
                   passedBy, failures>>

(* "Failed to send initial payload"                                        *)
InitialFails(c) ==
    /\ ws[c] = "building"
    /\ failures + losses < MaxFaults
    /\ failures' = failures + 1
    /\ ws' = [ws EXCEPT ![c] = "open"]
    /\ UNCHANGED <<db, feedVars, timerVars, task, clients, initial, closed, shown,
                   served, passedBy>>

SendInitial(c) ==
    /\ ws[c] = "built"
    /\ ws' = [ws EXCEPT ![c] = "open"]
    /\ \/ c \notin closed /\ Show(c, initial[c])
       \/ c \in closed /\ UNCHANGED <<shown, passedBy>>
    /\ initial' = [initial EXCEPT ![c] = 0]
    /\ UNCHANGED <<db, feedVars, timerVars, task, clients, closed, served, failures>>

(* The page goes away.                                                     *)
Close(c) ==
    /\ ws[c] \in {"building", "built", "open"}
    /\ c \notin closed
    /\ closed' = closed \cup {c}
    /\ shown' = [shown EXCEPT ![c] = 0]
    /\ passedBy' = passedBy \ {c}
    /\ UNCHANGED <<db, feedVars, timerVars, task, clients, ws, initial, served,
                   failures>>

LeaveListed(c) == clients' = clients

(* manager.disconnect; a broadcast may have removed the client before.     *)
RemoveClient(c) == clients' = Without(clients, {c})

(* receive_text raises.                                                    *)
Disconnect(c) ==
    /\ ws[c] = "open"
    /\ c \in closed
    /\ ws' = [ws EXCEPT ![c] = "gone"]
    /\ RemoveClient(c)
    /\ UNCHANGED <<db, feedVars, timerVars, task, initial, closed, shown, served,
                   passedBy, failures>>

-----------------------------------------------------------------------------
BroadcastStep(s) ==
    StartBroadcast(s) \/ ReadDashboard(s) \/ SendText(s)
      \/ FinishBroadcast(s)

HandlerStep(c) == ReadInitial(c) \/ SendInitial(c) \/ Disconnect(c)

Next ==
    \/ Commit \/ ListenConnects \/ ListenLost
    \/ _on_notify
    \/ \E s \in Slot : _schedule_broadcast(s) \/ BroadcastStep(s) \/ BuildFails(s)
    \/ \E c \in Socket : Connect(c) \/ HandlerStep(c) \/ InitialFails(c) \/ Close(c)

(* The event loop runs what is ready, timers fire, executor threads        *)
(* finish.  Nothing has to be committed, no page has to come or go.        *)
Fairness ==
    /\ WF_vars(ListenConnects) /\ WF_vars(_on_notify)
    /\ WF_vars(\E s \in Slot : _schedule_broadcast(s))
    /\ \A s \in Slot : WF_vars(BroadcastStep(s))
    /\ \A c \in Socket : WF_vars(HandlerStep(c))

Spec == Init /\ [][Next]_vars

FairSpec == Spec /\ Fairness

-----------------------------------------------------------------------------
(* Every variable keeps its type.                                          *)
TypeOK ==
    /\ db \in Version /\ served \in Version /\ notified \in Version
    /\ listen \in {"connecting", "up", "lost"}
    /\ notices \subseteq 1 .. MaxChanges
    /\ handle \in {"none", "live", "fired"}
    /\ timers \in Nat
    /\ task \in [Slot -> Task]
    /\ clients \in Seq(Socket)
    /\ ws \in [Socket -> {"new", "building", "built", "open", "gone"}]
    /\ initial \in [Socket -> Version] /\ shown \in [Socket -> Version]
    /\ closed \subseteq Socket /\ passedBy \subseteq Socket
    /\ missed \in BOOLEAN
    /\ failures \in 0 .. MaxFaults /\ losses \in 0 .. MaxFaults

(* A change that _on_notify was told of is never forgotten by cancelling   *)
(* and resetting timers and handle: until a broadcast has read it, or      *)
(* there is no client to tell, a timer is running or a broadcast that has  *)
(* not read the database yet is on its way.                                *)
ChangeIsPending ==
    failures = 0 /\ notified > served
        => timers > 0 \/ \E s \in Slot : task[s].pc \in {"scheduled", "building"}

Quiet ==
    /\ notices = {} /\ timers = 0
    /\ \A s \in Slot : task[s].pc = "free"
    /\ \A c \in Socket : ws[c] \notin {"building", "built"}

(* What makes a dashboard stay behind the database: when all has settled,  *)
(* an open page shows the latest state of what writers announce, unless a  *)
(* change was not heard of, a build failed, or a broadcast passed the page *)
(* by or overtook an older payload.  In particular registering a client    *)
(* before its initial payload is built loses nothing.                      *)
StaleHasCause ==
    Quiet /\ ~missed /\ failures = 0
        => \A c \in Socket : ws[c] = "open" /\ c \notin closed /\ c \notin passedBy
                                => shown[c] = db

(* Only clients whose handler is running are in the list, each once, and   *)
(* an open page is in it: neither of the two that remove clients, the      *)
(* broadcast and the client's own handler, removes the wrong one.          *)
ListIsAccurate ==
    /\ \A c \in Listed : ws[c] \in {"building", "built", "open"}
    /\ \A i, j \in 1 .. Len(clients) : clients[i] = clients[j] => i = j
    /\ \A c \in Socket : ws[c] = "open" /\ c \notin closed => c \in Listed

(* Every notification leads to a broadcast of that state or a newer one,   *)
(* unless a build fails or the connection is lost.                         *)
ChangeIsServed ==
    \A v \in 1 .. MaxChanges :
        v \in notices ~> served >= v \/ failures > 0 \/ losses > 0
=============================================================================
