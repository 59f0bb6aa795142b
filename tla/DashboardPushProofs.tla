------------------------- MODULE DashboardPushProofs -------------------------
(***************************************************************************)
(* The dashboard push, for any sockets, any number of broadcasts under     *)
(* way, changes and faults: the coalescing timer forgets no change, the    *)
(* list of clients is accurate, and a page that is behind has a cause.     *)
(***************************************************************************)
EXTENDS DashboardPush, WellFoundedInduction, TLAPS

Field == {"pc", "payload", "pos", "reached", "stale"}

IsTask(t) == t = [f \in Field |-> t[f]]

(* The part of the type invariant the argument needs.                      *)
Shape ==
    /\ db \in Nat /\ served \in Nat /\ notified \in Nat /\ timers \in Nat
    /\ failures \in Nat
    /\ notices \subseteq 1 .. db
    /\ task = [s \in Slot |-> task[s]]
    /\ \A s \in Slot : IsTask(task[s])

(* No notification is ahead of the database, and a handle that is live has *)
(* its timer.                                                              *)
Bookkeeping ==
    /\ notified <= db
    /\ handle = "live" => timers > 0

IInv == Shape /\ Bookkeeping /\ ChangeIsPending

(* The initial state satisfies the invariant.                              *)
LEMMA InitIInv == Init => IInv
  BY DEF Init, IInv, Shape, Bookkeeping, ChangeIsPending, IsTask, Field, Free

(* What an update of one task does to the others, and to its pc.           *)
LEMMA ReplacedTask ==
    ASSUME Shape, NEW s \in Slot, NEW t, IsTask(t), task' = [task EXCEPT ![s] = t]
    PROVE  /\ task' = [r \in Slot |-> task'[r]]
           /\ \A r \in Slot : IsTask(task'[r])
           /\ task'[s].pc = t.pc
           /\ \A r \in Slot : r # s => task'[r].pc = task[r].pc
  BY DEF Shape, IsTask

(* Every step keeps the invariant: a timer that fires becomes a broadcast  *)
(* that has still to read, and a broadcast reads all there is.             *)
LEMMA NextIInv == IInv /\ [Next]_vars => IInv'
<1> SUFFICES ASSUME IInv, [Next]_vars PROVE IInv'
  OBVIOUS
<1> USE DEF IInv, Shape, Bookkeeping, ChangeIsPending
<1>1. CASE Commit
  <2>1. db' = db + 1 /\ db' \in Nat /\ notices' \subseteq 1 .. db'
    BY <1>1 DEF Commit
  <2> QED
    BY <1>1, <2>1 DEF Commit, timerVars
<1>2. CASE ListenConnects
  BY <1>2 DEF ListenConnects, timerVars
<1>3. CASE ListenLost
  BY <1>3 DEF ListenLost, timerVars
<1>4. CASE _on_notify
  <2>1. PICK v \in notices :
          /\ notices' = notices \ {v} /\ notified' = v
          /\ timers' = TimersAfterNotify /\ handle' = "live"
          /\ UNCHANGED <<db, listen, missed, losses, task, clientVars, served,
                         passedBy, failures>>
    BY <1>4 DEF _on_notify
  <2>2. v \in Nat /\ v <= db
    OBVIOUS
  <2>3. timers' \in Nat /\ timers' > 0
    BY <2>1 DEF TimersAfterNotify
  <2> QED
    BY <2>1, <2>2, <2>3
<1>5. ASSUME NEW s \in Slot, _schedule_broadcast(s) PROVE IInv'
  <2>1. IsTask(Scheduled) /\ Scheduled.pc = "scheduled"
    BY DEF IsTask, Field, Scheduled, Free
  <2>2. task' = [task EXCEPT ![s] = Scheduled]
    BY <1>5 DEF _schedule_broadcast
  <2>3. Shape'
    BY <1>5, <2>1, <2>2, ReplacedTask DEF _schedule_broadcast, feedVars
  <2>4. task'[s].pc = "scheduled"
    BY <2>1, <2>2, ReplacedTask
  <2> QED
    BY <1>5, <2>3, <2>4 DEF _schedule_broadcast, feedVars
<1>6. ASSUME NEW s \in Slot, StartBroadcast(s) PROVE IInv'
  <2>1. CASE clients = <<>>
    <3>1. task' = [task EXCEPT ![s] = Free] /\ served' = db
      BY <1>6, <2>1 DEF StartBroadcast
    <3>2. IsTask(Free)
      BY DEF IsTask, Field, Free
    <3>3. Shape'
      BY <1>6, <3>1, <3>2, ReplacedTask DEF StartBroadcast, feedVars
    <3> QED
      BY <1>6, <3>1, <3>3 DEF StartBroadcast, feedVars
  <2>2. CASE clients # <<>>
    <3> DEFINE t == [task[s] EXCEPT !.pc = "building"]
    <3>1. task' = [task EXCEPT ![s] = t] /\ served' = served
      BY <1>6, <2>2 DEF StartBroadcast
    <3>2. IsTask(t) /\ t.pc = "building"
      BY DEF IsTask, Field
    <3> HIDE DEF t
    <3>3. Shape' /\ task'[s].pc = "building"
      BY <1>6, <3>1, <3>2, ReplacedTask DEF StartBroadcast, feedVars
    <3> QED
      BY <1>6, <3>1, <3>3 DEF StartBroadcast, feedVars
  <2> QED
    BY <2>1, <2>2
<1>7. ASSUME NEW s \in Slot, ReadDashboard(s) PROVE IInv'
  <2> DEFINE t == [task[s] EXCEPT !.pc = "sending", !.payload = db]
  <2>1. task' = [task EXCEPT ![s] = t]
    BY <1>7 DEF ReadDashboard, IsTask, Field
  <2>2. IsTask(t)
    BY DEF IsTask, Field
  <2> HIDE DEF t
  <2>3. Shape'
    BY <1>7, <2>1, <2>2, ReplacedTask DEF ReadDashboard, feedVars, timerVars
  <2> QED
    BY <1>7, <2>3 DEF ReadDashboard, feedVars, timerVars
<1>8. ASSUME NEW s \in Slot, BuildFails(s) PROVE IInv'
  <2>1. IsTask(Free)
    BY DEF IsTask, Field, Free
  <2>2. task' = [task EXCEPT ![s] = Free] /\ failures' = failures + 1
    BY <1>8 DEF BuildFails
  <2>3. Shape'
    BY <1>8, <2>1, <2>2, ReplacedTask DEF BuildFails, feedVars, timerVars
  <2> QED
    BY <1>8, <2>2, <2>3 DEF BuildFails, feedVars, timerVars
<1>9. ASSUME NEW s \in Slot, SendText(s) PROVE IInv'
  <2>1. PICK stale : task' = [task EXCEPT ![s].pos = @ + 1, ![s].stale = stale,
                              ![s].reached = @ \cup {clients[task[s].pos]}]
    BY <1>9 DEF SendText
  <2> DEFINE t == [task[s] EXCEPT !.pos = @ + 1, !.stale = stale,
                                  !.reached = @ \cup {clients[task[s].pos]}]
  <2>2. task' = [task EXCEPT ![s] = t]
    BY <2>1 DEF IsTask, Field
  <2>3. IsTask(t) /\ t.pc = task[s].pc
    BY DEF IsTask, Field
  <2> HIDE DEF t
  <2>4. Shape' /\ \A r \in Slot : task'[r].pc = task[r].pc
    BY <1>9, <2>2, <2>3, ReplacedTask DEF SendText, feedVars, timerVars
  <2> QED
    BY <1>9, <2>4 DEF SendText, feedVars, timerVars
<1>10. ASSUME NEW s \in Slot, FinishBroadcast(s) PROVE IInv'
  <2>1. IsTask(Free)
    BY DEF IsTask, Field, Free
  <2>2. task' = [task EXCEPT ![s] = Free] /\ task[s].pc = "sending"
    BY <1>10 DEF FinishBroadcast
  <2>3. Shape' /\ \A r \in Slot : r # s => task'[r].pc = task[r].pc
    BY <1>10, <2>1, <2>2, ReplacedTask DEF FinishBroadcast, feedVars, timerVars
  <2> QED
    BY <1>10, <2>2, <2>3 DEF FinishBroadcast, feedVars, timerVars
<1>11. ASSUME NEW c \in Socket, Connect(c) \/ HandlerStep(c) \/ Close(c) PROVE IInv'
  BY <1>11 DEF Connect, HandlerStep, ReadInitial, SendInitial, Disconnect, Close,
     feedVars, timerVars
<1>12. ASSUME NEW c \in Socket, InitialFails(c) PROVE IInv'
  BY <1>12 DEF InitialFails, feedVars, timerVars
<1>13. CASE UNCHANGED vars
  BY <1>13 DEF vars, feedVars, timerVars
<1> QED
  BY <1>1, <1>2, <1>3, <1>4, <1>5, <1>6, <1>7, <1>8, <1>9, <1>10, <1>11, <1>12, <1>13
     DEF Next, BroadcastStep

(* _on_notify, the timer, _do_broadcast and the handle they share never    *)
(* lose a change that was notified.                                        *)
THEOREM NoChangeForgotten == Spec => []ChangeIsPending
<1>1. IInv => ChangeIsPending
  BY DEF IInv
<1> QED
  BY <1>1, InitIInv, NextIInv, PTL DEF Spec
-----------------------------------------------------------------------------
(* Removing clients from the list                                          *)

(* Every non-empty set of natural numbers has a least element.             *)
LEMMA LeastNatural ==
    ASSUME NEW C \in SUBSET Nat, C # {}
    PROVE  \E m \in C : \A n \in C : m <= n
<1> DEFINE less == OpToRel(<, Nat)
<1>1. IsWellFoundedOn(less, Nat)
  BY NatLessThanWellFounded
<1>2. \A n, m \in Nat : n < m => <<n, m>> \in less
  BY Zenon DEF OpToRel
<1> HIDE DEF less
<1>3. PICK m \in C : \A n \in C : ~ (<<n, m>> \in less)
  BY <1>1, WFMin
<1>4. \A n \in C : ~ (n < m)
  BY <1>2, <1>3
<1> QED BY <1>4

(* kept collects what is left of the first n clients of the list.          *)
Keeps(kept, list, gone, n) ==
    kept = [k \in 0 .. n |->
              IF k = 0 THEN <<>>
              ELSE IF list[k] \in gone THEN kept[k - 1]
              ELSE Append(kept[k - 1], list[k])]

(* Without is defined by it, if there is such a function.                  *)
LEMMA WithoutIsKept ==
    ASSUME NEW list, NEW gone
    PROVE  Without(list, gone)
             = (CHOOSE kept : Keeps(kept, list, gone, Len(list)))[Len(list)]
BY DEF Without, Keeps

(* There is such a function, for every part of the list.                   *)
LEMMA KeptExists ==
    ASSUME NEW list, NEW gone, NEW len \in Nat
    PROVE  \E kept : Keeps(kept, list, gone, len)
<1> DEFINE bad == {n \in Nat : ~ \E kept : Keeps(kept, list, gone, n)}
<1> SUFFICES ASSUME bad # {} PROVE FALSE
  OBVIOUS
<1>1. PICK m \in bad : \A n \in bad : m <= n
  <2>1. bad \in SUBSET Nat
    OBVIOUS
  <2> HIDE DEF bad
  <2> QED BY <2>1, LeastNatural
<1>2. CASE m = 0
  <2> DEFINE kept == [k \in 0 .. 0 |-> <<>>]
  <2>1. Keeps(kept, list, gone, 0)
    BY DEF Keeps
  <2> QED BY <1>2, <2>1
<1>3. CASE m # 0
  <2>1. m \in Nat /\ m - 1 \in Nat /\ m - 1 \notin bad
    BY <1>1, <1>3
  <2>2. PICK kept : Keeps(kept, list, gone, m - 1)
    BY <2>1
  <2> DEFINE more == [k \in 0 .. m |->
                        IF k = 0 THEN <<>>
                        ELSE IF list[k] \in gone THEN kept[k - 1]
                        ELSE Append(kept[k - 1], list[k])]
  <2>3. \A k \in 0 .. m - 1 :
            kept[k] = IF k = 0 THEN <<>>
                      ELSE IF list[k] \in gone THEN kept[k - 1]
                      ELSE Append(kept[k - 1], list[k])
    BY <2>2 DEF Keeps
  <2>4. \A k \in 0 .. m - 1 : more[k] = kept[k]
    BY <2>1, <2>3
  <2>5. \A k \in 0 .. m : k # 0 => k - 1 \in 0 .. m - 1
    BY <2>1
  <2>6. Keeps(more, list, gone, m)
    BY <2>4, <2>5 DEF Keeps
  <2> QED BY <1>1, <2>6
<1> QED BY <1>2, <1>3

(* What is left of the first n clients: those of them that are not gone,   *)
(* each as often as before if it was there once.                           *)
IsRest(rest, list, gone, n) ==
    /\ rest \in Seq(Socket)
    /\ \A i \in 1 .. Len(rest) :
          rest[i] \notin gone /\ \E k \in 1 .. n : list[k] = rest[i]
    /\ \A k \in 1 .. n :
          list[k] \notin gone => \E i \in 1 .. Len(rest) : rest[i] = list[k]
    /\ (\A j, k \in 1 .. n : list[j] = list[k] => j = k)
         => \A i, j \in 1 .. Len(rest) : rest[i] = rest[j] => i = j

(* One client more of the list.                                            *)
LEMMA RestGrows ==
    ASSUME NEW list \in Seq(Socket), NEW gone, NEW n \in Nat, n < Len(list),
           NEW rest, IsRest(rest, list, gone, n)
    PROVE  IsRest(IF list[n + 1] \in gone THEN rest ELSE Append(rest, list[n + 1]),
                  list, gone, n + 1)
<1> USE DEF IsRest
<1>0. n + 1 \in 1 .. Len(list) /\ list[n + 1] \in Socket
  OBVIOUS
<1>a. \A k \in 1 .. n + 1 : k \in 1 .. n \/ k = n + 1
  OBVIOUS
<1>b. \A k \in 1 .. n : k \in 1 .. n + 1
  OBVIOUS
<1>1. CASE list[n + 1] \in gone
  BY <1>1, <1>a, <1>b
<1>2. CASE list[n + 1] \notin gone
  <2> DEFINE x == list[n + 1]
             longer == Append(rest, x)
  <2>1. /\ longer \in Seq(Socket) /\ Len(longer) = Len(rest) + 1
        /\ Len(rest) \in Nat
        /\ \A i \in 1 .. Len(rest) : longer[i] = rest[i]
        /\ longer[Len(rest) + 1] = x
    BY <1>0
  <2> HIDE DEF longer
  <2>2. \A i \in 1 .. Len(longer) : i \in 1 .. Len(rest) \/ i = Len(rest) + 1
    BY <2>1
  <2>3. \A i \in 1 .. Len(rest) : i \in 1 .. Len(longer)
    BY <2>1
  <2>3a. Len(rest) + 1 \in 1 .. Len(longer)
    BY <2>1
  <2>4. \A i \in 1 .. Len(longer) :
          longer[i] \notin gone /\ \E k \in 1 .. n + 1 : list[k] = longer[i]
    <3>1. ASSUME NEW i \in 1 .. Len(rest)
          PROVE  longer[i] \notin gone /\ \E k \in 1 .. n + 1 : list[k] = longer[i]
      BY <1>b, <2>1
    <3>2. longer[Len(rest) + 1] \notin gone /\ \E k \in 1 .. n + 1 : list[k] = longer[Len(rest) + 1]
      <4>1. n + 1 \in 1 .. n + 1
        OBVIOUS
      <4> QED BY <1>2, <2>1, <4>1
    <3> QED BY <2>2, <3>1, <3>2
  <2>5. \A k \in 1 .. n + 1 :
          list[k] \notin gone => \E i \in 1 .. Len(longer) : longer[i] = list[k]
    <3>1. ASSUME NEW k \in 1 .. n, list[k] \notin gone
          PROVE  \E i \in 1 .. Len(longer) : longer[i] = list[k]
      BY <2>1, <2>3, <3>1
    <3> QED BY <1>a, <2>1, <2>3a, <3>1
  <2>6. ASSUME \A j, k \in 1 .. n + 1 : list[j] = list[k] => j = k
        PROVE  \A i, j \in 1 .. Len(longer) : longer[i] = longer[j] => i = j
    <3>1. \A i, j \in 1 .. Len(rest) : rest[i] = rest[j] => i = j
      BY <1>b, <2>6
    <3>2. \A i \in 1 .. Len(rest) : rest[i] # x
      <4>1. \A k \in 1 .. n : list[k] # x
        BY <2>6
      <4> QED BY <4>1
    <3> QED BY <2>1, <2>2, <3>1, <3>2
  <2> QED BY <1>2, <2>1, <2>4, <2>5, <2>6 DEF longer
<1> QED BY <1>1, <1>2

(* Removing clients from the list takes out those clients and no others,   *)
(* and brings none in twice.                                               *)
LEMMA WithoutFacts ==
    ASSUME NEW list \in Seq(Socket), NEW gone
    PROVE  IsRest(Without(list, gone), list, gone, Len(list))
<1> DEFINE len == Len(list)
<1>1. len \in Nat
  OBVIOUS
<1>2. PICK kept : /\ Keeps(kept, list, gone, len)
                  /\ Without(list, gone) = kept[len]
  BY <1>1, KeptExists, WithoutIsKept
<1>3. \A k \in 0 .. len :
          kept[k] = IF k = 0 THEN <<>>
                    ELSE IF list[k] \in gone THEN kept[k - 1]
                    ELSE Append(kept[k - 1], list[k])
  BY <1>2 DEF Keeps
<1> DEFINE bad == {n \in 0 .. len : ~ IsRest(kept[n], list, gone, n)}
<1> SUFFICES ASSUME bad # {} PROVE FALSE
  BY <1>1, <1>2
<1>4. PICK m \in bad : \A n \in bad : m <= n
  <2>1. bad \in SUBSET Nat
    BY <1>1
  <2> HIDE DEF bad
  <2> QED BY <2>1, LeastNatural
<1>5. CASE m = 0
  <2>1. kept[0] = <<>>
    BY <1>1, <1>3
  <2>2. IsRest(<<>>, list, gone, 0)
    BY DEF IsRest
  <2> QED BY <1>4, <1>5, <2>1, <2>2
<1>6. CASE m # 0
  <2>1. m - 1 \in Nat /\ m - 1 \in 0 .. len /\ m - 1 < len /\ (m - 1) + 1 = m
    BY <1>1, <1>4, <1>6
  <2>2. IsRest(kept[m - 1], list, gone, m - 1)
    BY <1>4, <2>1
  <2>3. kept[m] = IF list[m] \in gone THEN kept[m - 1]
                  ELSE Append(kept[m - 1], list[m])
    BY <1>3, <1>4, <1>6
  <2>4. PICK p \in Nat : p = m - 1 /\ p < len /\ p + 1 = m
    BY <2>1
  <2>5. IsRest(kept[m], list, gone, m)
    BY <2>2, <2>3, <2>4, RestGrows
  <2> QED BY <1>4, <2>5
<1> QED BY <1>5, <1>6

-----------------------------------------------------------------------------
(* Types, and what the steps of a broadcast do to its task                 *)

(* Slot s now holds t, the others are as they were.                        *)
Changed(s, t) ==
    /\ t \in Task /\ task' \in [Slot -> Task]
    /\ task'[s] = t
    /\ \A r \in Slot : r # s => task'[r] = task[r]

(* An update of one task.                                                  *)
LEMMA ChangesTask ==
    ASSUME TypeOK, NEW s \in Slot, NEW t \in Task, task' = [task EXCEPT ![s] = t]
    PROVE  Changed(s, t)
  BY DEF Changed, TypeOK

(* A task is a record, and the two constant ones are tasks.                *)
LEMMA TaskFacts ==
    /\ \A t \in Task : /\ t.pc \in {"free", "scheduled", "building", "sending"}
                       /\ t.payload \in Version /\ t.pos \in Nat \ {0}
                       /\ t.reached \subseteq Socket /\ t.stale \subseteq Socket
    /\ Free \in Task /\ Scheduled \in Task
    /\ Free.pc = "free" /\ Scheduled.pc = "scheduled"
    /\ Free.payload = 0 /\ Scheduled.payload = 0
    /\ Free.reached = {} /\ Scheduled.reached = {}
    /\ Free.stale = {} /\ Scheduled.stale = {}
<1>1. 0 \in Version
  BY BoundsAssumption DEF Version
<1> QED BY <1>1 DEF Task, Free, Scheduled

(* The next state of the task of every step of a broadcast.                *)
LEMMA SlotSteps ==
    ASSUME TypeOK, NEW s \in Slot
    PROVE  /\ _schedule_broadcast(s) => Changed(s, Scheduled)
           /\ StartBroadcast(s) /\ clients = <<>> => Changed(s, Free)
           /\ StartBroadcast(s) /\ clients # <<>>
                => \E t : /\ Changed(s, t) /\ t.pc = "building"
                          /\ t.payload = task[s].payload
                          /\ t.reached = task[s].reached /\ t.stale = task[s].stale
           /\ ReadDashboard(s)
                => \E t : /\ Changed(s, t) /\ t.pc = "sending" /\ t.payload = db
                          /\ t.reached = task[s].reached /\ t.stale = task[s].stale
           /\ BuildFails(s) => Changed(s, Free)
           /\ SendText(s)
                => \E t : /\ Changed(s, t) /\ t.pc = "sending"
                          /\ t.payload = task[s].payload
                          /\ t.reached = task[s].reached \cup {clients[task[s].pos]}
                          /\ t.stale \subseteq task[s].stale \cup closed
           /\ FinishBroadcast(s) => Changed(s, Free)
<1>t. task[s] \in Task /\ db \in Version /\ task \in [Slot -> Task]
  BY DEF TypeOK
<1>1. _schedule_broadcast(s) => Changed(s, Scheduled)
  BY TaskFacts, ChangesTask DEF _schedule_broadcast
<1>2. StartBroadcast(s) /\ clients = <<>> => Changed(s, Free)
  BY TaskFacts, ChangesTask DEF StartBroadcast
<1>3. ASSUME StartBroadcast(s), clients # <<>>
      PROVE  \E t : /\ Changed(s, t) /\ t.pc = "building"
                    /\ t.payload = task[s].payload
                    /\ t.reached = task[s].reached /\ t.stale = task[s].stale
  <2> DEFINE t == [task[s] EXCEPT !.pc = "building"]
  <2>1. /\ t \in Task /\ t.pc = "building" /\ t.payload = task[s].payload
        /\ t.reached = task[s].reached /\ t.stale = task[s].stale
    BY <1>t DEF Task
  <2>2. task' = [task EXCEPT ![s] = t]
    BY <1>t, <1>3 DEF StartBroadcast
  <2> HIDE DEF t
  <2> QED BY <2>1, <2>2, ChangesTask
<1>4. ASSUME ReadDashboard(s)
      PROVE  \E t : /\ Changed(s, t) /\ t.pc = "sending" /\ t.payload = db
                    /\ t.reached = task[s].reached /\ t.stale = task[s].stale
  <2> DEFINE t == [task[s] EXCEPT !.pc = "sending", !.payload = db]
  <2>1. /\ t \in Task /\ t.pc = "sending" /\ t.payload = db
        /\ t.reached = task[s].reached /\ t.stale = task[s].stale
    BY <1>t DEF Task
  <2>2. task' = [task EXCEPT ![s] = t]
    BY <1>t, <1>4 DEF ReadDashboard, Task
  <2> HIDE DEF t
  <2> QED BY <2>1, <2>2, ChangesTask
<1>5. BuildFails(s) => Changed(s, Free)
  BY TaskFacts, ChangesTask DEF BuildFails
<1>6. ASSUME SendText(s)
      PROVE  \E t : /\ Changed(s, t) /\ t.pc = "sending"
                    /\ t.payload = task[s].payload
                    /\ t.reached = task[s].reached \cup {clients[task[s].pos]}
                    /\ t.stale \subseteq task[s].stale \cup closed
  <2>1. task[s].pc = "sending" /\ task[s].pos \in 1 .. Len(clients)
    BY <1>t, <1>6, TaskFacts DEF SendText, TypeOK
  <2>2. clients[task[s].pos] \in Socket
    BY <2>1 DEF TypeOK
  <2>3. PICK stale : /\ stale \in {task[s].stale,
                                   task[s].stale \cup (closed \cap {clients[task[s].pos]})}
                     /\ task' = [task EXCEPT ![s].pos = @ + 1, ![s].stale = stale,
                                    ![s].reached = @ \cup {clients[task[s].pos]}]
    BY <1>6 DEF SendText
  <2> DEFINE t == [task[s] EXCEPT !.pos = @ + 1, !.stale = stale,
                                  !.reached = @ \cup {clients[task[s].pos]}]
  <2>4. stale \subseteq Socket /\ stale \subseteq task[s].stale \cup closed
    BY <1>t, <2>2, <2>3, TaskFacts
  <2>5. task' = [task EXCEPT ![s] = t]
    BY <1>t, <2>3 DEF Task
  <2>6. /\ t \in Task /\ t.pc = "sending" /\ t.payload = task[s].payload
        /\ t.reached = task[s].reached \cup {clients[task[s].pos]}
        /\ t.stale = stale
    <3>1. /\ task[s].pos + 1 \in Nat \ {0}
          /\ task[s].reached \cup {clients[task[s].pos]} \in SUBSET Socket
          /\ stale \in SUBSET Socket
      BY <1>t, <2>1, <2>2, <2>4, TaskFacts
    <3> QED BY <1>t, <2>1, <3>1 DEF Task
  <2> HIDE DEF t
  <2> QED BY <2>4, <2>5, <2>6, ChangesTask
<1>7. FinishBroadcast(s) => Changed(s, Free)
  BY TaskFacts, ChangesTask DEF FinishBroadcast
<1> QED BY <1>1, <1>2, <1>3, <1>4, <1>5, <1>6, <1>7

(* Every step keeps the types.                                             *)
LEMMA TypeStep == TypeOK /\ [Next]_vars => TypeOK'
<1> SUFFICES ASSUME TypeOK, [Next]_vars PROVE TypeOK'
  OBVIOUS
<1>b. MaxChanges \in Nat /\ MaxFaults \in Nat
  BY BoundsAssumption
<1>1. CASE Commit
  BY <1>1, <1>b DEF Commit, TypeOK, Version, timerVars, clientVars
<1>2. CASE ListenConnects
  BY <1>2 DEF ListenConnects, TypeOK, timerVars, clientVars
<1>3. CASE ListenLost
  BY <1>3, <1>b DEF ListenLost, TypeOK, timerVars, clientVars
<1>4. CASE _on_notify
  BY <1>4, <1>b DEF _on_notify, TimersAfterNotify, TypeOK, Version, clientVars
<1>5. ASSUME NEW s \in Slot, _schedule_broadcast(s) PROVE TypeOK'
  <2>1. task' \in [Slot -> Task]
    BY <1>5, SlotSteps DEF Changed
  <2> QED BY <1>5, <2>1 DEF _schedule_broadcast, TypeOK, feedVars, clientVars
<1>6. ASSUME NEW s \in Slot, StartBroadcast(s) PROVE TypeOK'
  <2>1. task' \in [Slot -> Task]
    BY <1>6, SlotSteps DEF Changed
  <2>2. served' \in Version
    BY <1>6 DEF StartBroadcast, TypeOK
  <2> QED BY <1>6, <2>1, <2>2 DEF StartBroadcast, TypeOK, feedVars, clientVars
<1>7. ASSUME NEW s \in Slot, ReadDashboard(s) PROVE TypeOK'
  <2>1. task' \in [Slot -> Task]
    BY <1>7, SlotSteps DEF Changed
  <2> QED BY <1>7, <2>1 DEF ReadDashboard, TypeOK, feedVars, timerVars, clientVars
<1>8. ASSUME NEW s \in Slot, BuildFails(s) PROVE TypeOK'
  <2>1. task' \in [Slot -> Task]
    BY <1>8, SlotSteps DEF Changed
  <2> QED BY <1>8, <1>b, <2>1 DEF BuildFails, TypeOK, feedVars, timerVars, clientVars
<1>9. ASSUME NEW s \in Slot, SendText(s) PROVE TypeOK'
  <2>1. task' \in [Slot -> Task]
    BY <1>9, SlotSteps DEF Changed
  <2>2. task[s] \in Task /\ task[s].pos \in 1 .. Len(clients)
    BY <1>9, TaskFacts DEF SendText, TypeOK
  <2>3. clients[task[s].pos] \in Socket /\ task[s].payload \in Version
    BY <2>2, TaskFacts DEF TypeOK
  <2>4. shown' \in [Socket -> Version] /\ passedBy' \subseteq Socket
    BY <1>9, <2>3 DEF SendText, Show, TypeOK
  <2> QED BY <1>9, <2>1, <2>4 DEF SendText, TypeOK, feedVars, timerVars
<1>10. ASSUME NEW s \in Slot, FinishBroadcast(s) PROVE TypeOK'
  <2>1. task' \in [Slot -> Task]
    BY <1>10, SlotSteps DEF Changed
  <2>2. clients' \in Seq(Socket)
    BY <1>10, WithoutFacts DEF FinishBroadcast, IsRest, TypeOK
  <2>3. passedBy' \subseteq Socket
    <3>1. \A c \in Listed : c \in Socket
      BY DEF Listed, ToSet, TypeOK
    <3> QED BY <1>10, <3>1 DEF FinishBroadcast, PassedBy, TypeOK
  <2> QED BY <1>10, <2>1, <2>2, <2>3
             DEF FinishBroadcast, TypeOK, feedVars, timerVars
<1>11. ASSUME NEW c \in Socket, Connect(c) PROVE TypeOK'
  BY <1>11 DEF Connect, TypeOK, feedVars, timerVars
<1>12. ASSUME NEW c \in Socket, ReadInitial(c) PROVE TypeOK'
  BY <1>12 DEF ReadInitial, TypeOK, feedVars, timerVars
<1>13. ASSUME NEW c \in Socket, SendInitial(c) PROVE TypeOK'
  <2>1. initial[c] \in Version /\ 0 \in Version
    BY <1>b DEF TypeOK, Version
  <2>2. shown' \in [Socket -> Version] /\ passedBy' \subseteq Socket
    BY <1>13, <2>1 DEF SendInitial, Show, TypeOK
  <2>3. initial' \in [Socket -> Version]
    BY <1>13, <2>1 DEF SendInitial, TypeOK
  <2> QED BY <1>13, <2>2, <2>3 DEF SendInitial, TypeOK, feedVars, timerVars
<1>14. ASSUME NEW c \in Socket, Disconnect(c) PROVE TypeOK'
  <2>1. clients' \in Seq(Socket)
    BY <1>14, WithoutFacts DEF Disconnect, RemoveClient, IsRest, TypeOK
  <2> QED BY <1>14, <2>1 DEF Disconnect, TypeOK, feedVars, timerVars
<1>15. ASSUME NEW c \in Socket, InitialFails(c) PROVE TypeOK'
  BY <1>15, <1>b DEF InitialFails, TypeOK, feedVars, timerVars
<1>16. ASSUME NEW c \in Socket, Close(c) PROVE TypeOK'
  BY <1>16, <1>b DEF Close, TypeOK, Version, feedVars, timerVars
<1>17. CASE UNCHANGED vars
  BY <1>17 DEF vars, TypeOK, feedVars, timerVars, clientVars
<1> QED
  BY <1>1, <1>2, <1>3, <1>4, <1>5, <1>6, <1>7, <1>8, <1>9, <1>10, <1>11, <1>12,
     <1>13, <1>14, <1>15, <1>16, <1>17 DEF Next, BroadcastStep, HandlerStep

(* The initial state has the types.                                        *)
LEMMA InitType == Init => TypeOK
<1> SUFFICES ASSUME Init PROVE TypeOK
  OBVIOUS
<1>1. 0 \in Version /\ MaxFaults \in Nat /\ 0 \in 0 .. MaxFaults
  BY BoundsAssumption DEF Version
<1>2. task \in [Slot -> Task]
  BY TaskFacts DEF Init
<1>3. clients \in Seq(Socket)
  BY DEF Init
<1>4. missed \in BOOLEAN
  BY Zenon DEF Init
<1> QED BY <1>1, <1>2, <1>3, <1>4 DEF Init, TypeOK

(* The type invariant of the dashboard push.                               *)
THEOREM DashboardTypeCorrect == Spec => []TypeOK
  BY InitType, TypeStep, PTL DEF Spec

-----------------------------------------------------------------------------
(* The list of clients                                                     *)

Alive == {"building", "built", "open"}

InList(c) == \E i \in 1 .. Len(clients) : clients[i] = c

(* Who is in the list has a handler, and is in it once.                    *)
Handled ==
    /\ \A c \in Socket : InList(c) => ws[c] \in Alive
    /\ \A i, j \in 1 .. Len(clients) : clients[i] = clients[j] => i = j

(* Who has a handler and a page is in the list.                            *)
Reachable == \A c \in Socket : ws[c] \in Alive /\ c \notin closed => InList(c)

(* A broadcast finds only closed sockets stale, and starts with none.      *)
StaleIsClosed ==
    \A s \in Slot : /\ task[s].stale \subseteq closed
                    /\ task[s].pc # "sending" => task[s].stale = {} /\ task[s].reached = {}

LInv == TypeOK /\ Handled /\ Reachable /\ StaleIsClosed

(* Clients that leave the list leave only if they are named.               *)
LEMMA Leaving ==
    ASSUME LInv, NEW gone, clients' = Without(clients, gone)
    PROVE  /\ \A c \in Socket : InList(c)' <=> InList(c) /\ c \notin gone
           /\ \A i, j \in 1 .. Len(clients') : clients'[i] = clients'[j] => i = j
<1>1. clients \in Seq(Socket)
  BY DEF LInv, TypeOK
<1>2. IsRest(clients', clients, gone, Len(clients))
  BY <1>1, WithoutFacts
<1>3. \A i, j \in 1 .. Len(clients') : clients'[i] = clients'[j] => i = j
  BY <1>2 DEF IsRest, LInv, Handled
<1>4. ASSUME NEW c \in Socket, InList(c), c \notin gone PROVE InList(c)'
  BY <1>2, <1>4 DEF IsRest, InList
<1>5. ASSUME NEW c \in Socket, InList(c)' PROVE InList(c) /\ c \notin gone
  BY <1>2, <1>5 DEF IsRest, InList
<1> QED BY <1>3, <1>4, <1>5

(* A step that leaves the sockets leaves their list.                       *)
LEMMA SameSockets ==
    ASSUME LInv, UNCHANGED <<clients, ws, closed>>
    PROVE  Handled' /\ Reachable'
BY DEF LInv, Handled, Reachable, InList

(* What a step of a broadcast may do to the stale clients it has found.    *)
LEMMA StaleKept ==
    ASSUME LInv, closed' = closed, NEW s \in Slot, NEW t, Changed(s, t),
           t.stale \subseteq closed,
           t.pc # "sending" => t.stale = {} /\ t.reached = {}
    PROVE  StaleIsClosed'
BY DEF LInv, StaleIsClosed, Changed

(* Every step keeps the list accurate.                                     *)
LEMMA ListStep == LInv /\ [Next]_vars => LInv'
<1> SUFFICES ASSUME LInv, [Next]_vars PROVE LInv'
  OBVIOUS
<1>t. TypeOK /\ TypeOK'
  BY TypeStep DEF LInv
<1>a. \A s \in Slot : task[s] \in Task
  BY <1>t DEF TypeOK
<1>1. CASE Commit \/ ListenConnects \/ ListenLost \/ _on_notify \/ UNCHANGED vars
  <2>1. UNCHANGED <<clients, ws, closed, task>>
    BY <1>1 DEF Commit, ListenConnects, ListenLost, _on_notify, vars, clientVars
  <2> QED BY <1>t, <2>1, SameSockets DEF LInv, StaleIsClosed
<1>2. ASSUME NEW s \in Slot, _schedule_broadcast(s) \/ StartBroadcast(s)
                                \/ ReadDashboard(s) \/ BuildFails(s)
      PROVE  LInv'
  <2>1. UNCHANGED <<clients, ws, closed>>
    BY <1>2 DEF _schedule_broadcast, StartBroadcast, ReadDashboard, BuildFails, clientVars
  <2>2. /\ task[s].stale \subseteq closed
        /\ task[s].pc # "sending" => task[s].stale = {} /\ task[s].reached = {}
    BY DEF LInv, StaleIsClosed
  <2>3. StaleIsClosed'
    <3>1. CASE _schedule_broadcast(s)
      BY <3>1, <1>t, <2>1, SlotSteps, StaleKept, TaskFacts
    <3>2. CASE StartBroadcast(s)
      <4>1. task[s].stale = {} /\ task[s].reached = {}
        BY <2>2, <3>2 DEF StartBroadcast
      <4> QED BY <3>2, <4>1, <1>t, <2>1, SlotSteps, StaleKept, TaskFacts
    <3>3. CASE ReadDashboard(s)
      BY <3>3, <1>t, <2>1, <2>2, SlotSteps, StaleKept
    <3>4. CASE BuildFails(s)
      BY <3>4, <1>t, <2>1, SlotSteps, StaleKept, TaskFacts
    <3> QED BY <1>2, <3>1, <3>2, <3>3, <3>4
  <2> QED BY <1>t, <2>1, <2>3, SameSockets DEF LInv
<1>3. ASSUME NEW s \in Slot, SendText(s) PROVE LInv'
  <2>1. UNCHANGED <<clients, ws, closed>>
    BY <1>3 DEF SendText
  <2>2. PICK t : /\ Changed(s, t) /\ t.pc = "sending"
                 /\ t.stale \subseteq task[s].stale \cup closed
    BY <1>3, <1>t, SlotSteps
  <2>3. t.stale \subseteq closed
    BY <2>2 DEF LInv, StaleIsClosed
  <2> QED BY <1>t, <2>1, <2>2, <2>3, SameSockets, StaleKept DEF LInv
<1>4. ASSUME NEW s \in Slot, FinishBroadcast(s) PROVE LInv'
  <2>1. UNCHANGED <<ws, closed>> /\ clients' = Without(clients, task[s].stale)
    BY <1>4 DEF FinishBroadcast
  <2>2. task[s].stale \subseteq closed
    BY DEF LInv, StaleIsClosed
  <2>3. StaleIsClosed'
    BY <1>4, <1>t, <2>1, SlotSteps, StaleKept, TaskFacts
  <2>4. /\ \A c \in Socket : InList(c)' <=> InList(c) /\ c \notin task[s].stale
        /\ \A i, j \in 1 .. Len(clients') : clients'[i] = clients'[j] => i = j
    BY <2>1, Leaving
  <2>5. Handled'
    BY <2>1, <2>4 DEF LInv, Handled
  <2>6. Reachable'
    BY <2>1, <2>2, <2>4 DEF LInv, Reachable
  <2> QED BY <1>t, <2>3, <2>5, <2>6 DEF LInv
<1>5. ASSUME NEW c \in Socket, Connect(c) PROVE LInv'
  <2>1. /\ ws[c] = "new" /\ ws' = [ws EXCEPT ![c] = "building"]
        /\ clients' = Append(clients, c) /\ UNCHANGED <<closed, task>>
    BY <1>5 DEF Connect
  <2>2. ~InList(c)
    BY <2>1 DEF LInv, Handled, Alive
  <2>3. clients \in Seq(Socket) /\ ws \in [Socket -> {"new", "building", "built", "open", "gone"}]
    BY <1>t DEF TypeOK
  <2>4. /\ Len(clients') = Len(clients) + 1 /\ Len(clients) \in Nat
        /\ \A i \in 1 .. Len(clients) : clients'[i] = clients[i]
        /\ clients'[Len(clients) + 1] = c
    BY <2>1, <2>3
  <2>5. \A d \in Socket : InList(d)' <=> InList(d) \/ d = c
    BY <2>4 DEF InList
  <2>6. \A i, j \in 1 .. Len(clients') : clients'[i] = clients'[j] => i = j
    BY <2>2, <2>4 DEF InList, LInv, Handled
  <2>7. Handled' /\ Reachable'
    BY <2>1, <2>3, <2>5, <2>6 DEF LInv, Handled, Reachable, Alive
  <2> QED BY <1>t, <2>1, <2>7 DEF LInv, StaleIsClosed
<1>6. ASSUME NEW c \in Socket, ReadInitial(c) \/ SendInitial(c) \/ InitialFails(c)
      PROVE  LInv'
  <2>1. /\ ws[c] \in Alive /\ UNCHANGED <<clients, closed, task>>
        /\ ws' = [ws EXCEPT ![c] = "built"] \/ ws' = [ws EXCEPT ![c] = "open"]
    BY <1>6 DEF ReadInitial, SendInitial, InitialFails, Alive
  <2>2. \A d \in Socket : ws'[d] \in Alive <=> ws[d] \in Alive
    BY <1>t, <2>1 DEF TypeOK, Alive
  <2>3. Handled' /\ Reachable'
    BY <2>1, <2>2 DEF LInv, Handled, Reachable, InList
  <2> QED BY <1>t, <2>1, <2>3 DEF LInv, StaleIsClosed
<1>7. ASSUME NEW c \in Socket, Close(c) PROVE LInv'
  <2>1. UNCHANGED <<clients, ws, task>> /\ closed \subseteq closed'
    BY <1>7 DEF Close
  <2> QED BY <1>t, <2>1 DEF LInv, Handled, Reachable, InList, StaleIsClosed
<1>8. ASSUME NEW c \in Socket, Disconnect(c) PROVE LInv'
  <2>1. /\ ws' = [ws EXCEPT ![c] = "gone"] /\ UNCHANGED <<closed, task>>
        /\ clients' = Without(clients, {c})
    BY <1>8 DEF Disconnect, RemoveClient
  <2>2. /\ \A d \in Socket : InList(d)' <=> InList(d) /\ d # c
        /\ \A i, j \in 1 .. Len(clients') : clients'[i] = clients'[j] => i = j
    <3>1. \A d : d \in {c} <=> d = c
      OBVIOUS
    <3> QED BY <2>1, <3>1, Leaving
  <2>3. \A d \in Socket : ws'[d] = IF d = c THEN "gone" ELSE ws[d]
    BY <1>t, <2>1 DEF TypeOK
  <2>4. Handled'
    BY <2>2, <2>3 DEF LInv, Handled
  <2>5. Reachable'
    BY <2>1, <2>2, <2>3 DEF LInv, Reachable, Alive
  <2> QED BY <1>t, <2>1, <2>4, <2>5 DEF LInv, StaleIsClosed
<1> QED
  BY <1>1, <1>2, <1>3, <1>4, <1>5, <1>6, <1>7, <1>8 DEF Next, BroadcastStep, HandlerStep

(* The initial state satisfies the invariant.                              *)
LEMMA InitLInv == Init => LInv
<1> SUFFICES ASSUME Init PROVE LInv
  OBVIOUS
<1>1. TypeOK
  BY InitType
<1>2. \A i \in 1 .. Len(clients) : FALSE
  BY DEF Init
<1>3. Handled
  BY <1>2 DEF Handled, InList
<1>4. Reachable
  BY DEF Init, Reachable, Alive
<1>5. StaleIsClosed
  BY TaskFacts DEF Init, StaleIsClosed
<1> QED BY <1>1, <1>3, <1>4, <1>5 DEF LInv

(* The broadcast and the client's own handler, which both remove clients   *)
(* from the list, leave exactly those in it that belong there.             *)
THEOREM ListAccurate == Spec => []ListIsAccurate
<1>1. LInv => ListIsAccurate
  <2> SUFFICES ASSUME LInv PROVE ListIsAccurate
    OBVIOUS
  <2>1. clients \in Seq(Socket)
    BY DEF LInv, TypeOK
  <2>2. \A c : c \in Listed <=> InList(c)
    BY DEF Listed, ToSet, InList
  <2>3. \A c \in Listed : c \in Socket
    BY <2>1 DEF Listed, ToSet
  <2> QED BY <2>2, <2>3 DEF LInv, Handled, Reachable, Alive, ListIsAccurate
<1> QED
  BY <1>1, InitLInv, ListStep, PTL DEF Spec

-----------------------------------------------------------------------------
(* What a page shows                                                       *)

(* Nobody knows of more than there is.                                     *)
Known ==
    /\ served <= db
    /\ \A v \in notices : notified < v /\ v <= db
    /\ \A c \in Socket : shown[c] <= db /\ initial[c] <= db
    /\ \A s \in Slot : task[s].payload <= db

(* Unless it was missed, the last change is notified or on its way.        *)
Heard == ~missed => notified = db \/ db \in notices

(* A broadcast of the latest state that was read has still to reach c.     *)
OnItsWay(c) ==
    \E s \in Slot : /\ task[s].pc = "sending" /\ task[s].payload = served
                    /\ c \notin task[s].reached

(* A page that no broadcast passed by has the latest state that was read,  *)
(* or will have it: from a broadcast, or from its initial payload.         *)
UpToDate(c) ==
    /\ ws[c] = "built" => initial[c] >= served \/ shown[c] >= served \/ OnItsWay(c)
    /\ ws[c] = "open" => shown[c] >= served \/ OnItsWay(c)

Served ==
    failures = 0 => \A c \in Socket : c \notin closed /\ c \notin passedBy => UpToDate(c)

SInv == LInv /\ IInv /\ Known /\ Heard /\ Served

(* Numbers of changes are natural numbers.                                 *)
LEMMA Numbers ==
    ASSUME TypeOK
    PROVE  /\ db \in Nat /\ served \in Nat /\ notified \in Nat /\ failures \in Nat
           /\ \A c \in Socket : shown[c] \in Nat /\ initial[c] \in Nat
           /\ \A s \in Slot : task[s] \in Task /\ task[s].payload \in Nat
           /\ \A v \in notices : v \in Nat
<1>1. MaxChanges \in Nat /\ MaxFaults \in Nat
  BY BoundsAssumption
<1>2. \A v \in Version : v \in Nat
  BY <1>1 DEF Version
<1>3. \A s \in Slot : task[s] \in Task
  BY DEF TypeOK
<1> QED BY <1>1, <1>2, <1>3, TaskFacts DEF TypeOK

(* Every step keeps what is known within what there is.                    *)
LEMMA KnownStep == SInv /\ [Next]_vars => Known'
<1> SUFFICES ASSUME SInv, [Next]_vars PROVE Known'
  OBVIOUS
<1>t. TypeOK /\ TypeOK' /\ Known
  BY TypeStep DEF SInv, LInv
<1>n. /\ db \in Nat /\ served \in Nat /\ notified \in Nat
      /\ \A c \in Socket : shown[c] \in Nat /\ initial[c] \in Nat
      /\ \A s \in Slot : task[s] \in Task /\ task[s].payload \in Nat
      /\ \A v \in notices : v \in Nat
  BY <1>t, Numbers
<1>1. CASE Commit
  BY <1>1, <1>t, <1>n DEF Commit, Known, clientVars, IInv, Bookkeeping, SInv
<1>2. CASE ListenConnects \/ ListenLost \/ UNCHANGED vars
  BY <1>2, <1>t DEF ListenConnects, ListenLost, vars, feedVars, Known, clientVars
<1>3. CASE _on_notify
  <2>1. PICK v \in notices : /\ \A other \in notices : v <= other
                              /\ notices' = notices \ {v} /\ notified' = v
                              /\ UNCHANGED <<db, served, clientVars, task>>
    BY <1>3 DEF _on_notify
  <2>2. \A w \in notices' : notified' < w /\ w <= db'
    BY <2>1, <1>t, <1>n DEF Known
  <2> QED BY <1>t, <2>1, <2>2 DEF Known, clientVars
<1>4. ASSUME NEW s \in Slot, _schedule_broadcast(s) \/ StartBroadcast(s)
                                \/ ReadDashboard(s) \/ BuildFails(s) \/ FinishBroadcast(s)
      PROVE  Known'
  <2>1. /\ UNCHANGED <<db, notices, notified, initial, shown>>
        /\ served' = served \/ served' = db
    BY <1>4 DEF _schedule_broadcast, StartBroadcast, ReadDashboard, BuildFails,
                FinishBroadcast, clientVars, feedVars
  <2>2. \E t : /\ Changed(s, t)
               /\ t.payload = 0 \/ t.payload = task[s].payload \/ t.payload = db
    BY <1>4, <1>t, SlotSteps, TaskFacts
  <2>3. \A r \in Slot : task'[r].payload <= db
    BY <1>t, <1>n, <2>2 DEF Changed, Known
  <2> QED BY <1>t, <1>n, <2>1, <2>3 DEF Known
<1>5. ASSUME NEW s \in Slot, SendText(s) PROVE Known'
  <2>1. UNCHANGED <<db, notices, notified, initial, served>>
    BY <1>5 DEF SendText, feedVars
  <2>2. \A r \in Slot : task'[r].payload <= db
    BY <1>5, <1>t, SlotSteps DEF Changed, Known
  <2>3. \A c \in Socket : shown'[c] <= db
    BY <1>5, <1>t DEF SendText, Show, Known, TypeOK
  <2> QED BY <1>t, <2>1, <2>2, <2>3 DEF Known
<1>6. ASSUME NEW c \in Socket, Connect(c) \/ InitialFails(c) \/ Disconnect(c)
      PROVE  Known'
  BY <1>6, <1>t DEF Connect, InitialFails, Disconnect, Known, feedVars
<1>7. ASSUME NEW c \in Socket, ReadInitial(c) PROVE Known'
  BY <1>7, <1>t, <1>n DEF ReadInitial, Known, TypeOK, feedVars
<1>8. ASSUME NEW c \in Socket, SendInitial(c) PROVE Known'
  <2>1. UNCHANGED <<db, notices, notified, served, task>>
    BY <1>8 DEF SendInitial, feedVars
  <2>2. \A d \in Socket : shown'[d] <= db /\ initial'[d] <= db
    BY <1>8, <1>t, <1>n DEF SendInitial, Show, Known, TypeOK
  <2> QED BY <1>t, <2>1, <2>2 DEF Known
<1>9. ASSUME NEW c \in Socket, Close(c) PROVE Known'
  BY <1>9, <1>t, <1>n DEF Close, Known, TypeOK, feedVars
<1> QED
  BY <1>1, <1>2, <1>3, <1>4, <1>5, <1>6, <1>7, <1>8, <1>9
     DEF Next, BroadcastStep, HandlerStep

(* Every step keeps track of the last change: notifications come in the    *)
(* order of the changes.                                                   *)
LEMMA HeardStep == SInv /\ [Next]_vars => Heard'
<1> SUFFICES ASSUME SInv, [Next]_vars PROVE Heard'
  OBVIOUS
<1>n. TypeOK /\ Heard /\ Known /\ db \in Nat /\ notified \in Nat
  BY Numbers DEF SInv, LInv
<1>1. CASE Commit
  BY <1>1, <1>n DEF Commit, Heard
<1>2. CASE ListenLost
  BY <1>2, <1>n DEF ListenLost, Heard
<1>3. CASE _on_notify
  <2>1. PICK v \in notices : /\ notices' = notices \ {v} /\ notified' = v
                              /\ UNCHANGED <<db, missed>>
    BY <1>3 DEF _on_notify
  <2>2. notified < v
    BY <1>n DEF Known
  <2>3. CASE notified = db
    BY <1>n, <2>2, <2>3, Numbers DEF Known
  <2>4. CASE db \in notices
    BY <2>1, <2>4 DEF Heard
  <2> QED BY <1>n, <2>1, <2>3, <2>4 DEF Heard
<1>4. CASE UNCHANGED <<db, missed, notices, notified>>
  BY <1>4, <1>n DEF Heard
<1>5. \/ Commit \/ ListenLost \/ _on_notify \/ UNCHANGED <<db, missed, notices, notified>>
  BY DEF Next, BroadcastStep, HandlerStep, ListenConnects, _schedule_broadcast,
         StartBroadcast, ReadDashboard, BuildFails, SendText, FinishBroadcast, Connect,
         ReadInitial, SendInitial, InitialFails, Close, Disconnect, vars, feedVars
<1> QED BY <1>1, <1>2, <1>3, <1>4, <1>5

(* What is on its way stays so while a task that is not sending changes.   *)
LEMMA StaysOnItsWay ==
    ASSUME NEW s \in Slot, NEW t, Changed(s, t), task[s].pc # "sending",
           served' = served, NEW c, OnItsWay(c)
    PROVE  OnItsWay(c)'
BY DEF Changed, OnItsWay

(* Every step keeps the pages up to date: a broadcast that has read sends  *)
(* to every client, and whoever it does not reach has something as recent  *)
(* or is passed by.                                                        *)
LEMMA ServedStep == SInv /\ [Next]_vars => Served'
<1> SUFFICES ASSUME SInv, [Next]_vars, failures' = 0,
                    NEW c \in Socket, c \notin closed', c \notin passedBy'
             PROVE  UpToDate(c)'
  BY DEF Served
<1>t. TypeOK /\ TypeOK' /\ Known /\ LInv
  BY TypeStep DEF SInv, LInv
<1>n. /\ db \in Nat /\ served \in Nat /\ failures \in Nat
      /\ shown[c] \in Nat /\ initial[c] \in Nat
      /\ \A s \in Slot : task[s] \in Task /\ task[s].payload \in Nat
  BY <1>t, Numbers
<1>f. failures = 0
  <2>1. failures' = failures \/ failures' = failures + 1
    BY DEF Next, BroadcastStep, HandlerStep, Commit, ListenConnects, ListenLost,
           _on_notify, _schedule_broadcast, StartBroadcast, ReadDashboard, BuildFails,
           SendText, FinishBroadcast, Connect, ReadInitial, SendInitial, InitialFails,
           Close, Disconnect, vars
  <2> QED BY <1>n, <2>1
<1>u. c \notin closed /\ c \notin passedBy => UpToDate(c)
  BY <1>f DEF SInv, Served
<1>1. CASE Commit \/ ListenConnects \/ ListenLost \/ _on_notify \/ UNCHANGED vars
  <2>1. UNCHANGED <<ws, initial, shown, served, task, closed, passedBy>>
    BY <1>1 DEF Commit, ListenConnects, ListenLost, _on_notify, vars, clientVars
  <2> QED BY <1>u, <2>1 DEF UpToDate, OnItsWay
<1>2. ASSUME NEW s \in Slot, _schedule_broadcast(s) PROVE UpToDate(c)'
  <2>1. UNCHANGED <<ws, initial, shown, served, closed, passedBy>> /\ task[s].pc = "free"
    BY <1>2 DEF _schedule_broadcast, clientVars
  <2>2. Changed(s, Scheduled)
    BY <1>2, <1>t, SlotSteps
  <2>3. OnItsWay(c) => OnItsWay(c)'
    BY <2>1, <2>2, StaysOnItsWay
  <2> QED BY <1>u, <2>1, <2>3 DEF UpToDate
<1>3. ASSUME NEW s \in Slot, StartBroadcast(s) PROVE UpToDate(c)'
  <2>1. UNCHANGED <<clients, ws, initial, shown, closed, passedBy>> /\ task[s].pc = "scheduled"
    BY <1>3 DEF StartBroadcast, clientVars
  <2>2. CASE clients = <<>>
    <3>1. ~InList(c)
      BY <2>2 DEF InList
    <3>2. ws[c] \notin Alive
      BY <1>t, <2>1, <3>1 DEF LInv, Reachable
    <3> QED BY <2>1, <3>2 DEF UpToDate, Alive
  <2>3. CASE clients # <<>>
    <3>1. served' = served
      BY <1>3, <2>3 DEF StartBroadcast
    <3>2. PICK t : Changed(s, t)
      BY <1>3, <1>t, <2>3, SlotSteps
    <3>3. OnItsWay(c) => OnItsWay(c)'
      BY <2>1, <3>1, <3>2, StaysOnItsWay
    <3> QED BY <1>u, <2>1, <3>1, <3>3 DEF UpToDate
  <2> QED BY <2>2, <2>3
<1>4. ASSUME NEW s \in Slot, ReadDashboard(s) PROVE UpToDate(c)'
  <2>1. task[s].pc = "building" /\ served' = db
    BY <1>4 DEF ReadDashboard
  <2>2. task[s].reached = {}
    BY <1>t, <2>1 DEF LInv, StaleIsClosed
  <2>3. PICK t : /\ Changed(s, t) /\ t.pc = "sending" /\ t.payload = db
                 /\ t.reached = task[s].reached
    BY <1>4, <1>t, SlotSteps
  <2>4. OnItsWay(c)'
    BY <2>1, <2>2, <2>3 DEF OnItsWay, Changed
  <2> QED BY <2>4 DEF UpToDate
<1>5. ASSUME NEW s \in Slot, SendText(s) PROVE UpToDate(c)'
  <2>1. UNCHANGED <<ws, initial, closed, served>>
    BY <1>5 DEF SendText
  <2>2. PICK t : /\ Changed(s, t) /\ t.pc = "sending" /\ t.payload = task[s].payload
                 /\ t.reached = task[s].reached \cup {clients[task[s].pos]}
    BY <1>5, <1>t, SlotSteps
  <2>3. task[s].pc = "sending"
    BY <1>5 DEF SendText
  <2>4. CASE clients[task[s].pos] = c
    <3>1. Show(c, task[s].payload)
      BY <1>5, <2>1, <2>4 DEF SendText
    <3>2. /\ shown'[c] = task[s].payload /\ c \notin passedBy
          /\ ~(task[s].payload < shown[c])
      BY <1>t, <3>1 DEF Show, TypeOK
    <3>3. UpToDate(c)
      BY <1>u, <2>1, <3>2
    <3>4. shown[c] >= served => shown'[c] >= served
      BY <1>n, <3>2
    <3>5. OnItsWay(c) => OnItsWay(c)' \/ shown'[c] >= served
      <4> SUFFICES ASSUME NEW r \in Slot, task[r].pc = "sending",
                          task[r].payload = served, c \notin task[r].reached
                   PROVE  OnItsWay(c)' \/ shown'[c] >= served
        BY DEF OnItsWay
      <4>1. CASE r = s
        BY <1>n, <3>2, <4>1
      <4>2. CASE r # s
        BY <2>1, <2>2, <4>2 DEF OnItsWay, Changed
      <4> QED BY <4>1, <4>2
    <3> QED BY <2>1, <3>3, <3>4, <3>5 DEF UpToDate
  <2>5. CASE clients[task[s].pos] # c
    <3>1. shown'[c] = shown[c] /\ c \notin passedBy
      BY <1>5, <1>t, <2>5 DEF SendText, Show, TypeOK
    <3>2. OnItsWay(c) => OnItsWay(c)'
      <4> SUFFICES ASSUME NEW r \in Slot, task[r].pc = "sending",
                          task[r].payload = served, c \notin task[r].reached
                   PROVE  OnItsWay(c)'
        BY DEF OnItsWay
      <4>1. c \notin task'[r].reached /\ task'[r].pc = "sending" /\ task'[r].payload = served
        BY <2>2, <2>5 DEF Changed
      <4> QED BY <2>1, <4>1 DEF OnItsWay
    <3> QED BY <1>u, <2>1, <3>1, <3>2 DEF UpToDate
  <2> QED BY <2>4, <2>5
<1>6. ASSUME NEW s \in Slot, FinishBroadcast(s) PROVE UpToDate(c)'
  <2>1. /\ UNCHANGED <<ws, initial, closed, shown, served>>
        /\ passedBy' = passedBy \cup PassedBy(s)
    BY <1>6 DEF FinishBroadcast
  <2>2. Changed(s, Free)
    BY <1>6, <1>t, SlotSteps
  <2>3. UpToDate(c) /\ c \notin PassedBy(s)
    BY <1>u, <2>1
  <2>4. ASSUME ws[c] \in Alive, OnItsWay(c)
        PROVE  \/ OnItsWay(c)'
               \/ ws[c] = "building"
               \/ ws[c] = "built" /\ initial[c] >= served
               \/ ws[c] = "open" /\ shown[c] >= served
    <3>1. PICK r \in Slot : /\ task[r].pc = "sending" /\ task[r].payload = served
                             /\ c \notin task[r].reached
      BY <2>4 DEF OnItsWay
    <3>2. CASE r = s
      <4>1. c \in Listed
        BY <1>t, <2>1, <2>4 DEF LInv, Reachable, InList, Listed, ToSet, TypeOK
      <4>2. /\ ~(ws[c] = "built" /\ initial[c] < task[s].payload)
            /\ ~(ws[c] = "open" /\ shown[c] < task[s].payload)
        BY <2>1, <2>3, <3>1, <3>2, <4>1 DEF PassedBy
      <4> QED BY <1>n, <2>4, <3>1, <3>2, <4>2 DEF Alive
    <3>3. CASE r # s
      BY <2>1, <2>2, <3>1, <3>3 DEF OnItsWay, Changed
    <3> QED BY <3>2, <3>3
  <2> QED BY <2>1, <2>3, <2>4 DEF UpToDate, Alive
<1>7. ASSUME NEW s \in Slot, BuildFails(s) PROVE FALSE
  BY <1>7, <1>f DEF BuildFails
<1>8. ASSUME NEW d \in Socket, InitialFails(d) PROVE FALSE
  BY <1>8, <1>f DEF InitialFails
<1>9. ASSUME NEW d \in Socket, Connect(d) \/ Disconnect(d) PROVE UpToDate(c)'
  <2>1. /\ UNCHANGED <<initial, shown, served, task, closed, passedBy>>
        /\ ws' = [ws EXCEPT ![d] = "building"] \/ ws' = [ws EXCEPT ![d] = "gone"]
    BY <1>9 DEF Connect, Disconnect
  <2>2. ws'[c] = ws[c] \/ ws'[c] = "building" \/ ws'[c] = "gone"
    BY <1>t, <2>1 DEF TypeOK
  <2> QED BY <1>u, <2>1, <2>2 DEF UpToDate, OnItsWay
<1>10. ASSUME NEW d \in Socket, ReadInitial(d) PROVE UpToDate(c)'
  <2>1. /\ UNCHANGED <<shown, served, task, closed, passedBy>>
        /\ ws'[c] = IF c = d THEN "built" ELSE ws[c]
        /\ initial'[c] = IF c = d THEN db ELSE initial[c]
    BY <1>10, <1>t DEF ReadInitial, TypeOK
  <2>2. db >= served
    BY <1>t, <1>n DEF Known
  <2> QED BY <1>u, <2>1, <2>2 DEF UpToDate, OnItsWay
<1>11. ASSUME NEW d \in Socket, SendInitial(d) PROVE UpToDate(c)'
  <2>1. UNCHANGED <<served, task, closed>>
    BY <1>11 DEF SendInitial
  <2>2. CASE d = c
    <3>1. /\ ws[c] = "built" /\ ws'[c] = "open" /\ Show(c, initial[c])
      BY <1>11, <1>t, <2>1, <2>2 DEF SendInitial, TypeOK
    <3>2. shown'[c] = initial[c] /\ c \notin passedBy /\ ~(initial[c] < shown[c])
      BY <1>t, <3>1 DEF Show, TypeOK
    <3>3. UpToDate(c)
      BY <1>u, <2>1, <3>2
    <3>4. shown[c] >= served => initial[c] >= served
      BY <1>n, <3>2
    <3> QED BY <2>1, <3>1, <3>2, <3>3, <3>4 DEF UpToDate, OnItsWay
  <2>3. CASE d # c
    <3>1. /\ ws'[c] = ws[c] /\ initial'[c] = initial[c] /\ shown'[c] = shown[c]
          /\ c \notin passedBy
      BY <1>11, <1>t, <2>3 DEF SendInitial, Show, TypeOK
    <3> QED BY <1>u, <2>1, <3>1 DEF UpToDate, OnItsWay
  <2> QED BY <2>2, <2>3
<1>12. ASSUME NEW d \in Socket, Close(d) PROVE UpToDate(c)'
  <2>1. /\ UNCHANGED <<ws, initial, served, task>> /\ d # c
        /\ c \notin closed /\ c \notin passedBy
        /\ shown'[c] = shown[c]
    BY <1>12, <1>t DEF Close, TypeOK
  <2> QED BY <1>u, <2>1 DEF UpToDate, OnItsWay
<1> QED
  BY <1>1, <1>2, <1>3, <1>4, <1>5, <1>6, <1>7, <1>8, <1>9, <1>10, <1>11, <1>12
     DEF Next, BroadcastStep, HandlerStep

(* When all has settled, a page that is open, that no build and no         *)
(* broadcast failed or passed by, shows the latest state: registering a    *)
(* client before its initial payload is built loses no change.             *)
THEOREM StalePageHasCause == Spec => []StaleHasCause
<1>1. Init => SInv
  <2> SUFFICES ASSUME Init PROVE SInv
    OBVIOUS
  <2>1. LInv /\ IInv
    BY InitLInv, InitIInv
  <2>2. Known /\ Heard
    BY TaskFacts DEF Init, Known, Heard
  <2>3. Served
    BY DEF Init, Served, UpToDate
  <2> QED BY <2>1, <2>2, <2>3 DEF SInv
<1>2. SInv /\ [Next]_vars => SInv'
  <2>1. SInv => LInv /\ IInv
    BY DEF SInv
  <2> QED BY <2>1, ListStep, NextIInv, KnownStep, HeardStep, ServedStep DEF SInv
<1>3. SInv => StaleHasCause
  <2> SUFFICES ASSUME SInv, Quiet, ~missed, failures = 0, NEW c \in Socket,
                      ws[c] = "open", c \notin closed, c \notin passedBy
               PROVE  shown[c] = db
    BY DEF StaleHasCause
  <2>1. /\ db \in Nat /\ served \in Nat /\ notified \in Nat /\ shown[c] \in Nat
    BY Numbers DEF SInv, LInv
  <2>2. notified = db
    BY DEF SInv, Heard, Quiet
  <2>3. timers = 0 /\ \A s \in Slot : task[s].pc = "free"
    BY DEF Quiet
  <2>4. ~(notified > served)
    BY <2>3 DEF SInv, IInv, ChangeIsPending
  <2>5. served <= db /\ shown[c] <= db
    BY DEF SInv, Known
  <2>6. shown[c] >= served
    BY <2>3 DEF SInv, Served, UpToDate, OnItsWay
  <2> QED BY <2>1, <2>2, <2>4, <2>5, <2>6
<1> QED
  BY <1>1, <1>2, <1>3, PTL DEF Spec
=============================================================================
