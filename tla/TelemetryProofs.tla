--------------------------- MODULE TelemetryProofs ---------------------------
(***************************************************************************)
(* A device, the broker and the backend, for any windows, commands and     *)
(* faults: the statuses converge, the pipeline flag differs only for a     *)
(* cause, and a count that went backwards is about to be overtaken.        *)
(***************************************************************************)
EXTENDS Telemetry, SequenceTheorems, WellFoundedInduction, TLAPS

(* Numbers                                                                 *)

(* Every non-empty set of natural numbers has a least element.             *)
LEMMA LeastNatural ==
    ASSUME NEW C \in SUBSET Nat, C # {}
    PROVE  \E m \in C : \A n \in C : m <= n
<1> DEFINE less == OpToRel(<, Nat)
<1>1. IsWellFoundedOn(less, Nat)
  BY NatLessThanWellFounded
<1>2. \A n, m \in Nat : n < m => <<n, m>> \in less
  BY Zenon DEF OpToRel
<1> HIDE DEF less
<1>3. PICK m \in C : \A n \in C : ~ (<<n, m>> \in less)
  BY <1>1, WFMin
<1>4. \A n \in C : ~ (n < m)
  BY <1>2, <1>3
<1> QED BY <1>4

(* The maximum of a bounded set of natural numbers.                        *)
LEMMA MaxFacts ==
    ASSUME NEW n \in Nat, NEW S \in SUBSET (0 .. n), S # {}
    PROVE  Max(S) \in S /\ \A y \in S : y <= Max(S)
<1> DEFINE bounds == {b \in Nat : \A y \in S : y <= b}
<1>1. n \in bounds
  OBVIOUS
<1>2. PICK b \in bounds : \A a \in bounds : b <= a
  <2>1. bounds \in SUBSET Nat
    OBVIOUS
  <2> HIDE DEF bounds
  <2> QED BY <1>1, <2>1, LeastNatural
<1>3. b \in S
  <2> SUFFICES ASSUME b \notin S PROVE FALSE
    OBVIOUS
  <2>1. PICK x \in S : TRUE
    OBVIOUS
  <2>2. x \in Nat /\ b \in Nat /\ x <= b /\ x # b
    BY <1>2, <2>1
  <2>3. b - 1 \in Nat
    BY <2>2
  <2>4. \A y \in S : y <= b - 1
    BY <1>2, <2>2
  <2> QED BY <1>2, <2>3, <2>4
<1>4. \A y \in S : b >= y
  BY <1>2
<1>5. Max(S) \in S /\ \A y \in S : Max(S) >= y
  BY <1>3, <1>4 DEF Max
<1>6. \A y \in S : y \in Nat
  OBVIOUS
<1> QED BY <1>5, <1>6

(* The smaller of two numbers.                                             *)
LEMMA MinFacts ==
    ASSUME NEW a \in Int, NEW b \in Int
    PROVE  Min({a, b}) = IF a <= b THEN a ELSE b
<1> DEFINE m == IF a <= b THEN a ELSE b
<1>1. m \in {a, b} /\ \A y \in {a, b} : m <= y
  OBVIOUS
<1>2. \A x \in {a, b} : (\A y \in {a, b} : x <= y) => x = m
  OBVIOUS
<1> QED BY <1>1, <1>2 DEF Min

-----------------------------------------------------------------------------
(* Links                                                                   *)

(* t is the end of s.                                                      *)
Ends(t, s) ==
    \E k \in 0 .. Len(s) :
        /\ Len(t) = Len(s) - k
        /\ \A i \in 1 .. Len(t) : t[i] = s[k + i]

(* The messages of a link, oldest first.                                   *)
Chain(l) == l.recent \o l.queue

(* The last messages of a sequence.                                        *)
LEMMA LastOfFacts ==
    ASSUME NEW M, NEW s \in Seq(M), NEW n \in 0 .. Len(s)
    PROVE  /\ LastOf(s, n) \in Seq(M) /\ Len(LastOf(s, n)) = n
           /\ \A i \in 1 .. n : LastOf(s, n)[i] = s[(Len(s) - n) + i]
<1>1. Len(s) \in Nat /\ n \in Nat /\ n <= Len(s)
  OBVIOUS
<1> QED BY <1>1 DEF LastOf

(* One sequence after another.                                             *)
LEMMA ConcatFacts ==
    ASSUME NEW M, NEW s \in Seq(M), NEW t \in Seq(M),
           NEW a \in Nat, a = Len(s), NEW b \in Nat, b = Len(t)
    PROVE  /\ s \o t \in Seq(M) /\ Len(s \o t) = a + b
           /\ \A i \in 1 .. a : (s \o t)[i] = s[i]
           /\ \A i \in 1 .. b : (s \o t)[a + i] = t[i]
OBVIOUS

(* Every place in s \o t is one in s or one in t.                          *)
LEMMA Places ==
    ASSUME NEW a \in Nat, NEW b \in Nat, NEW i \in 1 .. a + b
    PROVE  i \in 1 .. a \/ \E j \in 1 .. b : i = a + j
<1>1. CASE i <= a
  BY <1>1
<1>2. CASE i > a
  <2>1. i - a \in 1 .. b /\ i = a + (i - a)
    BY <1>2
  <2> QED BY <2>1
<1> QED BY <1>1, <1>2

(* Without some of the first, the rest is the end of the whole.            *)
LEMMA EndsWith ==
    ASSUME NEW M, NEW r \in Seq(M), NEW q \in Seq(M), NEW n \in 0 .. Len(r)
    PROVE  LastOf(r, n) \o q \in Seq(M) /\ Ends(LastOf(r, n) \o q, r \o q)
<1>1. PICK a \in Nat, b \in Nat : a = Len(r) /\ b = Len(q)
  OBVIOUS
<1>2. PICK k \in Nat : n \in Nat /\ k + n = a /\ k = a - n
  <2>1. n \in Nat /\ a - n \in Nat /\ (a - n) + n = a
    BY <1>1
  <2> QED BY <2>1
<1>3. PICK t \in Seq(M) : /\ t = LastOf(r, n) /\ Len(t) = n
                          /\ \A i \in 1 .. n : t[i] = r[k + i]
  <2>1. LastOf(r, n) \in Seq(M) /\ Len(LastOf(r, n)) = n
        /\ \A i \in 1 .. n : LastOf(r, n)[i] = r[(Len(r) - n) + i]
    BY LastOfFacts
  <2> QED BY <1>1, <1>2, <2>1
<1>4. /\ r \o q \in Seq(M) /\ Len(r \o q) = a + b
      /\ \A i \in 1 .. a : (r \o q)[i] = r[i]
      /\ \A i \in 1 .. b : (r \o q)[a + i] = q[i]
  BY <1>1, ConcatFacts
<1>5. /\ t \o q \in Seq(M) /\ Len(t \o q) = n + b
      /\ \A i \in 1 .. n : (t \o q)[i] = t[i]
      /\ \A i \in 1 .. b : (t \o q)[n + i] = q[i]
  <2>1. n \in Nat /\ n = Len(t) /\ b = Len(q)
    BY <1>1, <1>2, <1>3
  <2> QED BY <2>1, ConcatFacts
<1>6. PICK u \in Seq(M), v \in Seq(M) : u = r \o q /\ v = t \o q
  BY <1>4, <1>5
<1>7. k \in 0 .. Len(u) /\ Len(v) = Len(u) - k
  <2>1. Len(u) = a + b
    BY <1>4, <1>6
  <2>2. Len(v) = n + b
    BY <1>5, <1>6
  <2> QED BY <1>2, <2>1, <2>2
<1>8. ASSUME NEW i \in 1 .. Len(v) PROVE v[i] = u[k + i]
  <2>1. CASE i \in 1 .. n
    <3>1. k + i \in 1 .. a
      BY <1>2, <2>1
    <3> QED BY <1>3, <1>4, <1>5, <1>6, <2>1, <3>1
  <2>2. ASSUME NEW j \in 1 .. b, i = n + j PROVE v[i] = u[k + i]
    <3>1. k + i = a + j
      BY <1>2, <2>2
    <3> QED BY <1>4, <1>5, <1>6, <2>2, <3>1
  <2>3. i \in 1 .. n + b
    BY <1>5, <1>6
  <2>4. i \in 1 .. n \/ \E j \in 1 .. b : i = n + j
    BY <1>2, <2>3, Places
  <2> QED BY <2>1, <2>2, <2>4
<1>9. Ends(v, u)
  BY <1>7, <1>8 DEF Ends
<1> QED BY <1>3, <1>5, <1>6, <1>9

(* Moving the head of the second to the first changes nothing.             *)
LEMMA HeadMoves ==
    ASSUME NEW M, NEW r \in Seq(M), NEW q \in Seq(M), q # << >>,
           NEW t, Ends(t, Append(r, Head(q)) \o Tail(q))
    PROVE  Ends(t, r \o q)
<1>1. PICK a \in Nat, b \in Nat : a = Len(r) /\ b + 1 = Len(q)
  <2>1. Len(r) \in Nat /\ Len(q) \in Nat /\ Len(q) # 0
    OBVIOUS
  <2>2. Len(q) - 1 \in Nat /\ (Len(q) - 1) + 1 = Len(q)
    BY <2>1
  <2> QED BY <2>1, <2>2
<1>2. /\ Tail(q) \in Seq(M) /\ Len(Tail(q)) = b /\ Head(q) \in M /\ Head(q) = q[1]
      /\ \A i \in 1 .. b : Tail(q)[i] = q[i + 1]
  BY <1>1
<1>3. PICK p \in Seq(M) : /\ p = Append(r, Head(q)) /\ Len(p) = a + 1
                          /\ \A i \in 1 .. a : p[i] = r[i]
                          /\ p[a + 1] = q[1]
  <2>1. PICK h \in M : h = Head(q) /\ h = q[1]
    BY <1>2
  <2>2. /\ Append(r, h) \in Seq(M) /\ Len(Append(r, h)) = a + 1
        /\ \A i \in 1 .. a : Append(r, h)[i] = r[i]
        /\ Append(r, h)[a + 1] = h
    BY <1>1
  <2> QED BY <2>1, <2>2, Zenon
<1>4. /\ Len(r \o q) = a + (b + 1)
      /\ \A i \in 1 .. a : (r \o q)[i] = r[i]
      /\ \A i \in 1 .. b + 1 : (r \o q)[a + i] = q[i]
  BY <1>1
<1>5. /\ Len(p \o Tail(q)) = (a + 1) + b
      /\ \A i \in 1 .. a + 1 : (p \o Tail(q))[i] = p[i]
      /\ \A i \in 1 .. b : (p \o Tail(q))[(a + 1) + i] = q[i + 1]
  <2>1. PICK t2 \in Seq(M) : /\ t2 = Tail(q) /\ Len(t2) = b
                             /\ \A i \in 1 .. b : t2[i] = q[i + 1]
    BY <1>2, Zenon
  <2>2. /\ Len(p \o t2) = (a + 1) + b
        /\ \A i \in 1 .. a + 1 : (p \o t2)[i] = p[i]
        /\ \A i \in 1 .. b : (p \o t2)[(a + 1) + i] = t2[i]
    <3>1. a + 1 \in Nat /\ a + 1 = Len(p) /\ b = Len(t2)
      BY <1>3, <2>1
    <3>2. PICK c \in Nat : c = a + 1
      BY <3>1
    <3>3. c = Len(p) /\ b = Len(t2)
      BY <3>1, <3>2
    <3>4. /\ Len(p \o t2) = c + b
          /\ \A i \in 1 .. c : (p \o t2)[i] = p[i]
          /\ \A i \in 1 .. b : (p \o t2)[c + i] = t2[i]
      BY <3>3, ConcatFacts
    <3> QED BY <3>2, <3>4
  <2> QED BY <2>1, <2>2
<1>6. PICK u, v : u = r \o q /\ v = p \o Tail(q)
  OBVIOUS
<1>7. Len(u) = Len(v) /\ Len(u) \in Nat
  <2>1. Len(u) = a + (b + 1)
    BY <1>4, <1>6
  <2>2. Len(v) = (a + 1) + b
    BY <1>5, <1>6
  <2> QED BY <2>1, <2>2
<1>8. ASSUME NEW i \in 1 .. Len(v) PROVE v[i] = u[i]
  <2>1. CASE i \in 1 .. a
    <3>1. i \in 1 .. a + 1
      BY <2>1
    <3> QED BY <1>3, <1>4, <1>5, <1>6, <2>1, <3>1
  <2>2. CASE i = a + 1
    <3>1. a + 1 \in 1 .. a + 1 /\ 1 \in 1 .. b + 1
      OBVIOUS
    <3> QED BY <1>3, <1>4, <1>5, <1>6, <2>2, <3>1
  <2>3. ASSUME NEW j \in 1 .. b, i = (a + 1) + j PROVE v[i] = u[i]
    <3>1. i = a + (j + 1) /\ j + 1 \in 1 .. b + 1
      BY <2>3
    <3> QED BY <1>4, <1>5, <1>6, <2>3, <3>1
  <2>4. i \in 1 .. a + 1 \/ \E j \in 1 .. b : i = (a + 1) + j
    <3>1. i \in 1 .. (a + 1) + b /\ a + 1 \in Nat
      BY <1>5, <1>6
    <3> QED BY <3>1, Places
  <2>5. i \in 1 .. a + 1 => i \in 1 .. a \/ i = a + 1
    OBVIOUS
  <2> QED BY <2>1, <2>2, <2>3, <2>4, <2>5
<1>9. Ends(t, v)
  BY <1>3, <1>6
<1>10. PICK k \in 0 .. Len(v) : /\ Len(t) = Len(v) - k
                                 /\ \A i \in 1 .. Len(t) : t[i] = v[k + i]
  BY <1>9 DEF Ends
<1>11. ASSUME NEW i \in 1 .. Len(t) PROVE t[i] = u[k + i]
  <2>1. k + i \in 1 .. Len(v)
    BY <1>7, <1>10
  <2> QED BY <1>8, <1>10, <2>1
<1>12. Ends(t, u)
  BY <1>7, <1>10, <1>11 DEF Ends
<1> QED BY <1>6, <1>12

(* A link has its two queues.                                              *)
LEMMA LinkFacts ==
    /\ \A l \in Link : l.recent \in Seq(Message) /\ l.queue \in Seq(Message)
    /\ \A r, q \in Seq(Message) : [recent |-> r, queue |-> q] \in Link
    /\ EmptyLink \in Link /\ EmptyLink.recent = << >> /\ EmptyLink.queue = << >>
BY DEF Link, EmptyLink

(* Publishing adds the message at the end.                                 *)
LEMMA PublishFacts ==
    ASSUME NEW l \in Link, NEW m \in Message
    PROVE  /\ Publish(l, m) \in Link
           /\ Publish(l, m).recent = l.recent
           /\ Publish(l, m).queue = Append(l.queue, m)
<1>1. Append(l.queue, m) \in Seq(Message)
  BY LinkFacts
<1> QED BY <1>1 DEF Publish, Link

(* A delivered message moves on, and the oldest are forgotten.             *)
LEMMA DeliverFacts ==
    ASSUME NEW l \in Link, Waiting(l), Inflight \in Nat
    PROVE  /\ Deliver(l) \in Link
           /\ Deliver(l).queue = Tail(l.queue)
           /\ Head(l.queue) \in Message
           /\ Ends(Chain(Deliver(l)), Chain(l))
<1>1. PICK r \in Seq(Message), q \in Seq(Message) :
        r = l.recent /\ q = l.queue /\ q # << >>
  BY LinkFacts DEF Waiting
<1>2. Head(q) \in Message /\ Tail(q) \in Seq(Message)
  BY <1>1
<1>3. PICK p \in Seq(Message) : p = Append(r, Head(q))
  <2>1. Append(r, Head(q)) \in Seq(Message)
    BY <1>2
  <2> QED BY <2>1, Zenon
<1>4. PICK n \in 0 .. Len(p) : n = Min({Inflight, Len(p)})
  <2>1. Len(p) \in Nat
    BY <1>3
  <2>2. PICK a \in Nat : a = Inflight
    BY Zenon
  <2>3. PICK b \in Nat : b = Len(p)
    BY <2>1, Zenon
  <2>4. a \in Int /\ b \in Int
    BY <2>2, <2>3
  <2>5. Min({a, b}) = IF a <= b THEN a ELSE b
    BY <2>4, MinFacts
  <2>6. Min({a, b}) \in 0 .. b
    BY <2>2, <2>3, <2>5
  <2> QED BY <2>2, <2>3, <2>6, Zenon
<1>5. Deliver(l) = [recent |-> LastOf(p, n), queue |-> Tail(q)]
  BY <1>1, <1>3, <1>4 DEF Deliver
<1>6. LastOf(p, n) \in Seq(Message)
  BY <1>4, LastOfFacts
<1>7. /\ Deliver(l) \in Link
      /\ Deliver(l).recent = LastOf(p, n) /\ Deliver(l).queue = Tail(q)
  <2>1. PICK t \in Seq(Message), u \in Seq(Message) : t = LastOf(p, n) /\ u = Tail(q)
    BY <1>2, <1>6
  <2>2. Deliver(l) = [recent |-> t, queue |-> u]
    BY <1>5, <2>1
  <2>3. [recent |-> t, queue |-> u].recent = t /\ [recent |-> t, queue |-> u].queue = u
    OBVIOUS
  <2>4. Deliver(l) \in Link
    BY <2>2, LinkFacts, Zenon
  <2> QED BY <2>1, <2>2, <2>3, <2>4, Zenon
<1>8. Ends(LastOf(p, n) \o Tail(q), p \o Tail(q))
  BY <1>2, <1>4, EndsWith
<1>9. Ends(LastOf(p, n) \o Tail(q), r \o q)
  BY <1>1, <1>3, <1>8, HeadMoves
<1> QED BY <1>1, <1>2, <1>7, <1>9 DEF Chain

(* What is delivered again comes before the rest, in its order.            *)
LEMMA ResumeFacts ==
    ASSUME NEW l \in Link, NEW n \in 0 .. Len(l.recent)
    PROVE  /\ LastOf(l.recent, n) \o l.queue \in Seq(Message)
           /\ Resume(l, n) \in Link
           /\ Resume(l, n).recent = << >>
           /\ Resume(l, n).queue = LastOf(l.recent, n) \o l.queue
           /\ Ends(LastOf(l.recent, n) \o l.queue, Chain(l))
<1>1. l.recent \in Seq(Message) /\ l.queue \in Seq(Message)
  BY LinkFacts
<1>2. PICK t : t = LastOf(l.recent, n) \o l.queue
  OBVIOUS
<1>3. t \in Seq(Message) /\ Ends(t, Chain(l))
  BY <1>1, <1>2, EndsWith DEF Chain
<1>4. Resume(l, n) = [recent |-> << >>, queue |-> t]
  BY <1>2 DEF Resume
<1>5. << >> \in Seq(Message)
  OBVIOUS
<1>6. Resume(l, n) \in Link
  BY <1>3, <1>4, <1>5, LinkFacts
<1>7. [recent |-> << >>, queue |-> t].recent = << >> /\ [recent |-> << >>, queue |-> t].queue = t
  OBVIOUS
<1> QED BY <1>2, <1>3, <1>4, <1>6, <1>7, Zenon
-----------------------------------------------------------------------------
(* Types                                                                   *)

(* The variables that hold messages, and those that hold rows and states.  *)
Messages ==
    /\ out \in Link /\ up \in Link /\ retained \in Message
    /\ down \in Seq(Commands)
    /\ counted \in Nat /\ lost \subseteq Nat

Row == [online : BOOLEAN, active : BOOLEAN, count : Nat, stored : SUBSET Nat]

States ==
    /\ proc \in {"down", "boot", "run"}
    /\ DOMAIN settings = Key
    /\ net \in {"alive", "dead"}
    /\ db \in Row
    /\ devices \in {"unknown", "online", "offline"}
    /\ sending \in {None, "start_pipeline", "stop_pipeline"}
    /\ missed \subseteq Nat
    /\ faults \in 0 .. MaxFaults /\ commands \in 0 .. MaxCommands

Flags ==
    /\ linked \in BOOLEAN /\ writer \in BOOLEAN /\ seeded \in BOOLEAN
    /\ unsaid \in BOOLEAN /\ drift \in BOOLEAN /\ stale \in BOOLEAN
    /\ unrecorded \in BOOLEAN

(* The type invariant is made of the three.                                *)
LEMMA TypeParts == TypeOK <=> Messages /\ States /\ Flags
BY Zenon DEF TypeOK, Messages, States, Flags, Row

(* The bounds are numbers.                                                 *)
LEMMA Constants ==
    Inflight \in Nat /\ MaxFaults \in Nat /\ MaxCounts \in Nat /\ MaxCommands \in Nat
BY ClientAssumption, StoreAssumption

(* Counts and statuses are messages, and are told apart.                   *)
LEMMA MessageFacts ==
    /\ \A n \in Nat : /\ Count(n) \in Message
                      /\ Count(n).topic = "crowdCount" /\ Count(n).of = n
    /\ Online \in Message /\ Offline \in Message /\ Online # Offline
    /\ Online.topic = "status" /\ Offline.topic = "status"
    /\ \A m \in Message : /\ m.of \in Nat
                          /\ m.topic \in {"crowdCount", "status"}
BY DEF Count, Online, Offline, Message

(* The last status among the messages that arrive is kept, if there is     *)
(* one.                                                                    *)
LEMMA ArriveFacts ==
    ASSUME Messages, NEW ms \in Seq(Message), Arrive(ms)
    PROVE  /\ up' \in Link /\ up'.recent = up.recent /\ up'.queue = up.queue \o ms
           /\ retained' \in Message
           /\ \/ /\ \A i \in 1 .. Len(ms) : ms[i].topic # "status"
                 /\ retained' = retained
              \/ \E i \in 1 .. Len(ms) :
                    /\ ms[i].topic = "status" /\ retained' = ms[i]
                    /\ \A j \in 1 .. Len(ms) : ms[j].topic = "status" => j <= i
<1>1. up \in Link /\ retained \in Message
  BY DEF Messages
<1>2. PICK q \in Seq(Message) : q = up.queue \o ms
  <2>1. up.queue \o ms \in Seq(Message)
    BY <1>1, LinkFacts
  <2> QED BY <2>1, Zenon
<1>3. up' = [up EXCEPT !.queue = q]
  BY <1>2 DEF Arrive
<1>4. up' \in Link /\ up'.recent = up.recent /\ up'.queue = q
  BY <1>1, <1>3 DEF Link
<1> DEFINE said == {i \in 1 .. Len(ms) : ms[i].topic = "status"}
<1>5. retained' = IF said = {} THEN retained ELSE ms[Max(said)]
  BY DEF Arrive
<1>6. CASE said = {}
  BY <1>1, <1>2, <1>4, <1>5, <1>6
<1>7. CASE said # {}
  <2>1. said \in SUBSET (0 .. Len(ms)) /\ Len(ms) \in Nat
    OBVIOUS
  <2>2. PICK i \in said : i = Max(said) /\ \A j \in said : j <= i
    <3> HIDE DEF said
    <3> QED BY <1>7, <2>1, MaxFacts
  <2>3. i \in 1 .. Len(ms) /\ ms[i].topic = "status" /\ ms[i] \in Message
    OBVIOUS
  <2>4. retained' = ms[i]
    BY <1>5, <1>7, <2>2
  <2>5. \A j \in 1 .. Len(ms) : ms[j].topic = "status" => j <= i
    BY <2>2
  <2> HIDE DEF said
  <2> QED BY <1>2, <1>4, <2>3, <2>4, <2>5
<1> QED BY <1>6, <1>7

(* What a client that shuts down sends is the first of what it has to say. *)
LEMMA SentFacts ==
    ASSUME Messages, NEW n \in Nat
    PROVE  LET said == Append(out.queue, Offline)
           IN \E k \in 0 .. Len(said) :
                 /\ SubSeq(said, 1, Min({Inflight - n, Len(said)})) = SubSeq(said, 1, k)
                 /\ SubSeq(said, 1, k) \in Seq(Message)
<1>1. Append(out.queue, Offline) \in Seq(Message)
  BY LinkFacts, MessageFacts DEF Messages
<1>2. PICK said \in Seq(Message) : said = Append(out.queue, Offline)
  BY <1>1, Zenon
<1>3. Inflight - n \in Int /\ Len(said) \in Nat
  BY Constants
<1>4. PICK m \in Int : m = Min({Inflight - n, Len(said)}) /\ m <= Len(said)
  BY <1>3, MinFacts
<1>5. PICK k \in 0 .. Len(said) : SubSeq(said, 1, m) = SubSeq(said, 1, k)
  <2>1. CASE m < 0
    <3>1. SubSeq(said, 1, m) = << >> /\ SubSeq(said, 1, 0) = << >>
      BY <2>1, <1>4
    <3>2. 0 \in 0 .. Len(said)
      BY <1>3
    <3> QED BY <3>1, <3>2
  <2>2. CASE m >= 0
    <3>1. m \in 0 .. Len(said)
      BY <1>3, <1>4, <2>2
    <3> QED BY <3>1
  <2> QED BY <2>1, <2>2
<1>6. SubSeq(said, 1, k) \in Seq(Message)
  BY <1>2, <1>3
<1> QED BY <1>2, <1>4, <1>5, <1>6, Zenon

(* A message published by on_connect, and what follows it.                 *)
LEMMA ResumeWithFacts ==
    ASSUME NEW l \in Link, NEW n \in 0 .. Len(l.recent), NEW m \in Message
    PROVE  /\ ResumeWith(l, n, m) \in Link
           /\ ResumeWith(l, n, m).recent = << >>
           /\ ResumeWith(l, n, m).queue = <<m>> \o (LastOf(l.recent, n) \o l.queue)
<1>1. PICK t \in Seq(Message) : t = LastOf(l.recent, n) \o l.queue
  BY ResumeFacts, Zenon
<1>2. Resume(l, n) \in Link /\ Resume(l, n).recent = << >> /\ Resume(l, n).queue = t
  BY <1>1, ResumeFacts, Zenon
<1>3. <<m>> \o t \in Seq(Message)
  BY <1>1
<1>4. PICK q \in Seq(Message) : q = <<m>> \o t
  BY <1>3, Zenon
<1>5. ResumeWith(l, n, m) = [Resume(l, n) EXCEPT !.queue = q]
  BY <1>2, <1>4 DEF ResumeWith
<1>6. /\ ResumeWith(l, n, m) \in Link
      /\ ResumeWith(l, n, m).recent = Resume(l, n).recent
      /\ ResumeWith(l, n, m).queue = q
  BY <1>2, <1>5 DEF Link
<1> QED BY <1>1, <1>2, <1>4, <1>6, Zenon

(* The broker sends again what was not acknowledged, then the status.      *)
LEMMA ResubscribeFacts ==
    ASSUME Messages, Resubscribe
    PROVE  \E t \in Seq(Message) :
              /\ Ends(t, Chain(up))
              /\ up' \in Link /\ up'.recent = << >> /\ up'.queue = Append(t, retained)
              /\ Append(t, retained) \in Seq(Message)
              /\ \E n \in 0 .. Len(up.recent) : t = LastOf(up.recent, n) \o up.queue
<1>1. PICK n \in 0 .. Len(up.recent) : up' = Publish(Resume(up, n), retained)
  BY DEF Resubscribe
<1>2. up \in Link /\ retained \in Message
  BY DEF Messages
<1>3. PICK t \in Seq(Message) : t = LastOf(up.recent, n) \o up.queue
  BY <1>2, ResumeFacts, Zenon
<1>4. /\ Resume(up, n) \in Link /\ Resume(up, n).recent = << >>
      /\ Resume(up, n).queue = t /\ Ends(t, Chain(up))
  BY <1>2, <1>3, ResumeFacts, Zenon
<1>5. /\ up' \in Link /\ up'.recent = << >> /\ up'.queue = Append(t, retained)
  BY <1>1, <1>2, <1>4, PublishFacts
<1>6. Append(t, retained) \in Seq(Message)
  BY <1>2, <1>3
<1> QED BY <1>3, <1>4, <1>5, <1>6, Zenon

(* Messages stay messages.                                                 *)
LEMMA MessagesStep == TypeOK /\ [Next]_vars => Messages'
<1> SUFFICES ASSUME TypeOK, [Next]_vars PROVE Messages'
  OBVIOUS
<1>t. /\ Messages /\ out \in Link /\ up \in Link /\ retained \in Message
      /\ down \in Seq(Commands) /\ counted \in Nat /\ lost \subseteq Nat
  BY TypeParts DEF Messages
<1>1. CASE Boot
  <2>1. out' \in Link
    BY <1>1, LinkFacts, MessageFacts, PublishFacts DEF Boot
  <2> QED BY <1>1, <1>t, <2>1 DEF Boot, Messages
<1>2. CASE SendCount
  <2>1. counted' \in Nat
    BY <1>2, <1>t DEF SendCount
  <2>2. out' \in Link
    BY <1>2, <1>t, <2>1, MessageFacts, PublishFacts DEF SendCount
  <2> QED BY <1>2, <1>t, <2>1, <2>2 DEF SendCount, Messages
<1>3. CASE ReceiveAdmin \/ DropAdmin
  <2>1. down' \in Seq(Commands)
    <3>1. down # << >> /\ down' = Tail(down)
      BY <1>3 DEF ReceiveAdmin, DropAdmin
    <3> QED BY <1>t, <3>1
  <2> QED BY <1>3, <1>t, <2>1 DEF ReceiveAdmin, DropAdmin, Messages
<1>4. \A ms : ProcessEnds(ms) => out' \in Link /\ counted' = counted /\ lost' \subseteq Nat
  <2>1. Counts(Pending(out)) \subseteq Nat
    BY <1>t, LinkFacts, MessageFacts DEF Counts, Pending
  <2> QED BY <1>t, <2>1, LinkFacts DEF ProcessEnds
<1>5. ASSUME NEW n \in 0 .. Len(out.recent), Disconnect(n) PROVE Messages'
  <2> DEFINE said == Append(out.queue, Offline)
             sent == IF linked THEN SubSeq(said, 1, Min({Inflight - n, Len(said)})) ELSE << >>
  <2>1. sent \in Seq(Message)
    <3>1. n \in Nat
      BY <1>t, LinkFacts
    <3>2. SubSeq(said, 1, Min({Inflight - n, Len(said)})) \in Seq(Message)
      BY <1>t, <3>1, SentFacts, Zenon
    <3>3. << >> \in Seq(Message)
      OBVIOUS
    <3> QED BY <3>2, <3>3
  <2>2. ProcessEnds(sent) /\ Arrive(sent) /\ UNCHANGED down
    BY <1>5 DEF Disconnect
  <2> HIDE DEF sent
  <2> QED BY <1>t, <1>4, <2>1, <2>2, ArriveFacts DEF Messages
<1>6. CASE Crash
  <2>1. ProcessEnds(<< >>)
    BY <1>6 DEF Crash
  <2>2. up' \in Link /\ retained' \in Message
    <3>1. CASE linked
      <4>1. Will \in Seq(Message)
        BY MessageFacts DEF Will
      <4> QED BY <1>6, <1>t, <3>1, <4>1, ArriveFacts DEF Crash
    <3>2. CASE ~linked
      BY <1>6, <1>t, <3>2 DEF Crash
    <3> QED BY <3>1, <3>2
  <2>3. down' \in Seq(Commands)
    BY <1>6, <1>t DEF Crash
  <2> QED BY <1>t, <1>4, <2>1, <2>2, <2>3 DEF Messages
<1>7. CASE Transmit
  <2>1. Waiting(out) /\ out' = Deliver(out) /\ Arrive(<<Head(out.queue)>>)
        /\ UNCHANGED <<down, counted, lost>>
    BY <1>7 DEF Transmit, clientVars
  <2>2. out' \in Link /\ Head(out.queue) \in Message
    BY <1>t, <2>1, Constants, DeliverFacts
  <2>3. <<Head(out.queue)>> \in Seq(Message)
    BY <2>2
  <2> QED BY <1>t, <2>1, <2>2, <2>3, ArriveFacts DEF Messages
<1>8. CASE LoseLink
  <2>1. Will \in Seq(Message)
    BY MessageFacts DEF Will
  <2> QED BY <1>8, <1>t, <2>1, ArriveFacts DEF LoseLink, Messages, clientVars
<1>9. ASSUME NEW n \in 0 .. Len(out.recent), Reconnect(n) PROVE Messages'
  <2>1. out' \in Link
    BY <1>9, <1>t, MessageFacts, ResumeWithFacts DEF Reconnect
  <2> QED BY <1>9, <1>t, <2>1 DEF Reconnect, Messages, clientVars
<1>10. CASE (HandleCrowdCount \/ HandleStatus) /\ UNCHANGED clientVars
  <2>1. Waiting(up) /\ up' = Deliver(up) /\ UNCHANGED <<out, retained, down, counted, lost>>
    BY <1>10 DEF HandleCrowdCount, HandleStatus, Receive, clientVars
  <2>2. up' \in Link
    BY <1>t, <2>1, Constants, DeliverFacts
  <2> QED BY <1>t, <2>1, <2>2 DEF Messages
<1>11. CASE (ReconnectBackend \/ RestartBackend) /\ UNCHANGED clientVars
  <2>1. Resubscribe /\ UNCHANGED <<out, retained, down, counted, lost>>
    BY <1>11 DEF ReconnectBackend, RestartBackend, clientVars
  <2>2. up' \in Link
    BY <1>t, <2>1, ResubscribeFacts
  <2> QED BY <1>t, <2>1, <2>2 DEF Messages
<1>12. ASSUME NEW c \in Commands, Send(c) PROVE Messages'
  <2>1. down' \in Seq(Commands)
    BY <1>12, <1>t DEF Send, SendAdmin
  <2> QED BY <1>12, <1>t, <2>1 DEF Send, SendAdmin, Messages
<1>13. CASE \/ Wire \/ UNCHANGED vars
            \/ (HandleImageRaises \/ Seed \/ RecordSwitch) /\ UNCHANGED clientVars
  BY <1>13, <1>t DEF Wire, HandleImageRaises, Seed, RecordSwitch, vars, linkVars,
                     clientVars, Messages
<1> QED
  BY <1>1, <1>2, <1>3, <1>5, <1>6, <1>7, <1>8, <1>9, <1>10, <1>11, <1>12, <1>13
     DEF Next, Edge, EdgeNext, Store, StoreNext

(* A row stays a row.                                                      *)
LEMMA RowFacts ==
    ASSUME NEW r \in Row, NEW n \in Nat, NEW b \in BOOLEAN
    PROVE  /\ r.online \in BOOLEAN /\ r.active \in BOOLEAN /\ r.count \in Nat
           /\ r.stored \subseteq Nat
           /\ [r EXCEPT !.stored = @ \cup {n}, !.count = n] \in Row
           /\ [r EXCEPT !.online = b] \in Row
           /\ [r EXCEPT !.active = b] \in Row
<1>1. r.stored \cup {n} \in SUBSET Nat
  BY DEF Row
<1> QED BY <1>1 DEF Row

(* Rows and states stay so.                                                *)
LEMMA StatesStep == TypeOK /\ [Next]_vars => States'
<1> SUFFICES ASSUME TypeOK, [Next]_vars PROVE States'
  OBVIOUS
<1>t. States /\ Flags /\ Messages
  BY TypeParts
<1>f. /\ faults' = faults \/ Fault => faults' \in 0 .. MaxFaults
  BY <1>t, Constants DEF States, Fault
<1>1. CASE Boot /\ UNCHANGED <<storeVars, adminVars>>
  <2>1. DOMAIN settings' = Key
    BY <1>1 DEF Boot, Defaults, Key
  <2> QED BY <1>1, <1>t, <2>1 DEF Boot, States, storeVars, adminVars
<1>2. CASE (Wire \/ SendCount \/ DropAdmin) /\ UNCHANGED <<storeVars, adminVars>>
  BY <1>2, <1>t DEF Wire, SendCount, DropAdmin, States, storeVars, adminVars
<1>3. CASE ReceiveAdmin /\ UNCHANGED <<storeVars, adminVars>>
  <2>1. \A c : DOMAIN HandleAdmin(settings, c) = Key
    BY <1>t DEF States, HandleAdmin, Update
  <2>2. DOMAIN settings' = Key
    BY <1>3, <2>1 DEF ReceiveAdmin
  <2> QED BY <1>3, <1>t, <2>2 DEF ReceiveAdmin, States, storeVars, adminVars
<1>4. CASE (Crash \/ \E n \in 0 .. Len(out.recent) : Disconnect(n))
             /\ UNCHANGED <<storeVars, adminVars>>
  <2>1. Fault /\ proc' = "down" /\ settings' = settings
    BY <1>4 DEF Crash, Disconnect, ProcessEnds
  <2> QED BY <1>4, <1>f, <1>t, <2>1 DEF States, storeVars, adminVars
<1>5. CASE (Transmit \/ LoseLink \/ \E n \in 0 .. Len(out.recent) : Reconnect(n))
             /\ UNCHANGED <<storeVars, adminVars>>
  <2>1. UNCHANGED clientVars /\ (faults' = faults \/ Fault)
    BY <1>5 DEF Transmit, LoseLink, Reconnect
  <2> QED BY <1>5, <1>f, <1>t, <2>1 DEF States, clientVars, storeVars, adminVars
<1>6. CASE HandleCrowdCount /\ UNCHANGED clientVars
  <2>1. PICK n \in Nat : n = Head(up.queue).of
    <3>1. Waiting(up)
      BY <1>6 DEF HandleCrowdCount, Receive
    <3> QED BY <1>t, <3>1, Constants, DeliverFacts, MessageFacts DEF Messages
  <2>2. db' = WriteCrowdCount(n) \/ db' = db
    BY <1>6, <2>1 DEF HandleCrowdCount, Unwritten
  <2>3. db' \in Row
    BY <1>t, <2>2, RowFacts DEF States, WriteCrowdCount
  <2>4. missed' = missed \ {n} \/ missed' = missed \cup {n}
    BY <1>6, <2>1 DEF HandleCrowdCount
  <2>5. missed' \subseteq Nat
    BY <1>t, <2>4 DEF States
  <2>6. /\ UNCHANGED <<net, devices, sending, commands>>
        /\ faults' = faults \/ Fault
    BY <1>6 DEF HandleCrowdCount, Receive, Unwritten, adminVars
  <2> QED BY <1>6, <1>f, <1>t, <2>3, <2>5, <2>6 DEF States, clientVars
<1>7. CASE HandleStatus /\ UNCHANGED clientVars
  <2>1. PICK b \in BOOLEAN : db' = db \/ db' = [db EXCEPT !.online = b]
    BY <1>7 DEF HandleStatus, Unwritten, UpsertStop
  <2>2. db' \in Row
    BY <1>t, <2>1, RowFacts DEF States
  <2>3. /\ UNCHANGED <<net, missed, sending, commands>>
        /\ faults' = faults \/ Fault
        /\ devices' \in {"unknown", "online", "offline"}
    BY <1>7 DEF HandleStatus, Receive, Unwritten, adminVars
  <2> QED BY <1>7, <1>f, <1>t, <2>2, <2>3 DEF States, clientVars
<1>8. CASE (HandleImageRaises \/ ReconnectBackend \/ RestartBackend \/ Seed)
             /\ UNCHANGED clientVars
  <2>1. /\ UNCHANGED <<db, missed, commands>>
        /\ faults' = faults \/ Fault
        /\ net' = net \/ net' \in {"alive", "dead"}
        /\ devices' = devices \/ devices' = "unknown"
        /\ sending' = sending \/ sending' = None
    BY <1>8 DEF HandleImageRaises, ReconnectBackend, RestartBackend, Seed, storeVars,
                adminVars
  <2> QED BY <1>8, <1>f, <1>t, <2>1 DEF States, clientVars
<1>9. CASE RecordSwitch /\ UNCHANGED clientVars
  <2>1. PICK b \in BOOLEAN : db' = db \/ db' = [db EXCEPT !.active = b]
    BY <1>9 DEF RecordSwitch, Unwritten, Wanted
  <2>2. db' \in Row
    BY <1>t, <2>1, RowFacts DEF States
  <2>3. /\ UNCHANGED <<net, devices, missed, commands>> /\ sending' = None
        /\ faults' = faults \/ Fault
    BY <1>9 DEF RecordSwitch, Unwritten
  <2> QED BY <1>9, <1>f, <1>t, <2>2, <2>3 DEF States, clientVars
<1>10. ASSUME NEW c \in Commands, Send(c) PROVE States'
  <2>1. /\ UNCHANGED <<proc, settings, net, db, devices, missed>>
        /\ faults' = faults \/ Fault
        /\ sending' \in {None, "start_pipeline", "stop_pipeline"}
    BY <1>10 DEF Send, SendAdmin, Recorded, storeVars
  <2>2. commands' \in 0 .. MaxCommands
    BY <1>10, <1>t, Constants DEF Send, SendAdmin, States
  <2> QED BY <1>f, <1>t, <2>1, <2>2 DEF States
<1>11. CASE UNCHANGED vars
  BY <1>11, <1>t DEF vars, clientVars, storeVars, adminVars, States
<1> QED
  BY <1>1, <1>2, <1>3, <1>4, <1>5, <1>6, <1>7, <1>8, <1>9, <1>10, <1>11
     DEF Next, Edge, EdgeNext, Store, StoreNext

(* Flags stay Booleans.                                                    *)
LEMMA FlagsStep == TypeOK /\ [Next]_vars => Flags'
<1> SUFFICES ASSUME TypeOK, [Next]_vars PROVE Flags'
  OBVIOUS
<1>t. Flags
  BY TypeParts
<1>1. CASE EdgeNext /\ UNCHANGED <<storeVars, adminVars>>
  <2>1. linked' \in BOOLEAN
    BY <1>1, <1>t DEF EdgeNext, Boot, Wire, SendCount, ReceiveAdmin, DropAdmin, Crash,
          Transmit, LoseLink, Disconnect, Reconnect, ProcessEnds, linkVars, Flags
  <2>2. unsaid' \in BOOLEAN
    BY <1>1, <1>t DEF EdgeNext, Boot, Wire, SendCount, ReceiveAdmin, DropAdmin, Crash,
          Transmit, LoseLink, Disconnect, Reconnect, clientVars, Flags
  <2>3. drift' \in BOOLEAN
    BY <1>1, <1>t DEF EdgeNext, Boot, Wire, SendCount, ReceiveAdmin, DropAdmin, Crash,
          Transmit, LoseLink, Disconnect, Reconnect, clientVars, Flags
  <2> QED BY <1>1, <1>t, <2>1, <2>2, <2>3 DEF storeVars, adminVars, Flags
<1>2. CASE StoreNext /\ UNCHANGED clientVars
  <2>1. linked' = linked
    BY <1>2 DEF StoreNext, HandleCrowdCount, HandleStatus, Receive, HandleImageRaises,
          ReconnectBackend, RestartBackend, Seed, RecordSwitch, linkVars
  <2>2. writer' \in BOOLEAN /\ seeded' \in BOOLEAN
    BY <1>2, <1>t DEF StoreNext, HandleCrowdCount, HandleStatus, Receive, HandleImageRaises,
          ReconnectBackend, RestartBackend, Seed, RecordSwitch, storeVars, Flags
  <2>3. stale' \in BOOLEAN
    BY <1>2, <1>t DEF StoreNext, HandleCrowdCount, HandleStatus, Receive, HandleImageRaises,
          ReconnectBackend, RestartBackend, Seed, RecordSwitch, storeVars, Flags
  <2>4. unrecorded' \in BOOLEAN
    BY <1>2, <1>t DEF StoreNext, HandleCrowdCount, HandleStatus, Receive, HandleImageRaises,
          ReconnectBackend, RestartBackend, Seed, RecordSwitch, adminVars, Flags
  <2> QED BY <1>2, <1>t, <2>1, <2>2, <2>3, <2>4 DEF clientVars, Flags
<1>3. ASSUME NEW c \in Commands, Send(c) PROVE Flags'
  BY <1>3, <1>t DEF Send, SendAdmin, storeVars, Flags
<1>4. CASE UNCHANGED vars
  BY <1>4, <1>t DEF vars, linkVars, clientVars, storeVars, adminVars, Flags
<1> QED BY <1>1, <1>2, <1>3, <1>4 DEF Next, Edge, Store

(* Every step keeps the types.                                             *)
LEMMA TypeStep == TypeOK /\ [Next]_vars => TypeOK'
<1>1. TypeOK' <=> Messages' /\ States' /\ Flags'
  BY Zenon DEF TypeOK, Messages, States, Flags, Row
<1> QED BY <1>1, MessagesStep, StatesStep, FlagsStep

(* The initial state has the types.                                        *)
LEMMA InitType == Init => TypeOK
<1> SUFFICES ASSUME Init PROVE TypeOK
  OBVIOUS
<1>1. Messages
  BY LinkFacts, MessageFacts DEF Init, LinkInit, ClientInit, Messages
<1>2. States
  BY Constants DEF Init, LinkInit, ClientInit, StoreInit, States, Row, NewStop, NoCount,
                   Defaults, Key
<1>3. Flags
  BY Zenon DEF Init, LinkInit, ClientInit, StoreInit, Flags
<1> QED BY <1>1, <1>2, <1>3, TypeParts

(* The type invariant of a device and the backend.                         *)
THEOREM TelemetryTypeCorrect == Spec => []TypeOK
  BY InitType, TypeStep, PTL DEF Spec

-----------------------------------------------------------------------------
(* The pipeline flag                                                       *)

LastSwitch(queue, i) ==
    IsSwitch(queue[i]) /\ \A j \in 1 .. Len(queue) : IsSwitch(queue[j]) => j <= i

(* Handling the commands of the queue leads from the setting to goal.      *)
LeadsTo(queue, setting, goal) ==
    /\ \A i \in 1 .. Len(queue) :
          LastSwitch(queue, i) => (goal <=> queue[i].action = "start_pipeline")
    /\ (\A i \in 1 .. Len(queue) : ~ IsSwitch(queue[i])) => setting = goal

(* The last start or stop that was sent, recorded or about to be.          *)
Intended == IF sending # None THEN Wanted ELSE db.active

FlagFollows ==
    /\ ~ drift /\ ~ unrecorded => LeadsTo(down, settings.pipeline_active, Intended)
    /\ sending # None => ~ unrecorded

(* A switch that is sent decides.                                          *)
LEMMA SwitchDecides ==
    ASSUME NEW q \in Seq(Commands), NEW c \in Commands, IsSwitch(c),
           NEW w, NEW b \in BOOLEAN, b <=> c.action = "start_pipeline"
    PROVE  LeadsTo(Append(q, c), w, b)
<1>1. PICK n \in Nat : n = Len(q)
  OBVIOUS
<1>2. PICK p \in Seq(Commands) : /\ p = Append(q, c) /\ Len(p) = n + 1
                                 /\ p[n + 1] = c
  <2>1. Append(q, c) \in Seq(Commands) /\ Len(Append(q, c)) = n + 1
        /\ Append(q, c)[n + 1] = c
    BY <1>1
  <2> QED BY <2>1, Zenon
<1>3. n + 1 \in 1 .. Len(p)
  BY <1>2
<1>4. \A i \in 1 .. Len(p) : LastSwitch(p, i) => i = n + 1
  BY <1>2, <1>3 DEF LastSwitch
<1>5. LeadsTo(p, w, b)
  BY <1>2, <1>3, <1>4 DEF LeadsTo
<1> QED BY <1>2, <1>5

(* Another command does not.                                               *)
LEMMA OthersDoNot ==
    ASSUME NEW q \in Seq(Commands), NEW c \in Commands, ~ IsSwitch(c),
           NEW w, NEW b, LeadsTo(q, w, b)
    PROVE  LeadsTo(Append(q, c), w, b)
<1>1. PICK n \in Nat : n = Len(q)
  OBVIOUS
<1>2. PICK p \in Seq(Commands) : /\ p = Append(q, c) /\ Len(p) = n + 1
                                 /\ p[n + 1] = c
                                 /\ \A i \in 1 .. n : p[i] = q[i]
  <2>1. Append(q, c) \in Seq(Commands) /\ Len(Append(q, c)) = n + 1
        /\ Append(q, c)[n + 1] = c
        /\ \A i \in 1 .. n : Append(q, c)[i] = q[i]
    BY <1>1
  <2> QED BY <2>1, Zenon
<1>3. \A i \in 1 .. Len(p) : i \in 1 .. n \/ i = n + 1
  BY <1>2
<1>4. \A i \in 1 .. n : i \in 1 .. Len(p)
  BY <1>2
<1>5. \A i \in 1 .. Len(p) : LastSwitch(p, i) => i \in 1 .. n /\ LastSwitch(q, i)
  BY <1>1, <1>2, <1>3, <1>4 DEF LastSwitch
<1>6. (\A i \in 1 .. Len(p) : ~ IsSwitch(p[i])) => \A i \in 1 .. n : ~ IsSwitch(q[i])
  BY <1>2, <1>4
<1>7. LeadsTo(p, w, b)
  BY <1>1, <1>2, <1>5, <1>6 DEF LeadsTo
<1> QED BY <1>2, <1>7

(* Handling the first command.                                             *)
LEMMA FirstIsHandled ==
    ASSUME NEW q \in Seq(Commands), q # << >>, NEW w, NEW v, NEW b \in BOOLEAN,
           LeadsTo(q, w, b),
           IsSwitch(Head(q)) => v \in BOOLEAN /\ (v <=> Head(q).action = "start_pipeline"),
           ~ IsSwitch(Head(q)) => v = w
    PROVE  LeadsTo(Tail(q), v, b)
<1>1. PICK n \in Nat : n + 1 = Len(q)
  <2>1. Len(q) \in Nat /\ Len(q) # 0
    OBVIOUS
  <2>2. Len(q) - 1 \in Nat /\ (Len(q) - 1) + 1 = Len(q)
    BY <2>1
  <2> QED BY <2>2
<1>2. PICK p : /\ p = Tail(q) /\ Len(p) = n /\ Head(q) = q[1]
               /\ \A i \in 1 .. n : p[i] = q[i + 1]
  <2>1. /\ Len(Tail(q)) = n /\ Head(q) = q[1]
        /\ \A i \in 1 .. n : Tail(q)[i] = q[i + 1]
    BY <1>1
  <2> QED BY <2>1, Zenon
<1>3. \A i \in 1 .. n : i + 1 \in 1 .. Len(q)
  BY <1>1
<1>4. \A i \in 1 .. Len(q) : i = 1 \/ \E j \in 1 .. n : i = j + 1
  <2> SUFFICES ASSUME NEW i \in 1 .. Len(q), i # 1 PROVE \E j \in 1 .. n : i = j + 1
    OBVIOUS
  <2>1. i - 1 \in 1 .. n /\ i = (i - 1) + 1
    BY <1>1
  <2> QED BY <2>1
<1>5. ASSUME NEW i \in 1 .. n, LastSwitch(p, i) PROVE LastSwitch(q, i + 1)
  <2>1. IsSwitch(q[i + 1])
    BY <1>2, <1>5 DEF LastSwitch
  <2>2. ASSUME NEW j \in 1 .. Len(q), IsSwitch(q[j]) PROVE j <= i + 1
    <3>1. CASE j = 1
      BY <3>1
    <3>2. ASSUME NEW k \in 1 .. n, j = k + 1 PROVE j <= i + 1
      <4>1. IsSwitch(p[k])
        BY <1>2, <2>2, <3>2
      <4>2. k <= i
        BY <1>2, <1>5, <4>1 DEF LastSwitch
      <4> QED BY <3>2, <4>2
    <3> QED BY <1>4, <3>1, <3>2
  <2> QED BY <2>1, <2>2 DEF LastSwitch
<1>6. \A i \in 1 .. Len(p) : LastSwitch(p, i) => (b <=> p[i].action = "start_pipeline")
  BY <1>2, <1>3, <1>5 DEF LeadsTo
<1>7. ASSUME \A i \in 1 .. Len(p) : ~ IsSwitch(p[i]) PROVE v = b
  <2>1. \A j \in 1 .. Len(q) : IsSwitch(q[j]) => j = 1
    BY <1>2, <1>4, <1>7
  <2>2. 1 \in 1 .. Len(q)
    BY <1>1
  <2>3. CASE IsSwitch(q[1])
    <3>1. LastSwitch(q, 1)
      BY <2>1, <2>3 DEF LastSwitch
    <3>2. b <=> q[1].action = "start_pipeline"
      BY <2>2, <3>1 DEF LeadsTo
    <3> QED BY <1>2, <2>3, <3>2
  <2>4. CASE ~ IsSwitch(q[1])
    <3>1. w = b
      BY <2>1, <2>4 DEF LeadsTo
    <3> QED BY <1>2, <2>4, <3>1
  <2> QED BY <2>3, <2>4
<1>8. LeadsTo(p, v, b)
  BY <1>6, <1>7 DEF LeadsTo
<1> QED BY <1>2, <1>8

(* Every step keeps the flag behind the last switch.                       *)
LEMMA FlagStep == TypeOK /\ FlagFollows /\ [Next]_vars => FlagFollows'
<1> SUFFICES ASSUME TypeOK, FlagFollows, [Next]_vars PROVE FlagFollows'
  OBVIOUS
<1>s. sending' # None => ~ unrecorded'
  <2>1. UNCHANGED <<sending, unrecorded>> => (sending' # None => ~ unrecorded')
    BY DEF FlagFollows
  <2>2. \/ UNCHANGED <<sending, unrecorded>>
        \/ sending' = None
        \/ \E c \in Commands : Send(c)
    BY DEF Next, Edge, Store, StoreNext, HandleCrowdCount, HandleStatus, Receive,
           HandleImageRaises, ReconnectBackend, RestartBackend, Seed, RecordSwitch, vars,
           adminVars
  <2>3. ASSUME NEW c \in Commands, Send(c) PROVE sending' # None => ~ unrecorded'
    BY <2>3 DEF Send, SendAdmin
  <2> QED BY <2>1, <2>2, <2>3
<1> SUFFICES ASSUME ~ drift', ~ unrecorded'
             PROVE  LeadsTo(down', settings'.pipeline_active, Intended')
  BY <1>s DEF FlagFollows
<1>t. /\ down \in Seq(Commands) /\ DOMAIN settings = Key /\ db \in Row
      /\ Intended \in BOOLEAN
  <2>1. db \in Row /\ sending \in {None, "start_pipeline", "stop_pipeline"}
    BY TypeParts DEF States
  <2>2. db.active \in BOOLEAN
    BY <2>1 DEF Row
  <2> QED BY <2>1, <2>2, TypeParts DEF Messages, States, Intended, Wanted
<1>a. ASSUME UNCHANGED <<down, settings>>, Intended' = Intended, ~ drift, ~ unrecorded
      PROVE  LeadsTo(down', settings'.pipeline_active, Intended')
  BY <1>a DEF FlagFollows
<1>1. CASE EdgeNext /\ UNCHANGED <<storeVars, adminVars>>
  <2>1. Intended' = Intended /\ ~ unrecorded
    BY <1>1 DEF Intended, Wanted, storeVars, adminVars
  <2>2. CASE ReceiveAdmin
    <3>1. PICK c : c = Head(down)
      OBVIOUS
    <3>2. /\ down # << >> /\ down' = Tail(down) /\ settings' = HandleAdmin(settings, c)
          /\ ~ drift
          /\ ~ IsSwitch(c) => settings'.pipeline_active = settings.pipeline_active
      BY <2>2, <3>1 DEF ReceiveAdmin
    <3>3. LeadsTo(down, settings.pipeline_active, Intended)
      BY <2>1, <3>2 DEF FlagFollows
    <3>4. IsSwitch(c) => /\ settings'.pipeline_active \in BOOLEAN
                         /\ settings'.pipeline_active <=> c.action = "start_pipeline"
      BY <1>t, <3>2 DEF IsSwitch, HandleAdmin, Key
    <3>a. PICK b : b = Intended /\ b \in BOOLEAN
      BY <1>t, Zenon
    <3>ba. PICK q \in Seq(Commands) : q = down
      BY <1>t
    <3>bb. PICK w, v : w = settings.pipeline_active /\ v = settings'.pipeline_active
      OBVIOUS
    <3>b. q = down /\ w = settings.pipeline_active /\ v = settings'.pipeline_active
      BY <3>ba, <3>bb
    <3>5. LeadsTo(q, w, b) /\ q # << >> /\ Head(q) = c
      BY <3>1, <3>2, <3>3, <3>a, <3>b
    <3>6. LeadsTo(Tail(q), v, b)
      BY <3>2, <3>4, <3>5, <3>a, <3>b, FirstIsHandled
    <3> QED BY <2>1, <3>2, <3>6, <3>a, <3>b
  <2>3. CASE DropAdmin
    <3>1. /\ down # << >> /\ down' = Tail(down) /\ settings' = settings
          /\ ~ drift /\ ~ IsSwitch(Head(down))
      BY <2>3 DEF DropAdmin
    <3>2. LeadsTo(down, settings.pipeline_active, Intended)
      BY <2>1, <3>1 DEF FlagFollows
    <3>a. PICK b : b = Intended /\ b \in BOOLEAN
      BY <1>t, Zenon
    <3>3a. PICK q \in Seq(Commands) : q = down
      BY <1>t
    <3>3b. PICK w : w = settings.pipeline_active
      OBVIOUS
    <3>3. q = down /\ w = settings.pipeline_active
      BY <3>3a, <3>3b
    <3>4. LeadsTo(Tail(q), w, b)
      BY <3>1, <3>2, <3>3, <3>a, FirstIsHandled
    <3> QED BY <2>1, <3>1, <3>3, <3>4, <3>a
  <2>4. CASE Boot
    BY <2>4 DEF Boot
  <2>5. CASE Crash
    BY <1>a, <2>1, <2>5 DEF Crash, ProcessEnds
  <2>6. CASE \/ Wire \/ SendCount \/ Transmit \/ LoseLink
             \/ \E n \in 0 .. Len(out.recent) : Disconnect(n) \/ Reconnect(n)
    <3>1. UNCHANGED <<down, settings, drift>>
      BY <2>6 DEF Wire, SendCount, Transmit, LoseLink, Disconnect, Reconnect, ProcessEnds,
                  linkVars, clientVars
    <3> QED BY <1>a, <2>1, <3>1
  <2> QED BY <1>1, <2>2, <2>3, <2>4, <2>5, <2>6 DEF EdgeNext
<1>2. CASE RecordSwitch /\ UNCHANGED clientVars
  <2>1. /\ sending # None /\ sending' = None /\ db' = [db EXCEPT !.active = Wanted]
        /\ UNCHANGED <<down, settings, drift>>
    BY <1>2 DEF RecordSwitch, Unwritten, linkVars, clientVars
  <2>2. ~ unrecorded
    BY <2>1 DEF FlagFollows
  <2>3. Intended' = Intended
    BY <1>t, <2>1 DEF Intended, Row
  <2> QED BY <1>a, <2>1, <2>2, <2>3
<1>3. CASE /\ \/ HandleCrowdCount \/ HandleStatus \/ HandleImageRaises
              \/ ReconnectBackend \/ RestartBackend \/ Seed
           /\ UNCHANGED clientVars
  <2>1. /\ UNCHANGED <<down, settings, drift>> /\ ~ unrecorded
        /\ sending' = sending
    <3>1. UNCHANGED <<down, settings, drift>>
      BY <1>3 DEF HandleCrowdCount, HandleStatus, Receive, HandleImageRaises,
            ReconnectBackend, RestartBackend, Seed, linkVars, clientVars
    <3>2. \/ sending' = sending /\ (unrecorded' <=> unrecorded)
          \/ sending' = None /\ (unrecorded' <=> unrecorded \/ sending # None)
      BY <1>3 DEF HandleCrowdCount, HandleStatus, Receive, HandleImageRaises,
            ReconnectBackend, RestartBackend, Seed, adminVars
    <3>3. ~ unrecorded /\ sending' = sending
      BY <3>2, Zenon
    <3> QED BY <3>1, <3>3
  <2>2. db'.active = db.active
    BY <1>3, <1>t DEF HandleCrowdCount, HandleStatus, HandleImageRaises, ReconnectBackend,
          RestartBackend, Seed, storeVars, Unwritten, WriteCrowdCount, UpsertStop, Row
  <2>3. Intended' = Intended
    BY <2>1, <2>2 DEF Intended, Wanted
  <2> QED BY <1>a, <2>1, <2>3
<1>4. ASSUME NEW c \in Commands, Send(c)
      PROVE  LeadsTo(down', settings'.pipeline_active, Intended')
  <2>1. /\ sending = None /\ UNCHANGED <<settings, db>>
        /\ down' = Append(down, c) \/ down' = down
    BY <1>4 DEF Send, SendAdmin, storeVars
  <2>2. CASE IsSwitch(c)
    <3>1. down' = Append(down, c) /\ sending' = c.action
      BY <1>4, <2>1, <2>2 DEF Send, SendAdmin, IsSwitch, Recorded
    <3>2. /\ Intended' \in BOOLEAN
          /\ Intended' <=> c.action = "start_pipeline"
      BY <2>2, <3>1 DEF Intended, Wanted, IsSwitch, None
    <3>a. PICK b : b = Intended' /\ b \in BOOLEAN
      BY <3>2, Zenon
    <3>3a. PICK q \in Seq(Commands) : q = down
      BY <1>t
    <3>3b. PICK w : w = settings'.pipeline_active
      OBVIOUS
    <3>3. q = down /\ w = settings'.pipeline_active
      BY <3>3a, <3>3b
    <3>4. LeadsTo(Append(q, c), w, b)
      BY <2>2, <3>2, <3>3, <3>a, SwitchDecides
    <3> QED BY <3>1, <3>3, <3>4, <3>a
  <2>3. CASE ~ IsSwitch(c)
    <3>1. drift' = drift /\ sending' = None /\ unrecorded' = unrecorded
      BY <1>4, <2>3 DEF Send, SendAdmin, IsSwitch, Recorded
    <3>2. Intended' = Intended
      BY <2>1, <3>1 DEF Intended
    <3>3. LeadsTo(down, settings.pipeline_active, Intended)
      BY <3>1 DEF FlagFollows
    <3>4a. PICK q \in Seq(Commands) : q = down
      BY <1>t
    <3>4b. PICK w, b : w = settings.pipeline_active /\ b = Intended
      OBVIOUS
    <3>4. q = down /\ w = settings.pipeline_active /\ b = Intended
      BY <3>4a, <3>4b
    <3>5. LeadsTo(Append(q, c), w, b)
      BY <2>3, <3>3, <3>4, OthersDoNot
    <3> QED BY <2>1, <3>2, <3>3, <3>4, <3>5
  <2> QED BY <2>2, <2>3
<1>5. CASE UNCHANGED vars
  <2>1. UNCHANGED <<down, settings, drift, unrecorded, sending, db>>
    BY <1>5 DEF vars, linkVars, clientVars, storeVars, adminVars
  <2> QED BY <1>a, <2>1 DEF Intended, Wanted
<1> QED BY <1>1, <1>2, <1>3, <1>4, <1>5 DEF Next, Edge, Store, StoreNext

(* stops.pipeline_active is what the device does, once the commands are    *)
(* handled, unless one of the causes that the property names was at work.  *)
THEOREM FlagHasCause == Spec => []PipelineFlagHasCause
<1>1. Init => TypeOK /\ FlagFollows
  <2>1. Init => drift /\ sending = None
    BY DEF Init, ClientInit, StoreInit
  <2> QED BY <2>1, InitType DEF FlagFollows
<1>2. TypeOK /\ FlagFollows /\ [Next]_vars => TypeOK' /\ FlagFollows'
  BY TypeStep, FlagStep
<1>3. TypeOK /\ FlagFollows => PipelineFlagHasCause
  <2> SUFFICES ASSUME TypeOK, FlagFollows, down = << >>, sending = None,
                      ~ drift, ~ unrecorded
               PROVE  db.active = settings.pipeline_active
    BY DEF PipelineFlagHasCause
  <2>1. \A i \in 1 .. Len(down) : FALSE
    OBVIOUS
  <2> QED BY <2>1 DEF FlagFollows, LeadsTo, Intended
<1> QED
  BY <1>1, <1>2, <1>3, PTL DEF Spec

-----------------------------------------------------------------------------
(* The status of the device                                                *)

NoStatus(s) == \A i \in 1 .. Len(s) : s[i].topic # "status"

LastStatus(s, x) ==
    \E i \in 1 .. Len(s) :
        /\ s[i].topic = "status" /\ s[i] = x
        /\ \A j \in 1 .. Len(s) : s[j].topic = "status" => j <= i

OnlyOnline(s) == \A i \in 1 .. Len(s) : s[i].topic = "status" => s[i] = Online

(* What arrives after a sequence of messages, and its last status.         *)
LEMMA StatusAfter ==
    ASSUME NEW s \in Seq(Message), NEW t \in Seq(Message), NEW x
    PROVE  /\ LastStatus(t, x) => LastStatus(s \o t, x)
           /\ LastStatus(s, x) /\ NoStatus(t) => LastStatus(s \o t, x)
           /\ NoStatus(s) /\ NoStatus(t) => NoStatus(s \o t)
           /\ OnlyOnline(s \o t) <=> OnlyOnline(s) /\ OnlyOnline(t)
<1>1. PICK a \in Nat, b \in Nat : a = Len(s) /\ b = Len(t)
  OBVIOUS
<1>2. PICK u \in Seq(Message) : u = s \o t
  <2>1. s \o t \in Seq(Message)
    OBVIOUS
  <2> QED BY <2>1, Zenon
<1>3. /\ Len(u) = a + b
      /\ \A i \in 1 .. a : u[i] = s[i]
      /\ \A i \in 1 .. b : u[a + i] = t[i]
  BY <1>1, <1>2, ConcatFacts
<1>4. \A i \in 1 .. a : i \in 1 .. Len(u)
  BY <1>3
<1>5. \A i \in 1 .. b : a + i \in 1 .. Len(u)
  BY <1>3
<1>6. \A i \in 1 .. Len(u) : i \in 1 .. a \/ \E j \in 1 .. b : i = a + j
  BY <1>3, Places
<1>7. ASSUME LastStatus(t, x) PROVE LastStatus(u, x)
  <2>1. PICK i \in 1 .. b : /\ t[i].topic = "status" /\ t[i] = x
                             /\ \A j \in 1 .. b : t[j].topic = "status" => j <= i
    BY <1>1, <1>7 DEF LastStatus
  <2>2. ASSUME NEW j \in 1 .. Len(u), u[j].topic = "status" PROVE j <= a + i
    <3>1. CASE j \in 1 .. a
      BY <3>1
    <3>2. ASSUME NEW k \in 1 .. b, j = a + k PROVE j <= a + i
      <4>1. t[k].topic = "status"
        BY <1>3, <2>2, <3>2
      <4> QED BY <2>1, <3>2, <4>1
    <3> QED BY <1>6, <3>1, <3>2
  <2>3. u[a + i].topic = "status" /\ u[a + i] = x /\ a + i \in 1 .. Len(u)
    BY <1>3, <1>5, <2>1
  <2> QED BY <2>2, <2>3 DEF LastStatus
<1>8. ASSUME LastStatus(s, x), NoStatus(t) PROVE LastStatus(u, x)
  <2>1. PICK i \in 1 .. a : /\ s[i].topic = "status" /\ s[i] = x
                             /\ \A j \in 1 .. a : s[j].topic = "status" => j <= i
    BY <1>1, <1>8 DEF LastStatus
  <2>2. ASSUME NEW j \in 1 .. Len(u), u[j].topic = "status" PROVE j \in 1 .. a
    <3>1. ASSUME NEW k \in 1 .. b, j = a + k PROVE FALSE
      <4>1. u[j] = t[k]
        BY <1>3, <3>1
      <4>2. t[k].topic # "status"
        BY <1>1, <1>8 DEF NoStatus
      <4> QED BY <2>2, <4>1, <4>2
    <3> QED BY <1>6, <3>1
  <2>3. \A j \in 1 .. Len(u) : u[j].topic = "status" => j <= i
    BY <1>3, <2>1, <2>2
  <2>4. u[i].topic = "status" /\ u[i] = x /\ i \in 1 .. Len(u)
    BY <1>3, <1>4, <2>1
  <2> QED BY <2>3, <2>4 DEF LastStatus
<1>9. ASSUME NoStatus(s), NoStatus(t) PROVE NoStatus(u)
  <2>1. \A i \in 1 .. a : u[i].topic # "status"
    BY <1>1, <1>3, <1>9 DEF NoStatus
  <2>2. \A j \in 1 .. b : u[a + j].topic # "status"
    BY <1>1, <1>3, <1>9 DEF NoStatus
  <2>3. \A i \in 1 .. Len(u) : u[i].topic # "status"
    BY <1>6, <2>1, <2>2
  <2> QED BY <2>3 DEF NoStatus
<1>10. OnlyOnline(u) => OnlyOnline(s) /\ OnlyOnline(t)
  BY <1>1, <1>3, <1>4, <1>5 DEF OnlyOnline
<1>11. ASSUME OnlyOnline(s), OnlyOnline(t) PROVE OnlyOnline(u)
  <2>1. \A i \in 1 .. a : u[i].topic = "status" => u[i] = Online
    BY <1>1, <1>3, <1>11 DEF OnlyOnline
  <2>2. \A j \in 1 .. b : u[a + j].topic = "status" => u[a + j] = Online
    BY <1>1, <1>3, <1>11 DEF OnlyOnline
  <2>3. \A i \in 1 .. Len(u) : u[i].topic = "status" => u[i] = Online
    BY <1>6, <2>1, <2>2
  <2> QED BY <2>3 DEF OnlyOnline
<1> QED BY <1>2, <1>7, <1>8, <1>9, <1>10, <1>11

(* A status is the last one at the end.                                    *)
LEMMA StatusAtEnd ==
    ASSUME NEW s \in Seq(Message), NEW x \in Message
    PROVE  /\ x.topic = "status" => LastStatus(Append(s, x), x)
           /\ OnlyOnline(s) /\ (x.topic = "status" => x = Online)
                => OnlyOnline(Append(s, x))
<1>1. PICK a \in Nat : a = Len(s)
  OBVIOUS
<1>2. PICK u : /\ u = Append(s, x) /\ Len(u) = a + 1 /\ u[a + 1] = x
               /\ \A i \in 1 .. a : u[i] = s[i]
  <2>1. /\ Len(Append(s, x)) = a + 1 /\ Append(s, x)[a + 1] = x
        /\ \A i \in 1 .. a : Append(s, x)[i] = s[i]
    BY <1>1
  <2> QED BY <2>1, Zenon
<1>3. a + 1 \in 1 .. Len(u) /\ \A i \in 1 .. Len(u) : i <= a + 1
  BY <1>2
<1>4. \A i \in 1 .. Len(u) : i \in 1 .. a \/ i = a + 1
  BY <1>2
<1>5. x.topic = "status" => LastStatus(u, x)
  BY <1>2, <1>3 DEF LastStatus
<1>6. OnlyOnline(s) /\ (x.topic = "status" => x = Online) => OnlyOnline(u)
  BY <1>1, <1>2, <1>4 DEF OnlyOnline
<1> QED BY <1>2, <1>5, <1>6

(* The statuses that are left when the first message is taken.             *)
LEMMA StatusLeft ==
    ASSUME NEW s \in Seq(Message), s # << >>, NEW x
    PROVE  /\ NoStatus(s) => NoStatus(Tail(s)) /\ Head(s).topic # "status"
           /\ LastStatus(s, x) =>
                \/ LastStatus(Tail(s), x)
                \/ NoStatus(Tail(s)) /\ Head(s) = x /\ Head(s).topic = "status"
<1>1. PICK n \in Nat : n + 1 = Len(s)
  <2>1. Len(s) \in Nat /\ Len(s) # 0
    OBVIOUS
  <2>2. Len(s) - 1 \in Nat /\ (Len(s) - 1) + 1 = Len(s)
    BY <2>1
  <2> QED BY <2>2
<1>2. PICK u : /\ u = Tail(s) /\ Len(u) = n /\ Head(s) = s[1]
               /\ \A i \in 1 .. n : u[i] = s[i + 1]
  <2>1. /\ Len(Tail(s)) = n /\ Head(s) = s[1]
        /\ \A i \in 1 .. n : Tail(s)[i] = s[i + 1]
    BY <1>1
  <2> QED BY <2>1, Zenon
<1>3. 1 \in 1 .. Len(s) /\ \A i \in 1 .. n : i + 1 \in 1 .. Len(s)
  BY <1>1
<1>4. NoStatus(s) => NoStatus(u) /\ Head(s).topic # "status"
  BY <1>2, <1>3 DEF NoStatus
<1>5. ASSUME LastStatus(s, x)
      PROVE  \/ LastStatus(u, x)
             \/ NoStatus(u) /\ Head(s) = x /\ Head(s).topic = "status"
  <2>1. PICK i \in 1 .. Len(s) : /\ s[i].topic = "status" /\ s[i] = x
                                  /\ \A j \in 1 .. Len(s) : s[j].topic = "status" => j <= i
    BY <1>5 DEF LastStatus
  <2>2. CASE i = 1
    <3>1. \A j \in 1 .. n : s[j + 1].topic # "status"
      BY <1>3, <2>1, <2>2
    <3> QED BY <1>2, <2>1, <2>2, <3>1 DEF NoStatus
  <2>3. CASE i # 1
    <3>1. PICK k \in 1 .. n : i = k + 1
      <4>1. i - 1 \in 1 .. n /\ i = (i - 1) + 1
        BY <1>1, <2>3
      <4> QED BY <4>1
    <3>2. \A j \in 1 .. n : u[j].topic = "status" => j <= k
      BY <1>2, <1>3, <2>1, <3>1
    <3>3. u[k].topic = "status" /\ u[k] = x
      BY <1>2, <2>1, <3>1
    <3> QED BY <1>2, <3>2, <3>3 DEF LastStatus
  <2> QED BY <2>2, <2>3
<1> QED BY <1>2, <1>4, <1>5

(* The end of a sequence has no other statuses.                            *)
LEMMA OnlyOnlineEnds ==
    ASSUME NEW s \in Seq(Message), OnlyOnline(s), NEW t, Ends(t, s)
    PROVE  OnlyOnline(t)
<1>1. PICK n \in Nat : n = Len(s)
  OBVIOUS
<1>2. PICK k \in 0 .. n : Len(t) = n - k /\ \A i \in 1 .. Len(t) : t[i] = s[k + i]
  BY <1>1 DEF Ends
<1>3. \A i \in 1 .. Len(t) : k + i \in 1 .. n
  BY <1>2
<1> QED BY <1>1, <1>2, <1>3 DEF OnlyOnline

Said(x) == IF x = Online THEN "online" ELSE "offline"

(* The last status the broker has is on its way to the backend, or is what *)
(* the backend was told last.                                              *)
Told ==
    /\ retained.topic = "status"
    /\ \/ LastStatus(up.queue, retained)
       \/ /\ NoStatus(up.queue)
          /\ devices \in {"unknown", Said(retained)}
          /\ stale \/ (db.online <=> retained = Online)

(* A client says nothing but that it is online, until it shuts down; while *)
(* it is connected the broker has that, or will get it.                    *)
SaysOnline ==
    /\ OnlyOnline(Chain(out))
    /\ linked => ~ NoStatus(out.queue) \/ retained = Online

(* Without a connection the broker has the other.                          *)
SaidOffline == ~ linked /\ ~ unsaid => retained = Offline

Process ==
    /\ proc = "down" => ~ linked /\ out = EmptyLink
    /\ proc # "down" => ~ unsaid

StatusInv == TypeOK /\ Told /\ SaysOnline /\ SaidOffline /\ Process

(* Whatever arrives, the last status of it follows those before.           *)
LEMMA ToldArrive ==
    ASSUME StatusInv, NEW ms \in Seq(Message), Arrive(ms), UNCHANGED <<devices, stale, db>>
    PROVE  Told'
<1>1. Messages /\ up \in Link /\ up.queue \in Seq(Message)
  BY LinkFacts, TypeParts DEF StatusInv, Messages
<1>2. /\ up'.queue = up.queue \o ms
      /\ \/ NoStatus(ms) /\ retained' = retained
         \/ LastStatus(ms, retained')
  <2>1. \/ NoStatus(ms) /\ retained' = retained
        \/ \E i \in 1 .. Len(ms) :
              /\ ms[i].topic = "status" /\ retained' = ms[i]
              /\ \A j \in 1 .. Len(ms) : ms[j].topic = "status" => j <= i
    BY <1>1, ArriveFacts DEF NoStatus
  <2>2. up'.queue = up.queue \o ms
    BY <1>1, ArriveFacts
  <2> QED BY <2>1, <2>2 DEF LastStatus
<1>3a. PICK q \in Seq(Message) : q = up.queue
  BY <1>1
<1>3b. PICK x : x = retained'
  OBVIOUS
<1>3. q = up.queue /\ x = retained'
  BY <1>3a, <1>3b
<1>r. retained'.topic = "status"
  <2>1. retained.topic = "status"
    BY DEF StatusInv, Told
  <2> QED BY <1>2, <2>1 DEF LastStatus
<1>4. CASE LastStatus(ms, retained')
  <2>1. LastStatus(q \o ms, x)
    BY <1>3, <1>4, StatusAfter
  <2> QED BY <1>2, <1>3, <1>r, <2>1 DEF Told
<1>5. CASE NoStatus(ms) /\ retained' = retained
  <2>1. LastStatus(q, x) => LastStatus(q \o ms, x)
    BY <1>5, StatusAfter
  <2>2. NoStatus(q) => NoStatus(q \o ms)
    BY <1>5, StatusAfter
  <2>3. CASE LastStatus(up.queue, retained)
    BY <1>2, <1>3, <1>5, <1>r, <2>1, <2>3 DEF Told
  <2>4. CASE ~ LastStatus(up.queue, retained)
    <3>1. /\ NoStatus(up.queue) /\ devices \in {"unknown", Said(retained)}
          /\ stale \/ (db.online <=> retained = Online)
      BY <2>4 DEF StatusInv, Told
    <3>2. NoStatus(up'.queue)
      BY <1>2, <1>3, <2>2, <3>1
    <3> QED BY <1>5, <1>r, <3>1, <3>2 DEF Told
  <2> QED BY <2>3, <2>4
<1> QED BY <1>2, <1>4, <1>5

(* The messages of a chain are those of its two queues.                    *)
LEMMA OnlineChain ==
    ASSUME NEW l \in Link
    PROVE  OnlyOnline(Chain(l)) <=> OnlyOnline(l.recent) /\ OnlyOnline(l.queue)
BY LinkFacts, StatusAfter DEF Chain

(* Every step of the device keeps the invariant.                           *)
LEMMA StatusEdge ==
    ASSUME StatusInv, TypeOK', EdgeNext, UNCHANGED <<storeVars, adminVars>>
    PROVE  StatusInv'
<1>t. /\ Messages /\ out \in Link /\ up \in Link /\ out.queue \in Seq(Message)
      /\ out.recent \in Seq(Message) /\ Chain(out) \in Seq(Message)
      /\ linked \in BOOLEAN
  <2>1. Messages /\ out \in Link /\ up \in Link /\ linked \in BOOLEAN
    BY TypeParts DEF StatusInv, Messages, Flags
  <2>2. out.queue \in Seq(Message) /\ out.recent \in Seq(Message)
    BY <2>1, LinkFacts
  <2>3. out.recent \o out.queue \in Seq(Message)
    BY <2>2
  <2> QED BY <2>1, <2>2, <2>3 DEF Chain
<1>s. UNCHANGED <<devices, stale, db>>
  BY DEF storeVars
<1>i. Told /\ SaysOnline /\ SaidOffline /\ Process
  BY DEF StatusInv
<1>e. OnlyOnline(Chain(EmptyLink)) /\ NoStatus(<< >>)
  <2>1. OnlyOnline(<< >>) /\ NoStatus(<< >>)
    BY DEF OnlyOnline, NoStatus
  <2> QED BY <2>1, LinkFacts, OnlineChain
<1>w. Will \in Seq(Message) /\ Len(Will) = 1 /\ Will[1] = Offline
  BY MessageFacts DEF Will
<1>v. Arrive(Will) => retained' = Offline
  <2> SUFFICES ASSUME Arrive(Will) PROVE retained' = Offline
    OBVIOUS
  <2>1. \A i \in 1 .. Len(Will) : Will[i] = Offline
    BY <1>w
  <2>2. 1 \in 1 .. Len(Will)
    BY <1>w
  <2>3. PICK ms \in Seq(Message) : ms = Will
    BY <1>w
  <2>4. \/ \A i \in 1 .. Len(ms) : ms[i].topic # "status"
        \/ \E i \in 1 .. Len(ms) : retained' = ms[i]
    BY <1>t, <2>3, ArriveFacts
  <2>5. ms[1].topic = "status"
    BY <1>w, <2>3, MessageFacts
  <2>6. PICK i \in 1 .. Len(ms) : retained' = ms[i]
    BY <2>2, <2>3, <2>4, <2>5
  <2> QED BY <2>1, <2>3, <2>6
<1>1. CASE Boot
  <2>1. /\ out' = Publish(EmptyLink, Online) /\ linked' /\ proc' = "boot" /\ ~ unsaid'
        /\ UNCHANGED <<up, retained>>
    BY <1>1 DEF Boot
  <2>2. out'.recent = << >> /\ out'.queue = Append(<< >>, Online) /\ out' \in Link
    <3>1. PICK l \in Link : l = EmptyLink /\ l.recent = << >> /\ l.queue = << >>
      BY LinkFacts
    <3>2. PICK m \in Message : m = Online
      BY MessageFacts
    <3>3. /\ Publish(l, m) \in Link /\ Publish(l, m).recent = l.recent
          /\ Publish(l, m).queue = Append(l.queue, m)
      BY PublishFacts
    <3> QED BY <2>1, <3>1, <3>2, <3>3
  <2>3. OnlyOnline(<< >>) /\ << >> \in Seq(Message)
    BY DEF OnlyOnline
  <2>4. OnlyOnline(Append(<< >>, Online)) /\ LastStatus(Append(<< >>, Online), Online)
    BY <2>3, MessageFacts, StatusAtEnd
  <2>5. OnlyOnline(Chain(out'))
    BY <2>2, <2>3, <2>4, OnlineChain
  <2>6. ~ NoStatus(out'.queue)
    BY <2>2, <2>4 DEF NoStatus, LastStatus
  <2>7. Told'
    BY <1>i, <1>s, <2>1 DEF Told
  <2> QED BY <2>1, <2>5, <2>6, <2>7 DEF StatusInv, SaysOnline, SaidOffline, Process
<1>2. CASE Wire
  <2>1. UNCHANGED <<out, up, retained, linked, unsaid>> /\ proc = "boot" /\ proc' = "run"
    BY <1>2 DEF Wire, linkVars
  <2> QED BY <1>i, <1>s, <2>1 DEF StatusInv, Told, SaysOnline, SaidOffline, Process
<1>3. CASE SendCount
  <2>1. PICK m \in Message : m.topic = "crowdCount" /\ out' = Publish(out, m)
    <3>1. counted + 1 \in Nat /\ counted' = counted + 1
      BY <1>3, <1>t DEF SendCount, Messages
    <3> QED BY <1>3, <3>1, MessageFacts DEF SendCount
  <2>2. UNCHANGED <<up, retained, linked, unsaid, proc>> /\ proc = "run"
    BY <1>3 DEF SendCount
  <2>3. /\ out' \in Link /\ out'.recent = out.recent /\ out'.queue = Append(out.queue, m)
    BY <1>t, <2>1, PublishFacts
  <2>4. OnlyOnline(Chain(out'))
    <3>1. OnlyOnline(out.recent) /\ OnlyOnline(out.queue)
      BY <1>i, <1>t, OnlineChain DEF SaysOnline
    <3>2. OnlyOnline(Append(out.queue, m))
      BY <1>t, <2>1, <3>1, StatusAtEnd
    <3> QED BY <2>3, <3>1, <3>2, OnlineChain
  <2>5. ~ NoStatus(out.queue) => ~ NoStatus(out'.queue)
    <3>1. PICK q \in Seq(Message) : q = out.queue
      BY <1>t
    <3>2. NoStatus(Append(q, m)) => NoStatus(q)
      <4>1. \A i \in 1 .. Len(q) : i \in 1 .. Len(Append(q, m)) /\ Append(q, m)[i] = q[i]
        OBVIOUS
      <4> QED BY <4>1 DEF NoStatus
    <3> QED BY <2>3, <3>1, <3>2
  <2>6. Told'
    BY <1>i, <1>s, <2>2 DEF Told
  <2> QED BY <1>i, <2>2, <2>4, <2>5, <2>6 DEF StatusInv, SaysOnline, SaidOffline, Process
<1>4. CASE ReceiveAdmin \/ DropAdmin
  <2>1. UNCHANGED <<out, up, retained, linked, unsaid, proc>>
    BY <1>4 DEF ReceiveAdmin, DropAdmin
  <2> QED BY <1>i, <1>s, <2>1 DEF StatusInv, Told, SaysOnline, SaidOffline, Process
<1>5. CASE Crash
  <2>1. /\ proc # "down" /\ proc' = "down" /\ linked' = FALSE /\ out' = EmptyLink
        /\ unsaid' = unsaid
    BY <1>5 DEF Crash, ProcessEnds
  <2>2. Told' /\ retained' = Offline
    <3>1. CASE linked
      <4>1. Arrive(Will)
        BY <1>5, <3>1 DEF Crash
      <4> QED BY <1>s, <1>v, <1>w, <4>1, ToldArrive
    <3>2. CASE ~ linked
      <4>1. UNCHANGED <<up, retained>>
        BY <1>5, <3>2 DEF Crash
      <4>2. ~ unsaid
        BY <1>i, <2>1 DEF Process
      <4> QED BY <1>i, <1>s, <3>2, <4>1, <4>2 DEF Told, SaidOffline
    <3> QED BY <3>1, <3>2
  <2> QED BY <1>e, <2>1, <2>2 DEF StatusInv, SaysOnline, SaidOffline, Process
<1>6. ASSUME NEW n \in 0 .. Len(out.recent), Disconnect(n) PROVE StatusInv'
  <2>1. PICK said \in Seq(Message) : said = Append(out.queue, Offline)
    <3>1. Append(out.queue, Offline) \in Seq(Message)
      BY <1>t, MessageFacts
    <3> QED BY <3>1, Zenon
  <2>2. n \in Nat
    BY <1>t
  <2>3. PICK sent \in Seq(Message) :
          /\ ProcessEnds(sent) /\ Arrive(sent) /\ (unsaid' <=> linked /\ sent # said)
          /\ ~ linked => sent = << >>
    <3>1. SubSeq(said, 1, Min({Inflight - n, Len(said)})) \in Seq(Message)
      BY <1>t, <2>1, <2>2, SentFacts, Zenon
    <3>2. << >> \in Seq(Message)
      OBVIOUS
    <3>3. PICK u \in Seq(Message) :
            u = IF linked THEN SubSeq(said, 1, Min({Inflight - n, Len(said)})) ELSE << >>
      BY <3>1, <3>2
    <3>4. ProcessEnds(u) /\ Arrive(u) /\ unsaid' = (linked /\ u # said)
      BY <1>6, <2>1, <3>3 DEF Disconnect
    <3> QED BY <3>3, <3>4
  <2>4. proc = "run" /\ proc' = "down" /\ linked' = FALSE /\ out' = EmptyLink
    BY <1>6, <2>3 DEF Disconnect, ProcessEnds
  <2>5. Told'
    BY <1>s, <2>3, ToldArrive
  <2>6. ASSUME ~ unsaid' PROVE retained' = Offline
    <3>1. CASE linked
      <4>1. sent = said
        BY <2>3, <2>6, <3>1
      <4>2. LastStatus(said, Offline)
        BY <1>t, <2>1, MessageFacts, StatusAtEnd
      <4>3. PICK i \in 1 .. Len(said) :
              /\ said[i].topic = "status" /\ said[i] = Offline
              /\ \A j \in 1 .. Len(said) : said[j].topic = "status" => j <= i
        BY <4>2 DEF LastStatus
      <4>4. Arrive(said)
        BY <2>3, <4>1
      <4>5. PICK k \in 1 .. Len(said) :
              /\ said[k].topic = "status" /\ retained' = said[k]
              /\ \A j \in 1 .. Len(said) : said[j].topic = "status" => j <= k
        BY <1>t, <4>3, <4>4, ArriveFacts
      <4>6. i <= k /\ k <= i
        BY <4>3, <4>5
      <4>7. i = k
        BY <4>6
      <4> QED BY <4>3, <4>5, <4>7
    <3>2. CASE ~ linked
      <4>1. \A i \in 1 .. Len(sent) : FALSE
        BY <2>3, <3>2
      <4>2. retained' = retained
        BY <1>t, <2>3, <4>1, ArriveFacts
      <4>3. ~ unsaid
        BY <1>i, <2>4 DEF Process
      <4> QED BY <1>i, <3>2, <4>2, <4>3 DEF SaidOffline
    <3> QED BY <3>1, <3>2
  <2> QED BY <1>e, <2>4, <2>5, <2>6 DEF StatusInv, SaysOnline, SaidOffline, Process
<1>7. CASE Transmit
  <2>1. /\ linked /\ Waiting(out) /\ out' = Deliver(out) /\ Arrive(<<Head(out.queue)>>)
        /\ UNCHANGED <<linked, unsaid, proc>>
    BY <1>7 DEF Transmit, clientVars
  <2>2. PICK m \in Message : m = Head(out.queue)
    BY <1>t, <2>1, Constants, DeliverFacts
  <2>3. <<m>> \in Seq(Message) /\ Arrive(<<m>>) /\ Len(<<m>>) = 1 /\ <<m>>[1] = m
    BY <2>1, <2>2
  <2>4. Told'
    BY <1>s, <2>3, ToldArrive
  <2>5. /\ out'.queue = Tail(out.queue) /\ Ends(Chain(out'), Chain(out))
    BY <1>t, <2>1, Constants, DeliverFacts
  <2>6. OnlyOnline(Chain(out'))
    BY <1>i, <1>t, <2>5, OnlyOnlineEnds DEF SaysOnline
  <2>7. ~ NoStatus(out'.queue) \/ retained' = Online
    <3>1. m.topic = "status" => m = Online
      <4>1. OnlyOnline(out.queue)
        BY <1>i, <1>t, OnlineChain DEF SaysOnline
      <4>2. out.queue # << >> /\ out.queue[1] = m /\ 1 \in 1 .. Len(out.queue)
        BY <1>t, <2>1, <2>2 DEF Waiting
      <4> QED BY <4>1, <4>2 DEF OnlyOnline
    <3>2. CASE m.topic = "status"
      <4>1. \A i \in 1 .. Len(<<m>>) : <<m>>[i] = m
        BY <2>3
      <4>2. 1 \in 1 .. Len(<<m>>)
        BY <2>3
      <4> QED BY <1>t, <2>3, <3>1, <3>2, <4>1, <4>2, ArriveFacts
    <3>3. CASE m.topic # "status"
      <4>1. \A i \in 1 .. Len(<<m>>) : <<m>>[i].topic # "status"
        BY <2>3, <3>3
      <4>2. retained' = retained
        BY <1>t, <2>3, <4>1, ArriveFacts
      <4>3. NoStatus(Tail(out.queue)) => NoStatus(out.queue)
        <5>1. PICK q \in Seq(Message) : q = out.queue /\ q # << >> /\ Head(q) = m
          BY <1>t, <2>1, <2>2 DEF Waiting
        <5>2. ASSUME NoStatus(Tail(q)), NEW i \in 1 .. Len(q) PROVE q[i].topic # "status"
          <6>1. CASE i = 1
            BY <3>3, <5>1, <6>1
          <6>2. CASE i # 1
            <7>1. i - 1 \in 1 .. Len(Tail(q)) /\ Tail(q)[i - 1] = q[i]
              BY <5>1, <6>2
            <7> QED BY <5>2, <7>1 DEF NoStatus
          <6> QED BY <6>1, <6>2
        <5> QED BY <5>1, <5>2 DEF NoStatus
      <4> QED BY <1>i, <2>1, <2>5, <4>2, <4>3 DEF SaysOnline
    <3> QED BY <3>2, <3>3
  <2> QED BY <1>i, <2>1, <2>4, <2>6, <2>7 DEF StatusInv, SaysOnline, SaidOffline, Process
<1>8. CASE LoseLink
  <2>1. linked /\ linked' = FALSE /\ Arrive(Will) /\ UNCHANGED <<out, unsaid, proc>>
    BY <1>8 DEF LoseLink, clientVars
  <2>2. Told' /\ retained' = Offline
    BY <1>s, <1>v, <1>w, <2>1, ToldArrive
  <2> QED BY <1>i, <2>1, <2>2 DEF StatusInv, SaysOnline, SaidOffline, Process
<1>9. ASSUME NEW n \in 0 .. Len(out.recent), Reconnect(n) PROVE StatusInv'
  <2>1. /\ linked' = TRUE /\ proc # "down" /\ out' = ResumeWith(out, n, Online)
        /\ UNCHANGED <<up, retained, unsaid, proc>>
    BY <1>9 DEF Reconnect, clientVars
  <2>2. PICK t \in Seq(Message) : t = LastOf(out.recent, n) \o out.queue
    BY <1>t, ResumeFacts, Zenon
  <2>3. OnlyOnline(t)
    BY <1>i, <1>t, <2>2, ResumeFacts, OnlyOnlineEnds DEF SaysOnline
  <2>4. out' \in Link /\ out'.recent = << >> /\ out'.queue = <<Online>> \o t
    BY <1>t, <2>1, <2>2, MessageFacts, ResumeWithFacts
  <2>5. /\ <<Online>> \in Seq(Message) /\ << >> \in Seq(Message)
        /\ OnlyOnline(<<Online>>) /\ OnlyOnline(<< >>)
    BY MessageFacts DEF OnlyOnline
  <2>6. OnlyOnline(<<Online>> \o t)
    BY <2>3, <2>5, StatusAfter
  <2>7. OnlyOnline(Chain(out'))
    BY <2>4, <2>5, <2>6, OnlineChain
  <2>8. ~ NoStatus(out'.queue)
    <3>1. PICK u \in Seq(Message) : u = <<Online>> /\ Len(u) = 1 /\ u[1] = Online
      BY <2>5
    <3>2. PICK b \in Nat : b = Len(t)
      OBVIOUS
    <3>3. Len(u \o t) = 1 + b /\ (u \o t)[1] = u[1]
      BY <3>1, <3>2, ConcatFacts
    <3>4. 1 \in 1 .. 1 + b
      OBVIOUS
    <3> QED BY <2>4, <3>1, <3>3, <3>4, MessageFacts DEF NoStatus
  <2>9. Told'
    BY <1>i, <1>s, <2>1 DEF Told
  <2> QED BY <1>i, <2>1, <2>7, <2>8, <2>9 DEF StatusInv, SaysOnline, SaidOffline, Process
<1> QED
  BY <1>1, <1>2, <1>3, <1>4, <1>5, <1>6, <1>7, <1>8, <1>9 DEF EdgeNext

(* Every step of the backend keeps the invariant.                          *)
LEMMA StatusStore ==
    ASSUME StatusInv, TypeOK', StoreNext, UNCHANGED clientVars
    PROVE  StatusInv'
<1>t. /\ Messages /\ up \in Link /\ up.queue \in Seq(Message) /\ db \in Row
      /\ seeded \in BOOLEAN
  BY TypeParts, LinkFacts DEF StatusInv, Messages, States, Flags
<1>i. Told /\ SaysOnline /\ SaidOffline /\ Process
  BY DEF StatusInv
<1>u. UNCHANGED <<proc, unsaid>>
  BY DEF clientVars
<1>o. UNCHANGED <<out, linked, retained>>
  BY DEF StoreNext, HandleCrowdCount, HandleStatus, Receive, HandleImageRaises,
         ReconnectBackend, RestartBackend, Seed, RecordSwitch, linkVars
<1>k. SaysOnline' /\ SaidOffline' /\ Process'
  BY <1>i, <1>o, <1>u DEF SaysOnline, SaidOffline, Process
<1>1. ASSUME NEW topic, Receive(topic)
      PROVE  \E q \in Seq(Message), m \in Message :
                /\ q = up.queue /\ q # << >> /\ m = Head(q) /\ m.topic = topic
                /\ up'.queue = Tail(q)
  <2>1. Waiting(up) /\ up' = Deliver(up) /\ Head(up.queue).topic = topic
    BY <1>1 DEF Receive
  <2>2. up'.queue = Tail(up.queue) /\ Head(up.queue) \in Message
    BY <1>t, <2>1, Constants, DeliverFacts
  <2> QED BY <1>t, <2>1, <2>2 DEF Waiting
<1>2. CASE HandleCrowdCount
  <2>1. PICK q \in Seq(Message), m \in Message :
          /\ q = up.queue /\ q # << >> /\ m = Head(q) /\ m.topic = "crowdCount"
          /\ up'.queue = Tail(q)
    BY <1>1, <1>2 DEF HandleCrowdCount
  <2>2. UNCHANGED <<devices, stale>> /\ db'.online = db.online
    BY <1>2, <1>t DEF HandleCrowdCount, WriteCrowdCount, Unwritten, Row
  <2>3. /\ NoStatus(q) => NoStatus(Tail(q))
        /\ LastStatus(q, retained) => LastStatus(Tail(q), retained)
    BY <2>1, StatusLeft
  <2>4. Told'
    BY <1>i, <1>o, <2>1, <2>2, <2>3 DEF Told
  <2> QED BY <1>k, <2>4 DEF StatusInv
<1>3. CASE HandleStatus
  <2>1. PICK q \in Seq(Message), m \in Message :
          /\ q = up.queue /\ q # << >> /\ m = Head(q) /\ m.topic = "status"
          /\ up'.queue = Tail(q)
    BY <1>1, <1>3 DEF HandleStatus
  <2>2. /\ LastStatus(q, retained)
        /\ \/ LastStatus(Tail(q), retained)
           \/ NoStatus(Tail(q)) /\ m = retained
    <3>1. ~ NoStatus(q)
      BY <2>1, StatusLeft
    <3>2. LastStatus(q, retained)
      BY <1>i, <2>1, <3>1 DEF Told
    <3> QED BY <2>1, <3>2, StatusLeft
  <2>3. devices' = Said(m)
    BY <1>3, <2>1 DEF HandleStatus, Said
  <2>4. stale' \/ (db'.online <=> m = Online)
    <3>1. CASE seeded /\ db' = UpsertStop(m = Online)
      <4>1. PICK b \in BOOLEAN : b <=> m = Online
        OBVIOUS
      <4>2. db' = [db EXCEPT !.online = m = Online]
        BY <3>1 DEF UpsertStop
      <4>3. db'.online <=> m = Online
        BY <1>t, <4>2 DEF Row
      <4> QED BY <4>3
    <3>2. CASE ~ (seeded /\ db' = UpsertStop(m = Online))
      <4>1. \/ db' = UpsertStop(m = Online) /\ stale' = ~ seeded
            \/ stale' = TRUE
        BY <1>3, <2>1 DEF HandleStatus
      <4> QED BY <1>t, <3>2, <4>1
    <3> QED BY <3>1, <3>2
  <2>5. Told'
    BY <1>i, <1>o, <2>1, <2>2, <2>3, <2>4 DEF Told
  <2> QED BY <1>k, <2>5 DEF StatusInv
<1>4. CASE ReconnectBackend \/ RestartBackend
  <2>1. Resubscribe
    BY <1>4 DEF ReconnectBackend, RestartBackend
  <2>2. PICK t \in Seq(Message) : up'.queue = Append(t, retained)
    BY <1>t, <2>1, ResubscribeFacts
  <2>3. LastStatus(Append(t, retained), retained)
    BY <1>i, <1>t, StatusAtEnd DEF Told, Messages
  <2>4. Told'
    BY <1>i, <1>o, <2>2, <2>3 DEF Told
  <2> QED BY <1>k, <2>4 DEF StatusInv
<1>5. CASE HandleImageRaises \/ Seed \/ RecordSwitch
  <2>1. UNCHANGED <<up, devices, stale>> /\ db'.online = db.online
    BY <1>5, <1>t DEF HandleImageRaises, Seed, RecordSwitch, Unwritten, Row, linkVars
  <2>2. Told'
    BY <1>i, <1>o, <2>1 DEF Told
  <2> QED BY <1>k, <2>2 DEF StatusInv
<1> QED
  BY <1>2, <1>3, <1>4, <1>5 DEF StoreNext

(* The system starts in it.                                                *)
LEMMA InitStatus == Init => StatusInv
<1> SUFFICES ASSUME Init PROVE StatusInv
  OBVIOUS
<1>1. TypeOK
  BY InitType
<1>2. /\ out = EmptyLink /\ up = EmptyLink /\ retained = Offline /\ linked = FALSE
      /\ proc = "down" /\ unsaid = FALSE /\ devices = "unknown" /\ db.online = FALSE
  BY DEF Init, LinkInit, ClientInit, StoreInit, NewStop
<1>3. OnlyOnline(Chain(EmptyLink)) /\ NoStatus(EmptyLink.queue)
  <2>1. OnlyOnline(<< >>) /\ NoStatus(<< >>)
    BY DEF OnlyOnline, NoStatus
  <2> QED BY <2>1, LinkFacts, OnlineChain
<1> QED BY <1>1, <1>2, <1>3, MessageFacts
        DEF StatusInv, Told, SaysOnline, SaidOffline, Process

(* Every step keeps it.                                                    *)
LEMMA StatusStep == StatusInv /\ [Next]_vars => StatusInv'
<1> SUFFICES ASSUME StatusInv, [Next]_vars PROVE StatusInv'
  OBVIOUS
<1>1. TypeOK'
  BY TypeStep DEF StatusInv
<1>2. CASE EdgeNext /\ UNCHANGED <<storeVars, adminVars>>
  BY <1>1, <1>2, StatusEdge
<1>3. CASE StoreNext /\ UNCHANGED clientVars
  BY <1>1, <1>3, StatusStore
<1>4. CASE \/ \E c \in Commands : Send(c)
           \/ UNCHANGED vars
  <2>1. UNCHANGED <<linked, out, up, retained, proc, unsaid, devices, stale, db>>
    BY <1>4 DEF Send, SendAdmin, storeVars, linkVars, clientVars, vars
  <2> QED BY <1>1, <2>1 DEF StatusInv, Told, SaysOnline, SaidOffline, Process
<1> QED BY <1>2, <1>3, <1>4 DEF Next, Edge, Store

(* Once no status is under way, the backend takes the device for online    *)
(* exactly when it is connected (_on_connect, will_set and disconnect of   *)
(* the edge client, _handle_status and upsert_stop of the backend), for    *)
(* any number of faults and any window of unacknowledged messages.         *)
THEOREM StatusHasConverged == Spec => []StatusConverges
<1>2. StatusInv => StatusConverges
  <2> SUFFICES ASSUME StatusInv, ~ unsaid, Statuses(Pending(up)) = {},
                      linked => Statuses(Pending(out)) = {}
               PROVE  /\ devices # (IF linked THEN "offline" ELSE "online")
                      /\ stale \/ ~ seeded \/ db.online = linked
    BY DEF StatusConverges
  <2>1. ASSUME NEW l, Statuses(Pending(l)) = {} PROVE NoStatus(l.queue)
    BY <2>1 DEF Statuses, Pending, NoStatus
  <2>2. NoStatus(up.queue) /\ (linked => NoStatus(out.queue))
    BY <2>1
  <2>3. ~ LastStatus(up.queue, retained)
    BY <2>2 DEF NoStatus, LastStatus
  <2>4. /\ devices \in {"unknown", Said(retained)}
        /\ stale \/ (db.online <=> retained = Online)
    BY <2>3 DEF StatusInv, Told
  <2>5. linked <=> retained = Online
    BY <2>2, MessageFacts DEF StatusInv, SaysOnline, SaidOffline
  <2>6. linked \in BOOLEAN /\ db.online \in BOOLEAN
    BY TypeParts DEF StatusInv, Flags, States, Row
  <2>7. devices # (IF linked THEN "offline" ELSE "online")
    BY <2>4, <2>5, <2>6 DEF Said
  <2>8. stale \/ db.online = linked
    BY <2>4, <2>5, <2>6
  <2> QED BY <2>7, <2>8
<1> QED BY <1>2, InitStatus, StatusStep, PTL DEF Spec

-----------------------------------------------------------------------------
(* The counts                                                              *)

IsCount(x) == x.topic = "crowdCount"

HasCount(s, m) == \E i \in 1 .. Len(s) : IsCount(s[i]) /\ s[i].of = m

(* After place i of s comes the count m.                                   *)
Later(s, i, m) == \E j \in 1 .. Len(s) : i < j /\ IsCount(s[j]) /\ s[j].of = m

(* Every count in s is followed by all that are newer, or these are in E.  *)
Complete(s, E, n) ==
    \A i \in 1 .. Len(s) : IsCount(s[i]) =>
        /\ s[i].of \in 1 .. n
        /\ \A m \in 1 .. n : s[i].of < m => m \in E \/ Later(s, i, m)

(* No count comes before an older one.                                     *)
Ordered(s) ==
    \A i, j \in 1 .. Len(s) :
        IsCount(s[i]) /\ IsCount(s[j]) /\ i < j => s[i].of < s[j].of

(* The end of a sequence is as complete and as ordered as the whole.       *)
LEMMA CompleteEnd ==
    ASSUME NEW s \in Seq(Message), NEW t, Ends(t, s), NEW E, NEW n \in Nat
    PROVE  /\ Complete(s, E, n) => Complete(t, E, n)
           /\ Ordered(s) => Ordered(t)
<1>1. PICK a \in Nat : a = Len(s)
  OBVIOUS
<1>2. PICK k \in 0 .. a : Len(t) = a - k /\ \A i \in 1 .. Len(t) : t[i] = s[k + i]
  BY <1>1 DEF Ends
<1>3. PICK b \in Nat : b = Len(t) /\ a = k + b
  <2>1. a - k \in Nat /\ a = k + (a - k)
    OBVIOUS
  <2>2. PICK b \in Nat : b = a - k
    BY <2>1
  <2> QED BY <1>2, <2>1, <2>2
<1>4. \A i \in 1 .. b : k + i \in 1 .. a
  BY <1>3
<1>5. ASSUME Complete(s, E, n), NEW i \in 1 .. b, IsCount(t[i])
      PROVE  /\ t[i].of \in 1 .. n
             /\ \A m \in 1 .. n : t[i].of < m => m \in E \/ Later(t, i, m)
  <2>1. PICK p \in 1 .. a : p = k + i /\ t[i] = s[p]
    BY <1>2, <1>3, <1>4
  <2>2. /\ s[p].of \in 1 .. n
        /\ \A m \in 1 .. n : s[p].of < m => m \in E \/ Later(s, p, m)
    BY <1>1, <1>5, <2>1 DEF Complete
  <2>3. ASSUME NEW m \in 1 .. n, Later(s, p, m) PROVE Later(t, i, m)
    <3>1. PICK j \in 1 .. a : p < j /\ IsCount(s[j]) /\ s[j].of = m
      BY <1>1, <2>3 DEF Later
    <3>2. PICK r \in 1 .. b : j = k + r /\ i < r
      <4>1. j - k \in 1 .. b /\ j = k + (j - k) /\ i < j - k
        BY <1>3, <2>1, <3>1
      <4> QED BY <4>1
    <3>3. t[r] = s[j]
      BY <1>2, <1>3, <3>2
    <3> QED BY <1>3, <3>1, <3>2, <3>3 DEF Later
  <2> QED BY <2>1, <2>2, <2>3
<1>6. ASSUME Ordered(s), NEW i \in 1 .. b, NEW j \in 1 .. b,
             IsCount(t[i]), IsCount(t[j]), i < j
      PROVE  t[i].of < t[j].of
  <2>1. k + i \in 1 .. a /\ k + j \in 1 .. a /\ k + i < k + j
    BY <1>4, <1>6
  <2>2. t[i] = s[k + i] /\ t[j] = s[k + j]
    BY <1>2, <1>3
  <2> QED BY <1>1, <1>6, <2>1, <2>2 DEF Ordered
<1>7. Complete(s, E, n) => Complete(t, E, n)
  BY <1>3, <1>5 DEF Complete
<1>8. Ordered(s) => Ordered(t)
  BY <1>3, <1>6 DEF Ordered
<1> QED BY <1>7, <1>8

(* What s lacks may come in what follows it.                               *)
LEMMA CompleteAfter ==
    ASSUME NEW s \in Seq(Message), NEW t \in Seq(Message), NEW E, NEW F, NEW n \in Nat,
           Complete(s, E, n), Complete(t, F, n),
           \A m \in 1 .. n : m \in E => m \in F \/ HasCount(t, m)
    PROVE  Complete(s \o t, F, n)
<1>1. PICK a \in Nat, b \in Nat : a = Len(s) /\ b = Len(t)
  OBVIOUS
<1>2. PICK u : /\ u = s \o t /\ Len(u) = a + b
               /\ \A i \in 1 .. a : u[i] = s[i]
               /\ \A i \in 1 .. b : u[a + i] = t[i]
  <2>1. /\ Len(s \o t) = a + b
        /\ \A i \in 1 .. a : (s \o t)[i] = s[i]
        /\ \A i \in 1 .. b : (s \o t)[a + i] = t[i]
    BY <1>1, ConcatFacts
  <2> QED BY <2>1, Zenon
<1>3. /\ \A i \in 1 .. a : i \in 1 .. a + b
      /\ \A i \in 1 .. b : a + i \in 1 .. a + b /\ \A j \in 1 .. a : j < a + i
  BY <1>1
<1>4. ASSUME NEW i \in 1 .. a, IsCount(u[i])
      PROVE  /\ u[i].of \in 1 .. n
             /\ \A m \in 1 .. n : u[i].of < m => m \in F \/ Later(u, i, m)
  <2>1. u[i] = s[i]
    BY <1>2
  <2>2. /\ s[i].of \in 1 .. n
        /\ \A m \in 1 .. n : s[i].of < m => m \in E \/ Later(s, i, m)
    BY <1>1, <1>4, <2>1 DEF Complete
  <2>3. ASSUME NEW m, Later(s, i, m) PROVE Later(u, i, m)
    <3>1. PICK j \in 1 .. a : i < j /\ IsCount(s[j]) /\ s[j].of = m
      BY <1>1, <2>3 DEF Later
    <3> QED BY <1>2, <1>3, <3>1 DEF Later
  <2>4. ASSUME NEW m, HasCount(t, m) PROVE Later(u, i, m)
    <3>1. PICK j \in 1 .. b : IsCount(t[j]) /\ t[j].of = m
      BY <1>1, <2>4 DEF HasCount
    <3>2. a + j \in 1 .. a + b /\ i < a + j /\ u[a + j] = t[j]
      BY <1>2, <1>3
    <3> QED BY <1>2, <3>1, <3>2 DEF Later
  <2> QED BY <2>1, <2>2, <2>3, <2>4
<1>5. ASSUME NEW i \in 1 .. b, IsCount(u[a + i])
      PROVE  /\ u[a + i].of \in 1 .. n
             /\ \A m \in 1 .. n : u[a + i].of < m => m \in F \/ Later(u, a + i, m)
  <2>1. u[a + i] = t[i]
    BY <1>2
  <2>2. /\ t[i].of \in 1 .. n
        /\ \A m \in 1 .. n : t[i].of < m => m \in F \/ Later(t, i, m)
    BY <1>1, <1>5, <2>1 DEF Complete
  <2>3. ASSUME NEW m, Later(t, i, m) PROVE Later(u, a + i, m)
    <3>1. PICK j \in 1 .. b : i < j /\ IsCount(t[j]) /\ t[j].of = m
      BY <1>1, <2>3 DEF Later
    <3>2. a + j \in 1 .. a + b /\ a + i < a + j /\ u[a + j] = t[j]
      BY <1>2, <1>3, <3>1
    <3> QED BY <1>2, <3>1, <3>2 DEF Later
  <2> QED BY <2>1, <2>2, <2>3
<1>6. ASSUME NEW i \in 1 .. a + b, IsCount(u[i])
      PROVE  /\ u[i].of \in 1 .. n
             /\ \A m \in 1 .. n : u[i].of < m => m \in F \/ Later(u, i, m)
  <2>1. i \in 1 .. a \/ \E j \in 1 .. b : i = a + j
    BY <1>1, Places
  <2> QED BY <1>4, <1>5, <1>6, <2>1
<1> QED BY <1>2, <1>6 DEF Complete

(* Newer counts may follow.                                                *)
LEMMA OrderedAfter ==
    ASSUME NEW s \in Seq(Message), NEW t \in Seq(Message), Ordered(s), Ordered(t),
           \A i \in 1 .. Len(s), j \in 1 .. Len(t) :
               IsCount(s[i]) /\ IsCount(t[j]) => s[i].of < t[j].of
    PROVE  Ordered(s \o t)
<1>1. PICK a \in Nat, b \in Nat : a = Len(s) /\ b = Len(t)
  OBVIOUS
<1>2. PICK u : /\ u = s \o t /\ Len(u) = a + b
               /\ \A i \in 1 .. a : u[i] = s[i]
               /\ \A i \in 1 .. b : u[a + i] = t[i]
  <2>1. /\ Len(s \o t) = a + b
        /\ \A i \in 1 .. a : (s \o t)[i] = s[i]
        /\ \A i \in 1 .. b : (s \o t)[a + i] = t[i]
    BY <1>1, ConcatFacts
  <2> QED BY <2>1, Zenon
<1>3. ASSUME NEW i \in 1 .. a + b, NEW j \in 1 .. a + b,
             IsCount(u[i]), IsCount(u[j]), i < j
      PROVE  u[i].of < u[j].of
  <2>1. i \in 1 .. a \/ \E k \in 1 .. b : i = a + k
    BY <1>1, Places
  <2>2. j \in 1 .. a \/ \E k \in 1 .. b : j = a + k
    BY <1>1, Places
  <2>3. CASE i \in 1 .. a /\ j \in 1 .. a
    BY <1>1, <1>2, <1>3, <2>3 DEF Ordered
  <2>4. ASSUME i \in 1 .. a, NEW k \in 1 .. b, j = a + k PROVE u[i].of < u[j].of
    BY <1>1, <1>2, <1>3, <2>4
  <2>5. ASSUME NEW h \in 1 .. b, i = a + h, NEW k \in 1 .. b, j = a + k
        PROVE  u[i].of < u[j].of
    <3>1. h < k
      BY <1>3, <2>5
    <3> QED BY <1>1, <1>2, <1>3, <2>5, <3>1 DEF Ordered
  <2>6. ~ (j \in 1 .. a /\ \E k \in 1 .. b : i = a + k)
    BY <1>1, <1>3
  <2> QED BY <2>1, <2>2, <2>3, <2>4, <2>5, <2>6
<1> QED BY <1>2, <1>3 DEF Ordered

(* More may be on its way, and one more count.                             *)
LEMMA CompleteMore ==
    ASSUME NEW s \in Seq(Message), NEW E, NEW F, NEW n \in Nat, NEW k \in {n, n + 1},
           Complete(s, E, n), \A m \in 1 .. n : m \in E => m \in F,
           k # n => k \in F
    PROVE  Complete(s, F, k)
<1>1. ASSUME NEW i \in 1 .. Len(s), IsCount(s[i])
      PROVE  /\ s[i].of \in 1 .. k
             /\ \A m \in 1 .. k : s[i].of < m => m \in F \/ Later(s, i, m)
  <2>1. /\ s[i].of \in 1 .. n
        /\ \A m \in 1 .. n : s[i].of < m => m \in E \/ Later(s, i, m)
    BY <1>1 DEF Complete
  <2>2. \A m \in 1 .. k : m \in 1 .. n \/ (m = k /\ k # n)
    <3>1. CASE k = n
      BY <3>1
    <3>2. CASE k = n + 1
      <4>1. \A m \in 1 .. n + 1 : m \in 1 .. n \/ m = n + 1
        OBVIOUS
      <4>2. n + 1 # n
        OBVIOUS
      <4> QED BY <3>2, <4>1, <4>2
    <3> QED BY <3>1, <3>2
  <2>3. s[i].of \in 1 .. k
    BY <2>1
  <2> QED BY <2>1, <2>2, <2>3
<1> QED BY <1>1 DEF Complete

(* Without counts there is nothing to complete, nor to order.              *)
LEMMA NoCounts ==
    ASSUME NEW s, \A i \in 1 .. Len(s) : ~ IsCount(s[i]), NEW E, NEW n
    PROVE  Complete(s, E, n) /\ Ordered(s) /\ \A m : ~ HasCount(s, m)
BY DEF Complete, Ordered, HasCount

(* A sequence of one message.                                              *)
LEMMA SingleFacts ==
    ASSUME NEW x \in Message
    PROVE  /\ <<x>> \in Seq(Message) /\ Len(<<x>>) = 1 /\ <<x>>[1] = x
           /\ \A i \in 1 .. Len(<<x>>) : i = 1 /\ <<x>>[i] = x
OBVIOUS

(* A single count is complete when all that are newer are in E.            *)
LEMMA CompleteSingle ==
    ASSUME NEW x \in Message, NEW E, NEW n \in Nat,
           IsCount(x) => /\ x.of \in 1 .. n
                         /\ \A m \in 1 .. n : x.of < m => m \in E
    PROVE  Complete(<<x>>, E, n) /\ Ordered(<<x>>) /\ (IsCount(x) => HasCount(<<x>>, x.of))
<1>1. PICK s : s = <<x>> /\ Len(s) = 1 /\ s[1] = x /\ \A i \in 1 .. Len(s) : i = 1 /\ s[i] = x
  <2>1. Len(<<x>>) = 1 /\ <<x>>[1] = x /\ \A i \in 1 .. Len(<<x>>) : i = 1 /\ <<x>>[i] = x
    BY SingleFacts
  <2> QED BY <2>1, Zenon
<1>2. Complete(s, E, n)
  BY <1>1 DEF Complete
<1>3. Ordered(s)
  <2>1. \A i, j \in 1 .. Len(s) : i = 1 /\ j = 1
    BY <1>1
  <2>2. \A i, j \in 1 .. Len(s) : ~ (i < j)
    BY <2>1
  <2> QED BY <2>2 DEF Ordered
<1>4. IsCount(x) => HasCount(s, x.of)
  <2>1. 1 \in 1 .. Len(s)
    BY <1>1
  <2> QED BY <1>1, <2>1 DEF HasCount
<1> QED BY <1>1, <1>2, <1>3, <1>4

(* The counts of s \o t are those of s and those of t.                     *)
LEMMA CountsAfter ==
    ASSUME NEW s \in Seq(Message), NEW t \in Seq(Message), NEW m
    PROVE  HasCount(s \o t, m) <=> HasCount(s, m) \/ HasCount(t, m)
<1>1. PICK a \in Nat, b \in Nat : a = Len(s) /\ b = Len(t)
  OBVIOUS
<1>2. PICK u : /\ u = s \o t /\ Len(u) = a + b
               /\ \A i \in 1 .. a : u[i] = s[i]
               /\ \A i \in 1 .. b : u[a + i] = t[i]
  <2>1. /\ Len(s \o t) = a + b
        /\ \A i \in 1 .. a : (s \o t)[i] = s[i]
        /\ \A i \in 1 .. b : (s \o t)[a + i] = t[i]
    BY <1>1, ConcatFacts
  <2> QED BY <2>1, Zenon
<1>3. /\ \A i \in 1 .. a : i \in 1 .. a + b
      /\ \A i \in 1 .. b : a + i \in 1 .. a + b
  BY <1>1
<1>4. \A i \in 1 .. a + b : i \in 1 .. a \/ \E j \in 1 .. b : i = a + j
  BY <1>1, Places
<1>5. HasCount(s, m) \/ HasCount(t, m) => HasCount(u, m)
  BY <1>1, <1>2, <1>3 DEF HasCount
<1>6. ASSUME HasCount(u, m) PROVE HasCount(s, m) \/ HasCount(t, m)
  <2>1. PICK i \in 1 .. a + b : IsCount(u[i]) /\ u[i].of = m
    BY <1>2, <1>6 DEF HasCount
  <2>2. CASE i \in 1 .. a
    BY <1>1, <1>2, <2>1, <2>2 DEF HasCount
  <2>3. ASSUME NEW j \in 1 .. b, i = a + j PROVE HasCount(t, m)
    BY <1>1, <1>2, <2>1, <2>3 DEF HasCount
  <2> QED BY <1>4, <2>2, <2>3
<1> QED BY <1>2, <1>5, <1>6

(* What is published follows what is in the chain.                         *)
LEMMA ChainGrows ==
    ASSUME NEW l \in Link, NEW k \in Link, NEW ms \in Seq(Message),
           k.recent = l.recent, k.queue = l.queue \o ms
    PROVE  Chain(l) \in Seq(Message) /\ Chain(k) = Chain(l) \o ms
<1>1. PICK r \in Seq(Message), q \in Seq(Message) : r = l.recent /\ q = l.queue
  BY LinkFacts
<1>2. r \o q \in Seq(Message)
  OBVIOUS
<1>3. (r \o q) \o ms = r \o (q \o ms)
  BY ConcatAssociative
<1> QED BY <1>1, <1>2, <1>3 DEF Chain

(* The counts that are still to be delivered.                              *)
LEMMA PendingCounts ==
    ASSUME NEW l, NEW m
    PROVE  m \in Counts(Pending(l)) <=> HasCount(l.queue, m)
BY DEF Counts, Pending, HasCount, IsCount

(* The first of the queue is taken: the counts that are left, and that     *)
(* they complete it.                                                       *)
LEMMA TakenCount ==
    ASSUME NEW l \in Link, Waiting(l), NEW E, NEW n \in Nat, Complete(Chain(l), E, n),
           NEW x, x = Head(l.queue), NEW u, u = Tail(l.queue)
    PROVE  /\ x \in Message /\ u \in Seq(Message)
           /\ \A m : HasCount(l.queue, m) <=> HasCount(u, m) \/ (IsCount(x) /\ x.of = m)
           /\ IsCount(x) => /\ x.of \in 1 .. n
                            /\ \A m \in 1 .. n : x.of < m => m \in E \/ HasCount(u, m)
<1>1. PICK r \in Seq(Message), q \in Seq(Message) : r = l.recent /\ q = l.queue /\ q # << >>
  BY LinkFacts DEF Waiting
<1>a. PICK a \in Nat : a = Len(r)
  OBVIOUS
<1>2. PICK b \in Nat : b + 1 = Len(q)
  <2>1. Len(q) \in Nat /\ Len(q) # 0
    BY <1>1
  <2>2. Len(q) - 1 \in Nat /\ (Len(q) - 1) + 1 = Len(q)
    BY <2>1
  <2> QED BY <2>2
<1>3. /\ x \in Message /\ u \in Seq(Message) /\ Len(u) = b /\ x = q[1]
      /\ \A i \in 1 .. b : u[i] = q[i + 1]
  BY <1>1, <1>2
<1>4. PICK c \in Nat : c = b + 1 /\ c = Len(q)
  BY <1>2
<1>5. PICK s : /\ s = Chain(l) /\ Len(s) = a + c
               /\ \A i \in 1 .. c : s[a + i] = q[i]
  <2>1. Len(r \o q) = a + c /\ \A i \in 1 .. c : (r \o q)[a + i] = q[i]
    <3>1. r \in Seq(Message) /\ q \in Seq(Message) /\ a \in Nat /\ c \in Nat
      BY <1>1, <1>a, <1>4
    <3>2. a = Len(r) /\ c = Len(q)
      BY <1>a, <1>4
    <3>3. Len(r \o q) = Len(r) + Len(q)
      BY <3>1
    <3>4. \A i \in 1 .. c : (r \o q)[a + i] = q[i]
      BY <3>1, <3>2, ConcatFacts
    <3> QED BY <3>2, <3>3, <3>4
  <2> QED BY <1>1, <2>1 DEF Chain
<1>6. /\ 1 \in 1 .. c /\ \A i \in 1 .. b : i + 1 \in 1 .. c
      /\ \A j \in 1 .. c : j = 1 \/ \E i \in 1 .. b : j = i + 1
  <2>1. ASSUME NEW j \in 1 .. c, j # 1 PROVE \E i \in 1 .. b : j = i + 1
    <3>1. j - 1 \in 1 .. b /\ j = (j - 1) + 1
      BY <1>4, <2>1
    <3> QED BY <3>1
  <2> QED BY <1>4, <2>1
<1>7. ASSUME NEW m
      PROVE  HasCount(q, m) <=> HasCount(u, m) \/ (IsCount(x) /\ x.of = m)
  <2>1. HasCount(u, m) => HasCount(q, m)
    BY <1>3, <1>4, <1>6 DEF HasCount
  <2>2. IsCount(x) /\ x.of = m => HasCount(q, m)
    BY <1>3, <1>4, <1>6 DEF HasCount
  <2>3. ASSUME HasCount(q, m) PROVE HasCount(u, m) \/ (IsCount(x) /\ x.of = m)
    <3>1. PICK j \in 1 .. c : IsCount(q[j]) /\ q[j].of = m
      BY <1>4, <2>3 DEF HasCount
    <3>2. CASE j = 1
      BY <1>3, <3>1, <3>2
    <3>3. ASSUME NEW i \in 1 .. b, j = i + 1 PROVE HasCount(u, m)
      BY <1>3, <3>1, <3>3 DEF HasCount
    <3> QED BY <1>6, <3>2, <3>3
  <2> QED BY <2>1, <2>2, <2>3
<1>8. ASSUME IsCount(x)
      PROVE  /\ x.of \in 1 .. n
             /\ \A m \in 1 .. n : x.of < m => m \in E \/ HasCount(u, m)
  <2>1. PICK p \in 1 .. a + c : p = a + 1 /\ s[p] = x
    <3>1. a + 1 \in 1 .. a + c
      BY <1>4
    <3>2. s[a + 1] = x
      BY <1>3, <1>5, <1>6
    <3> QED BY <3>1, <3>2
  <2>2. /\ x.of \in 1 .. n
        /\ \A m \in 1 .. n : x.of < m => m \in E \/ Later(s, p, m)
    BY <1>5, <1>8, <2>1 DEF Complete
  <2>3. ASSUME NEW m, Later(s, p, m) PROVE HasCount(u, m)
    <3>1. PICK j \in 1 .. a + c : p < j /\ IsCount(s[j]) /\ s[j].of = m
      BY <1>5, <2>3 DEF Later
    <3>2. PICK i \in 1 .. b : j = a + (i + 1)
      <4>1. (j - a) - 1 \in 1 .. b /\ j = a + (((j - a) - 1) + 1)
        BY <1>4, <2>1, <3>1
      <4> QED BY <4>1
    <3>3. s[j] = u[i]
      BY <1>3, <1>5, <1>6, <3>2
    <3> QED BY <1>3, <3>1, <3>3 DEF HasCount
  <2> QED BY <2>2, <2>3
<1> QED BY <1>1, <1>3, <1>7, <1>8

(* Whatever may still come from the device.                                *)
Coming == Counts(Pending(out)) \cup lost

(* The device sends the counts in their order, none left out.              *)
OutInv == Complete(Chain(out), {}, counted) /\ Ordered(Chain(out))

(* What the backend got and gets again, it gets to the last count, or the  *)
(* rest is still to come or lost.                                          *)
UpInv == Complete(Chain(up), Coming, counted)

(* So does the row.                                                        *)
RowInv ==
    /\ db.stored \subseteq 1 .. counted
    /\ db.count = NoCount => db.stored = {}
    /\ db.count # NoCount =>
         \A m \in 1 .. counted : db.count < m =>
             HasCount(up.queue, m) \/ m \in missed \/ m \in Coming

RewindInv == StatusInv /\ OutInv /\ UpInv /\ RowInv

(* What arrives at the broker need only be as complete as what is left     *)
(* allows.                                                                 *)
LEMMA ArriveCounts ==
    ASSUME RewindInv, NEW ms \in Seq(Message), Arrive(ms), UNCHANGED <<counted, db, missed>>,
           NEW F, F = Coming', Complete(ms, F, counted),
           \A m \in Coming : m \in F \/ HasCount(ms, m)
    PROVE  UpInv' /\ RowInv'
<1>1. Messages /\ up \in Link /\ up.queue \in Seq(Message) /\ counted \in Nat
  BY LinkFacts, TypeParts DEF RewindInv, StatusInv, Messages
<1>2. up' \in Link /\ up'.recent = up.recent /\ up'.queue = up.queue \o ms
  BY <1>1, ArriveFacts
<1>3. PICK k \in Link : k = up' /\ k.recent = up.recent /\ k.queue = up.queue \o ms
  BY <1>2
<1>4. PICK s \in Seq(Message) : s = Chain(up) /\ Chain(k) = s \o ms
  BY <1>1, <1>3, ChainGrows
<1>5. PICK E : E = Coming
  OBVIOUS
<1>6. Complete(s, E, counted)
  BY <1>4, <1>5 DEF RewindInv, UpInv
<1>7. Complete(s \o ms, F, counted)
  BY <1>1, <1>5, <1>6, CompleteAfter
<1>8. UpInv'
  BY <1>3, <1>4, <1>7 DEF UpInv
<1>9. ASSUME NEW m, HasCount(up.queue, m) \/ m \in missed \/ m \in Coming
      PROVE  HasCount(up'.queue, m) \/ m \in missed' \/ m \in Coming'
  <2>1. PICK q \in Seq(Message) : q = up.queue
    BY <1>1
  <2>2. HasCount(q, m) \/ HasCount(ms, m) => HasCount(q \o ms, m)
    BY CountsAfter
  <2> QED BY <1>2, <1>9, <2>1, <2>2
<1>10. RowInv'
  BY <1>9 DEF RewindInv, RowInv
<1> QED BY <1>8, <1>10

(* Nothing arrives, and no less is to come.                                *)
LEMMA SameCounts ==
    ASSUME RewindInv, UNCHANGED <<up, counted, db, missed>>,
           NEW F, F = Coming', Coming \subseteq F
    PROVE  UpInv' /\ RowInv'
<1>1. up \in Link /\ counted \in Nat
  BY TypeParts DEF RewindInv, StatusInv, Messages
<1>2. Chain(up) \in Seq(Message)
  <2>1. up.recent \in Seq(Message) /\ up.queue \in Seq(Message)
    BY <1>1, LinkFacts
  <2>2. up.recent \o up.queue \in Seq(Message)
    BY <2>1
  <2> QED BY <2>2 DEF Chain
<1>3a. PICK s \in Seq(Message) : s = Chain(up)
  BY <1>2
<1>3b. PICK E : E = Coming
  OBVIOUS
<1>3. s = Chain(up) /\ E = Coming
  BY <1>3a, <1>3b
<1>4. Complete(s, F, counted)
  <2>1. Complete(s, E, counted)
    BY <1>3 DEF RewindInv, UpInv
  <2> QED BY <1>1, <1>3, <2>1, CompleteMore
<1>5. UpInv'
  BY <1>3, <1>4 DEF UpInv
<1>6. RowInv'
  BY DEF RewindInv, RowInv
<1> QED BY <1>5, <1>6

(* Where the counts that may still come are.                               *)
LEMMA ComingFacts ==
    ASSUME NEW m
    PROVE  /\ m \in Coming <=> HasCount(out.queue, m) \/ m \in lost
           /\ m \in Coming' <=> HasCount(out'.queue, m) \/ m \in lost'
<1>1. PICK o : o = out'
  OBVIOUS
<1>2. m \in Counts(Pending(o)) <=> HasCount(o.queue, m)
  BY PendingCounts
<1>3. m \in Counts(Pending(out)) <=> HasCount(out.queue, m)
  BY PendingCounts
<1> QED BY <1>1, <1>2, <1>3 DEF Coming

(* A process that ends loses what it had not sent.                         *)
LEMMA LostFacts ==
    ASSUME NEW sent, ProcessEnds(sent), NEW m
    PROVE  m \in Coming' <=> m \in lost \/ (HasCount(out.queue, m) /\ ~ HasCount(sent, m))
<1>1. /\ out'.queue = << >>
      /\ lost' = lost \cup (Counts(Pending(out)) \ Counts({sent[i] : i \in 1 .. Len(sent)}))
  BY LinkFacts DEF ProcessEnds
<1>2. m \in Counts({sent[i] : i \in 1 .. Len(sent)}) <=> HasCount(sent, m)
  BY DEF Counts, HasCount, IsCount
<1>3. m \in Counts(Pending(out)) <=> HasCount(out.queue, m)
  BY PendingCounts
<1>4. ~ HasCount(<< >>, m)
  BY DEF HasCount
<1> QED BY <1>1, <1>2, <1>3, <1>4, ComingFacts

(* The queue is the end of the chain.                                      *)
LEMMA QueueEnds ==
    ASSUME NEW l \in Link
    PROVE  /\ l.queue \in Seq(Message) /\ Chain(l) \in Seq(Message)
           /\ Ends(l.queue, Chain(l))
<1>1. PICK r \in Seq(Message), q \in Seq(Message) : r = l.recent /\ q = l.queue
  BY LinkFacts
<1>2. PICK a \in Nat, b \in Nat : a = Len(r) /\ b = Len(q)
  OBVIOUS
<1>3. /\ r \o q \in Seq(Message) /\ Len(r \o q) = a + b
      /\ \A i \in 1 .. b : (r \o q)[a + i] = q[i]
  BY <1>2, ConcatFacts
<1>4. a \in 0 .. a + b /\ b = (a + b) - a
  BY <1>2
<1>5. Ends(q, r \o q)
  BY <1>2, <1>3, <1>4 DEF Ends
<1> QED BY <1>1, <1>3, <1>5 DEF Chain

(* What a client sends before it closes the connection lacks only what it  *)
(* did not send.                                                           *)
LEMMA SentComplete ==
    ASSUME NEW q \in Seq(Message), NEW n \in Nat, Complete(q, {}, n), Ordered(q),
           NEW said, said = Append(q, Offline),
           NEW k \in 0 .. Len(said), NEW sent, sent = SubSeq(said, 1, k),
           NEW F, \A m : HasCount(q, m) /\ ~ HasCount(sent, m) => m \in F
    PROVE  Complete(sent, F, n)
<1>1. PICK a \in Nat : a = Len(q)
  OBVIOUS
<1>2. /\ Len(said) = a + 1 /\ said[a + 1] = Offline
      /\ \A i \in 1 .. a : said[i] = q[i]
  BY <1>1
<1>3. k \in Nat /\ k <= a + 1
  BY <1>1, <1>2
<1>4. Len(sent) = k /\ \A i \in 1 .. k : sent[i] = said[i]
  <2>1. said \in Seq(Message)
    BY MessageFacts
  <2> QED BY <1>2, <1>3, <2>1
<1>5. ASSUME NEW i \in 1 .. k, IsCount(sent[i]) PROVE i \in 1 .. a /\ sent[i] = q[i]
  <2>1. i # a + 1
    <3>1. ~ IsCount(Offline)
      BY MessageFacts DEF IsCount
    <3> QED BY <1>2, <1>4, <1>5, <3>1
  <2>2. i \in 1 .. a
    BY <1>1, <1>3, <2>1
  <2> QED BY <1>2, <1>4, <2>2
<1>6. ASSUME NEW i \in 1 .. k, IsCount(sent[i])
      PROVE  /\ sent[i].of \in 1 .. n
             /\ \A m \in 1 .. n : sent[i].of < m => m \in F \/ Later(sent, i, m)
  <2>1. i \in 1 .. a /\ sent[i] = q[i]
    BY <1>5, <1>6
  <2>2. /\ q[i].of \in 1 .. n
        /\ \A m \in 1 .. n : q[i].of < m => Later(q, i, m)
    BY <1>1, <1>6, <2>1 DEF Complete
  <2>3. ASSUME NEW m, Later(q, i, m) PROVE m \in F \/ Later(sent, i, m)
    <3>1. PICK j \in 1 .. a : i < j /\ IsCount(q[j]) /\ q[j].of = m
      BY <1>1, <2>3 DEF Later
    <3>2. CASE j <= k
      <4>1. j \in 1 .. k /\ sent[j] = q[j]
        BY <1>2, <1>3, <1>4, <3>1, <3>2
      <4> QED BY <1>4, <3>1, <4>1 DEF Later
    <3>3. CASE ~ (j <= k)
      <4>1. HasCount(q, m)
        BY <1>1, <3>1 DEF HasCount
      <4>2. ~ HasCount(sent, m)
        <5> SUFFICES ASSUME HasCount(sent, m) PROVE FALSE
          OBVIOUS
        <5>1. PICK h \in 1 .. k : IsCount(sent[h]) /\ sent[h].of = m
          BY <1>4 DEF HasCount
        <5>2. h \in 1 .. a /\ sent[h] = q[h]
          BY <1>5, <5>1
        <5>3. h < j
          BY <1>3, <3>1, <3>3
        <5>4. q[h].of < q[j].of
          BY <1>1, <3>1, <5>1, <5>2, <5>3 DEF Ordered
        <5>5. q[j] \in Message
          BY <1>1
        <5>6. m \in Nat
          BY <3>1, <5>5, MessageFacts
        <5> QED BY <3>1, <5>1, <5>2, <5>4, <5>6
      <4> QED BY <4>1, <4>2
    <3> QED BY <3>2, <3>3
  <2> QED BY <2>1, <2>2, <2>3
<1> QED BY <1>4, <1>6 DEF Complete

(* An empty link has no counts.                                            *)
LEMMA EmptyOut ==
    ASSUME out' \in Link, \A i \in 1 .. Len(Chain(out')) : ~ IsCount(Chain(out')[i])
    PROVE  OutInv'
<1>1. PICK s : s = Chain(out')
  OBVIOUS
<1>2. PICK n : n = counted'
  OBVIOUS
<1>3. Complete(s, {}, n) /\ Ordered(s)
  BY <1>1, NoCounts
<1> QED BY <1>1, <1>2, <1>3 DEF OutInv

(* A process has ended.                                                    *)
LEMMA EndedOut ==
    ASSUME NEW sent, ProcessEnds(sent)
    PROVE  OutInv'
<1>1. PICK l \in Link : l = out' /\ l.recent = << >> /\ l.queue = << >>
  BY LinkFacts DEF ProcessEnds
<1>2. Chain(l) = << >>
  BY <1>1 DEF Chain
<1>3. \A i \in 1 .. Len(<< >>) : FALSE
  OBVIOUS
<1> QED BY <1>1, <1>2, <1>3, EmptyOut

(* Every step of the device keeps the invariant.                           *)
LEMMA RewindEdge ==
    ASSUME RewindInv, EdgeNext, UNCHANGED <<storeVars, adminVars>>
    PROVE  OutInv' /\ UpInv' /\ RowInv'
<1>t. /\ Messages /\ out \in Link /\ up \in Link /\ counted \in Nat
      /\ out.queue \in Seq(Message) /\ Chain(out) \in Seq(Message)
      /\ Ends(out.queue, Chain(out))
  <2>1. Messages /\ out \in Link /\ up \in Link /\ counted \in Nat
    BY TypeParts DEF RewindInv, StatusInv, Messages
  <2> QED BY <2>1, QueueEnds
<1>s. UNCHANGED <<db, missed>>
  BY DEF storeVars
<1>i. Complete(Chain(out), {}, counted) /\ Ordered(Chain(out))
  BY DEF RewindInv, OutInv
<1>q. Complete(out.queue, {}, counted) /\ Ordered(out.queue)
  <2>1a. PICK s \in Seq(Message) : s = Chain(out)
    BY <1>t
  <2>1b. PICK q : q = out.queue
    OBVIOUS
  <2>1. s = Chain(out) /\ q = out.queue
    BY <2>1a, <2>1b
  <2>2. Ends(q, s) /\ Complete(s, {}, counted) /\ Ordered(s)
    BY <1>i, <1>t, <2>1
  <2>3. Complete(q, {}, counted) /\ Ordered(q)
    BY <1>t, <2>2, CompleteEnd
  <2> QED BY <2>1, <2>3
<1>f. PICK F : F = Coming'
  OBVIOUS
<1>w. /\ Will \in Seq(Message) /\ Complete(Will, F, counted) /\ \A m : ~ HasCount(Will, m)
  <2>1. Will \in Seq(Message) /\ \A i \in 1 .. Len(Will) : Will[i] = Offline
    BY MessageFacts DEF Will
  <2>2. \A i \in 1 .. Len(Will) : ~ IsCount(Will[i])
    BY <2>1, MessageFacts DEF IsCount
  <2> QED BY <2>1, <2>2, NoCounts
<1>1. CASE Boot
  <2>1. /\ proc = "down" /\ out' = Publish(EmptyLink, Online)
        /\ UNCHANGED <<up, counted, lost>>
    BY <1>1 DEF Boot
  <2>2. out = EmptyLink
    BY <2>1 DEF RewindInv, StatusInv, Process
  <2>3. out' \in Link /\ out'.recent = << >> /\ out'.queue = Append(<< >>, Online)
    <3>1. PICK l \in Link : l = EmptyLink /\ l.recent = << >> /\ l.queue = << >>
      BY LinkFacts
    <3>2. PICK m \in Message : m = Online
      BY MessageFacts
    <3>3. /\ Publish(l, m) \in Link /\ Publish(l, m).recent = l.recent
          /\ Publish(l, m).queue = Append(l.queue, m)
      BY PublishFacts
    <3> QED BY <2>1, <3>1, <3>2, <3>3
  <2>4. PICK s : /\ s = << >> \o Append(<< >>, Online)
                 /\ \A i \in 1 .. Len(s) : s[i] = Online
    <3>1. \A i \in 1 .. Len(<< >> \o Append(<< >>, Online)) :
             (<< >> \o Append(<< >>, Online))[i] = Online
      BY MessageFacts
    <3> QED BY <3>1, Zenon
  <2>5. \A i \in 1 .. Len(s) : ~ IsCount(s[i])
    BY <2>4, MessageFacts DEF IsCount
  <2>6. Chain(out') = s
    BY <2>3, <2>4 DEF Chain
  <2>7. OutInv'
    BY <2>3, <2>5, <2>6, EmptyOut
  <2>8. \A m : ~ HasCount(out.queue, m)
    <3>1. out.queue = << >>
      BY <2>2, LinkFacts
    <3> QED BY <3>1 DEF HasCount
  <2>9. Coming \subseteq F
    BY <1>f, <2>1, <2>8, ComingFacts
  <2> QED BY <1>f, <1>s, <2>1, <2>7, <2>9, SameCounts
<1>2. CASE Wire \/ ReceiveAdmin \/ DropAdmin
  <2>1. UNCHANGED <<out, up, counted, lost>>
    BY <1>2 DEF Wire, ReceiveAdmin, DropAdmin, linkVars
  <2> QED BY <1>s, <2>1 DEF RewindInv, OutInv, UpInv, RowInv, Coming
<1>3. CASE SendCount
  <2>1. PICK k \in Nat, x \in Message :
          /\ k = counted + 1 /\ counted' = k /\ out' = Publish(out, x)
          /\ IsCount(x) /\ x.of = k
    <3>1. counted + 1 \in Nat /\ counted' = counted + 1
      BY <1>3, <1>t DEF SendCount
    <3> QED BY <1>3, <3>1, MessageFacts DEF SendCount, IsCount
  <2>2. UNCHANGED <<up, lost>>
    BY <1>3 DEF SendCount
  <2>3. PICK o \in Link : /\ o = out' /\ o.recent = out.recent
                          /\ o.queue = Append(out.queue, x)
    BY <1>t, <2>1, PublishFacts
  <2>4. o.queue = out.queue \o <<x>>
    <3>1. PICK q \in Seq(Message) : q = out.queue
      BY <1>t
    <3>2. Append(q, x) = q \o <<x>>
      BY AppendIsConcat
    <3> QED BY <2>3, <3>1, <3>2
  <2>5. PICK s \in Seq(Message), t \in Seq(Message) :
          s = Chain(out) /\ t = <<x>> /\ Chain(o) = s \o t
    <3>1. PICK ms \in Seq(Message) : ms = <<x>>
      BY SingleFacts
    <3>2. PICK l \in Link : l = out
      BY <1>t
    <3>3. o.recent = l.recent /\ o.queue = l.queue \o ms
      BY <2>3, <2>4, <3>1, <3>2
    <3>4. Chain(l) \in Seq(Message) /\ Chain(o) = Chain(l) \o ms
      BY <3>3, ChainGrows
    <3> QED BY <3>1, <3>2, <3>4
  <2>6. /\ Complete(t, {}, k) /\ Ordered(t) /\ HasCount(t, k)
    <3>1. x.of \in 1 .. k /\ \A m \in 1 .. k : x.of < m => m \in {}
      BY <1>t, <2>1
    <3> QED BY <2>1, <2>5, <3>1, CompleteSingle
  <2>7. Complete(s \o t, {}, k)
    <3>1. PICK n \in Nat : n = counted
      BY <1>t
    <3>2. Complete(s, {k}, k)
      <4>1. Complete(s, {}, n) /\ k \in {n, n + 1}
        BY <1>i, <2>1, <2>5, <3>1
      <4> QED BY <4>1, CompleteMore
    <3>3. \A m \in 1 .. k : m \in {k} => m \in {} \/ HasCount(t, m)
      BY <2>6
    <3> QED BY <2>1, <2>6, <3>2, <3>3, CompleteAfter
  <2>8. Ordered(s \o t)
    <3>1. Ordered(s)
      BY <1>i, <2>5
    <3>2. \A j \in 1 .. Len(t) : t[j].of = k
      BY <2>1, <2>5, SingleFacts
    <3>3. \A i \in 1 .. Len(s) : IsCount(s[i]) => s[i].of \in 1 .. counted
      BY <1>i, <2>5 DEF Complete
    <3>4. \A i \in 1 .. Len(s), j \in 1 .. Len(t) :
             IsCount(s[i]) /\ IsCount(t[j]) => s[i].of < t[j].of
      BY <1>t, <2>1, <3>2, <3>3
    <3> QED BY <2>6, <3>1, <3>4, OrderedAfter
  <2>9. OutInv'
    BY <2>1, <2>3, <2>5, <2>7, <2>8 DEF OutInv
  <2>10. k \in F /\ Coming \subseteq F
    <3>1. PICK q \in Seq(Message) : q = out.queue
      BY <1>t
    <3>2. \A m : HasCount(q \o t, m) <=> HasCount(q, m) \/ HasCount(t, m)
      BY CountsAfter
    <3>3. \A m : HasCount(out'.queue, m) <=> HasCount(out.queue, m) \/ HasCount(t, m)
      BY <2>3, <2>4, <2>5, <3>1, <3>2
    <3> QED BY <1>f, <2>2, <2>6, <3>3, ComingFacts
  <2>11. UpInv'
    <3>a. Chain(up) \in Seq(Message)
      BY <1>t, QueueEnds
    <3>b. PICK E : E = Coming
      OBVIOUS
    <3>c. PICK n \in Nat : n = counted
      BY <1>t
    <3>1. PICK u \in Seq(Message) : u = Chain(up)
      BY <3>a
    <3>2. Complete(u, E, n) /\ k \in {n, n + 1} /\ \A m \in 1 .. n : m \in E => m \in F
      BY <2>1, <2>10, <3>1, <3>b, <3>c DEF RewindInv, UpInv
    <3>3. Complete(u, F, k)
      BY <2>10, <3>2, CompleteMore
    <3> QED BY <1>f, <2>1, <2>2, <3>1, <3>3 DEF UpInv
  <2>12. RowInv'
    <3>1. \A m \in 1 .. k : m \in 1 .. counted \/ m = k
      BY <1>t, <2>1
    <3>2. 1 .. counted \subseteq 1 .. k
      BY <1>t, <2>1
    <3>3. db.stored \subseteq 1 .. k
      BY <3>2 DEF RewindInv, RowInv
    <3>4. ASSUME db.count # NoCount, NEW m \in 1 .. k, db.count < m
          PROVE  HasCount(up.queue, m) \/ m \in missed \/ m \in F
      <4>1. CASE m = k
        BY <2>10, <4>1
      <4>2. CASE m \in 1 .. counted
        BY <2>10, <3>4, <4>2 DEF RewindInv, RowInv
      <4> QED BY <3>1, <4>1, <4>2
    <3>5. db.count = NoCount => db.stored = {}
      BY DEF RewindInv, RowInv
    <3> QED BY <1>f, <1>s, <2>1, <2>2, <3>3, <3>4, <3>5 DEF RowInv
  <2> QED BY <2>9, <2>11, <2>12
<1>4. CASE Crash
  <2>1. PICK sent : sent = << >> /\ ProcessEnds(sent) /\ \A m : ~ HasCount(sent, m)
    <3>1. ProcessEnds(<< >>)
      BY <1>4 DEF Crash
    <3>2. \A m : ~ HasCount(<< >>, m)
      BY DEF HasCount
    <3> QED BY <3>1, <3>2
  <2>2. UNCHANGED counted
    BY <2>1 DEF ProcessEnds
  <2>3. Coming \subseteq F
    BY <1>f, <2>1, ComingFacts, LostFacts
  <2>4. OutInv'
    BY <2>1, EndedOut
  <2>5. CASE linked
    <3>1. Arrive(Will)
      BY <1>4, <2>5 DEF Crash
    <3> QED BY <1>f, <1>s, <1>w, <2>2, <2>3, <2>4, <3>1, ArriveCounts
  <2>6. CASE ~ linked
    <3>1. UNCHANGED up
      BY <1>4, <2>6 DEF Crash
    <3> QED BY <1>f, <1>s, <2>2, <2>3, <2>4, <3>1, SameCounts
  <2> QED BY <2>5, <2>6
<1>5. ASSUME NEW n \in 0 .. Len(out.recent), Disconnect(n) PROVE OutInv' /\ UpInv' /\ RowInv'
  <2>1. PICK said \in Seq(Message) : said = Append(out.queue, Offline)
    <3>1. Append(out.queue, Offline) \in Seq(Message)
      BY <1>t, MessageFacts
    <3> QED BY <3>1, Zenon
  <2>2. n \in Nat
    BY <1>t
  <2>3. PICK k \in 0 .. Len(said) :
          /\ SubSeq(said, 1, Min({Inflight - n, Len(said)})) = SubSeq(said, 1, k)
          /\ SubSeq(said, 1, k) \in Seq(Message)
    BY <1>t, <2>1, <2>2, SentFacts, Zenon
  <2>4. PICK sent \in Seq(Message) :
          /\ ProcessEnds(sent) /\ Arrive(sent)
          /\ sent = IF linked THEN SubSeq(said, 1, k) ELSE << >>
    <3>1. PICK u \in Seq(Message) : u = IF linked THEN SubSeq(said, 1, k) ELSE << >>
      <4>1. << >> \in Seq(Message)
        OBVIOUS
      <4> QED BY <2>3, <4>1
    <3>2. u = IF linked THEN SubSeq(said, 1, Min({Inflight - n, Len(said)})) ELSE << >>
      BY <2>3, <3>1
    <3>3. ProcessEnds(u) /\ Arrive(u)
      BY <1>5, <2>1, <3>2 DEF Disconnect
    <3> QED BY <3>1, <3>3
  <2>5. \A m : m \in F <=> m \in lost \/ (HasCount(out.queue, m) /\ ~ HasCount(sent, m))
    BY <1>f, <2>4, LostFacts
  <2>6. Complete(sent, F, counted)
    <3>1. CASE linked
      <4>1. PICK q \in Seq(Message) : q = out.queue
        BY <1>t
      <4>2. /\ Complete(q, {}, counted) /\ Ordered(q) /\ said = Append(q, Offline)
            /\ sent = SubSeq(said, 1, k)
            /\ \A m : HasCount(q, m) /\ ~ HasCount(sent, m) => m \in F
        BY <1>q, <2>1, <2>4, <2>5, <3>1, <4>1
      <4> QED BY <1>t, <4>2, SentComplete
    <3>2. CASE ~ linked
      <4>1. \A i \in 1 .. Len(sent) : ~ IsCount(sent[i])
        BY <2>4, <3>2
      <4> QED BY <4>1, NoCounts
    <3> QED BY <3>1, <3>2
  <2>7. \A m \in Coming : m \in F \/ HasCount(sent, m)
    BY <2>5, ComingFacts
  <2>8. UNCHANGED counted
    BY <2>4 DEF ProcessEnds
  <2>9. OutInv'
    BY <2>4, EndedOut
  <2> QED BY <1>f, <1>s, <2>4, <2>6, <2>7, <2>8, <2>9, ArriveCounts
<1>6. CASE Transmit
  <2>1. /\ Waiting(out) /\ out' = Deliver(out) /\ Arrive(<<Head(out.queue)>>)
        /\ UNCHANGED <<counted, lost>>
    BY <1>6 DEF Transmit, clientVars
  <2>2. /\ out'.queue = Tail(out.queue) /\ Ends(Chain(out'), Chain(out))
    BY <1>t, <2>1, Constants, DeliverFacts
  <2>3. PICK x, u : x = Head(out.queue) /\ u = Tail(out.queue)
    OBVIOUS
  <2>4. /\ x \in Message /\ u \in Seq(Message)
        /\ \A m : HasCount(out.queue, m) <=> HasCount(u, m) \/ (IsCount(x) /\ x.of = m)
        /\ IsCount(x) => /\ x.of \in 1 .. counted
                         /\ \A m \in 1 .. counted : x.of < m => m \in {} \/ HasCount(u, m)
    <3>1a. PICK l \in Link, k \in Nat : l = out /\ k = counted
      BY <1>t
    <3>1b. PICK E : E = {}
      OBVIOUS
    <3>1. l = out /\ k = counted /\ E = {}
      BY <3>1a, <3>1b
    <3>2. /\ Waiting(l) /\ Complete(Chain(l), E, k)
          /\ x = Head(l.queue) /\ u = Tail(l.queue)
      BY <1>i, <2>1, <2>3, <3>1
    <3>3. /\ x \in Message /\ u \in Seq(Message)
          /\ \A m : HasCount(l.queue, m) <=> HasCount(u, m) \/ (IsCount(x) /\ x.of = m)
      BY <3>2, TakenCount
    <3>4. IsCount(x) => /\ x.of \in 1 .. k
                        /\ \A m \in 1 .. k : x.of < m => m \in E \/ HasCount(u, m)
      BY <3>2, TakenCount
    <3> QED BY <3>1, <3>3, <3>4
  <2>5. PICK ms \in Seq(Message) : ms = <<x>> /\ Arrive(ms)
    <3>1. <<x>> \in Seq(Message)
      BY <2>4, SingleFacts
    <3> QED BY <2>1, <2>3, <3>1
  <2>6. \A m : m \in F <=> HasCount(u, m) \/ m \in lost
    BY <1>f, <2>1, <2>2, <2>3, ComingFacts
  <2>7. Complete(ms, F, counted) /\ (IsCount(x) => HasCount(ms, x.of))
    BY <1>t, <2>4, <2>5, <2>6, CompleteSingle
  <2>8. \A m \in Coming : m \in F \/ HasCount(ms, m)
    BY <2>4, <2>6, <2>7, ComingFacts
  <2>9. OutInv'
    <3>1a. PICK s \in Seq(Message) : s = Chain(out)
      BY <1>t, <2>2
    <3>1b. PICK t : t = Chain(out')
      OBVIOUS
    <3>1. s = Chain(out) /\ t = Chain(out') /\ Ends(t, s)
      BY <3>1a, <3>1b, <1>t, <2>2
    <3>2. Complete(t, {}, counted) /\ Ordered(t)
      BY <1>i, <1>t, <3>1, CompleteEnd
    <3> QED BY <2>1, <3>1, <3>2 DEF OutInv
  <2> QED BY <1>f, <1>s, <2>1, <2>5, <2>7, <2>8, <2>9, ArriveCounts
<1>7. CASE LoseLink
  <2>1. Arrive(Will) /\ UNCHANGED <<out, counted, lost>>
    BY <1>7 DEF LoseLink, clientVars
  <2>2. Coming \subseteq F
    BY <1>f, <2>1 DEF Coming
  <2>3. OutInv'
    BY <1>i, <2>1 DEF OutInv
  <2> QED BY <1>f, <1>s, <1>w, <2>1, <2>2, <2>3, ArriveCounts
<1>8. ASSUME NEW n \in 0 .. Len(out.recent), Reconnect(n) PROVE OutInv' /\ UpInv' /\ RowInv'
  <2>1. out' = ResumeWith(out, n, Online) /\ UNCHANGED <<up, counted, lost>>
    BY <1>8 DEF Reconnect, clientVars
  <2>2. PICK h \in Seq(Message), q \in Seq(Message), t \in Seq(Message) :
          /\ h = LastOf(out.recent, n) /\ q = out.queue /\ t = h \o q
          /\ Ends(t, Chain(out))
    <3>1. LastOf(out.recent, n) \in Seq(Message)
      <4>1. PICK r \in Seq(Message) : r = out.recent
        BY <1>t, LinkFacts
      <4> QED BY <4>1, LastOfFacts
    <3>2. /\ LastOf(out.recent, n) \o out.queue \in Seq(Message)
          /\ Ends(LastOf(out.recent, n) \o out.queue, Chain(out))
      BY <1>t, ResumeFacts
    <3> QED BY <1>t, <3>1, <3>2
  <2>3. PICK v \in Seq(Message) :
          v = <<Online>> /\ \A i \in 1 .. Len(v) : v[i] = Online
    <3>1. PICK x \in Message : x = Online
      BY MessageFacts
    <3>2. <<x>> \in Seq(Message) /\ \A i \in 1 .. Len(<<x>>) : <<x>>[i] = x
      BY SingleFacts
    <3> QED BY <3>1, <3>2
  <2>4. out' \in Link /\ out'.recent = << >> /\ out'.queue = v \o t
    BY <1>t, <2>1, <2>2, <2>3, MessageFacts, ResumeWithFacts
  <2>5. /\ \A E, k : Complete(v, E, k) /\ Ordered(v) /\ \A m : ~ HasCount(v, m)
        /\ \A i \in 1 .. Len(v) : ~ IsCount(v[i])
    <3>1. \A i \in 1 .. Len(v) : ~ IsCount(v[i])
      BY <2>3, MessageFacts DEF IsCount
    <3> QED BY <3>1, NoCounts
  <2>6. Complete(t, {}, counted) /\ Ordered(t)
    <3>1. PICK s \in Seq(Message) : s = Chain(out)
      BY <1>t
    <3> QED BY <1>i, <1>t, <2>2, <3>1, CompleteEnd
  <2>7. Complete(v \o t, {}, counted)
    <3>1. PICK k \in Nat : k = counted
      BY <1>t
    <3>2. Complete(v, {}, k) /\ Complete(t, {}, k)
      BY <2>5, <2>6, <3>1
    <3>3. \A m \in 1 .. k : m \in {} => m \in {} \/ HasCount(t, m)
      OBVIOUS
    <3>4. Complete(v \o t, {}, k)
      BY <3>2, <3>3, CompleteAfter
    <3> QED BY <3>1, <3>4
  <2>8. Ordered(v \o t)
    BY <2>5, <2>6, OrderedAfter
  <2>9. OutInv'
    <3>1. Chain(out') = << >> \o (v \o t)
      BY <2>4 DEF Chain
    <3>2. << >> \o (v \o t) = v \o t
      OBVIOUS
    <3> QED BY <2>1, <2>7, <2>8, <3>1, <3>2 DEF OutInv
  <2>10. Coming \subseteq F
    <3>1. \A m : HasCount(q, m) => HasCount(v \o t, m)
      BY <2>2, CountsAfter
    <3> QED BY <1>f, <2>1, <2>2, <2>4, <3>1, ComingFacts
  <2> QED BY <1>f, <1>s, <2>1, <2>9, <2>10, SameCounts
<1> QED
  BY <1>1, <1>2, <1>3, <1>4, <1>5, <1>6, <1>7, <1>8 DEF EdgeNext

(* Every step of the backend keeps the invariant.                          *)
LEMMA RewindStore ==
    ASSUME RewindInv, StoreNext, UNCHANGED clientVars
    PROVE  OutInv' /\ UpInv' /\ RowInv'
<1>t. /\ Messages /\ up \in Link /\ counted \in Nat /\ db \in Row
      /\ up.queue \in Seq(Message) /\ Chain(up) \in Seq(Message)
  <2>1. Messages /\ up \in Link /\ counted \in Nat /\ db \in Row
    BY TypeParts DEF RewindInv, StatusInv, Messages, States
  <2> QED BY <2>1, QueueEnds
<1>o. UNCHANGED <<out, counted, lost>>
  <2>1. UNCHANGED out
    BY DEF StoreNext, HandleCrowdCount, HandleStatus, Receive, HandleImageRaises,
           ReconnectBackend, RestartBackend, Seed, RecordSwitch, linkVars
  <2> QED BY <2>1 DEF clientVars
<1>c. OutInv' /\ Coming' = Coming
  BY <1>o DEF RewindInv, OutInv, Coming
<1>e. PICK E : E = Coming
  OBVIOUS
<1>i. Complete(Chain(up), E, counted)
  BY <1>e DEF RewindInv, UpInv
<1>r. /\ db.stored \subseteq 1 .. counted
      /\ db.count = NoCount => db.stored = {}
      /\ db.count # NoCount =>
           \A m \in 1 .. counted : db.count < m =>
               HasCount(up.queue, m) \/ m \in missed \/ m \in Coming
  BY DEF RewindInv, RowInv
<1>k. ASSUME db'.stored = db.stored, db'.count = db.count,
             \A m : HasCount(up.queue, m) \/ m \in missed
                      => HasCount(up'.queue, m) \/ m \in missed'
      PROVE  RowInv'
  BY <1>c, <1>k, <1>o, <1>r DEF RowInv
<1>1. ASSUME NEW topic, Receive(topic)
      PROVE  /\ UpInv'
             /\ \E x \in Message, u \in Seq(Message) :
                   /\ x = Head(up.queue) /\ u = up'.queue /\ x.topic = topic
                   /\ \A m : HasCount(up.queue, m) <=>
                                HasCount(u, m) \/ (IsCount(x) /\ x.of = m)
                   /\ IsCount(x) =>
                        /\ x.of \in 1 .. counted
                        /\ \A m \in 1 .. counted : x.of < m => m \in E \/ HasCount(u, m)
  <2>1. Waiting(up) /\ up' = Deliver(up) /\ Head(up.queue).topic = topic
    BY <1>1 DEF Receive
  <2>2. up'.queue = Tail(up.queue) /\ Ends(Chain(up'), Chain(up))
    BY <1>t, <2>1, Constants, DeliverFacts
  <2>3. UpInv'
    <3>1a. PICK s \in Seq(Message) : s = Chain(up)
      BY <1>t, <2>2
    <3>1b. PICK t : t = Chain(up')
      OBVIOUS
    <3>1. s = Chain(up) /\ t = Chain(up') /\ Ends(t, s)
      BY <3>1a, <3>1b, <1>t, <2>2
    <3>2. Complete(t, E, counted)
      BY <1>i, <1>t, <3>1, CompleteEnd
    <3> QED BY <1>c, <1>e, <1>o, <3>1, <3>2 DEF UpInv
  <2>4. PICK l \in Link, k \in Nat : l = up /\ k = counted
    BY <1>t
  <2>5. PICK x, u : x = Head(l.queue) /\ u = Tail(l.queue)
    OBVIOUS
  <2>6. Waiting(l) /\ Complete(Chain(l), E, k)
    BY <1>i, <2>1, <2>4
  <2>7. /\ x \in Message /\ u \in Seq(Message)
        /\ \A m : HasCount(l.queue, m) <=> HasCount(u, m) \/ (IsCount(x) /\ x.of = m)
    BY <2>5, <2>6, TakenCount
  <2>8. IsCount(x) => /\ x.of \in 1 .. k
                      /\ \A m \in 1 .. k : x.of < m => m \in E \/ HasCount(u, m)
    BY <2>5, <2>6, TakenCount
  <2> QED BY <2>1, <2>2, <2>3, <2>4, <2>5, <2>7, <2>8
<1>2. CASE HandleCrowdCount
  <2>1. UpInv'
    BY <1>1, <1>2 DEF HandleCrowdCount
  <2>2. PICK x \in Message, u \in Seq(Message) :
          /\ x = Head(up.queue) /\ u = up'.queue /\ x.topic = "crowdCount"
          /\ \A m : HasCount(up.queue, m) <=> HasCount(u, m) \/ (IsCount(x) /\ x.of = m)
          /\ IsCount(x) =>
               /\ x.of \in 1 .. counted
               /\ \A m \in 1 .. counted : x.of < m => m \in E \/ HasCount(u, m)
    BY <1>1, <1>2 DEF HandleCrowdCount
  <2>3. PICK n \in Nat : n = x.of /\ n \in 1 .. counted
    BY <1>t, <2>2 DEF IsCount
  <2>4. /\ \A m : HasCount(up.queue, m) <=> HasCount(u, m) \/ n = m
        /\ \A m \in 1 .. counted : n < m => m \in E \/ HasCount(u, m)
    BY <2>2, <2>3 DEF IsCount
  <2>5. CASE db' = WriteCrowdCount(n) /\ missed' = missed \ {n}
    <3>1. db'.stored = db.stored \cup {n} /\ db'.count = n
      BY <1>t, <2>5 DEF WriteCrowdCount, Row
    <3>2. n # NoCount
      BY <2>3 DEF NoCount
    <3>3. db'.stored \subseteq 1 .. counted
      BY <1>r, <2>3, <3>1
    <3>4. \A m \in 1 .. counted : n < m => HasCount(u, m) \/ m \in E
      BY <2>4
    <3>5. RowInv'
      BY <1>c, <1>e, <1>o, <2>2, <3>1, <3>2, <3>3, <3>4 DEF RowInv
    <3> QED BY <1>c, <2>1, <3>5
  <2>6. CASE db' = db /\ missed' = missed \cup {n}
    <3>1. \A m : HasCount(up.queue, m) \/ m \in missed
                   => HasCount(up'.queue, m) \/ m \in missed'
      BY <2>2, <2>4, <2>6
    <3>2. db'.stored = db.stored /\ db'.count = db.count
      BY <2>6
    <3>3. RowInv'
      BY <1>k, <3>1, <3>2
    <3> QED BY <1>c, <2>1, <3>3
  <2> QED BY <1>2, <2>2, <2>3, <2>5, <2>6 DEF HandleCrowdCount, Unwritten
<1>3. CASE HandleStatus
  <2>1. UpInv'
    BY <1>1, <1>3 DEF HandleStatus
  <2>2. PICK x \in Message, u \in Seq(Message) :
          /\ u = up'.queue /\ x.topic = "status"
          /\ \A m : HasCount(up.queue, m) <=> HasCount(u, m) \/ (IsCount(x) /\ x.of = m)
    BY <1>1, <1>3 DEF HandleStatus
  <2>3. ~ IsCount(x)
    BY <2>2 DEF IsCount
  <2>4. missed' = missed /\ db'.stored = db.stored /\ db'.count = db.count
    BY <1>3, <1>t DEF HandleStatus, UpsertStop, Unwritten, Row
  <2>5. \A m : HasCount(up.queue, m) \/ m \in missed
                 => HasCount(up'.queue, m) \/ m \in missed'
    BY <2>2, <2>3, <2>4
  <2>6. RowInv'
    BY <1>k, <2>4, <2>5
  <2> QED BY <1>c, <2>1, <2>6
<1>4. CASE ReconnectBackend \/ RestartBackend
  <2>1. Resubscribe /\ UNCHANGED <<db, missed>>
    BY <1>4 DEF ReconnectBackend, RestartBackend, storeVars
  <2>2. PICK t \in Seq(Message) :
          /\ Ends(t, Chain(up))
          /\ up' \in Link /\ up'.recent = << >> /\ up'.queue = Append(t, retained)
          /\ \E n \in 0 .. Len(up.recent) : t = LastOf(up.recent, n) \o up.queue
    BY <1>t, <2>1, ResubscribeFacts
  <2>3. PICK x \in Message : x = retained /\ ~ IsCount(x)
    BY <1>t DEF RewindInv, StatusInv, Told, Messages, IsCount
  <2>4. PICK v \in Seq(Message) :
          /\ v = <<x>> /\ Complete(v, E, counted) /\ Append(t, x) = t \o v
    <3>1. <<x>> \in Seq(Message) /\ Append(t, x) = t \o <<x>>
      BY AppendIsConcat, SingleFacts
    <3>2. Complete(<<x>>, E, counted)
      BY <1>t, <2>3, CompleteSingle
    <3> QED BY <3>1, <3>2
  <2>5. Complete(t \o v, E, counted)
    <3>1. PICK s \in Seq(Message), k \in Nat : s = Chain(up) /\ k = counted
      BY <1>t
    <3>2. Complete(t, E, k) /\ Complete(v, E, k)
      BY <1>i, <2>2, <2>4, <3>1, CompleteEnd
    <3>3. \A m \in 1 .. k : m \in E => m \in E \/ HasCount(v, m)
      OBVIOUS
    <3>4. Complete(t \o v, E, k)
      BY <3>2, <3>3, CompleteAfter
    <3> QED BY <3>1, <3>4
  <2>6. UpInv'
    <3>1. Chain(up') = << >> \o (t \o v)
      BY <2>2, <2>3, <2>4 DEF Chain
    <3>2. << >> \o (t \o v) = t \o v
      OBVIOUS
    <3> QED BY <1>c, <1>e, <1>o, <2>5, <3>1, <3>2 DEF UpInv
  <2>7. \A m : HasCount(up.queue, m) => HasCount(up'.queue, m)
    <3>1. PICK q \in Seq(Message), n \in 0 .. Len(up.recent) :
            q = up.queue /\ t = LastOf(up.recent, n) \o q
      BY <1>t, <2>2
    <3>2. PICK h \in Seq(Message) : h = LastOf(up.recent, n)
      <4>1. PICK r \in Seq(Message) : r = up.recent
        BY <1>t, LinkFacts
      <4> QED BY <3>1, <4>1, LastOfFacts
    <3>3. \A m : HasCount(q, m) => HasCount(h \o q, m)
      BY CountsAfter
    <3>4. \A m : HasCount(t, m) => HasCount(t \o v, m)
      BY CountsAfter
    <3> QED BY <2>2, <2>3, <2>4, <3>1, <3>2, <3>3, <3>4
  <2>8. RowInv'
    BY <1>k, <2>1, <2>7
  <2> QED BY <1>c, <2>6, <2>8
<1>5. CASE HandleImageRaises \/ Seed \/ RecordSwitch
  <2>1. UNCHANGED <<up, missed>> /\ db'.stored = db.stored /\ db'.count = db.count
    BY <1>5, <1>t DEF HandleImageRaises, Seed, RecordSwitch, Unwritten, Row, linkVars
  <2>2. UpInv'
    BY <1>c, <1>o, <2>1 DEF RewindInv, UpInv
  <2>3. RowInv'
    BY <1>k, <2>1
  <2> QED BY <1>c, <2>2, <2>3
<1> QED
  BY <1>2, <1>3, <1>4, <1>5 DEF StoreNext

(* Every step keeps the invariant.                                         *)
LEMMA RewindStep == RewindInv /\ [Next]_vars => RewindInv'
<1> SUFFICES ASSUME RewindInv, [Next]_vars PROVE RewindInv'
  OBVIOUS
<1>1. StatusInv'
  BY StatusStep DEF RewindInv
<1>2. CASE EdgeNext /\ UNCHANGED <<storeVars, adminVars>>
  BY <1>1, <1>2, RewindEdge DEF RewindInv
<1>3. CASE StoreNext /\ UNCHANGED clientVars
  BY <1>1, <1>3, RewindStore DEF RewindInv
<1>4. CASE \/ \E c \in Commands : Send(c)
           \/ UNCHANGED vars
  <2>1. UNCHANGED <<out, up, counted, lost, db, missed>>
    BY <1>4 DEF Send, SendAdmin, storeVars, linkVars, clientVars, vars
  <2> QED BY <1>1, <2>1 DEF RewindInv, OutInv, UpInv, RowInv, Coming
<1> QED BY <1>2, <1>3, <1>4 DEF Next, Edge, Store

(* current_counts is behind the history only while the counts that will    *)
(* overtake it are on their way again, or were dropped (write_crowd_count  *)
(* takes whatever comes; QoS 1 delivers in order and at least once), for   *)
(* any number of counts, faults and unacknowledged messages.               *)
THEOREM RewindCaused == Spec => []RewindHasCause
<1>1. Init => RewindInv
  <2> SUFFICES ASSUME Init PROVE RewindInv
    OBVIOUS
  <2>1. StatusInv
    BY InitStatus
  <2>2. /\ out = EmptyLink /\ up = EmptyLink
        /\ counted = 0 /\ db.count = NoCount /\ db.stored = {}
    BY DEF Init, LinkInit, ClientInit, StoreInit, NewStop
  <2>3. PICK s : s = Chain(EmptyLink) /\ \A i \in 1 .. Len(s) : ~ IsCount(s[i])
    <3>1. EmptyLink.recent = << >> /\ EmptyLink.queue = << >>
      BY LinkFacts
    <3>2. Chain(EmptyLink) = << >>
      BY <3>1 DEF Chain
    <3> QED BY <3>2
  <2>4. OutInv
    BY <2>2, <2>3, NoCounts DEF OutInv
  <2>5. UpInv
    BY <2>2, <2>3, NoCounts DEF UpInv
  <2>6. RowInv
    BY <2>2 DEF RowInv
  <2> QED BY <2>1, <2>4, <2>5, <2>6 DEF RewindInv
<1>2. RewindInv => RewindHasCause
  <2> SUFFICES ASSUME RewindInv, db.stored # {}, db.count < Max(db.stored)
               PROVE  Max(db.stored) \in
                        Counts(Pending(up) \cup Pending(out)) \cup missed \cup lost
    BY DEF RewindHasCause
  <2>1a. PICK n \in Nat : n = counted
    BY TypeParts DEF RewindInv, StatusInv, Messages
  <2>1b. PICK S : S = db.stored
    OBVIOUS
  <2>1. n = counted /\ S = db.stored
    BY <2>1a, <2>1b
  <2>2. S \subseteq 1 .. n /\ S # {} /\ S \in SUBSET (0 .. n)
    BY <2>1 DEF RewindInv, RowInv
  <2>3. PICK m : m = Max(S) /\ m \in S
    BY <2>2, MaxFacts
  <2>4. m \in 1 .. counted /\ db.count # NoCount /\ db.count < m
    BY <2>1, <2>2, <2>3 DEF RewindInv, RowInv
  <2>5. HasCount(up.queue, m) \/ m \in missed \/ m \in Coming
    BY <2>4 DEF RewindInv, RowInv
  <2>6. \/ m \in Counts(Pending(up)) \/ m \in missed
        \/ m \in Counts(Pending(out)) \/ m \in lost
    BY <2>5, PendingCounts DEF Coming
  <2> QED BY <2>1, <2>3, <2>6 DEF Counts
<1> QED BY <1>1, <1>2, RewindStep, PTL DEF Spec
=============================================================================
