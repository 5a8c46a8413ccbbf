------------------------ MODULE SessionsOrderProofs -------------------------
(***************************************************************************)
(* TLAPS proofs about Sessions, continued: what a client is sent.  The     *)
(* events of one author come in order and once (AuthorOrder), and a member *)
(* misses no event of the others (NoGap).                                  *)
(*                                                                         *)
(* The argument follows an event from the log of its room through the      *)
(* handler that posts it to the strand of the recipient: what a handler    *)
(* has still to post was made by its own client (TodoKnown), comes in the  *)
(* order of the log (TodoRising), and comes after all that was posted of   *)
(* this client before (PostedFirst), because a session runs one handler at *)
(* a time.  Nothing relates the handlers of two clients, which is why the  *)
(* order of a room as a whole is not kept (SeqOrder).                      *)
(***************************************************************************)
EXTENDS SessionsProofs

AnyMessage == Message \cup {Reply("none")}

(* What is on its way to a client, from its parts.                         *)
Shown(s, w, t) == s \o w \o [i \in DOMAIN t |-> MessageOf(t[i])]

SameSource(m, n) ==
  m.type = "event" /\ n.type = "event" /\ m.room = n.room /\ m.author = n.author

Ordered(p) ==
  \A i, j \in DOMAIN p : i < j /\ SameSource(p[i], p[j]) => p[i].seq < p[j].seq

(* An event is the one the log of its room has under its number.           *)
Known(lg, m) ==
  m.type = "event" => /\ m.room \in DOMAIN lg
                      /\ m.seq \in 1 .. Len(lg[m.room])
                      /\ lg[m.room][m.seq] = m.author

(* What was posted is in the logs.                                         *)
PostedKnown(lg, p) == \A i \in DOMAIN p : Known(lg, p[i])

(* What the handler of a client has to post is in the logs, and its own.   *)
TodoKnown(a, lg, todo) ==
  \A k \in DOMAIN todo :
    /\ Known(lg, todo[k].msg)
    /\ todo[k].msg.type = "event" => todo[k].msg.author = a

TodoRising(todo) ==
  \A j, k \in DOMAIN todo :
    j < k /\ SameSource(todo[j].msg, todo[k].msg) => todo[j].msg.seq < todo[k].msg.seq

(* What was posted to d comes before what a handler has to post to it.     *)
PostedFirst(d, p, todo) ==
  \A i \in DOMAIN p, k \in DOMAIN todo :
    d \in todo[k].to /\ SameSource(p[i], todo[k].msg) => p[i].seq < todo[k].msg.seq

OrderInv ==
  \A d \in Clients :
    /\ PostedKnown(log, Posted(d)) /\ Ordered(Posted(d))
    /\ TodoKnown(d, log, run[d].todo) /\ TodoRising(run[d].todo)
    /\ \A a \in Clients : PostedFirst(d, Posted(d), run[a].todo)

(* The event n of room r is on its way to d, or was sent to it.            *)
IsEvent(m, r, n) == m.type = "event" /\ m.room = r /\ m.seq = n

Reaches(d, r, n) ==
  \/ \E i \in DOMAIN Posted(d) : IsEvent(Posted(d)[i], r, n)
  \/ \E k \in DOMAIN run[log[r][n]].todo :
       /\ d \in run[log[r][n]].todo[k].to
       /\ IsEvent(run[log[r][n]].todo[k].msg, r, n)

Complete(d) ==
  currentRoom[d] # NoRoom =>
    /\ since[d] \in Nat \ {0}
    /\ session[d] = "open" =>
         \A n \in since[d] .. Len(log[currentRoom[d]]) :
           log[currentRoom[d]][n] # d => Reaches(d, currentRoom[d], n)

GapInv == \A d \in Clients : Complete(d)

-----------------------------------------------------------------------------
(* Sequences of messages.                                                  *)

(* The message at each place, where a, b and n messages are in the parts.  *)
ShownAs(p, s, w, t, a, b, n) ==
  /\ p \in Seq(AnyMessage) /\ Len(p) = a + b + n /\ DOMAIN p = 1 .. a + b + n
  /\ \A i \in 1 .. a + b + n :
       p[i] = IF i <= a THEN s[i] ELSE IF i <= a + b THEN w[i - a]
              ELSE MessageOf(t[i - (a + b)])

LEMMA MessageOfType ==
  ASSUME NEW x \in QueuedHandler
  PROVE  /\ MessageOf(x) \in AnyMessage
         /\ x.h # "post" => MessageOf(x).type # "event"
         /\ x.h = "post" => MessageOf(x) = x.msg /\ x.msg \in Message
<1>1. x.h = "post" => x.msg \in Message
  BY DEF QueuedHandler
<1> QED
  BY <1>1 DEF MessageOf, AnyMessage, Reply

LEMMA ShownAt ==
  ASSUME NEW s \in Seq(Message), NEW w \in Seq(Message), NEW t \in Seq(QueuedHandler),
         NEW a \in Nat, NEW b \in Nat, NEW n \in Nat,
         Len(s) = a, Len(w) = b, Len(t) = n
  PROVE  ShownAs(Shown(s, w, t), s, w, t, a, b, n)
<1> DEFINE f == [i \in DOMAIN t |-> MessageOf(t[i])]
<1>1. DOMAIN t = 1 .. n /\ \A i \in 1 .. n : t[i] \in QueuedHandler
  BY LenProperties
<1>2. f \in [1 .. n -> AnyMessage]
  BY <1>1, MessageOfType
<1>3. f \in Seq(AnyMessage) /\ Len(f) = n /\ \A i \in 1 .. n : f[i] = MessageOf(t[i])
  BY <1>1, <1>2
<1> HIDE DEF f
<1>4. s \in Seq(AnyMessage) /\ w \in Seq(AnyMessage)
  BY DEF AnyMessage
<1>5. PICK u \in Seq(AnyMessage) : u = s \o w
  <2>1. s \o w \in Seq(AnyMessage)
    BY <1>4, ConcatProperties
  <2> QED
    BY <2>1, Zenon
<1>6. /\ Len(u) = a + b
      /\ \A i \in 1 .. a + b : u[i] = IF i <= a THEN s[i] ELSE w[i - a]
  BY <1>4, <1>5, ConcatProperties
<1>7. PICK p \in Seq(AnyMessage) : p = u \o f
  <2>1. u \o f \in Seq(AnyMessage)
    BY <1>3, ConcatProperties
  <2> QED
    BY <2>1, Zenon
<1>8. PICK ab \in Nat : ab = a + b
  OBVIOUS
<1>9. /\ Len(p) = ab + n
      /\ \A i \in 1 .. ab + n : p[i] = IF i <= ab THEN u[i] ELSE f[i - ab]
  BY <1>3, <1>6, <1>7, <1>8, ConcatProperties
<1>10. DOMAIN p = 1 .. ab + n
  BY <1>9, LenProperties
<1>11. ASSUME NEW i \in 1 .. ab + n
       PROVE  p[i] = IF i <= a THEN s[i] ELSE IF i <= ab THEN w[i - a]
                     ELSE MessageOf(t[i - ab])
  <2>1. CASE i <= ab
    <3>1. p[i] = u[i] /\ i \in 1 .. a + b
      BY <1>8, <1>9, <2>1
    <3>2. u[i] = IF i <= a THEN s[i] ELSE w[i - a]
      BY <1>6, <3>1
    <3>3. i <= a => i <= ab
      BY <2>1
    <3> QED
      BY <2>1, <3>1, <3>2
  <2>2. CASE ~(i <= ab)
    <3>1. ~(i <= a) /\ i - ab \in 1 .. n
      BY <1>8, <2>2
    <3>2. p[i] = f[i - ab]
      BY <1>9, <2>2
    <3> QED
      BY <1>3, <2>2, <3>1, <3>2
  <2> QED
    BY <2>1, <2>2
<1>12. Shown(s, w, t) = p
  BY <1>5, <1>7 DEF Shown, f
<1> QED
  BY <1>8, <1>9, <1>10, <1>11, <1>12 DEF ShownAs

(* A handler is queued.                                                    *)
LEMMA ShownQueue ==
  ASSUME NEW s \in Seq(Message), NEW w \in Seq(Message), NEW t \in Seq(QueuedHandler),
         NEW x \in QueuedHandler
  PROVE  /\ Shown(s, w, Append(t, x)) = Append(Shown(s, w, t), MessageOf(x))
         /\ Shown(s, w, t) \in Seq(AnyMessage)
<1>1. PICK a \in Nat, b \in Nat, n \in Nat : Len(s) = a /\ Len(w) = b /\ Len(t) = n
  BY LenProperties
<1>2. PICK u \in Seq(QueuedHandler) : u = Append(t, x)
  BY AppendProperties
<1>3. Len(u) = n + 1 /\ u[n + 1] = x /\ \A i \in 1 .. n : u[i] = t[i]
  BY <1>1, <1>2, AppendProperties
<1>4. PICK p, q : p = Shown(s, w, t) /\ q = Shown(s, w, u)
  OBVIOUS
<1>5. ShownAs(p, s, w, t, a, b, n) /\ ShownAs(q, s, w, u, a, b, n + 1)
  BY <1>1, <1>3, <1>4, ShownAt
<1>6. PICK m \in AnyMessage : m = MessageOf(x)
  BY MessageOfType
<1>7. PICK k \in Nat : k = a + b + n
  OBVIOUS
<1>8. p \in Seq(AnyMessage) /\ q \in Seq(AnyMessage) /\ Len(p) = k /\ Len(q) = k + 1
  BY <1>5, <1>7 DEF ShownAs
<1>9. PICK r \in Seq(AnyMessage) : r = Append(p, m)
  BY <1>8, AppendProperties
<1>10. Len(r) = k + 1 /\ r[k + 1] = m /\ \A i \in 1 .. k : r[i] = p[i]
  BY <1>8, <1>9, AppendProperties
<1>11. ASSUME NEW i \in 1 .. k + 1 PROVE q[i] = r[i]
  <2>1. CASE i = k + 1
    <3>1. ~(i <= a) /\ ~(i <= a + b) /\ i - (a + b) = n + 1 /\ i \in 1 .. a + b + (n + 1)
      BY <1>7, <2>1
    <3>2. q[i] = MessageOf(u[n + 1])
      BY <1>5, <3>1 DEF ShownAs
    <3> QED
      BY <1>3, <1>6, <1>10, <2>1, <3>2
  <2>2. CASE i # k + 1
    <3>1. i \in 1 .. k /\ i \in 1 .. a + b + n /\ i \in 1 .. a + b + (n + 1)
      BY <1>7, <2>2
    <3>2. ~(i <= a + b) => i - (a + b) \in 1 .. n
      BY <1>7, <3>1
    <3>3. q[i] = p[i]
      BY <1>3, <1>5, <3>1, <3>2 DEF ShownAs
    <3> QED
      BY <1>10, <3>1, <3>3
  <2> QED
    BY <2>1, <2>2
<1>12. q = r
  <2>1. Len(q) = Len(r) /\ \A i \in 1 .. Len(q) : q[i] = r[i]
    BY <1>8, <1>10, <1>11
  <2> QED
    BY <1>8, <2>1, SeqEqual
<1> QED
  BY <1>2, <1>4, <1>6, <1>8, <1>9, <1>12

(* The function deliver() posted runs: the message goes from the strand to *)
(* the queue, and stays where it was.                                      *)
LEMMA ShownPosted ==
  ASSUME NEW s \in Seq(Message), NEW w \in Seq(Message), NEW t \in Seq(QueuedHandler),
         t # <<>>, Head(t).h = "post"
  PROVE  Shown(s, Append(w, Head(t).msg), Tail(t)) = Shown(s, w, t)
<1>1. PICK a \in Nat, b \in Nat, n \in Nat : Len(s) = a /\ Len(w) = b /\ Len(t) = n
  BY LenProperties
<1>2. Head(t) \in QueuedHandler /\ Head(t) = t[1] /\ Tail(t) \in Seq(QueuedHandler)
  BY HeadTailProperties
<1>3. PICK m \in Message : m = Head(t).msg /\ m = MessageOf(t[1])
  BY <1>2, MessageOfType
<1>4. PICK u \in Seq(QueuedHandler), v \in Seq(Message) : u = Tail(t) /\ v = Append(w, m)
  <2>1. Append(w, m) \in Seq(Message)
    BY AppendProperties
  <2> QED
    BY <1>2, <2>1, Zenon
<1>5. Len(v) = b + 1 /\ v[b + 1] = m /\ \A i \in 1 .. b : v[i] = w[i]
  BY <1>1, <1>4, AppendProperties
<1>6. n \in Nat \ {0} /\ Len(u) = n - 1 /\ \A i \in 1 .. n - 1 : u[i] = t[i + 1]
  BY <1>1, <1>4, HeadTailProperties, EmptySeq
<1>7. PICK p, q : p = Shown(s, w, t) /\ q = Shown(s, v, u)
  OBVIOUS
<1>8. ShownAs(p, s, w, t, a, b, n)
  BY <1>1, <1>7, ShownAt
<1>9. ShownAs(q, s, v, u, a, b + 1, n - 1)
  <2>1. b + 1 \in Nat /\ n - 1 \in Nat
    BY <1>6
  <2> QED
    BY <1>1, <1>5, <1>6, <1>7, <2>1, ShownAt
<1>10. PICK k \in Nat : k = a + b + n /\ k = a + (b + 1) + (n - 1)
  BY <1>6
<1>11. p \in Seq(AnyMessage) /\ q \in Seq(AnyMessage) /\ Len(p) = k /\ Len(q) = k
  BY <1>8, <1>9, <1>10 DEF ShownAs
<1>12. ASSUME NEW i \in 1 .. k PROVE p[i] = q[i]
  <2>0. /\ p[i] = IF i <= a THEN s[i] ELSE IF i <= a + b THEN w[i - a]
                  ELSE MessageOf(t[i - (a + b)])
        /\ q[i] = IF i <= a THEN s[i] ELSE IF i <= a + (b + 1) THEN v[i - a]
                  ELSE MessageOf(u[i - (a + (b + 1))])
    BY <1>8, <1>9, <1>10 DEF ShownAs
  <2>1. CASE i <= a + b
    <3>1. i <= a + (b + 1) /\ (~(i <= a) => i - a \in 1 .. b)
      BY <2>1
    <3> QED
      BY <1>5, <2>0, <2>1, <3>1
  <2>2. CASE i = a + b + 1
    <3>1. /\ ~(i <= a) /\ ~(i <= a + b) /\ i - (a + b) = 1
          /\ i <= a + (b + 1) /\ i - a = b + 1
      BY <2>2
    <3>2. p[i] = MessageOf(t[1]) /\ q[i] = v[b + 1]
      BY <2>0, <3>1
    <3> QED
      BY <1>3, <1>5, <3>2
  <2>3. CASE i > a + b + 1
    <3>1. /\ ~(i <= a) /\ ~(i <= a + b) /\ ~(i <= a + (b + 1))
          /\ i - (a + (b + 1)) \in 1 .. n - 1
          /\ i - (a + (b + 1)) + 1 = i - (a + b)
      BY <1>6, <1>10, <2>3
    <3>2. p[i] = MessageOf(t[i - (a + b)]) /\ q[i] = MessageOf(u[i - (a + (b + 1))])
      BY <2>0, <3>1
    <3>3. u[i - (a + (b + 1))] = t[i - (a + b)]
      BY <1>6, <3>1
    <3> QED
      BY <3>2, <3>3
  <2> QED
    BY <2>1, <2>2, <2>3
<1>13. p = q
  <2>1. Len(p) = Len(q) /\ \A i \in 1 .. Len(p) : p[i] = q[i]
    BY <1>11, <1>12
  <2> QED
    BY <1>11, <2>1, SeqEqual
<1> QED
  BY <1>3, <1>4, <1>7, <1>13

(* A write completes: the message stays where it was, once more.           *)
LEMMA ShownWritten ==
  ASSUME NEW s \in Seq(Message), NEW w \in Seq(Message), NEW t \in Seq(QueuedHandler),
         w # <<>>
  PROVE  Shown(Append(s, Head(w)), Tail(w), t) = Shown(s, w, t)
<1>1. PICK a \in Nat, b \in Nat, n \in Nat : Len(s) = a /\ Len(w) = b /\ Len(t) = n
  BY LenProperties
<1>2. Head(w) \in Message /\ Head(w) = w[1] /\ Tail(w) \in Seq(Message)
  BY HeadTailProperties
<1>3. PICK u \in Seq(Message), v \in Seq(Message) : u = Append(s, Head(w)) /\ v = Tail(w)
  <2>1. Append(s, Head(w)) \in Seq(Message)
    BY <1>2, AppendProperties
  <2> QED
    BY <1>2, <2>1, Zenon
<1>4. Len(u) = a + 1 /\ u[a + 1] = w[1] /\ \A i \in 1 .. a : u[i] = s[i]
  BY <1>1, <1>2, <1>3, AppendProperties
<1>5. b \in Nat \ {0} /\ Len(v) = b - 1 /\ \A i \in 1 .. b - 1 : v[i] = w[i + 1]
  BY <1>1, <1>3, HeadTailProperties, EmptySeq
<1>6. PICK p, q : p = Shown(s, w, t) /\ q = Shown(u, v, t)
  OBVIOUS
<1>7. ShownAs(p, s, w, t, a, b, n)
  BY <1>1, <1>6, ShownAt
<1>8. ShownAs(q, u, v, t, a + 1, b - 1, n)
  <2>1. a + 1 \in Nat /\ b - 1 \in Nat
    BY <1>5
  <2> QED
    BY <1>1, <1>4, <1>5, <1>6, <2>1, ShownAt
<1>9. PICK k \in Nat : k = a + b + n /\ k = (a + 1) + (b - 1) + n
  BY <1>5
<1>10. p \in Seq(AnyMessage) /\ q \in Seq(AnyMessage) /\ Len(p) = k /\ Len(q) = k
  BY <1>7, <1>8, <1>9 DEF ShownAs
<1>11. ASSUME NEW i \in 1 .. k PROVE p[i] = q[i]
  <2>0. /\ p[i] = IF i <= a THEN s[i] ELSE IF i <= a + b THEN w[i - a]
                  ELSE MessageOf(t[i - (a + b)])
        /\ q[i] = IF i <= a + 1 THEN u[i]
                  ELSE IF i <= (a + 1) + (b - 1) THEN v[i - (a + 1)]
                  ELSE MessageOf(t[i - ((a + 1) + (b - 1))])
    BY <1>7, <1>8, <1>9 DEF ShownAs
  <2>1. CASE i <= a
    <3>1. i <= a + 1 /\ i \in 1 .. a
      BY <2>1
    <3> QED
      BY <1>4, <2>0, <2>1, <3>1
  <2>2. CASE i = a + 1
    <3>1. i <= a + 1 /\ ~(i <= a) /\ i <= a + b /\ i - a = 1
      BY <1>5, <2>2
    <3> QED
      BY <1>4, <2>0, <2>2, <3>1
  <2>3. CASE i > a + 1 /\ i <= a + b
    <3>1. /\ ~(i <= a) /\ ~(i <= a + 1) /\ i <= (a + 1) + (b - 1)
          /\ i - (a + 1) \in 1 .. b - 1 /\ i - (a + 1) + 1 = i - a
      BY <1>5, <2>3
    <3>2. p[i] = w[i - a] /\ q[i] = v[i - (a + 1)]
      BY <2>0, <2>3, <3>1
    <3> QED
      BY <1>5, <3>1, <3>2
  <2>4. CASE i > a + b
    <3>1. /\ ~(i <= a) /\ ~(i <= a + 1) /\ ~(i <= (a + 1) + (b - 1)) /\ ~(i <= a + b)
          /\ i - ((a + 1) + (b - 1)) = i - (a + b)
      BY <1>5, <2>4
    <3> QED
      BY <2>0, <3>1
  <2> QED
    BY <2>1, <2>2, <2>3, <2>4
<1>12. p = q
  <2>1. Len(p) = Len(q) /\ \A i \in 1 .. Len(p) : p[i] = q[i]
    BY <1>10, <1>11
  <2> QED
    BY <1>10, <2>1, SeqEqual
<1> QED
  BY <1>3, <1>6, <1>12

(* The same events, in the same order.                                     *)
SameEvents(q, p) ==
  /\ \A i \in DOMAIN q : q[i].type = "event" => \E j \in DOMAIN p : q[i] = p[j]
  /\ \A j \in DOMAIN p : p[j].type = "event" => \E i \in DOMAIN q : q[i] = p[j]
  /\ Ordered(p) => Ordered(q)

LEMMA SameEventsReflexive == ASSUME NEW p PROVE SameEvents(p, p)
BY DEF SameEvents

(* A handler that writes nothing starts.                                   *)
LEMMA ShownStarted ==
  ASSUME NEW s \in Seq(Message), NEW w \in Seq(Message), NEW t \in Seq(QueuedHandler),
         t # <<>>, Head(t).h # "post"
  PROVE  SameEvents(Shown(s, w, Tail(t)), Shown(s, w, t))
<1>1. PICK a \in Nat, b \in Nat, n \in Nat : Len(s) = a /\ Len(w) = b /\ Len(t) = n
  BY LenProperties
<1>2. Head(t) \in QueuedHandler /\ Head(t) = t[1] /\ Tail(t) \in Seq(QueuedHandler)
  BY HeadTailProperties
<1>3. MessageOf(t[1]).type # "event"
  BY <1>2, MessageOfType
<1>4. PICK u \in Seq(QueuedHandler) : u = Tail(t)
  BY <1>2, Zenon
<1>5. n \in Nat \ {0} /\ Len(u) = n - 1 /\ \A i \in 1 .. n - 1 : u[i] = t[i + 1]
  BY <1>1, <1>4, HeadTailProperties, EmptySeq
<1>6. PICK p, q : p = Shown(s, w, t) /\ q = Shown(s, w, u)
  OBVIOUS
<1>7. ShownAs(p, s, w, t, a, b, n)
  BY <1>1, <1>6, ShownAt
<1>8. ShownAs(q, s, w, u, a, b, n - 1)
  <2>1. n - 1 \in Nat
    BY <1>5
  <2> QED
    BY <1>1, <1>5, <1>6, <2>1, ShownAt
<1>9. PICK k \in Nat, z \in Nat : k = a + b + n /\ z = a + b + 1 /\ k - 1 = a + b + (n - 1)
                                  /\ z \in 1 .. k
  BY <1>5
<1>10. DOMAIN p = 1 .. k /\ DOMAIN q = 1 .. k - 1
  BY <1>7, <1>8, <1>9 DEF ShownAs
<1>11. p[z].type # "event"
  <2>1. ~(z <= a) /\ ~(z <= a + b) /\ z - (a + b) = 1 /\ z \in 1 .. a + b + n
    BY <1>9
  <2>2. p[z] = MessageOf(t[1])
    BY <1>7, <2>1 DEF ShownAs
  <2> QED
    BY <1>3, <2>2
<1>12. ASSUME NEW i \in 1 .. k - 1 PROVE q[i] = IF i < z THEN p[i] ELSE p[i + 1]
  <2>0. q[i] = IF i <= a THEN s[i] ELSE IF i <= a + b THEN w[i - a]
               ELSE MessageOf(u[i - (a + b)])
    BY <1>8, <1>9 DEF ShownAs
  <2>1. CASE i < z
    <3>1. i <= a + b /\ i \in 1 .. a + b + n
      BY <1>9, <2>1
    <3>2. p[i] = IF i <= a THEN s[i] ELSE w[i - a]
      BY <1>7, <3>1 DEF ShownAs
    <3> QED
      BY <2>0, <2>1, <3>1, <3>2
  <2>2. CASE ~(i < z)
    <3>1. /\ ~(i <= a) /\ ~(i <= a + b) /\ ~(i + 1 <= a) /\ ~(i + 1 <= a + b)
          /\ i - (a + b) \in 1 .. n - 1
          /\ i - (a + b) + 1 = (i + 1) - (a + b)
          /\ i + 1 \in 1 .. a + b + n
      BY <1>9, <2>2
    <3>2. q[i] = MessageOf(u[i - (a + b)]) /\ p[i + 1] = MessageOf(t[(i + 1) - (a + b)])
      BY <1>7, <2>0, <3>1 DEF ShownAs
    <3>3. u[i - (a + b)] = t[(i + 1) - (a + b)]
      BY <1>5, <3>1
    <3> QED
      BY <2>2, <3>2, <3>3
  <2> QED
    BY <2>1, <2>2
<1>13. SameEvents(q, p)
  <2> DEFINE f(i) == IF i < z THEN i ELSE i + 1
             g(j) == IF j < z THEN j ELSE j - 1
  <2>1. \A i \in 1 .. k - 1 : f(i) \in 1 .. k /\ q[i] = p[f(i)]
    BY <1>9, <1>12
  <2>2. \A i, j \in 1 .. k - 1 : i < j => f(i) < f(j)
    BY <1>9
  <2>3. \A j \in 1 .. k : j # z => g(j) \in 1 .. k - 1 /\ f(g(j)) = j
    BY <1>9
  <2> HIDE DEF f, g
  <2>4. \A i \in DOMAIN q : q[i].type = "event" => \E j \in DOMAIN p : q[i] = p[j]
    BY <1>10, <2>1
  <2>5. \A j \in DOMAIN p : p[j].type = "event" => \E i \in DOMAIN q : q[i] = p[j]
    BY <1>10, <1>11, <2>1, <2>3
  <2>6. Ordered(p) => Ordered(q)
    <3> SUFFICES ASSUME Ordered(p), NEW i \in 1 .. k - 1, NEW j \in 1 .. k - 1, i < j,
                        SameSource(q[i], q[j])
                 PROVE  q[i].seq < q[j].seq
      BY <1>10 DEF Ordered
    <3>1. f(i) \in DOMAIN p /\ f(j) \in DOMAIN p /\ f(i) < f(j)
      BY <1>10, <2>1, <2>2
    <3>2. q[i] = p[f(i)] /\ q[j] = p[f(j)]
      BY <2>1
    <3>3. SameSource(p[f(i)], p[f(j)])
      BY <3>2
    <3>4. p[f(i)].seq < p[f(j)].seq
      BY <3>1, <3>3 DEF Ordered
    <3> QED
      BY <3>2, <3>4
  <2> QED
    BY <2>4, <2>5, <2>6 DEF SameEvents
<1> QED
  BY <1>4, <1>6, <1>13

(* A handler that writes nothing is queued.                                *)
LEMMA SameEventsAppend ==
  ASSUME NEW p \in Seq(AnyMessage), NEW m \in AnyMessage, m.type # "event"
  PROVE  SameEvents(Append(p, m), p)
<1>1. PICK n \in Nat : n = Len(p)
  BY LenProperties
<1>2. PICK q : q = Append(p, m)
  OBVIOUS
<1>3. /\ DOMAIN p = 1 .. n /\ DOMAIN q = 1 .. n + 1
      /\ q[n + 1] = m /\ \A i \in 1 .. n : q[i] = p[i]
  BY <1>1, <1>2, AppendProperties, LenProperties
<1>4. \A i \in 1 .. n + 1 : i = n + 1 \/ i \in 1 .. n
  OBVIOUS
<1>5. \A i \in DOMAIN q : q[i].type = "event" => i \in DOMAIN p /\ q[i] = p[i]
  BY <1>3, <1>4
<1>6. \A i \in DOMAIN p : i \in DOMAIN q /\ q[i] = p[i]
  BY <1>3
<1>7. Ordered(p) => Ordered(q)
  BY <1>5 DEF Ordered, SameSource
<1> QED
  BY <1>2, <1>5, <1>6, <1>7 DEF SameEvents

-----------------------------------------------------------------------------
(* What the steps do to the messages of a client.                          *)

LEMMA PostedShown ==
  ASSUME QueueType, NEW d \in Clients
  PROVE  /\ Posted(d) = Shown(sent[d], writeQueue[d], strand[d])
         /\ Posted(d)' = Shown(sent'[d], writeQueue'[d], strand'[d])
         /\ sent[d] \in Seq(Message) /\ writeQueue[d] \in Seq(Message)
         /\ strand[d] \in Seq(QueuedHandler)
         /\ Posted(d) \in Seq(AnyMessage)
<1>1. /\ sent[d] \in Seq(Message) /\ writeQueue[d] \in Seq(Message)
      /\ strand[d] \in Seq(QueuedHandler)
  BY DEF QueueType
<1>2. Posted(d) = Shown(sent[d], writeQueue[d], strand[d])
  BY DEF Posted, Shown
<1>3. Posted(d)' = Shown(sent'[d], writeQueue'[d], strand'[d])
  BY DEF Posted, Shown
<1>4. PICK a \in Nat, b \in Nat, n \in Nat :
        Len(sent[d]) = a /\ Len(writeQueue[d]) = b /\ Len(strand[d]) = n
  BY <1>1, LenProperties
<1>5. ShownAs(Shown(sent[d], writeQueue[d], strand[d]),
              sent[d], writeQueue[d], strand[d], a, b, n)
  BY <1>1, <1>4, ShownAt
<1> QED
  BY <1>1, <1>2, <1>3, <1>5 DEF ShownAs

(* A step that leaves the queues of a client alone.                        *)
LEMMA PostedFrame ==
  ASSUME NEW d \in Clients, QueueType, sent'[d] = sent[d], writeQueue'[d] = writeQueue[d],
         strand'[d] = strand[d]
  PROVE  Posted(d)' = Posted(d) /\ SameEvents(Posted(d)', Posted(d))
<1>1. Posted(d)' = Posted(d)
  BY PostedShown
<1> QED
  BY <1>1, SameEventsReflexive

(* A completion is queued.                                                 *)
LEMMA QueuedPosted ==
  ASSUME SessionsInv, NEW c \in Clients, NEW x \in QueuedHandler, Queue(c, x),
         UNCHANGED <<sent, writeQueue>>
  PROVE  /\ Posted(c)' = Append(Posted(c), MessageOf(x))
         /\ x.h # "post" => SameEvents(Posted(c)', Posted(c))
         /\ \A d \in Clients : d # c => /\ Posted(d)' = Posted(d)
                                        /\ SameEvents(Posted(d)', Posted(d))
<1>0. QueueType
  BY DEF SessionsInv, Tokens
<1>1. strand'[c] = Append(strand[c], x) /\ \A d \in Clients : d # c => strand'[d] = strand[d]
  BY <1>0, QueuedStrand
<1>2. Posted(c)' = Append(Posted(c), MessageOf(x))
  <2>1. /\ Posted(c) = Shown(sent[c], writeQueue[c], strand[c])
        /\ Posted(c)' = Shown(sent[c], writeQueue[c], Append(strand[c], x))
        /\ sent[c] \in Seq(Message) /\ writeQueue[c] \in Seq(Message)
        /\ strand[c] \in Seq(QueuedHandler)
    BY <1>0, <1>1, PostedShown
  <2>2. Shown(sent[c], writeQueue[c], Append(strand[c], x)) =
          Append(Shown(sent[c], writeQueue[c], strand[c]), MessageOf(x))
    BY <2>1, ShownQueue, Zenon
  <2> QED
    BY <2>1, <2>2, Zenon
<1>3. x.h # "post" => SameEvents(Posted(c)', Posted(c))
  <2>1. MessageOf(x) \in AnyMessage /\ (x.h # "post" => MessageOf(x).type # "event")
    BY MessageOfType
  <2>2. Posted(c) \in Seq(AnyMessage)
    BY <1>0, PostedShown
  <2> QED
    BY <1>2, <2>1, <2>2, SameEventsAppend
<1>4. ASSUME NEW d \in Clients, d # c
      PROVE  Posted(d)' = Posted(d) /\ SameEvents(Posted(d)', Posted(d))
  BY <1>0, <1>1, <1>4, PostedFrame
<1> QED
  BY <1>2, <1>3, <1>4

(* A handler that writes nothing starts.                                   *)
LEMMA StartedPosted ==
  ASSUME SessionsInv, NEW c \in Clients, NEW h, Starts(c, h), h # "post",
         UNCHANGED <<sent, writeQueue>>
  PROVE  \A d \in Clients : SameEvents(Posted(d)', Posted(d))
<1>0. SessionType /\ QueueType
  BY DEF SessionsInv, Tokens
<1>1. /\ strand[c] # <<>> /\ Head(strand[c]).h = h /\ strand'[c] = Tail(strand[c])
      /\ \A d \in Clients : d # c => strand'[d] = strand[d]
  BY <1>0, StartedStrand
<1>2. SameEvents(Posted(c)', Posted(c))
  BY <1>0, <1>1, PostedShown, ShownStarted
<1>3. ASSUME NEW d \in Clients, d # c PROVE SameEvents(Posted(d)', Posted(d))
  BY <1>0, <1>1, <1>3, PostedFrame
<1> QED
  BY <1>2, <1>3

(* The session's writer runs.                                              *)
LEMMA WriterPosted ==
  ASSUME SessionsInv, NEW c \in Clients, OnPosted(c) \/ OnWrite(c)
  PROVE  \A d \in Clients : SameEvents(Posted(d)', Posted(d))
<1>0. SessionType /\ QueueType /\ Client(c)
  BY DEF SessionsInv, Tokens
<1>1. CASE OnPosted(c)
  <2>1. /\ strand[c] # <<>> /\ Head(strand[c]).h = "post" /\ strand'[c] = Tail(strand[c])
        /\ \A d \in Clients : d # c => strand'[d] = strand[d]
    BY <1>0, <1>1, StartedStrand DEF OnPosted
  <2>2. /\ sent' = sent /\ writeQueue'[c] = Append(writeQueue[c], Head(strand[c]).msg)
        /\ \A d \in Clients : d # c => writeQueue'[d] = writeQueue[d]
    BY <1>0, <1>1 DEF OnPosted, QueueType
  <2>3. Posted(c)' = Posted(c)
    <3>1. /\ Posted(c) = Shown(sent[c], writeQueue[c], strand[c])
          /\ Posted(c)' = Shown(sent[c], Append(writeQueue[c], Head(strand[c]).msg),
                                Tail(strand[c]))
          /\ sent[c] \in Seq(Message) /\ writeQueue[c] \in Seq(Message)
          /\ strand[c] \in Seq(QueuedHandler)
      BY <1>0, <2>1, <2>2, PostedShown
    <3>2. Shown(sent[c], Append(writeQueue[c], Head(strand[c]).msg), Tail(strand[c])) =
            Shown(sent[c], writeQueue[c], strand[c])
      BY <2>1, <3>1, ShownPosted, Zenon
    <3> QED
      BY <3>1, <3>2, Zenon
  <2>4. SameEvents(Posted(c)', Posted(c))
    BY <2>3, SameEventsReflexive
  <2>5. ASSUME NEW d \in Clients, d # c PROVE SameEvents(Posted(d)', Posted(d))
    BY <1>0, <2>1, <2>2, <2>5, PostedFrame
  <2> QED
    BY <2>4, <2>5
<1>2. CASE OnWrite(c)
  <2>1. /\ strand[c] # <<>> /\ Head(strand[c]).h = "written" /\ strand'[c] = Tail(strand[c])
        /\ \A d \in Clients : d # c => strand'[d] = strand[d]
    BY <1>0, <1>2, StartedStrand DEF OnWrite
  <2>2. writeQueue[c] # <<>>
    <3>1. QueuedWrites(c) = QueuedWrites(c)' + 1 /\ QueuedWrites(c)' \in Nat
      BY <1>0, <1>2, StartedStrand DEF OnWrite, WriteEnds
    <3>2. writes[c] \in {0, 1}
      BY <1>0 DEF SessionType
    <3> QED
      BY <1>0, <3>1, <3>2 DEF Client, WriteToken
  <2>3. /\ sent'[c] = Append(sent[c], Head(writeQueue[c]))
        /\ writeQueue'[c] = Tail(writeQueue[c])
        /\ \A d \in Clients : d # c => sent'[d] = sent[d] /\ writeQueue'[d] = writeQueue[d]
    BY <1>0, <1>2 DEF OnWrite, QueueType
  <2>4. Tail(strand[c]) \in Seq(QueuedHandler)
    BY <1>0, <2>1, PostedShown, HeadTailProperties
  <2>5. Posted(c)' = Shown(sent[c], writeQueue[c], Tail(strand[c]))
    <3>1. /\ Posted(c)' = Shown(Append(sent[c], Head(writeQueue[c])),
                                Tail(writeQueue[c]), Tail(strand[c]))
          /\ sent[c] \in Seq(Message) /\ writeQueue[c] \in Seq(Message)
      BY <1>0, <2>1, <2>3, PostedShown
    <3>2. Shown(Append(sent[c], Head(writeQueue[c])), Tail(writeQueue[c]), Tail(strand[c])) =
            Shown(sent[c], writeQueue[c], Tail(strand[c]))
      BY <2>2, <2>4, <3>1, ShownWritten, Zenon
    <3> QED
      BY <3>1, <3>2, Zenon
  <2>6. SameEvents(Posted(c)', Posted(c))
    BY <1>0, <2>1, <2>5, PostedShown, ShownStarted
  <2>7. ASSUME NEW d \in Clients, d # c PROVE SameEvents(Posted(d)', Posted(d))
    BY <1>0, <2>1, <2>3, <2>7, PostedFrame
  <2> QED
    BY <2>6, <2>7
<1> QED
  BY <1>1, <1>2

-----------------------------------------------------------------------------
(* The parts of the invariant, as the logs grow and handlers go on.        *)

Grown(l2, l1) ==
  /\ DOMAIN l1 \subseteq DOMAIN l2
  /\ \A r \in DOMAIN l1 :
       /\ Len(l1[r]) \in Nat /\ Len(l2[r]) \in Nat /\ Len(l1[r]) <= Len(l2[r])
       /\ \A n \in 1 .. Len(l1[r]) : l2[r][n] = l1[r][n]

LEMMA KnownGrown ==
  ASSUME NEW l1, NEW l2, Grown(l2, l1), NEW m, Known(l1, m)
  PROVE  Known(l2, m)
<1> SUFFICES ASSUME m.type = "event"
             PROVE  /\ m.room \in DOMAIN l2
                    /\ m.seq \in 1 .. Len(l2[m.room])
                    /\ l2[m.room][m.seq] = m.author
  BY DEF Known
<1>1. PICK r \in DOMAIN l1 : r = m.room
  BY DEF Known
<1>2. PICK a \in Nat, b \in Nat : a = Len(l1[r]) /\ b = Len(l2[r]) /\ a <= b
  BY DEF Grown
<1>3. m.seq \in 1 .. a /\ l1[r][m.seq] = m.author
  BY <1>1, <1>2 DEF Known
<1>4. m.seq \in 1 .. b /\ l2[r][m.seq] = l1[r][m.seq]
  BY <1>2, <1>3 DEF Grown
<1> QED
  BY <1>1, <1>2, <1>3, <1>4 DEF Grown

LEMMA PostedKnownGrown ==
  ASSUME NEW l1, NEW l2, Grown(l2, l1), NEW p, NEW q, SameEvents(q, p), PostedKnown(l1, p)
  PROVE  PostedKnown(l2, q)
<1> SUFFICES ASSUME NEW i \in DOMAIN q, q[i].type = "event" PROVE Known(l2, q[i])
  BY DEF PostedKnown, Known
<1>1. PICK j \in DOMAIN p : q[i] = p[j]
  BY DEF SameEvents
<1>2. Known(l1, q[i])
  BY <1>1 DEF PostedKnown
<1> QED
  BY <1>2, KnownGrown

LEMMA TodoKnownGrown ==
  ASSUME NEW l1, NEW l2, Grown(l2, l1), NEW a, NEW todo, TodoKnown(a, l1, todo)
  PROVE  TodoKnown(a, l2, todo)
BY KnownGrown DEF TodoKnown

LEMMA PostedFirstKept ==
  ASSUME NEW p, NEW q, SameEvents(q, p), NEW d, NEW todo, PostedFirst(d, p, todo)
  PROVE  PostedFirst(d, q, todo)
BY DEF PostedFirst, SameEvents, SameSource

(* Events that are new in the logs.                                        *)
Fresh(l1, todo) ==
  \A k \in DOMAIN todo :
    LET m == todo[k].msg
    IN  m.type = "event" => /\ m.room \in DOMAIN l1 /\ m.seq \in Nat
                            /\ Len(l1[m.room]) \in Nat /\ m.seq > Len(l1[m.room])

LEMMA PostedFirstFresh ==
  ASSUME NEW l1, NEW p, PostedKnown(l1, p), NEW d, NEW todo, Fresh(l1, todo)
  PROVE  PostedFirst(d, p, todo)
<1> SUFFICES ASSUME NEW i \in DOMAIN p, NEW k \in DOMAIN todo,
                    SameSource(p[i], todo[k].msg)
             PROVE  p[i].seq < todo[k].msg.seq
  BY DEF PostedFirst
<1>1. PICK m, n : m = p[i] /\ n = todo[k].msg
  OBVIOUS
<1>2. m.type = "event" /\ n.type = "event" /\ m.room = n.room
  BY <1>1 DEF SameSource
<1>3. m.seq \in 1 .. Len(l1[n.room])
  BY <1>1, <1>2 DEF PostedKnown, Known
<1>4. PICK b \in Nat, z \in Nat : b = Len(l1[n.room]) /\ z = n.seq /\ z > b
  BY <1>1, <1>2 DEF Fresh
<1>5. m.seq < z
  BY <1>3, <1>4
<1> QED
  BY <1>1, <1>4, <1>5

(* A step that posts nothing: each handler goes on with what it has to     *)
(* post, or begins with events it has just made.                           *)
LEMMA QuietOrder ==
  ASSUME OrderInv, Grown(log', log),
         \A d \in Clients : SameEvents(Posted(d)', Posted(d)),
         \A a \in Clients :
           \/ run'[a].todo = run[a].todo
           \/ /\ TodoKnown(a, log', run'[a].todo)
              /\ TodoRising(run'[a].todo)
              /\ Fresh(log, run'[a].todo)
  PROVE  OrderInv'
<1>1. ASSUME NEW d \in Clients
      PROVE  PostedKnown(log', Posted(d)') /\ Ordered(Posted(d)')
  <2>1. SameEvents(Posted(d)', Posted(d)) /\ PostedKnown(log, Posted(d)) /\ Ordered(Posted(d))
    BY DEF OrderInv
  <2>2. Ordered(Posted(d)')
    BY <2>1 DEF SameEvents
  <2>3. PostedKnown(log', Posted(d)')
    BY <2>1, PostedKnownGrown
  <2> QED
    BY <2>2, <2>3
<1>2. ASSUME NEW a \in Clients
      PROVE  TodoKnown(a, log', run'[a].todo) /\ TodoRising(run'[a].todo)
  BY TodoKnownGrown DEF OrderInv
<1>3. ASSUME NEW d \in Clients, NEW a \in Clients
      PROVE  PostedFirst(d, Posted(d)', run'[a].todo)
  <2>1. SameEvents(Posted(d)', Posted(d)) /\ PostedKnown(log, Posted(d))
        /\ PostedFirst(d, Posted(d), run[a].todo)
    BY DEF OrderInv
  <2>2. PostedFirst(d, Posted(d), run'[a].todo)
    BY <2>1, PostedFirstFresh
  <2> QED
    BY <2>1, <2>2, PostedFirstKept
<1> QED
  BY <1>1, <1>2, <1>3 DEF OrderInv

-----------------------------------------------------------------------------
(* A handler posts: the event at the head of t1 has been posted to d, and  *)
(* t2 is left; z = 1 if that was its last recipient.                       *)
HeadPosted(t2, t1, d, n, z) ==
  /\ n \in Nat \ {0} /\ z \in {0, 1}
  /\ DOMAIN t1 = 1 .. n /\ DOMAIN t2 = 1 .. n - z
  /\ \A k \in 1 .. n - z :
       /\ t2[k].msg = t1[k + z].msg
       /\ t2[k].to = IF k + z = 1 THEN t1[1].to \ {d} ELSE t1[k + z].to
  /\ z = 1 => t1[1].to \subseteq {d}

(* Posted to d, or d is gone, or there was nobody to post to.              *)
PostStep(c, d, n, z) ==
  /\ HeadPosted(run'[c].todo, run[c].todo, d, n, z)
  /\ \A a \in Clients : a # c => run'[a] = run[a]
  /\ UNCHANGED <<coreVars, ioVars, sessionVars>>
  /\ \/ strand' = strand /\ (session[d] # "open" \/ run[c].todo[1].to = {})
     \/ /\ d \in run[c].todo[1].to
        /\ Queue(d, [h |-> "post", msg |-> run[c].todo[1].msg])
        /\ [h |-> "post", msg |-> run[c].todo[1].msg] \in QueuedHandler

LEMMA PostSteps ==
  ASSUME SessionsInv, NEW c \in Clients, Post(c)
  PROVE  \E d \in Clients, n \in Nat, z \in {0, 1} : PostStep(c, d, n, z)
<1>0. SessionType /\ QueueType /\ Client(c)
  BY DEF SessionsInv, Tokens
<1>1. PICK todo \in Seq(Posting) : todo = run[c].todo /\ todo # <<>>
  BY <1>0 DEF QueueType, Post
<1>2. Head(todo) \in Posting /\ Head(todo) = todo[1] /\ Tail(todo) \in Seq(Posting)
  BY <1>1, HeadTailProperties
<1>3. PICK m \in Posting, rest \in Seq(Posting) : m = Head(todo) /\ rest = Tail(todo)
  BY <1>2, Zenon
<1>4. PICK n \in Nat \ {0} : n = Len(todo)
  BY <1>1, EmptySeq
<1>5. /\ DOMAIN todo = 1 .. n /\ DOMAIN rest = 1 .. n - 1 /\ Len(rest) = n - 1
      /\ \A k \in 1 .. n - 1 : rest[k] = todo[k + 1]
  BY <1>1, <1>3, <1>4, HeadTailProperties, LenProperties
<1>6. m = todo[1] /\ m.to \subseteq Clients /\ m.msg \in Message
  BY <1>2, <1>3 DEF Posting
<1>7. [h |-> "post", msg |-> m.msg] \in QueuedHandler
  BY <1>6 DEF QueuedHandler
<1>8. UNCHANGED <<coreVars, ioVars, sessionVars>>
  BY DEF Post
<1>9. ASSUME NEW t \in Seq(Posting), Continue(c, t, run[c].end)
      PROVE  run'[c].todo = t /\ \A a \in Clients : a # c => run'[a] = run[a]
  BY <1>0, <1>9 DEF Continue, QueueType
<1>10. ASSUME NEW d \in Clients, m.to \subseteq {d}
       PROVE  HeadPosted(rest, todo, d, n, 1)
  <2>1. \A k \in 1 .. n - 1 : k + 1 # 1 /\ rest[k] = todo[k + 1]
    BY <1>5
  <2> QED
    BY <1>5, <1>6, <1>10, <2>1 DEF HeadPosted
<1>11. ASSUME NEW d \in m.to, m.to # {d},
              NEW t, t = <<[m EXCEPT !.to = @ \ {d}]>> \o rest
       PROVE  t \in Seq(Posting) /\ HeadPosted(t, todo, d, n, 0)
  <2>1. PICK x \in Posting : x = [m EXCEPT !.to = @ \ {d}]
    BY <1>6 DEF Posting
  <2>2. x.msg = m.msg /\ x.to = m.to \ {d}
    BY <2>1 DEF Posting
  <2>3. PICK u \in Seq(Posting) : u = <<x>>
    <3>1. <<x>> \in Seq(Posting)
      OBVIOUS
    <3> QED
      BY <3>1, Zenon
  <2>4. Len(u) = 1 /\ u[1] = x
    BY <2>3
  <2>5. /\ t \in Seq(Posting) /\ Len(t) = 1 + (n - 1)
        /\ \A i \in 1 .. 1 + (n - 1) : t[i] = IF i <= 1 THEN u[i] ELSE rest[i - 1]
    BY <1>5, <1>11, <2>1, <2>3, <2>4, ConcatProperties
  <2>6. Len(t) = n /\ DOMAIN t = 1 .. n - 0
    BY <2>5, LenProperties
  <2>7. ASSUME NEW k \in 1 .. n - 0
        PROVE  /\ t[k].msg = todo[k + 0].msg
               /\ t[k].to = IF k + 0 = 1 THEN todo[1].to \ {d} ELSE todo[k + 0].to
    <3>1. k + 0 = k /\ k \in 1 .. 1 + (n - 1)
      OBVIOUS
    <3>2. CASE k = 1
      BY <1>6, <2>2, <2>4, <2>5, <3>1, <3>2
    <3>3. CASE k # 1
      <4>1. ~(k <= 1) /\ k - 1 \in 1 .. n - 1 /\ (k - 1) + 1 = k
        BY <3>3
      <4>2. t[k] = todo[k]
        BY <1>5, <2>5, <3>1, <4>1
      <4> QED
        BY <3>1, <3>3, <4>2
    <3> QED
      BY <3>2, <3>3
  <2>8. HeadPosted(t, todo, d, n, 0)
    <3>1. 0 \in {0, 1} /\ ~(0 = 1)
      OBVIOUS
    <3> QED
      BY <1>5, <2>6, <2>7, <3>1, Zenon DEF HeadPosted
  <2> QED
    BY <2>5, <2>8
<1>12. CASE m.to = {} /\ Continue(c, rest, run[c].end) /\ UNCHANGED strand
  <2>1. HeadPosted(rest, todo, c, n, 1)
    BY <1>10, <1>12
  <2>2. PostStep(c, c, n, 1)
    BY <1>1, <1>6, <1>8, <1>9, <1>12, <2>1 DEF PostStep
  <2> QED
    BY <2>2
<1>13. ASSUME NEW d \in m.to,
              Continue(c, IF m.to = {d} THEN rest
                          ELSE <<[m EXCEPT !.to = @ \ {d}]>> \o rest, run[c].end),
              IF d = c \/ d \in registry
              THEN Queue(d, [h |-> "post", msg |-> m.msg])
              ELSE UNCHANGED strand
       PROVE  \E e \in Clients, k \in Nat, z \in {0, 1} : PostStep(c, e, k, z)
  <2>1. PICK z \in {0, 1}, t \in Seq(Posting) :
          HeadPosted(t, todo, d, n, z) /\ Continue(c, t, run[c].end)
    <3>1. CASE m.to = {d}
      <4>1. HeadPosted(rest, todo, d, n, 1)
        BY <1>6, <1>10, <3>1
      <4> QED
        BY <1>13, <3>1, <4>1
    <3>2. CASE m.to # {d}
      <4>1. PICK t : t = <<[m EXCEPT !.to = @ \ {d}]>> \o rest
        OBVIOUS
      <4>2. t \in Seq(Posting) /\ HeadPosted(t, todo, d, n, 0)
        BY <1>11, <3>2, <4>1
      <4>3. Continue(c, t, run[c].end)
        BY <1>13, <3>2, <4>1, Zenon
      <4> QED
        BY <4>2, <4>3
    <3> QED
      BY <3>1, <3>2
  <2>2. d \in Clients
    BY <1>6
  <2>3. \/ Queue(d, [h |-> "post", msg |-> m.msg])
        \/ strand' = strand /\ session[d] # "open"
    BY <1>0, <1>13, <2>2 DEF SessionType
  <2>4. PostStep(c, d, n, z)
    BY <1>1, <1>6, <1>7, <1>8, <1>9, <2>1, <2>3 DEF PostStep
  <2> QED
    BY <2>2, <2>4
<1>14. \/ m.to = {} /\ Continue(c, rest, run[c].end) /\ UNCHANGED strand
       \/ \E d \in m.to :
            /\ Continue(c, IF m.to = {d} THEN rest
                           ELSE <<[m EXCEPT !.to = @ \ {d}]>> \o rest, run[c].end)
            /\ IF d = c \/ d \in registry
               THEN Queue(d, [h |-> "post", msg |-> m.msg])
               ELSE UNCHANGED strand
  BY <1>1, <1>3, Zenon DEF Post
<1> QED
  BY <1>12, <1>13, <1>14

(* What is left to post is as it was.                                      *)
LEMMA HeadPostedKept ==
  ASSUME NEW t1, NEW t2, NEW d, NEW n, NEW z, HeadPosted(t2, t1, d, n, z),
         NEW a, NEW lg, TodoKnown(a, lg, t1), TodoRising(t1)
  PROVE  /\ TodoKnown(a, lg, t2) /\ TodoRising(t2)
         /\ \A e, p : PostedFirst(e, p, t1) => PostedFirst(e, p, t2)
<1>1. \A k \in DOMAIN t2 : /\ k + z \in DOMAIN t1 /\ t2[k].msg = t1[k + z].msg
                           /\ t2[k].to \subseteq t1[k + z].to
  BY DEF HeadPosted
<1>2. \A j, k \in DOMAIN t2 : j < k => j + z < k + z
  BY DEF HeadPosted
<1>3. TodoKnown(a, lg, t2)
  BY <1>1 DEF TodoKnown
<1>4. TodoRising(t2)
  BY <1>1, <1>2 DEF TodoRising
<1>5. ASSUME NEW e, NEW p, PostedFirst(e, p, t1) PROVE PostedFirst(e, p, t2)
  BY <1>1, <1>5 DEF PostedFirst
<1> QED
  BY <1>3, <1>4, <1>5

(* What was posted is in order, and before what is left to post.           *)
LEMMA AppendPosted ==
  ASSUME NEW p \in Seq(AnyMessage), NEW m \in AnyMessage, NEW q, q = Append(p, m)
  PROVE  /\ \A lg : PostedKnown(lg, p) /\ Known(lg, m) => PostedKnown(lg, q)
         /\ (/\ Ordered(p)
             /\ \A i \in DOMAIN p : SameSource(p[i], m) => p[i].seq < m.seq)
            => Ordered(q)
         /\ \A j \in DOMAIN p : \E i \in DOMAIN q : q[i] = p[j]
         /\ \E i \in DOMAIN q : q[i] = m
<1>1. PICK n \in Nat : n = Len(p)
  BY LenProperties
<1>2. /\ DOMAIN p = 1 .. n /\ DOMAIN q = 1 .. n + 1
      /\ q[n + 1] = m /\ \A i \in 1 .. n : q[i] = p[i]
  BY <1>1, AppendProperties, LenProperties
<1>3. \A i \in DOMAIN q : \/ i = n + 1 /\ q[i] = m
                          \/ i \in DOMAIN p /\ i < n + 1 /\ q[i] = p[i]
  BY <1>2
<1>4. \A lg : PostedKnown(lg, p) /\ Known(lg, m) => PostedKnown(lg, q)
  BY <1>3 DEF PostedKnown
<1>5. ASSUME Ordered(p), \A i \in DOMAIN p : SameSource(p[i], m) => p[i].seq < m.seq
      PROVE  Ordered(q)
  <2> SUFFICES ASSUME NEW i \in DOMAIN q, NEW j \in DOMAIN q, i < j, SameSource(q[i], q[j])
               PROVE  q[i].seq < q[j].seq
    BY DEF Ordered
  <2>1. i \in DOMAIN p /\ q[i] = p[i]
    BY <1>2, <1>3
  <2>2. CASE j = n + 1
    BY <1>2, <1>5, <2>1, <2>2
  <2>3. CASE j \in DOMAIN p /\ q[j] = p[j]
    BY <1>5, <2>1, <2>3 DEF Ordered
  <2> QED
    BY <1>3, <2>2, <2>3
<1>6. (n + 1) \in DOMAIN q /\ \A j \in DOMAIN p : j \in DOMAIN q
  BY <1>2
<1> QED
  BY <1>2, <1>4, <1>5, <1>6

LEMMA AppendFirst ==
  ASSUME NEW p \in Seq(AnyMessage), NEW m \in AnyMessage, NEW d, NEW todo,
         PostedFirst(d, p, todo),
         \A k \in DOMAIN todo : d \in todo[k].to /\ SameSource(m, todo[k].msg)
                                  => m.seq < todo[k].msg.seq
  PROVE  PostedFirst(d, Append(p, m), todo)
<1>1. PICK q : q = Append(p, m)
  OBVIOUS
<1>2. \A i \in DOMAIN q : q[i] = m \/ (i \in DOMAIN p /\ q[i] = p[i])
  <2>1. PICK n \in Nat : n = Len(p)
    BY LenProperties
  <2>2. /\ DOMAIN p = 1 .. n /\ DOMAIN q = 1 .. n + 1
        /\ q[n + 1] = m /\ \A i \in 1 .. n : q[i] = p[i]
    BY <1>1, <2>1, AppendProperties, LenProperties
  <2>3. \A i \in 1 .. n + 1 : i = n + 1 \/ i \in 1 .. n
    OBVIOUS
  <2> QED
    BY <2>2, <2>3, Zenon
<1>3. PostedFirst(d, q, todo)
  BY <1>2 DEF PostedFirst
<1> QED
  BY <1>1, <1>3

(* Posting keeps the order.                                                *)
LEMMA PostOrder ==
  ASSUME SessionsInv, OrderInv, NEW c \in Clients, Post(c)
  PROVE  OrderInv'
<1>0. QueueType
  BY DEF SessionsInv, Tokens
<1>1. PICK d \in Clients, n \in Nat, z \in {0, 1} : PostStep(c, d, n, z)
  BY PostSteps
<1>2. /\ HeadPosted(run'[c].todo, run[c].todo, d, n, z)
      /\ \A a \in Clients : a # c => run'[a] = run[a]
      /\ log' = log /\ sent' = sent /\ writeQueue' = writeQueue
  BY <1>1 DEF PostStep, coreVars, ioVars
<1>3. TodoKnown(c, log, run[c].todo) /\ TodoRising(run[c].todo)
  BY DEF OrderInv
<1>4. /\ TodoKnown(c, log, run'[c].todo) /\ TodoRising(run'[c].todo)
      /\ \A e, p : PostedFirst(e, p, run[c].todo) => PostedFirst(e, p, run'[c].todo)
  BY <1>2, <1>3, HeadPostedKept
<1>5. \A a \in Clients : TodoKnown(a, log', run'[a].todo) /\ TodoRising(run'[a].todo)
  BY <1>2, <1>4 DEF OrderInv
<1>6. \A e, a \in Clients : PostedFirst(e, Posted(e), run'[a].todo)
  BY <1>2, <1>4 DEF OrderInv
<1>7. CASE strand' = strand
  <2>1. \A e \in Clients : Posted(e)' = Posted(e)
    BY <1>0, <1>2, <1>7, PostedFrame
  <2> QED
    BY <1>2, <1>5, <1>6, <2>1 DEF OrderInv
<1>8. CASE /\ d \in run[c].todo[1].to
           /\ Queue(d, [h |-> "post", msg |-> run[c].todo[1].msg])
           /\ [h |-> "post", msg |-> run[c].todo[1].msg] \in QueuedHandler
  <2>1. PICK m, x : m = run[c].todo[1].msg /\ x = [h |-> "post", msg |-> m]
    OBVIOUS
  <2>2. x \in QueuedHandler /\ Queue(d, x) /\ MessageOf(x) = m
    BY <1>8, <2>1 DEF MessageOf
  <2>3. m \in AnyMessage
    BY <2>2, MessageOfType
  <2>4. /\ Posted(d)' = Append(Posted(d), m)
        /\ \A e \in Clients : e # d => Posted(e)' = Posted(e)
    BY <1>2, <2>2, QueuedPosted
  <2>5. Posted(d) \in Seq(AnyMessage)
    BY <1>0, PostedShown
  <2>6. 1 \in DOMAIN run[c].todo
    BY <1>2 DEF HeadPosted
  <2>7. Known(log, m) /\ (m.type = "event" => m.author = c)
    BY <1>3, <2>1, <2>6 DEF TodoKnown
  <2>8. PostedKnown(log', Posted(d)')
    BY <1>2, <2>3, <2>4, <2>5, <2>7, AppendPosted DEF OrderInv
  <2>9. Ordered(Posted(d)')
    <3>1. \A i \in DOMAIN Posted(d) : SameSource(Posted(d)[i], m) => Posted(d)[i].seq < m.seq
      BY <1>8, <2>1, <2>6 DEF OrderInv, PostedFirst
    <3>2. Ordered(Posted(d))
      BY DEF OrderInv
    <3> QED
      BY <2>3, <2>4, <2>5, <3>1, <3>2, AppendPosted
  <2>10. ASSUME NEW a \in Clients PROVE PostedFirst(d, Posted(d)', run'[a].todo)
    <3>1. PostedFirst(d, Posted(d), run'[a].todo)
      BY <1>6
    <3>2. ASSUME NEW k \in DOMAIN run'[a].todo, d \in run'[a].todo[k].to,
                 SameSource(m, run'[a].todo[k].msg)
          PROVE  m.seq < run'[a].todo[k].msg.seq
      <4>1. a = c
        BY <1>5, <2>7, <3>2 DEF TodoKnown, SameSource
      <4>2. k + z # 1 /\ k + z \in DOMAIN run[c].todo /\ 1 < k + z
            /\ run'[c].todo[k].msg = run[c].todo[k + z].msg
        <5>1. k \in 1 .. n - z /\ n \in Nat \ {0} /\ DOMAIN run[c].todo = 1 .. n
          BY <1>2, <3>2, <4>1 DEF HeadPosted
        <5>2. /\ run'[c].todo[k].msg = run[c].todo[k + z].msg
              /\ k + z = 1 => run'[c].todo[k].to = run[c].todo[1].to \ {d}
          BY <1>2, <5>1 DEF HeadPosted
        <5>3. k + z # 1
          BY <3>2, <4>1, <5>2
        <5>4. k + z \in 1 .. n /\ 1 < k + z
          BY <5>1, <5>3
        <5> QED
          BY <5>1, <5>2, <5>3, <5>4
      <4> QED
        BY <1>3, <2>1, <2>6, <3>2, <4>1, <4>2 DEF TodoRising
    <3> QED
      BY <2>3, <2>4, <2>5, <3>1, <3>2, AppendFirst
  <2>11. ASSUME NEW e \in Clients
         PROVE  /\ PostedKnown(log', Posted(e)') /\ Ordered(Posted(e)')
                /\ \A a \in Clients : PostedFirst(e, Posted(e)', run'[a].todo)
    <3>1. CASE e = d
      BY <2>8, <2>9, <2>10, <3>1
    <3>2. CASE e # d
      BY <1>2, <1>6, <2>4, <3>2 DEF OrderInv
    <3> QED
      BY <3>1, <3>2
  <2> QED
    BY <1>5, <2>11 DEF OrderInv
<1> QED
  BY <1>1, <1>7, <1>8 DEF PostStep

-----------------------------------------------------------------------------
(* A handler that calls the core has the events of the call to post, and   *)
(* may answer its client after them.                                       *)
CallTodo(todo, r, es, k) ==
  /\ k \in Nat /\ DOMAIN todo = 1 .. Len(es) + k
  /\ \A i \in 1 .. Len(es) : todo[i] = To(es[i].to, EventMessage(r, es[i]))
  /\ \A i \in Len(es) + 1 .. Len(es) + k : todo[i].msg.type # "event"

(* They are the new ones of the log, from N + 1 to N + E.                  *)
NewEvents(c, r, es, l1, l2, N, E, todo) ==
  /\ TodoKnown(c, l2, todo) /\ TodoRising(todo) /\ Fresh(l1, todo)
  /\ \A n \in N + 1 .. N + E :
       /\ n - N \in DOMAIN todo /\ n - N \in 1 .. E
       /\ todo[n - N].to = es[n - N].to
       /\ IsEvent(todo[n - N].msg, r, n)

LEMMA CallTodoOrder ==
  ASSUME NEW c \in Clients, NEW r, NEW N \in Nat, NEW E \in Nat,
         NEW es \in Seq(RoomEvent), Len(es) = E,
         \A i \in 1 .. E : es[i].seq = N + i /\ es[i].author = c,
         NEW l1, NEW l2, r \in DOMAIN l1, r \in DOMAIN l2,
         Len(l1[r]) = N, Len(l2[r]) = N + E,
         \A n \in N + 1 .. N + E : l2[r][n] = c,
         NEW todo, NEW k, CallTodo(todo, r, es, k)
  PROVE  NewEvents(c, r, es, l1, l2, N, E, todo)
<1>1. ASSUME NEW i \in 1 .. E
      PROVE  /\ todo[i].msg = EventMessage(r, es[i]) /\ todo[i].to = es[i].to
             /\ todo[i].msg.type = "event" /\ todo[i].msg.room = r
             /\ todo[i].msg.seq = N + i /\ todo[i].msg.author = c
  <2>1. todo[i] = To(es[i].to, EventMessage(r, es[i]))
    BY DEF CallTodo
  <2>2. es[i].seq = N + i /\ es[i].author = c
    OBVIOUS
  <2>3. todo[i].msg = EventMessage(r, es[i]) /\ todo[i].to = es[i].to
    BY <2>1 DEF To
  <2> QED
    BY <2>2, <2>3 DEF EventMessage
<1>2. ASSUME NEW i \in DOMAIN todo, todo[i].msg.type = "event" PROVE i \in 1 .. E
  <2>1. i \in 1 .. E + k /\ k \in Nat /\ ~(i \in E + 1 .. E + k)
    BY <1>2 DEF CallTodo
  <2> QED
    BY <2>1
<1>3. TodoKnown(c, l2, todo)
  <2> SUFFICES ASSUME NEW i \in DOMAIN todo, todo[i].msg.type = "event"
               PROVE  /\ todo[i].msg.room \in DOMAIN l2
                      /\ todo[i].msg.seq \in 1 .. Len(l2[todo[i].msg.room])
                      /\ l2[todo[i].msg.room][todo[i].msg.seq] = todo[i].msg.author
                      /\ todo[i].msg.author = c
    BY DEF TodoKnown, Known
  <2>1. i \in 1 .. E
    BY <1>2
  <2>2. N + i \in 1 .. N + E /\ N + i \in N + 1 .. N + E
    BY <2>1
  <2> QED
    BY <1>1, <2>1, <2>2
<1>4. TodoRising(todo)
  <2> SUFFICES ASSUME NEW i \in DOMAIN todo, NEW j \in DOMAIN todo, i < j,
                      todo[i].msg.type = "event", todo[j].msg.type = "event"
               PROVE  todo[i].msg.seq < todo[j].msg.seq
    BY DEF TodoRising, SameSource
  <2>1. i \in 1 .. E /\ j \in 1 .. E
    BY <1>2
  <2>2. N + i < N + j
    BY <2>1
  <2> QED
    BY <1>1, <2>1, <2>2
<1>5. Fresh(l1, todo)
  <2> SUFFICES ASSUME NEW i \in DOMAIN todo, todo[i].msg.type = "event"
               PROVE  /\ todo[i].msg.room \in DOMAIN l1 /\ todo[i].msg.seq \in Nat
                      /\ Len(l1[todo[i].msg.room]) \in Nat
                      /\ todo[i].msg.seq > Len(l1[todo[i].msg.room])
    BY DEF Fresh
  <2>1. i \in 1 .. E
    BY <1>2
  <2>2. N + i \in Nat /\ N + i > N
    BY <2>1
  <2> QED
    BY <1>1, <2>1, <2>2
<1>6. ASSUME NEW n \in N + 1 .. N + E
      PROVE  /\ n - N \in DOMAIN todo /\ n - N \in 1 .. E
             /\ todo[n - N].to = es[n - N].to
             /\ IsEvent(todo[n - N].msg, r, n)
  <2>1. n - N \in 1 .. E /\ N + (n - N) = n
    OBVIOUS
  <2>2. n - N \in DOMAIN todo
    BY <2>1 DEF CallTodo
  <2> QED
    BY <1>1, <2>1, <2>2 DEF IsEvent
<1> QED
  BY <1>3, <1>4, <1>5, <1>6 DEF NewEvents

(* A handler calls the core for its client.                                *)
Called(c, r, o, k) ==
  /\ r \in DOMAIN rooms /\ IsOutcome(rooms[r], c, o) /\ Update(r, o)
  /\ run[c].todo = <<>>
  /\ CallTodo(run'[c].todo, r, o.events, k)
  /\ \A a \in Clients : a # c => run'[a] = run[a]
  /\ \A d \in Clients : SameEvents(Posted(d)', Posted(d))

(* The log after the call, and what is to be posted.                       *)
LEMMA CalledLog ==
  ASSUME SessionsInv, NEW c \in Clients, NEW r, NEW o, NEW k, Called(c, r, o, k)
  PROVE  /\ Grown(log', log)
         /\ \A x \in DOMAIN rooms : x # r => log'[x] = log[x]
         /\ TodoKnown(c, log', run'[c].todo)
         /\ TodoRising(run'[c].todo) /\ Fresh(log, run'[c].todo)
         /\ \E N, E \in Nat :
              /\ Len(log[r]) = N /\ Len(log'[r]) = N + E
              /\ \A n \in 1 .. N : log'[r][n] = log[r][n]
              /\ \A n \in N + 1 .. N + E :
                   /\ log'[r][n] = c
                   /\ n - N \in DOMAIN run'[c].todo
                   /\ run'[c].todo[n - N].to = rooms[r].members \ {c}
                   /\ IsEvent(run'[c].todo[n - N].msg, r, n)
<1>0. /\ CoreType /\ r \in DOMAIN rooms /\ IsOutcome(rooms[r], c, o) /\ Update(r, o)
      /\ CallTodo(run'[c].todo, r, o.events, k)
  BY DEF SessionsInv, Places, Called
<1>1. LogExtended(c, r, o)
  BY <1>0, UpdatedLog
<1>2. /\ DOMAIN log = DOMAIN rooms /\ log[r] \in Seq(Clients)
      /\ \A x \in DOMAIN log : log[x] \in Seq(Clients)
      /\ rooms[r].nextSeq = Len(log[r]) + 1
  BY <1>0 DEF CoreType
<1>3. PICK es \in Seq(RoomEvent) : es = o.events
  BY <1>0 DEF IsOutcome
<1>4. PICK N \in Nat, E \in Nat : N = Len(log[r]) /\ E = Len(es)
  BY <1>2, <1>3, LenProperties
<1>5. ASSUME NEW i \in 1 .. E
      PROVE  es[i].seq = N + i /\ es[i].author = c /\ es[i].to = rooms[r].members \ {c}
  <2>1. i \in DOMAIN o.events
    BY <1>3, <1>4, LenProperties
  <2>2. /\ es[i].seq = rooms[r].nextSeq + i - 1
        /\ es[i].author = c /\ es[i].to = rooms[r].members \ {c}
    BY <1>0, <1>3, <2>1 DEF IsOutcome
  <2>3. rooms[r].nextSeq = N + 1
    BY <1>2, <1>4
  <2>4. es[i].seq = N + i
    BY <2>2, <2>3
  <2> QED
    BY <2>2, <2>4
<1>6. /\ Len(log'[r]) = N + E /\ DOMAIN log' = DOMAIN log
      /\ \A n \in 1 .. N : log'[r][n] = log[r][n]
      /\ \A n \in N + 1 .. N + E : log'[r][n] = c
      /\ \A x \in DOMAIN rooms : x # r => log'[x] = log[x]
  BY <1>1, <1>3, <1>4 DEF LogExtended
<1>7. Grown(log', log)
  <2> SUFFICES ASSUME NEW x \in DOMAIN log
               PROVE  /\ Len(log[x]) \in Nat /\ Len(log'[x]) \in Nat
                      /\ Len(log[x]) <= Len(log'[x])
                      /\ \A n \in 1 .. Len(log[x]) : log'[x][n] = log[x][n]
    BY <1>6 DEF Grown
  <2>1. CASE x = r
    <3>1. N + E \in Nat /\ N <= N + E
      OBVIOUS
    <3> QED
      BY <1>4, <1>6, <2>1, <3>1
  <2>2. CASE x # r
    BY <1>2, <1>6, <2>2, LenProperties
  <2> QED
    BY <2>1, <2>2
<1>8. PICK t : t = run'[c].todo
  OBVIOUS
<1>9. /\ TodoKnown(c, log', t) /\ TodoRising(t) /\ Fresh(log, t)
      /\ \A n \in N + 1 .. N + E :
           /\ n - N \in DOMAIN t /\ n - N \in 1 .. E
           /\ t[n - N].to = es[n - N].to
           /\ IsEvent(t[n - N].msg, r, n)
  <2>1. CallTodo(t, r, es, k)
    BY <1>0, <1>3, <1>8
  <2>2. PICK l1, l2 : l1 = log /\ l2 = log'
    OBVIOUS
  <2>3. /\ r \in DOMAIN l1 /\ r \in DOMAIN l2 /\ Len(l1[r]) = N /\ Len(l2[r]) = N + E
        /\ \A n \in N + 1 .. N + E : l2[r][n] = c
    BY <1>0, <1>2, <1>4, <1>6, <2>2
  <2>4. \A i \in 1 .. E : es[i].seq = N + i /\ es[i].author = c
    BY <1>5
  <2>5. NewEvents(c, r, es, l1, l2, N, E, t)
    BY <1>4, <2>1, <2>3, <2>4, CallTodoOrder
  <2> QED
    BY <2>2, <2>5 DEF NewEvents
<1>10. \A n \in N + 1 .. N + E :
         /\ log'[r][n] = c
         /\ n - N \in DOMAIN run'[c].todo
         /\ run'[c].todo[n - N].to = rooms[r].members \ {c}
         /\ IsEvent(run'[c].todo[n - N].msg, r, n)
  BY <1>5, <1>6, <1>8, <1>9
<1> QED
  BY <1>4, <1>6, <1>7, <1>8, <1>9, <1>10

(* A call keeps the order.                                                 *)
LEMMA CalledOrder ==
  ASSUME SessionsInv, OrderInv, NEW c \in Clients, NEW r, NEW o, NEW k, Called(c, r, o, k)
  PROVE  OrderInv'
<1>1. /\ Grown(log', log) /\ TodoKnown(c, log', run'[c].todo)
      /\ TodoRising(run'[c].todo) /\ Fresh(log, run'[c].todo)
  BY CalledLog
<1>2. /\ \A d \in Clients : SameEvents(Posted(d)', Posted(d))
      /\ \A a \in Clients : a # c => run'[a].todo = run[a].todo
  BY DEF Called
<1> QED
  BY <1>1, <1>2, QuietOrder

-----------------------------------------------------------------------------
(* Which handlers call the core.                                           *)

(* A handler started, and it posts `todo'.                                 *)
LEMMA StartedHandler ==
  ASSUME SessionsInv, NEW c \in Clients, NEW h, Starts(c, h), h # "post",
         UNCHANGED <<sent, writeQueue>>, NEW todo, NEW end, Continue(c, todo, end)
  PROVE  /\ run[c].todo = <<>> /\ run'[c].todo = todo
         /\ \A a \in Clients : a # c => run'[a] = run[a]
         /\ \A d \in Clients : SameEvents(Posted(d)', Posted(d))
<1>1. SessionType /\ QueueType
  BY DEF SessionsInv, Tokens
<1>2. run[c].todo = <<>>
  BY DEF Starts, Idle
<1>3. run'[c].todo = todo /\ \A a \in Clients : a # c => run'[a] = run[a]
  BY <1>1 DEF Continue, QueueType
<1>4. \A d \in Clients : SameEvents(Posted(d)', Posted(d))
  BY StartedPosted
<1> QED
  BY <1>2, <1>3, <1>4

(* What it has to post if the call made the events es: ...                 *)
LEMMA DispatchedTodo ==
  ASSUME NEW r \in RoomIds, NEW es \in Seq(RoomEvent)
  PROVE  CallTodo(DispatchOutgoing(r, es), r, es, 0)
<1>1. PICK E \in Nat : E = Len(es)
  BY LenProperties
<1>2. PICK t \in Seq(Posting) : t = DispatchOutgoing(r, es)
  BY DispatchType
<1>3. Len(t) = E /\ \A i \in 1 .. E : t[i] = To(es[i].to, EventMessage(r, es[i]))
  BY <1>1, <1>2, DispatchType
<1>4. DOMAIN t = 1 .. E
  BY <1>3, LenProperties
<1>5. E + 0 = E /\ E + 1 .. E + 0 = {}
  OBVIOUS
<1>6. CallTodo(t, r, es, 0)
  BY <1>1, <1>3, <1>4, <1>5 DEF CallTodo
<1> QED
  BY <1>2, <1>6

(* ... and with an answer after them, ...                                  *)
LEMMA AnsweredTodo ==
  ASSUME NEW r \in RoomIds, NEW es \in Seq(RoomEvent), NEW c \in Clients,
         NEW m \in Message, m.type # "event"
  PROVE  CallTodo(DispatchOutgoing(r, es) \o <<To({c}, m)>>, r, es, 1)
<1>1. PICK E \in Nat : E = Len(es)
  BY LenProperties
<1>2. PICK t \in Seq(Posting) : t = DispatchOutgoing(r, es)
  BY DispatchType
<1>3. Len(t) = E /\ \A i \in 1 .. E : t[i] = To(es[i].to, EventMessage(r, es[i]))
  BY <1>1, <1>2, DispatchType
<1>4. PICK u \in Seq(Posting) : u = <<To({c}, m)>>
  <2>1. <<To({c}, m)>> \in Seq(Posting)
    BY AnswerType
  <2> QED
    BY <2>1, Zenon
<1>5. Len(u) = 1 /\ u[1].msg = m
  BY <1>4 DEF To
<1>6. PICK v \in Seq(Posting) : v = t \o u
  <2>1. t \o u \in Seq(Posting)
    BY ConcatProperties
  <2> QED
    BY <2>1, Zenon
<1>7. /\ Len(v) = E + 1
      /\ \A i \in 1 .. E + 1 : v[i] = IF i <= E THEN t[i] ELSE u[i - E]
  BY <1>3, <1>5, <1>6, ConcatProperties
<1>8. DOMAIN v = 1 .. E + 1
  BY <1>7, LenProperties
<1>9. \A i \in 1 .. E : v[i] = To(es[i].to, EventMessage(r, es[i]))
  BY <1>3, <1>7
<1>10. \A i \in E + 1 .. E + 1 : v[i].msg.type # "event"
  <2>1. v[E + 1].msg = m
    <3>1. E + 1 \in 1 .. E + 1 /\ ~(E + 1 <= E) /\ E + 1 - E = 1
      OBVIOUS
    <3>2. v[E + 1] = u[1]
      BY <1>7, <3>1
    <3> QED
      BY <1>5, <3>2
  <2>2. \A i \in E + 1 .. E + 1 : i = E + 1
    OBVIOUS
  <2> QED
    BY <2>1, <2>2
<1>11. CallTodo(v, r, es, 1)
  BY <1>1, <1>8, <1>9, <1>10 DEF CallTodo
<1> QED
  BY <1>2, <1>4, <1>6, <1>11

(* ... or an answer only.                                                  *)
LEMMA AnswerTodo ==
  ASSUME NEW r, NEW es \in Seq(RoomEvent), es = <<>>, NEW c, NEW m, m.type # "event"
  PROVE  CallTodo(<<To({c}, m)>>, r, es, 1)
<1>1. PICK t : t = <<To({c}, m)>>
  OBVIOUS
<1>2. DOMAIN t = 1 .. 0 + 1 /\ t[1].msg = m /\ \A i \in 1 .. 0 + 1 : i = 1
  BY <1>1 DEF To
<1>3. Len(es) = 0
  OBVIOUS
<1>4. CallTodo(t, r, es, 1)
  BY <1>2, <1>3 DEF CallTodo
<1> QED
  BY <1>1, <1>4

(* Only a call that is accepted makes events, and a join makes none.       *)
LEMMA QuietOutcome ==
  ASSUME NEW rm \in RoomType, NEW c \in Clients
  PROVE  /\ JoinCall(rm, c).events = <<>>
         /\ \A kind \in EventKinds : \A o \in ApplyCall(rm, c, kind) :
              o.err # "none" => o.events = <<>>
<1>1. JoinCall(rm, c).events = <<>>
  BY DEF JoinCall, Accepted, Events
<1>2. ASSUME NEW kind \in EventKinds, NEW o \in ApplyCall(rm, c, kind), o.err # "none"
      PROVE  o.events = <<>>
  BY <1>2 DEF ApplyCall, Refused, Accepted
<1> QED
  BY <1>1, <1>2

-----------------------------------------------------------------------------
(* The four handlers that call the core on a room.                         *)

LEMMA JoinCalled ==
  ASSUME SessionsInv, NEW c \in Clients, HandleJoinRoom(c)
  PROVE  \E r, o : Called(c, r, o, 1) /\ r = Req(c).room /\ o.events = <<>>
<1>0. Places /\ Tokens
  BY DEF SessionsInv
<1>1. PICK r \in DOMAIN rooms : r = Req(c).room
  BY DEF HandleJoinRoom
<1>2. PICK o : o = JoinCall(rooms[r], c)
  OBVIOUS
<1>3. PICK m : m = SnapshotOf(r)
  OBVIOUS
<1>4. /\ Update(r, o) /\ Continue(c, <<To({c}, m)>>, "read") /\ Starts(c, "read")
      /\ UNCHANGED <<sent, writeQueue>>
  BY <1>1, <1>2, <1>3 DEF HandleJoinRoom, Answer, StartsRequest, ioVars
<1>5. rooms[r] \in RoomType /\ rooms[r].drawing \subseteq rooms[r].members
  BY <1>0, RoomFacts
<1>6. IsOutcome(rooms[r], c, o) /\ o.events = <<>>
  BY <1>2, <1>5, JoinOutcome, QuietOutcome
<1>7. m.type # "event"
  BY <1>3 DEF SnapshotOf
<1>8. CallTodo(<<To({c}, m)>>, r, o.events, 1)
  <2>1. PICK es \in Seq(RoomEvent) : es = o.events /\ es = <<>>
    BY <1>6 DEF IsOutcome
  <2> QED
    BY <1>7, <2>1, AnswerTodo
<1>9. /\ run[c].todo = <<>> /\ run'[c].todo = <<To({c}, m)>>
      /\ \A a \in Clients : a # c => run'[a] = run[a]
      /\ \A d \in Clients : SameEvents(Posted(d)', Posted(d))
  BY <1>4, StartedHandler
<1>10. Called(c, r, o, 1)
  BY <1>4, <1>6, <1>8, <1>9 DEF Called
<1> QED
  BY <1>1, <1>6, <1>10

LEMMA LeaveCalled ==
  ASSUME SessionsInv, NEW c \in Clients, HandleLeaveRoom(c)
  PROVE  /\ \E r, o : Called(c, r, o, 1)
         /\ currentRoom' = [currentRoom EXCEPT ![c] = NoRoom]
<1>0. Places /\ Tokens
  BY DEF SessionsInv
<1>1. PICK r : r = Req(c).room
  OBVIOUS
<1>2. PICK o : o = LeaveCall(rooms[r], c)
  OBVIOUS
<1>3. o.err = "none"
  BY <1>0, <1>1, <1>2, LeavePlaces
<1>4. /\ currentRoom[c] = r /\ Update(r, o) /\ Starts(c, "read") /\ r \in RoomIds
      /\ Continue(c, DispatchOutgoing(r, o.events) \o <<To({c}, Reply("ok"))>>, "read")
      /\ currentRoom' = [currentRoom EXCEPT ![c] = NoRoom]
      /\ UNCHANGED <<sent, writeQueue>>
  BY <1>0, <1>1, <1>2, <1>3, RequestFields DEF HandleLeaveRoom, StartsRequest, ioVars
<1>5. r \in DOMAIN rooms
  BY <1>0, <1>4, SessionsAssumption DEF RoomIds, Places, RoomsExist
<1>6. IsOutcome(rooms[r], c, o)
  BY <1>0, <1>2, <1>5, RoomFacts, LeaveOutcome
<1>7. PICK es \in Seq(RoomEvent) : es = o.events
  BY <1>6 DEF IsOutcome
<1>8. PICK m \in Message : m = Reply("ok") /\ m.type # "event"
  <2>1. Reply("ok") \in Message /\ Reply("ok").type # "event"
    BY DEF Reply, Message
  <2> QED
    BY <2>1, Zenon
<1>9. PICK t : t = DispatchOutgoing(r, es) \o <<To({c}, m)>>
  OBVIOUS
<1>10. CallTodo(t, r, o.events, 1)
  BY <1>4, <1>7, <1>8, <1>9, AnsweredTodo
<1>11. Continue(c, t, "read")
  BY <1>4, <1>7, <1>8, <1>9
<1>12. /\ run[c].todo = <<>> /\ run'[c].todo = t
       /\ \A a \in Clients : a # c => run'[a] = run[a]
       /\ \A d \in Clients : SameEvents(Posted(d)', Posted(d))
  BY <1>4, <1>11, StartedHandler
<1>13. Called(c, r, o, 1)
  BY <1>4, <1>5, <1>6, <1>10, <1>12 DEF Called
<1> QED
  BY <1>4, <1>13

LEMMA EventCalled ==
  ASSUME SessionsInv, NEW c \in Clients, HandleEvent(c)
  PROVE  \E r, o, k : Called(c, r, o, k)
<1>0. Places /\ Tokens
  BY DEF SessionsInv
<1>1. PICK r, kind : r = Req(c).room /\ kind = Req(c).kind
  OBVIOUS
<1>2. PICK o \in ApplyCall(rooms[r], c, kind) :
        /\ Update(r, o)
        /\ Continue(c, IF o.err = "none" THEN DispatchOutgoing(r, o.events)
                                         ELSE <<To({c}, Reply("error"))>>, "read")
  BY <1>1 DEF HandleEvent
<1>3. /\ currentRoom[c] = r /\ r \in RoomIds /\ kind \in EventKinds
      /\ Starts(c, "read") /\ UNCHANGED <<sent, writeQueue>>
  BY <1>0, <1>1, RequestFields DEF HandleEvent, StartsRequest, ioVars
<1>4. r \in DOMAIN rooms
  BY <1>0, <1>3, SessionsAssumption DEF RoomIds, Places, RoomsExist
<1>5. rooms[r] \in RoomType /\ rooms[r].drawing \subseteq rooms[r].members
  BY <1>0, <1>4, RoomFacts
<1>6. IsOutcome(rooms[r], c, o)
  BY <1>3, <1>5, ApplyOutcome
<1>7. PICK es \in Seq(RoomEvent) : es = o.events
  BY <1>6 DEF IsOutcome
<1>8. PICK t, k : CallTodo(t, r, o.events, k) /\ Continue(c, t, "read")
  <2>1. CASE o.err = "none"
    <3>1. CallTodo(DispatchOutgoing(r, es), r, es, 0)
      BY <1>3, DispatchedTodo
    <3>2. Continue(c, DispatchOutgoing(r, es), "read")
      BY <1>2, <1>7, <2>1
    <3> QED
      BY <1>7, <3>1, <3>2
  <2>2. CASE o.err # "none"
    <3>1. es = <<>>
      BY <1>3, <1>5, <1>7, <2>2, QuietOutcome
    <3>2. PICK m : m = Reply("error") /\ m.type # "event"
      <4>1. Reply("error").type # "event"
        BY DEF Reply
      <4> QED
        BY <4>1, Zenon
    <3>3. CallTodo(<<To({c}, m)>>, r, es, 1)
      BY <3>1, <3>2, AnswerTodo
    <3>4. Continue(c, <<To({c}, m)>>, "read")
      BY <1>2, <2>2, <3>2
    <3> QED
      BY <1>7, <3>3, <3>4
  <2> QED
    BY <2>1, <2>2
<1>9. /\ run[c].todo = <<>> /\ run'[c].todo = t
      /\ \A a \in Clients : a # c => run'[a] = run[a]
      /\ \A d \in Clients : SameEvents(Posted(d)', Posted(d))
  BY <1>3, <1>8, StartedHandler
<1>10. Called(c, r, o, k)
  BY <1>2, <1>4, <1>6, <1>8, <1>9 DEF Called
<1> QED
  BY <1>10

LEMMA StopCalled ==
  ASSUME SessionsInv, NEW c \in Clients, StopImpl(c), currentRoom[c] # NoRoom
  PROVE  \E r, o : Called(c, r, o, 0)
<1>0. Places /\ Tokens
  BY DEF SessionsInv
<1>1. PICK r : r = currentRoom[c]
  OBVIOUS
<1>2. r \in DOMAIN rooms /\ r \in RoomIds
  BY <1>0, <1>1, RoomFacts DEF Places, RoomsExist
<1>3. PICK o : o = LeaveCall(rooms[r], c)
  OBVIOUS
<1>4. IsOutcome(rooms[r], c, o)
  BY <1>0, <1>2, <1>3, RoomFacts, LeaveOutcome
<1>5. PICK es \in Seq(RoomEvent) : es = o.events
  BY <1>4 DEF IsOutcome
<1>6. PICK t : t = DispatchOutgoing(r, es)
  OBVIOUS
<1>7. PICK h : Starts(c, h) /\ h # "post"
  BY DEF StopImpl
<1>8. Update(r, o) /\ Continue(c, t, "close") /\ UNCHANGED <<sent, writeQueue>>
  BY <1>1, <1>3, <1>5, <1>6 DEF StopImpl, ioVars
<1>9. CallTodo(t, r, o.events, 0)
  BY <1>2, <1>5, <1>6, DispatchedTodo
<1>10. /\ run[c].todo = <<>> /\ run'[c].todo = t
       /\ \A a \in Clients : a # c => run'[a] = run[a]
       /\ \A d \in Clients : SameEvents(Posted(d)', Posted(d))
  BY <1>7, <1>8, StartedHandler
<1>11. Called(c, r, o, 0)
  BY <1>2, <1>4, <1>8, <1>9, <1>10 DEF Called
<1> QED
  BY <1>11

-----------------------------------------------------------------------------
(* The other handlers post no event, and lose none.                        *)

(* Handlers keep what they have to post, or begin with an answer.          *)
QuietTodo ==
  \A a \in Clients :
    \/ run'[a].todo = run[a].todo
    \/ /\ run[a].todo = <<>>
       /\ \A k \in DOMAIN run'[a].todo : run'[a].todo[k].msg.type # "event"

(* The rooms that exist keep their logs.                                   *)
SameLogs == DOMAIN log \subseteq DOMAIN log' /\ \A r \in DOMAIN log : log'[r] = log[r]

Quiet ==
  SameLogs /\ QuietTodo /\ \A d \in Clients : SameEvents(Posted(d)', Posted(d))

LEMMA QuietKeepsOrder ==
  ASSUME SessionsInv, OrderInv, Quiet
  PROVE  OrderInv'
<1>1. Grown(log', log)
  <2>1. \A r \in DOMAIN log : Len(log[r]) \in Nat
    BY LenProperties DEF SessionsInv, Places, CoreType
  <2> QED
    BY <2>1 DEF Quiet, SameLogs, Grown
<1>2. ASSUME NEW a \in Clients
      PROVE  \/ run'[a].todo = run[a].todo
             \/ /\ TodoKnown(a, log', run'[a].todo)
                /\ TodoRising(run'[a].todo)
                /\ Fresh(log, run'[a].todo)
  BY DEF Quiet, QuietTodo, TodoKnown, Known, TodoRising, SameSource, Fresh
<1> QED
  BY <1>1, <1>2, QuietOrder DEF Quiet

(* The steps that are quiet.                                               *)
QuietStep(c) ==
  \/ OnAccept(c) \/ Disconnect(c)
  \/ \E req \in Request : ReadCompletes(c, req)
  \/ Network(c)
  \/ OnPosted(c) \/ OnWrite(c) \/ StopAgain(c) \/ Close(c) \/ ReadNext(c)
  \/ HandleInvalid(c) \/ HandlePing(c) \/ HandleCreateRoom(c) \/ HandleRefused(c)
  \/ StopImpl(c) /\ currentRoom[c] = NoRoom

LEMMA QuietSteps ==
  ASSUME SessionsInv, NEW c \in Clients, QuietStep(c)
  PROVE  Quiet
<1>0. SessionType /\ QueueType /\ Client(c)
  BY DEF SessionsInv, Tokens
<1>1. ASSUME UNCHANGED coreVars PROVE SameLogs
  BY <1>1 DEF SameLogs, coreVars
<1>2. ASSUME UNCHANGED run PROVE QuietTodo
  BY <1>2 DEF QuietTodo
<1>3. ASSUME UNCHANGED <<sent, writeQueue, strand>>
      PROVE  \A d \in Clients : SameEvents(Posted(d)', Posted(d))
  BY <1>0, <1>3, PostedFrame
<1>4. CASE OnAccept(c) \/ Disconnect(c)
  BY <1>1, <1>2, <1>3, <1>4 DEF OnAccept, Disconnect, Quiet, ioVars
<1>5. CASE (\E req \in Request : ReadCompletes(c, req)) \/ Network(c)
  <2>1. PICK x \in QueuedHandler : x.h # "post" /\ Queue(c, x)
    <3>1. CASE \E req \in Request : ReadCompletes(c, req)
      <4>1. PICK req \in Request : ReadCompletes(c, req)
        BY <3>1
      <4>2. [h |-> "read", req |-> req] \in QueuedHandler
        BY DEF QueuedHandler
      <4> QED
        BY <4>1, <4>2 DEF ReadCompletes
    <3>2. CASE Network(c)
      <4>1. \A h \in {"readError", "written", "writeError"} : [h |-> h] \in QueuedHandler
        BY DEF QueuedHandler
      <4> QED
        BY <3>2, <4>1 DEF Network, ReadFails, WriteCompletes, WriteFails
    <3> QED
      BY <1>5, <3>1, <3>2
  <2>2. UNCHANGED <<coreVars, run, sent, writeQueue>>
    BY <1>5 DEF ReadCompletes, Network, ReadFails, WriteCompletes, WriteFails
  <2>3. \A d \in Clients : SameEvents(Posted(d)', Posted(d))
    BY <2>1, <2>2, QueuedPosted
  <2> QED
    BY <1>1, <1>2, <2>2, <2>3 DEF Quiet
<1>6. CASE OnPosted(c) \/ OnWrite(c)
  <2>1. UNCHANGED <<coreVars, run>>
    BY <1>6 DEF OnPosted, OnWrite
  <2> QED
    BY <1>1, <1>2, <1>6, <2>1, WriterPosted DEF Quiet
<1>7. CASE StopAgain(c)
  <2>1. PICK h : Starts(c, h) /\ h # "post"
    BY <1>7 DEF StopAgain
  <2>2. UNCHANGED <<coreVars, run, sent, writeQueue>>
    BY <1>7 DEF StopAgain, ioVars
  <2> QED
    BY <1>1, <1>2, <2>1, <2>2, StartedPosted DEF Quiet
<1>8. CASE Close(c) \/ ReadNext(c)
  <2>1. run' = [run EXCEPT ![c] = Idle] /\ run[c].todo = <<>>
    BY <1>8 DEF Close, ReadNext
  <2>2. QuietTodo
    BY <1>0, <2>1 DEF QuietTodo, QueueType, Idle
  <2>3. UNCHANGED <<coreVars, sent, writeQueue, strand>>
    BY <1>8 DEF Close, ReadNext, ioVars
  <2> QED
    BY <1>1, <1>3, <2>2, <2>3 DEF Quiet
<1>9. CASE HandleInvalid(c) \/ HandlePing(c) \/ HandleCreateRoom(c) \/ HandleRefused(c)
  <2>1. PICK t \in {"error", "pong", "room_created"} : Answer(c, Reply(t))
    BY <1>9 DEF HandleInvalid, HandlePing, HandleCreateRoom, HandleRefused
  <2>2. Starts(c, "read") /\ UNCHANGED <<sent, writeQueue>>
    BY <1>9 DEF HandleInvalid, HandlePing, HandleCreateRoom, HandleRefused,
                StartsRequest, ioVars
  <2>3. PICK m, todo : m = Reply(t) /\ todo = <<To({c}, m)>>
    OBVIOUS
  <2>4. Continue(c, todo, "read")
    BY <2>1, <2>3 DEF Answer
  <2>5. /\ run[c].todo = <<>> /\ run'[c].todo = todo
        /\ \A a \in Clients : a # c => run'[a] = run[a]
        /\ \A d \in Clients : SameEvents(Posted(d)', Posted(d))
    BY <2>2, <2>4, StartedHandler
  <2>6. \A k \in DOMAIN todo : todo[k].msg.type # "event"
    <3>1. m.type # "event"
      BY <2>3 DEF Reply
    <3> QED
      BY <2>3, <3>1 DEF To
  <2>7. QuietTodo
    BY <2>5, <2>6 DEF QuietTodo
  <2>8. SameLogs
    <3>1. CASE HandleCreateRoom(c)
      <4>1. PICK n \in 0 .. MaxRooms : DOMAIN rooms = 1 .. n /\ DOMAIN log = 1 .. n
        BY DEF SessionsInv, Places, CoreType
      <4>2. Cardinality(DOMAIN rooms) = n
        <5>1. n \in Nat /\ Cardinality(1 .. n) = IF 1 > n THEN 0 ELSE n - 1 + 1
          BY FS_Interval, SessionsAssumption
        <5> QED
          BY <4>1, <5>1
      <4>3. PICK r : r = n + 1
        OBVIOUS
      <4>4. log' = [x \in DOMAIN log \cup {r} |-> IF x = r THEN <<>> ELSE log[x]]
        BY <3>1, <4>2, <4>3 DEF HandleCreateRoom
      <4>5. r \notin DOMAIN log
        BY <4>1, <4>3, SessionsAssumption
      <4> QED
        BY <4>4, <4>5 DEF SameLogs
    <3>2. CASE HandleInvalid(c) \/ HandlePing(c) \/ HandleRefused(c)
      BY <1>1, <3>2 DEF HandleInvalid, HandlePing, HandleRefused
    <3> QED
      BY <1>9, <3>1, <3>2
  <2> QED
    BY <2>5, <2>7, <2>8 DEF Quiet
<1>10. CASE StopImpl(c) /\ currentRoom[c] = NoRoom
  <2>1. PICK h : Starts(c, h) /\ h # "post"
    BY <1>10 DEF StopImpl
  <2>2. UNCHANGED <<coreVars, sent, writeQueue>> /\ Continue(c, <<>>, "close")
    BY <1>10 DEF StopImpl, ioVars
  <2>3. /\ run[c].todo = <<>> /\ run'[c].todo = <<>>
        /\ \A a \in Clients : a # c => run'[a] = run[a]
        /\ \A d \in Clients : SameEvents(Posted(d)', Posted(d))
    BY <2>1, <2>2, StartedHandler
  <2>4. QuietTodo
    BY <2>3 DEF QuietTodo
  <2> QED
    BY <1>1, <2>2, <2>3, <2>4 DEF Quiet
<1> QED
  BY <1>4, <1>5, <1>6, <1>7, <1>8, <1>9, <1>10 DEF QuietStep

(* A step is quiet, calls a room, or posts.                                *)
LEMMA StepKinds ==
  ASSUME Next
  PROVE  \E c \in Clients :
           \/ QuietStep(c)
           \/ StopImpl(c) /\ currentRoom[c] # NoRoom
           \/ HandleJoinRoom(c) \/ HandleLeaveRoom(c) \/ HandleEvent(c)
           \/ Post(c)
<1>1. PICK c \in Clients :
        \/ OnAccept(c) \/ Disconnect(c)
        \/ \E req \in Request : ReadCompletes(c, req)
        \/ Network(c)
        \/ Handler(c)
  BY DEF Next
<1> QED
  BY <1>1, Zenon DEF Handler, QuietStep

LEMMA InitOrder == Init => OrderInv
<1> SUFFICES ASSUME Init, NEW d \in Clients
             PROVE  /\ PostedKnown(log, Posted(d)) /\ Ordered(Posted(d))
                    /\ TodoKnown(d, log, run[d].todo) /\ TodoRising(run[d].todo)
                    /\ \A a \in Clients : PostedFirst(d, Posted(d), run[a].todo)
  BY DEF OrderInv
<1>1. QueueType
  BY InitSessionsInv DEF SessionsInv, Tokens
<1>2. sent[d] = <<>> /\ writeQueue[d] = <<>> /\ strand[d] = <<>>
      /\ \A a \in Clients : run[a].todo = <<>>
  BY DEF Init, Idle
<1>3. DOMAIN Posted(d) = {}
  <2>1. Posted(d) = Shown(<<>>, <<>>, <<>>)
    BY <1>1, <1>2, PostedShown
  <2>2. <<>> \in Seq(Message) /\ <<>> \in Seq(QueuedHandler) /\ Len(<<>>) = 0
    OBVIOUS
  <2>3. ShownAs(Shown(<<>>, <<>>, <<>>), <<>>, <<>>, <<>>, 0, 0, 0)
    BY <2>2, ShownAt
  <2>4. DOMAIN Posted(d) = 1 .. 0 + 0 + 0
    BY <2>1, <2>3 DEF ShownAs
  <2> QED
    BY <2>4
<1> QED
  BY <1>2, <1>3 DEF PostedKnown, Ordered, TodoKnown, TodoRising, PostedFirst

LEMMA NextOrder == SessionsInv /\ OrderInv /\ [Next]_vars => OrderInv'
<1> SUFFICES ASSUME SessionsInv, OrderInv, [Next]_vars PROVE OrderInv'
  OBVIOUS
<1>1. CASE UNCHANGED vars
  <2>1. \A d \in Clients : Posted(d)' = Posted(d)
    BY <1>1 DEF Posted, vars, ioVars
  <2> QED
    BY <1>1, <2>1 DEF OrderInv, vars, coreVars
<1>2. CASE Next
  <2>1. PICK c \in Clients :
          \/ QuietStep(c)
          \/ StopImpl(c) /\ currentRoom[c] # NoRoom
          \/ HandleJoinRoom(c) \/ HandleLeaveRoom(c) \/ HandleEvent(c)
          \/ Post(c)
    BY <1>2, StepKinds
  <2>2. CASE QuietStep(c)
    BY <2>2, QuietSteps, QuietKeepsOrder
  <2>3. CASE \/ StopImpl(c) /\ currentRoom[c] # NoRoom
             \/ HandleJoinRoom(c) \/ HandleLeaveRoom(c) \/ HandleEvent(c)
    <3>1. PICK r, o, k : Called(c, r, o, k)
      BY <2>3, StopCalled, JoinCalled, LeaveCalled, EventCalled
    <3> QED
      BY <3>1, CalledOrder
  <2>4. CASE Post(c)
    BY <2>4, PostOrder
  <2> QED
    BY <2>1, <2>2, <2>3, <2>4
<1> QED
  BY <1>1, <1>2

(* What is posted is in the order of its author, in every reachable state. *)
THEOREM OrderInvariant == Spec => []OrderInv
<1>1. SessionsInv /\ OrderInv /\ [Next]_vars => OrderInv'
  BY NextOrder
<1> QED
  BY <1>1, InitOrder, SessionsInvariant, PTL DEF Spec

(* The events a client is sent of one author, in one room, come in the     *)
(* order in which the room numbered them, and none twice: dispatchOutgoing *)
(* posts after the room's lock is released, and the order survives because *)
(* the handlers of one session never overlap.                              *)
THEOREM AuthorsCorrect == Spec => []AuthorOrder
<1>1. OrderInv => AuthorOrder
  BY DEF OrderInv, AuthorOrder, Ordered, SameSource
<1> QED
  BY <1>1, OrderInvariant, PTL

-----------------------------------------------------------------------------
(* No gap: what a member has been sent, or is being sent, stays so.        *)

(* Where an event may be: among what was posted to d, or in what a handler *)
(* has to post.                                                            *)
LEMMA ReachesKept ==
  ASSUME NEW d, NEW R, NEW n, NEW a, log[R][n] = a, log'[R][n] = a, Reaches(d, R, n),
         SameEvents(Posted(d)', Posted(d)),
         run'[a].todo = run[a].todo \/ run[a].todo = <<>>
  PROVE  Reaches(d, R, n)'
<1>1. PICK p, q, t, u :
        p = Posted(d) /\ q = Posted(d)' /\ t = run[a].todo /\ u = run'[a].todo
  OBVIOUS
<1>2. SameEvents(q, p) /\ (u = t \/ t = <<>>)
  BY <1>1
<1>3. \/ \E i \in DOMAIN p : IsEvent(p[i], R, n)
      \/ \E k \in DOMAIN t : d \in t[k].to /\ IsEvent(t[k].msg, R, n)
  BY <1>1 DEF Reaches
<1>4. \/ \E i \in DOMAIN q : IsEvent(q[i], R, n)
      \/ \E k \in DOMAIN u : d \in u[k].to /\ IsEvent(u[k].msg, R, n)
  BY <1>2, <1>3 DEF SameEvents, IsEvent
<1> QED
  BY <1>1, <1>4 DEF Reaches

(* The event n of the room R either was there before, and has not got      *)
(* lost, or is d's own, or is on its way.                                  *)
NotLost(d, R, n) ==
  \/ n <= Len(log[R]) /\ log'[R][n] = log[R][n] /\ (Reaches(d, R, n) => Reaches(d, R, n)')
  \/ log'[R][n] = d
  \/ Reaches(d, R, n)'

(* A member that stays misses nothing if no event gets lost.               *)
LEMMA CompleteKept ==
  ASSUME NEW d \in Clients, Complete(d), SessionsInv,
         currentRoom'[d] = currentRoom[d], since'[d] = since[d],
         session'[d] = "open" => session[d] = "open",
         NEW R, R = currentRoom[d],
         R # NoRoom /\ session[d] = "open" =>
           /\ Len(log'[R]) \in Nat
           /\ \A n \in 1 .. Len(log'[R]) : NotLost(d, R, n)
  PROVE  Complete(d)'
<1> SUFFICES ASSUME R # NoRoom
             PROVE  /\ since'[d] \in Nat \ {0}
                    /\ session'[d] = "open" =>
                         \A n \in since'[d] .. Len(log'[R]) :
                           log'[R][n] # d => Reaches(d, R, n)'
  BY DEF Complete
<1>1. since[d] \in Nat \ {0}
  BY DEF Complete
<1>2. PICK s \in Nat \ {0} : s = since[d] /\ s = since'[d]
  BY <1>1
<1> SUFFICES ASSUME session[d] = "open", NEW n \in s .. Len(log'[R]), log'[R][n] # d
             PROVE  Reaches(d, R, n)'
  BY <1>2
<1>3. PICK M \in Nat : M = Len(log'[R])
  OBVIOUS
<1>4. n \in 1 .. M /\ n \in Nat /\ s <= n
  BY <1>3
<1>5. NotLost(d, R, n)
  BY <1>3, <1>4
<1>6. ASSUME n <= Len(log[R]), log'[R][n] = log[R][n] PROVE Reaches(d, R, n)
  <2>1. R \in DOMAIN rooms
    BY DEF SessionsInv, Places, RoomsExist
  <2>2. PICK L \in Nat : L = Len(log[R])
    BY <2>1, RoomFacts, LenProperties DEF SessionsInv
  <2>3. n \in s .. L
    BY <1>4, <1>6, <2>2
  <2> QED
    BY <1>2, <1>6, <2>2, <2>3 DEF Complete
<1> QED
  BY <1>5, <1>6 DEF NotLost

(* The rooms that a member of one may be in.                               *)
LEMMA MemberFacts ==
  ASSUME SessionsInv, NEW d \in Clients, currentRoom[d] # NoRoom, NEW R, R = currentRoom[d]
  PROVE  /\ R \in DOMAIN rooms /\ R \in DOMAIN log /\ Len(log[R]) \in Nat
         /\ \A n \in 1 .. Len(log[R]) : log[R][n] \in Clients
         /\ session[d] = "open" => d \in rooms[R].members
<1>1. R \in DOMAIN rooms
  BY DEF SessionsInv, Places, RoomsExist
<1>2. R \in DOMAIN log /\ log[R] \in Seq(Clients)
  BY <1>1 DEF SessionsInv, Places, CoreType
<1>3. session[d] = "open" => d \in rooms[R].members
  BY <1>1 DEF SessionsInv, Places, RoomsAgree, Members
<1> QED
  BY <1>1, <1>2, <1>3, LenProperties

(* The sessions that a quiet step may change.                              *)
LEMMA QuietPlaces ==
  ASSUME SessionsInv, NEW c \in Clients, QuietStep(c), NEW d \in Clients
  PROVE  \/ currentRoom'[d] = NoRoom
         \/ /\ currentRoom'[d] = currentRoom[d] /\ since'[d] = since[d]
            /\ session'[d] = "open" => session[d] = "open"
<1>0. SessionType /\ PlaceType /\ RoomsExist
  BY DEF SessionsInv, Tokens, Places
<1>1. CASE OnAccept(c)
  <2>1. currentRoom' = currentRoom /\ since' = since /\ currentRoom[c] = NoRoom
        /\ session' = [session EXCEPT ![c] = "open"]
    BY <1>0, <1>1 DEF OnAccept, RoomsExist
  <2> QED
    BY <1>0, <2>1 DEF SessionType
<1>2. CASE Close(c)
  <2>1. /\ currentRoom' = [currentRoom EXCEPT ![c] = NoRoom] /\ since' = since
        /\ session' = [session EXCEPT ![c] = "closed"]
    BY <1>2 DEF Close
  <2> QED
    BY <1>0, <2>1 DEF SessionType, PlaceType
<1>3. CASE StopImpl(c) /\ currentRoom[c] = NoRoom
  <2>1. /\ currentRoom' = currentRoom /\ since' = since
        /\ session' = [session EXCEPT ![c] = "stopping"]
    BY <1>3 DEF StopImpl
  <2> QED
    BY <1>0, <2>1 DEF SessionType
<1>4. CASE \/ Disconnect(c)
           \/ \E req \in Request : ReadCompletes(c, req)
           \/ Network(c)
           \/ OnPosted(c) \/ OnWrite(c) \/ StopAgain(c) \/ ReadNext(c)
           \/ HandleInvalid(c) \/ HandlePing(c) \/ HandleCreateRoom(c) \/ HandleRefused(c)
  <2>1. UNCHANGED sessionVars
    BY <1>4 DEF Disconnect, ReadCompletes, Network, ReadFails, WriteCompletes, WriteFails,
                OnPosted, OnWrite, StopAgain, ReadNext,
                HandleInvalid, HandlePing, HandleCreateRoom, HandleRefused
  <2> QED
    BY <2>1 DEF sessionVars
<1> QED
  BY <1>1, <1>2, <1>3, <1>4 DEF QuietStep

LEMMA QuietKeepsGap ==
  ASSUME SessionsInv, GapInv, NEW c \in Clients, QuietStep(c)
  PROVE  GapInv'
<1> SUFFICES ASSUME NEW d \in Clients PROVE Complete(d)'
  BY DEF GapInv
<1>0. Quiet /\ Complete(d)
  BY QuietSteps DEF GapInv
<1>1. CASE currentRoom'[d] = NoRoom
  BY <1>1 DEF Complete
<1>2. CASE /\ currentRoom'[d] = currentRoom[d] /\ since'[d] = since[d]
           /\ session'[d] = "open" => session[d] = "open"
  <2>1. PICK R : R = currentRoom[d]
    OBVIOUS
  <2>2. ASSUME R # NoRoom
        PROVE  /\ Len(log'[R]) \in Nat
               /\ \A n \in 1 .. Len(log'[R]) : NotLost(d, R, n)
    <3>1. /\ R \in DOMAIN log /\ Len(log[R]) \in Nat
          /\ \A n \in 1 .. Len(log[R]) : log[R][n] \in Clients
      BY <2>1, <2>2, MemberFacts
    <3>2. log'[R] = log[R]
      BY <1>0, <3>1 DEF Quiet, SameLogs
    <3>3. ASSUME NEW n \in 1 .. Len(log[R]) PROVE NotLost(d, R, n)
      <4>1. PICK a \in Clients : a = log[R][n]
        BY <3>1
      <4>2. run'[a].todo = run[a].todo \/ run[a].todo = <<>>
        BY <1>0 DEF Quiet, QuietTodo
      <4>3. SameEvents(Posted(d)', Posted(d))
        BY <1>0 DEF Quiet
      <4>4. Reaches(d, R, n) => Reaches(d, R, n)'
        BY <3>2, <4>1, <4>2, <4>3, ReachesKept
      <4>5. n <= Len(log[R])
        BY <3>1
      <4> QED
        BY <3>2, <4>4, <4>5 DEF NotLost
    <3> QED
      BY <3>1, <3>2, <3>3
  <2> QED
    BY <1>0, <1>2, <2>1, <2>2, CompleteKept
<1> QED
  BY <1>1, <1>2, QuietPlaces

(* A call adds events that reach the other members.                        *)
LEMMA CalledNotLost ==
  ASSUME SessionsInv, NEW c \in Clients, NEW r, NEW o, NEW k, Called(c, r, o, k),
         NEW d \in Clients, NEW R, R = currentRoom[d], R # NoRoom, session[d] = "open"
  PROVE  /\ Len(log'[R]) \in Nat
         /\ \A n \in 1 .. Len(log'[R]) : NotLost(d, R, n)
<1>1. /\ R \in DOMAIN rooms /\ Len(log[R]) \in Nat /\ d \in rooms[R].members
      /\ \A n \in 1 .. Len(log[R]) : log[R][n] \in Clients
  BY MemberFacts
<1>2. ASSUME NEW n \in 1 .. Len(log[R]), log'[R][n] = log[R][n] PROVE NotLost(d, R, n)
  <2>1. PICK a \in Clients : a = log[R][n]
    BY <1>1
  <2>2. /\ run'[a].todo = run[a].todo \/ run[a].todo = <<>>
        /\ SameEvents(Posted(d)', Posted(d))
    BY DEF Called
  <2>3. Reaches(d, R, n) => Reaches(d, R, n)'
    BY <1>2, <2>1, <2>2, ReachesKept
  <2>4. n <= Len(log[R])
    BY <1>1
  <2> QED
    BY <1>2, <2>3, <2>4 DEF NotLost
<1>3. CASE R # r
  <2>1. log'[R] = log[R]
    BY <1>1, <1>3, CalledLog
  <2> QED
    BY <1>1, <1>2, <2>1
<1>4. CASE R = r
  <2>0. PICK N \in Nat, E \in Nat :
          /\ Len(log[r]) = N /\ Len(log'[r]) = N + E
          /\ \A n \in 1 .. N : log'[r][n] = log[r][n]
          /\ \A n \in N + 1 .. N + E :
               /\ log'[r][n] = c
               /\ n - N \in DOMAIN run'[c].todo
               /\ run'[c].todo[n - N].to = rooms[r].members \ {c}
               /\ IsEvent(run'[c].todo[n - N].msg, r, n)
    BY CalledLog
  <2>1. /\ Len(log[R]) = N /\ Len(log'[R]) = N + E
        /\ \A n \in 1 .. N : log'[R][n] = log[R][n]
        /\ \A n \in N + 1 .. N + E :
             /\ log'[R][n] = c
             /\ n - N \in DOMAIN run'[c].todo
             /\ run'[c].todo[n - N].to = rooms[R].members \ {c}
             /\ IsEvent(run'[c].todo[n - N].msg, R, n)
    BY <1>4, <2>0
  <2>2. ASSUME NEW n \in 1 .. N + E PROVE NotLost(d, R, n)
    <3>1. CASE n <= N
      <4>1. n \in 1 .. N
        BY <3>1
      <4> QED
        BY <1>2, <2>1, <4>1
    <3>2. CASE n > N /\ c = d
      <4>1. n \in N + 1 .. N + E
        BY <3>2
      <4> QED
        BY <2>1, <3>2, <4>1 DEF NotLost
    <3>3. CASE n > N /\ c # d
      <4>1. n \in N + 1 .. N + E
        BY <3>3
      <4>2. PICK j : j = n - N
        OBVIOUS
      <4>3. /\ log'[R][n] = c /\ j \in DOMAIN run'[c].todo
            /\ d \in run'[c].todo[j].to /\ IsEvent(run'[c].todo[j].msg, R, n)
        BY <1>1, <2>1, <3>3, <4>1, <4>2
      <4>4. Reaches(d, R, n)'
        BY <4>3 DEF Reaches
      <4> QED
        BY <4>4 DEF NotLost
    <3> QED
      BY <3>1, <3>2, <3>3
  <2> QED
    BY <2>1, <2>2
<1> QED
  BY <1>3, <1>4

(* The sessions that a call may change: its own joins a room, or leaves.   *)
LEMMA CalledPlaces ==
  ASSUME SessionsInv, NEW c \in Clients, NEW d \in Clients,
         \/ StopImpl(c) /\ currentRoom[c] # NoRoom
         \/ HandleJoinRoom(c) \/ HandleLeaveRoom(c) \/ HandleEvent(c)
  PROVE  \/ currentRoom'[d] = NoRoom
         \/ /\ currentRoom'[d] = currentRoom[d] /\ since'[d] = since[d]
            /\ session'[d] = "open" => session[d] = "open"
         \/ /\ HandleJoinRoom(c) /\ d = c /\ currentRoom'[c] = Req(c).room
            /\ since'[c] = rooms[Req(c).room].nextSeq
<1>0. SessionType /\ PlaceType
  BY DEF SessionsInv, Tokens, Places
<1>1. CASE StopImpl(c)
  <2>1. /\ currentRoom' = currentRoom /\ since' = since
        /\ session' = [session EXCEPT ![c] = "stopping"]
    BY <1>1 DEF StopImpl
  <2> QED
    BY <1>0, <2>1 DEF SessionType
<1>2. CASE HandleLeaveRoom(c)
  <2>1. /\ currentRoom' = [currentRoom EXCEPT ![c] = NoRoom]
        /\ since' = since /\ session' = session
    BY <1>2, LeaveCalled DEF HandleLeaveRoom
  <2> QED
    BY <1>0, <2>1 DEF PlaceType
<1>3. CASE HandleEvent(c)
  BY <1>3 DEF HandleEvent, sessionVars
<1>4. CASE HandleJoinRoom(c)
  <2>1. PICK r : r = Req(c).room
    OBVIOUS
  <2>2. /\ currentRoom' = [currentRoom EXCEPT ![c] = r] /\ session' = session
        /\ since' = IF currentRoom[c] = r THEN since
                    ELSE [since EXCEPT ![c] = rooms[r].nextSeq]
    BY <1>4, <2>1 DEF HandleJoinRoom
  <2> QED
    BY <1>0, <1>4, <2>1, <2>2 DEF PlaceType
<1> QED
  BY <1>1, <1>2, <1>3, <1>4

(* A client that joins has missed nothing: the snapshot holds all events   *)
(* before the one that since now names.                                    *)
LEMMA JoinedComplete ==
  ASSUME SessionsInv, NEW c \in Clients, HandleJoinRoom(c),
         currentRoom'[c] = Req(c).room, since'[c] = rooms[Req(c).room].nextSeq
  PROVE  Complete(c)'
<1>1. PICK r, o : Called(c, r, o, 1) /\ r = Req(c).room /\ o.events = <<>>
  BY JoinCalled
<1>2. Places /\ CoreType /\ r \in DOMAIN rooms /\ IsOutcome(rooms[r], c, o) /\ Update(r, o)
  BY <1>1 DEF Called, SessionsInv, Places
<1>3. LogExtended(c, r, o)
  BY <1>2, UpdatedLog
<1>4. PICK N \in Nat : N = Len(log[r])
  BY <1>2, RoomFacts, LenProperties
<1>5. Len(log'[r]) = N
  <2>1. Len(o.events) = 0
    BY <1>1
  <2> QED
    BY <1>3, <1>4, <2>1 DEF LogExtended
<1>6. rooms[r].nextSeq = N + 1
  BY <1>2, <1>4, RoomFacts
<1>7. since'[c] = N + 1 /\ currentRoom'[c] = r
  BY <1>1, <1>6
<1>8. N + 1 \in Nat \ {0} /\ N + 1 .. N = {}
  OBVIOUS
<1> QED
  BY <1>5, <1>7, <1>8 DEF Complete

LEMMA CalledKeepsGap ==
  ASSUME SessionsInv, GapInv, NEW c \in Clients,
         \/ StopImpl(c) /\ currentRoom[c] # NoRoom
         \/ HandleJoinRoom(c) \/ HandleLeaveRoom(c) \/ HandleEvent(c)
  PROVE  GapInv'
<1> SUFFICES ASSUME NEW d \in Clients PROVE Complete(d)'
  BY DEF GapInv
<1>0. Complete(d)
  BY DEF GapInv
<1>1. PICK r, o, k : Called(c, r, o, k)
  BY StopCalled, JoinCalled, LeaveCalled, EventCalled
<1>2. CASE currentRoom'[d] = NoRoom
  BY <1>2 DEF Complete
<1>3. CASE /\ currentRoom'[d] = currentRoom[d] /\ since'[d] = since[d]
           /\ session'[d] = "open" => session[d] = "open"
  <2>1. PICK R : R = currentRoom[d]
    OBVIOUS
  <2>2. R # NoRoom /\ session[d] = "open" =>
          /\ Len(log'[R]) \in Nat
          /\ \A n \in 1 .. Len(log'[R]) : NotLost(d, R, n)
    BY <1>1, <2>1, CalledNotLost
  <2> QED
    BY <1>0, <1>3, <2>1, <2>2, CompleteKept
<1>4. CASE /\ HandleJoinRoom(c) /\ d = c /\ currentRoom'[c] = Req(c).room
           /\ since'[c] = rooms[Req(c).room].nextSeq
  BY <1>4, JoinedComplete
<1> QED
  BY <1>2, <1>3, <1>4, CalledPlaces

(* Posting moves an event from the handler to the recipient's strand, and  *)
(* leaves the others where they were.                                      *)
LEMMA HeadReaches ==
  ASSUME NEW t1, NEW t2, NEW d, NEW n, NEW z, HeadPosted(t2, t1, d, n, z),
         NEW e, NEW R, NEW m,
         NEW k \in DOMAIN t1, e \in t1[k].to, IsEvent(t1[k].msg, R, m)
  PROVE  \/ k = 1 /\ e = d
         \/ \E j \in DOMAIN t2 : e \in t2[j].to /\ IsEvent(t2[j].msg, R, m)
<1>1. n \in Nat \ {0} /\ z \in {0, 1} /\ k \in 1 .. n
  BY DEF HeadPosted
<1>2. CASE k = 1 /\ e # d
  <2>1. z = 0
    BY <1>2 DEF HeadPosted
  <2>2. 1 \in 1 .. n - z /\ 1 + z = 1
    BY <1>1, <2>1
  <2>3. 1 \in DOMAIN t2 /\ t2[1].msg = t1[1].msg /\ t2[1].to = t1[1].to \ {d}
    BY <2>2 DEF HeadPosted
  <2> QED
    BY <1>2, <2>3
<1>3. CASE k # 1
  <2>1. k - z \in 1 .. n - z /\ k - z + z = k
    BY <1>1, <1>3
  <2>2. k - z \in DOMAIN t2 /\ t2[k - z].msg = t1[k].msg /\ t2[k - z].to = t1[k].to
    BY <1>3, <2>1 DEF HeadPosted
  <2> QED
    BY <2>2
<1> QED
  BY <1>2, <1>3

LEMMA PostKeepsGap ==
  ASSUME SessionsInv, GapInv, NEW c \in Clients, Post(c)
  PROVE  GapInv'
<1>0. QueueType
  BY DEF SessionsInv, Tokens
<1>1. PICK d \in Clients, n \in Nat, z \in {0, 1} : PostStep(c, d, n, z)
  BY PostSteps
<1>2. /\ HeadPosted(run'[c].todo, run[c].todo, d, n, z)
      /\ \A a \in Clients : a # c => run'[a] = run[a]
      /\ log' = log /\ sent' = sent /\ writeQueue' = writeQueue
      /\ session' = session /\ currentRoom' = currentRoom /\ since' = since
  BY <1>1 DEF PostStep, coreVars, ioVars, sessionVars
<1>3. PICK m : m = run[c].todo[1].msg
  OBVIOUS
<1>4. \/ /\ \A e \in Clients : Posted(e)' = Posted(e)
         /\ session[d] # "open" \/ run[c].todo[1].to = {}
      \/ /\ m \in AnyMessage /\ Posted(d)' = Append(Posted(d), m)
         /\ \A e \in Clients : e # d => Posted(e)' = Posted(e)
  <2>1. CASE strand' = strand /\ (session[d] # "open" \/ run[c].todo[1].to = {})
    BY <1>0, <1>2, <2>1, PostedFrame
  <2>2. CASE /\ Queue(d, [h |-> "post", msg |-> run[c].todo[1].msg])
             /\ [h |-> "post", msg |-> run[c].todo[1].msg] \in QueuedHandler
    <3>1. PICK x : x = [h |-> "post", msg |-> m]
      OBVIOUS
    <3>2. x \in QueuedHandler /\ Queue(d, x) /\ MessageOf(x) = m
      BY <1>3, <2>2, <3>1 DEF MessageOf
    <3>3. m \in AnyMessage
      BY <3>2, MessageOfType
    <3> QED
      BY <1>2, <3>2, <3>3, QueuedPosted
  <2> QED
    BY <1>1, <2>1, <2>2 DEF PostStep
<1>5. ASSUME NEW e \in Clients, NEW j \in DOMAIN Posted(e)
      PROVE  \E i \in DOMAIN Posted(e)' : Posted(e)'[i] = Posted(e)[j]
  <2>1. CASE Posted(e)' = Posted(e)
    BY <2>1
  <2>2. CASE m \in AnyMessage /\ e = d /\ Posted(d)' = Append(Posted(d), m)
    <3>1. Posted(d) \in Seq(AnyMessage)
      BY <1>0, PostedShown
    <3>2. PICK p, q : p \in Seq(AnyMessage) /\ p = Posted(d) /\ q = Posted(d)' /\ q = Append(p, m)
      BY <2>2, <3>1, Zenon
    <3>3. \A x \in DOMAIN p : \E i \in DOMAIN q : q[i] = p[x]
      BY <2>2, <3>2, AppendPosted
    <3> QED
      BY <2>2, <3>2, <3>3
  <2> QED
    BY <1>4, <2>1, <2>2
<1>6. ASSUME NEW e \in Clients, session[e] = "open", NEW R, NEW k,
             log[R][k] \in Clients, Reaches(e, R, k)
      PROVE  Reaches(e, R, k)'
  <2>1. PICK a \in Clients : a = log[R][k] /\ a = log'[R][k]
    BY <1>2, <1>6
  <2>2. CASE \E i \in DOMAIN Posted(e) : IsEvent(Posted(e)[i], R, k)
    <3>1. PICK j \in DOMAIN Posted(e) : IsEvent(Posted(e)[j], R, k)
      BY <2>2
    <3>2. PICK i \in DOMAIN Posted(e)' : Posted(e)'[i] = Posted(e)[j]
      BY <1>5
    <3> QED
      BY <3>1, <3>2 DEF Reaches
  <2>3. ASSUME NEW i \in DOMAIN run[a].todo, e \in run[a].todo[i].to,
               IsEvent(run[a].todo[i].msg, R, k)
        PROVE  Reaches(e, R, k)'
    <3>1. CASE a # c
      BY <1>2, <2>1, <2>3, <3>1 DEF Reaches
    <3>2. CASE a = c /\ i = 1 /\ e = d
      <4>1. m \in AnyMessage /\ Posted(d)' = Append(Posted(d), m)
        BY <1>4, <1>6, <2>3, <3>2
      <4>2. Posted(d) \in Seq(AnyMessage)
        BY <1>0, PostedShown
      <4>3. PICK p, q :
              p \in Seq(AnyMessage) /\ p = Posted(d) /\ q = Posted(d)' /\ q = Append(p, m)
        BY <4>1, <4>2, Zenon
      <4>4. \E x \in DOMAIN q : q[x] = m
        BY <4>1, <4>3, AppendPosted
      <4>5. IsEvent(m, R, k)
        BY <1>3, <2>3, <3>2
      <4> QED
        BY <3>2, <4>3, <4>4, <4>5 DEF Reaches
    <3>3. CASE a = c /\ ~(i = 1 /\ e = d)
      <4>1. PICK t1, t2 : t1 = run[c].todo /\ t2 = run'[c].todo
        OBVIOUS
      <4>2. \E j \in DOMAIN t2 : e \in t2[j].to /\ IsEvent(t2[j].msg, R, k)
        BY <1>2, <2>3, <3>3, <4>1, HeadReaches
      <4> QED
        BY <2>1, <3>3, <4>1, <4>2 DEF Reaches
    <3> QED
      BY <3>1, <3>2, <3>3
  <2> QED
    BY <1>6, <2>1, <2>2, <2>3 DEF Reaches
<1> SUFFICES ASSUME NEW e \in Clients PROVE Complete(e)'
  BY DEF GapInv
<1>7. Complete(e)
  BY DEF GapInv
<1>8. PICK R : R = currentRoom[e]
  OBVIOUS
<1>9. ASSUME R # NoRoom, session[e] = "open"
      PROVE  /\ Len(log'[R]) \in Nat
             /\ \A k \in 1 .. Len(log'[R]) : NotLost(e, R, k)
  <2>1. PICK L \in Nat : L = Len(log[R]) /\ \A k \in 1 .. L : log[R][k] \in Clients
    BY <1>8, <1>9, MemberFacts
  <2>2. ASSUME NEW k \in 1 .. L PROVE NotLost(e, R, k)
    <3>1. Reaches(e, R, k) => Reaches(e, R, k)'
      BY <1>6, <1>9, <2>1
    <3>2. k <= Len(log[R])
      BY <2>1
    <3> QED
      BY <1>2, <3>1, <3>2 DEF NotLost
  <2> QED
    BY <1>2, <2>1, <2>2
<1> QED
  BY <1>2, <1>7, <1>8, <1>9, CompleteKept

LEMMA NextGap == SessionsInv /\ GapInv /\ [Next]_vars => GapInv'
<1> SUFFICES ASSUME SessionsInv, GapInv, [Next]_vars PROVE GapInv'
  OBVIOUS
<1>1. CASE UNCHANGED vars
  <2>1. \A d \in Clients : Posted(d)' = Posted(d)
    BY <1>1 DEF Posted, vars, ioVars
  <2>2. /\ log' = log /\ run' = run /\ session' = session
        /\ currentRoom' = currentRoom /\ since' = since
    BY <1>1 DEF vars, coreVars, sessionVars
  <2> QED
    BY <2>1, <2>2 DEF GapInv, Complete, Reaches
<1>2. CASE Next
  <2>1. PICK c \in Clients :
          \/ QuietStep(c)
          \/ StopImpl(c) /\ currentRoom[c] # NoRoom
          \/ HandleJoinRoom(c) \/ HandleLeaveRoom(c) \/ HandleEvent(c)
          \/ Post(c)
    BY <1>2, StepKinds
  <2>2. CASE QuietStep(c)
    BY <2>2, QuietKeepsGap
  <2>3. CASE \/ StopImpl(c) /\ currentRoom[c] # NoRoom
             \/ HandleJoinRoom(c) \/ HandleLeaveRoom(c) \/ HandleEvent(c)
    BY <2>3, CalledKeepsGap
  <2>4. CASE Post(c)
    BY <2>4, PostKeepsGap
  <2> QED
    BY <2>1, <2>2, <2>3, <2>4
<1> QED
  BY <1>1, <1>2

(* Every event of the others reaches a member, in every reachable state.   *)
THEOREM GapInvariant == Spec => []GapInv
<1>1. Init => GapInv
  BY DEF Init, GapInv, Complete
<1>2. SessionsInv /\ GapInv /\ [Next]_vars => GapInv'
  BY NextGap
<1> QED
  BY <1>1, <1>2, SessionsInvariant, PTL DEF Spec

(* It reaches it once: the places where an event may be, counted.          *)
InPosted(d, R, n) == {i \in DOMAIN Posted(d) : IsEvent(Posted(d)[i], R, n)}

InTodo(c, d, R, n) ==
  {k \in DOMAIN run[c].todo : d \in run[c].todo[k].to /\ IsEvent(run[c].todo[k].msg, R, n)}

LEMMA AtMostOne ==
  ASSUME SessionsInv, OrderInv, NEW d \in Clients, NEW R, NEW n \in Int
  PROVE  /\ \A i, j \in InPosted(d, R, n) : i = j
         /\ \A c \in Clients : \A j, k \in InTodo(c, d, R, n) : j = k
         /\ \A c \in Clients : InTodo(c, d, R, n) # {} => /\ c = log[R][n]
                                                          /\ InPosted(d, R, n) = {}
<1>0. QueueType
  BY DEF SessionsInv, Tokens
<1>1. PICK p \in Seq(AnyMessage) : p = Posted(d)
  <2>1. Posted(d) \in Seq(AnyMessage)
    BY <1>0, PostedShown
  <2> QED
    BY <2>1, Zenon
<1>2. PostedKnown(log, p) /\ Ordered(p)
  BY <1>1 DEF OrderInv
<1>3. \A i \in InPosted(d, R, n) :
        /\ i \in DOMAIN p /\ i \in Int /\ p[i].type = "event"
        /\ p[i].room = R /\ p[i].seq = n /\ p[i].author = log[R][n]
  <2>1. \A i \in InPosted(d, R, n) :
          /\ i \in DOMAIN p /\ p[i].type = "event" /\ p[i].room = R /\ p[i].seq = n
    BY <1>1 DEF InPosted, IsEvent
  <2>2. \A i \in DOMAIN p : i \in Int
    BY LenProperties
  <2> QED
    BY <1>2, <2>1, <2>2 DEF PostedKnown, Known
<1>4. ASSUME NEW i \in InPosted(d, R, n), NEW j \in InPosted(d, R, n) PROVE i = j
  <2>1. ASSUME NEW x \in InPosted(d, R, n), NEW y \in InPosted(d, R, n), x < y PROVE FALSE
    <3>1. SameSource(p[x], p[y])
      BY <1>3 DEF SameSource
    <3>2. p[x].seq < p[y].seq
      BY <1>2, <1>3, <2>1, <3>1 DEF Ordered
    <3>3. n < n
      BY <1>3, <3>2
    <3> QED
      BY <3>3
  <2>2. i \in Int /\ j \in Int
    BY <1>3
  <2>3. ~(i < j) /\ ~(j < i)
    BY <2>1
  <2> QED
    BY <2>2, <2>3
<1>5. ASSUME NEW c \in Clients, NEW k \in InTodo(c, d, R, n)
      PROVE  /\ k \in DOMAIN run[c].todo /\ k \in Int /\ d \in run[c].todo[k].to
             /\ run[c].todo[k].msg.type = "event" /\ run[c].todo[k].msg.room = R
             /\ run[c].todo[k].msg.seq = n /\ run[c].todo[k].msg.author = c
             /\ c = log[R][n]
  <2>1. /\ k \in DOMAIN run[c].todo /\ d \in run[c].todo[k].to
        /\ run[c].todo[k].msg.type = "event" /\ run[c].todo[k].msg.room = R
        /\ run[c].todo[k].msg.seq = n
    BY <1>5 DEF InTodo, IsEvent
  <2>2. TodoKnown(c, log, run[c].todo)
    BY DEF OrderInv
  <2>3. run[c].todo[k].msg.author = c /\ c = log[R][n]
    BY <2>1, <2>2 DEF TodoKnown, Known
  <2>4. k \in Int
    <3>1. run[c].todo \in Seq(Posting)
      BY <1>0 DEF QueueType
    <3> QED
      BY <2>1, <3>1, LenProperties
  <2> QED
    BY <2>1, <2>3, <2>4
<1>6. ASSUME NEW c \in Clients, NEW j \in InTodo(c, d, R, n), NEW k \in InTodo(c, d, R, n)
      PROVE  j = k
  <2>1. ASSUME NEW x \in InTodo(c, d, R, n), NEW y \in InTodo(c, d, R, n), x < y PROVE FALSE
    <3>1. SameSource(run[c].todo[x].msg, run[c].todo[y].msg)
      BY <1>5 DEF SameSource
    <3>2. TodoRising(run[c].todo)
      BY DEF OrderInv
    <3>3. run[c].todo[x].msg.seq < run[c].todo[y].msg.seq
      BY <1>5, <2>1, <3>1, <3>2 DEF TodoRising
    <3>4. n < n
      BY <1>5, <3>3
    <3> QED
      BY <3>4
  <2>2. j \in Int /\ k \in Int
    BY <1>5
  <2>3. ~(j < k) /\ ~(k < j)
    BY <2>1
  <2> QED
    BY <2>2, <2>3
<1>7. ASSUME NEW c \in Clients, NEW k \in InTodo(c, d, R, n), NEW i \in InPosted(d, R, n)
      PROVE  FALSE
  <2>1. SameSource(p[i], run[c].todo[k].msg)
    BY <1>3, <1>5 DEF SameSource
  <2>2. PostedFirst(d, p, run[c].todo)
    BY <1>1 DEF OrderInv
  <2>3. p[i].seq < run[c].todo[k].msg.seq
    BY <1>3, <1>5, <2>1, <2>2 DEF PostedFirst
  <2>4. n < n
    BY <1>3, <1>5, <2>3
  <2> QED
    BY <2>4
<1> QED
  BY <1>4, <1>5, <1>6, <1>7

LEMMA CountedOnce ==
  ASSUME SessionsInv, OrderInv, NEW d \in Clients, NEW R, NEW n \in Int,
         log[R][n] \in Clients, Reaches(d, R, n)
  PROVE  OnTheWay(d, R, n) = 1
<1> DEFINE S == InPosted(d, R, n)
           T(c) == InTodo(c, d, R, n)
           A == {c \in Clients : Cardinality(T(c)) = 1}
           B == {c \in Clients : Cardinality(T(c)) > 1}
<1>1. OnTheWay(d, R, n) = Cardinality(S) + Cardinality(A) + 2 * Cardinality(B)
  BY DEF OnTheWay, Count, InPosted, InTodo, IsEvent
<1>2. PICK a \in Clients : a = log[R][n]
  OBVIOUS
<1>3. /\ \A i, j \in S : i = j
      /\ \A c \in Clients : \A j, k \in T(c) : j = k
      /\ \A c \in Clients : T(c) # {} => c = a /\ S = {}
  BY <1>2, AtMostOne
<1>4. S # {} \/ T(a) # {}
  BY <1>2 DEF Reaches, InPosted, InTodo
<1> HIDE DEF S, T
<1>5. \A x : Cardinality({x}) = 1
  BY FS_Singleton
<1>6. Cardinality({}) = 0
  BY FS_EmptySet
<1>7. CASE S # {}
  <2>1. PICK x : S = {x}
    BY <1>3, <1>7
  <2>2. \A c \in Clients : T(c) = {}
    BY <1>3, <1>7
  <2>3. A = {} /\ B = {}
    BY <1>6, <2>2
  <2>4. Cardinality(S) = 1 /\ Cardinality(A) = 0 /\ Cardinality(B) = 0
    BY <1>5, <1>6, <2>1, <2>3
  <2> QED
    BY <1>1, <2>4
<1>8. CASE S = {}
  <2>1. PICK x : T(a) = {x}
    BY <1>3, <1>4, <1>8
  <2>2. \A c \in Clients : c # a => T(c) = {}
    BY <1>3
  <2>3. Cardinality(T(a)) = 1 /\ \A c \in Clients : c # a => Cardinality(T(c)) = 0
    BY <1>5, <1>6, <2>1, <2>2
  <2>4. A = {a} /\ B = {}
    BY <2>3
  <2>5. Cardinality(S) = 0 /\ Cardinality(A) = 1 /\ Cardinality(B) = 0
    BY <1>5, <1>6, <1>8, <2>4
  <2> QED
    BY <1>1, <2>5
<1> QED
  BY <1>7, <1>8

(* A member whose session is open has been sent, or is being sent, exactly *)
(* once every event of the others since it joined, whatever the rooms, the *)
(* other sessions and their connections do meanwhile.                      *)
THEOREM GapsCorrect == Spec => []NoGap
<1>1. SessionsInv /\ OrderInv /\ GapInv => NoGap
  <2> SUFFICES ASSUME SessionsInv, OrderInv, GapInv, NEW d \in Clients,
                      session[d] = "open", currentRoom[d] # NoRoom,
                      NEW n \in since[d] .. Len(log[currentRoom[d]]),
                      log[currentRoom[d]][n] # d
               PROVE  OnTheWay(d, currentRoom[d], n) = 1
    BY DEF NoGap
  <2>1. PICK R : R = currentRoom[d]
    OBVIOUS
  <2>2. Complete(d)
    BY DEF GapInv
  <2>3. Reaches(d, R, n)
    BY <2>1, <2>2 DEF Complete
  <2>4. PICK s \in Nat \ {0} : s = since[d]
    BY <2>2 DEF Complete
  <2>5. PICK L \in Nat : L = Len(log[R]) /\ \A k \in 1 .. L : log[R][k] \in Clients
    BY <2>1, MemberFacts
  <2>6. n \in 1 .. L /\ n \in Int
    BY <2>1, <2>4, <2>5
  <2>7. log[R][n] \in Clients
    BY <2>5, <2>6
  <2>8. OnTheWay(d, R, n) = 1
    BY <2>3, <2>6, <2>7, CountedOnce
  <2> QED
    BY <2>1, <2>8
<1> QED
  BY <1>1, SessionsInvariant, OrderInvariant, GapInvariant, PTL

=============================================================================
