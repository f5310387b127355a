--------------------------- MODULE ObserversProofs ---------------------------
(***************************************************************************)
(* What the two observers of a run show, for any number of events, clients,*)
(* nodes' calls and lost writes.                                           *)
(*                                                                         *)
(* EventStream: a queue holds the newest of what was put on it, and a      *)
(* connection delivers a run's events in their order.                      *)
(*                                                                         *)
(* Observability: the handler remembers what is in progress and nothing    *)
(* else, and the log has each span once with the tokens of its own calls.  *)
(***************************************************************************)
EXTENDS EventStream, Observability, SequenceTheorems, FiniteSetTheorems,
        WellFoundedInduction, TLAPS

-----------------------------------------------------------------------------
(* EventStream                                                             *)

LEMMA InitStream == Init => StreamInv
<1> SUFFICES ASSUME Init PROVE StreamInv
  OBVIOUS
<1>1. TypeOK
  BY BoundsAssumption DEF Init, TypeOK, Stages, Connections, Connection, Segs, Events
<1>2. \A s \in Segs : queues[s] = <<>> /\ emitted[s] = 0
  BY DEF Init
<1>3. \A s \in Segs : ~Ended(s) /\ EventsIn(s) = 0 /\ EndIsLast(s)
  BY <1>2 DEF Ended, EventsIn, EndIsLast
<1>4. \A s \in Segs : PutSoFar(s) = 0
  <2>1. 0 \notin Segs
    BY BoundsAssumption DEF Segs
  <2> QED BY <1>2, <2>1 DEF Init, PutSoFar
<1>5. QueueIsNewest
  BY <1>2, <1>3, <1>4, CapAssumption DEF QueueIsNewest
<1>6. CallsInOrder
  BY DEF Init, CallsInOrder
<1>7. \A c \in Readers : ReaderIsBehind(c)
  BY DEF Init, ReaderIsBehind, Connection
<1> QED
  BY <1>1, <1>2, <1>3, <1>4, <1>5, <1>6, <1>7 DEF Init, StreamInv, Unopened

\* What can be put on a queue, and what putting it does.
Items == Events \cup {End}

LEMMA PutQueue ==
  ASSUME NEW q \in Seq(Items), NEW x \in Items, Len(q) <= Cap
  PROVE  LET r == PutDroppingOldest(q, x)
             d == IF Len(q) < Cap THEN 0 ELSE 1
         IN  /\ r \in Seq(Items)
             /\ Len(r) = Len(q) + 1 - d /\ Len(r) <= Cap /\ Len(r) >= 1
             /\ \A i \in 1..(Len(r) - 1) : r[i] = q[i + d]
             /\ r[Len(r)] = x
<1>1. CASE Len(q) < Cap
  <2>1. PutDroppingOldest(q, x) = Append(q, x)
    BY <1>1 DEF PutDroppingOldest
  <2> QED BY <1>1, <2>1, CapAssumption
<1>2. CASE ~(Len(q) < Cap)
  <2>1. PutDroppingOldest(q, x) = Append(Tail(q), x) /\ Len(q) = Cap /\ q # <<>>
    BY <1>2, CapAssumption DEF PutDroppingOldest
  <2>2. /\ Tail(q) \in Seq(Items) /\ Len(Tail(q)) = Len(q) - 1
        /\ \A i \in 1..(Len(q) - 1) : Tail(q)[i] = q[i + 1]
    BY <2>1, HeadTailProperties
  <2> QED BY <1>2, <2>1, <2>2, CapAssumption
<1> QED BY <1>1, <1>2

\* An event on a queue without the sentinel.
LEMMA PutEvent ==
  ASSUME TypeOK, NEW s \in Segs, NEW x \in Events,
         Len(queues[s]) <= Cap, \A i \in DOMAIN queues[s] : queues[s][i] # End,
         queues' = [queues EXCEPT ![s] = PutDroppingOldest(@, x)],
         NEW n \in Nat, x = n + 1, EventsIn(s) <= n,
         \A i \in 1..EventsIn(s) : queues[s][i] = n - EventsIn(s) + i
  PROVE  /\ queues'[s] \in Seq(Items) /\ Len(queues'[s]) <= Cap
         /\ \A i \in DOMAIN queues'[s] : queues'[s][i] # End
         /\ EventsIn(s)' <= n + 1
         /\ \A i \in 1..EventsIn(s)' : queues'[s][i] = (n + 1) - EventsIn(s)' + i
         /\ n - EventsIn(s) <= (n + 1) - EventsIn(s)'
<1> DEFINE q == queues[s]
           r == queues'[s]
           d == IF Len(q) < Cap THEN 0 ELSE 1
<1>1. q \in Seq(Items) /\ x \in Items /\ x # End /\ Len(q) \in Nat
  BY BoundsAssumption DEF TypeOK, Items, Events, End
<1>2. r = PutDroppingOldest(q, x)
  BY DEF TypeOK
<1>3. EventsIn(s) = Len(q)
  BY <1>1 DEF EventsIn, Ended, Last
<1>4. /\ r \in Seq(Items)
      /\ Len(r) = Len(q) + 1 - d /\ Len(r) <= Cap /\ Len(r) >= 1
      /\ \A i \in 1..(Len(r) - 1) : r[i] = q[i + d]
      /\ r[Len(r)] = x
  <2> HIDE DEF q, r
  <2> QED BY <1>1, <1>2, PutQueue, SMTT(40) DEF q
<1>5. \A i \in DOMAIN q : q[i] # End
  OBVIOUS
<1>6. \A i \in 1..Len(q) : q[i] = n - Len(q) + i
  BY <1>3
<1>7. EventsIn(s)' = IF r # <<>> /\ r[Len(r)] = End THEN Len(r) - 1 ELSE Len(r)
  BY DEF EventsIn, Ended, Last
<1> HIDE DEF q, r
<1>8. ASSUME NEW i \in 1..Len(r) PROVE r[i] = (n + 1) - Len(r) + i /\ r[i] # End
  <2>1. CASE i = Len(r)
    BY <1>1, <1>4, <2>1
  <2>2. CASE i # Len(r)
    <3>1. i \in 1..(Len(r) - 1) /\ i + d \in 1..Len(q)
      BY <1>1, <1>4, <2>2
    <3>2. r[i] = q[i + d] /\ q[i + d] = n - Len(q) + (i + d) /\ q[i + d] # End
      BY <1>1, <1>4, <1>5, <1>6, <3>1, SMTT(40)
    <3> QED BY <1>1, <1>4, <3>2
  <2> QED BY <2>1, <2>2
<1>9. EventsIn(s)' = Len(r)
  BY <1>1, <1>4, <1>7
<1>10. Len(r) <= n + 1 /\ n - Len(q) <= (n + 1) - Len(r)
  BY <1>1, <1>3, <1>4
<1>11. \A i \in DOMAIN r : r[i] # End
  BY <1>4, <1>8
<1>12. \A i \in 1..EventsIn(s)' : r[i] = (n + 1) - EventsIn(s)' + i
  BY <1>8, <1>9
<1>13. EventsIn(s)' <= n + 1 /\ n - EventsIn(s) <= (n + 1) - EventsIn(s)'
  BY <1>3, <1>9, <1>10
<1> QED
  BY <1>4, <1>11, <1>12, <1>13 DEF r
\* The sentinel on a queue without one.
LEMMA PutSentinel ==
  ASSUME TypeOK, NEW s \in Segs,
         Len(queues[s]) <= Cap, \A i \in DOMAIN queues[s] : queues[s][i] # End,
         queues' = [queues EXCEPT ![s] = PutDroppingOldest(@, End)],
         NEW n \in Nat, EventsIn(s) <= n,
         \A i \in 1..EventsIn(s) : queues[s][i] = n - EventsIn(s) + i
  PROVE  /\ queues'[s] \in Seq(Items) /\ Len(queues'[s]) <= Cap
         /\ \A i \in DOMAIN queues'[s] : queues'[s][i] = End => i = Len(queues'[s])
         /\ EventsIn(s)' <= EventsIn(s)
         /\ \A i \in 1..EventsIn(s)' : queues'[s][i] = n - EventsIn(s)' + i
<1> DEFINE q == queues[s]
           r == queues'[s]
           d == IF Len(q) < Cap THEN 0 ELSE 1
<1>1. q \in Seq(Items) /\ End \in Items /\ Len(q) \in Nat
  BY DEF TypeOK, Items
<1>2. r = PutDroppingOldest(q, End)
  BY DEF TypeOK
<1>3. EventsIn(s) = Len(q)
  BY <1>1 DEF EventsIn, Ended, Last
<1>4. /\ r \in Seq(Items)
      /\ Len(r) = Len(q) + 1 - d /\ Len(r) <= Cap /\ Len(r) >= 1
      /\ \A i \in 1..(Len(r) - 1) : r[i] = q[i + d]
      /\ r[Len(r)] = End
  <2> HIDE DEF q, r
  <2> QED BY <1>1, <1>2, PutQueue DEF q
<1>5. \A i \in DOMAIN q : q[i] # End
  OBVIOUS
<1>6. \A i \in 1..Len(q) : q[i] = n - Len(q) + i
  BY <1>3
<1>7. EventsIn(s)' = IF r # <<>> /\ r[Len(r)] = End THEN Len(r) - 1 ELSE Len(r)
  BY DEF EventsIn, Ended, Last
<1> HIDE DEF q, r
<1>8. ASSUME NEW i \in 1..(Len(r) - 1) PROVE r[i] = n - (Len(r) - 1) + i /\ r[i] # End
  <2>1. i + d \in 1..Len(q)
    BY <1>1, <1>4
  <2>2. r[i] = q[i + d] /\ q[i + d] = n - Len(q) + (i + d) /\ q[i + d] # End
    BY <1>1, <1>4, <1>5, <1>6, <2>1
  <2>3. n - Len(q) + (i + d) = n - (Len(r) - 1) + i
    BY <1>1, <1>4
  <2> QED BY <2>2, <2>3
<1>9. EventsIn(s)' = Len(r) - 1
  <2>1. r # <<>>
    BY <1>4
  <2> QED BY <1>4, <1>7, <2>1
<1>10. \A i \in DOMAIN r : r[i] = End => i = Len(r)
  <2>1. DOMAIN r = 1..Len(r) /\ Len(r) \in Nat
    BY <1>4
  <2>2. \A m \in Nat : \A i \in 1..m : i \in 1..(m - 1) \/ i = m
    OBVIOUS
  <2> QED BY <1>8, <2>1, <2>2
<1>11. \A i \in 1..EventsIn(s)' : r[i] = n - EventsIn(s)' + i
  BY <1>8, <1>9
<1>12. EventsIn(s)' <= EventsIn(s)
  BY <1>1, <1>3, <1>4, <1>9
<1> QED
  BY <1>4, <1>10, <1>11, <1>12 DEF r

\* The oldest item leaves a queue.
LEMMA PopQueue ==
  ASSUME TypeOK, NEW s \in Segs, queues[s] # <<>>,
         Len(queues[s]) <= Cap,
         \A i \in DOMAIN queues[s] : queues[s][i] = End => i = Len(queues[s]),
         queues' = [queues EXCEPT ![s] = Tail(@)],
         NEW n \in Nat, EventsIn(s) <= n,
         \A i \in 1..EventsIn(s) : queues[s][i] = n - EventsIn(s) + i
  PROVE  /\ queues'[s] \in Seq(Items) /\ Len(queues'[s]) <= Cap
         /\ \A i \in DOMAIN queues'[s] : /\ i + 1 \in DOMAIN queues[s]
                                         /\ queues'[s][i] = queues[s][i + 1]
                                         /\ queues'[s][i] = End => i = Len(queues'[s])
         /\ EventsIn(s)' <= EventsIn(s)
         /\ \A i \in 1..EventsIn(s)' : queues'[s][i] = n - EventsIn(s)' + i
         /\ Head(queues[s]) # End => /\ EventsIn(s)' = EventsIn(s) - 1
                                     /\ Head(queues[s]) = n - EventsIn(s)'
<1> DEFINE q == queues[s]
           r == queues'[s]
<1>1. q \in Seq(Items) /\ Len(q) \in Nat /\ Len(q) >= 1 /\ DOMAIN q = 1..Len(q)
  BY DEF TypeOK, Items
<1>2. r = Tail(q)
  BY DEF TypeOK
<1>3. EventsIn(s) = IF q # <<>> /\ q[Len(q)] = End THEN Len(q) - 1 ELSE Len(q)
  BY DEF EventsIn, Ended, Last
<1>4. EventsIn(s)' = IF r # <<>> /\ r[Len(r)] = End THEN Len(r) - 1 ELSE Len(r)
  BY DEF EventsIn, Ended, Last
<1>5. /\ \A i \in DOMAIN q : q[i] = End => i = Len(q)
      /\ q # <<>> /\ Len(q) <= Cap
      /\ \A i \in 1..EventsIn(s) : q[i] = n - EventsIn(s) + i
  OBVIOUS
<1> HIDE DEF q, r
<1>6. /\ r \in Seq(Items) /\ Len(r) = Len(q) - 1 /\ DOMAIN r = 1..Len(r)
      /\ \A i \in 1..Len(r) : r[i] = q[i + 1]
      /\ Head(q) = q[1]
  BY <1>1, <1>2, <1>5, HeadTailProperties
<1>7. ASSUME NEW i \in DOMAIN r
      PROVE  /\ i + 1 \in DOMAIN q /\ r[i] = q[i + 1]
             /\ r[i] = End => i = Len(r)
  BY <1>1, <1>5, <1>6
<1>8. CASE q[Len(q)] = End
  <2>1. EventsIn(s) = Len(q) - 1
    BY <1>3, <1>5, <1>8
  <2>2. CASE Len(q) = 1
    <3>1. r = <<>> /\ Head(q) = End /\ EventsIn(s)' = 0
      BY <1>4, <1>6, <1>8, <2>2
    <3> QED BY <1>5, <1>6, <1>7, <2>1, <2>2, <3>1, CapAssumption DEF q, r
  <2>3. CASE Len(q) # 1
    <3>1. r # <<>> /\ r[Len(r)] = End
      BY <1>1, <1>6, <1>8, <2>3
    <3>2. EventsIn(s)' = EventsIn(s) - 1 /\ EventsIn(s) >= 1
      BY <1>1, <1>4, <1>6, <2>1, <2>3, <3>1
    <3>3. \A i \in 1..EventsIn(s)' : r[i] = n - EventsIn(s)' + i
      BY <1>1, <1>5, <1>6, <2>1, <3>2
    <3>4. Head(q) = n - EventsIn(s)'
      BY <1>1, <1>5, <1>6, <2>1, <3>2
    <3>5. Len(r) <= Cap /\ EventsIn(s)' <= EventsIn(s)
      BY <1>1, <1>5, <1>6, <2>1, <3>2, CapAssumption
    <3> QED BY <1>6, <1>7, <3>2, <3>3, <3>4, <3>5 DEF q, r
  <2> QED BY <2>2, <2>3
<1>9. CASE q[Len(q)] # End
  <2>1. EventsIn(s) = Len(q)
    BY <1>3, <1>9
  <2>2. ~(r # <<>> /\ r[Len(r)] = End)
    <3>1. CASE r = <<>>
      BY <3>1
    <3>2. CASE r # <<>>
      <4>1. Len(r) \in 1..Len(r)
        BY <1>6, <3>2
      <4>2. r[Len(r)] = q[Len(r) + 1] /\ Len(r) + 1 = Len(q)
        BY <1>1, <1>6, <4>1
      <4> QED BY <1>9, <4>2
    <3> QED BY <3>1, <3>2
  <2>3. EventsIn(s)' = EventsIn(s) - 1
    BY <1>4, <1>6, <2>1, <2>2
  <2>4. \A i \in 1..EventsIn(s)' : r[i] = n - EventsIn(s)' + i
    BY <1>1, <1>5, <1>6, <2>1, <2>3
  <2>5. Head(q) = n - EventsIn(s)'
    BY <1>1, <1>5, <1>6, <2>1, <2>3
  <2>6. Len(r) <= Cap /\ EventsIn(s)' <= EventsIn(s)
    BY <1>1, <1>5, <1>6, <2>1, <2>3, CapAssumption
  <2> QED BY <1>6, <1>7, <2>3, <2>4, <2>5, <2>6 DEF q, r
<1> QED BY <1>8, <1>9
\* How many calls are events, and that the counts are numbers.
LEMMA UnderwayIs ==
  TypeOK /\ CallsInOrder =>
    /\ Len(calls) \in Nat /\ DOMAIN calls = 1..Len(calls)
    /\ Done \notin Range(calls) => Underway = Len(calls)
    /\ Done \in Range(calls) => /\ calls # <<>> /\ calls[Len(calls)] = Done
                                /\ Underway = Len(calls) - 1
    /\ Underway \in Nat
<1> SUFFICES ASSUME TypeOK, CallsInOrder
             PROVE  /\ Len(calls) \in Nat /\ DOMAIN calls = 1..Len(calls)
                    /\ Done \notin Range(calls) => Underway = Len(calls)
                    /\ Done \in Range(calls) => /\ calls # <<>> /\ calls[Len(calls)] = Done
                                                /\ Underway = Len(calls) - 1
                    /\ Underway \in Nat
  OBVIOUS
<1>1. calls \in Seq(Events \cup {Done}) /\ Len(calls) \in Nat /\ DOMAIN calls = 1..Len(calls)
  BY DEF TypeOK
<1>2. CASE Done \in Range(calls)
  <2>1. PICK i \in DOMAIN calls : calls[i] = Done
    BY <1>2 DEF Range
  <2>2. i = Len(calls)
    BY <2>1 DEF CallsInOrder
  <2>3. calls # <<>> /\ Len(calls) >= 1 /\ calls[Len(calls)] = Done
    BY <1>1, <2>1, <2>2
  <2>4. Underway = Len(calls) - 1
    BY <1>2 DEF Underway
  <2>5. Underway \in Nat
    BY <1>1, <2>3, <2>4
  <2> QED BY <1>1, <1>2, <2>3, <2>4, <2>5
<1>3. CASE Done \notin Range(calls)
  BY <1>1, <1>3 DEF Underway
<1> QED BY <1>2, <1>3

LEMMA CountsAre ==
  TypeOK /\ CallsInOrder =>
    \A s \in Segs : /\ queues[s] \in Seq(Items) /\ Len(queues[s]) \in Nat
                     /\ DOMAIN queues[s] = 1..Len(queues[s])
                     /\ emitted[s] \in Nat /\ EventsIn(s) \in Nat /\ PutSoFar(s) \in Int
<1> SUFFICES ASSUME TypeOK, CallsInOrder, NEW s \in Segs
             PROVE  /\ queues[s] \in Seq(Items) /\ Len(queues[s]) \in Nat
                    /\ DOMAIN queues[s] = 1..Len(queues[s])
                    /\ emitted[s] \in Nat /\ EventsIn(s) \in Nat /\ PutSoFar(s) \in Int
  OBVIOUS
<1>1. /\ queues[s] \in Seq(Items) /\ Len(queues[s]) \in Nat
      /\ DOMAIN queues[s] = 1..Len(queues[s]) /\ emitted[s] \in Nat
  BY BoundsAssumption DEF TypeOK, Items
<1>2. EventsIn(s) \in Nat
  <2>1. queues[s] # <<>> => Len(queues[s]) >= 1
    BY <1>1
  <2> QED BY <1>1, <2>1 DEF EventsIn, Ended
<1>3. PutSoFar(s) \in Int
  BY <1>1, UnderwayIs DEF PutSoFar
<1> QED BY <1>1, <1>2, <1>3

\* At most one queue changes, and how much of it has been seen only grows.
LEMMA OneQueue ==
  ASSUME StreamInv, TypeOK', CallsInOrder', NEW s \in Segs,
         \A t \in Segs \ {s} : /\ queues'[t] = queues[t] /\ PutSoFar(t)' = PutSoFar(t)
                               /\ EndIsLast(t)',
         Len(queues'[s]) <= Cap, EndIsLast(s)',
         EventsIn(s)' <= PutSoFar(s)',
         \A i \in 1..EventsIn(s)' : queues'[s][i] = PutSoFar(s)' - EventsIn(s)' + i,
         PutSoFar(s) - EventsIn(s) <= PutSoFar(s)' - EventsIn(s)'
  PROVE  /\ QueueIsNewest'
         /\ \A t \in Segs : EventsIn(t)' <= PutSoFar(t)'
         /\ \A t \in Segs : PutSoFar(t) - EventsIn(t) <= PutSoFar(t)' - EventsIn(t)'
<1>1. ASSUME NEW t \in Segs \ {s}
      PROVE  EventsIn(t)' = EventsIn(t) /\ PutSoFar(t)' = PutSoFar(t)
  BY DEF EventsIn, Ended
<1>2. \A t \in Segs : PutSoFar(t) \in Int /\ EventsIn(t) \in Nat
  BY CountsAre DEF StreamInv
<1>3. ASSUME NEW t \in Segs
      PROVE  /\ \A i \in 1..EventsIn(t)' : queues'[t][i] = PutSoFar(t)' - EventsIn(t)' + i
             /\ Len(queues'[t]) <= Cap /\ EndIsLast(t)'
             /\ EventsIn(t)' <= PutSoFar(t)'
             /\ PutSoFar(t) - EventsIn(t) <= PutSoFar(t)' - EventsIn(t)'
  <2>1. CASE t = s
    BY <2>1
  <2>2. CASE t # s
    <3>1. EventsIn(t)' = EventsIn(t) /\ PutSoFar(t)' = PutSoFar(t) /\ queues'[t] = queues[t]
      BY <1>1, <2>2
    <3>2. PutSoFar(t) - EventsIn(t) <= PutSoFar(t) - EventsIn(t)
      BY <1>2
    <3> QED BY <2>2, <3>1, <3>2 DEF StreamInv, QueueIsNewest
  <2> QED BY <2>1, <2>2
<1> QED BY <1>3 DEF QueueIsNewest

\* A connection that does not move stays behind its queue.
LEMMA StillBehind ==
  ASSUME StreamInv, TypeOK', CallsInOrder', seg' \in Nat, seg <= seg', NEW c \in Readers,
         reader'[c].queue = reader[c].queue, reader'[c].last = reader[c].last,
         reader'[c].open => reader[c].open,
         \A t \in Segs : PutSoFar(t) - EventsIn(t) <= PutSoFar(t)' - EventsIn(t)'
  PROVE  ReaderIsBehind(c)'
<1> SUFFICES ASSUME NEW t \in Segs, reader'[c].open, reader'[c].queue = t
             PROVE  t <= seg' /\ reader'[c].last <= PutSoFar(t)' - EventsIn(t)'
  BY DEF ReaderIsBehind
<1>1. reader[c].last \in Nat /\ t \in Nat /\ seg \in Nat
  BY BoundsAssumption DEF StreamInv, TypeOK, Connections, Segs
<1>2. t <= seg /\ reader[c].last <= PutSoFar(t) - EventsIn(t)
  BY DEF StreamInv, ReaderIsBehind
<1>3. PutSoFar(t) \in Int /\ EventsIn(t) \in Nat
  BY CountsAre DEF StreamInv
<1>4. PutSoFar(t)' \in Int /\ EventsIn(t)' \in Nat
  <2>1. (\A s \in Segs : /\ queues[s] \in Seq(Items) /\ Len(queues[s]) \in Nat
                          /\ DOMAIN queues[s] = 1..Len(queues[s])
                          /\ emitted[s] \in Nat /\ EventsIn(s) \in Nat /\ PutSoFar(s) \in Int)'
    BY CountsAre, PTL
  <2> QED BY <2>1
<1>5. PutSoFar(t) - EventsIn(t) <= PutSoFar(t)' - EventsIn(t)'
  OBVIOUS
<1> QED BY <1>1, <1>2, <1>3, <1>4, <1>5
\* What follows when at most one queue has changed, and no connection has
\* moved.
LEMMA QueueStep ==
  ASSUME StreamInv, TypeOK', CallsInOrder', (run = "none" <=> seg = 0)',
         registered' <= seg', seg <= seg', UNCHANGED reader,
         \A t \in Segs : t > seg' => Unopened(t)',
         QueueIsNewest',
         \A t \in Segs : EventsIn(t)' <= PutSoFar(t)',
         \A t \in Segs : PutSoFar(t) - EventsIn(t) <= PutSoFar(t)' - EventsIn(t)'
  PROVE  StreamInv'
<1>1. seg' \in Nat
  BY BoundsAssumption DEF TypeOK
<1>2. \A c \in Readers : ReaderIsBehind(c)'
  BY <1>1, StillBehind
<1> QED BY <1>2 DEF StreamInv

\* No queue has changed, and nothing more was put on one.
LEMMA QuietStep ==
  ASSUME StreamInv, TypeOK', CallsInOrder', (run = "none" <=> seg = 0)',
         registered' <= seg', seg <= seg', UNCHANGED <<queues, reader>>,
         \A t \in Segs : t > seg' => Unopened(t)',
         \A t \in Segs : PutSoFar(t)' = PutSoFar(t),
         \A t \in Segs : EndIsLast(t)'
  PROVE  StreamInv'
<1>1. 1 \in Segs
  BY BoundsAssumption DEF Segs
<1>2. \A t \in Segs : EventsIn(t)' = EventsIn(t)
  BY DEF EventsIn, Ended
<1>3. \A t \in Segs : PutSoFar(t) \in Int /\ EventsIn(t) \in Nat
  BY CountsAre DEF StreamInv
<1>4. /\ QueueIsNewest'
      /\ \A t \in Segs : EventsIn(t)' <= PutSoFar(t)'
      /\ \A t \in Segs : PutSoFar(t) - EventsIn(t) <= PutSoFar(t)' - EventsIn(t)'
  <2>1. ASSUME NEW t \in Segs
        PROVE  /\ \A i \in 1..EventsIn(t)' : queues'[t][i] = PutSoFar(t)' - EventsIn(t)' + i
               /\ Len(queues'[t]) <= Cap
               /\ EventsIn(t)' <= PutSoFar(t)'
               /\ PutSoFar(t) - EventsIn(t) <= PutSoFar(t)' - EventsIn(t)'
    <3>1. EventsIn(t)' = EventsIn(t) /\ PutSoFar(t)' = PutSoFar(t) /\ queues' = queues
      BY <1>2
    <3>2. PutSoFar(t) - EventsIn(t) <= PutSoFar(t) - EventsIn(t)
      BY <1>3
    <3> QED BY <3>1, <3>2 DEF StreamInv, QueueIsNewest
  <2> QED BY <2>1 DEF QueueIsNewest
<1> QED BY <1>4, QueueStep

\* A fresh queue, while nothing travels through the loop.
LEMMA OpenQueueKeeps ==
  ASSUME StreamInv, OpenQueue, run # "executing", seg < MaxSegs,
         run' \in {"executing", "stuck", "updating"},
         UNCHANGED <<queues, calls, emitted, reader>>
  PROVE  StreamInv'
<1>1. calls = <<>> /\ seg \in Nat /\ seg' = seg + 1 /\ registered' = seg + 1
  BY BoundsAssumption DEF StreamInv, CallsInOrder, OpenQueue, TypeOK
<1>2. TypeOK'
  BY <1>1, BoundsAssumption DEF StreamInv, TypeOK, Stages
<1>3. CallsInOrder'
  BY <1>1 DEF CallsInOrder
<1>4. Underway = 0 /\ Underway' = 0
  BY <1>1 DEF Underway, Range
<1>5. \A t \in Segs : PutSoFar(t)' = PutSoFar(t)
  <2>1. ASSUME NEW t \in Segs PROVE emitted[t] \in Nat /\ emitted[t] - 0 = emitted[t]
    BY BoundsAssumption DEF StreamInv, TypeOK
  <2> QED BY <1>4, <2>1 DEF PutSoFar
<1>6. \A t \in Segs : EndIsLast(t)'
  <2>1. ASSUME NEW t \in Segs PROVE EndIsLast(t)'
    <3>1. CASE t = seg + 1
      <4>1. queues[t] = <<>>
        BY <1>1, <3>1 DEF StreamInv, Unopened
      <4> QED BY <4>1 DEF EndIsLast
    <3>2. CASE t # seg + 1
      BY <1>1, <3>2 DEF EndIsLast, StreamInv, QueueIsNewest
    <3> QED BY <3>1, <3>2
  <2> QED BY <2>1
<1>7. \A t \in Segs : t > seg' => Unopened(t)'
  BY <1>1 DEF StreamInv, Unopened, Segs
<1>8. (run = "none" <=> seg = 0)' /\ registered' <= seg' /\ seg <= seg'
  BY <1>1
<1> QED
  BY <1>2, <1>3, <1>5, <1>6, <1>7, <1>8, QuietStep

LEMMA UpdateKeeps ==
  ASSUME StreamInv, UpdateState \/ UpdateStateRaises
  PROVE  StreamInv'
<1>1. /\ run = "updating" /\ run' \in {"executing", "unended"}
      /\ UNCHANGED <<seg, registered, queues, calls, emitted, reader>>
  BY DEF UpdateState, UpdateStateRaises
<1>2. TypeOK' /\ CallsInOrder' /\ (run = "none" <=> seg = 0)' /\ registered' <= seg'
  BY <1>1 DEF StreamInv, TypeOK, Stages, CallsInOrder, Underway
<1>3. \A t \in Segs : PutSoFar(t)' = PutSoFar(t) /\ EndIsLast(t)'
  BY <1>1 DEF StreamInv, QueueIsNewest, EndIsLast, PutSoFar, Underway
<1>4. \A t \in Segs : t > seg' => Unopened(t)'
  BY <1>1 DEF StreamInv, Unopened
<1>5. seg <= seg'
  BY <1>1, BoundsAssumption DEF StreamInv, TypeOK
<1> QED
  BY <1>1, <1>2, <1>3, <1>4, <1>5, QuietStep

\* While a segment executes, its queue holds no sentinel.
LEMMA NoEndYet ==
  ASSUME StreamInv, run # "settled", seg \in Segs
  PROVE  \A i \in DOMAIN queues[seg] : queues[seg][i] # End
BY DEF StreamInv, QueueIsNewest, EndIsLast

LEMMA SegIsOpen ==
  ASSUME StreamInv, run # "none"
  PROVE  seg \in Segs /\ seg \in Nat
BY BoundsAssumption DEF StreamInv, TypeOK, Segs

LEMMA EmitKeeps ==
  ASSUME StreamInv, Emit
  PROVE  StreamInv'
<1>1. /\ run = "executing" /\ Done \notin Range(calls) /\ emitted[seg] < MaxEvents
      /\ emitted' = [emitted EXCEPT ![seg] = @ + 1]
      /\ calls' = Append(calls, emitted[seg] + 1)
      /\ UNCHANGED <<run, seg, registered, queues, reader>>
  BY DEF Emit
<1>2. seg \in Segs /\ seg \in Nat
  BY <1>1, SegIsOpen
<1>3. /\ Len(calls) \in Nat /\ DOMAIN calls = 1..Len(calls) /\ Underway = Len(calls)
      /\ calls \in Seq(Events \cup {Done}) /\ emitted[seg] \in Nat
  BY <1>1, <1>2, UnderwayIs, BoundsAssumption DEF StreamInv, TypeOK
<1>4. emitted[seg] + 1 \in Events /\ emitted[seg] + 1 # Done
  BY <1>1, <1>3, BoundsAssumption DEF Events, Done
<1>5. /\ calls' \in Seq(Events \cup {Done}) /\ Len(calls') = Len(calls) + 1
      /\ DOMAIN calls' = 1..(Len(calls) + 1)
      /\ \A i \in 1..Len(calls) : calls'[i] = calls[i]
      /\ calls'[Len(calls) + 1] = emitted[seg] + 1
  BY <1>1, <1>3, <1>4
<1>6. emitted'[seg] = emitted[seg] + 1 /\ \A t \in Segs \ {seg} : emitted'[t] = emitted[t]
  BY <1>1, <1>2 DEF StreamInv, TypeOK
<1>7. TypeOK'
  <2>1. emitted' \in [Segs -> 0..MaxEvents]
    BY <1>1, <1>2, <1>3, BoundsAssumption DEF StreamInv, TypeOK
  <2> QED BY <1>1, <1>5, <2>1 DEF StreamInv, TypeOK
<1>8. \A i \in DOMAIN calls' : calls'[i] # Done
  <2>1. \A i \in 1..Len(calls) : calls[i] # Done
    BY <1>1, <1>3 DEF Range
  <2> QED BY <1>3, <1>4, <1>5, <2>1
<1>9. Underway' = Len(calls) + 1
  BY <1>5, <1>8 DEF Underway, Range
<1>10. CallsInOrder'
  <2>1. ASSUME NEW i \in DOMAIN calls'
        PROVE  calls'[i] = emitted'[seg] - (Len(calls) + 1) + i
    <3>1. CASE i = Len(calls) + 1
      BY <1>3, <1>5, <1>6, <3>1
    <3>2. CASE i # Len(calls) + 1
      <4>1. i \in DOMAIN calls /\ calls'[i] = calls[i] /\ i \in Nat
        BY <1>3, <1>5, <3>2
      <4>2. calls[i] # Done
        BY <1>8, <4>1
      <4>3. calls[i] = emitted[seg] - Len(calls) + i
        BY <1>3, <4>1, <4>2 DEF StreamInv, CallsInOrder
      <4> QED BY <1>3, <1>6, <4>1, <4>3
    <3> QED BY <3>1, <3>2
  <2> QED BY <1>1, <1>8, <1>9, <2>1 DEF CallsInOrder
<1>11. \A t \in Segs : PutSoFar(t)' = PutSoFar(t)
  <2>1. (emitted[seg] + 1) - (Len(calls) + 1) = emitted[seg] - Len(calls)
    BY <1>3
  <2> QED BY <1>1, <1>3, <1>6, <1>9, <2>1 DEF PutSoFar
<1>12. /\ \A t \in Segs : EndIsLast(t)'
       /\ \A t \in Segs : t > seg' => Unopened(t)'
       /\ (run = "none" <=> seg = 0)' /\ registered' <= seg' /\ seg <= seg'
  BY <1>1, <1>2, <1>6 DEF StreamInv, QueueIsNewest, EndIsLast, Unopened, Segs
<1> QED
  BY <1>1, <1>7, <1>10, <1>11, <1>12, QuietStep

LEMMA InvokeReturnsKeeps ==
  ASSUME StreamInv, InvokeReturns
  PROVE  StreamInv'
<1>1. /\ run = "executing" /\ Done \notin Range(calls)
      /\ calls' = Append(calls, Done)
      /\ UNCHANGED <<run, seg, registered, queues, emitted, reader>>
  BY DEF InvokeReturns
<1>2. seg \in Segs /\ seg \in Nat
  BY <1>1, SegIsOpen
<1>3. /\ Len(calls) \in Nat /\ DOMAIN calls = 1..Len(calls) /\ Underway = Len(calls)
      /\ calls \in Seq(Events \cup {Done})
  BY <1>1, UnderwayIs DEF StreamInv, TypeOK
<1>4. /\ calls' \in Seq(Events \cup {Done}) /\ Len(calls') = Len(calls) + 1
      /\ DOMAIN calls' = 1..(Len(calls) + 1)
      /\ \A i \in 1..Len(calls) : calls'[i] = calls[i]
      /\ calls'[Len(calls) + 1] = Done
  BY <1>1, <1>3
<1>5. TypeOK'
  BY <1>1, <1>4 DEF StreamInv, TypeOK
<1>6. Underway' = Len(calls)
  <2>1. Len(calls) + 1 \in DOMAIN calls'
    BY <1>3, <1>4
  <2>2. Done \in Range(calls')
    BY <1>4, <2>1 DEF Range
  <2>3. Underway' = Len(calls') - 1
    BY <2>2 DEF Underway
  <2>4. (Len(calls) + 1) - 1 = Len(calls)
    BY <1>3
  <2> QED BY <1>4, <2>3, <2>4
<1>7. CallsInOrder'
  <2>1. ASSUME NEW i \in DOMAIN calls', calls'[i] = Done
        PROVE  i = Len(calls')
    <3>1. \A j \in DOMAIN calls : calls[j] # Done
      BY <1>1 DEF Range
    <3> QED BY <1>3, <1>4, <2>1, <3>1
  <2>2. ASSUME NEW i \in DOMAIN calls', calls'[i] # Done
        PROVE  calls'[i] = emitted[seg] - Len(calls) + i
    <3>1. i \in DOMAIN calls /\ calls'[i] = calls[i]
      BY <1>3, <1>4, <2>2
    <3> QED BY <1>3, <2>2, <3>1 DEF StreamInv, CallsInOrder
  <2> QED BY <1>1, <1>6, <2>1, <2>2 DEF CallsInOrder
<1>8. \A t \in Segs : PutSoFar(t)' = PutSoFar(t)
  BY <1>1, <1>3, <1>6 DEF PutSoFar
<1>9. /\ \A t \in Segs : EndIsLast(t)'
      /\ \A t \in Segs : t > seg' => Unopened(t)'
      /\ (run = "none" <=> seg = 0)' /\ registered' <= seg' /\ seg <= seg'
  BY <1>1, <1>2 DEF StreamInv, QueueIsNewest, EndIsLast, Unopened
<1> QED
  BY <1>1, <1>5, <1>7, <1>8, <1>9, QuietStep
LEMMA LoopStepKeeps ==
  ASSUME StreamInv, LoopStep
  PROVE  StreamInv'
<1>1. /\ calls # <<>> /\ calls' = Tail(calls) /\ run = "executing"
      /\ UNCHANGED <<seg, registered, emitted, reader>>
  BY DEF LoopStep, StreamInv, CallsInOrder
<1>2. seg \in Segs /\ seg \in Nat
  BY <1>1, SegIsOpen
<1>3. /\ Len(calls) \in Nat /\ DOMAIN calls = 1..Len(calls) /\ Len(calls) >= 1
      /\ calls \in Seq(Events \cup {Done}) /\ emitted[seg] \in Nat
  BY <1>1, <1>2, UnderwayIs, CountsAre DEF StreamInv, TypeOK
<1>4. /\ calls' \in Seq(Events \cup {Done}) /\ Len(calls') = Len(calls) - 1
      /\ DOMAIN calls' = 1..(Len(calls) - 1)
      /\ \A i \in 1..(Len(calls) - 1) : calls'[i] = calls[i + 1]
      /\ Head(calls) = calls[1]
  BY <1>1, <1>3, HeadTailProperties
<1>5. CASE Head(calls) = Done
  <2>1. Len(calls) = 1 /\ calls' = <<>>
    <3>1. 1 \in DOMAIN calls
      BY <1>3
    <3>2. Len(calls) = 1
      BY <1>4, <1>5, <3>1 DEF StreamInv, CallsInOrder
    <3> QED BY <1>4, <3>2
  <2>2. run' = "returned" /\ UNCHANGED queues
    BY <1>5 DEF LoopStep
  <2>3. TypeOK'
    BY <1>1, <1>4, <2>2 DEF StreamInv, TypeOK, Stages
  <2>4. CallsInOrder'
    BY <2>1 DEF CallsInOrder
  <2>5. Underway = 0 /\ Underway' = 0
    <3>1. calls[1] = Done /\ 1 \in DOMAIN calls
      BY <1>3, <1>4, <1>5
    <3>2. Done \in Range(calls)
      BY <3>1 DEF Range
    <3> QED BY <2>1, <3>2 DEF Underway, Range
  <2>6. \A t \in Segs : PutSoFar(t)' = PutSoFar(t)
    BY <1>1, <2>5 DEF PutSoFar
  <2>7. /\ \A t \in Segs : EndIsLast(t)'
        /\ \A t \in Segs : t > seg' => Unopened(t)'
        /\ (run = "none" <=> seg = 0)' /\ registered' <= seg' /\ seg <= seg'
    BY <1>1, <1>2, <2>2 DEF StreamInv, QueueIsNewest, EndIsLast, Unopened
  <2> QED BY <1>1, <2>2, <2>3, <2>4, <2>6, <2>7, QuietStep
<1>6. CASE Head(calls) # Done
  <2>1. /\ queues' = [queues EXCEPT ![seg] = PutDroppingOldest(@, Head(calls))]
        /\ run' = run
    BY <1>6 DEF LoopStep
  <2>2. PICK n : n = PutSoFar(seg)
    OBVIOUS
  <2>3. n \in Nat /\ EventsIn(seg) <= n /\ n = emitted[seg] - Underway
    <3>1. n \in Int /\ EventsIn(seg) \in Nat /\ EventsIn(seg) <= n
      BY <1>2, <2>2, CountsAre DEF StreamInv
    <3> QED BY <2>2, <3>1 DEF PutSoFar
  <2>4. Underway \in Nat /\ Head(calls) = n + 1 /\ Head(calls) \in Events
    <3>1. Underway \in Nat /\ 1 \in DOMAIN calls /\ calls[1] # Done
      BY <1>3, <1>4, <1>6, UnderwayIs DEF StreamInv
    <3>2. calls[1] = emitted[seg] - Underway + 1
      BY <3>1 DEF StreamInv, CallsInOrder
    <3>3. calls[1] \in Events
      BY <1>3, <3>1
    <3> QED BY <1>4, <2>3, <3>1, <3>2, <3>3
  <2>5. Underway' = Underway - 1
    <3>1. CASE Done \in Range(calls)
      <4>1. calls[Len(calls)] = Done /\ Underway = Len(calls) - 1
        BY <3>1, UnderwayIs DEF StreamInv
      <4>2. Len(calls) - 1 \in DOMAIN calls' /\ calls'[Len(calls) - 1] = Done
        <5>1. Len(calls) # 1
          BY <1>4, <1>6, <4>1
        <5>2. Len(calls) - 1 \in 1..(Len(calls) - 1) /\ (Len(calls) - 1) + 1 = Len(calls)
          BY <1>3, <5>1
        <5> QED BY <1>4, <4>1, <5>2
      <4>3. Done \in Range(calls')
        BY <4>2 DEF Range
      <4> QED BY <1>4, <4>1, <4>3 DEF Underway
    <3>2. CASE Done \notin Range(calls)
      <4>1. Underway = Len(calls)
        BY <3>2 DEF Underway
      <4>2. \A i \in DOMAIN calls' : calls'[i] # Done
        <5>1. \A i \in 1..(Len(calls) - 1) : i + 1 \in DOMAIN calls
          BY <1>3
        <5> QED BY <1>4, <3>2, <5>1 DEF Range
      <4>3. Done \notin Range(calls')
        BY <4>2 DEF Range
      <4> QED BY <1>4, <4>1, <4>3 DEF Underway
    <3> QED BY <3>1, <3>2
  <2>6. CallsInOrder'
    <3>1. ASSUME NEW i \in DOMAIN calls'
          PROVE  IF calls'[i] = Done THEN i = Len(calls')
                 ELSE calls'[i] = emitted[seg] - (Underway - 1) + i
      <4>1. i + 1 \in DOMAIN calls /\ calls'[i] = calls[i + 1] /\ i \in Nat
        BY <1>3, <1>4
      <4>2. CASE calls'[i] = Done
        <5>1. i + 1 = Len(calls)
          BY <4>1, <4>2 DEF StreamInv, CallsInOrder
        <5> QED BY <1>3, <1>4, <4>1, <4>2, <5>1
      <4>3. CASE calls'[i] # Done
        <5>1. calls[i + 1] = emitted[seg] - Underway + (i + 1)
          BY <4>1, <4>3 DEF StreamInv, CallsInOrder
        <5>2. emitted[seg] - Underway + (i + 1) = emitted[seg] - (Underway - 1) + i
          BY <1>3, <2>4, <4>1, SMTT(40)
        <5> QED BY <4>1, <4>3, <5>1, <5>2
      <4> QED BY <4>2, <4>3
    <3> QED BY <1>1, <2>1, <2>5, <3>1 DEF CallsInOrder
  <2>7. /\ queues'[seg] \in Seq(Items) /\ Len(queues'[seg]) <= Cap
        /\ \A i \in DOMAIN queues'[seg] : queues'[seg][i] # End
        /\ EventsIn(seg)' <= n + 1
        /\ \A i \in 1..EventsIn(seg)' : queues'[seg][i] = (n + 1) - EventsIn(seg)' + i
        /\ n - EventsIn(seg) <= (n + 1) - EventsIn(seg)'
    <3> HIDE DEF EventsIn
    <3>1. PICK s \in Segs : s = seg
      BY <1>2
    <3>2. \A i \in DOMAIN queues[s] : queues[s][i] # End
      BY <1>1, <1>2, <3>1, NoEndYet
    <3>3. /\ TypeOK /\ Len(queues[s]) <= Cap
          /\ \A i \in 1..EventsIn(s) : queues[s][i] = n - EventsIn(s) + i
      BY <2>2, <3>1 DEF StreamInv, QueueIsNewest
    <3>4. /\ queues'[s] \in Seq(Items) /\ Len(queues'[s]) <= Cap
          /\ \A i \in DOMAIN queues'[s] : queues'[s][i] # End
          /\ EventsIn(s)' <= n + 1
          /\ \A i \in 1..EventsIn(s)' : queues'[s][i] = (n + 1) - EventsIn(s)' + i
          /\ n - EventsIn(s) <= (n + 1) - EventsIn(s)'
      BY <2>1, <2>3, <2>4, <3>1, <3>2, <3>3, PutEvent
    <3> QED BY <1>1, <3>1, <3>4 DEF EventsIn, Ended
  <2>8. PICK s \in Segs : s = seg
    BY <1>2
  <2>9. TypeOK'
    <3>1. queues' \in [Segs -> Seq(Items)]
      BY <2>1, <2>7, <2>8 DEF StreamInv, TypeOK, Items
    <3> QED BY <1>1, <1>4, <2>1, <3>1 DEF StreamInv, TypeOK, Items
  <2>10. PutSoFar(s)' = n + 1 /\ PutSoFar(s) = n
    BY <1>1, <1>3, <2>2, <2>3, <2>4, <2>5, <2>8 DEF PutSoFar
  <2>11. \A t \in Segs \ {s} : /\ queues'[t] = queues[t] /\ PutSoFar(t)' = PutSoFar(t)
                               /\ EndIsLast(t)'
    BY <1>1, <2>1, <2>8 DEF StreamInv, TypeOK, QueueIsNewest, PutSoFar, EndIsLast
  <2>12. /\ Len(queues'[s]) <= Cap /\ EndIsLast(s)' /\ EventsIn(s)' <= PutSoFar(s)'
         /\ \A i \in 1..EventsIn(s)' : queues'[s][i] = PutSoFar(s)' - EventsIn(s)' + i
         /\ PutSoFar(s) - EventsIn(s) <= PutSoFar(s)' - EventsIn(s)'
    BY <1>1, <2>7, <2>8, <2>10 DEF EndIsLast, EventsIn, Ended
  <2>13. /\ QueueIsNewest'
         /\ \A t \in Segs : EventsIn(t)' <= PutSoFar(t)'
         /\ \A t \in Segs : PutSoFar(t) - EventsIn(t) <= PutSoFar(t)' - EventsIn(t)'
    BY <2>6, <2>9, <2>11, <2>12, OneQueue
  <2>14. /\ \A t \in Segs : t > seg' => Unopened(t)'
         /\ (run = "none" <=> seg = 0)' /\ registered' <= seg' /\ seg <= seg'
    BY <1>1, <1>2, <2>1, <2>8, <2>11 DEF StreamInv, Unopened, Segs
  <2> QED BY <1>1, <2>6, <2>9, <2>13, <2>14, QueueStep
<1> QED BY <1>5, <1>6
LEMMA EndSegmentKeeps ==
  ASSUME StreamInv, EndSegment
  PROVE  StreamInv'
<1>1. /\ run = "returned" /\ run' = "settled"
      /\ queues' = [queues EXCEPT ![seg] = PutDroppingOldest(@, End)]
      /\ UNCHANGED <<seg, registered, calls, emitted, reader>>
  BY DEF EndSegment
<1>2. seg \in Segs /\ seg \in Nat /\ calls = <<>>
  BY <1>1, SegIsOpen DEF StreamInv, CallsInOrder
<1>3. PICK s \in Segs : s = seg
  BY <1>2
<1>4. PICK n : n = PutSoFar(s)
  OBVIOUS
<1>5. n \in Nat /\ EventsIn(s) <= n /\ EventsIn(s) \in Nat /\ n = PutSoFar(s)'
  <2>1. n \in Int /\ EventsIn(s) \in Nat /\ EventsIn(s) <= n
    BY <1>4, CountsAre DEF StreamInv
  <2>2. n = PutSoFar(s)'
    BY <1>1, <1>4 DEF PutSoFar, Underway
  <2> QED BY <2>1, <2>2
<1>6. /\ queues'[s] \in Seq(Items) /\ Len(queues'[s]) <= Cap
      /\ \A i \in DOMAIN queues'[s] : queues'[s][i] = End => i = Len(queues'[s])
      /\ EventsIn(s)' <= EventsIn(s)
      /\ \A i \in 1..EventsIn(s)' : queues'[s][i] = n - EventsIn(s)' + i
  <2>1. \A i \in DOMAIN queues[s] : queues[s][i] # End
    BY <1>1, <1>2, <1>3, NoEndYet
  <2>2. /\ TypeOK /\ Len(queues[s]) <= Cap
        /\ \A i \in 1..EventsIn(s) : queues[s][i] = n - EventsIn(s) + i
    BY <1>4 DEF StreamInv, QueueIsNewest
  <2> QED BY <1>1, <1>3, <1>5, <2>1, <2>2, PutSentinel
<1>7. TypeOK'
  <2>1. queues' \in [Segs -> Seq(Items)]
    BY <1>1, <1>3, <1>6 DEF StreamInv, TypeOK, Items
  <2> QED BY <1>1, <2>1 DEF StreamInv, TypeOK, Items, Stages
<1>8. CallsInOrder'
  BY <1>1, <1>2 DEF CallsInOrder
<1>9. \A t \in Segs \ {s} : /\ queues'[t] = queues[t] /\ PutSoFar(t)' = PutSoFar(t)
                            /\ EndIsLast(t)'
  BY <1>1, <1>3 DEF StreamInv, TypeOK, QueueIsNewest, PutSoFar, Underway, EndIsLast
<1>10. /\ Len(queues'[s]) <= Cap /\ EndIsLast(s)' /\ EventsIn(s)' <= PutSoFar(s)'
       /\ \A i \in 1..EventsIn(s)' : queues'[s][i] = PutSoFar(s)' - EventsIn(s)' + i
       /\ PutSoFar(s) - EventsIn(s) <= PutSoFar(s)' - EventsIn(s)'
  <2>1. EventsIn(s)' \in Nat
    <3>1. Len(queues'[s]) \in Nat /\ (queues'[s] # <<>> => Len(queues'[s]) >= 1)
      BY <1>6
    <3> QED BY <3>1 DEF EventsIn, Ended
  <2>2. EventsIn(s)' <= n /\ n - EventsIn(s) <= n - EventsIn(s)'
    BY <1>5, <1>6, <2>1
  <2>3. EndIsLast(s)'
    BY <1>1, <1>6 DEF EndIsLast
  <2> QED BY <1>4, <1>5, <1>6, <2>2, <2>3
<1>11. /\ QueueIsNewest'
       /\ \A t \in Segs : EventsIn(t)' <= PutSoFar(t)'
       /\ \A t \in Segs : PutSoFar(t) - EventsIn(t) <= PutSoFar(t)' - EventsIn(t)'
  BY <1>7, <1>8, <1>9, <1>10, OneQueue
<1>12. /\ \A t \in Segs : t > seg' => Unopened(t)'
       /\ (run = "none" <=> seg = 0)' /\ registered' <= seg' /\ seg <= seg'
  BY <1>1, <1>2, <1>3, <1>9 DEF StreamInv, Unopened, Segs
<1> QED
  BY <1>1, <1>7, <1>8, <1>11, <1>12, QueueStep

\* What a connection takes is the oldest item of its queue.
LEMMA PopKeeps ==
  ASSUME StreamInv, TypeOK', NEW s \in Segs, s <= seg, queues[s] # <<>>,
         queues' = [queues EXCEPT ![s] = Tail(@)],
         UNCHANGED <<run, seg, calls, emitted>>
  PROVE  /\ CallsInOrder' /\ QueueIsNewest'
         /\ \A t \in Segs : EventsIn(t)' <= PutSoFar(t)'
         /\ \A t \in Segs : PutSoFar(t) - EventsIn(t) <= PutSoFar(t)' - EventsIn(t)'
         /\ \A t \in Segs : t > seg' => Unopened(t)'
         /\ Head(queues[s]) # End => /\ Head(queues[s]) = PutSoFar(s)' - EventsIn(s)'
                                     /\ Head(queues[s]) = PutSoFar(s) - EventsIn(s) + 1
<1>1. CallsInOrder'
  BY DEF StreamInv, CallsInOrder, Underway
<1>2. PICK n : n = PutSoFar(s)
  OBVIOUS
<1>3. n \in Nat /\ EventsIn(s) <= n /\ EventsIn(s) \in Nat /\ n = PutSoFar(s)'
  <2>1. n \in Int /\ EventsIn(s) \in Nat /\ EventsIn(s) <= n
    BY <1>2, CountsAre DEF StreamInv
  <2>2. n = PutSoFar(s)'
    BY <1>2 DEF PutSoFar, Underway
  <2> QED BY <2>1, <2>2
<1>4. /\ queues'[s] \in Seq(Items) /\ Len(queues'[s]) <= Cap
      /\ \A i \in DOMAIN queues'[s] : /\ i + 1 \in DOMAIN queues[s]
                                      /\ queues'[s][i] = queues[s][i + 1]
                                      /\ queues'[s][i] = End => i = Len(queues'[s])
      /\ EventsIn(s)' <= EventsIn(s)
      /\ \A i \in 1..EventsIn(s)' : queues'[s][i] = n - EventsIn(s)' + i
      /\ Head(queues[s]) # End => /\ EventsIn(s)' = EventsIn(s) - 1
                                  /\ Head(queues[s]) = n - EventsIn(s)'
  <2>1. /\ TypeOK /\ Len(queues[s]) <= Cap
        /\ \A i \in DOMAIN queues[s] : queues[s][i] = End => i = Len(queues[s])
        /\ \A i \in 1..EventsIn(s) : queues[s][i] = n - EventsIn(s) + i
    BY <1>2 DEF StreamInv, QueueIsNewest, EndIsLast
  <2> QED BY <1>3, <2>1, PopQueue
<1>5. EventsIn(s)' \in Nat
  <2>1. Len(queues'[s]) \in Nat /\ (queues'[s] # <<>> => Len(queues'[s]) >= 1)
    BY <1>4, SMTT(40)
  <2> QED BY <2>1 DEF EventsIn, Ended
<1>6. EndIsLast(s)'
  BY <1>4 DEF StreamInv, QueueIsNewest, EndIsLast
<1>7. \A t \in Segs \ {s} : /\ queues'[t] = queues[t] /\ PutSoFar(t)' = PutSoFar(t)
                            /\ EndIsLast(t)'
  BY DEF StreamInv, TypeOK, QueueIsNewest, PutSoFar, Underway, EndIsLast
<1>8. /\ Len(queues'[s]) <= Cap /\ EventsIn(s)' <= PutSoFar(s)'
      /\ \A i \in 1..EventsIn(s)' : queues'[s][i] = PutSoFar(s)' - EventsIn(s)' + i
      /\ PutSoFar(s) - EventsIn(s) <= PutSoFar(s)' - EventsIn(s)'
  <2>1. EventsIn(s)' <= n /\ n - EventsIn(s) <= n - EventsIn(s)'
    BY <1>3, <1>4, <1>5
  <2> QED BY <1>2, <1>3, <1>4, <2>1
<1>9. /\ QueueIsNewest'
      /\ \A t \in Segs : EventsIn(t)' <= PutSoFar(t)'
      /\ \A t \in Segs : PutSoFar(t) - EventsIn(t) <= PutSoFar(t)' - EventsIn(t)'
  BY <1>1, <1>6, <1>7, <1>8, OneQueue
<1>10. \A t \in Segs : t > seg' => Unopened(t)'
  <2>1. \A t \in Segs : t > seg => t # s
    BY BoundsAssumption DEF Segs, StreamInv, TypeOK
  <2> QED BY <1>7, <2>1 DEF StreamInv, Unopened
<1>11. ASSUME Head(queues[s]) # End
       PROVE  /\ Head(queues[s]) = PutSoFar(s)' - EventsIn(s)'
              /\ Head(queues[s]) = PutSoFar(s) - EventsIn(s) + 1
  <2>1. EventsIn(s)' = EventsIn(s) - 1 /\ Head(queues[s]) = n - EventsIn(s)'
    BY <1>4, <1>11
  <2>2. n - (EventsIn(s) - 1) = n - EventsIn(s) + 1
    BY <1>3
  <2> QED BY <1>2, <1>3, <2>1, <2>2
<1> QED
  BY <1>1, <1>9, <1>10, <1>11
LEMMA ConnectKeeps ==
  ASSUME StreamInv, NEW c \in Readers, Connect(c)
  PROVE  StreamInv'
<1>1. /\ registered \in Segs /\ registered <= seg
      /\ reader' = [reader EXCEPT ![c] = Connection(TRUE, registered, 0)]
      /\ UNCHANGED <<run, seg, registered, queues, calls, emitted>>
  BY BoundsAssumption DEF Connect, StreamInv, TypeOK, Segs
<1>2. Connection(TRUE, registered, 0) \in Connections
  BY <1>1, BoundsAssumption DEF Connection, Connections, Segs
<1>3. TypeOK'
  BY <1>1, <1>2 DEF StreamInv, TypeOK, Connection
<1>4. /\ \A t \in Segs : EventsIn(t)' = EventsIn(t) /\ PutSoFar(t)' = PutSoFar(t)
      /\ CallsInOrder' /\ QueueIsNewest'
      /\ \A t \in Segs : t > seg' => Unopened(t)'
      /\ (run = "none" <=> seg = 0)' /\ registered' <= seg'
  BY <1>1 DEF StreamInv, EventsIn, Ended, PutSoFar, Underway, CallsInOrder,
     QueueIsNewest, EndIsLast, Unopened
<1>5. \A t \in Segs : PutSoFar(t) \in Int /\ EventsIn(t) \in Nat /\ EventsIn(t) <= PutSoFar(t)
  BY CountsAre DEF StreamInv
<1>6. ASSUME NEW d \in Readers
      PROVE  ReaderIsBehind(d)'
  <2>1. CASE d = c
    <3>1. reader'[d].queue = registered /\ reader'[d].last = 0
      BY <1>1, <2>1 DEF StreamInv, TypeOK, Connection
    <3>2. \A t \in Segs : 0 <= PutSoFar(t) - EventsIn(t)
      BY <1>5
    <3> QED BY <1>1, <1>4, <3>1, <3>2 DEF ReaderIsBehind
  <2>2. CASE d # c
    <3>1. reader'[d] = reader[d]
      BY <1>1, <2>2 DEF StreamInv, TypeOK
    <3> QED BY <1>1, <1>4, <3>1 DEF StreamInv, ReaderIsBehind
  <2> QED BY <2>1, <2>2
<1> QED
  BY <1>3, <1>4, <1>5, <1>6 DEF StreamInv

\* A connection takes the oldest item of its queue, and sends it on or not.
LEMMA TakeKeeps ==
  ASSUME StreamInv, NEW c \in Readers, reader[c].open, Pop(c),
         NEW conn \in Connections, reader' = [reader EXCEPT ![c] = conn],
         conn.queue = reader[c].queue,
         conn.open => Head(queues[reader[c].queue]) # End
                      /\ conn.last = Head(queues[reader[c].queue]),
         registered' \in {0, registered},
         UNCHANGED <<run, seg, calls, emitted>>
  PROVE  StreamInv'
<1>1. PICK s \in Segs : s = reader[c].queue /\ s <= seg
  BY DEF StreamInv, TypeOK, ReaderIsBehind
<1>2. /\ queues[s] # <<>> /\ queues' = [queues EXCEPT ![s] = Tail(@)]
      /\ queues[s] \in Seq(Items) /\ seg \in Nat
  BY <1>1, BoundsAssumption DEF Pop, StreamInv, TypeOK, Items
<1>3. TypeOK'
  <2>1. Tail(queues[s]) \in Seq(Items)
    BY <1>2, HeadTailProperties
  <2>2. queues' \in [Segs -> Seq(Items)]
    BY <1>2, <2>1 DEF StreamInv, TypeOK, Items
  <2>3. reader' \in [Readers -> Connections]
    BY DEF StreamInv, TypeOK
  <2>4. \A d \in Readers : reader'[d].open => reader'[d].queue \in Segs
    BY <1>1 DEF StreamInv, TypeOK
  <2>5. registered' \in 0..MaxSegs
    BY BoundsAssumption DEF StreamInv, TypeOK
  <2> QED BY <2>2, <2>3, <2>4, <2>5 DEF StreamInv, TypeOK, Items
<1>4. /\ CallsInOrder' /\ QueueIsNewest'
      /\ \A t \in Segs : EventsIn(t)' <= PutSoFar(t)'
      /\ \A t \in Segs : PutSoFar(t) - EventsIn(t) <= PutSoFar(t)' - EventsIn(t)'
      /\ \A t \in Segs : t > seg' => Unopened(t)'
      /\ Head(queues[s]) # End => /\ Head(queues[s]) = PutSoFar(s)' - EventsIn(s)'
                                  /\ Head(queues[s]) = PutSoFar(s) - EventsIn(s) + 1
  BY <1>1, <1>2, <1>3, PopKeeps
<1>5. (run = "none" <=> seg = 0)' /\ registered' <= seg'
  BY <1>2 DEF StreamInv
<1>6. ASSUME NEW d \in Readers
      PROVE  ReaderIsBehind(d)'
  <2>1. CASE d = c
    <3>1. reader'[d] = conn
      BY <2>1 DEF StreamInv, TypeOK
    <3>2. CASE ~conn.open
      BY <3>1, <3>2 DEF ReaderIsBehind
    <3>3. CASE conn.open
      <4>1. Head(queues[s]) # End /\ conn.last = Head(queues[s]) /\ conn.queue = s
        BY <1>1, <3>3
      <4>2. Head(queues[s]) \in Int
        <5>1. Head(queues[s]) \in Items
          BY <1>2
        <5> QED BY <4>1, <5>1 DEF Items, Events
      <4>3. conn.last <= PutSoFar(s)' - EventsIn(s)'
        BY <1>4, <4>1, <4>2
      <4>4. \A t \in Segs : t = conn.queue =>
              t <= seg' /\ conn.last <= PutSoFar(t)' - EventsIn(t)'
        BY <1>1, <4>1, <4>3
      <4> QED BY <3>1, <4>4 DEF ReaderIsBehind
    <3> QED BY <3>2, <3>3
  <2>2. CASE d # c
    <3>1. reader'[d].queue = reader[d].queue /\ reader'[d].last = reader[d].last
          /\ (reader'[d].open => reader[d].open)
      BY <2>2 DEF StreamInv, TypeOK
    <3>2. seg' \in Nat /\ seg <= seg'
      BY <1>2
    <3> QED BY <1>3, <1>4, <3>1, <3>2, StillBehind
  <2> QED BY <2>1, <2>2
<1> QED
  BY <1>3, <1>4, <1>5, <1>6 DEF StreamInv

LEMMA TakeEventKeeps ==
  ASSUME StreamInv, NEW c \in Readers, TakeEvent(c)
  PROVE  /\ StreamInv'
         /\ reader'[c].queue = reader[c].queue /\ reader'[c].last > reader[c].last
         /\ \A d \in Readers \ {c} : reader'[d] = reader[d]
<1>1. PICK s \in Segs : s = reader[c].queue /\ s <= seg
  BY DEF TakeEvent, StreamInv, TypeOK, ReaderIsBehind
<1>2. PICK x : x = Head(queues[s])
  OBVIOUS
<1>3. /\ reader[c].open /\ Pop(c) /\ x # End
      /\ reader' = [reader EXCEPT ![c] = Connection(TRUE, reader[c].queue, x)]
      /\ UNCHANGED <<run, seg, registered, calls, emitted>>
  BY <1>1, <1>2 DEF TakeEvent
<1>4. x \in Events
  <2>1. queues[s] \in Seq(Items) /\ queues[s] # <<>>
    BY <1>1, <1>3 DEF Pop, StreamInv, TypeOK, Items
  <2> QED BY <1>2, <1>3, <2>1 DEF Items
<1>5. PICK conn : conn = Connection(TRUE, s, x)
  OBVIOUS
<1>6. /\ conn \in Connections /\ conn.queue = s /\ conn.last = x /\ conn.open
      /\ reader' = [reader EXCEPT ![c] = conn]
  BY <1>1, <1>3, <1>4, <1>5, BoundsAssumption DEF Connection, Connections, Segs, Events
<1>7. StreamInv'
  <2>1. registered' \in {0, registered}
    BY <1>3
  <2> QED BY <1>1, <1>2, <1>3, <1>6, <2>1, TakeKeeps
<1>8. reader[c].last < x
  <2>1. reader[c].last <= PutSoFar(s) - EventsIn(s) /\ reader[c].last \in Nat
    BY <1>1, <1>3, BoundsAssumption DEF StreamInv, TypeOK, Connections, ReaderIsBehind
  <2>2. PutSoFar(s) \in Int /\ EventsIn(s) \in Nat
    BY CountsAre DEF StreamInv
  <2>3. x = PutSoFar(s) - EventsIn(s) + 1
    <3>1. queues[s] # <<>> /\ queues' = [queues EXCEPT ![s] = Tail(@)]
      BY <1>1, <1>3 DEF Pop
    <3>2. Head(queues[s]) # End => /\ Head(queues[s]) = PutSoFar(s)' - EventsIn(s)'
                                   /\ Head(queues[s]) = PutSoFar(s) - EventsIn(s) + 1
      BY <1>1, <1>3, <1>7, <3>1, PopKeeps DEF StreamInv
    <3> QED BY <1>2, <1>3, <3>2
  <2> QED BY <2>1, <2>2, <2>3
<1>9. reader'[c] = conn /\ \A d \in Readers \ {c} : reader'[d] = reader[d]
  BY <1>6 DEF StreamInv, TypeOK
<1>10. reader[c].last \in Nat /\ x \in Nat
  BY <1>4, BoundsAssumption DEF StreamInv, TypeOK, Connections, Events
<1> QED
  BY <1>1, <1>6, <1>7, <1>8, <1>9, <1>10

\* The generator ends, or its client goes away.
LEMMA CloseKeeps ==
  ASSUME StreamInv, NEW c \in Readers, TakeEnd(c) \/ Disconnect(c)
  PROVE  /\ StreamInv'
         /\ ~reader'[c].open
         /\ \A d \in Readers \ {c} : reader'[d] = reader[d]
<1>1. PICK conn : conn = Connection(FALSE, reader[c].queue, reader[c].last)
  OBVIOUS
<1>2. /\ reader[c].open
      /\ reader' = [reader EXCEPT ![c] = conn]
      /\ registered' \in {0, registered}
      /\ UNCHANGED <<run, seg, calls, emitted>>
      /\ Pop(c) \/ UNCHANGED queues
  BY <1>1 DEF TakeEnd, Disconnect
<1>3. conn \in Connections /\ conn.queue = reader[c].queue /\ ~conn.open
      /\ conn.last = reader[c].last
  BY <1>1 DEF StreamInv, TypeOK, Connection, Connections
<1>4. reader'[c] = conn /\ \A d \in Readers \ {c} : reader'[d] = reader[d]
  BY <1>2 DEF StreamInv, TypeOK
<1>5. CASE Pop(c)
  <2>1. StreamInv'
    BY <1>2, <1>3, <1>5, TakeKeeps
  <2> QED BY <1>3, <1>4, <2>1
<1>6. CASE UNCHANGED queues
  <2>1. TypeOK' /\ seg' \in Nat /\ seg <= seg'
    BY <1>2, <1>3, <1>4, <1>6, BoundsAssumption DEF StreamInv, TypeOK
  <2>2. /\ \A t \in Segs : EventsIn(t)' = EventsIn(t) /\ PutSoFar(t)' = PutSoFar(t)
        /\ CallsInOrder' /\ QueueIsNewest'
        /\ \A t \in Segs : t > seg' => Unopened(t)'
        /\ (run = "none" <=> seg = 0)'
    BY <1>2, <1>6 DEF StreamInv, EventsIn, Ended, PutSoFar, Underway, CallsInOrder,
       QueueIsNewest, EndIsLast, Unopened
  <2>3. registered' <= seg'
    BY <1>2, BoundsAssumption DEF StreamInv, TypeOK
  <2>4. \A d \in Readers : ReaderIsBehind(d)'
    BY <1>2, <1>3, <1>4, <2>2 DEF StreamInv, ReaderIsBehind
  <2>5. \A t \in Segs : EventsIn(t)' <= PutSoFar(t)'
    BY <2>2 DEF StreamInv
  <2> QED BY <1>3, <1>4, <2>1, <2>2, <2>3, <2>4, <2>5 DEF StreamInv
<1> QED BY <1>2, <1>5, <1>6

LEMMA StreamStep == StreamInv /\ [Next]_vars => StreamInv'
<1> SUFFICES ASSUME StreamInv, [Next]_vars PROVE StreamInv'
  OBVIOUS
<1>1. ASSUME CreateRun \/ CreateRunFails \/ Resume PROVE StreamInv'
  <2>1. /\ OpenQueue /\ run # "executing" /\ run' \in {"executing", "stuck", "updating"}
        /\ UNCHANGED <<queues, calls, emitted, reader>>
    BY <1>1 DEF CreateRun, CreateRunFails, Resume
  <2>2. seg < MaxSegs
    BY <1>1, BoundsAssumption DEF StreamInv, CreateRun, CreateRunFails, Resume
  <2> QED BY <2>1, <2>2, OpenQueueKeeps
<1>2. CASE UNCHANGED vars
  <2>1. UNCHANGED <<run, seg, registered, queues, calls, emitted, reader>>
    BY <1>2 DEF vars
  <2>2. /\ TypeOK' /\ CallsInOrder' /\ QueueIsNewest' /\ registered' <= seg'
        /\ (run = "none" <=> seg = 0)'
        /\ \A t \in Segs : t > seg' => Unopened(t)'
        /\ \A t \in Segs : EventsIn(t)' <= PutSoFar(t)'
    BY <2>1 DEF StreamInv, TypeOK, EventsIn, Ended, PutSoFar, Underway, CallsInOrder,
       QueueIsNewest, EndIsLast, Unopened
  <2>3. \A c \in Readers : ReaderIsBehind(c)'
    BY <2>1 DEF StreamInv, ReaderIsBehind, EventsIn, Ended, PutSoFar, Underway
  <2> QED BY <2>2, <2>3 DEF StreamInv
<1>3. ASSUME NEW c \in Readers, Connect(c) \/ ReaderStep(c) \/ Disconnect(c)
      PROVE  StreamInv'
  BY <1>3, ConnectKeeps, TakeEventKeeps, CloseKeeps DEF ReaderStep
<1> QED
  BY <1>1, <1>2, <1>3, UpdateKeeps, EmitKeeps, InvokeReturnsKeeps, LoopStepKeeps,
     EndSegmentKeeps
  DEF Next, RunStep

\* However fast the nodes emit, whenever the segments end or are resumed, and
\* whoever connects: a queue holds the newest events in order, the sentinel last.
THEOREM StreamIsNewest == Spec => []QueueIsNewest
<1>1. StreamInv => QueueIsNewest
  BY DEF StreamInv
<1> QED
  BY InitStream, StreamStep, <1>1, PTL DEF Spec

\* A connection never sees an event twice or out of order, nor events of
\* another segment, whichever other connections take from its queue.
THEOREM ConnectionsSeeOrder == Spec => DeliveredInOrder
<1>1. ASSUME StreamInv, Next, NEW c \in Readers, reader[c].open, reader'[c].open,
             reader'[c] # reader[c]
      PROVE  reader'[c].queue = reader[c].queue /\ reader'[c].last > reader[c].last
  <2>1. PICK d \in Readers : Connect(d) \/ TakeEvent(d) \/ TakeEnd(d) \/ Disconnect(d)
    BY <1>1 DEF Next, RunStep, ReaderStep, CreateRun, CreateRunFails, Resume, UpdateState,
       UpdateStateRaises, InvokeReturns, LoopStep, EndSegment, Emit
  <2>2. d = c
    <3>1. \A e \in Readers \ {d} : reader'[e] = reader[e]
      BY <1>1, <2>1, TakeEventKeeps, CloseKeeps DEF Connect, StreamInv, TypeOK
    <3> QED BY <1>1, <3>1
  <2>3. ~Connect(d)
    BY <1>1, <2>2 DEF Connect
  <2> QED BY <1>1, <2>1, <2>2, <2>3, TakeEventKeeps, CloseKeeps
<1>2. StreamInv /\ [Next]_vars =>
        [\A c \in Readers :
           reader[c].open /\ reader'[c].open /\ reader'[c] # reader[c]
             => /\ reader'[c].queue = reader[c].queue
                /\ reader'[c].last > reader[c].last]_vars
  BY <1>1
<1> QED
  BY InitStream, StreamStep, <1>2, PTL DEF Spec, DeliveredInOrder

-----------------------------------------------------------------------------
(* Observability                                                          *)

\* The sequences of the phases, whose names are apart from all others.
LEMMA SequencesAre ==
  ASSUME NEW ph \in Phases
  PROVE  /\ Len(Sequence[ph]) \in Nat \ {0}
         /\ DOMAIN Sequence[ph] = 1..Len(Sequence[ph])
         /\ \A i, j \in 1..Len(Sequence[ph]) :
              Sequence[ph][i] = Sequence[ph][j] => i = j
         /\ \A i \in 1..Len(Sequence[ph]) :
              Sequence[ph][i] \notin
                Phases \cup {"root", "phase", "sub", "LangGraph", "none", START, END}
<1>1. CASE ph = "phase1_understanding"
  <2>1. Sequence[ph] = <<"data_analyst", "problem_framer", "validation_strategist",
                         "leakage_auditor", "analysis_critic">>
    BY <1>1 DEF Sequence
  <2> QED BY <2>1 DEF Phases, START, END
<1>2. CASE ph = "phase2_research"
  <2>1. Sequence[ph] = <<"literature_researcher", "web_researcher", "competition_analyst",
                         "memory_manager">>
    BY <1>2 DEF Sequence
  <2> QED BY <2>1 DEF Phases, START, END
<1>3. CASE ph = "phase3_baseline"
  <2>1. Sequence[ph] = <<"baseline_designer", "baseline_runner">>
    BY <1>3 DEF Sequence
  <2> QED BY <2>1 DEF Phases, START, END
<1>4. CASE ph = "phase4_design"
  <2>1. Sequence[ph] = <<"solution_architect", "feature_engineer", "analysis_critic">>
    BY <1>4 DEF Sequence
  <2> QED BY <2>1 DEF Phases, START, END
<1>5. CASE ph = "phase5_implementation"
  <2>1. Sequence[ph] = <<"specialist_selector", "coder", "code_critic">>
    BY <1>5 DEF Sequence
  <2> QED BY <2>1 DEF Phases, START, END
<1>6. CASE ph = "phase6_evaluation"
  <2>1. Sequence[ph] = <<"score_evaluator", "feature_importance_extractor", "error_analyst",
                         "hypothesis_generator", "experiment_designer">>
    BY <1>6 DEF Sequence
  <2> QED BY <2>1 DEF Phases, START, END
<1>7. CASE ph = "phase7_delivery"
  <2>1. Sequence[ph] = <<"reviewer", "report_writer", "kaggle_client">>
    BY <1>7 DEF Sequence
  <2> QED BY <2>1 DEF Phases, START, END
<1> QED
  BY <1>1, <1>2, <1>3, <1>4, <1>5, <1>6, <1>7 DEF Phases

\* The edges between two nodes of a phase, and those into its first superstep.
LEMMA EdgesGoForward ==
  ASSUME NEW ph \in Phases, NEW seq, seq = Sequence[ph],
         NEW par, par = ParallelNodes(ph), NEW e \in Edges(ph), e[2] # END
  PROVE  \/ /\ e[1] = START
            /\ \E k \in 1..Len(seq) :
                 e[2] = seq[k] /\ (k = 1 \/ (seq[k] \in par /\ seq[1] \in par))
         \/ \E i, k \in 1..Len(seq) :
              /\ e = <<seq[i], seq[k]>> /\ i < k
              /\ \/ seq[k] \notin par /\ k = i + 1 /\ seq[i] \notin par
                 \/ /\ seq[k] \notin par /\ seq[i] \in par
                    /\ \A m \in 1..Len(seq) : seq[m] \in par => m < k
                    /\ seq[k - 1] \in par
                 \/ /\ seq[k] \in par /\ seq[i] \notin par
                    /\ \A m \in 1..Len(seq) : seq[m] \in par => i < m
                    /\ seq[i + 1] \in par
<1>1. Len(seq) \in Nat \ {0} /\ DOMAIN seq = 1..Len(seq)
  BY SequencesAre
<1>2. Block(seq, par) = {i \in 1..Len(seq) : seq[i] \in par}
  BY DEF Block
<1>3. CASE e \in PairEdges(seq, par)
  <2>1. PICK i \in 1..(Len(seq) - 1) :
          e = <<seq[i], seq[i + 1]>> /\ seq[i] \notin par /\ seq[i + 1] \notin par
    BY <1>3 DEF PairEdges
  <2>2. i \in 1..Len(seq) /\ i + 1 \in 1..Len(seq) /\ i < i + 1
    BY <1>1
  <2> QED BY <2>1, <2>2
<1> DEFINE block == Block(seq, par)
           first == {i \in block : \A b \in block : i <= b}
           last == {i \in block : \A b \in block : b <= i}
<1>4. ASSUME NEW i \in first, NEW k \in block, e = <<Before(seq, i), seq[k]>>
      PROVE  \/ /\ e[1] = START
                /\ \E l \in 1..Len(seq) :
                     e[2] = seq[l] /\ (l = 1 \/ (seq[l] \in par /\ seq[1] \in par))
             \/ \E h, l \in 1..Len(seq) :
                  /\ e = <<seq[h], seq[l]>> /\ h < l
                  /\ seq[l] \in par /\ seq[h] \notin par
                  /\ \A m \in 1..Len(seq) : seq[m] \in par => h < m
                  /\ seq[h + 1] \in par
  <2>1. /\ i \in 1..Len(seq) /\ k \in 1..Len(seq) /\ seq[i] \in par /\ seq[k] \in par
        /\ \A m \in 1..Len(seq) : seq[m] \in par => i <= m
    BY <1>2
  <2>2. CASE i > 1
    <3>1. i - 1 \in 1..Len(seq) /\ (i - 1) + 1 = i
      BY <1>1, <2>1, <2>2
    <3>2. e = <<seq[i - 1], seq[k]>>
      BY <1>4, <2>2 DEF Before
    <3>3. seq[i - 1] \notin par
      BY <2>1, <3>1
    <3>4. i - 1 < k /\ \A m \in 1..Len(seq) : seq[m] \in par => i - 1 < m
      BY <1>1, <2>1
    <3> QED BY <2>1, <3>1, <3>2, <3>3, <3>4
  <2>3. CASE ~(i > 1)
    <3>1. i = 1 /\ e = <<START, seq[k]>>
      BY <1>4, <2>1, <2>3 DEF Before
    <3> QED BY <2>1, <3>1
  <2> QED BY <2>2, <2>3
<1>5. ASSUME NEW j \in last, NEW k \in block, e = <<seq[k], After(seq, j)>>
      PROVE  \E h, l \in 1..Len(seq) :
               /\ e = <<seq[h], seq[l]>> /\ h < l
               /\ seq[l] \notin par /\ seq[h] \in par
               /\ \A m \in 1..Len(seq) : seq[m] \in par => m < l
               /\ seq[l - 1] \in par
  <2>1. /\ j \in 1..Len(seq) /\ k \in 1..Len(seq) /\ seq[j] \in par /\ seq[k] \in par
        /\ \A m \in 1..Len(seq) : seq[m] \in par => m <= j
    BY <1>2
  <2>2. j < Len(seq)
    <3>1. j >= Len(seq) => After(seq, j) = END
      BY <1>1, <2>1 DEF After
    <3> QED BY <1>1, <1>5, <2>1, <3>1
  <2>3. e = <<seq[k], seq[j + 1]>>
    BY <1>5, <2>2 DEF After
  <2>4. j + 1 \in 1..Len(seq) /\ (j + 1) - 1 = j /\ k < j + 1
    BY <1>1, <2>1, <2>2
  <2>5. seq[j + 1] \notin par
    BY <2>1, <2>4
  <2>6. \A m \in 1..Len(seq) : seq[m] \in par => m < j + 1
    BY <2>1
  <2> QED BY <2>1, <2>3, <2>4, <2>5, <2>6
<1>6. CASE e \in BlockEdges(seq, par)
  <2>1. e \in {<<Before(seq, i), seq[k]>> : i \in first, k \in block}
          \cup {<<seq[k], After(seq, j)>> : j \in last, k \in block}
    BY <1>6 DEF BlockEdges
  <2> HIDE DEF first, last, block
  <2> QED BY <2>1, <1>4, <1>5
<1>7. CASE e = <<START, seq[1]>>
  <2>1. 1 \in 1..Len(seq)
    BY <1>1
  <2>2. e[1] = START /\ e[2] = seq[1]
    BY <1>7
  <2> QED BY <2>1, <2>2
<1>8. CASE e = <<seq[Len(seq)], END>>
  BY <1>8
<1>9. \/ e \in PairEdges(seq, par) \/ e \in BlockEdges(seq, par)
      \/ e = <<START, seq[1]>> \/ e = <<seq[Len(seq)], END>>
  BY DEF Edges
<1> QED
  BY <1>3, <1>6, <1>7, <1>8, <1>9

\* A superstep behind nodes that may run together is one of such nodes again,
\* and none of them lies before, or beside, those it follows.
LEMMA SuccessorsGoForward ==
  ASSUME NEW ph \in Phases, NEW seq, seq = Sequence[ph],
         NEW par, par = ParallelNodes(ph), NEW S \in SUBSET NodesOf(ph),
         \A n, m \in S : n = m \/ {n, m} \subseteq par
  PROVE  /\ Successors(ph, S) \subseteq NodesOf(ph)
         /\ \A n, m \in Successors(ph, S) : n = m \/ {n, m} \subseteq par
         /\ \A m \in 1..Len(seq) : seq[m] \in Successors(ph, S) =>
              \E i \in 1..Len(seq) :
                i < m /\ seq[i] \in S /\ ~(seq[i] \in par /\ seq[m] \in par)
<1>1. /\ Len(seq) \in Nat \ {0} /\ DOMAIN seq = 1..Len(seq)
      /\ \A i, j \in 1..Len(seq) : seq[i] = seq[j] => i = j
      /\ \A i \in 1..Len(seq) : seq[i] # START
  BY SequencesAre
<1>2. NodesOf(ph) = {seq[i] : i \in 1..Len(seq)}
  BY <1>1 DEF NodesOf, Range
<1> DEFINE Chain(i, k) == seq[k] \notin par /\ k = i + 1 /\ seq[i] \notin par
           Out(i, k) == /\ seq[k] \notin par /\ seq[i] \in par
                        /\ \A m \in 1..Len(seq) : seq[m] \in par => m < k
                        /\ seq[k - 1] \in par
           In(i, k) == /\ seq[k] \in par /\ seq[i] \notin par
                       /\ \A m \in 1..Len(seq) : seq[m] \in par => i < m
                       /\ seq[i + 1] \in par
           Edge(i, k) == i < k /\ (Chain(i, k) \/ Out(i, k) \/ In(i, k))
<1>0. ASSUME NEW e \in Edges(ph), e[2] # END, e[1] # START
      PROVE  \E i, k \in 1..Len(seq) : e = <<seq[i], seq[k]>> /\ Edge(i, k)
  BY <1>0, EdgesGoForward, SMTT(40)
<1> HIDE DEF Edge
<1>3. ASSUME NEW n \in Successors(ph, S)
      PROVE  \E i, k \in 1..Len(seq) : seq[i] \in S /\ n = seq[k] /\ Edge(i, k)
  <2>1. PICK e \in Edges(ph) : e[1] \in S /\ e[2] = n /\ n # END
    BY DEF Successors
  <2>2. e[1] # START
    BY <1>1, <1>2, <2>1
  <2>3. PICK i, k \in 1..Len(seq) : e = <<seq[i], seq[k]>> /\ Edge(i, k)
    BY <1>0, <2>1, <2>2
  <2>4. e[1] = seq[i] /\ e[2] = seq[k]
    BY <2>3
  <2> QED BY <2>1, <2>3, <2>4
<1> USE DEF Edge
<1>4. ASSUME NEW i \in 1..Len(seq), NEW k \in 1..Len(seq), Edge(i, k),
             NEW j \in 1..Len(seq), NEW l \in 1..Len(seq), Edge(j, l),
             seq[i] \in S, seq[j] \in S
      PROVE  seq[k] = seq[l] \/ {seq[k], seq[l]} \subseteq par
  <2>1. i = j \/ (seq[i] \in par /\ seq[j] \in par)
    BY <1>1, <1>4
  <2>2. CASE Chain(i, k)
    <3>1. i = j
      BY <2>1, <2>2
    <3>2. k = i + 1 /\ ~Out(j, l) /\ ~In(j, l)
      BY <2>2, <3>1
    <3> QED BY <1>4, <3>1, <3>2
  <2>3. CASE Out(i, k)
    <3>1. Out(j, l)
      BY <1>4, <2>1, <2>3
    <3>2. k - 1 \in 1..Len(seq) /\ l - 1 \in 1..Len(seq)
      BY <1>1, <1>4, SMTT(40)
    <3>3. k - 1 < l /\ l - 1 < k
      BY <2>3, <3>1, <3>2
    <3>4. k = l
      BY <1>1, <3>3
    <3> QED BY <3>4
  <2>4. CASE In(i, k)
    <3>1. i = j
      BY <2>1, <2>4
    <3>2. In(j, l)
      BY <1>4, <2>4, <3>1
    <3> QED BY <2>4, <3>2
  <2> QED BY <1>4, <2>2, <2>3, <2>4
<1>5. \A i, k \in 1..Len(seq) :
        Edge(i, k) => i < k /\ ~(seq[i] \in par /\ seq[k] \in par)
  OBVIOUS
<1> HIDE DEF Edge
<1>6. Successors(ph, S) \subseteq NodesOf(ph)
  BY <1>2, <1>3
<1>7. \A n, m \in Successors(ph, S) : n = m \/ {n, m} \subseteq par
  <2> SUFFICES ASSUME NEW n \in Successors(ph, S), NEW m \in Successors(ph, S)
               PROVE  n = m \/ {n, m} \subseteq par
    OBVIOUS
  <2>1. PICK i, k \in 1..Len(seq) : seq[i] \in S /\ n = seq[k] /\ Edge(i, k)
    BY <1>3
  <2>2. PICK j, l \in 1..Len(seq) : seq[j] \in S /\ m = seq[l] /\ Edge(j, l)
    BY <1>3
  <2>3. seq[k] = seq[l] \/ {seq[k], seq[l]} \subseteq par
    BY <1>4, <2>1, <2>2
  <2> QED BY <2>1, <2>2, <2>3
<1>8. ASSUME NEW m \in 1..Len(seq), seq[m] \in Successors(ph, S)
      PROVE  \E i \in 1..Len(seq) :
               i < m /\ seq[i] \in S /\ ~(seq[i] \in par /\ seq[m] \in par)
  <2>1. PICK i, k \in 1..Len(seq) : seq[i] \in S /\ seq[m] = seq[k] /\ Edge(i, k)
    BY <1>3, <1>8
  <2>2. m = k
    BY <1>1, <2>1
  <2> QED BY <1>5, <2>1, <2>2
<1> QED
  BY <1>6, <1>7, <1>8

\* The first superstep of a phase.
LEMMA EntryIsOne ==
  ASSUME NEW ph \in Phases, NEW par, par = ParallelNodes(ph)
  PROVE  /\ Entry(ph) \subseteq NodesOf(ph)
         /\ \A n, m \in Entry(ph) : n = m \/ {n, m} \subseteq par
<1> DEFINE seq == Sequence[ph]
<1>1. /\ Len(seq) \in Nat \ {0} /\ DOMAIN seq = 1..Len(seq)
      /\ \A i \in 1..Len(seq) : seq[i] # START
  BY SequencesAre
<1>2. NodesOf(ph) = {seq[i] : i \in 1..Len(seq)}
  BY <1>1 DEF NodesOf, Range
<1>3. ASSUME NEW n \in Entry(ph)
      PROVE  \E k \in 1..Len(seq) :
               n = seq[k] /\ (k = 1 \/ (seq[k] \in par /\ seq[1] \in par))
  <2>1. PICK e \in Edges(ph) : e[1] = START /\ e[2] = n /\ n # END
    BY DEF Entry, Successors
  <2>2. \A i, k \in 1..Len(seq) : e # <<seq[i], seq[k]>>
    <3>1. ASSUME NEW i \in 1..Len(seq), NEW k \in 1..Len(seq), e = <<seq[i], seq[k]>>
          PROVE  FALSE
      <4>1. e[1] = seq[i]
        BY <3>1
      <4> QED BY <1>1, <2>1, <4>1
    <3> QED BY <3>1
  <2> HIDE DEF seq
  <2>3. seq = Sequence[ph]
    BY DEF seq
  <2> QED BY <2>1, <2>2, <2>3, EdgesGoForward
<1> HIDE DEF seq
<1> QED
  BY <1>1, <1>2, <1>3

-----------------------------------------------------------------------------
(* Iterations                                                              *)

LEMMA PlanIs ==
  /\ Len(Plan) \in Nat \ {0} /\ DOMAIN Plan = 1..Len(Plan)
  /\ \A p \in 1..Len(Plan) : Plan[p] \in Phases
BY PlanAssumption

LEMMA IterationsCount ==
  /\ \A p \in 1..(Len(Plan) + 1) : IterationAt[p] \in Nat
  /\ \A p, q \in 1..(Len(Plan) + 1) : p <= q => IterationAt[p] <= IterationAt[q]
  /\ \A p \in 1..Len(Plan) :
       IterationAt[p + 1] = IterationAt[p] + IF Plan[p] = "phase6_evaluation" THEN 1 ELSE 0
<1> DEFINE Sixes(p) == {q \in 1..(p - 1) : Plan[q] = "phase6_evaluation"}
<1>1. \A p \in 1..(Len(Plan) + 1) : IterationAt[p] = Cardinality(Sixes(p))
  BY DEF IterationAt
<1>2. ASSUME NEW p \in 1..(Len(Plan) + 1) PROVE IsFiniteSet(Sixes(p))
  <2>1. 1 \in Int /\ p - 1 \in Int
    BY PlanIs
  <2>2. IsFiniteSet(1..(p - 1))
    BY <2>1, FS_Interval
  <2> QED BY <2>2, FS_Subset
<1>3. \A p, q \in 1..(Len(Plan) + 1) : p <= q => Sixes(p) \in SUBSET Sixes(q)
  BY PlanIs
<1>4. ASSUME NEW p \in 1..Len(Plan)
      PROVE  /\ p + 1 \in 1..(Len(Plan) + 1) /\ p \in 1..(Len(Plan) + 1) /\ p \notin Sixes(p)
             /\ Sixes(p + 1) = IF Plan[p] = "phase6_evaluation" THEN Sixes(p) \cup {p}
                               ELSE Sixes(p)
  <2>1. p \in Nat /\ p + 1 - 1 = p /\ 1..p = (1..(p - 1)) \cup {p} /\ p \notin 1..(p - 1)
    BY PlanIs
  <2>2. Sixes(p + 1) = {q \in (1..(p - 1)) \cup {p} : Plan[q] = "phase6_evaluation"}
    BY <2>1
  <2>3. Sixes(p + 1) = IF Plan[p] = "phase6_evaluation" THEN Sixes(p) \cup {p} ELSE Sixes(p)
    BY <2>2
  <2>4. p + 1 \in 1..(Len(Plan) + 1) /\ p \in 1..(Len(Plan) + 1)
    BY PlanIs
  <2> QED BY <2>1, <2>3, <2>4
<1> HIDE DEF Sixes
<1>5. \A p \in 1..(Len(Plan) + 1) : IterationAt[p] \in Nat
  BY <1>1, <1>2, FS_CardinalityType
<1>6. ASSUME NEW p \in 1..(Len(Plan) + 1), NEW q \in 1..(Len(Plan) + 1), p <= q
      PROVE  IterationAt[p] <= IterationAt[q]
  <2>1. Cardinality(Sixes(p)) <= Cardinality(Sixes(q))
    BY <1>2, <1>3, <1>6, FS_Subset
  <2> QED BY <1>1, <2>1
<1>7. ASSUME NEW p \in 1..Len(Plan)
      PROVE  IterationAt[p + 1]
               = IterationAt[p] + IF Plan[p] = "phase6_evaluation" THEN 1 ELSE 0
  <2>1. IsFiniteSet(Sixes(p)) /\ IterationAt[p] \in Nat
    BY <1>2, <1>4, <1>5
  <2>2. Cardinality(Sixes(p) \cup {p}) = Cardinality(Sixes(p)) + 1
    BY <1>4, <2>1, FS_AddElement
  <2>3. IterationAt[p + 1] = Cardinality(Sixes(p + 1)) /\ IterationAt[p] = Cardinality(Sixes(p))
    BY <1>1, <1>4
  <2>4. CASE Plan[p] = "phase6_evaluation"
    BY <1>4, <2>2, <2>3, <2>4
  <2>5. CASE Plan[p] # "phase6_evaluation"
    <3>1. Sixes(p + 1) = Sixes(p)
      BY <1>4, <2>5
    <3>2. IterationAt[p + 1] = IterationAt[p]
      BY <2>3, <3>1
    <3> QED BY <2>1, <2>5, <3>2
  <2> QED BY <2>4, <2>5
<1>8. \A p, q \in 1..(Len(Plan) + 1) : p <= q => IterationAt[p] <= IterationAt[q]
  BY <1>6
<1>9. \A p \in 1..Len(Plan) :
        IterationAt[p + 1] = IterationAt[p] + IF Plan[p] = "phase6_evaluation" THEN 1 ELSE 0
  BY <1>7
<1> QED
  BY <1>5, <1>8, <1>9

\* The phases of an iteration in the order of the graph.
Rank == [phase1_understanding |-> 1, phase2_research |-> 2, phase3_baseline |-> 3,
         phase4_design |-> 4, phase5_implementation |-> 5, phase6_evaluation |-> 6,
         phase7_delivery |-> 7]

\* In an earlier iteration, or in an earlier phase of the same one.
Precedes(p, q) ==
    \/ IterationAt[p] < IterationAt[q]
    \/ IterationAt[p] = IterationAt[q] /\ Rank[Plan[p]] < Rank[Plan[q]]

LEMMA RankIs == \A ph \in Phases : Rank[ph] \in Nat
BY DEF Phases, Rank

LEMMA OneStepOfThePlan ==
  ASSUME NEW p \in 1..(Len(Plan) - 1)
  PROVE  Precedes(p, p + 1)
<1>1. p \in 1..Len(Plan) /\ p + 1 \in 1..Len(Plan) /\ p \in 1..(Len(Plan) + 1)
  BY PlanIs
<1>2. Plan[p] \in Phases /\ Plan[p + 1] \in Phases /\ IterationAt[p] \in Nat
  BY <1>1, PlanIs, IterationsCount
<1>3. PICK stale \in {0, 1} : Plan[p + 1] = Route(Plan[p], IterationAt[p], stale, 1)
  BY PlanAssumption
<1>4. IterationAt[p + 1] = IterationAt[p] + IF Plan[p] = "phase6_evaluation" THEN 1 ELSE 0
  BY <1>1, IterationsCount
<1>5. CASE Plan[p] = "phase6_evaluation"
  BY <1>2, <1>4, <1>5 DEF Precedes
<1>6. CASE Plan[p] = "phase7_delivery"
  <2>1. Plan[p + 1] = END
    BY <1>3, <1>6 DEF Route
  <2> QED BY <1>2, <2>1 DEF Phases, END
<1>7. CASE Plan[p] \notin {"phase6_evaluation", "phase7_delivery"}
  <2>1. IterationAt[p + 1] = IterationAt[p]
    BY <1>2, <1>4, <1>7
  <2>2. Rank[Plan[p]] < Rank[Plan[p + 1]]
    BY <1>2, <1>3, <1>7 DEF Route, Rank, Phases
  <2> QED BY <2>1, <2>2 DEF Precedes
<1> QED
  BY <1>5, <1>6, <1>7

\* Whatever comes later in the plan is of a later iteration or phase: shown for
\* the least position this would not hold of.
LEMMA PlanGoesForward ==
  ASSUME NEW p \in 1..Len(Plan), NEW q \in 1..Len(Plan), p < q
  PROVE  Precedes(p, q)
<1> DEFINE bad == {r \in 1..Len(Plan) : p < r /\ ~Precedes(p, r)}
           R == OpToRel(<, Nat)
<1> SUFFICES ASSUME bad # {} PROVE FALSE
  OBVIOUS
<1>1. IsWellFoundedOn(R, Nat)
  BY NatLessThanWellFounded
<1>2. \A x, y \in Nat : <<x, y>> \in R <=> x < y
  BY DEF OpToRel
<1>3. bad \in SUBSET Nat
  OBVIOUS
<1> HIDE DEF R, bad
<1>4. PICK r \in bad : \A y \in bad : ~(<<y, r>> \in R)
  BY <1>1, <1>3, WFMin
<1>5. r \in 1..Len(Plan) /\ p < r /\ ~Precedes(p, r) /\ p \in Nat /\ r \in Nat
  BY <1>4 DEF bad
<1>6. r - 1 \in 1..(Len(Plan) - 1) /\ r - 1 \in Nat /\ r - 1 < r /\ r - 1 + 1 = r
  BY <1>5, PlanIs
<1>7. Precedes(r - 1, r)
  BY <1>6, OneStepOfThePlan
<1>8. CASE r - 1 = p
  BY <1>5, <1>7, <1>8
<1>9. CASE r - 1 # p
  <2>1. p < r - 1 /\ r - 1 \in 1..Len(Plan)
    BY <1>5, <1>6, <1>9, PlanIs
  <2>2. r - 1 \notin bad
    BY <1>2, <1>3, <1>4, <1>5, <1>6
  <2>3. Precedes(p, r - 1)
    BY <2>1, <2>2 DEF bad
  <2> DEFINE m == r - 1
  <2>4. m \in 1..Len(Plan) /\ Precedes(p, m) /\ Precedes(m, r)
    BY <1>7, <2>1, <2>3
  <2> HIDE DEF m
  <2>5. /\ Plan[p] \in Phases /\ Plan[m] \in Phases /\ Plan[r] \in Phases
        /\ p \in 1..(Len(Plan) + 1) /\ m \in 1..(Len(Plan) + 1) /\ r \in 1..(Len(Plan) + 1)
    BY <1>5, <2>4, PlanIs
  <2>6. /\ IterationAt[p] \in Nat /\ IterationAt[m] \in Nat /\ IterationAt[r] \in Nat
        /\ Rank[Plan[p]] \in Nat /\ Rank[Plan[m]] \in Nat /\ Rank[Plan[r]] \in Nat
    BY <2>5, IterationsCount, RankIs, SMTT(40)
  <2>7. Precedes(p, r)
    BY <2>4, <2>6, SMTT(40) DEF Precedes
  <2> QED BY <1>5, <2>7
<1> QED
  BY <1>8, <1>9

\* So a phase and an iteration tell the position in the plan.
LEMMA OnePosition ==
  ASSUME NEW p \in 1..Len(Plan), NEW q \in 1..Len(Plan),
         Plan[p] = Plan[q], IterationAt[p] = IterationAt[q]
  PROVE  p = q
<1>1. /\ p \in 1..(Len(Plan) + 1) /\ Plan[p] \in Phases /\ p \in Nat /\ q \in Nat
  BY PlanIs
<1>2. IterationAt[p] \in Nat /\ Rank[Plan[p]] \in Nat
  BY <1>1, IterationsCount, RankIs
<1>3. ~Precedes(p, q) /\ ~Precedes(q, p)
  BY <1>2 DEF Precedes
<1>4. ~(p < q) /\ ~(q < p)
  BY <1>3, PlanGoesForward
<1> QED
  BY <1>1, <1>4

-----------------------------------------------------------------------------
(* The graph and the handler                                               *)

\* Chain runs have their names.
LEMMA NodeNames ==
  ASSUME NEW p \in 1..Len(Plan), NEW n \in NodesOf(Plan[p])
  PROVE  /\ n \in PlanNodes
         /\ n \notin Phases \cup {"root", "phase", "sub", "LangGraph", "none", START, END}
<1>1. Plan[p] \in Phases /\ DOMAIN Plan = 1..Len(Plan)
  BY PlanAssumption
<1>2. PICK i \in 1..Len(Sequence[Plan[p]]) : n = Sequence[Plan[p]][i]
  BY <1>1, SequencesAre DEF NodesOf, Range
<1>3. n \in {Sequence[Plan[p]][j] : j \in 1..Len(Sequence[Plan[p]])}
  BY <1>2
<1>4. Plan[p] \in Range(Plan)
  BY <1>1 DEF Range
<1> QED
  BY <1>1, <1>2, <1>3, <1>4, SequencesAre DEF PlanNodes

LEMMA RealEvents ==
  /\ \A p \in 1..Len(Plan) :
       /\ Plan[p] \in Phases
       /\ IsRealNodeEvent(<<p, "phase">>) /\ NameOf(<<p, "phase">>) = Plan[p]
       /\ ~IsRealNodeEvent(<<p, "root">>) /\ ~IsRealNodeEvent(<<p, "sub">>)
  /\ \A c \in NodeRuns :
       /\ IsRealNodeEvent(c) /\ NameOf(c) = c[2]
       /\ c[1] \in 1..Len(Plan) /\ c[2] \in PlanNodes /\ c = <<c[1], c[2]>>
       /\ c[2] \in NodesOf(Plan[c[1]])
       /\ c[2] \notin Phases \cup {"root", "phase", "sub"}
<1>1. ASSUME NEW p \in 1..Len(Plan)
      PROVE  /\ Plan[p] \in Phases
             /\ IsRealNodeEvent(<<p, "phase">>) /\ NameOf(<<p, "phase">>) = Plan[p]
             /\ ~IsRealNodeEvent(<<p, "root">>) /\ ~IsRealNodeEvent(<<p, "sub">>)
  <2>1. Plan[p] \in Phases
    BY PlanAssumption
  <2>2. NameOf(<<p, "phase">>) = Plan[p] /\ LangGraphNode(<<p, "phase">>) = Plan[p]
    BY DEF NameOf, LangGraphNode
  <2>3. NameOf(<<p, "root">>) = "LangGraph" /\ LangGraphNode(<<p, "root">>) = "none"
    BY DEF NameOf, LangGraphNode
  <2>4. NameOf(<<p, "sub">>) = "LangGraph" /\ LangGraphNode(<<p, "sub">>) = Plan[p]
    BY DEF NameOf, LangGraphNode
  <2>5. Plan[p] # "LangGraph"
    BY <2>1 DEF Phases
  <2> QED BY <2>1, <2>2, <2>3, <2>4, <2>5 DEF IsRealNodeEvent
<1>2. ASSUME NEW c \in NodeRuns
      PROVE  /\ IsRealNodeEvent(c) /\ NameOf(c) = c[2]
             /\ c[1] \in 1..Len(Plan) /\ c[2] \in PlanNodes /\ c = <<c[1], c[2]>>
             /\ c[2] \in NodesOf(Plan[c[1]])
             /\ c[2] \notin Phases \cup {"root", "phase", "sub"}
  <2>1. /\ c[1] \in 1..Len(Plan) /\ c[2] \in PlanNodes /\ c = <<c[1], c[2]>>
        /\ c[2] \in NodesOf(Plan[c[1]])
    BY DEF NodeRuns
  <2>2. c[2] \notin Phases \cup {"root", "phase", "sub"}
    BY <2>1, NodeNames
  <2>3. NameOf(c) = c[2] /\ LangGraphNode(c) = c[2]
    BY <2>2 DEF NameOf, LangGraphNode
  <2> QED BY <2>1, <2>2, <2>3 DEF IsRealNodeEvent
<1> QED BY <1>1, <1>2

LEMMA InitGraph == LogInit => GraphInv
<1> SUFFICES ASSUME LogInit PROVE GraphInv
  OBVIOUS
<1>1. /\ pos = 1 /\ turn = "segment" /\ todo = {} /\ ran = {} /\ open = {} /\ calling = {}
      /\ reported = <<>> /\ DOMAIN reported = {}
  BY DEF LogInit
<1>2. 1 \in 1..(Len(Plan) + 1)
  BY PlanAssumption
<1> QED
  BY <1>1, <1>2 DEF GraphInv, RunsNest, Forward

\* What a node at work is.
LEMMA AtWork ==
  ASSUME GraphInv, turn # "segment"
  PROVE  /\ pos \in 1..Len(Plan) /\ Plan[pos] \in Phases
         /\ \A n \in todo : /\ turn = "nodes" /\ n \in NodesOf(Plan[pos])
                            /\ n \in PlanNodes /\ n \notin {"root", "phase", "sub"}
                            /\ RunOf(n) \in NodeRuns
                            /\ RunOf(n) \in open <=> n \in Working
<1>1. pos \in 1..Len(Plan)
  BY PlanAssumption DEF GraphInv
<1>2. Plan[pos] \in Phases
  BY <1>1, PlanAssumption
<1>3. ASSUME NEW n \in todo
      PROVE  /\ turn = "nodes" /\ n \in NodesOf(Plan[pos])
             /\ n \in PlanNodes /\ n \notin {"root", "phase", "sub"}
             /\ RunOf(n) \in NodeRuns
             /\ RunOf(n) \in open <=> n \in Working
  <2>1. turn = "nodes"
    BY DEF GraphInv
  <2>2. n \in NodesOf(Plan[pos])
    BY <2>1 DEF GraphInv, Forward, GoesForward
  <2>3. n \in PlanNodes /\ n \notin {"root", "phase", "sub"}
    BY <1>1, <2>2, NodeNames
  <2>4. RunOf(n) \in NodeRuns
    BY <1>1, <2>2, <2>3 DEF RunOf, NodeRuns
  <2>5. PICK p \in 1..pos : open = OpenBelow(p)
    BY <2>1 DEF GraphInv, RunsNest
  <2>6. RunOf(n) \in open <=> n \in Working
    BY <2>3, <2>5 DEF OpenBelow, RunOf
  <2> QED BY <2>1, <2>2, <2>3, <2>4, <2>6
<1> QED
  BY <1>1, <1>2, <1>3

\* LLM calls disturb nothing of this.
LEMMA QuietGraph ==
  ASSUME GraphInv, UNCHANGED <<pos, turn, todo, ran, open>>,
         DOMAIN reported' = DOMAIN reported,
         \A c \in DOMAIN reported : reported'[c] \in Seq(Nat \cup {Unknown}),
         calling' \subseteq Working
  PROVE  GraphInv'
<1>1. Working' = Working
  BY DEF Working, RunOf
<1>2. \A p \in 1..pos : OpenBelow(p)' = OpenBelow(p)
  BY <1>1 DEF OpenBelow, RunOf
<1>3. RunsNest'
  BY <1>2 DEF GraphInv, RunsNest
<1>4. Forward'
  <2>1. {n \in NodesOf(Plan[pos]) : <<pos, n>> \in DOMAIN reported}
          = {n \in NodesOf(Plan[pos]) : <<pos, n>> \in DOMAIN reported'}
    OBVIOUS
  <2> QED BY <2>1 DEF GraphInv, Forward, RunOf
<1>5. \A c \in DOMAIN reported' :
        /\ c \in NodeRuns /\ reported'[c] \in Seq(Nat \cup {Unknown})
        /\ c[1] < pos \/ (c[1] = pos /\ turn \in {"nodes", "phase_end", "root_end"})
  BY DEF GraphInv
<1>6. calling' \subseteq Working'
  BY <1>1
<1>7. /\ pos \in 1..(Len(Plan) + 1)
      /\ turn \in {"segment", "phase", "sub", "nodes", "phase_end", "root_end"}
      /\ turn # "segment" => pos <= Len(Plan)
      /\ turn # "nodes" => todo = {} /\ ran = {}
  BY DEF GraphInv
<1> HIDE DEF GraphInv
<1> QED
  BY <1>3, <1>4, <1>5, <1>6, <1>7 DEF GraphInv

LEMMA BeginSegmentGraph ==
  ASSUME GraphInv, BeginSegment
  PROVE  GraphInv'
<1>1. /\ turn = "segment" /\ pos <= Len(Plan) /\ open' = {<<pos, "root">>}
      /\ turn' = "phase" /\ UNCHANGED <<pos, todo, ran, calling, reported>>
  BY DEF BeginSegment, RunOf
<1>2. todo = {} /\ ran = {} /\ Working = {} /\ Working' = {}
  BY <1>1 DEF GraphInv, Working
<1>3. OpenBelow(pos)' = {<<pos, "root">>}
  BY <1>1, <1>2 DEF OpenBelow
<1>4. RunsNest'
  <2>1. pos \in 1..pos
    BY DEF GraphInv
  <2> QED BY <1>1, <1>2, <2>1 DEF RunsNest, OpenBelow
<1>5. Forward'
  BY <1>1 DEF Forward
<1>6. \A c \in DOMAIN reported : c[1] < pos
  BY <1>1 DEF GraphInv
<1> QED
  BY <1>1, <1>2, <1>4, <1>5, <1>6 DEF GraphInv

LEMMA EnterPhaseGraph ==
  ASSUME GraphInv, EnterPhase
  PROVE  GraphInv'
<1>1. /\ turn = "phase" /\ open' = open \cup {<<pos, "phase">>}
      /\ turn' = "sub" /\ UNCHANGED <<pos, todo, ran, calling, reported>>
  BY DEF EnterPhase, RunOf
<1>2. todo = {} /\ ran = {} /\ Working = {} /\ Working' = {}
  BY <1>1 DEF GraphInv, Working
<1>3. RunsNest'
  <2>1. PICK p \in 1..pos : open = OpenBelow(p)
    BY <1>1 DEF GraphInv, RunsNest
  <2>2. open = {<<p, "root">>}
    BY <1>1, <1>2, <2>1 DEF OpenBelow
  <2>3. open' = {<<p, "root">>} \cup {<<pos, "phase">>}
    BY <1>1, <2>2
  <2>4. OpenBelow(p)' = {<<p, "root">>} \cup {<<pos, "phase">>}
    BY <1>1, <1>2 DEF OpenBelow, RunOf
  <2> QED BY <1>1, <2>3, <2>4 DEF RunsNest
<1>4. Forward'
  BY <1>1 DEF Forward
<1>5. \A c \in DOMAIN reported : c[1] < pos
  BY <1>1 DEF GraphInv
<1> QED
  BY <1>1, <1>2, <1>3, <1>4, <1>5 DEF GraphInv

LEMMA EnterSubGraph ==
  ASSUME GraphInv, EnterSub
  PROVE  GraphInv'
<1>1. /\ turn = "sub" /\ open' = open \cup {<<pos, "sub">>} /\ turn' = "nodes"
      /\ todo' = Entry(Plan[pos]) /\ UNCHANGED <<pos, ran, calling, reported>>
  BY DEF EnterSub, RunOf
<1>2. todo = {} /\ ran = {} /\ Working = {} /\ calling = {}
  BY <1>1 DEF GraphInv, Working
<1>3. \A c \in DOMAIN reported : c[1] < pos
  BY <1>1 DEF GraphInv
<1>4. \A n : <<pos, n>> \notin DOMAIN reported
  BY <1>3 DEF GraphInv
<1>5. Working' = {}
  BY <1>1, <1>4 DEF Working, RunOf
<1>6. RunsNest'
  <2>1. PICK p \in 1..pos : open = OpenBelow(p)
    BY <1>1 DEF GraphInv, RunsNest
  <2>2. open = {<<p, "root">>} \cup {<<pos, "phase">>}
    BY <1>1, <1>2, <2>1 DEF OpenBelow, RunOf
  <2>3. open' = {<<p, "root">>} \cup {<<pos, "phase">>} \cup {<<pos, "sub">>}
    BY <1>1, <2>2
  <2>4. OpenBelow(p)' = {<<p, "root">>} \cup {<<pos, "phase">>} \cup {<<pos, "sub">>}
    BY <1>1, <1>5 DEF OpenBelow, RunOf
  <2> QED BY <1>1, <2>3, <2>4 DEF RunsNest
<1>7. Forward'
  <2>1. Plan[pos] \in Phases
    BY <1>1, AtWork
  <2>2. /\ Entry(Plan[pos]) \subseteq NodesOf(Plan[pos])
        /\ \A n, m \in Entry(Plan[pos]) : n = m \/ {n, m} \subseteq ParallelNodes(Plan[pos])
    BY <2>1, EntryIsOne
  <2>3. GoesForward(Plan[pos], Entry(Plan[pos]), {})
    BY <2>2 DEF GoesForward
  <2>4. {n \in NodesOf(Plan[pos]) : <<pos, n>> \in DOMAIN reported} = {}
    BY <1>4
  <2>5. todo' \cup ran' = Entry(Plan[pos])
    BY <1>1, <1>2
  <2> QED BY <1>1, <2>3, <2>4, <2>5 DEF Forward, RunOf
<1> QED
  BY <1>1, <1>2, <1>3, <1>5, <1>6, <1>7 DEF GraphInv

LEMMA StartNodeGraph ==
  ASSUME GraphInv, NEW n \in todo, StartNode(n)
  PROVE  GraphInv' /\ RunOf(n) \notin DOMAIN reported /\ n \notin Working
<1>1. /\ turn = "nodes" /\ RunOf(n) \notin open /\ open' = open \cup {RunOf(n)}
      /\ reported' = With(reported, RunOf(n), <<>>)
      /\ UNCHANGED <<pos, turn, todo, ran, failed, calling>>
  BY DEF StartNode
<1>2. /\ pos \in 1..Len(Plan) /\ Plan[pos] \in Phases
      /\ n \in NodesOf(Plan[pos]) /\ RunOf(n) \in NodeRuns /\ n \notin Working
  BY <1>1, AtWork
<1>3. RunOf(n) \notin DOMAIN reported
  BY <1>2 DEF Working
<1>4. /\ DOMAIN reported' = DOMAIN reported \cup {RunOf(n)}
      /\ reported'[RunOf(n)] = <<>>
      /\ \A c \in DOMAIN reported : reported'[c] = reported[c]
  BY <1>1, <1>3 DEF With
<1>5. Working' = Working \cup {n}
  BY <1>1, <1>4 DEF Working, RunOf
<1>6. RunsNest'
  <2>1. PICK p \in 1..pos : open = OpenBelow(p)
    BY <1>1 DEF GraphInv, RunsNest
  <2>2. open = {<<p, "root">>} \cup {<<pos, m>> : m \in Working}
                 \cup {<<pos, "phase">>} \cup {<<pos, "sub">>}
    BY <1>1, <2>1 DEF OpenBelow, RunOf
  <2>3. OpenBelow(p)' = {<<p, "root">>} \cup {<<pos, m>> : m \in Working \cup {n}}
                          \cup {<<pos, "phase">>} \cup {<<pos, "sub">>}
    BY <1>1, <1>5 DEF OpenBelow, RunOf
  <2>4. open' = OpenBelow(p)'
    BY <1>1, <2>2, <2>3 DEF RunOf
  <2> QED BY <1>1, <2>4 DEF RunsNest
<1>7. Forward'
  <2> DEFINE begun == {m \in NodesOf(Plan[pos]) : <<pos, m>> \in DOMAIN reported}
             S == todo \cup ran
             seq == Sequence[Plan[pos]]
             par == ParallelNodes(Plan[pos])
  <2>1. GoesForward(Plan[pos], S, begun)
    BY <1>1 DEF GraphInv, Forward, RunOf
  <2>2. {m \in NodesOf(Plan[pos]) : <<pos, m>> \in DOMAIN reported'} = begun \cup {n}
    BY <1>2, <1>4 DEF RunOf
  <2>3. GoesForward(Plan[pos], S, begun \cup {n})
    <3>1. ASSUME NEW i \in 1..Len(seq), NEW j \in 1..Len(seq),
                 i < j, seq[i] \in S, seq[j] = n
          PROVE  {seq[i], seq[j]} \subseteq par
      <4>1. seq[i] # seq[j]
        BY <1>2, <3>1, SequencesAre
      <4> QED BY <2>1, <3>1, <4>1 DEF GoesForward
    <3> QED BY <2>1, <3>1 DEF GoesForward
  <2> HIDE DEF begun, S
  <2>4. todo' \cup ran' = S
    BY <1>1 DEF S
  <2> QED BY <1>1, <2>2, <2>3, <2>4 DEF Forward, RunOf
<1>8. \A c \in DOMAIN reported' :
        /\ c \in NodeRuns /\ reported'[c] \in Seq(Nat \cup {Unknown})
        /\ c[1] < pos' \/ (c[1] = pos' /\ turn' \in {"nodes", "phase_end", "root_end"})
  <2>1. RunOf(n)[1] = pos /\ <<>> \in Seq(Nat \cup {Unknown})
    BY DEF RunOf
  <2> QED BY <1>1, <1>2, <1>4, <2>1 DEF GraphInv
<1>9. calling' \subseteq Working'
  BY <1>1, <1>5 DEF GraphInv
<1>10. /\ pos' \in 1..(Len(Plan) + 1) /\ turn' = "nodes" /\ pos' <= Len(Plan)
  BY <1>1 DEF GraphInv
<1> HIDE DEF GraphInv
<1> QED
  BY <1>2, <1>3, <1>6, <1>7, <1>8, <1>9, <1>10 DEF GraphInv

LEMMA CallsGraph ==
  ASSUME GraphInv, NEW n \in todo,
         CallLlm(n) \/ LlmFails(n) \/ \E tokens \in Usages[n] : LlmAnswers(n, tokens)
  PROVE  GraphInv'
<1>1. /\ turn = "nodes" /\ RunOf(n) \in open
      /\ UNCHANGED <<pos, turn, todo, ran, open>>
      /\ calling' \subseteq calling \cup {n}
      /\ \/ UNCHANGED reported
         \/ \E tokens \in Usages[n] :
              reported' = [reported EXCEPT ![RunOf(n)] = Append(@, tokens)]
  BY DEF CallLlm, LlmFails, LlmAnswers, InNode
<1>2. n \in Working /\ n \in PlanNodes
  BY <1>1, AtWork
<1>3. calling' \subseteq Working
  BY <1>1, <1>2 DEF GraphInv
<1>4. Usages[n] \subseteq Nat \cup {Unknown}
  BY <1>2, LogBoundsAssumption
<1>5. /\ DOMAIN reported' = DOMAIN reported
      /\ \A c \in DOMAIN reported : reported'[c] \in Seq(Nat \cup {Unknown})
  <2>1. \A c \in DOMAIN reported : reported[c] \in Seq(Nat \cup {Unknown})
    BY DEF GraphInv
  <2>2. CASE UNCHANGED reported
    BY <2>1, <2>2
  <2>3. ASSUME NEW tokens \in Usages[n],
               reported' = [reported EXCEPT ![RunOf(n)] = Append(@, tokens)]
        PROVE  /\ DOMAIN reported' = DOMAIN reported
               /\ \A c \in DOMAIN reported : reported'[c] \in Seq(Nat \cup {Unknown})
    BY <1>4, <2>1, <2>3
  <2> QED BY <1>1, <2>2, <2>3
<1> QED
  BY <1>1, <1>3, <1>5, QuietGraph

\* A node leaves: it is no longer in progress.
LEMMA LeavingNode ==
  ASSUME GraphInv, NEW n \in Working, turn = "nodes",
         open' = open \ {RunOf(n)}, todo' = todo \ {n},
         UNCHANGED <<pos, turn, reported>>
  PROVE  Working' = Working \ {n} /\ RunsNest'
<1>1. Working' = Working \ {n}
  BY DEF Working, RunOf
<1>2. PICK p \in 1..pos : open = OpenBelow(p)
  BY DEF GraphInv, RunsNest
<1>3. open = {<<p, "root">>} \cup {<<pos, m>> : m \in Working}
               \cup {<<pos, "phase">>} \cup {<<pos, "sub">>}
  BY <1>2 DEF OpenBelow, RunOf
<1>4. OpenBelow(p)' = {<<p, "root">>} \cup {<<pos, m>> : m \in Working \ {n}}
                        \cup {<<pos, "phase">>} \cup {<<pos, "sub">>}
  BY <1>1 DEF OpenBelow, RunOf
<1>5. n \notin {"root", "phase", "sub"}
  BY AtWork DEF Working
<1>6. open' = OpenBelow(p)'
  BY <1>3, <1>4, <1>5 DEF RunOf
<1> QED
  BY <1>1, <1>6 DEF RunsNest

LEMMA NodeRaisesGraph ==
  ASSUME GraphInv, NEW n \in todo, NodeRaises(n)
  PROVE  GraphInv' /\ n \in Working
<1>1. /\ turn = "nodes" /\ RunOf(n) \in open /\ n \notin calling
      /\ open' = open \ {RunOf(n)} /\ todo' = todo \ {n}
      /\ UNCHANGED <<pos, turn, ran, calling, reported>>
  BY DEF NodeRaises, InNode
<1>2. n \in Working
  BY <1>1, AtWork
<1>3. Working' = Working \ {n} /\ RunsNest'
  BY <1>1, <1>2, LeavingNode
<1>4. Forward'
  <2> DEFINE begun == {m \in NodesOf(Plan[pos]) : <<pos, m>> \in DOMAIN reported}
  <2>1. GoesForward(Plan[pos], todo \cup ran, begun)
    BY <1>1 DEF GraphInv, Forward, RunOf
  <2>2. begun = {m \in NodesOf(Plan[pos]) : <<pos', m>> \in DOMAIN reported'}
    BY <1>1
  <2> HIDE DEF begun
  <2>3. todo' \cup ran' \subseteq todo \cup ran
    BY <1>1
  <2>4. GoesForward(Plan[pos], todo' \cup ran', begun)
    BY <2>1, <2>3 DEF GoesForward
  <2> QED BY <1>1, <2>2, <2>4 DEF Forward, RunOf
<1>5. calling' \subseteq Working'
  BY <1>1, <1>3 DEF GraphInv
<1> QED
  BY <1>1, <1>2, <1>3, <1>4, <1>5 DEF GraphInv

\* The next superstep begins with nodes that have not begun.
LEMMA NextSuperstep ==
  ASSUME NEW ph \in Phases, NEW S, NEW begun,
         GoesForward(ph, S, begun)
  PROVE  /\ GoesForward(ph, Successors(ph, S), begun)
         /\ Successors(ph, S) \cap begun = {}
<1> DEFINE seq == Sequence[ph]
           par == ParallelNodes(ph)
           T == Successors(ph, S)
<1>1. /\ Len(seq) \in Nat \ {0} /\ DOMAIN seq = 1..Len(seq)
      /\ \A i, j \in 1..Len(seq) : seq[i] = seq[j] => i = j
  BY SequencesAre
<1>2. Contiguous(seq, par)
  BY GraphsBuild
<1>3. /\ S \subseteq NodesOf(ph)
      /\ \A n, m \in S : n = m \/ {n, m} \subseteq par
      /\ \A i, j \in 1..Len(seq) :
           i < j /\ seq[i] \in S /\ seq[j] \in begun => {seq[i], seq[j]} \subseteq par
  BY DEF GoesForward
<1>4. seq = Sequence[ph] /\ par = ParallelNodes(ph) /\ T = Successors(ph, S)
  OBVIOUS
<1> HIDE DEF seq, par, T
<1>5. /\ T \subseteq NodesOf(ph)
      /\ \A n, m \in T : n = m \/ {n, m} \subseteq par
      /\ \A m \in 1..Len(seq) : seq[m] \in T =>
           \E i \in 1..Len(seq) :
             i < m /\ seq[i] \in S /\ ~(seq[i] \in par /\ seq[m] \in par)
  BY <1>3, <1>4, SuccessorsGoForward
<1>6. ASSUME NEW m \in 1..Len(seq), seq[m] \in T,
             NEW j \in 1..Len(seq), m <= j, seq[j] \in begun
      PROVE  FALSE
  <2>1. PICK i \in 1..Len(seq) :
          i < m /\ seq[i] \in S /\ ~(seq[i] \in par /\ seq[m] \in par)
    BY <1>5, <1>6
  <2>2. i < j
    BY <1>1, <1>6, <2>1
  <2>3. seq[i] \in par /\ seq[j] \in par
    BY <1>3, <1>6, <2>1, <2>2
  <2>4. seq[m] \notin par /\ m # j
    BY <2>1, <2>3
  <2>5. m < j
    BY <1>1, <1>6, <2>4
  <2> QED BY <1>2, <2>1, <2>3, <2>4, <2>5 DEF Contiguous, Block
<1>7. T \cap begun = {}
  <2> SUFFICES ASSUME NEW n \in T, n \in begun PROVE FALSE
    OBVIOUS
  <2>1. PICK m \in 1..Len(seq) : n = seq[m]
    BY <1>1, <1>4, <1>5 DEF NodesOf, Range
  <2>2. m <= m
    BY <1>1
  <2> QED BY <1>6, <2>1, <2>2
<1>8. GoesForward(ph, T, begun)
  <2>1. \A i, j \in 1..Len(seq) : ~(i < j /\ seq[i] \in T /\ seq[j] \in begun)
    <3>1. \A i, j \in 1..Len(seq) : i < j => i <= j
      BY <1>1
    <3> QED BY <1>6, <3>1
  <2> QED BY <1>4, <1>5, <2>1 DEF GoesForward
<1> QED
  BY <1>4, <1>7, <1>8

LEMMA NodeReturnsGraph ==
  ASSUME GraphInv, NEW n \in todo, NodeReturns(n)
  PROVE  GraphInv' /\ n \in Working
<1>1. /\ turn = "nodes" /\ RunOf(n) \in open /\ n \notin calling
      /\ open' = open \ {RunOf(n)}
      /\ UNCHANGED <<pos, turn, calling, reported>>
  BY DEF NodeReturns, InNode
<1>2. \/ todo # {n} /\ todo' = todo \ {n} /\ ran' = ran \cup {n}
      \/ /\ todo = {n} /\ ran' = {}
         /\ todo' = IF failed THEN {} ELSE Successors(Plan[pos], ran \cup {n})
  BY DEF NodeReturns
<1>3. n \in Working /\ Plan[pos] \in Phases
  BY <1>1, AtWork
<1> DEFINE begun == {m \in NodesOf(Plan[pos]) : <<pos, m>> \in DOMAIN reported}
<1>4. GoesForward(Plan[pos], todo \cup ran, begun)
  BY <1>1 DEF GraphInv, Forward, RunOf
<1>5. begun = {m \in NodesOf(Plan[pos]) : <<pos', m>> \in DOMAIN reported'}
  BY <1>1
<1>6. CASE todo # {n} /\ todo' = todo \ {n} /\ ran' = ran \cup {n}
  <2>1. Working' = Working \ {n} /\ RunsNest'
    BY <1>1, <1>3, <1>6, LeavingNode
  <2> HIDE DEF begun
  <2>2. todo' \cup ran' = todo \cup ran
    BY <1>6
  <2>3. Forward'
    BY <1>1, <1>4, <1>5, <2>2 DEF Forward, RunOf
  <2>4. calling' \subseteq Working'
    BY <1>1, <2>1 DEF GraphInv
  <2> QED BY <1>1, <1>3, <2>1, <2>3, <2>4 DEF GraphInv
<1>7. CASE /\ todo = {n} /\ ran' = {}
           /\ todo' = IF failed THEN {} ELSE Successors(Plan[pos], ran \cup {n})
  <2> DEFINE T == IF failed THEN {} ELSE Successors(Plan[pos], todo \cup ran)
  <2>1. todo' = T /\ todo' \cup ran' = T
    <3>1. ran \cup {n} = todo \cup ran
      BY <1>7
    <3> QED BY <1>7, <3>1
  <2> HIDE DEF begun
  <2>2. GoesForward(Plan[pos], T, begun) /\ T \cap begun = {}
    <3>1. /\ GoesForward(Plan[pos], Successors(Plan[pos], todo \cup ran), begun)
          /\ Successors(Plan[pos], todo \cup ran) \cap begun = {}
      BY <1>3, <1>4, NextSuperstep
    <3>2. GoesForward(Plan[pos], {}, begun)
      BY DEF GoesForward
    <3> QED BY <3>1, <3>2
  <2>3. T \subseteq NodesOf(Plan[pos])
    BY <2>2 DEF GoesForward
  <2> HIDE DEF T
  <2>4. Working' = {}
    BY <1>1, <2>1, <2>2, <2>3 DEF Working, RunOf, begun
  <2>5. Working = {n}
    BY <1>3, <1>7 DEF Working
  <2>6. calling' = {}
    BY <1>1, <2>5 DEF GraphInv
  <2>7. RunsNest'
    <3>1. PICK p \in 1..pos : open = OpenBelow(p)
      BY <1>1 DEF GraphInv, RunsNest
    <3>2. open = {<<p, "root">>} \cup {<<pos, n>>} \cup {<<pos, "phase">>} \cup {<<pos, "sub">>}
      BY <1>1, <2>5, <3>1 DEF OpenBelow, RunOf
    <3>3. OpenBelow(p)' = {<<p, "root">>} \cup {<<pos, "phase">>} \cup {<<pos, "sub">>}
      BY <1>1, <2>4 DEF OpenBelow, RunOf
    <3>4. n \notin {"root", "phase", "sub"}
      BY <1>1, AtWork
    <3>5. open' = OpenBelow(p)'
      BY <1>1, <3>2, <3>3, <3>4 DEF RunOf
    <3> QED BY <1>1, <3>5 DEF RunsNest
  <2>8. Forward'
    BY <1>1, <1>5, <2>1, <2>2 DEF Forward, RunOf
  <2> QED BY <1>1, <1>3, <2>4, <2>6, <2>7, <2>8 DEF GraphInv
<1> QED
  BY <1>2, <1>6, <1>7

LEMMA LeaveSubGraph ==
  ASSUME GraphInv, LeaveSub
  PROVE  GraphInv' /\ Working = {} /\ RunOf("sub") \in open
<1>1. /\ turn = "nodes" /\ open' = open \ {<<pos, "sub">>} /\ turn' = "phase_end"
      /\ todo' = {} /\ ran' = {} /\ UNCHANGED <<pos, calling, reported>>
      /\ \A n \in todo : RunOf(n) \notin open
  BY DEF LeaveSub, Leave, RunOf
<1>2. Working = {} /\ Working' = {}
  BY <1>1, AtWork DEF Working
<1>3. PICK p \in 1..pos : open = OpenBelow(p)
  BY <1>1 DEF GraphInv, RunsNest
<1>4. open = {<<p, "root">>} \cup {<<pos, "phase">>} \cup {<<pos, "sub">>}
  BY <1>1, <1>2, <1>3 DEF OpenBelow, RunOf
<1>5. OpenBelow(p)' = {<<p, "root">>} \cup {<<pos, "phase">>}
  BY <1>1, <1>2 DEF OpenBelow, RunOf
<1>6. open' = OpenBelow(p)'
  BY <1>1, <1>4, <1>5
<1>7. RunsNest'
  BY <1>1, <1>6 DEF RunsNest
<1>8. Forward'
  BY <1>1 DEF Forward
<1>9. calling' = {}
  BY <1>1, <1>2 DEF GraphInv
<1> QED
  BY <1>1, <1>2, <1>4, <1>7, <1>8, <1>9 DEF GraphInv, RunOf

LEMMA LeavePhaseGraph ==
  ASSUME GraphInv, LeavePhase
  PROVE  GraphInv' /\ RunOf("phase") \in open /\ Working = {} /\ calling = {}
<1>1. /\ turn = "phase_end" /\ open' = open \ {<<pos, "phase">>}
      /\ UNCHANGED <<todo, ran, calling, reported>>
      /\ \/ turn' = "root_end" /\ pos' = pos
         \/ turn' = "phase" /\ pos' = pos + 1 /\ pos < Len(Plan)
  BY DEF LeavePhase, Leave, RunOf
<1>2. todo = {} /\ ran = {} /\ Working = {} /\ Working' = {} /\ calling = {}
  BY <1>1 DEF GraphInv, Working
<1>3. PICK p \in 1..pos : open = OpenBelow(p)
  BY <1>1 DEF GraphInv, RunsNest
<1>4. open = {<<p, "root">>} \cup {<<pos, "phase">>}
  BY <1>1, <1>2, <1>3 DEF OpenBelow, RunOf
<1>5. OpenBelow(p)' = {<<p, "root">>}
  BY <1>1, <1>2 DEF OpenBelow, RunOf
<1>6. open' = OpenBelow(p)'
  BY <1>1, <1>4, <1>5
<1>7. pos \in Nat /\ Len(Plan) \in Nat
  BY PlanAssumption DEF GraphInv
<1>8. p \in 1..pos' /\ turn' # "segment"
  BY <1>1, <1>7
<1>9. RunsNest'
  BY <1>6, <1>8 DEF RunsNest
<1>10. Forward'
  BY <1>1 DEF Forward
<1>11. pos' \in 1..(Len(Plan) + 1) /\ pos' <= Len(Plan)
  BY <1>1, <1>7 DEF GraphInv
<1>12. \A c \in DOMAIN reported' :
         /\ c \in NodeRuns /\ reported'[c] \in Seq(Nat \cup {Unknown})
         /\ c[1] < pos' \/ (c[1] = pos' /\ turn' \in {"nodes", "phase_end", "root_end"})
  <2> SUFFICES ASSUME NEW c \in DOMAIN reported
               PROVE  /\ c \in NodeRuns /\ reported[c] \in Seq(Nat \cup {Unknown})
                      /\ c[1] < pos' \/ (c[1] = pos' /\ turn' = "root_end")
    BY <1>1
  <2>1. c \in NodeRuns /\ reported[c] \in Seq(Nat \cup {Unknown}) /\ c[1] <= pos
    BY RealEvents, <1>7 DEF GraphInv
  <2>2. c[1] \in Nat
    BY <2>1, RealEvents
  <2> QED BY <1>1, <1>7, <2>1, <2>2
<1> QED
  BY <1>1, <1>2, <1>4, <1>9, <1>10, <1>11, <1>12 DEF GraphInv, RunOf

LEMMA LeaveRootGraph ==
  ASSUME GraphInv, LeaveRoot
  PROVE  /\ GraphInv' /\ open = {<<Segment, "root">>} /\ calling = {}
         /\ Segment \in 1..Len(Plan)
<1>1. /\ turn = "root_end" /\ open' = {} /\ turn' = "segment" /\ pos' = pos + 1
      /\ UNCHANGED <<todo, ran, calling, reported>>
  BY DEF LeaveRoot
<1>2. todo = {} /\ ran = {} /\ Working = {} /\ Working' = {} /\ calling = {}
  BY <1>1 DEF GraphInv, Working
<1>3. PICK p \in 1..pos : open = OpenBelow(p)
  BY <1>1 DEF GraphInv, RunsNest
<1>4. open = {<<p, "root">>}
  BY <1>1, <1>2, <1>3 DEF OpenBelow
<1>5. pos \in Nat /\ Len(Plan) \in Nat /\ pos <= Len(Plan) /\ p \in 1..Len(Plan)
  BY <1>1, PlanAssumption DEF GraphInv
<1>6. Segment = p
  BY <1>4, <1>5 DEF Segment
<1>7. RunsNest' /\ Forward'
  BY <1>1 DEF RunsNest, Forward
<1>8. pos' \in 1..(Len(Plan) + 1)
  BY <1>1, <1>5
<1>9. \A c \in DOMAIN reported :
        c \in NodeRuns /\ reported[c] \in Seq(Nat \cup {Unknown}) /\ c[1] < pos'
  <2> SUFFICES ASSUME NEW c \in DOMAIN reported
               PROVE  c \in NodeRuns /\ reported[c] \in Seq(Nat \cup {Unknown}) /\ c[1] < pos'
    OBVIOUS
  <2>1. c \in NodeRuns /\ reported[c] \in Seq(Nat \cup {Unknown}) /\ c[1] <= pos
    BY RealEvents, <1>5 DEF GraphInv
  <2>2. c[1] \in Nat
    BY <2>1, RealEvents
  <2> QED BY <1>1, <1>5, <2>1, <2>2
<1> QED
  BY <1>1, <1>2, <1>4, <1>5, <1>6, <1>7, <1>8, <1>9 DEF GraphInv

LEMMA GraphStep == GraphInv /\ [LogNext]_log_vars => GraphInv'
<1> SUFFICES ASSUME GraphInv, [LogNext]_log_vars PROVE GraphInv'
  OBVIOUS
<1>1. CASE UNCHANGED log_vars
  <2>1. UNCHANGED <<pos, turn, todo, ran, open, calling, reported>>
    BY <1>1 DEF log_vars, langgraph
  <2> QED BY <2>1, QuietGraph DEF GraphInv
<1>2. CASE BeginSegment
  BY <1>2, BeginSegmentGraph
<1>3. CASE EnterPhase
  BY <1>3, EnterPhaseGraph
<1>4. CASE EnterSub
  BY <1>4, EnterSubGraph
<1>5. CASE LeaveSub
  BY <1>5, LeaveSubGraph
<1>6. CASE LeavePhase
  BY <1>6, LeavePhaseGraph
<1>7. CASE LeaveRoot
  BY <1>7, LeaveRootGraph
<1>8. ASSUME NEW n \in todo, StartNode(n) PROVE GraphInv'
  BY <1>8, StartNodeGraph
<1>9. ASSUME NEW n \in todo,
             CallLlm(n) \/ LlmFails(n) \/ \E tokens \in Usages[n] : LlmAnswers(n, tokens)
      PROVE  GraphInv'
  BY <1>9, CallsGraph
<1>10. ASSUME NEW n \in todo, NodeReturns(n) PROVE GraphInv'
  BY <1>10, NodeReturnsGraph
<1>11. ASSUME NEW n \in todo, NodeRaises(n) PROVE GraphInv'
  BY <1>11, NodeRaisesGraph
<1> QED
  BY <1>1, <1>2, <1>3, <1>4, <1>5, <1>6, <1>7, <1>8, <1>9, <1>10, <1>11 DEF LogNext

\* Phase 6 is a chain from score_evaluator to experiment_designer, and no other
\* phase has that node.
LEMMA Phase6 ==
  /\ Entry("phase6_evaluation") # {}
  /\ \A n \in NodesOf("phase6_evaluation") :
       Successors("phase6_evaluation", {n}) = {} <=> n = "experiment_designer"
  /\ \A ph \in Phases : "experiment_designer" \in NodesOf(ph) => ph = "phase6_evaluation"
<1> DEFINE seq == Sequence["phase6_evaluation"]
           chain == {<<START, "score_evaluator">>,
                     <<"score_evaluator", "feature_importance_extractor">>,
                     <<"feature_importance_extractor", "error_analyst">>,
                     <<"error_analyst", "hypothesis_generator">>,
                     <<"hypothesis_generator", "experiment_designer">>,
                     <<"experiment_designer", END>>}
<1>1. /\ Len(seq) = 5 /\ seq[1] = "score_evaluator" /\ seq[2] = "feature_importance_extractor"
      /\ seq[3] = "error_analyst" /\ seq[4] = "hypothesis_generator"
      /\ seq[5] = "experiment_designer"
  BY DEF Sequence
<1>2. Edges("phase6_evaluation") = chain
  <2>1. ParallelNodes("phase6_evaluation") = {}
    BY DEF ParallelNodes
  <2> HIDE DEF seq
  <2>2. PairEdges(seq, {}) = {<<seq[i], seq[i + 1]>> : i \in 1..4}
    BY <1>1 DEF PairEdges
  <2>3. {<<seq[i], seq[i + 1]>> : i \in 1..4}
          = {<<seq[1], seq[2]>>, <<seq[2], seq[3]>>, <<seq[3], seq[4]>>, <<seq[4], seq[5]>>}
    <3>1. 1..4 = {1, 2, 3, 4}
      OBVIOUS
    <3> QED BY <3>1
  <2>4. Block(seq, {}) = {}
    BY DEF Block
  <2>5. BlockEdges(seq, {}) = {}
    BY <2>4 DEF BlockEdges
  <2>6. Edges("phase6_evaluation")
          = PairEdges(seq, {}) \cup BlockEdges(seq, {})
              \cup {<<START, seq[1]>>, <<seq[Len(seq)], END>>}
    BY <2>1 DEF Edges, seq
  <2> QED BY <1>1, <2>2, <2>3, <2>5, <2>6
<1> HIDE DEF seq
<1>3. NodesOf("phase6_evaluation")
        = {"score_evaluator", "feature_importance_extractor", "error_analyst",
           "hypothesis_generator", "experiment_designer"}
  <2>1. DOMAIN seq = 1..5 /\ 1..5 = {1, 2, 3, 4, 5}
    BY <1>1 DEF seq, Sequence
  <2>2. NodesOf("phase6_evaluation") = {seq[i] : i \in 1..5}
    BY <2>1 DEF NodesOf, Range, seq
  <2> QED BY <1>1, <2>1, <2>2
<1>4. \A n, m : m \in Successors("phase6_evaluation", {n})
                  <=> \E e \in chain : e[1] = n /\ e[2] = m /\ m # END
  BY <1>2 DEF Successors
<1>5. /\ <<START, "score_evaluator">> \in chain
      /\ \A n \in NodesOf("phase6_evaluation") \ {"experiment_designer"} :
           \E e \in chain : e[1] = n /\ e[2] # END
      /\ \A e \in chain : e[1] = "experiment_designer" => e[2] = END
  BY <1>3 DEF START, END
<1> HIDE DEF chain
<1>6. "score_evaluator" \in Entry("phase6_evaluation")
  <2>1. <<START, "score_evaluator">>[1] = START /\ <<START, "score_evaluator">>[2] # END
    BY DEF END
  <2> QED BY <1>4, <1>5, <2>1 DEF Entry
<1>7. ASSUME NEW n \in NodesOf("phase6_evaluation")
      PROVE  Successors("phase6_evaluation", {n}) = {} <=> n = "experiment_designer"
  <2>1. CASE n = "experiment_designer"
    <3>1. ASSUME NEW m \in Successors("phase6_evaluation", {n}) PROVE FALSE
      <4>1. PICK e \in chain : e[1] = n /\ e[2] = m /\ m # END
        BY <1>4, <3>1
      <4> QED BY <1>5, <2>1, <4>1
    <3>2. Successors("phase6_evaluation", {n}) = {}
      BY <3>1
    <3> QED BY <2>1, <3>2
  <2>2. CASE n # "experiment_designer"
    BY <1>4, <1>5, <2>2
  <2> QED BY <2>1, <2>2
<1>8. ASSUME NEW ph \in Phases, ph # "phase6_evaluation"
      PROVE  "experiment_designer" \notin NodesOf(ph)
  BY <1>8, SMTT(40) DEF NodesOf, Range, Phases, Sequence
<1> QED
  BY <1>6, <1>7, <1>8

LEMMA InitCount == LogInit => IterationIsCounted
<1> SUFFICES ASSUME LogInit PROVE IterationIsCounted
  OBVIOUS
<1>1. pos = 1 /\ turn = "segment" /\ current_iteration = 0
  BY DEF LogInit
<1>2. IterationAt[1] = 0
  <2>1. 1 \in 1..(Len(Plan) + 1) /\ 1 - 1 = 0
    BY PlanIs
  <2>2. {q \in 1..(1 - 1) : Plan[q] = "phase6_evaluation"} = {}
    BY <2>1
  <2> QED BY <2>1, <2>2, FS_EmptySet DEF IterationAt
<1> QED
  BY <1>1, <1>2 DEF IterationIsCounted

\* experiment_designer returns last, and only behind phase 6.
LEMMA NodeReturnsCount ==
  ASSUME GraphInv, IterationIsCounted, NEW n \in todo, NodeReturns(n)
  PROVE  IterationIsCounted'
<1>1. /\ turn = "nodes" /\ turn' = "nodes" /\ pos' = pos /\ failed' = failed
      /\ current_iteration' = current_iteration + IF n = "experiment_designer" THEN 1 ELSE 0
      /\ \/ todo # {n} /\ todo' = todo \ {n}
         \/ todo = {n} /\ todo' = IF failed THEN {} ELSE Successors(Plan[pos], ran \cup {n})
  BY DEF NodeReturns, InNode
<1>2. /\ pos \in 1..Len(Plan) /\ pos \in 1..(Len(Plan) + 1) /\ Plan[pos] \in Phases
      /\ n \in NodesOf(Plan[pos])
  BY <1>1, AtWork, PlanIs
<1>3. current_iteration = IterationAt[pos] /\ IterationAt[pos] \in Nat
  BY <1>1, <1>2, IterationsCount DEF IterationIsCounted
<1>4. IterationAt[pos + 1] = IterationAt[pos] + IF Plan[pos] = "phase6_evaluation" THEN 1 ELSE 0
  BY <1>2, IterationsCount
<1>5. n = "experiment_designer" => Plan[pos] = "phase6_evaluation"
  BY <1>2, Phase6
<1>6. Plan[pos] = "phase6_evaluation" => todo \cup ran = {n}
  <2>1. \A m, k \in todo \cup ran : m = k \/ {m, k} \subseteq ParallelNodes(Plan[pos])
    BY <1>1 DEF GraphInv, Forward, GoesForward
  <2>2. ParallelNodes("phase6_evaluation") = {}
    BY DEF ParallelNodes
  <2> QED BY <2>1, <2>2
<1>7. CASE todo # {n} /\ todo' = todo \ {n}
  <2>1. todo' # {} /\ n # "experiment_designer"
    BY <1>5, <1>6, <1>7
  <2>2. current_iteration' = IterationAt[pos']
    BY <1>1, <1>3, <2>1
  <2> QED BY <1>1, <2>1, <2>2 DEF IterationIsCounted
<1>8. CASE failed /\ todo' = {}
  BY <1>1, <1>8 DEF IterationIsCounted
<1>9. CASE ~failed /\ todo = {n} /\ todo' = Successors(Plan[pos], ran \cup {n})
  <2>1. CASE Plan[pos] = "phase6_evaluation"
    <3>1. ran \cup {n} = {n}
      BY <1>6, <1>9, <2>1
    <3>2. todo' = {} <=> n = "experiment_designer"
      BY <1>2, <1>9, <2>1, <3>1, Phase6
    <3>3. CASE n = "experiment_designer"
      <4>1. current_iteration' = IterationAt[pos' + 1] /\ todo' = {}
        BY <1>1, <1>3, <1>4, <2>1, <3>2, <3>3
      <4> QED BY <1>1, <4>1 DEF IterationIsCounted
    <3>4. CASE n # "experiment_designer"
      <4>1. current_iteration' = IterationAt[pos'] /\ todo' # {}
        BY <1>1, <1>3, <3>2, <3>4
      <4> QED BY <1>1, <4>1 DEF IterationIsCounted
    <3> QED BY <3>3, <3>4
  <2>2. CASE Plan[pos] # "phase6_evaluation"
    <3>1. current_iteration' = IterationAt[pos'] /\ current_iteration' = IterationAt[pos' + 1]
      BY <1>1, <1>3, <1>4, <1>5, <2>2
    <3> QED BY <1>1, <3>1 DEF IterationIsCounted
  <2> QED BY <2>1, <2>2
<1> QED
  BY <1>1, <1>7, <1>8, <1>9

LEMMA CountStep ==
  GraphInv /\ IterationIsCounted /\ [LogNext]_log_vars => IterationIsCounted'
<1> SUFFICES ASSUME GraphInv, IterationIsCounted, [LogNext]_log_vars
             PROVE  IterationIsCounted'
  OBVIOUS
<1>1. CASE UNCHANGED log_vars
  <2>1. UNCHANGED <<pos, turn, todo, failed, current_iteration>>
    BY <1>1 DEF log_vars, langgraph
  <2> QED BY <2>1 DEF IterationIsCounted
<1>2. CASE BeginSegment
  <2>1. /\ turn = "segment" /\ turn' = "phase" /\ ~failed
        /\ UNCHANGED <<pos, failed, current_iteration>>
    BY <1>2 DEF BeginSegment
  <2> QED BY <2>1 DEF IterationIsCounted
<1>3. CASE EnterPhase
  <2>1. /\ turn = "phase" /\ turn' = "sub"
        /\ UNCHANGED <<pos, failed, current_iteration>>
    BY <1>3 DEF EnterPhase
  <2> QED BY <2>1 DEF IterationIsCounted
<1>4. CASE EnterSub
  <2>1. /\ turn = "sub" /\ turn' = "nodes" /\ todo' = Entry(Plan[pos])
        /\ UNCHANGED <<pos, failed, current_iteration>>
    BY <1>4 DEF EnterSub
  <2>2. pos \in 1..Len(Plan) /\ pos \in 1..(Len(Plan) + 1)
    BY <2>1, AtWork, PlanIs
  <2>3. current_iteration = IterationAt[pos] /\ IterationAt[pos] \in Nat
    BY <2>1, <2>2, IterationsCount DEF IterationIsCounted
  <2>4. todo' = {} => IterationAt[pos + 1] = IterationAt[pos]
    <3>1. todo' = {} => Plan[pos] # "phase6_evaluation"
      BY <2>1, Phase6
    <3>2. IterationAt[pos + 1]
            = IterationAt[pos] + IF Plan[pos] = "phase6_evaluation" THEN 1 ELSE 0
      BY <2>2, IterationsCount
    <3> QED BY <2>3, <3>1, <3>2
  <2> QED BY <2>1, <2>3, <2>4 DEF IterationIsCounted
<1>5. CASE LeaveSub
  <2>1. /\ turn = "nodes" /\ turn' = "phase_end" /\ (todo = {} \/ failed)
        /\ UNCHANGED <<pos, failed, current_iteration>>
    BY <1>5 DEF LeaveSub
  <2> QED BY <2>1 DEF IterationIsCounted
<1>6. CASE LeavePhase
  <2>1. /\ turn = "phase_end" /\ UNCHANGED <<failed, current_iteration>>
        /\ \/ turn' = "root_end" /\ pos' = pos
           \/ turn' = "phase" /\ pos' = pos + 1 /\ ~failed
    BY <1>6 DEF LeavePhase
  <2> QED BY <2>1 DEF IterationIsCounted
<1>7. CASE LeaveRoot
  <2>1. /\ turn = "root_end" /\ turn' = "segment" /\ pos' = pos + 1
        /\ UNCHANGED <<failed, current_iteration>>
    BY <1>7 DEF LeaveRoot
  <2> QED BY <2>1 DEF IterationIsCounted
<1>8. ASSUME NEW n \in todo,
             \/ StartNode(n) \/ CallLlm(n) \/ LlmFails(n)
             \/ \E tokens \in Usages[n] : LlmAnswers(n, tokens)
      PROVE  IterationIsCounted'
  <2>1. /\ turn = "nodes" /\ turn' = "nodes" /\ todo # {}
        /\ UNCHANGED <<pos, todo, current_iteration>>
    BY <1>8 DEF StartNode, CallLlm, LlmFails, LlmAnswers, InNode
  <2> QED BY <2>1 DEF IterationIsCounted
<1>9. ASSUME NEW n \in todo, NodeReturns(n) PROVE IterationIsCounted'
  BY <1>9, NodeReturnsCount
<1>10. ASSUME NEW n \in todo, NodeRaises(n) PROVE IterationIsCounted'
  <2>1. /\ turn = "nodes" /\ turn' = "nodes" /\ todo # {} /\ failed'
        /\ UNCHANGED <<pos, current_iteration>>
    BY <1>10 DEF NodeRaises, InNode
  <2> QED BY <2>1 DEF IterationIsCounted
<1> QED
  BY <1>1, <1>2, <1>3, <1>4, <1>5, <1>6, <1>7, <1>8, <1>9, <1>10 DEF LogNext

\* One more usage is counted as the handler's bucket counts it.
LEMMA ToldIsFinite ==
  ASSUME NEW us \in Seq(Nat \cup {Unknown})
  PROVE  IsFiniteSet(TokensTold(us)) /\ Cardinality(TokensTold(us)) \in Nat
<1> DEFINE f == [i \in DOMAIN us |-> {i} \X (1..us[i])]
           T == {{i} \X (1..us[i]) : i \in DOMAIN us}
<1>1. DOMAIN us = 1..Len(us) /\ Len(us) \in Nat
  OBVIOUS
<1>2. IsFiniteSet(DOMAIN us)
  <2>1. 1 \in Int /\ Len(us) \in Int
    BY <1>1
  <2>2. IsFiniteSet(1..Len(us))
    BY <2>1, FS_Interval
  <2> QED BY <1>1, <2>2
<1>3. f \in Surjection(DOMAIN us, T)
  BY DEF Surjection, Range
<1> HIDE DEF f
<1>4. IsFiniteSet(T)
  BY <1>2, <1>3, FS_Surjection
<1>5. ASSUME NEW i \in DOMAIN us PROVE IsFiniteSet({i} \X (1..us[i]))
  <2>1. us[i] \in Int /\ 1 \in Int
    BY DEF Unknown
  <2>2. IsFiniteSet(1..us[i])
    BY <2>1, FS_Interval
  <2>3. IsFiniteSet({i})
    BY FS_Singleton
  <2> QED BY <2>2, <2>3, FS_Product
<1>6. \A S \in T : IsFiniteSet(S)
  BY <1>5
<1> HIDE DEF T
<1>7. IsFiniteSet(UNION T)
  BY <1>4, <1>6, FS_UNION
<1>8. IsFiniteSet(TokensTold(us))
  BY <1>7 DEF T, TokensTold
<1> QED
  BY <1>8, FS_CardinalityType

LEMMA TotalOfNone == Total(<<>>) = Unknown
<1>1. DOMAIN <<>> = {}
  OBVIOUS
<1> QED
  BY <1>1 DEF Total

LEMMA TotalAppend ==
  ASSUME NEW us \in Seq(Nat \cup {Unknown}), NEW t \in Nat \cup {Unknown}
  PROVE  Total(Append(us, t)) = SumOptional(Total(us), t)
<1> DEFINE k == Len(us) + 1
           more == Append(us, t)
<1>1. /\ Len(us) \in Nat /\ k \in Nat /\ k \notin DOMAIN us
      /\ DOMAIN us = 1..Len(us) /\ DOMAIN more = DOMAIN us \cup {k}
      /\ more[k] = t /\ \A i \in DOMAIN us : more[i] = us[i]
  OBVIOUS
<1> HIDE DEF more, k
<1>2. TokensTold(more) = TokensTold(us) \cup ({k} \X (1..t))
  BY <1>1 DEF TokensTold
<1>3. TokensTold(us) \cap ({k} \X (1..t)) = {}
  BY <1>1 DEF TokensTold
<1>4. /\ IsFiniteSet({k} \X (1..t))
      /\ Cardinality({k} \X (1..t)) = IF t = Unknown THEN 0 ELSE t
  <2>1. t \in Int /\ 1 \in Int
    BY DEF Unknown
  <2>2. IsFiniteSet(1..t) /\ Cardinality(1..t) = IF 1 > t THEN 0 ELSE t - 1 + 1
    BY <2>1, FS_Interval
  <2>3. Cardinality(1..t) = IF t = Unknown THEN 0 ELSE t
    BY <2>1, <2>2 DEF Unknown
  <2>4. IsFiniteSet({k}) /\ Cardinality({k}) = 1
    BY FS_Singleton
  <2>5. /\ IsFiniteSet({k} \X (1..t))
        /\ Cardinality({k} \X (1..t)) = Cardinality({k}) * Cardinality(1..t)
    BY <2>2, <2>4, FS_Product
  <2>6. Cardinality(1..t) \in Nat
    BY <2>2, FS_CardinalityType
  <2> QED BY <2>3, <2>4, <2>5, <2>6
<1>5. IsFiniteSet(TokensTold(us)) /\ Cardinality(TokensTold(us)) \in Nat
  BY ToldIsFinite
<1>6. Cardinality(TokensTold(more))
        = Cardinality(TokensTold(us)) + (IF t = Unknown THEN 0 ELSE t)
  <2>1. Cardinality(TokensTold(us) \cup ({k} \X (1..t)))
          = Cardinality(TokensTold(us)) + Cardinality({k} \X (1..t))
              - Cardinality(TokensTold(us) \cap ({k} \X (1..t)))
    BY <1>4, <1>5, FS_Union
  <2>2. Cardinality({}) = 0
    BY FS_EmptySet
  <2>3. Cardinality(TokensTold(more))
          = Cardinality(TokensTold(us)) + Cardinality({k} \X (1..t)) - 0
    BY <1>2, <1>3, <2>1, <2>2
  <2> QED BY <1>4, <1>5, <2>3
<1>7. CASE \A i \in DOMAIN us : us[i] = Unknown
  <2>1. Total(us) = Unknown
    BY <1>7 DEF Total
  <2>2. TokensTold(us) = {}
    BY <1>7 DEF TokensTold, Unknown
  <2>3. Cardinality(TokensTold(us)) = 0
    BY <2>2, FS_EmptySet
  <2>4. CASE t = Unknown
    <3>1. \A i \in DOMAIN more : more[i] = Unknown
      BY <1>1, <1>7, <2>4
    <3>2. Total(more) = Unknown
      BY <3>1 DEF Total
    <3> QED BY <2>1, <2>4, <3>2 DEF SumOptional, more
  <2>5. CASE t # Unknown
    <3>1. Total(more) = Cardinality(TokensTold(more))
      BY <1>1, <2>5 DEF Total
    <3> QED BY <1>6, <2>1, <2>3, <2>5, <3>1 DEF SumOptional, more
  <2> QED BY <2>4, <2>5
<1>8. CASE ~(\A i \in DOMAIN us : us[i] = Unknown)
  <2>1. Total(us) = Cardinality(TokensTold(us))
    BY <1>8 DEF Total
  <2>2. Total(us) # Unknown
    BY <1>5, <2>1 DEF Unknown
  <2>3. Total(more) = Cardinality(TokensTold(more))
    BY <1>1, <1>8 DEF Total
  <2> QED BY <1>6, <2>1, <2>2, <2>3 DEF SumOptional, more
<1> QED
  BY <1>7, <1>8

LEMMA WithoutIs ==
  ASSUME NEW f, NEW x
  PROVE  /\ DOMAIN Without(f, x) = DOMAIN f \ {x}
         /\ \A y \in DOMAIN Without(f, x) : Without(f, x)[y] = f[y]
BY DEF Without

LEMMA InitHandler == LogInit => HandlerInv
<1> SUFFICES ASSUME LogInit PROVE HandlerInv
  OBVIOUS
<1>1. /\ open = {} /\ calling = {} /\ starts = <<>> /\ skipped = {}
      /\ llm_parent = <<>> /\ llm_usage = <<>> /\ todo = {}
  BY DEF LogInit
<1>2. DOMAIN starts = {} /\ DOMAIN llm_parent = {} /\ DOMAIN llm_usage = {}
  BY <1>1
<1> QED
  BY <1>1, <1>2 DEF HandlerInv, HandlerForgets, Remembers, Working

\* Only nodes report usage, and they are real.
LEMMA UsersAreReal ==
  ASSUME GraphInv, HandlerInv, NEW c \in DOMAIN llm_usage
  PROVE  c \in open /\ c \in DOMAIN reported /\ IsRealNodeEvent(c)
<1>1. c \in open /\ c \in DOMAIN reported
  BY DEF HandlerInv, HandlerForgets
<1> QED
  BY <1>1, RealEvents DEF GraphInv

LEMMA StartHandler ==
  ASSUME GraphInv, HandlerInv, NEW c, OnChainStart(c), c \notin open,
         current_iteration = IterationAt[c[1]],
         open' = open \cup {c}, calling' = calling, pos' = pos,
         DOMAIN reported \subseteq DOMAIN reported',
         \A d \in DOMAIN reported : d # c => reported'[d] = reported[d],
         \A n \in Working' : n \in Working \/ reported'[RunOf(n)] = <<>>,
         \A n \in Working : RunOf(n) # c
  PROVE  HandlerInv'
<1>1. \A d \in DOMAIN llm_usage : d \in open /\ d \in DOMAIN reported /\ d # c
  BY UsersAreReal
<1>2. /\ DOMAIN starts = {d \in open : IsRealNodeEvent(d)}
      /\ skipped = {d \in open : ~IsRealNodeEvent(d)}
      /\ DOMAIN llm_parent = {<<RunOf(n), "llm">> : n \in calling}
  BY DEF HandlerInv, HandlerForgets
<1>3. UNCHANGED <<llm_parent, llm_usage>>
  BY DEF OnChainStart
<1>5. /\ DOMAIN starts' = {d \in open' : IsRealNodeEvent(d)}
      /\ skipped' = {d \in open' : ~IsRealNodeEvent(d)}
      /\ \A d \in DOMAIN starts' : starts'[d] = StartOf(d, IterationAt[d[1]])
  <2>1. CASE ~IsRealNodeEvent(c) /\ skipped' = skipped \cup {c} /\ UNCHANGED starts
    BY <1>2, <2>1 DEF HandlerInv, Remembers
  <2>2. CASE /\ IsRealNodeEvent(c) /\ UNCHANGED skipped
             /\ starts' = With(starts, c, StartOf(c, IterationAt[c[1]]))
    <3>1. /\ DOMAIN starts' = DOMAIN starts \cup {c}
          /\ starts'[c] = StartOf(c, IterationAt[c[1]])
          /\ \A d \in DOMAIN starts : d # c => starts'[d] = starts[d]
      <4> DEFINE rec == StartOf(c, IterationAt[c[1]])
      <4> HIDE DEF rec
      <4>1. /\ DOMAIN With(starts, c, rec) = DOMAIN starts \cup {c}
            /\ With(starts, c, rec)[c] = rec
            /\ \A d \in DOMAIN starts : d # c => With(starts, c, rec)[d] = starts[d]
        BY DEF With
      <4>2. starts' = With(starts, c, rec)
        BY <2>2 DEF rec
      <4> QED BY <4>1, <4>2 DEF rec
    <3>2. \A d \in DOMAIN starts : starts[d] = StartOf(d, IterationAt[d[1]])
      BY DEF HandlerInv, Remembers
    <3>3. DOMAIN starts' = {d \in open' : IsRealNodeEvent(d)}
      BY <1>2, <2>2, <3>1
    <3>4. skipped' = {d \in open' : ~IsRealNodeEvent(d)}
      BY <1>2, <2>2
    <3>5. ASSUME NEW d \in DOMAIN starts'
          PROVE  starts'[d] = StartOf(d, IterationAt[d[1]])
      BY <3>1, <3>2
    <3> QED BY <3>3, <3>4, <3>5
  <2> QED BY <2>1, <2>2 DEF OnChainStart
<1>6. DOMAIN llm_parent' = {<<RunOf(n)', "llm">> : n \in calling'}
  BY <1>2, <1>3 DEF RunOf
<1>7. HandlerForgets'
  BY <1>1, <1>3, <1>5, <1>6 DEF HandlerForgets
<1>8. \A d \in DOMAIN llm_usage' : llm_usage'[d] = Total(reported'[d])
  BY <1>1, <1>3 DEF HandlerInv, Remembers
<1>9. \A n \in Working' : RunOf(n)' \notin DOMAIN llm_usage' => reported'[RunOf(n)'] = <<>>
  <2> SUFFICES ASSUME NEW n \in Working', RunOf(n) \notin DOMAIN llm_usage
               PROVE  reported'[RunOf(n)] = <<>>
    BY <1>3 DEF RunOf
  <2>1. CASE n \in Working
    <3>1. reported[RunOf(n)] = <<>> /\ RunOf(n) \in DOMAIN reported /\ RunOf(n) # c
      BY <2>1 DEF HandlerInv, Remembers, Working
    <3> QED BY <3>1
  <2> QED BY <2>1
<1>10. \A call \in DOMAIN llm_parent' : llm_parent'[call] = call[1]
  BY <1>3 DEF HandlerInv, Remembers
<1> QED
  BY <1>5, <1>7, <1>8, <1>9, <1>10 DEF HandlerInv, Remembers

LEMMA EndHandler ==
  ASSUME GraphInv, HandlerInv, NEW c \in open, OnChainEnd(c) \/ OnChainError(c),
         open' = open \ {c}, UNCHANGED <<calling, reported>>,
         (pos' = pos) \/ calling = {},
         \A n \in Working' : pos' = pos /\ n \in Working /\ RunOf(n) # c
  PROVE  HandlerInv'
<1>1. \A d \in DOMAIN llm_usage : d \in open /\ d \in DOMAIN reported /\ IsRealNodeEvent(d)
  BY UsersAreReal
<1>2. /\ DOMAIN starts = {d \in open : IsRealNodeEvent(d)}
      /\ skipped = {d \in open : ~IsRealNodeEvent(d)}
      /\ DOMAIN llm_parent = {<<RunOf(n), "llm">> : n \in calling}
  BY DEF HandlerInv, HandlerForgets
<1>0. /\ DOMAIN Without(starts, c) = DOMAIN starts \ {c}
      /\ \A y \in DOMAIN Without(starts, c) : Without(starts, c)[y] = starts[y]
      /\ DOMAIN Without(llm_usage, c) = DOMAIN llm_usage \ {c}
      /\ \A y \in DOMAIN Without(llm_usage, c) : Without(llm_usage, c)[y] = llm_usage[y]
  BY WithoutIs
<1>3. /\ UNCHANGED llm_parent
      /\ DOMAIN starts' = DOMAIN starts \ {c} /\ skipped' = skipped \ {c}
      /\ \A d \in DOMAIN starts' : starts'[d] = starts[d]
      /\ DOMAIN llm_usage' = DOMAIN llm_usage \ {c}
      /\ \A d \in DOMAIN llm_usage' : llm_usage'[d] = llm_usage[d]
  <2>1. CASE /\ c \in skipped /\ skipped' = skipped \ {c}
             /\ UNCHANGED <<starts, llm_usage, llm_parent>>
    BY <1>1, <1>2, <2>1
  <2>2. CASE /\ c \notin skipped /\ UNCHANGED <<skipped, llm_parent>>
             /\ starts' = Without(starts, c) /\ llm_usage' = Without(llm_usage, c)
    <3>1. skipped' = skipped \ {c}
      BY <2>2
    <3> QED BY <1>0, <2>2, <3>1
  <2>3. CASE /\ skipped' = skipped \ {c} /\ UNCHANGED llm_parent
             /\ starts' = Without(starts, c) /\ llm_usage' = Without(llm_usage, c)
    BY <1>0, <2>3
  <2> QED BY <2>1, <2>2, <2>3 DEF OnChainEnd, OnChainError
<1>4. DOMAIN llm_parent' = {<<RunOf(n)', "llm">> : n \in calling'}
  <2>1. CASE pos' = pos
    BY <1>2, <1>3, <2>1 DEF RunOf
  <2>2. CASE calling = {}
    BY <1>2, <1>3, <2>2
  <2> QED BY <2>1, <2>2
<1>5. HandlerForgets'
  BY <1>1, <1>2, <1>3, <1>4 DEF HandlerForgets
<1>6. \A d \in DOMAIN starts' : starts'[d] = StartOf(d, IterationAt[d[1]])
  BY <1>3 DEF HandlerInv, Remembers
<1>7. \A d \in DOMAIN llm_usage' : llm_usage'[d] = Total(reported'[d])
  BY <1>3 DEF HandlerInv, Remembers
<1>8. \A n \in Working' : RunOf(n)' \notin DOMAIN llm_usage' => reported'[RunOf(n)'] = <<>>
  <2> SUFFICES ASSUME NEW n \in Working', RunOf(n)' \notin DOMAIN llm_usage'
               PROVE  reported'[RunOf(n)'] = <<>>
    OBVIOUS
  <2>1. pos' = pos /\ n \in Working /\ RunOf(n) # c
    OBVIOUS
  <2>2. RunOf(n)' = RunOf(n)
    BY <2>1 DEF RunOf
  <2>3. RunOf(n) \notin DOMAIN llm_usage
    BY <1>3, <2>1, <2>2
  <2> QED BY <2>1, <2>2, <2>3 DEF HandlerInv, Remembers
<1>9. \A call \in DOMAIN llm_parent' : llm_parent'[call] = call[1]
  BY <1>3 DEF HandlerInv, Remembers
<1> QED
  BY <1>5, <1>6, <1>7, <1>8, <1>9 DEF HandlerInv, Remembers

LEMMA BeginSegmentHandler ==
  ASSUME GraphInv, BeginSegment
  PROVE  HandlerInv'
<1>1. /\ turn = "segment" /\ pos <= Len(Plan) /\ open' = {<<pos, "root">>}
      /\ starts' = <<>> /\ llm_parent' = <<>> /\ llm_usage' = <<>>
      /\ skipped' = {<<pos, "root">>} /\ ~IsRealNodeEvent(<<pos, "root">>)
      /\ UNCHANGED <<pos, todo, calling, reported>>
  BY DEF BeginSegment, RunOf
<1>2. todo = {} /\ calling = {} /\ Working' = {}
  BY <1>1 DEF GraphInv, Working
<1>3. DOMAIN starts' = {} /\ DOMAIN llm_parent' = {} /\ DOMAIN llm_usage' = {}
  BY <1>1
<1>4. HandlerForgets'
  BY <1>1, <1>2, <1>3 DEF HandlerForgets
<1> QED
  BY <1>2, <1>3, <1>4 DEF HandlerInv, Remembers

\* The calls in progress, when one begins or is over.
LEMMA CallRuns ==
  ASSUME NEW n
  PROVE  /\ {<<RunOf(m), "llm">> : m \in calling \cup {n}}
              = {<<RunOf(m), "llm">> : m \in calling} \cup {<<RunOf(n), "llm">>}
         /\ {<<RunOf(m), "llm">> : m \in calling \ {n}}
              = {<<RunOf(m), "llm">> : m \in calling} \ {<<RunOf(n), "llm">>}
BY DEF RunOf

LEMMA CallLlmHandler ==
  ASSUME GraphInv, HandlerInv, NEW n \in todo, CallLlm(n)
  PROVE  HandlerInv'
<1> DEFINE c == RunOf(n)
           call == <<c, "llm">>
<1>1. /\ llm_parent' = With(llm_parent, call, c) /\ calling' = calling \cup {n}
      /\ UNCHANGED <<pos, todo, open, reported, starts, skipped, llm_usage>>
  BY DEF CallLlm, HandleLlmStart
<1>2. call[1] = c
  OBVIOUS
<1>3. {<<RunOf(m), "llm">> : m \in calling'} = {<<RunOf(m), "llm">> : m \in calling} \cup {call}
  BY <1>1, CallRuns
<1> HIDE DEF c, call
<1>4. /\ DOMAIN llm_parent' = DOMAIN llm_parent \cup {call}
      /\ \A d \in DOMAIN llm_parent' :
           llm_parent'[d] = IF d = call THEN c ELSE llm_parent[d]
  BY <1>1 DEF With
<1>5. \A d \in DOMAIN llm_parent' : llm_parent'[d] = d[1]
  BY <1>2, <1>4 DEF HandlerInv, Remembers
<1>6. DOMAIN llm_parent' = {<<RunOf(m)', "llm">> : m \in calling'}
  <2>1. DOMAIN llm_parent' = {<<RunOf(m), "llm">> : m \in calling'}
    BY <1>3, <1>4 DEF HandlerInv, HandlerForgets
  <2> QED BY <1>1, <2>1 DEF RunOf
<1>7. HandlerForgets'
  BY <1>1, <1>6 DEF HandlerInv, HandlerForgets
<1>8. \A m \in Working' : m \in Working /\ RunOf(m)' = RunOf(m)
  BY <1>1 DEF Working, RunOf
<1> QED
  BY <1>1, <1>5, <1>7, <1>8 DEF HandlerInv, Remembers

\* The call that is over is the node's.
LEMMA CallIsOver ==
  ASSUME GraphInv, HandlerInv, NEW n \in calling, NEW call, call = <<RunOf(n), "llm">>,
         llm_parent' = Without(llm_parent, call), calling' = calling \ {n}, UNCHANGED pos
  PROVE  /\ call \in DOMAIN llm_parent /\ llm_parent[call] = RunOf(n)
         /\ DOMAIN llm_parent' = {<<RunOf(m)', "llm">> : m \in calling'}
         /\ \A d \in DOMAIN llm_parent' : llm_parent'[d] = d[1]
<1>1. DOMAIN llm_parent = {<<RunOf(m), "llm">> : m \in calling}
  BY DEF HandlerInv, HandlerForgets
<1>2. call \in DOMAIN llm_parent /\ call[1] = RunOf(n)
  BY <1>1
<1>3. llm_parent[call] = RunOf(n)
  BY <1>2 DEF HandlerInv, Remembers
<1>4. /\ DOMAIN llm_parent' = DOMAIN llm_parent \ {call}
      /\ \A d \in DOMAIN llm_parent' : llm_parent'[d] = llm_parent[d]
  BY DEF Without
<1>5. {<<RunOf(m), "llm">> : m \in calling'} = {<<RunOf(m), "llm">> : m \in calling} \ {call}
  BY CallRuns
<1>6. DOMAIN llm_parent' = {<<RunOf(m), "llm">> : m \in calling'}
  BY <1>1, <1>4, <1>5
<1>7. DOMAIN llm_parent' = {<<RunOf(m)', "llm">> : m \in calling'}
  BY <1>6 DEF RunOf
<1>8. \A d \in DOMAIN llm_parent' : llm_parent'[d] = d[1]
  BY <1>4 DEF HandlerInv, Remembers
<1> QED
  BY <1>2, <1>3, <1>7, <1>8

LEMMA LlmFailsHandler ==
  ASSUME GraphInv, HandlerInv, NEW n \in todo, LlmFails(n)
  PROVE  HandlerInv'
<1> DEFINE call == <<RunOf(n), "llm">>
<1>1. /\ llm_parent' = Without(llm_parent, call) /\ calling' = calling \ {n} /\ n \in calling
      /\ UNCHANGED <<pos, todo, open, reported, starts, skipped, llm_usage>>
  BY DEF LlmFails, OnLlmError
<1>2. call = <<RunOf(n), "llm">>
  OBVIOUS
<1> HIDE DEF call
<1>3. /\ DOMAIN llm_parent' = {<<RunOf(m)', "llm">> : m \in calling'}
      /\ \A d \in DOMAIN llm_parent' : llm_parent'[d] = d[1]
  BY <1>1, <1>2, CallIsOver
<1>4. HandlerForgets'
  BY <1>1, <1>3 DEF HandlerInv, HandlerForgets
<1>5. \A m \in Working' : m \in Working /\ RunOf(m)' = RunOf(m)
  BY <1>1 DEF Working, RunOf
<1> QED
  BY <1>1, <1>3, <1>4, <1>5 DEF HandlerInv, Remembers

LEMMA LlmAnswersHandler ==
  ASSUME GraphInv, HandlerInv, NEW n \in todo, NEW tokens \in Usages[n], LlmAnswers(n, tokens)
  PROVE  HandlerInv'
<1> DEFINE c == RunOf(n)
           call == <<c, "llm">>
           bucket == IF c \in DOMAIN llm_usage THEN llm_usage[c] ELSE Unknown
           parent == llm_parent[call]
           total == SumOptional(IF parent \in DOMAIN llm_usage THEN llm_usage[parent]
                                ELSE Unknown, tokens)
<1>1. /\ llm_parent' = Without(llm_parent, call) /\ calling' = calling \ {n} /\ n \in calling
      /\ UNCHANGED <<pos, turn, todo, open, starts, skipped>>
      /\ turn = "nodes" /\ c \in open
  BY DEF LlmAnswers, OnLlmEnd, InNode
<1>2. llm_usage' = With(llm_usage, parent, total)
  BY DEF LlmAnswers, OnLlmEnd
<1>3. reported' = [reported EXCEPT ![c] = Append(@, tokens)]
  BY DEF LlmAnswers
<1>4. /\ parent = c
      /\ DOMAIN llm_parent' = {<<RunOf(m)', "llm">> : m \in calling'}
      /\ \A d \in DOMAIN llm_parent' : llm_parent'[d] = d[1]
  <2>1. call = <<RunOf(n), "llm">> /\ c = RunOf(n) /\ parent = llm_parent[call]
    OBVIOUS
  <2> HIDE DEF call, c, parent
  <2> QED BY <1>1, <2>1, CallIsOver
<1>5. total = SumOptional(bucket, tokens)
  BY <1>4
<1>6. n \in Working /\ c \in DOMAIN reported /\ n \in PlanNodes
  BY <1>1, AtWork DEF Working
<1>7. tokens \in Nat \cup {Unknown} /\ reported[c] \in Seq(Nat \cup {Unknown})
  BY <1>6, LogBoundsAssumption DEF GraphInv
<1>8. bucket = Total(reported[c])
  BY <1>6, TotalOfNone DEF HandlerInv, Remembers
<1>9. SumOptional(bucket, tokens) = Total(Append(reported[c], tokens))
  BY <1>7, <1>8, TotalAppend
<1>10. c = RunOf(n)
  OBVIOUS
<1> HIDE DEF c, call, bucket, parent, total
<1>11. /\ DOMAIN llm_usage' = DOMAIN llm_usage \cup {c}
       /\ llm_usage'[c] = Total(Append(reported[c], tokens))
       /\ \A d \in DOMAIN llm_usage : d # c => llm_usage'[d] = llm_usage[d]
  BY <1>2, <1>4, <1>5, <1>9 DEF With
<1>12. /\ DOMAIN reported' = DOMAIN reported
       /\ reported'[c] = Append(reported[c], tokens)
       /\ \A d \in DOMAIN reported : d # c => reported'[d] = reported[d]
  BY <1>3, <1>6
<1>13. DOMAIN llm_usage \subseteq open /\ DOMAIN llm_usage \subseteq DOMAIN reported
  BY DEF HandlerInv, HandlerForgets
<1>14. HandlerForgets'
  BY <1>1, <1>4, <1>6, <1>11, <1>12, <1>13 DEF HandlerInv, HandlerForgets
<1>15. \A d \in DOMAIN llm_usage' : llm_usage'[d] = Total(reported'[d])
  BY <1>11, <1>12, <1>13 DEF HandlerInv, Remembers
<1>16. \A m \in Working' : RunOf(m)' \notin DOMAIN llm_usage' => reported'[RunOf(m)'] = <<>>
  <2> SUFFICES ASSUME NEW m \in Working', RunOf(m)' \notin DOMAIN llm_usage'
               PROVE  reported'[RunOf(m)'] = <<>>
    OBVIOUS
  <2>1. RunOf(m)' = RunOf(m) /\ m \in Working
    BY <1>1, <1>12 DEF RunOf, Working
  <2>2. RunOf(m) # c /\ RunOf(m) \notin DOMAIN llm_usage
    BY <1>11, <2>1
  <2>3. reported[RunOf(m)] = <<>> /\ RunOf(m) \in DOMAIN reported
    BY <2>1, <2>2 DEF HandlerInv, Remembers, Working
  <2> QED BY <1>12, <2>1, <2>2, <2>3
<1> QED
  BY <1>1, <1>4, <1>14, <1>15, <1>16 DEF HandlerInv, Remembers

LEMMA HandlerStep ==
  GraphInv /\ IterationIsCounted /\ HandlerInv /\ [LogNext]_log_vars => HandlerInv'
<1> SUFFICES ASSUME GraphInv, IterationIsCounted, HandlerInv, [LogNext]_log_vars
             PROVE  HandlerInv'
  OBVIOUS
<1>1. CASE UNCHANGED log_vars
  <2>1. UNCHANGED <<pos, todo, open, calling, reported, starts, skipped, llm_parent, llm_usage>>
    BY <1>1 DEF log_vars, langgraph, handler
  <2> QED BY <2>1 DEF HandlerInv, HandlerForgets, Remembers, Working, RunOf
<1>2. CASE BeginSegment
  BY <1>2, BeginSegmentHandler
\* A phase node or its subgraph begins: no node does.
<1>3. ASSUME NEW kind \in {"phase", "sub"}, turn \in {"phase", "sub"},
             OnChainStart(RunOf(kind)), open' = open \cup {RunOf(kind)},
             RunOf(kind) \notin open, UNCHANGED <<pos, calling, reported>>, Working' = {}
      PROVE  HandlerInv'
  <2>1. Working = {}
    BY <1>3 DEF GraphInv, Working
  <2>2. RunOf(kind)[1] = pos
    BY DEF RunOf
  <2>3. current_iteration = IterationAt[RunOf(kind)[1]]
    BY <1>3, <2>2 DEF IterationIsCounted
  <2> QED BY <1>3, <2>1, <2>3, StartHandler
<1>4. CASE EnterPhase
  <2>1. /\ turn = "phase" /\ OnChainStart(RunOf("phase")) /\ open' = open \cup {RunOf("phase")}
        /\ UNCHANGED <<pos, todo, calling, reported>>
    BY <1>4 DEF EnterPhase
  <2>2. todo = {} /\ Working = {} /\ Working' = {}
    BY <2>1 DEF GraphInv, Working
  <2>3. PICK p \in 1..pos : open = OpenBelow(p)
    BY <2>1 DEF GraphInv, RunsNest
  <2>4. RunOf("phase") \notin open
    BY <2>1, <2>2, <2>3 DEF OpenBelow, RunOf
  <2> QED BY <1>3, <2>1, <2>2, <2>4
<1>5. CASE EnterSub
  <2>1. /\ turn = "sub" /\ OnChainStart(RunOf("sub")) /\ open' = open \cup {RunOf("sub")}
        /\ UNCHANGED <<pos, calling, reported>>
    BY <1>5 DEF EnterSub
  <2>2. todo = {} /\ Working = {}
    BY <2>1 DEF GraphInv, Working
  <2>3. PICK p \in 1..pos : open = OpenBelow(p)
    BY <2>1 DEF GraphInv, RunsNest
  <2>4. RunOf("sub") \notin open
    BY <2>1, <2>2, <2>3 DEF OpenBelow, RunOf
  <2>5. \A n : <<pos, n>> \notin DOMAIN reported
    <3>1. \A c \in DOMAIN reported : c[1] < pos /\ pos \in Int
      BY <2>1 DEF GraphInv
    <3> QED BY <3>1
  <2>6. Working' = {}
    BY <2>1, <2>5 DEF Working, RunOf
  <2> QED BY <1>3, <2>1, <2>4, <2>6
<1>6. CASE LeaveSub
  <2>1. /\ OnChainEnd(RunOf("sub")) \/ OnChainError(RunOf("sub"))
        /\ open' = open \ {RunOf("sub")} /\ UNCHANGED <<pos, calling, reported>> /\ todo' = {}
    BY <1>6 DEF LeaveSub, Leave
  <2>2. RunOf("sub") \in open /\ Working' = {}
    BY <1>6, <2>1, LeaveSubGraph DEF Working
  <2> QED BY <2>1, <2>2, EndHandler
<1>7. CASE LeavePhase
  <2>1. /\ OnChainEnd(RunOf("phase")) \/ OnChainError(RunOf("phase"))
        /\ open' = open \ {RunOf("phase")} /\ UNCHANGED <<calling, reported, todo>>
        /\ turn = "phase_end"
    BY <1>7 DEF LeavePhase, Leave
  <2>2. RunOf("phase") \in open /\ calling = {} /\ Working' = {}
    BY <1>7, <2>1, LeavePhaseGraph DEF Working, GraphInv
  <2> QED BY <2>1, <2>2, EndHandler
<1>8. CASE LeaveRoot
  <2>1. /\ OnChainEnd(<<Segment, "root">>) \/ OnChainError(<<Segment, "root">>)
        /\ open' = {} /\ UNCHANGED <<calling, reported, todo>> /\ turn = "root_end"
    BY <1>8 DEF LeaveRoot
  <2>2. open = {<<Segment, "root">>} /\ calling = {}
    BY <1>8, LeaveRootGraph
  <2>3. open' = open \ {<<Segment, "root">>} /\ <<Segment, "root">> \in open
    BY <2>1, <2>2
  <2>4. Working' = {}
    BY <2>1 DEF Working, GraphInv
  <2> QED BY <2>1, <2>2, <2>3, <2>4, EndHandler
<1>9. ASSUME NEW n \in todo, StartNode(n) PROVE HandlerInv'
  <2>1. /\ OnChainStart(RunOf(n)) /\ RunOf(n) \notin open /\ open' = open \cup {RunOf(n)}
        /\ reported' = With(reported, RunOf(n), <<>>)
        /\ UNCHANGED <<pos, todo, calling>>
    BY <1>9 DEF StartNode
  <2>2. n \notin Working
    BY <1>9, StartNodeGraph
  <2>3. /\ DOMAIN reported' = DOMAIN reported \cup {RunOf(n)}
        /\ reported'[RunOf(n)] = <<>>
        /\ \A d \in DOMAIN reported : d # RunOf(n) => reported'[d] = reported[d]
    BY <2>1 DEF With
  <2>4. \A m \in Working' : m \in Working \/ reported'[RunOf(m)] = <<>>
    BY <2>1, <2>3 DEF Working, RunOf
  <2>5. \A m \in Working : RunOf(m) # RunOf(n)
    BY <2>2 DEF RunOf
  <2>6. DOMAIN reported \subseteq DOMAIN reported'
    BY <2>3
  <2>7. current_iteration = IterationAt[RunOf(n)[1]]
    <3>1. turn = "nodes" /\ todo # {} /\ RunOf(n)[1] = pos
      BY <1>9 DEF StartNode, RunOf
    <3> QED BY <3>1 DEF IterationIsCounted
  <2> QED BY <2>1, <2>3, <2>4, <2>5, <2>6, <2>7, StartHandler
<1>10. ASSUME NEW n \in todo, CallLlm(n) PROVE HandlerInv'
  BY <1>10, CallLlmHandler
<1>11. ASSUME NEW n \in todo, LlmFails(n) PROVE HandlerInv'
  BY <1>11, LlmFailsHandler
<1>12. ASSUME NEW n \in todo, NEW tokens \in Usages[n], LlmAnswers(n, tokens)
       PROVE  HandlerInv'
  BY <1>12, LlmAnswersHandler
\* What a node that leaves takes with it.
<1>13. ASSUME NEW n \in todo, NodeReturns(n) \/ NodeRaises(n)
       PROVE  HandlerInv'
  <2>1. /\ OnChainEnd(RunOf(n)) \/ OnChainError(RunOf(n))
        /\ open' = open \ {RunOf(n)} /\ RunOf(n) \in open
        /\ UNCHANGED <<pos, calling, reported>> /\ turn = "nodes"
    BY <1>13 DEF NodeReturns, NodeRaises, InNode
  <2>2. \A m \in Working' : m \in Working /\ RunOf(m) # RunOf(n)
    <3>1. CASE todo' \subseteq todo \ {n}
      BY <2>1, <3>1 DEF Working, RunOf
    <3>2. CASE NodeReturns(n) /\ ~(todo' \subseteq todo \ {n})
      <4>1. todo = {n} /\ todo' = Successors(Plan[pos], todo \cup ran)
        BY <3>2 DEF NodeReturns
      <4>2. Plan[pos] \in Phases
        BY <2>1, AtWork
      <4> DEFINE begun == {m \in NodesOf(Plan[pos]) : <<pos, m>> \in DOMAIN reported}
      <4>3. GoesForward(Plan[pos], todo \cup ran, begun)
        BY <2>1 DEF GraphInv, Forward, RunOf
      <4> HIDE DEF begun
      <4>4. /\ GoesForward(Plan[pos], todo', begun) /\ todo' \cap begun = {}
        BY <4>1, <4>2, <4>3, NextSuperstep
      <4>5. todo' \subseteq NodesOf(Plan[pos])
        BY <4>4 DEF GoesForward
      <4>6. Working' = {}
        BY <2>1, <4>4, <4>5 DEF Working, RunOf, begun
      <4> QED BY <4>6
    <3>3. CASE NodeRaises(n)
      <4>1. todo' = todo \ {n}
        BY <3>3 DEF NodeRaises
      <4> QED BY <3>1, <4>1
    <3> QED BY <1>13, <3>1, <3>2, <3>3
  <2> QED BY <2>1, <2>2, EndHandler
<1> QED
  BY <1>1, <1>2, <1>4, <1>5, <1>6, <1>7, <1>8, <1>9, <1>10, <1>11, <1>12, <1>13 DEF LogNext

\* What the handler remembers is exactly what is going on, however nodes and
\* calls end, on whichever thread; so after a segment it remembers nothing.
THEOREM HandlersForget == LogSpec => []HandlerForgets
<1>1. LogSpec => [](GraphInv /\ IterationIsCounted /\ HandlerInv)
  BY InitGraph, InitCount, InitHandler, GraphStep, CountStep, HandlerStep, PTL DEF LogSpec
<1>2. HandlerInv => HandlerForgets
  BY DEF HandlerInv
<1> QED
  BY <1>1, <1>2, PTL

-----------------------------------------------------------------------------
(* The log                                                                 *)

\* The chain runs that are in the log: nodes and phases.
Spans == NodeRuns \cup {<<p, "phase">> : p \in 1..Len(Plan)}

LEMMA SpansAre ==
  ASSUME NEW c \in Spans
  PROVE  /\ IsRealNodeEvent(c) /\ c[1] \in 1..Len(Plan) /\ Plan[c[1]] \in Phases
         /\ NameOf(c) \in {Plan[c[1]]} \cup NodesOf(Plan[c[1]])
         /\ NameOf(c) \in Phases \cup PlanNodes
         /\ \/ c[2] = "phase" /\ NameOf(c) = Plan[c[1]] /\ c = <<c[1], "phase">>
            \/ c \in NodeRuns
<1>1. CASE c \in NodeRuns
  BY <1>1, RealEvents
<1>2. ASSUME NEW p \in 1..Len(Plan), c = <<p, "phase">>
      PROVE  /\ IsRealNodeEvent(c) /\ c[1] \in 1..Len(Plan) /\ Plan[c[1]] \in Phases
             /\ NameOf(c) = Plan[c[1]] /\ c = <<c[1], "phase">> /\ c[2] = "phase"
  <2>1. c[1] = p /\ c[2] = "phase"
    BY <1>2
  <2> QED BY <1>2, <2>1, RealEvents
<1> QED
  BY <1>1, <1>2 DEF Spans

LEMMA BegunAreSpans == GraphInv => Begun \subseteq Spans
BY DEF Begun, Spans, GraphInv

\* A name, a phase and an iteration tell which chain run it is.
LEMMA SameRun ==
  ASSUME NEW c \in ChainRuns, IsRealNodeEvent(c), NEW d \in Spans,
         NameOf(c) = NameOf(d), Plan[c[1]] = Plan[d[1]], IterationAt[c[1]] = IterationAt[d[1]]
  PROVE  c = d
<1>1. /\ c[1] \in 1..Len(Plan) /\ c = <<c[1], c[2]>>
      /\ c[2] \in PlanNodes \cup {"root", "phase", "sub"}
  BY DEF ChainRuns
<1>2. d[1] \in 1..Len(Plan)
  BY SpansAre
<1>3. c[1] = d[1]
  BY <1>1, <1>2, OnePosition
<1>4. \A n \in PlanNodes : n \notin Phases /\ n \notin {"root", "phase", "sub"}
  <2> SUFFICES ASSUME NEW n \in PlanNodes
               PROVE  n \notin Phases /\ n \notin {"root", "phase", "sub"}
    OBVIOUS
  <2>1. PICK ph \in Range(Plan) : n \in {Sequence[ph][i] : i \in 1..Len(Sequence[ph])}
    BY DEF PlanNodes
  <2>2. ph \in Phases
    BY PlanAssumption DEF Range
  <2> QED BY <2>1, <2>2, SequencesAre
<1>5. c[2] # "root" /\ c[2] # "sub"
  BY <1>1, RealEvents, ZenonT(40)
<1>6. CASE c[2] = "phase"
  <2>1. NameOf(c) = Plan[c[1]] /\ Plan[c[1]] \in Phases
    BY <1>1, <1>6, RealEvents
  <2>2. d \notin NodeRuns
    BY <2>1, RealEvents, ZenonT(40)
  <2> QED BY <1>1, <1>3, <1>6, <2>2, SpansAre
<1>7. CASE c[2] \in PlanNodes
  <2>1. NameOf(c) = c[2] /\ c[2] \notin Phases
    BY <1>4, <1>7 DEF NameOf
  <2>2. d \in NodeRuns
    BY <1>2, <2>1, SpansAre
  <2>3. NameOf(d) = d[2] /\ d = <<d[1], d[2]>>
    BY <2>2, RealEvents
  <2> QED BY <1>1, <1>3, <2>1, <2>3
<1> QED
  BY <1>1, <1>5, <1>6, <1>7

LEMMA SpansAreChainRuns == Spans \subseteq ChainRuns
BY RealEvents DEF Spans, ChainRuns

LEMMA SpanIteration ==
  ASSUME NEW c \in Spans
  PROVE  c[1] \in 1..(Len(Plan) + 1) /\ IterationAt[c[1]] \in Nat
<1>1. c[1] \in 1..(Len(Plan) + 1)
  BY SpansAre, PlanIs
<1> QED
  BY <1>1, IterationsCount

LEMMA BegunSoFar == GraphInv => \A c \in Begun : c[1] <= pos
<1> SUFFICES ASSUME GraphInv, NEW c \in Begun PROVE c[1] <= pos
  OBVIOUS
<1>0. pos \in Nat
  BY PlanIs DEF GraphInv
<1>1. CASE c \in DOMAIN reported
  <2>1. c[1] \in 1..Len(Plan) /\ (c[1] < pos \/ c[1] = pos)
    BY <1>1, RealEvents DEF GraphInv
  <2> QED BY <1>0, <2>1
<1>2. ASSUME NEW q \in 1..Len(Plan), q < pos \/ q = pos, c = <<q, "phase">>
      PROVE  c[1] <= pos
  BY <1>0, <1>2
<1> QED
  BY <1>1, <1>2 DEF Begun

LEMMA InitLog == LogInit => Traced /\ WrittenOnce
<1> SUFFICES ASSUME LogInit PROVE Traced /\ WrittenOnce
  OBVIOUS
<1>1. /\ log = <<>> /\ Len(log) = 0 /\ log \in Seq(Records)
      /\ pos = 1 /\ turn = "segment" /\ DOMAIN reported = {}
  BY DEF LogInit
<1>2. Begun = {}
  BY <1>1 DEF Begun
<1> QED
  BY <1>1, <1>2 DEF Traced, WrittenOnce

\* Where nothing is written.
LEMMA SilentLog ==
  ASSUME Traced, UNCHANGED <<log, lost>>, Begun' = Begun,
         \A c \in Begun : c \notin open => c \notin open' /\ ReportedTo(c)' = ReportedTo(c)
  PROVE  Traced'
<1>1. \A i \in 1..Len(log) : \E c \in Begun :
        /\ IsAbout(log[i], c)
        /\ log[i].event = "end" => c \notin open' /\ log[i].tokens = Total(ReportedTo(c)')
  BY DEF Traced
<1>2. \A i \in 1..Len(log') : \E c \in Begun' :
        /\ IsAbout(log'[i], c)
        /\ log'[i].event = "end" => c \notin open' /\ log'[i].tokens = Total(ReportedTo(c)')
  BY <1>1
<1> QED
  BY <1>2 DEF Traced

\* A record is written behind the others, or lost.
LEMMA Append1 ==
  ASSUME NEW rec \in Records, log \in Seq(Records), log' = Append(log, rec)
  PROVE  /\ log' \in Seq(Records) /\ Len(log) \in Nat
         /\ Len(log') = Len(log) + 1 /\ Len(log) + 1 \in 1..Len(log')
         /\ 1..Len(log') = (1..Len(log)) \cup {Len(log) + 1}
         /\ \A i \in 1..Len(log) : log'[i] = log[i] /\ i < Len(log) + 1
         /\ log'[Len(log) + 1] = rec
OBVIOUS

LEMMA WrittenAfter ==
  ASSUME GraphInv, Traced, NEW rec \in Records, NEW c \in Spans, Begun' = Begun \cup {c},
         AppendJsonl(rec), IsAbout(rec, c), \A d \in Begun : d[1] <= c[1],
         \/ rec.event = "start" /\ rec = StartRecord(StartOf(c, IterationAt[c[1]]))
         \/ /\ rec.event = "end" /\ c \notin open' /\ rec.tokens = Total(ReportedTo(c)')
            /\ c \in Begun,
         \A d \in Begun : d \notin open => d \notin open' /\ ReportedTo(d)' = ReportedTo(d)
  PROVE  Traced'
<1> DEFINE Begin(d) == StartRecord(StartOf(d, IterationAt[d[1]]))
<1>0. rec.event = "start" => rec = Begin(c)
  OBVIOUS
<1>1. /\ log \in Seq(Records)
      /\ \A i \in 1..Len(log) : \E d \in Begun :
           /\ IsAbout(log[i], d)
           /\ log[i].event = "end" => d \notin open' /\ log[i].tokens = Total(ReportedTo(d)')
      /\ \A d \in Begun :
           Begin(d) \in lost \/ \E j \in 1..Len(log) : log[j] = Begin(d)
      /\ \A i \in 1..Len(log) :
           log[i].event = "end" =>
             \/ \E j \in 1..(i - 1) : log[j].event = "start" /\ SameSpan(log[j], log[i])
             \/ \E l \in lost : l.event = "start" /\ SameSpan(l, log[i])
      /\ \A i \in 2..Len(log) : log[i - 1].iteration <= log[i].iteration
  BY DEF Traced
<1>2. Begin(c).event = "start" /\ SameSpan(Begin(c), rec)
  BY DEF StartRecord, StartOf, Record, IsAbout, SameSpan
<1>3. \A i \in 1..Len(log) : log[i].iteration <= rec.iteration
  <2> SUFFICES ASSUME NEW i \in 1..Len(log) PROVE log[i].iteration <= rec.iteration
    OBVIOUS
  <2>1. PICK d \in Begun : IsAbout(log[i], d)
    BY <1>1
  <2>2. d[1] <= c[1] /\ d[1] \in 1..(Len(Plan) + 1) /\ c[1] \in 1..(Len(Plan) + 1)
    BY BegunAreSpans, SpanIteration
  <2>3. IterationAt[d[1]] <= IterationAt[c[1]]
    BY <2>2, IterationsCount
  <2> QED BY <2>1, <2>3 DEF IsAbout
<1> HIDE DEF Begin
<1>4. CASE UNCHANGED log /\ lost' = lost \cup {rec}
  <2>1. \A d \in Begun' :
          Begin(d) \in lost' \/ \E j \in 1..Len(log') : log'[j] = Begin(d)
    BY <1>0, <1>1, <1>4
  <2>2. \A i \in 1..Len(log') :
          log'[i].event = "end" =>
            \/ \E j \in 1..(i - 1) : log'[j].event = "start" /\ SameSpan(log'[j], log'[i])
            \/ \E l \in lost' : l.event = "start" /\ SameSpan(l, log'[i])
    BY <1>1, <1>4
  <2>3. \A i \in 2..Len(log') : log'[i - 1].iteration <= log'[i].iteration
    BY <1>1, <1>4
  <2> QED BY <1>1, <1>4, <2>1, <2>2, <2>3 DEF Traced, Begin, SameSpan
<1>5. CASE log' = Append(log, rec) /\ UNCHANGED lost
  <2> DEFINE k == Len(log) + 1
  <2>1. /\ log' \in Seq(Records) /\ Len(log) \in Nat /\ k \in 1..Len(log')
        /\ 1..Len(log') = (1..Len(log)) \cup {k}
        /\ \A i \in 1..Len(log) : log'[i] = log[i] /\ i < k
        /\ log'[k] = rec
    BY <1>1, <1>5, Append1
  <2>0. k - 1 = Len(log)
    BY <2>1
  <2> HIDE DEF k
  <2>2. \A i \in 1..Len(log') : \E d \in Begun' :
          /\ IsAbout(log'[i], d)
          /\ log'[i].event = "end" => d \notin open' /\ log'[i].tokens = Total(ReportedTo(d)')
    BY <1>1, <2>1
  <2>3. \A d \in Begun' :
          Begin(d) \in lost' \/ \E j \in 1..Len(log') : log'[j] = Begin(d)
    BY <1>0, <1>1, <1>5, <2>1
  <2>4. ASSUME NEW i \in 1..Len(log'), log'[i].event = "end"
        PROVE  \/ \E j \in 1..(i - 1) : log'[j].event = "start" /\ SameSpan(log'[j], log'[i])
               \/ \E l \in lost' : l.event = "start" /\ SameSpan(l, log'[i])
    <3>1. CASE i \in 1..Len(log)
      <4>1. log'[i] = log[i] /\ \A j \in 1..(i - 1) : log'[j] = log[j]
        BY <2>1, <3>1
      <4> QED BY <1>1, <1>5, <2>4, <3>1, <4>1
    <3>2. CASE i = k
      <4>1. rec.event = "end" /\ c \in Begun /\ log'[i] = rec
        BY <2>1, <2>4, <3>2
      <4>2. CASE Begin(c) \in lost
        BY <1>2, <1>5, <4>1, <4>2
      <4>3. CASE \E j \in 1..Len(log) : log[j] = Begin(c)
        <5>1. PICK j \in 1..Len(log) : log[j] = Begin(c)
          BY <4>3
        <5>2. j \in 1..(i - 1) /\ log'[j] = Begin(c)
          BY <2>0, <2>1, <3>2, <5>1
        <5> QED BY <1>2, <4>1, <5>2
      <4> QED BY <1>1, <4>1, <4>2, <4>3
    <3> QED BY <2>1, <3>1, <3>2
  <2>5. ASSUME NEW i \in 2..Len(log')
        PROVE  log'[i - 1].iteration <= log'[i].iteration
    <3>1. i - 1 \in 1..Len(log) /\ i \in 1..Len(log')
      BY <1>1, <1>5, Append1
    <3>2. CASE i \in 1..Len(log)
      BY <1>1, <2>1, <2>5, <3>1, <3>2
    <3>3. CASE i = k
      BY <1>3, <2>1, <3>1, <3>3
    <3> QED BY <2>1, <3>1, <3>2, <3>3
  <2> QED BY <2>1, <2>2, <2>3, <2>4, <2>5 DEF Traced, Begin, SameSpan
<1> QED
  BY <1>4, <1>5 DEF AppendJsonl

\* A record of a span that is not in the log yet is there once.
LEMMA OnceAfter ==
  ASSUME GraphInv, Traced, WrittenOnce, NEW rec \in Records, NEW c \in Spans,
         AppendJsonl(rec), IsAbout(rec, c),
         \/ rec.event = "start" /\ c \notin Begun
         \/ rec.event = "end" /\ c \in open
  PROVE  WrittenOnce'
<1>1. CASE UNCHANGED log
  BY <1>1 DEF WrittenOnce
<1>2. CASE log' = Append(log, rec)
  <2> DEFINE k == Len(log) + 1
  <2>1. /\ 1..Len(log') = (1..Len(log)) \cup {k}
        /\ \A i \in 1..Len(log) : log'[i] = log[i] /\ i < k
        /\ log'[k] = rec
    BY <1>2, Append1 DEF Traced
  <2> HIDE DEF k
  <2>2. ASSUME NEW i \in 1..Len(log), log[i].event = rec.event, SameSpan(log[i], rec)
        PROVE  FALSE
    <3>1. PICK d \in Begun : /\ IsAbout(log[i], d)
                             /\ log[i].event = "end" => d \notin open
      BY DEF Traced
    <3>2. d \in Spans /\ d \in ChainRuns /\ IsRealNodeEvent(d)
      BY <3>1, BegunAreSpans, SpansAreChainRuns, SpansAre
    <3>3. /\ NameOf(d) = NameOf(c) /\ Plan[d[1]] = Plan[c[1]]
          /\ IterationAt[d[1]] = IterationAt[c[1]]
      BY <2>2, <3>1 DEF IsAbout, SameSpan
    <3>4. d = c
      BY <3>2, <3>3, SameRun
    <3> QED BY <2>2, <3>1, <3>4
  <2>3. \A i, j \in 1..Len(log) :
          log[i].event = log[j].event /\ SameSpan(log[i], log[j]) => i = j
    BY DEF WrittenOnce
  <2>5. \A r1, r2 : SameSpan(r1, r2) => SameSpan(r2, r1)
    BY DEF SameSpan
  <2>4. ASSUME NEW i \in 1..Len(log'), NEW j \in 1..Len(log'),
               log'[i].event = log'[j].event, SameSpan(log'[i], log'[j])
        PROVE  i = j
    <3>1. CASE i \in 1..Len(log) /\ j \in 1..Len(log)
      BY <2>1, <2>3, <2>4, <3>1
    <3>2. CASE i \in 1..Len(log) /\ j = k
      BY <2>1, <2>2, <2>4, <3>2
    <3>3. CASE i = k /\ j \in 1..Len(log)
      BY <2>1, <2>2, <2>4, <2>5, <3>3
    <3> QED BY <2>1, <3>1, <3>2, <3>3
  <2> QED BY <2>4 DEF WrittenOnce, SameSpan
<1> QED
  BY <1>1, <1>2 DEF AppendJsonl

LEMMA StartWritten ==
  ASSUME GraphInv, Traced, WrittenOnce, NEW c \in Spans, c \notin Begun, OnChainStart(c),
         c[1] = pos, current_iteration = IterationAt[c[1]],
         Begun' = Begun \cup {c}, open' = open \cup {c},
         \A d \in Begun : ReportedTo(d)' = ReportedTo(d)
  PROVE  Traced' /\ WrittenOnce'
<1> DEFINE rec == StartRecord(StartOf(c, IterationAt[c[1]]))
<1>1. AppendJsonl(rec)
  BY SpansAre DEF OnChainStart
<1>2. rec \in Records /\ IsAbout(rec, c) /\ rec.event = "start"
  BY SpansAre, SpanIteration DEF StartRecord, StartOf, Record, Records, IsAbout, Unknown
<1>3. \A d \in Begun : d \notin open => d \notin open' /\ ReportedTo(d)' = ReportedTo(d)
  OBVIOUS
<1>4. \A d \in Begun : d[1] <= c[1]
  BY BegunSoFar
<1>5. rec.event = "start" /\ rec = StartRecord(StartOf(c, IterationAt[c[1]]))
  BY <1>2
<1> HIDE DEF rec
<1>6. Traced'
  BY <1>1, <1>2, <1>3, <1>4, <1>5, WrittenAfter
<1>7. WrittenOnce'
  BY <1>1, <1>2, OnceAfter
<1> QED
  BY <1>6, <1>7

LEMMA EndWritten ==
  ASSUME GraphInv, HandlerInv, Traced, WrittenOnce, NEW c \in Begun, c \in open, OnChainEnd(c),
         c[1] = pos, Begun' = Begun, open' = open \ {c}, UNCHANGED reported,
         c \in DOMAIN reported => \E n \in Working : c = RunOf(n)
  PROVE  Traced' /\ WrittenOnce'
<1> DEFINE tokens == IF c \in DOMAIN llm_usage THEN llm_usage[c] ELSE Unknown
           rec == EndRecord(StartOf(c, IterationAt[c[1]]), tokens)
<1>1. c \in Spans
  BY BegunAreSpans
<1>2. c \notin skipped /\ c \in DOMAIN starts
  BY <1>1, SpansAre DEF HandlerInv, HandlerForgets
<1>3. starts[c] = StartOf(c, IterationAt[c[1]])
  BY <1>2 DEF HandlerInv, Remembers
<1>4. AppendJsonl(rec)
  BY <1>2, <1>3 DEF OnChainEnd
<1>5. tokens = Total(ReportedTo(c))
  <2>1. CASE c \in DOMAIN llm_usage
    BY <2>1 DEF HandlerInv, HandlerForgets, Remembers, ReportedTo
  <2>2. CASE c \notin DOMAIN llm_usage
    <3>1. ReportedTo(c) = <<>>
      BY <2>2 DEF HandlerInv, Remembers, ReportedTo
    <3> QED BY <2>2, <3>1, TotalOfNone
  <2> QED BY <2>1, <2>2
<1>6. tokens \in Nat \cup {Unknown}
  <2>1. ReportedTo(c) \in Seq(Nat \cup {Unknown})
    BY DEF ReportedTo, GraphInv
  <2>2. Total(ReportedTo(c)) \in Nat \cup {Unknown}
    BY <2>1, ToldIsFinite DEF Total
  <2> QED BY <1>5, <2>2
<1> HIDE DEF tokens
<1>7. /\ rec \in Records /\ IsAbout(rec, c) /\ rec.event = "end" /\ rec.tokens = tokens
  BY <1>1, <1>6, SpansAre, SpanIteration DEF EndRecord, StartOf, Record, Records, IsAbout
<1> HIDE DEF rec
<1>8. \A d \in Begun : d \notin open => d \notin open' /\ ReportedTo(d)' = ReportedTo(d)
  BY DEF ReportedTo
<1>9. c \notin open' /\ rec.tokens = Total(ReportedTo(c)')
  BY <1>5, <1>7 DEF ReportedTo
<1>10. Begun' = Begun \cup {c} /\ \A d \in Begun : d[1] <= c[1]
  BY BegunSoFar
<1>11. Traced'
  BY <1>1, <1>4, <1>7, <1>8, <1>9, <1>10, WrittenAfter
<1>12. WrittenOnce'
  BY <1>1, <1>4, <1>7, OnceAfter
<1> QED
  BY <1>11, <1>12

\* Steps that write nothing.
LEMMA NothingWritten ==
  ASSUME Traced, WrittenOnce, UNCHANGED <<log, lost>>, Begun' = Begun,
         \A c \in Begun : c \notin open => c \notin open' /\ ReportedTo(c)' = ReportedTo(c)
  PROVE  Traced' /\ WrittenOnce'
<1>1. Traced'
  BY SilentLog
<1>2. WrittenOnce => WrittenOnce'
  BY DEF WrittenOnce, SameSpan
<1> QED
  BY <1>1, <1>2

\* No subgraph and no graph is a span.
LEMMA OthersAreNoSpans ==
  ASSUME GraphInv
  PROVE  \A c \in Begun, p \in 1..Len(Plan) : c # <<p, "root">> /\ c # <<p, "sub">>
BY BegunAreSpans, SpansAre, RealEvents

LEMMA LogStep ==
  LogInv /\ [LogNext]_log_vars => Traced' /\ WrittenOnce'
<1> SUFFICES ASSUME GraphInv, HandlerInv, IterationIsCounted, Traced, WrittenOnce,
                    [LogNext]_log_vars
             PROVE  Traced' /\ WrittenOnce'
  BY DEF LogInv
<1>0. pos \in Int /\ Len(Plan) \in Int
  BY PlanAssumption DEF GraphInv
<1>1. CASE UNCHANGED log_vars
  <2>1. UNCHANGED <<log, lost, pos, turn, reported, open>>
    BY <1>1 DEF log_vars, langgraph
  <2>2. Begun' = Begun /\ \A c \in Begun : ReportedTo(c)' = ReportedTo(c)
    BY <2>1 DEF Begun, ReportedTo
  <2> QED BY <2>1, <2>2, NothingWritten
<1>2. CASE BeginSegment
  <2>1. /\ UNCHANGED <<log, lost, pos, reported>> /\ open' = {<<pos, "root">>}
        /\ turn = "segment" /\ turn' = "phase" /\ pos <= Len(Plan)
    BY <1>2 DEF BeginSegment, RunOf
  <2>2. Begun' = Begun /\ \A c \in Begun : ReportedTo(c)' = ReportedTo(c)
    BY <2>1 DEF Begun, ReportedTo
  <2>3. pos \in 1..Len(Plan)
    BY <2>1, <1>0 DEF GraphInv
  <2>4. \A c \in Begun : c \notin open'
    BY <2>1, <2>3, OthersAreNoSpans
  <2> QED BY <2>1, <2>2, <2>4, NothingWritten
<1>3. CASE EnterPhase
  <2> DEFINE c == <<pos, "phase">>
  <2>1. /\ OnChainStart(c) /\ open' = open \cup {c} /\ UNCHANGED <<pos, reported>>
        /\ turn = "phase" /\ turn' = "sub"
    BY <1>3 DEF EnterPhase, RunOf
  <2>2. pos \in 1..Len(Plan)
    BY <2>1, AtWork
  <2>3. c \in Spans
    BY <2>2 DEF Spans
  <2>4. c \notin DOMAIN reported
    BY RealEvents DEF GraphInv
  <2>5. c \notin Begun
    BY <1>0, <2>1, <2>4 DEF Begun
  <2>6. Begun' = Begun \cup {c}
    BY <1>0, <2>1, <2>2 DEF Begun
  <2>7. \A d \in Begun : ReportedTo(d)' = ReportedTo(d)
    BY <2>1 DEF ReportedTo
  <2>8. c[1] = pos /\ current_iteration = IterationAt[c[1]]
    BY <2>1 DEF IterationIsCounted
  <2> HIDE DEF c
  <2> QED BY <2>1, <2>3, <2>5, <2>6, <2>7, <2>8, StartWritten
<1>4. CASE EnterSub
  <2>1. /\ OnChainStart(<<pos, "sub">>) /\ open' = open \cup {<<pos, "sub">>}
        /\ UNCHANGED <<pos, reported>> /\ turn = "sub" /\ turn' = "nodes"
    BY <1>4 DEF EnterSub, RunOf
  <2>2. pos \in 1..Len(Plan)
    BY <2>1, AtWork
  <2>3. UNCHANGED <<log, lost>>
    BY <2>1, <2>2, RealEvents DEF OnChainStart
  <2>4. Begun' = Begun /\ \A c \in Begun : ReportedTo(c)' = ReportedTo(c)
    BY <2>1 DEF Begun, ReportedTo
  <2>5. \A c \in Begun : c \notin open => c \notin open'
    BY <2>1, <2>2, OthersAreNoSpans
  <2> QED BY <2>3, <2>4, <2>5, NothingWritten
<1>5. CASE LeaveSub
  <2>1. /\ OnChainEnd(<<pos, "sub">>) \/ OnChainError(<<pos, "sub">>)
        /\ open' = open \ {<<pos, "sub">>} /\ <<pos, "sub">> \in open
        /\ UNCHANGED <<pos, reported>> /\ turn = "nodes" /\ turn' = "phase_end"
    BY <1>5, LeaveSubGraph DEF LeaveSub, Leave, RunOf
  <2>2. pos \in 1..Len(Plan)
    BY <2>1, AtWork
  <2>3. <<pos, "sub">> \in skipped
    BY <2>1, <2>2, RealEvents DEF HandlerInv, HandlerForgets
  <2>4. UNCHANGED <<log, lost>>
    BY <2>1, <2>3 DEF OnChainEnd, OnChainError
  <2>5. Begun' = Begun /\ \A c \in Begun : ReportedTo(c)' = ReportedTo(c)
    BY <2>1 DEF Begun, ReportedTo
  <2> QED BY <2>1, <2>4, <2>5, NothingWritten
<1>6. CASE LeavePhase
  <2> DEFINE c == <<pos, "phase">>
  <2>1. /\ OnChainEnd(c) \/ OnChainError(c)
        /\ open' = open \ {c} /\ c \in open
        /\ UNCHANGED reported /\ turn = "phase_end"
        /\ \/ turn' = "root_end" /\ pos' = pos
           \/ turn' = "phase" /\ pos' = pos + 1
    BY <1>6, LeavePhaseGraph DEF LeavePhase, Leave, RunOf
  <2>2. pos \in 1..Len(Plan)
    BY <2>1, AtWork
  <2>3. {q \in 1..Len(Plan) : q < pos \/ (q = pos /\ turn \notin {"segment", "phase"})}
          = {q \in 1..Len(Plan) : q < pos' \/ (q = pos' /\ turn' \notin {"segment", "phase"})}
    <3>1. \A q \in 1..Len(Plan) : q < pos + 1 <=> q < pos \/ q = pos
      BY <1>0
    <3>2. \A q \in 1..Len(Plan) : q # pos + 1 \/ ~(q < pos)
      BY <1>0
    <3> QED BY <2>1, <3>1, <3>2
  <2>4. Begun' = Begun /\ \A d \in Begun : ReportedTo(d)' = ReportedTo(d)
    BY <2>1, <2>3 DEF Begun, ReportedTo
  <2>5. c \in Begun
    BY <2>1, <2>2 DEF Begun
  <2>6. c \notin DOMAIN reported /\ c[1] = pos
    BY RealEvents DEF GraphInv
  <2> HIDE DEF c
  <2>7. CASE OnChainEnd(c)
    BY <2>1, <2>4, <2>5, <2>6, <2>7, EndWritten
  <2>8. CASE OnChainError(c)
    <3>1. UNCHANGED <<log, lost>>
      BY <2>8 DEF OnChainError
    <3> QED BY <2>1, <2>4, <3>1, NothingWritten
  <2> QED BY <2>1, <2>7, <2>8
<1>7. CASE LeaveRoot
  <2> DEFINE c == <<Segment, "root">>
  <2>1. /\ OnChainEnd(c) \/ OnChainError(c)
        /\ open' = {} /\ UNCHANGED reported
        /\ turn = "root_end" /\ turn' = "segment" /\ pos' = pos + 1
    BY <1>7 DEF LeaveRoot
  <2>2. c \in open /\ ~IsRealNodeEvent(c)
    BY <1>7, LeaveRootGraph, RealEvents
  <2>3. c \in skipped
    BY <2>2 DEF HandlerInv, HandlerForgets
  <2>4. UNCHANGED <<log, lost>>
    BY <2>1, <2>3 DEF OnChainEnd, OnChainError
  <2>5. {q \in 1..Len(Plan) : q < pos \/ (q = pos /\ turn \notin {"segment", "phase"})}
          = {q \in 1..Len(Plan) : q < pos' \/ (q = pos' /\ turn' \notin {"segment", "phase"})}
    <3>1. \A q \in 1..Len(Plan) : q < pos + 1 <=> q < pos \/ q = pos
      BY <1>0
    <3> QED BY <2>1, <3>1
  <2>6. Begun' = Begun /\ \A d \in Begun : ReportedTo(d)' = ReportedTo(d)
    BY <2>1, <2>5 DEF Begun, ReportedTo
  <2> QED BY <2>1, <2>4, <2>6, NothingWritten
<1>8. ASSUME NEW n \in todo, StartNode(n)
      PROVE  Traced' /\ WrittenOnce'
  <2> DEFINE c == RunOf(n)
  <2>1. /\ OnChainStart(c) /\ open' = open \cup {c} /\ UNCHANGED <<pos, turn>>
        /\ reported' = With(reported, c, <<>>) /\ turn = "nodes"
    BY <1>8 DEF StartNode
  <2>2. c \in NodeRuns /\ c \notin DOMAIN reported
    BY <1>8, <2>1, AtWork, StartNodeGraph
  <2>3. c \in Spans /\ c[2] # "phase"
    BY <2>2, RealEvents DEF Spans
  <2>4. c \notin Begun
    BY <2>2, <2>3 DEF Begun
  <2>8. c[1] = pos /\ current_iteration = IterationAt[c[1]]
    <3>1. c[1] = pos /\ todo # {}
      BY DEF RunOf
    <3> QED BY <2>1, <3>1 DEF IterationIsCounted
  <2> HIDE DEF c
  <2>5. /\ DOMAIN reported' = DOMAIN reported \cup {c}
        /\ \A d \in DOMAIN reported : d # c => reported'[d] = reported[d]
    BY <2>1 DEF With
  <2>6. Begun' = Begun \cup {c}
    BY <2>1, <2>5 DEF Begun
  <2>7. \A d \in Begun : ReportedTo(d)' = ReportedTo(d)
    BY <2>4, <2>5 DEF ReportedTo
  <2> QED BY <2>1, <2>3, <2>4, <2>6, <2>7, <2>8, StartWritten
<1>9. ASSUME NEW n \in todo,
             CallLlm(n) \/ LlmFails(n) \/ \E tokens \in Usages[n] : LlmAnswers(n, tokens)
      PROVE  Traced' /\ WrittenOnce'
  <2> DEFINE c == RunOf(n)
  <2>1. /\ UNCHANGED <<log, lost, pos, turn, open>> /\ c \in open
        /\ \/ UNCHANGED reported
           \/ \E tokens \in Usages[n] : reported' = [reported EXCEPT ![c] = Append(@, tokens)]
    BY <1>9 DEF CallLlm, LlmFails, LlmAnswers, HandleLlmStart, OnLlmError, OnLlmEnd, InNode
  <2> HIDE DEF c
  <2>2. DOMAIN reported' = DOMAIN reported
        /\ \A d \in DOMAIN reported : d # c => reported'[d] = reported[d]
    BY <2>1
  <2>3. Begun' = Begun
    BY <2>1, <2>2 DEF Begun
  <2>4. \A d \in Begun : d \notin open => d \notin open' /\ ReportedTo(d)' = ReportedTo(d)
    BY <2>1, <2>2 DEF ReportedTo
  <2> QED BY <2>1, <2>3, <2>4, NothingWritten
<1>10. ASSUME NEW n \in todo, NodeReturns(n) \/ NodeRaises(n)
       PROVE  Traced' /\ WrittenOnce'
  <2> DEFINE c == RunOf(n)
  <2>1. /\ OnChainEnd(c) \/ OnChainError(c)
        /\ open' = open \ {c} /\ c \in open /\ UNCHANGED <<pos, turn, reported>>
    BY <1>10 DEF NodeReturns, NodeRaises, InNode
  <2>2. n \in Working /\ c \in DOMAIN reported /\ c = RunOf(n) /\ c[1] = pos
    BY <1>10, NodeReturnsGraph, NodeRaisesGraph DEF Working, RunOf
  <2> HIDE DEF c
  <2>3. Begun' = Begun /\ c \in Begun /\ \A d \in Begun : ReportedTo(d)' = ReportedTo(d)
    BY <2>1, <2>2 DEF Begun, ReportedTo
  <2>4. CASE OnChainEnd(c)
    BY <2>1, <2>2, <2>3, <2>4, EndWritten
  <2>5. CASE OnChainError(c)
    <3>1. UNCHANGED <<log, lost>>
      BY <2>5 DEF OnChainError
    <3> QED BY <2>1, <2>3, <3>1, NothingWritten
  <2> QED BY <2>1, <2>4, <2>5
<1> QED
  BY <1>1, <1>2, <1>3, <1>4, <1>5, <1>6, <1>7, <1>8, <1>9, <1>10 DEF LogNext

LEMMA LogInductive == LogSpec => []LogInv
<1>1. LogInit => LogInv
  BY InitGraph, InitHandler, InitCount, InitLog DEF LogInv
<1>2. LogInv /\ [LogNext]_log_vars => LogInv'
  BY GraphStep, HandlerStep, CountStep, LogStep DEF LogInv
<1> QED
  BY <1>1, <1>2, PTL DEF LogSpec

\* What a record is about is told by the record.
LEMMA RecordsAreAbout ==
  ASSUME LogInv, NEW i \in 1..Len(log)
  PROVE  \E c \in Begun :
           /\ c \in Spans /\ IsAbout(log[i], c)
           /\ log[i].event = "end" => log[i].tokens = Total(ReportedTo(c))
           /\ log[i].node \in {log[i].phase} \cup NodesOf(log[i].phase)
           /\ c[1] \in 1..Len(Plan) /\ IsOf(log[i], c[1])
           /\ c = RunNamed(log[i], c[1])
<1>1. PICK c \in Begun : /\ IsAbout(log[i], c)
                         /\ log[i].event = "end" => log[i].tokens = Total(ReportedTo(c))
  BY DEF LogInv, Traced
<1>2. c \in Spans
  BY BegunAreSpans DEF LogInv
<1>3. /\ c[1] \in 1..Len(Plan) /\ Plan[c[1]] \in Phases
      /\ NameOf(c) \in {Plan[c[1]]} \cup NodesOf(Plan[c[1]])
      /\ \/ c[2] = "phase" /\ NameOf(c) = Plan[c[1]] /\ c = <<c[1], "phase">>
         \/ c \in NodeRuns
  BY <1>2, SpansAre
<1>4. /\ log[i].node = NameOf(c) /\ log[i].phase = Plan[c[1]]
      /\ log[i].iteration = IterationAt[c[1]]
  BY <1>1 DEF IsAbout
<1>5. IsOf(log[i], c[1])
  BY <1>4 DEF IsOf
<1>6. c = RunNamed(log[i], c[1])
  <2>1. CASE c \in NodeRuns
    <3>1. NameOf(c) = c[2] /\ c = <<c[1], c[2]>> /\ c[2] \notin Phases
      BY <2>1, RealEvents
    <3> QED BY <1>3, <1>4, <3>1 DEF RunNamed
  <2>2. CASE NameOf(c) = Plan[c[1]] /\ c = <<c[1], "phase">>
    BY <1>4, <2>2 DEF RunNamed
  <2> QED BY <1>3, <2>1, <2>2
<1> QED
  BY <1>1, <1>2, <1>3, <1>4, <1>5, <1>6

\* In each iteration, each node and phase of the plan begins at most once in
\* the log and ends at most once, after its beginning or after that was lost;
\* and the iterations follow one another.
THEOREM SpansArePaired == LogSpec => []SpansPair
<1>1. LogInv => SpansPair
  <2> SUFFICES ASSUME LogInv, NEW i \in 1..Len(log)
               PROVE  /\ \E p \in 1..Len(Plan) : IsOf(log[i], p)
                      /\ log[i].node \in {log[i].phase} \cup Range(Sequence[log[i].phase])
                      /\ i > 1 => log[i - 1].iteration <= log[i].iteration
                      /\ \A j \in Earlier(i) : log[j].event # log[i].event
                      /\ log[i].event = "end" =>
                           \/ Earlier(i) # {}
                           \/ \E l \in lost : l.event = "start" /\ SameSpan(l, log[i])
    BY DEF SpansPair
  <2>0. Len(log) \in Nat
    BY DEF LogInv, Traced
  <2>1. /\ \E p \in 1..Len(Plan) : IsOf(log[i], p)
        /\ log[i].node \in {log[i].phase} \cup Range(Sequence[log[i].phase])
    BY RecordsAreAbout DEF NodesOf
  <2>2. i > 1 => log[i - 1].iteration <= log[i].iteration
    <3>1. i > 1 => i \in 2..Len(log)
      BY <2>0
    <3> QED BY <3>1 DEF LogInv, Traced
  <2>3. \A j \in Earlier(i) : log[j].event # log[i].event
    <3> SUFFICES ASSUME NEW j \in 1..(i - 1), SameSpan(log[j], log[i]),
                        log[j].event = log[i].event
                 PROVE  FALSE
      BY DEF Earlier
    <3>1. j \in 1..Len(log) /\ j # i
      BY <2>0
    <3> QED BY <3>1 DEF LogInv, WrittenOnce
  <2>4. log[i].event = "end" =>
          \/ Earlier(i) # {}
          \/ \E l \in lost : l.event = "start" /\ SameSpan(l, log[i])
    BY DEF LogInv, Traced, Earlier
  <2> QED BY <2>1, <2>2, <2>3, <2>4
<1> QED
  BY LogInductive, <1>1, PTL

\* The tokens of a node's end record are those its own calls told in its own
\* iteration.
THEOREM TokensAreItsOwn == LogSpec => []TokensAddUp
<1>1. LogInv => TokensAddUp
  <2> SUFFICES ASSUME LogInv, NEW i \in 1..Len(log), NEW p \in 1..Len(Plan),
                      log[i].event = "end", IsOf(log[i], p)
               PROVE  log[i].tokens = Total(ReportedTo(RunNamed(log[i], p)))
    BY DEF TokensAddUp
  <2>1. PICK c \in Begun : /\ log[i].tokens = Total(ReportedTo(c))
                           /\ c[1] \in 1..Len(Plan) /\ IsOf(log[i], c[1])
                           /\ c = RunNamed(log[i], c[1])
    BY RecordsAreAbout
  <2>2. p = c[1]
    BY <2>1, OnePosition DEF IsOf
  <2> QED BY <2>1, <2>2
<1> QED
  BY LogInductive, <1>1, PTL
=============================================================================
