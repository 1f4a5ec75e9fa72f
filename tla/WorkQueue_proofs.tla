-------------------------- MODULE WorkQueue_proofs --------------------------
(***************************************************************************)
(* Proofs about WorkQueue, for any number of workers and any items.        *)
(*                                                                         *)
(* The inductive invariant is the conjunction of what the runs check:      *)
(* the exact count of active workers is what turns "active = 0" into       *)
(* "nobody is busy", and that is what the other three rest on.             *)
(***************************************************************************)
EXTENDS WorkQueue, FiniteSetTheorems, SequenceTheorems, TLAPS

Place == {"popping", "waiting", "busy", "gone"}

IInv ==
  /\ TypeOK
  /\ ActiveCountExact
  /\ NoDuplicateWork
  /\ StopsOnlyWhenDone
  /\ NoLostWakeup

-----------------------------------------------------------------------------
(* Facts about the wait set and about counting workers.                    *)

\* A set of workers is finite, and so is counted by a natural number.
LEMMA AtFinite ==
  ASSUME NEW S \in SUBSET Workers
  PROVE  IsFiniteSet(S) /\ Cardinality(S) \in Nat /\ (Cardinality(S) = 0 <=> S = {})
BY FS_Subset, FS_CardinalityType, FS_EmptySet, WorkQueueAssumption

\* Moving one worker into or out of a set of workers changes its size by one.
LEMMA CountMove ==
  ASSUME NEW S \in SUBSET Workers, NEW w \in Workers
  PROVE  /\ w \notin S => Cardinality(S \cup {w}) = Cardinality(S) + 1
         /\ w \in S => Cardinality(S \ {w}) = Cardinality(S) - 1
BY AtFinite, FS_AddElement, FS_RemoveElement

\* notify_all moves every sleeping worker to the top of pop() and leaves the
\* others where they are.
LEMMA WakeAllPlaces ==
  ASSUME NEW places \in [Workers -> Place]
  PROVE  /\ WakeAll(places) \in [Workers -> Place]
         /\ \A v \in Workers :
              /\ WakeAll(places)[v] # "waiting"
              /\ places[v] # "waiting" => WakeAll(places)[v] = places[v]
              /\ places[v] = "waiting" => WakeAll(places)[v] = "popping"
BY DEF WakeAll, Place

\* Removing the head of a non-empty queue shifts every other item by one.
LEMMA TailShifts ==
  ASSUME NEW q \in Seq(Items), q # <<>>
  PROVE  /\ Head(q) = q[1]
         /\ Head(q) \in Items
         /\ Tail(q) \in Seq(Items)
         /\ Len(Tail(q)) = Len(q) - 1
         /\ Len(q) \in Nat \ {0}
         /\ \A i \in 1 .. Len(q) - 1 : Tail(q)[i] = q[i + 1]
BY HeadTailProperties, EmptySeq, LenProperties, ElementOfSeq

-----------------------------------------------------------------------------
(* Type correctness.                                                       *)

LEMMA InitTypeOK == Init => TypeOK
<1> SUFFICES ASSUME Init PROVE TypeOK
  OBVIOUS
<1>1. queue \in Seq(Items)
  <2>1. <<Start>> \in Seq(Items)
    BY WorkQueueAssumption
  <2>2. QED
    BY <2>1, Zenon DEF Init
<1>2. seen \subseteq Keys
  BY WorkQueueAssumption DEF Init
<1>3. active \in Nat /\ stopping \in BOOLEAN
  BY DEF Init
<1>4. /\ where \in [Workers -> {"popping", "waiting", "busy", "gone"}]
      /\ job \in [Workers -> Items \cup {NoItem}]
  BY DEF Init
<1>5. QED
  BY <1>1, <1>2, <1>3, <1>4 DEF TypeOK

LEMMA StepTypeOK == TypeOK /\ ActiveCountExact /\ [Next]_vars => TypeOK'
<1> SUFFICES ASSUME TypeOK, ActiveCountExact, [Next]_vars
             PROVE  TypeOK'
  OBVIOUS
<1>1. ASSUME NEW w \in Workers, PopStopped(w) PROVE TypeOK'
  BY <1>1 DEF PopStopped, TypeOK
<1>2. ASSUME NEW w \in Workers, PopItem(w) PROVE TypeOK'
  BY <1>2, TailShifts DEF PopItem, TypeOK
<1>3. ASSUME NEW w \in Workers, PopLast(w) PROVE TypeOK'
  BY <1>3 DEF PopLast, TypeOK, WakeAll
<1>4. ASSUME NEW w \in Workers, PopWait(w) PROVE TypeOK'
  BY <1>4 DEF PopWait, TypeOK
<1>5. ASSUME NEW w \in Workers, SpuriousWakeup(w) PROVE TypeOK'
  BY <1>5 DEF SpuriousWakeup, TypeOK
<1>6. ASSUME NEW w \in Workers, NEW item \in Items, Enqueue(w, item) PROVE TypeOK'
  <2>1. KeyOf[item] \in Keys /\ Append(queue, item) \in Seq(Items)
    BY WorkQueueAssumption, AppendProperties DEF TypeOK
  <2>2. where' \in [Workers -> Place]
    BY <1>6 DEF Enqueue, WakeOne, At, TypeOK, Place
  <2>3. QED
    BY <1>6, <2>1, <2>2 DEF Enqueue, TypeOK, Place
<1>7. ASSUME NEW w \in Workers, NotifyAll(w) PROVE TypeOK'
  BY <1>7 DEF NotifyAll, TypeOK, WakeAll
<1>8. ASSUME NEW w \in Workers, FinishItem(w) PROVE TypeOK'
  <2>1. active' \in Nat
    <3>1. w \in At("busy") /\ At("busy") \subseteq Workers
      BY <1>8 DEF FinishItem, At
    <3>2. Cardinality(At("busy")) # 0 /\ Cardinality(At("busy")) \in Nat
      BY <3>1, AtFinite
    <3>3. QED
      BY <1>8, <3>2 DEF FinishItem, ActiveCountExact
  <2>2. QED
    BY <1>8, <2>1 DEF FinishItem, TypeOK, WakeAll
<1>9. CASE UNCHANGED vars
  BY <1>9 DEF vars, TypeOK
<1>10. QED
  BY <1>1, <1>2, <1>3, <1>4, <1>5, <1>6, <1>7, <1>8, <1>9 DEF Next

-----------------------------------------------------------------------------
(* Where the busy workers are after each action.                           *)

LEMMA BusyAfter ==
  ASSUME TypeOK, NEW w \in Workers
  PROVE  /\ PopStopped(w) => At("busy")' = At("busy")
         /\ PopItem(w) => w \notin At("busy") /\ At("busy")' = At("busy") \cup {w}
         /\ PopLast(w) => At("busy")' = At("busy")
         /\ PopWait(w) => At("busy")' = At("busy")
         /\ SpuriousWakeup(w) => At("busy")' = At("busy")
         /\ NotifyAll(w) => At("busy")' = At("busy")
         /\ FinishItem(w) => w \in At("busy") /\ At("busy")' = At("busy") \ {w}
<1>1. PopStopped(w) => At("busy")' = At("busy")
  BY DEF PopStopped, At, TypeOK
<1>2. PopItem(w) => w \notin At("busy") /\ At("busy")' = At("busy") \cup {w}
  BY DEF PopItem, At, TypeOK
<1>3. PopLast(w) => At("busy")' = At("busy")
  BY DEF PopLast, WakeAll, At, TypeOK
<1>4. PopWait(w) => At("busy")' = At("busy")
  BY DEF PopWait, At, TypeOK
<1>5. SpuriousWakeup(w) => At("busy")' = At("busy")
  BY DEF SpuriousWakeup, At, TypeOK
<1>6. NotifyAll(w) => At("busy")' = At("busy")
  BY DEF NotifyAll, WakeAll, At, TypeOK
<1>7. FinishItem(w) => w \in At("busy") /\ At("busy")' = At("busy") \ {w}
  BY DEF FinishItem, WakeAll, At, TypeOK
<1>8. QED
  BY <1>1, <1>2, <1>3, <1>4, <1>5, <1>6, <1>7

LEMMA BusyAfterEnqueue ==
  ASSUME TypeOK, NEW w \in Workers, NEW item \in Items, Enqueue(w, item)
  PROVE  At("busy")' = At("busy")
<1>1. CASE where' = where
  BY <1>1 DEF At
<1>2. ASSUME NEW v \in At("waiting"), where' = [where EXCEPT ![v] = "popping"]
      PROVE  At("busy")' = At("busy")
  BY <1>2 DEF At, TypeOK
<1>3. QED
  BY <1>1, <1>2 DEF Enqueue, WakeOne

\* No worker other than the one that acts changes what it holds, or whether
\* it is busy.
LEMMA OnlyBusyHold ==
  ASSUME TypeOK, ActiveCountExact, [Next]_vars
  PROVE  \A v \in Workers : (where[v] = "busy" <=> job[v] \in Items)'
<1>1. ASSUME NEW w \in Workers,
             PopStopped(w) \/ PopLast(w) \/ PopWait(w) \/ SpuriousWakeup(w) \/ NotifyAll(w)
      PROVE  \A v \in Workers : (where[v] = "busy" <=> job[v] \in Items)'
  <2>1. job' = job /\ At("busy")' = At("busy")
    BY <1>1, BusyAfter DEF PopStopped, PopLast, PopWait, SpuriousWakeup, NotifyAll
  <2>2. QED
    BY <2>1 DEF ActiveCountExact, At
<1>2. ASSUME NEW w \in Workers, PopItem(w)
      PROVE  \A v \in Workers : (where[v] = "busy" <=> job[v] \in Items)'
  BY <1>2, TailShifts DEF PopItem, TypeOK, ActiveCountExact
<1>3. ASSUME NEW w \in Workers, NEW item \in Items, Enqueue(w, item)
      PROVE  \A v \in Workers : (where[v] = "busy" <=> job[v] \in Items)'
  <2>1. job' = job /\ At("busy")' = At("busy")
    BY <1>3, BusyAfterEnqueue DEF Enqueue
  <2>2. QED
    BY <2>1 DEF ActiveCountExact, At
<1>4. ASSUME NEW w \in Workers, FinishItem(w)
      PROVE  \A v \in Workers : (where[v] = "busy" <=> job[v] \in Items)'
  BY <1>4, WorkQueueAssumption DEF FinishItem, WakeAll, TypeOK, ActiveCountExact
<1>5. CASE UNCHANGED vars
  BY <1>5 DEF vars, ActiveCountExact
<1>6. QED
  BY <1>1, <1>2, <1>3, <1>4, <1>5 DEF Next

-----------------------------------------------------------------------------
(* The count of active workers.                                            *)

LEMMA StepActiveCountExact == IInv /\ [Next]_vars => ActiveCountExact'
<1> SUFFICES ASSUME IInv, [Next]_vars
             PROVE  active' = Cardinality(At("busy")')
  BY OnlyBusyHold DEF IInv, ActiveCountExact
<1> USE DEF IInv
<1>1. At("busy") \in SUBSET Workers /\ active = Cardinality(At("busy"))
  BY DEF At, ActiveCountExact
<1>2. ASSUME NEW w \in Workers,
             PopStopped(w) \/ PopLast(w) \/ PopWait(w) \/ SpuriousWakeup(w) \/ NotifyAll(w)
      PROVE  active' = Cardinality(At("busy")')
  BY <1>1, <1>2, BusyAfter DEF PopStopped, PopLast, PopWait, SpuriousWakeup, NotifyAll
<1>3. ASSUME NEW w \in Workers, PopItem(w) PROVE active' = Cardinality(At("busy")')
  BY <1>1, <1>3, BusyAfter, CountMove DEF PopItem
<1>4. ASSUME NEW w \in Workers, NEW item \in Items, Enqueue(w, item)
      PROVE  active' = Cardinality(At("busy")')
  BY <1>1, <1>4, BusyAfterEnqueue DEF Enqueue
<1>5. ASSUME NEW w \in Workers, FinishItem(w) PROVE active' = Cardinality(At("busy")')
  BY <1>1, <1>5, BusyAfter, CountMove DEF FinishItem
<1>6. CASE UNCHANGED vars
  BY <1>1, <1>6 DEF vars, At
<1>7. QED
  BY <1>2, <1>3, <1>4, <1>5, <1>6 DEF Next

-----------------------------------------------------------------------------
(* No URL is handed out twice.                                             *)

LEMMA StepNoDuplicateWork == IInv /\ [Next]_vars => NoDuplicateWork'
<1> SUFFICES ASSUME IInv, [Next]_vars PROVE NoDuplicateWork'
  OBVIOUS
<1> USE DEF IInv
<1>1. ASSUME queue' = queue, job' = job, seen' = seen, At("busy")' = At("busy")
      PROVE  NoDuplicateWork'
  BY <1>1 DEF NoDuplicateWork, QueuedKeys, WorkedKeys
<1>2. ASSUME NEW w \in Workers,
             PopStopped(w) \/ PopLast(w) \/ PopWait(w) \/ SpuriousWakeup(w) \/ NotifyAll(w)
      PROVE  NoDuplicateWork'
  BY <1>1, <1>2, BusyAfter DEF PopStopped, PopLast, PopWait, SpuriousWakeup, NotifyAll
<1>3. ASSUME NEW w \in Workers, PopItem(w) PROVE NoDuplicateWork'
  <2>1. /\ queue \in Seq(Items) /\ queue # <<>>
        /\ queue' = Tail(queue) /\ seen' = seen
        /\ job' = [job EXCEPT ![w] = queue[1]] /\ job \in [Workers -> Items \cup {NoItem}]
        /\ At("busy")' = At("busy") \cup {w} /\ w \notin At("busy")
        /\ At("busy") \subseteq Workers
    BY <1>3, TailShifts, BusyAfter DEF PopItem, TypeOK, At
  <2>2. /\ DOMAIN queue = 1 .. Len(queue) /\ Len(queue) \in Nat \ {0}
        /\ DOMAIN queue' = 1 .. Len(queue) - 1
        /\ \A i \in DOMAIN queue' : queue'[i] = queue[i + 1]
    BY <2>1, TailShifts, LenProperties
  <2>3. job'[w] = queue[1] /\ \A v \in At("busy") : job'[v] = job[v]
    BY <2>1
  <2>4. QueuedKeys' \subseteq QueuedKeys \ {KeyOf[queue[1]]}
    BY <2>2 DEF QueuedKeys, NoDuplicateWork
  <2>5. WorkedKeys' = WorkedKeys \cup {KeyOf[queue[1]]}
    BY <2>1, <2>3 DEF WorkedKeys
  <2>6. KeyOf[queue[1]] \in QueuedKeys
    BY <2>2 DEF QueuedKeys
  <2>7. \A i, j \in DOMAIN queue' : KeyOf[queue'[i]] = KeyOf[queue'[j]] => i = j
    BY <2>2 DEF NoDuplicateWork
  <2>8. \A u, v \in At("busy")' : KeyOf[job'[u]] = KeyOf[job'[v]] => u = v
    <3>1. \A v \in At("busy") : KeyOf[job[v]] # KeyOf[queue[1]]
      BY <2>6 DEF NoDuplicateWork, WorkedKeys
    <3>2. QED
      BY <2>1, <2>3, <3>1 DEF NoDuplicateWork
  <2>9. QED
    BY <2>1, <2>4, <2>5, <2>6, <2>7, <2>8 DEF NoDuplicateWork
<1>4. ASSUME NEW w \in Workers, NEW item \in Items, Enqueue(w, item)
      PROVE  NoDuplicateWork'
  <2>1. At("busy")' = At("busy") /\ job' = job /\ WorkedKeys' = WorkedKeys
    BY <1>4, BusyAfterEnqueue DEF Enqueue, WorkedKeys
  <2>2. CASE KeyOf[item] \in seen
    BY <1>1, <1>4, <2>1, <2>2 DEF Enqueue
  <2>3. CASE KeyOf[item] \notin seen
    <3>1. queue' = Append(queue, item) /\ seen' = seen \cup {KeyOf[item]}
      BY <1>4, <2>3 DEF Enqueue
    <3>2. /\ Len(queue) \in Nat
          /\ DOMAIN queue = 1 .. Len(queue) /\ DOMAIN queue' = 1 .. Len(queue) + 1
          /\ \A i \in DOMAIN queue : queue'[i] = queue[i]
          /\ queue'[Len(queue) + 1] = item
      BY <3>1, AppendProperties, LenProperties DEF TypeOK
    <3>3. QueuedKeys' = QueuedKeys \cup {KeyOf[item]}
      BY <3>2 DEF QueuedKeys
    <3>4. \A i \in DOMAIN queue : KeyOf[queue[i]] # KeyOf[item]
      BY <2>3 DEF NoDuplicateWork, QueuedKeys
    <3>5. KeyOf[item] \notin WorkedKeys
      BY <2>3 DEF NoDuplicateWork
    <3>6. \A i, j \in DOMAIN queue' : KeyOf[queue'[i]] = KeyOf[queue'[j]] => i = j
      BY <3>2, <3>4 DEF NoDuplicateWork
    <3>7. QED
      BY <2>1, <3>1, <3>3, <3>5, <3>6 DEF NoDuplicateWork
  <2>4. QED
    BY <2>2, <2>3
<1>5. ASSUME NEW w \in Workers, FinishItem(w) PROVE NoDuplicateWork'
  <2>1. /\ queue' = queue /\ seen' = seen
        /\ At("busy")' = At("busy") \ {w}
        /\ \A v \in At("busy") \ {w} : job'[v] = job[v]
    BY <1>5, BusyAfter DEF FinishItem, TypeOK, At
  <2>2. QED
    BY <2>1 DEF NoDuplicateWork, QueuedKeys, WorkedKeys
<1>6. CASE UNCHANGED vars
  BY <1>1, <1>6 DEF vars, At
<1>7. QED
  BY <1>2, <1>3, <1>4, <1>5, <1>6 DEF Next

-----------------------------------------------------------------------------
(* The crawl is declared over only when it is.                             *)

LEMMA BusyMeansActive ==
  ASSUME IInv, NEW w \in Workers, where[w] = "busy"
  PROVE  active # 0 /\ ~stopping
BY AtFinite DEF IInv, ActiveCountExact, StopsOnlyWhenDone, At

LEMMA StepStopsOnlyWhenDone == IInv /\ [Next]_vars => StopsOnlyWhenDone'
<1> SUFFICES ASSUME IInv, [Next]_vars PROVE StopsOnlyWhenDone'
  OBVIOUS
<1> USE DEF IInv
<1>1. ASSUME NEW w \in Workers, PopStopped(w) PROVE StopsOnlyWhenDone'
  BY <1>1 DEF PopStopped, StopsOnlyWhenDone
<1>2. ASSUME NEW w \in Workers, PopItem(w) PROVE StopsOnlyWhenDone'
  BY <1>2 DEF PopItem, StopsOnlyWhenDone, At, TypeOK
<1>3. ASSUME NEW w \in Workers, PopLast(w) PROVE StopsOnlyWhenDone'
  BY <1>3 DEF PopLast, StopsOnlyWhenDone
<1>4. ASSUME NEW w \in Workers, PopWait(w) PROVE StopsOnlyWhenDone'
  BY <1>4 DEF PopWait, StopsOnlyWhenDone, At, TypeOK
<1>5. ASSUME NEW w \in Workers, SpuriousWakeup(w) PROVE StopsOnlyWhenDone'
  BY <1>5 DEF SpuriousWakeup, StopsOnlyWhenDone, At, TypeOK
<1>6. ASSUME NEW w \in Workers, NEW item \in Items, Enqueue(w, item) PROVE StopsOnlyWhenDone'
  <2>1. ~stopping /\ stopping' = stopping
    BY <1>6, BusyMeansActive DEF Enqueue
  <2>2. At("gone")' \subseteq At("gone")
    BY <1>6 DEF Enqueue, WakeOne, At, TypeOK
  <2>3. QED
    BY <2>1, <2>2 DEF StopsOnlyWhenDone
<1>7. ASSUME NEW w \in Workers, NotifyAll(w) PROVE StopsOnlyWhenDone'
  BY <1>7 DEF NotifyAll, WakeAll, StopsOnlyWhenDone, At, TypeOK
<1>8. ASSUME NEW w \in Workers, FinishItem(w) PROVE StopsOnlyWhenDone'
  <2>1. ~stopping /\ stopping' = stopping
    BY <1>8, BusyMeansActive DEF FinishItem
  <2>2. At("gone")' \subseteq At("gone")
    BY <1>8 DEF FinishItem, WakeAll, At, TypeOK
  <2>3. QED
    BY <2>1, <2>2 DEF StopsOnlyWhenDone
<1>9. CASE UNCHANGED vars
  BY <1>9 DEF vars, StopsOnlyWhenDone, At
<1>10. QED
  BY <1>1, <1>2, <1>3, <1>4, <1>5, <1>6, <1>7, <1>8, <1>9 DEF Next

-----------------------------------------------------------------------------
(* No wake-up is lost.                                                     *)

LEMMA StepNoLostWakeup == IInv /\ [Next]_vars => NoLostWakeup'
<1> SUFFICES ASSUME IInv, [Next]_vars, At("waiting")' # {} PROVE NoLostWakeup'
  BY DEF NoLostWakeup
<1> USE DEF IInv
<1> DEFINE P == Cardinality(At("popping"))
<1>1. P \in Nat /\ Len(queue) \in Nat
  BY AtFinite, LenProperties DEF At, TypeOK
<1>2. ASSUME NEW w \in Workers, PopStopped(w) PROVE FALSE
  <2>1. At("waiting") # {} /\ stopping
    BY <1>2 DEF PopStopped, At, TypeOK
  <2>2. QED
    BY <2>1 DEF NoLostWakeup
<1>3. ASSUME NEW w \in Workers, PopItem(w) PROVE NoLostWakeup'
  <2>1. /\ At("waiting")' = At("waiting")
        /\ At("popping")' = At("popping") \ {w} /\ w \in At("popping")
        /\ w \in At("busy")'
    BY <1>3 DEF PopItem, At, TypeOK
  <2>2. Len(queue') = Len(queue) - 1 /\ stopping' = stopping
    BY <1>3, TailShifts DEF PopItem, TypeOK
  <2>3. Cardinality(At("popping")') = P - 1
    BY <2>1, CountMove DEF At
  <2>4. QED
    BY <1>1, <2>1, <2>2, <2>3 DEF NoLostWakeup
<1>4. ASSUME NEW w \in Workers, PopLast(w) PROVE FALSE
  <2>1. where \in [Workers -> Place] /\ [where EXCEPT ![w] = "gone"] \in [Workers -> Place]
    BY DEF TypeOK, Place
  <2>2. At("waiting")' = {}
    BY <1>4, <2>1, WakeAllPlaces DEF PopLast, At
  <2>3. QED
    BY <2>2
<1>5. ASSUME NEW w \in Workers, PopWait(w) PROVE NoLostWakeup'
  <2>1. ~stopping /\ stopping' = stopping /\ active # 0 /\ queue = <<>> /\ queue' = <<>>
    BY <1>5 DEF PopWait
  <2>2. At("busy")' = At("busy") /\ At("busy") \in SUBSET Workers
    BY <1>5, BusyAfter DEF At
  <2>3. At("busy")' # {}
    BY <2>1, <2>2, AtFinite DEF ActiveCountExact
  <2>4. Len(queue') = 0
    BY <2>1
  <2>5. Cardinality(At("popping")') \in Nat
    BY AtFinite DEF At
  <2>6. QED
    BY <2>1, <2>3, <2>4, <2>5 DEF NoLostWakeup
<1>6. ASSUME NEW w \in Workers, SpuriousWakeup(w) PROVE NoLostWakeup'
  <2>1. /\ w \in At("waiting") /\ w \notin At("popping")
        /\ At("popping")' = At("popping") \cup {w}
        /\ stopping' = stopping /\ queue' = queue
    BY <1>6 DEF SpuriousWakeup, At, TypeOK
  <2>2. Cardinality(At("popping")') = P + 1
    BY <2>1, CountMove DEF At
  <2>3. At("busy")' = At("busy")
    BY <1>6, BusyAfter
  <2>4. QED
    BY <1>1, <2>1, <2>2, <2>3 DEF NoLostWakeup
<1>7. ASSUME NEW w \in Workers, NEW item \in Items, Enqueue(w, item) PROVE NoLostWakeup'
  <2>1. ~stopping /\ stopping' = stopping
    BY <1>7, BusyMeansActive DEF Enqueue
  <2>2. At("busy")' = At("busy") /\ w \in At("busy")
    BY <1>7, BusyAfterEnqueue DEF Enqueue, At
  <2>3. CASE KeyOf[item] \in seen
    BY <1>7, <2>3 DEF Enqueue, NoLostWakeup, At
  <2>4. CASE KeyOf[item] \notin seen
    <3>1. Len(queue') = Len(queue) + 1
      BY <1>7, <2>4, AppendProperties DEF Enqueue, TypeOK
    <3>2. At("waiting") # {}
      BY <1>7, <2>4 DEF Enqueue, WakeOne, At
    <3>3. PICK v \in At("waiting") : where' = [where EXCEPT ![v] = "popping"]
      BY <1>7, <2>4, <3>2 DEF Enqueue, WakeOne
    <3>4. At("popping")' = At("popping") \cup {v} /\ v \notin At("popping") /\ v \in Workers
      BY <3>3 DEF At, TypeOK
    <3>5. Cardinality(At("popping")') = P + 1
      BY <3>4, CountMove DEF At
    <3>6. QED
      BY <1>1, <2>1, <2>2, <3>1, <3>2, <3>5 DEF NoLostWakeup
  <2>5. QED
    BY <2>3, <2>4
<1>8. ASSUME NEW w \in Workers, NotifyAll(w) PROVE FALSE
  <2>1. where \in [Workers -> Place]
    BY DEF TypeOK, Place
  <2>2. At("waiting")' = {}
    BY <1>8, <2>1, WakeAllPlaces DEF NotifyAll, At
  <2>3. QED
    BY <2>2
<1>9. ASSUME NEW w \in Workers, FinishItem(w) PROVE FALSE
  <2>1. [where EXCEPT ![w] = "popping"] \in [Workers -> Place]
    BY DEF TypeOK, Place
  <2>2. At("waiting")' = {}
    BY <1>9, <2>1, WakeAllPlaces DEF FinishItem, At
  <2>3. QED
    BY <2>2
<1>10. CASE UNCHANGED vars
  BY <1>10 DEF vars, NoLostWakeup, At
<1>11. QED
  BY <1>2, <1>3, <1>4, <1>5, <1>6, <1>7, <1>8, <1>9, <1>10 DEF Next

-----------------------------------------------------------------------------
(* The theorems.                                                           *)

LEMMA InitIInv == Init => IInv
<1> SUFFICES ASSUME Init PROVE IInv
  OBVIOUS
<1>1. At("busy") = {} /\ At("waiting") = {} /\ At("gone") = {}
  BY DEF Init, At
<1>2. queue = <<Start>> /\ DOMAIN queue = {1} /\ queue[1] = Start
  BY DEF Init
<1>3. ActiveCountExact
  BY <1>1, FS_EmptySet, WorkQueueAssumption DEF Init, ActiveCountExact
<1>4. NoDuplicateWork
  BY <1>1, <1>2 DEF Init, NoDuplicateWork, QueuedKeys, WorkedKeys
<1>5. StopsOnlyWhenDone /\ NoLostWakeup
  BY <1>1 DEF Init, StopsOnlyWhenDone, NoLostWakeup
<1>6. QED
  BY <1>3, <1>4, <1>5, InitTypeOK DEF IInv

LEMMA StepIInv == IInv /\ [Next]_vars => IInv'
BY StepTypeOK, StepActiveCountExact, StepNoDuplicateWork, StepStopsOnlyWhenDone,
   StepNoLostWakeup DEF IInv

LEMMA Invariance == Spec => []IInv
BY InitIInv, StepIInv, PTL DEF Spec

\* The queue, the seen-set, the count and the workers keep their types; in
\* particular the count of active workers never drops below zero.
THEOREM TypeCorrect == Spec => []TypeOK
BY Invariance, PTL DEF IInv

\* However pop(), enqueue() and finish_item() interleave, the active count is
\* the number of workers that hold an item.
THEOREM CountIsExact == Spec => []ActiveCountExact
BY Invariance, PTL DEF IInv

\* However the workers interleave, no URL is handed to two of them, and none
\* is queued a second time.
THEOREM EachUrlOnce == Spec => []NoDuplicateWork
BY Invariance, PTL DEF IInv

\* A crawl is declared over, and a worker leaves, only when the queue is empty
\* and no worker is active: nothing discovered is left behind.
THEOREM SafeTermination == Spec => []StopsOnlyWhenDone
BY Invariance, PTL DEF IInv

\* The workers are never all asleep, and never fewer awake than items queued.
THEOREM WakeupsSuffice == Spec => []NoLostWakeup
BY Invariance, PTL DEF IInv

-----------------------------------------------------------------------------
(* The queue implements the frontier: every step of the queue is a step of *)
(* Frontier or leaves the frontier as it is.                               *)

LEMMA TakenKeys ==
  ASSUME IInv, NEW w \in Workers, PopItem(w)
  PROVE  /\ KeyOf[Head(queue)] \in QueuedKeys \cap Keys
         /\ QueuedKeys' = QueuedKeys \ {KeyOf[Head(queue)]}
         /\ WorkedKeys' = WorkedKeys \cup {KeyOf[Head(queue)]}
<1> USE DEF IInv
<1>1. /\ queue \in Seq(Items) /\ queue # <<>> /\ queue' = Tail(queue)
      /\ Head(queue) = queue[1] /\ Head(queue) \in Items
      /\ DOMAIN queue = 1 .. Len(queue) /\ Len(queue) \in Nat \ {0}
      /\ DOMAIN queue' = 1 .. Len(queue) - 1
      /\ \A i \in 1 .. Len(queue) - 1 : queue'[i] = queue[i + 1]
  BY TailShifts, LenProperties DEF PopItem, TypeOK
<1>2. \A i \in DOMAIN queue : i # 1 => KeyOf[queue[i]] # KeyOf[queue[1]]
  BY <1>1 DEF NoDuplicateWork
<1>3. QueuedKeys' = {KeyOf[queue'[i]] : i \in 1 .. Len(queue) - 1}
  <2>1. QueuedKeys' = {KeyOf[queue'[i]] : i \in DOMAIN queue'}
    BY DEF QueuedKeys
  <2>2. DOMAIN queue' = 1 .. Len(queue) - 1
    BY <1>1
  <2>3. QED
    BY <2>1, <2>2
<1>4. QueuedKeys' = {KeyOf[queue[i]] : i \in 2 .. Len(queue)}
  <2> DEFINE Later == {KeyOf[queue[i]] : i \in 2 .. Len(queue)}
  <2>1. ASSUME NEW k \in QueuedKeys' PROVE k \in Later
    <3>1. PICK i \in 1 .. Len(queue) - 1 : k = KeyOf[queue'[i]]
      BY <1>3, <2>1
    <3>2. i + 1 \in 2 .. Len(queue) /\ queue'[i] = queue[i + 1]
      BY <1>1
    <3>3. QED
      BY <3>1, <3>2
  <2>2. ASSUME NEW k \in Later PROVE k \in QueuedKeys'
    <3>1. PICK i \in 2 .. Len(queue) : k = KeyOf[queue[i]]
      BY <2>2
    <3>2. i - 1 \in 1 .. Len(queue) - 1 /\ (i - 1) + 1 = i
      BY <1>1
    <3>3. queue'[i - 1] = queue[i]
      BY <1>1, <3>2
    <3>4. QED
      BY <1>3, <3>1, <3>2, <3>3
  <2> HIDE DEF Later
  <2>3. QueuedKeys' = Later
    BY <2>1, <2>2
  <2>4. QED
    BY <2>3 DEF Later
<1>5. QueuedKeys' = QueuedKeys \ {KeyOf[queue[1]]}
  <2>1. QueuedKeys = {KeyOf[queue[i]] : i \in 1 .. Len(queue)}
    BY <1>1 DEF QueuedKeys
  <2>2. \A i \in 2 .. Len(queue) : i \in DOMAIN queue /\ i # 1
    BY <1>1
  <2>3. \A i \in 1 .. Len(queue) : i = 1 \/ i \in 2 .. Len(queue)
    BY <1>1
  <2>4. QED
    BY <1>1, <1>2, <1>4, <2>1, <2>2, <2>3
<1>6. /\ At("busy")' = At("busy") \cup {w} /\ w \notin At("busy")
      /\ job'[w] = Head(queue) /\ \A v \in At("busy") : job'[v] = job[v]
  BY BusyAfter DEF PopItem, TypeOK, At
<1>7. WorkedKeys' = WorkedKeys \cup {KeyOf[Head(queue)]}
  BY <1>6 DEF WorkedKeys
<1>8. KeyOf[Head(queue)] \in QueuedKeys /\ KeyOf[Head(queue)] \in Keys
  <2>1. 1 \in DOMAIN queue
    BY <1>1
  <2>2. QED
    BY <1>1, <2>1, WorkQueueAssumption DEF QueuedKeys
<1>9. QED
  BY <1>1, <1>5, <1>7, <1>8

LEMMA QueuedByEnqueue ==
  ASSUME TypeOK, NEW w \in Workers, NEW item \in Items, Enqueue(w, item), KeyOf[item] \notin seen
  PROVE  QueuedKeys' = QueuedKeys \cup {KeyOf[item]}
<1>1. /\ Len(queue) \in Nat
      /\ DOMAIN queue = 1 .. Len(queue) /\ DOMAIN queue' = 1 .. Len(queue) + 1
      /\ \A i \in DOMAIN queue : queue'[i] = queue[i]
      /\ queue'[Len(queue) + 1] = item
  BY AppendProperties, LenProperties DEF TypeOK, Enqueue
<1>2. QED
  BY <1>1 DEF QueuedKeys

LEMMA FinishedKeys ==
  ASSUME IInv, NEW w \in Workers, FinishItem(w)
  PROVE  /\ QueuedKeys' = QueuedKeys
         /\ KeyOf[job[w]] \in WorkedKeys
         /\ WorkedKeys' = WorkedKeys \ {KeyOf[job[w]]}
<1>1. /\ queue' = queue /\ w \in At("busy") /\ At("busy")' = At("busy") \ {w}
      /\ \A v \in At("busy") \ {w} : job'[v] = job[v]
  BY BusyAfter DEF FinishItem, IInv, TypeOK, At
<1>2. QED
  BY <1>1 DEF IInv, NoDuplicateWork, QueuedKeys, WorkedKeys

LEMMA FrontierStep == IInv /\ [Next]_vars => [FrontierOf!Next]_(FrontierOf!vars)
<1> SUFFICES ASSUME IInv, [Next]_vars PROVE [FrontierOf!Next]_(FrontierOf!vars)
  OBVIOUS
<1> USE DEF IInv
<1>1. ASSUME QueuedKeys' = QueuedKeys, WorkedKeys' = WorkedKeys, seen' = seen, stopping' = stopping
      PROVE  UNCHANGED FrontierOf!vars
  BY <1>1 DEF FrontierOf!vars
<1>2. ASSUME NEW w \in Workers,
             PopStopped(w) \/ PopWait(w) \/ SpuriousWakeup(w) \/ NotifyAll(w)
      PROVE  UNCHANGED FrontierOf!vars
  <2>1. /\ queue' = queue /\ seen' = seen /\ stopping' = stopping /\ job' = job
        /\ At("busy")' = At("busy")
    BY <1>2, BusyAfter DEF PopStopped, PopWait, SpuriousWakeup, NotifyAll
  <2>2. QED
    BY <1>1, <2>1 DEF QueuedKeys, WorkedKeys
<1>3. ASSUME NEW w \in Workers, PopItem(w) PROVE FrontierOf!Take(KeyOf[Head(queue)])
  <2>1. QueuedKeys' \cup WorkedKeys' = QueuedKeys \cup WorkedKeys
    BY <1>3, TakenKeys
  <2>2. seen' = seen /\ stopping' = stopping
    BY <1>3 DEF PopItem
  <2>3. QED
    BY <1>3, <2>1, <2>2, TakenKeys DEF FrontierOf!Take
<1>4. ASSUME NEW w \in Workers, PopLast(w) PROVE FrontierOf!Close
  <2>1. /\ queue' = queue /\ queue = <<>> /\ active = 0 /\ seen' = seen /\ job' = job
        /\ stopping' = TRUE /\ At("busy")' = At("busy")
    BY <1>4, BusyAfter DEF PopLast
  <2>2. At("busy") = {}
    BY <2>1, AtFinite DEF ActiveCountExact, At
  <2>3. QueuedKeys = {} /\ WorkedKeys = {} /\ QueuedKeys' = {} /\ WorkedKeys' = {}
    BY <2>1, <2>2 DEF QueuedKeys, WorkedKeys
  <2>4. QED
    BY <2>1, <2>3 DEF FrontierOf!Close
<1>5. ASSUME NEW w \in Workers, NEW item \in Items, Enqueue(w, item)
      PROVE  FrontierOf!Discover(KeyOf[item]) \/ UNCHANGED FrontierOf!vars
  <2>1. At("busy")' = At("busy") /\ job' = job /\ stopping' = stopping /\ w \in At("busy")
    BY <1>5, BusyAfterEnqueue DEF Enqueue, At
  <2>2. WorkedKeys' = WorkedKeys /\ WorkedKeys # {}
    BY <2>1 DEF WorkedKeys
  <2>3. CASE KeyOf[item] \in seen
    BY <1>1, <1>5, <2>1, <2>2, <2>3 DEF Enqueue, QueuedKeys
  <2>4. CASE KeyOf[item] \notin seen
    <3>1. QueuedKeys' = QueuedKeys \cup {KeyOf[item]} /\ seen' = seen \cup {KeyOf[item]}
      BY <1>5, <2>4, QueuedByEnqueue DEF Enqueue
    <3>2. KeyOf[item] \in Keys
      BY WorkQueueAssumption
    <3>3. KeyOf[item] \notin QueuedKeys \cup WorkedKeys
      BY <2>4 DEF NoDuplicateWork
    <3>4. QED
      BY <2>1, <2>2, <2>4, <3>1, <3>2, <3>3 DEF FrontierOf!Discover, FrontierOf!Discovered
  <2>5. QED
    BY <2>3, <2>4
<1>6. ASSUME NEW w \in Workers, FinishItem(w) PROVE FrontierOf!Retire(KeyOf[job[w]])
  <2>1. seen' = seen /\ stopping' = stopping
    BY <1>6 DEF FinishItem
  <2>2. QED
    BY <1>6, <2>1, FinishedKeys DEF FrontierOf!Retire, NoDuplicateWork
<1>7. CASE UNCHANGED vars
  BY <1>1, <1>7 DEF vars, QueuedKeys, WorkedKeys, At
<1>8. ASSUME NEW w \in Workers, PopItem(w) \/ FinishItem(w)
      PROVE  FrontierOf!Next
  <2>1. CASE PopItem(w)
    BY <1>3, <2>1, TakenKeys DEF FrontierOf!Next
  <2>2. CASE FinishItem(w)
    <3>1. KeyOf[job[w]] \in Keys
      BY <2>2, FinishedKeys DEF NoDuplicateWork, TypeOK
    <3>2. QED
      BY <1>6, <2>2, <3>1 DEF FrontierOf!Next
  <2>3. QED
    BY <1>8, <2>1, <2>2
<1>9. QED
  BY <1>2, <1>4, <1>5, <1>7, <1>8, WorkQueueAssumption DEF Next, FrontierOf!Next

\* The queue, its mutex and its condition variable implement the frontier:
\* every discovered URL is taken at most once, retired only by the worker that
\* took it, and the crawl is closed only when nothing is open or worked on.
THEOREM ImplementsFrontierSafety == Spec => FrontierOf!Spec
<1>1. Init => FrontierOf!Init
  <2> SUFFICES ASSUME Init PROVE FrontierOf!Init
    OBVIOUS
  <2>1. At("busy") = {}
    BY DEF Init, At
  <2>2. QueuedKeys = {KeyOf[Start]}
    <3>1. DOMAIN queue = {1} /\ queue[1] = Start
      BY DEF Init
    <3>2. QED
      BY <3>1 DEF QueuedKeys
  <2>3. WorkedKeys = {}
    BY <2>1 DEF WorkedKeys
  <2>4. QED
    BY <2>2, <2>3 DEF Init, FrontierOf!Init
<1>2. QED
  BY <1>1, FrontierStep, Invariance, PTL DEF Spec, FrontierOf!Spec
=============================================================================
