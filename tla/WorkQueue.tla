----------------------------- MODULE WorkQueue ------------------------------
(***************************************************************************)
(* The queue and the worker pool of Crawler::Impl (crawler.cpp): a FIFO    *)
(* queue, the set of keys ever queued, a count of active workers and a     *)
(* stop flag, guarded by one mutex and one condition variable.             *)
(*                                                                         *)
(* Every critical section is one action.  A worker inside pop() that found *)
(* nothing to do sleeps on the condition variable ("waiting"); a notified  *)
(* worker goes back to the top of the loop in pop() ("popping").  What a   *)
(* worker does with an item is left open here: it may queue any items and  *)
(* is eventually done.  Crawler fills it in.                               *)
(***************************************************************************)
EXTENDS Naturals, Sequences, FiniteSets

CONSTANTS
  Workers,   \* the worker threads
  Items,     \* the queue items
  Keys,      \* the URLs without fragment that identify items
  KeyOf,     \* the key of each item
  Start,     \* the item run() queues before it creates the threads
  NoItem     \* "the worker holds no item"

ASSUME WorkQueueAssumption ==
  /\ IsFiniteSet(Workers)
  /\ Workers # {}
  /\ KeyOf \in [Items -> Keys]
  /\ Start \in Items
  /\ NoItem \notin Items

VARIABLES
  queue,     \* Impl::queue
  seen,      \* Impl::seen
  active,    \* Impl::active_workers
  stopping,  \* Impl::stopping
  where,     \* where each worker is in worker()
  job        \* the item each worker holds

vars == <<queue, seen, active, stopping, where, job>>

TypeOK ==
  /\ queue \in Seq(Items)
  /\ seen \subseteq Keys
  /\ active \in Nat
  /\ stopping \in BOOLEAN
  /\ where \in [Workers -> {"popping", "waiting", "busy", "gone"}]
  /\ job \in [Workers -> Items \cup {NoItem}]

At(place) == {w \in Workers : where[w] = place}

Init ==
  /\ queue = <<Start>>
  /\ seen = {KeyOf[Start]}
  /\ active = 0
  /\ stopping = FALSE
  /\ where = [w \in Workers |-> "popping"]
  /\ job = [w \in Workers |-> NoItem]

-----------------------------------------------------------------------------
(* notify_all and notify_one as functions of where each worker stands.     *)

WakeAll(places) ==
  [v \in Workers |-> IF places[v] = "waiting" THEN "popping" ELSE places[v]]

WakeOne ==
  IF At("waiting") = {}
  THEN UNCHANGED where
  ELSE \E v \in At("waiting") : where' = [where EXCEPT ![v] = "popping"]

-----------------------------------------------------------------------------
(* pop(), one action per way an iteration of its loop can end.             *)

PopStopped(w) ==
  /\ where[w] = "popping"
  /\ stopping
  /\ where' = [where EXCEPT ![w] = "gone"]
  /\ UNCHANGED <<queue, seen, active, stopping, job>>

PopItem(w) ==
  /\ where[w] = "popping"
  /\ ~stopping
  /\ queue # <<>>
  /\ queue' = Tail(queue)
  /\ active' = active + 1
  /\ where' = [where EXCEPT ![w] = "busy"]
  /\ job' = [job EXCEPT ![w] = Head(queue)]
  /\ UNCHANGED <<seen, stopping>>

PopLast(w) ==
  /\ where[w] = "popping"
  /\ ~stopping
  /\ queue = <<>>
  /\ active = 0
  /\ stopping' = TRUE
  /\ where' = WakeAll([where EXCEPT ![w] = "gone"])
  /\ UNCHANGED <<queue, seen, active, job>>

PopWait(w) ==
  /\ where[w] = "popping"
  /\ ~stopping
  /\ queue = <<>>
  /\ active # 0
  /\ where' = [where EXCEPT ![w] = "waiting"]
  /\ UNCHANGED <<queue, seen, active, stopping, job>>

Pop(w) == PopStopped(w) \/ PopItem(w) \/ PopLast(w) \/ PopWait(w)

\* std::condition_variable::wait may return without a notification.
SpuriousWakeup(w) ==
  /\ where[w] = "waiting"
  /\ where' = [where EXCEPT ![w] = "popping"]
  /\ UNCHANGED <<queue, seen, active, stopping, job>>

-----------------------------------------------------------------------------
(* What a worker holding an item does to the queue.                        *)

\* Mutant of Enqueue: the URL is marked as seen, then dropped because the
\* queue is full.
EnqueueDropsWhenFull(w, item) ==
  /\ where[w] = "busy"
  /\ seen' = seen \cup {KeyOf[item]}
  /\ IF KeyOf[item] \in seen \/ Len(queue) > 1
     THEN UNCHANGED <<queue, where>>
     ELSE queue' = Append(queue, item) /\ WakeOne
  /\ UNCHANGED <<active, stopping, job>>

Enqueue(w, item) ==
  /\ where[w] = "busy"
  /\ IF KeyOf[item] \in seen
     THEN UNCHANGED <<queue, seen, where>>
     ELSE /\ seen' = seen \cup {KeyOf[item]}
          /\ queue' = Append(queue, item)
          /\ WakeOne
  /\ UNCHANGED <<active, stopping, job>>

\* note_stop() notifies everybody, and without holding the mutex.
NotifyAll(w) ==
  /\ where[w] = "busy"
  /\ where' = WakeAll(where)
  /\ UNCHANGED <<queue, seen, active, stopping, job>>

\* Mutant of FinishItem: the worker stays counted as active.
FinishItemLeaks(w) ==
  /\ where[w] = "busy"
  /\ where' = WakeAll([where EXCEPT ![w] = "popping"])
  /\ job' = [job EXCEPT ![w] = NoItem]
  /\ UNCHANGED <<queue, seen, active, stopping>>

\* Mutant of FinishItem: no notify_all.
FinishItemSilent(w) ==
  /\ where[w] = "busy"
  /\ active' = active - 1
  /\ where' = [where EXCEPT ![w] = "popping"]
  /\ job' = [job EXCEPT ![w] = NoItem]
  /\ UNCHANGED <<queue, seen, stopping>>

FinishItem(w) ==
  /\ where[w] = "busy"
  /\ active' = active - 1
  /\ where' = WakeAll([where EXCEPT ![w] = "popping"])
  /\ job' = [job EXCEPT ![w] = NoItem]
  /\ UNCHANGED <<queue, seen, stopping>>

Next ==
  \E w \in Workers :
    \/ PopStopped(w)
    \/ PopItem(w)
    \/ PopLast(w)
    \/ PopWait(w)
    \/ SpuriousWakeup(w)
    \/ \E item \in Items : Enqueue(w, item)
    \/ NotifyAll(w)
    \/ FinishItem(w)

Spec == Init /\ [][Next]_vars

\* The operating system runs every runnable thread, and process() returns:
\* every request it makes has a timeout and its retries are counted.
FairSpec ==
  /\ Spec
  /\ \A w \in Workers : WF_vars(Pop(w)) /\ WF_vars(FinishItem(w))

-----------------------------------------------------------------------------
QueuedKeys == {KeyOf[queue[i]] : i \in DOMAIN queue}
WorkedKeys == {KeyOf[job[w]] : w \in At("busy")}

\* The count of active workers, which decides whether the crawl is over, is
\* at every moment the number of workers between pop() and finish_item().
ActiveCountExact ==
  /\ active = Cardinality(At("busy"))
  /\ \A w \in Workers : where[w] = "busy" <=> job[w] \in Items

\* No URL is handed out twice: what is queued, and what the workers hold,
\* are pairwise different keys, all of them in the seen-set.
NoDuplicateWork ==
  /\ \A i, j \in DOMAIN queue : KeyOf[queue[i]] = KeyOf[queue[j]] => i = j
  /\ \A v, w \in At("busy") : KeyOf[job[v]] = KeyOf[job[w]] => v = w
  /\ QueuedKeys \cap WorkedKeys = {}
  /\ QueuedKeys \cup WorkedKeys \subseteq seen

\* "Queue empty and no worker active": once a worker has declared the crawl
\* over there is nothing queued and nobody who could still queue something,
\* and no worker leaves before that.
StopsOnlyWhenDone ==
  /\ stopping => queue = <<>> /\ active = 0
  /\ At("gone") # {} => stopping

\* No wake-up is lost: while a worker sleeps the crawl is not over, somebody
\* is at work who will notify it, and every queued item has an awake worker
\* of its own that is about to look at the queue.
NoLostWakeup ==
  At("waiting") # {} =>
    /\ ~stopping
    /\ At("busy") # {}
    /\ Len(queue) <= Cardinality(At("popping"))

-----------------------------------------------------------------------------
(* The queue implements the frontier: a key is open while it is queued,    *)
(* worked on while a worker holds it, retired when it was seen and is      *)
(* neither.                                                                *)

FrontierOf == INSTANCE Frontier WITH
  StartKey <- KeyOf[Start],
  open     <- QueuedKeys,
  working  <- WorkedKeys,
  retired  <- seen \ (QueuedKeys \cup WorkedKeys),
  closed   <- stopping

\* Every discovered URL is worked on exactly once and the crawl is over only
\* when all of them have been (safety), and each of these does happen.
ImplementsFrontier == FrontierOf!FairSpec
=============================================================================
