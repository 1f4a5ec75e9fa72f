--------------------------- MODULE Crawler_proofs ---------------------------
(***************************************************************************)
(* Proofs about Crawler.  One run uses its queue as WorkQueue prescribes,  *)
(* so what WorkQueue_proofs shows of the queue holds of the run; on top of *)
(* that: types, the robots rules and the budget.                           *)
(***************************************************************************)
EXTENDS Crawler, FiniteSetTheorems, SequenceTheorems, TLAPS

Proved == INSTANCE WorkQueue_proofs WITH
  Keys <- Urls, KeyOf <- UrlOf, Start <- StartItem, NoItem <- None

\* What TypeOK says of everything but the queue.
WorkerTypeOK ==
  /\ stage \in [Workers -> Stages]
  /\ attempt \in [Workers -> Nat]
  /\ links \in [Workers -> Seq(Items)]

CountTypeOK ==
  /\ stats \in [Tallies -> Nat]
  /\ file_count \in Nat
  /\ total_bytes \in Nat
  /\ stop_reason \in {None, "max_files", "max_total_size"}

RecordTypeOK ==
  /\ robots_by_origin \in [Origins -> {"unknown", "rules", "allow_all"}]
  /\ documents \in Seq(Document)
  /\ manifest \in [Urls -> Entry \cup {None}]
  /\ disk \in [Paths -> Body \cup {None}]
  /\ raw \in [Urls -> Body \cup {None}]

RunTypeOK ==
  /\ phase \in {"crawl", "rewrite", "done"}
  /\ opts \in OptionSets
  /\ site \in [Urls -> Versions]

\* A worker is on its way through process() just as long as it holds an item,
\* and past the scope check only with an item that is not too deep.
Deep == {"robots", "askRobots", "budget", "admitted"}

AtWork ==
  \A w \in Workers :
    /\ stage[w] # "idle" <=> where[w] = "busy"
    /\ stage[w] \in Deep => job[w].depth <= MaxDepth

\* Phase two lasts only as long as a document waits to be rewritten.
Pending == phase = "rewrite" => documents # <<>>

IInv ==
  /\ Proved!IInv
  /\ WorkerTypeOK /\ CountTypeOK /\ RecordTypeOK /\ RunTypeOK
  /\ AtWork
  /\ Pending

-----------------------------------------------------------------------------
(* The queue of the run is a WorkQueue.                                    *)

\* What WorkQueue assumes of its constants holds of the run's.
LEMMA QueueAssumption ==
  /\ Proved!IsFiniteSet(Workers)
  /\ Workers # {}
  /\ UrlOf \in [Items -> Urls]
  /\ StartItem \in Items
  /\ None \notin Items
<1>1. Proved!IsFiniteSet(Workers)
  BY CrawlerAssumption DEF IsFiniteSet, Proved!IsFiniteSet
<1>2. StartItem \in Items
  BY CrawlerAssumption DEF Items, StartItem, Roles
<1>3. UrlOf \in [Items -> Urls]
  BY DEF UrlOf, Items
<1>4. QED
  BY <1>1, <1>2, <1>3, CrawlerAssumption

\* The two instances of WorkQueue are the same module.
LEMMA SameQueue ==
  /\ WQ!Init <=> Proved!Init
  /\ queueVars = Proved!vars
  /\ \A w \in Workers :
       /\ WQ!PopItem(w) <=> Proved!PopItem(w)
       /\ WQ!PopStopped(w) <=> Proved!PopStopped(w)
       /\ WQ!PopLast(w) <=> Proved!PopLast(w)
       /\ WQ!PopWait(w) <=> Proved!PopWait(w)
       /\ WQ!SpuriousWakeup(w) <=> Proved!SpuriousWakeup(w)
       /\ WQ!NotifyAll(w) <=> Proved!NotifyAll(w)
       /\ WQ!FinishItem(w) <=> Proved!FinishItem(w)
       /\ \A item \in Items : WQ!Enqueue(w, item) <=> Proved!Enqueue(w, item)
<1>1. WQ!Init <=> Proved!Init
  BY DEF WQ!Init, Proved!Init
<1>2. queueVars = Proved!vars
  BY DEF queueVars, Proved!vars
<1>3. ASSUME NEW w \in Workers
      PROVE  /\ WQ!PopItem(w) <=> Proved!PopItem(w)
             /\ WQ!PopStopped(w) <=> Proved!PopStopped(w)
             /\ WQ!PopWait(w) <=> Proved!PopWait(w)
             /\ WQ!SpuriousWakeup(w) <=> Proved!SpuriousWakeup(w)
  BY DEF WQ!PopItem, Proved!PopItem, WQ!PopStopped, Proved!PopStopped, WQ!PopWait,
         Proved!PopWait, WQ!SpuriousWakeup, Proved!SpuriousWakeup
<1>4. ASSUME NEW w \in Workers
      PROVE  /\ WQ!PopLast(w) <=> Proved!PopLast(w)
             /\ WQ!NotifyAll(w) <=> Proved!NotifyAll(w)
             /\ WQ!FinishItem(w) <=> Proved!FinishItem(w)
  BY DEF WQ!PopLast, Proved!PopLast, WQ!NotifyAll, Proved!NotifyAll, WQ!FinishItem,
         Proved!FinishItem, WQ!WakeAll, Proved!WakeAll
<1>5. ASSUME NEW w \in Workers, NEW item \in Items
      PROVE  WQ!Enqueue(w, item) <=> Proved!Enqueue(w, item)
  BY DEF WQ!Enqueue, Proved!Enqueue, WQ!WakeOne, Proved!WakeOne, WQ!At, Proved!At
<1>6. QED
  BY <1>1, <1>2, <1>3, <1>4, <1>5

\* Every step of the run is a step of its queue or leaves the queue alone.
LEMMA QueueStep == WorkerTypeOK /\ [Next]_vars => [Proved!Next]_(Proved!vars)
<1> SUFFICES ASSUME WorkerTypeOK, [Next]_vars PROVE Proved!Next \/ UNCHANGED queueVars
  BY DEF queueVars, Proved!vars
<1>1. ASSUME NEW w \in Workers, GetItem(w) PROVE Proved!Next
  BY <1>1, SameQueue DEF GetItem, Proved!Next
<1>2. ASSUME NEW w \in Workers, NoItemYet(w) PROVE Proved!Next
  BY <1>2, SameQueue DEF NoItemYet, Proved!Next
<1>3. ASSUME NEW w \in Workers, FinishItem(w) PROVE Proved!Next
  BY <1>3, SameQueue DEF FinishItem, Proved!Next
<1>4. ASSUME NEW w \in Workers, FollowLink(w) PROVE Proved!Next
  <2>1. Head(links[w]) \in Items
    BY <1>4, HeadTailProperties DEF FollowLink, WorkerTypeOK
  <2>2. QED
    BY <1>4, <2>1, SameQueue DEF FollowLink, Proved!Next
<1>5. ASSUME NEW w \in Workers, StopOverBudget(w) PROVE Proved!Next
  BY <1>5, SameQueue DEF StopOverBudget, Proved!Next
<1>6. ASSUME NEW w \in Workers,
             DrainItem(w) \/ RejectOutOfScope(w) \/ AcceptInScope(w)
               \/ LookUpRobots(w) \/ AskRobots(w) \/ PassBudget(w)
      PROVE  UNCHANGED queueVars
  BY <1>6 DEF DrainItem, RejectOutOfScope, AcceptInScope, LookUpRobots, AskRobots, PassBudget
<1>7. ASSUME NEW w \in Workers,
             Reuse(w) \/ Retry(w) \/ RecordError(w) \/ RecordStatus(w)
               \/ RecordRefused(w) \/ RecordUnchanged(w) \/ Store(w) \/ StoreFails(w)
      PROVE  UNCHANGED queueVars
  BY <1>7 DEF Reuse, Retry, RecordError, RecordStatus, RecordRefused, RecordUnchanged,
              Store, StoreFails
<1>8. CASE RewritePhase
  BY <1>8 DEF RewritePhase, BeginRewrite, Rewrite, RewriteFails, NextDocument
<1>9. CASE UNCHANGED vars
  BY <1>9 DEF vars, queueVars
<1>10. QED
  BY <1>1, <1>2, <1>3, <1>4, <1>5, <1>6, <1>7, <1>8, <1>9 DEF Next, Process
-----------------------------------------------------------------------------
(* What process() works with.                                              *)

\* The types of the options that bound something.
LEMMA OptionTypes ==
  ASSUME RunTypeOK
  PROVE  /\ opts \in Options
         /\ opts.max_depth \in 0 .. MaxDepth
         /\ opts.max_files \in Nat /\ opts.max_total_size \in Nat
BY CrawlerAssumption DEF RunTypeOK, Options

\* A worker on its way through process() holds an item of the run.
LEMMA HeldItem ==
  ASSUME IInv, NEW w \in Workers, stage[w] # "idle"
  PROVE  /\ job[w] \in Items
         /\ job[w].url \in Urls
         /\ OriginOf[job[w].url] \in Origins
<1>1. job[w] \in Items
  BY DEF IInv, AtWork, Proved!IInv, Proved!ActiveCountExact
<1>2. job[w].url \in Urls
  BY <1>1 DEF Items
<1>3. QED
  BY <1>1, <1>2, CrawlerAssumption

\* The links of a file of the mirror are a sequence of links.
LEMMA LinkTypes ==
  ASSUME NEW body \in Body, NEW base \in Urls
  PROVE  Links[<<body.of, body.ver, base>>] \in Seq(Link)
<1>1. body.of \in Urls /\ body.ver \in Versions
  BY DEF Body
<1>2. QED
  BY <1>1, CrawlerAssumption

\* What is found in a page that is not too deep is queued as items: pages at
\* most one level too deep, which in_scope() then refuses, and assets at the
\* depth of the page.
LEMMA DiscoverTypes ==
  ASSUME NEW item \in Items, item.depth <= MaxDepth, NEW body \in Body, NEW base \in Urls
  PROVE  Discover(item, body, base) \in Seq(Items)
<1> DEFINE found == Links[<<body.of, body.ver, base>>]
<1> DEFINE next(i) ==
      [url   |-> found[i].url,
       depth |-> IF found[i].role = "navigation" THEN item.depth + 1 ELSE item.depth,
       role  |-> found[i].role]
<1>1. found \in Seq(Link)
  BY LinkTypes
<1>2. item.depth \in 0 .. MaxDepth /\ MaxDepth \in Nat
  BY CrawlerAssumption DEF Items
<1>3. ASSUME NEW i \in DOMAIN found PROVE next(i) \in Items
  <2>1. found[i] \in Link
    BY <1>1, <1>3, ElementOfSeq, LenProperties
  <2>2. /\ found[i].url \in Urls /\ found[i].role \in Roles
        /\ item.depth \in 0 .. MaxDepth + 1 /\ item.depth + 1 \in 0 .. MaxDepth + 1
    BY <2>1, <1>2 DEF Link
  <2>3. QED
    BY <2>2, <1>2 DEF Items, Roles
<1>4. Len(found) \in Nat /\ DOMAIN found = 1 .. Len(found)
  BY <1>1, LenProperties
<1> HIDE DEF next
<1>5. [i \in 1 .. Len(found) |-> next(i)] \in Seq(Items)
  BY <1>3, <1>4
<1>6. Discover(item, body, base) = [i \in DOMAIN found |-> next(i)]
  BY DEF Discover, next
<1>7. QED
  BY <1>4, <1>5, <1>6, Zenon

\* What process() writes: the content of a response, and manifest entries.
LEMMA WrittenTypes ==
  ASSUME RunTypeOK
  PROVE  /\ \A u \in Urls : Downloaded(u) \in Body /\ Downloaded(u).of = u
         /\ \A state \in {"failed", "skipped"} : Blank(state) \in Entry
         /\ \A item \in Items, state \in {"done", "failed"} :
              /\ EntryFor(item, state) \in Entry
              /\ EntryFor(item, state).path \in Paths
              /\ KindOf(item) \in Kinds
<1>1. \A u \in Urls : Downloaded(u) \in Body /\ Downloaded(u).of = u
  BY DEF RunTypeOK, Downloaded, Body
<1>2. \A state \in {"failed", "skipped"} : Blank(state) \in Entry
  BY DEF Blank, Entry, Kinds
<1>3. ASSUME NEW item \in Items PROVE KindOf(item) \in Kinds
  <2>1. item.url \in Urls
    BY DEF Items
  <2>2. TypeOf[item.url] \in Types
    BY <2>1, CrawlerAssumption
  <2>3. QED
    BY <2>2 DEF KindOf, Types, Kinds
<1>4. ASSUME NEW item \in Items, NEW state \in {"done", "failed"}
      PROVE  EntryFor(item, state) \in Entry /\ EntryFor(item, state).path \in Paths
  <2>1. item.url \in Urls /\ KindOf(item) \in Kinds
    BY <1>3 DEF Items
  <2>2. PathOf[<<item.url, KindOf(item)>>] \in Paths
    BY <2>1, CrawlerAssumption
  <2>3. Downloaded(item.url) \in Body /\ site[item.url] \in Versions
    BY <1>1, <2>1 DEF RunTypeOK
  <2>4. QED
    BY <2>1, <2>2, <2>3 DEF EntryFor, Entry
<1>5. QED
  BY <1>1, <1>2, <1>3, <1>4

\* The helpers of process() keep the types.
LEMMA HelperTypes ==
  ASSUME WorkerTypeOK, CountTypeOK, RecordTypeOK, NEW w \in Workers
  PROVE  /\ \A s \in Stages : Goto(w, s) => stage' \in [Workers -> Stages]
         /\ \A t \in Tallies : Bump(t) => stats' \in [Tallies -> Nat]
         /\ \A e \in Entry : Record(w, e) => manifest' \in [Urls -> Entry \cup {None}]
         /\ \A body \in Body \cup {None} :
              CountFile(body) => file_count' \in Nat /\ total_bytes' \in Nat
         /\ \A found \in Seq(Items) : Return(w, found) => WorkerTypeOK'
<1>1. \A body \in Body \cup {None} : SizeOf(body) \in Nat
  BY CrawlerAssumption
<1>2. ASSUME NEW s \in Stages, Goto(w, s) PROVE stage' \in [Workers -> Stages]
  BY <1>2 DEF WorkerTypeOK, Goto
<1>3. ASSUME NEW t \in Tallies, Bump(t) PROVE stats' \in [Tallies -> Nat]
  BY <1>3 DEF CountTypeOK, Bump
<1>4. ASSUME NEW e \in Entry, Record(w, e) PROVE manifest' \in [Urls -> Entry \cup {None}]
  BY <1>4 DEF RecordTypeOK, Record
<1>5. \A body \in Body \cup {None} :
        CountFile(body) => file_count' \in Nat /\ total_bytes' \in Nat
  BY <1>1 DEF CountTypeOK, CountFile
<1>6. ASSUME NEW found \in Seq(Items), Return(w, found) PROVE WorkerTypeOK'
  <2>1. "follow" \in Stages
    BY DEF Stages
  <2>2. QED
    BY <1>2, <1>6, <2>1 DEF WorkerTypeOK, Return
<1>7. QED
  BY <1>2, <1>3, <1>4, <1>5, <1>6

\* A document that is visited again yields items and a document to rewrite.
LEMMA RevisitTypes ==
  ASSUME IInv, NEW w \in Workers, stage[w] = "admitted", Revisit(w),
         manifest[job[w].url] # None
  PROVE  WorkerTypeOK' /\ documents' \in Seq(Document)
<1> DEFINE u == job[w].url
           entry == manifest[u]
           new == [url |-> u, base |-> u, path |-> entry.path, kind |-> entry.kind]
<1>1. job[w] \in Items /\ u \in Urls
  BY HeldItem
<1>2. <<>> \in Seq(Items) /\ documents \in Seq(Document)
  BY DEF IInv, RecordTypeOK
<1>3. CASE NeedsRewriting(entry.kind) /\ raw[u] # None
  <2>1. raw[u] \in Body
    BY <1>1, <1>3 DEF IInv, RecordTypeOK
  <2>2. Discover(job[w], raw[u], u) \in Seq(Items)
    BY <1>1, <2>1, DiscoverTypes DEF IInv, AtWork, Deep
  <2>3. QED
    <3>1. new \in Document
      BY <1>1, <1>2 DEF IInv, RecordTypeOK, Entry, Document
    <3>2. Append(documents, new) \in Seq(Document)
      BY <1>2, <3>1, AppendProperties
    <3>3. WorkerTypeOK'
      BY <1>3, <2>2, HelperTypes DEF Revisit, IInv
    <3>4. QED
      BY <1>3, <3>2, <3>3 DEF Revisit
<1>4. CASE ~(NeedsRewriting(entry.kind) /\ raw[u] # None)
  <2>1. Return(w, <<>>) /\ documents' = documents
    BY <1>4 DEF Revisit
  <2>2. QED
    BY <1>2, <2>1, HelperTypes DEF IInv
<1>5. QED
  BY <1>3, <1>4

LEMMA TargetTypes ==
  ASSUME NEW body \in Body, NEW base \in Urls
  PROVE  Targets(body, base) \subseteq Urls
<1> DEFINE found == Links[<<body.of, body.ver, base>>]
<1>1. found \in Seq(Link)
  BY LinkTypes
<1>2. \A i \in DOMAIN found : found[i] \in Link
  BY <1>1, ElementOfSeq, LenProperties
<1>3. \A i \in DOMAIN found : found[i].url \in Urls
  BY <1>2 DEF Link
<1> HIDE DEF found
<1>4. Targets(body, base) = {found[i].url : i \in DOMAIN found}
  BY DEF Targets, found
<1>5. QED
  BY <1>3, <1>4

\* Rewriting yields the content of a file: the links that are made local are
\* paths of the mirror.
LEMMA RewrittenType ==
  ASSUME RecordTypeOK, NEW document \in Document, raw[document.url] # None
  PROVE  Rewritten(document) \in Body
<1> DEFINE body == raw[document.url]
           local == {manifest[u].path : u \in {t \in Targets(body, document.base) : Mirrored(t)}}
<1>1. body \in Body /\ document.base \in Urls
  BY DEF RecordTypeOK, Document
<1>2. Targets(body, document.base) \subseteq Urls
  BY <1>1, TargetTypes
<1>3. \A t \in Urls : Mirrored(t) => manifest[t].path \in Paths
  BY DEF Mirrored, RecordTypeOK, Entry
<1>4. local \subseteq Paths
  BY <1>2, <1>3
<1> HIDE DEF local
<1>5. [body EXCEPT !.base = document.base, !.local = local] \in Body
  BY <1>1, <1>4 DEF Body
<1>6. QED
  BY <1>1, <1>5 DEF Rewritten, local

\* The documents that wait to be rewritten, when the next one is taken.
LEMMA NextDocumentTypes ==
  ASSUME IInv, NextDocument
  PROVE  /\ WorkerTypeOK' /\ CountTypeOK' /\ RunTypeOK' /\ Pending'
         /\ Head(documents) \in Document
         /\ documents' \in Seq(Document)
<1>1. WorkerTypeOK' /\ CountTypeOK'
  BY DEF IInv, WorkerTypeOK, CountTypeOK, NextDocument, workerVars, countVars
<1>2. RunTypeOK'
  BY DEF IInv, RunTypeOK, NextDocument
<1>3. documents \in Seq(Document) /\ documents # <<>> /\ documents' = Tail(documents)
  BY DEF IInv, RecordTypeOK, NextDocument, Pending
<1>4. /\ Head(documents) \in Document /\ documents' \in Seq(Document)
      /\ Len(documents') = Len(documents) - 1 /\ Len(documents) \in Nat \ {0}
  BY <1>3, HeadTailProperties, EmptySeq, LenProperties
<1>5. Pending'
  <2>1. phase' = "rewrite" => Len(documents) # 1
    BY DEF NextDocument
  <2>2. Len(documents) # 1 => Len(documents') # 0
    BY <1>4
  <2>3. documents' = <<>> => Len(documents') = 0
    OBVIOUS
  <2>4. QED
    BY <2>1, <2>2, <2>3 DEF Pending
<1>6. QED
  BY <1>1, <1>2, <1>4, <1>5

-----------------------------------------------------------------------------
(* Every step keeps the types, one fact for each action.                   *)

TypesOK == WorkerTypeOK /\ CountTypeOK /\ RecordTypeOK /\ RunTypeOK /\ Pending

\* A worker that takes, waits for or gives back an item, or queues a link,
\* touches nothing of the rest.
LEMMA QueueingTypes ==
  ASSUME IInv, NEW w \in Workers,
         GetItem(w) \/ NoItemYet(w) \/ FinishItem(w) \/ FollowLink(w)
  PROVE  TypesOK'
<1>1. CountTypeOK' /\ RecordTypeOK' /\ RunTypeOK' /\ Pending'
  <2>1. UNCHANGED <<robots_by_origin, documents, countVars, manifest, diskVars, runVars>>
    BY DEF GetItem, NoItemYet, FinishItem, FollowLink
  <2>2. QED
    BY <2>1 DEF IInv, CountTypeOK, RecordTypeOK, RunTypeOK, Pending, countVars, diskVars, runVars
<1>2. WorkerTypeOK'
  <2>1. "begin" \in Stages /\ "idle" \in Stages
    BY DEF Stages
  <2>2. CASE GetItem(w)
    BY <2>1, <2>2 DEF GetItem, Goto, IInv, WorkerTypeOK
  <2>3. CASE NoItemYet(w)
    BY <2>3 DEF NoItemYet, workerVars, IInv, WorkerTypeOK
  <2>4. CASE FinishItem(w)
    BY <2>1, <2>4 DEF FinishItem, Goto, IInv, WorkerTypeOK
  <2>5. CASE FollowLink(w)
    <3>1. Tail(links[w]) \in Seq(Items)
      BY <2>5, HeadTailProperties DEF FollowLink, IInv, WorkerTypeOK
    <3>2. QED
      BY <2>5, <3>1 DEF FollowLink, IInv, WorkerTypeOK
  <2>6. QED
    BY <2>2, <2>3, <2>4, <2>5
<1>3. QED
  BY <1>1, <1>2 DEF TypesOK

\* The steps of process() up to the budget check.
LEMMA CheckingTypes ==
  ASSUME IInv, NEW w \in Workers,
         \/ DrainItem(w) \/ RejectOutOfScope(w) \/ AcceptInScope(w)
         \/ LookUpRobots(w) \/ AskRobots(w) \/ PassBudget(w) \/ StopOverBudget(w)
  PROVE  TypesOK'
<1>1. /\ <<>> \in Seq(Items) /\ {"follow", "robots", "askRobots", "budget", "admitted"} \subseteq Stages
      /\ "skipped" \in Tallies
  BY DEF Stages, Tallies
<1>2. WorkerTypeOK /\ CountTypeOK /\ RecordTypeOK /\ RunTypeOK /\ Pending
  BY DEF IInv
<1>3. Blank("skipped") \in Entry
  BY <1>2, WrittenTypes
<1>4. RunTypeOK' /\ Pending' /\ documents' = documents /\ disk' = disk /\ raw' = raw
  <2>1. UNCHANGED <<documents, diskVars, runVars>>
    BY DEF DrainItem, RejectOutOfScope, AcceptInScope, LookUpRobots, AskRobots, PassBudget,
           StopOverBudget
  <2>2. QED
    BY <1>2, <2>1 DEF RunTypeOK, Pending, diskVars, runVars
<1>5. ASSUME robots_by_origin' \in [Origins -> {"unknown", "rules", "allow_all"}],
             manifest' \in [Urls -> Entry \cup {None}]
      PROVE  RecordTypeOK'
  BY <1>2, <1>4, <1>5 DEF RecordTypeOK
<1>6. ASSUME NEW rules \in {"rules", "allow_all"}, Judge(w, rules)
      PROVE  /\ WorkerTypeOK'
             /\ stats' \in [Tallies -> Nat]
             /\ manifest' \in [Urls -> Entry \cup {None}]
  <2>1. CASE rules = "rules" /\ job[w].url \in Disallowed
    BY <1>1, <1>2, <1>3, <1>6, <2>1, HelperTypes DEF Judge
  <2>2. CASE ~(rules = "rules" /\ job[w].url \in Disallowed)
    <3>1. Goto(w, "budget") /\ UNCHANGED <<attempt, links, stats, manifest>>
      BY <1>6, <2>2 DEF Judge
    <3>2. stage' \in [Workers -> Stages]
      BY <1>1, <1>2, <3>1, HelperTypes
    <3>3. QED
      BY <1>2, <3>1, <3>2 DEF WorkerTypeOK, CountTypeOK, RecordTypeOK
  <2>3. QED
    BY <2>1, <2>2
<1>7. CASE DrainItem(w)
  <2>1. WorkerTypeOK'
    BY <1>1, <1>2, <1>7, HelperTypes DEF DrainItem
  <2>2. UNCHANGED <<robots_by_origin, countVars, manifest>>
    BY <1>7 DEF DrainItem
  <2>3. QED
    BY <1>2, <1>4, <1>5, <2>1, <2>2 DEF TypesOK, CountTypeOK, RecordTypeOK, countVars
<1>8. CASE RejectOutOfScope(w)
  <2>1. WorkerTypeOK' /\ stats' \in [Tallies -> Nat] /\ manifest' \in [Urls -> Entry \cup {None}]
    BY <1>1, <1>2, <1>3, <1>8, HelperTypes DEF RejectOutOfScope
  <2>2. UNCHANGED <<robots_by_origin, file_count, total_bytes, stop_reason>>
    BY <1>8 DEF RejectOutOfScope
  <2>3. QED
    BY <1>2, <1>4, <1>5, <2>1, <2>2 DEF TypesOK, CountTypeOK, RecordTypeOK
<1>9. CASE AcceptInScope(w)
  <2>1. stage' \in [Workers -> Stages]
    BY <1>1, <1>2, <1>9, HelperTypes DEF AcceptInScope
  <2>2. UNCHANGED <<attempt, links, robots_by_origin, countVars, manifest>>
    BY <1>9 DEF AcceptInScope
  <2>3. QED
    BY <1>2, <1>4, <1>5, <2>1, <2>2 DEF TypesOK, WorkerTypeOK, CountTypeOK, RecordTypeOK, countVars
<1>10. CASE LookUpRobots(w)
  <2> DEFINE rules == robots_by_origin[OriginOf[job[w].url]]
  <2>1. stage[w] # "idle"
    BY <1>10 DEF LookUpRobots
  <2>2. rules \in {"unknown", "rules", "allow_all"}
    BY <1>2, <2>1, HeldItem DEF RecordTypeOK
  <2>3. UNCHANGED <<robots_by_origin, file_count, total_bytes, stop_reason>>
    BY <1>10 DEF LookUpRobots
  <2>4. CASE rules = "unknown"
    <3>1. Goto(w, "askRobots") /\ UNCHANGED <<attempt, links, stats, manifest>>
      BY <1>10, <2>4 DEF LookUpRobots
    <3>2. stage' \in [Workers -> Stages]
      BY <1>1, <1>2, <3>1, HelperTypes
    <3>3. QED
      BY <1>2, <1>4, <1>5, <2>3, <3>1, <3>2 DEF TypesOK, WorkerTypeOK, CountTypeOK, RecordTypeOK
  <2>5. CASE rules # "unknown"
    <3>1. Judge(w, rules)
      BY <1>10, <2>5 DEF LookUpRobots
    <3>2. QED
      BY <1>2, <1>4, <1>5, <1>6, <2>2, <2>3, <2>5, <3>1 DEF TypesOK, CountTypeOK, RecordTypeOK
  <2>6. QED
    BY <2>4, <2>5
<1>11. CASE AskRobots(w)
  <2> DEFINE origin == OriginOf[job[w].url]
  <2>1. stage[w] # "idle"
    BY <1>11 DEF AskRobots
  <2>2. origin \in Origins
    BY <2>1, HeldItem
  <2>3. PICK answer \in RobotsReplies[origin] :
          /\ robots_by_origin' = IF robots_by_origin[origin] = "unknown"
                                 THEN [robots_by_origin EXCEPT ![origin] = answer]
                                 ELSE robots_by_origin
          /\ Judge(w, robots_by_origin'[origin])
    BY <1>11 DEF AskRobots
  <2>4. answer \in {"rules", "allow_all"}
    BY <2>2, <2>3, CrawlerAssumption
  <2>5. /\ robots_by_origin' \in [Origins -> {"unknown", "rules", "allow_all"}]
        /\ robots_by_origin'[origin] \in {"rules", "allow_all"}
    BY <1>2, <2>2, <2>3, <2>4 DEF RecordTypeOK
  <2>6. UNCHANGED <<file_count, total_bytes, stop_reason>>
    BY <1>11 DEF AskRobots
  <2>7. QED
    BY <1>2, <1>4, <1>5, <1>6, <2>3, <2>5, <2>6 DEF TypesOK, CountTypeOK
<1>12. CASE PassBudget(w)
  <2>1. stage' \in [Workers -> Stages] /\ stats' \in [Tallies -> Nat]
    <3>1. stage' \in [Workers -> Stages]
      BY <1>1, <1>2, <1>12, HelperTypes DEF PassBudget
    <3>2. stats' \in [Tallies -> Nat]
      BY <1>1, <1>2, <1>12, HelperTypes DEF PassBudget, TallyListed, CountTypeOK
    <3>3. QED
      BY <3>1, <3>2
  <2>2. UNCHANGED <<attempt, links, robots_by_origin, file_count, total_bytes, stop_reason, manifest>>
    BY <1>12 DEF PassBudget
  <2>3. QED
    BY <1>2, <1>4, <1>5, <2>1, <2>2 DEF TypesOK, WorkerTypeOK, CountTypeOK, RecordTypeOK
<1>13. CASE StopOverBudget(w)
  <2>1. WorkerTypeOK'
    BY <1>1, <1>2, <1>13, HelperTypes DEF StopOverBudget
  <2>2. stats' \in [Tallies -> Nat]
    BY <1>1, <1>2, <1>13, HelperTypes DEF StopOverBudget, TallyListed, CountTypeOK
  <2>3. stop_reason' \in {None, "max_files", "max_total_size"}
    BY <1>2, <1>13 DEF StopOverBudget, CountTypeOK
  <2>4. UNCHANGED <<robots_by_origin, file_count, total_bytes, manifest>>
    BY <1>13 DEF StopOverBudget
  <2>5. QED
    BY <1>2, <1>4, <1>5, <2>1, <2>2, <2>3, <2>4 DEF TypesOK, CountTypeOK, RecordTypeOK
<1>14. QED
  BY <1>7, <1>8, <1>9, <1>10, <1>11, <1>12, <1>13

\* The steps of process() from the cache lookup to its end.
LEMMA FetchingTypes ==
  ASSUME IInv, NEW w \in Workers,
         \/ Reuse(w) \/ Retry(w) \/ RecordError(w) \/ RecordStatus(w) \/ RecordRefused(w)
         \/ RecordUnchanged(w) \/ Store(w) \/ StoreFails(w)
  PROVE  TypesOK'
<1> DEFINE u == job[w].url
<1>1. <<>> \in Seq(Items) /\ {"downloaded", "reused", "unchanged", "failed", "skipped"} \subseteq Tallies
  BY DEF Tallies
<1>2. WorkerTypeOK /\ CountTypeOK /\ RecordTypeOK /\ RunTypeOK /\ Pending
  BY DEF IInv
<1>3. stage[w] = "admitted"
  BY DEF Reuse, Retry, RecordError, RecordStatus, RecordRefused, RecordUnchanged, Store,
         StoreFails, ReceivesBody, Delivers, Receives, Fetching
<1>4. job[w] \in Items /\ u \in Urls /\ job[w].depth <= MaxDepth
  BY <1>3, HeldItem DEF IInv, AtWork, Deep
<1>5. RunTypeOK'
  <2>1. UNCHANGED runVars
    BY DEF Reuse, Retry, RecordError, RecordStatus, RecordRefused, RecordUnchanged, Store, StoreFails
  <2>2. QED
    BY <1>2, <2>1 DEF RunTypeOK, runVars
<1>6. phase' = phase /\ robots_by_origin' = robots_by_origin /\ stop_reason' = stop_reason
  BY DEF Reuse, Retry, RecordError, RecordStatus, RecordRefused, RecordUnchanged, Store,
         StoreFails, runVars, countVars
<1>7. CASE Reuse(w) \/ RecordUnchanged(w)
  <2>1. manifest[u] # None /\ Revisit(w)
    BY <1>7 DEF Reuse, Reusable, RecordUnchanged, NotModified
  <2>2. WorkerTypeOK' /\ documents' \in Seq(Document)
    BY <1>3, <2>1, RevisitTypes
  <2>3. Pending'
    BY <1>2, <1>6, <2>1 DEF Revisit, Pending, RecordTypeOK
  <2>4. /\ (Bump("reused") \/ Bump("unchanged")) /\ CountFile(manifest[u].sha)
        /\ manifest[u].sha \in Body \cup {None}
    BY <1>2, <1>4, <1>7, <2>1 DEF Reuse, RecordUnchanged, RecordTypeOK, Entry
  <2>5. stats' \in [Tallies -> Nat] /\ file_count' \in Nat /\ total_bytes' \in Nat
    BY <1>1, <1>2, <1>4, <2>4, HelperTypes
  <2>6. UNCHANGED <<manifest, diskVars>>
    BY <1>7 DEF Reuse, RecordUnchanged
  <2>7. QED
    BY <1>2, <1>5, <1>6, <2>2, <2>3, <2>5, <2>6 DEF TypesOK, CountTypeOK, RecordTypeOK, diskVars
<1>8. CASE Retry(w)
  <2>1. WorkerTypeOK'
    BY <1>2, <1>8 DEF Retry, WorkerTypeOK
  <2>2. UNCHANGED <<documents, countVars, manifest, diskVars>>
    BY <1>8 DEF Retry
  <2>3. QED
    BY <1>2, <1>5, <1>6, <2>1, <2>2
       DEF TypesOK, CountTypeOK, RecordTypeOK, Pending, countVars, diskVars
<1>9. CASE RecordError(w) \/ RecordStatus(w) \/ RecordRefused(w)
  <2>1. PICK e \in Entry : Record(w, e)
    <3>1. Blank("failed") \in Entry /\ Blank("skipped") \in Entry
      BY <1>2, WrittenTypes
    <3>2. CASE RecordError(w)
      <4> DEFINE old == manifest[u]
                 e == [Blank("failed") EXCEPT !.path = IF old = None THEN None ELSE old.path]
      <4>1. old \in Entry \cup {None}
        BY <1>2, <1>4 DEF RecordTypeOK
      <4>2. (IF old = None THEN None ELSE old.path) \in Paths \cup {None}
        BY <4>1 DEF Entry
      <4>3. e \in Entry
        BY <3>1, <4>2 DEF Entry
      <4>4. Record(w, e)
        BY <3>2 DEF RecordError
      <4>5. QED
        BY <4>3, <4>4
    <3>3. QED
      BY <1>9, <3>1, <3>2 DEF RecordStatus, RecordRefused
  <2>2. (Bump("failed") \/ Bump("skipped")) /\ Return(w, <<>>)
    BY <1>9 DEF RecordError, RecordStatus, RecordRefused
  <2>3. UNCHANGED <<documents, file_count, total_bytes, diskVars>>
    BY <1>9 DEF RecordError, RecordStatus, RecordRefused
  <2>4. WorkerTypeOK' /\ stats' \in [Tallies -> Nat] /\ manifest' \in [Urls -> Entry \cup {None}]
    BY <1>1, <1>2, <2>1, <2>2, HelperTypes
  <2>5. QED
    BY <1>2, <1>5, <1>6, <2>3, <2>4 DEF TypesOK, CountTypeOK, RecordTypeOK, Pending, diskVars
<1>10. CASE Store(w)
  <2> DEFINE kind == KindOf(job[w])
             entry == EntryFor(job[w], "done")
             new == [url |-> u, base |-> FinalOf[u], path |-> entry.path, kind |-> kind]
  <2>1. /\ Downloaded(u) \in Body /\ FinalOf[u] \in Urls /\ kind \in Kinds
        /\ entry \in Entry /\ entry.path \in Paths
    BY <1>2, <1>4, WrittenTypes, CrawlerAssumption
  <2>2. raw' \in [Urls -> Body \cup {None}] /\ disk' \in [Paths -> Body \cup {None}]
    BY <1>2, <1>10, <2>1 DEF Store, RecordTypeOK
  <2>3. documents' = documents \/ documents' = Append(documents, new)
    BY <1>10 DEF Store
  <2>4. new \in Document
    BY <1>4, <2>1 DEF Document
  <2>5. documents' \in Seq(Document) /\ Pending'
    BY <1>2, <1>6, <2>3, <2>4, AppendProperties DEF RecordTypeOK, Pending
  <2>6. WorkerTypeOK'
    <3>1. Discover(job[w], Downloaded(u), FinalOf[u]) \in Seq(Items)
      BY <1>4, <2>1, DiscoverTypes
    <3>2. PICK found \in Seq(Items) : Return(w, found)
      BY <1>1, <1>10, <3>1 DEF Store
    <3>3. QED
      BY <1>2, <3>2, HelperTypes
  <2>7. Record(w, entry) /\ Bump("downloaded") /\ CountFile(Downloaded(u))
    BY <1>10 DEF Store
  <2>8. /\ stats' \in [Tallies -> Nat] /\ manifest' \in [Urls -> Entry \cup {None}]
        /\ file_count' \in Nat /\ total_bytes' \in Nat
    BY <1>1, <1>2, <1>4, <2>1, <2>7, HelperTypes
  <2>9. QED
    BY <1>2, <1>5, <1>6, <2>2, <2>5, <2>6, <2>8 DEF TypesOK, CountTypeOK, RecordTypeOK
<1>11. CASE StoreFails(w)
  <2> DEFINE entry == EntryFor(job[w], "failed")
  <2>1. entry \in Entry
    BY <1>2, <1>4, WrittenTypes
  <2>2. raw' \in [Urls -> Body \cup {None}] /\ disk' \in [Paths -> Body \cup {None}]
    BY <1>2, <1>11 DEF StoreFails, RecordTypeOK, diskVars
  <2>3. /\ Record(w, entry) /\ Bump("failed") /\ Return(w, <<>>)
        /\ UNCHANGED <<documents, file_count, total_bytes>>
    BY <1>11 DEF StoreFails
  <2>4. WorkerTypeOK' /\ stats' \in [Tallies -> Nat] /\ manifest' \in [Urls -> Entry \cup {None}]
    BY <1>1, <1>2, <2>1, <2>3, HelperTypes
  <2>5. QED
    BY <1>2, <1>5, <1>6, <2>2, <2>3, <2>4 DEF TypesOK, CountTypeOK, RecordTypeOK, Pending
<1>12. QED
  BY <1>7, <1>8, <1>9, <1>10, <1>11

\* The steps of run() after the workers are gone.
LEMMA RewritingTypes ==
  ASSUME IInv, BeginRewrite \/ Rewrite \/ RewriteFails
  PROVE  TypesOK'
<1>1. WorkerTypeOK /\ CountTypeOK /\ RecordTypeOK /\ RunTypeOK /\ Pending
  BY DEF IInv
<1>2. CASE BeginRewrite
  <2>1. phase' \in {"crawl", "rewrite", "done"} /\ Pending'
    BY <1>2 DEF BeginRewrite, Pending
  <2>2. UNCHANGED <<workerVars, robots_by_origin, documents, countVars, manifest, diskVars, opts, site>>
    BY <1>2 DEF BeginRewrite
  <2>3. QED
    BY <1>1, <2>1, <2>2 DEF TypesOK, WorkerTypeOK, CountTypeOK, RecordTypeOK, RunTypeOK,
                            workerVars, countVars, diskVars
<1>3. ASSUME NextDocument,
             disk' \in [Paths -> Body \cup {None}],
             manifest' \in [Urls -> Entry \cup {None}]
      PROVE  TypesOK'
  <2>1. UNCHANGED <<robots_by_origin, raw>>
    BY <1>3 DEF NextDocument
  <2>2. QED
    BY <1>1, <1>3, <2>1, NextDocumentTypes DEF TypesOK, RecordTypeOK
<1>4. CASE Rewrite
  <2> DEFINE document == Head(documents)
             new == Rewritten(document)
  <2>1. NextDocument /\ raw[document.url] # None
    BY <1>4 DEF Rewrite
  <2>2. document \in Document /\ new \in Body
    BY <1>1, <2>1, NextDocumentTypes, RewrittenType
  <2>3. disk' = [disk EXCEPT ![document.path] = new]
    BY <1>4 DEF Rewrite
  <2>4. \/ manifest' = manifest
        \/ manifest[document.url] # None /\ manifest' = [manifest EXCEPT ![document.url].sha = new]
    BY <1>4 DEF Rewrite
  <2> HIDE DEF new
  <2>5. disk' \in [Paths -> Body \cup {None}]
    BY <1>1, <2>2, <2>3 DEF RecordTypeOK
  <2>6. manifest' \in [Urls -> Entry \cup {None}]
    <3>1. document.url \in Urls
      BY <2>2 DEF Document
    <3>2. manifest[document.url] # None => [manifest[document.url] EXCEPT !.sha = new] \in Entry
      BY <1>1, <2>2, <3>1 DEF RecordTypeOK, Entry
    <3>3. QED
      BY <1>1, <2>4, <3>1, <3>2 DEF RecordTypeOK
  <2>7. QED
    BY <1>3, <2>1, <2>5, <2>6
<1>5. CASE RewriteFails
  <2>1. disk' \in [Paths -> Body \cup {None}]
    BY <1>1, <1>5 DEF RewriteFails, RecordTypeOK
  <2>2. QED
    BY <1>1, <1>3, <1>5, <2>1 DEF RewriteFails, RecordTypeOK
<1>6. QED
  BY <1>2, <1>4, <1>5

LEMMA StepTypes == IInv /\ [Next]_vars => TypesOK'
<1> SUFFICES ASSUME IInv, [Next]_vars PROVE TypesOK'
  OBVIOUS
<1>1. CASE UNCHANGED vars
  BY <1>1 DEF IInv, TypesOK, WorkerTypeOK, CountTypeOK, RecordTypeOK, RunTypeOK, Pending,
              vars, workerVars, countVars, diskVars, runVars
<1>2. ASSUME NEW w \in Workers, GetItem(w) \/ NoItemYet(w) \/ Process(w) \/ FinishItem(w)
      PROVE  TypesOK'
  BY <1>2, QueueingTypes, CheckingTypes, FetchingTypes DEF Process
<1>3. CASE RewritePhase
  BY <1>3, RewritingTypes DEF RewritePhase
<1>4. QED
  BY <1>1, <1>2, <1>3 DEF Next

-----------------------------------------------------------------------------
(* Where a worker is in process(), and what it holds.                      *)

\* A worker that enters process() has an item, one that leaves it has none,
\* and the depth of the item was checked on the way.
LEMMA StepAtWork == IInv /\ [Next]_vars => AtWork'
<1> SUFFICES ASSUME IInv, [Next]_vars PROVE AtWork'
  OBVIOUS
<1>1. /\ stage \in [Workers -> Stages] /\ AtWork
      /\ where \in [Workers -> {"popping", "waiting", "busy", "gone"}]
      /\ job \in [Workers -> Items \cup {None}]
  BY DEF IInv, WorkerTypeOK, Proved!IInv, Proved!TypeOK
<1>2. ASSUME NEW w \in Workers, GetItem(w) PROVE AtWork'
  <2>1. /\ where' = [where EXCEPT ![w] = "busy"]
        /\ job' = [job EXCEPT ![w] = Head(queue)]
        /\ stage' = [stage EXCEPT ![w] = "begin"]
    BY <1>2 DEF GetItem, WQ!PopItem, Goto
  <2>2. QED
    BY <1>1, <2>1 DEF AtWork, Deep
<1>3. ASSUME NEW w \in Workers, NoItemYet(w) PROVE AtWork'
  <2>1. stage' = stage /\ job' = job /\ \A v \in Workers : where'[v] = "busy" <=> where[v] = "busy"
    BY <1>1, <1>3 DEF NoItemYet, workerVars, WQ!PopStopped, WQ!PopLast, WQ!PopWait,
                      WQ!SpuriousWakeup, WQ!WakeAll
  <2>2. QED
    BY <1>1, <2>1 DEF AtWork
<1>4. ASSUME NEW w \in Workers, FinishItem(w) PROVE AtWork'
  <2>1. /\ stage' = [stage EXCEPT ![w] = "idle"]
        /\ where'[w] # "busy" /\ \A v \in Workers \ {w} : where'[v] = "busy" <=> where[v] = "busy"
        /\ \A v \in Workers \ {w} : job'[v] = job[v]
    BY <1>1, <1>4 DEF FinishItem, Goto, WQ!FinishItem, WQ!WakeAll
  <2>2. QED
    BY <1>1, <2>1 DEF AtWork, Deep
<1>5. ASSUME NEW w \in Workers, FollowLink(w) PROVE AtWork'
  <2>1. stage' = stage /\ job' = job /\ \A v \in Workers : where'[v] = "busy" <=> where[v] = "busy"
    BY <1>1, <1>5 DEF FollowLink, WQ!Enqueue, WQ!WakeOne, WQ!At
  <2>2. QED
    BY <1>1, <2>1 DEF AtWork
<1>6. ASSUME NEW w \in Workers, NEW s \in Stages \ {"idle"},
             stage[w] # "idle", Goto(w, s), UNCHANGED job,
             \A v \in Workers : where'[v] = "busy" <=> where[v] = "busy",
             s \in Deep => job[w].depth <= MaxDepth
      PROVE  AtWork'
  BY <1>1, <1>6 DEF AtWork, Goto
<1>7. ASSUME NEW w \in Workers,
             DrainItem(w) \/ RejectOutOfScope(w) \/ AcceptInScope(w)
      PROVE  AtWork'
  <2>1. stage[w] = "begin" /\ UNCHANGED queueVars
    BY <1>7 DEF DrainItem, RejectOutOfScope, AcceptInScope
  <2>2. CASE DrainItem(w) \/ RejectOutOfScope(w)
    <3>1. Goto(w, "follow")
      BY <2>2 DEF DrainItem, RejectOutOfScope, Return
    <3>2. QED
      BY <1>6, <2>1, <3>1 DEF queueVars, Stages, Deep
  <2>3. CASE AcceptInScope(w)
    <3>1. job[w] \in Items /\ opts.max_depth \in 0 .. MaxDepth /\ InScope(job[w])
      BY <2>1, <2>3, HeldItem, OptionTypes DEF IInv, AcceptInScope
    <3>2. job[w].depth <= MaxDepth
      BY <3>1, CrawlerAssumption DEF Items, InScope, Roles
    <3>3. PICK s \in {"robots", "budget"} : Goto(w, s)
      BY <2>3 DEF AcceptInScope
    <3>4. QED
      BY <1>6, <2>1, <3>2, <3>3 DEF queueVars, Stages
  <2>4. QED
    BY <1>7, <2>2, <2>3
<1>8. ASSUME NEW w \in Workers,
             LookUpRobots(w) \/ AskRobots(w) \/ PassBudget(w)
      PROVE  AtWork'
  <2>1. stage[w] \in Deep /\ UNCHANGED queueVars
    BY <1>8 DEF LookUpRobots, AskRobots, PassBudget, Deep
  <2>2. PICK s \in {"askRobots", "budget", "admitted", "follow"} : Goto(w, s)
    BY <1>8 DEF LookUpRobots, AskRobots, PassBudget, Judge, Return
  <2>3. stage[w] # "idle" /\ job[w].depth <= MaxDepth
    BY <1>1, <2>1 DEF AtWork, Deep
  <2>4. QED
    BY <1>6, <2>1, <2>2, <2>3 DEF queueVars, Stages
<1>9. ASSUME NEW w \in Workers, StopOverBudget(w) PROVE AtWork'
  <2>1. /\ stage[w] = "budget" /\ Goto(w, "follow") /\ job' = job
        /\ \A v \in Workers : where'[v] = "busy" <=> where[v] = "busy"
    BY <1>1, <1>9 DEF StopOverBudget, Return, WQ!NotifyAll, WQ!WakeAll
  <2>2. QED
    BY <1>6, <2>1 DEF Stages, Deep
<1>10. ASSUME NEW w \in Workers, Retry(w) PROVE AtWork'
  BY <1>1, <1>10 DEF Retry, AtWork, queueVars
<1>11. ASSUME NEW w \in Workers,
              \/ Reuse(w) \/ RecordError(w) \/ RecordStatus(w) \/ RecordRefused(w)
              \/ RecordUnchanged(w) \/ Store(w) \/ StoreFails(w)
       PROVE  AtWork'
  <2>1. stage[w] = "admitted" /\ UNCHANGED queueVars
    BY <1>11 DEF Reuse, RecordError, RecordStatus, RecordRefused, RecordUnchanged, Store,
                 StoreFails, ReceivesBody, Delivers, Receives, Fetching
  <2>2. Goto(w, "follow")
    BY <1>11 DEF Reuse, RecordError, RecordStatus, RecordRefused, RecordUnchanged, Store,
                 StoreFails, Revisit, Return
  <2>3. QED
    BY <1>6, <2>1, <2>2 DEF queueVars, Stages, Deep
<1>12. CASE RewritePhase
  BY <1>1, <1>12 DEF RewritePhase, BeginRewrite, Rewrite, RewriteFails, NextDocument,
                     AtWork, queueVars, workerVars
<1>13. CASE UNCHANGED vars
  BY <1>1, <1>13 DEF vars, queueVars, workerVars, AtWork
<1>14. QED
  BY <1>2, <1>3, <1>4, <1>5, <1>7, <1>8, <1>9, <1>10, <1>11, <1>12, <1>13 DEF Next, Process

-----------------------------------------------------------------------------
(* The invariant, and the theorems that follow from it.                    *)

\* What a run finds in the output directory.
DirectoryTypeOK ==
  /\ manifest \in [Urls -> Entry \cup {None}]
  /\ disk \in [Paths -> Body \cup {None}]
  /\ raw \in [Urls -> Body \cup {None}]
  /\ opts \in OptionSets
  /\ site \in [Urls -> Versions]

LEMMA StartIInv == StartRun /\ DirectoryTypeOK => IInv
<1> SUFFICES ASSUME StartRun, DirectoryTypeOK PROVE IInv
  OBVIOUS
<1>1. Proved!IInv
  BY SameQueue, QueueAssumption, Proved!InitIInv DEF StartRun
<1>2. WorkerTypeOK /\ CountTypeOK
  BY DEF StartRun, WorkerTypeOK, CountTypeOK, Stages
<1>3. RecordTypeOK
  BY DEF StartRun, DirectoryTypeOK, RecordTypeOK
<1>4. RunTypeOK /\ Pending
  BY DEF StartRun, DirectoryTypeOK, RunTypeOK, Pending
<1>5. AtWork
  BY DEF StartRun, WQ!Init, AtWork, Deep
<1>6. QED
  BY <1>1, <1>2, <1>3, <1>4, <1>5 DEF IInv

LEMMA InitIInv == Init => IInv
<1> SUFFICES ASSUME Init PROVE IInv
  OBVIOUS
<1>1. PICK past \in Remains : manifest = past.manifest /\ disk = past.disk /\ raw = past.raw
  <2>1. Nothing \in Remains
    BY DEF Nothing, Remains
  <2>2. Leftovers \subseteq Remains
    BY CrawlerAssumption
  <2>3. QED
    BY <2>1, <2>2 DEF Init
<1>2. DirectoryTypeOK
  BY <1>1 DEF Init, DirectoryTypeOK, Remains
<1>3. QED
  BY <1>2, StartIInv DEF Init

LEMMA StepIInv == IInv /\ [Next]_vars => IInv'
<1> SUFFICES ASSUME IInv, [Next]_vars PROVE IInv'
  OBVIOUS
<1>1. [Proved!Next]_(Proved!vars)
  BY QueueStep DEF IInv
<1>2. Proved!IInv'
  BY <1>1, QueueAssumption, Proved!StepIInv DEF IInv
<1>3. QED
  BY <1>2, StepTypes, StepAtWork DEF IInv, TypesOK

LEMMA Invariance == Spec => []IInv
BY InitIInv, StepIInv, PTL DEF Spec

\* Every variable of a run keeps its type: in particular what discovery queues
\* is never deeper than one level below the deepest page that is admitted.
THEOREM TypeCorrect == Spec => []TypeOK
<1>1. IInv => TypeOK
  BY DEF IInv, TypeOK, WorkerTypeOK, CountTypeOK, RecordTypeOK, RunTypeOK,
         Proved!IInv, Proved!TypeOK, WQ!TypeOK
<1>2. QED
  BY <1>1, Invariance, PTL

\* process() uses the queue as WorkQueue says, in each of its early returns:
\* the safety part of ImplementsWorkQueue.
THEOREM ImplementsWorkQueueSafety == Spec => WQ!Spec
<1>1. Init => WQ!Init
  BY DEF Init, StartRun
<1>2. IInv /\ [Next]_vars => [WQ!Next]_(WQ!vars)
  <2> SUFFICES ASSUME IInv, [Next]_vars PROVE WQ!Next \/ UNCHANGED WQ!vars
    OBVIOUS
  <2>1. [Proved!Next]_(Proved!vars)
    BY QueueStep DEF IInv
  <2>2. CASE UNCHANGED Proved!vars
    BY <2>2 DEF Proved!vars, WQ!vars
  <2>3. CASE Proved!Next
    BY <2>3, SameQueue DEF Proved!Next, WQ!Next
  <2>4. QED
    BY <2>1, <2>2, <2>3
<1>3. QED
  BY <1>1, <1>2, Invariance, PTL DEF Spec, WQ!Spec

\* So however long a page takes and however it fails, no URL is processed by
\* two workers of a run, or twice by one.
THEOREM EachUrlOnce == Spec => []WQ!NoDuplicateWork
<1>1. IInv => WQ!NoDuplicateWork
  BY DEF IInv, Proved!IInv, Proved!NoDuplicateWork, WQ!NoDuplicateWork, Proved!QueuedKeys,
         WQ!QueuedKeys, Proved!WorkedKeys, WQ!WorkedKeys, Proved!At, WQ!At
<1>2. QED
  BY <1>1, Invariance, PTL

-----------------------------------------------------------------------------
(* robots.txt.                                                             *)

\* What a step does to the robots cache: it adds an answer at most.
RulesKept ==
  \A o \in Origins : robots_by_origin[o] # "unknown" =>
    robots_by_origin'[o] = robots_by_origin[o]

LEMMA StepRules == IInv /\ [Next]_vars => RulesKept
<1> SUFFICES ASSUME IInv, [Next]_vars PROVE RulesKept
  OBVIOUS
<1>1. CASE \E w \in Workers : AskRobots(w)
  <2>1. PICK w \in Workers : AskRobots(w)
    BY <1>1
  <2> DEFINE origin == OriginOf[job[w].url]
  <2>2. \/ robots_by_origin' = robots_by_origin
        \/ /\ robots_by_origin[origin] = "unknown"
           /\ \E answer : robots_by_origin' = [robots_by_origin EXCEPT ![origin] = answer]
    BY <2>1 DEF AskRobots
  <2>3. QED
    BY <2>2 DEF IInv, RecordTypeOK, RulesKept
<1>2. CASE ~\E w \in Workers : AskRobots(w)
  <2>1. robots_by_origin' = robots_by_origin
    BY <1>2 DEF Next, Process, RewritePhase, GetItem, NoItemYet, FinishItem, FollowLink,
       DrainItem, RejectOutOfScope, AcceptInScope, LookUpRobots, PassBudget, StopOverBudget,
       Reuse, Retry, RecordError, RecordStatus, RecordRefused, RecordUnchanged, Store,
       StoreFails, BeginRewrite, Rewrite, RewriteFails, NextDocument, vars
  <2>2. QED
    BY <2>1 DEF RulesKept
<1>3. QED
  BY <1>1, <1>2

\* The rules in force for an origin are never replaced: a worker may keep a
\* reference into the cache after robots_for() has given the lock back.
THEOREM RulesStay == Spec => RobotsStable
BY StepRules, Invariance, PTL DEF Spec, RobotsStable, RulesKept

\* A step of one worker moves no other worker, and no option.
LEMMA OthersUntouched ==
  ASSUME IInv, NEW w \in Workers, GetItem(w) \/ NoItemYet(w) \/ Process(w) \/ FinishItem(w)
  PROVE  /\ opts' = opts
         /\ \A v \in Workers \ {w} : stage'[v] = stage[v] /\ job'[v] = job[v]
<1>1. stage \in [Workers -> Stages] /\ job \in [Workers -> Items \cup {None}]
  BY DEF IInv, WorkerTypeOK, Proved!IInv, Proved!TypeOK
<1>2. opts' = opts
  BY DEF Process, GetItem, NoItemYet, FinishItem, FollowLink, DrainItem, RejectOutOfScope,
         AcceptInScope, LookUpRobots, AskRobots, PassBudget, StopOverBudget, Reuse, Retry,
         RecordError, RecordStatus, RecordRefused, RecordUnchanged, Store, StoreFails, runVars
<1>3. \A v \in Workers \ {w} : job'[v] = job[v]
  <2>1. CASE GetItem(w) \/ NoItemYet(w) \/ FinishItem(w) \/ FollowLink(w) \/ StopOverBudget(w)
    BY <1>1, <2>1 DEF GetItem, NoItemYet, FinishItem, FollowLink, StopOverBudget, WQ!PopItem,
         WQ!PopStopped, WQ!PopLast, WQ!PopWait, WQ!SpuriousWakeup, WQ!FinishItem, WQ!Enqueue,
         WQ!NotifyAll
  <2>2. CASE /\ Process(w)
             /\ ~(FollowLink(w) \/ StopOverBudget(w))
    <3>1. UNCHANGED queueVars
      BY <2>2 DEF Process, DrainItem, RejectOutOfScope, AcceptInScope, LookUpRobots, AskRobots,
           PassBudget, Reuse, Retry, RecordError, RecordStatus, RecordRefused,
           RecordUnchanged, Store, StoreFails
    <3>2. QED
      BY <3>1, SMTT(30) DEF queueVars
  <2>3. QED
    BY <2>1, <2>2
<1>4. (\E s : Goto(w, s)) \/ stage' = stage
  BY DEF Process, GetItem, NoItemYet, FinishItem, FollowLink, DrainItem, RejectOutOfScope,
         AcceptInScope, LookUpRobots, AskRobots, Judge, PassBudget, StopOverBudget, Reuse, Retry,
         RecordError, RecordStatus, RecordRefused, RecordUnchanged, Store, StoreFails, Revisit,
         Return, workerVars
<1>5. \A v \in Workers \ {w} : stage'[v] = stage[v]
  BY <1>1, <1>4 DEF Goto
<1>6. QED
  BY <1>2, <1>3, <1>5

\* The step in which a worker is let through decides by the rules in force.
LEMMA LetThrough ==
  ASSUME IInv, NEW w \in Workers, LookUpRobots(w) \/ AskRobots(w), stage'[w] = "budget",
         job[w].url \in Disallowed
  PROVE  robots_by_origin'[OriginOf[job[w].url]] = "allow_all"
<1> DEFINE origin == OriginOf[job[w].url]
<1>1. stage[w] # "idle" /\ stage \in [Workers -> Stages]
  BY DEF LookUpRobots, AskRobots, IInv, WorkerTypeOK
<1>2. origin \in Origins /\ robots_by_origin \in [Origins -> {"unknown", "rules", "allow_all"}]
  BY <1>1, HeldItem DEF IInv, RecordTypeOK
<1>3. ASSUME NEW rules, Judge(w, rules) PROVE rules # "rules"
  BY <1>1, <1>3 DEF Judge, Return, Goto
<1>4. CASE LookUpRobots(w)
  <2>1. robots_by_origin' = robots_by_origin
    BY <1>4 DEF LookUpRobots
  <2>2. robots_by_origin[origin] # "unknown" /\ Judge(w, robots_by_origin[origin])
    BY <1>1, <1>4 DEF LookUpRobots, Goto
  <2>3. QED
    BY <1>2, <1>3, <2>1, <2>2
<1>5. CASE AskRobots(w)
  <2>1. PICK answer \in RobotsReplies[origin] :
          /\ robots_by_origin' = IF robots_by_origin[origin] = "unknown"
                                 THEN [robots_by_origin EXCEPT ![origin] = answer]
                                 ELSE robots_by_origin
          /\ Judge(w, robots_by_origin'[origin])
    BY <1>5 DEF AskRobots
  <2>2. answer \in {"rules", "allow_all"}
    BY <1>2, <2>1, CrawlerAssumption
  <2>3. robots_by_origin'[origin] \in {"rules", "allow_all"}
    BY <1>2, <2>1, <2>2
  <2>4. QED
    BY <1>3, <2>1, <2>3, SMTT(30)
<1>6. QED
  BY <1>4, <1>5

LEMMA StepRobotsObeyed == IInv /\ RobotsObeyed /\ [Next]_vars => RobotsObeyed'
<1> SUFFICES ASSUME IInv, RobotsObeyed, [Next]_vars,
                    NEW v \in Workers,
                    stage'[v] \in {"budget", "admitted"}, opts'.respect_robots,
                    job'[v].url \in Disallowed
             PROVE  robots_by_origin'[OriginOf[job'[v].url]] = "allow_all"
  BY DEF RobotsObeyed
<1>1. RulesKept
  BY StepRules
<1>2. ASSUME stage[v] \in {"budget", "admitted"}, job'[v] = job[v], opts' = opts
      PROVE  robots_by_origin'[OriginOf[job'[v].url]] = "allow_all"
  <2>1. robots_by_origin[OriginOf[job[v].url]] = "allow_all"
    BY <1>2 DEF RobotsObeyed
  <2>2. OriginOf[job[v].url] \in Origins
    BY <1>2, HeldItem
  <2>3. QED
    BY <1>1, <1>2, <2>1, <2>2 DEF RulesKept
<1>3. ASSUME NEW w \in Workers, GetItem(w) \/ NoItemYet(w) \/ Process(w) \/ FinishItem(w)
      PROVE  robots_by_origin'[OriginOf[job'[v].url]] = "allow_all"
  <2>1. CASE v # w
    BY <1>2, <1>3, <2>1, OthersUntouched
  <2>2. CASE v = w
    <3>1. stage \in [Workers -> Stages] /\ opts' = opts
      BY <1>3, OthersUntouched DEF IInv, WorkerTypeOK
    <3>2. CASE LookUpRobots(w) \/ AskRobots(w)
      <4>1. job' = job /\ stage'[w] = "budget"
        BY <2>2, <3>1, <3>2 DEF LookUpRobots, AskRobots, Judge, Goto, Return, queueVars
      <4>2. QED
        BY <2>2, <3>2, <4>1, LetThrough
    <3>3. CASE NoItemYet(w)
      <4>1. stage' = stage /\ job' = job
        BY <3>3 DEF NoItemYet, workerVars, WQ!PopStopped, WQ!PopLast, WQ!PopWait,
                    WQ!SpuriousWakeup
      <4>2. QED
        BY <1>2, <3>1, <4>1
    <3>4. CASE AcceptInScope(w) \/ PassBudget(w) \/ Retry(w)
      <4>1. stage[v] \in {"budget", "admitted"} /\ job' = job
        BY <2>2, <3>1, <3>4 DEF AcceptInScope, PassBudget, Retry, Fetching, Goto, queueVars
      <4>2. QED
        BY <1>2, <3>1, <4>1
    <3>5. CASE ~(LookUpRobots(w) \/ AskRobots(w) \/ NoItemYet(w) \/ AcceptInScope(w)
                   \/ PassBudget(w) \/ Retry(w))
      <4>1. stage'[w] \in {"begin", "idle", "follow"}
        BY <1>3, <3>1, <3>5 DEF Process, GetItem, FinishItem, FollowLink, DrainItem,
           RejectOutOfScope, StopOverBudget, Reuse, RecordError, RecordStatus, RecordRefused,
           RecordUnchanged, Store, StoreFails, Revisit, Return, Goto
      <4>2. QED
        BY <2>2, <4>1
    <3>6. QED
      BY <3>2, <3>3, <3>4, <3>5
  <2>3. QED
    BY <2>1, <2>2
<1>4. CASE RewritePhase \/ UNCHANGED vars
  <2>1. stage' = stage /\ job' = job /\ opts' = opts
    BY <1>4 DEF RewritePhase, BeginRewrite, Rewrite, RewriteFails, NextDocument,
                vars, queueVars, workerVars, runVars
  <2>2. QED
    BY <1>2, <2>1
<1>5. QED
  BY <1>3, <1>4 DEF Next

\* However many workers ask for the robots.txt of an origin at once, and
\* whatever different answers they get, none of them goes on to download a URL
\* that the answer in the cache disallows.
THEOREM RulesObeyed == Spec => []RobotsObeyed
<1>1. Init => RobotsObeyed
  BY DEF Init, StartRun, RobotsObeyed
<1>2. QED
  BY <1>1, StepRobotsObeyed, Invariance, PTL DEF Spec

-----------------------------------------------------------------------------
(* What becomes of each URL.                                               *)

\* The URLs of which no worker has decided yet, and those that are decided.
HeldUrls == {job[w].url : w \in {v \in Workers : stage[v] \notin {"idle", "follow"}}}
Ahead == Proved!QueuedKeys \cup HeldUrls
Settled == seen \ Ahead

\* The items of the queue, by their URLs.
LEMMA QueuedItems ==
  ASSUME IInv
  PROVE  /\ queue \in Seq(Items) /\ seen \subseteq Urls
         /\ \A i \in DOMAIN queue : queue[i] \in Items /\ UrlOf[queue[i]] = queue[i].url
<1>1. queue \in Seq(Items) /\ seen \subseteq Urls
  BY DEF IInv, Proved!IInv, Proved!TypeOK
<1>2. \A i \in DOMAIN queue : queue[i] \in Items
  BY <1>1, ElementOfSeq, LenProperties
<1>3. QED
  BY <1>1, <1>2 DEF UrlOf

\* A worker that has not decided about its URL is the only one to hold it, and
\* the URL is not queued.
LEMMA HeldAlone ==
  ASSUME IInv, NEW w \in Workers, stage[w] \notin {"idle", "follow"}
  PROVE  /\ job[w].url \in Urls
         /\ job[w].url \in seen
         /\ job[w].url \notin Settled
         /\ job[w].url \notin Proved!QueuedKeys
         /\ \A v \in Workers \ {w} : stage[v] # "idle" => job[v].url # job[w].url
<1>1. \A v \in Workers : stage[v] # "idle" =>
        /\ job[v] \in Items /\ job[v].url \in Urls /\ UrlOf[job[v]] = job[v].url
        /\ v \in Proved!At("busy")
  BY HeldItem DEF UrlOf, IInv, AtWork, Proved!At
<1>2. Proved!NoDuplicateWork
  BY DEF IInv, Proved!IInv
<1>3. \A v \in Workers : stage[v] # "idle" => job[v].url \in Proved!WorkedKeys
  BY <1>1 DEF Proved!WorkedKeys
<1>4. job[w].url \in seen /\ job[w].url \notin Proved!QueuedKeys
  BY <1>2, <1>3 DEF Proved!NoDuplicateWork
<1>5. \A v \in Workers \ {w} : stage[v] # "idle" => job[v].url # job[w].url
  BY <1>1, <1>2 DEF Proved!NoDuplicateWork
<1>6. job[w].url \in HeldUrls
  BY DEF HeldUrls
<1>7. QED
  BY <1>1, <1>4, <1>5, <1>6 DEF Settled, Ahead

LEMMA AheadSeen ==
  ASSUME IInv
  PROVE  Ahead \subseteq seen /\ seen \subseteq Urls
<1>1. Proved!QueuedKeys \subseteq seen /\ seen \subseteq Urls
  BY QueuedItems DEF IInv, Proved!IInv, Proved!NoDuplicateWork
<1>2. HeldUrls \subseteq seen
  BY HeldAlone DEF HeldUrls
<1>3. QED
  BY <1>1, <1>2 DEF Ahead

\* Taking, awaiting and giving back an item, and queueing what was found,
\* decide nothing.
LEMMA QueueingSettles ==
  ASSUME IInv, NEW w \in Workers,
         GetItem(w) \/ NoItemYet(w) \/ FinishItem(w) \/ FollowLink(w)
  PROVE  Settled' = Settled
<1>1. /\ stage \in [Workers -> Stages] /\ job \in [Workers -> Items \cup {None}]
      /\ links \in [Workers -> Seq(Items)] /\ Proved!TypeOK /\ Proved!IInv
  BY DEF IInv, WorkerTypeOK, Proved!IInv, Proved!TypeOK
<1>2. CASE GetItem(w)
  <2> DEFINE k == UrlOf[Head(queue)]
  <2>1. /\ stage[w] = "idle" /\ Proved!PopItem(w) /\ seen' = seen
        /\ stage' = [stage EXCEPT ![w] = "begin"]
        /\ job' = [job EXCEPT ![w] = Head(queue)]
    <3>1. Proved!PopItem(w) /\ where[w] = "popping"
      BY <1>2, SameQueue DEF GetItem, WQ!PopItem
    <3>2. QED
      BY <1>2, <3>1 DEF GetItem, Goto, Proved!PopItem, IInv, AtWork
  <2>2. k \in Proved!QueuedKeys /\ Proved!QueuedKeys' = Proved!QueuedKeys \ {k}
    BY <1>1, <2>1, QueueAssumption, Proved!TakenKeys
  <2>3. Head(queue) \in Items
    BY <1>1, <2>1, HeadTailProperties DEF Proved!PopItem, Proved!TypeOK
  <2>4. job'[w].url = k
    BY <1>1, <2>1, <2>3 DEF UrlOf
  <2>5. HeldUrls' = HeldUrls \cup {k}
    <3>1. \A v \in Workers : stage'[v] \notin {"idle", "follow"} <=> v = w \/ stage[v] \notin {"idle", "follow"}
      BY <1>1, <2>1
    <3>2. \A v \in Workers \ {w} : job'[v] = job[v]
      BY <1>1, <2>1
    <3>3. QED
      BY <2>1, <2>4, <3>1, <3>2 DEF HeldUrls
  <2>6. QED
    BY <2>1, <2>2, <2>5 DEF Settled, Ahead
<1>3. CASE NoItemYet(w)
  <2>1. stage' = stage /\ job' = job /\ queue' = queue /\ seen' = seen
    BY <1>3 DEF NoItemYet, workerVars, WQ!PopStopped, WQ!PopLast, WQ!PopWait, WQ!SpuriousWakeup
  <2>2. QED
    BY <2>1 DEF Settled, Ahead, HeldUrls, Proved!QueuedKeys
<1>4. CASE FinishItem(w)
  <2>1. /\ stage[w] = "follow" /\ stage' = [stage EXCEPT ![w] = "idle"]
        /\ queue' = queue /\ seen' = seen
        /\ \A v \in Workers \ {w} : job'[v] = job[v]
    BY <1>1, <1>4 DEF FinishItem, Goto, WQ!FinishItem
  <2>2. HeldUrls' = HeldUrls
    BY <1>1, <2>1 DEF HeldUrls
  <2>3. QED
    BY <2>1, <2>2 DEF Settled, Ahead, Proved!QueuedKeys
<1>5. CASE FollowLink(w)
  <2> DEFINE item == Head(links[w])
  <2>1. item \in Items
    BY <1>1, <1>5, HeadTailProperties DEF FollowLink
  <2>2. stage' = stage /\ job' = job /\ Proved!Enqueue(w, item)
    BY <1>5, <2>1, SameQueue DEF FollowLink, WQ!Enqueue
  <2>3. HeldUrls' = HeldUrls
    BY <2>2 DEF HeldUrls
  <2>4. CASE UrlOf[item] \in seen
    <3>1. seen' = seen /\ queue' = queue
      BY <2>2, <2>4 DEF Proved!Enqueue
    <3>2. QED
      BY <2>3, <3>1 DEF Settled, Ahead, Proved!QueuedKeys
  <2>5. CASE UrlOf[item] \notin seen
    <3>1. Proved!QueuedKeys' = Proved!QueuedKeys \cup {UrlOf[item]}
      BY <1>1, <2>1, <2>2, <2>5, QueueAssumption, Proved!QueuedByEnqueue
    <3>2. seen' = seen \cup {UrlOf[item]}
      BY <2>2, <2>5 DEF Proved!Enqueue
    <3>3. QED
      BY <2>3, <2>5, <3>1, <3>2, AheadSeen DEF Settled, Ahead
  <2>6. QED
    BY <2>4, <2>5
<1>6. QED
  BY <1>2, <1>3, <1>4, <1>5

\* On the way through process() nothing is decided either; when a worker is
\* about to return, its URL is.
LEMMA ProcessSettles ==
  ASSUME IInv, NEW w \in Workers, NEW s \in Stages \ {"idle"},
         stage[w] \notin {"idle", "follow"}, Goto(w, s), UNCHANGED <<queue, seen, job>>
  PROVE  Settled' = IF s = "follow" THEN Settled \cup {job[w].url} ELSE Settled
<1>1. /\ stage \in [Workers -> Stages] /\ stage' = [stage EXCEPT ![w] = s]
      /\ stage'[w] = s /\ \A v \in Workers \ {w} : stage'[v] = stage[v]
  BY DEF IInv, WorkerTypeOK, Goto
<1>2. Proved!QueuedKeys' = Proved!QueuedKeys
  BY DEF Proved!QueuedKeys
<1>3. HeldUrls' = IF s = "follow" THEN HeldUrls \ {job[w].url} ELSE HeldUrls
  <2>1. CASE s = "follow"
    <3>1. \A v \in Workers : stage'[v] \notin {"idle", "follow"} <=> v # w /\ stage[v] \notin {"idle", "follow"}
      BY <1>1, <2>1
    <3>2. \A v \in Workers \ {w} : stage[v] \notin {"idle", "follow"} => job[v].url # job[w].url
      BY HeldAlone
    <3>3. QED
      BY <2>1, <3>1, <3>2 DEF HeldUrls
  <2>2. CASE s # "follow"
    BY <1>1, <2>2 DEF HeldUrls
  <2>3. QED
    BY <2>1, <2>2
<1>4. job[w].url \notin Proved!QueuedKeys /\ job[w].url \in seen
  BY HeldAlone
<1>5. QED
  BY <1>2, <1>3, <1>4 DEF Settled, Ahead

-----------------------------------------------------------------------------
(* The steps of a run by what becomes of a URL u in them.  What these       *)
(* operators leave out is of no account for the results below.              *)

\* The run was stopped before u was dealt with.
PassedBy(u) ==
  /\ stop_reason' # None
  /\ opts.list_only \/ stats' = stats
  /\ UNCHANGED <<documents, file_count, manifest, diskVars>>

\* u was refused, or it failed.
TurnedDown(u) ==
  /\ \E entry \in Entry :
       /\ entry.state \in {"failed", "skipped"}
       /\ entry.kind = "asset" \/ u \in StageFaults
       /\ \/ entry.path \in PlacesOf(u) \cup {None}
          \/ manifest[u] # None /\ entry.path = manifest[u].path
       /\ manifest' = [manifest EXCEPT ![u] = entry]
       /\ stats' = [stats EXCEPT ![entry.state] = @ + 1]
  /\ UNCHANGED <<documents, file_count>>
  /\ \/ UNCHANGED diskVars
     \/ u \in StageFaults /\ ~opts.dry_run /\ raw' = [raw EXCEPT ![u] = None] /\ disk' = disk
     \/ /\ u \in StageFaults /\ ~opts.dry_run /\ raw' = raw
        /\ \E p \in PlacesOf(u) : disk' = [disk EXCEPT ![p] = None]

\* What is there was taken over.
OldDocument(u) ==
  [url |-> u, base |-> u, path |-> manifest[u].path, kind |-> manifest[u].kind]

TakenOver(u) ==
  /\ Reusable(u) \/ NotModified(u)
  /\ UNCHANGED <<manifest, diskVars>>
  /\ documents' = IF NeedsRewriting(manifest[u].kind) /\ raw[u] # None
                  THEN Append(documents, OldDocument(u))
                  ELSE documents

\* u was downloaded.
NewEntry(u, kind) ==
  [state |-> "done", path |-> PathOf[<<u, kind>>], sha |-> Downloaded(u),
   tag |-> IF u \in Validated THEN site[u] ELSE None, kind |-> kind]
NewDocument(u, kind) ==
  [url |-> u, base |-> FinalOf[u], path |-> PathOf[<<u, kind>>], kind |-> kind]

Downloads(u) ==
  /\ u \notin Outside
  /\ \E kind \in Kinds :
       /\ kind = TypeOf[u] \/ (TypeOf[u] = "other" /\ kind \in {"html", "asset"})
       /\ manifest' = [manifest EXCEPT ![u] = NewEntry(u, kind)]
       /\ IF NeedsRewriting(kind) /\ ~opts.dry_run
          THEN /\ raw' = [raw EXCEPT ![u] = Downloaded(u)]
               /\ documents' = Append(documents, NewDocument(u, kind))
          ELSE UNCHANGED <<raw, documents>>
       /\ disk' = IF NeedsRewriting(kind) \/ opts.dry_run THEN disk
                  ELSE [disk EXCEPT ![PathOf[<<u, kind>>]] = Downloaded(u)]
  /\ stats' = [stats EXCEPT !["downloaded"] = @ + 1]
  /\ file_count' = file_count + 1

Decides(u) ==
  /\ u \in seen /\ u \notin Settled /\ Settled' = Settled \cup {u}
  /\ UNCHANGED <<runVars, seen>>
  /\ PassedBy(u) \/ TurnedDown(u) \/ TakenOver(u) \/ Downloads(u)

\* Nothing is decided.
Quiet ==
  /\ Settled' = Settled
  /\ opts.list_only \/ stats' = stats
  /\ UNCHANGED <<documents, file_count, manifest, diskVars, opts, site>>

\* Phase two follows when the pool is gone.
Over == phase # "crawl" => WQ!At("gone") = Workers

-----------------------------------------------------------------------------

\* The early returns.
LEMMA CheckingDecides ==
  ASSUME IInv, NEW w \in Workers,
         \/ DrainItem(w) \/ RejectOutOfScope(w) \/ AcceptInScope(w)
         \/ LookUpRobots(w) \/ AskRobots(w) \/ PassBudget(w) \/ StopOverBudget(w)
  PROVE  Quiet \/ Decides(job[w].url)
<1> DEFINE u == job[w].url
<1>1. stage[w] \notin {"idle", "follow"}
  BY DEF DrainItem, RejectOutOfScope, AcceptInScope, LookUpRobots, AskRobots, PassBudget,
         StopOverBudget
<1>2. u \in Urls /\ u \in seen /\ u \notin Settled
  BY <1>1, HeldAlone
<1>3. UNCHANGED <<queue, seen, job>>
  BY DEF DrainItem, RejectOutOfScope, AcceptInScope, LookUpRobots, AskRobots, PassBudget,
         StopOverBudget, queueVars, WQ!NotifyAll
<1>4. UNCHANGED <<documents, file_count, diskVars, runVars>>
  BY DEF DrainItem, RejectOutOfScope, AcceptInScope, LookUpRobots, AskRobots, PassBudget,
         StopOverBudget, countVars
<1>5. ASSUME Goto(w, "follow") PROVE Settled' = Settled \cup {u}
  BY <1>1, <1>3, <1>5, ProcessSettles DEF Stages
<1>6. ASSUME NEW s \in Stages \ {"idle", "follow"}, Goto(w, s) PROVE Settled' = Settled
  BY <1>1, <1>3, <1>6, ProcessSettles
<1>7. ASSUME Record(w, Blank("skipped")), Bump("skipped"), Return(w, <<>>) PROVE Decides(u)
  <2>1. Blank("skipped") \in Entry
    BY WrittenTypes DEF IInv
  <2>2. TurnedDown(u)
    BY <1>4, <1>7, <2>1 DEF TurnedDown, Record, Bump, Blank
  <2>3. QED
    BY <1>2, <1>3, <1>4, <1>5, <1>7, <2>2 DEF Decides, Return
<1>8. ASSUME NEW rules, Judge(w, rules) PROVE Quiet \/ Decides(u)
  <2>1. CASE rules = "rules" /\ u \in Disallowed
    BY <1>7, <1>8, <2>1 DEF Judge
  <2>2. CASE ~(rules = "rules" /\ u \in Disallowed)
    <3>1. Goto(w, "budget") /\ stats' = stats /\ manifest' = manifest
      BY <1>8, <2>2 DEF Judge
    <3>2. QED
      BY <1>4, <1>6, <3>1 DEF Quiet, Stages, runVars
  <2>3. QED
    BY <2>1, <2>2
<1>9. CASE DrainItem(w)
  <2>1. PassedBy(u) /\ Goto(w, "follow")
    BY <1>4, <1>9 DEF DrainItem, PassedBy, StopRequested, Return, countVars
  <2>2. QED
    BY <1>2, <1>3, <1>4, <1>5, <2>1 DEF Decides
<1>10. CASE RejectOutOfScope(w)
  BY <1>7, <1>10 DEF RejectOutOfScope
<1>11. CASE AcceptInScope(w)
  <2>1. PICK s \in {"robots", "budget"} : Goto(w, s)
    BY <1>11 DEF AcceptInScope
  <2>2. stats' = stats /\ manifest' = manifest
    BY <1>11 DEF AcceptInScope, countVars
  <2>3. QED
    BY <1>4, <1>6, <2>1, <2>2 DEF Quiet, Stages, runVars
<1>12. CASE LookUpRobots(w)
  <2>1. CASE Goto(w, "askRobots") /\ UNCHANGED <<attempt, links, stats, manifest>>
    BY <1>4, <1>6, <2>1 DEF Quiet, Stages, runVars
  <2>2. CASE \E rules : Judge(w, rules)
    BY <1>8, <2>2
  <2>3. QED
    BY <1>12, <2>1, <2>2 DEF LookUpRobots
<1>13. CASE AskRobots(w)
  BY <1>8, <1>13 DEF AskRobots
<1>14. CASE PassBudget(w)
  <2>1. Goto(w, "admitted") /\ manifest' = manifest /\ (opts.list_only \/ stats' = stats)
    BY <1>14 DEF PassBudget, TallyListed
  <2>2. QED
    BY <1>4, <1>6, <2>1 DEF Quiet, Stages, runVars
<1>15. CASE StopOverBudget(w)
  <2>1. /\ Goto(w, "follow") /\ manifest' = manifest /\ (opts.list_only \/ stats' = stats)
        /\ stop_reason' \in {stop_reason, "max_files", "max_total_size"}
        /\ stop_reason' = None => stop_reason' \in {"max_files", "max_total_size"}
    BY <1>15 DEF StopOverBudget, TallyListed, Return, StopRequested
  <2>2. stop_reason' # None
    BY <1>15, CrawlerAssumption DEF StopOverBudget, StopRequested
  <2>3. QED
    BY <1>2, <1>3, <1>4, <1>5, <2>1, <2>2 DEF Decides, PassedBy
<1>16. QED
  BY <1>9, <1>10, <1>11, <1>12, <1>13, <1>14, <1>15

\* The ways of process() past the budget check.
LEMMA FetchingDecides ==
  ASSUME IInv, NEW w \in Workers,
         \/ Reuse(w) \/ Retry(w) \/ RecordError(w) \/ RecordStatus(w) \/ RecordRefused(w)
         \/ RecordUnchanged(w) \/ Store(w) \/ StoreFails(w)
  PROVE  Quiet \/ Decides(job[w].url)
<1> DEFINE u == job[w].url
<1>1. stage[w] = "admitted"
  BY DEF Reuse, Retry, RecordError, RecordStatus, RecordRefused, RecordUnchanged, Store,
         StoreFails, ReceivesBody, Delivers, Receives, Fetching
<1>2. /\ job[w] \in Items /\ u \in Urls /\ u \in seen /\ u \notin Settled
      /\ manifest \in [Urls -> Entry \cup {None}]
  BY <1>1, HeldAlone, HeldItem DEF IInv, RecordTypeOK
<1>3. UNCHANGED <<queue, seen, job, runVars>>
  BY DEF Reuse, Retry, RecordError, RecordStatus, RecordRefused, RecordUnchanged, Store,
         StoreFails, queueVars
<1>4. ASSUME Goto(w, "follow") PROVE Settled' = Settled \cup {u}
  BY <1>1, <1>3, <1>4, ProcessSettles DEF Stages
<1>5. ASSUME Goto(w, "follow"), TurnedDown(u) \/ TakenOver(u) \/ Downloads(u) PROVE Decides(u)
  BY <1>2, <1>3, <1>4, <1>5 DEF Decides
<1>6. CASE Retry(w)
  <2>1. stage' = stage
    BY <1>6 DEF Retry
  <2>2. Settled' = Settled
    BY <1>3, <2>1 DEF Settled, Ahead, HeldUrls, Proved!QueuedKeys
  <2>3. QED
    BY <1>3, <1>6, <2>2 DEF Retry, Quiet, countVars, diskVars, runVars
<1>7. CASE Reuse(w) \/ RecordUnchanged(w)
  <2>1. (Reusable(u) \/ NotModified(u)) /\ UNCHANGED <<manifest, diskVars>> /\ Revisit(w)
    BY <1>7 DEF Reuse, RecordUnchanged
  <2>2. Goto(w, "follow") /\ TakenOver(u)
    BY <2>1 DEF Revisit, Return, TakenOver, OldDocument
  <2>3. QED
    BY <1>5, <2>2
<1>8. CASE RecordError(w)
  <2> DEFINE old == manifest[u]
             path == IF old = None THEN None ELSE old.path
             entry == [state |-> "failed", path |-> path, sha |-> None, tag |-> None,
                       kind |-> "asset"]
  <2>1. /\ Record(w, entry) /\ Bump("failed") /\ Goto(w, "follow")
        /\ UNCHANGED <<documents, file_count, diskVars>>
    <3>1. [Blank("failed") EXCEPT !.path = path] = entry
      BY DEF Blank
    <3> HIDE DEF entry
    <3>2. QED
      BY <1>8, <3>1 DEF RecordError, Return
  <2>2. path \in Paths \cup {None} /\ (path = None \/ (old # None /\ path = old.path))
    <3>1. old = None \/ old \in Entry
      BY <1>2
    <3>2. old # None => old.path \in Paths \cup {None}
      BY <3>1 DEF Entry
    <3> HIDE DEF old
    <3>3. QED
      BY <3>2
  <2> HIDE DEF path
  <2>5. entry \in Entry /\ entry.state = "failed" /\ entry.kind = "asset"
        /\ (entry.path = None \/ (old # None /\ entry.path = old.path))
    BY <2>2 DEF Entry, Kinds
  <2> HIDE DEF entry
  <2>6. TurnedDown(u)
    BY <2>1, <2>5 DEF TurnedDown, Record, Bump
  <2>7. QED
    BY <1>5, <2>1, <2>6
<1>9. CASE RecordStatus(w) \/ RecordRefused(w)
  <2>1. PICK state \in {"failed", "skipped"} :
          /\ Record(w, Blank(state)) /\ Bump(state)
          /\ Goto(w, "follow") /\ UNCHANGED <<documents, file_count, diskVars>>
    BY <1>9 DEF RecordStatus, RecordRefused, Return
  <2>2. /\ Blank(state) \in Entry /\ Blank(state).state = state
        /\ Blank(state).path = None /\ Blank(state).kind = "asset"
    BY WrittenTypes DEF IInv, Blank
  <2>3. TurnedDown(u)
    BY <2>1, <2>2 DEF TurnedDown, Record, Bump
  <2>4. QED
    BY <1>5, <2>1, <2>3
<1>10. CASE StoreFails(w)
  <2> DEFINE entry == EntryFor(job[w], "failed")
  <2>1. entry \in Entry /\ entry.state = "failed" /\ entry.path = PathOf[<<u, KindOf(job[w])>>]
        /\ KindOf(job[w]) \in Kinds
    BY <1>2, WrittenTypes DEF IInv, EntryFor
  <2>2. /\ Record(w, entry) /\ Bump("failed") /\ Goto(w, "follow")
        /\ UNCHANGED <<documents, file_count>>
        /\ u \in StageFaults /\ ~opts.dry_run /\ u \notin Outside
        /\ \/ UNCHANGED diskVars
           \/ raw' = [raw EXCEPT ![u] = None] /\ disk' = disk
           \/ disk' = [disk EXCEPT ![entry.path] = None] /\ raw' = raw
    BY <1>10 DEF StoreFails, ReceivesBody, Unwanted, Return
  <2>3. entry.path \in PlacesOf(u)
    BY <2>1, <2>2 DEF PlacesOf
  <2> HIDE DEF entry
  <2>4. TurnedDown(u)
    BY <2>1, <2>2, <2>3 DEF TurnedDown, Record, Bump
  <2>5. QED
    BY <1>5, <2>2, <2>4
<1>11. CASE Store(w)
  <2> DEFINE kind == KindOf(job[w])
  <2>1. kind \in Kinds /\ (kind = TypeOf[u] \/ (TypeOf[u] = "other" /\ kind \in {"html", "asset"}))
    BY <1>2, WrittenTypes DEF IInv, KindOf
  <2>2. Goto(w, "follow") /\ u \notin Outside
    BY <1>11 DEF Store, ReceivesBody, Unwanted, Return
  <2>3. /\ Record(w, EntryFor(job[w], "done"))
        /\ IF NeedsRewriting(kind) /\ ~opts.dry_run
           THEN /\ raw' = [raw EXCEPT ![u] = Downloaded(u)]
                /\ documents' = Append(documents, NewDocument(u, kind))
           ELSE UNCHANGED <<raw, documents>>
        /\ disk' = IF NeedsRewriting(kind) \/ opts.dry_run THEN disk
                   ELSE [disk EXCEPT ![PathOf[<<u, kind>>]] = Downloaded(u)]
        /\ Bump("downloaded") /\ file_count' = file_count + 1
    BY <1>11 DEF Store, EntryFor, CountFile, NewDocument
  <2>4. EntryFor(job[w], "done") = NewEntry(u, kind)
    BY DEF EntryFor, NewEntry
  <2> HIDE DEF kind
  <2>5. Downloads(u)
    BY <2>1, <2>2, <2>3, <2>4 DEF Downloads, Record, Bump
  <2>6. QED
    BY <1>5, <2>2, <2>5
<1>12. QED
  BY <1>6, <1>7, <1>8, <1>9, <1>10, <1>11

\* Phase two decides nothing any more.
LEMMA RewritingSettles ==
  ASSUME NextDocument
  PROVE  /\ Settled' = Settled
         /\ UNCHANGED <<seen, stats, file_count, stop_reason, raw, opts, site>>
BY DEF NextDocument, queueVars, workerVars, countVars, Settled, Ahead, HeldUrls,
       Proved!QueuedKeys

\* Every step decides about one URL, or nothing, or is one of phase two.
LEMMA StepKinds ==
  ASSUME IInv, [Next]_vars
  PROVE  Quiet \/ (\E u \in Urls : Decides(u)) \/ Rewrite \/ RewriteFails
<1>1. ASSUME NEW w \in Workers,
             GetItem(w) \/ NoItemYet(w) \/ FinishItem(w) \/ FollowLink(w)
      PROVE  Quiet
  <2>1. UNCHANGED <<documents, countVars, manifest, diskVars, runVars>>
    BY <1>1 DEF GetItem, NoItemYet, FinishItem, FollowLink
  <2>2. QED
    BY <1>1, <2>1, QueueingSettles DEF Quiet, countVars, runVars
<1>2. ASSUME NEW w \in Workers, Process(w), ~FollowLink(w)
      PROVE  Quiet \/ \E u \in Urls : Decides(u)
  <2>1. Quiet \/ Decides(job[w].url)
    BY <1>2, CheckingDecides, FetchingDecides DEF Process
  <2>2. Decides(job[w].url) => job[w].url \in Urls
    BY AheadSeen DEF Decides
  <2>3. QED
    BY <2>1, <2>2
<1>3. CASE BeginRewrite
  BY <1>3 DEF BeginRewrite, Quiet, queueVars, workerVars, countVars, Settled, Ahead, HeldUrls,
              Proved!QueuedKeys
<1>4. CASE UNCHANGED vars
  BY <1>4 DEF vars, Quiet, queueVars, workerVars, countVars, diskVars, runVars, Settled, Ahead,
              HeldUrls, Proved!QueuedKeys
<1>5. QED
  BY <1>1, <1>2, <1>3, <1>4 DEF Next, RewritePhase, Process

\* A run that was stopped stays so.
LEMMA StopStays ==
  ASSUME [Next]_vars, StopRequested
  PROVE  StopRequested'
<1>1. \/ stop_reason' = stop_reason
      \/ \E w \in Workers : StopOverBudget(w)
  BY DEF Next, Process, RewritePhase, GetItem, NoItemYet, FinishItem, FollowLink, DrainItem,
     RejectOutOfScope, AcceptInScope, LookUpRobots, AskRobots, PassBudget, Reuse, Retry,
     RecordError, RecordStatus, RecordRefused, RecordUnchanged, Store, StoreFails, BeginRewrite,
     Rewrite, RewriteFails, NextDocument, vars, countVars
<1>2. QED
  BY <1>1, SMTT(30) DEF StopOverBudget, StopRequested

-----------------------------------------------------------------------------
(* From phase one to phase two.                                            *)

\* When the pool is gone nobody holds a URL any more, and all have been decided.
LEMMA AllSettled ==
  ASSUME IInv, WQ!At("gone") = Workers
  PROVE  Settled = seen /\ \A w \in Workers : stage[w] = "idle"
<1>1. Workers # {} /\ Proved!At("gone") = Workers
  BY CrawlerAssumption DEF WQ!At, Proved!At
<1>2. queue = <<>>
  BY <1>1 DEF IInv, Proved!IInv, Proved!StopsOnlyWhenDone
<1>3. \A w \in Workers : stage[w] = "idle"
  BY <1>1 DEF IInv, AtWork, Proved!At
<1>4. Ahead = {}
  BY <1>2, <1>3 DEF Ahead, HeldUrls, Proved!QueuedKeys
<1>5. QED
  BY <1>3, <1>4 DEF Settled

\* From then on there are only the steps of phase two.
LEMMA PhaseTwo ==
  ASSUME IInv, Over, phase # "crawl", [Next]_vars
  PROVE  Rewrite \/ RewriteFails \/ UNCHANGED vars
<1>1. \A w \in Workers : stage[w] = "idle" /\ where[w] = "gone"
  BY AllSettled DEF Over, WQ!At
<1>2. ASSUME NEW w \in Workers PROVE ~(GetItem(w) \/ NoItemYet(w) \/ FinishItem(w))
  BY <1>1, <1>2 DEF GetItem, NoItemYet, FinishItem, WQ!PopItem, WQ!PopStopped, WQ!PopLast,
                    WQ!PopWait, WQ!SpuriousWakeup
<1>3. ASSUME NEW w \in Workers PROVE ~Process(w)
  BY <1>1 DEF Process, FollowLink, DrainItem, RejectOutOfScope, AcceptInScope, LookUpRobots,
     AskRobots, PassBudget, StopOverBudget, Reuse, Retry, RecordError, RecordStatus,
     RecordRefused, RecordUnchanged, Store, StoreFails, ReceivesBody, Delivers, Receives, Fetching
<1>4. ~BeginRewrite
  BY DEF BeginRewrite
<1>5. QED
  BY <1>2, <1>3, <1>4 DEF Next, RewritePhase

LEMMA StepOver == IInv /\ Over /\ [Next]_vars => Over'
<1> SUFFICES ASSUME IInv, Over, [Next]_vars PROVE Over'
  OBVIOUS
<1>1. CASE phase # "crawl"
  <2>1. where' = where
    BY <1>1, PhaseTwo DEF Rewrite, RewriteFails, NextDocument, vars, queueVars
  <2>2. QED
    BY <1>1, <2>1 DEF Over, WQ!At
<1>2. CASE phase = "crawl"
  <2>1. CASE BeginRewrite
    BY <2>1 DEF BeginRewrite, Over, queueVars, WQ!At
  <2>2. CASE ~BeginRewrite
    <3>1. phase' = phase
      BY <1>2, <2>2 DEF Next, Process, RewritePhase, GetItem, NoItemYet, FinishItem, FollowLink,
         DrainItem, RejectOutOfScope, AcceptInScope, LookUpRobots, AskRobots, PassBudget,
         StopOverBudget, Reuse, Retry, RecordError, RecordStatus, RecordRefused,
         RecordUnchanged, Store, StoreFails, Rewrite, RewriteFails, NextDocument, vars, runVars
    <3>2. QED
      BY <1>2, <3>1, SMTT(30) DEF Over
  <2>3. QED
    BY <2>1, <2>2
<1>3. QED
  BY <1>1, <1>2

\* What rewriting a document does: its file and its checksum become the
\* rewritten content, and all else of the manifest stays.
LEMMA RewriteEffect ==
  ASSUME IInv, Rewrite
  PROVE  LET document == Head(documents)  new == Rewritten(document) IN
         /\ document \in Document /\ document.url \in Urls /\ new \in Body
         /\ raw[document.url] # None /\ document.url \notin Outside
         /\ disk' = [disk EXCEPT ![document.path] = new]
         /\ \A v \in Urls :
              /\ manifest[v] = None => manifest'[v] = None
              /\ manifest[v] # None =>
                   /\ manifest'[v] # None
                   /\ manifest'[v].state = manifest[v].state
                   /\ manifest'[v].path = manifest[v].path
                   /\ manifest'[v].tag = manifest[v].tag
                   /\ manifest'[v].kind = manifest[v].kind
                   /\ manifest'[v].sha = IF v = document.url THEN new ELSE manifest[v].sha
<1> DEFINE document == Head(documents)
           u == document.url
           new == Rewritten(document)
<1>1. NextDocument /\ raw[u] # None /\ u \notin Outside /\ disk' = [disk EXCEPT ![document.path] = new]
  BY DEF Rewrite
<1>2. document \in Document /\ u \in Urls /\ new \in Body
  BY <1>1, NextDocumentTypes, RewrittenType DEF IInv, Document
<1>3. manifest' = IF manifest[u] = None THEN manifest ELSE [manifest EXCEPT ![u].sha = new]
  BY DEF Rewrite
<1>4. manifest \in [Urls -> Entry \cup {None}]
  BY DEF IInv, RecordTypeOK
<1> HIDE DEF new, document
<1>5. ASSUME NEW v \in Urls
      PROVE  /\ manifest[v] = None => manifest'[v] = None
             /\ manifest[v] # None =>
                   /\ manifest'[v] # None
                   /\ manifest'[v].state = manifest[v].state
                   /\ manifest'[v].path = manifest[v].path
                   /\ manifest'[v].tag = manifest[v].tag
                   /\ manifest'[v].kind = manifest[v].kind
                   /\ manifest'[v].sha = IF v = u THEN new ELSE manifest[v].sha
  <2>1. CASE manifest[u] = None \/ v # u
    BY <1>2, <1>3, <1>4, <2>1
  <2>2. CASE manifest[u] # None /\ v = u
    <3> DEFINE old == manifest[u]
    <3>1. old \in Entry
      BY <1>2, <1>4, <2>2
    <3>2. manifest'[u] = [old EXCEPT !.sha = new]
      BY <1>2, <1>3, <1>4, <2>2
    <3> HIDE DEF old
    <3>3. [old EXCEPT !.sha = new] \in Entry
      BY <1>2, <3>1 DEF Entry
    <3>4. [old EXCEPT !.sha = new] # None
      BY <3>3, CrawlerAssumption
    <3>5. /\ [old EXCEPT !.sha = new].state = old.state
          /\ [old EXCEPT !.sha = new].path = old.path
          /\ [old EXCEPT !.sha = new].tag = old.tag
          /\ [old EXCEPT !.sha = new].kind = old.kind
          /\ [old EXCEPT !.sha = new].sha = new
      BY <3>1 DEF Entry
    <3>6. QED
      BY <2>2, <3>2, <3>4, <3>5 DEF old
  <2>3. QED
    BY <2>1, <2>2
<1>6. QED
  BY <1>1, <1>2, <1>5 DEF new, document

\* What is new of a URL that was downloaded.
LEMMA NewTypes ==
  ASSUME RunTypeOK, NEW u \in Urls, NEW kind \in Kinds
  PROVE  /\ NewEntry(u, kind) \in Entry
         /\ NewDocument(u, kind) \in Document
         /\ PathOf[<<u, kind>>] \in Paths
         /\ Downloaded(u) \in Body
<1>1. Downloaded(u) \in Body /\ site[u] \in Versions
  BY WrittenTypes DEF RunTypeOK
<1>2. PathOf[<<u, kind>>] \in Paths /\ FinalOf[u] \in Urls
  BY CrawlerAssumption
<1>3. QED
  BY <1>1, <1>2 DEF NewEntry, NewDocument, Entry, Document

\* What is recorded of a URL is never forgotten, and deciding about a URL
\* without stopping records something of it, and of no other.
LEMMA DecisionRecorded ==
  ASSUME IInv, NEW u \in Urls, Decides(u)
  PROVE  /\ \A v \in Urls \ {u} : manifest'[v] = manifest[v]
         /\ StopRequested' \/ manifest'[u] # None
         /\ manifest[u] # None => manifest'[u] # None
<1>1. manifest \in [Urls -> Entry \cup {None}]
  BY DEF IInv, RecordTypeOK
<1>2. CASE PassedBy(u)
  BY <1>2 DEF PassedBy, StopRequested
<1>3. CASE TurnedDown(u)
  <2>1. PICK entry \in Entry : manifest' = [manifest EXCEPT ![u] = entry]
    BY <1>3 DEF TurnedDown
  <2>2. QED
    BY <1>1, <2>1, CrawlerAssumption
<1>4. CASE TakenOver(u)
  BY <1>4 DEF TakenOver, Reusable, NotModified
<1>5. CASE Downloads(u)
  <2>1. PICK kind \in Kinds : manifest' = [manifest EXCEPT ![u] = NewEntry(u, kind)]
    BY <1>5 DEF Downloads
  <2>2. NewEntry(u, kind) # None
    <3>1. NewEntry(u, kind) \in Entry
      BY NewTypes DEF IInv
    <3>2. QED
      BY <3>1, CrawlerAssumption
  <2>3. QED
    BY <1>1, <2>1, <2>2
<1>6. QED
  BY <1>2, <1>3, <1>4, <1>5 DEF Decides

\* Unless the run was stopped, what is decided is recorded.
Accounted == StopRequested \/ \A u \in Settled : manifest[u] # None

LEMMA StepAccounted == IInv /\ Accounted /\ [Next]_vars => Accounted'
<1> SUFFICES ASSUME IInv, Accounted, [Next]_vars, ~StopRequested'
             PROVE  \A v \in Settled' : manifest'[v] # None
  BY DEF Accounted
<1>1. \A v \in Settled : v \in Urls /\ manifest[v] # None
  BY StopStays, AheadSeen DEF Accounted, Settled
<1>2. CASE Quiet
  BY <1>1, <1>2 DEF Quiet
<1>3. ASSUME NEW u \in Urls, Decides(u) PROVE \A v \in Settled' : manifest'[v] # None
  <2>1. Settled' = Settled \cup {u}
    BY <1>3 DEF Decides
  <2>2. QED
    BY <1>1, <1>3, <2>1, DecisionRecorded
<1>4. CASE Rewrite
  BY <1>1, <1>4, RewriteEffect, RewritingSettles DEF Rewrite
<1>5. CASE RewriteFails
  BY <1>1, <1>5, RewritingSettles DEF RewriteFails
<1>6. QED
  BY <1>2, <1>3, <1>4, <1>5, StepKinds

\* However many ways process() has to return, none of them loses a URL: when a
\* run ends that no budget has stopped, each URL it has ever queued has an entry.
THEOREM NoneForgotten == Spec => []NothingForgotten
<1>1. Init => Over /\ Accounted
  <2> SUFFICES ASSUME Init PROVE Over /\ Accounted
    OBVIOUS
  <2>1. queue = <<StartItem>> /\ seen = {UrlOf[StartItem]} /\ phase = "crawl"
    BY DEF Init, StartRun, WQ!Init
  <2>2. 1 \in DOMAIN queue /\ queue[1] = StartItem
    BY <2>1
  <2>3. UrlOf[StartItem] \in Proved!QueuedKeys
    BY <2>2 DEF Proved!QueuedKeys
  <2>4. Settled = {}
    BY <2>1, <2>3 DEF Settled, Ahead
  <2>5. QED
    BY <2>1, <2>4 DEF Over, Accounted
<1>2. IInv /\ Over /\ Accounted => NothingForgotten
  BY AllSettled DEF Over, Accounted, NothingForgotten
<1>3. QED
  BY <1>1, <1>2, StepOver, StepAccounted, Invariance, PTL DEF Spec

-----------------------------------------------------------------------------
(* The statistics.                                                         *)

EntriesIn(state) == {u \in Urls : manifest[u] # None /\ manifest[u].state = state}

\* What a fresh run counts is what it has recorded: it records something of a
\* URL only by deciding about it, and decides only once.
Tallied ==
  ~opts.list_only /\ ~Continues =>
    /\ \A u \in Urls : manifest[u] # None => u \in Settled
    /\ \A state \in {"done", "failed", "skipped"} : IsFiniteSet(EntriesIn(state))
    /\ stats["downloaded"] = Cardinality(EntriesIn("done"))
    /\ file_count = Cardinality(EntriesIn("done"))
    /\ stats["failed"] = Cardinality(EntriesIn("failed"))
    /\ stats["skipped"] = Cardinality(EntriesIn("skipped"))

\* An entry that is new is one more of its state.
LEMMA OneMoreEntry ==
  ASSUME manifest \in [Urls -> Entry \cup {None}], NEW u \in Urls, manifest[u] = None,
         NEW entry \in Entry, manifest' = [manifest EXCEPT ![u] = entry],
         NEW state, IsFiniteSet(EntriesIn(state))
  PROVE  /\ IsFiniteSet(EntriesIn(state)')
         /\ Cardinality(EntriesIn(state)) \in Nat
         /\ Cardinality(EntriesIn(state)') =
              Cardinality(EntriesIn(state)) + IF entry.state = state THEN 1 ELSE 0
<1>1. entry # None
  BY CrawlerAssumption
<1>2. EntriesIn(state)' =
        IF entry.state = state THEN EntriesIn(state) \cup {u} ELSE EntriesIn(state)
  BY <1>1 DEF EntriesIn
<1>3. u \notin EntriesIn(state)
  BY DEF EntriesIn
<1>4. Cardinality(EntriesIn(state)) \in Nat
  BY FS_CardinalityType
<1>5. CASE entry.state = state
  <2>1. /\ IsFiniteSet(EntriesIn(state) \cup {u})
        /\ Cardinality(EntriesIn(state) \cup {u}) = Cardinality(EntriesIn(state)) + 1
    BY <1>3, FS_AddElement
  <2>2. QED
    BY <1>2, <1>4, <1>5, <2>1
<1>6. CASE entry.state # state
  BY <1>2, <1>4, <1>6
<1>7. QED
  BY <1>5, <1>6

LEMMA StepTallied == IInv /\ Tallied /\ [Next]_vars => Tallied'
<1> SUFFICES ASSUME IInv, Tallied, [Next]_vars, ~opts'.list_only, ~Continues'
             PROVE  Tallied'
  BY DEF Tallied
<1> DEFINE States == {"done", "failed", "skipped"}
<1>1. opts' = opts
  BY StepKinds, RewritingSettles DEF Quiet, Decides, Rewrite, RewriteFails, runVars
<1>2. /\ \A v \in Urls : manifest[v] # None => v \in Settled
      /\ \A state \in States : IsFiniteSet(EntriesIn(state))
      /\ stats["downloaded"] = Cardinality(EntriesIn("done"))
      /\ file_count = Cardinality(EntriesIn("done"))
      /\ stats["failed"] = Cardinality(EntriesIn("failed"))
      /\ stats["skipped"] = Cardinality(EntriesIn("skipped"))
      /\ ~opts.list_only /\ ~Continues
  BY <1>1 DEF Tallied, Continues
<1>3. manifest \in [Urls -> Entry \cup {None}] /\ stats \in [Tallies -> Nat]
  BY DEF IInv, RecordTypeOK, CountTypeOK
<1>4. ASSUME UNCHANGED <<stats, file_count>>,
             \A v \in Urls : /\ manifest[v] = None => manifest'[v] = None
                             /\ manifest[v] # None => manifest'[v] # None
                                  /\ manifest'[v].state = manifest[v].state,
             Settled \subseteq Settled'
      PROVE  Tallied'
  <2>1. \A state \in States : EntriesIn(state)' = EntriesIn(state)
    BY <1>4 DEF EntriesIn
  <2>2. QED
    BY <1>2, <1>4, <2>1 DEF Tallied
<1>5. CASE Quiet
  BY <1>1, <1>2, <1>4, <1>5 DEF Quiet
<1>6. CASE Rewrite
  BY <1>4, <1>6, RewriteEffect, RewritingSettles DEF Rewrite
<1>7. CASE RewriteFails
  BY <1>4, <1>7, RewritingSettles DEF RewriteFails
<1>8. ASSUME NEW u \in Urls, Decides(u) PROVE Tallied'
  <2>1. Settled' = Settled \cup {u} /\ u \notin Settled /\ manifest[u] = None
    BY <1>2, <1>8 DEF Decides
  <2>2. ASSUME NEW entry \in Entry, NEW tally \in Tallies, entry.state \in States,
               manifest' = [manifest EXCEPT ![u] = entry],
               stats' = [stats EXCEPT ![tally] = @ + 1],
               file_count' = IF tally = "downloaded" THEN file_count + 1 ELSE file_count,
               tally = IF entry.state = "done" THEN "downloaded" ELSE entry.state
        PROVE  Tallied'
    <3>1. \A state \in States :
            /\ IsFiniteSet(EntriesIn(state)')
            /\ Cardinality(EntriesIn(state)) \in Nat
            /\ Cardinality(EntriesIn(state)') =
                 Cardinality(EntriesIn(state)) + IF entry.state = state THEN 1 ELSE 0
      BY <1>2, <1>3, <2>1, <2>2, OneMoreEntry
    <3>2. /\ stats'["downloaded"] = stats["downloaded"] + IF tally = "downloaded" THEN 1 ELSE 0
          /\ stats'["failed"] = stats["failed"] + IF tally = "failed" THEN 1 ELSE 0
          /\ stats'["skipped"] = stats["skipped"] + IF tally = "skipped" THEN 1 ELSE 0
      BY <1>3, <2>2 DEF Tallies
    <3>3. \A v \in Urls : manifest'[v] # None => v \in Settled'
      BY <1>2, <1>3, <2>1, <2>2
    <3>4. /\ stats'["downloaded"] = Cardinality(EntriesIn("done")')
          /\ file_count' = Cardinality(EntriesIn("done")')
          /\ stats'["failed"] = Cardinality(EntriesIn("failed")')
          /\ stats'["skipped"] = Cardinality(EntriesIn("skipped")')
      BY <1>2, <2>2, <3>1, <3>2
    <3>5. QED
      BY <3>1, <3>3, <3>4 DEF Tallied
  <2>3. CASE PassedBy(u)
    BY <1>2, <1>4, <2>1, <2>3 DEF PassedBy
  <2>4. CASE TurnedDown(u)
    <3>1. PICK entry \in Entry :
            /\ entry.state \in {"failed", "skipped"}
            /\ manifest' = [manifest EXCEPT ![u] = entry]
            /\ stats' = [stats EXCEPT ![entry.state] = @ + 1]
            /\ file_count' = file_count
      BY <2>4 DEF TurnedDown
    <3>2. QED
      BY <2>2, <3>1 DEF Tallies
  <2>5. CASE TakenOver(u)
    BY <2>1, <2>5 DEF TakenOver, Reusable, NotModified
  <2>6. CASE Downloads(u)
    <3>1. PICK kind \in Kinds : manifest' = [manifest EXCEPT ![u] = NewEntry(u, kind)]
      BY <2>6 DEF Downloads
    <3>2. NewEntry(u, kind) \in Entry /\ NewEntry(u, kind).state = "done"
      BY NewTypes DEF IInv, NewEntry
    <3>3. QED
      BY <2>2, <2>6, <3>1, <3>2 DEF Downloads, Tallies
  <2>7. QED
    BY <1>8, <2>3, <2>4, <2>5, <2>6 DEF Decides
<1>9. QED
  BY <1>5, <1>6, <1>7, <1>8, StepKinds

\* The statistics of a fresh run, and with them its exit code, agree with the
\* manifest at every moment, however the workers interleave.
THEOREM TalliesAgree == Spec => []TalliesMatchManifest
<1>1. Init => Tallied
  <2> SUFFICES ASSUME Init, ~Continues PROVE Tallied
    BY DEF Tallied
  <2>1. \A u \in Urls : manifest[u] = None
    BY DEF Init, Nothing
  <2>2. \A state \in {"done", "failed", "skipped"} : EntriesIn(state) = {}
    BY <2>1 DEF EntriesIn
  <2>3. stats = [t \in Tallies |-> 0] /\ file_count = 0
    BY DEF Init, StartRun
  <2>4. QED
    BY <2>1, <2>2, <2>3, FS_EmptySet DEF Tallied, Tallies
<1>2. Tallied => TalliesMatchManifest
  BY DEF Tallied, TalliesMatchManifest, Count, EntriesIn
<1>3. QED
  BY <1>1, <1>2, StepTallied, Invariance, PTL DEF Spec

-----------------------------------------------------------------------------
(* Files, entries, and the documents that wait to be rewritten.            *)

\* The documents, as a set.
Waiting == {documents[i] : i \in DOMAIN documents}
Waits(u) == \E document \in Waiting : document.url = u

\* Each URL is rewritten once, after it was decided, and to where its entry
\* says that it is.
OneDocumentEach ==
  \A i, j \in DOMAIN documents : documents[i].url = documents[j].url => i = j

DocumentsFiled ==
  \A document \in Waiting :
    /\ document.url \in Settled
    /\ manifest[document.url] # None
    /\ document.path = manifest[document.url].path
    /\ NeedsRewriting(manifest[document.url].kind)

\* The staged copy of each of them is there.
Staged == \A document \in Waiting : raw[document.url] # None

\* Staged copies are as they were downloaded.
StagedPlain == \A u \in Urls : raw[u] # None => raw[u].local = {}

\* Dry runs end with phase one, the others with the last document.
PhasesEnd ==
  /\ phase = "rewrite" => ~opts.dry_run
  /\ phase = "done" /\ ~opts.dry_run => documents = <<>>

Filed == OneDocumentEach /\ DocumentsFiled /\ Located(manifest) /\ Over /\ PhasesEnd

-----------------------------------------------------------------------------

LEMMA DocumentsAppend ==
  ASSUME documents \in Seq(Document), NEW document \in Document,
         documents' = Append(documents, document)
  PROVE  /\ Waiting' = Waiting \cup {document}
         /\ OneDocumentEach /\ ~Waits(document.url) => OneDocumentEach'
<1>1. /\ Len(documents) \in Nat
      /\ DOMAIN documents = 1 .. Len(documents) /\ DOMAIN documents' = 1 .. Len(documents) + 1
      /\ \A i \in DOMAIN documents : documents'[i] = documents[i]
      /\ documents'[Len(documents) + 1] = document
  BY AppendProperties, LenProperties
<1>2. Waiting' = Waiting \cup {document}
  BY <1>1 DEF Waiting
<1>3. ASSUME OneDocumentEach, ~Waits(document.url) PROVE OneDocumentEach'
  BY <1>1, <1>3 DEF OneDocumentEach, Waits, Waiting
<1>4. QED
  BY <1>2, <1>3

LEMMA DocumentsTail ==
  ASSUME documents \in Seq(Document), documents # <<>>, OneDocumentEach,
         documents' = Tail(documents)
  PROVE  /\ Head(documents) \in Waiting
         /\ Waiting' = Waiting \ {Head(documents)}
         /\ \A document \in Waiting' : document.url # Head(documents).url
         /\ OneDocumentEach'
<1>1. /\ Len(documents) \in Nat \ {0} /\ DOMAIN documents = 1 .. Len(documents)
      /\ DOMAIN documents' = 1 .. Len(documents) - 1
      /\ \A i \in 1 .. Len(documents) - 1 : documents'[i] = documents[i + 1]
      /\ Head(documents) = documents[1]
  BY HeadTailProperties, EmptySeq, LenProperties
<1>2. Head(documents) \in Waiting
  BY <1>1 DEF Waiting
<1>3. \A document \in Waiting' : document \in Waiting /\ document.url # Head(documents).url
  <2>1. ASSUME NEW i \in DOMAIN documents'
        PROVE  documents'[i] \in Waiting /\ documents'[i].url # Head(documents).url
    <3>1. i + 1 \in DOMAIN documents /\ 1 \in DOMAIN documents /\ i + 1 # 1
          /\ documents'[i] = documents[i + 1]
      BY <1>1
    <3>2. QED
      BY <1>1, <3>1 DEF OneDocumentEach, Waiting
  <2>2. QED
    BY <2>1 DEF Waiting
<1>4. ASSUME NEW document \in Waiting, document # Head(documents) PROVE document \in Waiting'
  <2>1. PICK i \in DOMAIN documents : document = documents[i]
    BY DEF Waiting
  <2>2. i - 1 \in DOMAIN documents' /\ documents'[i - 1] = documents[(i - 1) + 1] /\ (i - 1) + 1 = i
    BY <1>1, <1>4, <2>1
  <2>3. QED
    BY <2>1, <2>2 DEF Waiting
<1>5. OneDocumentEach'
  <2>1. ASSUME NEW i \in DOMAIN documents', NEW j \in DOMAIN documents',
               documents'[i].url = documents'[j].url
        PROVE  i = j
    <3>1. i + 1 \in DOMAIN documents /\ j + 1 \in DOMAIN documents
          /\ documents[i + 1].url = documents[j + 1].url
      BY <1>1, <2>1
    <3>2. i + 1 = j + 1
      BY <3>1 DEF OneDocumentEach
    <3>3. QED
      BY <1>1, <3>2
  <2>2. QED
    BY <2>1 DEF OneDocumentEach
<1>6. QED
  BY <1>2, <1>3, <1>4, <1>5

\* The documents that a decision leaves: one more at most, that of the URL
\* itself, whose entry is then there and names the same file.
LEMMA DecisionDocuments ==
  ASSUME IInv, NEW u \in Urls, Decides(u)
  PROVE  \/ documents' = documents /\ ~Downloads(u)
         \/ documents' = documents /\ \E kind \in Kinds :
               /\ ~NeedsRewriting(kind) \/ opts.dry_run
               /\ manifest' = [manifest EXCEPT ![u] = NewEntry(u, kind)]
               /\ raw' = raw
               /\ disk' = IF opts.dry_run THEN disk
                          ELSE [disk EXCEPT ![PathOf[<<u, kind>>]] = Downloaded(u)]
         \/ \E document \in Document :
               /\ document.url = u
               /\ documents' = Append(documents, document)
               /\ manifest'[u] # None /\ document.path = manifest'[u].path
               /\ NeedsRewriting(manifest'[u].kind)
               /\ raw'[u] # None
               /\ disk' = disk
<1>1. manifest \in [Urls -> Entry \cup {None}] /\ raw \in [Urls -> Body \cup {None}] /\ RunTypeOK
  BY DEF IInv, RecordTypeOK
<1>2. CASE PassedBy(u) /\ ~Downloads(u)
  BY <1>2 DEF PassedBy
<1>3. CASE TurnedDown(u) /\ ~Downloads(u)
  BY <1>3 DEF TurnedDown
<1>4. CASE TakenOver(u) /\ ~Downloads(u)
  <2>1. manifest[u] # None /\ manifest' = manifest /\ raw' = raw /\ disk' = disk
    BY <1>4 DEF TakenOver, Reusable, NotModified, diskVars
  <2>2. CASE NeedsRewriting(manifest[u].kind) /\ raw[u] # None
    <3>1. documents' = Append(documents, OldDocument(u))
      BY <1>4, <2>2 DEF TakenOver
    <3>2. manifest[u] \in Entry
      BY <1>1, <2>1
    <3>3. OldDocument(u) \in Document
      BY <3>2 DEF OldDocument, Document, Entry
    <3>4. OldDocument(u).url = u /\ OldDocument(u).path = manifest[u].path
      BY DEF OldDocument
    <3>5. QED
      BY <2>1, <2>2, <3>1, <3>3, <3>4
  <2>3. CASE ~(NeedsRewriting(manifest[u].kind) /\ raw[u] # None)
    BY <1>4, <2>3 DEF TakenOver
  <2>4. QED
    BY <2>2, <2>3
<1>5. CASE Downloads(u)
  <2>1. PICK kind \in Kinds :
          /\ manifest' = [manifest EXCEPT ![u] = NewEntry(u, kind)]
          /\ IF NeedsRewriting(kind) /\ ~opts.dry_run
             THEN /\ raw' = [raw EXCEPT ![u] = Downloaded(u)]
                  /\ documents' = Append(documents, NewDocument(u, kind))
             ELSE UNCHANGED <<raw, documents>>
          /\ disk' = IF NeedsRewriting(kind) \/ opts.dry_run THEN disk
                     ELSE [disk EXCEPT ![PathOf[<<u, kind>>]] = Downloaded(u)]
    BY <1>5 DEF Downloads
  <2>2. CASE NeedsRewriting(kind) /\ ~opts.dry_run
    <3>1. NewDocument(u, kind) \in Document /\ NewEntry(u, kind) \in Entry /\ Downloaded(u) \in Body
      BY <1>1, NewTypes
    <3>2. NewEntry(u, kind) # None /\ Downloaded(u) # None
      BY <3>1, CrawlerAssumption
    <3>3. manifest'[u] = NewEntry(u, kind) /\ raw'[u] = Downloaded(u)
      BY <1>1, <2>1, <2>2
    <3>4. /\ NewDocument(u, kind).url = u /\ NewDocument(u, kind).path = NewEntry(u, kind).path
          /\ NewEntry(u, kind).kind = kind
      BY DEF NewDocument, NewEntry
    <3>5. QED
      BY <2>1, <2>2, <3>1, <3>2, <3>3, <3>4
  <2>3. CASE ~NeedsRewriting(kind) \/ opts.dry_run
    BY <2>1, <2>3
  <2>4. QED
    BY <2>2, <2>3
<1>6. QED
  BY <1>2, <1>3, <1>4, <1>5 DEF Decides

\* Phase one ends in one way only.
LEMMA PhaseOne ==
  ASSUME phase = "crawl", [Next]_vars, ~BeginRewrite
  PROVE  phase' = "crawl"
BY DEF Next, Process, RewritePhase, GetItem, NoItemYet, FinishItem, FollowLink,
   DrainItem, RejectOutOfScope, AcceptInScope, LookUpRobots, AskRobots, PassBudget,
   StopOverBudget, Reuse, Retry, RecordError, RecordStatus, RecordRefused,
   RecordUnchanged, Store, StoreFails, Rewrite, RewriteFails, NextDocument, vars, runVars

LEMMA NextPhasesEnd ==
  ASSUME IInv, NextDocument, PhasesEnd
  PROVE  PhasesEnd'
<1>1. phase = "rewrite" /\ opts' = opts
  BY DEF NextDocument
<1>2. documents \in Seq(Document) /\ documents # <<>> /\ documents' = Tail(documents)
  BY <1>1 DEF IInv, RecordTypeOK, Pending, NextDocument
<1>3. ASSUME phase' = "done" PROVE documents' = <<>>
  <2>1. Len(documents) = 1
    BY <1>3 DEF NextDocument
  <2>2. Len(documents') = 0 /\ documents' \in Seq(Document)
    BY <1>2, <2>1, HeadTailProperties
  <2>3. QED
    BY <2>2, EmptySeq
<1>4. QED
  BY <1>1, <1>3 DEF PhasesEnd

LEMMA StepPhasesEnd == IInv /\ Over /\ PhasesEnd /\ [Next]_vars => PhasesEnd'
<1> SUFFICES ASSUME IInv, Over, PhasesEnd, [Next]_vars PROVE PhasesEnd'
  OBVIOUS
<1>1. CASE phase = "crawl" /\ ~BeginRewrite
  BY <1>1, PhaseOne DEF PhasesEnd
<1>2. CASE BeginRewrite
  BY <1>2 DEF BeginRewrite, PhasesEnd
<1>3. CASE phase # "crawl"
  <2>1. Rewrite \/ RewriteFails \/ UNCHANGED vars
    BY <1>3, PhaseTwo
  <2>2. CASE UNCHANGED vars
    BY <2>2 DEF vars, runVars, PhasesEnd
  <2>3. QED
    BY <2>1, <2>2, NextPhasesEnd DEF Rewrite, RewriteFails
<1>4. QED
  BY <1>1, <1>2, <1>3

\* The next document is rewritten only in phase two of a run that is no dry run.
LEMMA NextFiled ==
  ASSUME IInv, Filed, NextDocument
  PROVE  LET document == Head(documents) IN
         /\ document \in Waiting /\ document \in Document
         /\ Waiting' = Waiting \ {document}
         /\ \A other \in Waiting' : other.url # document.url
         /\ OneDocumentEach'
         /\ ~opts.dry_run
         /\ document.url \in Urls
         /\ document.path = manifest[document.url].path
         /\ document.path \in PlacesOf(document.url) \cup {None}
<1> DEFINE document == Head(documents)
<1>1. /\ documents \in Seq(Document) /\ documents # <<>>
      /\ documents' = Tail(documents) /\ phase = "rewrite"
  BY DEF IInv, RecordTypeOK, Pending, NextDocument
<1>2. /\ document \in Waiting /\ Waiting' = Waiting \ {document}
      /\ \A other \in Waiting' : other.url # document.url
      /\ OneDocumentEach'
  BY <1>1, DocumentsTail DEF Filed
<1>3. document \in Document /\ document.url \in Urls
  BY NextDocumentTypes DEF Document
<1>4. /\ document.path = manifest[document.url].path
      /\ document.path \in PlacesOf(document.url) \cup {None}
  BY <1>2, <1>3 DEF Filed, DocumentsFiled, Located
<1>5. QED
  BY <1>1, <1>2, <1>3, <1>4 DEF Filed, PhasesEnd

LEMMA StepLocated == IInv /\ Located(manifest) /\ [Next]_vars => Located(manifest')
<1> SUFFICES ASSUME IInv, Located(manifest), [Next]_vars PROVE Located(manifest')
  OBVIOUS
<1>1. manifest \in [Urls -> Entry \cup {None}] /\ RunTypeOK
  BY DEF IInv, RecordTypeOK
<1>2. CASE manifest' = manifest
  BY <1>2
<1>3. ASSUME NEW u \in Urls, TurnedDown(u) PROVE Located(manifest')
  <2>1. PICK entry \in Entry :
          /\ entry.state \in {"failed", "skipped"}
          /\ \/ entry.path \in PlacesOf(u) \cup {None}
             \/ manifest[u] # None /\ entry.path = manifest[u].path
          /\ manifest' = [manifest EXCEPT ![u] = entry]
    BY <1>3 DEF TurnedDown
  <2>2. entry.path \in PlacesOf(u) \cup {None}
    BY <2>1 DEF Located
  <2>3. QED
    BY <1>1, <2>1, <2>2 DEF Located
<1>4. ASSUME NEW u \in Urls, Downloads(u) PROVE Located(manifest')
  <2>1. PICK kind \in Kinds : manifest' = [manifest EXCEPT ![u] = NewEntry(u, kind)]
    BY <1>4 DEF Downloads
  <2>2. /\ NewEntry(u, kind).path \in PlacesOf(u)
        /\ NewEntry(u, kind).path \in Paths /\ NewEntry(u, kind).sha \in Body
    BY <1>1, <1>4, NewTypes DEF NewEntry, PlacesOf, Downloads
  <2>3. NewEntry(u, kind).path # None /\ NewEntry(u, kind).sha # None
    BY <2>2, CrawlerAssumption
  <2>4. QED
    BY <1>1, <2>1, <2>2, <2>3 DEF Located
<1>5. CASE Rewrite
  <2>1. Rewritten(Head(documents)) # None
    BY <1>5, RewriteEffect, CrawlerAssumption
  <2>2. \A v \in Urls :
          /\ manifest[v] = None => manifest'[v] = None
          /\ manifest[v] # None =>
               /\ manifest'[v].state = manifest[v].state
               /\ manifest'[v].path = manifest[v].path
               /\ manifest'[v].sha \in {manifest[v].sha, Rewritten(Head(documents))}
    BY <1>5, RewriteEffect
  <2>3. QED
    BY <2>1, <2>2 DEF Located
<1>6. QED
  BY <1>2, <1>3, <1>4, <1>5, StepKinds
     DEF Quiet, Decides, PassedBy, TakenOver, RewriteFails

LEMMA NextDocumentFiled ==
  ASSUME IInv, Filed, NextDocument,
         \A v \in Urls : manifest[v] # None =>
           /\ manifest'[v] # None
           /\ manifest'[v].path = manifest[v].path
           /\ manifest'[v].kind = manifest[v].kind
  PROVE  OneDocumentEach' /\ DocumentsFiled'
<1>1. OneDocumentEach' /\ Waiting' \subseteq Waiting /\ Settled' = Settled
  BY NextFiled, RewritingSettles
<1>2. QED
  BY <1>1, AheadSeen DEF Filed, DocumentsFiled, Settled

LEMMA StepDocuments == IInv /\ Filed /\ [Next]_vars => OneDocumentEach' /\ DocumentsFiled'
<1> SUFFICES ASSUME IInv, Filed, [Next]_vars PROVE OneDocumentEach' /\ DocumentsFiled'
  OBVIOUS
<1>1. OneDocumentEach /\ DocumentsFiled /\ documents \in Seq(Document)
  BY DEF Filed, IInv, RecordTypeOK
<1>2. ASSUME documents' = documents PROVE OneDocumentEach' /\ Waiting' = Waiting
  BY <1>1, <1>2 DEF OneDocumentEach, Waiting
<1>3. CASE Quiet
  BY <1>1, <1>2, <1>3 DEF Quiet, DocumentsFiled
<1>4. ASSUME NEW u \in Urls, Decides(u) PROVE OneDocumentEach' /\ DocumentsFiled'
  <2>1. /\ u \notin Settled /\ Settled' = Settled \cup {u}
        /\ \A v \in Urls \ {u} : manifest'[v] = manifest[v]
    BY <1>4, DecisionRecorded DEF Decides
  <2>2. \A document \in Waiting :
          /\ document.url # u /\ document.url \in Settled'
          /\ manifest'[document.url] # None
          /\ document.path = manifest'[document.url].path
          /\ NeedsRewriting(manifest'[document.url].kind)
    BY <1>1, <2>1, AheadSeen DEF DocumentsFiled, Settled
  <2>3. CASE documents' = documents
    BY <1>2, <2>2, <2>3 DEF DocumentsFiled
  <2>4. ASSUME NEW document \in Document, document.url = u,
               documents' = Append(documents, document),
               manifest'[u] # None, document.path = manifest'[u].path,
               NeedsRewriting(manifest'[u].kind)
        PROVE  OneDocumentEach' /\ DocumentsFiled'
    <3>1. ~Waits(u)
      BY <2>2 DEF Waits
    <3>2. OneDocumentEach' /\ Waiting' = Waiting \cup {document}
      BY <1>1, <2>4, <3>1, DocumentsAppend
    <3>3. QED
      BY <2>1, <2>2, <2>4, <3>2 DEF DocumentsFiled
  <2>5. QED
    BY <1>4, <2>3, <2>4, DecisionDocuments
<1>5. CASE Rewrite
  BY <1>5, NextDocumentFiled, RewriteEffect DEF Rewrite
<1>6. CASE RewriteFails
  BY <1>6, NextDocumentFiled DEF RewriteFails
<1>7. QED
  BY <1>3, <1>4, <1>5, <1>6, StepKinds

LEMMA StepFiled == IInv /\ Filed /\ [Next]_vars => Filed'
BY StepDocuments, StepLocated, StepOver, StepPhasesEnd DEF Filed

-----------------------------------------------------------------------------
(* What the steps do to the files.                                         *)

\* The file of an entry is there, or is what the entry says, unless it waits to
\* be rewritten.
ThereFor(u) == Done(u) => Waits(u) \/ disk[manifest[u].path] # None
KeptFor(u) == Done(u) => Waits(u) \/ disk[manifest[u].path] = manifest[u].sha

\* A decision touches the files of its URL only, and puts nothing there but
\* what was downloaded, or takes away what could not be replaced.
LEMMA DecisionFiles ==
  ASSUME IInv, NEW u \in Urls, Decides(u)
  PROVE  /\ disk' \in [Paths -> Body \cup {None}]
         /\ \A p \in Paths \ PlacesOf(u) : disk'[p] = disk[p]
         /\ \A p \in Paths :
              \/ disk'[p] = disk[p]
              \/ disk'[p] = Downloaded(u)
              \/ disk'[p] = None /\ u \in StageFaults
         /\ opts.dry_run => disk' = disk
<1>1. disk \in [Paths -> Body \cup {None}] /\ RunTypeOK
  BY DEF IInv, RecordTypeOK
<1>2. CASE disk' = disk
  BY <1>1, <1>2
<1>3. CASE TurnedDown(u) /\ disk' # disk
  <2>1. PICK p \in PlacesOf(u) : disk' = [disk EXCEPT ![p] = None]
    BY <1>3 DEF TurnedDown, diskVars
  <2>2. u \in StageFaults /\ ~opts.dry_run
    BY <1>3 DEF TurnedDown, diskVars
  <2>3. QED
    BY <1>1, <2>1, <2>2
<1>4. CASE Downloads(u) /\ disk' # disk
  <2>1. PICK kind \in Kinds :
          /\ ~opts.dry_run
          /\ disk' = [disk EXCEPT ![PathOf[<<u, kind>>]] = Downloaded(u)]
    BY <1>4 DEF Downloads
  <2>2. PathOf[<<u, kind>>] \in PlacesOf(u) /\ Downloaded(u) \in Body
    BY <1>1, <1>4, NewTypes DEF PlacesOf, Downloads
  <2>3. QED
    BY <1>1, <2>1, <2>2
<1>5. QED
  BY <1>2, <1>3, <1>4 DEF Decides, PassedBy, TakenOver, diskVars

\* So do the steps of phase two.
LEMMA RewritingFiles ==
  ASSUME IInv, Filed, Rewrite \/ RewriteFails
  PROVE  LET document == Head(documents) IN
         /\ \A p \in Paths \ PlacesOf(document.url) : disk'[p] = disk[p]
         /\ document.path \notin Paths => disk' = disk
         /\ RewriteFails => document.url \in RewriteFaults
<1> DEFINE document == Head(documents)
<1>1. disk \in [Paths -> Body \cup {None}]
  BY DEF IInv, RecordTypeOK
<1>2. document.path \in PlacesOf(document.url) \cup {None}
  BY NextFiled DEF Rewrite, RewriteFails
<1>3. disk' = disk \/ \E body : disk' = [disk EXCEPT ![document.path] = body]
  BY DEF Rewrite, RewriteFails
<1>4. QED
  BY <1>1, <1>2, <1>3, CrawlerAssumption DEF RewriteFails

LEMMA FilesApart ==
  ASSUME PlacesApart, NEW u \in Urls, NEW v \in Urls \ {u}
  PROVE  PlacesOf(u) \cap PlacesOf(v) = {}
BY DEF PlacesApart, PlacesOf

\* Where an entry that is done has its file.
LEMMA DonePlace ==
  ASSUME IInv, Located(manifest), NEW u \in Urls, Done(u)
  PROVE  /\ manifest[u] \in Entry
         /\ manifest[u].path \in PlacesOf(u) /\ manifest[u].path \in Paths
         /\ manifest[u].sha \in Body
<1>1. manifest[u] \in Entry
  BY DEF IInv, RecordTypeOK, Done
<1>2. manifest[u].path # None /\ manifest[u].sha # None /\ manifest[u].path \in PlacesOf(u) \cup {None}
  BY DEF Located, Done
<1>3. QED
  BY <1>1, <1>2 DEF Entry

\* A URL is decided.  Its file is then what its entry says or waits to be
\* rewritten if that was so before, or if it was downloaded.
LEMMA DecidedFile ==
  ASSUME IInv, Filed, NEW u \in Urls, Decides(u), ~opts.dry_run
  PROVE  /\ ThereFor(u) => ThereFor(u)'
         /\ KeptFor(u) => KeptFor(u)'
         /\ Downloads(u) => ThereFor(u)' /\ KeptFor(u)'
<1>1. /\ manifest \in [Urls -> Entry \cup {None}] /\ disk \in [Paths -> Body \cup {None}]
      /\ documents \in Seq(Document) /\ RunTypeOK
  BY DEF IInv, RecordTypeOK
<1>2. ASSUME Downloads(u) PROVE ThereFor(u)' /\ KeptFor(u)'
  <2>1. PICK kind \in Kinds :
          /\ manifest' = [manifest EXCEPT ![u] = NewEntry(u, kind)]
          /\ IF NeedsRewriting(kind)
             THEN documents' = Append(documents, NewDocument(u, kind))
             ELSE disk' = [disk EXCEPT ![PathOf[<<u, kind>>]] = Downloaded(u)]
    BY <1>2 DEF Downloads
  <2>2. /\ PathOf[<<u, kind>>] \in Paths /\ Downloaded(u) \in Body
        /\ NewDocument(u, kind) \in Document /\ NewDocument(u, kind).url = u
    BY <1>1, NewTypes DEF NewDocument
  <2>3. CASE NeedsRewriting(kind)
    <3>1. NewDocument(u, kind) \in Waiting'
      BY <1>1, <2>1, <2>2, <2>3, DocumentsAppend
    <3>2. Waits(u)'
      BY <2>2, <3>1 DEF Waits
    <3>3. QED
      BY <3>2 DEF ThereFor, KeptFor
  <2>4. CASE ~NeedsRewriting(kind)
    <3>1. manifest'[u].path = PathOf[<<u, kind>>] /\ manifest'[u].sha = Downloaded(u)
      BY <1>1, <2>1 DEF NewEntry
    <3>2. disk'[PathOf[<<u, kind>>]] = Downloaded(u) /\ Downloaded(u) # None
      BY <1>1, <2>1, <2>2, <2>4, CrawlerAssumption
    <3>3. QED
      BY <3>1, <3>2 DEF ThereFor, KeptFor
  <2>5. QED
    BY <2>3, <2>4
<1>3. CASE PassedBy(u)
  BY <1>2, <1>3 DEF PassedBy, ThereFor, KeptFor, Done, Waits, Waiting, diskVars
<1>4. CASE TurnedDown(u)
  <2>1. ~Done(u)'
    BY <1>1, <1>4 DEF TurnedDown, Done
  <2>2. QED
    BY <1>2, <2>1 DEF ThereFor, KeptFor
<1>5. CASE TakenOver(u)
  <2>1. manifest' = manifest /\ disk' = disk
    BY <1>5 DEF TakenOver, diskVars
  <2>2. Waits(u) => Waits(u)'
    <3>1. Waiting \subseteq Waiting'
      <4>1. CASE documents' = documents
        BY <4>1 DEF Waiting
      <4>2. CASE documents' # documents
        <5>1. documents' = Append(documents, OldDocument(u)) /\ manifest[u] # None
          BY <1>5, <4>2 DEF TakenOver, Reusable, NotModified
        <5>2. OldDocument(u) \in Document
          BY <1>1, <5>1 DEF OldDocument, Document, Entry
        <5>3. QED
          BY <1>1, <5>1, <5>2, DocumentsAppend
      <4>3. QED
        BY <4>1, <4>2
    <3>2. QED
      BY <3>1 DEF Waits
  <2>3. QED
    BY <1>2, <2>1, <2>2 DEF ThereFor, KeptFor, Done
<1>6. QED
  BY <1>2, <1>3, <1>4, <1>5 DEF Decides

\* What a step of another URL leaves of u: its entry, its document, its file.
LEMMA LeftAlone ==
  ASSUME NEW u,
         Done(u)' => /\ Done(u)
                     /\ manifest'[u].path = manifest[u].path
                     /\ manifest'[u].sha = manifest[u].sha
                     /\ disk'[manifest[u].path] = disk[manifest[u].path],
         Waits(u) => Waits(u)'
  PROVE  /\ ThereFor(u) => ThereFor(u)'
         /\ KeptFor(u) => KeptFor(u)'
BY DEF ThereFor, KeptFor

\* A document keeps waiting until it is its turn.
LEMMA DecisionKeepsWaiting ==
  ASSUME IInv, NEW u \in Urls, Decides(u)
  PROVE  Waiting \subseteq Waiting'
<1>1. documents \in Seq(Document)
  BY DEF IInv, RecordTypeOK
<1>2. CASE documents' = documents
  BY <1>2 DEF Waiting
<1>3. ASSUME NEW document \in Document, documents' = Append(documents, document)
      PROVE  Waiting \subseteq Waiting'
  BY <1>1, <1>3, DocumentsAppend
<1>4. QED
  BY <1>2, <1>3, DecisionDocuments

\* In a run that writes, no step but a failing one of phase two makes a file
\* differ from its entry, or takes it away.
LEMMA StepKept ==
  ASSUME PlacesApart, IInv, Filed, ~opts.dry_run, [Next]_vars, NEW u \in Urls \ RewriteFaults
  PROVE  /\ ThereFor(u) => ThereFor(u)'
         /\ KeptFor(u) => KeptFor(u)'
<1>1. /\ manifest \in [Urls -> Entry \cup {None}] /\ disk \in [Paths -> Body \cup {None}]
      /\ Located(manifest)
  BY DEF IInv, RecordTypeOK, Filed
<1>2. CASE Quiet
  BY <1>2 DEF Quiet, ThereFor, KeptFor, Done, Waits, Waiting, diskVars
<1>3. ASSUME NEW v \in Urls, Decides(v)
      PROVE  (ThereFor(u) => ThereFor(u)') /\ (KeptFor(u) => KeptFor(u)')
  <2>1. CASE v = u
    BY <1>3, <2>1, DecidedFile
  <2>2. CASE v # u
    <3>1. manifest'[u] = manifest[u]
      BY <1>3, <2>2, DecisionRecorded
    <3>2. Done(u) => disk'[manifest[u].path] = disk[manifest[u].path]
      BY <1>1, <1>3, <2>2, DonePlace, FilesApart, DecisionFiles
    <3>3. Waits(u) => Waits(u)'
      BY <1>3, DecisionKeepsWaiting DEF Waits
    <3>4. QED
      BY <3>1, <3>2, <3>3, LeftAlone DEF Done
  <2>3. QED
    BY <2>1, <2>2
<1> DEFINE document == Head(documents)
<1>4. ASSUME Rewrite \/ RewriteFails
      PROVE  /\ Waiting' = Waiting \ {document}
             /\ document.url \in Urls
             /\ document.path = manifest[document.url].path
  BY <1>4, NextFiled DEF Rewrite, RewriteFails
<1>5. ASSUME Rewrite \/ RewriteFails, document.url # u,
             Done(u)' => /\ Done(u)
                         /\ manifest'[u].path = manifest[u].path
                         /\ manifest'[u].sha = manifest[u].sha
      PROVE  (ThereFor(u) => ThereFor(u)') /\ (KeptFor(u) => KeptFor(u)')
  <2>1. Done(u) => disk'[manifest[u].path] = disk[manifest[u].path]
    BY <1>1, <1>4, <1>5, DonePlace, FilesApart, RewritingFiles
  <2>2. Waits(u) => Waits(u)'
    BY <1>4, <1>5 DEF Waits
  <2>3. QED
    BY <1>5, <2>1, <2>2, LeftAlone
<1>6. CASE Rewrite
  <2>1. /\ Done(u)' => Done(u)
        /\ Done(u) => /\ Done(u)' /\ manifest'[u].path = manifest[u].path
                      /\ u # document.url => manifest'[u].sha = manifest[u].sha
    BY <1>6, RewriteEffect DEF Done
  <2>2. CASE document.url # u
    BY <1>5, <1>6, <2>1, <2>2
  <2>3. CASE document.url = u
    <3>1. /\ disk' = [disk EXCEPT ![document.path] = Rewritten(document)]
          /\ Rewritten(document) \in Body
          /\ Done(u) => manifest'[u].sha = Rewritten(document)
      BY <1>6, <2>3, RewriteEffect DEF Done
    <3>2. Done(u) => document.path \in Paths /\ document.path = manifest[u].path
      BY <1>1, <1>4, <1>6, <2>3, DonePlace
    <3>3. Done(u) => disk'[manifest[u].path] = Rewritten(document) /\ Rewritten(document) # None
      BY <1>1, <3>1, <3>2, CrawlerAssumption
    <3>4. QED
      BY <2>1, <3>1, <3>3 DEF ThereFor, KeptFor
  <2>4. QED
    BY <2>2, <2>3
<1>7. CASE RewriteFails
  <2>1. manifest' = manifest /\ document.url # u
    BY <1>7, RewritingFiles DEF RewriteFails
  <2>2. QED
    BY <1>5, <1>7, <2>1 DEF Done
<1>8. QED
  BY <1>2, <1>3, <1>6, <1>7, StepKinds

-----------------------------------------------------------------------------
(* The links between the files.                                            *)

\* There is a file at q, or there will be one, unless it is one of those that
\* cannot be written.
Led(q) ==
  \/ disk[q] # None
  \/ q \in LinkFaults
  \/ ~opts.dry_run /\ \E document \in Waiting : document.path = q

LinksLead == \A p \in Paths : disk[p] # None => \A q \in disk[p].local : Led(q)
SumsLead == \A u \in Urls : Done(u) => \A q \in manifest[u].sha.local : Led(q)

LEMMA FaultyPlaces ==
  ASSUME NEW u \in RewriteFaults, NEW p \in PlacesOf(u)
  PROVE  p \in LinkFaults
<1>1. PICK k \in Kinds : p = PathOf[<<u, k>>]
  BY DEF PlacesOf
<1>2. QED
  BY <1>1 DEF LinkFaults

LEMMA StepStagedPlain == IInv /\ StagedPlain /\ [Next]_vars => StagedPlain'
<1> SUFFICES ASSUME IInv, StagedPlain, [Next]_vars PROVE StagedPlain'
  OBVIOUS
<1>1. raw \in [Urls -> Body \cup {None}]
  BY DEF IInv, RecordTypeOK
<1>2. CASE raw' = raw
  BY <1>2 DEF StagedPlain
<1>3. ASSUME NEW u \in Urls, raw' = [raw EXCEPT ![u] = None] \/ raw' = [raw EXCEPT ![u] = Downloaded(u)]
      PROVE  StagedPlain'
  BY <1>1, <1>3 DEF StagedPlain, Downloaded
<1>4. ASSUME NEW u \in Urls, Decides(u) PROVE StagedPlain'
  BY <1>2, <1>3, <1>4 DEF Decides, PassedBy, TurnedDown, TakenOver, Downloads, diskVars
<1>5. QED
  BY <1>2, <1>4, StepKinds, RewritingSettles DEF Quiet, diskVars, Rewrite, RewriteFails

\* The options stay.
LEMMA OptionsStay == IInv /\ [Next]_vars => opts' = opts
BY StepKinds, RewritingSettles DEF Quiet, Decides, runVars, Rewrite, RewriteFails

\* Where a link leads there stays a file, unless it is lost when a download of
\* phase one cannot be stored.
LEMMA LedStays ==
  ASSUME IInv, Filed, [Next]_vars, StageFaults = {} \/ phase # "crawl",
         NEW q \in Paths, Led(q)
  PROVE  Led(q)'
<1>1. disk \in [Paths -> Body \cup {None}] /\ opts' = opts
  BY OptionsStay DEF IInv, RecordTypeOK
<1>2. CASE UNCHANGED <<documents, disk>>
  BY <1>1, <1>2 DEF Led, Waiting
<1>3. ASSUME NEW u \in Urls, Decides(u), StageFaults = {} PROVE Led(q)'
  <2>1. disk[q] # None => disk'[q] # None
    <3>1. Downloaded(u) # None
      BY WrittenTypes, CrawlerAssumption DEF IInv
    <3>2. QED
      BY <1>3, <3>1, DecisionFiles
  <2>2. Waiting \subseteq Waiting'
    BY <1>3, DecisionKeepsWaiting
  <2>3. QED
    BY <1>1, <2>1, <2>2 DEF Led
<1> DEFINE document == Head(documents)
<1>4. ASSUME Rewrite \/ RewriteFails PROVE Waiting' = Waiting \ {document}
  BY <1>4, NextFiled DEF Rewrite, RewriteFails
<1>5. CASE Rewrite
  <2>1. /\ disk' = [disk EXCEPT ![document.path] = Rewritten(document)]
        /\ Rewritten(document) \in Body
    BY <1>5, RewriteEffect
  <2>2. disk'[q] = IF q = document.path THEN Rewritten(document) ELSE disk[q]
    BY <1>1, <2>1
  <2>3. Rewritten(document) # None
    BY <2>1, CrawlerAssumption
  <2>4. QED
    BY <1>1, <1>4, <1>5, <2>2, <2>3 DEF Led
<1>6. CASE RewriteFails
  <2>1. document.url \in RewriteFaults /\ document.path \in PlacesOf(document.url) \cup {None}
    BY <1>6, RewritingFiles, NextFiled DEF RewriteFails
  <2>2. q = document.path => q \in LinkFaults
    BY <2>1, CrawlerAssumption, FaultyPlaces
  <2>3. q # document.path => disk'[q] = disk[q]
    BY <1>1, <1>6 DEF RewriteFails
  <2>4. QED
    BY <1>1, <1>4, <1>6, <2>2, <2>3 DEF Led
<1>7. CASE phase # "crawl"
  BY <1>2, <1>5, <1>6, <1>7, PhaseTwo DEF Filed, vars, diskVars
<1>8. QED
  BY <1>2, <1>3, <1>5, <1>6, <1>7, StepKinds DEF Quiet, diskVars

\* The rewritten document links to files of entries that are done.
LEMMA RewrittenLed ==
  ASSUME IInv, Filed, StagedPlain, Rewrite, \A u \in Urls \ RewriteFaults : ThereFor(u),
         NEW q \in Rewritten(Head(documents)).local
  PROVE  Led(q)
<1> DEFINE document == Head(documents)
           body == raw[document.url]
<1>1. NextDocument /\ body # None /\ document \in Document /\ document.url \in Urls /\ ~opts.dry_run
  BY RewriteEffect, NextFiled DEF Rewrite
<1>2. body.local = {} /\ body \in Body
  BY <1>1 DEF StagedPlain, IInv, RecordTypeOK
<1>3. PICK t \in Urls : Mirrored(t) /\ q = manifest[t].path
  <2> DEFINE targets == {t \in Targets(body, document.base) : Mirrored(t)}
             local == {manifest[u].path : u \in targets}
             new == [body EXCEPT !.base = document.base, !.local = local]
  <2>1. Targets(body, document.base) \subseteq Urls
    BY <1>1, <1>2, TargetTypes DEF Document
  <2>2. new.local = local
    <3> HIDE DEF local, document
    <3>1. QED
      BY <1>2 DEF Body
  <2>3. Rewritten(document).local \in {local, {}}
    <3>1. Rewritten(document) = body \/ Rewritten(document) = new
      BY DEF Rewritten
    <3> HIDE DEF local, document, new
    <3>2. QED
      BY <1>2, <2>2, <3>1
  <2>4. \E u \in targets : q = manifest[u].path
    BY <2>3
  <2>5. QED
    BY <2>1, <2>4
<1>4. Done(t) /\ manifest[t].path \in PlacesOf(t)
  BY <1>3, DonePlace DEF Mirrored, Done, Filed
<1>5. CASE t \in RewriteFaults
  BY <1>3, <1>4, <1>5, FaultyPlaces DEF Led
<1>6. CASE t \notin RewriteFaults /\ Waits(t)
  BY <1>1, <1>3, <1>6 DEF Led, Waits, Filed, DocumentsFiled
<1>7. CASE t \notin RewriteFaults /\ ~Waits(t)
  BY <1>3, <1>4, <1>7 DEF Led, ThereFor
<1>8. QED
  BY <1>5, <1>6, <1>7

LEMMA StepLinksLead ==
  ASSUME IInv, Filed, StagedPlain, LinksLead, [Next]_vars,
         StageFaults = {} \/ phase # "crawl",
         phase = "rewrite" => \A u \in Urls \ RewriteFaults : ThereFor(u)
  PROVE  LinksLead'
<1> SUFFICES ASSUME NEW p \in Paths, disk'[p] # None, NEW q \in disk'[p].local PROVE Led(q)'
  BY DEF LinksLead
<1>1. disk \in [Paths -> Body \cup {None}] /\ disk' \in [Paths -> Body \cup {None}]
  BY StepIInv DEF IInv, RecordTypeOK
<1>2. q \in Paths
  BY <1>1 DEF Body
<1>3. CASE disk'[p] = disk[p]
  BY <1>2, <1>3, LedStays DEF LinksLead
<1>4. ASSUME NEW u \in Urls, Decides(u) PROVE disk'[p] = disk[p]
  <2>1. Downloaded(u).local = {}
    BY DEF Downloaded
  <2>2. QED
    BY <1>4, <2>1, DecisionFiles
<1>5. CASE Rewrite /\ disk'[p] # disk[p]
  <2>1. disk'[p] = Rewritten(Head(documents))
    BY <1>1, <1>5, RewriteEffect
  <2>2. phase = "rewrite"
    BY <1>5 DEF Rewrite, NextDocument
  <2>3. Led(q)
    BY <1>5, <2>1, <2>2, RewrittenLed
  <2>4. QED
    BY <1>2, <2>3, LedStays
<1>6. CASE RewriteFails
  BY <1>1, <1>3, <1>6 DEF RewriteFails
<1>7. QED
  BY <1>3, <1>4, <1>5, <1>6, StepKinds DEF Quiet, diskVars

\* Nothing that a run without earlier ones finds or stores in phase one has
\* links made local.
FreshPlain ==
  phase = "crawl" /\ ~Continues => \A p \in Paths : disk[p] # None => disk[p].local = {}

LEMMA StepFreshPlain == IInv /\ Filed /\ FreshPlain /\ [Next]_vars => FreshPlain'
<1> SUFFICES ASSUME IInv, Filed, FreshPlain, [Next]_vars, phase' = "crawl", ~Continues',
                    NEW p \in Paths, disk'[p] # None
             PROVE  disk'[p].local = {}
  BY DEF FreshPlain
<1>1. ~Continues
  BY OptionsStay DEF Continues
<1>2. phase = "crawl"
  <2>1. NextDocument => phase' # "crawl"
    BY DEF NextDocument
  <2>2. UNCHANGED vars => phase' = phase
    BY DEF vars, runVars
  <2>3. QED
    BY <2>1, <2>2, PhaseTwo DEF Filed, Rewrite, RewriteFails
<1>3. CASE disk'[p] = disk[p]
  BY <1>1, <1>2, <1>3 DEF FreshPlain
<1>4. ASSUME NEW u \in Urls, Decides(u), disk'[p] # disk[p] PROVE disk'[p].local = {}
  <2>1. disk'[p] = Downloaded(u)
    BY <1>4, DecisionFiles
  <2>2. QED
    BY <2>1 DEF Downloaded
<1>5. ~Rewrite /\ ~RewriteFails
  BY <1>2 DEF Rewrite, RewriteFails, NextDocument
<1>6. QED
  BY <1>3, <1>4, <1>5, StepKinds DEF Quiet, diskVars

-----------------------------------------------------------------------------
(* The mirror during a run, and what the run leaves behind.                *)

\* In a run that writes.
Kept == ~opts.dry_run => \A u \in Urls \ RewriteFaults : KeptFor(u)
Linked == StageFaults = {} \/ ~Continues => LinksLead

MirrorInv == Filed /\ StagedPlain /\ Kept /\ FreshPlain /\ Linked

\* A file that is what its entry says is there.
LEMMA KeptIsThere ==
  ASSUME IInv, Filed, Kept, ~opts.dry_run, NEW u \in Urls \ RewriteFaults
  PROVE  ThereFor(u)
<1>1. Done(u) => manifest[u].sha # None
  BY DEF Filed, Located, Done
<1>2. QED
  BY <1>1 DEF Kept, KeptFor, ThereFor

LEMMA InitMirrorInv == SoundLeftovers /\ Init => MirrorInv
<1> SUFFICES ASSUME SoundLeftovers, Init PROVE MirrorInv
  OBVIOUS
<1>1. PICK past \in IF Continues THEN Leftovers ELSE {Nothing} :
        manifest = past.manifest /\ disk = past.disk /\ raw = past.raw
  BY DEF Init
<1>2. Sound(past)
  <2>1. Sound(Nothing)
    BY DEF Sound, Nothing, Located
  <2>2. QED
    BY <1>1, <2>1 DEF SoundLeftovers
<1>3. documents = <<>> /\ phase = "crawl"
  BY DEF Init, StartRun
<1>4. Filed
  <2>1. OneDocumentEach /\ DocumentsFiled
    BY <1>3 DEF OneDocumentEach, DocumentsFiled, Waiting
  <2>2. Located(manifest)
    BY <1>1, <1>2 DEF Sound
  <2>3. QED
    BY <1>3, <2>1, <2>2 DEF Filed, Over, PhasesEnd
<1>5. StagedPlain /\ Kept
  BY <1>1, <1>2 DEF Sound, StagedPlain, Kept, KeptFor, Done
<1>6. FreshPlain
  BY <1>1 DEF FreshPlain, Nothing
<1>7. Linked
  BY <1>1, <1>2 DEF Sound, Linked, LinksLead, Led
<1>8. QED
  BY <1>4, <1>5, <1>6, <1>7 DEF MirrorInv

LEMMA StepMirrorInv == PlacesApart /\ IInv /\ MirrorInv /\ [Next]_vars => MirrorInv'
<1> SUFFICES ASSUME PlacesApart, IInv, MirrorInv, [Next]_vars PROVE MirrorInv'
  OBVIOUS
<1>1. Filed /\ StagedPlain /\ Kept /\ FreshPlain /\ Linked /\ opts' = opts
  BY OptionsStay DEF MirrorInv
<1>2. Filed' /\ StagedPlain' /\ FreshPlain'
  BY <1>1, StepFiled, StepStagedPlain, StepFreshPlain
<1>3. Kept'
  BY <1>1, StepKept DEF Kept
<1>4. Linked'
  <2> SUFFICES ASSUME StageFaults = {} \/ ~Continues PROVE LinksLead'
    BY <1>1 DEF Linked, Continues
  <2>1. LinksLead
    BY <1>1 DEF Linked
  <2>2. phase = "rewrite" => \A u \in Urls \ RewriteFaults : ThereFor(u)
    BY <1>1, KeptIsThere DEF Filed, PhasesEnd
  <2>3. CASE StageFaults = {} \/ phase # "crawl"
    BY <1>1, <2>1, <2>2, <2>3, StepLinksLead
  <2>4. CASE phase = "crawl" /\ phase' = "crawl"
    <3>1. ~Continues' => \A p \in Paths : disk'[p] # None => disk'[p].local = {}
      BY <1>2, <2>4 DEF FreshPlain
    <3>2. ~Continues => LinksLead'
      BY <1>1, <3>1 DEF LinksLead, Continues
    <3>3. QED
      BY <2>3, <3>2
  <2>5. CASE phase = "crawl" /\ BeginRewrite
    <3>1. UNCHANGED <<documents, disk, opts>>
      BY <2>5 DEF BeginRewrite, diskVars
    <3>2. QED
      BY <2>1, <3>1 DEF LinksLead, Led, Waiting
  <2>6. QED
    BY <2>3, <2>4, <2>5, PhaseOne
<1>5. QED
  BY <1>2, <1>3, <1>4 DEF MirrorInv

LEMMA MirrorInvariance ==
  ASSUME PlacesApart, SoundLeftovers
  PROVE  Spec => [](IInv /\ MirrorInv)
BY InitMirrorInv, StepMirrorInv, InitIInv, StepIInv, PTL DEF Spec

\* What surl check goes by: when a run ends, every entry that is done names a
\* file that is there and is what the checksum says, whether it was rewritten,
\* copied or taken over.
THEOREM FilesMatch ==
  ASSUME PlacesApart, SoundLeftovers
  PROVE  Spec => []ManifestMatchesDisk
<1>1. MirrorInv => ManifestMatchesDisk
  BY DEF MirrorInv, Filed, PhasesEnd, Kept, KeptFor, Waits, Waiting, ManifestMatchesDisk
<1>2. QED
  BY <1>1, MirrorInvariance, PTL

LEMMA LinksResolve ==
  ASSUME MirrorInv, StageFaults = {} \/ ~Continues
  PROVE  LocalLinksResolve
<1> SUFFICES ASSUME phase = "done", NEW p \in Paths, disk[p] # None, NEW q \in disk[p].local \ LinkFaults
             PROVE  disk[q] # None
  BY DEF LocalLinksResolve, LinkFaults
<1>1. Led(q)
  BY DEF MirrorInv, Linked, LinksLead
<1>2. ~opts.dry_run => Waiting = {}
  BY DEF MirrorInv, Filed, PhasesEnd, Waiting
<1>3. QED
  BY <1>1, <1>2 DEF Led

\* No link that was made local dangles: phase two links to what phase one has
\* recorded, and every file that it links to is there or is written before it
\* ends.  In a run that continues an earlier one this needs phase one not to
\* lose the old file of a download that it cannot store.
THEOREM LinksLeadSomewhere ==
  ASSUME PlacesApart, SoundLeftovers
  PROVE  Spec => [](StageFaults = {} \/ ~Continues => LocalLinksResolve)
BY LinksResolve, MirrorInvariance, PTL

\* A run that is not a dry one leaves behind what the next one may build on.
THEOREM LeavesSound ==
  ASSUME PlacesApart, SoundLeftovers
  PROVE  Spec => [](phase = "done" /\ ~opts.dry_run /\ (StageFaults = {} \/ ~Continues) =>
                      Sound([manifest |-> manifest, disk |-> disk, raw |-> raw]))
<1>1. ASSUME MirrorInv, phase = "done", ~opts.dry_run, StageFaults = {} \/ ~Continues
      PROVE  Sound([manifest |-> manifest, disk |-> disk, raw |-> raw])
  <2>1. documents = <<>>
    BY <1>1 DEF MirrorInv, Filed, PhasesEnd
  <2>2. \A u \in Urls \ RewriteFaults :
          manifest[u] # None /\ manifest[u].state = "done" =>
            disk[manifest[u].path] = manifest[u].sha
    BY <1>1, <2>1 DEF MirrorInv, Kept, KeptFor, Done, Waits, Waiting
  <2>3. \A p \in Paths : disk[p] # None =>
          \A q \in disk[p].local \ LinkFaults : disk[q] # None
    BY <1>1, LinksResolve DEF LocalLinksResolve, LinkFaults
  <2>4. QED
    BY <1>1, <2>2, <2>3 DEF MirrorInv, Filed, StagedPlain, Sound
<1>2. QED
  BY <1>1, MirrorInvariance, PTL
-----------------------------------------------------------------------------
(* The budget.                                                             *)

Admitted == {w \in Workers : stage[w] = "admitted"}

\* What the entries would add to the count is, in phase one, what a run may add.
EntriesCounted ==
  phase = "crawl" =>
    \A u \in Urls : manifest[u] # None => SizeOf(manifest[u].sha) \in CountedSizes

Largest(size) == size \in CountedSizes /\ \A other \in CountedSizes : other <= size

\* A worker that has passed the budget check may still add a file.  What is
\* counted and what may be added this way together stay within the limit.
WithinBudget ==
  LET admitted == Cardinality(Admitted)  workers == Cardinality(Workers) IN
  /\ opts.max_files > 0 => file_count + admitted <= opts.max_files - 1 + workers
  /\ opts.max_total_size > 0 =>
       \A size \in CountedSizes : Largest(size) =>
         total_bytes + admitted * size <= opts.max_total_size - 1 + workers * size

LEMMA AdmittedFinite ==
  /\ IsFiniteSet(Admitted)
  /\ Cardinality(Admitted) \in Nat /\ Cardinality(Workers) \in Nat \ {0}
  /\ Cardinality(Admitted) <= Cardinality(Workers)
<1>1. Admitted \in SUBSET Workers
  BY DEF Admitted
<1>2. QED
  BY <1>1, CrawlerAssumption, FS_Subset, FS_CardinalityType, FS_EmptySet

LEMMA Products ==
  ASSUME NEW a \in Nat, NEW b \in Nat, NEW m \in Nat
  PROVE  /\ a * m \in Nat
         /\ a <= b => a * m <= b * m
         /\ (a - 1) * m = a * m - m
<1>1. a * m \in Nat
  OBVIOUS
<1>2. (a - 1) * m = a * m - m
  OBVIOUS
<1>3. ASSUME a <= b PROVE a * m <= b * m
  <2>1. PICK d \in Nat : b = a + d
    <3>1. b - a \in Nat /\ b = a + (b - a)
      BY <1>3
    <3>2. QED
      BY <3>1
  <2>2. b * m = a * m + d * m /\ d * m \in Nat /\ b * m \in Nat
    BY <2>1
  <2>3. QED
    BY <1>1, <2>2
<1>4. QED
  BY <1>1, <1>2, <1>3

\* Sizes are numbers.
LEMMA CountedNumbers ==
  ASSUME RunTypeOK
  PROVE  CountedSizes \subseteq Nat
<1>1. SizeOf(None) = 0 /\ \A body \in Body : SizeOf(body) \in Nat
  BY CrawlerAssumption
<1>2. \A u \in Urls : Downloaded(u) \in Body
  BY WrittenTypes
<1>3. ASSUME NEW past \in Leftovers, NEW u \in Urls, past.manifest[u] # None
      PROVE  SizeOf(past.manifest[u].sha) \in Nat
  <2>1. past.manifest \in [Urls -> Entry \cup {None}]
    BY CrawlerAssumption DEF Remains
  <2>2. past.manifest[u].sha \in Body \cup {None}
    BY <1>3, <2>1 DEF Entry
  <2>3. QED
    BY <1>1, <2>2
<1>4. QED
  BY <1>1, <1>2, <1>3 DEF CountedSizes

\* The options and the site stay, and so do the sizes that may be added up.
LEMMA CountedSizesStay ==
  ASSUME [Next]_vars
  PROVE  opts' = opts /\ site' = site /\ CountedSizes' = CountedSizes
<1>1. opts' = opts /\ site' = site
  BY ZenonT(30) DEF Next, Process, RewritePhase, GetItem, NoItemYet, FinishItem, FollowLink, DrainItem,
     RejectOutOfScope, AcceptInScope, LookUpRobots, AskRobots, PassBudget, StopOverBudget, Reuse,
     Retry, RecordError, RecordStatus, RecordRefused, RecordUnchanged, Store, StoreFails,
     BeginRewrite, Rewrite, RewriteFails, NextDocument, vars, runVars
<1>2. /\ \A u \in Urls : Downloaded(u)' = Downloaded(u) /\ TooLarge(u)' = TooLarge(u)
      /\ Continues' = Continues
  BY <1>1 DEF Downloaded, TooLarge, Exceeds, Continues
<1>3. {v \in Urls : ~TooLarge(v)}' = {v \in Urls : ~TooLarge(v)}
  BY <1>2
<1>4. {SizeOf(Downloaded(u)) : u \in {v \in Urls : ~TooLarge(v)}}'
        = {SizeOf(Downloaded(u)) : u \in {v \in Urls : ~TooLarge(v)}}
  BY <1>2, <1>3, SMTT(30)
<1>5. CountedSizes' = CountedSizes
  BY <1>2, <1>4 DEF CountedSizes
<1>6. QED
  BY <1>1, <1>5

\* An entry that process() makes has no size, or that of what was downloaded.
LEMMA RecordedSizes ==
  ASSUME IInv, NEW w \in Workers, Process(w)
  PROVE  manifest' = manifest \/ \E entry : Record(w, entry) /\ SizeOf(entry.sha) \in CountedSizes
<1> DEFINE u == job[w].url
<1>1. SizeOf(None) \in CountedSizes
  BY CrawlerAssumption DEF CountedSizes
<1>2. \A state : Blank(state).sha = None
  BY DEF Blank
<1>3. CASE \E state : Record(w, Blank(state))
  BY <1>1, <1>2, <1>3
<1>4. CASE RecordError(w)
  <2>1. PICK path : Record(w, [Blank("failed") EXCEPT !.path = path])
    BY <1>4 DEF RecordError
  <2>2. [Blank("failed") EXCEPT !.path = path].sha = None
    BY DEF Blank
  <2>3. QED
    BY <1>1, <2>1, <2>2
<1>5. CASE Store(w) \/ StoreFails(w)
  <2>1. stage[w] = "admitted" /\ ~TooLarge(u)
    BY <1>5 DEF Store, StoreFails, ReceivesBody, Unwanted, Delivers, Receives, Fetching
  <2>2. u \in Urls
    BY <2>1, HeldItem
  <2>3. SizeOf(Downloaded(u)) \in CountedSizes
    BY <2>1, <2>2 DEF CountedSizes
  <2>4. PICK state : Record(w, EntryFor(job[w], state))
    BY <1>5 DEF Store, StoreFails
  <2>5. EntryFor(job[w], state).sha = Downloaded(u)
    BY DEF EntryFor
  <2>6. QED
    BY <2>3, <2>4, <2>5
<1>6. CASE LookUpRobots(w) \/ AskRobots(w)
  <2>1. PICK rules : Judge(w, rules) \/ manifest' = manifest
    BY <1>6 DEF LookUpRobots, AskRobots
  <2>2. QED
    BY <1>3, <2>1 DEF Judge
<1>7. CASE RejectOutOfScope(w) \/ RecordStatus(w) \/ RecordRefused(w)
  BY <1>3, <1>7 DEF RejectOutOfScope, RecordStatus, RecordRefused
<1>8. CASE \/ DrainItem(w) \/ AcceptInScope(w) \/ PassBudget(w) \/ StopOverBudget(w) \/ Reuse(w)
           \/ Retry(w) \/ RecordUnchanged(w) \/ FollowLink(w)
  BY <1>8 DEF DrainItem, AcceptInScope, PassBudget, StopOverBudget, Reuse, Retry, RecordUnchanged,
     FollowLink
<1>9. QED
  BY <1>4, <1>5, <1>6, <1>7, <1>8 DEF Process

LEMMA StepEntriesCounted == IInv /\ EntriesCounted /\ [Next]_vars => EntriesCounted'
<1> SUFFICES ASSUME IInv, EntriesCounted, [Next]_vars, phase' = "crawl",
                    NEW u \in Urls, manifest'[u] # None
             PROVE  SizeOf(manifest'[u].sha) \in CountedSizes
  BY CountedSizesStay DEF EntriesCounted
<1>1. ~RewritePhase
  BY DEF RewritePhase, BeginRewrite, Rewrite, RewriteFails, NextDocument
<1>2. phase = "crawl"
  BY <1>1, ZenonT(30) DEF Next, Process, GetItem, NoItemYet, FinishItem, FollowLink, DrainItem,
     RejectOutOfScope, AcceptInScope, LookUpRobots, AskRobots, PassBudget, StopOverBudget, Reuse,
     Retry, RecordError, RecordStatus, RecordRefused, RecordUnchanged, Store, StoreFails, vars,
     runVars
<1>3. CASE manifest' = manifest
  BY <1>2, <1>3 DEF EntriesCounted
<1>4. ASSUME NEW w \in Workers, Process(w), manifest' # manifest
      PROVE  SizeOf(manifest'[u].sha) \in CountedSizes
  <2>1. PICK entry : Record(w, entry) /\ SizeOf(entry.sha) \in CountedSizes
    BY <1>4, RecordedSizes
  <2>2. manifest \in [Urls -> Entry \cup {None}]
    BY DEF IInv, RecordTypeOK
  <2>3. manifest'[u] = entry \/ manifest'[u] = manifest[u]
    BY <2>1, <2>2 DEF Record
  <2>4. QED
    BY <1>2, <2>1, <2>3 DEF EntriesCounted
<1>5. QED
  BY <1>1, <1>3, <1>4 DEF Next, GetItem, NoItemYet, FinishItem, vars

\* A file is counted by a worker that thereby uses up its admission.
LEMMA FileCounted ==
  ASSUME IInv, Over, EntriesCounted,
         NEW w \in Workers, Reuse(w) \/ RecordUnchanged(w) \/ Store(w)
  PROVE  /\ w \in Admitted /\ Admitted' = Admitted \ {w}
         /\ file_count' = file_count + 1
         /\ \E size \in CountedSizes : total_bytes' = total_bytes + size
<1> DEFINE u == job[w].url
<1>1. stage[w] = "admitted" /\ stage \in [Workers -> Stages]
  BY DEF Reuse, RecordUnchanged, Store, ReceivesBody, Delivers, Receives, Fetching, IInv,
         WorkerTypeOK
<1>2. Goto(w, "follow")
  BY DEF Reuse, RecordUnchanged, Store, Revisit, Return
<1>3. Admitted' = Admitted \ {w}
  BY <1>1, <1>2 DEF Admitted, Goto
<1>4. u \in Urls
  BY <1>1, HeldItem
<1>5. phase = "crawl"
  BY <1>1, AllSettled DEF Over
<1>6. \E content : CountFile(content) /\ SizeOf(content) \in CountedSizes
  <2>1. CASE Reuse(w) \/ RecordUnchanged(w)
    <3>1. manifest[u] # None /\ CountFile(manifest[u].sha)
      BY <2>1 DEF Reuse, Reusable, RecordUnchanged, NotModified
    <3>2. QED
      BY <1>4, <1>5, <3>1 DEF EntriesCounted
  <2>2. CASE Store(w)
    <3>1. CountFile(Downloaded(u)) /\ ~TooLarge(u)
      BY <2>2 DEF Store, ReceivesBody, Unwanted
    <3>2. QED
      BY <1>4, <3>1 DEF CountedSizes
  <2>3. QED
    BY <2>1, <2>2
<1>7. QED
  BY <1>1, <1>3, <1>6 DEF Admitted, CountFile

\* Otherwise nothing is counted, and no worker is admitted but by the check.
LEMMA NothingCounted ==
  ASSUME IInv, [Next]_vars,
         ~\E w \in Workers : Reuse(w) \/ RecordUnchanged(w) \/ Store(w)
  PROVE  /\ file_count' = file_count /\ total_bytes' = total_bytes
         /\ (\A w \in Workers : ~PassBudget(w)) => Admitted' \subseteq Admitted
         /\ (\E w \in Workers : PassBudget(w)) => ~OverBudget
<1>1. stage \in [Workers -> Stages]
  BY DEF IInv, WorkerTypeOK
<1>2. file_count' = file_count /\ total_bytes' = total_bytes
  BY ZenonT(30) DEF Next, Process, RewritePhase, GetItem, NoItemYet, FinishItem, FollowLink, DrainItem,
     RejectOutOfScope, AcceptInScope, LookUpRobots, AskRobots, PassBudget, StopOverBudget, Retry,
     RecordError, RecordStatus, RecordRefused, StoreFails, BeginRewrite, Rewrite,
     RewriteFails, NextDocument, vars, countVars
<1>3. ASSUME \A w \in Workers : ~PassBudget(w) PROVE Admitted' \subseteq Admitted
  <2>1. \/ stage' = stage
        \/ \E w \in Workers, s \in Stages \ {"admitted"} : stage' = [stage EXCEPT ![w] = s]
    BY <1>3, ZenonT(30) DEF Next, Process, RewritePhase, GetItem, NoItemYet, FinishItem, FollowLink,
       DrainItem, RejectOutOfScope, AcceptInScope, LookUpRobots, AskRobots, Judge,
       StopOverBudget, Retry, RecordError, RecordStatus, RecordRefused, StoreFails,
       BeginRewrite, Rewrite, RewriteFails, NextDocument, vars, workerVars, Return,
       Goto, Stages
  <2>2. QED
    BY <1>1, <2>1 DEF Admitted
<1>4. QED
  BY <1>2, <1>3 DEF PassBudget

LEMMA StepWithinBudget ==
  IInv /\ Over /\ EntriesCounted /\ WithinBudget /\ [Next]_vars => WithinBudget'
<1> SUFFICES ASSUME IInv, Over, EntriesCounted, WithinBudget, [Next]_vars PROVE WithinBudget'
  OBVIOUS
<1> DEFINE n == Cardinality(Admitted)
           next == Cardinality(Admitted')
           all == Cardinality(Workers)
<1>1. /\ n \in Nat /\ all \in Nat \ {0} /\ n <= all
      /\ file_count \in Nat /\ total_bytes \in Nat
      /\ opts.max_files \in Nat /\ opts.max_total_size \in Nat
  BY AdmittedFinite, OptionTypes DEF IInv, CountTypeOK
<1>2. next \in Nat /\ next <= all
  <2>1. Admitted' \in SUBSET Workers
    BY DEF Admitted
  <2>2. QED
    BY <2>1, CrawlerAssumption, FS_Subset, FS_CardinalityType
<1>3. CountedSizes \subseteq Nat
  BY CountedNumbers DEF IInv
<1>4. /\ opts' = opts
      /\ \A size \in CountedSizes : Largest(size)' <=> Largest(size)
      /\ CountedSizes' = CountedSizes
  BY CountedSizesStay DEF Largest
<1>5. /\ opts.max_files > 0 => file_count' + next <= opts.max_files - 1 + all
      /\ opts.max_total_size > 0 =>
           \A size \in CountedSizes : Largest(size) =>
             total_bytes' + next * size <= opts.max_total_size - 1 + all * size
  <2>1. CASE \E w \in Workers : Reuse(w) \/ RecordUnchanged(w) \/ Store(w)
    <3>1. PICK w \in Workers, added \in CountedSizes :
            /\ w \in Admitted /\ Admitted' = Admitted \ {w}
            /\ file_count' = file_count + 1
            /\ total_bytes' = total_bytes + added
      BY <2>1, FileCounted
    <3>2. next = n - 1
      BY <3>1, AdmittedFinite, FS_RemoveElement
    <3>3. opts.max_files > 0 => file_count' + next <= opts.max_files - 1 + all
      BY <1>1, <3>1, <3>2 DEF WithinBudget
    <3>4. ASSUME opts.max_total_size > 0, NEW size \in CountedSizes, Largest(size)
          PROVE  total_bytes' + next * size <= opts.max_total_size - 1 + all * size
      <4>1. size \in Nat /\ added \in Nat /\ added <= size
        BY <1>3, <3>1, <3>4 DEF Largest
      <4>2. next * size = n * size - size /\ n * size \in Nat /\ all * size \in Nat
        BY <1>1, <3>2, <4>1, Products
      <4>3. total_bytes + n * size <= opts.max_total_size - 1 + all * size
        BY <3>4 DEF WithinBudget
      <4> HIDE DEF n, next, all
      <4>4. QED
        BY <1>1, <3>1, <4>1, <4>2, <4>3
    <3>5. QED
      BY <3>3, <3>4
  <2>2. CASE ~\E w \in Workers : Reuse(w) \/ RecordUnchanged(w) \/ Store(w)
    <3>1. file_count' = file_count /\ total_bytes' = total_bytes
      BY <2>2, NothingCounted
    <3>2. CASE \A w \in Workers : ~PassBudget(w)
      <4>1. Admitted' \in SUBSET Admitted
        BY <2>2, <3>2, NothingCounted
      <4>2. next <= n
        BY <4>1, AdmittedFinite, FS_Subset
      <4>3. opts.max_files > 0 => file_count' + next <= opts.max_files - 1 + all
        BY <1>1, <1>2, <3>1, <4>2 DEF WithinBudget
      <4>4. ASSUME opts.max_total_size > 0, NEW size \in CountedSizes, Largest(size)
            PROVE  total_bytes' + next * size <= opts.max_total_size - 1 + all * size
        <5>1. size \in Nat
          BY <1>3
        <5>2. next * size <= n * size /\ next * size \in Nat /\ n * size \in Nat /\ all * size \in Nat
          BY <1>1, <1>2, <4>2, <5>1, Products
        <5>3. total_bytes + n * size <= opts.max_total_size - 1 + all * size
          BY <4>4 DEF WithinBudget
        <5> HIDE DEF n, next, all
        <5>4. QED
          BY <1>1, <3>1, <5>2, <5>3
      <4>5. QED
        BY <4>3, <4>4
    <3>3. CASE \E w \in Workers : PassBudget(w)
      <4>1. file_count < opts.max_files /\ total_bytes < opts.max_total_size
        BY <1>1, <2>2, <3>3, NothingCounted DEF OverBudget
      <4>2. file_count' + next <= opts.max_files - 1 + all
        BY <1>1, <1>2, <3>1, <4>1
      <4>3. ASSUME NEW size \in CountedSizes
            PROVE  total_bytes' + next * size <= opts.max_total_size - 1 + all * size
        <5>1. size \in Nat
          BY <1>3
        <5>2. next * size <= all * size /\ next * size \in Nat /\ all * size \in Nat
          BY <1>1, <1>2, <5>1, Products
        <5> HIDE DEF n, next, all
        <5>3. QED
          BY <1>1, <3>1, <4>1, <5>2
      <4>4. QED
        BY <4>2, <4>3
    <3>4. QED
      BY <3>2, <3>3
  <2>3. QED
    BY <2>1, <2>2
<1> HIDE DEF n, next, all
<1>6. QED
  BY <1>4, <1>5 DEF WithinBudget, next, all

\* However the workers interleave between the check of the budget and the count
\* of what was downloaded or taken over, the files exceed their limit by at most
\* one for each worker but one, and the bytes stay below theirs plus the largest
\* file that is counted for each worker, whatever the sizes are.
THEOREM OvershootBounded == Spec => []BudgetOvershoot
<1> DEFINE n == Cardinality(Admitted)
           all == Cardinality(Workers)
<1>1. Init => Over /\ EntriesCounted /\ WithinBudget
  <2> SUFFICES ASSUME Init PROVE Over /\ EntriesCounted /\ WithinBudget
    OBVIOUS
  <2>1. Admitted = {} /\ file_count = 0 /\ total_bytes = 0 /\ phase = "crawl"
    BY DEF Init, StartRun, Admitted
  <2>2. /\ n = 0 /\ all \in Nat \ {0}
        /\ opts.max_files \in Nat /\ opts.max_total_size \in Nat
        /\ CountedSizes \subseteq Nat
    BY <2>1, AdmittedFinite, FS_EmptySet, InitIInv, OptionTypes, CountedNumbers DEF IInv
  <2>3. \A size \in CountedSizes : n * size = 0 /\ all * size \in Nat
    BY <2>2, Products
  <2> HIDE DEF n, all
  <2>4. /\ opts.max_files > 0 => file_count + n <= opts.max_files - 1 + all
        /\ opts.max_total_size > 0 =>
             \A size \in CountedSizes : total_bytes + n * size <= opts.max_total_size - 1 + all * size
    BY <2>1, <2>2, <2>3
  <2>5. WithinBudget
    BY <2>4 DEF WithinBudget, n, all
  <2>6. EntriesCounted
    <3>1. PICK past \in IF Continues THEN Leftovers ELSE {Nothing} : manifest = past.manifest
      BY DEF Init
    <3>2. CASE Continues
      BY <3>1, <3>2 DEF EntriesCounted, CountedSizes
    <3>3. CASE ~Continues
      BY <3>1, <3>3 DEF EntriesCounted, Nothing
    <3>4. QED
      BY <3>2, <3>3
  <2>7. QED
    BY <2>1, <2>5, <2>6 DEF Over
<1>2. IInv /\ WithinBudget => BudgetOvershoot
  <2> SUFFICES ASSUME IInv, WithinBudget PROVE BudgetOvershoot
    OBVIOUS
  <2>1. /\ n \in Nat /\ all \in Nat \ {0}
        /\ file_count \in Nat /\ total_bytes \in Nat
        /\ opts.max_files \in Nat /\ opts.max_total_size \in Nat
    BY AdmittedFinite, OptionTypes DEF IInv, CountTypeOK
  <2>2. opts.max_files > 0 => file_count + n <= opts.max_files - 1 + all
    BY DEF WithinBudget
  <2>3. ASSUME opts.max_total_size > 0, NEW size \in CountedSizes, Largest(size)
        PROVE  total_bytes < opts.max_total_size + all * size
    <3>1. size \in Nat
      BY CountedNumbers DEF IInv
    <3>2. n * size \in Nat /\ all * size \in Nat
      BY <2>1, <3>1, Products
    <3>3. total_bytes + n * size <= opts.max_total_size - 1 + all * size
      BY <2>3 DEF WithinBudget
    <3> HIDE DEF n, all
    <3>4. QED
      BY <2>1, <3>2, <3>3
  <2> HIDE DEF n, all
  <2>4. opts.max_files > 0 => file_count <= opts.max_files + (all - 1)
    BY <2>1, <2>2
  <2>5. QED
    BY <2>3, <2>4 DEF BudgetOvershoot, Largest, all
<1>3. QED
  BY <1>1, <1>2, StepOver, StepEntriesCounted, StepWithinBudget, Invariance, PTL DEF Spec
=============================================================================
