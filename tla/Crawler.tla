------------------------------- MODULE Crawler ------------------------------
(***************************************************************************)
(* One run of Crawler (crawler.cpp): the worker pool downloads what it     *)
(* finds (phase one, parallel), then the staged documents are rewritten so *)
(* that their links point at the mirrored files (phase two, sequential).   *)
(*                                                                         *)
(* The queue is WorkQueue.  A worker's way through process() is "stage":   *)
(*                                                                         *)
(*   idle -> begin -> [robots -> [askRobots ->]] budget -> admitted        *)
(*        -> follow -> idle                                                *)
(*                                                                         *)
(* with a short cut to "follow" from each early return.  One action covers *)
(* the code between two accesses to state that other workers write.  While *)
(* the pool runs, the manifest entry and the staged copy of a URL are only *)
(* touched by the one worker that holds the URL, so they are read where    *)
(* they are used and need no copy per worker.                              *)
(*                                                                         *)
(* Abstractions: a URL is a model value with an origin, a type and links;  *)
(* a file's content is which version of which URL it came from and, once   *)
(* rewritten, against which base and with which links made local; its      *)
(* SHA-256 is the content itself.  HTML stands for CSS too: both are       *)
(* staged, searched for links and rewritten.                               *)
(***************************************************************************)
EXTENDS Integers, Sequences, FiniteSets

CONSTANTS
  Workers,      \* the worker threads, max(1, --concurrency) of them
  Urls,         \* URLs without fragment
  StartUrl,     \* the URL the user asked for
  Origins,      \* scheme, host and port
  Versions,     \* versions of a resource; a validator (ETag) names one
  Paths,        \* places inside the output directory
  MaxDepth,     \* the largest --max-depth a run may be given
  OptionSets,   \* the option records a run may be given
  OriginOf,     \* the origin of each URL
  TypeOf,       \* what a response's Content-Type and extension say
  PathOf,       \* PathMapper: where a URL of a kind is stored
  FinalOf,      \* the URL a request for this one ends at after redirects
  Links,        \* the links in a version of a URL, resolved against a base
  Filtered,     \* URLs --exclude, --include or the private-host rule refuse
  Disallowed,   \* URLs their origin's robots.txt disallows
  RobotsReplies,\* how a request for an origin's robots.txt may end
  Replies,      \* how a request for each URL may end
  Validated,    \* URLs served with an ETag or a Last-Modified header
  SizeOf(_),    \* the length in bytes of each content; none counts as 0
  Outside,      \* URLs whose mapped path is not inside the output directory
  StageFaults,  \* URLs whose download may fail to be written in phase one
  RewriteFaults,\* URLs whose rewritten document may fail to be written
  Leftovers,    \* what earlier runs may have left for this one to continue
  None          \* no entry, no file, no path, no digest

Roles == {"navigation", "asset"}
Kinds == {"html", "manifest", "asset"}
Types == Kinds \cup {"other"}
Retryable == {"error", "busy"}
ReplyKinds == {"ok", "missing"} \cup Retryable

Options ==
  [recursive : BOOLEAN, max_depth : 0 .. MaxDepth, same_origin : BOOLEAN,
   download_assets : BOOLEAN, external_assets : BOOLEAN,
   respect_robots : BOOLEAN, list_only : BOOLEAN, dry_run : BOOLEAN,
   resume : BOOLEAN, update_mode : BOOLEAN, force : BOOLEAN,
   rewrite_links : BOOLEAN, retries : Nat, max_files : Nat,
   max_total_size : Nat, max_file_size : Nat]

Link == [url : Urls, role : Roles]

\* Assets are queued at the depth of the page that needs them.
Items == {i \in [url : Urls, depth : 0 .. MaxDepth + 1, role : Roles] :
            i.role = "asset" => i.depth <= MaxDepth}
StartItem == [url |-> StartUrl, depth |-> 0, role |-> "navigation"]

\* The content of a file: as downloaded (base = None), or rewritten with the
\* links that could be resolved pointing at the paths in "local".
Body == [of : Urls, ver : Versions, base : Urls \cup {None}, local : SUBSET Paths]

Entry == [state : {"done", "failed", "skipped"}, path : Paths \cup {None},
          sha : Body \cup {None}, tag : Versions \cup {None}, kind : Kinds]

\* What a run leaves behind: its manifest, the mirror and the staged copies.
Remains ==
  [manifest : [Urls -> Entry \cup {None}], disk : [Paths -> Body \cup {None}],
   raw : [Urls -> Body \cup {None}]]

Nothing ==
  [manifest |-> [u \in Urls |-> None], disk |-> [p \in Paths |-> None],
   raw |-> [u \in Urls |-> None]]

Document == [url : Urls, base : Urls, path : Paths \cup {None}, kind : Kinds]

ASSUME CrawlerAssumption ==
  /\ IsFiniteSet(Workers) /\ Workers # {}
  /\ StartUrl \in Urls
  /\ MaxDepth \in Nat
  /\ OptionSets \subseteq Options
  /\ \A o \in OptionSets : o.list_only => o.dry_run
  /\ OriginOf \in [Urls -> Origins]
  /\ TypeOf \in [Urls -> Types]
  /\ PathOf \in [Urls \X Kinds -> Paths]
  /\ FinalOf \in [Urls -> Urls]
  /\ Links \in [Urls \X Versions \X Urls -> Seq(Link)]
  /\ RobotsReplies \in [Origins -> SUBSET {"rules", "allow_all"}]
  /\ Replies \in [Urls -> SUBSET ReplyKinds]
  /\ \A body \in Body : SizeOf(body) \in Nat
  /\ SizeOf(None) = 0
  /\ Leftovers \subseteq Remains
  /\ None \notin Items /\ None \notin Entry /\ None \notin Body
  /\ None \notin Paths /\ None \notin Versions /\ None \notin Urls
  /\ None \notin {"max_files", "max_total_size"}

VARIABLES
  \* the queue, see WorkQueue
  queue, seen, active, stopping, where, job,
  \* the workers
  stage,            \* where in process() each worker is
  attempt,          \* how many requests it has made in vain
  links,            \* the items it has yet to queue
  \* state the workers share
  robots_by_origin, \* Impl::robots_by_origin; "unknown" when not cached
  documents,        \* Impl::documents
  stats,            \* Impl::stats
  file_count,       \* Impl::file_count
  total_bytes,      \* Impl::total_bytes
  stop_reason,      \* Impl::stop_reason; stop_requested when not None
  manifest,         \* Manifest: what is known of each URL
  \* the output directory
  disk,             \* the mirrored files
  raw,              \* the staged copies, .surl/raw
  \* the rest
  phase,            \* "crawl", "rewrite" or "done"
  opts,             \* the options of this run
  site              \* the version of each URL the servers deliver

queueVars == <<queue, seen, active, stopping, where, job>>
workerVars == <<stage, attempt, links>>
countVars == <<stats, file_count, total_bytes, stop_reason>>
diskVars == <<disk, raw>>
runVars == <<phase, opts, site>>
vars == <<queueVars, workerVars, robots_by_origin, documents, countVars,
          manifest, diskVars, runVars>>

UrlOf == [i \in Items |-> i.url]

WQ == INSTANCE WorkQueue WITH
  Keys <- Urls, KeyOf <- UrlOf, Start <- StartItem, NoItem <- None

Stages == {"idle", "begin", "robots", "askRobots", "budget", "admitted", "follow"}

Tallies == {"downloaded", "reused", "unchanged", "failed", "skipped"}

TypeOK ==
  /\ WQ!TypeOK
  /\ stage \in [Workers -> Stages]
  /\ attempt \in [Workers -> Nat]
  /\ links \in [Workers -> Seq(Items)]
  /\ robots_by_origin \in [Origins -> {"unknown", "rules", "allow_all"}]
  /\ documents \in Seq(Document)
  /\ stats \in [Tallies -> Nat]
  /\ file_count \in Nat
  /\ total_bytes \in Nat
  /\ stop_reason \in {None, "max_files", "max_total_size"}
  /\ manifest \in [Urls -> Entry \cup {None}]
  /\ disk \in [Paths -> Body \cup {None}]
  /\ raw \in [Urls -> Body \cup {None}]
  /\ phase \in {"crawl", "rewrite", "done"}
  /\ opts \in OptionSets
  /\ site \in [Urls -> Versions]

\* run(): a fresh Crawler whose queue holds the start URL.
StartRun ==
  /\ WQ!Init
  /\ stage = [w \in Workers |-> "idle"]
  /\ attempt = [w \in Workers |-> 0]
  /\ links = [w \in Workers |-> <<>>]
  /\ robots_by_origin = [o \in Origins |-> "unknown"]
  /\ documents = <<>>
  /\ stats = [t \in Tallies |-> 0]
  /\ file_count = 0
  /\ total_bytes = 0
  /\ stop_reason = None
  /\ phase = "crawl"

Continues == (opts.resume \/ opts.update_mode) /\ ~opts.force

\* A run that continues an earlier one finds what that one left, any other run
\* an empty directory.  (Clone has all runs on one directory.)
Init ==
  /\ StartRun
  /\ opts \in OptionSets
  /\ \E past \in IF Continues THEN Leftovers ELSE {Nothing} :
       /\ manifest = past.manifest
       /\ disk = past.disk
       /\ raw = past.raw
  /\ site \in [Urls -> Versions]

-----------------------------------------------------------------------------
(* Helpers of process().                                                   *)

StopRequested == stop_reason # None

SameOrigin(u) == OriginOf[u] = OriginOf[StartUrl]

InScope(item) ==
  /\ item.url \notin Filtered
  /\ item.role = "navigation" =>
       /\ item.depth > 0 => opts.recursive
       /\ item.depth <= opts.max_depth
       /\ opts.same_origin => SameOrigin(item.url)
  /\ item.role = "asset" =>
       /\ opts.download_assets
       /\ opts.external_assets \/ SameOrigin(item.url)

NeedsRewriting(kind) == kind \in {"html", "manifest"}

\* An unclassifiable response to a navigation link is taken for a page.
KindOf(item) ==
  IF TypeOf[item.url] # "other" THEN TypeOf[item.url]
  ELSE IF item.role = "navigation" THEN "html" ELSE "asset"

Downloaded(u) == [of |-> u, ver |-> site[u], base |-> None, local |-> {}]

Blank(state) ==
  [state |-> state, path |-> None, sha |-> None, tag |-> None, kind |-> "asset"]

\* The items that a worker holding "item" queues for the links in "body".
Discover(item, body, base) ==
  LET found == Links[<<body.of, body.ver, base>>] IN
  [i \in DOMAIN found |->
     [url   |-> found[i].url,
      depth |-> IF found[i].role = "navigation" THEN item.depth + 1 ELSE item.depth,
      role  |-> found[i].role]]

Goto(w, s) == stage' = [stage EXCEPT ![w] = s]

Record(w, entry) == manifest' = [manifest EXCEPT ![job[w].url] = entry]

Bump(tally) == stats' = [stats EXCEPT ![tally] = @ + 1]

\* process() is about to return, after queueing the items "found".
Return(w, found) ==
  /\ Goto(w, "follow")
  /\ links' = [links EXCEPT ![w] = found]
  /\ attempt' = [attempt EXCEPT ![w] = 0]

\* Of a file that is downloaded its length is added, of one that is taken over
\* the "size" its entry has: the length of what the entry's digest is of, be
\* that the rewritten document, or a file of a run with another --max-file-size.
CountFile(content) ==
  /\ file_count' = file_count + 1
  /\ total_bytes' = total_bytes + SizeOf(content)

-----------------------------------------------------------------------------
(* worker(): waiting for an item, and giving it back.                      *)

GetItem(w) ==
  /\ WQ!PopItem(w)
  /\ Goto(w, "begin")
  /\ UNCHANGED <<attempt, links, robots_by_origin, documents, countVars,
                 manifest, diskVars, runVars>>

\* The ways of pop() that return no item: wait, be woken, or leave.
NoItemYet(w) ==
  /\ WQ!PopStopped(w) \/ WQ!PopLast(w) \/ WQ!PopWait(w) \/ WQ!SpuriousWakeup(w)
  /\ UNCHANGED <<workerVars, robots_by_origin, documents, countVars, manifest,
                 diskVars, runVars>>

FinishItem(w) ==
  /\ stage[w] = "follow"
  /\ links[w] = <<>>
  /\ WQ!FinishItem(w)
  /\ Goto(w, "idle")
  /\ UNCHANGED <<attempt, links, robots_by_origin, documents, countVars,
                 manifest, diskVars, runVars>>

FollowLink(w) ==
  /\ stage[w] = "follow"
  /\ links[w] # <<>>
  /\ WQ!Enqueue(w, Head(links[w]))
  /\ links' = [links EXCEPT ![w] = Tail(@)]
  /\ UNCHANGED <<stage, attempt, robots_by_origin, documents, countVars,
                 manifest, diskVars, runVars>>

-----------------------------------------------------------------------------
(* process() up to the budget check.                                       *)

\* Mutant of DrainItem: the worker leaves its loop without finish_item().
DrainItemLeaves(w) ==
  /\ stage[w] = "begin"
  /\ StopRequested
  /\ where' = [where EXCEPT ![w] = "gone"]
  /\ Goto(w, "idle")
  /\ UNCHANGED <<queue, seen, active, stopping, job, attempt, links,
                 robots_by_origin, documents, countVars, manifest, diskVars,
                 runVars>>

\* After a stop the queue is drained without processing anything.
DrainItem(w) ==
  /\ stage[w] = "begin"
  /\ StopRequested
  /\ Return(w, <<>>)
  /\ UNCHANGED <<queueVars, robots_by_origin, documents, countVars, manifest,
                 diskVars, runVars>>

\* Mutant of RejectOutOfScope: the refusal is counted but not recorded.
RejectSilently(w) ==
  /\ stage[w] = "begin"
  /\ ~StopRequested
  /\ ~InScope(job[w])
  /\ Bump("skipped")
  /\ Return(w, <<>>)
  /\ UNCHANGED <<queueVars, robots_by_origin, documents, file_count,
                 total_bytes, stop_reason, manifest, diskVars, runVars>>

RejectOutOfScope(w) ==
  /\ stage[w] = "begin"
  /\ ~StopRequested
  /\ ~InScope(job[w])
  /\ Record(w, Blank("skipped"))
  /\ Bump("skipped")
  /\ Return(w, <<>>)
  /\ UNCHANGED <<queueVars, robots_by_origin, documents, file_count,
                 total_bytes, stop_reason, diskVars, runVars>>

AcceptInScope(w) ==
  /\ stage[w] = "begin"
  /\ ~StopRequested
  /\ InScope(job[w])
  /\ Goto(w, IF opts.respect_robots THEN "robots" ELSE "budget")
  /\ UNCHANGED <<queueVars, attempt, links, robots_by_origin, documents,
                 countVars, manifest, diskVars, runVars>>

\* What process() does with the rules robots_for() returned.
Judge(w, rules) ==
  IF rules = "rules" /\ job[w].url \in Disallowed
  THEN /\ Record(w, Blank("skipped"))
       /\ Bump("skipped")
       /\ Return(w, <<>>)
  ELSE /\ Goto(w, "budget")
       /\ UNCHANGED <<attempt, links, stats, manifest>>

LookUpRobots(w) ==
  /\ stage[w] = "robots"
  /\ LET rules == robots_by_origin[OriginOf[job[w].url]] IN
       IF rules = "unknown"
       THEN Goto(w, "askRobots") /\ UNCHANGED <<attempt, links, stats, manifest>>
       ELSE Judge(w, rules)
  /\ UNCHANGED <<queueVars, robots_by_origin, documents, file_count,
                 total_bytes, stop_reason, diskVars, runVars>>

\* Mutant of AskRobots: every worker goes by the answer it got itself.
AskRobotsOwnAnswer(w) ==
  /\ stage[w] = "askRobots"
  /\ LET origin == OriginOf[job[w].url] IN
     \E answer \in RobotsReplies[origin] :
       /\ robots_by_origin' =
            IF robots_by_origin[origin] = "unknown"
            THEN [robots_by_origin EXCEPT ![origin] = answer]
            ELSE robots_by_origin
       /\ Judge(w, answer)
  /\ UNCHANGED <<queueVars, documents, file_count, total_bytes, stop_reason,
                 diskVars, runVars>>

\* The request is made without the lock.  Of two answers for an origin the
\* first to be stored stays, and is what both workers then use.
AskRobots(w) ==
  /\ stage[w] = "askRobots"
  /\ LET origin == OriginOf[job[w].url] IN
     \E answer \in RobotsReplies[origin] :
       /\ robots_by_origin' =
            IF robots_by_origin[origin] = "unknown"
            THEN [robots_by_origin EXCEPT ![origin] = answer]
            ELSE robots_by_origin
       /\ Judge(w, robots_by_origin'[origin])
  /\ UNCHANGED <<queueVars, documents, file_count, total_bytes, stop_reason,
                 diskVars, runVars>>

\* --list prints the URL, counts it as skipped and goes on, it may find further
\* links.  (The early return of --list without --recursive needs depth > 0,
\* which InScope has ruled out by then: pages are refused, and assets have the
\* depth of their page, 0.)
TallyListed == IF opts.list_only THEN Bump("skipped") ELSE UNCHANGED stats

\* Mutant of OverBudget: the limit itself is still within the budget.
OverBudgetLate == file_count > opts.max_files \/ total_bytes > opts.max_total_size

OverBudget == file_count >= opts.max_files \/ total_bytes >= opts.max_total_size

PassBudget(w) ==
  /\ stage[w] = "budget"
  /\ ~OverBudget
  /\ TallyListed
  /\ Goto(w, "admitted")
  /\ UNCHANGED <<queueVars, attempt, links, robots_by_origin, documents,
                 file_count, total_bytes, stop_reason, manifest, diskVars,
                 runVars>>

\* note_stop(): the first reason stays; everybody asleep is woken.
StopOverBudget(w) ==
  /\ stage[w] = "budget"
  /\ OverBudget
  /\ TallyListed
  /\ stop_reason' = IF StopRequested THEN stop_reason
                    ELSE IF file_count >= opts.max_files THEN "max_files"
                    ELSE "max_total_size"
  /\ WQ!NotifyAll(w)
  /\ Return(w, <<>>)
  /\ UNCHANGED <<robots_by_origin, documents, file_count, total_bytes,
                 manifest, diskVars, runVars>>

-----------------------------------------------------------------------------
(* process() from the cache lookup to its end.                             *)

\* Mutants of Reusable: without --resume, too; and whether or not the file is
\* still there.
ReusableAlways(u) ==
  /\ manifest[u] # None
  /\ manifest[u].state = "done"
  /\ ~opts.force
  /\ disk[manifest[u].path] # None

ReusableUnseen(u) ==
  /\ manifest[u] # None
  /\ manifest[u].state = "done"
  /\ opts.resume /\ ~opts.update_mode /\ ~opts.force

\* --resume takes over what is done and still on disk.
Reusable(u) ==
  /\ manifest[u] # None
  /\ manifest[u].state = "done"
  /\ opts.resume /\ ~opts.update_mode /\ ~opts.force
  /\ disk[manifest[u].path] # None

\* A document that is not downloaded again is searched for links, and queued
\* for rewriting, from its staged copy, and with the requested URL as base.
Revisit(w) ==
  LET u == job[w].url  entry == manifest[u] IN
  IF NeedsRewriting(entry.kind) /\ raw[u] # None
  THEN /\ Return(w, Discover(job[w], raw[u], u))
       /\ documents' = Append(documents,
            [url |-> u, base |-> u, path |-> entry.path, kind |-> entry.kind])
  ELSE Return(w, <<>>) /\ UNCHANGED documents

Reuse(w) ==
  /\ stage[w] = "admitted"
  /\ Reusable(job[w].url)
  /\ Bump("reused")
  /\ CountFile(manifest[job[w].url].sha)
  /\ Revisit(w)
  /\ UNCHANGED <<queueVars, robots_by_origin, stop_reason, manifest, diskVars,
                 runVars>>

\* fetch_with_retries(): whether a reply ends the loop.
RetryAfter(w, reply) ==
  reply \in Retryable /\ attempt[w] < opts.retries /\ ~StopRequested

Fetching(w) == stage[w] = "admitted" /\ ~Reusable(job[w].url)

Receives(w, reply) ==
  /\ Fetching(w)
  /\ reply \in Replies[job[w].url]
  /\ ~RetryAfter(w, reply)

Retry(w) ==
  /\ Fetching(w)
  /\ \E reply \in Replies[job[w].url] : RetryAfter(w, reply)
  /\ attempt' = [attempt EXCEPT ![w] = @ + 1]
  /\ UNCHANGED <<queueVars, stage, links, robots_by_origin, documents,
                 countVars, manifest, diskVars, runVars>>

\* --update asks with the validator of the cached entry, whatever its state,
\* and the server says 304 when the validator is still current.
NotModified(u) ==
  /\ opts.update_mode /\ ~opts.force
  /\ manifest[u] # None
  /\ manifest[u].tag = site[u]

\* Larger than a --max-file-size; 0 stands for no limit.
Exceeds(limit, body) == limit > 0 /\ SizeOf(body) > limit

\* The backend has cut the body short.
TooLarge(u) == Exceeds(opts.max_file_size, Downloaded(u))

\* Nothing is stored of what is too large, or mapped to a place outside the
\* output directory.
Unwanted(u) == TooLarge(u) \/ u \in Outside

\* The server sends the resource.
Delivers(w) == Receives(w, "ok") /\ ~NotModified(job[w].url)

\* The request failed: the entry keeps the path of the earlier download.
RecordError(w) ==
  /\ Receives(w, "error")
  /\ LET old == manifest[job[w].url] IN
     Record(w, [Blank("failed") EXCEPT !.path = IF old = None THEN None ELSE old.path])
  /\ Bump("failed")
  /\ Return(w, <<>>)
  /\ UNCHANGED <<queueVars, robots_by_origin, documents, file_count,
                 total_bytes, stop_reason, diskVars, runVars>>

\* Mutant of RecordStatus: the failure does not reach the statistics.
RecordStatusUncounted(w) ==
  /\ Receives(w, "busy") \/ Receives(w, "missing")
  /\ Record(w, Blank("failed"))
  /\ Return(w, <<>>)
  /\ UNCHANGED <<queueVars, robots_by_origin, documents, countVars, diskVars,
                 runVars>>

\* The server answered, but not with a 2xx status.
RecordStatus(w) ==
  /\ Receives(w, "busy") \/ Receives(w, "missing")
  /\ Record(w, Blank("failed"))
  /\ Bump("failed")
  /\ Return(w, <<>>)
  /\ UNCHANGED <<queueVars, robots_by_origin, documents, file_count,
                 total_bytes, stop_reason, diskVars, runVars>>

RecordRefused(w) ==
  /\ Delivers(w)
  /\ Unwanted(job[w].url)
  /\ Record(w, Blank("skipped"))
  /\ Bump("skipped")
  /\ Return(w, <<>>)
  /\ UNCHANGED <<queueVars, robots_by_origin, documents, file_count,
                 total_bytes, stop_reason, diskVars, runVars>>

\* 304: the cached entry is kept as it is.
RecordUnchanged(w) ==
  /\ Receives(w, "ok")
  /\ NotModified(job[w].url)
  /\ Bump("unchanged")
  /\ CountFile(manifest[job[w].url].sha)
  /\ Revisit(w)
  /\ UNCHANGED <<queueVars, robots_by_origin, stop_reason, manifest, diskVars,
                 runVars>>

\* The entry of a response that is to be stored.
EntryFor(item, state) ==
  [state |-> state,
   path  |-> PathOf[<<item.url, KindOf(item)>>],
   sha   |-> Downloaded(item.url),
   tag   |-> IF item.url \in Validated THEN site[item.url] ELSE None,
   kind  |-> KindOf(item)]

ReceivesBody(w) == Delivers(w) /\ ~Unwanted(job[w].url)

\* Store, record, count, discover.  What needs rewriting is staged; the rest
\* goes straight to its place; a dry run stores nothing.
Store(w) ==
  LET item == job[w]  u == item.url  kind == KindOf(item)
      entry == EntryFor(item, "done") IN
  /\ ReceivesBody(w)
  /\ IF NeedsRewriting(kind) /\ ~opts.dry_run
     THEN /\ raw' = [raw EXCEPT ![u] = Downloaded(u)]
          /\ documents' = Append(documents,
               [url |-> u, base |-> FinalOf[u], path |-> entry.path, kind |-> kind])
     ELSE UNCHANGED <<raw, documents>>
  /\ disk' = IF NeedsRewriting(kind) \/ opts.dry_run THEN disk
             ELSE [disk EXCEPT ![entry.path] = Downloaded(u)]
  /\ Record(w, entry)
  /\ Bump("downloaded")
  /\ CountFile(Downloaded(u))
  /\ Return(w, IF kind = "html" THEN Discover(item, Downloaded(u), FinalOf[u]) ELSE <<>>)
  /\ UNCHANGED <<queueVars, robots_by_origin, stop_reason, runVars>>

\* write_file_atomic() failed.  The old file is still there, or lost when only
\* the rename that was to replace it failed.
StoreFails(w) ==
  LET item == job[w]  u == item.url  entry == EntryFor(item, "failed") IN
  /\ ReceivesBody(w)
  /\ ~opts.dry_run
  /\ u \in StageFaults
  /\ \/ UNCHANGED diskVars
     \/ NeedsRewriting(entry.kind) /\ raw' = [raw EXCEPT ![u] = None] /\ UNCHANGED disk
     \/ ~NeedsRewriting(entry.kind) /\ disk' = [disk EXCEPT ![entry.path] = None] /\ UNCHANGED raw
  /\ Record(w, entry)
  /\ Bump("failed")
  /\ Return(w, <<>>)
  /\ UNCHANGED <<queueVars, robots_by_origin, documents, file_count,
                 total_bytes, stop_reason, runVars>>

-----------------------------------------------------------------------------
(* run() after the workers have been joined, and rewrite_phase().          *)

BeginRewrite ==
  /\ phase = "crawl"
  /\ WQ!At("gone") = Workers
  /\ phase' = IF opts.dry_run \/ documents = <<>> THEN "done" ELSE "rewrite"
  /\ UNCHANGED <<queueVars, workerVars, robots_by_origin, documents, countVars,
                 manifest, diskVars, opts, site>>

\* Mutant of Mirrored: an entry with a path is enough.
MirroredAnyState(u) == manifest[u] # None /\ manifest[u].path # None

\* The resolver: a link is made local when its target is done and has a path.
Mirrored(u) ==
  manifest[u] # None /\ manifest[u].state = "done" /\ manifest[u].path # None

Targets(body, base) ==
  LET found == Links[<<body.of, body.ver, base>>] IN
  {found[i].url : i \in DOMAIN found}

Rewritten(document) ==
  LET body == raw[document.url] IN
  IF opts.rewrite_links /\ document.kind = "html"
  THEN [body EXCEPT !.base = document.base,
                    !.local = {manifest[u].path : u \in {t \in Targets(body, document.base) : Mirrored(t)}}]
  ELSE body

NextDocument ==
  /\ phase = "rewrite"
  /\ documents' = Tail(documents)
  /\ phase' = IF Len(documents) = 1 THEN "done" ELSE "rewrite"
  /\ UNCHANGED <<queueVars, workerVars, robots_by_origin, countVars, raw, opts, site>>

\* The staged copy cannot be read, or the destination is refused.  Nothing in
\* the run itself leads here: somebody has removed the staged copies since, and
\* Clone, where surl clean does, adds this step.
PassOver ==
  /\ NextDocument
  /\ raw[Head(documents).url] = None \/ Head(documents).url \in Outside
  /\ UNCHANGED <<disk, manifest>>

\* Mutant of Rewrite: the checksum stays that of the download.
RewriteKeepsSum ==
  /\ NextDocument
  /\ LET document == Head(documents)  u == document.url IN
       /\ raw[u] # None /\ u \notin Outside
       /\ disk' = [disk EXCEPT ![document.path] = Rewritten(document)]
  /\ UNCHANGED manifest

Rewrite ==
  /\ NextDocument
  /\ LET document == Head(documents)  u == document.url IN
       /\ raw[u] # None /\ u \notin Outside
       /\ disk' = [disk EXCEPT ![document.path] = Rewritten(document)]
       /\ manifest' = IF manifest[u] = None THEN manifest
                      ELSE [manifest EXCEPT ![u].sha = Rewritten(document)]

\* The write fails: a warning, and the entry stays as phase one left it.
RewriteFails ==
  /\ NextDocument
  /\ LET document == Head(documents) IN
       /\ raw[document.url] # None /\ document.url \notin Outside
       /\ document.url \in RewriteFaults
       /\ disk' = disk \/ disk' = [disk EXCEPT ![document.path] = None]
  /\ UNCHANGED manifest

-----------------------------------------------------------------------------

Process(w) ==
  \/ DrainItem(w) \/ RejectOutOfScope(w) \/ AcceptInScope(w)
  \/ LookUpRobots(w) \/ AskRobots(w)
  \/ PassBudget(w) \/ StopOverBudget(w)
  \/ Reuse(w) \/ Retry(w)
  \/ RecordError(w) \/ RecordStatus(w) \/ RecordRefused(w) \/ RecordUnchanged(w)
  \/ Store(w) \/ StoreFails(w)
  \/ FollowLink(w)

RewritePhase == BeginRewrite \/ Rewrite \/ RewriteFails

Next ==
  \/ \E w \in Workers : GetItem(w) \/ NoItemYet(w) \/ Process(w) \/ FinishItem(w)
  \/ RewritePhase

Spec == Init /\ [][Next]_vars

\* Threads that can run are run, and every request ends: it has a timeout.
Fairness ==
  /\ \A w \in Workers :
       /\ WF_vars(GetItem(w) \/ (NoItemYet(w) /\ where[w] = "popping"))
       /\ WF_vars(Process(w) \/ FinishItem(w))
  /\ WF_vars(RewritePhase)

FairSpec == Spec /\ Fairness

-----------------------------------------------------------------------------
(* Safety.                                                                 *)

\* The sizes that a run may add up: of what it may download, and of what the
\* entries that it started with name.
CountedSizes ==
  {0} \cup {SizeOf(Downloaded(u)) : u \in {v \in Urls : ~TooLarge(v)}}
      \cup (IF Continues
            THEN UNION {{SizeOf(past.manifest[u].sha) : u \in {v \in Urls : past.manifest[v] # None}} :
                        past \in Leftovers}
            ELSE {})

\* The budgets are checked before a download and updated after it, so every
\* other worker may be in between.  --max-files is overrun by at most one file
\* for each worker but one.  The bytes stay below --max-total-size plus one file
\* for each worker; the largest of them need not be within --max-file-size, it
\* may have been taken over.
BudgetOvershoot ==
  LET workers == Cardinality(Workers) IN
  /\ opts.max_files > 0 => file_count <= opts.max_files + (workers - 1)
  /\ opts.max_total_size > 0 =>
       \A largest \in CountedSizes : (\A size \in CountedSizes : size <= largest) =>
         total_bytes < opts.max_total_size + workers * largest

\* Every URL that was ever queued has an entry when the run ends, unless a
\* budget stopped it: nothing is lost on an early return.
NothingForgotten ==
  phase = "done" /\ ~StopRequested => \A u \in seen : manifest[u] # None

Count(state) == Cardinality({u \in Urls : manifest[u] # None /\ manifest[u].state = state})

\* The statistics, which decide the exit code, agree with the manifest a fresh
\* run leaves behind.
TalliesMatchManifest ==
  ~opts.list_only /\ ~Continues =>
    /\ stats["downloaded"] = Count("done") /\ file_count = Count("done")
    /\ stats["failed"] = Count("failed")
    /\ stats["skipped"] = Count("skipped")

Done(u) == manifest[u] # None /\ manifest[u].state = "done"

\* What surl check relies on: after a run every entry that is done names a
\* file on disk, and its checksum is that of the file, rewritten or not.  A
\* document that could not be written in phase two spoils no other entry.
ManifestMatchesDisk ==
  phase = "done" /\ ~opts.dry_run =>
    \A u \in Urls \ RewriteFaults : Done(u) => disk[manifest[u].path] = manifest[u].sha

\* The files that phase two may fail to write.
LinkFaults == {PathOf[<<u, k>>] : u \in RewriteFaults, k \in Kinds}

\* Every link that was made local leads to a file of the mirror, if that file
\* could be written.
LocalLinksResolve ==
  phase = "done" =>
    \A p \in Paths : disk[p] # None =>
      \A q \in disk[p].local \ LinkFaults : disk[q] # None

\* A URL that the rules in force for its origin disallow gets no further than
\* the robots check, whichever worker obtained the rules and however many did.
RobotsObeyed ==
  \A w \in Workers :
    stage[w] \in {"budget", "admitted"} /\ opts.respect_robots /\ job[w].url \in Disallowed =>
      robots_by_origin[OriginOf[job[w].url]] = "allow_all"

\* Workers keep references into the robots cache: what is in it is never
\* replaced while the run lasts.
RobotsStable ==
  [][\A o \in Origins : robots_by_origin[o] # "unknown" =>
       robots_by_origin'[o] = robots_by_origin[o]]_vars

-----------------------------------------------------------------------------
(* What the last two properties of the mirror rest on for every value of   *)
(* the constants, see Crawler_proofs.                                      *)

\* Where PathMapper may put u: nowhere, if what it says is refused.
PlacesOf(u) == IF u \in Outside THEN {} ELSE {PathOf[<<u, k>>] : k \in Kinds}

\* No two URLs share a file, whatever their kinds (see Addresses, PagesApart).
PlacesApart ==
  \A u, v \in Urls, k, l \in Kinds : PathOf[<<u, k>>] = PathOf[<<v, l>>] => u = v

\* Entries name files of their own.
Located(entries) ==
  \A u \in Urls : entries[u] # None =>
    /\ entries[u].path \in PlacesOf(u) \cup {None}
    /\ entries[u].state = "done" => entries[u].path # None /\ entries[u].sha # None

\* What earlier runs left was in order: the files are what the entries say,
\* staged copies are as they were downloaded, and links lead to files.
Sound(past) ==
  /\ Located(past.manifest)
  /\ \A u \in Urls \ RewriteFaults :
       past.manifest[u] # None /\ past.manifest[u].state = "done" =>
         past.disk[past.manifest[u].path] = past.manifest[u].sha
  /\ \A u \in Urls : past.raw[u] # None => past.raw[u].local = {}
  /\ \A p \in Paths : past.disk[p] # None =>
       \A q \in past.disk[p].local \ LinkFaults : past.disk[q] # None

SoundLeftovers == \A past \in Leftovers : Sound(past)

-----------------------------------------------------------------------------
(* Liveness, and what the run implements.                                  *)

\* Every run comes to an end, and with it both phases.
Terminates == <>(phase = "done")

\* process() uses the queue as WorkQueue says: it finishes every item it takes
\* and queues only while it holds one.
ImplementsWorkQueue == WQ!FairSpec
=============================================================================
