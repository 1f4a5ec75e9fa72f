# surl in TLA+

surl mirrors websites: it downloads a page or a site, rewrites the links
between what it downloaded so that the copy works offline, and keeps a manifest
that later runs use to resume or to update. This directory holds a formal model
of it, the TLC runs that check the model on small instances, and proofs, checked
by TLAPS, that hold for every instance.

Line numbers refer to `src/src/...` (the implementation), `src/include/surl/...`
(the headers) and `src/docs/...`.

## 1. Inventory of the system

| component | state it keeps | operations | talks to |
|---|---|---|---|
| Worker pool and queue (`mirror/crawler.cpp` 125-221, 649-657, 745-782) | `queue`, `seen`, `active_workers`, `stopping`; one mutex, one condition variable | `pop`, `enqueue`, `finish_item`, `note_stop` | `process()` calls them from every worker |
| `process()` (`crawler.cpp` 229-647) | `robots_by_origin`, `documents`, `stats`, `file_count`, `total_bytes`, `stop_reason`, each behind its own lock or atomic | scope, robots, budget, cache, request with retries, store, record, discover | queue, manifest, HTTP client, files |
| Rewrite phase (`crawler.cpp` 659-732, `mirror/rewrite.cpp`) | the list of staged documents | one document after another: read the staged copy, resolve links, write, update the checksum | manifest, files |
| Manifest (`mirror/cache.cpp`) | entries by URL; on disk `.surl/manifest.json` | `load`, `find`, `put`, `save` | `process()`, commands |
| Commands (`cmd/commands.cpp`, `cmd/maintenance.cpp`) | the process: exit code, options | `clone`, `mirror`, `check`, `clean`, `install`, `config`, `doctor` | everything above |
| Files (`util/fsutil.cpp`) | the output directory, a ticket counter | `write_file_atomic`, `read_file`, `remove_tree` | crawler, manifest, config |
| Rate limiter (`crawler.cpp` 27-65) | window start, bytes consumed | `consume` | workers |
| robots.txt (`net/robots.cpp`) | the rules of the groups that apply, a delay | `parse`, `is_allowed` | `process()` |
| URLs (`net/url.cpp`) | none | `parse_url`, `resolve_url`, `to_string`, `same_origin` | everything that meets a reference |
| Path mapping (`mirror/pathmap.cpp`, `fsutil.cpp` 196-239) | none | `relative_path_for`, `sanitize_path_component`, `relative_link` | `process()`, rewriter |
| Scanners (`parse/html.cpp`, `parse/css.cpp`) | none | `scan_html`, `scan_css`, entities, srcset, meta refresh | rewriter |
| Rewriter (`mirror/rewrite.cpp`) | none | `discover_html_links`, `rewrite_html`, the same for CSS | `process()`, rewrite phase |
| HTTP (`net/http_*.cpp`) | connection handles | `perform` | `process()`, `update`, `inspect` |
| Preview server (`cmd/serve.cpp`) | listening socket | accept loop, one thread for each client | files |
| Options, configuration (`cli/options.cpp`, `cmd_config`) | defaults, file, command line | `apply_config_file`, `parse_command_line`, `config get/set/unset` | commands, files |
| Update, paths, utilities | `PATH`, version, globs, sizes | pure functions, and edits of the environment | commands |

What is hard in it:

* **Threads.** A pool of workers shares a queue, and nobody knows the number of
  items in advance. The pool has to find out that it is done: a worker that
  finds the queue empty must not leave while another may still queue links, and
  no wake-up may be lost. `process()` has more than ten ways to return.
* **Check, request, update.** Robots rules and budgets are checked, a request
  is made without any lock, and the shared state is updated afterwards.
* **Two phases.** The final content of a document depends on what happened to
  every other URL, so phase one stages documents and records checksums that
  phase two replaces.
* **Partial failure.** Requests and writes fail one by one; manifest,
  statistics, staged copies, files and exit code must agree all the same.
* **Replacing files.** A file is written under a temporary name and renamed, by
  several threads and perhaps processes; each system call may fail, and the
  process may be killed between any two.
* **Several runs.** The manifest is saved at the very end; a run may be killed
  before. Later runs trust the manifest (`--resume`), ask the server whether it
  is current (`--update`) or ignore it (`--force`), on a site that has changed
  and in a directory in which files were deleted, perhaps by `surl clean`, and over a
  manifest that was damaged or comes from a newer version.
* **A lock that is given back.** `consume()` sleeps without its mutex, and goes on
  with what it knew before.
* **Texts inside texts.** A reference is found in CSS in an attribute in HTML, is
  decoded twice, resolved, mapped to a file name that any file system takes, and
  encoded again on the way back; a browser, or `surl serve`, has to undo it all.
* **Clients.** Whoever connects to the preview server may send nothing, half a
  request, or hang up while it is answered.
* **Three sources of an option**, and a file that two processes may edit at once.

What makes it correct, by component:

* *Queue*: each URL is worked on at most once, and if the run is not stopped
  exactly once; the pool ends, and only when nothing is left.
* *process()*: no URL is lost on an early return; every outcome is recorded and
  counted once; robots rules are obeyed whoever fetched them; the budgets hold
  up to a known overshoot.
* *Rewrite phase*: entries that are done name files with that checksum, and a
  link that was made local leads to a file.
* *robots.txt*: exactly the rules of the right groups are kept, and the longest one
  that matches decides, as the patterns are described.
* *Files*: a file changes from one whole content to another at one moment, and a
  write that fails says so and leaves nothing behind.
* *Several runs*: old and new entries fit together; the saved manifest never
  promises a file that a killed run took away; update and resume repair what
  they are there to repair; `surl check` calls intact only what is; a dry run
  writes nothing, and a manifest that is not understood is not replaced.
* *Rate limiter*: the calls of a window never get ahead of the limit.
* *URLs, path mapping*: a reference means what RFC 3986 says; every URL is stored
  below the output directory, also when its name or path is too long; a link leads to the file of its target, in a
  browser and through the preview server.
* *Scanners, rewriter*: exactly the references of a page are found, and after
  rewriting each of them leads where it did.
* *Preview server*: whoever stays is answered in full, whatever the others do, and
  every connection is closed in the end.
* *Options*: the last flag decides, over the file and the defaults; what `config
  set` was told is what is used; edits add up; a broken file is kept.

## 2. The modules

| module | what it is | code |
|---|---|---|
| `Frontier` | the abstract promise of the queue: sets of open, working and retired keys, and whether the crawl is closed | none, a specification |
| `WorkQueue` | the queue and the workers' loop; one action for each critical section | `crawler.cpp` 156-220, 649-657 |
| `Crawler` | one run: `process()` on top of `WorkQueue`, then `rewrite_phase()` | `crawler.cpp` 101-782 |
| `CrawlerClaims` | what documentation and comments say of a run, and does not hold | none |
| `Clone` | several runs on one directory, around `Crawler` | `commands.cpp` 83-174, `maintenance.cpp` 14-195, `cache.cpp` 112-209 |
| `AtomicFiles` | the abstract promise of an atomic write: a register for each path | none, a specification |
| `FileStore` | `write_file_atomic()`, one action for each system call | `fsutil.cpp` 29, 58-117 |
| `RobotsTxt` | `parse()` line by line, `is_allowed()` rule by rule, and how patterns match | `robots.cpp` 12-169 |
| `RateLimiter` | `consume()`, before and after its sleep | `crawler.cpp` 27-65 |
| `Url` | parsing, resolving, normalising and writing URLs | `url.cpp`, `strings.cpp` 66-88 |
| `PathMap` (on `Url`) | file names, paths, relative links, and what `surl serve` makes of a path | `pathmap.cpp`, `fsutil.cpp` 196-239, `strings.cpp` 108-143, `serve.cpp` 118-147 |
| `Addresses` (on `PathMap`) | the way of a reference, from its text to the link in the mirror | none, it calls the above |
| `Html` (on `PathMap`) | the scanners of HTML and CSS | `html.cpp`, `css.cpp` |
| `Pages` (on `Html`) | discovery and rewriting of a page | `rewrite.cpp` |
| `Serve` (on `PathMap`) | the preview server, its threads and its clients | `serve.cpp` 36-281 |
| `Settings` | options from defaults, file and command line; `surl config` | `options.cpp`, `main.cpp` 36-60, `commands.cpp` 457-563 |
| `WorkQueue_proofs`, `Crawler_proofs`, `Clone_proofs`, `FileStore_proofs`, `RateLimiter_proofs`, `RobotsTxt_proofs`, `PathMap_proofs`, `Settings_proofs` | theorems | none |
| `MC...` | small sites, texts and option sets for TLC | none |

**WorkQueue.** `where[w]` is where a worker stands: at the top of the loop in
`pop()` ("popping"), asleep on the condition variable ("waiting"), between
`pop()` and `finish_item()` ("busy") or out of its loop ("gone"). `pop()` is four
actions, one for each way an iteration of its loop ends. `notify_all` makes every
sleeper a popper and `notify_one` any one of them; a sleeper may also wake up
for no reason. What a worker does with an item is left open: it may queue
anything. `WorkQueue` implements `Frontier` (`ImplementsFrontier`), with open =
queued keys, working = keys held by workers, retired = the rest of the seen-set.

**Crawler.** `stage[w]` is how far a worker has come in `process()`. A new stage
begins only where the code touches state that other workers write, so each
action is the code between two such accesses; the entry and staged copy of a URL
belong to the worker that holds the URL and are read in place. A worker is past
a stage by exactly one of the actions for its early returns. `Crawler` contains
`WorkQueue` as `WQ!` and implements it (`ImplementsWorkQueue`).

**Clone.** The process and its memory come and go around the files: `Launch`
loads the manifest, `Crawl` is any step of `Crawler`, `Finish` saves and exits.
`Refuse` is a manifest that is damaged or too new (`SpoilManifest`): the command ends
at once. `Kill` may happen at any step, `FinishUnsaved` is a manifest that cannot be
written, `SiteChanges` gives a resource a new version between runs, `LoseFile`
deletes a file between runs, `Clean` removes `.surl` at any time, since no lock
keeps `surl clean` from a directory in use. `CheckExitCode` is what `surl check`
would say at any moment.

**FileStore.** `pc[w]` is the next system call of a writer, which is a thread of
a process. `dir` maps names to inodes and `content` inodes to blocks, so that an
open file and its name are different things: `rename()` moves an inode, and who
writes through a handle writes to whatever has that inode now. `Exit` ends a
process at any moment and starts it again, with its ticket counter at zero and
the temporary files of the killed writes still there. `FileStore` implements
`AtomicFiles` (`ImplementsAtomicFiles`) as long as one process writes; the moment
of the change is `Rename`. In `Crawler` and `Clone` a write is one action with
the outcomes `AtomicFiles` allows: the new content, the old one, or (after a
refused rename) none.

**RobotsTxt.** `parse()` reads a file line by line, and any file is some sequence
of lines, so each line is an action with any field and value, and `lines` keeps
what has been read. `exact` and `wildcard` are the two buckets of `parse()`, and
`saw_exact`, `group_matches_exact`, `group_matches_wildcard`, `collecting_agents` its
flags. `Ask` calls `is_allowed()` for any path, whose loop is `Consider`, one rule at
a time. `WildcardMatch` is the loop of `wildcard_match()` as a recursive function of
its four variables. `Crawler` knows only whether a URL is disallowed.

**RateLimiter.** `Consume` is `consume()` up to the sleep, or all of it when there is
nothing to wait for; `Wake` is the rest. `call[w]` is what a worker keeps on its stack
while it sleeps: above all the age of the window as it was *before*, by which it
decides afterwards whether to start a new one. `now` is the clock. What calls
have returned with is counted in three ghost variables.

**Url, PathMap, Html, Pages.** A text is a sequence of characters, where a word that
nothing looks into (a host label, a tag, an escape such as `%2F`) is one
character. Each function of the code is an operator on such texts, with one
line for each step of the code that can change the result. `Addresses` puts a reference
together from pieces and `Pages` a page from elements, so that TLC sees
every combination; what an element *means* is written beside it, by hand, as a
reader of HTML would say it.

**Serve.** `thread[c]` is how far the thread of a client has come; a step of it
ends where it blocks, in `recv()` or `send()`. Clients are the environment:
`Connect`, `Send` and `HangUp` happen at any moment, or never. `Answered` is the whole
decision between 200, 400, 403, 404 and 405.

**Settings.** A process parses its command line argument by argument (`at`), then
runs, or reads and writes the configuration file in two steps, between which
others may. `wanted`, `stale`, `steady` and `found` are ghosts: what was set, by whom
it was seen, and whether edits overlapped.

### Abstractions

* In `Crawler` and `Clone` a URL is a model value with an origin, a type, and
  the links of each of its versions. Texts are not parsed there (`Url`, `PathMap`
  and `Html` read them); the content of a file is which version of
  which URL it is and, once rewritten, the base and the links made local. Its
  SHA-256 is the content itself.
* HTML stands for CSS too: both are staged, searched and rewritten. A web app
  manifest is staged and copied.
* Which rule of robots.txt decides, where a URL is stored, and whether
  `--include`, `--exclude` or the private-host rule refuse it are constants.
* `record()`, `bump()` and the counters after a download are one action. Of what
  it changes, other workers read the file and byte counters only, to pass the
  budget; one that reads them before they are advanced is one that passes the
  budget before this action, which the model allows.
* The two counters `over_budget()` reads are read at once: between the two
  loads they only grow, so whatever passes both loads one after the other could
  have passed at the first.
* In `Crawler`, `--delay`, backoff and the rate limiter only let time pass; every
  action may happen arbitrarily late anyway.
* The staged copy of a URL has one name; in the code it depends on the kind
  too, which differs only when the Content-Type of a URL changes between runs.
* `--list` without `--recursive` has an early return that needs an item of
  depth > 0; `in_scope()` has refused all of those by then.
* In `RobotsTxt` a line is its field and its value in lower case; lines that are
  skipped before they can matter, and the list of sitemaps, which nothing reads, are
  left out. Agents are model values: whether the value of a User-agent line names
  us (equals our token, or is a beginning of it) is the constant `Ours`. A delay
  is a number of seconds.
* In `FileStore` a temporary file can always be removed, and every call may fail
  in all other respects. A file is written in `BlockCount` pieces, of one content
  each. The page cache is not modelled: a kill loses no write that has returned
  (a power failure may; the code does not call `fsync`, and promises nothing).
* The difference between capital and small letters is kept only where a scanner
  has to ignore it (`Lower`, `ClosingTag`). Numeric entities are entries of a table.
* Lengths are constants, and counted in characters of the model: the cut of a name
  (180 in the code, without a hash), the hash of a path (200) and the extensions that
  either keeps. In bytes the code may cut inside an escape that was decoded or inside a
  character of UTF-8, a hash has 8 digits and `_long` five letters; here a hash is one
  character and `_long` two.
* `is_private_or_loopback_host()` is left out, and so are the spaces and the sign that
  `strtoul()` takes in front of the port of an IPv6 address.
* `Settings` has the flags that share an option with others, need a value, or
  are read in a way of their own; short names, lists and durations are left out.
  An int has `IntSize` values, so that a number that does not fit is a small one.
* In `Serve` the listening socket is there from the start, and a client that
  stays reads what it is sent.
* In `Clone`, the site changes between runs only and a resource never returns
  to an earlier version. Files are lost only from mirrors of a site that stays
  as it is and whose runs are not killed: the variable `fate` keeps these
  histories apart, and each property says for which it holds. Damage and a
  changing site together leave nothing to check: what was lost may be
  unreachable for ever.

## 3. The runs

| run | expects | what it shows |
|---|---|---|
| `work_queue` | pass | three workers, four URLs, any discoveries: no wake-up is lost, and the queue implements `Frontier`, with its liveness |
| `crawler` | pass | one run on a site of five resources with two workers and nine option records |
| `clone` | pass | up to three runs of one worker in five modes, with changes, kills, damage, and a manifest that is not understood |
| `file_store` | pass | two threads of one process, killed and started again at any moment, replace one file |
| `robots` | pass | every robots.txt of up to four lines, and four paths asked about after every beginning of it |
| `rate_limiter` | pass | two workers and every order of calls, wake-ups and windows in six ticks |
| `addresses` | pass | every reference of up to four pieces, from five documents, with limits that cut names and hash paths |
| `pages` | pass | every page of up to two elements out of 47 |
| `serve` | pass | two clients with seven kinds of request, who stop or hang up at any moment |
| `settings` | pass | three processes, two at a time, 17 command lines, and a user who edits the file once |
| `robots_star` | violation | see findings |
| `redirect` | violation | see findings |

Every property of a passing run has a mutant: a definition of the model changed
the way a slip in the code would change it, with which TLC finds the property
violated. The mutants stand next to what they replace. What the proofs establish
for all instances (types, the exact count of active workers, single processing, safe
termination, the stability of robots rules and of files) is not checked
again by a run, except where a run shows what a theorem is about.

More `.cfg` files show known limits of the program (section 5): `MCTwoProcesses`
(of `MCFileStore`), `MCWriteFails` (`MCCrawler`), `MCDepthTwo` (`MCDepth`),
`MCInterrupted` and `MCPartial` (`MCClone`), `MCDelicate` (`MCPages`), `MCServeStops`
(`MCServe`), `MCMirrorDefaults` (`MCSettings`) and `MCLongNames` (`MCAddresses`). In each of
them TLC finds the one property violated.

### Bounds, and why they are enough

* *Three workers* in `work_queue`: one asleep, one about to sleep and one at
  work is the least in which a notification can reach the wrong one. Four keys
  and two depths let a worker queue more than there are sleepers. The proofs
  cover every number.
* *Two workers* in `crawler`: every race here is between two of them (same
  origin, same budget, discovery of the same URL). Five resources: a start page,
  a page at depth one and one at depth two (beyond the limit for its own links),
  an image shared by all on another origin, and an asset that robots.txt
  disallows and that maps outside of the output. Replies include errors, a
  retryable status, a missing page and, where `--max-file-size` is 1, one that is
  cut short. Sizes are 1 and 2, and 8 for a document that has been rewritten. Option
  records: defaults; three tight budgets (files, bytes, both); a single page without
  recursion; a dry run; `--list`; and two `--resume` runs and an `--update` run that go
  on from a partial mirror, which holds failed and skipped entries too. One of the
  `--resume` runs has a smaller `--max-file-size` than the run before, and a budget that
  the files it takes over exceed.
* *One worker* in `clone`: the races are covered by `crawler`; here the hard
  part is the order of runs, modes, changes, kills and losses. *Three runs* are
  one to build, one to disturb and one to repair. Two versions of each resource;
  one page has no validator, and may fail.
* *Two threads, one path, two tickets* in `file_store`: a collision is between two
  writers of one file, and after a kill the tickets begin again at zero and meet
  the temporary files of before. One path and two temporary names need three
  inodes. Two blocks are the least of which one can be missing, and two contents
  the least that can be mixed. The proofs cover every number.
* *Four lines, three agents, five patterns, four paths* in `robots`: two headers with
  a rule each, or one header of two agents with two rules, are the least in which
  groups and ties can be confused. The agents are ours, another and `*`; the
  patterns are empty, two prefixes of different length, a star with and one
  without an end anchor; the paths tell them apart, and one makes the wildcard go
  back after a mismatch. The proofs cover every number, and any pattern.
* *Two workers, sizes 1 and 3, rate 2* in `rate_limiter`: one size passes at once and one
  has to sleep, and a window can be replaced while the other worker is asleep.
* *Four pieces* in `addresses`: `..`, a slash, a name, and what is encoded, queried or
  marked by `#` meet in all orders; one piece is a scheme, one names an authority, and one
  is three letters long. The documents are one at the root, one with a query in a directory
  that is alone longer than what is kept of a path, one whose path is just too long and has
  a device's name at the beginning of a directory's, one on another origin with a port and
  a user, and one with a host in brackets. *Names of 8 and paths of 16 characters*, of which
  6 are kept, and extensions of 2, or of 3 in a cut: three pieces get past each of these
  limits, with and without an extension, and the ordinary paths of both origins stay below.
  The proofs cover every length, and every limit that `PathMapAssumption` allows, those of
  the code among them.
* *Two elements* in `pages`: what an element leaves open (a `<title>`, a quote, a
  comment, a `<base>`) can only disturb what comes after it or, for a base, all others.
  Each kind of link is tried with six references that need an encoding of their own
  in some context.
* *Two clients, one thread granted* in `serve`: one who never goes on, and one who wants
  an answer; a second thread may be refused, which ends the process.
* *Two processes at a time, three in all* in `settings`: a lost update needs two, and
  a third to see the result.
* `max_files |-> 10`, `max_total_size |-> 100` are "no limit" for sites of five
  resources of size 8 at most; `retries |-> 1` in `crawler` makes both branches of the
  retry loop happen.

`CHECK_DEADLOCK FALSE` is set where the system really stops: when the run is
over, when no further run may be started, in `file_store`, where nobody has to
write, and in the runs that end when nothing is left to do.

### Fairness

The operating system runs every thread that can run, and `process()` returns:
each request has a timeout and its retries are counted. So `WorkQueue` has weak
fairness of each worker's `pop()` and `finish_item()`, and `Crawler` of each
worker's steps, except for spurious wake-ups, which are never relied on. A sleeping
worker is not forced to wake: that it is woken is what `NoLostWakeup` and
`ImplementsFrontier` and `Terminates` say. `Serve` has weak fairness of the accept loop and of
each thread, and none of the clients: a thread that waits in `recv()` is not
enabled until its client goes on. `Clone` has no fairness, and no liveness property: a run
may be killed, and nobody has to start another. Nor has `FileStore`: nobody has
to write, and `AtomicFiles` promises what is there and not that it will be; nor
`RobotsTxt`, whose loops are over what they read. `RateLimiter` and `Settings` state
what may not happen, and the other modules are about functions.

## 4. The proofs

All theorems about the crawler hold for any finite set of workers, any set of URLs, any
links and any options.

**`WorkQueue_proofs`.** The inductive invariant is the conjunction of `TypeOK`,
`ActiveCountExact`, `NoDuplicateWork`, `StopsOnlyWhenDone` and `NoLostWakeup`. None of
the last three is inductive alone: the pool may stop on `active = 0` only because the
count is exact, and no wake-up is lost only because the crawl is not over while somebody
is busy. There is one lemma for each conjunct, with one step for each action. From it
follow `TypeCorrect`, `CountIsExact`, `EachUrlOnce`, `SafeTermination`,
`WakeupsSuffice`, and `ImplementsFrontierSafety`: initial states map to initial states,
and every step to a step of `Frontier` or to none.

**`Crawler_proofs`.** The module instantiates `WorkQueue_proofs`, so its invariant is
that of the queue plus types, plus `AtWork` (a worker is at some stage of `process()`
just as long as it holds an item) and `Pending` (phase two lasts only as long as a
document waits). `AtWork` is what makes each action of `process()` a step of the queue:
`ImplementsWorkQueueSafety`, and `EachUrlOnce` as a corollary. `RulesStay` and
`RulesObeyed` are about the robots cache. `OvershootBounded` strengthens the budget
claim to `WithinBudget`: what has been counted plus what the admitted workers may still
add; each worker that passes the check sees a counter below the limit, and at most all
workers are admitted at once. The bytes that a worker may add are not bounded by
`--max-file-size`: a file that is taken over counts with the size of its entry, which is
that of the rewritten document, or of a run with a larger limit. So the claim is about
the largest of `CountedSizes`, the sizes of what may be downloaded and of the entries
that the run starts with, and `EntriesCounted` says that the entries of phase one have
no others.

About the manifest there are four, which share the notion of a URL that is *settled*:
one that was queued, and that no queue and no worker has any more. Every way out of
`process()` is a kind of step (`StepKinds`) that settles one URL, and what a step does
to entry, file and statistics of that URL is said once for each kind. `NoneForgotten`:
each settled URL has an entry, or the run was stopped (`Accounted`). `TalliesAgree`:
each statistic of a fresh run is the number of settled entries of its kind (`Tallied`);
one entry changes at a time, and the lemmas about cardinality say by how much.
`FilesMatch` and `LinksLeadSomewhere` need all of `MirrorInv`: which documents still
wait for phase two and what is on disk meanwhile (`Filed`), that what waits for nothing
is there with the checksum of its entry (`Kept`), and that a link is made local only to
what is there, or is still waiting and will be (`Led`).

Both assume `PlacesApart` (no two URLs share a file: `PagesApart` says which ones may)
and `SoundLeftovers` (a run that continues a mirror finds one that an earlier run could
have left). The second is not taken on trust: `LeavesSound` proves that a run leaves
what the next one needs. TLC evaluates both in `MCCrawler`, so the instance is one to
which the theorems apply. Links are promised only where
`StageFaults = {} \/ ~Continues`: a download that continues an old mirror and cannot be stored loses the old
file as well (`GiveUp`, see `FileStore`), to which rewritten pages of the run before may
still link.

**`Clone_proofs`.** Over any number of runs, on a site that changes between them. The
module brings in the invariants of `Crawler_proofs` for the run in progress and adds
what outlives a run, so that each step of `Crawler` needs no second look. `BrokenStays`
and `DryRunsWriteNothing` are about steps: which may touch the directory, and when.
`UpdateBringsCurrent` needs the history of a validator (`Aged`): it is never newer than
the content of the file or of the staged copy that it is kept with, whatever was lost or
killed in between; entries of dry runs, which keep no file, are exempt. Then a 304 means
that the content is that of the site. These three hold with any faults and any paths.

The other five assume what they need, by name. `Faultless`: every write succeeds that a
kill does not cut off, since a refused `rename()` removes the old file while the saved
manifest still names it (section 5). `PlacesApart` as above. `SavedFilesStay` and
`CheckCanBeTrusted` are from `Whole`: what the saved manifest calls done is there, and
so is whatever the content with that checksum links to. `MirrorStaysIntact` is the case
without kills and losses, in which the files are also what the manifest says.
`UpdateMakesWhole` needs the opposite, what kills may leave behind at worst (`Healthy`):
a document has its staged copy, and the file of an asset may be newer than the validator
of its entry, but not older; so a run that asks again is told to keep what is right or
fetches it. It assumes `KindsApart` too: if a URL could be stored in the same file as a
page and as an asset, a half rewritten page could pass for the asset.

`ResumeRestores` is the theorem about `ResumeMakesWhole`: files are lost between runs, and
staged copies at any time, of a mirror whose runs are not killed (`fate = "damaged"`).
Besides `Faultless` and `PlacesApart` it assumes two things without which the
claim is false. `Unlimited`: each run may go wherever links lead. A URL keeps the depth
and role of its first discovery, and the options of two runs may differ, so that
otherwise an entry of an earlier run may be out of reach of the one that resumes.
`Steady`: a resource is of one kind, which `KindsApart` follows from, it is larger than
`--max-file-size` for every run and in every version or for none (`Oversized`), a redirect leads to what has the same links from both URLs
(section 5, `redirect`), and what has links that are found only when it is read again
has none. The invariant `Calmly` has four parts. Up to the first change of the site or
kill (`Calm`), whatever was found, recorded or saved lies in every set that contains the
start page and is closed under links (`Reached`): this says that there is a path to it,
without speaking of paths. A URL that is queued has fewer links behind it than
there are URLs seen (`Shallow`), so that a depth limit that no path reaches never bites.
What the run that resumes has settled has its links followed (`Dealt`). And it is
restored: its file is what its entry says, or it is a document whose staged copy is gone
(`Restored`). When that run ends, what it has seen is closed under links, and
so contains every URL that the manifest calls done. TLC evaluates `PlacesApart`,
`KindsApart`, `Unlimited` and `Steady` in `MCClone`.

**`FileStore_proofs`.** `TypeCorrect` holds for any number of processes and threads. All
else assumes one process, and `MCTwoProcesses` (section 5) shows why. The tickets come from
one counter, so no two writers have the same temporary name (`TicketsDiffer`); hence an
inode has one name (`OneName`), what is written through a handle goes to one's own
temporary file (`Opened`), and what is about to be renamed is there and whole (`Ready`).
`FilesAreWhole`, `TempsAreRemoved`, `PlacedStays` and `FilesRemain` follow, and
`WritesAreAtomic`, the whole of `ImplementsAtomicFiles`: `Rename` maps to `Succeed`, a
failure to `Fail`, the removal of the old file to `GiveUp`, a kill to `Crash`, and all
other steps to none.

**`RateLimiter_proofs`.** `TypeCorrect` contains more than types: no call belongs to a
window to come and none is due before its window began, so that no time in `consume()`
is negative. For `WindowNeverAhead` it is not enough to know what the window has let
through, since of two sleepers either may wake first. `Covered` says of every moment
from now on that the window will have paid, by then, for what has returned and for all
that is due by then; what is due is counted as a set, of one element for each byte. When
a window is replaced, what outlives it is `forgiven`; with this ghost, the sum over all
windows is `RunAheadByForgiven`. The last theorem, `OneWorkerKeepsCap`, says when
nothing is forgiven: with one worker the run keeps the rate that `README.md` 199
promises.

**`RobotsTxt_proofs`.** `KeepsOwnGroups` needs two facts together: the flags of
`parse()` say at every line whether the last header names our agent or `*` (`Flags`),
and each bucket holds the rules under the headers that name its agents (`Sorted`).
`OpenAfter`, `NamesAfter` and `RulesAfter` say what one more line does to the headers
and rules of a file. `FollowsLongestRule` is from `BestSoFar`: the best rule is the
longest of those considered that match, and allows if one as long does. Both hold for
files and patterns of any length.

`VerdictsAsDescribed` adds what a pattern matches. `WildcardMatch` is a recursive
function of the four variables of the loop, and the theorem says that it finds a match
just when there is one: some places of the path, one for each character of the pattern,
in order (`Fits`). Induction on data is done by smallest counterexamples: the set of
lengths at which a claim fails, if not empty, has a least member (`Smallest`), at which
it does not fail. That the greedy loop need not go back beyond the last star is
`Restart`; that the definition by recursion has the values of the loop,
`OutcomesAreLoop` and `LoopsAgree`. Patterns that have a star and no `$` are excluded,
as in the property: there the code does differ, and `robots_star` shows it.

**`PathMap_proofs`.** For texts of any characters and any length, any escapes, any
reserved names, and limits of any size. `SanitizeIsSafe`: a name that
`sanitize_path_component()` returns is not empty, not `.` or `..`, no device, has no
forbidden character and is not too long; it ends in neither dot nor space, unless it is
just as long as a name may be. The argument follows the code: clean characters
(`CleanAllowed`), no bad end (`TrimmedEnds`, `MarkedEnds`), marks `_` that undo neither
(`MarkedIsGood`, `UnderscoredIsGood`), and a cut that leaves the beginning as it was, so
that no device comes out of it (`CutIsSafe`). A name at the limit is exempt because the
code does fail there (section 5, `MCLongNames`). `StoredPathIsSafe` lifts that to every
component of the path of any URL, on the primary and on external hosts, and to the length
of the path: a path that is too long keeps whole names, or a part of the first that is
still safe (`BeginningIsSafe`, `PrefixIsSafe`), and gets a hash for a name
(`HashedNameIsSafe`). `LinkLeadsBack`: from the
directory of one file, up `Climb` times and down `Descent` leads to the other file,
since both share their common directories (`CommonDirsShared`), and `LinkStaysInside`:
never above the top.

On these rest the five theorems about `Addresses`, for references of any length, any
pieces and any documents. Their common invariant is `AddressInv`: the document is a URL
over its characters (`UrlOver`: no part has a character that would end it, the port is
not the default one, the path is one that `remove_dot_segments()` has left), and so is
whatever a reference to it means (`ResolvedIsUrl`, with a lemma for each function of
`url.cpp`).

* `EverythingIsStoredInside` is `StoredPathIsSafe` for the URLs that are fetched.
* `LinksLeadToFiles`: the text of a link, behind the directory of the page, is a path whose
  segments are walked up and down (`Walked`) to those of the target. That no part of the
  link is taken for a scheme, a query or a fragment, and that decoding gives back each
  name, comes from `Encode`, whose escapes must suffice (`EscapesSuffice`).
* `TextsAreUrls`: each sign that `to_string()` writes is the first (or, for user and port,
  the last) of its kind where the parser looks for it (`FoundFirst`, `FoundLast`,
  `OptionalRead`), so that each cut gives back one part.
* `ReferencesResolveLikeRfc`: the code takes a path apart and walks its segments with a
  stack, the RFC moves the path over from an input to an output, a segment at a turn.
  `OnTheWay` is what holds after each turn: the output is the stack of the code so far,
  written down, and walking the segments that are left leads where the code arrives.
  `NextTurn` and `LastTurn` keep it in each case of `RfcTurn`, `TurnsArrive` counts the
  turns, and a path with an empty segment, where the two differ, is excluded as in the
  property.
* `PagesStayApart`: from the name of a stored page its own name is read off, and the hash
  of its query (`LeavesApart`), and from the directory of another origin its scheme, host
  and port (`OriginsApart`). It is for names that were not cut (`Plain`), since two that
  were may be one (section 5). A path that is too long ends in `_long` and its hash, which
  no other does (`NeverLong`), so that two such paths in one file have one hash; `Clash`
  leaves out different paths of which that is so (`OneFileOnePath`). On the way the property turned out to be too strong as it
  was stated before: two URLs that differ by the user only share a file, and so may
  `https://http:81` and `http://81`. No reference of the run was long enough to show it;
  the property now says so, and the run has the pieces for the first of the two.

What they assume beyond `HttpDocuments` (the texts are made of characters, and the
documents are http) is about the constants that stand for words: `EscapesSuffice`,
`ReadAsWritten` and `PortsAreKept` in `Addresses`, each with its reason, and
`EveryHashIsName`: a hash is a word that a name may consist of, no device and no escape,
as the digits of the code are. TLC evaluates them in `MCAddresses`, the last one for
texts of up to two characters (`HashesAreNames`), as it cannot for all.

The module also has the theorem about `Serve`, which builds on `PathMap`, for any number
of clients. `AnswersArriveInFull`: until its request is complete, what was read of a
client and what waits to be read are the pieces that it has sent, in order (`Reading`,
from `OneMore`, which says what one more piece adds); once it is, all of it was sent and
read, and the part of the answer that is delivered is the one the thread has gone
through (`Replying`). Assumed is `WholeRequests`, which TLC evaluates in `MCServe`: no
piece is empty, only the last one ends a request, and its answer is that to the whole.

**`Settings_proofs`.** For any command lines of words with or without a value, any
contents of the file and any number of processes. `NothingSetIsLost` and
`BrokenFileStays` rest on `Fresh`: a process that is about to write and is not stale has
the keys of the file as it is now, and could read it. `LastFlagDecides` goes along the
command line: up to the next argument, each option is what the last flag for it says
(`Reading`, `Decides`). The difficulty is that the property says which arguments are
values by looking at the line as a whole (`Values`, by recursion from its start), and
the code by jumping over them: `ReachedNext` says that the next argument the code looks
at is never a value and never behind a `--`. That the recursion defines anything at all
is `ValuesExist`. `WhatIsSetIsUsed` adds `ReadBack`: what `config set` stores means to
the loader what the same word means to the flag, though the flag converts to `int` and
checks a range and the loader casts to a port without one; `PortOfInt` needs that the
size of an int is a multiple of that of a port.

Besides what is said above, assumed are only the named assumptions on the constants:
`WorkQueueAssumption`, `CrawlerAssumption`, `CloneAssumption`, `FileStoreAssumption`,
`RateAssumption`, `RobotsAssumption`, `UrlAssumption`, `PathMapAssumption`,
`SettingsAssumption` and `FlagsAreDashed`, which TLC evaluates in the runs.

**Model-checked only.**

* Liveness (`Terminates`, `NobodyWaits`, `SocketsReturned`, the fairness part of both
  refinements), which is out of reach of the prover.
* `FindsWhatIsMeant` and `LeadsWhereItDid`: what an element of a page means is written
  beside it by hand, for the elements that `MCPages` has, and the scanners of `Html` are
  recursive operators, which the prover does not take. How a reference is resolved once
  it has been found, and where its link leads, is proved in `PathMap_proofs`.

## 5. Findings and known limits

Two are the counterexample of a violation run:

* `redirect`: a document that is reused or answered with 304 is resolved against
  the URL it was requested at; its final URL is not in the manifest. The
  architecture document says why that matters, for downloads.
* `robots_star`: `wildcard_match()` always goes on to the end of the path, and its
  parameter `anchored_end` makes no difference there. A pattern with a star is
  anchored although it has no `$`: `Disallow: /*b` does not cover `/aba`, nor
  `/tmp/*/cache` what is below such a directory.

Others can be seen with the configurations named:

* `MCWriteFails`: a document that cannot be written in phase two is reported by
  a warning only (`crawler.cpp` 720). Its entry stays `done`, with the checksum of
  the download, no failure is counted, and the process exits 0, while
  `docs/architecture.md` 234-237 promises a `failed` entry and exit code 3.
* `MCPartial`: an entry that failed because its file could not be written keeps
  the validator of the response. The next `--update` run sends it, gets a 304,
  counts the URL as unchanged and exits 0, without the file.
* `MCInterrupted`: the manifest is saved only at the end, and no signal is
  handled (`request_stop()` has no caller), so `--resume` after a first run that
  was interrupted starts from nothing, although its files are there.
* `MCTwoProcesses`: the number in a temporary name is unique in one process. Two
  surl processes on one directory may write to the same temporary file, and the
  first to rename it puts a file in place that the other is still writing. The
  other's rename then finds nothing to rename, upon which `write_file_atomic()`
  removes the file that is in place, and fails.
* `MCDepthTwo`: a URL keeps the depth of its first discovery, so with several
  workers a page within `--max-depth` may be left out. With one worker the queue
  is breadth first and this does not happen.
* `MCDelicate`: a file name with `)` or `,` is legal in a URL and is not escaped by
  `relative_link()`; an unquoted `url(...)` or a srcset that is given such a link ends, or is
  split, in the middle of it (`css.cpp` 38, `rewrite.cpp` 103).
* `MCServeStops`: on POSIX, writing to a client that has hung up raises SIGPIPE, which
  nobody handles (`serve.cpp` 63-73): the preview server ends.
* `MCMirrorDefaults`: `surl mirror` sets `recursive` and `same_origin` after the
  configuration file has been read (`options.cpp` 183-186), so that the file cannot
  override these two defaults, as `README.md` 325 says it always does.
* `MCLongNames`: `sanitize_path_component()` removes the dots and spaces at the end of a name
  first and cuts what is longer than 180 afterwards (`fsutil.cpp` 219, 236). A directory of
  179 letters, a dot and 30 letters is stored with the dot at its end, which Windows
  drops; `SECURITY.md` 61-63 says that it is removed.

Not findings, but worth knowing:

* `crawl_delay_ms()` is called by a test only: `Crawl-delay` is parsed and has no
  effect, while `SECURITY.md` 157-158 counts it among what is honoured.
* The seen-set does not know roles: an image that is linked to before it is shown
  is refused as a page that is out of scope and never fetched as the asset it is.
* Two workers may fetch the robots.txt of one origin at the same time; the
  second answer is dropped. `docs/architecture.md` 205 says "one fetch per
  origin". The rules stay consistent all the same (`RulesStay`, `RulesObeyed`).
* `--max-files` may be overrun by at most one file for each worker but one, and
  `--max-total-size` by less than one file for each worker (`OvershootBounded`): the last
  one within the budget may be past it by itself. A file that is taken over counts with
  the size in its entry, which `--max-file-size` does not bound.
* The rate is capped for each window (`WindowCap`). When a worker that slept replaces
  the window, what others were admitted to in the meantime is dropped, and a run
  of several workers may exceed the rate by that (`RunCap` says how far;
  `RateLimiter.CapsWholeRun`, the stronger claim, holds for one worker only:
  `OneWorkerKeepsCap`).
* Empty segments of a path collapse, unlike in RFC 3986; `ResolvesAsRfc` leaves them out.
* `/a` and `/a.html`, `/` and `/index.html`, names that differ only in characters that
  are replaced, and URLs that differ only by a user are stored in one file; `PagesApart`
  is about the rest.
* A name that is cut at 180 characters is not marked: pages named by 176 and by 177 equal
  letters are stored in one file, and so is every long name with the same beginning and
  extension. Only a path above 200 gets a hash.
* When `rename()` does not replace a file, `write_file_atomic()` removes the old one and
  tries again (`fsutil.cpp` 106): if the process is killed in between, or the second
  attempt fails, the file is gone, and the saved manifest still names it. `AtomicFiles`
  allows that (`GiveUp`), since the code does it.
* The user of a URL is a part of its text in the manifest (`url.cpp` 166-170), though
  `url.hpp` 14 says that it is never written to disk.
* The last `<base>` of a page wins, while browsers take the first.
* `config set max_file_size 10M` is stored as a text, which the loader ignores, and
  no range of a value in the file is checked. `parse_int()` cuts to an int before the range
  is checked, so a number of 2^32 + 3 is 3.
* A configuration file that holds JSON but no object, or cannot be opened, counts as
  empty for `config set`, and is replaced. Two `config set` at a time may lose one.
* A flag that wants a value takes the next argument, even if that is a flag.
* Slow clients of `surl serve` keep a thread for ever; there is no timeout.
* The `notify_all` in the last branch of `pop()` and that in `finish_item()` are
  redundant to each other: with either alone the pool still ends.
* `--update` does not bring back an asset that was deleted: the server says 304
  and the entry is kept. `--resume` does, as `surl check` advises.
* `--resume` finds its way through the staged copies in `.surl/raw`; after
  `surl clean` it starts again from the start page, and after the site has
  changed it cannot reach what is no longer linked.

## 6. What is not modelled, and what is left

* *HTTP backends*: bindings to libcurl and WinHTTP. The crawler is modelled from what
  it does with their results.
* *JSON, SHA-256, MIME tables, logging, help texts*: standard or wording. The fields
  of a manifest entry are those of `Entry`; the fallbacks for missing ones are left out.
* *Globs* (`--include`, `--exclude`), sizes with units, version numbers: constants of the
  modules that use them.
* *install, uninstall, doctor, update, inspect*: a single pass of I/O each, without
  state of their own to go wrong in an order that was not thought of.
* *surl check*: its verdict is modelled; entries without a checksum and its report are
  not.
* *Options*: the flags that `Settings` leaves out are read in the ways that it has.
* Of the path mapping: capital and small letters, which are one name for some file
  systems, and what is counted in bytes (section 2, abstractions).

What would come next: the scanners as recursive functions, so that the proofs about
references reach the links of a page; `glob_match()` and `parse_size()` with its overflow
as functions of their own.
