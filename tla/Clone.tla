-------------------------------- MODULE Clone -------------------------------
(***************************************************************************)
(* A mirror over several runs of surl (cmd_clone in commands.cpp): a run   *)
(* loads the manifest that earlier runs saved, crawls, and saves it again  *)
(* as its very last act.  Between the runs the site changes.  A run may be *)
(* killed at any moment, files of the mirror may be deleted, and surl      *)
(* clean may remove surl's own files, even under a run's feet: no lock     *)
(* keeps two commands apart.  The manifest may be damaged, or be one that  *)
(* a newer surl has written: then it is Broken.                            *)
(*                                                                         *)
(* The crawl itself is Crawler, whose variables are the memory of the run  *)
(* and the output directory; "saved" is .surl/manifest.json.               *)
(*                                                                         *)
(* Bounds and assumptions: at most MaxRuns runs, one at a time; the site   *)
(* changes between runs only, and a resource never returns to an earlier   *)
(* version.  Files are lost only from mirrors of a site that stays as it   *)
(* is, and whose runs are not killed: "fate" keeps these apart.            *)
(***************************************************************************)
EXTENDS Crawler

CONSTANTS MaxRuns, Broken

ASSUME CloneAssumption ==
  /\ MaxRuns \in Nat \ {0}
  /\ Versions \subseteq Nat
  /\ Broken # None

VARIABLES
  running,  \* a surl process is at work on the directory
  runs,     \* how many have been started
  saved,    \* the entries of the manifest on disk, or None, or Broken
  fate      \* what the mirror has met with so far

cloneVars == <<running, runs, saved, fate>>
allVars == <<vars, cloneVars>>

CloneTypeOK ==
  /\ TypeOK
  /\ running \in BOOLEAN
  /\ runs \in 0 .. MaxRuns
  /\ saved \in [Urls -> Entry \cup {None}] \cup {None, Broken}
  /\ fate \in {"none", "changed", "killed", "damaged"}

CloneInit ==
  /\ StartRun
  /\ manifest = Nothing.manifest
  /\ disk = Nothing.disk
  /\ raw = Nothing.raw
  /\ opts \in OptionSets
  /\ site \in [Urls -> Versions]
  /\ running = FALSE
  /\ runs = 0
  /\ saved = None
  /\ fate = "none"

-----------------------------------------------------------------------------
(* cmd_clone().                                                            *)

\* Crawler's StartRun, as the next state: no run inherits another one's memory.
StartAnew ==
  /\ queue' = <<StartItem>>
  /\ seen' = {StartUrl}
  /\ active' = 0
  /\ stopping' = FALSE
  /\ where' = [w \in Workers |-> "popping"]
  /\ job' = [w \in Workers |-> None]
  /\ stage' = [w \in Workers |-> "idle"]
  /\ attempt' = [w \in Workers |-> 0]
  /\ links' = [w \in Workers |-> <<>>]
  /\ robots_by_origin' = [o \in Origins |-> "unknown"]
  /\ documents' = <<>>
  /\ stats' = [t \in Tallies |-> 0]
  /\ file_count' = 0
  /\ total_bytes' = 0
  /\ stop_reason' = None
  /\ phase' = "crawl"

\* Mutant of Refused: a broken manifest counts as none.
RefusedNever(o) == FALSE

\* Manifest::load() fails; --force does not load.
Refused(o) == saved = Broken /\ ~o.force

\* The run exits with an error and leaves everything as it was.
Refuse ==
  /\ ~running /\ runs < MaxRuns
  /\ \E o \in OptionSets : Refused(o)
  /\ runs' = runs + 1
  /\ UNCHANGED <<vars, running, saved, fate>>

\* --force ignores the manifest of earlier runs.
Launch ==
  /\ ~running /\ runs < MaxRuns
  /\ StartAnew
  /\ opts' \in OptionSets
  /\ ~Refused(opts')
  /\ manifest' = IF opts'.force \/ saved \in {None, Broken} THEN Nothing.manifest ELSE saved
  /\ running' = TRUE
  /\ runs' = runs + 1
  /\ UNCHANGED <<diskVars, site, saved, fate>>

\* Mutant of Crawl: the manifest is saved with every step of the crawl.
CrawlAndSave ==
  /\ running
  /\ Next \/ PassOver
  /\ saved' = IF opts.dry_run THEN saved ELSE manifest'
  /\ UNCHANGED <<running, runs, fate>>

Crawl == running /\ (Next \/ PassOver) /\ UNCHANGED cloneVars

\* The process is gone, and with it what it kept in memory.
Forget ==
  /\ StartAnew
  /\ manifest' = Nothing.manifest
  /\ running' = FALSE
  /\ UNCHANGED <<diskVars, opts, site, runs>>

\* Mutant of Finish: a dry run saves the manifest, too.
FinishSaving ==
  /\ running /\ phase = "done"
  /\ saved' = manifest
  /\ Forget
  /\ UNCHANGED fate

\* The manifest is saved, and the process exits.
Finish ==
  /\ running /\ phase = "done"
  /\ saved' = IF opts.dry_run THEN saved ELSE manifest
  /\ Forget
  /\ UNCHANGED fate

Killed == fate # "damaged" /\ fate' = "killed"
Damaged == fate \in {"none", "damaged"} /\ fate' = "damaged"

\* The manifest cannot be written.  The old one is still there, or lost when
\* only the rename that was to replace it failed.
FinishUnsaved ==
  /\ running /\ phase = "done" /\ ~opts.dry_run
  /\ saved' = saved \/ saved' = None
  /\ Forget
  /\ Killed

\* What the exit code is derived from.
ExitCode == IF stats["failed"] > 0 THEN 3 ELSE 0

-----------------------------------------------------------------------------
(* What happens to a mirror and its runs.                                  *)

SiteChanges ==
  /\ ~running
  /\ \E u \in Urls, v \in Versions :
       v > site[u] /\ site' = [site EXCEPT ![u] = v]
  /\ fate # "damaged"
  /\ fate' = IF fate = "none" THEN "changed" ELSE fate
  /\ UNCHANGED <<queueVars, workerVars, robots_by_origin, documents, countVars,
                 manifest, diskVars, phase, opts, running, runs, saved>>

\* No signal is handled: an interrupted run is a killed one.
Kill ==
  /\ running
  /\ Forget
  /\ Killed
  /\ UNCHANGED saved

LoseFile ==
  /\ ~running
  /\ \E p \in Paths : disk[p] # None /\ disk' = [disk EXCEPT ![p] = None]
  /\ UNCHANGED <<queueVars, workerVars, robots_by_origin, documents, countVars,
                 manifest, raw, runVars, running, runs, saved>>
  /\ Damaged

SpoilManifest ==
  /\ ~running /\ saved # None
  /\ saved' = Broken
  /\ UNCHANGED <<vars, running, runs>>
  /\ Damaged

\* surl clean: removes .surl, the manifest and the staged copies.
Clean ==
  /\ raw' = [u \in Urls |-> None]
  /\ saved' = None
  /\ UNCHANGED <<queueVars, workerVars, robots_by_origin, documents, countVars,
                 manifest, disk, runVars, running, runs>>
  /\ Damaged

\* surl clean --all --force: removes the directory.
CleanAll ==
  /\ raw' = [u \in Urls |-> None]
  /\ disk' = [p \in Paths |-> None]
  /\ saved' = None
  /\ UNCHANGED <<queueVars, workerVars, robots_by_origin, documents, countVars,
                 manifest, runVars, running, runs>>
  /\ Damaged

-----------------------------------------------------------------------------

Operate == Launch \/ Refuse \/ Crawl \/ Finish

Kills == Kill \/ FinishUnsaved

Damage == LoseFile \/ SpoilManifest \/ Clean \/ (~running /\ CleanAll)

CloneNext == Operate \/ SiteChanges \/ Kills \/ Damage

CloneSpec == CloneInit /\ [][CloneNext]_allVars

-----------------------------------------------------------------------------
(* Properties.                                                             *)

Undisturbed == fate \in {"none", "changed"}

Finished == running /\ phase = "done"
Complete == Finished /\ ~opts.dry_run /\ ~StopRequested /\ stats["failed"] = 0

\* After a run every file is what the manifest says it is, and no link between
\* mirrored files dangles: also when old entries and new ones are mixed, as
\* long as no run was killed and no file was lost.
MirrorIntact ==
  Undisturbed /\ Finished /\ ~opts.dry_run =>
    \A u \in Urls : Done(u) =>
      LET file == disk[manifest[u].path] IN
      file = manifest[u].sha /\ \A q \in file.local : disk[q] # None

\* A complete --update run leaves nothing stale: all it came across and could
\* get is the current version, whatever happened to the mirror before.
UpdateIsCurrent ==
  Complete /\ opts.update_mode =>
    \A u \in seen : Done(u) => manifest[u].sha.ver = site[u]

\* What surl check makes of a directory: its exit code.
CheckExitCode ==
  IF saved \in {None, Broken} THEN 1
  ELSE IF \E u \in Urls : /\ saved[u] # None /\ saved[u].state = "done"
                          /\ disk[saved[u].path] # saved[u].sha
  THEN 3 ELSE 0

\* "mirror is intact" (maintenance.cpp:121): when surl check says so, no link in the files
\* it has checked dangles either, also when runs have been killed before, as long as no
\* file has been deleted by others.
CheckMeansIntact ==
  fate # "damaged" /\ CheckExitCode = 0 =>
    \A u \in Urls : saved[u] # None /\ saved[u].state = "done" =>
      \A q \in disk[saved[u].path].local : disk[q] # None

\* A manifest that is not understood is replaced by nothing but --force and surl clean.
BrokenManifestStays ==
  [][saved = Broken /\ saved' # Broken => Clean \/ CleanAll \/ opts.force]_allVars

\* A dry run changes nothing on disk.
DryRunWritesNothing ==
  [][running /\ opts.dry_run /\ ~Clean => UNCHANGED <<disk, raw, saved>>]_allVars

\* At any moment, even while a later run overwrites the mirror, and wherever
\* that run is killed, the files of the saved manifest are there.
SavedFilesExist ==
  fate # "damaged" /\ saved \notin {None, Broken} =>
    \A u \in Urls : saved[u] # None /\ saved[u].state = "done" =>
      disk[saved[u].path] # None

\* Whatever a killed run left behind, the next complete --update or --force run
\* puts right all that it comes across.
UpdateHeals ==
  fate # "damaged" /\ Complete /\ (opts.update_mode \/ opts.force) =>
    \A u \in seen : Done(u) =>
      LET file == disk[manifest[u].path] IN
      /\ file = manifest[u].sha
      /\ file.ver = site[u]
      /\ \A q \in file.local : disk[q] # None

\* surl check: "Re-run with --resume to fetch what is missing".  A complete
\* --resume run makes the whole mirror what its manifest says, provided that the
\* staged copies, through which it finds its way, are there.
ResumeMakesWhole ==
  fate = "damaged" /\ Complete /\ opts.resume /\ ~opts.update_mode /\ ~opts.force
      /\ (\A u \in Urls : Done(u) /\ NeedsRewriting(manifest[u].kind) => raw[u] # None) =>
    \A u \in Urls : Done(u) => disk[manifest[u].path] = manifest[u].sha

-----------------------------------------------------------------------------
(* What Clone_proofs assumes besides PlacesApart of Crawler.               *)

\* Every write succeeds that is not cut off by the end of the process.
Faultless == StageFaults = {} /\ RewriteFaults = {}

\* What u may be taken for: what cannot be classified is a page or an asset,
\* depending on the link that led there.
KindsOf(u) == IF TypeOf[u] = "other" THEN {"html", "asset"} ELSE {TypeOf[u]}

\* Then it is stored in different files.
KindsApart ==
  \A u \in Urls : TypeOf[u] = "other" => PathOf[<<u, "html">>] # PathOf[<<u, "asset">>]

\* Every run may go wherever the links lead: nothing is out of scope but what is
\* filtered, and no path without a circle is too long.
Unlimited ==
  /\ IsFiniteSet(Urls)
  /\ \A o \in OptionSets :
       /\ o.recursive /\ o.max_depth >= Cardinality(Urls) - 1
       /\ o.download_assets
       /\ \A u \in Urls : SameOrigin(u) \/ (o.external_assets /\ ~o.same_origin)
       /\ o.respect_robots => Disallowed = {}

\* u is larger than --max-file-size, whatever version is sent to whatever run.
Oversized(u) ==
  \A o \in OptionSets, v \in Versions :
    Exceeds(o.max_file_size, [of |-> u, ver |-> v, base |-> None, local |-> {}])

\* And finds the same links wherever it comes: a resource has one kind, is too
\* large for every run or for none, and links to the same URLs when it comes
\* after a redirect as when its staged copy is searched.
Steady ==
  \A u \in Urls :
    /\ TypeOf[u] # "other"
    /\ (\E o \in OptionSets, v \in Versions :
          Exceeds(o.max_file_size, [of |-> u, ver |-> v, base |-> None, local |-> {}]))
         => Oversized(u)
    /\ \A v \in Versions :
         /\ Links[<<u, v, FinalOf[u]>>] = Links[<<u, v, u>>]
         /\ TypeOf[u] = "manifest" => Links[<<u, v, u>>] = <<>>

-----------------------------------------------------------------------------
(* What the documentation says of several runs, and does not hold.         *)

\* README.md, Run mode: --resume is "Continue an interrupted run, skipping
\* finished files".  A file that was finished is known to the next run.
FinishedFilesKnown ==
  ~running =>
    \A p \in Paths : disk[p] # None =>
      saved \notin {None, Broken} /\ saved[disk[p].of] # None
        /\ saved[disk[p].of].state = "done" /\ saved[disk[p].of].path = p

\* docs/architecture.md, HTTP backends: "a document that arrived after a
\* redirect must have its relative references resolved against where it
\* actually came from, not where it was requested".
BaseIsFinalUrl ==
  \A p \in Paths : disk[p] # None /\ disk[p].base # None =>
    disk[p].base = FinalOf[disk[p].of]

\* docs/architecture.md, Error handling: "The process exits 3 when anything
\* failed, so scripts can tell a partial mirror from a complete one".
ExitTellsPartial ==
  Finished /\ ExitCode = 0 =>
    \A u \in seen : manifest[u] # None => manifest[u].state # "failed"
=============================================================================
