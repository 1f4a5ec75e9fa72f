---------------------------- MODULE Clone_proofs ----------------------------
(***************************************************************************)
(* Proofs about Clone: what holds of a mirror over any number of runs,     *)
(* whatever the site, the options, and the moments at which runs are       *)
(* killed and files are lost.  A run is one of Crawler, so its steps keep  *)
(* what Crawler_proofs shows of them; what is new is what the runs hand    *)
(* over to each other, and what happens between them.                      *)
(***************************************************************************)
EXTENDS Clone, Crawler_proofs

-----------------------------------------------------------------------------
(* The run inside: its invariant holds all the time.                       *)

\* A document that is passed over is gone, and nothing else has changed.
LEMMA PassOverIInv ==
  ASSUME IInv, PassOver
  PROVE  IInv'
<1>1. NextDocument /\ UNCHANGED <<disk, manifest, raw, robots_by_origin, queueVars, workerVars>>
  BY DEF PassOver, NextDocument
<1>2. /\ WorkerTypeOK' /\ CountTypeOK' /\ RunTypeOK' /\ Pending'
      /\ documents' \in Seq(Document)
  BY <1>1, NextDocumentTypes
<1>3. RecordTypeOK'
  BY <1>1, <1>2 DEF IInv, RecordTypeOK
<1>4. Proved!IInv'
  <2>1. UNCHANGED Proved!vars
    BY <1>1 DEF Proved!vars, queueVars
  <2>2. QED
    BY <2>1, QueueAssumption, Proved!StepIInv DEF IInv
<1>5. AtWork'
  BY <1>1 DEF IInv, AtWork, queueVars, workerVars
<1>6. QED
  BY <1>2, <1>3, <1>4, <1>5 DEF IInv

\* Nor does it disturb the run when files come, go or change around it.
LEMMA AroundIInv ==
  ASSUME IInv,
         UNCHANGED <<queueVars, workerVars, robots_by_origin, documents, countVars,
                     manifest, phase, opts>>,
         disk' \in [Paths -> Body \cup {None}],
         raw' \in [Urls -> Body \cup {None}],
         site' \in [Urls -> Versions]
  PROVE  IInv'
<1>1. /\ WorkerTypeOK' /\ CountTypeOK' /\ RecordTypeOK' /\ RunTypeOK' /\ Pending'
  BY DEF IInv, WorkerTypeOK, CountTypeOK, RecordTypeOK, RunTypeOK, Pending, workerVars, countVars
<1>2. Proved!IInv'
  <2>1. UNCHANGED Proved!vars
    BY DEF Proved!vars, queueVars
  <2>2. QED
    BY <2>1, QueueAssumption, Proved!StepIInv DEF IInv
<1>3. AtWork'
  BY DEF IInv, AtWork, queueVars, workerVars
<1>4. QED
  BY <1>1, <1>2, <1>3 DEF IInv

\* A new process starts as Crawler says.
LEMMA StartsAnew == StartAnew => StartRun'
<1>1. UrlOf[StartItem] = StartUrl
  BY QueueAssumption DEF UrlOf, StartItem
<1>2. QED
  BY <1>1 DEF StartAnew, StartRun, WQ!Init

LEMMA StartAnewIInv == StartAnew /\ DirectoryTypeOK' => IInv'
<1>1. StartRun' /\ DirectoryTypeOK' => IInv'
  BY StartIInv, PTL
<1>2. QED
  BY <1>1, StartsAnew

-----------------------------------------------------------------------------
(* Types, and the broken manifest.                                         *)

HistoryTypeOK ==
  /\ running \in BOOLEAN
  /\ runs \in 0 .. MaxRuns
  /\ saved \in [Urls -> Entry \cup {None}] \cup {None, Broken}
  /\ fate \in {"none", "changed", "killed", "damaged"}

\* A run is at work beside a manifest that it has not understood only because
\* it was told to.
ForcedOnly == running /\ saved = Broken => opts.force

CloneIInv == IInv /\ HistoryTypeOK /\ ForcedOnly

\* The variables of the process, all but the manifest.
memoryVars ==
  <<queueVars, workerVars, robots_by_origin, documents, countVars, phase, opts>>

\* What the steps of the history do with the variables of the run.
LEMMA HistorySteps ==
  /\ Launch => StartRun' /\ opts' \in OptionSets /\ UNCHANGED <<disk, raw, site>>
  /\ Finish \/ FinishUnsaved \/ Kill =>
       /\ running /\ ~running'
       /\ StartRun' /\ manifest' = Nothing.manifest
       /\ UNCHANGED <<disk, raw, opts, site, runs>>
  /\ Refuse => UNCHANGED <<memoryVars, manifest, disk, raw, site>>
  /\ SiteChanges => ~running /\ UNCHANGED <<memoryVars, manifest, disk, raw, saved, running>>
  /\ Damage =>
       /\ fate' = "damaged"
       /\ UNCHANGED <<memoryVars, manifest, site, running, runs>>
<1>1. Launch => StartRun' /\ opts' \in OptionSets /\ UNCHANGED <<disk, raw, site>>
  BY StartsAnew DEF Launch, diskVars
<1>2. Finish \/ FinishUnsaved \/ Kill =>
       /\ running /\ ~running'
       /\ StartRun' /\ manifest' = Nothing.manifest
       /\ UNCHANGED <<disk, raw, opts, site, runs>>
  BY StartsAnew DEF Finish, FinishUnsaved, Kill, Forget, diskVars
<1>3. Refuse => UNCHANGED <<memoryVars, manifest, disk, raw, site>>
  BY DEF Refuse, vars, memoryVars, diskVars, runVars
<1>4. SiteChanges => ~running /\ UNCHANGED <<memoryVars, manifest, disk, raw, saved, running>>
  BY DEF SiteChanges, memoryVars, diskVars
<1>5. Damage =>
       /\ fate' = "damaged"
       /\ UNCHANGED <<memoryVars, manifest, site, running, runs>>
  BY DEF Damage, LoseFile, SpoilManifest, Clean, CleanAll, Damaged, vars, memoryVars, runVars,
         diskVars
<1>6. QED
  BY <1>1, <1>2, <1>3, <1>4, <1>5

LEMMA InitCloneIInv == CloneInit => CloneIInv
<1> SUFFICES ASSUME CloneInit PROVE CloneIInv
  OBVIOUS
<1>1. DirectoryTypeOK
  BY DEF CloneInit, DirectoryTypeOK, Nothing
<1>2. IInv
  BY <1>1, StartIInv DEF CloneInit
<1>3. running = FALSE /\ runs = 0 /\ saved = None /\ fate = "none"
  BY DEF CloneInit
<1>4. runs \in 0 .. MaxRuns
  BY <1>3, CloneAssumption
<1>5. running \in BOOLEAN /\ ~running
  BY <1>3
<1>6. QED
  BY <1>2, <1>3, <1>4, <1>5 DEF CloneIInv, HistoryTypeOK, ForcedOnly

LEMMA StepCloneIInv == CloneIInv /\ [CloneNext]_allVars => CloneIInv'
<1> SUFFICES ASSUME CloneIInv, [CloneNext]_allVars PROVE CloneIInv'
  OBVIOUS
<1>1. /\ IInv /\ HistoryTypeOK /\ ForcedOnly
      /\ manifest \in [Urls -> Entry \cup {None}]
      /\ disk \in [Paths -> Body \cup {None}]
      /\ raw \in [Urls -> Body \cup {None}]
      /\ opts \in OptionSets /\ site \in [Urls -> Versions]
  BY DEF CloneIInv, IInv, RecordTypeOK, RunTypeOK
<1>2. Nothing.manifest \in [Urls -> Entry \cup {None}]
  BY DEF Nothing
<1>3. CASE Launch
  <2>1. manifest' \in [Urls -> Entry \cup {None}]
    BY <1>1, <1>2, <1>3 DEF Launch, HistoryTypeOK
  <2>2. StartRun' /\ opts' \in OptionSets /\ UNCHANGED <<disk, raw, site>>
    BY <1>3, HistorySteps
  <2>3. DirectoryTypeOK'
    BY <1>1, <2>1, <2>2 DEF DirectoryTypeOK
  <2>4. IInv'
    BY <1>3, <2>3, StartAnewIInv DEF Launch
  <2>5. runs' \in 0 .. MaxRuns
    BY <1>1, <1>3, CloneAssumption DEF Launch, HistoryTypeOK
  <2>6. QED
    BY <1>1, <1>3, <2>4, <2>5 DEF Launch, Refused, CloneIInv, HistoryTypeOK, ForcedOnly
<1>4. CASE Finish \/ FinishUnsaved \/ Kill
  <2>1. /\ ~running' /\ manifest' = Nothing.manifest
        /\ UNCHANGED <<disk, raw, opts, site, runs>>
    BY <1>4, HistorySteps
  <2>2. DirectoryTypeOK'
    BY <1>1, <1>2, <2>1 DEF DirectoryTypeOK
  <2>3. IInv'
    BY <1>4, <2>2, StartAnewIInv DEF Finish, FinishUnsaved, Kill, Forget
  <2>4. saved' \in {saved, None, manifest} /\ fate' \in {fate, "killed"} /\ running' = FALSE
    BY <1>4 DEF Finish, FinishUnsaved, Kill, Killed, Forget
  <2>5. QED
    BY <1>1, <2>1, <2>3, <2>4 DEF CloneIInv, HistoryTypeOK, ForcedOnly
<1>5. CASE Crawl
  <2>1. IInv'
    BY <1>1, <1>5, StepIInv, PassOverIInv DEF Crawl
  <2>2. opts' = opts
    BY <1>1, <1>5, OptionsStay DEF Crawl, PassOver, NextDocument
  <2>3. QED
    BY <1>1, <1>5, <2>1, <2>2 DEF Crawl, cloneVars, CloneIInv, HistoryTypeOK, ForcedOnly
<1>6. ASSUME UNCHANGED <<memoryVars, manifest>>,
             disk' \in [Paths -> Body \cup {None}],
             raw' \in [Urls -> Body \cup {None}],
             site' \in [Urls -> Versions],
             HistoryTypeOK', ForcedOnly'
      PROVE  CloneIInv'
  <2>1. IInv'
    BY <1>1, <1>6, AroundIInv DEF memoryVars
  <2>2. QED
    BY <1>6, <2>1 DEF CloneIInv
<1>7. CASE Refuse
  <2>1. runs' \in 0 .. MaxRuns
    BY <1>1, <1>7, CloneAssumption DEF Refuse, HistoryTypeOK
  <2>2. UNCHANGED <<memoryVars, manifest, disk, raw, site, running, saved, fate, opts>>
    BY <1>7, HistorySteps DEF Refuse, memoryVars
  <2>3. QED
    BY <1>1, <1>6, <2>1, <2>2 DEF HistoryTypeOK, ForcedOnly
<1>8. CASE SiteChanges
  <2>1. ~running /\ UNCHANGED <<memoryVars, manifest, disk, raw, saved, running, runs>>
    BY <1>8, HistorySteps DEF SiteChanges
  <2>2. site' \in [Urls -> Versions] /\ fate' \in {"changed", fate}
    BY <1>1, <1>8 DEF SiteChanges
  <2>3. QED
    BY <1>1, <1>6, <2>1, <2>2 DEF HistoryTypeOK, ForcedOnly
<1>9. CASE Damage
  <2>1. fate' = "damaged" /\ UNCHANGED <<memoryVars, manifest, site, running, runs, opts>>
    BY <1>9, HistorySteps DEF memoryVars
  <2>2. disk' \in [Paths -> Body \cup {None}] /\ raw' \in [Urls -> Body \cup {None}]
    BY <1>1, <1>9 DEF Damage, LoseFile, SpoilManifest, Clean, CleanAll, vars, diskVars
  <2>3. saved' \in {saved, None} \/ (saved' = Broken /\ ~running)
    BY <1>9 DEF Damage, LoseFile, SpoilManifest, Clean, CleanAll
  <2>4. HistoryTypeOK' /\ ForcedOnly'
    BY <1>1, <2>1, <2>3, CloneAssumption DEF HistoryTypeOK, ForcedOnly
  <2>5. QED
    BY <1>1, <1>6, <2>1, <2>2, <2>4
<1>10. CASE UNCHANGED allVars
  <2>1. UNCHANGED <<memoryVars, manifest, disk, raw, site, cloneVars, opts>>
    BY <1>10 DEF allVars, vars, memoryVars, diskVars, runVars
  <2>2. QED
    BY <1>1, <1>6, <2>1 DEF cloneVars, HistoryTypeOK, ForcedOnly
<1>11. QED
  BY <1>3, <1>4, <1>5, <1>7, <1>8, <1>9, <1>10 DEF CloneNext, Operate, Kills

LEMMA CloneInvariance == CloneSpec => []CloneIInv
BY InitCloneIInv, StepCloneIInv, PTL DEF CloneSpec

\* The directory and the memory of the run keep their types, over all runs.
THEOREM CloneTypeCorrect == CloneSpec => []CloneTypeOK
<1>1. CloneIInv => CloneTypeOK
  BY DEF CloneIInv, IInv, HistoryTypeOK, CloneTypeOK, TypeOK, WorkerTypeOK, CountTypeOK,
         RecordTypeOK, RunTypeOK, Proved!IInv, Proved!TypeOK, WQ!TypeOK
<1>2. QED
  BY <1>1, CloneInvariance, PTL

\* A manifest that surl does not understand is never replaced by an ordinary
\* run, be it at its end or because it is killed: only --force and surl clean do.
THEOREM BrokenStays == CloneSpec => BrokenManifestStays
<1>1. ASSUME CloneIInv, [CloneNext]_allVars, saved = Broken, saved' # Broken
      PROVE  Clean \/ CleanAll \/ opts.force
  <2>1. CASE Finish \/ FinishUnsaved \/ Kill
    BY <1>1, <2>1, HistorySteps DEF CloneIInv, ForcedOnly
  <2>2. CASE Damage
    BY <1>1, <2>2 DEF Damage, LoseFile, SpoilManifest
  <2>3. CASE Launch \/ Refuse \/ Crawl \/ SiteChanges \/ UNCHANGED allVars
    BY <1>1, <2>3 DEF Launch, Refuse, Crawl, SiteChanges, allVars, cloneVars
  <2>4. QED
    BY <1>1, <2>1, <2>2, <2>3 DEF CloneNext, Operate, Kills
<1>2. QED
  BY <1>1, CloneInvariance, PTL DEF CloneSpec, BrokenManifestStays

-----------------------------------------------------------------------------
(* Entries and their files, from one run to the next.                      *)

LEMMA PassOverFiled ==
  ASSUME IInv, Filed, PassOver
  PROVE  Filed'
<1>1. NextDocument /\ manifest' = manifest /\ queueVars' = queueVars
  BY DEF PassOver, NextDocument
<1>2. OneDocumentEach' /\ DocumentsFiled'
  BY <1>1, NextDocumentFiled
<1>3. PhasesEnd'
  BY <1>1, NextPhasesEnd DEF Filed
<1>4. Over'
  BY <1>1 DEF Filed, Over, NextDocument, queueVars, WQ!At
<1>5. QED
  BY <1>1, <1>2, <1>3, <1>4 DEF Filed

SavedManifest == saved \notin {None, Broken}

HistoryFiled == Filed /\ (SavedManifest => Located(saved))

LEMMA StartFiled == StartRun /\ Located(manifest) => Filed
BY DEF StartRun, Filed, OneDocumentEach, DocumentsFiled, Waiting, Over, PhasesEnd

LEMMA StartAnewFiled == StartRun' /\ Located(manifest') => Filed'
<1>1. StartRun' /\ Located(manifest)' => Filed'
  BY StartFiled, PTL
<1>2. QED
  BY <1>1

LEMMA AroundFiled ==
  ASSUME Filed, UNCHANGED <<memoryVars, manifest>>
  PROVE  Filed'
BY DEF Filed, memoryVars, OneDocumentEach, DocumentsFiled, Waiting, Over, PhasesEnd, queueVars,
   workerVars, Settled, Ahead, HeldUrls, Proved!QueuedKeys, WQ!At

LEMMA NothingLocated == Located(Nothing.manifest)
BY DEF Located, Nothing

LEMMA StepHistoryFiled == CloneIInv /\ HistoryFiled /\ [CloneNext]_allVars => HistoryFiled'
<1> SUFFICES ASSUME CloneIInv, HistoryFiled, [CloneNext]_allVars PROVE HistoryFiled'
  OBVIOUS
<1>1. Filed /\ (SavedManifest => Located(saved)) /\ IInv
  BY DEF HistoryFiled, CloneIInv
<1>2. CASE Launch
  <2>1. Located(manifest')
    BY <1>1, <1>2, NothingLocated DEF Launch, SavedManifest
  <2>2. QED
    BY <1>1, <1>2, <2>1, HistorySteps, StartAnewFiled DEF Launch, HistoryFiled, SavedManifest
<1>3. CASE Finish \/ FinishUnsaved \/ Kill
  <2>1. StartRun' /\ manifest' = Nothing.manifest
    BY <1>3, HistorySteps
  <2>2. Filed'
    BY <2>1, StartAnewFiled, NothingLocated
  <2>3. saved' \in {saved, None, manifest}
    BY <1>3 DEF Finish, FinishUnsaved, Kill
  <2>4. SavedManifest' => Located(saved')
    BY <1>1, <2>3 DEF SavedManifest, Filed
  <2>5. QED
    BY <2>2, <2>4 DEF HistoryFiled
<1>4. CASE Crawl
  <2>1. Filed'
    BY <1>1, <1>4, StepFiled, PassOverFiled DEF Crawl
  <2>2. QED
    BY <1>1, <1>4, <2>1 DEF Crawl, cloneVars, HistoryFiled, SavedManifest
<1>5. CASE Refuse \/ SiteChanges \/ Damage \/ UNCHANGED allVars
  <2>1. UNCHANGED <<memoryVars, manifest>>
    BY <1>5, HistorySteps DEF allVars, vars, memoryVars, runVars
  <2>2. saved' \in {saved, None, Broken}
    BY <1>5 DEF Refuse, SiteChanges, Damage, LoseFile, SpoilManifest, Clean, CleanAll, allVars, cloneVars
  <2>3. QED
    BY <1>1, <2>1, <2>2, AroundFiled DEF HistoryFiled, SavedManifest
<1>6. QED
  BY <1>2, <1>3, <1>4, <1>5 DEF CloneNext, Operate, Kills

LEMMA FiledInvariance == CloneSpec => [](CloneIInv /\ HistoryFiled)
<1>1. CloneInit => HistoryFiled
  BY StartFiled, NothingLocated DEF CloneInit, HistoryFiled, SavedManifest
<1>2. QED
  BY <1>1, StepHistoryFiled, CloneInvariance, PTL DEF CloneSpec

\* In a dry run a decision writes nothing, and there is no phase two.
LEMMA DryStep ==
  ASSUME IInv, Filed, opts.dry_run, [Next]_vars \/ PassOver
  PROVE  UNCHANGED <<disk, raw>>
<1>1. ~NextDocument
  BY DEF Filed, PhasesEnd, NextDocument
<1>2. ASSUME NEW u \in Urls, Decides(u) PROVE UNCHANGED <<disk, raw>>
  <2>1. disk' = disk
    BY <1>2, DecisionFiles
  <2>2. raw' = raw
    BY <1>2 DEF Decides, PassedBy, TurnedDown, TakenOver, Downloads, diskVars
  <2>3. QED
    BY <2>1, <2>2
<1>3. QED
  BY <1>1, <1>2, StepKinds DEF Quiet, Rewrite, RewriteFails, PassOver, diskVars

\* A dry run writes nothing, neither while it lasts, nor when it ends or is
\* killed; what else is done to the directory while it lasts is surl clean's.
THEOREM DryRunsWriteNothing == CloneSpec => DryRunWritesNothing
<1>1. ASSUME CloneIInv, HistoryFiled, [CloneNext]_allVars, running, opts.dry_run, ~Clean
      PROVE  UNCHANGED <<disk, raw, saved>>
  <2>1. CASE Crawl
    BY <1>1, <2>1, DryStep DEF Crawl, cloneVars, CloneIInv, HistoryFiled
  <2>2. CASE Finish \/ FinishUnsaved \/ Kill
    BY <1>1, <2>2, HistorySteps DEF Finish, FinishUnsaved, Kill
  <2>3. CASE Launch \/ Refuse \/ SiteChanges \/ Damage
    BY <1>1, <2>3 DEF Launch, Refuse, SiteChanges, Damage, LoseFile, SpoilManifest
  <2>4. CASE UNCHANGED allVars
    BY <2>4 DEF allVars, vars, diskVars, cloneVars
  <2>5. QED
    BY <1>1, <2>1, <2>2, <2>3, <2>4 DEF CloneNext, Operate, Kills
<1>2. QED
  BY <1>1, FiledInvariance, PTL DEF CloneSpec, DryRunWritesNothing

-----------------------------------------------------------------------------
(* Versions: what --update rests on.                                       *)

\* What a decision or a step of phase two does to the staged copies.
LEMMA DecisionStaged ==
  ASSUME IInv, NEW u \in Urls, Decides(u)
  PROVE  /\ \A v \in Urls \ {u} : raw'[v] = raw[v]
         /\ raw'[u] \in {raw[u], None, Downloaded(u)}
<1>1. raw \in [Urls -> Body \cup {None}]
  BY DEF IInv, RecordTypeOK
<1>2. \/ raw' = raw
      \/ raw' = [raw EXCEPT ![u] = None]
      \/ raw' = [raw EXCEPT ![u] = Downloaded(u)]
  BY DEF Decides, PassedBy, TurnedDown, TakenOver, Downloads, diskVars
<1>3. QED
  BY <1>1, <1>2

\* What a crawl does to them.
LEMMA CrawlStaged ==
  ASSUME IInv, [Next]_vars \/ PassOver, NEW u \in Urls
  PROVE  raw'[u] \in {raw[u], None, Downloaded(u)}
<1>1. CASE raw' = raw
  BY <1>1
<1>2. ASSUME NEW v \in Urls, Decides(v) PROVE raw'[u] \in {raw[u], None, Downloaded(u)}
  BY <1>2, DecisionStaged
<1>3. QED
  BY <1>1, <1>2, StepKinds, RewritingSettles DEF Quiet, Rewrite, RewriteFails, PassOver, diskVars

\* No file, no staged copy and no validator is of the future, and the content
\* that goes with a validator is at least as new as that.  (It may be newer: a
\* run that was killed leaves newer staged copies behind.)
AgedEntry(u, entry) ==
  entry # None /\ entry.state = "done" =>
    /\ entry.sha.ver <= site[u]
    /\ entry.tag # None =>
         /\ entry.tag <= entry.sha.ver
         /\ NeedsRewriting(entry.kind) /\ raw[u] # None => entry.tag <= raw[u].ver

RawAged == \A u \in Urls : raw[u] # None => raw[u].ver <= site[u]

Aged ==
  /\ RawAged
  /\ ~opts.dry_run => \A u \in Urls : AgedEntry(u, manifest[u])
  /\ SavedManifest => \A u \in Urls : AgedEntry(u, saved[u])

\* An entry that is done, and its parts.
LEMMA DoneEntry ==
  ASSUME RecordTypeOK, Located(manifest), NEW u \in Urls, Done(u)
  PROVE  /\ manifest[u] \in Entry
         /\ manifest[u].sha \in Body /\ manifest[u].sha.ver \in Versions
         /\ manifest[u].tag \in Versions \cup {None}
<1>1. manifest[u] \in Entry
  BY DEF RecordTypeOK, Done
<1>2. manifest[u].sha # None
  BY DEF Located, Done
<1>3. manifest[u].sha \in Body /\ manifest[u].tag \in Versions \cup {None}
  BY <1>1, <1>2 DEF Entry
<1>4. QED
  BY <1>1, <1>3 DEF Body

\* An entry that nobody touches stays as it is.
LEMMA StaysAged ==
  ASSUME NEW u \in Urls, NEW entry,
         RecordTypeOK, RunTypeOK, RecordTypeOK', RunTypeOK',
         entry # None /\ entry.state = "done" =>
           entry.sha.ver \in Versions /\ entry.tag \in Versions \cup {None},
         site[u] <= site'[u],
         raw'[u] # None /\ raw'[u] # raw[u] => raw'[u].ver = site'[u],
         AgedEntry(u, entry)
  PROVE  /\ entry # None /\ entry.state = "done" => entry.sha.ver <= site'[u]
         /\ entry # None /\ entry.state = "done" /\ entry.tag # None =>
              /\ entry.tag <= entry.sha.ver
              /\ NeedsRewriting(entry.kind) /\ raw'[u] # None => entry.tag <= raw'[u].ver
<1>1. site[u] \in Nat /\ site'[u] \in Nat /\ Versions \subseteq Nat
  BY CloneAssumption DEF RunTypeOK
<1>2. raw'[u] # None => raw'[u].ver \in Nat
  BY CloneAssumption DEF RecordTypeOK, Body
<1> SUFFICES ASSUME entry # None, entry.state = "done"
             PROVE  /\ entry.sha.ver <= site'[u]
                    /\ entry.tag # None =>
                         /\ entry.tag <= entry.sha.ver
                         /\ NeedsRewriting(entry.kind) /\ raw'[u] # None => entry.tag <= raw'[u].ver
  OBVIOUS
<1>3. entry.sha.ver \in Nat /\ entry.sha.ver <= site[u] /\ entry.sha.ver <= site'[u]
  <2>1. entry.sha.ver \in Versions /\ entry.sha.ver <= site[u]
    BY DEF AgedEntry
  <2>2. entry.sha.ver \in Nat
    BY <1>1, <2>1
  <2>3. QED
    BY <1>1, <2>1, <2>2
<1>4. ASSUME entry.tag # None
      PROVE  /\ entry.tag <= entry.sha.ver
             /\ NeedsRewriting(entry.kind) /\ raw'[u] # None => entry.tag <= raw'[u].ver
  <2>1. entry.tag \in Nat /\ entry.tag <= entry.sha.ver
    BY <1>1, <1>4 DEF AgedEntry
  <2>2. CASE raw'[u] = raw[u]
    BY <1>4, <2>1, <2>2 DEF AgedEntry
  <2>3. CASE raw'[u] # raw[u]
    BY <1>1, <1>2, <1>3, <2>1, <2>3
  <2>4. QED
    BY <2>1, <2>2, <2>3
<1>5. QED
  BY <1>3, <1>4

LEMMA SavedEntry ==
  ASSUME HistoryTypeOK, SavedManifest, Located(saved), NEW u \in Urls,
         saved[u] # None, saved[u].state = "done"
  PROVE  /\ saved[u] \in Entry
         /\ saved[u].path \in PlacesOf(u) /\ saved[u].path \in Paths
         /\ saved[u].sha \in Body /\ saved[u].sha.ver \in Versions
         /\ saved[u].tag \in Versions \cup {None}
<1>1. saved \in [Urls -> Entry \cup {None}]
  BY DEF HistoryTypeOK, SavedManifest
<1>2. saved[u] \in Entry
  BY <1>1
<1>3. saved[u].sha # None /\ saved[u].path # None /\ saved[u].path \in PlacesOf(u) \cup {None}
  BY DEF Located
<1>4. saved[u].sha \in Body /\ saved[u].tag \in Versions \cup {None} /\ saved[u].path \in Paths
  BY <1>2, <1>3 DEF Entry
<1>5. QED
  BY <1>2, <1>3, <1>4 DEF Body

\* What was downloaded is current.
LEMMA DownloadAged ==
  ASSUME IInv, NEW u \in Urls, Downloads(u), ~opts.dry_run, site' = site
  PROVE  AgedEntry(u, manifest[u])'
<1>1. /\ manifest \in [Urls -> Entry \cup {None}] /\ raw \in [Urls -> Body \cup {None}]
      /\ site[u] \in Nat
  BY CloneAssumption DEF IInv, RecordTypeOK, RunTypeOK
<1>2. PICK kind \in Kinds :
        /\ manifest' = [manifest EXCEPT ![u] = NewEntry(u, kind)]
        /\ NeedsRewriting(kind) => raw' = [raw EXCEPT ![u] = Downloaded(u)]
  BY DEF Downloads
<1>3. manifest'[u] = NewEntry(u, kind)
  BY <1>1, <1>2
<1>4. NeedsRewriting(kind) => raw'[u] = Downloaded(u)
  BY <1>1, <1>2
<1>5. /\ NewEntry(u, kind).sha.ver = site[u] /\ NewEntry(u, kind).tag \in {site[u], None}
      /\ NewEntry(u, kind).kind = kind /\ Downloaded(u).ver = site[u]
  BY DEF NewEntry, Downloaded
<1>6. QED
  BY <1>1, <1>3, <1>4, <1>5 DEF AgedEntry

\* What was rewritten is as new as its staged copy.
LEMMA RewrittenVersion ==
  ASSUME RecordTypeOK, NEW document \in Document, raw[document.url] # None
  PROVE  Rewritten(document).ver = raw[document.url].ver
<1> DEFINE body == raw[document.url]
           local == {manifest[u].path : u \in {t \in Targets(body, document.base) : Mirrored(t)}}
<1>1. body \in Body
  BY DEF RecordTypeOK, Document
<1> HIDE DEF local
<1>2. [body EXCEPT !.base = document.base, !.local = local].ver = body.ver
  BY <1>1 DEF Body
<1>3. QED
  BY <1>2 DEF Rewritten, local

LEMMA RewriteAged ==
  ASSUME IInv, Filed, Rewrite, RawAged, \A u \in Urls : AgedEntry(u, manifest[u]),
         NEW u \in Urls
  PROVE  AgedEntry(u, manifest[u])'
<1> DEFINE document == Head(documents)
<1>1. raw' = raw /\ site' = site
  BY DEF Rewrite, NextDocument
<1>2. /\ document \in Document /\ document.url \in Urls /\ raw[document.url] # None
      /\ manifest[u] = None => manifest'[u] = None
      /\ manifest[u] # None =>
                   /\ manifest'[u] # None
                   /\ manifest'[u].state = manifest[u].state
                   /\ manifest'[u].tag = manifest[u].tag
                   /\ manifest'[u].kind = manifest[u].kind
                   /\ manifest'[u].sha = IF u = document.url THEN Rewritten(document) ELSE manifest[u].sha
  BY RewriteEffect
<1>3. CASE u # document.url
  BY <1>1, <1>2, <1>3 DEF AgedEntry
<1>4. CASE u = document.url
  <2>1. Rewritten(document).ver = raw[u].ver /\ raw[u].ver <= site[u]
    BY <1>2, <1>4, RewrittenVersion DEF IInv, RawAged
  <2>2. NeedsRewriting(manifest[u].kind)
    BY <1>4, NextFiled DEF Rewrite, Filed, DocumentsFiled
  <2>3. QED
    BY <1>1, <1>2, <1>4, <2>1, <2>2 DEF AgedEntry
<1>5. QED
  BY <1>3, <1>4

LEMMA CrawlAged ==
  ASSUME CloneIInv, HistoryFiled, Aged, Crawl
  PROVE  Aged'
<1>1. /\ IInv /\ Filed /\ IInv' /\ HistoryTypeOK /\ saved' = saved
      /\ [Next]_vars \/ PassOver
  BY StepCloneIInv DEF CloneIInv, HistoryFiled, Crawl, cloneVars, CloneNext, Operate
<1>2. RecordTypeOK /\ RunTypeOK /\ RecordTypeOK' /\ RunTypeOK'
  BY <1>1 DEF IInv
<1>3. site' = site /\ opts' = opts
  BY <1>1, StepKinds, RewritingSettles DEF Quiet, Decides, runVars, Rewrite, RewriteFails, PassOver
<1>4. \A u \in Urls : site[u] \in Nat
  BY <1>2, CloneAssumption DEF RunTypeOK
<1>5. \A u \in Urls : raw'[u] # None /\ raw'[u] # raw[u] => raw'[u].ver = site'[u]
  BY <1>1, <1>3, CrawlStaged DEF Downloaded
<1>6. RawAged'
  BY <1>3, <1>4, <1>5 DEF RawAged, Aged
<1>7. ASSUME NEW u \in Urls, NEW entry, AgedEntry(u, entry),
             entry # None /\ entry.state = "done" =>
               entry.sha.ver \in Versions /\ entry.tag \in Versions \cup {None}
      PROVE  /\ entry # None /\ entry.state = "done" => entry.sha.ver <= site'[u]
             /\ entry # None /\ entry.state = "done" /\ entry.tag # None =>
                  /\ entry.tag <= entry.sha.ver
                  /\ NeedsRewriting(entry.kind) /\ raw'[u] # None => entry.tag <= raw'[u].ver
  <2>1. site[u] <= site'[u]
    BY <1>3, <1>4
  <2>2. QED
    BY <1>2, <1>5, <1>7, <2>1, StaysAged
<1>8. ASSUME SavedManifest', NEW u \in Urls PROVE AgedEntry(u, saved[u])'
  <2>1. AgedEntry(u, saved[u]) /\ SavedManifest
    BY <1>1, <1>8 DEF Aged, SavedManifest
  <2>2. saved[u] # None /\ saved[u].state = "done" =>
          saved[u].sha.ver \in Versions /\ saved[u].tag \in Versions \cup {None}
    BY <1>1, <2>1, SavedEntry DEF HistoryFiled
  <2>3. QED
    BY <1>1, <1>7, <2>1, <2>2 DEF AgedEntry
<1>9. ASSUME ~opts.dry_run, NEW u \in Urls PROVE AgedEntry(u, manifest[u])'
  <2>1. AgedEntry(u, manifest[u])
    BY <1>9 DEF Aged
  <2>2. manifest[u] # None /\ manifest[u].state = "done" =>
          manifest[u].sha.ver \in Versions /\ manifest[u].tag \in Versions \cup {None}
    BY <1>1, <1>2, DoneEntry DEF Filed, Done
  <2>3. CASE manifest'[u] = manifest[u]
    BY <1>7, <2>1, <2>2, <2>3 DEF AgedEntry
  <2>4. ASSUME NEW v \in Urls, Decides(v), manifest'[u] # manifest[u]
        PROVE  AgedEntry(u, manifest[u])'
    <3>1. v = u
      BY <1>1, <2>4, DecisionRecorded
    <3>2. CASE Downloads(u)
      BY <1>1, <1>3, <1>9, <3>2, DownloadAged
    <3>3. CASE TurnedDown(u)
      <4>1. manifest'[u].state \in {"failed", "skipped"}
        BY <1>2, <3>3 DEF TurnedDown, RecordTypeOK
      <4>2. QED
        BY <4>1 DEF AgedEntry
    <3>4. QED
      BY <2>4, <3>1, <3>2, <3>3 DEF Decides, PassedBy, TakenOver
  <2>5. CASE Rewrite
    BY <1>1, <1>9, <2>5, RewriteAged DEF Aged
  <2>6. QED
    BY <1>1, <2>3, <2>4, <2>5, StepKinds DEF Quiet, RewriteFails, PassOver
<1>10. QED
  BY <1>3, <1>6, <1>8, <1>9 DEF Aged

\* So do the steps around the crawl, by which a manifest gets from one run to
\* the next, and the site grows older.
LEMMA AroundAged ==
  ASSUME CloneIInv, HistoryFiled, Aged, CloneIInv',
         \A u \in Urls : site[u] <= site'[u] /\ raw'[u] \in {raw[u], None},
         SavedManifest' => (SavedManifest /\ saved' = saved) \/ (saved' = manifest /\ ~opts.dry_run),
         \/ manifest' = manifest /\ opts' = opts
         \/ manifest' = Nothing.manifest
         \/ manifest' = saved /\ SavedManifest
  PROVE  Aged'
<1>1. /\ RecordTypeOK /\ RunTypeOK /\ RecordTypeOK' /\ RunTypeOK' /\ HistoryTypeOK
      /\ Located(manifest)
      /\ \A u \in Urls : site[u] \in Nat /\ site'[u] \in Nat
      /\ \A u \in Urls : raw[u] # None => raw[u].ver \in Nat
  BY CloneAssumption DEF CloneIInv, IInv, HistoryFiled, Filed, RunTypeOK, RecordTypeOK, Body
<1>2. RawAged'
  <2> SUFFICES ASSUME NEW u \in Urls, raw'[u] # None PROVE raw'[u].ver <= site'[u]
    BY DEF RawAged
  <2>1. raw'[u] = raw[u] /\ raw[u].ver <= site[u]
    BY DEF Aged, RawAged
  <2>2. site[u] \in Nat /\ site'[u] \in Nat /\ raw[u].ver \in Nat /\ site[u] <= site'[u]
    BY <1>1, <2>1
  <2>3. QED
    BY <2>1, <2>2
<1>3. ASSUME NEW u \in Urls, NEW entry, AgedEntry(u, entry),
             entry # None /\ entry.state = "done" =>
               entry.sha.ver \in Versions /\ entry.tag \in Versions \cup {None}
      PROVE  /\ entry # None /\ entry.state = "done" => entry.sha.ver <= site'[u]
             /\ entry # None /\ entry.state = "done" /\ entry.tag # None =>
                  /\ entry.tag <= entry.sha.ver
                  /\ NeedsRewriting(entry.kind) /\ raw'[u] # None => entry.tag <= raw'[u].ver
  BY <1>1, <1>3, StaysAged
<1>4. ASSUME ~opts.dry_run, NEW u \in Urls
      PROVE  /\ AgedEntry(u, manifest[u])
             /\ manifest[u] # None /\ manifest[u].state = "done" =>
                  manifest[u].sha.ver \in Versions /\ manifest[u].tag \in Versions \cup {None}
  BY <1>1, <1>4, DoneEntry DEF Aged, Done
<1>5. ASSUME SavedManifest, NEW u \in Urls
      PROVE  /\ AgedEntry(u, saved[u])
             /\ saved[u] # None /\ saved[u].state = "done" =>
                  saved[u].sha.ver \in Versions /\ saved[u].tag \in Versions \cup {None}
  BY <1>1, <1>5, SavedEntry DEF Aged, HistoryFiled
<1>6. ASSUME SavedManifest', NEW u \in Urls PROVE AgedEntry(u, saved[u])'
  <2>1. CASE SavedManifest /\ saved' = saved
    BY <1>3, <1>5, <2>1 DEF AgedEntry
  <2>2. CASE saved' = manifest /\ ~opts.dry_run
    BY <1>3, <1>4, <2>2 DEF AgedEntry
  <2>3. QED
    BY <1>6, <2>1, <2>2
<1>7. ASSUME ~opts'.dry_run, NEW u \in Urls PROVE AgedEntry(u, manifest[u])'
  <2>1. CASE manifest' = manifest /\ opts' = opts
    BY <1>3, <1>4, <1>7, <2>1 DEF AgedEntry
  <2>2. CASE manifest' = Nothing.manifest
    BY <2>2 DEF AgedEntry, Nothing
  <2>3. CASE manifest' = saved /\ SavedManifest
    BY <1>3, <1>5, <2>3 DEF AgedEntry
  <2>4. QED
    BY <2>1, <2>2, <2>3
<1>8. QED
  BY <1>2, <1>6, <1>7 DEF Aged

\* What the steps of the history do with the manifests and the staged copies.
LEMMA HistoryHandsOver ==
  ASSUME CloneIInv, [CloneNext]_allVars, ~Crawl
  PROVE  /\ \A u \in Urls : site[u] <= site'[u] /\ raw'[u] \in {raw[u], None}
         /\ SavedManifest' => (SavedManifest /\ saved' = saved) \/ (saved' = manifest /\ ~opts.dry_run)
         /\ \/ manifest' = manifest /\ opts' = opts
            \/ manifest' = Nothing.manifest
            \/ manifest' = saved /\ SavedManifest
<1>1. /\ site \in [Urls -> Versions] /\ raw \in [Urls -> Body \cup {None}]
      /\ \A u \in Urls : site[u] \in Nat /\ site[u] <= site[u]
  <2>1. site \in [Urls -> Versions] /\ raw \in [Urls -> Body \cup {None}]
    BY DEF CloneIInv, IInv, RunTypeOK, RecordTypeOK
  <2>2. \A u \in Urls : site[u] \in Nat
    BY <2>1, CloneAssumption
  <2>3. QED
    BY <2>1, <2>2
<1>2. CASE Launch
  BY <1>1, <1>2, HistorySteps DEF Launch, SavedManifest
<1>3. CASE Finish \/ FinishUnsaved \/ Kill
  <2>1. manifest' = Nothing.manifest /\ raw' = raw /\ site' = site
    BY <1>3, HistorySteps
  <2>2. saved' \in {saved, None} \/ (saved' = manifest /\ ~opts.dry_run)
    BY <1>3 DEF Finish, FinishUnsaved, Kill
  <2>3. QED
    BY <1>1, <2>1, <2>2 DEF SavedManifest
<1>4. CASE Refuse \/ UNCHANGED allVars
  BY <1>1, <1>4, HistorySteps DEF Refuse, allVars, vars, cloneVars, memoryVars, diskVars, runVars,
                                  SavedManifest
<1>5. CASE SiteChanges
  <2>1. PICK u \in Urls, v \in Versions : v > site[u] /\ site' = [site EXCEPT ![u] = v]
    BY <1>5 DEF SiteChanges
  <2>2. v \in Nat /\ site[u] <= v
    BY <1>1, <2>1, CloneAssumption
  <2>3. UNCHANGED <<manifest, opts, raw, saved>>
    BY <1>5, HistorySteps DEF memoryVars
  <2>4. \A w \in Urls : site[w] <= site'[w]
    BY <1>1, <2>1, <2>2
  <2>5. QED
    BY <2>3, <2>4 DEF SavedManifest
<1>6. CASE Damage
  <2>1. UNCHANGED <<manifest, opts, site>>
    BY <1>6, HistorySteps DEF memoryVars
  <2>2. \A u \in Urls : raw'[u] \in {raw[u], None}
    BY <1>6 DEF Damage, LoseFile, SpoilManifest, Clean, CleanAll, vars, diskVars
  <2>3. saved' \in {saved, None, Broken}
    BY <1>6 DEF Damage, LoseFile, SpoilManifest, Clean, CleanAll
  <2>4. QED
    BY <1>1, <2>1, <2>2, <2>3 DEF SavedManifest
<1>7. QED
  BY <1>2, <1>3, <1>4, <1>5, <1>6 DEF CloneNext, Operate, Kills

LEMMA StepAged == CloneIInv /\ HistoryFiled /\ Aged /\ [CloneNext]_allVars => Aged'
BY CrawlAged, AroundAged, HistoryHandsOver, StepCloneIInv

-----------------------------------------------------------------------------

\* A run that asks the site has the current version of all that it has dealt
\* with, in the manifest and in the staged copies that it will rewrite.
Asks == (opts.update_mode \/ opts.force) /\ ~opts.dry_run

SettledCurrent == StopRequested \/ \A u \in Settled : Done(u) => manifest[u].sha.ver = site[u]
WaitingCurrent ==
  \A document \in Waiting : LET u == document.url IN
    Done(u) /\ raw[u] # None => raw[u].ver = site[u]

CurrentRun == running /\ Asks => SettledCurrent /\ WaitingCurrent

\* What was dealt with by then.
LEMMA StartsUndecided == StartRun => Settled = {} /\ Waiting = {}
<1> SUFFICES ASSUME StartRun PROVE Settled = {} /\ Waiting = {}
  OBVIOUS
<1>1. queue = <<StartItem>> /\ seen = {UrlOf[StartItem]} /\ documents = <<>>
  BY DEF StartRun, WQ!Init
<1>2. 1 \in DOMAIN queue /\ queue[1] = StartItem
  BY <1>1
<1>3. UrlOf[StartItem] \in Proved!QueuedKeys
  BY <1>2 DEF Proved!QueuedKeys
<1>4. QED
  BY <1>1, <1>3 DEF Settled, Ahead, Waiting

\* What such a run has decided about u is current.
LEMMA DecidedCurrent ==
  ASSUME CloneIInv, HistoryFiled, Aged, Asks, NEW u \in Urls, Decides(u), Done(u)'
  PROVE  /\ StopRequested' \/ manifest'[u].sha.ver = site[u]
         /\ (Waits(u)' /\ raw'[u] # None) => raw'[u].ver = site[u]
<1>1. /\ RecordTypeOK /\ RunTypeOK /\ Located(manifest) /\ site[u] \in Nat /\ IInv
      /\ documents \in Seq(Document)
  BY CloneAssumption DEF CloneIInv, IInv, RunTypeOK, RecordTypeOK, HistoryFiled, Filed
<1>2. ~Waits(u) /\ ~Reusable(u)
  BY DEF HistoryFiled, Filed, DocumentsFiled, Waits, Decides, Reusable, Asks
<1>3. CASE PassedBy(u)
  BY <1>2, <1>3 DEF PassedBy, StopRequested, Waits, Waiting
<1>4. CASE TurnedDown(u)
  <2>1. ~Done(u)'
    BY <1>1, <1>4 DEF TurnedDown, Done, RecordTypeOK
  <2>2. QED
    BY <2>1
<1>5. CASE TakenOver(u)
  <2>1. /\ manifest' = manifest /\ raw' = raw /\ Done(u)
        /\ manifest[u].tag = site[u] /\ site[u] \in Versions
    BY <1>1, <1>2, <1>5 DEF TakenOver, NotModified, diskVars, Done, RunTypeOK
  <2>2. manifest[u].tag # None
    BY <2>1, CrawlerAssumption
  <2>3. /\ manifest[u].sha.ver \in Nat /\ manifest[u].sha.ver <= site[u]
        /\ site[u] <= manifest[u].sha.ver
        /\ NeedsRewriting(manifest[u].kind) /\ raw[u] # None => site[u] <= raw[u].ver
    BY <1>1, <2>1, <2>2, DoneEntry, CloneAssumption DEF Aged, AgedEntry, Done, Asks
  <2>4. raw[u] # None => raw[u].ver \in Nat /\ raw[u].ver <= site[u]
    BY <1>1, CloneAssumption DEF Aged, RawAged, RecordTypeOK, Body
  <2>5. Waits(u)' => NeedsRewriting(manifest[u].kind)
    BY <1>2, <1>5 DEF TakenOver, Waits, Waiting
  <2>6. QED
    BY <1>1, <2>1, <2>3, <2>4, <2>5
<1>6. CASE Downloads(u)
  <2>1. PICK kind \in Kinds :
          /\ manifest' = [manifest EXCEPT ![u] = NewEntry(u, kind)]
          /\ IF NeedsRewriting(kind) THEN raw' = [raw EXCEPT ![u] = Downloaded(u)]
             ELSE documents' = documents
    BY <1>6 DEF Downloads, Asks
  <2>2. manifest'[u].sha.ver = site[u]
    BY <1>1, <2>1 DEF RecordTypeOK, NewEntry, Downloaded
  <2>3. NeedsRewriting(kind) => raw'[u].ver = site[u]
    BY <1>1, <2>1 DEF RecordTypeOK, Downloaded
  <2>4. ~NeedsRewriting(kind) => ~Waits(u)'
    BY <1>2, <2>1 DEF Waits, Waiting
  <2>5. QED
    BY <2>2, <2>3, <2>4
<1>7. QED
  BY <1>3, <1>4, <1>5, <1>6 DEF Decides

LEMMA DecisionCurrent ==
  ASSUME CloneIInv, HistoryFiled, Aged, Asks, SettledCurrent, WaitingCurrent, [Next]_vars,
         NEW u \in Urls, Decides(u)
  PROVE  SettledCurrent' /\ WaitingCurrent'
<1>1. /\ IInv /\ site' = site /\ Settled' = Settled \cup {u} /\ Settled \subseteq Urls
      /\ \A v \in Urls \ {u} : manifest'[v] = manifest[v] /\ raw'[v] = raw[v]
  BY DecisionRecorded, DecisionStaged, AheadSeen DEF CloneIInv, Decides, runVars, Settled
<1>2. SettledCurrent'
  <2> SUFFICES ASSUME ~StopRequested', NEW v \in Settled', Done(v)' PROVE manifest'[v].sha.ver = site[v]
    BY <1>1 DEF SettledCurrent
  <2>1. CASE v = u
    BY <2>1, DecidedCurrent
  <2>2. CASE v # u
    BY <1>1, <2>2, StopStays DEF SettledCurrent, Done
  <2>3. QED
    BY <2>1, <2>2
<1>3. WaitingCurrent'
  <2> SUFFICES ASSUME NEW document \in Waiting', Done(document.url)', raw'[document.url] # None
               PROVE  raw'[document.url].ver = site[document.url]
    BY <1>1 DEF WaitingCurrent
  <2>1. CASE document.url = u
    <3>1. Waits(u)'
      BY <2>1 DEF Waits
    <3>2. QED
      BY <2>1, <3>1, DecidedCurrent
  <2>2. CASE document.url # u
    <3>1. document \in Waiting
      <4>1. documents \in Seq(Document)
        BY <1>1 DEF IInv, RecordTypeOK
      <4>2. CASE documents' = documents
        BY <4>2 DEF Waiting
      <4>3. ASSUME NEW new \in Document, new.url = u, documents' = Append(documents, new)
            PROVE  document \in Waiting
        BY <2>2, <4>1, <4>3, DocumentsAppend
      <4>4. QED
        BY <1>1, <4>2, <4>3, DecisionDocuments
    <3>2. document.url \in Urls
      BY <1>1, <3>1, AheadSeen DEF HistoryFiled, Filed, DocumentsFiled, Settled
    <3>3. QED
      BY <1>1, <2>2, <3>1, <3>2 DEF WaitingCurrent, Done
  <2>3. QED
    BY <2>1, <2>2
<1>4. QED
  BY <1>2, <1>3

LEMMA RewritingCurrent ==
  ASSUME CloneIInv, HistoryFiled, SettledCurrent, WaitingCurrent, NextDocument,
         Rewrite \/ manifest' = manifest
  PROVE  SettledCurrent' /\ WaitingCurrent'
<1> DEFINE next == Head(documents)
<1>1. /\ IInv /\ Filed /\ Settled \subseteq Urls
      /\ Settled' = Settled /\ UNCHANGED <<stop_reason, raw, site>>
      /\ next \in Waiting /\ Waiting' \subseteq Waiting
  BY RewritingSettles, NextFiled, AheadSeen DEF CloneIInv, HistoryFiled, Settled
<1>2. \A v \in Urls :
        /\ Done(v)' => Done(v)
        /\ Done(v)' /\ manifest'[v] # manifest[v] /\ Rewrite /\ v # next.url =>
             manifest'[v].sha = manifest[v].sha
  BY <1>1, RewriteEffect DEF Done
<1>3. WaitingCurrent'
  BY <1>1, <1>2, AheadSeen DEF WaitingCurrent, Filed, DocumentsFiled
<1>4. ASSUME ~StopRequested', NEW v \in Settled, Done(v)' PROVE manifest'[v].sha.ver = site[v]
  <2>1. Done(v) /\ v \in Urls /\ manifest[v].sha.ver = site[v]
    BY <1>1, <1>2, <1>4 DEF SettledCurrent, StopRequested
  <2>2. CASE manifest' = manifest
    BY <2>1, <2>2
  <2>3. CASE Rewrite /\ v # next.url
    <3>1. manifest'[v].sha = manifest[v].sha
      BY <1>1, <2>1, <2>3, RewriteEffect DEF Done
    <3>2. QED
      BY <2>1, <3>1
  <2>4. CASE Rewrite /\ v = next.url
    <3>1. next \in Document /\ raw[v] # None /\ manifest'[v].sha = Rewritten(next)
      BY <1>1, <2>1, <2>4, RewriteEffect DEF Done
    <3>2. Rewritten(next).ver = raw[v].ver
      BY <1>1, <2>4, <3>1, RewrittenVersion DEF IInv
    <3>3. raw[v].ver = site[v]
      BY <1>1, <2>1, <2>4, <3>1 DEF WaitingCurrent
    <3>4. QED
      BY <3>1, <3>2, <3>3
  <2>5. QED
    BY <2>2, <2>3, <2>4
<1>5. QED
  BY <1>1, <1>3, <1>4 DEF SettledCurrent

LEMMA CrawlCurrent ==
  ASSUME CloneIInv, HistoryFiled, Aged, CurrentRun, Crawl
  PROVE  CurrentRun'
<1>1. IInv /\ running' = running /\ running /\ ([Next]_vars \/ PassOver)
  BY DEF CloneIInv, Crawl, cloneVars
<1>2. opts' = opts /\ site' = site
  BY <1>1, StepKinds, RewritingSettles DEF Quiet, Decides, runVars, Rewrite, RewriteFails, PassOver
<1> SUFFICES ASSUME Asks PROVE SettledCurrent' /\ WaitingCurrent'
  BY <1>1, <1>2 DEF CurrentRun, Asks
<1>3. SettledCurrent /\ WaitingCurrent
  BY <1>1 DEF CurrentRun
<1>4. CASE [Next]_vars /\ Quiet
  BY <1>3, <1>4, StopStays DEF Quiet, SettledCurrent, WaitingCurrent, Done, Waiting, diskVars
<1>5. CASE Rewrite \/ RewriteFails \/ PassOver
  BY <1>3, <1>5, RewritingCurrent DEF Rewrite, RewriteFails, PassOver
<1>6. ASSUME NEW u \in Urls, Decides(u), [Next]_vars PROVE SettledCurrent' /\ WaitingCurrent'
  BY <1>3, <1>6, DecisionCurrent
<1>7. QED
  BY <1>1, <1>4, <1>5, <1>6, StepKinds

LEMMA StepCurrent ==
  CloneIInv /\ HistoryFiled /\ Aged /\ CurrentRun /\ [CloneNext]_allVars => CurrentRun'
<1> SUFFICES ASSUME CloneIInv, HistoryFiled, Aged, CurrentRun, [CloneNext]_allVars PROVE CurrentRun'
  OBVIOUS
<1>1. CASE Launch
  <2>1. StartRun' => (Settled = {} /\ Waiting = {})'
    BY StartsUndecided, PTL
  <2>2. Settled' = {} /\ Waiting' = {}
    BY <1>1, <2>1, HistorySteps
  <2>3. QED
    BY <2>2 DEF CurrentRun, SettledCurrent, WaitingCurrent
<1>2. CASE Finish \/ FinishUnsaved \/ Kill \/ SiteChanges
  <2>1. ~running'
    BY <1>2, HistorySteps
  <2>2. QED
    BY <2>1 DEF CurrentRun
<1>3. CASE Refuse \/ Damage \/ UNCHANGED allVars
  <2>1. UNCHANGED <<memoryVars, manifest, site, running>>
    BY <1>3, HistorySteps DEF Refuse, allVars, vars, cloneVars, memoryVars, runVars
  <2>2. \A u \in Urls : raw'[u] \in {raw[u], None}
    <3>1. Refuse \/ UNCHANGED allVars => raw' = raw
      BY HistorySteps DEF allVars, vars, diskVars
    <3>2. Damage => \A u \in Urls : raw'[u] \in {raw[u], None}
      BY DEF Damage, LoseFile, SpoilManifest, Clean, CleanAll, vars, diskVars
    <3>3. QED
      BY <1>3, <3>1, <3>2
  <2>3. Settled' = Settled /\ Waiting' = Waiting /\ opts' = opts /\ stop_reason' = stop_reason
    BY <2>1 DEF memoryVars, countVars, queueVars, workerVars, Settled, Ahead, HeldUrls, Waiting, Proved!QueuedKeys
  <2>4. Waiting \subseteq {document \in Waiting : document.url \in Urls}
    BY AheadSeen DEF HistoryFiled, Filed, DocumentsFiled, Settled, CloneIInv
  <2>5. QED
    BY <2>1, <2>2, <2>3, <2>4 DEF CurrentRun, Asks, SettledCurrent, WaitingCurrent, Done, StopRequested
<1>4. QED
  BY <1>1, <1>2, <1>3, CrawlCurrent DEF CloneNext, Operate, Kills

LEMMA CurrentInvariance == CloneSpec => [](CloneIInv /\ HistoryFiled /\ Aged /\ CurrentRun)
<1>1. CloneInit => Aged /\ CurrentRun
  BY DEF CloneInit, Aged, RawAged, AgedEntry, SavedManifest, Nothing, CurrentRun
<1>2. QED
  BY <1>1, StepAged, StepCurrent, FiledInvariance, PTL DEF CloneSpec

\* A complete --update run leaves nothing stale, in spite of runs that were
\* killed in between, files and staged copies that were lost, and manifests
\* that were: a validator is never newer than the content it is kept with.
THEOREM UpdateBringsCurrent == CloneSpec => []UpdateIsCurrent
<1>1. CloneIInv /\ HistoryFiled /\ CurrentRun => UpdateIsCurrent
  <2> SUFFICES ASSUME CloneIInv, HistoryFiled, CurrentRun, Complete, opts.update_mode,
                      NEW u \in seen, Done(u)
               PROVE  manifest[u].sha.ver = site[u]
    BY DEF UpdateIsCurrent
  <2>1. Settled = seen
    BY AllSettled DEF Complete, Finished, HistoryFiled, Filed, Over, CloneIInv
  <2>2. QED
    BY <2>1 DEF CurrentRun, Complete, Finished, Asks, SettledCurrent
<1>2. QED
  BY <1>1, CurrentInvariance, PTL

-----------------------------------------------------------------------------
(* The files, when every write succeeds that is not cut off by a kill.     *)

\* Nothing vanishes: no file, no staged copy.
LEMMA NothingVanishes ==
  ASSUME Faultless, IInv, [Next]_vars \/ PassOver
  PROVE  /\ \A p \in Paths : disk[p] # None => disk'[p] # None
         /\ \A u \in Urls : raw[u] # None => raw'[u] # None
<1>1. disk \in [Paths -> Body \cup {None}] /\ raw \in [Urls -> Body \cup {None}] /\ RunTypeOK
  BY DEF IInv, RecordTypeOK
<1>2. CASE UNCHANGED diskVars
  BY <1>2 DEF diskVars
<1>3. ASSUME NEW u \in Urls, Decides(u)
      PROVE  /\ \A p \in Paths : disk[p] # None => disk'[p] # None
             /\ \A v \in Urls : raw[v] # None => raw'[v] # None
  <2>1. Downloaded(u) # None
    BY <1>1, WrittenTypes, CrawlerAssumption
  <2>2. \A p \in Paths : disk'[p] \in {disk[p], Downloaded(u)}
    BY <1>3, DecisionFiles DEF Faultless
  <2>3. raw' = raw \/ raw' = [raw EXCEPT ![u] = Downloaded(u)]
    BY <1>3 DEF Decides, PassedBy, TurnedDown, TakenOver, Downloads, diskVars, Faultless
  <2>4. QED
    BY <1>1, <2>1, <2>2, <2>3
<1>4. CASE Rewrite
  <2>1. /\ disk' = [disk EXCEPT ![Head(documents).path] = Rewritten(Head(documents))]
        /\ Rewritten(Head(documents)) # None
    BY <1>4, RewriteEffect, CrawlerAssumption
  <2>2. raw' = raw
    BY <1>4, RewritingSettles DEF Rewrite
  <2>3. QED
    BY <1>1, <2>1, <2>2
<1>5. ~RewriteFails
  BY DEF RewriteFails, Faultless
<1>6. QED
  BY <1>2, <1>3, <1>4, <1>5, StepKinds, RewritingSettles DEF Quiet, PassOver, diskVars

\* The document that is queued has its staged copy.
LEMMA StepStaged ==
  ASSUME Faultless, IInv, Filed, Staged, [Next]_vars \/ PassOver
  PROVE  Staged'
<1>1. \A u \in Urls : raw[u] # None => raw'[u] # None
  BY NothingVanishes
<1>2. \A document \in Waiting : document.url \in Urls
  BY AheadSeen DEF Filed, DocumentsFiled, Settled
<1>3. CASE Waiting' \subseteq Waiting
  BY <1>1, <1>2, <1>3 DEF Staged
<1>4. ASSUME NEW u \in Urls, Decides(u) PROVE Staged'
  <2>1. documents \in Seq(Document) /\ raw \in [Urls -> Body \cup {None}] /\ RunTypeOK
    BY DEF IInv, RecordTypeOK
  <2>2. CASE documents' = documents
    BY <1>3, <2>2 DEF Waiting
  <2>3. ASSUME NEW document \in Document, documents' = Append(documents, document),
               document.url = u
        PROVE  raw'[document.url] # None => Staged'
    <3>1. Waiting' = Waiting \cup {document}
      BY <2>1, <2>3, DocumentsAppend
    <3>2. QED
      BY <1>1, <1>2, <3>1 DEF Staged
  <2>4. ASSUME documents' # documents PROVE raw'[u] # None
    <3>1. CASE TakenOver(u)
      BY <2>4, <3>1 DEF TakenOver, diskVars
    <3>2. CASE Downloads(u)
      <4>1. raw' = [raw EXCEPT ![u] = Downloaded(u)]
        BY <2>4, <3>2 DEF Downloads
      <4>2. Downloaded(u) # None
        BY <2>1, WrittenTypes, CrawlerAssumption
      <4>3. QED
        BY <2>1, <4>1, <4>2
    <3>3. QED
      BY <1>4, <2>4, <3>1, <3>2 DEF Decides, PassedBy, TurnedDown
  <2>5. QED
    BY <1>4, <2>2, <2>3, <2>4, DecisionDocuments
<1>5. CASE NextDocument
  BY <1>3, <1>5, NextFiled
<1>6. CASE documents' = documents
  BY <1>3, <1>6 DEF Waiting
<1>7. QED
  BY <1>4, <1>5, <1>6, StepKinds DEF Quiet, Rewrite, RewriteFails, PassOver

\* A document whose staged copy is there is passed over only if its URL has no
\* place, and then there is no file of it, nor a link to one.
LEMMA PassOverHarmless ==
  ASSUME IInv, Filed, Staged, PassOver
  PROVE  /\ \A u \in Urls : (ThereFor(u) => ThereFor(u)') /\ (KeptFor(u) => KeptFor(u)')
         /\ SumsLead => SumsLead'
<1> DEFINE document == Head(documents)
<1>1. /\ NextDocument /\ UNCHANGED <<disk, manifest, opts>>
      /\ document \in Waiting /\ document.url \in Urls
      /\ Waiting' = Waiting \ {document}
      /\ document.path = manifest[document.url].path
      /\ document.path \in PlacesOf(document.url) \cup {None}
  BY NextFiled DEF PassOver, NextDocument
<1>2. document.url \in Outside
  BY <1>1 DEF PassOver, Staged
<1>3. document.path = None /\ manifest[document.url].path = None
  BY <1>1, <1>2 DEF PlacesOf
<1>4. \A u \in Urls : Done(u) /\ Waits(u) => Waits(u)'
  BY <1>1, <1>3, DonePlace, CrawlerAssumption DEF Waits, Filed, OneDocumentEach
<1>5. \A u \in Urls : (ThereFor(u) => ThereFor(u)') /\ (KeptFor(u) => KeptFor(u)')
  BY <1>1, <1>4 DEF ThereFor, KeptFor, Done
<1>6. ASSUME SumsLead PROVE SumsLead'
  <2> SUFFICES ASSUME NEW u \in Urls, Done(u), NEW q \in manifest[u].sha.local PROVE Led(q)'
    BY <1>1 DEF SumsLead, Done
  <2>1. q \in Paths
    BY DonePlace DEF Filed, Body
  <2>2. Led(q) /\ q # document.path
    BY <1>3, <1>6, <2>1, CrawlerAssumption DEF SumsLead
  <2>3. QED
    BY <1>1, <2>2 DEF Led
<1>7. QED
  BY <1>5, <1>6

\* So do the links of which the checksums tell.
LEMMA StepSumsLead ==
  ASSUME Faultless, IInv, Filed, StagedPlain, SumsLead, [Next]_vars,
         phase = "rewrite" => \A u \in Urls : ThereFor(u)
  PROVE  SumsLead'
<1> SUFFICES ASSUME NEW u \in Urls, Done(u)', NEW q \in manifest'[u].sha.local PROVE Led(q)'
  BY DEF SumsLead
<1>1. q \in Paths
  <2>1. manifest'[u] \in Entry /\ manifest'[u].sha # None
    BY StepIInv, StepLocated DEF IInv, RecordTypeOK, Done, Filed, Located
  <2>2. QED
    BY <2>1 DEF Entry, Body
<1>2. CASE manifest'[u] = manifest[u]
  BY <1>1, <1>2, LedStays DEF SumsLead, Done, Faultless
<1>3. ASSUME NEW v \in Urls, Decides(v), manifest'[u] # manifest[u] PROVE FALSE
  <2>1. v = u /\ manifest \in [Urls -> Entry \cup {None}]
    BY <1>3, DecisionRecorded DEF IInv, RecordTypeOK
  <2>2. CASE TurnedDown(u)
    BY <2>1, <2>2 DEF TurnedDown, Done
  <2>3. CASE Downloads(u)
    BY <2>1, <2>3 DEF Downloads, NewEntry, Downloaded
  <2>4. QED
    BY <1>3, <2>1, <2>2, <2>3 DEF Decides, PassedBy, TakenOver
<1>4. CASE Rewrite
  <2>1. Done(u) /\ phase = "rewrite"
    BY <1>4, RewriteEffect DEF Done, Rewrite, NextDocument
  <2>2. CASE u = Head(documents).url
    <3>1. q \in Rewritten(Head(documents)).local
      BY <1>4, <2>1, <2>2, RewriteEffect DEF Done
    <3>2. QED
      BY <1>1, <1>4, <2>1, <3>1, RewrittenLed, LedStays DEF Faultless
  <2>3. CASE u # Head(documents).url
    <3>1. q \in manifest[u].sha.local
      BY <1>4, <2>1, <2>3, RewriteEffect DEF Done
    <3>2. QED
      BY <1>1, <2>1, <3>1, LedStays DEF SumsLead, Faultless
  <2>4. QED
    BY <2>2, <2>3
<1>5. QED
  BY <1>2, <1>3, <1>4, StepKinds DEF Quiet, RewriteFails

-----------------------------------------------------------------------------
(* The mirror and its manifest over several runs.                          *)

\* The files of the saved manifest are there, with those that they link to;
\* and they are what it says.
SavedThere ==
  SavedManifest => \A u \in Urls : saved[u] # None /\ saved[u].state = "done" =>
    disk[saved[u].path] # None /\ \A q \in saved[u].sha.local : disk[q] # None

SavedExact ==
  SavedManifest => \A u \in Urls : saved[u] # None /\ saved[u].state = "done" =>
    disk[saved[u].path] = saved[u].sha

\* What a run that writes has recorded so far is there, or will be.
Writes == running /\ ~opts.dry_run
AllThere == \A u \in Urls : ThereFor(u)
AllKept == \A u \in Urls : KeptFor(u)

Whole ==
  /\ Staged /\ StagedPlain /\ SavedThere
  /\ Writes => AllThere /\ SumsLead
  /\ Undisturbed => IF Writes THEN AllKept ELSE SavedExact

MirrorWhole == fate # "damaged" => Whole

LEMMA CrawlWhole ==
  ASSUME Faultless, PlacesApart, CloneIInv, HistoryFiled, Whole, Crawl
  PROVE  Whole'
<1>1. /\ IInv /\ Filed /\ ([Next]_vars \/ PassOver)
      /\ UNCHANGED <<running, saved, fate>>
  BY DEF CloneIInv, HistoryFiled, Crawl, cloneVars
<1>2. opts' = opts
  BY <1>1, OptionsStay DEF PassOver, NextDocument
<1>3. Staged'
  BY <1>1, StepStaged DEF Whole
<1>4. StagedPlain'
  <2>1. PassOver => raw' = raw
    BY RewritingSettles DEF PassOver
  <2>2. QED
    BY <1>1, <2>1, StepStagedPlain DEF Whole, StagedPlain
<1>5. SavedThere'
  <2> SUFFICES ASSUME SavedManifest, NEW u \in Urls, saved[u] # None, saved[u].state = "done"
               PROVE  disk'[saved[u].path] # None /\ \A q \in saved[u].sha.local : disk'[q] # None
    BY <1>1 DEF SavedThere, SavedManifest
  <2>1. saved[u].path \in Paths /\ saved[u].sha.local \subseteq Paths
    BY SavedEntry DEF CloneIInv, HistoryFiled, Body
  <2>2. disk[saved[u].path] # None /\ \A q \in saved[u].sha.local : disk[q] # None
    BY DEF Whole, SavedThere
  <2>3. QED
    BY <1>1, <2>1, <2>2, NothingVanishes
<1>6. ASSUME Writes PROVE AllThere' /\ SumsLead'
  <2>1. AllThere /\ SumsLead /\ ~opts.dry_run
    BY <1>6 DEF Whole, Writes
  <2>2. CASE [Next]_vars
    <3>1. AllThere'
      BY <1>1, <2>1, <2>2, StepKept DEF AllThere, Faultless
    <3>2. SumsLead'
      BY <1>1, <2>1, <2>2, StepSumsLead DEF AllThere, Whole
    <3>3. QED
      BY <3>1, <3>2
  <2>3. CASE PassOver
    BY <1>1, <2>1, <2>3, PassOverHarmless DEF AllThere, Whole
  <2>4. QED
    BY <1>1, <2>2, <2>3
<1>7. ASSUME Writes, AllKept PROVE AllKept'
  <2>1. CASE [Next]_vars
    BY <1>1, <1>7, <2>1, StepKept DEF AllKept, Faultless, Writes
  <2>2. CASE PassOver
    BY <1>1, <1>7, <2>2, PassOverHarmless DEF AllKept, Whole
  <2>3. QED
    BY <1>1, <2>1, <2>2
<1>8. ASSUME running, ~Writes, SavedExact PROVE SavedExact'
  <2>1. disk' = disk
    BY <1>1, <1>8, DryStep DEF Writes
  <2>2. QED
    BY <1>1, <1>8, <2>1 DEF SavedExact, SavedManifest
<1>9. running
  BY DEF Crawl
<1>10. Writes' = Writes /\ Undisturbed' = Undisturbed
  BY <1>1, <1>2 DEF Writes, Undisturbed
<1>11. Undisturbed' => IF Writes' THEN AllKept' ELSE SavedExact'
  BY <1>7, <1>8, <1>9, <1>10 DEF Whole
<1>12. QED
  BY <1>3, <1>4, <1>5, <1>6, <1>10, <1>11 DEF Whole

\* At the end of a run that writes, its manifest is as good as a saved one.
LEMMA FinishedWhole ==
  ASSUME CloneIInv, HistoryFiled, Whole, Writes, phase = "done", Faultless,
         NEW u \in Urls, Done(u)
  PROVE  /\ disk[manifest[u].path] # None
         /\ \A q \in manifest[u].sha.local : disk[q] # None
         /\ Undisturbed => disk[manifest[u].path] = manifest[u].sha
<1>1. Waiting = {} /\ LinkFaults = {}
  BY DEF HistoryFiled, Filed, PhasesEnd, Waiting, Writes, Faultless, LinkFaults
<1>2. AllThere /\ SumsLead /\ (Undisturbed => AllKept)
  BY DEF Whole
<1>3. ~Waits(u)
  BY <1>1 DEF Waits
<1>4. \A q \in manifest[u].sha.local : Led(q)
  BY <1>2 DEF SumsLead
<1>5. \A q \in manifest[u].sha.local : disk[q] # None
  BY <1>1, <1>4 DEF Led
<1>6. QED
  BY <1>2, <1>3, <1>5 DEF AllThere, AllKept, ThereFor, KeptFor

LEMMA LaunchWhole ==
  ASSUME Whole, HistoryFiled, Launch
  PROVE  Whole'
<1>1. StartRun' => (Waiting = {})'
  BY StartsUndecided, PTL
<1>2. /\ Waiting' = {} /\ ~running
      /\ UNCHANGED <<disk, raw, saved, fate>>
      /\ manifest' = Nothing.manifest \/ (SavedManifest /\ manifest' = saved)
  BY <1>1, HistorySteps DEF Launch, diskVars, SavedManifest
<1>3. Staged' /\ StagedPlain' /\ SavedThere'
  BY <1>2 DEF Whole, Staged, StagedPlain, SavedThere, SavedManifest
<1>4. \A u \in Urls : Done(u)' => SavedManifest /\ manifest'[u] = saved[u] /\ saved[u] # None /\ saved[u].state = "done"
  BY <1>2 DEF Done, Nothing
<1>5. AllThere' /\ SumsLead'
  BY <1>2, <1>4 DEF AllThere, SumsLead, ThereFor, Led, Whole, SavedThere
<1>6. Undisturbed => AllKept' /\ SavedExact'
  BY <1>2, <1>4 DEF AllKept, KeptFor, SavedExact, SavedManifest, Whole, Writes
<1>7. QED
  BY <1>2, <1>3, <1>5, <1>6 DEF Whole, Undisturbed

LEMMA EndWhole ==
  ASSUME Faultless, CloneIInv, HistoryFiled, Whole, Finish \/ FinishUnsaved \/ Kill
  PROVE  Whole'
<1>1. StartRun' => (Waiting = {})'
  BY StartsUndecided, PTL
<1>2. Waiting' = {} /\ ~running' /\ running /\ UNCHANGED <<disk, raw>>
  BY <1>1, HistorySteps
<1>3. Staged' /\ StagedPlain'
  BY <1>2 DEF Whole, Staged, StagedPlain
<1>4. CASE Finish /\ Writes
  <2>1. saved' = manifest /\ phase = "done" /\ fate' = fate
    BY <1>4 DEF Finish, Writes
  <2>2. SavedThere' /\ (Undisturbed => SavedExact')
    BY <1>2, <1>4, <2>1, FinishedWhole DEF SavedThere, SavedExact, Done
  <2>3. QED
    BY <1>2, <1>3, <2>1, <2>2 DEF Whole, Writes, Undisturbed
<1>5. CASE Finish /\ ~Writes
  <2>1. saved' = saved /\ fate' = fate /\ running
    BY <1>2, <1>5 DEF Finish, Writes
  <2>2. SavedThere' /\ (Undisturbed => SavedExact')
    BY <1>2, <1>5, <2>1 DEF Whole, SavedThere, SavedExact, SavedManifest
  <2>3. QED
    BY <1>2, <1>3, <2>1, <2>2 DEF Whole, Writes, Undisturbed
<1>6. CASE FinishUnsaved \/ Kill
  <2>1. (saved' = saved \/ saved' = None) /\ ~Undisturbed'
    BY <1>6 DEF FinishUnsaved, Kill, Killed, Undisturbed
  <2>2. SavedThere'
    BY <1>2, <2>1 DEF Whole, SavedThere, SavedManifest
  <2>3. QED
    BY <1>2, <1>3, <2>1, <2>2 DEF Whole, Writes
<1>7. QED
  BY <1>4, <1>5, <1>6

LEMMA StepWhole ==
  Faultless /\ PlacesApart /\ CloneIInv /\ HistoryFiled /\ MirrorWhole /\ [CloneNext]_allVars
    => MirrorWhole'
<1> SUFFICES ASSUME Faultless, PlacesApart, CloneIInv, HistoryFiled, MirrorWhole,
                    [CloneNext]_allVars, fate' # "damaged"
             PROVE  Whole'
  BY DEF MirrorWhole
<1>1. ~Damage
  BY HistorySteps
<1>2. fate # "damaged"
  BY <1>1 DEF CloneNext, Operate, Kills, Launch, Refuse, Crawl, Finish, FinishUnsaved, SiteChanges,
              Kill, Killed, allVars, cloneVars
<1>3. Whole
  BY <1>2 DEF MirrorWhole
<1>4. CASE Refuse \/ SiteChanges \/ UNCHANGED allVars
  <2>1. /\ UNCHANGED <<memoryVars, manifest, disk, raw, running, saved>>
        /\ Undisturbed' => Undisturbed
    BY <1>4, HistorySteps DEF Refuse, SiteChanges, allVars, vars, cloneVars, memoryVars,
                              diskVars, runVars, Undisturbed
  <2>2. UNCHANGED <<documents, opts>> /\ Waiting' = Waiting
    BY <2>1 DEF memoryVars, Waiting
  <2>3. Staged' /\ StagedPlain' /\ SavedThere' /\ Writes' = Writes
    BY <1>3, <2>1, <2>2 DEF Whole, Staged, StagedPlain, SavedThere, SavedManifest, Writes
  <2>4. (AllThere => AllThere') /\ (AllKept => AllKept') /\ (SumsLead => SumsLead')
    BY <2>1, <2>2 DEF AllThere, AllKept, SumsLead, ThereFor, KeptFor, Led, Done, Waits
  <2>5. SavedExact => SavedExact'
    BY <2>1 DEF SavedExact, SavedManifest
  <2>6. QED
    BY <1>3, <2>1, <2>3, <2>4, <2>5 DEF Whole
<1>5. QED
  BY <1>1, <1>3, <1>4, CrawlWhole, LaunchWhole, EndWhole DEF CloneNext, Operate, Kills

LEMMA WholeInvariance ==
  ASSUME Faultless, PlacesApart
  PROVE  CloneSpec => [](CloneIInv /\ HistoryFiled /\ MirrorWhole)
<1>1. CloneInit => MirrorWhole
  <2>1. StartRun => Waiting = {}
    BY StartsUndecided
  <2>2. QED
    BY <2>1 DEF CloneInit, MirrorWhole, Whole, Staged, StagedPlain, Nothing, SavedThere, SavedExact,
                SavedManifest, Writes, AllThere, SumsLead
<1>2. QED
  BY <1>1, StepWhole, FiledInvariance, PTL DEF CloneSpec

-----------------------------------------------------------------------------
(* In the following theorems every write succeeds that is not cut off by   *)
(* the end of the process, and no two URLs share a file.                   *)

\* At any moment, in the middle of a run that replaces them or after it was
\* killed, the files of the saved manifest are there.
THEOREM SavedFilesStay ==
  ASSUME Faultless, PlacesApart
  PROVE  CloneSpec => []SavedFilesExist
<1>1. MirrorWhole => SavedFilesExist
  BY DEF MirrorWhole, Whole, SavedThere, SavedManifest, SavedFilesExist
<1>2. QED
  BY <1>1, WholeInvariance, PTL

\* When surl check calls the mirror intact, it is: no link in the files that it
\* has compared with their checksums dangles, also when runs have been killed.
THEOREM CheckCanBeTrusted ==
  ASSUME Faultless, PlacesApart
  PROVE  CloneSpec => []CheckMeansIntact
<1>1. MirrorWhole => CheckMeansIntact
  BY DEF MirrorWhole, Whole, SavedThere, SavedManifest, CheckMeansIntact, CheckExitCode
<1>2. QED
  BY <1>1, WholeInvariance, PTL

\* A mirror of which no run was killed and no file lost is intact after every
\* run: each file is what the manifest says, and no link between them dangles,
\* however many runs, of whatever modes, have made it, and however the site has
\* changed between them.
THEOREM MirrorStaysIntact ==
  ASSUME Faultless, PlacesApart
  PROVE  CloneSpec => []MirrorIntact
<1>1. CloneIInv /\ HistoryFiled /\ MirrorWhole => MirrorIntact
  <2> SUFFICES ASSUME CloneIInv, HistoryFiled, MirrorWhole, Undisturbed, Finished, ~opts.dry_run,
                      NEW u \in Urls, Done(u)
               PROVE  /\ disk[manifest[u].path] = manifest[u].sha
                      /\ \A q \in disk[manifest[u].path].local : disk[q] # None
    BY DEF MirrorIntact
  <2>1. Whole /\ Writes /\ phase = "done"
    BY DEF MirrorWhole, Undisturbed, Finished, Writes
  <2>2. QED
    BY <2>1, FinishedWhole
<1>2. QED
  BY <1>1, WholeInvariance, PTL

-----------------------------------------------------------------------------
(* What killed runs leave behind, and how a later one puts it right.       *)

\* An entry says where a URL of its kind is stored.
PlacedEntry(u, entry) ==
  entry # None /\ (entry.state = "done" \/ NeedsRewriting(entry.kind)) =>
    entry.kind \in KindsOf(u) /\ entry.path = PathOf[<<u, entry.kind>>]

Placed ==
  /\ \A u \in Urls : PlacedEntry(u, manifest[u])
  /\ SavedManifest => \A u \in Urls : PlacedEntry(u, saved[u])

LEMMA CrawlPlaced ==
  ASSUME StageFaults = {}, IInv, \A u \in Urls : PlacedEntry(u, manifest[u]),
         [Next]_vars \/ PassOver
  PROVE  \A u \in Urls : PlacedEntry(u, manifest'[u])
<1>1. manifest \in [Urls -> Entry \cup {None}]
  BY DEF IInv, RecordTypeOK
<1>2. CASE manifest' = manifest
  BY <1>2
<1>3. ASSUME NEW v \in Urls, Decides(v) PROVE \A u \in Urls : PlacedEntry(u, manifest'[u])
  <2>1. CASE TurnedDown(v)
    <3>1. PICK entry \in Entry :
            /\ entry.state \in {"failed", "skipped"} /\ entry.kind = "asset"
            /\ manifest' = [manifest EXCEPT ![v] = entry]
      BY <2>1 DEF TurnedDown
    <3>2. PlacedEntry(v, entry)
      BY <3>1 DEF PlacedEntry, NeedsRewriting
    <3>3. QED
      BY <1>1, <3>1, <3>2
  <2>2. CASE Downloads(v)
    <3>1. PICK kind \in Kinds :
            /\ kind = TypeOf[v] \/ (TypeOf[v] = "other" /\ kind \in {"html", "asset"})
            /\ manifest' = [manifest EXCEPT ![v] = NewEntry(v, kind)]
      BY <2>2 DEF Downloads
    <3>2. kind \in KindsOf(v)
      BY <3>1 DEF KindsOf, Kinds
    <3>3. PlacedEntry(v, NewEntry(v, kind))
      BY <3>2 DEF PlacedEntry, NewEntry
    <3>4. QED
      BY <1>1, <3>1, <3>3
  <2>3. QED
    BY <1>2, <1>3, <2>1, <2>2 DEF Decides, PassedBy, TakenOver
<1>4. CASE Rewrite
  <2> SUFFICES ASSUME NEW u \in Urls PROVE PlacedEntry(u, manifest'[u])
    OBVIOUS
  <2>1. manifest[u] = None => manifest'[u] = None
    BY <1>4, RewriteEffect
  <2>2. manifest[u] # None => /\ manifest'[u].state = manifest[u].state
                              /\ manifest'[u].path = manifest[u].path
                              /\ manifest'[u].kind = manifest[u].kind
    BY <1>4, RewriteEffect
  <2>3. QED
    BY <2>1, <2>2 DEF PlacedEntry
<1>5. QED
  BY <1>2, <1>3, <1>4, StepKinds DEF Quiet, RewriteFails, PassOver

LEMMA StepPlaced ==
  ASSUME StageFaults = {}, CloneIInv, Placed, [CloneNext]_allVars
  PROVE  Placed'
<1>1. CASE Crawl
  BY <1>1, CrawlPlaced DEF Crawl, cloneVars, CloneIInv, Placed, PlacedEntry, SavedManifest
<1>2. CASE ~Crawl
  <2>1. \/ manifest' = manifest
        \/ manifest' = Nothing.manifest
        \/ manifest' = saved /\ SavedManifest
    BY <1>2, HistoryHandsOver
  <2>2. SavedManifest' => (SavedManifest /\ saved' = saved) \/ saved' = manifest
    BY <1>2, HistoryHandsOver
  <2>3. \A u \in Urls : PlacedEntry(u, Nothing.manifest[u])
    BY DEF PlacedEntry, Nothing
  <2>4. QED
    BY <2>1, <2>2, <2>3 DEF Placed, PlacedEntry
<1>3. QED
  BY <1>1, <1>2

\* Where u is stored as an asset there is nothing but u, as it was downloaded
\* at some time.
AssetPlace(u) == PathOf[<<u, "asset">>]
MayBeAsset(u) == u \notin Outside /\ "asset" \in KindsOf(u)

PlainFile(u, file) ==
  file # None => file.of = u /\ file.base = None /\ file.local = {} /\ file.ver <= site[u]

\* Only u is stored there.
LEMMA AssetPlaceStep ==
  ASSUME Faultless, PlacesApart, KindsApart, IInv, Filed, \A u \in Urls : PlacedEntry(u, manifest[u]),
         [Next]_vars \/ PassOver, NEW u \in Urls, MayBeAsset(u)
  PROVE  disk'[AssetPlace(u)] \in {disk[AssetPlace(u)], Downloaded(u)}
<1> DEFINE p == AssetPlace(u)
<1>1. /\ p \in Paths /\ p \in PlacesOf(u) /\ disk \in [Paths -> Body \cup {None}]
      /\ "asset" \in Kinds
  BY CrawlerAssumption DEF AssetPlace, PlacesOf, MayBeAsset, IInv, RecordTypeOK, Kinds
<1>2. CASE disk' = disk
  BY <1>2
<1>3. ASSUME NEW v \in Urls, Decides(v) PROVE disk'[p] \in {disk[p], Downloaded(u)}
  <2>1. CASE v = u
    BY <1>1, <1>3, <2>1, DecisionFiles DEF Faultless
  <2>2. CASE v # u
    <3>1. p \notin PlacesOf(v)
      BY <1>1, <2>2, FilesApart
    <3>2. QED
      BY <1>1, <1>3, <3>1, DecisionFiles
  <2>3. QED
    BY <2>1, <2>2
<1>4. CASE Rewrite
  <2> DEFINE document == Head(documents)
             v == document.url
             kind == manifest[v].kind
  <2>1. /\ v \in Urls /\ v \notin Outside
        /\ disk' = [disk EXCEPT ![document.path] = Rewritten(document)]
    BY <1>4, RewriteEffect
  <2>2. /\ document \in Waiting /\ document.path = manifest[v].path
        /\ manifest[v] # None /\ NeedsRewriting(kind)
    BY <1>4, NextFiled DEF Rewrite, Filed, DocumentsFiled
  <2>3. kind \in KindsOf(v) /\ document.path = PathOf[<<v, kind>>] /\ kind \in {"html", "manifest"}
    BY <2>1, <2>2 DEF PlacedEntry, NeedsRewriting
  <2>4. CASE v = u
    <3>1. TypeOf[u] = "other" /\ kind = "html"
      BY <2>3, <2>4 DEF KindsOf, MayBeAsset
    <3>2. document.path # p
      BY <2>3, <2>4, <3>1 DEF KindsApart, AssetPlace
    <3>3. QED
      BY <1>1, <2>1, <3>2
  <2>5. CASE v # u
    <3>1. document.path # p
      BY <1>1, <2>1, <2>3, <2>5 DEF PlacesApart, AssetPlace, Kinds
    <3>2. QED
      BY <1>1, <2>1, <3>1
  <2>6. QED
    BY <2>4, <2>5
<1>5. QED
  BY <1>2, <1>3, <1>4, StepKinds DEF Quiet, diskVars, RewriteFails, PassOver, Faultless

-----------------------------------------------------------------------------

\* An entry that is done can be brought up to date: a document has its staged
\* copy, and the file of an asset is no older than the validator.
Carried(u, entry) ==
  entry # None /\ entry.state = "done" =>
    IF NeedsRewriting(entry.kind) THEN raw[u] # None
    ELSE /\ entry.sha.of = u /\ entry.sha.base = None /\ entry.sha.local = {}
         /\ disk[entry.path] # None
         /\ entry.tag # None => entry.tag <= disk[entry.path].ver

OwnFiles == \A u \in Urls : MayBeAsset(u) => PlainFile(u, disk[AssetPlace(u)])

\* What a run that asks the site has dealt with is in order.
SettledKept == StopRequested \/ \A u \in Settled : KeptFor(u)

Healthy ==
  /\ OwnFiles
  /\ SavedManifest => \A u \in Urls : Carried(u, saved[u])
  /\ Writes => \A u \in Urls : Carried(u, manifest[u])
  /\ Writes /\ Asks => SettledKept

MirrorHealthy == fate # "damaged" => Healthy

\* Contents are the same if their parts are.
LEMMA SameBody ==
  ASSUME NEW a \in Body, NEW b \in Body, a.of = b.of, a.ver = b.ver, a.base = b.base, a.local = b.local
  PROVE  a = b
BY DEF Body

\* An asset that is done is stored where assets are.
LEMMA AssetEntry ==
  ASSUME NEW u \in Urls, NEW entry, entry # None, entry.state = "done", entry.kind \in Kinds,
         ~NeedsRewriting(entry.kind), entry.path \in PlacesOf(u), PlacedEntry(u, entry)
  PROVE  MayBeAsset(u) /\ entry.path = AssetPlace(u)
<1>1. entry.kind = "asset" /\ u \notin Outside
  BY DEF NeedsRewriting, Kinds, PlacesOf
<1>2. QED
  BY <1>1 DEF PlacedEntry, MayBeAsset, AssetPlace

LEMMA CrawlOwnFiles ==
  ASSUME Faultless, PlacesApart, KindsApart, IInv, Filed, \A u \in Urls : PlacedEntry(u, manifest[u]),
         [Next]_vars \/ PassOver, OwnFiles
  PROVE  OwnFiles'
<1> SUFFICES ASSUME NEW u \in Urls, MayBeAsset(u) PROVE PlainFile(u, disk[AssetPlace(u)])'
  BY DEF OwnFiles, MayBeAsset, AssetPlace
<1>1. site' = site /\ site[u] \in Nat
  BY StepKinds, RewritingSettles, CloneAssumption
     DEF Quiet, Decides, runVars, Rewrite, RewriteFails, PassOver, IInv, RunTypeOK
<1>2. CASE disk'[AssetPlace(u)] = disk[AssetPlace(u)]
  BY <1>1, <1>2 DEF OwnFiles, PlainFile
<1>3. CASE disk'[AssetPlace(u)] = Downloaded(u)
  BY <1>1, <1>3 DEF PlainFile, Downloaded
<1>4. QED
  BY <1>2, <1>3, AssetPlaceStep

\* An entry that a step leaves alone stays fit.
LEMMA StaysCarried ==
  ASSUME Faultless, PlacesApart, KindsApart, IInv, Filed, \A u \in Urls : PlacedEntry(u, manifest[u]),
         [Next]_vars \/ PassOver,
         NEW u \in Urls, NEW entry \in Entry \cup {None}, Carried(u, entry), PlacedEntry(u, entry),
         AgedEntry(u, entry),
         entry # None /\ entry.state = "done" => entry.path \in PlacesOf(u) /\ entry.sha \in Body
  PROVE  /\ entry # None /\ entry.state = "done" /\ NeedsRewriting(entry.kind) => raw'[u] # None
         /\ entry # None /\ entry.state = "done" /\ ~NeedsRewriting(entry.kind) =>
              /\ disk'[entry.path] # None
              /\ entry.tag # None => entry.tag <= disk'[entry.path].ver
<1> SUFFICES ASSUME entry # None, entry.state = "done"
             PROVE  /\ NeedsRewriting(entry.kind) => raw'[u] # None
                    /\ ~NeedsRewriting(entry.kind) =>
                         /\ disk'[entry.path] # None
                         /\ entry.tag # None => entry.tag <= disk'[entry.path].ver
  OBVIOUS
<1>1. CASE NeedsRewriting(entry.kind)
  BY <1>1, NothingVanishes DEF Carried
<1>2. CASE ~NeedsRewriting(entry.kind)
  <2>1. entry \in Entry /\ entry.kind \in Kinds
    BY DEF Entry
  <2>2. MayBeAsset(u) /\ entry.path = AssetPlace(u) /\ entry.path \in Paths
    BY <1>2, <2>1, AssetEntry, CrawlerAssumption DEF AssetPlace, Kinds
  <2>3. disk[entry.path] # None /\ disk'[entry.path] # None
    BY <1>2, <2>2, NothingVanishes DEF Carried
  <2>4. ASSUME entry.tag # None PROVE entry.tag <= disk'[entry.path].ver
    <3>1. CASE disk'[entry.path] = disk[entry.path]
      BY <1>2, <2>4, <3>1 DEF Carried
    <3>2. CASE disk'[entry.path] = Downloaded(u)
      <4>1. entry.sha.ver \in Nat /\ entry.tag \in Nat /\ site[u] \in Nat
        BY <2>1, <2>4, CloneAssumption DEF Entry, Body, IInv, RunTypeOK
      <4>2. entry.tag <= entry.sha.ver /\ entry.sha.ver <= site[u]
        BY <2>4 DEF AgedEntry
      <4>3. entry.tag <= site[u]
        BY <4>1, <4>2
      <4>4. QED
        BY <3>2, <4>3 DEF Downloaded
    <3>3. QED
      BY <2>2, <3>1, <3>2, AssetPlaceStep
  <2>5. QED
    BY <1>2, <2>3, <2>4
<1>3. QED
  BY <1>1, <1>2

\* What is recorded is fit, be it new, rewritten, or as it was.
LEMMA DownloadCarried ==
  ASSUME IInv, NEW u \in Urls, Downloads(u), ~opts.dry_run
  PROVE  Carried(u, manifest[u])'
<1>1. /\ manifest \in [Urls -> Entry \cup {None}] /\ raw \in [Urls -> Body \cup {None}]
      /\ disk \in [Paths -> Body \cup {None}] /\ site[u] \in Nat /\ RunTypeOK
  BY CloneAssumption DEF IInv, RecordTypeOK, RunTypeOK
<1>2. PICK kind \in Kinds :
        /\ manifest' = [manifest EXCEPT ![u] = NewEntry(u, kind)]
        /\ IF NeedsRewriting(kind) THEN raw' = [raw EXCEPT ![u] = Downloaded(u)]
           ELSE disk' = [disk EXCEPT ![PathOf[<<u, kind>>]] = Downloaded(u)]
  BY DEF Downloads
<1>3. manifest'[u] = NewEntry(u, kind)
  BY <1>1, <1>2
<1>4. PathOf[<<u, kind>>] \in Paths /\ Downloaded(u) # None
  BY <1>1, NewTypes, CrawlerAssumption
<1>5. /\ NewEntry(u, kind).sha = Downloaded(u) /\ NewEntry(u, kind).tag \in {site[u], None}
      /\ NewEntry(u, kind).kind = kind /\ NewEntry(u, kind).path = PathOf[<<u, kind>>]
      /\ Downloaded(u).ver = site[u] /\ Downloaded(u).of = u
      /\ Downloaded(u).base = None /\ Downloaded(u).local = {}
  BY DEF NewEntry, Downloaded
<1>6. CASE NeedsRewriting(kind)
  <2>1. raw'[u] # None
    BY <1>1, <1>2, <1>4, <1>6
  <2>2. QED
    BY <1>3, <1>5, <1>6, <2>1 DEF Carried
<1>7. CASE ~NeedsRewriting(kind)
  <2>1. disk'[PathOf[<<u, kind>>]] = Downloaded(u)
    BY <1>1, <1>2, <1>4, <1>7
  <2>2. NewEntry(u, kind).tag # None => NewEntry(u, kind).tag <= Downloaded(u).ver
    BY <1>1, <1>5
  <2>3. QED
    BY <1>3, <1>4, <1>5, <1>7, <2>1, <2>2 DEF Carried
<1>8. QED
  BY <1>6, <1>7

LEMMA CrawlCarried ==
  ASSUME Faultless, PlacesApart, KindsApart, CloneIInv, HistoryFiled, Placed, Aged, Healthy, Crawl
  PROVE  /\ SavedManifest' => \A u \in Urls : Carried(u, saved[u])'
         /\ Writes => \A u \in Urls : Carried(u, manifest[u])'
<1>1. /\ IInv /\ Filed /\ ([Next]_vars \/ PassOver) /\ saved' = saved /\ HistoryTypeOK
      /\ manifest \in [Urls -> Entry \cup {None}]
      /\ \A u \in Urls : PlacedEntry(u, manifest[u])
  BY DEF CloneIInv, HistoryFiled, Crawl, cloneVars, IInv, RecordTypeOK, Placed
<1>2. ASSUME SavedManifest, NEW u \in Urls PROVE Carried(u, saved[u])'
  <2>1. saved[u] \in Entry \cup {None}
    BY <1>1, <1>2 DEF HistoryTypeOK, SavedManifest
  <2>2. Carried(u, saved[u]) /\ PlacedEntry(u, saved[u]) /\ AgedEntry(u, saved[u])
    BY <1>2 DEF Healthy, Placed, Aged
  <2>3. saved[u] # None /\ saved[u].state = "done" => saved[u].path \in PlacesOf(u) /\ saved[u].sha \in Body
    BY <1>1, <1>2, SavedEntry DEF HistoryFiled
  <2>4. QED
    BY <1>1, <2>1, <2>2, <2>3, StaysCarried DEF Carried
<1>3. ASSUME Writes, NEW u \in Urls PROVE Carried(u, manifest[u])'
  <2>1. /\ Carried(u, manifest[u]) /\ PlacedEntry(u, manifest[u]) /\ AgedEntry(u, manifest[u])
        /\ ~opts.dry_run
    BY <1>3 DEF Healthy, Placed, Aged, Writes
  <2>2. Done(u) => manifest[u].path \in PlacesOf(u) /\ manifest[u].sha \in Body
    BY <1>1, DonePlace DEF Filed
  <2>3. /\ Done(u) /\ NeedsRewriting(manifest[u].kind) => raw'[u] # None
        /\ Done(u) /\ ~NeedsRewriting(manifest[u].kind) =>
             /\ disk'[manifest[u].path] # None
             /\ manifest[u].tag # None => manifest[u].tag <= disk'[manifest[u].path].ver
    BY <1>1, <2>1, <2>2, StaysCarried DEF Done
  <2>4. CASE manifest'[u] = manifest[u]
    BY <2>1, <2>3, <2>4 DEF Carried, Done
  <2>5. ASSUME NEW v \in Urls, Decides(v), manifest'[u] # manifest[u] PROVE Carried(u, manifest[u])'
    <3>1. v = u
      BY <1>1, <2>5, DecisionRecorded
    <3>2. CASE TurnedDown(u)
      <4>1. manifest'[u].state \in {"failed", "skipped"}
        BY <1>1, <3>2 DEF TurnedDown
      <4>2. QED
        BY <4>1 DEF Carried
    <3>3. CASE Downloads(u)
      BY <1>1, <2>1, <3>3, DownloadCarried
    <3>4. QED
      BY <2>5, <3>1, <3>2, <3>3 DEF Decides, PassedBy, TakenOver
  <2>6. CASE Rewrite
    <3> DEFINE document == Head(documents)
    <3>1. manifest[u] = None => manifest'[u] = None
      BY <1>1, <2>6, RewriteEffect
    <3>2. manifest[u] # None =>
            /\ manifest'[u].state = manifest[u].state
            /\ manifest'[u].path = manifest[u].path
            /\ manifest'[u].tag = manifest[u].tag
            /\ manifest'[u].kind = manifest[u].kind
            /\ u # document.url => manifest'[u].sha = manifest[u].sha
      BY <1>1, <2>6, RewriteEffect
    <3>3. NeedsRewriting(manifest[document.url].kind)
      BY <1>1, <2>6, NextFiled DEF Rewrite, Filed, DocumentsFiled
    <3>4. CASE NeedsRewriting(manifest[u].kind)
      BY <2>3, <3>1, <3>2, <3>4 DEF Carried, Done
    <3>5. CASE ~NeedsRewriting(manifest[u].kind)
      BY <2>1, <2>3, <3>1, <3>2, <3>3, <3>5 DEF Carried, Done
    <3>6. QED
      BY <3>4, <3>5
  <2>7. QED
    BY <1>1, <2>4, <2>5, <2>6, StepKinds DEF Quiet, RewriteFails, PassOver
<1>4. QED
  BY <1>1, <1>2, <1>3 DEF SavedManifest, Carried

-----------------------------------------------------------------------------

\* A run that asks the site puts in order what it decides about: what it takes
\* over has the current validator, and then an asset has the current content,
\* and a document is rewritten from its staged copy.
LEMMA DecidedKept ==
  ASSUME CloneIInv, HistoryFiled, Placed, Aged, Healthy, Writes, Asks, NEW u \in Urls, Decides(u)
  PROVE  StopRequested' \/ KeptFor(u)'
<1>1. /\ IInv /\ Filed /\ RecordTypeOK /\ RunTypeOK /\ ~opts.dry_run
      /\ site[u] \in Nat /\ site[u] \in Versions /\ disk \in [Paths -> Body \cup {None}]
      /\ documents \in Seq(Document)
  BY CloneAssumption DEF CloneIInv, IInv, RunTypeOK, RecordTypeOK, HistoryFiled, Writes
<1>2. CASE PassedBy(u)
  BY <1>2 DEF PassedBy, StopRequested
<1>3. CASE TurnedDown(u)
  <2>1. ~Done(u)'
    BY <1>1, <1>3 DEF TurnedDown, Done, RecordTypeOK
  <2>2. QED
    BY <2>1 DEF KeptFor
<1>4. CASE Downloads(u)
  BY <1>1, <1>4, DecidedFile
<1>5. CASE TakenOver(u) /\ Done(u)
  <2>1. /\ manifest' = manifest /\ disk' = disk /\ manifest[u].tag = site[u] /\ site[u] # None
    BY <1>1, <1>5, CrawlerAssumption DEF TakenOver, Reusable, NotModified, diskVars, Asks
  <2>2. Carried(u, manifest[u]) /\ PlacedEntry(u, manifest[u]) /\ AgedEntry(u, manifest[u])
    BY <1>1 DEF Healthy, Placed, Aged
  <2>3. CASE NeedsRewriting(manifest[u].kind)
    <3>1. raw[u] # None
      BY <1>5, <2>2, <2>3 DEF Carried, Done
    <3>2. documents' = Append(documents, OldDocument(u))
      BY <1>5, <2>3, <3>1 DEF TakenOver
    <3>3. OldDocument(u) \in Document /\ OldDocument(u).url = u
      BY <1>1, <1>5, DoneEntry DEF OldDocument, Document, Entry, Filed
    <3>4. Waits(u)'
      BY <1>1, <3>2, <3>3, DocumentsAppend DEF Waits
    <3>5. QED
      BY <3>4 DEF KeptFor
  <2>4. CASE ~NeedsRewriting(manifest[u].kind)
    <3> DEFINE sha == manifest[u].sha
               file == disk[manifest[u].path]
    <3>1. /\ manifest[u] \in Entry /\ manifest[u].path \in PlacesOf(u) /\ manifest[u].path \in Paths
          /\ sha \in Body
      BY <1>1, <1>5, DonePlace DEF Filed
    <3>2. MayBeAsset(u) /\ manifest[u].path = AssetPlace(u)
      <4>1. manifest[u].kind \in Kinds
        BY <3>1 DEF Entry
      <4>2. QED
        BY <1>5, <2>2, <2>4, <3>1, <4>1, AssetEntry DEF Done
    <3>3. file # None /\ file \in Body /\ site[u] <= file.ver
      BY <1>1, <1>5, <2>1, <2>2, <2>4, <3>1 DEF Carried, Done
    <3>4. file.of = u /\ file.base = None /\ file.local = {} /\ file.ver <= site[u]
      BY <3>2, <3>3 DEF Healthy, OwnFiles, PlainFile
    <3>5. /\ sha.of = u /\ sha.base = None /\ sha.local = {}
          /\ sha.ver <= site[u] /\ site[u] <= sha.ver
      BY <1>5, <2>1, <2>2, <2>4 DEF Carried, AgedEntry, Done
    <3>6. file.ver \in Nat /\ sha.ver \in Nat
      BY <3>1, <3>3, CloneAssumption DEF Body
    <3> HIDE DEF sha, file
    <3>7. file.ver = site[u] /\ sha.ver = site[u]
      BY <1>1, <3>3, <3>4, <3>5, <3>6
    <3>8. file = sha
      BY <3>1, <3>3, <3>4, <3>5, <3>7, SameBody
    <3>9. QED
      BY <2>1, <3>8 DEF KeptFor, sha, file
  <2>5. QED
    BY <2>3, <2>4
<1>6. CASE TakenOver(u) /\ ~Done(u)
  BY <1>6 DEF TakenOver, KeptFor, Done
<1>7. QED
  BY <1>2, <1>3, <1>4, <1>5, <1>6 DEF Decides

LEMMA CrawlSettledKept ==
  ASSUME Faultless, PlacesApart, CloneIInv, HistoryFiled, Placed, Aged, Healthy, Staged,
         Writes, Asks, Crawl
  PROVE  SettledKept'
<1>1. /\ IInv /\ Filed /\ ([Next]_vars \/ PassOver) /\ ~opts.dry_run /\ SettledKept
      /\ Settled \subseteq Urls
  BY AheadSeen DEF CloneIInv, HistoryFiled, Crawl, Writes, Healthy, Settled
<1>2. \A u \in Urls : KeptFor(u) => KeptFor(u)'
  BY <1>1, StepKept, PassOverHarmless DEF Faultless
<1>3. StopRequested => StopRequested'
  BY <1>1, StopStays, RewritingSettles DEF PassOver, StopRequested
<1>4. CASE Settled' = Settled
  BY <1>1, <1>2, <1>3, <1>4 DEF SettledKept
<1>5. ASSUME NEW v \in Urls, Decides(v) PROVE SettledKept'
  <2>1. Settled' = Settled \cup {v}
    BY <1>5 DEF Decides
  <2>2. StopRequested' \/ KeptFor(v)'
    BY <1>5, DecidedKept
  <2>3. QED
    BY <1>1, <1>2, <1>3, <2>1, <2>2 DEF SettledKept
<1>6. QED
  BY <1>1, <1>4, <1>5, StepKinds, RewritingSettles DEF Quiet, Rewrite, RewriteFails, PassOver

LEMMA StepHealthy ==
  ASSUME Faultless, PlacesApart, KindsApart, CloneIInv, HistoryFiled, MirrorWhole, Placed, Aged,
         MirrorHealthy, [CloneNext]_allVars
  PROVE  MirrorHealthy'
<1> SUFFICES ASSUME fate' # "damaged" PROVE Healthy'
  BY DEF MirrorHealthy
<1>1. ~Damage
  BY HistorySteps
<1>2. fate # "damaged"
  BY <1>1 DEF CloneNext, Operate, Kills, Launch, Refuse, Crawl, Finish, FinishUnsaved, SiteChanges,
              Kill, Killed, allVars, cloneVars
<1>3. Healthy /\ Staged
  BY <1>2 DEF MirrorHealthy, MirrorWhole, Whole
<1>4. CASE Crawl
  <2>1. /\ IInv /\ Filed /\ ([Next]_vars \/ PassOver) /\ running' = running
        /\ \A u \in Urls : PlacedEntry(u, manifest[u])
    BY <1>4 DEF CloneIInv, HistoryFiled, Crawl, cloneVars, Placed
  <2>2. opts' = opts
    BY <2>1, OptionsStay DEF PassOver, NextDocument
  <2>3. OwnFiles'
    BY <1>3, <2>1, CrawlOwnFiles DEF Healthy
  <2>4. Writes' = Writes /\ Asks' = Asks
    BY <2>1, <2>2 DEF Writes, Asks
  <2>5. Writes /\ Asks => SettledKept'
    BY <1>3, <1>4, CrawlSettledKept
  <2>6. QED
    BY <1>3, <1>4, <2>3, <2>4, <2>5, CrawlCarried DEF Healthy
<1>5. ASSUME UNCHANGED <<disk, raw>>, \A u \in Urls : site[u] <= site'[u] PROVE OwnFiles'
  <2> SUFFICES ASSUME NEW u \in Urls, MayBeAsset(u), disk[AssetPlace(u)] # None
               PROVE  disk[AssetPlace(u)].ver <= site'[u]
    BY <1>3, <1>5 DEF Healthy, OwnFiles, PlainFile, MayBeAsset, AssetPlace
  <2>1. site[u] \in Nat /\ site'[u] \in Nat /\ site[u] <= site'[u]
    BY <1>5, StepCloneIInv, CloneAssumption DEF CloneIInv, IInv, RunTypeOK
  <2>2. AssetPlace(u) \in Paths
    BY CrawlerAssumption DEF AssetPlace, Kinds
  <2>3. disk[AssetPlace(u)].ver \in Nat
    BY <2>2, CloneAssumption DEF CloneIInv, IInv, RecordTypeOK, Body
  <2>4. disk[AssetPlace(u)].ver <= site[u]
    BY <1>3 DEF Healthy, OwnFiles, PlainFile
  <2>5. QED
    BY <2>1, <2>3, <2>4
<1>6. CASE ~Crawl
  <2>1. UNCHANGED <<disk, raw>>
    BY <1>1, <1>6, HistorySteps DEF CloneNext, Operate, Kills, allVars, vars, diskVars
  <2>2. OwnFiles'
    BY <1>5, <1>6, <2>1, HistoryHandsOver
  <2>3. CASE Launch
    <3>1. StartRun' => (Settled = {})'
      BY StartsUndecided, PTL
    <3>2. SettledKept'
      BY <2>3, <3>1, HistorySteps DEF SettledKept
    <3>3. \A u \in Urls : Carried(u, Nothing.manifest[u])'
      BY DEF Carried, Nothing
    <3>4. saved' = saved /\ (manifest' = Nothing.manifest \/ (SavedManifest /\ manifest' = saved))
      BY <2>3 DEF Launch, SavedManifest
    <3>5. SavedManifest => \A u \in Urls : Carried(u, saved[u])'
      BY <1>3, <2>1, <3>4 DEF Healthy, Carried
    <3>6. \A u \in Urls : Carried(u, manifest[u])'
      BY <3>3, <3>4, <3>5 DEF Carried
    <3>7. QED
      BY <2>2, <3>2, <3>4, <3>5, <3>6 DEF Healthy, SavedManifest
  <2>4. CASE Finish \/ FinishUnsaved \/ Kill
    <3>1. running /\ ~running'
      BY <2>4, HistorySteps
    <3>2. saved' \in {saved, None} \/ (saved' = manifest /\ Writes)
      BY <2>4, <3>1 DEF Finish, FinishUnsaved, Kill, Writes
    <3>3. SavedManifest' => \A u \in Urls : Carried(u, saved[u])'
      BY <1>3, <2>1, <3>2 DEF Healthy, Carried, SavedManifest
    <3>4. QED
      BY <2>2, <3>1, <3>3 DEF Healthy, Writes
  <2>5. CASE Refuse \/ SiteChanges \/ UNCHANGED allVars
    <3>1. UNCHANGED <<memoryVars, manifest, running, saved>>
      BY <2>5, HistorySteps DEF Refuse, SiteChanges, allVars, vars, cloneVars, memoryVars, runVars
    <3>2. /\ Settled' = Settled /\ Waiting' = Waiting /\ opts' = opts
          /\ stop_reason' = stop_reason
      BY <3>1 DEF memoryVars, countVars, queueVars, workerVars, Settled, Ahead, HeldUrls, Waiting,
                  Proved!QueuedKeys
    <3>3. SettledKept => SettledKept'
      BY <2>1, <3>1, <3>2 DEF SettledKept, KeptFor, Done, Waits, StopRequested
    <3>4. SavedManifest' => \A u \in Urls : Carried(u, saved[u])'
      BY <1>3, <2>1, <3>1 DEF Healthy, Carried, SavedManifest
    <3>5. Writes' => \A u \in Urls : Carried(u, manifest[u])'
      BY <1>3, <2>1, <3>1, <3>2 DEF Healthy, Carried, Writes
    <3>6. QED
      BY <1>3, <2>2, <3>1, <3>2, <3>3, <3>4, <3>5 DEF Healthy, Writes, Asks
  <2>6. QED
    BY <1>1, <1>6, <2>3, <2>4, <2>5 DEF CloneNext, Operate, Kills
<1>7. QED
  BY <1>4, <1>6

LEMMA HealthInvariance ==
  ASSUME Faultless, PlacesApart, KindsApart
  PROVE  CloneSpec => [](/\ CloneIInv /\ HistoryFiled /\ Aged /\ CurrentRun
                         /\ MirrorWhole /\ Placed /\ MirrorHealthy)
<1>1. StageFaults = {}
  BY DEF Faultless
<1>2. CloneInit => Placed /\ MirrorHealthy
  <2> SUFFICES ASSUME CloneInit PROVE Placed /\ Healthy
    BY DEF MirrorHealthy
  <2>1. ~running /\ ~SavedManifest /\ manifest = Nothing.manifest /\ disk = Nothing.disk
    BY DEF CloneInit, SavedManifest
  <2>2. \A u \in Urls : AssetPlace(u) \in Paths
    BY CrawlerAssumption DEF AssetPlace, Kinds
  <2>3. QED
    BY <2>1, <2>2 DEF Placed, PlacedEntry, Healthy, OwnFiles, PlainFile, Nothing, Writes
<1>3. QED
  BY <1>1, <1>2, StepPlaced, StepHealthy, WholeInvariance, CurrentInvariance, PTL DEF CloneSpec

\* Whatever killed runs have left behind, files that are newer than the manifest
\* or documents that are half rewritten: the next complete --update or --force
\* run puts right all that it comes across.  If one of its files were used both
\* for a page and for an asset, what is left of the one could pass for the other.
THEOREM UpdateMakesWhole ==
  ASSUME Faultless, PlacesApart, KindsApart
  PROVE  CloneSpec => []UpdateHeals
<1>1. ASSUME CloneIInv, HistoryFiled, CurrentRun, MirrorWhole, MirrorHealthy
      PROVE  UpdateHeals
  <2> SUFFICES ASSUME fate # "damaged", Complete, opts.update_mode \/ opts.force,
                      NEW u \in seen, Done(u)
               PROVE  /\ disk[manifest[u].path] = manifest[u].sha
                      /\ disk[manifest[u].path].ver = site[u]
                      /\ \A q \in disk[manifest[u].path].local : disk[q] # None
    BY DEF UpdateHeals
  <2>1. /\ Writes /\ Asks /\ running /\ phase = "done" /\ ~StopRequested
        /\ IInv /\ Filed /\ Whole /\ Healthy
    BY <1>1 DEF Complete, Finished, Writes, Asks, CloneIInv, HistoryFiled, MirrorWhole, MirrorHealthy
  <2>2. Settled = seen /\ u \in Urls
    BY <2>1, AllSettled, AheadSeen DEF Filed, Over
  <2>3. Waiting = {}
    BY <2>1 DEF Filed, PhasesEnd, Waiting, Writes
  <2>4. disk[manifest[u].path] = manifest[u].sha
    BY <2>1, <2>2, <2>3 DEF Healthy, SettledKept, KeptFor, Waits
  <2>5. manifest[u].sha.ver = site[u]
    BY <1>1, <2>1, <2>2 DEF CurrentRun, SettledCurrent
  <2>6. \A q \in manifest[u].sha.local : disk[q] # None
    BY <1>1, <2>1, <2>2, FinishedWhole
  <2>7. QED
    BY <2>4, <2>5, <2>6
<1>2. QED
  BY <1>1, HealthInvariance, PTL

-----------------------------------------------------------------------------
(* What --resume puts right.  A run that is told to resume finds its way       *)
(* through the staged copies of what earlier runs have downloaded: the proof   *)
(* is that it sees what can be reached from the start, that there has never    *)
(* been anything else, and that what it sees is as it should be.               *)

\* What a run may store a copy of.
Obtainable(u) == u \notin Outside /\ "ok" \in Replies[u] /\ ~Oversized(u)

LEMMA WantedObtainable ==
  ASSUME RunTypeOK, NEW u \in Urls, "ok" \in Replies[u], ~Unwanted(u)
  PROVE  Obtainable(u)
<1>1. opts \in OptionSets /\ site[u] \in Versions
  BY DEF RunTypeOK
<1>2. ~Exceeds(opts.max_file_size, [of |-> u, ver |-> site[u], base |-> None, local |-> {}])
  BY DEF Unwanted, TooLarge, Downloaded
<1>3. ~Oversized(u)
  BY <1>1, <1>2 DEF Oversized
<1>4. QED
  BY <1>3 DEF Obtainable, Unwanted

LEMMA UnwantedNotObtainable ==
  ASSUME Steady, RunTypeOK, NEW u \in Urls, Unwanted(u)
  PROVE  ~Obtainable(u)
<1>1. opts \in OptionSets /\ site[u] \in Versions
  BY DEF RunTypeOK
<1>2. CASE TooLarge(u)
  <2>1. Exceeds(opts.max_file_size, [of |-> u, ver |-> site[u], base |-> None, local |-> {}])
    BY <1>2 DEF TooLarge, Downloaded
  <2>2. Oversized(u)
    BY <1>1, <2>1 DEF Steady
  <2>3. QED
    BY <2>2 DEF Obtainable
<1>3. QED
  BY <1>2 DEF Unwanted, Obtainable

\* What a link leads to, of all that a run finds.
Barred(u) == u \in Filtered \/ ~Obtainable(u)
Refs(u) == IF TypeOf[u] # "html" \/ Barred(u) THEN {} ELSE Targets(Downloaded(u), u)

LinkUrls(w) == {links[w][i].url : i \in DOMAIN links[w]}
Found == seen \cup UNION {LinkUrls(w) : w \in Workers}

\* Where a worker is on its way through process() tells what it has passed.
Orderly ==
  \A w \in Workers :
    /\ stage[w] \in Deep => job[w].url \notin Filtered
    /\ stage[w] \in {"robots", "askRobots"} => opts.respect_robots
    /\ stage[w] # "follow" => links[w] = <<>>

\* What the worker w finds in its item leads it to nothing but the links of that.
ComesBack(w) ==
  /\ stage[w] \notin {"idle", "follow"} /\ Goto(w, "follow")
  /\ \E found \in Seq(Items) :
       /\ links' = [links EXCEPT ![w] = found]
       /\ \A i \in DOMAIN found :
            /\ found[i].url \in Refs(job[w].url)
            /\ found[i].depth <= job[w].depth + 1
  /\ UNCHANGED <<queue, seen, job, runVars>>

StagedCurrent ==
  \A u \in Urls : raw[u] # None => raw[u] = Downloaded(u) /\ Obtainable(u)

LEMMA Discovered ==
  ASSUME NEW item, NEW body, NEW base, NEW found, found = Discover(item, body, base)
  PROVE  /\ DOMAIN found = DOMAIN Links[<<body.of, body.ver, base>>]
         /\ {found[i].url : i \in DOMAIN found} = Targets(body, base)
         /\ \A i \in DOMAIN found : found[i].depth \in {item.depth, item.depth + 1}
<1> DEFINE listed == Links[<<body.of, body.ver, base>>]
<1>1. found = [i \in DOMAIN listed |->
                [url   |-> listed[i].url,
                 depth |-> IF listed[i].role = "navigation" THEN item.depth + 1 ELSE item.depth,
                 role  |-> listed[i].role]]
  BY DEF Discover
<1> HIDE DEF listed
<1>2. DOMAIN found = DOMAIN listed /\ \A i \in DOMAIN listed : found[i].url = listed[i].url
  BY <1>1
<1>3. \A i \in DOMAIN found : found[i].depth \in {item.depth, item.depth + 1}
  BY <1>1
<1>4. {found[i].url : i \in DOMAIN found} = {listed[i].url : i \in DOMAIN listed}
  BY <1>2
<1>5. QED
  BY <1>2, <1>3, <1>4 DEF Targets, listed

\* A search finds what the resource links to.
LEMMA SearchFinds ==
  ASSUME Steady, IInv, NEW w \in Workers, stage[w] \in Deep, job[w].url \notin Filtered,
         Obtainable(job[w].url), NEW base \in {job[w].url, FinalOf[job[w].url]},
         TypeOf[job[w].url] \in {"html", "manifest"},
         NEW found, found = Discover(job[w], Downloaded(job[w].url), base)
  PROVE  /\ found \in Seq(Items)
         /\ {found[i].url : i \in DOMAIN found} = Refs(job[w].url)
         /\ \A i \in DOMAIN found : found[i].depth <= job[w].depth + 1
<1> DEFINE u == job[w].url
           body == Downloaded(u)
<1>1. /\ job[w] \in Items /\ job[w].depth <= MaxDepth /\ u \in Urls /\ FinalOf[u] \in Urls
      /\ base \in Urls /\ body \in Body /\ site[u] \in Versions
  BY HeldItem, WrittenTypes, CrawlerAssumption DEF IInv, AtWork, Deep, RunTypeOK
<1>2. found \in Seq(Items)
  BY <1>1, DiscoverTypes
<1>3. body.of = u /\ body.ver = site[u]
  BY DEF Downloaded
<1>4. Links[<<body.of, body.ver, base>>] = Links[<<body.of, body.ver, u>>]
  BY <1>1, <1>3 DEF Steady
<1>5. /\ {found[i].url : i \in DOMAIN found} = Targets(body, base)
      /\ \A i \in DOMAIN found : found[i].depth \in {job[w].depth, job[w].depth + 1}
      /\ DOMAIN found = DOMAIN Links[<<body.of, body.ver, base>>]
  BY Discovered
<1>6. Targets(body, base) = Targets(body, u)
  BY <1>4 DEF Targets
<1>7. job[w].depth \in Int
  BY <1>1, CrawlerAssumption DEF Items
<1>8. {found[i].url : i \in DOMAIN found} = Refs(u)
  <2>1. CASE TypeOf[u] = "html"
    BY <1>5, <1>6, <2>1 DEF Refs, Barred
  <2>2. CASE TypeOf[u] = "manifest"
    <3>1. \A v \in Versions : Links[<<u, v, u>>] = <<>>
      BY <1>1, <2>2 DEF Steady
    <3>2. Links[<<body.of, body.ver, base>>] = <<>>
      BY <1>1, <1>3, <1>4, <3>1
    <3>3. DOMAIN found = {}
      BY <1>5, <3>2
    <3>4. QED
      BY <2>2, <3>3 DEF Refs
  <2>3. QED
    BY <2>1, <2>2
<1>9. \A i \in DOMAIN found : found[i].depth <= job[w].depth + 1
  BY <1>5, <1>7
<1>10. QED
  BY <1>2, <1>8, <1>9

\* What a worker finds that takes over what is there.
LEMMA RevisitFinds ==
  ASSUME Steady, IInv, Orderly, StagedCurrent, NEW w \in Workers, stage[w] = "admitted",
         PlacedEntry(job[w].url, manifest[job[w].url]), manifest[job[w].url] # None, Revisit(w)
  PROVE  \E found \in Seq(Items) :
           /\ Return(w, found)
           /\ {found[i].url : i \in DOMAIN found} \subseteq Refs(job[w].url)
           /\ \A i \in DOMAIN found : found[i].depth <= job[w].depth + 1
           /\ TypeOf[job[w].url] = "html" /\ NeedsRewriting(manifest[job[w].url].kind)
                /\ raw[job[w].url] # None =>
                {found[i].url : i \in DOMAIN found} = Refs(job[w].url)
<1> DEFINE u == job[w].url
<1>1. u \in Urls /\ stage[w] \in Deep /\ u \notin Filtered
  BY HeldItem DEF Orderly, Deep
<1>2. CASE NeedsRewriting(manifest[u].kind) /\ raw[u] # None
  <2> DEFINE found == Discover(job[w], Downloaded(u), u)
  <2>1. raw[u] = Downloaded(u) /\ Obtainable(u)
    BY <1>1, <1>2 DEF StagedCurrent
  <2>2. Return(w, found)
    BY <1>2, <2>1 DEF Revisit
  <2>3. TypeOf[u] \in {"html", "manifest"}
    BY <1>1, <1>2 DEF PlacedEntry, NeedsRewriting, KindsOf, Steady
  <2>4. /\ found \in Seq(Items)
        /\ {found[i].url : i \in DOMAIN found} = Refs(u)
        /\ \A i \in DOMAIN found : found[i].depth <= job[w].depth + 1
    BY <1>1, <2>1, <2>3, SearchFinds
  <2> HIDE DEF found
  <2>5. QED
    BY <2>2, <2>4
<1>3. CASE ~(NeedsRewriting(manifest[u].kind) /\ raw[u] # None)
  <2>1. Return(w, <<>>) /\ <<>> \in Seq(Items) /\ DOMAIN <<>> = {}
    BY <1>3 DEF Revisit
  <2>2. QED
    BY <1>3, <2>1
<1>4. QED
  BY <1>2, <1>3

\* And a worker that stores what it has downloaded.
LEMMA StoreFinds ==
  ASSUME Steady, IInv, Orderly, NEW w \in Workers, Store(w)
  PROVE  \E found \in Seq(Items) :
           /\ Return(w, found)
           /\ {found[i].url : i \in DOMAIN found} = Refs(job[w].url)
           /\ \A i \in DOMAIN found : found[i].depth <= job[w].depth + 1
<1> DEFINE u == job[w].url
           found == IF KindOf(job[w]) = "html" THEN Discover(job[w], Downloaded(u), FinalOf[u]) ELSE <<>>
<1>1. stage[w] \in Deep /\ ~Unwanted(u) /\ "ok" \in Replies[u]
  BY DEF Store, ReceivesBody, Delivers, Receives, Fetching, Deep
<1>2. u \in Urls /\ u \notin Filtered /\ Obtainable(u)
  BY <1>1, HeldItem, WantedObtainable DEF Orderly, Deep, IInv
<1>3. KindOf(job[w]) = TypeOf[u]
  BY <1>2 DEF KindOf, Steady
<1>4. Return(w, found)
  BY DEF Store
<1>5. CASE TypeOf[u] = "html"
  <2> DEFINE new == Discover(job[w], Downloaded(u), FinalOf[u])
  <2>1. /\ new \in Seq(Items)
        /\ {new[i].url : i \in DOMAIN new} = Refs(u)
        /\ \A i \in DOMAIN new : new[i].depth <= job[w].depth + 1
    BY <1>1, <1>2, <1>5, SearchFinds
  <2>2. found = new
    BY <1>3, <1>5
  <2> HIDE DEF found, new
  <2>3. QED
    BY <1>4, <2>1, <2>2
<1>6. CASE TypeOf[u] # "html"
  <2>1. found = <<>> /\ <<>> \in Seq(Items) /\ DOMAIN <<>> = {} /\ Refs(u) = {}
    BY <1>3, <1>6 DEF Refs
  <2> HIDE DEF found
  <2>2. QED
    BY <1>4, <2>1
<1>7. QED
  BY <1>5, <1>6

\* The queue hands out what was found on the way: no deeper than the URLs that
\* have been seen are many.
Shallow ==
  /\ \A i \in DOMAIN queue : queue[i].depth < Cardinality(seen)
  /\ \A w \in Workers :
       /\ stage[w] # "idle" => job[w].depth < Cardinality(seen)
       /\ \A i \in DOMAIN links[w] : links[w][i].depth <= Cardinality(seen)

\* A --resume run that writes.
Resumes == opts.resume /\ ~opts.update_mode /\ ~opts.force /\ ~opts.dry_run

\* What it has dealt with it has, with all that it leads to.
Followed(u) == Done(u) /\ (TypeOf[u] = "html" /\ raw[u] # None => Refs(u) \subseteq Found)
Dealt(u) == StopRequested \/ stats["failed"] > 0 \/ Barred(u) \/ Followed(u)

LEMMA SeenFinite ==
  ASSUME Unlimited, IInv
  PROVE  /\ IsFiniteSet(seen) /\ Cardinality(seen) \in Nat
         /\ Cardinality(Urls) \in Nat /\ Cardinality(seen) <= Cardinality(Urls)
BY QueuedItems, FS_Subset, FS_CardinalityType DEF Unlimited

\* Nothing is out of scope but what is filtered.
LEMMA OnlyFiltered ==
  ASSUME Unlimited, IInv, Shallow, NEW w \in Workers, stage[w] # "idle", ~InScope(job[w])
  PROVE  job[w].url \in Filtered
<1>1. job[w] \in Items /\ job[w].url \in Urls /\ opts \in OptionSets
  BY HeldItem DEF IInv, RunTypeOK
<1>2. job[w].depth \in Nat
  BY <1>1, CrawlerAssumption DEF Items
<1>6. job[w].depth < Cardinality(seen)
  BY DEF Shallow
<1>7. opts.max_depth \in Nat
  BY OptionTypes, CrawlerAssumption DEF IInv
<1>3. job[w].depth <= opts.max_depth
  <2>1. opts.max_depth >= Cardinality(Urls) - 1
    BY <1>1 DEF Unlimited
  <2>2. QED
    BY <1>2, <1>6, <1>7, <2>1, SeenFinite
<1>4. /\ opts.recursive /\ opts.download_assets
      /\ SameOrigin(job[w].url) \/ (opts.external_assets /\ ~opts.same_origin)
  BY <1>1 DEF Unlimited
<1>5. QED
  BY <1>3, <1>4 DEF InScope

\* A worker that is done with its item has dealt with it, and is left with the
\* links of that.
LEMMA ReturnsEmpty ==
  ASSUME IInv, NEW w \in Workers, stage[w] \notin {"idle", "follow"}, Return(w, <<>>),
         UNCHANGED <<queue, seen, job, runVars>>
  PROVE  ComesBack(w)
<1>1. <<>> \in Seq(Items) /\ DOMAIN <<>> = {}
  OBVIOUS
<1>2. links' = [links EXCEPT ![w] = <<>>] /\ Goto(w, "follow")
  BY DEF Return
<1>3. QED
  BY <1>1, <1>2 DEF ComesBack

\* The worker w goes on with its item.
Advances(w) ==
  /\ stage[w] \notin {"idle", "follow"} /\ job[w].url \notin Filtered
  /\ \E s \in Deep :
       /\ Goto(w, s)
       /\ s \in {"robots", "askRobots"} => opts.respect_robots
  /\ UNCHANGED <<queue, seen, job, links, runVars>>

LEMMA CheckingReturns ==
  ASSUME Unlimited, IInv, Orderly, Shallow, NEW w \in Workers,
         \/ DrainItem(w) \/ RejectOutOfScope(w) \/ AcceptInScope(w)
         \/ LookUpRobots(w) \/ AskRobots(w) \/ PassBudget(w) \/ StopOverBudget(w)
  PROVE  Advances(w) \/ (ComesBack(w) /\ Dealt(job[w].url)')
<1> DEFINE u == job[w].url
<1>1. /\ stage[w] \notin {"idle", "follow"} /\ UNCHANGED <<queue, seen, job, runVars>>
      /\ u \in Urls
  <2>1. stage[w] \notin {"idle", "follow"} /\ UNCHANGED <<queue, seen, job, runVars>>
    BY DEF DrainItem, RejectOutOfScope, AcceptInScope, LookUpRobots, AskRobots, PassBudget,
           StopOverBudget, queueVars, WQ!NotifyAll
  <2>2. QED
    BY <2>1, HeldItem
<1>2. ASSUME Return(w, <<>>) PROVE ComesBack(w)
  BY <1>1, <1>2, ReturnsEmpty
<1>3. ASSUME NEW s \in Deep, Goto(w, s), links' = links, stage[w] \in Deep \/ u \notin Filtered,
             s \in {"robots", "askRobots"} => opts.respect_robots
      PROVE  Advances(w)
  BY <1>1, <1>3 DEF Advances, Orderly
<1>4. ASSUME NEW rules, Judge(w, rules), stage[w] \in {"robots", "askRobots"}
      PROVE  Advances(w)
  <2>1. opts.respect_robots /\ opts \in OptionSets
    BY <1>4 DEF Orderly, IInv, RunTypeOK
  <2>2. u \notin Disallowed
    BY <2>1 DEF Unlimited
  <2>3. Goto(w, "budget") /\ links' = links
    BY <1>4, <2>2 DEF Judge
  <2>4. QED
    BY <1>3, <1>4, <2>3 DEF Deep
<1>5. CASE DrainItem(w) \/ StopOverBudget(w)
  <2>1. Return(w, <<>>)
    BY <1>5 DEF DrainItem, StopOverBudget
  <2>2. StopRequested'
    BY <1>5, CrawlerAssumption DEF DrainItem, StopOverBudget, StopRequested, countVars
  <2>3. QED
    BY <1>2, <2>1, <2>2 DEF Dealt
<1>6. CASE RejectOutOfScope(w)
  <2>1. Return(w, <<>>) /\ ~InScope(job[w])
    BY <1>6 DEF RejectOutOfScope
  <2>2. u \in Filtered
    BY <1>1, <2>1, OnlyFiltered
  <2>3. Dealt(u)'
    BY <1>1, <2>2 DEF Dealt, Barred
  <2>4. QED
    BY <1>2, <2>1, <2>3
<1>7. CASE AcceptInScope(w)
  <2>1. u \notin Filtered /\ links' = links
    BY <1>7 DEF AcceptInScope, InScope
  <2>2. CASE opts.respect_robots
    <3>1. Goto(w, "robots")
      BY <1>7, <2>2 DEF AcceptInScope
    <3>2. QED
      BY <1>3, <2>1, <2>2, <3>1 DEF Deep
  <2>3. CASE ~opts.respect_robots
    <3>1. Goto(w, "budget")
      BY <1>7, <2>3 DEF AcceptInScope
    <3>2. QED
      BY <1>3, <2>1, <3>1 DEF Deep
  <2>4. QED
    BY <2>2, <2>3
<1>8. CASE PassBudget(w)
  BY <1>3, <1>8 DEF PassBudget, Deep
<1>9. CASE LookUpRobots(w)
  <2> DEFINE rules == robots_by_origin[OriginOf[u]]
  <2>1. stage[w] = "robots" /\ opts.respect_robots
    BY <1>9 DEF LookUpRobots, Orderly
  <2>2. CASE rules = "unknown"
    <3>1. Goto(w, "askRobots") /\ links' = links
      BY <1>9, <2>2 DEF LookUpRobots
    <3>2. QED
      BY <1>3, <2>1, <3>1 DEF Deep
  <2>3. CASE rules # "unknown"
    BY <1>4, <1>9, <2>1, <2>3 DEF LookUpRobots
  <2>4. QED
    BY <2>2, <2>3
<1>10. CASE AskRobots(w)
  BY <1>4, <1>10 DEF AskRobots
<1>11. QED
  BY <1>5, <1>6, <1>7, <1>8, <1>9, <1>10

\* A worker that has found the links of its item is left with them.
LEMMA ReturnsLinks ==
  ASSUME IInv, NEW w \in Workers, stage[w] \notin {"idle", "follow"},
         UNCHANGED <<queue, seen, job, runVars>>,
         NEW found \in Seq(Items), Return(w, found),
         {found[i].url : i \in DOMAIN found} \subseteq Refs(job[w].url),
         \A i \in DOMAIN found : found[i].depth <= job[w].depth + 1
  PROVE  /\ ComesBack(w)
         /\ {found[i].url : i \in DOMAIN found} = Refs(job[w].url) => Refs(job[w].url)' \subseteq Found'
<1> DEFINE u == job[w].url
<1>1. links' = [links EXCEPT ![w] = found] /\ Goto(w, "follow") /\ links'[w] = found
  BY DEF Return, IInv, WorkerTypeOK
<1>2. ComesBack(w)
  BY <1>1 DEF ComesBack
<1>3. LinkUrls(w)' = {found[i].url : i \in DOMAIN found}
  BY <1>1 DEF LinkUrls
<1>4. LinkUrls(w)' \subseteq Found'
  BY DEF Found
<1>5. Refs(u)' = Refs(u)
  BY DEF Refs, Barred, Obtainable, Oversized, Targets, Downloaded, runVars
<1>6. QED
  BY <1>2, <1>3, <1>4, <1>5

LEMMA FetchingReturns ==
  ASSUME Steady, StageFaults = {}, IInv, Orderly, StagedCurrent,
         \A u \in Urls : PlacedEntry(u, manifest[u]), NEW w \in Workers,
         \/ Reuse(w) \/ Retry(w) \/ RecordError(w) \/ RecordStatus(w) \/ RecordRefused(w)
         \/ RecordUnchanged(w) \/ Store(w) \/ StoreFails(w)
  PROVE  \/ UNCHANGED <<queue, seen, job, stage, links, runVars>>
         \/ ComesBack(w) /\ (Resumes => Dealt(job[w].url)')
<1> DEFINE u == job[w].url
<1>1. /\ stage[w] = "admitted" /\ stage[w] \notin {"idle", "follow"}
      /\ UNCHANGED <<queue, seen, job, runVars>>
  BY DEF Reuse, Retry, RecordError, RecordStatus, RecordRefused, RecordUnchanged, Store,
         StoreFails, ReceivesBody, Delivers, Receives, Fetching, queueVars
<1>2. u \in Urls /\ u' = u /\ manifest \in [Urls -> Entry \cup {None}] /\ PlacedEntry(u, manifest[u])
  BY <1>1, HeldItem DEF IInv, RecordTypeOK
<1>3. CASE Retry(w)
  BY <1>1, <1>3 DEF Retry
<1>4. CASE RecordError(w) \/ RecordStatus(w)
  <2>1. Return(w, <<>>) /\ Bump("failed")
    BY <1>4 DEF RecordError, RecordStatus
  <2>2. stats'["failed"] > 0
    BY <2>1 DEF Bump, IInv, CountTypeOK, Tallies
  <2>3. QED
    BY <1>1, <2>1, <2>2, ReturnsEmpty DEF Dealt
<1>5. CASE RecordRefused(w)
  <2>1. Return(w, <<>>)
    BY <1>5 DEF RecordRefused
  <2>2. Barred(u)
    BY <1>2, <1>5, UnwantedNotObtainable DEF RecordRefused, Barred, IInv
  <2>3. Barred(u)'
    BY <1>2, <2>2 DEF Barred, Obtainable, Oversized
  <2>4. QED
    BY <1>1, <2>1, <2>3, ReturnsEmpty DEF Dealt
<1>6. CASE StoreFails(w)
  BY <1>6 DEF StoreFails
<1>7. CASE RecordUnchanged(w)
  <2>1. Revisit(w) /\ NotModified(u)
    BY <1>7 DEF RecordUnchanged
  <2>2. manifest[u] # None /\ opts.update_mode
    BY <2>1 DEF NotModified
  <2>3. PICK found \in Seq(Items) :
          /\ Return(w, found)
          /\ {found[i].url : i \in DOMAIN found} \subseteq Refs(u)
          /\ \A i \in DOMAIN found : found[i].depth <= job[w].depth + 1
    BY <1>1, <1>2, <2>1, <2>2, RevisitFinds
  <2>4. ComesBack(w)
    BY <1>1, <2>3, ReturnsLinks
  <2>5. QED
    BY <2>2, <2>4 DEF Resumes
<1>8. CASE Reuse(w)
  <2>1. Revisit(w) /\ Reusable(u) /\ UNCHANGED <<manifest, diskVars>>
    BY <1>8 DEF Reuse
  <2>2. Done(u) /\ Done(u)' /\ raw' = raw
    BY <1>2, <2>1 DEF Reusable, Done, diskVars
  <2>3. manifest[u].kind = TypeOf[u]
    BY <1>2, <2>2 DEF Done, PlacedEntry, KindsOf, Steady
  <2>4. PICK found \in Seq(Items) :
          /\ Return(w, found)
          /\ {found[i].url : i \in DOMAIN found} \subseteq Refs(u)
          /\ \A i \in DOMAIN found : found[i].depth <= job[w].depth + 1
          /\ TypeOf[u] = "html" /\ NeedsRewriting(manifest[u].kind) /\ raw[u] # None =>
               {found[i].url : i \in DOMAIN found} = Refs(u)
    BY <1>1, <1>2, <2>1, <2>2, RevisitFinds DEF Done
  <2>5. ComesBack(w)
    BY <1>1, <2>4, ReturnsLinks
  <2>6. {found[i].url : i \in DOMAIN found} = Refs(u) => Refs(u)' \subseteq Found'
    BY <1>1, <2>4, ReturnsLinks
  <2>7. Followed(u)'
    <3> SUFFICES ASSUME TypeOf[u] = "html", raw[u] # None PROVE Refs(u)' \subseteq Found'
      BY <1>2, <2>2 DEF Followed
    <3>1. QED
      BY <2>3, <2>4, <2>6 DEF NeedsRewriting
  <2>8. QED
    BY <2>5, <2>7 DEF Dealt
<1>9. CASE Store(w)
  <2>1. PICK found \in Seq(Items) :
          /\ Return(w, found)
          /\ {found[i].url : i \in DOMAIN found} = Refs(u)
          /\ \A i \in DOMAIN found : found[i].depth <= job[w].depth + 1
    BY <1>9, StoreFinds
  <2>2. ComesBack(w) /\ Refs(u)' \subseteq Found'
    BY <1>1, <2>1, ReturnsLinks
  <2>3. Done(u)'
    <3>1. Record(w, EntryFor(job[w], "done"))
      BY <1>9 DEF Store
    <3>2. EntryFor(job[w], "done").state = "done" /\ EntryFor(job[w], "done") \in Entry
      BY <1>1, HeldItem, WrittenTypes DEF EntryFor, IInv
    <3>3. manifest'[u] = EntryFor(job[w], "done")
      BY <1>2, <3>1 DEF Record
    <3>4. QED
      BY <1>2, <3>2, <3>3, CrawlerAssumption DEF Done
  <2>4. QED
    BY <1>2, <2>2, <2>3 DEF Dealt, Followed
<1>10. QED
  BY <1>3, <1>4, <1>5, <1>6, <1>7, <1>8, <1>9

LEMMA HeadAndTail ==
  ASSUME NEW S, NEW s \in Seq(S), s # <<>>
  PROVE  /\ Head(s) \in S /\ Tail(s) \in Seq(S)
         /\ \E i \in DOMAIN s : Head(s) = s[i]
         /\ \A i \in DOMAIN Tail(s) : \E j \in DOMAIN s : Tail(s)[i] = s[j]
         /\ \A i \in DOMAIN s : s[i] = Head(s) \/ \E j \in DOMAIN Tail(s) : s[i] = Tail(s)[j]
<1>1. /\ Len(s) \in Nat \ {0} /\ DOMAIN s = 1 .. Len(s)
      /\ Head(s) \in S /\ Tail(s) \in Seq(S)
      /\ DOMAIN Tail(s) = 1 .. Len(s) - 1
      /\ \A i \in 1 .. Len(s) - 1 : Tail(s)[i] = s[i + 1]
      /\ Head(s) = s[1]
  BY HeadTailProperties, EmptySeq, LenProperties
<1>2. 1 \in DOMAIN s
  BY <1>1
<1>3. ASSUME NEW i \in DOMAIN Tail(s) PROVE \E j \in DOMAIN s : Tail(s)[i] = s[j]
  <2>1. i + 1 \in DOMAIN s /\ Tail(s)[i] = s[i + 1]
    BY <1>1
  <2>2. QED
    BY <2>1
<1>4. ASSUME NEW i \in DOMAIN s PROVE s[i] = Head(s) \/ \E j \in DOMAIN Tail(s) : s[i] = Tail(s)[j]
  <2>1. CASE i = 1
    BY <1>1, <2>1
  <2>2. CASE i # 1
    <3>1. i - 1 \in DOMAIN Tail(s) /\ Tail(s)[i - 1] = s[(i - 1) + 1] /\ (i - 1) + 1 = i
      BY <1>1, <2>2
    <3>2. QED
      BY <3>1
  <2>3. QED
    BY <2>1, <2>2
<1>5. QED
  BY <1>1, <1>2, <1>3, <1>4

\* What is known of a step as far as the links go.
Prepared ==
  /\ IInv /\ Orderly /\ Shallow /\ StagedCurrent
  /\ \A u \in Urls : PlacedEntry(u, manifest[u])

ComesBackDealing(w) == ComesBack(w) /\ (Resumes => Dealt(job[w].url)')

LEMMA LinkSteps ==
  ASSUME Unlimited, Steady, StageFaults = {}, Prepared, [Next]_vars \/ PassOver
  PROVE  /\ opts' = opts /\ site' = site
         /\ \/ UNCHANGED <<queue, seen, job, stage, links>>
            \/ \E w \in Workers :
                 \/ GetItem(w) \/ FinishItem(w) \/ FollowLink(w)
                 \/ Advances(w) \/ ComesBackDealing(w)
<1>1. CASE NextDocument \/ BeginRewrite \/ UNCHANGED vars
  BY <1>1 DEF NextDocument, BeginRewrite, vars, queueVars, workerVars, runVars
<1>2. ASSUME NEW w \in Workers, NoItemYet(w)
      PROVE  UNCHANGED <<queue, seen, job, stage, links, opts, site>>
  BY <1>2 DEF NoItemYet, workerVars, runVars, WQ!PopStopped, WQ!PopLast, WQ!PopWait, WQ!SpuriousWakeup
<1>3. ASSUME NEW w \in Workers, GetItem(w) \/ FinishItem(w) \/ FollowLink(w)
      PROVE  opts' = opts /\ site' = site
  BY <1>3 DEF GetItem, FinishItem, FollowLink, runVars
<1>4. ASSUME NEW w \in Workers,
             \/ DrainItem(w) \/ RejectOutOfScope(w) \/ AcceptInScope(w)
             \/ LookUpRobots(w) \/ AskRobots(w) \/ PassBudget(w) \/ StopOverBudget(w)
      PROVE  (Advances(w) \/ ComesBackDealing(w)) /\ opts' = opts /\ site' = site
  <2>1. Advances(w) \/ (ComesBack(w) /\ Dealt(job[w].url)')
    BY <1>4, CheckingReturns DEF Prepared
  <2>2. QED
    BY <2>1 DEF ComesBackDealing, Advances, ComesBack, runVars
<1>5. ASSUME NEW w \in Workers,
             \/ Reuse(w) \/ Retry(w) \/ RecordError(w) \/ RecordStatus(w) \/ RecordRefused(w)
             \/ RecordUnchanged(w) \/ Store(w) \/ StoreFails(w)
      PROVE  /\ UNCHANGED <<queue, seen, job, stage, links>> \/ ComesBackDealing(w)
             /\ opts' = opts /\ site' = site
  <2>1. \/ UNCHANGED <<queue, seen, job, stage, links, runVars>>
        \/ ComesBack(w) /\ (Resumes => Dealt(job[w].url)')
    BY <1>5, FetchingReturns DEF Prepared
  <2>2. QED
    BY <2>1 DEF ComesBackDealing, ComesBack, runVars
<1>6. ASSUME NEW w \in Workers, GetItem(w) \/ NoItemYet(w) \/ Process(w) \/ FinishItem(w)
      PROVE  /\ opts' = opts /\ site' = site
             /\ \/ UNCHANGED <<queue, seen, job, stage, links>>
                \/ GetItem(w) \/ FinishItem(w) \/ FollowLink(w)
                \/ Advances(w) \/ ComesBackDealing(w)
  BY <1>2, <1>3, <1>4, <1>5, <1>6 DEF Process
<1>7. CASE Next
  BY <1>1, <1>6, <1>7 DEF Next, RewritePhase, Rewrite, RewriteFails
<1>8. QED
  BY <1>1, <1>7 DEF PassOver

\* Nobody touches what another worker is about.
LEMMA WorkersApart ==
  ASSUME Prepared, NEW w \in Workers,
         \/ GetItem(w) \/ FinishItem(w) \/ FollowLink(w) \/ Advances(w) \/ ComesBack(w)
  PROVE  \A v \in Workers \ {w} : /\ stage'[v] = stage[v] /\ job'[v] = job[v]
                                  /\ links'[v] = links[v]
<1>1. /\ stage \in [Workers -> Stages] /\ job \in [Workers -> Items \cup {None}]
      /\ links \in [Workers -> Seq(Items)]
  BY DEF Prepared, IInv, WorkerTypeOK, Proved!IInv, Proved!TypeOK
<1>2. (\E s : Goto(w, s)) \/ stage' = stage
  BY DEF GetItem, FinishItem, FollowLink, Advances, ComesBack
<1>3. \A v \in Workers \ {w} : stage'[v] = stage[v]
  BY <1>1, <1>2 DEF Goto
<1>4. \A v \in Workers \ {w} : job'[v] = job[v]
  BY <1>1 DEF GetItem, FinishItem, FollowLink, Advances, ComesBack, WQ!PopItem, WQ!FinishItem,
              WQ!Enqueue
<1>5. \A v \in Workers \ {w} : links'[v] = links[v]
  BY <1>1 DEF GetItem, FinishItem, FollowLink, Advances, ComesBack
<1>6. QED
  BY <1>3, <1>4, <1>5

LEMMA StepOrderly ==
  ASSUME Unlimited, Steady, StageFaults = {}, Prepared, [Next]_vars \/ PassOver
  PROVE  Orderly'
<1>1. /\ stage \in [Workers -> Stages] /\ links \in [Workers -> Seq(Items)] /\ Orderly
  BY DEF Prepared, IInv, WorkerTypeOK
<1>2. opts' = opts
  BY LinkSteps
<1>3. CASE UNCHANGED <<queue, seen, job, stage, links>>
  BY <1>1, <1>2, <1>3 DEF Orderly
<1>4. ASSUME NEW w \in Workers,
             \/ GetItem(w) \/ FinishItem(w) \/ FollowLink(w) \/ Advances(w) \/ ComesBack(w)
      PROVE  Orderly'
  <2>1. /\ stage'[w] \in Deep => job'[w].url \notin Filtered
        /\ stage'[w] \in {"robots", "askRobots"} => opts.respect_robots
        /\ stage'[w] # "follow" => links'[w] = <<>>
    <3>1. CASE GetItem(w)
      <4>1. stage'[w] = "begin" /\ links' = links /\ stage[w] = "idle"
        BY <1>1, <3>1 DEF GetItem, Goto, WQ!PopItem, Prepared, IInv, AtWork
      <4>2. QED
        BY <1>1, <4>1 DEF Orderly, Deep
    <3>2. CASE FinishItem(w)
      BY <1>1, <3>2 DEF FinishItem, Goto, Deep
    <3>3. CASE FollowLink(w)
      BY <1>1, <3>3 DEF FollowLink, Deep
    <3>4. CASE Advances(w)
      BY <1>1, <3>4 DEF Advances, Goto, Deep, Orderly
    <3>5. CASE ComesBack(w)
      BY <1>1, <3>5 DEF ComesBack, Goto, Deep
    <3>6. QED
      BY <1>4, <3>1, <3>2, <3>3, <3>4, <3>5
  <2>2. \A v \in Workers \ {w} : stage'[v] = stage[v] /\ job'[v] = job[v] /\ links'[v] = links[v]
    BY <1>4, WorkersApart
  <2>3. QED
    BY <1>1, <1>2, <2>1, <2>2 DEF Orderly
<1>5. QED
  BY <1>3, <1>4, LinkSteps DEF ComesBackDealing

\* What queueing a link does.
LEMMA LinkFollowed ==
  ASSUME IInv, NEW w \in Workers, FollowLink(w)
  PROVE  /\ Head(links[w]) \in Items /\ \E i \in DOMAIN links[w] : Head(links[w]) = links[w][i]
         /\ links'[w] = Tail(links[w])
         /\ seen' = seen \cup {Head(links[w]).url}
         /\ \/ queue' = queue
            \/ queue' = Append(queue, Head(links[w])) /\ Head(links[w]).url \notin seen
<1> DEFINE item == Head(links[w])
<1>1. links \in [Workers -> Seq(Items)] /\ links[w] \in Seq(Items) /\ links[w] # <<>>
      /\ links' = [links EXCEPT ![w] = Tail(@)] /\ WQ!Enqueue(w, item)
  BY DEF FollowLink, IInv, WorkerTypeOK
<1>2. item \in Items /\ \E i \in DOMAIN links[w] : item = links[w][i]
  BY <1>1, HeadAndTail
<1>3. links'[w] = Tail(links[w])
  BY <1>1
<1>4. UrlOf[item] = item.url
  BY <1>2 DEF UrlOf
<1>5. IF UrlOf[item] \in seen THEN UNCHANGED <<queue, seen>>
      ELSE seen' = seen \cup {UrlOf[item]} /\ queue' = Append(queue, item)
  BY <1>1 DEF WQ!Enqueue
<1> HIDE DEF item
<1>6. /\ seen' = seen \cup {item.url}
      /\ queue' = queue \/ (queue' = Append(queue, item) /\ item.url \notin seen)
  BY <1>4, <1>5
<1>7. QED
  BY <1>2, <1>3, <1>6 DEF item

LEMMA StepShallow ==
  ASSUME Unlimited, Steady, StageFaults = {}, Prepared, [Next]_vars \/ PassOver, IInv'
  PROVE  Shallow'
<1> DEFINE n == Cardinality(seen)
           m == Cardinality(seen')
<1>1. /\ stage \in [Workers -> Stages] /\ links \in [Workers -> Seq(Items)] /\ Shallow /\ Orderly
      /\ job \in [Workers -> Items \cup {None}] /\ queue \in Seq(Items) /\ IInv
  BY QueuedItems DEF Prepared, IInv, WorkerTypeOK, Proved!IInv, Proved!TypeOK
<1>2. IsFiniteSet(seen) /\ n \in Nat
  BY <1>1, SeenFinite
<1>3. \A item \in Items : item.depth \in Nat
  BY CrawlerAssumption DEF Items
<1>4. \A i \in DOMAIN queue : queue[i] \in Items /\ queue[i].depth < n
  BY <1>1, QueuedItems DEF Shallow
<1>5. \A v \in Workers : /\ stage[v] # "idle" => job[v].depth < n
                         /\ \A i \in DOMAIN links[v] : links[v][i].depth <= n
  BY <1>1 DEF Shallow
<1>6. \A v \in Workers : \A i \in DOMAIN links[v] : links[v][i] \in Items
  BY <1>1, ElementOfSeq, LenProperties
<1>7. CASE UNCHANGED <<queue, seen, job, stage, links>>
  BY <1>1, <1>7 DEF Shallow
<1> HIDE DEF n, m
<1>8. ASSUME NEW w \in Workers, seen' = seen,
             \A i \in DOMAIN queue' : queue'[i].depth < n,
             stage'[w] # "idle" => job'[w].depth < n,
             \A i \in DOMAIN links'[w] : links'[w][i].depth <= n,
             \A v \in Workers \ {w} : stage'[v] = stage[v] /\ job'[v] = job[v] /\ links'[v] = links[v]
      PROVE  Shallow'
  <2>1. \A v \in Workers : /\ stage'[v] # "idle" => job'[v].depth < n
                           /\ \A i \in DOMAIN links'[v] : links'[v][i].depth <= n
    BY <1>5, <1>8
  <2>2. QED
    BY <1>8, <2>1 DEF Shallow, n
<1>9. ASSUME NEW w \in Workers, GetItem(w) PROVE Shallow'
  <2>1. /\ queue # <<>> /\ queue' = Tail(queue) /\ job'[w] = Head(queue) /\ seen' = seen
        /\ links' = links
    BY <1>1, <1>9 DEF GetItem, WQ!PopItem
  <2>2. \A i \in DOMAIN queue' : \E j \in DOMAIN queue : queue'[i] = queue[j]
    BY <1>1, <2>1, HeadAndTail
  <2>3. \E i \in DOMAIN queue : Head(queue) = queue[i]
    BY <1>1, <2>1, HeadAndTail
  <2>4. QED
    BY <1>4, <1>5, <1>8, <1>9, <2>1, <2>2, <2>3, WorkersApart
<1>10. ASSUME NEW w \in Workers, FinishItem(w) PROVE Shallow'
  <2>1. stage'[w] = "idle" /\ queue' = queue /\ seen' = seen /\ links' = links
    BY <1>1, <1>10 DEF FinishItem, Goto, WQ!FinishItem
  <2>2. QED
    BY <1>4, <1>5, <1>8, <1>10, <2>1, WorkersApart
<1>11. ASSUME NEW w \in Workers, Advances(w) PROVE Shallow'
  <2>1. queue' = queue /\ seen' = seen /\ links' = links /\ job' = job /\ stage[w] # "idle"
    BY <1>11 DEF Advances
  <2>2. QED
    BY <1>4, <1>5, <1>8, <1>11, <2>1, WorkersApart
<1>12. ASSUME NEW w \in Workers, ComesBack(w) PROVE Shallow'
  <2>1. /\ queue' = queue /\ seen' = seen /\ job' = job /\ stage[w] # "idle"
        /\ \A i \in DOMAIN links'[w] : links'[w][i].depth <= job[w].depth + 1
        /\ links'[w] \in Seq(Items)
    BY <1>1, <1>12 DEF ComesBack
  <2>2. job[w].depth \in Nat /\ job[w].depth < n
    BY <1>1, <1>3, <1>5, <2>1, HeldItem
  <2>3. \A i \in DOMAIN links'[w] : links'[w][i] \in Items
    BY <2>1, ElementOfSeq, LenProperties
  <2>4. \A i \in DOMAIN links'[w] : links'[w][i].depth <= n
    BY <1>2, <1>3, <2>1, <2>2, <2>3
  <2>5. QED
    BY <1>4, <1>5, <1>8, <1>12, <2>1, <2>4, WorkersApart
<1>13. ASSUME NEW w \in Workers, FollowLink(w) PROVE Shallow'
  <2> DEFINE item == Head(links[w])
  <2>1. /\ item \in Items /\ (\E i \in DOMAIN links[w] : item = links[w][i])
        /\ links'[w] = Tail(links[w]) /\ seen' = seen \cup {item.url}
        /\ queue' = queue \/ (queue' = Append(queue, item) /\ item.url \notin seen)
    BY <1>1, <1>13, LinkFollowed
  <2>2. stage[w] # "idle" /\ stage' = stage /\ job'[w] = job[w] /\ links[w] # <<>>
    BY <1>13 DEF FollowLink, WQ!Enqueue
  <2>3. m \in Nat /\ n <= m /\ (item.url \notin seen => m = n + 1)
    <3> DEFINE x == item.url
    <3>1. seen' = seen \cup {x}
      BY <2>1
    <3> HIDE DEF x
    <3>2. CASE x \in seen
      <4>1. seen' = seen
        BY <3>1, <3>2
      <4>2. QED
        BY <1>2, <3>2, <4>1 DEF n, m, x
    <3>3. CASE x \notin seen
      <4>1. m = n + 1
        BY <1>2, <3>1, <3>3, FS_AddElement DEF n, m
      <4>2. QED
        BY <1>2, <4>1
    <3>4. QED
      BY <3>2, <3>3
  <2>4. item.depth \in Nat /\ item.depth <= n
    BY <1>3, <1>5, <2>1
  <2>5. \A i \in DOMAIN links'[w] : \E j \in DOMAIN links[w] : links'[w][i] = links[w][j]
    BY <1>1, <2>1, <2>2, HeadAndTail
  <2> HIDE DEF item
  <2>6. ASSUME NEW i \in DOMAIN queue' PROVE queue'[i].depth < m
    <3>1. CASE queue' = queue
      <4>1. queue[i] \in Items /\ queue[i].depth < n /\ queue[i].depth \in Nat
        BY <1>3, <1>4, <2>6, <3>1
      <4>2. QED
        BY <1>2, <2>3, <3>1, <4>1
    <3>2. CASE queue' = Append(queue, item) /\ item.url \notin seen
      <4>1. queue'[i] = item \/ (i \in DOMAIN queue /\ queue'[i] = queue[i])
        BY <1>1, <2>1, <2>6, <3>2, AppendProperties, LenProperties
      <4>2. i \in DOMAIN queue => queue[i].depth < n /\ queue[i].depth \in Nat
        BY <1>3, <1>4
      <4>3. QED
        BY <1>2, <2>3, <2>4, <3>2, <4>1, <4>2
    <3>3. QED
      BY <2>1, <3>1, <3>2
  <2>7. ASSUME NEW v \in Workers
        PROVE  /\ stage'[v] # "idle" => job'[v].depth < m
               /\ \A i \in DOMAIN links'[v] : links'[v][i].depth <= m
    <3>1. stage'[v] = stage[v] /\ job'[v] = job[v]
      BY <1>1, <1>13, <2>2, WorkersApart
    <3>2. stage[v] # "idle" => job[v].depth \in Nat /\ job[v].depth < n
      BY <1>1, <1>3, <1>5, HeldItem
    <3>3. \A i \in DOMAIN links'[v] : \E j \in DOMAIN links[v] : links'[v][i] = links[v][j]
      BY <1>1, <1>13, <2>5, WorkersApart
    <3>4. \A j \in DOMAIN links[v] : links[v][j].depth \in Nat /\ links[v][j].depth <= n
      BY <1>3, <1>5, <1>6
    <3>5. \A i \in DOMAIN links'[v] : links'[v][i].depth \in Nat /\ links'[v][i].depth <= n
      BY <3>3, <3>4
    <3>6. QED
      BY <1>2, <2>3, <3>1, <3>2, <3>5
  <2>8. QED
    BY <2>6, <2>7 DEF Shallow, m
<1>14. QED
  BY <1>7, <1>9, <1>10, <1>11, <1>12, <1>13, LinkSteps DEF ComesBackDealing

\* What has been found stays found, and what is new are the links of a URL that
\* has been dealt with.
LEMMA LinksFound ==
  ASSUME Unlimited, Steady, StageFaults = {}, Prepared, [Next]_vars \/ PassOver
  PROVE  /\ Found \subseteq Found' /\ seen \subseteq seen'
         /\ \/ Settled' = Settled /\ Found' \subseteq Found
            \/ \E u \in seen : /\ Settled' = Settled \cup {u} /\ Found' \subseteq Found \cup Refs(u)
                               /\ Resumes => Dealt(u)'
<1>1. /\ stage \in [Workers -> Stages] /\ links \in [Workers -> Seq(Items)] /\ IInv /\ Orderly
  BY DEF Prepared, IInv, WorkerTypeOK
<1>2. ASSUME UNCHANGED <<seen, links>> PROVE Found' = Found
  BY <1>2 DEF Found, LinkUrls
<1>3. CASE UNCHANGED <<queue, seen, job, stage, links>>
  <2>1. Settled' = Settled
    BY <1>3 DEF Settled, Ahead, HeldUrls, Proved!QueuedKeys
  <2>2. QED
    BY <1>2, <1>3, <2>1
<1>4. ASSUME NEW w \in Workers, GetItem(w) \/ FinishItem(w)
      PROVE  Settled' = Settled /\ UNCHANGED <<seen, links>>
  BY <1>1, <1>4, QueueingSettles DEF GetItem, FinishItem, WQ!PopItem, WQ!FinishItem
<1>5. ASSUME NEW w \in Workers, Advances(w)
      PROVE  Settled' = Settled /\ UNCHANGED <<seen, links>>
  <2>1. PICK s \in Deep : Goto(w, s)
    BY <1>5 DEF Advances
  <2>2. stage[w] \notin {"idle", "follow"} /\ UNCHANGED <<queue, seen, job, links>>
    BY <1>5 DEF Advances
  <2>3. s \in Stages \ {"idle"} /\ s # "follow"
    BY DEF Deep, Stages
  <2>4. QED
    BY <1>1, <2>1, <2>2, <2>3, ProcessSettles
<1>6. ASSUME NEW w \in Workers, FollowLink(w)
      PROVE  Settled' = Settled /\ Found' = Found /\ seen \subseteq seen'
  <2> DEFINE item == Head(links[w])
  <2>1. /\ (\E i \in DOMAIN links[w] : item = links[w][i])
        /\ links'[w] = Tail(links[w]) /\ seen' = seen \cup {item.url}
    BY <1>1, <1>6, LinkFollowed
  <2>2. links[w] # <<>> /\ links[w] \in Seq(Items)
    BY <1>1, <1>6 DEF FollowLink
  <2>3. /\ \A i \in DOMAIN links'[w] : \E j \in DOMAIN links[w] : links'[w][i] = links[w][j]
        /\ \A i \in DOMAIN links[w] : links[w][i] = item \/ \E j \in DOMAIN links'[w] : links[w][i] = links'[w][j]
    BY <2>1, <2>2, HeadAndTail
  <2> HIDE DEF item
  <2>4. item.url \in LinkUrls(w)
    BY <2>1 DEF LinkUrls
  <2>5. LinkUrls(w)' \subseteq LinkUrls(w) /\ LinkUrls(w) \subseteq LinkUrls(w)' \cup {item.url}
    BY <2>3 DEF LinkUrls
  <2>6. \A v \in Workers \ {w} : LinkUrls(v)' = LinkUrls(v)
    BY <1>6, WorkersApart DEF LinkUrls
  <2>7. Found' = Found
    BY <2>1, <2>4, <2>5, <2>6 DEF Found
  <2>8. Settled' = Settled
    BY <1>1, <1>6, QueueingSettles
  <2>9. QED
    BY <2>1, <2>7, <2>8
<1>7. ASSUME NEW w \in Workers, ComesBackDealing(w)
      PROVE  /\ Found \subseteq Found' /\ seen \subseteq seen'
             /\ \E u \in seen : /\ Settled' = Settled \cup {u} /\ Found' \subseteq Found \cup Refs(u)
                                /\ Resumes => Dealt(u)'
  <2>1. /\ stage[w] \notin {"idle", "follow"} /\ Goto(w, "follow")
        /\ UNCHANGED <<queue, seen, job>>
    BY <1>7 DEF ComesBackDealing, ComesBack
  <2>2. PICK found \in Seq(Items) :
          /\ links' = [links EXCEPT ![w] = found]
          /\ \A i \in DOMAIN found : found[i].url \in Refs(job[w].url)
    BY <1>7 DEF ComesBackDealing, ComesBack
  <2>3. PICK u \in seen : u = job[w].url
    BY <1>1, <2>1, HeldAlone
  <2>4. Settled' = Settled \cup {u}
    BY <1>1, <2>1, <2>3, ProcessSettles DEF Stages
  <2>5. links'[w] = found
    BY <1>1, <2>2
  <2>6. LinkUrls(w)' \subseteq Refs(u)
    BY <2>2, <2>3, <2>5 DEF LinkUrls
  <2>7. LinkUrls(w) = {}
    <3>1. links[w] = <<>>
      BY <1>1, <2>1 DEF Orderly
    <3>2. DOMAIN links[w] = {}
      BY <3>1
    <3>3. QED
      BY <3>2 DEF LinkUrls
  <2>8. \A v \in Workers \ {w} : LinkUrls(v)' = LinkUrls(v)
    BY <1>7, WorkersApart DEF LinkUrls, ComesBackDealing
  <2>9. Found \subseteq Found' /\ Found' \subseteq Found \cup Refs(u)
    BY <2>1, <2>6, <2>7, <2>8 DEF Found
  <2>10. ASSUME Resumes PROVE Dealt(u)'
    <3>1. Dealt(job[w].url)'
      BY <1>7, <2>10 DEF ComesBackDealing
    <3>2. job'[w].url = u
      BY <2>1, <2>3
    <3>3. QED
      BY <3>1, <3>2
  <2>11. QED
    BY <2>1, <2>4, <2>9, <2>10
<1>8. QED
  BY <1>2, <1>3, <1>4, <1>5, <1>6, <1>7, LinkSteps

\* A failure is not forgotten.
LEMMA FailedStays ==
  ASSUME IInv, [Next]_vars \/ PassOver, stats["failed"] > 0
  PROVE  stats'["failed"] > 0
<1>1. stats \in [Tallies -> Nat]
  BY DEF IInv, CountTypeOK
<1>2. ASSUME NEW t \in Tallies, Bump(t) PROVE stats'["failed"] > 0
  BY <1>1, <1>2 DEF Bump, Tallies
<1>3. ASSUME NEW w \in Workers, LookUpRobots(w) \/ AskRobots(w)
      PROVE  stats' = stats \/ Bump("skipped")
  BY <1>3 DEF LookUpRobots, AskRobots, Judge
<1>4. ASSUME NEW w \in Workers, Process(w), ~(LookUpRobots(w) \/ AskRobots(w))
      PROVE  stats' = stats \/ \E t \in Tallies : Bump(t)
  BY <1>4 DEF Process, DrainItem, RejectOutOfScope, AcceptInScope, PassBudget, StopOverBudget,
     TallyListed, Reuse, Retry, RecordError, RecordStatus, RecordRefused, RecordUnchanged, Store,
     StoreFails, FollowLink, countVars, Tallies
<1>5. ASSUME NEW w \in Workers, GetItem(w) \/ NoItemYet(w) \/ FinishItem(w)
      PROVE  stats' = stats
  BY <1>5 DEF GetItem, NoItemYet, FinishItem, countVars
<1>6. CASE RewritePhase \/ PassOver \/ UNCHANGED vars
  BY <1>6 DEF RewritePhase, BeginRewrite, Rewrite, RewriteFails, PassOver, NextDocument, vars, countVars
<1>7. QED
  BY <1>2, <1>3, <1>4, <1>5, <1>6 DEF Next, Tallies

\* The entry of what has been dealt with stays, and so does its staged copy.
LEMMA SettledStays ==
  ASSUME IInv, [Next]_vars \/ PassOver, NEW u \in Settled
  PROVE  /\ Done(u) => Done(u)' /\ manifest'[u].kind = manifest[u].kind
         /\ raw'[u] = raw[u]
<1>1. manifest \in [Urls -> Entry \cup {None}] /\ u \in Urls
  BY AheadSeen DEF IInv, RecordTypeOK, Settled
<1>2. ASSUME NEW v \in Urls, Decides(v) PROVE v # u
  BY <1>2 DEF Decides
<1>3. Done(u) => Done(u)' /\ manifest'[u].kind = manifest[u].kind
  <2>1. CASE Quiet \/ RewriteFails \/ PassOver
    BY <2>1 DEF Quiet, RewriteFails, PassOver, Done
  <2>2. ASSUME NEW v \in Urls, Decides(v)
        PROVE  Done(u) => Done(u)' /\ manifest'[u].kind = manifest[u].kind
    BY <1>1, <1>2, <2>2, DecisionRecorded DEF Done
  <2>3. CASE Rewrite
    <3>1. manifest[u] # None => /\ manifest'[u] # None
                                /\ manifest'[u].state = manifest[u].state
                                /\ manifest'[u].kind = manifest[u].kind
      BY <1>1, <2>3, RewriteEffect
    <3>2. QED
      BY <3>1 DEF Done
  <2>4. QED
    BY <2>1, <2>2, <2>3, StepKinds
<1>4. raw'[u] = raw[u]
  <2>1. ASSUME NEW v \in Urls, Decides(v) PROVE raw'[u] = raw[u]
    BY <1>1, <1>2, <2>1, DecisionStaged
  <2>2. QED
    BY <2>1, StepKinds, RewritingSettles DEF Quiet, diskVars, Rewrite, RewriteFails, PassOver
<1>5. QED
  BY <1>3, <1>4

\* What has been dealt with stays so.
LEMMA DealtStays ==
  ASSUME Unlimited, Steady, StageFaults = {}, Prepared, [Next]_vars \/ PassOver,
         NEW u \in Settled, Dealt(u)
  PROVE  Dealt(u)'
<1>1. IInv
  BY DEF Prepared
<1>2. Found \subseteq Found' /\ site' = site
  BY LinksFound, LinkSteps
<1>3. Refs(u)' = Refs(u)
  BY <1>2 DEF Refs, Barred, Obtainable, Oversized, Targets, Downloaded
<1>4. StopRequested => StopRequested'
  BY StopStays, RewritingSettles DEF PassOver, StopRequested
<1>5. Barred(u)' = Barred(u)
  BY DEF Barred, Obtainable, Oversized
<1>6. stats["failed"] > 0 => stats'["failed"] > 0
  BY <1>1, FailedStays
<1>7. (Done(u) => Done(u)') /\ raw'[u] = raw[u]
  BY <1>1, SettledStays
<1>8. Followed(u) => Followed(u)'
  BY <1>2, <1>3, <1>7 DEF Followed
<1>9. QED
  BY <1>4, <1>5, <1>6, <1>8 DEF Dealt

\* The site has not changed, and no run has been killed.
Calm == fate \in {"none", "damaged"}

SavedDone(u) == SavedManifest /\ saved[u] # None /\ saved[u].state = "done"

\* What can be reached from the start is in every set that has no way out.
Closed(X) == StartUrl \in X /\ \A u \in X : Refs(u) \subseteq X
Reached ==
  \A X \in SUBSET Urls : Closed(X) =>
    Found \subseteq X /\ \A u \in Urls : Done(u) \/ SavedDone(u) => u \in X

\* Where an asset is stored it is what it was when it was downloaded, or nothing.
CurrentAsset(u, entry) ==
  entry # None /\ entry.state = "done" /\ ~NeedsRewriting(entry.kind) => entry.sha = Downloaded(u)
AssetsCurrent ==
  /\ \A u \in Urls : MayBeAsset(u) => disk[AssetPlace(u)] \in {None, Downloaded(u)}
  /\ \A u \in Urls : CurrentAsset(u, manifest[u]) /\ (SavedManifest => CurrentAsset(u, saved[u]))

\* What a --resume run has dealt with is as it should be, unless it is a document
\* whose staged copy is gone.
Restored(u) ==
  StopRequested \/ (Done(u) /\ NeedsRewriting(manifest[u].kind) /\ raw[u] = None) \/ KeptFor(u)

Calmly ==
  /\ StartUrl \in seen /\ Orderly /\ Shallow
  /\ StagedCurrent /\ AssetsCurrent /\ Reached
  /\ running /\ Resumes => \A u \in Settled : Dealt(u) /\ Restored(u)

LEMMA SameSite ==
  ASSUME site' = site
  PROVE  /\ \A u \in Urls : Downloaded(u)' = Downloaded(u) /\ Refs(u)' = Refs(u)
         /\ \A X \in SUBSET Urls : Closed(X)' = Closed(X)
<1>1. \A u \in Urls : Downloaded(u)' = Downloaded(u) /\ Refs(u)' = Refs(u)
  BY DEF Refs, Barred, Obtainable, Oversized, Targets, Downloaded
<1>2. \A X \in SUBSET Urls : Closed(X)' = Closed(X)
  BY <1>1 DEF Closed
<1>3. QED
  BY <1>1, <1>2

\* Only what has arrived in full is staged.
LEMMA StepStagedCurrent ==
  ASSUME StageFaults = {}, IInv, StagedCurrent, [Next]_vars \/ PassOver, site' = site
  PROVE  StagedCurrent'
<1>1. raw \in [Urls -> Body \cup {None}]
  BY DEF IInv, RecordTypeOK
<1>2. \A u \in Urls : Downloaded(u)' = Downloaded(u)
  BY SameSite
<1>3. CASE raw' = raw
  BY <1>2, <1>3 DEF StagedCurrent, Obtainable, Oversized
<1>4. ASSUME NEW w \in Workers, Store(w) PROVE StagedCurrent'
  <2> DEFINE v == job[w].url
  <2>1. v \in Urls => Obtainable(v)
    BY <1>4, WantedObtainable DEF Store, ReceivesBody, Delivers, Receives, IInv
  <2>2. raw' = raw \/ raw' = [raw EXCEPT ![v] = Downloaded(v)]
    BY <1>4 DEF Store
  <2> HIDE DEF v
  <2>3. \A u \in Urls : raw'[u] = raw[u] \/ (u = v /\ raw'[u] = Downloaded(u))
    BY <1>1, <2>2
  <2>4. QED
    BY <1>2, <2>1, <2>3 DEF StagedCurrent, Obtainable, Oversized
<1>5. ASSUME NEW w \in Workers, Process(w), ~Store(w) PROVE raw' = raw
  BY <1>5 DEF Process, DrainItem, RejectOutOfScope, AcceptInScope, LookUpRobots, AskRobots,
     PassBudget, StopOverBudget, Reuse, Retry, RecordError, RecordStatus, RecordRefused,
     RecordUnchanged, StoreFails, FollowLink, diskVars
<1>6. ASSUME NEW w \in Workers, GetItem(w) \/ NoItemYet(w) \/ FinishItem(w) PROVE raw' = raw
  BY <1>6 DEF GetItem, NoItemYet, FinishItem, diskVars
<1>7. CASE RewritePhase \/ PassOver \/ UNCHANGED vars
  BY <1>3, <1>7 DEF RewritePhase, BeginRewrite, Rewrite, RewriteFails, PassOver, NextDocument, vars, diskVars
<1>8. QED
  BY <1>3, <1>4, <1>5, <1>6, <1>7 DEF Next

\* What the crawl makes of the entries.
LEMMA CrawlEntries ==
  ASSUME IInv, Filed, [Next]_vars \/ PassOver, site' = site, NEW u \in Urls
  PROVE  /\ Done(u)' => Done(u) \/ u \in seen
         /\ CurrentAsset(u, manifest[u]) => CurrentAsset(u, manifest[u])'
<1>1. manifest \in [Urls -> Entry \cup {None}] /\ Downloaded(u)' = Downloaded(u)
  BY SameSite DEF IInv, RecordTypeOK
<1>2. CASE manifest' = manifest
  BY <1>1, <1>2 DEF Done, CurrentAsset
<1>3. ASSUME NEW v \in Urls, Decides(v)
      PROVE  /\ Done(u)' => Done(u) \/ u \in seen
             /\ CurrentAsset(u, manifest[u]) => CurrentAsset(u, manifest[u])'
  <2>1. CASE u # v
    <3>1. manifest'[u] = manifest[u]
      BY <1>3, <2>1, DecisionRecorded
    <3>2. QED
      BY <1>1, <3>1 DEF Done, CurrentAsset
  <2>2. CASE u = v
    <3>1. u \in seen
      BY <1>3, <2>2 DEF Decides
    <3>2. CASE TurnedDown(u)
      <4>1. PICK entry \in Entry : entry.state \in {"failed", "skipped"} /\ manifest' = [manifest EXCEPT ![u] = entry]
        BY <3>2 DEF TurnedDown
      <4>2. manifest'[u].state # "done"
        BY <1>1, <4>1
      <4>3. QED
        BY <3>1, <4>2 DEF CurrentAsset
    <3>3. CASE Downloads(u)
      <4>1. PICK kind \in Kinds : manifest' = [manifest EXCEPT ![u] = NewEntry(u, kind)]
        BY <3>3 DEF Downloads
      <4>2. manifest'[u].sha = Downloaded(u)
        BY <1>1, <4>1 DEF NewEntry
      <4>3. QED
        BY <1>1, <3>1, <4>2 DEF CurrentAsset
    <3>4. QED
      BY <1>2, <1>3, <2>2, <3>2, <3>3 DEF Decides, PassedBy, TakenOver
  <2>3. QED
    BY <2>1, <2>2
<1>4. CASE Rewrite
  <2> DEFINE document == Head(documents)
  <2>1. /\ manifest[u] = None => manifest'[u] = None
        /\ manifest[u] # None =>
             /\ manifest'[u] # None
             /\ manifest'[u].state = manifest[u].state
             /\ manifest'[u].kind = manifest[u].kind
             /\ u # document.url => manifest'[u].sha = manifest[u].sha
    BY <1>4, RewriteEffect
  <2>2. NeedsRewriting(manifest[document.url].kind)
    BY <1>4, NextFiled DEF Rewrite, Filed, DocumentsFiled
  <2>3. Done(u)' => Done(u)
    BY <2>1 DEF Done
  <2>4. CurrentAsset(u, manifest[u]) => CurrentAsset(u, manifest[u])'
    BY <1>1, <2>1, <2>2 DEF CurrentAsset
  <2>5. QED
    BY <2>3, <2>4
<1>5. QED
  BY <1>2, <1>3, <1>4, StepKinds DEF Quiet, RewriteFails, PassOver

LEMMA StepAssets ==
  ASSUME Faultless, PlacesApart, Steady, CloneIInv, HistoryFiled, Placed, AssetsCurrent, Crawl,
         site' = site
  PROVE  AssetsCurrent'
<1>1. /\ IInv /\ Filed /\ ([Next]_vars \/ PassOver) /\ saved' = saved
      /\ \A u \in Urls : PlacedEntry(u, manifest[u])
  BY DEF CloneIInv, HistoryFiled, Crawl, cloneVars, Placed
<1>2. KindsApart
  BY DEF Steady, KindsApart
<1>3. \A u \in Urls : Downloaded(u)' = Downloaded(u)
  BY SameSite
<1>4. ASSUME NEW u \in Urls, MayBeAsset(u)
      PROVE  disk'[AssetPlace(u)] \in {None, Downloaded(u)}
  <2>1. disk'[AssetPlace(u)] \in {disk[AssetPlace(u)], Downloaded(u)}
    BY <1>1, <1>2, <1>4, AssetPlaceStep
  <2>2. QED
    BY <1>4, <2>1 DEF AssetsCurrent
<1>5. ASSUME NEW u \in Urls
      PROVE  CurrentAsset(u, manifest[u])' /\ (SavedManifest' => CurrentAsset(u, saved[u])')
  <2>1. CurrentAsset(u, manifest[u]) /\ (SavedManifest => CurrentAsset(u, saved[u]))
    BY DEF AssetsCurrent
  <2>2. CurrentAsset(u, manifest[u])'
    BY <1>1, <2>1, CrawlEntries
  <2>3. SavedManifest' => CurrentAsset(u, saved[u])'
    BY <1>1, <1>3, <2>1 DEF CurrentAsset, SavedManifest
  <2>4. QED
    BY <2>2, <2>3
<1>6. QED
  BY <1>3, <1>4, <1>5 DEF AssetsCurrent, MayBeAsset, AssetPlace

LEMMA StepReached ==
  ASSUME Unlimited, Steady, Faultless, CloneIInv, HistoryFiled, Prepared, Reached, Crawl
  PROVE  Reached'
<1>1. IInv /\ Filed /\ ([Next]_vars \/ PassOver) /\ saved' = saved
  BY DEF CloneIInv, HistoryFiled, Crawl, cloneVars
<1>2. StageFaults = {} /\ site' = site
  BY <1>1, LinkSteps DEF Faultless
<1> SUFFICES ASSUME NEW X \in SUBSET Urls, Closed(X)
             PROVE  Found' \subseteq X /\ \A u \in Urls : (Done(u) \/ SavedDone(u))' => u \in X
  BY <1>2, SameSite DEF Reached
<1>3. Found \subseteq X /\ \A u \in Urls : Done(u) \/ SavedDone(u) => u \in X
  BY DEF Reached
<1>4. seen \subseteq X
  BY <1>3 DEF Found
<1>5. Found' \subseteq X
  <2>1. Found' \subseteq Found \/ \E u \in seen : Found' \subseteq Found \cup Refs(u)
    BY <1>1, <1>2, LinksFound
  <2>2. QED
    BY <1>3, <1>4, <2>1 DEF Closed
<1>6. ASSUME NEW u \in Urls, Done(u)' PROVE u \in X
  BY <1>1, <1>2, <1>3, <1>4, <1>6, CrawlEntries
<1>7. ASSUME NEW u \in Urls, SavedDone(u)' PROVE u \in X
  BY <1>1, <1>3, <1>7 DEF SavedDone, SavedManifest
<1>8. QED
  BY <1>5, <1>6, <1>7

\* A document that is passed over has lost its staged copy.
LEMMA PassedRestored ==
  ASSUME IInv, Filed, PassOver, NEW u \in Urls, Restored(u)
  PROVE  Restored(u)'
<1> DEFINE document == Head(documents)
<1>1. /\ NextDocument /\ UNCHANGED <<disk, manifest, raw, stop_reason>>
      /\ document \in Waiting /\ document.url \in Urls
      /\ Waiting' = Waiting \ {document}
      /\ document.path \in PlacesOf(document.url) \cup {None}
      /\ document.path = manifest[document.url].path
      /\ NeedsRewriting(manifest[document.url].kind)
  BY NextFiled, RewritingSettles DEF PassOver, NextDocument, Filed, DocumentsFiled
<1> HIDE DEF document
<1>2. CASE KeptFor(u) /\ u # document.url
  <2>1. Waits(u) => Waits(u)'
    BY <1>1, <1>2 DEF Waits
  <2>2. QED
    BY <1>1, <1>2, <2>1 DEF Restored, KeptFor, Done
<1>3. CASE u = document.url /\ Done(u)
  <2>1. u \notin Outside
    BY <1>3, DonePlace DEF Filed, PlacesOf
  <2>2. raw[u] = None
    BY <1>3, <2>1 DEF PassOver, document
  <2>3. QED
    BY <1>1, <1>3, <2>2 DEF Restored, Done
<1>4. CASE ~KeptFor(u) \/ ~Done(u)
  BY <1>1, <1>4 DEF Restored, StopRequested, Done, KeptFor
<1>5. QED
  BY <1>2, <1>3, <1>4

LEMMA StepRestored ==
  ASSUME Faultless, PlacesApart, CloneIInv, HistoryFiled, Resumes, [Next]_vars \/ PassOver,
         NEW u \in Settled, Restored(u)
  PROVE  Restored(u)'
<1>1. IInv /\ Filed /\ u \in Urls \ RewriteFaults /\ ~opts.dry_run
  BY AheadSeen DEF CloneIInv, HistoryFiled, Settled, Faultless, Resumes
<1>2. CASE PassOver
  BY <1>1, <1>2, PassedRestored
<1>3. CASE [Next]_vars
  <2>1. KeptFor(u) => KeptFor(u)'
    BY <1>1, <1>3, StepKept
  <2>2. StopRequested => StopRequested'
    BY <1>3, StopStays
  <2>3. (Done(u) => Done(u)' /\ manifest'[u].kind = manifest[u].kind) /\ raw'[u] = raw[u]
    BY <1>1, SettledStays
  <2>4. QED
    BY <2>1, <2>2, <2>3 DEF Restored
<1>4. QED
  BY <1>2, <1>3

\* What the run has just dealt with is as it should be.
LEMMA DecidedRestored ==
  ASSUME CloneIInv, HistoryFiled, Placed, AssetsCurrent, Resumes, NEW u \in Urls, Decides(u)
  PROVE  Restored(u)'
<1>1. /\ IInv /\ Filed /\ RecordTypeOK /\ ~opts.dry_run /\ documents \in Seq(Document)
  BY DEF CloneIInv, IInv, RecordTypeOK, HistoryFiled, Resumes
<1>2. CASE PassedBy(u)
  BY <1>2 DEF PassedBy, StopRequested, Restored
<1>3. CASE TurnedDown(u)
  <2>1. ~Done(u)'
    BY <1>1, <1>3 DEF TurnedDown, Done, RecordTypeOK
  <2>2. QED
    BY <2>1 DEF KeptFor, Restored
<1>4. CASE Downloads(u)
  BY <1>1, <1>4, DecidedFile DEF Restored
<1>5. CASE TakenOver(u)
  <2>1. /\ manifest' = manifest /\ disk' = disk /\ raw' = raw /\ Done(u) /\ Done(u)'
        /\ disk[manifest[u].path] # None
    BY <1>5 DEF TakenOver, Reusable, NotModified, diskVars, Resumes, Done
  <2>2. CASE NeedsRewriting(manifest[u].kind) /\ raw[u] = None
    BY <2>1, <2>2 DEF Restored
  <2>3. CASE NeedsRewriting(manifest[u].kind) /\ raw[u] # None
    <3>1. documents' = Append(documents, OldDocument(u))
      BY <1>5, <2>3 DEF TakenOver
    <3>2. OldDocument(u) \in Document /\ OldDocument(u).url = u
      BY <1>1, <2>1, DoneEntry DEF OldDocument, Document, Entry, Filed
    <3>3. Waits(u)'
      BY <1>1, <3>1, <3>2, DocumentsAppend DEF Waits
    <3>4. QED
      BY <3>3 DEF KeptFor, Restored
  <2>4. CASE ~NeedsRewriting(manifest[u].kind)
    <3>1. manifest[u] \in Entry /\ manifest[u].path \in PlacesOf(u)
      BY <1>1, <2>1, DonePlace DEF Filed
    <3>2. MayBeAsset(u) /\ manifest[u].path = AssetPlace(u)
      <4>1. manifest[u].kind \in Kinds /\ PlacedEntry(u, manifest[u])
        BY <3>1 DEF Entry, Placed
      <4>2. QED
        BY <2>1, <2>4, <3>1, <4>1, AssetEntry DEF Done
    <3>3. disk[manifest[u].path] = Downloaded(u)
      BY <2>1, <3>2 DEF AssetsCurrent
    <3>4. manifest[u].sha = Downloaded(u)
      BY <2>1, <2>4 DEF AssetsCurrent, CurrentAsset, Done
    <3>5. QED
      BY <2>1, <3>3, <3>4 DEF KeptFor, Restored
  <2>5. QED
    BY <2>2, <2>3, <2>4
<1>6. QED
  BY <1>2, <1>3, <1>4, <1>5 DEF Decides

LEMMA StartsCalmly ==
  StartRun => /\ Orderly /\ Shallow /\ StartUrl \in seen /\ Found = {StartUrl}
              /\ Settled = {}
<1> SUFFICES ASSUME StartRun
             PROVE  Orderly /\ Shallow /\ StartUrl \in seen /\ Found = {StartUrl} /\ Settled = {}
  OBVIOUS
<1>1. /\ stage = [w \in Workers |-> "idle"] /\ links = [w \in Workers |-> <<>>]
      /\ queue = <<StartItem>> /\ seen = {StartUrl} /\ Settled = {}
  <2>1. StartItem \in Items
    BY QueueAssumption
  <2>2. UrlOf[StartItem] = StartUrl
    BY <2>1 DEF UrlOf, StartItem
  <2>3. QED
    BY <2>2, StartsUndecided DEF StartRun, WQ!Init
<1>2. \A w \in Workers : stage[w] = "idle" /\ links[w] = <<>>
  BY <1>1
<1>3. \A w \in Workers : DOMAIN links[w] = {}
  BY <1>2
<1>4. Orderly
  BY <1>2 DEF Orderly, Deep
<1>5. Cardinality(seen) = 1
  BY <1>1, FS_Singleton
<1>6. Shallow
  <2>1. \A i \in DOMAIN queue : queue[i].depth = 0
    BY <1>1 DEF StartItem
  <2>2. QED
    BY <1>2, <1>3, <1>5, <2>1 DEF Shallow
<1>7. Found = {StartUrl}
  BY <1>1, <1>3 DEF Found, LinkUrls
<1>8. QED
  BY <1>1, <1>4, <1>6, <1>7

LEMMA CrawlCalm ==
  ASSUME Unlimited, Steady, Faultless, PlacesApart, CloneIInv, CloneIInv', HistoryFiled, Placed,
         Calmly, Crawl
  PROVE  Calmly'
<1>1. /\ Prepared /\ IInv /\ ([Next]_vars \/ PassOver) /\ StageFaults = {} /\ IInv'
      /\ running /\ running' = running
  BY DEF Prepared, CloneIInv, Calmly, Placed, Crawl, cloneVars, Faultless
<1>2. opts' = opts /\ site' = site
  BY <1>1, LinkSteps
<1>3. Orderly' /\ Shallow' /\ StagedCurrent'
  BY <1>1, <1>2, StepOrderly, StepShallow, StepStagedCurrent DEF Prepared
<1>4. AssetsCurrent' /\ Reached'
  BY <1>1, <1>2, StepAssets, StepReached DEF Calmly
<1>5. StartUrl \in seen'
  BY <1>1, LinksFound DEF Calmly
<1>6. ASSUME Resumes PROVE \A u \in Settled' : Dealt(u)' /\ Restored(u)'
  <2>1. \A u \in Settled : Dealt(u) /\ Restored(u)
    BY <1>1, <1>6 DEF Calmly
  <2>2. ASSUME NEW u \in Settled PROVE Dealt(u)' /\ Restored(u)'
    BY <1>1, <1>6, <2>1, <2>2, DealtStays, StepRestored
  <2>3. CASE Settled' = Settled
    BY <2>2, <2>3
  <2>4. ASSUME NEW u \in seen, Settled' = Settled \cup {u}, Dealt(u)', u \notin Settled
        PROVE  Restored(u)'
    <3>1. PICK v \in Urls : Decides(v)
      BY <1>1, <2>4, StepKinds, RewritingSettles DEF Quiet, Rewrite, RewriteFails, PassOver
    <3>2. u = v
      BY <2>4, <3>1 DEF Decides
    <3>3. QED
      BY <1>6, <3>1, <3>2, DecidedRestored DEF Calmly
  <2>5. QED
    BY <1>1, <1>6, <2>2, <2>3, <2>4, LinksFound
<1>7. Resumes' => Resumes
  BY <1>2 DEF Resumes
<1>8. QED
  BY <1>3, <1>4, <1>5, <1>6, <1>7 DEF Calmly

\* A run begins or ends.
LEMMA FreshCalm ==
  ASSUME CloneIInv, Calmly, StartRun', UNCHANGED <<disk, raw, site>>,
         manifest' = Nothing.manifest \/ (SavedManifest /\ manifest' = saved),
         saved' \in {saved, manifest}
  PROVE  Calmly'
<1>1. Orderly' /\ Shallow' /\ StartUrl \in seen' /\ Found' = {StartUrl} /\ Settled' = {}
  <2>1. StartRun' => (/\ Orderly /\ Shallow /\ StartUrl \in seen /\ Found = {StartUrl}
                      /\ Settled = {})'
    BY StartsCalmly, PTL
  <2>2. QED
    BY <2>1
<1>2. \A u \in Urls : Downloaded(u)' = Downloaded(u) /\ Refs(u)' = Refs(u)
  BY SameSite
<1>3. StagedCurrent'
  BY <1>2 DEF Calmly, StagedCurrent
<1>4. SavedManifest' => saved' = manifest \/ (SavedManifest /\ saved' = saved)
  BY DEF SavedManifest
<1>5. AssetsCurrent'
  <2>1. \A u \in Urls : MayBeAsset(u) => disk'[AssetPlace(u)] \in {None, Downloaded(u)}
    BY DEF Calmly, AssetsCurrent
  <2>2. ASSUME NEW u \in Urls
        PROVE  CurrentAsset(u, manifest[u])' /\ (SavedManifest' => CurrentAsset(u, saved[u])')
    <3>1. CurrentAsset(u, manifest[u]) /\ (SavedManifest => CurrentAsset(u, saved[u]))
      BY DEF Calmly, AssetsCurrent
    <3>2. manifest'[u] = None \/ (SavedManifest /\ manifest'[u] = saved[u])
      BY DEF Nothing
    <3>3. QED
      BY <1>2, <1>4, <3>1, <3>2 DEF CurrentAsset
  <2>3. QED
    BY <1>2, <2>1, <2>2 DEF AssetsCurrent, MayBeAsset, AssetPlace
<1>6. Reached'
  <2> SUFFICES ASSUME NEW X \in SUBSET Urls, Closed(X)
               PROVE  Found' \subseteq X /\ \A u \in Urls : (Done(u) \/ SavedDone(u))' => u \in X
    BY SameSite DEF Reached
  <2>1. \A u \in Urls : Done(u) \/ SavedDone(u) => u \in X
    BY DEF Calmly, Reached
  <2>2. ASSUME NEW u \in Urls PROVE (Done(u) \/ SavedDone(u))' => Done(u) \/ SavedDone(u)
    <3>1. manifest'[u] = None \/ (SavedManifest /\ manifest'[u] = saved[u])
      BY DEF Nothing
    <3>2. QED
      BY <1>4, <3>1 DEF Done, SavedDone
  <2>3. Found' \subseteq X
    BY <1>1 DEF Closed
  <2>4. QED
    BY <2>1, <2>2, <2>3
<1>7. QED
  BY <1>1, <1>3, <1>5, <1>6 DEF Calmly

\* Files or staged copies are lost, or the manifest.
LEMMA AroundCalm ==
  ASSUME CloneIInv, HistoryFiled, Calmly, UNCHANGED <<memoryVars, manifest, site, running>>,
         \A u \in Urls : raw'[u] \in {raw[u], None},
         \A p \in Paths : disk'[p] \in {disk[p], None},
         running => disk' = disk,
         saved' \in {saved, None, Broken}
  PROVE  Calmly'
<1>1. /\ UNCHANGED <<queue, seen, job, stage, links, opts, stats, stop_reason>>
      /\ Settled' = Settled /\ Waiting' = Waiting /\ Found' = Found
  BY DEF memoryVars, countVars, queueVars, workerVars, Settled, Ahead, HeldUrls, Waiting,
         Proved!QueuedKeys, Found, LinkUrls
<1>2. /\ \A u \in Urls : Downloaded(u)' = Downloaded(u) /\ Refs(u)' = Refs(u)
      /\ SavedManifest' => SavedManifest /\ saved' = saved
  BY SameSite DEF SavedManifest
<1>3. Orderly' /\ Shallow' /\ StartUrl \in seen'
  BY <1>1 DEF Calmly, Orderly, Shallow
<1>4. StagedCurrent'
  BY <1>2 DEF Calmly, StagedCurrent
<1>5. AssetsCurrent'
  <2>1. ASSUME NEW u \in Urls, MayBeAsset(u) PROVE disk'[AssetPlace(u)] \in {None, Downloaded(u)}
    <3>1. AssetPlace(u) \in Paths
      BY CrawlerAssumption DEF AssetPlace, Kinds
    <3>2. QED
      BY <2>1, <3>1 DEF Calmly, AssetsCurrent
  <2>2. ASSUME NEW u \in Urls
        PROVE  CurrentAsset(u, manifest[u])' /\ (SavedManifest' => CurrentAsset(u, saved[u])')
    BY <1>2 DEF Calmly, AssetsCurrent, CurrentAsset
  <2>3. QED
    BY <1>2, <2>1, <2>2 DEF AssetsCurrent, MayBeAsset, AssetPlace
<1>6. Reached'
  <2> SUFFICES ASSUME NEW X \in SUBSET Urls, Closed(X)
               PROVE  Found' \subseteq X /\ \A u \in Urls : (Done(u) \/ SavedDone(u))' => u \in X
    BY SameSite DEF Reached
  <2>1. Found \subseteq X /\ \A u \in Urls : Done(u) \/ SavedDone(u) => u \in X
    BY DEF Calmly, Reached
  <2>2. \A u \in Urls : (Done(u) \/ SavedDone(u))' => Done(u) \/ SavedDone(u)
    BY <1>2 DEF Done, SavedDone
  <2>3. QED
    BY <1>1, <2>1, <2>2
<1>7. ASSUME running, Resumes PROVE \A u \in Settled' : Dealt(u)' /\ Restored(u)'
  <2> SUFFICES ASSUME NEW u \in Settled PROVE Dealt(u)' /\ Restored(u)'
    BY <1>1
  <2>1. u \in Urls /\ Dealt(u) /\ Restored(u) /\ disk' = disk /\ manifest' = manifest
        /\ raw'[u] \in {raw[u], None}
    BY <1>7, AheadSeen DEF Calmly, CloneIInv, Settled
  <2>2. Done(u)' = Done(u) /\ KeptFor(u)' = KeptFor(u)
    BY <1>1, <2>1 DEF Done, KeptFor, Waits
  <2>3. Restored(u)'
    BY <1>1, <2>1, <2>2 DEF Restored, StopRequested
  <2>4. Dealt(u)'
    BY <1>1, <1>2, <2>1, <2>2 DEF Dealt, Followed, StopRequested, Barred
  <2>5. QED
    BY <2>3, <2>4
<1>8. Resumes' = Resumes
  BY <1>1 DEF Resumes
<1>9. QED
  BY <1>3, <1>4, <1>5, <1>6, <1>7, <1>8 DEF Calmly

LEMMA StepCalm ==
  ASSUME Unlimited, Steady, Faultless, PlacesApart, CloneIInv, CloneIInv', HistoryFiled, Placed,
         Calm => Calmly, [CloneNext]_allVars
  PROVE  (Calm => Calmly)'
<1> SUFFICES ASSUME Calm' PROVE Calmly'
  OBVIOUS
<1>1. CASE Launch
  <2>1. Calm
    BY <1>1 DEF Calm, Launch
  <2>2. /\ StartRun' /\ UNCHANGED <<disk, raw, site>> /\ saved' = saved
        /\ manifest' = Nothing.manifest \/ (SavedManifest /\ manifest' = saved)
    BY <1>1, HistorySteps DEF Launch, SavedManifest
  <2>3. QED
    BY <2>1, <2>2, FreshCalm
<1>2. CASE Finish
  <2>1. Calm
    BY <1>2 DEF Calm, Finish
  <2>2. /\ StartRun' /\ UNCHANGED <<disk, raw, site>> /\ saved' \in {saved, manifest}
        /\ manifest' = Nothing.manifest
    BY <1>2, HistorySteps DEF Finish
  <2>3. QED
    BY <2>1, <2>2, FreshCalm
<1>3. CASE Crawl
  <2>1. Calm
    BY <1>3 DEF Calm, Crawl, cloneVars
  <2>2. QED
    BY <1>3, <2>1, CrawlCalm
<1>4. CASE Refuse \/ Damage \/ UNCHANGED allVars
  <2>1. Calm
    BY <1>4 DEF Calm, Refuse, Damage, LoseFile, SpoilManifest, Clean, CleanAll, Damaged, allVars, cloneVars
  <2>2. UNCHANGED <<memoryVars, manifest, site, running>>
    BY <1>4, HistorySteps DEF Refuse, allVars, vars, cloneVars, memoryVars, runVars
  <2>3. saved' \in {saved, None, Broken}
    BY <1>4 DEF Refuse, Damage, LoseFile, SpoilManifest, Clean, CleanAll, allVars, cloneVars
  <2>4. \A u \in Urls : raw'[u] \in {raw[u], None}
    <3>1. Refuse \/ UNCHANGED allVars => raw' = raw
      BY HistorySteps DEF allVars, vars, diskVars
    <3>2. Damage => \A u \in Urls : raw'[u] \in {raw[u], None}
      BY DEF Damage, LoseFile, SpoilManifest, Clean, CleanAll, vars, diskVars
    <3>3. QED
      BY <1>4, <3>1, <3>2
  <2>5. (running => disk' = disk) /\ \A p \in Paths : disk'[p] \in {disk[p], None}
    <3>1. Refuse \/ UNCHANGED allVars \/ SpoilManifest \/ Clean => disk' = disk
      BY HistorySteps DEF allVars, vars, diskVars, SpoilManifest, Clean
    <3>2. CleanAll => \A p \in Paths : disk'[p] \in {disk[p], None}
      BY DEF CleanAll
    <3>3. LoseFile => ~running /\ \A p \in Paths : disk'[p] \in {disk[p], None}
      BY DEF LoseFile, CloneIInv, IInv, RecordTypeOK
    <3>4. QED
      BY <1>4, <3>1, <3>2, <3>3 DEF Damage
  <2>6. QED
    BY <2>1, <2>2, <2>3, <2>4, <2>5, AroundCalm
<1>5. CASE SiteChanges \/ Kills
  BY <1>5 DEF SiteChanges, Kills, Kill, FinishUnsaved, Killed, Calm, CloneIInv, HistoryTypeOK
<1>6. QED
  BY <1>1, <1>2, <1>3, <1>4, <1>5 DEF CloneNext, Operate

LEMMA CalmInvariance ==
  ASSUME Unlimited, Steady, Faultless, PlacesApart
  PROVE  CloneSpec => [](CloneIInv /\ HistoryFiled /\ Placed /\ (Calm => Calmly))
<1>1. StageFaults = {}
  BY DEF Faultless
<1>2. CloneInit => Placed /\ Calmly
  <2> SUFFICES ASSUME CloneInit PROVE Placed /\ Calmly
    OBVIOUS
  <2>1. /\ StartRun /\ ~running /\ ~SavedManifest
        /\ manifest = Nothing.manifest /\ disk = Nothing.disk /\ raw = Nothing.raw
    BY DEF CloneInit, SavedManifest
  <2>2. \A u \in Urls : AssetPlace(u) \in Paths
    BY CrawlerAssumption DEF AssetPlace, Kinds
  <2>3. \A u \in Urls : manifest[u] = None /\ raw[u] = None
    BY <2>1 DEF Nothing
  <2>4. \A p \in Paths : disk[p] = None
    BY <2>1 DEF Nothing
  <2>5. Placed /\ StagedCurrent /\ AssetsCurrent
    BY <2>1, <2>2, <2>3, <2>4 DEF Placed, PlacedEntry, StagedCurrent, AssetsCurrent, CurrentAsset
  <2>6. Reached
    BY <2>1, <2>3, StartsCalmly DEF Reached, Closed, Done, SavedDone
  <2>7. QED
    BY <2>1, <2>5, <2>6, StartsCalmly DEF Calmly
<1>3. CloneIInv /\ CloneIInv' /\ HistoryFiled /\ Placed /\ (Calm => Calmly) /\ [CloneNext]_allVars
        => Placed' /\ (Calm => Calmly)'
  BY <1>1, StepPlaced, StepCalm
<1>4. QED
  BY <1>2, <1>3, FiledInvariance, PTL DEF CloneSpec

\* Whatever has been deleted of a mirror, its files, the manifest or, while a run
\* is at work, the staged copies: a complete --resume run makes the rest what the
\* manifest says, provided that the staged copies it finds its way through are there,
\* that no run may go where another one may not, and that each finds the same links.
THEOREM ResumeRestores ==
  ASSUME Unlimited, Steady, Faultless, PlacesApart
  PROVE  CloneSpec => []ResumeMakesWhole
<1>1. ASSUME CloneIInv, HistoryFiled, Placed, Calm => Calmly
      PROVE  ResumeMakesWhole
  <2> SUFFICES ASSUME fate = "damaged", Complete,
                      opts.resume, ~opts.update_mode, ~opts.force,
                      \A u \in Urls : Done(u) /\ NeedsRewriting(manifest[u].kind) => raw[u] # None,
                      NEW u \in Urls, Done(u)
               PROVE  disk[manifest[u].path] = manifest[u].sha
    BY DEF ResumeMakesWhole
  <2>1. /\ running /\ phase = "done" /\ ~opts.dry_run /\ ~StopRequested /\ stats["failed"] = 0
        /\ IInv /\ Filed /\ Calmly /\ Resumes
    BY <1>1 DEF Complete, Finished, CloneIInv, HistoryFiled, Calm, Resumes
  <2>2. Settled = seen /\ seen \subseteq Urls /\ \A w \in Workers : stage[w] = "idle"
    BY <2>1, AllSettled, AheadSeen DEF Filed, Over
  <2>3. Found = seen
    <3>1. \A w \in Workers : links[w] = <<>>
      BY <2>1, <2>2 DEF Calmly, Orderly
    <3>2. \A w \in Workers : DOMAIN links[w] = {}
      BY <3>1
    <3>3. QED
      BY <3>2 DEF Found, LinkUrls
  <2>4. \A v \in seen : Dealt(v) /\ Restored(v)
    BY <2>1, <2>2 DEF Calmly
  <2>5. ASSUME NEW v \in seen PROVE Refs(v) \subseteq seen
    <3>1. Barred(v) \/ Followed(v)
      BY <2>1, <2>4 DEF Dealt
    <3>2. CASE TypeOf[v] # "html" \/ Barred(v)
      BY <3>2 DEF Refs
    <3>3. CASE TypeOf[v] = "html" /\ Followed(v)
      <4>1. v \in Urls /\ Done(v)
        BY <2>2, <3>3 DEF Followed
      <4>2. manifest[v].kind = "html"
        BY <1>1, <3>3, <4>1 DEF Steady, Placed, PlacedEntry, KindsOf, Done
      <4>3. raw[v] # None
        BY <4>1, <4>2 DEF NeedsRewriting
      <4>4. QED
        BY <2>3, <3>3, <4>3 DEF Followed
    <3>4. QED
      BY <3>1, <3>2, <3>3
  <2>6. Closed(seen)
    BY <2>1, <2>5 DEF Closed, Calmly
  <2>7. u \in seen
    BY <2>1, <2>2, <2>6 DEF Calmly, Reached
  <2>8. Waiting = {}
    BY <2>1 DEF Filed, PhasesEnd, Waiting
  <2>9. KeptFor(u)
    BY <2>1, <2>4, <2>7 DEF Restored
  <2>10. QED
    BY <2>8, <2>9 DEF KeptFor, Waits
<1>2. QED
  BY <1>1, CalmInvariance, PTL
=============================================================================
