---------------------------- MODULE CrawlerClaims ---------------------------
(***************************************************************************)
(* What the documentation and the comments of surl say of one run, stated  *)
(* of Crawler.  Each of these fails in some run of the model: see the      *)
(* findings in README.md.                                                  *)
(***************************************************************************)
EXTENDS Crawler

\* docs/architecture.md, Error handling: "A failed resource is recorded in the
\* manifest as failed", and "the process exits 3 when anything failed".  When a
\* file of the mirror was not written, the statistics that decide the exit code
\* count a failure.
FailuresAreReported ==
  phase = "done" /\ ~opts.dry_run /\ stats["failed"] = 0 =>
    \A u \in Urls : manifest[u] # None /\ manifest[u].state = "done" =>
      disk[manifest[u].path] # None

\* The URLs at most n links away from the start, on pages that are delivered.
Within[n \in 0 .. MaxDepth] ==
  IF n = 0 THEN {StartUrl}
  ELSE Within[n - 1] \cup
       UNION {LET found == Links[<<u, site[u], FinalOf[u]>>] IN
              {found[i].url : i \in {k \in DOMAIN found : found[k].role = "navigation"}} :
              u \in {v \in Within[n - 1] : Replies[v] = {"ok"}}}

\* README.md, Crawl shape: --max-depth is the "Maximum link depth when
\* recursing".  No page within that distance of the start is left out.
PagesWithinDepth ==
  phase = "done" /\ ~StopRequested /\ opts.recursive /\ ~opts.respect_robots
      /\ ~opts.same_origin =>
    \A u \in Within[opts.max_depth] \ (Filtered \cup Outside) :
      Replies[u] = {"ok"} => manifest[u] # None /\ manifest[u].state = "done"
=============================================================================
