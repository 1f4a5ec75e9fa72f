------------------------------- MODULE MCDepth ------------------------------
(***************************************************************************)
(* A site for Crawler with two ways to one page:                           *)
(*                                                                         *)
(*   root -> near -> target                 two links                      *)
(*   root -> far -> middle -> target        three links                    *)
(*                                                                         *)
(* Whether target is within --max-depth 2 depends on who queues it first.  *)
(***************************************************************************)
EXTENDS CrawlerClaims

CONSTANTS root, near, far, middle, target, home, v1

MCUrls == {root, near, far, middle, target}
MCOriginOf == [u \in MCUrls |-> home]
MCTypeOf == [u \in MCUrls |-> "html"]
MCPaths == MCUrls
MCPathOf == [uk \in MCUrls \X Kinds |-> uk[1]]
MCFinalOf == [u \in MCUrls |-> u]
MCReplies == [u \in MCUrls |-> IF u = far THEN {"ok", "missing"} ELSE {"ok"}]
MCRobotsReplies == [o \in {home} |-> {"allow_all"}]
MCSizeOf(body) == IF body = None THEN 0 ELSE 1

Nav(u) == [url |-> u, role |-> "navigation"]

LinksFrom(u) ==
  CASE u = root   -> <<Nav(near), Nav(far)>>
    [] u = near   -> <<Nav(target), Nav(root)>>
    [] u = far    -> <<Nav(middle)>>
    [] u = middle -> <<Nav(target), Nav(near)>>
    [] OTHER      -> <<>>

MCLinks == [uvb \in MCUrls \X {v1} \X MCUrls |-> LinksFrom(uvb[1])]

\* surl mirror --max-depth n, for each n; rewriting or not makes no difference.
MCOptions ==
  {[recursive |-> TRUE, max_depth |-> n, same_origin |-> FALSE,
    download_assets |-> TRUE, external_assets |-> TRUE,
    respect_robots |-> FALSE, list_only |-> FALSE, dry_run |-> FALSE,
    resume |-> FALSE, update_mode |-> FALSE, force |-> FALSE,
    rewrite_links |-> TRUE, retries |-> 0, max_files |-> 10,
    max_total_size |-> 100, max_file_size |-> 0] : n \in 0 .. MaxDepth}
=============================================================================
