------------------------------ MODULE MCCrawler -----------------------------
(***************************************************************************)
(* A small site for Crawler:                                               *)
(*                                                                         *)
(*   root        links to page, shows img, needs lib                       *)
(*   page        links to root and deep, shows img                         *)
(*   deep        (two links away) links to root, shows img                 *)
(*   img, lib    live on another origin                                    *)
(*                                                                         *)
(* and the option records the runs use.                                    *)
(***************************************************************************)
EXTENDS CrawlerClaims

CONSTANTS root, page, deep, img, lib, home, elsewhere, v1

MCUrls == {root, page, deep, img, lib}
MCOrigins == {home, elsewhere}
MCVersions == {v1}
MCOriginOf == [u \in MCUrls |-> IF u \in {img, lib} THEN elsewhere ELSE home]
MCTypeOf == [u \in MCUrls |-> CASE u \in {img, lib} -> "asset" [] u = deep -> "other" [] OTHER -> "html"]
MCPathOf == [uk \in MCUrls \X Kinds |-> uk]
MCPaths == MCUrls \X Kinds
MCFinalOf == [u \in MCUrls |-> u]

\* A rewritten document is larger than anything that is downloaded.
MCSizeOf(body) ==
  CASE body = None      -> 0
    [] body.base # None -> 8
    [] body.of = root   -> 1
    [] OTHER            -> 2

Nav(u) == [url |-> u, role |-> "navigation"]
Asset(u) == [url |-> u, role |-> "asset"]

LinksFrom(u) ==
  CASE u = root -> <<Nav(page), Asset(img), Asset(lib)>>
    [] u = page -> <<Nav(root), Nav(deep), Asset(img)>>
    [] u = deep -> <<Nav(root), Asset(img)>>
    [] OTHER    -> <<>>

MCLinks == [uvb \in MCUrls \X MCVersions \X MCUrls |-> LinksFrom(uvb[1])]

\* surl mirror, the options that matter here at their defaults.
Mirror ==
  [recursive |-> TRUE, max_depth |-> 2, same_origin |-> TRUE,
   download_assets |-> TRUE, external_assets |-> TRUE,
   respect_robots |-> TRUE, list_only |-> FALSE, dry_run |-> FALSE,
   resume |-> FALSE, update_mode |-> FALSE, force |-> FALSE,
   rewrite_links |-> TRUE, retries |-> 1, max_files |-> 10,
   max_total_size |-> 100, max_file_size |-> 10]

MCReplies ==
  [u \in MCUrls |-> CASE u = page -> {"ok", "busy", "error"}
                      [] u = deep -> {"ok", "missing"}
                      [] OTHER    -> {"ok"}]
MCRobotsReplies == [o \in MCOrigins |-> {"rules", "allow_all"}]

\* Budgets that the site exceeds, in files and in bytes, alone and together.
Tight ==
  {[Mirror EXCEPT !.max_files = 1],
   [Mirror EXCEPT !.max_total_size = 2],
   [Mirror EXCEPT !.max_files = 2, !.max_total_size = 2]}

\* surl clone of one page without its image, and two runs that store nothing.
Other ==
  {[Mirror EXCEPT !.recursive = FALSE, !.same_origin = FALSE, !.retries = 0,
                  !.max_file_size = 1],
   [Mirror EXCEPT !.dry_run = TRUE, !.respect_robots = FALSE],
   [Mirror EXCEPT !.list_only = TRUE, !.dry_run = TRUE]}

\* Runs that continue where an earlier one left off: one of them with a smaller
\* --max-file-size, and a budget that what it takes over exceeds.
Continuing ==
  {[Mirror EXCEPT !.resume = TRUE, !.retries = 0],
   [Mirror EXCEPT !.resume = TRUE, !.retries = 0, !.respect_robots = FALSE,
                  !.max_total_size = 6, !.max_file_size = 1],
   [Mirror EXCEPT !.update_mode = TRUE, !.respect_robots = FALSE]}

Whole == {Mirror} \cup Tight \cup Other \cup Continuing

\* An earlier run in which page failed: it never came to know of deep.
Stored(u, sum) ==
  [state |-> "done", path |-> MCPathOf[<<u, MCTypeOf[u]>>], sha |-> sum,
   tag |-> IF u \in Validated THEN v1 ELSE None, kind |-> MCTypeOf[u]]

Fetched(u) == [of |-> u, ver |-> v1, base |-> None, local |-> {}]
Finished(u) == [Fetched(u) EXCEPT !.base = u, !.local = {MCPathOf[<<img, "asset">>]}]

Partial ==
  {[manifest |-> [u \in MCUrls |->
      CASE u = root -> Stored(root, Finished(root))
        [] u = img  -> Stored(img, Fetched(img))
        [] u = page -> Blank("failed")
        [] u = lib  -> Blank("skipped")
        [] OTHER    -> None],
    disk |-> [p \in MCPaths |->
      CASE p = MCPathOf[<<root, "html">>] -> Finished(root)
        [] p = MCPathOf[<<img, "asset">>] -> Fetched(img)
        [] OTHER -> None],
    raw |-> [u \in MCUrls |-> IF u = root THEN Fetched(root) ELSE None]]}

\* This site is one of those that the theorems about the mirror are about.
ASSUME MirrorTheoremsApply == PlacesApart /\ SoundLeftovers

\* The records for the claims of CrawlerClaims.
Plain == {Mirror}
AllOk == [u \in MCUrls |-> {"ok"}]
=============================================================================
