------------------------------- MODULE MCClone ------------------------------
(***************************************************************************)
(* A site of three resources for Clone:                                    *)
(*                                                                         *)
(*   root   (served from /home, where a request for it is redirected)      *)
(*          links to page in version 1, shows img                          *)
(*   page   links to root, shows img                                       *)
(*   img                                                                   *)
(*                                                                         *)
(* root and img have validators, page has none.                            *)
(***************************************************************************)
EXTENDS Clone

CONSTANTS root, page, img, home

MCUrls == {root, page, img}
MCOriginOf == [u \in MCUrls |-> home]
MCTypeOf == [u \in MCUrls |-> IF u = img THEN "asset" ELSE "html"]
MCPathOf == [uk \in MCUrls \X Kinds |-> uk[1]]
MCFinalOf == [u \in MCUrls |-> u]
MCRobotsReplies == [o \in {home} |-> {"rules"}]
MCSizeOf(body) == IF body = None THEN 0 ELSE 1

\* This site is one of those that the theorems about the mirror are about.
ASSUME MirrorTheoremsApply == PlacesApart /\ KindsApart /\ Unlimited /\ Steady

Nav(u) == [url |-> u, role |-> "navigation"]
Asset(u) == [url |-> u, role |-> "asset"]

LinksFrom(u, v) ==
  CASE u = root -> IF v = 1 THEN <<Nav(page), Asset(img)>> ELSE <<Asset(img)>>
    [] u = page -> <<Nav(root), Asset(img)>>
    [] OTHER    -> <<>>

MCLinks == [uvb \in MCUrls \X Versions \X MCUrls |-> LinksFrom(uvb[1], uvb[2])]

\* A request for root ends at page, which is then the base of what arrives.
Redirected == [u \in MCUrls |-> IF u = root THEN page ELSE u]

AllOk == [u \in MCUrls |-> {"ok"}]
PageMayFail == [u \in MCUrls |-> IF u = page THEN {"ok", "missing", "error"} ELSE {"ok"}]

Mirror ==
  [recursive |-> TRUE, max_depth |-> 2, same_origin |-> TRUE,
   download_assets |-> TRUE, external_assets |-> TRUE,
   respect_robots |-> FALSE, list_only |-> FALSE, dry_run |-> FALSE,
   resume |-> FALSE, update_mode |-> FALSE, force |-> FALSE,
   rewrite_links |-> TRUE, retries |-> 0, max_files |-> 10,
   max_total_size |-> 100, max_file_size |-> 0]

Resume == [Mirror EXCEPT !.resume = TRUE]
Update == [Mirror EXCEPT !.update_mode = TRUE]
Force == [Mirror EXCEPT !.force = TRUE]
DryUpdate == [Update EXCEPT !.dry_run = TRUE]

Modes == {Mirror, Resume, Update, Force, DryUpdate}
UpdateOnly == {Mirror, Update}
Resuming == {Mirror, Resume}
=============================================================================
