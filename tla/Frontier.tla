------------------------------ MODULE Frontier ------------------------------
(***************************************************************************)
(* What the crawl queue promises, without queue, lock or threads: every    *)
(* key that is ever discovered is worked on exactly once, and the crawl is *)
(* declared over only when nothing is left to do.                          *)
(*                                                                         *)
(* A key is a URL without its fragment.  WorkQueue implements this module. *)
(***************************************************************************)
EXTENDS FiniteSets

CONSTANTS
  Keys,      \* the URLs that may be discovered
  StartKey   \* the URL the crawl is started from

VARIABLES
  open,      \* discovered, nobody works on it yet
  working,   \* being worked on
  retired,   \* worked on, for good
  closed     \* has the crawl been declared over?

vars == <<open, working, retired, closed>>

TypeOK ==
  /\ open \subseteq Keys
  /\ working \subseteq Keys
  /\ retired \subseteq Keys
  /\ closed \in BOOLEAN

Discovered == open \cup working \cup retired

Init ==
  /\ open = {StartKey}
  /\ working = {}
  /\ retired = {}
  /\ closed = FALSE

Take(k) ==
  /\ k \in open
  /\ open' = open \ {k}
  /\ working' = working \cup {k}
  /\ UNCHANGED <<retired, closed>>

\* Only somebody at work discovers anything, and only what is new counts.
Discover(k) ==
  /\ working # {}
  /\ k \in Keys \ Discovered
  /\ open' = open \cup {k}
  /\ UNCHANGED <<working, retired, closed>>

Retire(k) ==
  /\ k \in working
  /\ working' = working \ {k}
  /\ retired' = retired \cup {k}
  /\ UNCHANGED <<open, closed>>

Close ==
  /\ open = {}
  /\ working = {}
  /\ closed' = TRUE
  /\ UNCHANGED <<open, working, retired>>

Next ==
  \/ \E k \in Keys : Take(k) \/ Discover(k) \/ Retire(k)
  \/ Close

Spec == Init /\ [][Next]_vars

FairSpec ==
  /\ Spec
  /\ \A k \in Keys : WF_vars(Take(k)) /\ WF_vars(Retire(k))
  /\ WF_vars(Close)
=============================================================================
