----------------------------- MODULE MCRobotsTxt ----------------------------
(***************************************************************************)
(* Small robots.txt files for RobotsTxt: three agents, patterns with and   *)
(* without a star and an end anchor, and paths that tell them apart.       *)
(***************************************************************************)
EXTENDS RobotsTxt

SomePatterns ==
  {<<>>, <<"/">>, <<"/", "a">>, <<"/", "*", "a", "b", "$">>, <<"/", "*", "b">>}

SomePaths ==
  {<<"/">>, <<"/", "a">>, <<"/", "a", "a", "b">>, <<"/", "a", "b", "a">>}

SomeDelays == {-1, 2}
=============================================================================
