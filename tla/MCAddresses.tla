---------------------------- MODULE MCAddresses ----------------------------
(***************************************************************************)
(* A site of a few documents for Addresses, and the pieces of which        *)
(* references are made.  The limits of MCAddresses.cfg are so small that   *)
(* three of the pieces make a name that is cut; the second document is in  *)
(* a directory that is too long for the beginning of a path, and the third *)
(* has a path that is too long.                                            *)
(***************************************************************************)
EXTENDS Addresses, MCUrls

SomePrimary == <<"https", ":", "/", "/", "h", "/">>
SomeDocuments ==
  {SomePrimary,
   SomePrimary \o <<"b", "b", "b", "b", "b", "b", "b", "/", "b", ".", "html", "?", "q">>,
   SomePrimary \o <<"b", "b", "a", "/", "a", "a", "b", "/", "b", "b", "b", "/", "b", "b", "b", "a">>,
   <<"http", ":", "/", "/", "u", "@", "h", ":", "81", "/", "a", "/", "a">>,
   <<"http", ":", "/", "/", "[", ":", ":", "a", "]", ":", "81", "/", "a">>}

SomePieces ==
  {<<"a">>, <<"b", "b", "b">>, <<"/">>, <<".">>, <<".", ".">>, <<".", "html">>, <<"?">>, <<"#">>,
   <<" ">>, <<"%2E">>, <<"%2F">>, <<"http", ":">>, <<"/", "/", "h", ":", "81", "/", "a">>}
SomeKinds == {"html", "manifest"}

\* What the theorems assume holds here; of the hashes, for the queries of two characters.
ShortQueries == {None} \cup UNION {[1 .. n -> Characters \cup {"/"}] : n \in 0 .. 2}
ASSUME Hypotheses ==
  HttpDocuments /\ EscapesSuffice /\ ReadAsWritten /\ PortsAreKept /\ HashesAreNames(ShortQueries)
=============================================================================
