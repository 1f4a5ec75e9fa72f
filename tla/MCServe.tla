------------------------------ MODULE MCServe -------------------------------
(***************************************************************************)
(* A directory with an index and a page for Serve, and the requests that   *)
(* its clients make.                                                       *)
(***************************************************************************)
EXTENDS Serve, MCUrls

Index == <<"index", ".", "html">>
SomeFiles == {<<Index>>, << <<"d">>, <<"p">> >>}
SomeDirs == {<<>>, << <<"d">> >>}

Is(pieces, status, body) == [pieces |-> pieces, answer |-> [status |-> status, body |-> body]]
End == <<"crlf", "crlf">>

\* A directory and its index; a name with an escaped slash; a directory without one; a way
\* out of the directory; no request line; and one that is too long.
SomeRequests ==
  {Is(<< <<"GET", " ", "/", "?", "q", "crlf">>, <<"crlf">> >>, 200, TRUE),
   Is(<< <<"HEAD", " ", "/", "d", "%2F", "p">> \o End >>, 200, FALSE),
   Is(<< <<"GET", " ", "/", "d">> \o End >>, 404, TRUE),
   Is(<< <<"GET", " ", "/", "%2E", "%2E">> \o End >>, 403, TRUE),
   Is(<< End >>, 400, TRUE),
   Is(<< <<"HEAD", " ">>, <<"/">> \o End >>, 200, FALSE),
   Is(<< <<"POST", " ", "/", "crlf">>, <<"a", "a", "a", "a">> >>, 405, TRUE)}

\* The theorem about AnsweredInFull applies to them.
ASSUME ServeTheoremApplies == WholeRequests
=============================================================================
