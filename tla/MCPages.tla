------------------------------- MODULE MCPages ------------------------------
(***************************************************************************)
(* A page of a site for Pages, and the elements that its author uses.      *)
(***************************************************************************)
EXTENDS Pages, MCUrls

SomeLowerCase == ("SCRIPT" :> "script" @@ "IMG" :> "img" @@ "SRC" :> "src" @@ "URL" :> "url")
SomeEntities ==
  (<<"amp">> :> "&" @@ <<"quot">> :> "\"" @@ <<"#", "39">> :> "'" @@ <<"lt">> :> "<" @@ <<"gt">> :> ">")

SomeImageKeys == {<<"og:image">>}

Site == ParseUrl(<<"https", ":", "/", "/", "h", "/">>)
SomeDocument == ParseUrl(<<"https", ":", "/", "/", "h", "/", "d", "/", "p">>)
SomePath == PathFor(SomeDocument, Site, "html")
At1(path) == [Site EXCEPT !.path = path]
SomeMirrored ==
  LET urls == {At1(<<"/", "d", "/", "a">>), At1(<<"/", "e", "/", "f", "/", "a">>), At1(<<"/", "b">>),
               [At1(<<"/", "b">>) EXCEPT !.query = <<"&", "lt", ";">>],
               At1(<<"/", "%2E", "%23", ".">>), At1(<<"/", "%29">>), At1(<<"/", "%2C">>)}
  IN [u \in urls |-> PathFor(u, Site, "html")]

-----------------------------------------------------------------------------
(* Elements.                                                               *)

Is(text, refs) == [text |-> text, refs |-> refs, base |-> None]
Asset(text) == [text |-> text, role |-> "Asset"]
Navigation(text) == [text |-> text, role |-> "Navigation"]
Quoted(q, text) == <<q>> \o text \o <<q>>

\* References as they are meant, and as they are written in an attribute.
Refs ==
  (<<"a">> :> <<"a">>
   @@ <<"/", "b", "?", "&", "lt", ";", "#", "a", "'">> :>
        <<"/", "b", "?", "&", "amp", ";", "lt", ";", "#", "a", "&", "#", "39", ";">>
   @@ <<"#", "a">> :> <<"#", "a">>
   @@ <<"mailto", ":", "a">> :> <<"mailto", ":", "a">>
   @@ <<"/", "/", "u", "?", "&", "lt", ";">> :> <<"/", "/", "u", "?", "&", "amp", ";", "lt", ";">>
   @@ <<"/", "%2E", "%23", ".">> :> <<"/", "%2E", "%23", ".">>)

Comment == <<"<", "!", "--", " ", "<", "a", " ", "href", "=", "a", ">", "--", ">">>
Decoy == <<"<", "a", " ", "href", "=", "'", "a", "'", ">">>

Links ==
  UNION {{Is(<<"<", "a", " ", "href", "=">> \o Quoted("\"", Refs[u]) \o <<">">>, <<Navigation(u)>>),
          Is(<<"<", "IMG", " ", "SRC", " ", "=">> \o Refs[u] \o <<" ", "/", ">">>, <<Asset(u)>>),
          Is(<<"<", "p", " ", "title", "=">> \o Quoted("\"", Decoy) \o <<" ", "style", "=">>
               \o Quoted("'", <<"url", "(">> \o Refs[u] \o <<")">>) \o <<">">>, <<Asset(u)>>),
          Is(<<"<", "style", ">", "/*", "url", "(", "a", ")", "*/", "@import", " ">> \o Quoted("\"", u)
               \o <<";", "URL", "(", " ">> \o Quoted("\"", u) \o <<")", "<", "/", "style", ">">>,
             <<Asset(u), Asset(u)>>),
          Is(<<"<", "meta", " ", "http-equiv", "=", "refresh", " ", "content", "=">>
               \o Quoted("\"", <<"0", ";", "url", "=">> \o Refs[u]) \o <<">">>, <<Navigation(u)>>),
          Is(<<"<", "source", " ", "srcset", "=">>
               \o Quoted("\"", Refs[u] \o <<" ", "2x", ",", "b">>) \o <<">">>,
             <<Asset(u), Asset(<<"b">>)>>)} : u \in DOMAIN Refs}

Others ==
  {Is(Comment, <<>>),
   Is(<<"<", "!", "doctype", ">", "<", " ">>, <<>>),
   Is(<<"<", "SCRIPT", ">">> \o Decoy \o <<"<", "/", "SCRIPT", ">">>, <<>>),
   Is(<<"<", "title", ">">>, <<>>),
   Is(<<"<", "script", " ", "src", "=", "a", " ", "/", ">">>, <<Asset(<<"a">>)>>),
   Is(<<"<", "iframe", " ", "src", "=", "\"", "a", "\"", ">">> \o Decoy \o <<"<", "/", "iframe", ">">>,
      <<Navigation(<<"a">>)>>),
   Is(<<"<", "link", " ", "href", "=", "a", " ", "rel", "=", "\"", "x", " ", "stylesheet", "\"", ">">>,
      <<Asset(<<"a">>)>>),
   Is(<<"<", "link", " ", "rel", "=", "next", " ", "href", "=", "a", ">">>, <<Navigation(<<"a">>)>>),
   Is(<<"<", "meta", " ", "name", "=", "og:image", " ", "content", "=", "a", ">">>, <<Asset(<<"a">>)>>),
   [text |-> <<"<", "base", " ", "href", "=", "'", "/", "e", "/", "f", "/", "'", ">">>, refs |-> <<>>,
    base |-> <<"/", "e", "/", "f", "/">>],
   [text |-> <<"<", "base", " ", "href", "=", "mailto", ":", "a", ">">>, refs |-> <<>>,
    base |-> <<"mailto", ":", "a">>]}

\* Names that mean something where they are put.
Parenthesis == <<"/", "%29">>
Comma == <<"/", "%2C">>
Delicate ==
  {Is(<<"<", "style", ">", "url", "(">> \o Parenthesis \o <<")", "<", "/", "style", ">">>,
      <<Asset(Parenthesis)>>),
   Is(<<"<", "img", " ", "srcset", "=", "\"">> \o Comma \o <<" ", "2x", "\"", ">">>, <<Asset(Comma)>>)}

SomeElements == Links \cup Others
=============================================================================
