------------------------------- MODULE MCUrls -------------------------------
(***************************************************************************)
(* Schemes, ports, escapes and names for the models of URLs and pages.     *)
(***************************************************************************)
EXTENDS Integers, TLC

SomeSchemes == {"http", "https", "mailto"}
SomeLetters == SomeSchemes \cup {"a", "b", "d", "h", "p", "q", "u", "x", "html", "index", "con"}
SomePorts == ("0" :> 0 @@ "80" :> 80 @@ "81" :> 81)
SomeDefaults == ("http" :> 80 @@ "https" :> 443 @@ "mailto" :> 0)
PortWord(port) == ToString(port)

\* An escape that is left as it is counts as one character, too.
SomeUnescaped ==
  ("%2F" :> "/" @@ "%252F" :> "%2F" @@ "%2E" :> "." @@ "%252E" :> "%2E" @@ "%20" :> " "
   @@ "%23" :> "#" @@ "%3A" :> ":" @@ "%29" :> ")" @@ "%2C" :> ",")
SomeReserved == {<<"con">>, <<"a", "a">>}
HashWord(query) == ToString(query)
=============================================================================
