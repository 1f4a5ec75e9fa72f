-------------------------------- MODULE Url --------------------------------
(***************************************************************************)
(* URLs (url.cpp): parsing a text, normalising, resolving a reference      *)
(* against a base, writing a URL down again.                               *)
(*                                                                         *)
(* A text is a sequence of characters; a word that no rule looks into (a   *)
(* scheme, a name, a number) counts as one character.  Every letter is in  *)
(* lower case.  A query or fragment that a URL does not have is None.      *)
(*                                                                         *)
(* An invalid URL, or a reference that resolves to none, is None; so is    *)
(* one of a scheme that is not in Schemes, which is never fetched either.  *)
(***************************************************************************)
EXTENDS Integers, Sequences, FiniteSets, SequencesExt

CONSTANTS
  Schemes,      \* words that may be a scheme
  Letters,      \* words that are letters, as schemes are
  Ports,        \* a function from the words that are numbers to their value
  DefaultPort,  \* a function from Schemes to their port, 0 for none
  ShowPort(_), \* the word for a number
  None

ASSUME UrlAssumption ==
  /\ {"http", "https"} \subseteq Schemes /\ Schemes \subseteq Letters
  /\ DefaultPort \in [Schemes -> Nat]
  /\ \A word \in DOMAIN Ports : Ports[word] \in Nat
  /\ "0" \in DOMAIN Ports

-----------------------------------------------------------------------------
(* Texts.                                                                  *)

\* Where a character is found first, and last; 0 when it is not there.
Find(text, c) == SelectInSeq(text, LAMBDA x : x = c)
RFind(text, c) == SelectLastInSeq(text, LAMBDA x : x = c)

\* Up to a position, and from one on.
Before(text, i) == SubSeq(text, 1, i - 1)
From(text, i) == SubSeq(text, i, Len(text))

\* The part in front of the first c, and the part behind it: None without a c.
Head1(text, c) == IF Find(text, c) = 0 THEN text ELSE Before(text, Find(text, c))
Rest1(text, c) == IF Find(text, c) = 0 THEN None ELSE From(text, Find(text, c) + 1)

StartsWith(text, prefix) == IsPrefix(prefix, text)

Space == " "

\* Without the spaces at both ends.
Trim(text) ==
  LET solid == {i \in DOMAIN text : text[i] # Space}
  IN IF solid = {} THEN <<>>
     ELSE SubSeq(text, CHOOSE i \in solid : \A j \in solid : i <= j,
                       CHOOSE i \in solid : \A j \in solid : i >= j)

\* strip_url_whitespace(): line breaks go anywhere.
StripWhitespace(raw) ==
  Trim(FlattenSeq([i \in DOMAIN raw |-> IF raw[i] = "nl" THEN <<>> ELSE <<raw[i]>>]))

\* find_scheme_end(): the ':' behind a letter, and letters, digits, '+', '-' and '.'.
SchemeEnd(text) ==
  LET colon == Find(text, ":")
  IN IF /\ colon > 1 /\ text[1] \in Letters
        /\ \A i \in 2 .. colon - 1 : text[i] \in Letters \cup DOMAIN Ports \cup {"+", "-", "."}
     THEN colon ELSE 0

-----------------------------------------------------------------------------
(* Paths.                                                                  *)

\* split() without the empty pieces: what stands between the separators.  A character
\* begins a piece or goes on with the last one.
Split(text, separator) ==
  LET pieces[n \in 0 .. Len(text)] ==
        IF n = 0 THEN <<>>
        ELSE LET before == pieces[n - 1]
             IN IF text[n] = separator THEN before
                ELSE IF n = 1 \/ text[n - 1] = separator THEN Append(before, <<text[n]>>)
                ELSE Append(Front(before), Append(Last(before), text[n]))
  IN pieces[Len(text)]

Segments(path) == Split(path, "/")

\* The segments with slashes in between.
Join(segments) ==
  LET slashed == FlattenSeq([i \in DOMAIN segments |-> <<"/">> \o segments[i]])
  IN From(slashed, 2)

Dot == <<".">>
DotDot == <<".", ".">>

\* Mutant of Entered: ".." at the root is kept.
EnteredKeepsClimb(stack, segment) ==
  CASE segment = DotDot /\ stack # <<>> -> Front(stack)
    [] segment = Dot                    -> stack
    [] OTHER                            -> Append(stack, segment)

\* Where one more segment leads.
Entered(stack, segment) ==
  CASE segment = DotDot -> IF stack = <<>> THEN stack ELSE Front(stack)
    [] segment = Dot    -> stack
    [] OTHER            -> Append(stack, segment)

\* Where all of them lead.
Walked(segments) ==
  LET stack[n \in 0 .. Len(segments)] ==
        IF n = 0 THEN <<>> ELSE Entered(stack[n - 1], segments[n])
  IN stack[Len(segments)]

\* An absolute path of these segments.
Absolute(segments, directory) ==
  <<"/">> \o Join(segments) \o (IF directory /\ segments # <<>> THEN <<"/">> ELSE <<>>)

\* remove_dot_segments() of an absolute path.  Empty segments go as well.
RemoveDotSegments(path) ==
  Absolute(Walked(Segments(path)),
           Last(path) = "/" \/ Last(Segments(path)) \in {Dot, DotDot})

-----------------------------------------------------------------------------
(* URLs.                                                                   *)

IsHttp(url) == url.scheme \in {"http", "https"}

\* The port that a text stands for, or None.
PortIn(text) == IF Len(text) = 1 /\ text[1] \in DOMAIN Ports THEN Ports[text[1]] ELSE None

\* strtoul(): the port that a text begins with, cut to sixteen bits; 0 for none.  (The
\* spaces and the sign that it also takes are left out.)
LeadingPort(text) ==
  IF text # <<>> /\ Head(text) \in DOMAIN Ports THEN Ports[Head(text)] % 65536 ELSE 0

\* "[::1]:80": the host keeps its colons.
Bracketed(host_port) ==
  LET close == Find(host_port, "]")
  IN IF close <= 2 \/ (close < Len(host_port) /\ host_port[close + 1] # ":") THEN None
     ELSE [host |-> SubSeq(host_port, 1, close), port |-> LeadingPort(From(host_port, close + 2))]

\* Host and port (0: none given).  A port that is too large is refused, and one that is no
\* number is left in the host.
HostPort(host_port) ==
  LET colon == RFind(host_port, ":")
      port == PortIn(From(host_port, colon + 1))
  IN IF StartsWith(host_port, <<"[">>) THEN Bracketed(host_port)
     ELSE IF colon = 0 \/ (port = None /\ colon < Len(host_port))
     THEN [host |-> host_port, port |-> 0]
     ELSE IF port = None THEN [host |-> Before(host_port, colon), port |-> 0]
     ELSE IF port > 65535 THEN None
     ELSE [host |-> Before(host_port, colon), port |-> port]

\* split_authority(), after "//": user and password stand in front of an '@'.
UserIn(text) == IF RFind(text, "@") = 0 THEN <<>> ELSE Before(text, RFind(text, "@"))
Authority(text) == HostPort(From(text, RFind(text, "@") + 1))

\* normalize_url().
Normalize(url) ==
  [url EXCEPT
     !.port = IF @ = DefaultPort[url.scheme] THEN 0 ELSE @,
     !.path = IF ~IsHttp(url) THEN @
              ELSE RemoveDotSegments(IF StartsWith(@, <<"/">>) THEN @ ELSE <<"/">> \o @),
     !.query = IF @ = <<>> THEN None ELSE @]

\* The end of parse_url() and of resolve_url().
Accepted(url) == IF IsHttp(url) /\ url.host = <<>> THEN None ELSE Normalize(url)

\* What follows "//": an authority, and a path if there is a slash.
Hosted(url, userinfo, authority) ==
  IF authority = None THEN None
  ELSE Accepted([url EXCEPT !.userinfo = userinfo, !.host = authority.host, !.port = authority.port])

Located(url, text, otherwise) ==
  Hosted([url EXCEPT !.path = IF Find(text, "/") = 0 THEN otherwise ELSE From(text, Find(text, "/"))],
         UserIn(Head1(text, "/")), Authority(Head1(text, "/")))

\* The parts of a text behind its scheme.
PathPart(text) == Head1(Head1(text, "#"), "?")
QueryPart(text) == Rest1(Head1(text, "#"), "?")
FragmentPart(text) == Rest1(text, "#")

\* What a text means behind its scheme.  Without "//" it is an opaque path.
Absolutely(url, body) ==
  IF StartsWith(body, <<"/", "/">>) THEN Located(url, From(body, 3), <<>>)
  ELSE Accepted([url EXCEPT !.path = body])

ParseText(text) ==
  LET rest == From(text, SchemeEnd(text) + 1)
  IN IF SchemeEnd(text) # 2 \/ text[1] \notin Schemes THEN None
     ELSE Absolutely([scheme |-> text[1], userinfo |-> <<>>, host |-> <<>>, port |-> 0, path |-> <<>>,
                      query |-> QueryPart(rest), fragment |-> FragmentPart(rest)], PathPart(rest))

\* parse_url().
ParseUrl(raw) == ParseText(StripWhitespace(raw))

\* A path is put in place of what follows the last slash of the base.
Merge(base, rest) ==
  CASE rest = <<>>                -> base.path
    [] StartsWith(rest, <<"/">>)  -> rest
    [] OTHER                      -> Before(base.path, RFind(base.path, "/") + 1) \o rest

\* What a reference without a scheme means: the rest is that of the base.
Relatively(base, text, rest, query) ==
  LET url == [base EXCEPT !.query = query, !.fragment = FragmentPart(text)]
  IN IF StartsWith(text, <<"/", "/">>) THEN Located(url, From(rest, 3), <<"/">>)
     ELSE Accepted([url EXCEPT !.path = Merge(base, rest),
                               !.query = IF rest = <<>> /\ query = None THEN base.query ELSE query])

\* resolve_url().
ResolveText(base, text) ==
  IF SchemeEnd(text) # 0 THEN ParseText(text)
  ELSE Relatively(base, text, PathPart(text), QueryPart(text))

ResolveUrl(base, raw) == ResolveText(base, StripWhitespace(raw))

\* Mutant of ToText: no port is written for a scheme that has a default one.
ToTextWithoutPort(url) ==
  LET authority == (IF url.userinfo = <<>> THEN <<>> ELSE Append(url.userinfo, "@")) \o url.host
        \o (IF url.port = 0 \/ DefaultPort[url.scheme] # 0 THEN <<>> ELSE <<":", ShowPort(url.port)>>)
  IN <<url.scheme, ":">>
       \o (IF url.host = <<>> THEN <<>> ELSE <<"/", "/">> \o authority)
       \o url.path
       \o (IF url.query = None THEN <<>> ELSE <<"?">> \o url.query)
       \o (IF url.fragment = None THEN <<>> ELSE <<"#">> \o url.fragment)

\* to_string(): the port is left out when it is the default one.
ToText(url) ==
  LET authority == (IF url.userinfo = <<>> THEN <<>> ELSE Append(url.userinfo, "@")) \o url.host
        \o (IF url.port \in {0, DefaultPort[url.scheme]} THEN <<>> ELSE <<":", ShowPort(url.port)>>)
  IN <<url.scheme, ":">>
       \o (IF url.host = <<>> THEN <<>> ELSE <<"/", "/">> \o authority)
       \o url.path
       \o (IF url.query = None THEN <<>> ELSE <<"?">> \o url.query)
       \o (IF url.fragment = None THEN <<>> ELSE <<"#">> \o url.fragment)

\* A host without the brackets of an IPv6 address, which are written but not kept.
Bare(host) == IF StartsWith(host, <<"[">>) THEN SubSeq(host, 2, Len(host) - 1) ELSE host

\* same_origin_as().
SameOrigin(u, v) ==
  LET port(url) == IF url.port = 0 THEN DefaultPort[url.scheme] ELSE url.port
  IN u.scheme = v.scheme /\ Bare(u.host) = Bare(v.host) /\ port(u) = port(v)

\* is_non_fetchable_reference(), of a text whose scheme is none of those listed there.
IsAnchorOrEmpty(raw) ==
  LET text == StripWhitespace(raw) IN text = <<>> \/ text[1] = "#"
=============================================================================
