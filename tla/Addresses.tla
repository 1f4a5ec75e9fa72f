----------------------------- MODULE Addresses -----------------------------
(***************************************************************************)
(* The way of a reference: a document of a site refers to something, the   *)
(* reference is resolved, the URL it means is given a file, and the        *)
(* document gets a link to that file.                                      *)
(*                                                                         *)
(* The reference is put together from pieces of text, so that every        *)
(* reference of up to MaxPieces pieces is looked at.                       *)
(***************************************************************************)
EXTENDS PathMap

CONSTANTS
  Documents,    \* the texts of the URLs of the documents
  Primary,      \* that of the site that is mirrored
  Pieces, MaxPieces,
  Kinds

VARIABLES
  document,     \* the URL of the document
  reference,    \* what it refers to
  written       \* how many pieces that has

addressVars == <<document, reference, written>>

AddressInit ==
  /\ document \in {ParseUrl(text) : text \in Documents}
  /\ reference = <<>>
  /\ written = 0

Write(piece) ==
  /\ written < MaxPieces
  /\ reference' = reference \o piece
  /\ written' = written + 1
  /\ UNCHANGED document

AddressNext == \E piece \in Pieces : Write(piece)

AddressSpec == AddressInit /\ [][AddressNext]_addressVars

\* What documents and references are made of.
Characters == UNION {ToSet(text) : text \in Documents \cup Pieces \cup {Primary}}

\* The ports that a URL may have, and the words that the mapping adds to a name.
PortNumbers == {0} \cup {Ports[word] % 65536 : word \in DOMAIN Ports}
Words == {Underscore, "dot", "dotdot", "external", "long", "@", ".", "html", "css", "js", "webmanifest",
          "index"}

\* What the theorems assume: texts of characters, and documents that have been fetched;
HttpDocuments ==
  /\ \A text \in Documents \cup Pieces \cup {Primary} : text \in Seq(Characters)
  /\ \A text \in Documents \cup {Primary} : ParseUrl(text) # None /\ IsHttp(ParseUrl(text))

\* escapes that are none of the characters with a meaning of their own, one for each
\* character that a link cannot have as it is, an escape among them;
EscapesSuffice ==
  LET meant == {Unescaped[e] : e \in DOMAIN Unescaped}
      shown == {"http", "https"} \cup {ShowPort(port) : port \in PortNumbers}
  IN /\ DOMAIN Unescaped \cap (Spared \cup Forbidden \cup Words \cup shown \cup {"#", Space}) = {}
     /\ {"#", Space} \cup (Characters \cap DOMAIN Unescaped) \subseteq meant

\* hashes that are words a name may consist of, and no escapes;
HashIsName(hash) ==
  hash \notin Forbidden \cup Dropped \cup DOMAIN Unescaped /\ <<hash>> \notin Reserved
HashesAreNames(texts) == \A text \in texts : HashIsName(ShortHash(text))

\* and ports that are read as they are written, in words that are none of the characters
\* with a meaning of their own and no scheme.
ReadAsWritten ==
  /\ None \notin Nat \cup [host : Seq(Characters \cup {"/"}), port : Nat]
  /\ \A port \in PortNumbers \ {0} :
       ShowPort(port) \in DOMAIN Ports /\ Ports[ShowPort(port)] = port
  /\ DOMAIN Ports \cap {"http", "https", "/", "?", "#", "@", ":", "[", "]"} = {}

\* Ports are words that a name may have in it.
PortsAreKept ==
  \A port \in PortNumbers \ {0} : ShowPort(port) \notin Forbidden \cup Dropped \cup {Underscore}

-----------------------------------------------------------------------------
(* RFC 3986, section 5.2, as it is written there.                          *)

\* A turn of the loop of 5.2.4: what is left of the path, and what has come out.
RfcTurn(input, output) ==
  LET up == Before(output, RFind(output, "/"))
      slash == Find(Tail(input), "/")
      end == IF slash = 0 THEN Len(input) ELSE slash
  IN CASE input = <<>> -> <<input, output>>
       [] StartsWith(input, <<"/", ".", "/">>) -> <<From(input, 3), output>>
       [] input = <<"/", ".">> -> << <<"/">>, output>>
       [] StartsWith(input, <<"/", ".", ".", "/">>) -> <<From(input, 4), up>>
       [] input = <<"/", ".", ".">> -> << <<"/">>, up>>
       [] OTHER -> <<From(input, end + 1), output \o SubSeq(input, 1, end)>>

\* Each turn leaves less of the path.
RfcRemoveDots(path) ==
  LET turns[n \in 0 .. Len(path)] ==
        IF n = 0 THEN <<path, <<>>>>
        ELSE LET before == turns[n - 1] IN RfcTurn(before[1], before[2])
  IN turns[Len(path)][2]

\* The target of a reference without scheme and authority.
RfcPath(base, rest) ==
  CASE rest = <<>> -> base.path
    [] StartsWith(rest, <<"/">>) -> RfcRemoveDots(rest)
    [] OTHER -> RfcRemoveDots(Before(base.path, RFind(base.path, "/") + 1) \o rest)

-----------------------------------------------------------------------------
(* Properties.                                                             *)

\* What the reference means, and the URL that is fetched for it: none, or one.
Target == ResolveUrl(document, reference)
Fetched == {url \in {Target} : url # None /\ IsHttp(url)}

\* Slashes side by side, which remove_dot_segments() takes for one.
HasEmptySegment(path) == \E i \in 2 .. Len(path) : path[i] = "/" /\ path[i - 1] = "/"

\* A reference without a scheme or an authority means the URL that RFC 3986 gives it,
\* if there is no empty segment on the way; a query that is empty is none.
ResolvesAsRfc ==
  LET text == StripWhitespace(reference)
      rest == Head1(Head1(text, "#"), "?")
      query == Rest1(Head1(text, "#"), "?")
      inherits == rest = <<>> /\ query = None
  IN SchemeEnd(text) = 0 /\ ~StartsWith(text, <<"/", "/">>) /\ ~HasEmptySegment(rest) =>
       Target = [document EXCEPT !.path = RfcPath(document, rest),
                                 !.query = IF inherits THEN @
                                           ELSE IF query = <<>> THEN None ELSE query,
                                 !.fragment = Rest1(text, "#")]

\* The text that a URL is written as, in the manifest and in pages, is read as that URL,
\* unless it ends in a space or its host has a colon that is none of a port and not in
\* brackets.
TextIsUrl ==
  \A url \in Fetched : \A text \in {ToText(url)} :
    /\ StripWhitespace(text) = text
    /\ url.host[1] = "[" \/ \A i \in DOMAIN url.host : url.host[i] # ":"
    => ParseUrl(text) = url

Site == ParseUrl(Primary)

\* Every URL is stored below the output directory, whatever its path decodes to, under a
\* path that is not too long, in names that are safe; and if no more than a name has been
\* cut, the others are such that no file system shortens them.
StoredInside ==
  \A url \in Fetched, kind \in Kinds :
    \A full \in {FullPath(url, Site, kind)} : \A path \in {Shortened(full)} :
      /\ path # <<>> /\ Len(Join(path)) <= PathLimit
      /\ \A i \in DOMAIN path : SafeName(path[i])
      /\ path = full => \A i \in DOMAIN path : EndsWell(path[i])

\* SECURITY.md: the dots and spaces at the end of a name are removed.  They are, before a
\* name is cut.
NoDotsAtTheEnd ==
  \A url \in Fetched, kind \in Kinds :
    \A path \in {PathFor(url, Site, kind)} : \A i \in DOMAIN path : Last(path[i]) \notin Dropped

\* A browser's way from one file of the mirror along a link: the URL of the file, and what
\* the link means there.
UrlOf(path) ==
  [Site EXCEPT !.path = <<"/">> \o Join([i \in DOMAIN path |-> Encode(path[i])]),
               !.query = None, !.fragment = None]
Followed(from, link) == ResolveUrl(UrlOf(from), link)

\* The link that a document gets, resolved against where the document is stored, as a
\* browser does it, and asked for, is answered with the file the target is stored in.
LinkLeadsToFile ==
  \A url \in Fetched, kind \in Kinds :
    \A from \in {PathFor(document, Site, "html")}, to \in {PathFor(url, Site, kind)} :
      \A there \in {Followed(from, RelativeLink(from, to))} :
        /\ there.query = None /\ there.fragment = None
        /\ ServedPath(there.path) = to

\* A name that is stored as it is: not changed by sanitize_path_component(), not cut, and
\* none of those that the mirror itself gives.
PlainName(name) ==
  /\ Decode(name) = name /\ Sanitize(name) = name /\ Len(name) < NameLimit
  /\ \A i \in DOMAIN name : name[i] \notin {"@", "_", "index"}

PagePath(url) == FullPath(url, Site, "html")

\* Pages whose names are plain, whose own name does not already end in .html, and whose
\* path has no name that has been cut.  The directory of their origin is not that of the
\* paths that are too long.
Plain(url) ==
  /\ \A name \in ToSet(Segments(url.path)) : PlainName(name)
  /\ Last(url.path) # "/" => "html" \notin ToSet(Last(Segments(url.path)))
  /\ \A name \in ToSet(PagePath(url)) : Len(name) < NameLimit
  /\ ExternalDir(url)[2] # Long

\* A host whose name is kept as well, and is not taken for a scheme: https://http:81 has
\* the directory of http://81.
PlainOrigin(url) == PlainName(Bare(url.host)) /\ Bare(url.host) # <<"http">>

\* One page, as far as its file can tell: users make no difference, and queries only if
\* their hashes do.
SamePage(u, v) ==
  /\ SameOrigin(u, v) /\ u.path = v.path
  /\ u.query = None <=> v.query = None
  /\ u.query # None => ShortHash(u.query) = ShortHash(v.query)

\* Two paths that have one hash.
Clash(u, v) == PagePath(u) # PagePath(v) /\ ShortHash(Join(PagePath(u))) = ShortHash(Join(PagePath(v)))

\* Two pages with plain names, of one origin or of origins that are plain, are stored in one
\* file only if they are one page, or their paths have one hash.
PagesApart ==
  \A url \in Fetched :
    /\ Plain(document) /\ Plain(url) /\ ~Clash(document, url)
    /\ SameOrigin(document, url) \/ (PlainOrigin(document) /\ PlainOrigin(url))
    /\ PathFor(document, Site, "html") = PathFor(url, Site, "html")
    => SamePage(document, url)
=============================================================================
