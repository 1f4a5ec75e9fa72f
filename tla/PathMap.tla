------------------------------ MODULE PathMap ------------------------------
(***************************************************************************)
(* Where a URL is stored below the output directory, and how a document    *)
(* there refers to another file (pathmap.cpp, sanitize_path_component()).  *)
(*                                                                         *)
(* A path is a sequence of components, a component one of characters as in *)
(* Url.  A length is counted in these characters, so that a word is as     *)
(* long as a letter.  The difference between capital and small letters is  *)
(* left out.                                                               *)
(***************************************************************************)
EXTENDS Url

CONSTANTS
  Unescaped,      \* a function from the escapes, each one character, to what they mean
  Reserved,       \* the names that Windows keeps for devices
  HtmlExtensions, \* the words html, htm, xhtml
  ShortHash(_),   \* a word for each text
  NameLimit,      \* how long a name may be: 180;
  CutExtension,   \* an extension that is kept when a name is cut: 16;
  ExtensionLimit, \* one that is told from the stem: 12;
  PathLimit,      \* a path: 200;
  PrefixLimit     \* and how much of a path that is too long is looked at: 120

Underscore == "_"

\* No device has a name that begins with "_", or one so long that a name is cut inside it.
\* A path that is cut short is short enough.
ASSUME PathMapAssumption ==
  /\ {NameLimit, CutExtension, ExtensionLimit, PathLimit, PrefixLimit} \subseteq Nat
  /\ 2 < PrefixLimit /\ PrefixLimit <= NameLimit
  /\ 2 + CutExtension < NameLimit /\ ExtensionLimit < NameLimit
  /\ PrefixLimit + ExtensionLimit + 5 <= PathLimit /\ NameLimit <= PathLimit
  /\ \A name \in Reserved :
       /\ name # <<>> /\ name[1] # Underscore
       /\ Len(name) < PrefixLimit /\ Len(name) + CutExtension < NameLimit

-----------------------------------------------------------------------------
(* Names.                                                                  *)

\* percent_decode() of a component.
Decode(component) ==
  [i \in DOMAIN component |->
     IF component[i] \in DOMAIN Unescaped THEN Unescaped[component[i]] ELSE component[i]]

\* percent_encode() with the characters that relative_link() spares.
Spared == {"!", "$", "(", ")", "*", "+", ",", ";", "=", ":", "@", "-", ".", "_", "~"}
Escaped == {Unescaped[e] : e \in DOMAIN Unescaped} \ Spared
Encode(component) ==
  [i \in DOMAIN component |->
     IF component[i] \in Escaped THEN CHOOSE e \in DOMAIN Unescaped : Unescaped[e] = component[i]
     ELSE component[i]]

\* "nl" stands for the control characters.
Forbidden == {"<", ">", ":", "\"", "/", "\\", "|", "?", "*", "nl"}
Dropped == {".", Space}   \* at the end of a name, by Windows

\* A name without its trailing dots and spaces.
Trimmed(name) ==
  LET kept == {i \in DOMAIN name : name[i] \notin Dropped}
  IN IF kept = {} THEN <<>> ELSE SubSeq(name, 1, CHOOSE i \in kept : \A j \in kept : i >= j)

\* Mutant of Named: ".." passes.
NamedKeepsDots(component) ==
  LET clean == [i \in DOMAIN component |-> IF component[i] \in Forbidden THEN Underscore ELSE component[i]]
      marked == IF Trimmed(clean) = clean THEN clean ELSE Append(Trimmed(clean), Underscore)
      named == IF Head1(marked, ".") \in Reserved THEN <<Underscore>> \o marked ELSE marked
  IN IF component = <<".", ".">> THEN component ELSE IF named = <<>> THEN <<Underscore>> ELSE named

\* A name that every file system takes, of any length.
Named(component) ==
  LET clean == [i \in DOMAIN component |-> IF component[i] \in Forbidden THEN Underscore ELSE component[i]]
      marked == IF Trimmed(clean) = clean THEN clean ELSE Append(Trimmed(clean), Underscore)
      named == IF Head1(marked, ".") \in Reserved THEN <<Underscore>> \o marked ELSE marked
  IN CASE clean = <<".">>      -> <<Underscore, "dot">>
       [] clean = <<".", ".">> -> <<Underscore, "dotdot">>
       [] OTHER                -> IF named = <<>> THEN <<Underscore>> ELSE named

\* The extension of a name, with its dot, if it is no longer than this.
Extension(name, limit) ==
  LET dot == RFind(name, ".")
  IN IF dot # 0 /\ Len(name) - dot + 1 <= limit THEN From(name, dot) ELSE <<>>

\* Mutant of Cut: the extension comes on top.
CutTooLate(name) ==
  IF Len(name) <= NameLimit THEN name
  ELSE SubSeq(name, 1, NameLimit) \o Extension(name, CutExtension)

\* A name that is too long keeps its beginning, and an extension that is short.
Cut(name) ==
  LET extension == Extension(name, CutExtension)
  IN IF Len(name) <= NameLimit THEN name
     ELSE SubSeq(name, 1, NameLimit - Len(extension)) \o extension

\* sanitize_path_component().
Sanitize(component) == Cut(Named(component))

\* A name that is no way up or down, no device and not too long.
SafeName(name) ==
  /\ name \notin {<<>>, Dot, DotDot}
  /\ \A i \in DOMAIN name : name[i] \notin Forbidden
  /\ Head1(name, ".") \notin Reserved
  /\ Len(name) <= NameLimit

\* Windows would not shorten it, unless it has been cut.
EndsWell(name) == Last(name) \in Dropped => Len(name) = NameLimit

-----------------------------------------------------------------------------
(* Paths.                                                                  *)

\* split_extension(): none that is long, and none if the name begins with it.
Ending(name) == IF RFind(name, ".") = 1 THEN <<>> ELSE Extension(name, ExtensionLimit)
Stem(name) == SubSeq(name, 1, Len(name) - Len(Ending(name)))

IsHtml(extension) == Len(extension) = 2 /\ extension[2] \in HtmlExtensions

\* Mutant of Leaf: the query makes no difference.
LeafIgnoresQuery(name, query, kind) ==
  Sanitize(IF kind = "html" /\ ~IsHtml(Ending(name)) THEN name \o <<".", "html">> ELSE name)

\* The file name: the query is hashed into its stem, a page ends in .html, and a style
\* sheet, a script or a manifest without an extension gets one.
Leaf(name, query, kind) ==
  LET hash == IF query \in {None, <<>>} THEN <<>> ELSE <<"@", ShortHash(query)>>
      none == Ending(name) = <<>>
      added == CASE kind = "html" /\ ~IsHtml(Ending(name)) -> <<".", "html">>
                 [] kind = "css" /\ none      -> <<".", "css">>
                 [] kind = "js" /\ none       -> <<".", "js">>
                 [] kind = "manifest" /\ none -> <<".", "webmanifest">>
                 [] OTHER                     -> <<>>
  IN Sanitize(Stem(name) \o hash \o Ending(name) \o added)

\* The directory of another origin.
ExternalDir(url) ==
  << <<"_", "external">>,
     Sanitize((IF url.scheme = "https" THEN <<>> ELSE <<url.scheme, "_">>) \o Bare(url.host)
                \o (IF url.port = 0 THEN <<>> ELSE <<"_", ShowPort(url.port)>>)) >>

\* The path of a URL, of any length.
FullPath(url, primary, kind) ==
  LET segments == Segments(url.path)
      names == (IF SameOrigin(url, primary) THEN <<>> ELSE ExternalDir(url))
                 \o [i \in DOMAIN segments |-> Sanitize(Decode(segments[i]))]
      directory == Last(url.path) = "/"
  IN Append(IF directory THEN names ELSE Front(names),
            Leaf(IF directory THEN <<"index", ".", "html">> ELSE Last(names), url.query, kind))

\* Mutant of Beginning: what is looked at may end inside a name.
BeginningInside(path) == Segments(SubSeq(Join(path), 1, PrefixLimit))

\* The directories that a path that is too long keeps: as many as are in front of the last
\* slash that is looked at, or a part of the first.
Beginning(path) ==
  LET whole == {n \in 1 .. Len(path) - 1 : Len(Join(SubSeq(path, 1, n))) < PrefixLimit}
  IN IF whole = {} THEN << SubSeq(path[1], 1, PrefixLimit) >> ELSE SubSeq(path, 1, Max(whole))

Long == <<"_", "long">>

\* Mutant of Shortened: the hash is that of the name alone.
ShortenedByName(path) ==
  IF Len(Join(path)) <= PathLimit THEN path
  ELSE Beginning(path) \o << Long, <<ShortHash(Last(path))>> \o Ending(Last(path)) >>

\* A path that is too long: the rest of it is hashed.
Shortened(path) ==
  IF Len(Join(path)) <= PathLimit THEN path
  ELSE Beginning(path) \o << Long, <<ShortHash(Join(path))>> \o Ending(Last(path)) >>

\* relative_path_for().
PathFor(url, primary, kind) == Shortened(FullPath(url, primary, kind))

-----------------------------------------------------------------------------
(* Links.                                                                  *)

\* The directories that the document and the other file share.
CommonDirs(from, to) ==
  CHOOSE n \in 0 .. Len(from) - 1 :
    /\ n < Len(to) /\ SubSeq(from, 1, n) = SubSeq(to, 1, n)
    /\ \A m \in 0 .. Len(from) - 1 : m < Len(to) /\ SubSeq(from, 1, m) = SubSeq(to, 1, m) => m <= n

\* Mutant of Climb: the name of the document counts as a directory.
ClimbFromName(from, to) == Len(from) - CommonDirs(from, to)

\* relative_link(): how many directories to climb, and what to go down.
Climb(from, to) == Len(from) - 1 - CommonDirs(from, to)
Descent(from, to) == SubSeq(to, CommonDirs(from, to) + 1, Len(to))

\* The same as the text of a link.
RelativeLink(from, to) ==
  LET down == Descent(from, to)
  IN Join([i \in 1 .. Climb(from, to) |-> DotDot] \o [i \in DOMAIN down |-> Encode(down[i])])

\* Where a link leads that climbs from the directory of a document and goes down again.
Follow(from, climb, descent) == SubSeq(from, 1, Len(from) - 1 - climb) \o descent

-----------------------------------------------------------------------------
(* Requests.                                                               *)

\* resolve_request_path() of the preview server: the file that is asked for, or None if
\* the target is refused.  (There are no symbolic links in a mirror, so that what has no
\* dots is inside.)
ServedPath(target) ==
  LET path == Decode(Head1(Head1(target, "?"), "#"))
      names == Segments(path)
  IN IF path = <<>> THEN None
     ELSE IF path[1] # "/" \/ \E i \in DOMAIN names : names[i] \in {Dot, DotDot}
     THEN None ELSE names
=============================================================================
