-------------------------------- MODULE Html --------------------------------
(***************************************************************************)
(* The scanners of HTML and CSS (html.cpp, css.cpp): where in a text the   *)
(* references are, and what they say.                                      *)
(*                                                                         *)
(* A text is a sequence of characters as in Url; a name or a number, and   *)
(* each of "--", "/*" and "*/", counts as one.  All white space is " ".    *)
(* The kind that is guessed for a reference is left out, and so are the    *)
(* end of <head>, which nothing reads, and the length beyond which an      *)
(* entity is none.                                                         *)
(***************************************************************************)
EXTENDS PathMap
LOCAL INSTANCE FiniteSetsExt

CONSTANTS
  LowerCase,    \* a function from the words with capitals to those without
  Entities,     \* a function from what stands between '&' and ';' to a character
  FetchedRels,  \* the words of a rel that ask for a download ...
  LinkedRels,   \* ... and those that do not
  ImageKeys     \* the names of <meta> whose content is a picture

-----------------------------------------------------------------------------
(* Texts.                                                                  *)

Marks == {"<", ">", "/", "!", "--", "=", "\"", "'", " ", "&", ";", "#", "?", "(", ")", ",",
          "\\", "/*", "*/", "*", ":", ".", "@", "{", "}"}
Quotes == {"\"", "'"}

At(text, i) == IF i \in DOMAIN text THEN text[i] ELSE "end"

\* The first position from i on with one of these characters, or with none of them; the
\* position behind the text if there is no such.
Until(text, i, these) == Min({p \in i .. Len(text) : text[p] \in these} \cup {Len(text) + 1})
Past(text, i, these) == Min({p \in i .. Len(text) : text[p] \notin these} \cup {Len(text) + 1})

LowerWord(word) == IF word \in DOMAIN LowerCase THEN LowerCase[word] ELSE word
Lower(text) == [i \in DOMAIN text |-> LowerWord(text[i])]

\* What is found at a place in a text, and its parts in their order.
Ordered(found) ==
  [k \in 1 .. Cardinality(found) |->
     CHOOSE x \in found : Cardinality({y \in found : y.at < x.at}) = k - 1]

-----------------------------------------------------------------------------
(* Entities.                                                               *)

\* decode_html_entities().  What is no entity stays as it is.
RECURSIVE DecodeEntities(_)
DecodeEntities(text) ==
  LET end == Until(text, 2, {";", " ", "&"})
      body == Lower(SubSeq(text, 2, end - 1))
  IN CASE text = <<>> -> <<>>
       [] text # <<>> /\ text[1] = "&" /\ At(text, end) = ";" /\ body \in DOMAIN Entities ->
            <<Entities[body]>> \o DecodeEntities(From(text, end + 1))
       [] OTHER -> <<text[1]>> \o DecodeEntities(Tail(text))

\* Mutant of EncodeAttribute: an ampersand is left as it is.
EncodeAttributeKeepsAmpersand(text) ==
  LET written(c) == CASE c = "\"" -> <<"&", "quot", ";">> [] c = "'" -> <<"&", "#", "39", ";">>
                      [] c = "<" -> <<"&", "lt", ";">>    [] c = ">" -> <<"&", "gt", ";">>
                      [] OTHER -> <<c>>
  IN FlattenSeq([i \in DOMAIN text |-> written(text[i])])

\* encode_html_attribute().
EncodeAttribute(text) ==
  LET written(c) == CASE c = "&" -> <<"&", "amp", ";">>
                      [] c = "\"" -> <<"&", "quot", ";">> [] c = "'" -> <<"&", "#", "39", ";">>
                      [] c = "<" -> <<"&", "lt", ";">>    [] c = ">" -> <<"&", "gt", ";">>
                      [] OTHER -> <<c>>
  IN FlattenSeq([i \in DOMAIN text |-> written(text[i])])

-----------------------------------------------------------------------------
(* Attributes that hold more than a URL.                                   *)

\* parse_srcset(): URLs with a descriptor each.
RECURSIVE ParseSrcSet(_)
ParseSrcSet(text) ==
  LET start == Past(text, 1, {" ", ","})
      end == Until(text, start, {" ", ","})
      comma == Until(text, end, {","})
  IN IF start > Len(text) THEN <<>>
     ELSE << [url |-> SubSeq(text, start, end - 1),
              descriptor |-> Trim(SubSeq(text, end, comma - 1))] >>
            \o ParseSrcSet(From(text, comma + 1))

\* build_srcset().
BuildSrcSet(candidates) ==
  LET written(c) == c.url \o (IF c.descriptor = <<>> THEN <<>> ELSE <<" ">> \o c.descriptor)
  IN FlattenSeq([i \in DOMAIN candidates |->
                   (IF i = 1 THEN <<>> ELSE <<",", " ">>) \o written(candidates[i])])

\* parse_meta_refresh(): where in the content the URL is, or None.
MetaRefresh(content) ==
  LET word == Past(content, Find(content, ";") + 1, {" "})
      equals == Past(content, word + 1, {" "})
      value == Past(content, equals + 1, {" "})
      quoted == At(content, value) \in Quotes
      start == IF quoted THEN value + 1 ELSE value
      end == Until(content, start, IF quoted THEN {content[value]} ELSE {" "})
  IN IF /\ Find(content, ";") # 0
        /\ LowerWord(At(content, word)) = "url" /\ At(content, equals) = "="
        /\ start < end
     THEN [at |-> start, len |-> end - start] ELSE None

-----------------------------------------------------------------------------
(* Style sheets.                                                           *)

\* unescape_css() and escape_css_url().
RECURSIVE UnescapeCss(_)
UnescapeCss(text) ==
  CASE text = <<>> -> <<>>
    [] Len(text) > 1 /\ text[1] = "\\" -> <<text[2]>> \o UnescapeCss(From(text, 3))
    [] OTHER -> <<text[1]>> \o UnescapeCss(Tail(text))

EscapeCss(text) ==
  FlattenSeq([i \in DOMAIN text |->
                IF text[i] \in {"\"", "\\"} THEN <<"\\", text[i]>> ELSE <<text[i]>>])

\* Where a token ends: at one of these characters that no backslash stands before.
RECURSIVE TokenEnd(_, _, _)
TokenEnd(css, i, these) ==
  IF i > Len(css) \/ At(css, i) \in these THEN Min({i, Len(css) + 1})
  ELSE TokenEnd(css, IF css[i] = "\\" /\ i < Len(css) THEN i + 2 ELSE i + 1, these)

\* A reference between two positions, if there is one.
CssLink(css, start, end) ==
  IF start = end THEN {}
  ELSE {[at |-> start, len |-> end - start, text |-> Trim(UnescapeCss(SubSeq(css, start, end - 1)))]}

\* The rest of scan_css() from a position on.
RECURSIVE CssFrom(_, _)
CssFrom(css, i) ==
  LET word == LowerWord(At(css, i))
      open == IF word = "url" THEN Past(css, i + 1, {" "}) ELSE i
      value == Past(css, open + 1, {" "})
      quoted == At(css, value) \in Quotes
      start == IF quoted THEN value + 1 ELSE value
      end == TokenEnd(css, start, IF quoted THEN {css[value]} ELSE {")", " "})
      found == CssLink(css, start, end) \cup CssFrom(css, IF quoted THEN end + 1 ELSE end)
  IN CASE i > Len(css) -> {}
       [] At(css, i) = "/*" -> CssFrom(css, Until(css, i + 1, {"*/"}) + 1)
       [] word = "@import" -> IF quoted THEN found ELSE CssFrom(css, i + 1)
       [] word = "url" ->
            IF At(css, open) = "(" /\ At(css, i - 1) \in Marks \cup {"end"}
            THEN found ELSE CssFrom(css, i + 1)
       [] At(css, i) \in Quotes -> CssFrom(css, TokenEnd(css, i + 1, {css[i]}) + 1)
       [] OTHER -> CssFrom(css, i + 1)

\* scan_css().
ScanCss(css) == Ordered(CssFrom(css, 1))

-----------------------------------------------------------------------------
(* Documents.                                                              *)

\* is_raw_text_element().
RawText == {<<"script">>, <<"style">>, <<"textarea">>, <<"title">>, <<"xmp">>, <<"noframes">>,
            <<"iframe">>}

\* Mutant of ClosingTag: only the small letters of the opening tag close it.
ClosingTagCaseSensitive(html, tag, i) ==
  LET size == Len(tag)
      at == {p \in i .. Len(html) - size - 1 :
               /\ html[p] = "<" /\ html[p + 1] = "/"
               /\ SubSeq(html, p + 2, p + 1 + size) = tag
               /\ At(html, p + 2 + size) \in {" ", ">", "/", "end"}}
  IN IF at = {} THEN 0 ELSE Min(at)

\* find_closing_tag(): 0 when there is none.
ClosingTag(html, tag, i) ==
  LET size == Len(tag)
      at == {p \in i .. Len(html) - size - 1 :
               /\ html[p] = "<" /\ html[p + 1] = "/"
               /\ Lower(SubSeq(html, p + 2, p + 1 + size)) = tag
               /\ At(html, p + 2 + size) \in {" ", ">", "/", "end"}}
  IN IF at = {} THEN 0 ELSE Min(at)

\* The attributes of an element, up to its '>': each has a name, and a raw value with its
\* place, or None.
RECURSIVE Attributes(_, _, _)
Attributes(html, from, found) ==
  LET i == Past(html, from, {" "})
      name_end == Until(html, i, {" ", "=", ">", "/"})
      equals == Past(html, name_end, {" "})
      value == Past(html, equals + 1, {" "})
      quoted == At(html, value) \in Quotes
      start == IF quoted THEN value + 1 ELSE value
      end == Until(html, start, IF quoted THEN {html[value]} ELSE {" ", ">"})
      with(at, raw) == [found EXCEPT !.list =
                          Append(@, [name |-> Lower(SubSeq(html, i, name_end - 1)),
                                     at |-> at, raw |-> raw])]
  IN CASE At(html, i) = "end" -> [found EXCEPT !.end = i]
       [] At(html, i) = ">"   -> [found EXCEPT !.end = i + 1]
       [] At(html, i) = "/"   -> Attributes(html, i + 1, [found EXCEPT !.self_closing = TRUE])
       [] At(html, i) = "="   -> Attributes(html, i + 1, found)
       [] OTHER -> IF At(html, equals) = "="
                   THEN Attributes(html, IF quoted THEN end + 1 ELSE end,
                                   with(start, SubSeq(html, start, end - 1)))
                   ELSE Attributes(html, equals, with(0, None))

\* kAttrRules and kSrcSetRules.  The one for imagesrcset is never reached, since <link> is
\* dealt with before.
Navigations == {<<"a", "href">>, <<"area", "href">>, <<"iframe", "src">>, <<"frame", "src">>,
                <<"form", "action">>}
Assets ==
  {<<"img", "src">>, <<"img", "lowsrc">>, <<"image", "href">>, <<"image", "xlink:href">>,
   <<"input", "src">>, <<"script", "src">>, <<"embed", "src">>, <<"object", "data">>,
   <<"source", "src">>, <<"track", "src">>, <<"video", "src">>, <<"video", "poster">>,
   <<"audio", "src">>, <<"use", "href">>, <<"use", "xlink:href">>, <<"body", "background">>,
   <<"table", "background">>, <<"td", "background">>}
SrcSets == {<<"img", "srcset">>, <<"source", "srcset">>, <<"link", "imagesrcset">>}

\* kind_for_link_rel(): the first word that is known decides.
FetchesRel(raw) ==
  LET known == {i \in DOMAIN raw : Lower(raw)[i] \in FetchedRels \cup LinkedRels}
  IN known # {} /\ Lower(raw)[Min(known)] \in FetchedRels

\* The references in an element.
ElementLinks(tag, list) ==
  LET attr(name) == SelectInSeq(list, LAMBDA a : a.name = <<name>>)
      raw(name) == IF attr(name) = 0 \/ list[attr(name)].raw = None THEN <<>> ELSE list[attr(name)].raw
      emit(name, role) ==
        IF raw(name) = <<>> THEN {}
        ELSE {[at |-> list[attr(name)].at, len |-> Len(raw(name)),
               text |-> DecodeEntities(raw(name)), role |-> role]}
      refresh == MetaRefresh(raw("content"))
      key == Lower(IF attr("property") # 0 THEN raw("property") ELSE raw("name"))
      own == CASE tag = <<"base">> -> emit("href", "Base")
               [] tag = <<"link">> -> emit("href", IF FetchesRel(raw("rel")) THEN "Asset" ELSE "Navigation")
               [] tag = <<"meta">> ->
                    (IF Lower(Trim(raw("http-equiv"))) = <<"refresh">> /\ refresh # None
                     THEN {[at |-> list[attr("content")].at + refresh.at - 1, len |-> refresh.len,
                            text |-> DecodeEntities(SubSeq(raw("content"), refresh.at,
                                                           refresh.at + refresh.len - 1)),
                            role |-> "MetaRefresh"]}
                     ELSE {})
                    \cup (IF key \in ImageKeys THEN emit("content", "Asset") ELSE {})
               [] OTHER ->
                    UNION {emit(rule[2], "Navigation") : rule \in {r \in Navigations : <<r[1]>> = tag}}
                    \cup UNION {emit(rule[2], "Asset") : rule \in {r \in Assets : <<r[1]>> = tag}}
                    \cup UNION {emit(rule[2], "SrcSet") : rule \in {r \in SrcSets : <<r[1]>> = tag}}
  IN own \cup emit("style", "InlineStyle")

\* A <base> with an href, which replaces the one before.
BaseOf(tag, list, base) ==
  LET href == SelectInSeq(list, LAMBDA a : a.name = <<"href">>)
  IN IF tag = <<"base">> /\ href # 0 /\ list[href].raw # None
     THEN DecodeEntities(list[href].raw) ELSE base

\* The rest of scan_html() from a position on.
RECURSIVE ScanFrom(_, _, _, _)
ScanFrom(html, from, links, base) ==
  LET lt == Until(html, from, {"<"})
      name_end == Until(html, lt + 1, {" ", ">", "/"})
      tag == Lower(SubSeq(html, lt + 1, name_end - 1))
      open == Attributes(html, name_end, [end |-> 0, self_closing |-> FALSE, list |-> <<>>])
      raw_text == ~open.self_closing /\ tag \in RawText
      close == ClosingTag(html, tag, open.end)
      content_end == IF raw_text /\ close # 0 THEN close ELSE open.end
      style == IF tag = <<"style">> /\ content_end > open.end
               THEN {[at |-> open.end, len |-> content_end - open.end,
                      text |-> SubSeq(html, open.end, content_end - 1), role |-> "StyleBlock"]}
               ELSE {}
      comment_end == {p \in lt + 3 .. Len(html) - 1 : html[p] = "--" /\ html[p + 1] = ">"}
      skip(i) == ScanFrom(html, i, links, base)
  IN CASE lt >= Len(html) -> [links |-> Ordered(links), base |-> base]
       [] At(html, lt + 1) = "!" ->
            IF At(html, lt + 2) = "--"
            THEN skip(IF comment_end = {} THEN Len(html) + 1 ELSE Min(comment_end) + 2)
            ELSE skip(Until(html, lt + 1, {">"}) + 1)
       [] At(html, lt + 1) = "/" -> skip(Until(html, lt + 1, {">"}) + 1)
       [] At(html, lt + 1) \in (Marks \ {"!", "/"}) \cup DOMAIN Ports -> skip(lt + 1)
       [] OTHER -> ScanFrom(html, content_end, links \cup ElementLinks(tag, open.list) \cup style,
                            BaseOf(tag, open.list, base))

\* scan_html().
ScanHtml(html) == ScanFrom(html, 1, {}, None)
=============================================================================
