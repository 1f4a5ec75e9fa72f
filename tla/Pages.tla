------------------------------- MODULE Pages --------------------------------
(***************************************************************************)
(* The rewriting of a page (rewrite.cpp), and the discovery of what it     *)
(* refers to: the scanners of Html, the resolution of Url and the links of *)
(* PathMap put together.                                                   *)
(*                                                                         *)
(* An author writes a page, element by element.  Each element comes with   *)
(* what it means: the references that a reader would find in it, and the   *)
(* base that it declares.                                                  *)
(*                                                                         *)
(* Bound: MaxElements elements in a page.                                  *)
(***************************************************************************)
EXTENDS Html

CONSTANTS
  Elements,     \* records with the text, the refs and the base (None) of an element
  MaxElements,
  DocumentUrl, DocumentPath,
  Mirrored      \* a function from the URLs that the mirror has to their paths

VARIABLE elements     \* the elements of the page

Init == elements = <<>>

Write(element) ==
  /\ Len(elements) < MaxElements
  /\ elements' = Append(elements, element)

Next == \E element \in Elements : Write(element)

Spec == Init /\ [][Next]_elements

\* The page, what it refers to, and the last base that it declares, or None.
Page == FlattenSeq([i \in DOMAIN elements |-> elements[i].text])
Meant == FlattenSeq([i \in DOMAIN elements |-> elements[i].refs])
Base ==
  LET declaring == {i \in DOMAIN elements : elements[i].base # None}
  IN IF declaring = {} THEN None
     ELSE elements[CHOOSE i \in declaring : \A j \in declaring : i >= j].base

-----------------------------------------------------------------------------
(* Discovery.                                                              *)

\* A sequence of what each of the elements of another becomes.
Each(list, Op(_)) == [i \in DOMAIN list |-> Op(list[i])]

NoFragment(url) == [url EXCEPT !.fragment = None]

\* What a reference means, or None if it is left alone.
HttpOnly(url) == IF url # None /\ IsHttp(url) THEN url ELSE None
TargetOf(url, text) ==
  IF IsAnchorOrEmpty(text) THEN None ELSE HttpOnly(ResolveUrl(url, text))

\* effective_base(): where the references of a page start from.
OrElse(value, otherwise) == IF value = None THEN otherwise ELSE value
EffectiveBase(declared, url) ==
  IF declared \in {None, <<>>} THEN url ELSE OrElse(TargetOf(url, declared), url)

\* discover_css_links() and discover_html_links(), before they are resolved.
AssetsAt(texts) == [i \in DOMAIN texts |-> [text |-> texts[i], role |-> "Asset"]]
CssReferences(css) == AssetsAt(Each(ScanCss(css), LAMBDA link : link.text))

HtmlReferences(links) ==
  LET of(link) ==
        CASE link.role = "Base" -> <<>>
          [] link.role \in {"StyleBlock", "InlineStyle"} -> CssReferences(link.text)
          [] link.role = "SrcSet" -> AssetsAt(Each(ParseSrcSet(link.text), LAMBDA c : c.url))
          [] link.role = "MetaRefresh" -> << [text |-> link.text, role |-> "Navigation"] >>
          [] OTHER -> << [text |-> link.text, role |-> link.role] >>
  IN FlattenSeq(Each(links, of))

Resolved(references, url) ==
  SelectSeq(Each(references, LAMBDA r : [url |-> TargetOf(url, r.text), role |-> r.role]),
            LAMBDA link : link.url # None)

Discovered(scan, url) == Resolved(HtmlReferences(scan.links), EffectiveBase(scan.base, url))
Discover(html, url) == Discovered(ScanHtml(html), url)

-----------------------------------------------------------------------------
(* Rewriting.                                                              *)

\* resolve_reference(): the text that a reference gets, or None if it is left as it is.
LinkTo(target) ==
  CASE target = None -> None
    [] target # None /\ NoFragment(target) \in DOMAIN Mirrored ->
         RelativeLink(DocumentPath, Mirrored[NoFragment(target)])
           \o (IF target.fragment \in {None, <<>>} THEN <<>> ELSE <<"#">> \o target.fragment)
    [] OTHER -> ToText(target)
NewText(url, text) == LinkTo(TargetOf(url, text))

\* apply_replacements(): in the order of their places, those that overlap left out.
RECURSIVE Splice(_, _, _)
Splice(text, cursor, replacements) ==
  IF replacements = <<>> THEN From(text, cursor)
  ELSE IF replacements[1].at < cursor THEN Splice(text, cursor, Tail(replacements))
  ELSE SubSeq(text, cursor, replacements[1].at - 1) \o replacements[1].text
         \o Splice(text, replacements[1].at + replacements[1].len, Tail(replacements))

Replace(text, replacements) ==
  Splice(text, 1, SelectSeq(replacements, LAMBDA r : r.text # None))

\* rewrite_css().
IfAny(text, Encoded(_)) == IF text = None THEN None ELSE Encoded(text)
RewriteCss(css, url) ==
  Replace(css, Each(ScanCss(css), LAMBDA link :
                      [link EXCEPT !.text = IfAny(NewText(url, link.text), EscapeCss)]))

\* A srcset whose candidates are replaced, or None if none of them is.
Respelled(set, texts) ==
  IF \A i \in DOMAIN set : texts[i] = None THEN None
  ELSE BuildSrcSet([i \in DOMAIN set |-> [set[i] EXCEPT !.url = OrElse(texts[i], @)]])
NewSrcSet(url, set) == Respelled(set, Each(set, LAMBDA c : NewText(url, c.url)))

\* What is put in the place of a link.  The base becomes the directory of the page itself.
Replacement(link, url) ==
  LET css == RewriteCss(link.text, url)
  IN CASE link.role = "Base" -> <<".", "/">>
       [] link.role = "StyleBlock" -> css
       [] link.role = "InlineStyle" -> IF css = link.text THEN None ELSE EncodeAttribute(css)
       [] link.role = "SrcSet" -> IfAny(NewSrcSet(url, ParseSrcSet(link.text)), EncodeAttribute)
       [] OTHER -> IfAny(NewText(url, link.text), EncodeAttribute)

\* rewrite_html().
RewriteLinks(html, links, url) ==
  Replace(html, Each(links, LAMBDA link : [link EXCEPT !.text = Replacement(link, url)]))
RewriteScanned(html, scan, url) == RewriteLinks(html, scan.links, EffectiveBase(scan.base, url))
RewriteHtml(html, url) == RewriteScanned(html, ScanHtml(html), url)

-----------------------------------------------------------------------------
(* Properties.                                                             *)

\* What is discovered in a page is what its author refers to, neither less (after an
\* element that is left open, or a tag in capitals) nor more (what looks like a reference
\* in a comment, a script, or the value of another attribute).
FindsWhatIsMeant ==
  Discover(Page, DocumentUrl) = Resolved(Meant, EffectiveBase(Base, DocumentUrl))

\* Where the page is stored, as a browser sees it that opens the mirror.
Here ==
  [DocumentUrl EXCEPT !.path = <<"/">> \o Join([i \in DOMAIN DocumentPath |-> Encode(DocumentPath[i])]),
                      !.host = <<"localhost">>, !.query = None, !.fragment = None]

\* Where a link leads, compared with where it led: to the file of what it meant if the
\* mirror has that, and to the site if it has not.
LeadsTo(is, was) ==
  IF NoFragment(was) \in DOMAIN Mirrored
  THEN /\ is.host = Here.host
       /\ Each(Segments(is.path), Decode) = Mirrored[NoFragment(was)]
       /\ is.query = None
       /\ is.fragment = IF was.fragment = <<>> THEN None ELSE was.fragment
  ELSE is = was

\* In the page that is written to the mirror every reference is found again, and leads
\* where it did.
LeadsWhereItDid ==
  \A before \in {Discover(Page, DocumentUrl)},
     after \in {Discover(RewriteHtml(Page, DocumentUrl), Here)} :
    /\ Len(after) = Len(before)
    /\ \A i \in DOMAIN before :
         after[i].role = before[i].role /\ LeadsTo(after[i].url, before[i].url)
=============================================================================
