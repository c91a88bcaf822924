--------------------------- MODULE TreeConstruction ---------------------------
(***************************************************************************)
(* How the HTML parser builds its tree                                     *)
(* (src/lib/nh-html/Parser: TreeConstruction.c, TreeConstructionHelper.c,  *)
(* AdoptionAgencyAlgorithm.c): every token goes to the handler of the      *)
(* insertion mode, which opens and closes elements.                        *)
(*                                                                         *)
(* Of the nodes only what later tokens depend on is kept: the stack of     *)
(* open elements and the list of active formatting elements. An element    *)
(* that is in neither, nor the head or the form, gives its number back.    *)
(* Operators take the parser p and return it as it is afterwards.          *)
(***************************************************************************)
EXTENDS Integers, Sequences, FiniteSets, SequencesExt

CONSTANTS
    Tags,       \* the tag names of a document
    MaxOpen,    \* bound: open elements
    MaxActive   \* bound: active formatting elements

ASSUME TreeAssumption == Tags \subseteq STRING /\ MaxOpen \in Nat \ {0} /\ MaxActive \in Nat

VARIABLE parser \* nh_html_Parser, its tokenizer's state (text) and how it is doing (state)

None == [id |-> 0, tag |-> "none"]
Marker == [id |-> 0, tag |-> "marker"]

\* nh_html_initParser()
TreeInit ==
    parser = [mode |-> "INITIAL", orig |-> "INITIAL", open |-> <<>>, active |-> <<>>, head |-> None, form |-> None,
              framesetOk |-> TRUE, stop |-> FALSE, text |-> "data", state |-> "ok"]

---------------------------------------------------------------------------
(* Tokens. White space is white, U+0000 null, every other character other. *)

White(t) == t.type = "char" /\ t.name = "white"
Start(t, S) == t.type = "start" /\ t.name \in S
End(t, S) == t.type = "end" /\ t.name \in S

HeadTags == {"base", "basefont", "bgsound", "link", "meta", "noframes", "script", "style", "template", "title"}
PlainBlocks ==
    {"address", "article", "aside", "blockquote", "center", "details", "dialog", "dir", "div", "dl", "fieldset", "figcaption",
     "figure", "footer", "header", "hgroup", "main", "menu", "nav", "ol", "section", "summary", "ul"}
Headings == {"h1", "h2", "h3", "h4", "h5", "h6"}
Formatting == {"a", "b", "big", "code", "em", "font", "i", "nobr", "s", "small", "strike", "strong", "tt", "u"}
Objects == {"applet", "marquee", "object"}
Voids == {"area", "br", "embed", "img", "image", "keygen", "wbr", "input"}
TableParts == {"caption", "col", "colgroup", "frame", "head", "tbody", "td", "tfoot", "th", "thead", "tr"}
BodyEnds == {"body", "html", "br"}

\* nh_html_generateImpliedEndTags()
Implied == {"dd", "dt", "li", "optgroup", "option", "p", "rb", "rp", "rt", "rtc"}

\* nh_html_inSpecialCategory()
Special ==
    (PlainBlocks \ {"dialog"}) \cup Headings \cup Objects \cup TableParts \cup HeadTags \cup
    {"area", "body", "br", "button", "dd", "dt", "embed", "form", "frameset", "hr", "html", "iframe", "img", "input", "keygen",
     "li", "listing", "noembed", "noscript", "p", "param", "plaintext", "pre", "select", "source", "table", "textarea",
     "track", "wbr", "xmp"}

---------------------------------------------------------------------------
(* The stack of open elements *)

Used(p) == {e.id : e \in ToSet(p.open) \cup ToSet(p.active) \cup {p.head, p.form}}
Fresh(p) == CHOOSE i \in 1..(Cardinality(Used(p)) + 1) : i \notin Used(p) /\ \A j \in 1..(i - 1) : j \in Used(p)

Current(p) == IF p.open = <<>> THEN None ELSE Last(p.open)
PushOpenElement(p, e) == [p EXCEPT !.open = Append(@, e)]
InsertElement(p, tag) == PushOpenElement(p, [id |-> Fresh(p), tag |-> tag])

\* popCurrentNode() reads the element it popped, also when there was none.
PopCurrent(p) == IF p.open = <<>> THEN [p EXCEPT !.state = "underflow"] ELSE [p EXCEPT !.open = Front(@)]

Below(p, Stop(_)) == LET S == {i \in DOMAIN p.open : Stop(p.open[i])} IN IF S = {} THEN 0 ELSE Max(S)

GenerateImpliedEndTags(p, exclude) ==
    LET Stays(e) == e.tag \notin Implied \ exclude IN [p EXCEPT !.open = SubSeq(@, 1, Below(p, Stays))]

\* Pop up to and with an element of this name.
PopUntil(p, tag) ==
    LET Named(e) == e.tag = tag k == Below(p, Named) IN
    IF k = 0 THEN [p EXCEPT !.open = <<>>, !.state = "underflow"] ELSE [p EXCEPT !.open = SubSeq(@, 1, k - 1)]

CloseElement(p, tag) == PopUntil(GenerateImpliedEndTags(p, {tag}), tag)

\* nh_html_hasElementInSpecificScope(): from the current node down to one that ends the scope
InSpecificScope(p, tag, stops) ==
    \E i \in DOMAIN p.open : p.open[i].tag = tag /\ \A j \in (i + 1)..Len(p.open) : p.open[j].tag \notin stops
ScopeEnds ==
    Objects \cup {"caption", "html", "table", "td", "th", "template", "mi", "mo", "mn", "ms", "mtext",
                  "annotation-xml", "foreignObject", "desc", "title"}
HasElementInScope(p, tag) == InSpecificScope(p, tag, ScopeEnds)
HasElementInListItemScope(p, tag) == InSpecificScope(p, tag, ScopeEnds \cup {"ol", "ul"})
HasElementInButtonScope(p, tag) == InSpecificScope(p, tag, ScopeEnds \cup {"button"})
HasOpenElement(p, tag) == \E e \in ToSet(p.open) : e.tag = tag

ClosePInScope(p) == IF HasElementInButtonScope(p, "p") THEN CloseElement(p, "p") ELSE p

---------------------------------------------------------------------------
(* The list of active formatting elements *)

PushActive(p) == [p EXCEPT !.active = Append(@, Current(p))]
InsertMarker(p) == [p EXCEPT !.active = Append(@, Marker)]
Closed(p, i) == p.active[i] # Marker /\ p.active[i] \notin ToSet(p.open)

\* RECONSTRUCT_CREATE: open an element like this entry again and put it in its place.
Recreated(p, i) ==
    LET q == InsertElement(p, p.active[i].tag) IN [q EXCEPT !.active[i] = Current(q)]

\* nh_html_reconstructActiveFormattingElements(): back over the entries that are closed. When that ends at the
\* first one it is opened again; else the entry before the one it ended at, and on to the first. There may be none.
Reconstruct(p) ==
    LET n == Len(p.active)
        closed == {k \in 1..n : \A j \in k..n : Closed(p, j)}
        first == Min(closed) IN
    IF closed = {} THEN p
    ELSE IF first = 1 THEN Recreated(p, 1)
    ELSE IF first = 2 \/ \E i \in 1..(first - 2) : p.active[i] = Marker THEN [p EXCEPT !.state = "undefined"]
    ELSE LET opened[k \in 0..(first - 2)] == IF k = 0 THEN p ELSE Recreated(opened[k - 1], first - 1 - k)
         IN  opened[first - 2]

\* nh_html_runAdoptionAgencyAlgorithm(); a formatting element around a special one is not handled: exit(0).
Adoption(p, tag) ==
    LET markers == {i \in DOMAIN p.active : p.active[i] = Marker}
        found == {i \in DOMAIN p.active : p.active[i].tag = tag /\ \A m \in markers : m < i}
        f == p.active[Max(found)]
        Forgotten(q) == [q EXCEPT !.active = RemoveAt(@, Max(found))]
        IsF(e) == e = f
        at == Below(p, IsF) IN
    IF Current(p).tag = tag /\ Current(p) \notin ToSet(p.active) THEN PopCurrent(p)
    ELSE IF found = {} THEN p
    ELSE IF at = 0 THEN Forgotten(p)
    ELSE IF ~HasElementInScope(p, tag) THEN p
    ELSE IF \E i \in (at + 1)..Len(p.open) : p.open[i].tag \in Special THEN [p EXCEPT !.state = "exit"]
    ELSE Forgotten([p EXCEPT !.open = SubSeq(@, 1, at - 1)])

---------------------------------------------------------------------------
(* Handlers of the insertion modes, the last ones first: a handler hands a *)
(* token it has no use for on to a later mode.                             *)

To(p, mode) == [p EXCEPT !.mode = mode]
NotFramesetOk(p) == [p EXCEPT !.framesetOk = FALSE]

\* Mutant: the mode to return to is kept after the mode was changed.
ParseTextSwapped(p, tag, text) ==
    [InsertElement(p, tag) EXCEPT !.text = text, !.orig = "TEXT", !.mode = "TEXT"]

\* Elements with text content: the tokenizer is switched and the mode to return to is kept.
ParseText(p, tag, text) ==
    [InsertElement(p, tag) EXCEPT !.text = text, !.orig = p.mode, !.mode = "TEXT"]

\* processInHead() of the start tags other modes pass to it; scripting is on, script is left to do.
InHeadStart(p, tag) ==
    CASE tag = "title" -> ParseText(p, tag, "rcdata")
      [] tag \in {"noframes", "style", "noscript"} -> ParseText(p, tag, "rawtext")
      [] tag \in {"base", "basefont", "bgsound", "link", "meta"} -> PopCurrent(InsertElement(p, tag))
      [] tag = "template" -> To(NotFramesetOk(InsertMarker(InsertElement(p, tag))), "IN_TEMPLATE")
      [] OTHER -> p

Heading(p, tag) ==
    LET q == ClosePInScope(p) IN InsertElement(IF Current(q).tag \in Headings THEN PopCurrent(q) ELSE q, tag)

Form(p) ==
    IF p.form # None /\ ~HasOpenElement(p, "template") THEN p
    ELSE LET q == InsertElement(ClosePInScope(p), "form") IN
         IF HasOpenElement(q, "template") THEN q ELSE [q EXCEPT !.form = Current(q)]

\* li, dd and dt look for an item to close at the current node, then at the node below it, again and again.
Item(p, tag) ==
    LET items == IF tag = "li" THEN {"li"} ELSE {"dd", "dt"}
        Stops(e) == e.tag \in items \cup (Special \ {"address", "div", "p"})
        node == IF Stops(Current(p)) THEN Current(p) ELSE p.open[Len(p.open) - 1]
        q == IF node.tag \in items THEN CloseElement(p, node.tag) ELSE p IN
    IF Stops(node) THEN NotFramesetOk(InsertElement(ClosePInScope(q), tag)) ELSE [p EXCEPT !.state = "stuck"]

Button(p) ==
    LET q == IF HasElementInScope(p, "button") THEN PopUntil(GenerateImpliedEndTags(p, {}), "button") ELSE p IN
    NotFramesetOk(InsertElement(Reconstruct(q), "button"))

Void(p, tag) == NotFramesetOk(PopCurrent(InsertElement(Reconstruct(p), tag)))

Option(p, tag) ==
    InsertElement(Reconstruct(IF Current(p).tag = "option" THEN PopCurrent(p) ELSE p), tag)

Ruby(p, tag) ==
    InsertElement(IF HasElementInScope(p, "ruby") THEN GenerateImpliedEndTags(p, {}) ELSE p, tag)

\* The start tags processInBody() has no code for yet
Ignored == TableParts \cup {"html", "frameset", "table", "rp", "rt", "math", "svg"}

StartBlock(p, tag) ==
    CASE tag = "body" ->
           IF Len(p.open) > 1 /\ p.open[2].tag = "body" /\ ~HasOpenElement(p, "template") THEN NotFramesetOk(p) ELSE p
      [] tag \in PlainBlocks \cup {"p"} -> InsertElement(ClosePInScope(p), tag)
      [] tag \in Headings -> Heading(p, tag)
      [] tag \in {"pre", "listing"} -> NotFramesetOk(InsertElement(ClosePInScope(p), tag))
      [] tag = "form" -> Form(p)
      [] tag \in {"li", "dd", "dt"} -> Item(p, tag)
      [] tag = "plaintext" -> [InsertElement(ClosePInScope(p), tag) EXCEPT !.text = "plaintext"]
      [] tag = "button" -> Button(p)

StartInline(p, tag) ==
    CASE tag \in Formatting -> PushActive(InsertElement(Reconstruct(p), tag))
      [] tag \in Objects -> NotFramesetOk(InsertMarker(InsertElement(Reconstruct(p), tag)))
      [] tag \in Voids -> Void(p, tag)
      [] tag \in {"param", "source", "track"} -> PopCurrent(InsertElement(p, tag))
      [] tag = "hr" -> NotFramesetOk(PopCurrent(InsertElement(ClosePInScope(p), tag)))
      [] tag = "textarea" -> NotFramesetOk(ParseText(p, tag, "rcdata"))
      [] tag = "xmp" -> NotFramesetOk(ParseText(Reconstruct(ClosePInScope(p)), tag, "rawtext"))
      [] tag = "iframe" -> NotFramesetOk(ParseText(p, tag, "rawtext"))
      [] tag = "select" -> To(NotFramesetOk(InsertElement(Reconstruct(p), tag)), "IN_SELECT")
      [] tag \in {"optgroup", "option"} -> Option(p, tag)
      [] tag \in {"rb", "rtc"} -> Ruby(p, tag)
      [] OTHER -> InsertElement(Reconstruct(p), tag)

InBodyStart(p, tag) ==
    CASE tag \in Ignored -> p
      [] tag \in HeadTags -> InHeadStart(p, tag)
      [] tag \in PlainBlocks \cup Headings \cup {"body", "p", "pre", "listing", "form", "li", "dd", "dt", "plaintext", "button"} ->
           StartBlock(p, tag)
      [] OTHER -> StartInline(p, tag)

\* Mutant: no look whether there is such an element
EndBlockUnchecked(p, tag) == PopUntil(GenerateImpliedEndTags(p, {}), tag)

EndBlock(p, tag) ==
    IF HasElementInScope(p, tag) THEN PopUntil(GenerateImpliedEndTags(p, {}), tag) ELSE p
EndP(p) == CloseElement(IF HasElementInButtonScope(p, "p") THEN p ELSE InsertElement(p, "p"), "p")

\* </html> goes through AFTER_BODY; </br> is treated as <br>.
InBodyEnd(p, tag) ==
    CASE tag = "body" -> IF HasElementInScope(p, "body") THEN To(p, "AFTER_BODY") ELSE p
      [] tag = "html" -> IF HasElementInScope(p, "body") THEN To(p, "AFTER_AFTER_BODY") ELSE p
      [] tag \in PlainBlocks \cup Headings \cup {"button", "listing", "pre"} -> EndBlock(p, tag)
      [] tag = "p" -> EndP(p)
      [] tag = "li" -> IF HasElementInListItemScope(p, tag) THEN CloseElement(p, tag) ELSE p
      [] tag \in {"dd", "dt"} -> IF HasElementInScope(p, tag) THEN CloseElement(p, tag) ELSE p
      [] tag \in Formatting -> Adoption(p, tag)
      [] tag = "br" -> Void(p, tag)
      [] OTHER -> p

InBody(p, t) ==
    CASE t.type = "char" -> IF t.name = "null" THEN p ELSE IF White(t) THEN Reconstruct(p) ELSE NotFramesetOk(Reconstruct(p))
      [] t.type = "start" -> InBodyStart(p, t.name)
      [] t.type = "end" -> InBodyEnd(p, t.name)
      [] t.type = "eof" -> [p EXCEPT !.stop = TRUE]
      [] OTHER -> p

\* The head is opened again for tags that belong in it; whatever they left open stays without it.
AfterHead(p, t) ==
    CASE White(t) \/ t.type \in {"comment", "doctype"} \/ Start(t, {"html", "head"}) -> p
      [] Start(t, {"body"}) -> To(NotFramesetOk(InsertElement(p, "body")), "IN_BODY")
      [] Start(t, {"frameset"}) -> To(InsertElement(p, "frameset"), "IN_FRAMESET")
      [] Start(t, HeadTags) ->
           LET q == InHeadStart(PushOpenElement(p, p.head), t.name) IN [q EXCEPT !.open = RemoveFirst(@, p.head)]
      [] t.type = "end" /\ t.name \notin BodyEnds -> p
      [] OTHER -> InBody(To(InsertElement(p, "body"), "IN_BODY"), t)

InHead(p, t) ==
    CASE White(t) \/ t.type \in {"comment", "doctype"} \/ Start(t, {"html", "head"}) -> p
      [] Start(t, HeadTags \cup {"noscript"}) -> InHeadStart(p, t.name)
      [] End(t, {"head"}) -> To(PopCurrent(p), "AFTER_HEAD")
      [] t.type = "end" /\ t.name \notin BodyEnds \cup {"head"} -> p
      [] OTHER -> AfterHead(To(PopCurrent(p), "AFTER_HEAD"), t)

\* It is <html> that is taken for the head here.
BeforeHead(p, t) ==
    LET Headed(tag) == LET q == To(InsertElement(p, tag), "IN_HEAD") IN [q EXCEPT !.head = Current(q)] IN
    CASE White(t) \/ t.type \in {"comment", "doctype"} -> p
      [] Start(t, {"html"}) -> Headed("html")
      [] t.type = "end" /\ t.name \notin BodyEnds \cup {"head"} -> p
      [] OTHER -> InHead(Headed("head"), t)

BeforeHTML(p, t) ==
    LET Opened == To(InsertElement(p, "html"), "BEFORE_HEAD") IN
    CASE White(t) \/ t.type \in {"comment", "doctype"} -> p
      [] Start(t, {"html"}) -> Opened
      [] t.type = "end" /\ t.name \notin BodyEnds \cup {"head"} -> p
      [] OTHER -> BeforeHead(Opened, t)

Initial(p, t) ==
    CASE White(t) \/ t.type = "comment" -> p
      [] t.type = "doctype" -> To(p, "BEFORE_HTML")
      [] OTHER -> BeforeHTML(To(p, "BEFORE_HTML"), t)

AfterBody(p, t) ==
    CASE White(t) -> InBody(p, t)
      [] t.type \in {"comment", "doctype"} \/ Start(t, {"html"}) -> p
      [] End(t, {"html"}) -> To(p, "AFTER_AFTER_BODY")
      [] t.type = "eof" -> [p EXCEPT !.stop = TRUE]
      [] OTHER -> InBody(To(p, "IN_BODY"), t)

AfterAfterBody(p, t) ==
    CASE White(t) -> InBody(p, t)
      [] t.type \in {"comment", "doctype"} \/ Start(t, {"html"}) -> p
      [] t.type = "eof" -> [p EXCEPT !.stop = TRUE]
      [] OTHER -> InBody(To(p, "IN_BODY"), t)

\* Mutant: the end of the file ends the text and is not looked at again.
TextCutOff(p, t) == IF t.type \in {"eof", "end"} THEN To(PopCurrent(p), p.orig) ELSE p

Text(p, t) ==
    CASE t.type = "eof" ->
           LET q == To(PopCurrent(p), p.orig) IN
           (CASE q.mode = "IN_HEAD" -> InHead(q, t) [] q.mode = "AFTER_HEAD" -> AfterHead(q, t) [] OTHER -> InBody(q, t))
      [] End(t, {"script"}) -> [p EXCEPT !.state = "exit"]
      [] t.type = "end" /\ ~End(t, {"script"}) -> To(PopCurrent(p), p.orig)
      [] OTHER -> p

\* processToken(): the other modes have no handler, parsing fails with NH_API_ERROR_BAD_STATE.
ProcessToken(p, t) ==
    CASE p.mode = "INITIAL" -> Initial(p, t)
      [] p.mode = "BEFORE_HTML" -> BeforeHTML(p, t)
      [] p.mode = "BEFORE_HEAD" -> BeforeHead(p, t)
      [] p.mode = "IN_HEAD" -> InHead(p, t)
      [] p.mode = "AFTER_HEAD" -> AfterHead(p, t)
      [] p.mode = "IN_BODY" -> InBody(p, t)
      [] p.mode = "TEXT" -> Text(p, t)
      [] p.mode = "AFTER_BODY" -> AfterBody(p, t)
      [] p.mode = "AFTER_AFTER_BODY" -> AfterAfterBody(p, t)
      [] OTHER -> [p EXCEPT !.state = "failed"]

---------------------------------------------------------------------------
(* The tokens the tokenizer emits. In RCDATA and RAWTEXT the only tag is   *)
(* the end tag of the element (isAppropriateEndTagToken), in PLAINTEXT     *)
(* there is none; with a tag the tokenizer is back in DATA.                *)

Dispatch(t) ==
    /\ parser.state = "ok" /\ ~parser.stop
    /\ parser' = ProcessToken([parser EXCEPT !.text = IF t.type = "end" THEN "data" ELSE @], t)
    /\ Len(parser'.open) <= MaxOpen /\ Len(parser'.active) <= MaxActive

Character == \E c \in {"white", "null", "other"} : Dispatch([type |-> "char", name |-> c])
CommentToken == parser.text = "data" /\ Dispatch([type |-> "comment", name |-> "none"])
Doctype == parser.text = "data" /\ Dispatch([type |-> "doctype", name |-> "none"])
StartTag == parser.text = "data" /\ \E g \in Tags : Dispatch([type |-> "start", name |-> g])
EndTag == parser.text = "data" /\ \E g \in Tags : Dispatch([type |-> "end", name |-> g])
EndOfText == parser.text \in {"rcdata", "rawtext"} /\ Dispatch([type |-> "end", name |-> Current(parser).tag])
EndOfFile == Dispatch([type |-> "eof", name |-> "none"])

TreeNext == Character \/ CommentToken \/ Doctype \/ StartTag \/ EndTag \/ EndOfText \/ EndOfFile
TreeSpec == TreeInit /\ [][TreeNext]_parser

---------------------------------------------------------------------------
(* Properties *)

TextTags == {"title", "textarea", "noframes", "style", "noscript", "xmp", "iframe"}
Mode == IF parser.mode = "TEXT" THEN parser.orig ELSE parser.mode

\* Once the body is begun the two elements at the bottom of the stack are <html> and <body>, whatever tags come: the
\* loops that pop up to an element (TreeConstruction.c:730, 1038, 1348, 1403) never run past the one they look for.
BodyStays ==
    /\ parser.state # "underflow"
    /\ Mode \in {"IN_BODY", "AFTER_BODY", "AFTER_AFTER_BODY"} =>
         Len(parser.open) >= 2 /\ parser.open[1].tag = "html" /\ parser.open[2].tag = "body"

\* The parser waits for the end of a text exactly while the tokenizer reads text, the element it is in is the current
\* node and the mode it goes back to is one that has a handler.
TextTogether ==
    /\ parser.state = "ok" /\ ~parser.stop => (parser.mode = "TEXT" <=> parser.text \in {"rcdata", "rawtext"})
    /\ parser.mode = "TEXT" => Current(parser).tag \in TextTags /\ parser.orig \in {"IN_HEAD", "AFTER_HEAD", "IN_BODY"}

\* A document that was read to its end is finished or failed: parseDocument() does not call the tokenizer again, which
\* would read behind the input.
EndStops == [][EndOfFile => parser'.stop \/ parser'.state # "ok"]_parser

\* What the link above reconstructActiveFormattingElements() (TreeConstructionHelper.c:234) asks for: text in the body
\* is inside all formatting elements that were not closed since the last marker.
Reformatted ==
    [][parser.mode = "IN_BODY" /\ Character /\ parser' # parser =>
         \A i \in DOMAIN parser'.active :
            (\A j \in i..Len(parser'.active) : parser'.active[j] # Marker) => parser'.active[i] \in ToSet(parser'.open)]_parser
=============================================================================
