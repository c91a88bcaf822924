---------------------------- MODULE HTMLTokenizer ----------------------------
(***************************************************************************)
(* The HTML tokenizer (src/lib/nh-html/Parser/Tokenizer.c): one action per *)
(* tokenization state. parseDocument() calls consumeNext(), which takes    *)
(* the next code point and calls the handler of the state; a handler may   *)
(* have its code point consumed again in another state.                    *)
(*                                                                         *)
(* A code point stands for its class, a token for what its fields must     *)
(* hold when they are used. Whether a name is the one looked for, and what *)
(* the look-ahead finds, is left open. The script and CDATA states are     *)
(* left out: nothing in src/ enters them.                                  *)
(***************************************************************************)
VARIABLES
    state, returnState, \* Tokenizer.state, returnState
    token,              \* Tokenizer.Token_p: its type; has it an attribute, which strings of a DOCTYPE are allocated
    codepoint,          \* Tokenizer.codepoint
    where,              \* Tokenizer.index: "inside" the input, at its "end", "past" the end
    calling,            \* consume() is to be called: FALSE between two calls of consumeNext()
    stop,               \* Parser.stop: the tree builder has seen the end of the file
    health              \* "ok", "null": NULL was used, "exit": exit(0)

vars == <<state, returnState, token, codepoint, where, calling, stop, health>>

Codepoints == {"space", "lt", "gt", "slash", "bang", "question", "amp", "hash", "dquote", "squote", "equals", "dash", "null", "letter", "digit", "other"}
New(type) == [type |-> type, has |-> {}]

\* nh_html_initTokenizer()
TokenizerInit ==
    /\ state = "DATA" /\ returnState = "DATA" /\ token = New("none") /\ codepoint = "null" /\ where = "inside"
    /\ calling = FALSE /\ stop = FALSE /\ health = "ok"

\* nh_html_consumeNext(): at the end the code point stays what it was.
ConsumeNext ==
    /\ ~calling /\ ~stop /\ health = "ok"
    /\ calling' = TRUE
    /\ \/ where = "inside" /\ where' \in {"inside", "end"}
       \/ where # "inside" /\ where' = "past"
    /\ IF where' = "inside" THEN codepoint' \in Codepoints ELSE codepoint' = codepoint
    /\ UNCHANGED <<state, returnState, token, stop, health>>

---------------------------------------------------------------------------
(* What handlers are made of *)

Consuming(s) == calling /\ where # "end" /\ state = s /\ health = "ok" /\ UNCHANGED <<returnState, codepoint, where, stop, health>>
Is(S) == codepoint \in S
Else(S) == codepoint \notin S

Goto(s) == state' = s /\ calling' = FALSE
Stay == Goto(state)
Reconsume(s) == state' = s /\ calling' = TRUE

Keep == token' = token
Create(type) == token' = New(type)
Allocate(part) == token' = [token EXCEPT !.has = @ \cup {part}]
NewAttribute == Allocate("attribute")

\* nh_html_emit(): the tree builder may answer a start tag by switching the tokenizer.
Emit ==
    /\ IF token.type = "START_TAG" THEN state' \in {"DATA", "RCDATA", "RAWTEXT", "PLAINTEXT"} ELSE state' = "DATA"
    /\ calling' = FALSE /\ Keep

\* nh_html_emitCharacterToken() makes a token of its own.
EmitCharacter == Create("CHARACTER")

---------------------------------------------------------------------------
(* Text *)

StartsReference == {"DATA", "RCDATA", "ATTRIBUTE_VALUE_DOUBLE_QUOTED", "ATTRIBUTE_VALUE_SINGLE_QUOTED", "ATTRIBUTE_VALUE_UNQUOTED"}

\* The case 0x26 (&) of five handlers
StartReference ==
    /\ calling /\ where # "end" /\ state \in StartsReference /\ health = "ok" /\ Is({"amp"})
    /\ returnState' = state /\ Goto("CHARACTER_REFERENCE") /\ Keep
    /\ UNCHANGED <<codepoint, where, stop, health>>

Content(s, special, next) ==
    /\ Consuming(s)
    /\ \/ Is({"lt"}) /\ Goto(next) /\ Keep
       \/ Else(special) /\ Stay /\ EmitCharacter

Data == Content("DATA", {"lt", "amp"}, "TAG_OPEN")
RCDATA == Content("RCDATA", {"lt", "amp"}, "RCDATA_LESS_THAN_SIGN")
RAWTEXT == Content("RAWTEXT", {"lt"}, "RAWTEXT_LESS_THAN_SIGN")
PLAINTEXT == Consuming("PLAINTEXT") /\ Stay /\ EmitCharacter

\* "<" and "</" that begin no end tag are text.
LessThanSign(s, open, text) ==
    /\ Consuming(s)
    /\ \/ Is({"slash"}) /\ Goto(open) /\ Keep
       \/ Else({"slash"}) /\ EmitCharacter /\ Reconsume(text)
EndTagOpenInUnmade(s, name, text) == \* Mutant: no token is made for the end tag.
    /\ Consuming(s)
    /\ \/ Is({"letter"}) /\ Keep /\ Reconsume(name)
       \/ Else({"letter"}) /\ EmitCharacter /\ Reconsume(text)
EndTagOpenIn(s, name, text) ==
    /\ Consuming(s)
    /\ \/ Is({"letter"}) /\ Create("END_TAG") /\ Reconsume(name)
       \/ Else({"letter"}) /\ EmitCharacter /\ Reconsume(text)
\* nh_html_isAppropriateEndTagToken() may find that it is the end tag of the element, or not.
EndTagNameIn(s, text) ==
    /\ Consuming(s)
    /\ \/ Is({"letter"}) /\ Keep /\ Stay
       \/ Is({"space"}) /\ Goto("BEFORE_ATTRIBUTE_NAME") /\ Keep
       \/ Is({"slash"}) /\ Goto("SELF_CLOSING_START_TAG") /\ Keep
       \/ Is({"gt"}) /\ Emit
       \/ Else({"letter"}) /\ EmitCharacter /\ Reconsume(text)

RCDATALessThanSign == LessThanSign("RCDATA_LESS_THAN_SIGN", "RCDATA_END_TAG_OPEN", "RCDATA")
RCDATAEndTagOpen == EndTagOpenIn("RCDATA_END_TAG_OPEN", "RCDATA_END_TAG_NAME", "RCDATA")
RCDATAEndTagName == EndTagNameIn("RCDATA_END_TAG_NAME", "RCDATA")
RAWTEXTLessThanSign == LessThanSign("RAWTEXT_LESS_THAN_SIGN", "RAWTEXT_END_TAG_OPEN", "RAWTEXT")
RAWTEXTEndTagOpen == EndTagOpenIn("RAWTEXT_END_TAG_OPEN", "RAWTEXT_END_TAG_NAME", "RAWTEXT")
RAWTEXTEndTagName == EndTagNameIn("RAWTEXT_END_TAG_NAME", "RAWTEXT")

Texts ==
    \/ StartReference \/ Data \/ RCDATA \/ RAWTEXT \/ PLAINTEXT \/ RCDATALessThanSign \/ RCDATAEndTagOpen \/ RCDATAEndTagName
    \/ RAWTEXTLessThanSign \/ RAWTEXTEndTagOpen \/ RAWTEXTEndTagName

---------------------------------------------------------------------------
(* Tags *)

TagOpen ==
    /\ Consuming("TAG_OPEN")
    /\ \/ Is({"letter"}) /\ Create("START_TAG") /\ Reconsume("TAG_NAME")
       \/ Is({"bang"}) /\ Goto("MARKUP_DECLARATION_OPEN") /\ Keep
       \/ Is({"slash"}) /\ Goto("END_TAG_OPEN") /\ Keep
       \/ Is({"question"}) /\ Create("COMMENT") /\ Reconsume("BOGUS_COMMENT")
       \/ Else({"letter", "bang", "slash", "question"}) /\ EmitCharacter /\ Reconsume("DATA")

EndTagOpen ==
    /\ Consuming("END_TAG_OPEN")
    /\ \/ Is({"letter"}) /\ Create("END_TAG") /\ Reconsume("TAG_NAME")
       \/ Is({"gt"}) /\ Goto("DATA") /\ Keep
       \/ Else({"letter", "gt"}) /\ Create("COMMENT") /\ Reconsume("BOGUS_COMMENT")

TagName ==
    /\ Consuming("TAG_NAME")
    /\ \/ Is({"space"}) /\ Goto("BEFORE_ATTRIBUTE_NAME") /\ Keep
       \/ Is({"slash"}) /\ Goto("SELF_CLOSING_START_TAG") /\ Keep
       \/ Is({"gt"}) /\ Emit
       \/ Else({"space", "slash", "gt"}) /\ Keep /\ Stay

BeforeAttributeName ==
    /\ Consuming("BEFORE_ATTRIBUTE_NAME")
    /\ \/ Is({"space"}) /\ Stay /\ Keep
       \/ Is({"slash", "gt"}) /\ Keep /\ Reconsume("AFTER_ATTRIBUTE_NAME")
       \/ Is({"equals"}) /\ NewAttribute /\ Goto("ATTRIBUTE_NAME")
       \/ Else({"space", "slash", "gt", "equals"}) /\ NewAttribute /\ Reconsume("ATTRIBUTE_NAME")

AttributeName ==
    /\ Consuming("ATTRIBUTE_NAME") /\ Keep
    /\ \/ Is({"space", "slash", "gt"}) /\ Reconsume("AFTER_ATTRIBUTE_NAME")
       \/ Is({"equals"}) /\ Goto("BEFORE_ATTRIBUTE_VALUE")
       \/ Else({"space", "slash", "gt", "equals"}) /\ Stay

\* A ">" here, and in two states below, is emitted as a character; the tag is not emitted.
LoseTag == Goto("DATA") /\ EmitCharacter

AfterAttributeNameNoEnd == \* Mutant: ">" is not told from other characters.
    /\ Consuming("AFTER_ATTRIBUTE_NAME")
    /\ \/ Is({"space"}) /\ Stay /\ Keep
       \/ Is({"slash"}) /\ Keep /\ Reconsume("SELF_CLOSING_START_TAG")
       \/ Is({"equals"}) /\ Keep /\ Reconsume("BEFORE_ATTRIBUTE_VALUE")
       \/ Else({"space", "slash", "equals"}) /\ NewAttribute /\ Reconsume("ATTRIBUTE_NAME")
AfterAttributeName ==
    /\ Consuming("AFTER_ATTRIBUTE_NAME")
    /\ \/ Is({"space"}) /\ Stay /\ Keep
       \/ Is({"slash"}) /\ Keep /\ Reconsume("SELF_CLOSING_START_TAG")
       \/ Is({"equals"}) /\ Keep /\ Reconsume("BEFORE_ATTRIBUTE_VALUE")
       \/ Is({"gt"}) /\ LoseTag
       \/ Else({"space", "slash", "equals", "gt"}) /\ NewAttribute /\ Reconsume("ATTRIBUTE_NAME")

BeforeAttributeValue ==
    /\ Consuming("BEFORE_ATTRIBUTE_VALUE")
    /\ \/ Is({"space"}) /\ Stay /\ Keep
       \/ Is({"dquote"}) /\ Goto("ATTRIBUTE_VALUE_DOUBLE_QUOTED") /\ Keep
       \/ Is({"squote"}) /\ Goto("ATTRIBUTE_VALUE_SINGLE_QUOTED") /\ Keep
       \/ Is({"gt"}) /\ LoseTag
       \/ Else({"space", "dquote", "squote", "gt"}) /\ Keep /\ Reconsume("ATTRIBUTE_VALUE_UNQUOTED")

QuotedValue(s, quote) ==
    /\ Consuming(s) /\ Keep
    /\ \/ Is({quote}) /\ Goto("AFTER_ATTRIBUTE_VALUE_QUOTED")
       \/ Else({quote, "amp"}) /\ Stay

AttributeValueDoubleQuoted == QuotedValue("ATTRIBUTE_VALUE_DOUBLE_QUOTED", "dquote")
AttributeValueSingleQuoted == QuotedValue("ATTRIBUTE_VALUE_SINGLE_QUOTED", "squote")
AttributeValueUnquoted ==
    /\ Consuming("ATTRIBUTE_VALUE_UNQUOTED")
    /\ \/ Is({"space"}) /\ Goto("BEFORE_ATTRIBUTE_NAME") /\ Keep
       \/ Is({"gt"}) /\ LoseTag
       \/ Else({"space", "gt", "amp"}) /\ Stay /\ Keep

AfterAttributeValueQuoted ==
    /\ Consuming("AFTER_ATTRIBUTE_VALUE_QUOTED")
    /\ \/ Is({"space"}) /\ Goto("BEFORE_ATTRIBUTE_NAME") /\ Keep
       \/ Is({"slash"}) /\ Goto("SELF_CLOSING_START_TAG") /\ Keep
       \/ Is({"gt"}) /\ Emit
       \/ Else({"space", "slash", "gt"}) /\ Keep /\ Reconsume("BEFORE_ATTRIBUTE_NAME")

SelfClosingStartTag ==
    /\ Consuming("SELF_CLOSING_START_TAG")
    /\ \/ Is({"gt"}) /\ Emit
       \/ Else({"gt"}) /\ Keep /\ Reconsume("BEFORE_ATTRIBUTE_NAME")

TagStates ==
    \/ TagOpen \/ EndTagOpen \/ TagName \/ BeforeAttributeName \/ AttributeName \/ AfterAttributeName \/ BeforeAttributeValue
    \/ AttributeValueDoubleQuoted \/ AttributeValueSingleQuoted \/ AttributeValueUnquoted \/ AfterAttributeValueQuoted
    \/ SelfClosingStartTag

---------------------------------------------------------------------------
(* Comments. The character after a look-ahead that succeeds is skipped, as *)
(* is the one after "<!" when none does: consumeNext() steps on first.     *)

MarkupDeclarationOpen ==
    /\ calling /\ where # "end" /\ state = "MARKUP_DECLARATION_OPEN" /\ health = "ok"
    /\ \/ Is({"dash"}) /\ Create("COMMENT") /\ Goto("COMMENT_START") /\ UNCHANGED health
       \/ Is({"letter"}) /\ Keep /\ Goto("DOCTYPE") /\ UNCHANGED health
       \/ Is({"other"}) /\ Keep /\ Stay /\ health' = "exit" \* [CDATA[
       \/ Create("COMMENT") /\ Goto("BOGUS_COMMENT") /\ UNCHANGED health
    /\ UNCHANGED <<returnState, codepoint, where, stop>>

BogusComment ==
    /\ Consuming("BOGUS_COMMENT")
    /\ \/ Is({"gt"}) /\ Emit
       \/ Else({"gt"}) /\ Keep /\ Stay

\* A state that waits for one character, and has any other consumed again
Waits(for, next, otherwise) ==
    \/ Is({for}) /\ Keep /\ Goto(next)
    \/ Else({for}) /\ Keep /\ Reconsume(otherwise)
\* The same where ">" ends the token
WaitsOrEnds(for, next, otherwise) ==
    \/ Is({"gt"}) /\ Emit
    \/ Else({"gt"}) /\ Waits(for, next, otherwise)

CommentStart == Consuming("COMMENT_START") /\ WaitsOrEnds("dash", "COMMENT_START_DASH", "COMMENT")
CommentStartDash == Consuming("COMMENT_START_DASH") /\ WaitsOrEnds("dash", "COMMENT_END", "COMMENT")
Comment ==
    /\ Consuming("COMMENT") /\ Keep
    /\ \/ Is({"lt"}) /\ Goto("COMMENT_LESS_THAN_SIGN")
       \/ Is({"dash"}) /\ Goto("COMMENT_END_DASH")
       \/ Else({"lt", "dash"}) /\ Stay
CommentLessThanSign ==
    /\ Consuming("COMMENT_LESS_THAN_SIGN")
    /\ \/ Is({"lt"}) /\ Keep /\ Stay
       \/ Else({"lt"}) /\ Waits("bang", "COMMENT_LESS_THAN_SIGN_BANG", "COMMENT")
CommentLessThanSignBang ==
    Consuming("COMMENT_LESS_THAN_SIGN_BANG") /\ Waits("dash", "COMMENT_LESS_THAN_SIGN_BANG_DASH", "COMMENT")
CommentLessThanSignBangDash ==
    /\ Consuming("COMMENT_LESS_THAN_SIGN_BANG_DASH")
    /\ Waits("dash", "COMMENT_LESS_THAN_SIGN_BANG_DASH_DASH", "COMMENT_END_DASH")
CommentLessThanSignBangDashDash ==
    Consuming("COMMENT_LESS_THAN_SIGN_BANG_DASH_DASH") /\ Keep /\ Reconsume("COMMENT_END")
CommentEndDash == Consuming("COMMENT_END_DASH") /\ Waits("dash", "COMMENT_END", "COMMENT")
CommentEnd ==
    /\ Consuming("COMMENT_END")
    /\ \/ Is({"dash"}) /\ Keep /\ Stay
       \/ Else({"dash"}) /\ WaitsOrEnds("bang", "COMMENT_END_BANG", "COMMENT")
CommentEndBang == Consuming("COMMENT_END_BANG") /\ WaitsOrEnds("dash", "COMMENT_END_DASH", "COMMENT")

Comments ==
    \/ MarkupDeclarationOpen \/ BogusComment \/ CommentStart \/ CommentStartDash \/ Comment \/ CommentLessThanSign
    \/ CommentLessThanSignBang \/ CommentLessThanSignBangDash \/ CommentLessThanSignBangDashDash \/ CommentEndDash
    \/ CommentEnd \/ CommentEndBang

---------------------------------------------------------------------------
(* DOCTYPE *)

DOCTYPE ==
    /\ Consuming("DOCTYPE") /\ Keep
    /\ \/ Is({"space"}) /\ Goto("BEFORE_DOCTYPE_NAME")
       \/ Else({"space"}) /\ Reconsume("BEFORE_DOCTYPE_NAME")

EmitNew(type) == token' = New(type) /\ Goto("DATA")

BeforeDOCTYPEName ==
    /\ Consuming("BEFORE_DOCTYPE_NAME")
    /\ \/ Is({"space"}) /\ Keep /\ Stay
       \/ Is({"gt"}) /\ EmitNew("DOCTYPE")
       \/ Else({"space", "gt"}) /\ token' = [New("DOCTYPE") EXCEPT !.has = {"name"}] /\ Goto("DOCTYPE_NAME")

DOCTYPEName ==
    /\ Consuming("DOCTYPE_NAME")
    /\ \/ Is({"space"}) /\ Keep /\ Goto("AFTER_DOCTYPE_NAME")
       \/ Is({"gt"}) /\ Emit
       \/ Else({"space", "gt"}) /\ Keep /\ Stay

SpaceOrEnd ==
    \/ Is({"space"}) /\ Keep /\ Stay
    \/ Is({"gt"}) /\ Emit
OrBogus(S) == Else(S \cup {"gt"}) /\ Keep /\ Reconsume("BOGUS_DOCTYPE")

\* The look-ahead finds PUBLIC or SYSTEM, or neither.
AfterDOCTYPEName ==
    /\ Consuming("AFTER_DOCTYPE_NAME")
    /\ \/ SpaceOrEnd
       \/ Is({"letter"}) /\ Keep /\ Goto("AFTER_DOCTYPE_PUBLIC_KEYWORD")
       \/ Is({"letter"}) /\ Keep /\ Goto("AFTER_DOCTYPE_SYSTEM_KEYWORD")
       \/ OrBogus({"space"})

Quotes == {"dquote", "squote"}
Quoted == [public |-> [dquote |-> "DOCTYPE_PUBLIC_IDENTIFIER_DOUBLE_QUOTED", squote |-> "DOCTYPE_PUBLIC_IDENTIFIER_SINGLE_QUOTED"],
           system |-> [dquote |-> "DOCTYPE_SYSTEM_IDENTIFIER_DOUBLE_QUOTED", squote |-> "DOCTYPE_SYSTEM_IDENTIFIER_SINGLE_QUOTED"]]

\* What may follow a keyword or an identifier: a quote begins the next identifier.
Opens(which) == Is(Quotes) /\ Goto(Quoted[which][codepoint]) /\ Allocate(which)
SpaceTo(s) == Is({"space"}) /\ Keep /\ Goto(s)

\* The quote after PUBLIC allocates nothing.
AfterDOCTYPEPublicKeyword ==
    /\ Consuming("AFTER_DOCTYPE_PUBLIC_KEYWORD")
    /\ \/ SpaceTo("BEFORE_DOCTYPE_PUBLIC_IDENTIFIER")
       \/ Is(Quotes) /\ Keep /\ Goto(Quoted.public[codepoint])
       \/ Is({"gt"}) /\ Emit
       \/ OrBogus({"space"} \cup Quotes)
BeforeDOCTYPEPublicIdentifier ==
    Consuming("BEFORE_DOCTYPE_PUBLIC_IDENTIFIER") /\ (SpaceOrEnd \/ Opens("public") \/ OrBogus({"space"} \cup Quotes))
AfterDOCTYPEPublicIdentifier ==
    /\ Consuming("AFTER_DOCTYPE_PUBLIC_IDENTIFIER")
    /\ \/ SpaceTo("BETWEEN_DOCTYPE_PUBLIC_AND_SYSTEM_IDENTIFIERS")
       \/ Opens("system")
       \/ Is({"gt"}) /\ Emit
       \/ OrBogus({"space"} \cup Quotes)
BetweenDOCTYPEPublicAndSystemIdentifiers ==
    Consuming("BETWEEN_DOCTYPE_PUBLIC_AND_SYSTEM_IDENTIFIERS") /\ (SpaceOrEnd \/ Opens("system") \/ OrBogus({"space"} \cup Quotes))
AfterDOCTYPESystemKeyword ==
    /\ Consuming("AFTER_DOCTYPE_SYSTEM_KEYWORD")
    /\ \/ SpaceTo("BEFORE_DOCTYPE_SYSTEM_IDENTIFIER")
       \/ Opens("system")
       \/ Is({"gt"}) /\ Emit
       \/ OrBogus({"space"} \cup Quotes)
BeforeDOCTYPESystemIdentifier ==
    Consuming("BEFORE_DOCTYPE_SYSTEM_IDENTIFIER") /\ (SpaceOrEnd \/ Opens("system") \/ OrBogus({"space"} \cup Quotes))
AfterDOCTYPESystemIdentifier == Consuming("AFTER_DOCTYPE_SYSTEM_IDENTIFIER") /\ (SpaceOrEnd \/ OrBogus({"space"}))
BogusDOCTYPE ==
    /\ Consuming("BOGUS_DOCTYPE")
    /\ \/ Is({"gt"}) /\ Emit
       \/ Else({"gt"}) /\ Keep /\ Stay

\* Inside the quotes: a character is appended to a string that must be there.
Identifier(which, quote, next) ==
    /\ calling /\ where # "end" /\ state = Quoted[which][quote] /\ health = "ok"
    /\ \/ Is({quote}) /\ Keep /\ Goto(next)
       \/ Is({"gt"}) /\ Emit
       \/ Else({quote, "gt"}) /\ Keep /\ Stay
    /\ health' = IF Is({quote, "gt"}) \/ which \in token.has THEN "ok" ELSE "null"
    /\ UNCHANGED <<returnState, codepoint, where, stop>>

DOCTYPEPublicIdentifierDoubleQuoted == Identifier("public", "dquote", "AFTER_DOCTYPE_PUBLIC_IDENTIFIER")
DOCTYPEPublicIdentifierSingleQuoted == Identifier("public", "squote", "AFTER_DOCTYPE_PUBLIC_IDENTIFIER")
DOCTYPESystemIdentifierDoubleQuoted == Identifier("system", "dquote", "AFTER_DOCTYPE_SYSTEM_IDENTIFIER")
DOCTYPESystemIdentifierSingleQuoted == Identifier("system", "squote", "AFTER_DOCTYPE_SYSTEM_IDENTIFIER")

Doctypes ==
    \/ DOCTYPE \/ BeforeDOCTYPEName \/ DOCTYPEName \/ AfterDOCTYPEName \/ AfterDOCTYPEPublicKeyword
    \/ BeforeDOCTYPEPublicIdentifier \/ AfterDOCTYPEPublicIdentifier \/ BetweenDOCTYPEPublicAndSystemIdentifiers
    \/ AfterDOCTYPESystemKeyword \/ BeforeDOCTYPESystemIdentifier \/ AfterDOCTYPESystemIdentifier \/ BogusDOCTYPE
    \/ DOCTYPEPublicIdentifierDoubleQuoted \/ DOCTYPEPublicIdentifierSingleQuoted
    \/ DOCTYPESystemIdentifierDoubleQuoted \/ DOCTYPESystemIdentifierSingleQuoted

---------------------------------------------------------------------------
(* Character references *)

ValueStates == {"ATTRIBUTE_VALUE_DOUBLE_QUOTED", "ATTRIBUTE_VALUE_SINGLE_QUOTED", "ATTRIBUTE_VALUE_UNQUOTED"}

\* nh_html_flushCharacterReference(): to the current attribute, or as text
Flush == IF returnState \in ValueStates THEN Keep ELSE EmitCharacter

CharacterReference ==
    /\ Consuming("CHARACTER_REFERENCE")
    /\ \/ Is({"letter", "digit"}) /\ Keep /\ Reconsume("NAMED_CHARACTER_REFERENCE")
       \/ Is({"hash"}) /\ Keep /\ Goto("NUMERIC_CHARACTER_REFERENCE")
       \/ Else({"letter", "digit", "hash"}) /\ Flush /\ Reconsume(returnState)

\* It reads on while what it has read begins a name, up to the end; what it read last is consumed again.
NamedCharacterReference ==
    /\ calling /\ where # "end" /\ state = "NAMED_CHARACTER_REFERENCE" /\ health = "ok"
    /\ Flush
    /\ Reconsume(returnState) \/ Reconsume("AMBIGUOUS_AMPERSAND")
    /\ \/ where' = "inside" /\ codepoint' \in Codepoints
       \/ where' = "end" /\ codepoint' = codepoint
    /\ UNCHANGED <<returnState, stop, health>>

\* States without a handler
Unwritten == {"NUMERIC_CHARACTER_REFERENCE", "AMBIGUOUS_AMPERSAND"}
Exit ==
    /\ calling /\ where # "end" /\ state \in Unwritten /\ health = "ok"
    /\ health' = "exit"
    /\ UNCHANGED <<state, returnState, token, codepoint, where, calling, stop>>

References == CharacterReference \/ NamedCharacterReference \/ Exit

---------------------------------------------------------------------------
(* The end of the input: nh_html_handleEOF(), by state *)

EmitEOF == stop' = TRUE /\ calling' = FALSE /\ Keep /\ UNCHANGED state
Handled(S) == calling /\ where = "end" /\ state \in S /\ health = "ok" /\ UNCHANGED <<returnState, codepoint, where, health>>

EndsText == {"DATA", "RCDATA", "RAWTEXT", "PLAINTEXT", "TAG_OPEN", "END_TAG_OPEN"}
EndsTag == {"TAG_NAME", "AFTER_ATTRIBUTE_NAME", "AFTER_ATTRIBUTE_VALUE_QUOTED", "SELF_CLOSING_START_TAG"} \cup ValueStates
EndsComment == {"BOGUS_COMMENT", "COMMENT_START_DASH", "COMMENT", "COMMENT_END_DASH", "COMMENT_END"}
BeforeDoctype == {"DOCTYPE", "BEFORE_DOCTYPE_NAME"}
EndsDoctype ==
    {"DOCTYPE_NAME", "AFTER_DOCTYPE_NAME", "AFTER_DOCTYPE_PUBLIC_KEYWORD", "BEFORE_DOCTYPE_PUBLIC_IDENTIFIER",
     "AFTER_DOCTYPE_PUBLIC_IDENTIFIER", "BETWEEN_DOCTYPE_PUBLIC_AND_SYSTEM_IDENTIFIERS", "AFTER_DOCTYPE_SYSTEM_KEYWORD",
     "BEFORE_DOCTYPE_SYSTEM_IDENTIFIER", "AFTER_DOCTYPE_SYSTEM_IDENTIFIER", "BOGUS_DOCTYPE"}
        \cup {Quoted[which][quote] : which \in {"public", "system"}, quote \in Quotes}

\* The state in which the end is handled again; a text state gets its "<" back first.
BackToText ==
    [s \in {"RCDATA_LESS_THAN_SIGN", "RCDATA_END_TAG_OPEN", "RCDATA_END_TAG_NAME",
             "RAWTEXT_LESS_THAN_SIGN", "RAWTEXT_END_TAG_OPEN", "RAWTEXT_END_TAG_NAME"} |->
        IF s \in {"RCDATA_LESS_THAN_SIGN", "RCDATA_END_TAG_OPEN", "RCDATA_END_TAG_NAME"} THEN "RCDATA" ELSE "RAWTEXT"]

HandsOn ==
    {"BEFORE_ATTRIBUTE_NAME", "ATTRIBUTE_NAME", "BEFORE_ATTRIBUTE_VALUE", "COMMENT_START", "COMMENT_LESS_THAN_SIGN",
     "COMMENT_LESS_THAN_SIGN_BANG", "COMMENT_LESS_THAN_SIGN_BANG_DASH", "COMMENT_LESS_THAN_SIGN_BANG_DASH_DASH"}
HandledAsBang == \* Mutant: "<!--" inside a comment goes on as the end of a comment with "!".
    [s \in HandsOn |->
        CASE s \in {"BEFORE_ATTRIBUTE_NAME", "ATTRIBUTE_NAME"} -> "AFTER_ATTRIBUTE_NAME"
          [] s = "BEFORE_ATTRIBUTE_VALUE" -> "ATTRIBUTE_VALUE_UNQUOTED"
          [] s = "COMMENT_LESS_THAN_SIGN_BANG_DASH" -> "COMMENT_END_DASH"
          [] s = "COMMENT_LESS_THAN_SIGN_BANG_DASH_DASH" -> "COMMENT_END_BANG"
          [] OTHER -> "COMMENT"]
HandledAs ==
    [s \in HandsOn |->
        CASE s \in {"BEFORE_ATTRIBUTE_NAME", "ATTRIBUTE_NAME"} -> "AFTER_ATTRIBUTE_NAME"
          [] s = "BEFORE_ATTRIBUTE_VALUE" -> "ATTRIBUTE_VALUE_UNQUOTED"
          [] s = "COMMENT_LESS_THAN_SIGN_BANG_DASH" -> "COMMENT_END_DASH"
          [] s = "COMMENT_LESS_THAN_SIGN_BANG_DASH_DASH" -> "COMMENT_END"
          [] OTHER -> "COMMENT"]

EndOfInput == Handled(EndsText \cup EndsTag \cup EndsComment \cup EndsDoctype) /\ EmitEOF
EndInDoctype == Handled(BeforeDoctype) /\ Create("DOCTYPE") /\ stop' = TRUE /\ calling' = FALSE /\ UNCHANGED state
EndInText == Handled(DOMAIN BackToText) /\ EmitCharacter /\ Reconsume(BackToText[state]) /\ UNCHANGED stop
EndAgain == Handled(DOMAIN HandledAs) /\ Keep /\ Reconsume(HandledAs[state]) /\ UNCHANGED stop
EndInReference == Handled({"CHARACTER_REFERENCE"}) /\ Flush /\ Reconsume(returnState) /\ UNCHANGED stop

\* After "<!" a comment is begun and not ended; three states are not handled.
Lost == {"MARKUP_DECLARATION_OPEN", "COMMENT_END_BANG"} \cup Unwritten
EndInDeclaration == Handled({"MARKUP_DECLARATION_OPEN"}) /\ Create("COMMENT") /\ Goto("BOGUS_COMMENT") /\ UNCHANGED stop
EndUnhandled == Handled(Lost \ {"MARKUP_DECLARATION_OPEN"}) /\ Keep /\ Stay /\ UNCHANGED stop

HandleEOF ==
    EndOfInput \/ EndInDoctype \/ EndInText \/ EndAgain \/ EndInReference \/ EndInDeclaration \/ EndUnhandled

TokenizerNext == ConsumeNext \/ Texts \/ TagStates \/ Comments \/ Doctypes \/ References \/ HandleEOF
TokenizerSpec == TokenizerInit /\ [][TokenizerNext]_vars /\ WF_vars(TokenizerNext)

---------------------------------------------------------------------------
(* Properties *)

InTag == {"TAG_NAME", "BEFORE_ATTRIBUTE_NAME", "AFTER_ATTRIBUTE_NAME", "RCDATA_END_TAG_NAME", "RAWTEXT_END_TAG_NAME",
    "AFTER_ATTRIBUTE_VALUE_QUOTED", "SELF_CLOSING_START_TAG"}
InAttribute == {"ATTRIBUTE_NAME", "BEFORE_ATTRIBUTE_VALUE"} \cup ValueStates
InComment == EndsComment \cup {"COMMENT_END_BANG"} \cup {s \in DOMAIN HandledAs : HandledAs[s] \in EndsComment}

\* The token is a union: a handler that appends to a name, to an attribute,
\* to a comment or to a DOCTYPE finds a token of that kind, with the
\* attribute, whatever led there. Character references use the attribute
\* when they return. (The public identifier of
\* a DOCTYPE need not be there: health is "null" then.)
TokenFits ==
    health = "ok" =>
        LET user == IF state \in {"CHARACTER_REFERENCE", "NAMED_CHARACTER_REFERENCE"} THEN returnState ELSE state
        IN  /\ user \in InTag \cup InAttribute => token.type \in {"START_TAG", "END_TAG"}
            /\ user \in InAttribute => "attribute" \in token.has
            /\ user \in InComment => token.type = "COMMENT"
            /\ user \in EndsDoctype => token.type = "DOCTYPE"
            /\ user = "DOCTYPE_NAME" => "name" \in token.has

\* However often a code point is consumed again, the handlers come to an
\* end: none but "/", which goes round after a space in a tag for ever.
Consumed ==
    (calling /\ where = "inside" /\ codepoint # "slash") ~> (~calling \/ health # "ok" \/ codepoint = "slash")

\* The end of the input reaches the tree builder from every state but the
\* Lost ones, also through states that hand it on.
EndSeen == (calling /\ where = "end" /\ state \notin Lost) ~> stop
=============================================================================
