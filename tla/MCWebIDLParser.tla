-------------------------- MODULE MCWebIDLParser --------------------------
(* Definitions and members in the shapes of the built-in fragments           *)
(* (src/build/data/idl), and the ones of the standard that the parser        *)
(* cannot read.  "name" is the name a member is found under.                 *)
EXTENDS WebIDLParser

Member(text, name) == [text |-> text, name |-> name, reads |-> TRUE, late |-> FALSE, static |-> FALSE]
Late(text, name) == [Member(text, name) EXCEPT !.late = TRUE]
Static(text) == [Member(text, NoName) EXCEPT !.static = TRUE]
Unreadable(text) == [Member(text, NoName) EXCEPT !.reads = FALSE]

MemberShapes == {
    Member(<<"const", "unsigned", "short", "NONE", "=", "0", ";">>, "NONE"),
    Member(<<"[", "Throws", "]", "Node", "append", "(", "optional", "DOMString", "data", "=", "''", ")", ";">>, "append"),
    Member(<<"getter", "DOMString", "?", "(", "unsigned", "long", "index", ")", ";">>, NoName),
    \* read as an operation that returns a "getter" and is called by its type
    Member(<<"getter", "Element", "(", "DOMString", "key", ")", ";">>, "Element"),
    Member(<<"stringifier", ";">>, NoName),
    Late(<<"iterable", "<", "USVString", ",", "Node", ">", ";">>, NoName),
    Late(<<"readonly", "attribute", "(", "Node", "or", "DOMString", ")", "target", ";">>, "target"),
    \* a keyword as a name is a node of its own
    Late(<<"attribute", "boolean", "async", ";">>, NoName),
    Static(<<"static", "Node", "abort", "(", ")", ";">>),
    Unreadable(<<"Node", "insertRow", "(", "optional", "long", "index", "=", "-", "1", ")", ";">>),
    Unreadable(<<"attribute", "sequence", "<", "sequence", "<", "Node", ">", ">", "rows", ";">>)}

Definition(kind, name, parent, opening, closing) ==
    [kind |-> kind, name |-> name, parent |-> parent, opening |-> opening, closing |-> closing,
     holds |-> kind \in {"interface", "partial"}, reads |-> TRUE]
Other(text) == Definition("other", "", <<>>, text, <<>>)

DefinitionShapes == {
    Definition("interface", "A", <<>>, <<"[", "Exposed", "=", "(", "Window", ",", "Worker", ")", "]", "interface", "A", "{">>, <<"}", ";">>),
    Definition("interface", "B", <<"A", "DOM">>, <<"interface", "B", ":", "A", "@", "DOM", "{">>, <<"}", ";">>),
    Definition("partial", "A", <<>>, <<"partial", "interface", "A", "{">>, <<"}", ";">>),
    Other(<<"interface", "mixin", "M", "{", "readonly", "attribute", "Node", "root", ";", "}", ";", "A", "includes", "M", ";">>),
    Other(<<"dictionary", "D", "{", "required", "DOMString", "type", ";", "boolean", "bubbles", "=", "false", ";", "}", ";">>),
    Other(<<"enum", "E", "{", "''", ",", "''", "}", ";", "callback", "F", "=", "undefined", "(", "any", "...", "data", ")", ";">>),
    Other(<<"callback", "interface", "L", "{", "undefined", "handle", "(", "Event", "event", ")", ";", "}", ";">>),
    Other(<<"typedef", "(", "Node", "or", "sequence", "<", "Node", ">", ")", "T", ";">>),
    [Other(<<"dictionary", "G", "{", "long", "delta", "=", "-", "1", ";", "}", ";">>) EXCEPT !.reads = FALSE]}

MCShapes == [members |-> MemberShapes, definitions |-> DefinitionShapes]
=============================================================================
