---------------------------- MODULE WebIDLParser ----------------------------
(***************************************************************************)
(* nh-webidl: how the fragments of interface definitions that are built     *)
(* into the library become the interfaces the rest of it looks up.          *)
(* nh_webidl_createGlobal() tokenizes, parses and loads them one by one;    *)
(* nobody looks at syntax errors: a definition the parser does not know     *)
(* ends its fragment, and what comes behind it does not exist.              *)
(*                                                                         *)
(* The environment writes a fragment, definition by definition and member   *)
(* by member, in shapes that the built-in fragments (or the standard) have. *)
(***************************************************************************)
EXTENDS WebIDLGrammar, FiniteSets, SequencesExt

CONSTANTS
    Numbers, Quoted,        \* the number and string tokens that occur
    Shapes,                 \* members and definitions as they are written
    MaxDefinitions, MaxMembers, MaxFragments

VARIABLES
    writing,                \* the definitions of the fragment being written
    fragments               \* the fragments that are loaded: as written, and the interfaces made

vars == <<writing, fragments>>

---------------------------------------------------------------------------
(* The tokenizer: names, numbers and strings are symbols of the text as     *)
(* they stand; punctuators next to each other become one token, the longest *)
(* there is.                                                                *)

Punctuators == {"{", "}", "(", ")", "[", "]", ".", ";", ",", "<", ">", "+", "-", "*", "?", ":", "@", "="}

Joined == (<<">", ">">> :> ">>") @@ (<<">", ">", ">">> :> ">>>") @@ (<<">", "=">> :> ">=")
          @@ (<<">", ">", "=">> :> ">>=") @@ (<<"<", "<">> :> "<<") @@ (<<"=", "=">> :> "==")
          @@ (<<".", ".", ".">> :> "...") @@ (<<"?", "?">> :> "??") @@ (<<"?", ".">> :> "?.")
          @@ (<<"-", "-">> :> "--")

Initial == [t \in Punctuators \cup Range(Joined) |->
                IF t \in Punctuators THEN t ELSE Head(CHOOSE s \in DOMAIN Joined : Joined[s] = t)]

RECURSIVE Tokens(_)
Tokens(text) ==
    IF text = <<>> THEN <<>>
    ELSE LET longer == {n \in 2..3 : n <= Len(text) /\ SubSeq(text, 1, n) \in DOMAIN Joined}
             n == IF longer = {} THEN 1 ELSE CHOOSE m \in longer : \A k \in longer : k <= m
             token == IF n = 1 THEN <<text[1]>> ELSE <<Joined[SubSeq(text, 1, n)]>>
             rest == Tokens(SubSeq(text, n + 1, Len(text)))
         IN (IF text[1] = " " THEN <<>> ELSE token) \o rest

---------------------------------------------------------------------------
(* The parser.  Every test of a single character looks at the first one of  *)
(* the token only.                                                          *)

IsIdentifier(t) == t \notin Numbers \cup Quoted \cup DOMAIN Initial

Matches(t, item) ==
    CASE item = "identifier" -> IsIdentifier(t)
      [] item = "number" -> t \in Numbers
      [] item = "string" -> t \in Quoted
      [] item = "other" -> t \notin {",", "(", "[", "{", ")", "]", "}"}
      [] item \in Punctuators -> t \in DOMAIN Initial /\ Initial[t] = item
      [] OTHER -> t = item

Leaf(t) == [symbol |-> "token", text |-> t, children |-> <<>>]
Node(symbol, children) == [symbol |-> symbol, text |-> "", children |-> children]
Failed(at) == [ok |-> FALSE, node |-> Leaf(""), at |-> at]

RECURSIVE Parse(_, _, _), Try(_, _, _, _), Follow(_, _, _, _)

\* the items from here on, each behind the one before
Follow(tokens, items, at, children) ==
    IF items = <<>> THEN [ok |-> TRUE, children |-> children, at |-> at]
    ELSE LET item == Head(items)
             seen == item \in DOMAIN Peeks
             class == IF seen THEN Peeks[item] ELSE item
         IN IF item \in DOMAIN Grammar
            THEN LET r == Parse(tokens, item, at)
                 IN IF r.ok THEN Follow(tokens, Tail(items), r.at, Append(children, r.node))
                    ELSE [ok |-> FALSE, children |-> <<>>, at |-> r.at]
            ELSE IF at <= Len(tokens) /\ Matches(tokens[at], class)
            THEN Follow(tokens, Tail(items), IF seen THEN at ELSE at + 1, Append(children, Leaf(tokens[at])))
            ELSE [ok |-> FALSE, children |-> <<>>, at |-> at]

\* the alternatives from the n-th on, each where the one before left the parser
Try(tokens, symbol, n, at) ==
    IF n > Len(Grammar[symbol]) THEN Failed(at)
    ELSE LET alternative == Grammar[symbol][n]
             r == Follow(tokens, alternative.items, at, <<>>)
         IN IF r.ok /\ ~alternative.dropped
            THEN [ok |-> TRUE, node |-> Node(symbol, r.children), at |-> r.at]
            ELSE IF alternative.committed /\ at <= Len(tokens) /\ tokens[at] = Head(alternative.items)
            THEN Failed(at)
            ELSE Try(tokens, symbol, n + 1, IF alternative.local THEN at ELSE r.at)

Parse(tokens, symbol, at) == Try(tokens, symbol, 1, at)

RECURSIVE ParseNodes(_, _)
ParseNodes(node, symbol) ==
    (IF node.symbol = symbol THEN <<node>> ELSE <<>>)
    \o FlattenSeq([i \in DOMAIN node.children |-> ParseNodes(node.children[i], symbol)])

---------------------------------------------------------------------------
(* Interfaces *)

NoName == "NULL"

\* the only name below, unless a keyword stands there
NameBelow(node, symbol) ==
    LET names == ParseNodes(node, symbol)
    IN IF Len(names) = 1 /\ names[1].children[1].symbol = "token" THEN names[1].children[1].text ELSE NoName

\* not in the switch: attributes
MemberNameOfOperations(node) ==
    CASE node.symbol = "Const" -> node.children[3].text
      [] node.symbol = "Operation" -> NameBelow(node, "OperationName")
      [] OTHER -> NoName

MemberName(node) ==
    CASE node.symbol = "Const" -> node.children[3].text
      [] node.symbol \in {"ReadOnlyMember", "ReadWriteAttribute"} -> NameBelow(node, "AttributeName")
      [] node.symbol = "Operation" -> NameBelow(node, "OperationName")
      [] OTHER -> NoName

InterfaceMembers(rest, partial) ==
    LET Member(node) == [kind |-> node.symbol, name |-> MemberName(node)]
        Inner(node) == IF ~partial /\ node.children[1].symbol = "PartialInterfaceMember"
                       THEN node.children[1].children[1] ELSE node.children[1]
        nodes == ParseNodes(rest, IF partial THEN "PartialInterfaceMember" ELSE "InterfaceMember")
    IN [i \in DOMAIN nodes |-> Member(Inner(nodes[i]))]

\* name and specification of the parent, if the definition has one
InterfaceInheritance(rest) ==
    LET found == ParseNodes(rest, "Inheritance")
    IN IF Len(found) = 1 /\ found[1].children # <<>>
       THEN LET specifier == found[1].children[3].children
            IN <<found[1].children[2].text, IF specifier = <<>> THEN NoName ELSE specifier[2].text>>
       ELSE <<>>

CreateInterface(rest, partial) ==
    [name |-> rest.children[1].text, partial |-> partial,
     members |-> InterfaceMembers(rest, partial), inheritance |-> InterfaceInheritance(rest)]

\* all interfaces first, then all partial ones
CreateInterfaces(root) ==
    LET whole == ParseNodes(root, "InterfaceRest")
        partial == ParseNodes(root, "PartialInterfaceRest")
    IN [i \in DOMAIN whole |-> CreateInterface(whole[i], FALSE)]
       \o [i \in DOMAIN partial |-> CreateInterface(partial[i], TRUE)]

\* the first of that name in a fragment
InterfaceFromFragment(fragment, name) ==
    SelectInSeq(fragment.interfaces, LAMBDA i : i.name = name)

\* one interface of that name of each fragment, in the order the fragments were loaded
CompositeInterfaces(loaded, name) ==
    LET having == SelectSeq(loaded, LAMBDA f : InterfaceFromFragment(f, name) # 0)
    IN [k \in DOMAIN having |-> having[k].interfaces[InterfaceFromFragment(having[k], name)]]

---------------------------------------------------------------------------
(* A definition as it is written: its shape, its name and its members.      *)

Text(definition) ==
    definition.shape.opening
    \o FlattenSeq([i \in DOMAIN definition.members |-> definition.members[i].text])
    \o definition.shape.closing

FragmentText(definitions) == FlattenSeq([i \in DOMAIN definitions |-> Text(definitions[i])])

Init == writing = <<>> /\ fragments = <<>>

Size(definitions) == FoldSeq(LAMBDA d, n : n + Len(d.members), 0, definitions)
Definitions(loaded) == FoldSeq(LAMBDA f, n : n + Len(f.written), 0, loaded)
Members(loaded) == FoldSeq(LAMBDA f, n : n + Size(f.written), 0, loaded)

WriteDefinition ==
    /\ Len(writing) + Definitions(fragments) < MaxDefinitions
    /\ Len(fragments) < MaxFragments
    /\ \E shape \in Shapes.definitions : writing' = Append(writing, [shape |-> shape, members |-> <<>>])
    /\ UNCHANGED fragments

WriteMember ==
    /\ writing # <<>>
    /\ Last(writing).shape.holds
    /\ Size(writing) + Members(fragments) < MaxMembers
    /\ \E member \in Shapes.members :
           writing' = [writing EXCEPT ![Len(writing)].members = Append(@, member)]
    /\ UNCHANGED fragments

\* nh_webidl_parse() and nh_webidl_load() of one fragment
LoadFragment ==
    /\ writing # <<>>
    /\ LET root == Parse(Tokens(FragmentText(writing)), "Definitions", 1).node
       IN fragments' = Append(fragments, [written |-> writing, interfaces |-> CreateInterfaces(root)])
    /\ writing' = <<>>

Next == WriteDefinition \/ WriteMember \/ LoadFragment

Spec == Init /\ [][Next]_vars

---------------------------------------------------------------------------
(* What is written stands *)

Statics(d) == {i \in DOMAIN d.members : d.members[i].static}

\* A member behind a static one is tried from the iterable on only.
Readable(d) ==
    /\ d.shape.reads
    /\ \A i \in DOMAIN d.members : d.members[i].reads
    /\ \A i \in Statics(d) : i = Len(d.members) \/ d.members[i + 1].late

\* the definitions before the first that cannot be read
Standing(written) ==
    LET bad == SelectInSeq(written, LAMBDA d : ~Readable(d))
    IN IF bad = 0 THEN written ELSE SubSeq(written, 1, bad - 1)

OfKind(written, kind) == SelectSeq(Standing(written), LAMBDA d : d.shape.kind = kind)
Expected(written) == OfKind(written, "interface") \o OfKind(written, "partial")

\* The interfaces a fragment makes are those written before its first definition that the parser cannot
\* read, whole ones before partial ones, each under its name and with its parent.
InterfacesStand ==
    \A k \in DOMAIN fragments :
        LET expected == Expected(fragments[k].written)
            made == fragments[k].interfaces
        IN /\ Len(made) = Len(expected)
           /\ \A i \in DOMAIN made :
                  /\ made[i].name = expected[i].shape.name
                  /\ made[i].partial = (expected[i].shape.kind = "partial")
                  /\ made[i].inheritance = expected[i].shape.parent

NamesOf(members) == [i \in DOMAIN members |-> members[i].name]

\* Whoever asks for all interfaces of a name finds, for each fragment that has one, every member that was
\* written in the first of them, in order and under its name, the static ones apart.
MembersFound ==
    \A k \in DOMAIN fragments :
        LET expected == Expected(fragments[k].written)
        IN \A i \in DOMAIN expected :
              (\A j \in 1..i - 1 : expected[j].shape.name # expected[i].shape.name) =>
                  \E c \in Range(CompositeInterfaces(fragments, expected[i].shape.name)) :
                      NamesOf(c.members) =
                          NamesOf(SelectSeq(expected[i].members, LAMBDA m : ~m.static))
=============================================================================
