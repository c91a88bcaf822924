--------------------------- MODULE WebIDLGrammar ---------------------------
(***************************************************************************)
(* The parse functions of nh-webidl (Utils/Parser.c), as a table: one       *)
(* entry per function nh_webidl_parseX, a sequence of alternatives in the   *)
(* order the function tries them.  An alternative is a sequence of items:   *)
(* the name of another entry, a class of tokens ("identifier", "string",    *)
(* "number", "other") or the text of a token.  The table is the code, not   *)
(* the WebIDL standard: what the code gets wrong is in it.                  *)
(*                                                                         *)
(* The functions differ in what a failed alternative has consumed: most     *)
(* work on a copy of the parser (Local), some on the parser itself, so that *)
(* what was read before the failure stays read (Direct).  The minimal       *)
(* numbers of tokens some functions ask for are implied by their items; the *)
(* few reads past the last token, of a fragment cut in the middle of a      *)
(* definition, are not modelled.                                            *)
(***************************************************************************)
EXTENDS Naturals, Sequences, TLC

Alternative(items, local, committed, dropped) ==
    [items |-> items, local |-> local, committed |-> committed, dropped |-> dropped]

Direct(items) == Alternative(items, FALSE, FALSE, FALSE)
Local(items) == Alternative(items, TRUE, FALSE, FALSE)

\* once its first token is there, no further alternative is tried
Committed(items) == Alternative(items, TRUE, TRUE, FALSE)

\* parsed, and the node thrown away: the next alternative goes on behind it
Dropped(items) == Alternative(items, FALSE, FALSE, TRUE)

Nothing == Direct(<<>>)
OneOf(choices) == [i \in DOMAIN choices |-> Direct(<<choices[i]>>)]
Optional(items) == <<Local(items), Nothing>>
Listed(member, rest) == <<Direct(<<"ExtendedAttributeList", member, rest>>), Nothing>>

\* looked at, and left for the next item
Peeks == ("see identifier" :> "identifier") @@ ("see >" :> ">")
         @@ ("see )" :> ")") @@ ("see ]" :> "]") @@ ("see }" :> "}")

---------------------------------------------------------------------------
(* Extended attributes.  ExtendedAttributeInner calls itself on the same    *)
(* opening bracket for ever (Parser.c:273): no fragment has one in there.   *)

ExtendedAttributeProductions == [
    Other |-> OneOf(<<"other">>),
    OtherOrComma |-> OneOf(<<"Other", ",">>),
    ExtendedAttributeInner |-> <<Direct(<<"OtherOrComma", "ExtendedAttributeInner">>), Nothing>>,
    ExtendedAttributeRest |-> <<Direct(<<"ExtendedAttribute">>), Nothing>>]

ExtendedAttributeLists == [
    ExtendedAttribute |-> <<Local(<<"(", "ExtendedAttributeInner", "see )", "ExtendedAttributeRest", ")">>),
                            Local(<<"[", "ExtendedAttributeInner", "see ]", "ExtendedAttributeRest", "]">>),
                            Local(<<"{", "ExtendedAttributeInner", "see }", "ExtendedAttributeRest", "}">>),
                            Direct(<<"Other", "ExtendedAttributeRest">>)>>,
    ExtendedAttributes |-> Optional(<<",", "ExtendedAttribute", "ExtendedAttributes">>),
    ExtendedAttributeList |-> Optional(<<"[", "ExtendedAttribute", "ExtendedAttributes", "]">>)]

---------------------------------------------------------------------------
(* Types *)

Integers == [
    OptionalLong |-> OneOf(<<"long">>) \o <<Nothing>>,
    IntegerType |-> <<Direct(<<"short">>), Local(<<"long", "OptionalLong">>)>>,
    UnsignedIntegerType |-> <<Local(<<"unsigned", "IntegerType">>), Direct(<<"IntegerType">>)>>]

Primitives == [
    FloatType |-> OneOf(<<"float", "double">>),
    UnrestrictedFloatType |-> <<Local(<<"unrestricted", "FloatType">>), Direct(<<"FloatType">>)>>,
    PrimitiveType |-> OneOf(<<"undefined", "boolean", "byte", "octet", "bigint",
                              "UnsignedIntegerType", "UnrestrictedFloatType">>),
    Null |-> OneOf(<<"?">>) \o <<Nothing>>,
    StringType |-> OneOf(<<"ByteString", "DOMString", "USVString">>)]

Generic(name) == Local(<<name, "<", "TypeWithExtendedAttributes", ">", "Null">>)

\* the types of buffers are read by the function for strings: they end as identifiers
Distinguishable == [
    RecordType |-> <<Local(<<"record", "<", "StringType", ",", "TypeWithExtendedAttributes", ">">>)>>,
    DistinguishableType |-> <<Direct(<<"PrimitiveType", "Null">>), Direct(<<"StringType", "Null">>),
                              Direct(<<"RecordType", "Null">>), Generic("sequence"),
                              Generic("FrozenArray"), Generic("ObservableArray"),
                              Direct(<<"identifier", "Null">>)>>]

SingleTypes == [
    PromiseType |-> <<Local(<<"Promise", "<", "Type", ">">>)>>,
    SingleType |-> OneOf(<<"PromiseType", "DistinguishableType", "any">>)]

Unions == [
    UnionMemberType |-> <<Direct(<<"ExtendedAttributeList", "DistinguishableType">>), Direct(<<"UnionType", "Null">>)>>,
    UnionMemberTypes |-> Optional(<<"or", "UnionMemberType", "UnionMemberTypes">>),
    UnionType |-> <<Local(<<"(", "UnionMemberType", "or", "UnionMemberType", "UnionMemberTypes", ")">>)>>]

Types == [
    Type |-> <<Direct(<<"SingleType">>), Direct(<<"UnionType", "Null">>)>>,
    TypeWithExtendedAttributes |-> <<Local(<<"ExtendedAttributeList", "Type">>)>>]

---------------------------------------------------------------------------
(* Arguments and values *)

ArgumentNames == [
    ArgumentNameKeyword |-> OneOf(<<"async", "attribute", "callback", "const", "constructor", "deleter",
        "dictionary", "enum", "getter", "includes", "inherit", "interface", "iterable", "maplike", "mixin",
        "namespace", "partial", "readonly", "required", "setlike", "setter", "static", "stringifier",
        "typedef", "unrestricted">>),
    ArgumentName |-> OneOf(<<"ArgumentNameKeyword", "identifier">>)]

\* a negative number is two tokens ("-", "1") and no alternative reads two
Values == [
    BooleanLiteral |-> OneOf(<<"true", "false">>),
    FloatLiteral |-> OneOf(<<"-Infinity", "Infinity", "NaN", "number">>),
    ConstValue |-> OneOf(<<"BooleanLiteral", "FloatLiteral", "number">>),
    DefaultValue |-> OneOf(<<"ConstValue", "null", "string">>) \o <<Local(<<"[", "]">>), Local(<<"{", "}">>)>>,
    Default |-> Optional(<<"=", "DefaultValue">>),
    Ellipsis |-> OneOf(<<"...">>) \o <<Nothing>>]

Arguments == [
    ArgumentRest |-> <<Committed(<<"optional", "TypeWithExtendedAttributes", "ArgumentName", "Default">>),
                       Local(<<"Type", "Ellipsis", "ArgumentName">>)>>,
    Argument |-> <<Local(<<"ExtendedAttributeList", "ArgumentRest">>)>>,
    Arguments |-> Optional(<<",", "Argument", "Arguments">>),
    ArgumentList |-> <<Direct(<<"Argument", "Arguments">>), Nothing>>]

---------------------------------------------------------------------------
(* Members *)

\* an identifier as the type of a constant is not stepped over
Consts == [
    ConstType |-> OneOf(<<"PrimitiveType", "see identifier">>),
    Const |-> <<Local(<<"const", "ConstType", "identifier", "=", "ConstValue", ";">>)>>]

Operations == [
    OperationNameKeyword |-> OneOf(<<"includes">>),
    OperationName |-> OneOf(<<"OperationNameKeyword", "identifier">>),
    OptionalOperationName |-> OneOf(<<"OperationName">>) \o <<Nothing>>,
    OperationRest |-> <<Local(<<"OptionalOperationName", "(", "ArgumentList", ")", ";">>)>>,
    RegularOperation |-> <<Local(<<"Type", "OperationRest">>)>>]

SpecialOperations == [
    Special |-> OneOf(<<"getter", "setter", "deleter">>),
    SpecialOperation |-> <<Direct(<<"Special", "RegularOperation">>)>>,
    Operation |-> OneOf(<<"RegularOperation", "SpecialOperation">>)]

Attributes == [
    OptionalReadOnly |-> OneOf(<<"readonly">>) \o <<Nothing>>,
    AttributeNameKeyword |-> OneOf(<<"async", "required">>),
    AttributeName |-> OneOf(<<"AttributeNameKeyword", "identifier">>),
    AttributeRest |-> <<Local(<<"attribute", "TypeWithExtendedAttributes", "AttributeName", ";">>)>>]

StringifiersAndStatics == [
    StringifierRest |-> <<Direct(<<";">>), Direct(<<"RegularOperation">>), Local(<<"OptionalReadOnly", "AttributeRest">>)>>,
    Stringifier |-> <<Local(<<"stringifier", "StringifierRest">>)>>,
    StaticMemberRest |-> <<Direct(<<"RegularOperation">>), Local(<<"OptionalReadOnly", "AttributeRest">>)>>,
    StaticMember |-> <<Local(<<"static", "StaticMemberRest">>)>>]

\* behind the types of an asynchronous iterable the ">" is looked at and not stepped over
Iterables == [
    OptionalType |-> Optional(<<",", "TypeWithExtendedAttributes">>),
    Iterable |-> <<Local(<<"iterable", "<", "TypeWithExtendedAttributes", "OptionalType", ">", ";">>)>>,
    OptionalArgumentList |-> Optional(<<"(", "ArgumentList", ")">>),
    AsyncIterable |-> <<Local(<<"async", "iterable", "<", "TypeWithExtendedAttributes", "OptionalType",
                                "see >", "OptionalArgumentList", ";">>)>>]

\* a set must end with one token that is both ">" and ";"
MapsAndSets == [
    MaplikeRest |-> <<Local(<<"maplike", "<", "TypeWithExtendedAttributes", ",", "TypeWithExtendedAttributes", ">", ";">>)>>,
    SetlikeRest |-> <<Local(<<"setlike", "<", "TypeWithExtendedAttributes", "both > and ;">>)>>,
    ReadOnlyMemberRest |-> OneOf(<<"AttributeRest", "MaplikeRest", "SetlikeRest">>),
    ReadOnlyMember |-> <<Local(<<"readonly", "ReadOnlyMemberRest">>)>>]

ReadWriteMembers == [
    InheritAttribute |-> <<Local(<<"inherit", "AttributeRest">>)>>,
    ReadWriteAttribute |-> OneOf(<<"AttributeRest">>),
    ReadWriteSetlike |-> OneOf(<<"SetlikeRest">>),
    ReadWriteMaplike |-> OneOf(<<"MaplikeRest">>)]

\* for a static member the code tests the node of the stringifier, which is NULL there
PartialMember == [
    PartialInterfaceMember |-> OneOf(<<"Const", "Operation", "Stringifier">>) \o <<Dropped(<<"StaticMember">>)>>
        \o OneOf(<<"Iterable", "AsyncIterable", "ReadOnlyMember", "ReadWriteAttribute",
                   "ReadWriteMaplike", "ReadWriteSetlike", "InheritAttribute">>)]

---------------------------------------------------------------------------
(* Definitions *)

Interfaces == [
    Constructor |-> <<Local(<<"constructor", "(", "ArgumentList", ")", ";">>)>>,
    InterfaceMember |-> OneOf(<<"PartialInterfaceMember", "Constructor">>),
    InterfaceMembers |-> Listed("InterfaceMember", "InterfaceMembers"),
    InterfaceRest |-> <<Local(<<"identifier", "Inheritance", "{", "InterfaceMembers", "}", ";">>)>>]

\* without the specification the parent is from
InheritancesUnspecified == [
    NON_STANDARD_Specifier |-> Optional(<<"@", "identifier">>),
    Inheritance |-> Optional(<<":", "identifier">>)]

Inheritances == [
    NON_STANDARD_Specifier |-> Optional(<<"@", "identifier">>),
    Inheritance |-> Optional(<<":", "identifier", "NON_STANDARD_Specifier">>)]

Callbacks == [
    CallbackRest |-> <<Local(<<"identifier", "=", "Type", "(", "ArgumentList", ")", ";">>)>>]

CallbackInterfaces == [
    CallbackInterfaceMember |-> OneOf(<<"Const", "RegularOperation">>),
    CallbackInterfaceMembers |-> Listed("CallbackInterfaceMember", "CallbackInterfaceMembers"),
    CallbackRestOrInterface |-> <<Direct(<<"CallbackRest">>),
        Local(<<"interface", "identifier", "{", "CallbackInterfaceMembers", "}", ";">>)>>]

Mixins == [
    MixinMember |-> OneOf(<<"Const", "RegularOperation", "Stringifier">>) \o <<Local(<<"OptionalReadOnly", "AttributeRest">>)>>,
    MixinMembers |-> Listed("MixinMember", "MixinMembers"),
    MixinRest |-> <<Local(<<"mixin", "identifier", "{", "MixinMembers", "}", ";">>)>>,
    InterfaceOrMixin |-> OneOf(<<"InterfaceRest", "MixinRest">>)]

Namespaces == [
    CallbackOrInterfaceOrMixin |-> <<Local(<<"callback", "CallbackRestOrInterface">>), Local(<<"interface", "InterfaceOrMixin">>)>>,
    NamespaceMember |-> <<Direct(<<"RegularOperation">>), Local(<<"readonly", "AttributeRest">>)>>,
    NamespaceMembers |-> Listed("NamespaceMember", "NamespaceMembers"),
    Namespace |-> <<Local(<<"namespace", "identifier", "{", "NamespaceMembers", "}", ";">>)>>]

PartialInterfaces == [
    PartialInterfaceMembers |-> Listed("PartialInterfaceMember", "PartialInterfaceMembers"),
    PartialInterfaceRest |-> <<Local(<<"identifier", "{", "PartialInterfaceMembers", "}", ";">>)>>,
    PartialInterfaceOrPartialMixin |-> OneOf(<<"PartialInterfaceRest", "MixinRest">>)]

DictionaryMemberProductions == [
    DictionaryMemberRest |-> <<Local(<<"required", "TypeWithExtendedAttributes", "identifier", ";">>),
                               Local(<<"Type", "identifier", "Default", ";">>)>>,
    DictionaryMember |-> <<Local(<<"ExtendedAttributeList", "DictionaryMemberRest">>)>>,
    DictionaryMembers |-> <<Direct(<<"DictionaryMember", "DictionaryMembers">>), Nothing>>]

Partials == [
    PartialDictionary |-> <<Local(<<"dictionary", "identifier", "{", "DictionaryMembers", "}", ";">>)>>,
    PartialDefinition |-> <<Local(<<"interface", "PartialInterfaceOrPartialMixin">>),
                            Direct(<<"PartialDictionary">>), Direct(<<"Namespace">>)>>,
    Partial |-> <<Local(<<"partial", "PartialDefinition">>)>>,
    Dictionary |-> <<Local(<<"dictionary", "identifier", "Inheritance", "{", "DictionaryMembers", "}", ";">>)>>]

Enums == [
    EnumValueListString |-> Optional(<<"string", "EnumValueListComma">>),
    EnumValueListComma |-> Optional(<<",", "EnumValueListString">>),
    EnumValueList |-> <<Local(<<"string", "EnumValueListComma">>)>>,
    Enum |-> <<Local(<<"enum", "identifier", "{", "EnumValueList", "}", ";">>)>>,
    Typedef |-> <<Local(<<"typedef", "TypeWithExtendedAttributes", "identifier", ";">>)>>,
    IncludesStatement |-> <<Local(<<"identifier", "includes", "identifier", ";">>)>>]

DefinitionProductions == [
    Definition |-> OneOf(<<"CallbackOrInterfaceOrMixin", "Namespace", "Partial", "Dictionary",
                           "Enum", "Typedef", "IncludesStatement">>),
    Definitions |-> Listed("Definition", "Definitions")]

Grammar ==
    ExtendedAttributeProductions @@ ExtendedAttributeLists @@ Integers @@ Primitives @@ Distinguishable
    @@ SingleTypes @@ Unions @@ Types @@ ArgumentNames @@ Values @@ Arguments @@ Consts @@ Operations
    @@ SpecialOperations @@ Attributes @@ StringifiersAndStatics @@ Iterables @@ MapsAndSets
    @@ ReadWriteMembers @@ PartialMember @@ Interfaces @@ Inheritances @@ Callbacks @@ CallbackInterfaces
    @@ Mixins @@ Namespaces @@ PartialInterfaces @@ DictionaryMemberProductions @@ Partials @@ Enums
    @@ DefinitionProductions
=============================================================================
