---------------------------- MODULE LoaderTables ----------------------------
(* The modules of Netzhaut, and what the loader knows of them. *)
EXTENDS Sequences, Functions

\* NH_MODULE_E, without nh-core.
ModuleOrder == <<"wsi", "network", "ecmascript", "html", "webidl", "encoding", "dom", "gfx",
                 "css", "renderer", "url", "monitor">>
ModuleNames == {"core"} \cup Range(ModuleOrder)

\* nh_core_loadDependencies(); the other modules have none.
ListedDependencies ==
    [html       |-> <<"core", "dom", "url", "css">>,
     webidl     |-> <<"core", "encoding", "ecmascript">>,
     ecmascript |-> <<"core", "encoding">>,
     css        |-> <<"core", "encoding", "dom", "gfx">>,
     gfx        |-> <<"wsi">>,
     dom        |-> <<"core", "webidl">>,
     renderer   |-> <<"core", "gfx", "css">>,
     url        |-> <<"core", "encoding">>,
     monitor    |-> <<"core", "encoding">>]
DependencyTable ==
    [m \in ModuleNames |-> IF m \in DOMAIN ListedDependencies THEN ListedDependencies[m] ELSE <<>>]

\* nh_core_isUnloadAllowed(); the other modules wait for none.
ListedBlockers ==
    [encoding   |-> {"webidl", "ecmascript", "css", "url"},
     webidl     |-> {"dom"},
     ecmascript |-> {"webidl"},
     css        |-> {"renderer"},
     dom        |-> {"html", "css"},
     url        |-> {"html"},
     wsi        |-> {"gfx"},
     gfx        |-> {"renderer"}]
BlockerTable ==
    [m \in ModuleNames |-> IF m \in DOMAIN ListedBlockers THEN ListedBlockers[m] ELSE {}]
=============================================================================
