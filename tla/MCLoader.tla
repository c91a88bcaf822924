------------------------------ MODULE MCLoader ------------------------------
(* The loader with the modules of Netzhaut, for TLC. *)
EXTENDS Loader, LoaderTables

\* A topological order of DependencyTable.
Layers == <<{"core", "wsi", "network"}, {"encoding"}, {"ecmascript", "url"}, {"webidl"}, {"dom"},
            {"gfx"}, {"css"}, {"html", "renderer", "monitor"}>>
LayerOf == [m \in ModuleNames |-> CHOOSE i \in 1..Len(Layers) : m \in Layers[i]]

\* Initializers ask for their own module (Loader.c: "nh-css uses the loader in the
\* initializer") and for any module of a lower layer.
LowerModules == [m \in ModuleNames |-> {m} \cup {d \in ModuleNames : LayerOf[d] < LayerOf[m]}]

\* The dependencies isUnloadAllowed() does not know of, and the scan does not happen to respect.
UnorderedPairs == {<<"css", "gfx">>, <<"monitor", "encoding">>}

\* A module is unloaded only when no loaded module has it as a dependency (Loader.c: "No module
\* has this module currently as a dependency, so we can unload it").
NoDependent == \A m \in loaded : Needs(m) \subseteq loaded
=============================================================================
