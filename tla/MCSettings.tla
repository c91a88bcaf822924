----------------------------- MODULE MCSettings -----------------------------
(* Two windows and three settings, for TLC. *)
EXTENDS Settings

State == <<"nh-wsi", ".", "state">>
Port == <<"nh-monitor", ".", "client", "_", "port">>
Own(ns, name) == <<ns, "_">> \o name
New == <<"app", ".", "mode">>

Give(text, values) == [text |-> text, values |-> values]
One == <<"1">>
Two == <<"2">>
None == <<"none">>
Maximum == <<"maximized">>
Above == <<"above">>

MCWords == {"nh-wsi", "nh-monitor", "state", "client", "port", "app", "mode", "point", "a", "b", "_", ".",
            "1", "2", "none", "maximized", "above"}

\* The settings of default.conf that matter here.
MCDefaults == <<Give(State, <<None>>), Give(Port, <<One>>)>>

\* A change, the same values again, a quoted value of two words, a name nobody knows, a namespace.
MCUserFiles ==
    {<<Give(Port, <<One>>), Give(State, <<Maximum>>)>>,
     <<Give(State, <<Above \o Maximum, None>>), Give(New, <<One>>)>>,
     <<Give(Own("a", State), <<Maximum>>), Give(Own("b", New), <<Two>>)>>}

\* The same for registered files; one ends at a name without a point.
MCFiles ==
    {<<Give(Port, <<Two>>), Give(New, <<One, Two>>)>>,
     <<Give(Own("b", State), <<Above, Maximum>>), Give(Own("a", New), <<Two>>)>>,
     <<Give(State, <<Above, None>>), Give(<<"point">>, <<One>>), Give(Port, <<Two>>)>>}

MCWindows == {<<"a">>, <<"b">>}

\* "update config with 1 priority meaning it should always trump default settings"
\* (Initialize.c:38): the settings nh_api_initialize() was given are not changed by a file that is
\* registered right after it.
GivenBy(file) == {Parsed(file)[i].name : i \in {j \in 1..Len(file) : Parsed(file)[j].ns = NoNamespace}}
UserTrumps ==
    [][\A f \in Files, u \in UserFiles :
          (Register(f) /\ settings = Update(Parsed(Defaults), u, 1)) =>
              \A n \in GivenBy(u) : Values(settings', NoNamespace, n) = Values(settings, NoNamespace, n)]_vars
=============================================================================
