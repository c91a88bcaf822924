------------------------------ MODULE Settings ------------------------------
(***************************************************************************)
(* The settings of the library and what windows make of them               *)
(* (src/lib/nh-core/Config, src/lib/nh-wsi/Window/WindowSettings.c).       *)
(*                                                                         *)
(* A setting of a file is a text and its values.  A text is what the       *)
(* parser looks at: the words between its underscores and points, and      *)
(* these.  A value is the words it has when it is read without quotes.     *)
(***************************************************************************)
EXTENDS Naturals, Sequences, SequencesExt

CONSTANTS
    Words,      \* what texts and values are made of, "_" and "." among them
    Defaults,   \* default.conf
    UserFiles,  \* what nh_api_initialize() and nh_api_loadConfig() are given
    Files,      \* what nh_api_registerConfig() reads
    Windows,    \* the namespaces of the windows
    WindowState \* the text "nh-wsi.window.state"

VARIABLES
    settings,   \* NH_GLOBAL_CONFIG.Settings
    chosen      \* history: the names a user changed without a namespace

vars == <<settings, chosen>>

NoNamespace == <<>>
Underscore == "_"
Point == "."

---------------------------------------------------------------------------
(* Parser.c *)

FirstOf(text, c) == SelectInSeq(text, LAMBDA t : t = c)

\* What comes before an underscore that comes before any point is a namespace.
HasNamespace(text) ==
    FirstOf(text, Underscore) > 0 /\ ~Contains(SubSeq(text, 1, FirstOf(text, Underscore)), Point)
NamespaceOf(text) ==
    IF HasNamespace(text) THEN SubSeq(text, 1, FirstOf(text, Underscore) - 1) ELSE NoNamespace
NameOf(text) ==
    IF HasNamespace(text) THEN SubSeq(text, FirstOf(text, Underscore) + 1, Len(text)) ELSE text

\* nh_core_parseRawConfig(): ends at the first name without a point, what it read so far counts.
Setting(e) ==
    [ns |-> NamespaceOf(e.text), name |-> NameOf(e.text), values |-> e.values,
     priority |-> 0, default |-> TRUE]
Parsed(file) ==
    LET bad == SelectInSeq(file, LAMBDA e : ~Contains(NameOf(e.text), Point))
    IN  [i \in 1..(IF bad = 0 THEN Len(file) ELSE bad - 1) |-> Setting(file[i])]

---------------------------------------------------------------------------
(* Config.c *)

DefaultOf(list, name) == SelectInSeq(list, LAMBDA s : s.default /\ s.name = name)

\* Mutant: the name alone is compared.
AnyOwn(list, ns, name) == SelectInSeq(list, LAMBDA s : s.ns # NoNamespace /\ s.name = name)
OwnOf(list, ns, name) ==
    SelectInSeq(list, LAMBDA s : s.ns # NoNamespace /\ s.ns = ns /\ s.name = name)

\* nh_core_getGlobalConfigSetting()
Values(list, ns, name) ==
    LET own == OwnOf(list, ns, name) IN
    IF ns # NoNamespace /\ own > 0 THEN list[own].values ELSE list[DefaultOf(list, name)].values

\* A setting with no default becomes one, for everybody.
NewDefault(list, s, priority) ==
    Append(list, [s EXCEPT !.ns = NoNamespace, !.priority = priority])

\* Mutants: the priority is not looked at; the change does not take it over.
AnyPriority(list, s, priority) ==
    LET d == DefaultOf(list, s.name) IN
    IF list[d].values = s.values THEN list
    ELSE [list EXCEPT ![d].values = s.values, ![d].priority = priority]
\* Equal values change nothing, not the priority either.
ChangeDefault(list, s, priority) ==
    LET d == DefaultOf(list, s.name) IN
    IF list[d].priority > priority \/ list[d].values = s.values THEN list
    ELSE [list EXCEPT ![d].values = s.values, ![d].priority = priority]

\* A setting of a namespace has no priority to respect.
\* Mutant: it is not looked for.
AlwaysNew(list, s, priority) == Append(list, [s EXCEPT !.default = FALSE, !.priority = priority])
ChangeOwn(list, s, priority) ==
    LET own == OwnOf(list, s.ns, s.name) IN
    IF own > 0 THEN [list EXCEPT ![own].values = s.values]
    ELSE Append(list, [s EXCEPT !.default = FALSE, !.priority = priority])

\* nh_core_updateConfig()
Changed(list, s, priority) ==
    IF DefaultOf(list, s.name) = 0 THEN NewDefault(list, s, priority)
    ELSE IF s.ns = NoNamespace THEN ChangeDefault(list, s, priority)
    ELSE ChangeOwn(list, s, priority)
Update(list, file, priority) ==
    LET new == Parsed(file)
        after[i \in 0..Len(new)] == IF i = 0 THEN list ELSE Changed(after[i - 1], new[i], priority)
    IN  after[Len(new)]

\* nh_core_overwriteGlobalConfigSetting(): written down and parsed again, without the quotes.
Line(ns, name, value) ==
    <<[text   |-> IF ns = NoNamespace THEN name ELSE ns \o <<Underscore>> \o name,
       values |-> [i \in 1..Len(value) |-> <<value[i]>>]]>>
Overwrite(list, ns, name, value) == Update(list, Line(ns, name, value), 1)

---------------------------------------------------------------------------
\* A setting that nh_core_loadConfig() reads has a value. The names of default.conf are all
\* different, without a namespace, and the state of windows is one of them.
Texts == Seq(Words)
Entries == [text : Texts, values : Seq(Texts) \ {<<>>}]
ASSUME FilesAssumption ==
    /\ {Underscore, Point, "none", "maximized"} \subseteq Words
    /\ Defaults \in Seq(Entries) /\ UserFiles \subseteq Seq(Entries) /\ Files \subseteq Seq(Entries)
    /\ \A i, j \in 1..Len(Parsed(Defaults)) : Parsed(Defaults)[i].name = Parsed(Defaults)[j].name => i = j
    /\ \A i \in 1..Len(Parsed(Defaults)) : Parsed(Defaults)[i].ns = NoNamespace
    /\ \E i \in 1..Len(Parsed(Defaults)) : Parsed(Defaults)[i].name = WindowState
\* The namespace of a window is written before the name of a setting.
ASSUME WindowsAssumption ==
    /\ \A w \in Windows : w \in Texts /\ w # NoNamespace /\ ~Contains(w, Underscore) /\ ~Contains(w, Point)
    /\ WindowState \in Texts /\ Contains(WindowState, Point)

---------------------------------------------------------------------------
NamesOf(list) == {list[i].name : i \in 1..Len(list)}
NewlyChosen ==
    {n \in NamesOf(settings') : \/ n \notin NamesOf(settings)
                                \/ Values(settings, NoNamespace, n) # Values(settings', NoNamespace, n)}

\* nh_core_registerConfig()
Register(file) ==
    /\ settings' = Update(settings, file, 0)
    /\ UNCHANGED chosen

\* nh_core_loadConfig(): names without their namespaces, and the first value of each.
Load(file) ==
    /\ settings' = LET new == Parsed(file)
                       after[i \in 0..Len(new)] ==
                           IF i = 0 THEN settings
                           ELSE Overwrite(after[i - 1], NoNamespace, new[i].name, new[i].values[1])
                   IN  after[Len(new)]
    /\ chosen' = chosen \cup NewlyChosen

\* nh_wsi_getWindowConfig(), nh_wsi_toggleWindowSize()
Maximized(w) == Contains(Values(settings, w, WindowState), <<"maximized">>)
Toggle(w) ==
    /\ settings' = Overwrite(settings, w, WindowState, IF Maximized(w) THEN <<"none">> ELSE <<"maximized">>)
    /\ UNCHANGED chosen

\* nh_core_initGlobalConfig(), nh_core_initialize()
Init ==
    \E file \in UserFiles \cup {<<>>} :
        LET start == Parsed(Defaults) IN
        /\ settings = Update(start, file, 1)
        /\ chosen = {n \in NamesOf(settings) : \/ n \notin NamesOf(start)
                       \/ Values(start, NoNamespace, n) # Values(settings, NoNamespace, n)}

Next ==
    \/ \E f \in Files : Register(f)
    \/ \E f \in UserFiles : Load(f)
    \/ \E w \in Windows : Toggle(w)

Spec == Init /\ [][Next]_vars

---------------------------------------------------------------------------
\* However settings come in, each name has one default and each namespace at most one setting of
\* that name, with a default of it: what nh_core_getGlobalConfigSetting() finds does not depend on
\* the order of the list.
Unambiguous ==
    /\ \A i, j \in 1..Len(settings) :
          (settings[i].name = settings[j].name /\ settings[i].ns = settings[j].ns) => i = j
    /\ \A i \in 1..Len(settings) : settings[i].default <=> settings[i].ns = NoNamespace
    /\ \A n \in NamesOf(settings) : DefaultOf(settings, n) > 0
    /\ \A i \in 1..Len(settings) : settings[i].priority \in {0, 1}

\* What a user changed is not changed by a file that is registered later (Config.c:162,
\* "don't change setting if global priority is higher").
ChoiceStands ==
    [][\A f \in Files : Register(f) =>
          \A n \in chosen : Values(settings', NoNamespace, n) = Values(settings, NoNamespace, n)]_vars

\* nh_wsi_toggleWindowSize() maximizes a window that is not, and only the windows of its
\* namespace; no other setting of any window changes.
OwnState ==
    [][\A w \in Windows : Toggle(w) =>
          /\ Maximized(w)' # Maximized(w)
          /\ \A v \in Windows, n \in NamesOf(settings) :
                <<v, n>> # <<w, WindowState>> => Values(settings', v, n) = Values(settings, v, n)]_vars
=============================================================================
