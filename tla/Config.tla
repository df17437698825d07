-------------------------------- MODULE Config --------------------------------
(***************************************************************************)
(* The configuration file: what it may say (config/schema.rs), what it     *)
(* comes to over the defaults of `domain` (config/merge.rs, params.rs),    *)
(* loading it (config/load.rs), and taking a new one over while running    *)
(* (Daemon::reload).                                                       *)
(*                                                                         *)
(* A table of the file is a function from the keys it has to what they     *)
(* say.  Numbers are kept in the smallest step the text below gives them:  *)
(* hundredths for ratios and distances, milliseconds for durations.        *)
(* Paths, colours and names are numbers too, each standing for one of the  *)
(* few that behave differently.                                            *)
(***************************************************************************)
EXTENDS Integers, Sequences, FiniteSets, SequencesExt, Functions

CONSTANTS
    Outputs,      \* the outputs, in the order their names sort
    Wording,      \* what editors try: a set of <<key, what it says>>
    Tables,       \* compositor tables editors try
    Home,         \* whether HOME is set
    MaxEdits      \* bound: edits of the file

ConfigAssumption ==
    /\ Outputs \in Seq(STRING) /\ Home \in BOOLEAN /\ MaxEdits \in Nat

-----------------------------------------------------------------------------
(* The keys a section may have, in the order they are applied, and the     *)
(* rule each follows.  `kind` "typed" is checked while the text is read,   *)
(* "free" takes anything of its type, the others are checked as they are   *)
(* applied.                                                                *)

Rule(key, kind, lo, hi, default) ==
    [key |-> key, kind |-> kind, lo |-> lo, hi |-> hi, default |-> default]

None == -1

Easings == 6                       \* linear, out-quad, .. out-quint: 0..5

Axis(name) ==
    << Rule(name \o ".travel",      "bounded", 0, 100, 100),
       Rule(name \o ".invert",      "typed",   0, 1, 0),
       Rule(name \o ".max-shift",   "cap",     0, 1600, 30),
       Rule(name \o ".duration-ms", "bounded", 0, 60000, 300),
       Rule(name \o ".easing",      "typed",   0, Easings - 1, 3) >>

Rules ==
    << Rule("wallpaper.fallback", "path", 0, 4, None) >>
    \o Axis("scroll.vertical") \o Axis("scroll.horizontal") \o
    << Rule("blur.radius",       "bounded", 0, 512, 32),
       Rule("blur.downscale",    "bounded", 1, 16, 4),
       Rule("blur.tint",         "typed",   0, 1, 0),
       Rule("blur.tint-opacity", "bounded", 0, 100, 50),
       Rule("blur.duration-ms",  "bounded", 0, 60000, 300),
       Rule("blur.easing",       "typed",   0, Easings - 1, 4),
       Rule("zoom.crop-ratio",   "bounded", 25, 100, 80),
       Rule("zoom.duration-ms",  "bounded", 0, 60000, 300),
       Rule("zoom.easing",       "typed",   0, Easings - 1, 3),
       Rule("transition.mode",        "typed",   0, 1, 1),
       Rule("transition.duration-ms", "bounded", 0, 60000, 800),
       Rule("transition.easing",      "typed",   0, Easings - 1, 4) >>

RuleOf == [key \in {Rules[k].key : k \in DOMAIN Rules} |->
               Rules[CHOOSE k \in DOMAIN Rules : Rules[k].key = key]]
Keys == DOMAIN RuleOf

(* The paths a file may name.  The last is what `~/x` expands to.          *)
Blank == 0
Absolute == 1
Relative == 2
Tilde == 3
TildeName == 4                     \* `~x`: a name that starts with one
Anchored(path) == 10 + path        \* the file's directory, then the path
InHome == 20

ResolvePath(raw) ==
    CASE raw = Absolute -> Absolute
      [] raw = Relative -> Anchored(Relative)
      [] raw = Tilde -> InHome
      [] raw = TildeName -> Anchored(TildeName)

Nothing == [k \in {} |-> 0]

-----------------------------------------------------------------------------
(* Reading the text: keys nobody knows and values of the wrong type are    *)
(* refused before anything is applied.                                     *)

TypedRight(table) ==
    \A key \in DOMAIN table :
        key \in Keys /\ (RuleOf[key].kind = "typed" =>
                             table[key] \in RuleOf[key].lo..RuleOf[key].hi)

Parses(file) ==
    /\ file.layer \in {None, 0, 1}
    /\ TypedRight(file.global)
    /\ \A o \in DOMAIN file.output : TypedRight(file.output[o].keys)

(* One value, where the key says something: refused, or what it means.     *)
Allowed(rule, raw) ==
    CASE rule.kind = "path" -> raw # Blank /\ (raw = Tilde => Home)
      [] OTHER -> raw \in rule.lo..rule.hi

(* A zero lifts the cap and says nothing about how far to move.            *)
Meaning(rule, raw) ==
    CASE rule.kind = "path" -> ResolvePath(raw)
      [] rule.kind = "cap" /\ raw = 0 -> None
      [] OTHER -> raw

(* `apply`: one section after another, one key after another, and the      *)
(* first that is refused is the one an error names.                        *)
Refused(at) == [ok |-> FALSE, at |-> at]       \* `Invalid`: the table and the key

Apply(base, table, where) ==
    LET Step(so_far, rule) ==
            IF ~so_far.ok \/ rule.key \notin DOMAIN table THEN so_far
            ELSE IF Allowed(rule, table[rule.key])
                 THEN [so_far EXCEPT !.params[rule.key] = Meaning(rule, table[rule.key])]
                 ELSE Refused(<<where, rule.key>>)
    IN FoldLeft(Step, [ok |-> TRUE, params |-> base], Rules)

-----------------------------------------------------------------------------
(* The compositor's own section is carried and not read.  A value of it is *)
(* a leaf or a table; one table laid over another merges with it, and      *)
(* anything else replaces.                                                 *)

Leaf(n)  == [is |-> "leaf", leaf |-> n]
Table(f) == [is |-> "table", table |-> f]

RECURSIVE overlay(_, _)
overlay(base, over) ==
    [k \in DOMAIN base \union DOMAIN over |->
        IF k \notin DOMAIN over THEN base[k]
        ELSE IF k \in DOMAIN base /\ base[k].is = "table" /\ over[k].is = "table"
             THEN Table(overlay(base[k].table, over[k].table))
             ELSE over[k]]

-----------------------------------------------------------------------------
(* A whole file, and what it resolves to.                                  *)

NoOutputs == [o \in {} |-> 0]

EmptyFile == [is |-> "text", namespace |-> None, layer |-> None, global |-> Nothing,
              compositor |-> Nothing, output |-> NoOutputs]

OutputSection(keys, table) == [keys |-> keys, compositor |-> table]

Default == [key \in Keys |-> RuleOf[key].default]

(* An output's parameters start from the global ones.                      *)
Base(global) == global

Named(file) == SelectSeq(Outputs, LAMBDA o : o \in DOMAIN file.output)

(* The outputs in order: the first table refused stops the rest.           *)
ApplyOutputs(file, global) ==
    LET Step(so_far, o) ==
            IF ~so_far.ok THEN so_far
            ELSE IF o = "" THEN Refused(<<"output", "">>)
            ELSE LET mine == Apply(Base(global), file.output[o].keys, o)
                 IN IF mine.ok THEN [so_far EXCEPT !.params = (o :> mine.params) @@ @]
                               ELSE mine
    IN FoldLeft(Step, [ok |-> TRUE, params |-> NoOutputs], Named(file))

BlankName == 0
Program == 9                       \* the name the program is built with
Surface(file) == [namespace |-> IF file.namespace = None THEN Program ELSE file.namespace,
                  layer |-> IF file.layer = None THEN 0 ELSE file.layer]

Overrides(file) ==
    [o \in {p \in DOMAIN file.output : file.output[p].compositor # Nothing} |->
        overlay(file.compositor, file.output[o].compositor)]

Built(file, global, outputs) ==
    [ok |-> TRUE,
     config |-> [surface |-> Surface(file), global |-> global, per_output |-> outputs,
                 compositor |-> file.compositor, overrides |-> Overrides(file)]]

ResolveUnnamed(file) ==
    LET global == Apply(Default, file.global, "") IN
    IF ~global.ok THEN global
    ELSE LET outputs == ApplyOutputs(file, global.params) IN
         IF ~outputs.ok THEN outputs ELSE Built(file, global.params, outputs.params)

Resolve(file) ==
    LET global == Apply(Default, file.global, "") IN
    IF ~global.ok THEN global
    ELSE LET outputs == ApplyOutputs(file, global.params) IN
         IF ~outputs.ok THEN outputs
         ELSE IF file.namespace = BlankName THEN Refused(<<"general", "namespace">>)
         ELSE Built(file, global.params, outputs.params)

(* `load`: a file that is not there is an empty one.                       *)
Load(file) ==
    CASE file.is = "missing"    -> Resolve(EmptyFile)
      [] file.is = "unreadable" -> Refused(<<"read", "">>)
      [] file.is = "text" /\ ~Parses(file) -> Refused(<<"parse", "">>)
      [] OTHER -> Resolve(file)

ForOutput(config, o) ==
    IF o \in DOMAIN config.per_output THEN config.per_output[o] ELSE config.global

-----------------------------------------------------------------------------
VARIABLES
    file,         \* what is on disk
    edits,
    config,       \* Daemon::config
    surface,      \* what the layer surfaces were created with
    params,       \* MonitorState::params of the outputs there are
    reloaded,     \* how many config-reloaded events were sent
    source        \* history: the file the running configuration is from

vars == <<file, edits, config, surface, params, reloaded, source>>
running == <<config, surface, params, reloaded, source>>

Monitors == {Outputs[k] : k \in DOMAIN Outputs} \ {""}

Edited(f) ==
    /\ edits < MaxEdits
    /\ edits' = edits + 1
    /\ file' = f
    /\ UNCHANGED running

(* The editors: one key said, or no longer said, globally or of an output. *)
Say(t, w) == (w[1] :> w[2]) @@ t
Unsay(t, key) == [k \in DOMAIN t \ {key} |-> t[k]]

EditGlobal ==
    \E w \in Wording : \E t \in {Say(file.global, w), Unsay(file.global, w[1])} :
        t # file.global /\ Edited([file EXCEPT !.global = t, !.is = "text"])

SectionOf(o) == IF o \in DOMAIN file.output THEN file.output[o]
                                            ELSE OutputSection(Nothing, Nothing)

EditOutput ==
    \E o \in {Outputs[k] : k \in DOMAIN Outputs}, w \in Wording :
        Edited([file EXCEPT !.output = (o :> [SectionOf(o) EXCEPT !.keys = Say(@, w)]) @@ @,
                            !.is = "text"])

EditCompositor ==
    \E t \in Tables :
        \/ Edited([file EXCEPT !.compositor = t])
        \/ \E o \in Monitors :
               Edited([file EXCEPT !.output = (o :> [SectionOf(o) EXCEPT !.compositor = t]) @@ @])

EditGeneral ==
    \E n \in {None, BlankName, 1}, l \in {None, 1} :
        Edited([file EXCEPT !.namespace = n, !.layer = l])

EditFile == \E is \in {"missing", "unreadable", "text"} : Edited([file EXCEPT !.is = is])

(* The daemon starts on a file that loads; one that does not ends it.      *)
Init ==
    /\ file \in {EmptyFile, [EmptyFile EXCEPT !.is = "missing"]}
    /\ edits = 0
    /\ config = Load(file).config
    /\ surface = config.surface
    /\ params = NoOutputs
    /\ reloaded = 0
    /\ source = file

(* An output appears, or goes.                                             *)
AddOutput(o) ==
    /\ o \notin DOMAIN params
    /\ params' = (o :> ForOutput(config, o)) @@ params
    /\ UNCHANGED <<file, edits, config, surface, reloaded, source>>

RemoveOutput(o) ==
    /\ o \in DOMAIN params
    /\ params' = [p \in DOMAIN params \ {o} |-> params[p]]
    /\ UNCHANGED <<file, edits, config, surface, reloaded, source>>

(* `reload`: a file that does not load leaves everything, the surface is   *)
(* kept, and a configuration that comes to the same is not reported.       *)
KeptSurface(next) == [next EXCEPT !.surface = config.surface]

Reported(next) == next # config

AdoptConfigured(next) ==
    params' = [o \in DOMAIN params |->
                   IF o \in DOMAIN next.per_output THEN next.per_output[o] ELSE params[o]]

Adopt(next) == params' = [o \in DOMAIN params |-> ForOutput(next, o)]

Reload ==
    /\ LET new == Load(file) IN
       /\ new.ok
       /\ LET next == KeptSurface(new.config) IN
          IF Reported(next)
          THEN /\ config' = next /\ source' = file
               /\ reloaded' = (reloaded + 1) % 2
               /\ Adopt(next)
          ELSE UNCHANGED <<config, params, reloaded, source>>
    /\ UNCHANGED <<file, edits, surface>>

Next ==
    \/ EditGlobal \/ EditOutput \/ EditCompositor \/ EditGeneral \/ EditFile
    \/ \E o \in Monitors : AddOutput(o) \/ RemoveOutput(o)
    \/ Reload

Spec == Init /\ [][Next]_vars

-----------------------------------------------------------------------------
(* What runs is in range, key by key: a value refused never gets there.    *)
Sound(values) ==
    /\ DOMAIN values = Keys
    /\ \A key \in Keys :
          \/ RuleOf[key].kind = "path"
          \/ RuleOf[key].kind = "cap" /\ values[key] = None
          \/ values[key] \in RuleOf[key].lo..RuleOf[key].hi

(* Every variable has its type.                                           *)
TypeOK ==
    /\ Sound(config.global)
    /\ \A o \in DOMAIN config.per_output : Sound(config.per_output[o])
    /\ \A o \in DOMAIN params : Sound(params[o])
    /\ DOMAIN params \subseteq Monitors

(* A reader's rule: what the output says, else what the file says, else    *)
(* the default; a cap of zero is no cap.                                   *)
Saying(f, o, key) ==
    IF o \in DOMAIN f.output /\ key \in DOMAIN f.output[o].keys THEN f.output[o].keys[key]
    ELSE IF key \in DOMAIN f.global THEN f.global[key]
    ELSE RuleOf[key].default

Inherited(f, o, key) ==
    LET said == Saying(f, o, key) IN
    CASE key = "wallpaper.fallback" -> IF said = None THEN None ELSE ResolvePath(said)
      [] RuleOf[key].kind = "cap"   -> IF said = 0 THEN None ELSE said
      [] OTHER -> said

(* Every output runs on what its own table says, over what the file says,  *)
(* over the defaults, whatever order the tables were applied in            *)
(* (merge.rs:138-179).                                                     *)
Layered ==
    LET f == IF source.is = "missing" THEN EmptyFile ELSE source IN
    \A o \in Monitors, key \in Keys : ForOutput(config, o)[key] = Inherited(f, o, key)

(* An output that is there runs on the configuration of now, whether it    *)
(* came before a reload or after it (mod.rs:329-333, 631-640).             *)
ParamsCurrent == \A o \in DOMAIN params : params[o] = ForOutput(config, o)

(* What a reload makes of the file never says of the surfaces what they    *)
(* are not (mod.rs:600-608).                                               *)
SurfaceHeld == config.surface = surface

(* A file is refused exactly when something in it may not be said, and the *)
(* error names a key that may not (merge.rs:18-34).                        *)
Wrong(where, key) ==
    LET t == IF where = "" THEN file.global ELSE file.output[where].keys IN
    key \in DOMAIN t /\ ~Allowed(RuleOf[key], t[key])

RefusedRightly ==
    file.is = "text" /\ Parses(file) =>
        LET loaded == Load(file) IN
        /\ loaded.ok <=> /\ file.namespace # BlankName /\ "" \notin DOMAIN file.output
                         /\ ~\E where \in {""} \union DOMAIN file.output, key \in Keys :
                                Wrong(where, key)
        /\ loaded.ok \/ loaded.at \in {<<"output", "">>, <<"general", "namespace">>}
                     \/ Wrong(loaded.at[1], loaded.at[2])

(* What an output says of the compositor stands, and what it does not say  *)
(* is the file's (merge.rs:92-107).                                        *)
Paths(t) == {<<k>> : k \in {j \in DOMAIN t : t[j].is = "leaf"}}
                \union UNION {{<<k, l>> : l \in DOMAIN t[k].table} :
                                  k \in {j \in DOMAIN t : t[j].is = "table"}}
At(t, path) == IF Len(path) = 1 THEN t[path[1]] ELSE t[path[1]].table[path[2]]

OverlayStands ==
    \A o \in DOMAIN config.overrides :
        LET merged == config.overrides[o]
            over   == source.output[o].compositor
        IN /\ \A path \in Paths(over) : path \in Paths(merged) /\ At(merged, path) = At(over, path)
           /\ \A path \in Paths(source.compositor) :
                 path \in Paths(merged)
                     \/ (\E other \in Paths(over) : path[1] = other[1] /\ Len(path) # Len(other))
           /\ Paths(merged) \subseteq Paths(over) \union Paths(source.compositor)

(* Clients are told of a reload exactly when something came of it          *)
(* (control-protocol.md:211).                                              *)
ToldWhenChanged == [][reloaded' # reloaded <=> config' # config]_vars
=============================================================================
