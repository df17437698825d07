-------------------------- MODULE MCConfiguration --------------------------
(***************************************************************************)
(* The configuration: how the daemon gets to know that the file has        *)
(* changed (ConfigWatch), and what it makes of it (Config).  All that the  *)
(* watch knows of a text is whether it loads, so the two share no variable *)
(* and are looked at one at a time: `part` says which, and never changes.  *)
(***************************************************************************)
EXTENDS Config, ConfigWatch, TLC

CONSTANT Parts      \* what a run looks at

VARIABLE part

-----------------------------------------------------------------------------
\* What editors try: of some rules a value at a bound, one past it and, for
\* the cap, the zero that lifts it; words and paths; compositor tables.
TwoOutputs == <<"", "DP-1">>
Tried == {<<"scroll.horizontal.max-shift", 0>>, <<"scroll.horizontal.max-shift", 1600>>,
          <<"zoom.crop-ratio", 25>>, <<"transition.mode", 2>>,
          <<"wallpaper.fallback", Tilde>>, <<"wallpaper.fallback", Blank>>,
          <<"nonsense", 0>>}
TriedTables == {Nothing,
                ("blur" :> Table("when" :> Leaf(3)))
                    @@ ("vertical" :> Leaf(4)),
                ("blur" :> Leaf(5))}

\* A link may lead to another directory, to another name of the same, and
\* to where nothing can be watched.
Ways == {[dir |-> "store", name |-> "first"], [dir |-> "home", name |-> "beside"],
         [dir |-> "shut", name |-> "second"]}

ASSUME ConfigAssumption
ASSUME Parts \subseteq {"loading", "watching"}

-----------------------------------------------------------------------------
\* Outside its part each of them waits in an initial state.
PartsInit ==
    /\ part \in Parts
    /\ Init /\ WatchInit
    /\ part = "loading" => files[ConfigPath] = Empty
    /\ part = "watching" => file = EmptyFile

Watches(action) == part = "watching" /\ action /\ UNCHANGED <<part, vars>>

PartsNext ==
    \/ Watches(WatchNext)
    \/ part = "loading" /\ Next /\ UNCHANGED <<part, watchVars>>

\* ConfigWatch!FairWatchSpec: the loop runs, and time goes by.
PartsSpec ==
    /\ PartsInit /\ [][PartsNext]_<<part, vars, watchVars>>
    /\ WF_watchVars(Watches(LookAround)) /\ WF_watchVars(Watches(StartWatching))
    /\ WF_watchVars(Watches(Changed)) /\ WF_watchVars(Watches(Resolved))
    /\ WF_watchVars(Watches(Quiet)) /\ WF_watchVars(Watches(Settled))

-----------------------------------------------------------------------------
(* Config: every output that is there runs on what its own table says,     *)
(* over what the file says, over the defaults, and each value is in range; *)
(* what an output says of the compositor stands, and the surfaces stay on  *)
(* what they were created with.                                            *)
RunsWhatIsSaid == TypeOK /\ Layered /\ OverlayStands /\ ParamsCurrent /\ SurfaceHeld

(* Config: a file is refused exactly when something in it may not be said. *)
RefusesRightly == RefusedRightly

(* ConfigWatch: once nobody edits the file any more, what runs is what it  *)
(* says; and Config: whoever listens is told exactly when that changed.    *)
EditsTakeEffect == SeenInTheEnd /\ ToldWhenChanged
=============================================================================
