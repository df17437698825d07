----------------------------- MODULE MCTrackers -----------------------------
(***************************************************************************)
(* The two trackers.  A daemon runs under one compositor, so `part` says   *)
(* which, with which settings and outputs, and never changes; what is of   *)
(* the other stays as it began.                                            *)
(***************************************************************************)
EXTENDS NiriTracker, HyprTracker, TLC

CONSTANTS
  o1, o2,
  s1, s2, s3,          (* niri's workspaces                                *)
  x1, x2, x3,          (* windows                                          *)
  Parts                (* what a run looks at                              *)

VARIABLE part

Set(v, h, w, sc, ov) ==
  [vertical |-> v, horizontal |-> h, when |-> w, scope |-> sc, overview |-> ov]

Settled(first, second) == (o1 :> first) @@ (o2 :> second)

Configured ==
  [niri |-> Settled(Set("workspace", "column", "non-empty", "output", "clear"),
                    Set("column", "workspace", "focused", "global", "blur")),
   furnished |-> Settled(Set("workspace", "column", "non-empty", "output", "follow"),
                         Set("none", "none", "focused", "output", "follow")),
   renumbered |-> Settled(Set("none", "workspace", "non-empty", "output", "follow"),
                          Set("none", "none", "non-empty", "output", "follow")),
   focused |-> Settled(Set("none", "workspace", "focused", "output", "follow"),
                       Set("none", "none", "focused", "output", "follow")),
   mixed |-> Settled(Set("none", "workspace", "focused", "output", "follow"),
                     Set("workspace", "none", "non-empty", "global", "follow"))]
Written == {Configured[p] : p \in DOMAIN Configured}

(* No window, or three that stand on two workspaces.                       *)
Bare == [x \in {x1, x2, x3} |-> [on |-> None, col |-> Apart]]
Furnished ==
  {[x \in {x1, x2, x3} |->
      IF x = a THEN [on |-> s1, col |-> 1] ELSE IF x = b THEN [on |-> s1, col |-> 2]
      ELSE [on |-> s2, col |-> 1]] : <<a, b>> \in {p \in {x1, x2, x3} \X {x1, x2, x3} : p[1] # p[2]}}
Floors == {Bare} \cup Furnished

-----------------------------------------------------------------------------
ASSUME Parts \subseteq DOMAIN Configured

IsNiri == part \in {"niri", "furnished"}

(* How each part begins.  Nothing tells the workspaces of a bare niri      *)
(* apart, so which one each output shows is a matter of naming them.       *)
NiriBegins ==
  CASE part = "niri" -> world.at = Bare /\ world.shown = Settled(s1, s2)
    [] part = "furnished" -> world.at \in Furnished /\ world.rows[o2] = <<>>
                             /\ world.exist = {s1, s2}
    [] OTHER -> world.exist = {} /\ world.at = Bare

HyprBegins ==
  CASE part \in {"renumbered", "focused"} -> desktop.ports = {o1}
    [] part = "mixed" -> desktop.ports = {o1, o2}
    [] OTHER -> desktop = CHOOSE w \in Desktops : TRUE

Init ==
  /\ part \in Parts
  /\ settings = Configured[part]
  /\ NiriInit /\ NiriBegins
  /\ HyprInit /\ HyprBegins

(* Bounds of the parts: numbers change in one only, and two outputs have   *)
(* one change less.                                                        *)
Bounded ==
  /\ part = "renumbered" \/ ~renumbered'
  /\ part = "mixed" => turns' < MaxTurns

Next ==
  /\ UNCHANGED part
  /\ \/ IsNiri /\ NiriNext /\ UNCHANGED hyprVars
     \/ ~IsNiri /\ HyprNext /\ Bounded /\ UNCHANGED niriVars

Spec == Init /\ [][Next]_<<part, niriVars, hyprVars>>

Symmetry == Permutations({x1, x2, x3})
=============================================================================
