------------------------------ MODULE Channels ------------------------------
(***************************************************************************)
(* What a compositor backend drives and how the daemon takes it in: `Drive`*)
(* (crates/compositor/src/event.rs) folded into `Driven` (crates/domain/   *)
(* src/policy.rs), and the settings that say which of it drives what       *)
(* (crates/compositor/src/backends), with which a backend is connected.    *)
(*                                                                         *)
(* A stop is kept as the place in a row and the number of steps the row    *)
(* has, of which `at` and `stride` are the quotients.                      *)
(***************************************************************************)
EXTENDS Naturals, FiniteSets

CONSTANTS
  Outputs, Windows, None,
  Configurations   (* the settings there may be                            *)

VARIABLE settings  (* Scoped::for_output: [vertical, horizontal, when, scope, overview] *)

Axes == {"workspace", "column", "none"}
Whens == {"focused", "non-empty"}
Scopes == {"global", "output"}
Overviews == {"blur", "clear", "follow"}

Settings ==
  [Outputs -> [vertical: Axes, horizontal: Axes, when: Whens, scope: Scopes, overview: Overviews]]

ASSUME ChannelsAssumption ==
  /\ IsFiniteSet(Outputs) /\ IsFiniteSet(Windows)
  /\ None \notin Outputs \cup Windows
  /\ Configurations \subseteq Settings

Centred == [rank |-> 0, span |-> 0]

(* `Stop`: a position between 0 and 1.                                     *)
IsStop(stop) == stop.rank \in Nat /\ stop.span \in Nat /\ stop.rank <= stop.span

(* `progress`: a one-based place in a row of `count`.                      *)
Progress(idx, count) ==
  IF count <= 1 \/ idx = 0 THEN Centred
  ELSE [rank |-> (IF idx < count THEN idx ELSE count) - 1, span |-> count - 1]

Neutral == [x |-> Centred, y |-> Centred, blur |-> FALSE, zoom_out |-> FALSE]

(* The blur an output is driven to, of the set that reached it.            *)
Blurred(o, outputs, reached) ==
  IF settings[o].scope = "global" THEN reached \cap outputs # {} ELSE o \in reached

(* `Drive::apply_to` of one restatement: the set of outputs first, then    *)
(* what each is told.                                                      *)
Folded(driven, outputs, told) ==
  [o \in outputs |->
     IF o \in DOMAIN told THEN told[o] ELSE IF o \in DOMAIN driven THEN driven[o] ELSE Neutral]
=============================================================================
