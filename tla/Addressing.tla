----------------------------- MODULE Addressing -----------------------------
(***************************************************************************)
(* The rule for naming a slot that a request and the record on disk share: *)
(* one entry for every output, one of its own per output, and `None` for   *)
(* the output addressing all of them.  `Signals` (crates/domain/src/       *)
(* policy.rs) and `State` (crates/store/src/state.rs) each implement it.   *)
(***************************************************************************)
CONSTANTS
  Outputs,
  All,        (* the address of every output                               *)
  NoPic       (* an empty slot                                             *)

ASSUME AllAssumption == All \notin Outputs

Addresses == Outputs \cup {All}
SlotsOf(pics) == [all: pics, own: [Outputs -> pics]]
Empty == [all |-> NoPic, own |-> [o \in Outputs |-> NoPic]]

(* A broadcast is authoritative: it drops the per-output entries.          *)
Put(slots, at, pic) ==
  IF at = All THEN [all |-> pic, own |-> [o \in Outputs |-> NoPic]]
  ELSE [slots EXCEPT !.own[at] = pic]

(* The entry found for an output: its own, then the broadcast one.         *)
Holds(slots, o) == IF slots.own[o] # NoPic THEN slots.own[o] ELSE slots.all

(* `wallpaper_for`: what was set, then the configured fallback.            *)
WallpaperFor(slots, o, fallback) ==
  IF Holds(slots, o) # NoPic THEN Holds(slots, o) ELSE fallback

(* One wallpaper dropped wherever it was asked for.                        *)
Forget(slots, pic) ==
  [all |-> IF slots.all = pic THEN NoPic ELSE slots.all,
   own |-> [o \in Outputs |-> IF slots.own[o] = pic THEN NoPic ELSE slots.own[o]]]

(* `Daemon::restore`: the addressed slots are emptied, then every recorded *)
(* entry of theirs is put back, the broadcast one first.                   *)
Restored(slots, recorded, at) ==
  IF at = All THEN recorded
  ELSE [slots EXCEPT !.own[at] = recorded.own[at]]
=============================================================================
