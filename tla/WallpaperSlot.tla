---------------------------- MODULE WallpaperSlot ----------------------------
(***************************************************************************)
(* `WallpaperSlot` (crates/domain/src/wallpaper.rs): the wallpaper an      *)
(* output is arriving at, the one it is leaving, how far the crossfade     *)
(* between them has got and how present the frame is.  Operators only:     *)
(* Crossfade has one slot as state, Screen one per output.                 *)
(***************************************************************************)
EXTENDS Animation

CONSTANT NoImage     (* an empty slot                                      *)

(* `WallpaperSlot::new` *)
EmptySlot == [outgoing |-> NoImage, current |-> NoImage, fade |-> At(Unit), opacity |-> At(Unit)]

Half(animated) == 2 * Value(animated) >= Unit

(* Mutant: the image that was arriving is always the one to leave.         *)
LeavingCurrent(s) == s.current

(* The image a set in the middle of a crossfade goes on leaving: the more  *)
(* visible one.                                                            *)
Leaving(s) == IF Half(s.fade) THEN s.current ELSE s.outgoing

IsArriving(s, next) == s.current = NoImage /\ s.outgoing = NoImage /\ next # NoImage

(* The second slot, the first and the crossfade after `set`: a departure   *)
(* leaves one image to be carried off, an instant change drops it, and     *)
(* otherwise the crossfade starts over.                                    *)
Crossed(s, next, tween) ==
  IF next = NoImage
  THEN [s EXCEPT !.outgoing = Leaving(s), !.current = NoImage, !.fade = At(0)]
  ELSE IF IsArriving(s, next) \/ IsInstant(tween)
  THEN [s EXCEPT !.outgoing = NoImage, !.current = next, !.fade = At(Unit)]
  ELSE [s EXCEPT !.outgoing = Leaving(s), !.current = next,
                 !.fade = Retarget(At(0), Unit, tween).is]

(* How present the frame should be, which only changes where it must.      *)
Presence(opacity, arriving, leaving, tween) ==
  LET start == IF arriving THEN At(0) ELSE opacity
      aim == IF leaving THEN 0 ELSE Unit
  IN IF start.to = aim THEN start ELSE Retarget(start, aim, tween).is

(* `WallpaperSlot::set`, of a wallpaper that is not there already.         *)
SetSlot(s, next, tween) ==
  [Crossed(s, next, tween) EXCEPT
     !.opacity = Presence(s.opacity, IsArriving(s, next), next = NoImage, tween)]

SwapOf(s, next, tween) ==
  LET out == Crossed(s, next, tween).outgoing
  IN [from |-> IF out # NoImage THEN out ELSE s.current, to |-> next, tween |-> tween]

IsDeparting(s) == s.current = NoImage /\ ~Rests(s.opacity)

(* `WallpaperSlot::tick`: the crossfade alone releases the second slot,    *)
(* unless a departure still shows it.                                      *)
TickSlot(s, dt) ==
  LET t == [s EXCEPT !.fade = Ticked(@, dt), !.opacity = Ticked(@, dt)]
  IN IF Rests(t.fade) /\ ~IsDeparting(t) THEN [t EXCEPT !.outgoing = NoImage] ELSE t

SlotRests(s) == Rests(s.fade) /\ Rests(s.opacity)
=============================================================================
