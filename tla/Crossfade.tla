------------------------------ MODULE Crossfade ------------------------------
(***************************************************************************)
(* What one output shows: `WallpaperSlot` (crates/domain/src/wallpaper.rs) *)
(* and what `MonitorState` keeps beside it (crates/domain/src/monitor.rs): *)
(* the wallpaper arriving, the one leaving, the crossfade between them,    *)
(* and where each of them is sampled from.                                 *)
(*                                                                         *)
(* A wallpaper may be set at any moment, the image under the scroll moves, *)
(* the transition is changed by a reload, and frames are drawn, which is   *)
(* what ticks the clocks; an output that is hidden draws none.             *)
(*                                                                         *)
(* Abstracted: where a scroll position comes from (Announcing); one axis.  *)
(***************************************************************************)
EXTENDS WallpaperSlot

CONSTANTS
  Wallpapers,
  Shares,     (* where an image can be sampled from                        *)
  Transitions,  (* what configurations can say of one                      *)
  MaxSets     (* bound: wallpapers set and reloads                         *)

Unset == -1                (* Option::None                               *)

ASSUME CrossfadeAssumption ==
  /\ UnitAssumption
  /\ NoImage \notin Wallpapers /\ Unset \notin Shares
  /\ Transitions \subseteq [duration: Nat, easing: Easings]
  /\ MaxSets \in Nat

VARIABLES
  slot,       (* WallpaperSlot                                             *)
  transition, (* TransitionParams::effective_tween                         *)
  share,      (* where the current image is sampled from                   *)
  kept,       (* outgoing_scroll: where the outgoing one is                *)
  due,        (* a frame is coming: the state was changed or still moves   *)
  swap,       (* history: the swap reported last                           *)
  sets        (* history: changes so far                                   *)

slotVars == <<slot, transition, share, kept, due, swap, sets>>

Images == Wallpapers \cup {NoImage}
SharesKept == Shares \cup {Unset}

SlotInit ==
  /\ slot = EmptySlot
  /\ transition \in Transitions
  /\ share \in Shares /\ kept = Unset
  /\ due = FALSE
  /\ swap = [from |-> NoImage, to |-> NoImage, tween |-> Instant]
  /\ sets = 0

(* Mutant: the place is taken on every set.                                *)
KeptAlways(was, is) == IF is.outgoing = NoImage THEN Unset ELSE share

(* `MonitorState::set_wallpaper`: the place is taken when another image    *)
(* becomes the one on its way out.                                         *)
Kept(was, is) ==
  IF is.outgoing = was.outgoing THEN kept
  ELSE IF is.outgoing = NoImage THEN Unset ELSE share

SetWallpaper(next) ==
  /\ sets < MaxSets /\ next # slot.current
  /\ slot' = SetSlot(slot, next, transition)
  /\ swap' = SwapOf(slot, next, transition)
  /\ kept' = Kept(slot, slot')
  /\ due' = TRUE
  /\ sets' = sets + 1
  /\ UNCHANGED <<transition, share>>

(* `MonitorState::apply_params` *)
ReloadTransition ==
  /\ sets < MaxSets
  /\ transition' \in Transitions \ {transition}
  /\ sets' = sets + 1
  /\ UNCHANGED <<slot, share, kept, due, swap>>

(* The image under the current position is placed, or the position moves.  *)
Scroll ==
  /\ share' \in Shares \ {share}
  /\ UNCHANGED <<slot, transition, kept, due, swap, sets>>

(* `MonitorState::tick`, one frame after the one before: frames come while *)
(* something moves, and after it stopped until one was drawn of that.      *)
TickFrame ==
  /\ due
  /\ slot' = TickSlot(slot, 1)
  /\ kept' = IF slot'.outgoing = NoImage THEN Unset ELSE kept
  /\ due' = ~SlotRests(slot)
  /\ UNCHANGED <<transition, share, swap, sets>>

SlotNext == (\E w \in Images : SetWallpaper(w)) \/ ReloadTransition \/ Scroll \/ TickFrame

SlotSpec == SlotInit /\ [][SlotNext]_slotVars

(* Of a configuration whose transition is not reloaded.                    *)
SteadyNext == SlotNext /\ UNCHANGED transition

SteadySlotSpec == SlotInit /\ [][SteadyNext]_slotVars

(* A visible output draws what is due.                                     *)
FairSlotSpec == SlotSpec /\ WF_slotVars(TickFrame)

-----------------------------------------------------------------------------
Animations(values) ==
  {a \in [from: values, to: values, elapsed: Nat, tween: Transitions \cup {Instant}] :
     a.elapsed <= a.tween.duration}

(* Every variable has its type. *)
SlotTypeOK ==
  /\ slot = [outgoing |-> slot.outgoing, current |-> slot.current,
             fade |-> slot.fade, opacity |-> slot.opacity]
  /\ {slot.outgoing, slot.current} \subseteq Images
  /\ {slot.fade, slot.opacity} \subseteq Animations(0..Unit)
  /\ transition \in Transitions
  /\ share \in Shares /\ kept \in SharesKept
  /\ due \in BOOLEAN
  /\ swap \in [from: Images, to: Images, tween: Transitions \cup {Instant}]
  /\ sets \in 0..MaxSets

(* What each image contributes to the frame, in square Units.              *)
Weight(s, w) ==
  (IF s.current = w THEN Value(s.opacity) * Value(s.fade) ELSE 0)
    + (IF s.outgoing = w THEN Value(s.opacity) * (Unit - Value(s.fade)) ELSE 0)

Jump(w) == IF Weight(slot', w) > Weight(slot, w) THEN Weight(slot', w) - Weight(slot, w)
           ELSE Weight(slot, w) - Weight(slot', w)

(* "Keeping whichever is the more visible bounds the discontinuity at      *)
(* half", whatever is interrupted: an arrival, a crossfade or a departure. *)
HalfJump ==
  slot'.current # slot.current /\ ~IsInstant(transition) =>
    \A w \in Wallpapers : 2 * Jump(w) <= Unit * Unit

(* An image that is still seen is never dropped by a tick: the frame that  *)
(* releases it had nothing of it left.                                     *)
DropsUnseen ==
  slot'.current = slot.current /\ slot'.outgoing # slot.outgoing
    => Weight([slot EXCEPT !.fade = slot'.fade, !.opacity = slot'.opacity,
                           !.current = NoImage], slot.outgoing) = 0

(* The image reported as leaving is the one that has most of the frame,    *)
(* and one is reported whenever something is seen.                         *)
SaysWhatLeaves ==
  slot'.current # slot.current =>
    /\ \A w \in Wallpapers : Weight(slot, w) > 0 => swap'.from # NoImage
    /\ swap'.from # NoImage => \A w \in Wallpapers : Weight(slot, w) <= Weight(slot, swap'.from)

(* Where the two images of a frame are sampled from. *)
OutgoingAt == IF kept = Unset THEN share ELSE kept

(* "which holds the place it was last drawn in for as long as the          *)
(* crossfade lasts": the image leaving stays where it is, and one that     *)
(* starts to leave does so from where it had most of the frame.            *)
StaysInPlace ==
  slot'.outgoing # NoImage =>
    OutgoingAt' = IF slot'.current # slot.current /\ Half(slot.fade) THEN share ELSE OutgoingAt

(* Whatever interrupts a movement, no more than half of the frame jumps    *)
(* (WallpaperSlot::set gives the second slot to the image seen most), no   *)
(* image still seen is dropped, and the image leaving stays where it was   *)
(* drawn, but for one that was in both slots (wallpaper.rs:91-168,         *)
(* monitor.rs:95-135).                                                     *)
InterruptedGently ==
  [][HalfJump /\ DropsUnseen /\ (slot.current # slot.outgoing => StaysInPlace)]_slotVars

(* As a step of the code keeps it: a crossfade ends at the image set,      *)
(* unless the frame is being left to nothing, and a place is kept exactly  *)
(* of an image that is leaving.                                            *)
CrossfadeInv ==
  /\ SlotTypeOK
  /\ slot.fade.to # Unit => slot.current = NoImage /\ slot.opacity.to = 0
  /\ kept = Unset <=> slot.outgoing = NoImage

(* And where the transition stays: nothing is left of a crossfade to       *)
(* nothing, and an instant change leaves nothing that is seen.             *)
SteadyInv ==
  /\ CrossfadeInv
  /\ slot.current = NoImage /\ slot.outgoing # NoImage => slot.fade = At(0)
  /\ IsInstant(transition) =>
       IsInstant(slot.opacity.tween) /\ (slot.outgoing # NoImage => slot.opacity.to = 0)

(* "What the viewer watches leave": whatever a change of wallpaper         *)
(* interrupts, the image it reports as leaving is the one seen most, where *)
(* the transition stays (wallpaper.rs:149-151).                            *)
ReportsTheSeen == [][SaysWhatLeaves]_slotVars

(* An image that has left the screen does not come back unless it is set:  *)
(* with nothing seen, only what was set last can appear.                   *)
StaysAway ==
  slot.current = NoImage /\ Rests(slot.opacity) => slot'.current = NoImage \/ slot'.outgoing = NoImage
=============================================================================
