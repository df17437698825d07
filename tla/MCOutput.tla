------------------------------ MODULE MCOutput ------------------------------
(***************************************************************************)
(* The state of an output, from its two sides: what its values head for    *)
(* and who is told (Announcing), at two outputs, two images of different   *)
(* shapes and two viewports; and how one image takes the place of another  *)
(* (Crossfade).  The two share no variable, so either is looked at while   *)
(* the other stays where it began: `part` says which one, and never        *)
(* changes.                                                                *)
(***************************************************************************)
EXTENDS Announcing, Crossfade, TLC

CONSTANTS
  o1, o2,
  wa, wb, wc,        (* images to cross between                            *)
  w1, f1,            (* an image, and the one configured as a fallback     *)
  small, wide,       (* viewports                                          *)
  Parts              (* what a run looks at                                *)

ASSUME Parts \subseteq {"announcing", "steady", "reloaded"}

VARIABLE part

Eased == [duration |-> 2, easing |-> "linear"]
Sudden == [duration |-> 0, easing |-> "linear"]
Both == {[fallback |-> f1, tween |-> Eased, blur |-> TRUE, crop |-> 1],
         [fallback |-> NoPic, tween |-> Sudden, blur |-> FALSE, crop |-> 2]}

(* Images of different shapes have different travels, which a viewport and *)
(* the crop change too.                                                    *)
Travel(p, v, c) == (IF p = w1 THEN 1 ELSE 2) * (IF v = wide THEN 2 ELSE 1) * c

(* An axis looked at from its middle to one end, or whole.                 *)
HalfAxis == 0..1
WholeAxis == -1..1

(* A crossfade of four frames, and none.                                   *)
Crossings == {Instant, Tween(4, "linear")}

-----------------------------------------------------------------------------
(* Outside its part each of them waits in an initial state.                *)
OutputInit ==
  /\ part \in Parts
  /\ Init /\ SlotInit
  /\ part = "announcing" => transition = Instant /\ share = 0

(* A transition that stays, or that a reload may change.                   *)
OutputNext ==
  \/ part = "announcing" /\ Next /\ UNCHANGED <<part, slotVars>>
  \/ part = "steady" /\ SlotNext /\ UNCHANGED <<part, vars, transition>>
  \/ part = "reloaded" /\ SlotNext /\ UNCHANGED <<part, vars>>

outputVars == <<part, slotVars, vars>>
Draws == part = "steady" /\ TickFrame /\ UNCHANGED <<part, vars>>

(* A visible output draws what is due (Crossfade!FairSlotSpec).            *)
OutputSpec == OutputInit /\ [][OutputNext]_outputVars /\ WF_outputVars(Draws)

-----------------------------------------------------------------------------
(* Crossfade: the place kept is that of the image leaving, of every image. *)
OutgoingHolds == [][part = "steady" => StaysInPlace]_slotVars

(* Crossfade: the image said to leave is the one seen most, and on an      *)
(* output that is drawn it is gone in the end.                             *)
ReportsWhatLeaves ==
  /\ [][part = "steady" => SaysWhatLeaves]_slotVars
  /\ (part = "steady" /\ slot.outgoing # NoImage) ~> (part = "steady" /\ slot.outgoing = NoImage)

(* Crossfade: an image off the screen stays off it until it is set.        *)
DepartedStaysAway == [][part = "steady" => StaysAway]_slotVars

(* Announcing: another image under the same position is placed.            *)
PlacedNotEased == [][PlacesWhatIsNew]_vars

(* Announcing: what scrolls under the same image goes on scrolling.        *)
NothingJumps == [][KeepsMoving]_vars
=============================================================================
