------------------------------- MODULE Pacing -------------------------------
(***************************************************************************)
(* The rule that decides when one output submits a frame: the three flags  *)
(* of `Pacing` in crates/render/src/wayland/surface.rs, its decision       *)
(* `plan`, and the bookkeeping `submitted` does just before a frame is     *)
(* presented.  Pure operators: FrameLoop owns the flags as state.          *)
(***************************************************************************)

(* dirty: something other than an animation needs a redraw.                *)
(* awaiting: a frame was committed and its callback has not come back.     *)
(* running: the last frame presented was mid-animation (`was_running`).    *)
Flags == [dirty: BOOLEAN, awaiting: BOOLEAN, running: BOOLEAN]

(* A surface that has just been built owes its first frame.                *)
NewFlags == [dirty |-> TRUE, awaiting |-> FALSE, running |-> FALSE]

(* Mutant: an animation that ended between two passes is forgotten.        *)
OwedUnsettled(flags, settled) == flags.dirty \/ ~settled

(* There is something to draw, whether or not it may be drawn yet.         *)
Owed(flags, settled) == flags.dirty \/ ~settled \/ flags.running

(* `Pacing::plan`.                                                         *)
Plan(flags, drawable, settled) ==
  IF ~(drawable /\ Owed(flags, settled)) THEN "Skip"
  ELSE IF flags.awaiting THEN "Defer" ELSE "Draw"

(* Mutants: the wait is not recorded; the debt is never settled.           *)
SubmittedUnpaced(flags, settled) ==
  [flags EXCEPT !.dirty = FALSE, !.running = ~settled]
SubmittedDirty(flags, settled) ==
  [flags EXCEPT !.running = ~settled, !.awaiting = TRUE]

(* `Pacing::submitted`, recorded before the buffers are swapped.           *)
Submitted(flags, settled) ==
  [flags EXCEPT !.dirty = FALSE, !.running = ~settled, !.awaiting = TRUE]

(* `Renderer::invalidate`, and the debt a deferred pass leaves behind.     *)
Dirtied(flags) == [flags EXCEPT !.dirty = TRUE]

(* The compositor's answer to a frame.                                     *)
Answered(flags) == [flags EXCEPT !.awaiting = FALSE]
=============================================================================
