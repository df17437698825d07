------------------------------- MODULE Display -------------------------------
(***************************************************************************)
(* What the daemon promises whoever is looking at the outputs, with        *)
(* nothing of how it keeps the promise: no flags, no queue, no event loop. *)
(* An output has a frame it ought to show, which changes at any moment;    *)
(* the daemon may show it once for every answer the compositor gives, and  *)
(* only as it ought to be at that moment.                                  *)
(***************************************************************************)
CONSTANTS
  Outputs,
  Frames,     (* what an output can show                                   *)
  Nothing     (* not a frame: no output, or nothing presented on it yet    *)

VARIABLES
  wish,       (* what each output ought to show, Nothing for no output     *)
  usable,     (* the images that frame is made of are decoded              *)
  screen,     (* what each output shows                                    *)
  ready       (* the compositor has asked for a frame                      *)

vars == <<wish, usable, screen, ready>>

Init ==
  /\ wish = [o \in Outputs |-> Nothing]
  /\ usable \in [Outputs -> BOOLEAN]
  /\ screen = [o \in Outputs |-> Nothing]
  /\ ready = [o \in Outputs |-> TRUE]

(* Requests, animations and decodes change what the outputs ought to show. *)
Change ==
  /\ wish' \in [Outputs -> Frames \cup {Nothing}]
  /\ \A o \in Outputs : wish[o] = Nothing <=> wish'[o] = Nothing
  /\ usable' \in [Outputs -> BOOLEAN]
  /\ UNCHANGED <<screen, ready>>

(* An output appears, showing nothing yet. *)
Appear(o) ==
  /\ wish[o] = Nothing
  /\ \E f \in Frames : wish' = [wish EXCEPT ![o] = f]
  /\ \E b \in BOOLEAN : usable' = [usable EXCEPT ![o] = b]
  /\ UNCHANGED <<screen, ready>>

(* The frame that ought to be shown is shown, which uses up the answer. *)
Show(o) ==
  /\ ready[o] /\ usable[o] /\ wish[o] # Nothing
  /\ screen' = [screen EXCEPT ![o] = wish[o]]
  /\ ready' = [ready EXCEPT ![o] = FALSE]
  /\ UNCHANGED <<wish, usable>>

(* The compositor asks for another one; time has passed since the last. *)
Answer(o) ==
  /\ ~ready[o]
  /\ ready' = [ready EXCEPT ![o] = TRUE]
  /\ \E f \in Frames : wish' = [wish EXCEPT ![o] = f]
  /\ UNCHANGED <<usable, screen>>

(* The output goes, and everything shown on it. *)
Vanish(o) ==
  /\ wish' = [wish EXCEPT ![o] = Nothing]
  /\ \E b \in BOOLEAN : usable' = [usable EXCEPT ![o] = b]
  /\ screen' = [screen EXCEPT ![o] = Nothing]
  /\ ready' = [ready EXCEPT ![o] = TRUE]

Next ==
  \/ Change
  \/ \E o \in Outputs : Appear(o) \/ Show(o) \/ Answer(o) \/ Vanish(o)

Spec == Init /\ [][Next]_vars
=============================================================================
