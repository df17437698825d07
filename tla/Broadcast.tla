------------------------------ MODULE Broadcast ------------------------------
(***************************************************************************)
(* What the event stream of the control socket promises                    *)
(* (docs/control-protocol.md, Events): a listener is described the daemon  *)
(* as it was at one moment, and from there hears every event, in order,    *)
(* until its stream ends.  Events are numbered from 1 in the order they    *)
(* are emitted, and a moment is the number of the last one before it.      *)
(***************************************************************************)
EXTENDS Naturals

CONSTANTS
  Clients,
  Off         (* not listening: never subscribed, or the stream ended      *)

VARIABLES
  emitted,    (* events emitted so far                                     *)
  at          (* the moment each listener is up to date with               *)

vars == <<emitted, at>>

Init == emitted = 0 /\ at = [c \in Clients |-> Off]

Emit == emitted' = emitted + 1 /\ UNCHANGED at

(* Described as of a moment that is not after now. *)
Join(c) ==
  /\ at[c] = Off
  /\ \E n \in 0..emitted : at' = [at EXCEPT ![c] = n]
  /\ UNCHANGED emitted

(* The next event, and no other. *)
Hear(c) ==
  /\ at[c] # Off /\ at[c] < emitted
  /\ at' = [at EXCEPT ![c] = @ + 1]
  /\ UNCHANGED emitted

Leave(c) ==
  /\ at[c] # Off
  /\ at' = [at EXCEPT ![c] = Off]
  /\ UNCHANGED emitted

Next == Emit \/ \E c \in Clients : Join(c) \/ Hear(c) \/ Leave(c)

Spec == Init /\ [][Next]_vars
=============================================================================
