---------------------------- MODULE MCConnections ----------------------------
(***************************************************************************)
(* The thread that follows the compositor: the sessions it goes through    *)
(* (Sessions), and how it reads a line within one (EventLines).  Sessions  *)
(* takes a read to bring one line, which is what EventLines shows, so the  *)
(* two share no variable and are looked at one at a time: `part` says      *)
(* which, under which compositor, and never changes.                       *)
(*                                                                         *)
(* Waits up to forty times the shortest (10 s over 250 ms) would need      *)
(* seven failures in a row; five of the shortest shows the same cap after  *)
(* four.                                                                   *)
(***************************************************************************)
EXTENDS Sessions, EventLines, TLC

CONSTANT Parts      \* what a run looks at

VARIABLE part

\* Three short lines; the second ends in a character of two bytes and the
\* third begins with one.
Written == <<<<"one", "one">>, <<"one", "lead", "rest">>, <<"lead", "rest", "lead", "rest">>>>

ASSUME Parts \subseteq {"niri", "hyprland", "fair", "lines"}

-----------------------------------------------------------------------------
\* Outside its part each of them waits in its initial state.
PartsInit ==
    /\ part \in Parts
    /\ Init /\ ReadInit
    /\ asks => part \in {"hyprland", "fair"}
    /\ part = "hyprland" => asks

\* Bounds of a part: changes and outages.
Within(changes, outages) == world' <= changes /\ refusals' <= outages

PartsNext ==
    \/ part = "niri" /\ Next /\ Within(3, 4) /\ UNCHANGED <<part, readVars>>
    \/ part = "hyprland" /\ Next /\ Within(2, 4) /\ UNCHANGED <<part, readVars>>
    \/ part = "fair" /\ Next /\ Within(2, 2) /\ UNCHANGED <<part, readVars>>
    \/ part = "lines" /\ ReadNext /\ UNCHANGED <<part, vars>>

\* Sessions!FairSpec and EventLines!ReadFairness.
PartsFairness ==
    /\ WF_vars(part = "fair" /\ Backend)
    /\ WF_readVars(part = "lines" /\ Call)
    /\ WF_readVars(part = "lines" /\ Take)
    /\ WF_readVars(part = "lines" /\ EndOfStream)

PartsSpec == PartsInit /\ [][PartsNext]_<<part, vars, readVars>> /\ PartsFairness

-----------------------------------------------------------------------------
(* Sessions: an outage leaves what was shown, every wait is as long as the *)
(* failures in a row make it, and a compositor that stays up is followed   *)
(* again, and heard.                                                       *)
FollowedAgain ==
    /\ LastKnownStays /\ []BacksOff
    /\ <>[](up /\ running) /\ <>(part = "fair" /\ phase = "top")
         => <>[](phase = "following" /\ (shown = world \/ missed))

(* The thread always gets on: a daemon that stops gets it back (Sessions), *)
(* every line that arrived is handed on and an end reported (EventLines).  *)
ThreadGetsOn ==
    /\ (part = "fair" /\ ~running) ~> phase \in {"never", "done"}
    /\ AllHandedOn /\ EndReported
=============================================================================
