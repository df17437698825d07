----------------------------- MODULE MCControl -----------------------------
(***************************************************************************)
(* The control socket: which daemon gets it (Binding), and what that       *)
(* daemon's connections then see of it (Control).  A connection knows      *)
(* nothing of how its daemon came by the socket, so the two share no       *)
(* variable and are looked at one at a time: `part` says which, with how   *)
(* many clients, and never changes.                                        *)
(***************************************************************************)
EXTENDS Binding, Control, TLC

CONSTANTS
  d1, d2, d3,
  c1, c2,
  Parts              (* what a run looks at                                *)

ASSUME Parts \subseteq {"binding", "one", "fair", "two"}

VARIABLE part

(* Outside its part each of them waits in its initial state.               *)
PartsInit == part \in Parts /\ BindingInit /\ Init

(* Bounds of a part: clients that come, events, outputs and requests.      *)
Within(clients, events, described, requests) ==
  /\ emitted' <= events /\ outputs' <= described
  /\ \A c \in Clients : asks'[c] <= (IF c \in clients THEN requests ELSE 0)

(* One client that falls behind, with more time and under fairness; two    *)
(* that are told of the same events.                                       *)
PartsNext ==
  \/ part = "binding" /\ BindingNext /\ UNCHANGED <<part, vars>>
  \/ part = "one" /\ Next /\ Within({c1}, 4, 3, 3) /\ UNCHANGED <<part, bindingVars>>
  \/ part = "fair" /\ Next /\ Within({c1}, 3, 1, 2) /\ UNCHANGED <<part, bindingVars>>
  \/ part = "two" /\ Next /\ Within({c1, c2}, 1, 0, 1) /\ UNCHANGED <<part, bindingVars>>

(* Binding!FairBindingSpec and Control!Fairness, with one client.          *)
PartsFair ==
  /\ \A d \in Daemons : WF_bindingVars(part = "binding" /\ Steps(d))
  /\ WF_vars(part = "fair" /\ Start)
  /\ WF_vars(part = "fair" /\ (Answer \/ Listen))
  /\ WF_vars(part = "fair" /\ (DropDaemon \/ DropCalls \/ Exit))
  /\ WF_vars(part = "fair" /\ Accept(c1))
  /\ WF_vars(part = "fair" /\ Thread(c1))

PartsSpec == PartsInit /\ [][PartsNext]_<<part, bindingVars, vars>> /\ PartsFair

-----------------------------------------------------------------------------
(* Control: whoever asks is answered or finds the connection closed, and a *)
(* listener that was dropped does not stay connected.                      *)
AnsweredOrDropped ==
  /\ (part = "fair" /\ client[c1] = "asking") ~>
       (part = "fair" /\ (client[c1] # "asking" \/ out[c1] # <<>> \/ pc[c1] = "closed"
                          \/ ~accepting))
  /\ (part = "fair" /\ pc[c1] = "pushing" /\ c1 \notin listening) ~>
       (part = "fair" /\ pc[c1] = "closed")
=============================================================================
