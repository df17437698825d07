---------------------------- MODULE HyprTracker ----------------------------
(***************************************************************************)
(* Hyprland's event socket, the snapshots asked for beside it, and the     *)
(* `Tracker` that makes positions of both (crates/compositor/src/backends/ *)
(* hyprland/mod.rs, translate.rs, wire.rs, socket1.rs).                    *)
(*                                                                         *)
(* Hyprland itself is `world`.  Its events arrive in the order things      *)
(* happened and name no monitor where the focused one is meant; a snapshot *)
(* is two or four separate questions, each answered with what is true when *)
(* it is asked, while events of before wait unread.                        *)
(***************************************************************************)
EXTENDS Channels, Integers, Sequences, SequencesExt

CONSTANTS
  Addresses,    (* of workspaces: numbers                                  *)
  Named,        (* those that stand for a name, and do not travel          *)
  Unset, Absent,
  MaxTurns      (* bound: changes of the desktop and reconnections         *)

ASSUME HyprAssumption ==
  /\ IsFiniteSet(Addresses) /\ Addresses \subseteq Nat /\ Named \subseteq Addresses
  /\ {None, Unset, Absent} \cap (Addresses \cup Windows \cup Outputs) = {}
  /\ None \notin {Unset, Absent} /\ Unset # Absent
  /\ MaxTurns \in Nat

VARIABLES
  desktop,      (* what is true of Hyprland                                *)
  queue,        (* events on the socket, not read                          *)
  asking,       (* the question the backend waits on: see Questions        *)
  answers,      (* those had of this snapshot                              *)
  view,         (* Tracker                                                 *)
  told,         (* Driven, as the daemon has it                            *)
  raced,        (* history: something changed before all of it was read    *)
  renumbered,   (* history: so did a number, since the connection began    *)
  turns

hyprVars == <<desktop, queue, asking, answers, view, told, raced, renumbered, turns, settings>>
session == <<asking, answers, view, told>>

Questions == {"monitors", "workspaces", "activewindow", "clients", "nothing"}

-----------------------------------------------------------------------------
(***************************************************************************)
(* Hyprland.                                                               *)
(***************************************************************************)
Exists(w, s) == w.owner[s] # None
ShownOn(w, s) == {o \in w.monitors : w.shown[o] = s}
On(w, s) == {x \in Windows : w.on[x] = s}
Monitor(o, s) == [says |-> "focusedmon", monitor |-> o, workspace |-> s]
Focus(takes) == [says |-> "activewindow", focused |-> takes]
Of(kind, s) == [says |-> kind, workspace |-> s]

(* What follows of itself: a focus no monitor shows is lost, and an empty  *)
(* workspace that is not shown is gone.                                    *)
Aftermath(w) ==
  LET lost == w.win # None /\ ShownOn(w, w.on[w.win]) = {}
      gone == {s \in Addresses : Exists(w, s) /\ ShownOn(w, s) = {} /\ On(w, s) = {}}
  IN [desktop |-> [w EXCEPT !.win = IF lost THEN None ELSE @,
                          !.owner = [s \in Addresses |-> IF s \in gone THEN None ELSE w.owner[s]]],
      events |-> (IF lost THEN <<Focus(FALSE)>> ELSE <<>>)
                 \o SetToSeq({Of("destroyworkspace", s) : s \in gone})]

Idle == asking = "nothing" /\ queue = <<>>

Happens(w, events) ==
  /\ renumbered' = (renumbered \/ \E i \in DOMAIN events : events[i].says = "changeworkspaceid")
  /\ turns < MaxTurns /\ turns' = turns + 1
  /\ w # desktop
  /\ desktop' = Aftermath(w).desktop
  /\ queue' = queue \o events \o Aftermath(w).events
  /\ raced' = (raced \/ ~Idle)
  /\ UNCHANGED session

(* The cursor or a key takes the focus to another monitor; what is focused *)
(* stays where it is unless a window takes it.                             *)
FocusMonitor(o) ==
  /\ o \in desktop.monitors \ {desktop.focus}
  /\ \E win \in (IF On(desktop, desktop.shown[o]) = {} THEN {desktop.win, None}
                 ELSE On(desktop, desktop.shown[o])) :
       LET moved == <<Monitor(o, desktop.shown[o])>>
       IN Happens([desktop EXCEPT !.focus = o, !.win = win],
            IF win = desktop.win THEN moved
            ELSE IF win = None THEN <<Focus(FALSE)>> \o moved
            ELSE Append(moved, Focus(TRUE)))

(* A workspace of the focused monitor, or one there was not, is switched   *)
(* to: the window it holds takes the focus before it is said to be active. *)
Switch(s) ==
  LET o == desktop.focus
      created == ~Exists(desktop, s)
  IN /\ desktop.shown[o] # s /\ desktop.owner[s] \in {o, None}
     /\ \E win \in (IF On(desktop, s) = {} THEN {None} ELSE On(desktop, s)) :
          Happens([desktop EXCEPT !.shown[o] = s, !.owner[s] = o, !.win = win],
                  (IF win = None /\ desktop.win = None THEN <<>> ELSE <<Focus(win # None)>>)
                  \o (IF created THEN <<Of("createworkspace", s)>> ELSE <<>>)
                  \o <<Of("workspace", s)>>)

PickWindow(x) ==
  /\ desktop.on[x] = desktop.shown[desktop.focus] /\ desktop.win # x
  /\ Happens([desktop EXCEPT !.win = x], <<Focus(TRUE)>>)

(* What has the focus once a window leaves where it is.                    *)
Successors(x) ==
  IF desktop.win # x THEN {desktop.win}
  ELSE IF desktop.on[x] = desktop.shown[desktop.focus] /\ On(desktop, desktop.on[x]) # {x}
  THEN On(desktop, desktop.on[x]) \ {x} ELSE {None}

Refocused(win) == IF win = desktop.win THEN <<>> ELSE <<Focus(win # None)>>

(* A window opens or is handed over, on a workspace there may not be yet   *)
(* and which a rule may bind to any monitor.                               *)
PutWindow(x, s) ==
  /\ desktop.on[x] # s
  /\ \E o \in (IF Exists(desktop, s) THEN {desktop.owner[s]} ELSE desktop.monitors),
        win \in (IF s = desktop.shown[desktop.focus] THEN {x} ELSE Successors(x)) :
       LET says == IF desktop.on[x] = None THEN "openwindow" ELSE "movewindow"
       IN Happens([desktop EXCEPT !.on[x] = s, !.owner[s] = o, !.win = win],
                  (IF Exists(desktop, s) THEN <<>> ELSE <<Of("createworkspace", s)>>)
                  \o <<[says |-> says, window |-> x, workspace |-> s]>>
                  \o (IF win = x THEN <<Focus(TRUE)>> ELSE Refocused(win)))

KillWindow(x) ==
  /\ desktop.on[x] # None
  /\ \E win \in Successors(x) :
       Happens([desktop EXCEPT !.on[x] = None, !.win = win],
               <<[says |-> "closewindow", window |-> x]>> \o Refocused(win))

(* A workspace is handed to another monitor, which shows it if it was the  *)
(* one in focus; the monitor it left shows another of its own.             *)
HandWorkspace(s, o) ==
  LET from == desktop.owner[s]
      follows == from = desktop.focus /\ desktop.shown[from] = s
  IN /\ Exists(desktop, s) /\ o \in desktop.monitors \ {from}
     /\ \E next \in (IF desktop.shown[from] = s
                     THEN {r \in Addresses \ {s} : desktop.owner[r] = from}
                     ELSE {desktop.shown[from]}) :
          Happens([desktop EXCEPT !.owner[s] = o,
                                !.shown = [desktop.shown EXCEPT ![from] = next,
                                                                ![o] = IF follows THEN s ELSE @],
                                !.focus = IF follows THEN o ELSE @],
                  <<[says |-> "moveworkspace", workspace |-> s, monitor |-> o]>>
                  \o (IF follows THEN <<Monitor(o, s)>> ELSE <<>>))

(* A workspace takes a number no other has.                                *)
Renumber(s, t) ==
  /\ Exists(desktop, s) /\ ~Exists(desktop, t) /\ {s, t} \cap Named = {}
  /\ Happens([desktop EXCEPT
       !.owner = [desktop.owner EXCEPT ![t] = desktop.owner[s], ![s] = None],
       !.shown = [o \in Outputs |-> IF desktop.shown[o] = s THEN t ELSE desktop.shown[o]],
       !.on = [x \in Windows |-> IF desktop.on[x] = s THEN t ELSE desktop.on[x]]],
       <<[says |-> "changeworkspaceid", from |-> s, to |-> t]>>)

Attach(o, s) ==
  /\ o \in desktop.ports \ desktop.monitors /\ ~Exists(desktop, s)
  /\ Happens([desktop EXCEPT !.monitors = @ \cup {o}, !.owner[s] = o, !.shown[o] = s],
             <<Of("createworkspace", s), [says |-> "monitoradded", monitor |-> o]>>)

(* A monitor goes: another one has its workspaces, and the focus.          *)
Detach(o, p) ==
  /\ o \in desktop.monitors /\ p \in desktop.monitors \ {o}
  /\ LET moved == {s \in Addresses : desktop.owner[s] = o}
     IN Happens([desktop EXCEPT
          !.monitors = @ \ {o}, !.shown[o] = None,
          !.owner = [s \in Addresses |-> IF s \in moved THEN p ELSE desktop.owner[s]],
          !.focus = IF @ = o THEN p ELSE @],
          SetToSeq({[says |-> "moveworkspace", workspace |-> s, monitor |-> p] : s \in moved})
          \o (IF desktop.focus = o THEN <<Monitor(p, desktop.shown[p])>> ELSE <<>>)
          \o <<[says |-> "monitorremoved", monitor |-> o]>>)

-----------------------------------------------------------------------------
(***************************************************************************)
(* The tracker.                                                            *)
(***************************************************************************)
TracksWindows == \E o \in Outputs : settings[o].when = "non-empty"

NewView ==
  [shows |-> [o \in Outputs |-> Absent], owner |-> [s \in Addresses |-> Absent],
   focused |-> None, focused_workspace |-> None, windows |-> [x \in Windows |-> None]]

(* `showing`: what the focused monitor shows, if that was ever said.       *)
Showing(t) ==
  IF t.focused = None \/ t.shows[t.focused] \in {Unset, Absent} THEN None ELSE t.shows[t.focused]

(* `replace_topology`: who owns what, corrected by what each monitor shows.*)
ReplaceTopology(t, shown, focus, owner) ==
  [t EXCEPT
     !.focused = focus,
     !.shows = [o \in Outputs |-> IF shown[o] = None THEN Absent ELSE shown[o]],
     !.owner = [s \in Addresses |->
        IF \E o \in Outputs : shown[o] = s THEN CHOOSE o \in Outputs : shown[o] = s
        ELSE IF owner[s] = None THEN Absent ELSE owner[s]]]

(* `holding`: where the focused window is, or what the focused monitor     *)
(* shows if no monitor shows that.                                         *)
Holding(t, on) ==
  IF on = None THEN None
  ELSE IF \E o \in Outputs : t.shows[o] = on THEN on ELSE Showing(t)

(* `seed` *)
Seed(t, a) ==
  LET placed == ReplaceTopology(t, a.shown, a.focus, a.owner)
  IN [placed EXCEPT !.windows = IF TracksWindows THEN a.windows ELSE @,
                    !.focused_workspace = Holding(placed, a.active)]

(* `record`: a workspace nothing placed is on the focused monitor.         *)
Record(t, s) ==
  IF t.owner[s] # Absent THEN t ELSE [t EXCEPT !.owner[s] = t.focused]

(* `show` *)
Show(t, o, s) ==
  [t EXCEPT !.shows[o] = s, !.owner[s] = IF @ = Absent THEN Absent ELSE o]

(* `WorkspaceActive`: a focus on the workspace that is left moves along.   *)
Activated(t, s) ==
  LET o == t.focused
      recorded == Record(t, s)
      moves == t.focused_workspace # None /\ t.focused_workspace = t.shows[o]
  IN IF o = None THEN recorded
     ELSE [Show(recorded, o, s) EXCEPT !.focused_workspace = IF moves THEN s ELSE @]

(* A window is followed only where some output's blur asks.                *)
Follow(t, on) == IF TracksWindows THEN [t EXCEPT !.windows = on] ELSE t

(* `WorkspaceIdChanged` *)
Renumbered(t, from, to) ==
  Follow([t EXCEPT !.owner[from] = Absent],
         [x \in Windows |-> IF t.windows[x] = from THEN to ELSE t.windows[x]])

(* `WorkspaceDestroyed`: with what was on it.                              *)
Destroyed(t, s) ==
  Follow([t EXCEPT !.owner[s] = Absent],
         [x \in Windows |-> IF t.windows[x] = s THEN None ELSE t.windows[x]])

(* `Tracker::apply` *)
Hear(t, event) ==
  CASE event.says = "monitoradded" ->
         [t EXCEPT !.shows[event.monitor] = IF @ = Absent THEN Unset ELSE @]
    [] event.says = "monitorremoved" ->
         [t EXCEPT !.shows[event.monitor] = Absent,
                   !.focused = IF @ = event.monitor THEN None ELSE @]
    [] event.says = "focusedmon" ->
         [Show(t, event.monitor, event.workspace) EXCEPT !.focused = event.monitor]
    [] event.says = "workspace" -> Activated(t, event.workspace)
    [] event.says = "createworkspace" -> Record(t, event.workspace)
    [] event.says = "activewindow" ->
         [t EXCEPT !.focused_workspace = IF event.focused THEN Showing(t) ELSE None]
    [] event.says \in {"openwindow", "movewindow"} ->
         Follow(t, [t.windows EXCEPT ![event.window] = event.workspace])
    [] event.says = "closewindow" -> Follow(t, [t.windows EXCEPT ![event.window] = None])
    [] event.says = "moveworkspace" -> [t EXCEPT !.owner[event.workspace] = event.monitor]
    [] event.says = "changeworkspaceid" -> Renumbered(t, event.from, event.to)
    [] event.says = "destroyworkspace" -> Destroyed(t, event.workspace)

(* `unanswered`: what leaves some workspace's monitor unsaid.              *)
Unanswered(event) ==
  event.says \in {"createworkspace", "moveworkspace", "changeworkspaceid",
                  "monitoradded", "monitorremoved"}

(* `stop`: the place among the numbered workspaces the monitor has.        *)
RowStop(owner, o, active) ==
  LET row == {s \in Addresses \ Named : owner[s] = o}
  IN IF active \notin row \/ Cardinality(row) < 2 THEN Centred
     ELSE [rank |-> Cardinality({s \in row : s < active}), span |-> Cardinality(row) - 1]

ParamsAxis(axis, stop) == IF axis = "workspace" THEN stop ELSE Centred

(* What the tracker, or the world, drives.                                 *)
Drives(outputs, shows, owner, focused_workspace, windows) ==
  LET reached == {o \in outputs :
        IF settings[o].when = "focused"
        THEN focused_workspace # None /\ shows[o] = focused_workspace
        ELSE TracksWindows /\ \E x \in Windows : windows[x] = shows[o]}
  IN [o \in outputs |->
        [x |-> ParamsAxis(settings[o].horizontal, RowStop(owner, o, shows[o])),
         y |-> ParamsAxis(settings[o].vertical, RowStop(owner, o, shows[o])),
         blur |-> Blurred(o, outputs, reached), zoom_out |-> FALSE]]

(* `Tracker::drives` *)
Redrive(t) ==
  LET outputs == {o \in Outputs : t.shows[o] # Absent}
  IN Folded(told, outputs,
            Drives(outputs, t.shows, t.owner, t.focused_workspace, t.windows))

-----------------------------------------------------------------------------
(***************************************************************************)
(* A session.                                                              *)
(***************************************************************************)
NoAnswers ==
  [of |-> "nothing", shown |-> [o \in Outputs |-> None], focus |-> None,
   owner |-> [s \in Addresses |-> None], active |-> None]

(* Listening comes before asking.                                          *)
Connect ==
  /\ turns < MaxTurns /\ turns' = turns + 1
  /\ queue' = <<>>
  /\ view' = NewView
  /\ asking' = "monitors" /\ answers' = [NoAnswers EXCEPT !.of = "seed"]
  /\ raced' = FALSE /\ renumbered' = FALSE
  /\ UNCHANGED <<desktop, told>>

AnswerMonitors ==
  /\ asking = "monitors"
  /\ answers' = [answers EXCEPT !.shown = desktop.shown, !.focus = desktop.focus]
  /\ asking' = "workspaces"
  /\ UNCHANGED <<desktop, queue, view, told, raced, renumbered, turns>>

Answered(t) ==
  /\ view' = t
  /\ told' = Redrive(t)
  /\ asking' = "nothing" /\ answers' = NoAnswers

AnswerWorkspaces ==
  /\ asking = "workspaces"
  /\ IF answers.of = "seed"
     THEN /\ answers' = [answers EXCEPT !.owner = desktop.owner]
          /\ asking' = "activewindow"
          /\ UNCHANGED <<view, told>>
     ELSE Answered(ReplaceTopology(view, answers.shown, answers.focus, desktop.owner))
  /\ UNCHANGED <<desktop, queue, raced, renumbered, turns>>

Active == IF desktop.win = None THEN None ELSE desktop.on[desktop.win]

AnswerActiveWindow ==
  /\ asking = "activewindow"
  /\ IF TracksWindows
     THEN /\ answers' = [answers EXCEPT !.active = Active]
          /\ asking' = "clients"
          /\ UNCHANGED <<view, told>>
     ELSE Answered(Seed(view, [shown |-> answers.shown, focus |-> answers.focus,
                                  owner |-> answers.owner, active |-> Active]))
  /\ UNCHANGED <<desktop, queue, raced, renumbered, turns>>

SeedAnswer ==
  [shown |-> answers.shown, focus |-> answers.focus, owner |-> answers.owner,
   active |-> answers.active, windows |-> desktop.on]

(* Mutant: what happened while asking was never listened to.               *)
SeededAfterwards == Answered(Seed(view, SeedAnswer)) /\ queue' = <<>>

Seeded == Answered(Seed(view, SeedAnswer)) /\ UNCHANGED queue

AnswerClients ==
  /\ asking = "clients"
  /\ Seeded
  /\ UNCHANGED <<desktop, raced, renumbered, turns>>

(* One event; where it leaves something unsaid the questions come before   *)
(* anything is driven.                                                     *)
ReadEvent ==
  /\ asking = "nothing" /\ queue # <<>>
  /\ queue' = Tail(queue)
  /\ view' = Hear(view, Head(queue))
  /\ IF Unanswered(Head(queue))
     THEN /\ asking' = "monitors" /\ answers' = [NoAnswers EXCEPT !.of = "resync"]
          /\ UNCHANGED told
     ELSE told' = Redrive(view') /\ UNCHANGED <<asking, answers>>
  /\ UNCHANGED <<desktop, raced, renumbered, turns>>

Desktops ==
  {w \in [ports: SUBSET Outputs, monitors: (SUBSET Outputs) \ {{}}, shown: [Outputs -> Addresses \cup {None}],
          owner: [Addresses -> Outputs \cup {None}], focus: Outputs,
          win: {None}, on: {[x \in Windows |-> None]}] :
     /\ w.focus \in w.monitors /\ w.monitors \subseteq w.ports
     /\ \A o \in Outputs : w.shown[o] # None <=> o \in w.monitors
     /\ \A o \in w.monitors : w.owner[w.shown[o]] = o
     /\ \A s \in Addresses : w.owner[s] # None => ShownOn(w, s) # {}}

HyprInit ==
  /\ settings \in Configurations
  /\ desktop \in Desktops
  /\ queue = <<>>
  /\ asking = "monitors" /\ answers = [NoAnswers EXCEPT !.of = "seed"]
  /\ view = NewView
  /\ told = [o \in {} |-> Neutral]
  /\ raced = FALSE /\ renumbered = FALSE
  /\ turns = 0

HyprChanges ==
  \/ \E o \in Outputs : FocusMonitor(o)
  \/ \E s \in Addresses : Switch(s)
  \/ \E x \in Windows : PickWindow(x) \/ KillWindow(x)
  \/ \E x \in Windows, s \in Addresses : PutWindow(x, s)
  \/ \E s \in Addresses, o \in Outputs : HandWorkspace(s, o) \/ Attach(o, s)
  \/ \E s, t \in Addresses : Renumber(s, t)
  \/ \E o, p \in Outputs : Detach(o, p)

HyprNext ==
  /\ \/ HyprChanges \/ Connect \/ ReadEvent
     \/ AnswerMonitors \/ AnswerWorkspaces \/ AnswerActiveWindow \/ AnswerClients
  /\ UNCHANGED settings

HyprSpec == HyprInit /\ [][HyprNext]_hyprVars

-----------------------------------------------------------------------------
(* Every variable has its type, and every stop is within its row. *)
HyprTypeOK ==
  /\ asking \in Questions /\ answers.of \in {"seed", "resync", "nothing"}
  /\ view.shows \in [Outputs -> Addresses \cup {Unset, Absent}]
  /\ view.owner \in [Addresses -> Outputs \cup {None, Absent}]
  /\ view.focused \in Outputs \cup {None}
  /\ view.focused_workspace \in Addresses \cup {None}
  /\ view.windows \in [Windows -> Addresses \cup {None}]
  /\ \A o \in DOMAIN told : IsStop(told[o].x) /\ IsStop(told[o].y)
  /\ turns \in 0..MaxTurns

Truth == Drives(desktop.monitors, desktop.shown, desktop.owner, Active, desktop.on)

(* Once all was read every output there is, and no other, is driven to its *)
(* place in its own row.                                                   *)
RowsConverge ==
  Idle => /\ DOMAIN told = desktop.monitors
          /\ \A o \in desktop.monitors : told[o].x = Truth[o].x /\ told[o].y = Truth[o].y

(* An output blurs if its workspace holds a window, or the focused one.    *)
BlurConverges == Idle => \A o \in desktop.monitors : told[o].blur = Truth[o].blur

(* A window is known where it is.                                          *)
WindowsConverge == Idle /\ TracksWindows => view.windows = desktop.on

(* There is never a second output; some blur asks for the focus.           *)
OneOutput == Cardinality(desktop.ports) = 1
FollowsFocus == \E o \in Outputs : settings[o].when = "focused"

(* What each of the three needs: rows, that no change overtook a snapshot  *)
(* or that there is one output; windows, that no change of numbers did; the*)
(* blur, both of them and that the focus kept its number.                  *)
SnapshotsConverge ==
  /\ HyprTypeOK
  /\ ~raced \/ OneOutput => RowsConverge
  /\ ~raced \/ ~renumbered => WindowsConverge
  /\ (~raced /\ ~FollowsFocus) \/ (~renumbered /\ (~raced \/ OneOutput)) => BlurConverges
=============================================================================
