------------------------------ MODULE FrameLoop ------------------------------
(***************************************************************************)
(* The daemon's one event-loop thread, from the moment something wakes it  *)
(* to the moment it sleeps again: `Daemon::settle`, `Daemon::consume`,     *)
(* `Daemon::resolve` (src/daemon/mod.rs), `Renderer::sync` and             *)
(* `Renderer::draw` (crates/render/src/lib.rs) and the Wayland handlers    *)
(* (crates/render/src/wayland/dispatch.rs), against a compositor that      *)
(* answers frames when it likes, or never for an output nobody can see.    *)
(*                                                                         *)
(* What is on the wire is kept per output and per kind: "wire" while the   *)
(* descriptor is readable for it, "queue" once the connection has been     *)
(* read and nothing on the descriptor says so any more.  Presenting reads  *)
(* the connection too, which is what makes the difference matter.          *)
(*                                                                         *)
(* Abstracted: an output's frame is a record of the wallpaper, the things  *)
(* read where the frame is built (`look`: size, scale, parameters), the    *)
(* animated target and how many steps its animations have left.  Which     *)
(* decode fails, and what a frame samples, are other modules.              *)
(***************************************************************************)
EXTENDS Naturals, Pacing

CONSTANTS
  Outputs,      (* connectors: one wl_output, at most one surface each     *)
  Visible,      (* the outputs somebody can see; the rest may get no       *)
                (* callback at all                                         *)
  Pics,         (* wallpapers                                              *)
  NoPic,        (* a slot holding nothing                                  *)
  Nothing,      (* a surface on which no frame has been presented          *)
  Values,       (* targets the policy can resolve to                       *)
  Looks,        (* sizes and parameters a frame is built from              *)
  Steps,        (* callbacks the longest animation takes                   *)
  MaxChanges    (* bound: changes the outside world makes                  *)

ASSUME FrameLoopAssumption ==
  /\ Visible \subseteq Outputs
  /\ NoPic \notin Pics
  /\ Values # {} /\ Looks # {}
  /\ Steps \in Nat
  /\ MaxChanges \in Nat

Slots == Pics \cup {NoPic}
Scenes == [pic: Slots, look: Looks, value: Values, left: 0..Steps]
ASSUME NothingAssumption == Nothing \notin Scenes

VARIABLES
  (* The renderer's surfaces. *)
  surf,       (* "absent", "created" (not configured yet) or "drawable"    *)
  flags,      (* Surface::pacing                                           *)
  shown,      (* the frame last presented, which is also `presented`       *)
  (* The daemon's outputs. *)
  states,     (* outputs with a MonitorState                               *)
  pic, look, value, left,   (* what the MonitorState would draw            *)
  told,       (* the target the channels and signals ask for               *)
  stale,      (* Daemon::stale                                             *)
  decode,     (* "idle" (resident), "wanted", "running" or "landed"        *)
  (* The loop. *)
  phase,      (* where the thread is                                       *)
  woken,      (* a source has been served since the loop last slept        *)
  again,      (* settle has to go round once more                          *)
  pending,    (* outputs this pass still has to draw                       *)
  (* Between the compositor and the daemon. *)
  cb,         (* the callback of the frame last presented here             *)
  ghost,      (* the callback of a surface already destroyed               *)
  cfg, closing, hello,  (* a configure, a close, a wl_output.done          *)
  changes     (* changes made so far, for MaxChanges                       *)

surfaceVars == <<surf, flags, shown>>
stateVars   == <<states, pic, look, value, left, told, stale, decode>>
loopVars    == <<phase, woken, again, pending>>
wireVars    == <<cb, ghost, cfg, closing, hello>>
vars == <<surfaceVars, stateVars, loopVars, wireVars, changes>>

Mail == {"none", "wire", "queue"}
Callback == Mail \cup {"held"}
Phases == {"poll", "display", "sync", "plan", "draw", "swap", "drain"}

(* Every variable has its type.                                           *)
TypeOK ==
  /\ surf \in [Outputs -> {"absent", "created", "drawable"}]
  /\ flags \in [Outputs -> Flags]
  /\ shown \in [Outputs -> Scenes \cup {Nothing}]
  /\ states \in SUBSET Outputs
  /\ pic \in [Outputs -> Slots]
  /\ look \in [Outputs -> Looks]
  /\ value \in [Outputs -> Values]
  /\ left \in [Outputs -> 0..Steps]
  /\ told \in [Outputs -> Values]
  /\ stale \in BOOLEAN
  /\ decode \in [Outputs -> {"idle", "wanted", "running", "landed"}]
  /\ phase \in Phases
  /\ woken \in BOOLEAN
  /\ again \in BOOLEAN
  /\ pending \in SUBSET Outputs
  /\ cb \in [Outputs -> Callback]
  /\ ghost \in [Outputs -> Callback]
  /\ cfg \in [Outputs -> Mail]
  /\ closing \in [Outputs -> Mail]
  /\ hello \in [Outputs -> Mail]
  /\ changes \in 0..MaxChanges

Scene(o) == [pic |-> pic[o], look |-> look[o], value |-> value[o], left |-> left[o]]
Settled(o) == left[o] = 0
Drawable(o) == surf[o] = "drawable"
Resident(o) == decode[o] = "idle"
Presented(o) == IF shown[o] = Nothing THEN NoPic ELSE shown[o].pic
Asleep == phase = "poll" /\ ~woken

InMail(where) ==
  \E o \in Outputs : where \in {cb[o], ghost[o], cfg[o], closing[o], hello[o]}
Readable == InMail("wire")
Queued == InMail("queue")

(***************************************************************************)
(* Before any output exists.  The two calls made before `event_loop.run`   *)
(* are an ordinary wake-up and settle.                                     *)
(***************************************************************************)
Init ==
  /\ surf = [o \in Outputs |-> "absent"]
  /\ flags = [o \in Outputs |-> NewFlags]
  /\ shown = [o \in Outputs |-> Nothing]
  /\ states = {}
  /\ pic = [o \in Outputs |-> NoPic]
  /\ look \in {[o \in Outputs |-> l] : l \in Looks}
  /\ value \in {[o \in Outputs |-> v] : v \in Values}
  /\ told = value
  /\ left = [o \in Outputs |-> 0]
  /\ stale = FALSE
  /\ decode = [o \in Outputs |-> "idle"]
  /\ phase = "poll"
  /\ woken = FALSE
  /\ again = FALSE
  /\ pending = {}
  /\ cb = [o \in Outputs |-> "none"]
  /\ ghost = [o \in Outputs |-> "none"]
  /\ cfg = [o \in Outputs |-> "none"]
  /\ closing = [o \in Outputs |-> "none"]
  /\ hello = [o \in Outputs |-> "none"]
  /\ changes = 0

-----------------------------------------------------------------------------
(***************************************************************************)
(* The compositor and the decode thread, which act at any moment.          *)
(***************************************************************************)

(* The frame is on screen: its callback is sent.                           *)
Present(o) ==
  /\ cb[o] = "held"
  /\ cb' = [cb EXCEPT ![o] = "wire"]
  /\ UNCHANGED <<surfaceVars, stateVars, loopVars, ghost, cfg, closing, hello, changes>>

(* A destroyed surface's callback is sent just before the compositor reads *)
(* the destruction, or dropped with the surface.                           *)
AnswerGhost(o) ==
  /\ ghost[o] = "held"
  /\ ghost' \in {[ghost EXCEPT ![o] = m] : m \in {"wire", "none"}}
  /\ UNCHANGED <<surfaceVars, stateVars, loopVars, cb, cfg, closing, hello, changes>>

(* wl_output.done for an output without a surface of ours.                 *)
Announce(o) ==
  /\ surf[o] = "absent" /\ hello[o] = "none"
  /\ hello' = [hello EXCEPT ![o] = "wire"]
  /\ UNCHANGED <<surfaceVars, stateVars, loopVars, cb, ghost, cfg, closing, changes>>

(* The configure that answers a new surface's first commit.  The           *)
(* compositor has read the old surface's destruction by then.              *)
Configure(o) ==
  /\ surf[o] = "created" /\ cfg[o] = "none" /\ ghost[o] # "held"
  /\ cfg' = [cfg EXCEPT ![o] = "wire"]
  /\ UNCHANGED <<surfaceVars, stateVars, loopVars, cb, ghost, closing, hello, changes>>

(* A mode or scale change: configure or preferred_scale.                   *)
Reconfigure(o) ==
  /\ changes < MaxChanges
  /\ Drawable(o) /\ cfg[o] = "none"
  /\ cfg' = [cfg EXCEPT ![o] = "wire"]
  /\ changes' = changes + 1
  /\ UNCHANGED <<surfaceVars, stateVars, loopVars, cb, ghost, closing, hello>>

(* layer_surface.closed, or the wl_output global going away.               *)
Close(o) ==
  /\ changes < MaxChanges
  /\ surf[o] # "absent" /\ closing[o] = "none"
  /\ closing' = [closing EXCEPT ![o] = "wire"]
  /\ changes' = changes + 1
  /\ UNCHANGED <<surfaceVars, stateVars, loopVars, cb, ghost, cfg, hello>>

(* The decode thread has queued its result and written the signal byte.    *)
DecodeLands(o) ==
  /\ decode[o] = "running"
  /\ decode' = [decode EXCEPT ![o] = "landed"]
  /\ UNCHANGED <<surfaceVars, states, pic, look, value, left, told, stale,
                 loopVars, wireVars, changes>>

-----------------------------------------------------------------------------
(***************************************************************************)
(* Sources the loop serves between two settles.                            *)
(***************************************************************************)

(* Reading the connection empties the descriptor into the event queue.     *)
Read ==
  LET Parsed(mail) == [o \in Outputs |-> IF mail[o] = "wire" THEN "queue" ELSE mail[o]]
  IN /\ cb' = Parsed(cb)
     /\ ghost' = Parsed(ghost)
     /\ cfg' = Parsed(cfg)
     /\ closing' = Parsed(closing)
     /\ hello' = Parsed(hello)

OnDisplay ==
  /\ phase = "poll" /\ Readable
  /\ Read
  /\ phase' = "display"
  /\ woken' = TRUE
  /\ UNCHANGED <<surfaceVars, stateVars, again, pending, changes>>

(* The byte is cleared here; the image is taken by the settle that follows.*)
NoticedDecode ==
  /\ phase = "poll" /\ ~woken
  /\ \E o \in Outputs : decode[o] = "landed"
  /\ woken' = TRUE
  /\ UNCHANGED <<surfaceVars, stateVars, phase, again, pending, wireVars, changes>>

(* Mutant: the channel is folded in, the resolve is not asked for.         *)
OnCompositorSilent(o) ==
  /\ phase = "poll" /\ changes < MaxChanges
  /\ \E v \in Values \ {told[o]} : told' = [told EXCEPT ![o] = v]
  /\ woken' = TRUE
  /\ changes' = changes + 1
  /\ UNCHANGED <<surfaceVars, states, pic, look, value, left, stale, decode,
                 phase, again, pending, wireVars>>

(* A driven channel or the blur signal changes what an output should be at.*)
OnCompositor(o) ==
  /\ phase = "poll" /\ changes < MaxChanges
  /\ \E v \in Values \ {told[o]} : told' = [told EXCEPT ![o] = v]
  /\ stale' = TRUE
  /\ woken' = TRUE
  /\ changes' = changes + 1
  /\ UNCHANGED <<surfaceVars, states, pic, look, value, left, decode,
                 phase, again, pending, wireVars>>

(* A wallpaper goes onto a slot, possibly one already decoded; the         *)
(* transition it starts may have no duration.                              *)
Choose(o, p) ==
  /\ pic' = [pic EXCEPT ![o] = p]
  /\ \E d \in 0..Steps : left' = [left EXCEPT ![o] = d]
  /\ \E r \in IF p = NoPic THEN {"idle"} ELSE {"idle", "wanted"} :
       decode' = [decode EXCEPT ![o] = r]

(* A set, an unset, a restore or a decode that failed: all end in          *)
(* `resolve_wallpapers`, which starts nothing when the slot keeps its own. *)
OnSetWallpaper(o) ==
  /\ phase = "poll" /\ changes < MaxChanges
  /\ o \in states
  /\ \E p \in Slots \ {pic[o]} : Choose(o, p)
  /\ stale' = TRUE
  /\ woken' = TRUE
  /\ changes' = changes + 1
  /\ UNCHANGED <<surfaceVars, states, look, value, told, phase, again, pending, wireVars>>

(* An edited configuration: parameters read where the frame is built.      *)
OnReload ==
  /\ phase = "poll" /\ changes < MaxChanges
  /\ \E l \in Looks :
       look' = [o \in Outputs |-> IF o \in states THEN l ELSE look[o]]
  /\ flags' = [o \in Outputs |-> IF o \in states THEN Dirtied(flags[o]) ELSE flags[o]]
  /\ stale' = TRUE
  /\ woken' = TRUE
  /\ changes' = changes + 1
  /\ UNCHANGED <<surf, shown, states, pic, value, left, told, decode,
                 phase, again, pending, wireVars>>

-----------------------------------------------------------------------------
(***************************************************************************)
(* Dispatching what has been read, one event at a time, and consuming the  *)
(* RenderEvent it produces.  `again` records that there was one.           *)
(***************************************************************************)
Dispatching == phase \in {"display", "drain"}

(* `Daemon::tick`: the time since the last frame, never more than MAX_STEP.*)
Tick(o) == \/ left[o] = 0 /\ UNCHANGED left
           \/ \E l \in 0..(left[o] - 1) : left' = [left EXCEPT ![o] = l]

(* Mutant: the callback of one surface answers for all of them.            *)
FrameDueAnywhere(o) ==
  /\ Dispatching /\ cb[o] = "queue"
  /\ cb' = [cb EXCEPT ![o] = "none"]
  /\ flags' = [q \in Outputs |-> Answered(flags[q])]
  /\ Tick(o)
  /\ again' = TRUE
  /\ UNCHANGED <<surf, shown, states, pic, look, value, told, stale, decode,
                 phase, woken, pending, ghost, cfg, closing, hello, changes>>

(* WlCallback::Done, FrameDue.                                             *)
FrameDue(o) ==
  /\ Dispatching /\ cb[o] = "queue"
  /\ cb' = [cb EXCEPT ![o] = "none"]
  /\ flags' = [flags EXCEPT ![o] = Answered(@)]
  /\ Tick(o)
  /\ again' = TRUE
  /\ UNCHANGED <<surf, shown, states, pic, look, value, told, stale, decode,
                 phase, woken, pending, ghost, cfg, closing, hello, changes>>

(* The same event for a surface that is gone: it is found by name, so it   *)
(* reaches whichever surface has that name now.                            *)
GhostDue(o) ==
  /\ Dispatching /\ ghost[o] = "queue"
  /\ ghost' = [ghost EXCEPT ![o] = "none"]
  /\ \/ /\ surf[o] = "absent"
        /\ UNCHANGED <<flags, left, again>>
     \/ /\ surf[o] # "absent"
        /\ flags' = [flags EXCEPT ![o] = Answered(@)]
        /\ IF o \in states THEN Tick(o) ELSE UNCHANGED left
        /\ again' = TRUE
  /\ UNCHANGED <<surf, shown, states, pic, look, value, told, stale, decode,
                 phase, woken, pending, cb, cfg, closing, hello, changes>>

(* Configure or PreferredScale, then `OutputReady` in `Daemon::consume`:   *)
(* an output met for the first time gets its state (`Daemon::add_output`). *)
Configured(o) ==
  /\ Dispatching /\ cfg[o] = "queue" /\ ghost[o] # "queue"
  /\ cfg' = [cfg EXCEPT ![o] = "none"]
  /\ surf' = [surf EXCEPT ![o] = "drawable"]
  /\ \E l \in Looks :
       LET changed == surf[o] = "created" \/ l # look[o]
       IN /\ look' = [look EXCEPT ![o] = l]
          /\ flags' = IF changed THEN [flags EXCEPT ![o] = Dirtied(@)] ELSE flags
          /\ again' = (again \/ changed \/ flags[o].dirty)
          /\ IF o \in states
             THEN /\ stale' = (stale \/ changed)
                  /\ UNCHANGED <<states, pic, value, left, decode>>
             ELSE /\ states' = states \cup {o}
                  /\ value' = [value EXCEPT ![o] = told[o]]
                  /\ \E p \in Slots : Choose(o, p)
                  /\ UNCHANGED stale
  /\ UNCHANGED <<shown, told, phase, woken, pending, cb, ghost, closing, hello, changes>>

(* Closed or GlobalRemove, then `OutputGone`: the surface and everything   *)
(* kept for the output go, a callback already asked for does not.          *)
Closed(o) ==
  /\ Dispatching /\ closing[o] = "queue"
  /\ closing' = [closing EXCEPT ![o] = "none"]
  /\ surf' = [surf EXCEPT ![o] = "absent"]
  /\ flags' = [flags EXCEPT ![o] = NewFlags]
  /\ shown' = [shown EXCEPT ![o] = Nothing]
  /\ states' = states \ {o}
  /\ pic' = [pic EXCEPT ![o] = NoPic]
  /\ left' = [left EXCEPT ![o] = 0]
  /\ decode' = [decode EXCEPT ![o] = "idle"]
  /\ cb' = [cb EXCEPT ![o] = "none"]
  /\ ghost' = IF cb[o] = "none" THEN ghost ELSE [ghost EXCEPT ![o] = cb[o]]
  /\ cfg' = [cfg EXCEPT ![o] = "none"]
  /\ again' = TRUE
  /\ UNCHANGED <<look, value, told, stale, phase, woken, pending, hello, changes>>

(* wl_output.done: `ensure_surface`.                                       *)
EnsureSurface(o) ==
  /\ Dispatching /\ hello[o] = "queue"
  /\ hello' = [hello EXCEPT ![o] = "none"]
  /\ surf' = [surf EXCEPT ![o] = IF @ = "absent" THEN "created" ELSE @]
  /\ UNCHANGED <<flags, shown, stateVars, loopVars, cb, ghost, cfg, closing, changes>>

(* `on_display` is over: back to the loop, which settles next.             *)
Displayed ==
  /\ phase = "display" /\ ~Queued
  /\ phase' = "poll"
  /\ again' = FALSE
  /\ UNCHANGED <<surfaceVars, stateVars, woken, pending, wireVars, changes>>

-----------------------------------------------------------------------------
(***************************************************************************)
(* `Daemon::settle`: sync, resolve, draw, drain, and round again.          *)
(***************************************************************************)
StartSettle ==
  /\ phase = "poll" /\ woken
  /\ phase' = "sync"
  /\ woken' = FALSE
  /\ again' = FALSE
  /\ UNCHANGED <<surfaceVars, stateVars, pending, wireVars, changes>>

(* `Renderer::sync` takes in what was decoded and asks for what is missing;*)
(* then `Daemon::resolve` if anything is stale, invalidating what moved.   *)
Sync ==
  LET landed == {o \in Outputs : decode[o] = "landed"}
      moved == IF stale \/ landed # {} THEN {o \in states : value[o] # told[o]} ELSE {}
  IN /\ phase = "sync"
     /\ decode' = [o \in Outputs |-> CASE decode[o] = "landed" -> "idle"
                                       [] decode[o] = "wanted" -> "running"
                                       [] OTHER                -> decode[o]]
     /\ value' = [o \in Outputs |-> IF o \in moved THEN told[o] ELSE value[o]]
     /\ \E d \in [moved -> 0..Steps] :
          left' = [o \in Outputs |-> IF o \in moved THEN d[o] ELSE left[o]]
     /\ flags' = [o \in Outputs |-> IF o \in moved THEN Dirtied(flags[o]) ELSE flags[o]]
     /\ stale' = FALSE
     /\ again' = (landed # {})
     /\ phase' = "plan"
     /\ UNCHANGED <<surf, shown, states, pic, look, told, woken, pending, wireVars, changes>>

(* Mutant: what was presented is not compared with the slot.               *)
Trusting(o) == flags[o]

(* What `draw` decides for an output: a wallpaper that is not the one      *)
(* presented makes the surface dirty first.                                *)
Checked(o) == IF Presented(o) # pic[o] THEN Dirtied(flags[o]) ELSE flags[o]
Pass(o) == Plan(Checked(o), Drawable(o), Settled(o))

(* `draw` decides for every output before it draws any; one that must wait *)
(* for its callback is left with a debt.                                   *)
PlanDraw ==
  /\ phase = "plan"
  /\ flags' = [o \in Outputs |-> IF o \notin states THEN flags[o]
                                 ELSE IF Pass(o) = "Defer" THEN Dirtied(flags[o])
                                 ELSE Checked(o)]
  /\ pending' = {o \in states : Pass(o) = "Draw"}
  /\ phase' = "draw"
  /\ UNCHANGED <<surf, shown, stateVars, woken, again, wireVars, changes>>

(* A wallpaper chosen but not resident keeps the frame already on screen.  *)
KeepFrame(o) ==
  /\ phase = "draw" /\ o \in pending /\ ~Resident(o)
  /\ pending' = pending \ {o}
  /\ UNCHANGED <<surfaceVars, stateVars, phase, woken, again, wireVars, changes>>

(* `draw_output`: the callback is asked for and recorded, then the buffers *)
(* are swapped.                                                            *)
DrawOutput(o) ==
  /\ phase = "draw" /\ o \in pending /\ Resident(o)
  /\ pending' = pending \ {o}
  /\ flags' = [flags EXCEPT ![o] = Submitted(@, Settled(o))]
  /\ shown' = [shown EXCEPT ![o] = Scene(o)]
  /\ cb' = [cb EXCEPT ![o] = "held"]
  /\ phase' = "swap"
  /\ UNCHANGED <<surf, stateVars, woken, again, ghost, cfg, closing, hello, changes>>

(* EGL reads the connection while presenting, whatever is on it by then.   *)
SwapReads ==
  /\ phase = "swap" /\ Readable
  /\ Read
  /\ UNCHANGED <<surfaceVars, stateVars, loopVars, changes>>

SwapDone ==
  /\ phase = "swap"
  /\ phase' = "draw"
  /\ UNCHANGED <<surfaceVars, stateVars, woken, again, pending, wireVars, changes>>

Drawn ==
  /\ phase = "draw" /\ pending = {}
  /\ phase' = "drain"
  /\ UNCHANGED <<surfaceVars, stateVars, woken, again, pending, wireVars, changes>>

(* Mutant: sleeping once the frame is drawn, whatever presenting read.     *)
DrainedUnread ==
  /\ phase = "drain"
  /\ phase' = IF again THEN "sync" ELSE "poll"
  /\ again' = FALSE
  /\ UNCHANGED <<surfaceVars, stateVars, woken, pending, wireVars, changes>>

(* The queue is empty: sleep, unless this round decoded or consumed        *)
(* something.                                                              *)
Drained ==
  /\ phase = "drain" /\ ~Queued
  /\ phase' = IF again THEN "sync" ELSE "poll"
  /\ again' = FALSE
  /\ UNCHANGED <<surfaceVars, stateVars, woken, pending, wireVars, changes>>

-----------------------------------------------------------------------------
(* The compositor's and the decode thread's steps. *)
Environment ==
  \E o \in Outputs :
    \/ Present(o) \/ AnswerGhost(o) \/ Announce(o) \/ Configure(o)
    \/ Reconfigure(o) \/ Close(o) \/ DecodeLands(o)

(* Requests, channels and the configuration file. *)
Request ==
  \/ \E o \in Outputs : OnCompositor(o) \/ OnSetWallpaper(o)
  \/ OnReload

Dispatch ==
  \/ \E o \in Outputs :
       FrameDue(o) \/ GhostDue(o) \/ Configured(o) \/ Closed(o) \/ EnsureSurface(o)
  \/ Displayed

Settle ==
  \/ StartSettle \/ Sync \/ PlanDraw \/ SwapReads \/ SwapDone \/ Drawn \/ Drained
  \/ \E o \in Outputs : KeepFrame(o) \/ DrawOutput(o)

Loop == OnDisplay \/ NoticedDecode \/ Dispatch \/ Settle

Next == Environment \/ Request \/ Loop

Spec == Init /\ [][Next]_vars

(***************************************************************************)
(* The thread never stops while it has work; the decode thread finishes    *)
(* what it was given; the compositor configures a surface it was asked for *)
(* and answers the frames of the outputs somebody can see.  Requests, mode *)
(* changes and closes owe nothing, and neither does an occluded output.    *)
(***************************************************************************)
Fairness ==
  /\ WF_vars(Loop)
  /\ \A o \in Outputs :
       /\ WF_vars(DecodeLands(o))
       /\ WF_vars(Announce(o))
       /\ WF_vars(AnswerGhost(o))
       /\ WF_vars(Configure(o))
  /\ \A o \in Visible : WF_vars(Present(o))

FairSpec == Spec /\ Fairness

-----------------------------------------------------------------------------
(* The compositor owes exactly one answer for a surface that is waiting,   *)
(* and none for one that is not: a callback is never lost, never awaited   *)
(* after it was consumed, never answered on behalf of a destroyed surface. *)
CallbackAccounting ==
  \A o \in Outputs :
    /\ flags[o].awaiting <=> cb[o] # "none"
    /\ cb[o] # "none" => Drawable(o)
    /\ Drawable(o) => ghost[o] = "none"

(* The loop never sleeps on an event it has already read: nothing on the   *)
(* descriptor would wake it ("drain before sleeping").                     *)
DrainedBeforeSleep == Asleep => ~Queued

(* Asleep, every output that can be drawn shows exactly what its state     *)
(* says, or something is coming that will wake the loop: the answer to its *)
(* last frame, or the decode of a wallpaper it is waiting for.             *)
NothingStranded ==
  Asleep =>
    \A o \in Outputs : Drawable(o) =>
      \/ shown[o] = Scene(o) /\ Settled(o)
      \/ cb[o] \in {"held", "wire"}
      \/ decode[o] \in {"running", "landed"}

(* Whatever the state says now but the screen does not show is recorded    *)
(* as a debt at every moment, not only between two settles.                *)
DebtRecorded ==
  \A o \in states :
    shown[o] # Scene(o) => Owed(Checked(o), Settled(o))

(* What the policy last asked for has reached the outputs by the time the  *)
(* loop sleeps.                                                            *)
ResolvedBeforeSleep ==
  Asleep => \A o \in states : value[o] = told[o]

(***************************************************************************)
(* The loop implements Display: every frame presented is the one its       *)
(* output ought to show at that very moment, made of decoded images, and   *)
(* there is at most one for every answer of the compositor.                *)
(***************************************************************************)
Wish == [o \in Outputs |-> IF o \in states THEN Scene(o) ELSE Nothing]
Usable == [o \in Outputs |-> Resident(o)]
Ready == [o \in Outputs |-> cb[o] = "none"]

D == INSTANCE Display WITH Frames <- Scenes, wish <- Wish, usable <- Usable,
                           screen <- shown, ready <- Ready

ImplementsDisplay == D!Spec

-----------------------------------------------------------------------------
(***************************************************************************)
(* The inductive invariant behind the safety properties, in named parts.   *)
(***************************************************************************)

(* Nothing is parsed and undelivered between two settles. *)
QueueInv == phase \in {"poll", "sync", "plan"} => ~Queued

(* A surface draws exactly while the daemon keeps a state for its output.  *)
(* A destroyed one's callback is gone before the next is configured.       *)
SurfaceInv ==
  \A o \in Outputs :
    /\ o \in states <=> Drawable(o)
    /\ surf[o] = "absent" => cfg[o] = "none"
    /\ surf[o] = "created" =>
         /\ cfg[o] # "none" => ghost[o] # "held"
         /\ cfg[o] = "queue" => ghost[o] # "wire"

(* What is queued for this pass may be drawn. *)
PendingInv ==
  /\ pending # {} => phase \in {"draw", "swap"}
  /\ \A o \in pending : Drawable(o) /\ cb[o] = "none"

(* What a clean surface shows is what its state says, animations aside. *)
ShownInv ==
  \A o \in Outputs :
    /\ shown[o] # Nothing =>
         /\ Drawable(o)
         /\ flags[o].running <=> shown[o].left > 0
    /\ Drawable(o) /\ ~flags[o].dirty =>
         /\ shown[o] # Nothing
         /\ shown[o].look = look[o]
         /\ shown[o].value = value[o]

(* Once this pass has resolved and asked for its decodes, until something  *)
(* is consumed that will make it go round again.                           *)
Synced ==
  \/ phase \in {"plan", "draw", "swap"}
  \/ phase = "drain" /\ ~again
  \/ Asleep

(* The same, once it has decided what to draw. *)
Planned == Synced /\ phase # "plan"

SyncedInv ==
  /\ \A o \in states : value[o] # told[o] => stale
  /\ Synced => ~stale /\ \A o \in Outputs : decode[o] # "wanted"
  /\ phase = "display" => woken

(* What `draw` would find to draw here, were it to look now. *)
Owing(o) ==
  flags[o].dirty \/ flags[o].running \/ ~Settled(o) \/ Presented(o) # pic[o]

PlannedInv ==
  Planned => \A o \in states \ pending :
    Owing(o) => flags[o].awaiting \/ ~Resident(o)

LoopInv ==
  /\ TypeOK
  /\ CallbackAccounting
  /\ QueueInv /\ SurfaceInv /\ PendingInv /\ ShownInv /\ SyncedInv /\ PlannedInv

(* An output somebody can see ends up showing the settled state.           *)
CatchesUp ==
  \A o \in Visible :
    <>[](Drawable(o) => shown[o] = Scene(o) /\ Settled(o))

(* The daemon is idle for good once nothing changes any more: no frame is  *)
(* submitted, nothing is read, the thread sleeps.                          *)
FallsIdle == <>[]Asleep
=============================================================================
