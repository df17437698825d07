----------------------------- MODULE Announcing -----------------------------
(***************************************************************************)
(* What the daemon makes its outputs head for, and what a listener is told *)
(* of it: `policy::resolve` (crates/domain/src/policy.rs), the handlers of *)
(* `Daemon` that change what it depends on (src/daemon/mod.rs), and the    *)
(* events they emit (crates/control/src/protocol.rs).                      *)
(*                                                                         *)
(* A listener keeps what it heard the way the daemon keeps what it does: a *)
(* value it was told is a value at rest, and a move it was told is a curve *)
(* it runs itself.  Events reach it in order and without a gap, which is   *)
(* what Control shows of a listener that is still connected.               *)
(*                                                                         *)
(* A driven position is -1, 0 or 1, the stops of an axis of three about    *)
(* its middle, so a target is the position times the share.                *)
(*                                                                         *)
(* Abstracted: the second axis and the zoom, which are treated alike; how  *)
(* an image is replaced by another (Crossfade), decoded (Decoding) and     *)
(* drawn (FrameLoop); clocks run at one pace.                              *)
(***************************************************************************)
EXTENDS Animation, Addressing, FiniteSets

CONSTANTS
  Pics,            (* wallpaper identities                                 *)
  Views,           (* viewport sizes                                       *)
  Configs,         (* configurations: [fallback, tween, blur, crop]        *)
  Geometry(_, _, _),  (* travel of an image in a viewport at a crop        *)
  MaxShift,        (* AxisParams::max_shift, in units of a travel          *)
  Positions,       (* bound: those a compositor drives an output to        *)
  MaxChanges       (* bound: changes made from outside                     *)

ASSUME AnnouncingAssumption ==
  /\ UnitAssumption
  /\ NoPic \notin Pics
  /\ \A c \in Configs :
       /\ c.fallback \in Pics \cup {NoPic} /\ c.blur \in BOOLEAN
       /\ c.tween \in [duration: Nat, easing: Easings]
       /\ \A p \in Pics, v \in Views : Geometry(p, v, c.crop) \in Nat
  /\ MaxShift \in Nat \ {0} /\ MaxChanges \in Nat
  /\ Positions \subseteq -1..1

VARIABLES
  driven,     (* Driven: the position and the blur of each output          *)
  asked,      (* Signals: wallpapers                                       *)
  blurs,      (* Signals: blurs                                            *)
  config,     (* the OutputParams in force                                 *)
  out,        (* MonitorState, or Gone                                     *)
  decoded,    (* the viewports each texture is large enough for            *)
  to_place,   (* outputs whose scroll is to be placed                      *)
  stale,      (* a resolve is owed                                         *)
  heard,      (* what a listener knows of each output, or Deaf             *)
  midway,     (* values that were moving when they were described to it    *)
  changes

asks == <<driven, asked, blurs, config>>
vars == <<asks, out, decoded, to_place, stale, heard, midway, changes>>

Slot == Pics \cup {NoPic}
Gone == [pic |-> "gone"]
Deaf == [o \in {} |-> Gone]
Unmeasured == <<>>         (* no image has been measured yet               *)
Properties == {"scroll", "blur"}

Present == {o \in Outputs : out[o] # Gone}
Listening == heard # Deaf
Resident(pic) == pic \in Pics /\ decoded[pic] # {}

-----------------------------------------------------------------------------
(***************************************************************************)
(* policy.rs                                                               *)
(***************************************************************************)
Blurs(o) == blurs.all \/ blurs.own[o]

(* `MonitorState::travel`, kept as the image, viewport and crop it was     *)
(* measured at.                                                            *)
TravelOf(state) ==
  IF state.of = Unmeasured THEN 0 ELSE Geometry(state.of[1], state.of[2], state.of[3])

(* `axis`: the cap is a distance, so it becomes a share where there is an  *)
(* image to measure it against.                                            *)
Share(travel) ==
  IF travel = 0 \/ MaxShift \div travel > Unit THEN Unit ELSE MaxShift \div travel

(* `resolve` *)
Targets(o, state) ==
  [scroll |-> driven[o].at * Share(TravelOf(state)),
   blur   |-> IF config.blur /\ (driven[o].blur \/ Blurs(o)) THEN Unit ELSE 0]

Chosen(slots, o, cfg) == WallpaperFor(slots, o, cfg.fallback)

-----------------------------------------------------------------------------
(***************************************************************************)
(* What a listener makes of each event.                                    *)
(***************************************************************************)
AsDescribed(state) ==
  [pic |-> state.pic, scroll |-> At(Value(state.scroll)), blur |-> At(Value(state.blur))]

Follows(known, move) ==
  IF move = NoMove THEN known
  ELSE IF IsInstant(move.tween) THEN At(move.to)
  ELSE [from |-> move.from, to |-> move.to, elapsed |-> 0, tween |-> move.tween]

(* The events of one step, per output.                                     *)
Hears(news) == heard' = IF Listening THEN [o \in Outputs |-> news[o]] ELSE Deaf

InFlight(state) ==
  {x \in Properties : ~Rests(state[x])}

-----------------------------------------------------------------------------
Init ==
  /\ driven = [o \in Outputs |-> [at |-> 0, blur |-> FALSE]]
  /\ asked = Empty
  /\ blurs = [all |-> FALSE, own |-> [o \in Outputs |-> FALSE]]
  /\ config \in Configs
  /\ out = [o \in Outputs |-> Gone]
  /\ decoded = [p \in Pics |-> {}] /\ to_place = {} /\ stale = FALSE
  /\ heard = Deaf /\ midway = {}
  /\ changes = 0

Outside == changes < MaxChanges /\ changes' = changes + 1

(* `Renderer::travel` *)
Measured(state, cfg) ==
  IF Resident(state.pic) THEN <<state.pic, state.view, cfg.crop>> ELSE Unmeasured

(* `add_output`: snapped, and then described.                              *)
OutputReady(o, view) ==
  /\ o \notin Present /\ Outside
  /\ LET pic == Chosen(asked, o, config)
         new == [pic |-> pic, view |-> view, of |-> Measured([pic |-> pic, view |-> view], config)]
         state == [pic |-> pic, view |-> view, of |-> new.of,
                   scroll |-> At(Targets(o, new).scroll), blur |-> At(Targets(o, new).blur)]
     IN /\ out' = [out EXCEPT ![o] = state]
        /\ Hears([heard EXCEPT ![o] = AsDescribed(state)])
  /\ UNCHANGED <<asks, decoded, to_place, stale, midway>>

(* `consume`, of an output that is configured again.                       *)
Resized(o, view) ==
  /\ o \in Present /\ view # out[o].view /\ Outside
  /\ out' = [out EXCEPT ![o].view = view]
  /\ to_place' = to_place \cup {o}
  /\ stale' = TRUE
  /\ UNCHANGED <<asks, decoded, heard, midway>>

OutputGone(o) ==
  /\ o \in Present /\ Outside
  /\ out' = [out EXCEPT ![o] = Gone]
  /\ to_place' = to_place \ {o}
  /\ midway' = {m \in midway : m[1] # o}
  /\ Hears([heard EXCEPT ![o] = Gone])
  /\ UNCHANGED <<asks, decoded, stale>>

(* `on_compositor` of `Drive::Scrolled` and `Drive::Blurred`.              *)
OnCompositor(o, channels) ==
  /\ channels # driven[o] /\ Outside
  /\ driven' = [driven EXCEPT ![o] = channels]
  /\ stale' = TRUE
  /\ UNCHANGED <<asked, blurs, config, out, decoded, to_place, heard, midway>>

OnSetBlur(at, on) ==
  /\ at \in Present \cup {All} /\ Outside
  /\ blurs' = IF at = All THEN [all |-> on, own |-> [o \in Outputs |-> FALSE]]
              ELSE [blurs EXCEPT !.own[at] = on]
  /\ stale' = TRUE
  /\ UNCHANGED <<driven, asked, config, out, decoded, to_place, heard, midway>>

(* `resolve_wallpapers`, of the signals and the configuration it is to be: *)
(* an output whose wallpaper it changes owes a resolve.                    *)
Swapped(slots, cfg, unusable) ==
  LET Next1(o) == IF Chosen(slots, o, cfg) = unusable THEN NoPic ELSE Chosen(slots, o, cfg)
  IN [o \in Outputs |-> IF out[o] = Gone THEN NoPic ELSE Next1(o)]

(* Mutant: an image that is resident has nothing to wait for.              *)
ResolveWallpapersWaiting(slots, cfg, unusable, owed) ==
  LET pics == Swapped(slots, cfg, unusable)
      swapped == {o \in Present : pics[o] # out[o].pic}
  IN /\ out' = [o \in Outputs |-> IF o \in swapped THEN [out[o] EXCEPT !.pic = pics[o]] ELSE out[o]]
     /\ Hears([o \in Outputs |-> IF o \in swapped THEN [heard[o] EXCEPT !.pic = pics[o]]
                                 ELSE heard[o]])
     /\ stale' = (stale \/ owed)

ResolveWallpapers(slots, cfg, unusable, owed) ==
  LET pics == Swapped(slots, cfg, unusable)
      swapped == {o \in Present : pics[o] # out[o].pic}
  IN /\ out' = [o \in Outputs |-> IF o \in swapped THEN [out[o] EXCEPT !.pic = pics[o]] ELSE out[o]]
     /\ Hears([o \in Outputs |-> IF o \in swapped THEN [heard[o] EXCEPT !.pic = pics[o]]
                                 ELSE heard[o]])
     /\ stale' = (stale \/ swapped # {} \/ owed)

InUse ==
  {out[o].pic : o \in Present} \cup {asked.all} \cup {asked.own[o] : o \in Outputs}
    \cup {c.fallback : c \in Configs}

(* `on_set_wallpaper`: a set is always of a new identity.                  *)
OnSetWallpaper(at, pic) ==
  /\ at \in Present \cup {All} /\ Outside
  /\ pic = NoPic \/ (pic \notin InUse /\ ~Resident(pic))
  /\ asked' = Put(asked, at, pic)
  /\ ResolveWallpapers(Put(asked, at, pic), config, NoPic, FALSE)
  /\ UNCHANGED <<driven, blurs, config, decoded, to_place, midway>>

(* `reload`, of a configuration that differs.                              *)
Reload(cfg) ==
  /\ cfg # config /\ Outside
  /\ config' = cfg
  /\ ResolveWallpapers(asked, cfg, NoPic, TRUE)
  /\ UNCHANGED <<driven, asked, blurs, decoded, to_place, midway>>

Showing(pic) == {o \in Present : out[o].pic = pic}

(* `WallpaperReady`, of an image that was not decoded, or that an output  *)
(* showing it needs larger.  It may be one no output arrives at any more.  *)
Landed(pic) ==
  \E view \in Views \ decoded[pic] :
    /\ pic \in InUse
    /\ Resident(pic) => \E o \in Showing(pic) : out[o].view = view
    /\ decoded' = [decoded EXCEPT ![pic] = @ \cup {view}]
    /\ to_place' = to_place \cup Showing(pic)
    /\ stale' = (stale \/ Showing(pic) # {})
    /\ UNCHANGED <<asks, out, heard, midway, changes>>

(* `on_wallpaper_failed` *)
Failed(pic) ==
  /\ ~Resident(pic) /\ Showing(pic) # {} /\ Outside
  /\ asked' = Forget(asked, pic)
  /\ ResolveWallpapers(Forget(asked, pic), config, pic, FALSE)
  /\ UNCHANGED <<driven, blurs, config, decoded, to_place, midway>>

(* `sync_textures` releases what no slot holds; an image on its way out    *)
(* may still be held.                                                      *)
Released(pic) ==
  /\ Resident(pic) /\ Showing(pic) = {}
  /\ decoded' = [decoded EXCEPT ![pic] = {}]
  /\ UNCHANGED <<asks, out, to_place, stale, heard, midway, changes>>

(* An output measures the image it shows when there is one to measure.     *)
Seen(o) ==
  [out[o] EXCEPT !.of = IF Measured(out[o], config) = Unmeasured THEN @
                        ELSE Measured(out[o], config)]
Aim(o) == Targets(o, Seen(o))

(* What `resolve` does with the values of one output: `place`, of one that *)
(* is to be placed, and `apply`.                                           *)
Placed(o) ==
  IF o \in to_place THEN Place(out[o].scroll, Aim(o).scroll)
  ELSE [is |-> out[o].scroll, move |-> NoMove]
Scrolled(o) == Retarget(Placed(o).is, Aim(o).scroll, config.tween)
Blurred(o) == Retarget(out[o].blur, Aim(o).blur, config.tween)

(* The output and what is told of it, where a move is reported.            *)
Resolved(o) == [Seen(o) EXCEPT !.scroll = Scrolled(o).is, !.blur = Blurred(o).is]
Told(o) ==
  [heard[o] EXCEPT !.scroll = Follows(Follows(@, Placed(o).move), Scrolled(o).move),
                   !.blur = Follows(@, Blurred(o).move)]
Reported(o) ==
  {x \in Properties : \/ x = "scroll" /\ (Placed(o).move # NoMove \/ Scrolled(o).move # NoMove)
                      \/ x = "blur" /\ Blurred(o).move # NoMove}

(* Mutant: placements are not reported.                                    *)
ResolveQuiet ==
  /\ stale
  /\ out' = [o \in Outputs |-> IF o \in Present THEN Resolved(o) ELSE Gone]
  /\ Hears([o \in Outputs |-> IF o \in Present \ to_place THEN Told(o) ELSE heard[o]])
  /\ midway' = {m \in midway : m[2] \notin Reported(m[1])}
  /\ to_place' = to_place \ Present
  /\ stale' = FALSE
  /\ UNCHANGED <<asks, decoded, changes>>

(* `Daemon::resolve`, owed by whatever changed a source.                   *)
Resolve ==
  /\ stale
  /\ out' = [o \in Outputs |-> IF o \in Present THEN Resolved(o) ELSE Gone]
  /\ Hears([o \in Outputs |-> IF o \in Present THEN Told(o) ELSE Gone])
  /\ midway' = {m \in midway : m[2] \notin Reported(m[1])}
  /\ to_place' = to_place \ Present
  /\ stale' = FALSE
  /\ UNCHANGED <<asks, decoded, changes>>

Advanced(known) == [known EXCEPT !.scroll = Ticked(@, 1), !.blur = Ticked(@, 1)]

(* `tick`, and the listener's own clock.                                   *)
Tick(o) ==
  /\ o \in Present /\ InFlight(out[o]) # {}
  /\ out' = [out EXCEPT ![o] = Advanced(@)]
  /\ Hears([heard EXCEPT ![o] = Advanced(@)])
  /\ UNCHANGED <<asks, decoded, to_place, stale, midway, changes>>

(* `on_subscribe` *)
Subscribe ==
  /\ ~Listening /\ Outside
  /\ heard' = [o \in Outputs |-> IF o \in Present THEN AsDescribed(out[o]) ELSE Gone]
  /\ midway' = UNION {{o} \X InFlight(out[o]) : o \in Present}
  /\ UNCHANGED <<asks, out, decoded, to_place, stale>>

Next ==
  \/ \E o \in Outputs, v \in Views : OutputReady(o, v) \/ Resized(o, v)
  \/ \E o \in Outputs : OutputGone(o) \/ Tick(o)
  \/ \E o \in Outputs, at \in Positions, on \in BOOLEAN : OnCompositor(o, [at |-> at, blur |-> on])
  \/ \E at \in Addresses, on \in BOOLEAN : OnSetBlur(at, on)
  \/ \E at \in Addresses, p \in Slot : OnSetWallpaper(at, p)
  \/ \E cfg \in Configs : Reload(cfg)
  \/ \E p \in Pics : Landed(p) \/ Failed(p) \/ Released(p)
  \/ Resolve \/ Subscribe

Spec == Init /\ [][Next]_vars

-----------------------------------------------------------------------------
Scrolls == (-Unit)..Unit
Tweens == {Instant} \cup {c.tween : c \in Configs}

(* An animation between values of one kind. *)
Moving(values) ==
  {a \in [from: values, to: values, elapsed: Nat, tween: Tweens] : a.elapsed <= a.tween.duration}
States ==
  [pic: Slot, view: Views, of: {Unmeasured} \cup (Pics \X Views \X {c.crop : c \in Configs}),
   scroll: Moving(Scrolls), blur: Moving(0..Unit)]
Known == [pic: Slot, scroll: Moving(Scrolls), blur: Moving(0..Unit)]

(* Every variable has its type. *)
TypeOK ==
  /\ driven \in [Outputs -> [at: -1..1, blur: BOOLEAN]]
  /\ asked \in SlotsOf(Slot)
  /\ blurs \in [all: BOOLEAN, own: [Outputs -> BOOLEAN]]
  /\ config \in Configs
  /\ out \in [Outputs -> States \cup {Gone}]
  /\ decoded \in [Pics -> SUBSET Views] /\ to_place \subseteq Outputs /\ stale \in BOOLEAN
  /\ heard = Deaf \/ heard \in [Outputs -> Known \cup {Gone}]
  /\ midway \subseteq Outputs \X Properties
  /\ changes \in 0..MaxChanges

(* Whatever changed, in whatever order, once a resolve is not owed every   *)
(* output heads for what policy says of the sources as they are now.       *)
AimsAtTarget ==
  ~stale => \A o \in Present, x \in Properties : out[o][x].to = Targets(o, out[o])[x]

(* "a wallpaper whose decode is still in flight resolves against the one   *)
(* it is replacing": and against itself as soon as there is something to   *)
(* measure, at the viewport and the crop in force.                         *)
ResolvedAgainstShown ==
  ~stale => \A o \in Present :
    Resident(out[o].pic) => out[o].of = <<out[o].pic, out[o].view, config.crop>>

(* A placing that is owed is owed to an output there is, by the resolve    *)
(* that is owed: it never waits for a later one to jump an animation.      *)
PlacementPending == to_place \subseteq Present /\ (to_place # {} => stale)

(* Unless a resolve is owed every output heads for what policy says of the *)
(* sources, by the travel of the image it has, and nothing is left to be   *)
(* placed.                                                                 *)
SourcesResolved == AimsAtTarget /\ ResolvedAgainstShown /\ PlacementPending

Mirrors(known, state) ==
  \/ known = state
  \/ Rests(known) /\ Rests(state) /\ Value(known) = Value(state)

(* "An animation is described when it starts and never again, so a client  *)
(* runs the same curve": it has every output, its wallpaper, and the curve *)
(* of every value, but for one that was moving when it was described.      *)
Mirrored ==
  Listening => \A o \in Outputs :
    /\ (heard[o] = Gone) <=> (out[o] = Gone)
    /\ o \in Present =>
         /\ heard[o].pic = out[o].pic
         /\ \A x \in Properties : <<o, x>> \in midway \/ Mirrors(heard[o][x], out[o][x])

(* "so a stream stands on its own": a listener ends up knowing where every  *)
(* value is.                                                               *)
StreamStandsAlone ==
  Listening /\ ~stale => \A o \in Present, x \in Properties :
    Rests(out[o][x]) => Value(heard[o][x]) = Value(out[o][x])

(* "A different image under the same position is not movement, so it is    *)
(* placed rather than eased toward."                                       *)
PlacesWhatIsNew ==
  \A o \in Present : Resolve /\ out[o].of # Unmeasured /\ out'[o].of[1] # out[o].of[1]
    => Value(out'[o].scroll) = out'[o].scroll.to

(* "Nothing has drawn this wallpaper yet [...] so there is nothing on      *)
(* screen to jump": where neither the image nor the viewport has changed,  *)
(* what scrolls goes on scrolling.                                         *)
KeepsMoving ==
  \A o \in Present :
    Resolve /\ out[o].of # Unmeasured /\ out'[o].of = out[o].of /\ ~IsInstant(config.tween)
      => Value(out'[o].scroll) = Value(out[o].scroll)
=============================================================================
