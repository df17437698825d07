------------------------------- MODULE Screen -------------------------------
(***************************************************************************)
(* What a frame is sampled from: the textures and the baked blurs the      *)
(* renderer keeps, and the frame it composes of them, `Renderer::sync` and *)
(* `Renderer::draw` (crates/render/src/lib.rs), `TextureCache` and         *)
(* `BlurCache` (textures.rs), between what the daemon does in one settle.  *)
(*                                                                         *)
(* A settle takes in the decodes first, then resolves, then draws, so what *)
(* a resolve changes is drawn with what the pass before it made ready.     *)
(*                                                                         *)
(* Abstracted: surfaces come and go in FrameLoop, and here all are         *)
(* configured; the decode thread's queue is Decoding's, and here the       *)
(* newest request of an image is the one answered; scroll and zoom.  A     *)
(* size is its rank, and a blur's settings are one number.                 *)
(***************************************************************************)
EXTENDS WallpaperSlot, Pacing, FiniteSets

CONSTANTS
  Outputs,
  Wallpapers,
  Native,     (* the size each image has on disk                           *)
  Opaque,     (* the images without a translucent pixel                    *)
  Broken,     (* those that do not decode                                  *)
  Fallback,   (* what the configuration shows in their place               *)
  MaxSize,    (* the largest size an output can need                       *)
  Radii,      (* blur settings; 0 is no blur                               *)
  Fade,       (* how long a transition takes                               *)
  Blurring,   (* how long a blur takes                                     *)
  MaxChanges  (* bound: changes from outside                               *)

Pics == Wallpapers \cup {NoImage}
Sizes == 1..MaxSize

ASSUME ScreenAssumption ==
  /\ UnitAssumption
  /\ NoImage \notin Wallpapers
  /\ MaxSize \in Nat /\ Native \in [Wallpapers -> Nat \ {0}]
  /\ Opaque \subseteq Wallpapers /\ Broken \subseteq Wallpapers
  /\ Fallback \in Pics \ Broken
  /\ Radii \subseteq Nat
  /\ Fade \in Nat /\ Blurring \in Nat /\ MaxChanges \in Nat

VARIABLES
  (* The daemon's outputs. *)
  slot, need, radius,
  blur,       (* BlurState::amount                                         *)
  told,       (* whether the channels and signals ask for a blur           *)
  stale,
  (* The renderer. *)
  texture,    (* the size each image was asked for; 0 is not resident      *)
  baked,      (* the size of the texture each blur was made from; 0 is none*)
  failed,     (* Loader::failed: images given up on while a slot has them  *)
  asked,      (* the size being decoded; 0 is none                         *)
  landed,     (* a size decoded and not collected, or -1, failed; 0 is none*)
  flags,      (* Surface::pacing                                           *)
  presented,  (* Renderer::presented                                       *)
  frame,      (* what is on the screen                                     *)
  (* The loop. *)
  phase,
  events,     (* what the pass found decoded                               *)
  changes

outputVars == <<slot, need, radius, blur, told>>
cacheVars  == <<texture, baked, failed, asked, landed>>
screenVars == <<flags, presented, frame>>
vars == <<outputVars, stale, cacheVars, screenVars, phase, events, changes>>

Keys == Wallpapers \X (Radii \ {0})
Transition == Tween(Fade, "linear")

NoEvents == [ready |-> {}, failed |-> {}]

(* Nothing on the screen yet. *)
Nothing == [pic |-> NoImage, size |-> 0, source |-> 0, previous |-> NoImage, previousSize |-> 0,
            previousSource |-> 0, mix |-> Unit, blur |-> 0, opacity |-> 0, opaque |-> FALSE]

(* `policy::resolve` *)
Target(o) == IF radius[o] # 0 /\ told[o] THEN Unit ELSE 0

(* `Daemon::add_output`: an output appears with its blur where it belongs. *)
Init ==
  /\ slot = [o \in Outputs |-> EmptySlot]
  /\ need \in [Outputs -> Sizes]
  /\ radius \in [Outputs -> Radii]
  /\ told \in [Outputs -> BOOLEAN]
  /\ blur = [o \in Outputs |-> At(Target(o))]
  /\ stale = FALSE
  /\ texture = [w \in Wallpapers |-> 0]
  /\ baked = [k \in Keys |-> 0]
  /\ failed = {}
  /\ asked = [w \in Wallpapers |-> 0]
  /\ landed = [w \in Wallpapers |-> 0]
  /\ flags = [o \in Outputs |-> NewFlags]
  /\ presented = [o \in Outputs |-> NoImage]
  /\ frame = [o \in Outputs |-> Nothing]
  /\ phase = "sync"
  /\ events = NoEvents
  /\ changes = 0

(* What an image comes back at, and what a blur is compared with.          *)
Least(a, b) == IF a < b THEN a ELSE b
SizeOf(w) == Least(texture[w], Native[w])
Resident(w) == texture[w] # 0

InSlot(o) == {slot[o].current, slot[o].outgoing} \ {NoImage}

(* `MonitorState::is_settled`, of what is modelled here.                   *)
Settled(o) == SlotRests(slot[o]) /\ Rests(blur[o])

-----------------------------------------------------------------------------
(***************************************************************************)
(* What happens between two settles, each of which starts one.             *)
(***************************************************************************)
Change == phase = "poll" /\ changes < MaxChanges /\ changes' = changes + 1 /\ phase' = "sync"

(* A wallpaper for one output or for all, or none: `set` and `unset`.      *)
SetWallpaper(on, w) ==
  /\ Change
  /\ \E o \in on : slot[o].current # w
  /\ slot' = [o \in Outputs |->
                IF o \in on /\ slot[o].current # w
                THEN SetSlot(slot[o], w, Transition) ELSE slot[o]]
  /\ stale' = TRUE
  /\ UNCHANGED <<need, radius, blur, told, cacheVars, screenVars, events>>

(* A focus, or a signal over the socket.                                   *)
AskBlur(o) ==
  /\ Change
  /\ told' = [told EXCEPT ![o] = ~@]
  /\ stale' = TRUE
  /\ UNCHANGED <<slot, need, radius, blur, cacheVars, screenVars, events>>

(* Another mode or scale: the surface owes a frame by itself.              *)
Resize(o) ==
  /\ Change
  /\ \E s \in Sizes \ {need[o]} : need' = [need EXCEPT ![o] = s]
  /\ flags' = [flags EXCEPT ![o] = Dirtied(@)]
  /\ stale' = TRUE
  /\ UNCHANGED <<slot, radius, blur, told, cacheVars, presented, frame, events>>

(* An edited configuration marks every output.                             *)
Reload(o) ==
  /\ Change
  /\ \E r \in Radii \ {radius[o]} : radius' = [radius EXCEPT ![o] = r]
  /\ flags' = [p \in Outputs |-> Dirtied(flags[p])]
  /\ stale' = TRUE
  /\ UNCHANGED <<slot, need, blur, told, cacheVars, presented, frame, events>>

(* The compositor answers a frame: the output's clocks move.               *)
FrameDue(o) ==
  /\ phase = "poll" /\ flags[o].awaiting
  /\ flags' = [flags EXCEPT ![o] = Answered(@)]
  /\ slot' = [slot EXCEPT ![o] = TickSlot(@, 1)]
  /\ blur' = [blur EXCEPT ![o] = Ticked(@, 1)]
  /\ phase' = "sync"
  /\ UNCHANGED <<need, radius, told, stale, cacheVars, presented, frame, events, changes>>

(* The decode thread finishes, whatever the loop is doing.                 *)
DecodeLands(w) ==
  /\ asked[w] # 0
  /\ landed' = [landed EXCEPT ![w] = IF w \in Broken THEN -1 ELSE asked[w]]
  /\ asked' = [asked EXCEPT ![w] = 0]
  /\ UNCHANGED <<outputVars, stale, texture, baked, failed, screenVars, phase, events, changes>>

(* Its descriptor wakes the loop.                                          *)
NoticedDecode ==
  /\ phase = "poll" /\ \E w \in Wallpapers : landed[w] # 0
  /\ phase' = "sync"
  /\ UNCHANGED <<outputVars, stale, cacheVars, screenVars, events, changes>>

-----------------------------------------------------------------------------
(***************************************************************************)
(* `Renderer::sync`                                                        *)
(***************************************************************************)
Ready == {w \in Wallpapers : landed[w] > 0}
Failed == {w \in Wallpapers : landed[w] = -1}

(* What `Loader::request` turns away: what failed before, or just now.     *)
GivenUp == failed \cup Failed

(* `TextureCache::accept` of what was collected, replacing what it was.    *)
Accepted == [w \in Wallpapers |-> IF w \in Ready THEN landed[w] ELSE texture[w]]

Largest(sizes) == CHOOSE s \in sizes : \A t \in sizes : t <= s
Needed(w) == Largest({need[o] : o \in {p \in Outputs : slot[p].current = w}})
Wanted == {slot[o].current : o \in Outputs} \ {NoImage}

(* Mutant: the image that is being left is not held.                       *)
InUseCurrent == Wanted

(* What an output is leaving is held, and never asked for.                 *)
InUse == UNION {InSlot(o) : o \in Outputs}

(* `TextureCache::ensure` and `Loader::request`: an image that was given   *)
(* up on is not asked for, nor one that is being decoded large enough.     *)
Requests ==
  [w \in Wallpapers |->
     IF w \in Wanted \ GivenUp /\ Accepted[w] < Needed(w) /\ asked[w] < Needed(w)
     THEN Needed(w) ELSE asked[w]]

(* `wants_blur`: one that is not showing, and not on its way, is not made. *)
WantsBlur(o) == Value(blur[o]) > 0 \/ blur[o].to > 0

(* The blurs configured for what `o` shows.                                *)
KeysOf(o) == IF radius[o] = 0 THEN {} ELSE InSlot(o) \X {radius[o]}

Configured == UNION {KeysOf(o) : o \in Outputs}
ToBake == UNION {IF WantsBlur(o) THEN KeysOf(o) ELSE {} : o \in Outputs}

(* Mutants: a blur of the smaller copy is kept; none is let go.            *)
BakesOnce(held) ==
  [k \in Keys |->
     IF k \notin Configured THEN 0
     ELSE IF k \in ToBake /\ held[k[1]] # 0 /\ baked[k] = 0
     THEN Least(held[k[1]], Native[k[1]]) ELSE baked[k]]
BakesForever(held) ==
  [k \in Keys |->
     IF k \in ToBake /\ held[k[1]] # 0 THEN Least(held[k[1]], Native[k[1]]) ELSE baked[k]]

(* `BlurCache::ensure` and `retain`: made where a texture is held, again   *)
(* when it was made from another size, and kept while it is configured.    *)
Bakes(held) ==
  [k \in Keys |->
     IF k \notin Configured THEN 0
     ELSE IF k \in ToBake /\ held[k[1]] # 0 THEN Least(held[k[1]], Native[k[1]]) ELSE baked[k]]

Sync ==
  /\ phase = "sync"
  /\ events' = [ready |-> Ready, failed |-> Failed]
  /\ asked' = Requests
  /\ landed' = [w \in Wallpapers |-> 0]
  /\ texture' = [w \in Wallpapers |-> IF w \in InUse THEN Accepted[w] ELSE 0]
  /\ failed' = GivenUp \cap InUse
  /\ baked' = Bakes(texture')
  /\ phase' = "resolve"
  /\ UNCHANGED <<outputVars, stale, screenVars, changes>>

-----------------------------------------------------------------------------
(***************************************************************************)
(* The daemon's part: what did not decode is replaced, what did is placed. *)
(***************************************************************************)
FellBack(s) ==
  IF s.current \in events.failed THEN SetSlot(s, Fallback, Transition) ELSE s

(* What was replaced, and what decoded and is shown, is resolved again.    *)
Unresolved == \E o \in Outputs : slot[o].current \in events.ready \cup events.failed

Consume ==
  /\ phase = "resolve" /\ events # NoEvents
  /\ slot' = [o \in Outputs |-> FellBack(slot[o])]
  /\ stale' = (stale \/ Unresolved)
  /\ phase' = "resolved"
  /\ UNCHANGED <<need, radius, blur, told, cacheVars, screenVars, events, changes>>

(* `MonitorState::apply`: a move marks the output.                         *)
Retargeted(o) == Retarget(blur[o], Target(o), Tween(Blurring, "linear"))

Resolve ==
  /\ phase = "resolved" \/ (phase = "resolve" /\ events = NoEvents)
  /\ blur' = IF stale THEN [o \in Outputs |-> Retargeted(o).is] ELSE blur
  /\ flags' = [o \in Outputs |-> IF stale /\ Retargeted(o).move # NoMove
                                 THEN Dirtied(flags[o]) ELSE flags[o]]
  /\ stale' = FALSE
  /\ phase' = "draw"
  /\ UNCHANGED <<slot, need, radius, told, cacheVars, presented, frame, events, changes>>

-----------------------------------------------------------------------------
(***************************************************************************)
(* `Renderer::draw`                                                        *)
(***************************************************************************)

(* The texture and the blur one image is drawn from on an output.          *)
Layer(o, w) ==
  IF w = NoImage \/ ~Resident(w) THEN [pic |-> NoImage, size |-> 0, source |-> 0]
  ELSE [pic |-> w, size |-> SizeOf(w),
        source |-> IF radius[o] = 0 THEN 0 ELSE baked[<<w, radius[o]>>]]

Outgoing(o) == Layer(o, IF Value(slot[o].fade) < Unit THEN slot[o].outgoing ELSE NoImage)

(* Whether the frame is sampled blurred at all: by the image it is built   *)
(* around.                                                                 *)
FrameBakes(o) ==
  LET now == Layer(o, slot[o].current)
  IN (IF now.pic # NoImage THEN now ELSE Outgoing(o)).source # 0

(* An image that cannot be sampled as the frame is leaves it.              *)
Sampled(o) ==
  IF Outgoing(o).source # 0 \/ ~FrameBakes(o) THEN Outgoing(o) ELSE Layer(o, NoImage)

(* Mutant: the image that is arriving decides alone.                       *)
IsOpaqueCurrent(o) ==
  LET s == slot[o] IN Value(s.opacity) = Unit /\ s.current \in Opaque

(* `TextureCache::is_opaque`: what is not resident is not in the way.      *)
ReadsOpaque(w) == Resident(w) => w \in Opaque

(* A frame covers what is below it when the images of its slot do, whether *)
(* or not they are in the frame.                                           *)
IsOpaque(o) ==
  LET s == slot[o]
  IN /\ Value(s.opacity) = Unit
     /\ s.current # NoImage /\ ReadsOpaque(s.current)
     /\ s.outgoing # NoImage => ReadsOpaque(s.outgoing)

Frame(o) ==
  LET now == Layer(o, slot[o].current)
      old == Sampled(o)
  IN [pic |-> now.pic, size |-> now.size, source |-> now.source,
      previous |-> old.pic, previousSize |-> old.size, previousSource |-> old.source,
      mix |-> IF old.pic # NoImage THEN Value(slot[o].fade) ELSE Unit,
      blur |-> IF FrameBakes(o) THEN Value(blur[o]) ELSE 0,
      opacity |-> Value(slot[o].opacity),
      opaque |-> IsOpaque(o)]

(* What was chosen but is not resident keeps the frame there is.           *)
Drawable(o) == slot[o].current = NoImage \/ Resident(slot[o].current)

(* An output that shows another image than was presented owes a frame.     *)
Marked(o) == IF presented[o] # slot[o].current THEN Dirtied(flags[o]) ELSE flags[o]
PassOf(o) == Plan(Marked(o), TRUE, Settled(o))
Drawn == {o \in Outputs : PassOf(o) = "Draw" /\ Drawable(o)}

Draw ==
  /\ phase = "draw"
  /\ flags' = [o \in Outputs |-> IF o \in Drawn THEN Submitted(Marked(o), Settled(o))
                                 ELSE IF PassOf(o) = "Defer" THEN Dirtied(Marked(o))
                                 ELSE Marked(o)]
  /\ frame' = [o \in Outputs |-> IF o \in Drawn THEN Frame(o) ELSE frame[o]]
  /\ presented' = [o \in Outputs |-> IF o \in Drawn THEN slot[o].current ELSE presented[o]]
  /\ phase' = IF events = NoEvents THEN "poll" ELSE "sync"
  /\ events' = NoEvents
  /\ UNCHANGED <<outputVars, stale, cacheVars, changes>>

Next ==
  \/ \E w \in Pics : SetWallpaper(Outputs, w) \/ \E o \in Outputs : SetWallpaper({o}, w)
  \/ \E o \in Outputs : AskBlur(o) \/ Resize(o) \/ Reload(o) \/ FrameDue(o)
  \/ \E w \in Wallpapers : DecodeLands(w)
  \/ NoticedDecode \/ Sync \/ Consume \/ Resolve \/ Draw

Spec == Init /\ [][Next]_vars

-----------------------------------------------------------------------------
Animations(time) == [from: 0..Unit, to: 0..Unit, elapsed: 0..time,
                     tween: {Instant, Tween(time, "linear")}]
SlotStates == [outgoing: Pics, current: Pics, fade: Animations(Fade), opacity: Animations(Fade)]
Frames == [pic: Pics, size: Nat, source: Nat, previous: Pics, previousSize: Nat,
           previousSource: Nat, mix: 0..Unit, blur: 0..Unit, opacity: 0..Unit, opaque: BOOLEAN]

(* Every variable has its type. *)
TypeOK ==
  /\ slot \in [Outputs -> SlotStates]
  /\ need \in [Outputs -> Sizes] /\ radius \in [Outputs -> Radii]
  /\ blur \in [Outputs -> Animations(Blurring)]
  /\ told \in [Outputs -> BOOLEAN] /\ stale \in BOOLEAN
  /\ texture \in [Wallpapers -> Sizes \cup {0}] /\ asked \in [Wallpapers -> Sizes \cup {0}]
  /\ landed \in [Wallpapers -> Sizes \cup {0, -1}]
  /\ baked \in [Keys -> Nat] /\ failed \subseteq Wallpapers
  /\ flags \in [Outputs -> Flags] /\ presented \in [Outputs -> Pics]
  /\ frame \in [Outputs -> Frames]
  /\ phase \in {"poll", "sync", "resolve", "resolved", "draw"}
  /\ events \in [ready: SUBSET Wallpapers, failed: SUBSET Wallpapers]
  /\ changes \in 0..MaxChanges

(* The daemon sleeps, no decode is under way, and no answer is to come for *)
(* this output: nothing more will be drawn on it by itself.                *)
AtRest(o) ==
  /\ phase = "poll" /\ ~flags[o].awaiting
  /\ \A w \in Wallpapers : asked[w] = 0 /\ landed[w] = 0

(* A blur is made by the pass after the one that turned it on.  That is in *)
(* time when a blur takes time, and for an image that takes the place of   *)
(* one that failed when crossfades do, or no other output may have held it.*)
MadeInTime(o) == Blurring > 0 /\ (Fade > 0 \/ Fallback = NoImage \/ Outputs = {o})

(* Whatever order the decodes, the answers and the changes came in, an     *)
(* output at rest shows its state: the wallpaper, at full, with the blur   *)
(* it is resolved to, and nothing of the one before.  What keeps it from   *)
(* that is only that its wallpaper is one that was given up on and then    *)
(* chosen again while a slot still had it.                                 *)
ShowsTheState ==
  \A o \in Outputs : AtRest(o) /\ slot[o].current \notin failed =>
    /\ Settled(o) /\ Drawable(o)
    /\ frame[o].pic = slot[o].current
    /\ slot[o].current = NoImage => frame[o].previous = NoImage \/ frame[o].opacity = 0
    /\ slot[o].current # NoImage =>
         /\ frame[o].previous = NoImage
         /\ frame[o].opacity = Unit
         /\ MadeInTime(o) => frame[o].blur = Target(o)
         /\ frame[o].opaque <=> slot[o].current \in Opaque

(* "Nothing waits for that: the old copy keeps drawing until the new one   *)
(* arrives": an output at rest shows the texture that is held.             *)
LargerShown ==
  \A o \in Outputs : AtRest(o) /\ frame[o].pic # NoImage => frame[o].size = SizeOf(frame[o].pic)

(* "without this they wait for an unrelated animation to carry them onto   *)
(* the screen": with the mark a move leaves, an output at rest is as       *)
(* blurred as it was resolved to be, whether or not the move took time.    *)
BlurShown ==
  \A o \in Outputs : AtRest(o) /\ frame[o].pic # NoImage => frame[o].blur = Target(o)

(* A frame that is blurred samples, of every image in it, a blur made from *)
(* the very copy it is mixed with: no frame mixes two levels or two sizes. *)
(* An image that takes the place of one that failed is drawn with what     *)
(* another output left of it.                                              *)
EvenlyBlurred ==
  Blurring > 0 => \A o \in Outputs : frame[o].blur > 0 =>
    /\ frame[o].source = frame[o].size \/ (frame[o].pic = Fallback /\ Outputs # {o})
    /\ frame[o].previousSource = frame[o].previousSize

(* The compositor is told a surface hides what is below only when          *)
(* everything sampled for the frame does.                                  *)
HonestlyOpaque ==
  \A o \in Outputs : frame[o].opaque =>
    /\ frame[o].opacity = Unit
    /\ frame[o].pic \in Opaque
    /\ frame[o].previous \in Opaque \cup {NoImage}

(* When the loop sleeps, video memory holds only what a slot shows and the *)
(* blurs configured for it, whatever was shown before; and only what a     *)
(* slot still has is given up on, so that any other image is tried again.  *)
HeldIsShown ==
  phase = "poll" => /\ \A w \in Wallpapers : Resident(w) => w \in InUse
                    /\ \A k \in Keys : baked[k] # 0 => k \in Configured
                    /\ failed \subseteq InUse

(* "Dropping a bake on every focus change would put its cost back into the *)
(* interaction it was moved out of": it goes with the settings it is for.  *)
DropsOldBakes == \A k \in Keys : baked[k] # 0 /\ baked'[k] = 0 => k \notin Configured'

(* An image is held from the moment it arrives for as long as a slot has   *)
(* it, so that a crossfade has what it started from until its last frame.  *)
DropsUnused ==
  \A w \in Wallpapers : Resident(w) /\ texture'[w] = 0 => \A o \in Outputs : w \notin InSlot(o)'

(* What a slot has, and a blur that is configured, are not dropped.        *)
StaysHeld == [][DropsUnused /\ DropsOldBakes]_vars
=============================================================================
