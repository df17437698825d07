# parra in TLA+

parra is a wallpaper daemon for Wayland compositors: one process draws a layer surface on
every output, scrolls, zooms, blurs and crossfades what it shows as the compositor's
workspaces and windows change, and costs nothing while nothing moves. These modules
describe the parts of it where the order of events matters, TLC checks them on small
instances, and TLAPS proves the most important facts for every value of the constants.

## The system

| Part | State it keeps | Operations | Talks to |
| --- | --- | --- | --- |
| Event loop (`src/daemon/mod.rs`, `loops.rs`) | `Daemon`: a `MonitorState` per output, signals, driven channels, clocks, `stale` | serve a source, then `settle`: sync, consume, resolve, draw, drain | every other part, on one thread |
| Frame pacing (`render/src/wayland`) | per surface: `dirty`, `awaiting_frame`, `was_running`; what was presented | plan, submit, answer a callback, build and destroy a surface | the compositor, over one connection |
| Decoding (`render/src/loader.rs`, `textures.rs`) | textures, `inflight`, `failed`, `caches`; two channels and a byte stream | request, work, collect, retain | a decode thread |
| What to show (`domain/src/policy.rs`) | `Signals`: a broadcast slot and one per output | set, unset, forget, `wallpaper_for`, `resolve` | called by the loop |
| Wallpaper slot (`domain/src/wallpaper.rs`) | current and outgoing image, two animations | set, tick | called by the loop |
| Animations (`domain/src/anim.rs`, `monitor.rs`) | value, target and clock of every property | retarget, snap, tick | called by the loop |
| Store (`store/src`, `render/src/cache.rs`) | the record in memory and on disk, resized copies, the next epoch | open, set, clear, stored, save, sweep | the decode thread, through files |
| Control socket (`control/src`, `daemon/bridge.rs`) | connections, one bounded queue per listener | answer, subscribe, push | the loop, through a channel |
| Configuration (`config/src`) | watched directories, a debounce timer | changed, settled, reload | the loop |
| Compositor backends (`compositor/src`) | a tracker of workspaces and windows per backend | session, reconnect, fold an event into channels | the loop, through a channel |
| Geometry, GL, image decoding, command line | none that outlives a call | formulas and calls into libraries | - |

What is hard, and where:

- *Presenting reads the connection.* `eglSwapBuffers` reads whatever the compositor has
  sent, for every output, so events can be parsed with nothing left on the descriptor to
  wake the loop. Everything about `settle`'s shape follows from this.
- *A debt that must survive.* An output that changes while it waits for its callback, or
  whose animation ended between two draws, owes a frame that no later event announces.
- *Surfaces by name.* A destroyed surface's callback reaches the next surface of the same
  output, because handlers find surfaces by output.
- *Two threads, two channels, one byte.* A finished decode is announced by a byte written
  after the result; the loop empties the bytes and takes the results in separate steps.
- *An image that fails.* It may be shown, leaving, wanted larger, configured and recorded
  in different places at once; what forgets it and what tries it again are different code.
- *One image behind two outputs.* Textures and blur bakes are shared, made in one pass and
  sampled in a later one, so a frame can be composed of things of different ages.
- *Interruptions.* A wallpaper is set, removed or reloaded in the middle of a crossfade, an
  arrival or a departure; what jumps, what is released and what is reported then depends on
  which of two images is the more visible.
- *Listeners.* A client may subscribe in the middle of an animation, stop reading, or wait
  for an answer from a loop that is ending; another daemon may start on the same path.
- *A file that is edited any way an editor edits.* Saved in place, renamed over, moved away
  and created again, or behind a link that is re-pointed, while events wait to be read.
- *Compositors that describe themselves in pieces.* Lines of one change come apart, and a
  snapshot is newer than the events still queued behind it.
- *Files that outlive the process.* The record, the copies and the identities (epochs) are
  written by two threads and read by the next run.

## Modules

| Module | Role |
| --- | --- |
| `Pacing` | The pacing rule: three flags and the decision `plan`, as operators |
| `FrameLoop` | The event loop, the surfaces, the compositor and the decode thread as one state machine |
| `Display` | What the daemon promises whoever looks at a screen; `FrameLoop` implements it |
| `Addressing` | Slots addressed by a broadcast or by an output, shared by the signals and the record |
| `Decoding` | What each output wants, what is resident or in flight, failures, the decode thread |
| `Remembering` | The record, the copies, a process that may be killed |
| `Animation` | `Animated` and `Tween`: values in integers, easings, redirecting, placing, ticking |
| `WallpaperSlot` | The two images of an output and the two animations between them, as operators |
| `Crossfade` | One output's slot, clocks and sampling under sets, removals, reloads and frames |
| `Announcing` | What outputs head for (`policy::resolve`), and what a listener is told of it |
| `Screen` | Textures, bakes and the frame composed of them, between the passes of a settle |
| `Binding` | Several daemons on one socket path, killed and started again |
| `Control` | Connection threads, the bridge to the loop, the bounded queue of a listener |
| `Broadcast` | What an event stream promises; `Control` implements it |
| `ConfigWatch` | The watched directories, a link followed, the debounce timer, the reload |
| `Config` | Sections, overrides, ranges and layering, and taking a configuration over |
| `Sessions` | A backend's thread: connecting, seeding, following, backing off |
| `EventLines` | Reading a line that arrives in pieces, with reads that give up |
| `Channels` | What a backend drives, folded into what an output is driven to, as operators |
| `NiriTracker`, `HyprTracker` | Each compositor, what it sends, and the tracker that follows it |
| `FrameLoopProofs`, `DecodingProofs`, `RememberingProofs`, `SocketProofs`, `ScreenProofs`, `OutputProofs`, `ListeningProofs`, `TrackerProofs` | TLAPS proofs |
| `MCFrameLoop`, `MCDecoding`, `MCRemembering`, `MCScreen` | Model values for TLC |
| `MCOutput`, `MCControl`, `MCTrackers`, `MCConnections`, `MCConfiguration` | Two components each |

Each of the last five EXTENDS two modules, restricted in turn.

They look at two neighbours that share no state, or at one of them begun in several ways, in
one run. Their variable `part` says which one a behaviour is about; it is
chosen once, and the variables of the others keep still. The state space of such a run is
therefore the sum of the parts', and nothing is left out by it: parts have no action in
common. The two trackers also share `settings`, which never change.

How the components meet: `Screen` takes over what `Pacing` decides and `WallpaperSlot`
holds; `Announcing` is built on `Animation` and `Addressing`; `Crossfade` and `Screen` share
`WallpaperSlot`; both trackers share `Channels`. Where a component is used by another only
through what it promises, the promise is the interface: `Announcing` hears events in order
and without a gap, which is what `Control` implements (`Broadcast`); `Sessions` reads whole
lines, which is what `EventLines` shows; the trackers restate channels, which `Announcing`
takes as any change of what an output is driven to; `Config` takes up when `ConfigWatch`
reloads.

### FrameLoop and Pacing

`surf` and `flags` are a `Surface` and its `Pacing`; `shown` is the frame last presented,
whose wallpaper is `Renderer::presented`. `states`, `pic`, `look`, `value`, `left` are the
`MonitorState`s: the wallpaper of the slot, what is read where a frame is built, the
animated target, and how many frames the animations still need. `phase` is the thread's
place in the loop. A message between the compositor and the daemon is `"wire"` until the
connection is read and `"queue"` until its handler runs; the order of messages of one kind
is kept, the order between outputs is free.

Serving sources is `OnDisplay`, `NoticedDecode`, `OnCompositor`, `OnSetWallpaper` and
`OnReload`; handlers with the `RenderEvent` they cause are `FrameDue`, `GhostDue`,
`Configured`, `Closed`, `EnsureSurface`; `settle` is `StartSettle`, `Sync` (which includes
`Daemon::resolve`), `PlanDraw`, `KeepFrame`, `DrawOutput`, `SwapReads`, `SwapDone`, `Drawn`
and `Drained`. `Display` has no loop at all: an output has a frame it ought to show, and
the daemon may show it once for every answer of the compositor and only as it ought to be
at that moment. The refinement maps the wish to the state's scene and the compositor's
readiness to the absence of an outstanding callback.

### Decoding and Addressing

A wallpaper is its `WallpaperRef`: a set over the socket makes a new one, the configured
fallback always has the same. A size is the set of dimensions in which it is the larger, so
`PixelSize::covers` is inclusion, `union` is union, and two sizes can be incomparable.
`want` and `leaving` are the two slots of a `WallpaperSlot`; which image is left fading out
depends on clocks and is a choice (`Kept`). `texture`, `inflight` and `failed` are the
renderer's, `jobs`, `done` and `signal` are the channels and the byte stream. A pass of
`settle` is `TakeResult`* `TakenAll` `Request`* `Retain` `WallpaperFailed`* `Consumed`
`Drained`. The initial states have every record an earlier run can have left.

### Remembering

`mem` is `Store::state`, `disk` the file, `copies` the resized images and `pending` the
temporary files. The decode thread's `read` and `write` are `ServeCopy`, `DecodeSource`,
`FinishCopy` and `DecodeOrWriteFails`, so that a sweep or a kill can fall between any two.
`uid` numbers the requests themselves and appears in no guard: it is what tells whether a
copy belongs to the wallpaper the record says it does when an epoch is given out twice.

### Animation, WallpaperSlot and Crossfade

Values are integers from 0 to `Unit`, easings keep their order and ends, and a clock is a
count of ticks. `Retarget`, `Place` and `Ticked` are `Animated`'s methods, `SetSlot` and
`TickSlot` the slot's, with their early returns: which of two images is the more visible is
asked before anything is replaced. `Crossfade` adds what `MonitorState` keeps beside the
slot (`kept` is `outgoing_scroll`, `share` where the scroll is) and lets a frame be drawn, a
scroll move and a reload change the transition (`effective_tween`) at any moment. What each image contributes
to the frame (`Weight`) is the product of opacity and fade, in square units.

### Announcing

`driven`, `asked`, `blurs`, `config` and each output's viewport are the sources of
`policy::resolve`; `stale` and `to_place` are the daemon's. `out` is every `MonitorState`
and `heard` what a listener has made of the events so far: it runs the curves it was told.
`midway` remembers which values were moving when it subscribed, which is exactly what the
stream does not describe. Every handler of `Daemon` that changes a source is an action.

### Screen

A settle is `Sync` (collect decodes, request, bake), `Consume`, `Resolve` and `Draw`, in
that order and repeated until nothing is left, with requests, resizes, reloads, callbacks
and decodes coming between. `texture` and `baked` hold the size each was made from, so a
bake of a smaller copy is a different thing from one of the larger; `failed` is what the loader
has given up on, which it keeps for as long as a slot has the image; `frame` is what the last
frame of an output sampled. Whether an image decodes is settled by `Broken`, so one that is
resident never fails at a larger size (that is `Decoding`'s).

### Control, Broadcast and Binding

A connection's thread is `thread` (`pc` in `Control`); `line`, `job`, `reply`, `queue` and
`out` are the places a request, an answer or an event can be in. Requests are of the kinds
the code treats differently (blank, junk, ask, subscribe), events are numbered, and a
description carries the number of the last event before it. `Broadcast` has only what was
emitted and where each listener is in it; the refinement maps a listener's place to what its
client has read. `Binding` has one step for each system call of `Server::bind` and `Drop`.

### ConfigWatch and Config

`files` is the file system of the places the file can be in, `queue` the kernel's
events, `watches` what is watched, `targets` what the watcher believes it listens to.
`Changed`, `Resolved`, `Settled` are the daemon's handlers and `Quiet` the passing of time.
In `Config` a file is a function from keys to what they say; `Resolve` is the layering of
`merge.rs` with each range check, `Reload` what the daemon does with the result.

### Sessions, EventLines and the trackers

`Sessions` keeps the compositor as a count of its changes: `shown` is the one the daemon was
told last, and `asks` says which backend it is, from the start on. The thread's states are the
places it can wait in. `EventLines` models the bytes of a line by their place in a character,
`arrived` and `taken` as places in the text, and `read_line` as the standard library documents
it (external). `NiriTracker` and `HyprTracker` each have the compositor (`world`, `desktop`), what
it has sent and not yet been read, and the tracker's maps (`tracker`, `view`); each line of the
trackers' `match` is an operator on the tracker. `driven` and `told` are what the daemon has made of it, `settings`
what `[compositor]` says of each output, any of `Configurations`. What niri sends for one change are lines in any order; what
Hyprland sends are events in the order of what happened, with snapshots answered later.

## Runs

| Run | Instances | Shows |
| --- | --- | --- |
| `frame_loop` | 1 output, 2 wallpapers, 2 frames, 3 changes, fair | callbacks are accounted for, nothing is stranded or unresolved in a sleeping loop; it catches up and falls idle |
| `shared_connection` | 2 outputs on one connection, 1 change, symmetric | no event is left unread by a sleeping loop; `FrameLoop` implements `Display` |
| `decoding` | 2 outputs, 1 image and 1 fallback, 2 sizes, 2 changes, fair | results are noticed, what is wanted comes or is given up, nothing is held for nobody, decoding runs dry |
| `remembering` | 1 output and the broadcast, 2 incomparable sizes, 2 sets, 2 jobs | record and copies agree through kills, failed saves and sweeps |
| `screen` | 2 outputs, 3 images (one large and opaque, one a fallback, one that fails), 2 sizes, one blur setting and none, 2 changes, symmetric | frames rest on the state, blur evenly, are opaque only when they are; memory holds what is configured |
| `output` | crossfades of 3 images with and without reloads; 2 outputs with 2 images, 2 viewports, 2 configurations, two positions and 4 changes | interruptions are gentle and reported; sources are resolved; a listener mirrors the daemon |
| `control` | 3 daemons started 5 times; a queue of 2 and 1 client, 1 under fairness, 2 clients | one daemon has the path; requests have one answer; `Control` implements `Broadcast`; nobody waits for ever |
| `trackers` | niri with 2 outputs and with a furnished one; Hyprland renumbered, focused, with 2 monitors | once all is read, every output is driven to where the compositor is (`SnapshotsConverge` says when, of Hyprland) |
| `connections` | both backends with 2 or 3 changes and 4 outages, and shorter under fairness; 3 lines of 9 bytes | what was told is current, sessions come back, lines are whole, the thread ends |
| `configuration` | 3 edits of a file with an output's table; 3 edits of a file or a link to one of three places, one of them where nothing can be watched | layers and refusals, watches held, edits take effect |
| `sole_daemon` | as `control`, the path alone | violated, see below |
| `stream_stands_alone` | as `output`, one output | violated, see below |

Several properties are conjunctions of what belongs together, named in the component's
module: `PositionsConverge` and `SnapshotsConverge` of what each tracker converges to; `SourcesResolved` of `AimsAtTarget`, `ResolvedAgainstShown` and `PlacementPending`;
`InterruptedGently` of half a frame at most, nothing dropped that is seen, and an image that
leaves in its place; `RunsWhatIsSaid` of the four ways a value reaches an output. Type
correctness is a theorem where there are proofs. The other components state a `TypeOK` too,
which no run repeats: added to the INVARIANTS of a run, TLC finds it true.

### Bounds

They count what the world does (`MaxChanges`, `MaxSets`, `MaxEdits`, `MaxOutages`,
`MaxStarts`, `MaxAsks`, `MaxEvents`) or how far a queue can grow (`MaxJobs`, `Backlog`,
`Buffer`) or reach (`Positions`, the part of the axis a compositor drives an output to: in
`output` the middle and one end, of which the other is the mirror image); nothing the program
does is bounded. The backlog of a listener is a constant of
the code and small here, so that it overflows.

One output reaches every interaction of a surface with its own callbacks; two are needed for
the shared connection, for one wallpaper wanted at two sizes and for shared bakes, and a
third adds no new pair. Three changes close an output, make it again and change its target
in between; two frames are the fewest in which an animation can be in the middle. Two sets
are the fewest in which an epoch can be given out twice, and four sets interrupt an
interrupted crossfade. Three daemons and five starts let one be killed, one take over and
one race it. Two clients share the channel into the loop. Three workspaces are the fewest
with a middle, three edits the fewest that leave a link's target and come back. Five times
the shortest wait shows the same cap as forty times does. `CHECK_DEADLOCK` is off because
the daemon does rest: with everything settled and the bounds reached, nothing happens.

Every property of a passing run is broken by a mutant of the code, defined beside the
definition it replaces and named in `PROJECT.json`. Two plausible mutants of the pacing are
not among them because they are equivalent: leaving out the debt of a deferred pass (the two
other flags already carry it), and recording the wait after the swap (the Rust client queues
events while it presents and dispatches none, so a callback cannot be lost there).

### Where the source and its comments disagree

Two are runs that TLC must find violated:

- `sole_daemon`: two daemons that both found nobody answering remove and bind one after the
  other, and run side by side; `Server::bind` (server.rs:94) says it refuses a path that is
  answered on. Daemons that do not bind at the same moment never do (`SoleUnlessRaced`, proved).
- `stream_stands_alone`: who subscribes while a value moves is told where it is and never
  where it goes; protocol.rs:145 says a stream stands on its own.

The others are kept as configurations to run by hand, each violated by a short behaviour,
or as a property to put in the place of those of a run's configuration:

| Check | Module | What the code does | What it says |
| --- | --- | --- | --- |
| `GivenUp.cfg` | `MCDecoding` | an output that wants a failed image still held elsewhere is never served, and no one told | daemon/mod.rs:370 |
| `ReportedOnce.cfg` | `MCDecoding` | two queued sizes of one image both fail and are both reported | docs/control-protocol.md:208 |
| `DecodedOnce.cfg` | `MCDecoding` | collecting the smaller of two decodes forgets the larger, which is queued again | loader.rs:113 |
| `ShownUntilReplaced.cfg` | `MCDecoding` | a resident wallpaper is taken off because decoding it larger failed | docs/architecture.md:158 |
| `ServedLargeEnough.cfg` | `MCRemembering` | a kill between a copy's rename and its record leaves a record of more than the copy holds | cache.rs:26 |
| `LargerShown` in `Screen.cfg` | `MCScreen` | a larger decode replaces the texture and marks nothing: the small frame stays | docs/architecture.md:159 |
| `BlurShown` in `Screen.cfg`, `Blurring = 0` | `MCScreen` | a blur without a duration is settled before its bake exists, and stays off the screen | lib.rs:168 (render) |
| `OutgoingHolds.cfg` | `MCOutput` | an image in both slots leaves from the place of its earlier departure | monitor.rs:108 |
| `DepartedStaysAway.cfg` | `MCOutput` | a wallpaper removed before it was drawn is crossed out of by the next one | wallpaper.rs:105 |
| `PlacedNotEased`, part `announcing` of `Output.cfg` | `MCOutput` | a resident image swapped in is eased from the other's share | daemon/mod.rs:418 |
| `NothingJumps`, part `announcing` of `Output.cfg` | `MCOutput` | a larger decode for one output places a scroll easing on another | daemon/mod.rs:419 |
| `FloatingCentred`, part `furnished` of `Trackers.cfg` | `MCTrackers` | a monitor whose focused window floats keeps its column | docs/config.md:115 |
| `RowsConverge`, part `mixed` of `Trackers.cfg` without symmetry | `MCTrackers` | an event older than the snapshot moves a workspace of the other monitor | hyprland/translate.rs:117 |
| `WindowsConverge`, part `renumbered`, `MaxTurns = 4` | `MCTrackers` | an event of a workspace's old number is read after a snapshot that has the new one, and its windows are lost | hyprland/translate.rs:854 |
| `BlurConverges`, part `focused`, without the bound on numbers | `MCTrackers` | a renumbered workspace takes its windows along and not the focus, so its output goes sharp | docs/config.md:140 |
| `Whole`, part `lines` of `Connections.cfg` | `MCConnections` | a read that gives up inside a character loses the bytes it took | lines.rs:20 |
| `EditsTakeEffect`, part `watching`, `TargetStays = FALSE` | `MCConfiguration` | a linked file saved by moving the old one away loses its watch | docs/config.md:353 |
| `EditsTakeEffect`, part `watching`, `EarlyEdits = TRUE` | `MCConfiguration` | an edit between loading and watching is not noticed | docs/config.md:353 |

`ShowsTheState` excepts an output whose wallpaper was given up on: an image that failed for one
output, fell back, and is set again while some slot is still leaving it is neither asked for
(loader.rs:115) nor reported, and the output keeps the frame it has. It is what `GivenUp.cfg`
shows of `Decoding`. The size of a frame is not part of it either, which is `LargerShown`.

`QuietMeansCurrent` takes what a compositor shows as one fact, so it says nothing of a session one of whose lines
did not parse (`missed`): a later line, or Hyprland's answer to being asked again, which is of its
monitors and workspaces only, may leave out what was lost.

`EvenlyBlurred` excepts what the proof of it turned up. An output that falls back onto an
image another output already shows is drawn with what that output holds: the bake a blurred
output needs is made in the next pass, and until it is the frame has the image's blur of
another size (`MaxChanges = 6` in `Screen.cfg`, without the exception, in simulation). Without
a duration (`Blurring = 0`) a blur is drawn before it is made at all, which is `BlurShown`.

`SnapshotsConverge` excepts what these rows show of Hyprland, and no more: rows that a change
overtook (`raced`) where there are two outputs, windows that a change of numbers overtook, and
the blur of a focused window whose workspace was renumbered.

## Fairness

`FrameLoop`: the thread does not stop while it has work (`WF` on `Loop`: `settle` loops
until there is nothing, and the descriptors are level-triggered); the decode thread
finishes its job; the compositor configures a surface it was asked for and answers the
frames of the outputs in `Visible`. Nothing is assumed of an occluded output, of requests or
of mode changes. `Decoding`: weak fairness of the two threads, nothing else; in particular
a transition may never land, because its output may never be given a callback.

`Crossfade`: a visible output draws what is due. `Control`: the loop starts, serves its
channel and ends once it has begun to, and each connection's thread runs; a write that blocks
is given up after `STALL`. Clients owe nothing. `Binding`: every process goes on.
`Sessions`: the backend's thread alone, whose every wait ends by itself (`POLL`, the retry);
the compositor may stay away for ever, so following again is promised only of one that stays
up. `EventLines`: the thread calls again and a read that has something comes back; bytes need
not arrive. `ConfigWatch`: the loop serves its descriptors and time passes; nobody has to ask
for a reload.

## Proofs

All theorems are about `Spec` without fairness, for every value of the constants that
satisfies the named assumptions.

*FrameLoop.* `LoopInv` is inductive. `CallbackAccounting` alone is not: whether a callback
arrives for the right surface depends on a destroyed surface's callback being gone before
the next one is configured (`SurfaceInv`), and whether a pass may draw depends on what it
decided before drawing anything (`PendingInv`). `NothingStranded` needs to know that a clean
surface shows what its state says (`ShownInv`), that nothing is stale once a pass has
resolved (`SyncedInv`), and what is still owed once it has planned (`PlannedInv`). From
`LoopInv` follow the five safety properties and, step by step, the refinement
`LoopImplementsDisplay`.

*Decoding.* `DecodingInv` is inductive. `WantedIsComing` speaks of a loop that sleeps, and
is made true two phases earlier: once `ToRequest` is empty every output is answered
(`RetainSettles`), and whatever undoes that asks for another pass (`SettledInv`).
`ResultNoticed` needs the order of the thread's two writes and of the loop's two reads
(`NoticedInv`), and a failure consumed in a pass that is not the last (`LostInv`).
The proof uses that the union of sizes is a size, and that no size is `None`.

*Remembering.* `RememberInv` is inductive. The four properties speak of names of files;
what carries them is that within a run an epoch stands for one request among all that
memory, disk and the queue know (`EpochsApart`), which holds because the next one is above
them all (`EpochsBelow`), from the first on that `Store::open` picks. So a copy renamed
into place has a name no other request has (`SameName`), and a sweep takes no recorded copy
because it runs only when memory and file agree (`MainInv`). That a copy waiting to be
recorded is still there when it is (`DoneCopies`) is what makes the record truthful.
Nothing is assumed about `NoPic`: an entry equal to it would be an empty slot.

*Binding.* `BindingInv` is inductive for any number of daemons and restarts. `SoleUnlessRaced`
alone is not: that a daemon which has just found the path unanswered may remove it depends on
nobody having bound since. As long as no two daemons were between asking and binding at once
(`~raced`), the invariant adds what each of them has learnt of the path: at most one is
between asking and binding, none is up while it removes the file, the path is free when it
binds, and every daemon that is up is the one the path leads to.

*Control.* `ControlImplementsBroadcast` is the refinement for any number of clients, any backlog
and any socket buffer (`ControlAssumption`: the two are positive, and "no line" is not a line).
`Gapless` is not inductive: that an event queued follows what was written depends on nothing
else being written in between, which depends on a client having one request under way. So
`StreamInv` says per client whose turn it is (`Turn`), that the lines written are in order and
begin where the client is (`Written`), that the queue is in order and begins where those end
and that whoever is on the list has the last event at its end (`Queued`), that nothing is told
before it happened (`Past`); and of the channel that it holds a request once, unanswered
(`ChannelInv`). Every step that reads a line is then a `Join` or a `Hear`, and an event is
dropped only together with its listener. `Gapless` and `ListedIsComplete`,
which `ImplementsBroadcast` also promises, follow from it by what `Coming` puts in a row.

`OneAnswer` adds what is due to a client (`Due`). `OneAnswerEach` itself says only that the six
places an answer can be in exclude each other; that one of them always has it needs, of a
client that asked, that its request is with the socket, the thread or the loop or that something
is written to it, and that the first line written is then an answer: a description that was
accepted is followed by its queue, whose lines must never be taken for one. That a description
is no older than its request is carried along with it, from the moment it was asked
(`asked`) through the reply and the first line to what the listener has read (`view`). `Alive` is
part of it for a reason: the end of the process takes requests with it unanswered.

*Connections.* For `Sessions`, `SessionsInv` says what is still to be read: of what a connection
brings, the last line that is not ignored says what is true now (`SaysNow`), or there is none
and the daemon has been told, has missed it, or holds an answer that says it. It holds under both
backends for different reasons: niri's stream begins with everything, and Hyprland listens before
it asks, so what changes while it asks is behind the answer in the stream. For `EventLines`,
`ReadInv` compares what is handed on with the text byte by byte: `partial` and `fresh` are of the line
that is being read, together all of it taken so far unless a read gave up inside a character
(`Reading`), and a line that ended the stream early is the last. `WholeUnlessSplit` says nothing
of what is held and is not inductive; and that the lines before are whole is part of `Reading`,
because `Whole` alone lets the last be cut short.

*ConfigWatch.* `WatchInv` is inductive for any places. What a look changes is `Retargeted`: a
directory that was watched keeps its watch, what is new gets one that was never given out, and
two new ones differ (`NewFacts`), so no two directories are ever listened to through one watch.

*The niri tracker.* `PositionsConverge` is of the moment when every line was read, and says
nothing of the lines between. What carries it is `Linked`: there is a row of trackers, the first the
one there is and the last niri itself (`Tracked`), and each batch of lines not read yet `Leads`
from one to the next, in whatever order its lines are read. `Leads` is what an order cannot
spoil: each line says what is so at the end of its batch (`IsSo`), whatever differs from it is
said by some line still to come (`Said`), and a workspace that ends with no window to follow
stands meanwhile where it will stand (`Left`). The last is the hard one, since the tracker
remembers a column after every line, of windows and workspaces that are half described: it holds
because a window that may be taken for the active one on the way stands in that column in
both descriptions, and that in turn because no change of niri gives a workspace another active window
and moves one that stays there (`Gentle`). So each of the nine lines has a lemma that it takes
`Leads` along (`After*`, `Remembering`), and each of niri's twelve changes one that what it leaves is a
world (`WorldOK`) and gentle. A reconnection begins a new row of three batches from an empty
tracker (`LinkDescribed`), and until its first line is read the daemon keeps what it had
(`DrivenOK`). `NoForeignColumn` is carried by the row too: each of its trackers stands only at columns
windows had there (`Had`).

*The Hyprland tracker.* `SnapshotsConverge` is of a moment as well, and `HyprInv` says at every other
what is wrong and which answer or event is still to put it right. Three things carry it. Every
change says all it changes (`Announced`): its outputs and workspaces (`Arranged`), where its windows
go (`Peopled`) and the focus (`Attended`); each of the nine changes has a lemma that it does, and
so has what follows from one (`Aftermath`). Second, the view is compared as it will be once the open
questions are answered (`Ahead`, `AheadWindows`, `AheadFocus`), of what they would be told now: an
answer then changes nothing of it, and a change between two answers is one `Ahead` sees partly
(`Overtaken`). Third, whatever differs has its event in the queue, and what an event says wrongly is
followed by one that says it right (`Led`): so it is of the outputs (`Topology`), the windows
(`WindowsKnown`) and the focus (`FocusKnown`), which also needs to be read where the view tells what it
means (`Heralded`, `Switched`, `Seated`), since an event of the focus does not name a workspace. Each of
the three is claimed only where `SnapshotsConverge` needs it, and the exceptions are the ones the
runs found: a change of numbers can be read once too often, and an answer can hold what an event
in the queue says again.

*Screen.* `ScreenInv` is inductive, for any outputs, images, sizes, settings and lengths. The
first four parts say what a slot can be: an image that has arrived has left nothing behind
(`SlotInv`), which needs the arithmetic of `Retarget` and `Ticked`, the only place where
values are divided. `ShowsTheState` compares the last frame with the state; it follows from
what a surface without a debt has on it (`FinalInv`), that the loop does not sleep on a debt
(`QuietInv`), that what is chosen, not resident and not given up on is being decoded (`ComingInv`), and that a
blur heads where it was resolved to (`ResolvedInv`). That its blur is then also drawn, and
`EvenlyBlurred`, rest on `BakedInv`: whatever makes an output want a blur does so in the resolve
before a `Sync`, so with a duration the frame that first samples it comes one pass later,
except for a fallback (`Exempt`). `HeldIsShown` is what the three `retain`s leave (`HeldInv`).
`HonestlyOpaque` has to say it of what is sampled: the code asks the slot, and counts an image
that is not resident as opaque, but one that is sampled is resident.

*Announcing.* `AnnouncingInv` is `TypeOK`, `SourcesResolved` and `Mirrored` together, for any
outputs, images, viewports, configurations and any travel of an image at a viewport. None of
the three is inductive alone: what a listener keeps is of the right type only because it
mirrors an output, and a value has its type only if where it heads has. That a value stays
between its ends needs every easing to (`EvalFacts`): the powers of `Easing::eval` are compared
factor by factor, since the prover does not multiply. A resolve is one place and up to two
redirections of a value, each of which a listener follows (`Followed`): what is reported it
takes over whatever it had, and what is not reported it must not have to hear. `Mirrored` then
says exactly that `announce_moves` leaves nothing out, placings and moves of no duration
included.

*Crossfade.* `InterruptedGently` is an action property, proved step by step from `CrossfadeInv`,
for any images, transitions and precision. What its three parts need of the state before a step
are different things. That no image jumps by more than half needs values between their ends
only, but products of two of them (`Blend`): the two images share the presence of the frame, and
the one that `Leaving` gives up had at most half of it. That a frame which releases an image
showed nothing of it needs a crossfade to end at the image set (`slot.fade.to`), or at nothing
with the presence gone. That the image leaving stays in place needs `kept` to be there exactly as
long as an image is leaving. Both facts are of the state and not of any one method.
`ReportsTheSeen` is the first half of `ReportsWhatLeaves`, of a transition that stays
(`SteadySlotSpec`); after a reload it is false, since an instant change then drops an image that is
still seen and names the other one. It needs two more facts (`SteadyInv`): with no current image the
crossfade is snapped to the one leaving, so the half-way rule keeps it, and where every change is
instant nothing of an image that leaves is seen. Then `Blend` and `MoreSeen` compare the two.

Model-checked only: liveness under fairness (`CatchesUp`, `FallsIdle`,
`EveryOutputAnswered`, `DecodesRunDry`, `TakesOver`, `AnsweredOrDropped`, `ReportsWhatLeaves`' second
half, `FollowedAgain`, `ThreadGetsOn`, `EditsTakeEffect`), which the prover does not reach;
`Config`, whose layers are recursive; and `BacksOff`, which follows a recursive function through
its values.

## Not modelled

Within the components above: Hyprland's special workspaces and the drive of niri's overview
zoom; `watch_config` failing at the start, a configuration directory that is removed, and events the
kernel drops because its queue is full;
`HOME` unset (a constant of `Config`, TRUE in the run); a state file that does not parse; the
second scroll axis, which the code treats like the first; an upload, a GL call or a Wayland connection that fails, each of
which ends the process.

Left out: pixel arithmetic (`decode.rs`), floating-point geometry (`geometry.rs`, `scroll.rs`,
`zoom.rs` beyond the shares `Announcing` uses), GL and EGL calls, the text of TOML and JSON, and
the command line (`src/cmd`, `paths.rs`), which have no state of their own or none that
outlives a call. What presenting does to the connection is an external action of `FrameLoop`.
