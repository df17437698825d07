------------------------------ MODULE Decoding ------------------------------
(***************************************************************************)
(* Wallpapers on their way to the screen: what each output should show,    *)
(* which images are resident and at what size, the decode thread, and what *)
(* happens to an image that will not decode.  `Loader` (crates/render/src/ *)
(* loader.rs), `TextureCache` (textures.rs), `Renderer::sync_textures`     *)
(* (lib.rs) and the wallpaper half of `Daemon` (src/daemon/mod.rs).        *)
(*                                                                         *)
(* A wallpaper is an identity, `WallpaperRef`: a set over the socket makes *)
(* a new one, the configured fallback always has the same, and a restore   *)
(* brings a recorded one back.  A size is the set of dimensions in which   *)
(* it is the larger, so that one covers another by inclusion and two can   *)
(* be incomparable, as they are for monitors of different shapes.          *)
(*                                                                         *)
(* Abstracted: when a crossfade ends, and everything FrameLoop models of   *)
(* presenting a frame.  Which images decode is up to the files.            *)
(***************************************************************************)
EXTENDS Naturals, Sequences, Addressing

CONSTANTS
  Pics,         (* wallpaper identities                                    *)
  Fallbacks,    (* those the configuration can name                        *)
  Sizes,        (* sizes, as the dimensions in which each is the larger    *)
  None,         (* no size: not resident, not asked for                    *)
  MaxChanges    (* bound: changes the outside world makes                  *)

Slot == Pics \cup {NoPic}

ASSUME DecodingAssumption ==
  /\ NoPic \notin Pics
  /\ Fallbacks \subseteq Pics
  /\ None \notin Sizes
  /\ \A some \in SUBSET Sizes : UNION some \in Sizes
  /\ MaxChanges \in Nat

VARIABLES
  (* What was asked for. *)
  signals,    (* Signals                                                   *)
  recorded,   (* the store's own copy of the record                        *)
  fallback,   (* the configured wallpaper of each output                   *)
  used,       (* identities given out so far                               *)
  (* The outputs. *)
  states,     (* outputs with a MonitorState                               *)
  need,       (* the size each output needs its wallpaper at               *)
  want,       (* WallpaperSlot::current                                    *)
  leaving,    (* WallpaperSlot::outgoing                                   *)
  (* The renderer. *)
  texture,    (* the size each resident wallpaper was asked for            *)
  inflight,   (* the size asked for and not answered                       *)
  failed,     (* wallpapers given up on                                    *)
  lost,       (* WallpaperFailed events not consumed yet                   *)
  (* The decode thread and its channels. *)
  jobs, done, (* the two queues                                            *)
  stage,      (* "idle", "decoding" or "queued" (byte still to be written) *)
  job,        (* the job it has, when it is decoding                       *)
  signal,     (* the descriptor is readable                                *)
  (* The loop. *)
  phase, again,
  changes

askVars    == <<signals, recorded, fallback, used>>
outputVars == <<states, need, want, leaving>>
cacheVars  == <<texture, inflight, failed, lost>>
threadVars == <<jobs, done, stage, job, signal>>
loopVars   == <<phase, again>>
vars == <<askVars, outputVars, cacheVars, threadVars, loopVars, changes>>

Jobs == [pic: Pics, size: Sizes]
Results == [pic: Pics, asked: Sizes, ok: BOOLEAN]

(* Every variable has its type. *)
TypeOK ==
  /\ signals \in SlotsOf(Slot) /\ recorded \in SlotsOf(Slot)
  /\ fallback \in [Outputs -> Fallbacks \cup {NoPic}]
  /\ used \in SUBSET Pics
  /\ states \in SUBSET Outputs
  /\ need \in [Outputs -> Sizes]
  /\ want \in [Outputs -> Slot] /\ leaving \in [Outputs -> Slot]
  /\ texture \in [Pics -> Sizes \cup {None}]
  /\ inflight \in [Pics -> Sizes \cup {None}]
  /\ failed \in SUBSET Pics
  /\ lost \in Seq(Pics)
  /\ jobs \in Seq(Jobs) /\ done \in Seq(Results)
  /\ stage \in {"idle", "decoding", "queued"}
  /\ job \in Jobs \cup {None}
  /\ signal \in BOOLEAN
  /\ phase \in {"poll", "take", "ensure", "consume", "drain"}
  /\ again \in BOOLEAN
  /\ changes \in 0..MaxChanges

Covers(size, needed) == size # None /\ needed \subseteq size
Asleep == phase = "poll" /\ ~again

RecordedPics == ({recorded.all} \cup {recorded.own[o] : o \in Outputs}) \ {NoPic}

(* `Daemon::new` restores what an earlier run recorded. *)
Init ==
  /\ recorded \in SlotsOf(Slot \ Fallbacks)
  /\ signals = recorded
  /\ fallback \in [Outputs -> Fallbacks \cup {NoPic}]
  /\ used = Fallbacks \cup RecordedPics
  /\ states = {}
  /\ need = [o \in Outputs |-> {}]
  /\ want = [o \in Outputs |-> NoPic]
  /\ leaving = [o \in Outputs |-> NoPic]
  /\ texture = [p \in Pics |-> None]
  /\ inflight = [p \in Pics |-> None]
  /\ failed = {} /\ lost = <<>>
  /\ jobs = <<>> /\ done = <<>>
  /\ stage = "idle" /\ job = None /\ signal = FALSE
  /\ phase = "poll" /\ again = FALSE
  /\ changes = 0

-----------------------------------------------------------------------------
(***************************************************************************)
(* The decode thread: one job at a time, in the order asked for.           *)
(***************************************************************************)
TakeJob ==
  /\ stage = "idle" /\ jobs # <<>>
  /\ job' = Head(jobs)
  /\ jobs' = Tail(jobs)
  /\ stage' = "decoding"
  /\ UNCHANGED <<askVars, outputVars, cacheVars, done, signal, loopVars, changes>>

(* A remembered wallpaper may be served from a copy kept for a larger      *)
(* request, whose size is what comes back.                                 *)
FinishJob ==
  /\ stage = "decoding"
  /\ \E ok \in BOOLEAN, asked \in Sizes :
       /\ job.size \subseteq asked
       /\ (ok /\ job.pic \notin Fallbacks) \/ asked = job.size
       /\ done' = Append(done, [pic |-> job.pic, asked |-> asked, ok |-> ok])
  /\ stage' = "queued"
  /\ job' = None
  /\ UNCHANGED <<askVars, outputVars, cacheVars, jobs, signal, loopVars, changes>>

(* After the result is queued, never before.                               *)
WriteByte ==
  /\ stage = "queued"
  /\ signal' = TRUE
  /\ stage' = "idle"
  /\ UNCHANGED <<askVars, outputVars, cacheVars, jobs, done, job, loopVars, changes>>

-----------------------------------------------------------------------------
(***************************************************************************)
(* Outputs, requests and the configuration, served between two settles.    *)
(***************************************************************************)

(* `WallpaperSlot::set`: what is left fading out depends on how far the    *)
(* last transition had got and on whether this one takes any time.         *)
Kept(o, next) ==
  IF next = NoPic THEN {want[o], leaving[o]}
  ELSE IF want[o] = NoPic /\ leaving[o] = NoPic THEN {NoPic}
  ELSE {want[o], leaving[o], NoPic}

(* `resolve_wallpapers`: every output is pushed what it should now show,   *)
(* or nothing if that is the one just found unusable.                      *)
ResolveWallpapers(asked, configured, unusable) ==
  LET Answer(o) == LET p == WallpaperFor(asked, o, configured[o])
                   IN IF p = unusable THEN NoPic ELSE p
      moved == {o \in states : Answer(o) # want[o]}
  IN /\ want' = [o \in Outputs |-> IF o \in moved THEN Answer(o) ELSE want[o]]
     /\ leaving' \in
          {l \in [Outputs -> Slot] :
             \A o \in Outputs :
               l[o] \in IF o \in moved THEN Kept(o, Answer(o)) ELSE {leaving[o]}}

(* Something that happens while the loop serves its sources.               *)
Serving == phase \in {"poll", "drain"}
Change == changes < MaxChanges /\ changes' = changes + 1 /\ again' = TRUE

(* OutputReady for a new output: its wallpaper is resolved on arrival.     *)
AddOutput(o) ==
  /\ Serving /\ Change
  /\ o \notin states
  /\ states' = states \cup {o}
  /\ \E s \in Sizes : need' = [need EXCEPT ![o] = s]
  /\ want' = [want EXCEPT ![o] = WallpaperFor(signals, o, fallback[o])]
  /\ UNCHANGED <<askVars, leaving, cacheVars, threadVars, phase>>

(* OutputReady for one already there: a mode, a scale.                     *)
ResizeOutput(o) ==
  /\ Serving /\ Change
  /\ o \in states
  /\ \E s \in Sizes \ {need[o]} : need' = [need EXCEPT ![o] = s]
  /\ UNCHANGED <<askVars, states, want, leaving, cacheVars, threadVars, phase>>

OutputGone(o) ==
  /\ Serving /\ Change
  /\ o \in states
  /\ states' = states \ {o}
  /\ need' = [need EXCEPT ![o] = {}]
  /\ want' = [want EXCEPT ![o] = NoPic]
  /\ leaving' = [leaving EXCEPT ![o] = NoPic]
  /\ UNCHANGED <<askVars, cacheVars, threadVars, phase>>

(* Mutant: the image is released and the loop does not look again.         *)
LandTransitionQuiet(o) ==
  /\ Serving /\ leaving[o] # NoPic
  /\ leaving' = [leaving EXCEPT ![o] = NoPic]
  /\ UNCHANGED <<askVars, states, need, want, cacheVars, threadVars, loopVars, changes>>

(* A frame callback lands a transition: the second slot is released.       *)
LandTransition(o) ==
  /\ Serving /\ leaving[o] # NoPic
  /\ leaving' = [leaving EXCEPT ![o] = NoPic]
  /\ again' = TRUE
  /\ UNCHANGED <<askVars, states, need, want, cacheVars, threadVars, phase, changes>>

(* `on_set_wallpaper` with a path: a new identity every time.              *)
SetWallpaper(at) ==
  /\ phase = "poll" /\ Change
  /\ at = All \/ at \in states
  /\ \E p \in Pics \ used :
       /\ used' = used \cup {p}
       /\ signals' = Put(signals, at, p)
       /\ recorded' \in {recorded, Put(recorded, at, p)}
  /\ ResolveWallpapers(signals', fallback, NoPic)
  /\ UNCHANGED <<fallback, states, need, cacheVars, threadVars, phase>>

(* `on_set_wallpaper` without one empties the slot.                        *)
UnsetWallpaper(at) ==
  /\ phase = "poll" /\ Change
  /\ at = All \/ at \in states
  /\ signals' = Put(signals, at, NoPic)
  /\ recorded' \in {recorded, Put(recorded, at, NoPic)}
  /\ ResolveWallpapers(signals', fallback, NoPic)
  /\ UNCHANGED <<fallback, used, states, need, cacheVars, threadVars, phase>>

RestoreWallpaper(at) ==
  /\ phase = "poll" /\ Change
  /\ at = All \/ at \in states
  /\ signals' = Restored(signals, recorded, at)
  /\ ResolveWallpapers(signals', fallback, NoPic)
  /\ UNCHANGED <<recorded, fallback, used, states, need, cacheVars, threadVars, phase>>

(* An edited configuration: other fallbacks, and other sizes by its zoom.  *)
Reload ==
  /\ phase = "poll" /\ Change
  /\ fallback' \in [Outputs -> Fallbacks \cup {NoPic}]
  /\ need' \in {n \in [Outputs -> Sizes] : \A o \in Outputs \ states : n[o] = need[o]}
  /\ ResolveWallpapers(signals, fallback', NoPic)
  /\ UNCHANGED <<signals, recorded, used, states, cacheVars, threadVars, phase>>

(* The descriptor wakes the loop, which empties it.                        *)
NoticedDecode ==
  /\ phase = "poll" /\ signal
  /\ signal' = FALSE
  /\ again' = TRUE
  /\ UNCHANGED <<askVars, outputVars, cacheVars, jobs, done, stage, job, phase, changes>>

-----------------------------------------------------------------------------
(***************************************************************************)
(* The settle: `Renderer::sync_textures`, then `Daemon::consume`.          *)
(***************************************************************************)
StartSettle ==
  /\ phase = "poll" /\ again
  /\ phase' = "take" /\ again' = FALSE
  /\ signal' = FALSE
  /\ UNCHANGED <<askVars, outputVars, cacheVars, jobs, done, stage, job, changes>>

(* Mutant: what came back is remembered, not what was asked for.           *)
TakeResultShort ==
  /\ phase = "take" /\ done # <<>>
  /\ LET r == Head(done)
     IN /\ inflight' = [inflight EXCEPT ![r.pic] = None]
        /\ texture' = IF r.ok THEN [texture EXCEPT ![r.pic] = {}] ELSE texture
        /\ failed' = IF r.ok THEN failed ELSE failed \cup {r.pic}
        /\ lost' = IF r.ok THEN lost ELSE Append(lost, r.pic)
  /\ done' = Tail(done)
  /\ again' = TRUE
  /\ UNCHANGED <<askVars, outputVars, jobs, stage, job, signal, phase, changes>>

(* `Loader::collect` takes every result there is, one at a time; an image  *)
(* goes onto the GPU, a failure is remembered and reported.                *)
TakeResult ==
  /\ phase = "take" /\ done # <<>>
  /\ LET r == Head(done)
     IN /\ inflight' = [inflight EXCEPT ![r.pic] = None]
        /\ texture' = IF r.ok THEN [texture EXCEPT ![r.pic] = r.asked] ELSE texture
        /\ failed' = IF r.ok THEN failed ELSE failed \cup {r.pic}
        /\ lost' = IF r.ok THEN lost ELSE Append(lost, r.pic)
  /\ done' = Tail(done)
  /\ again' = TRUE
  /\ UNCHANGED <<askVars, outputVars, jobs, stage, job, signal, phase, changes>>

TakenAll ==
  /\ phase = "take" /\ done = <<>>
  /\ phase' = "ensure"
  /\ UNCHANGED <<askVars, outputVars, cacheVars, threadVars, again, changes>>

(* Only what an output is arriving at is asked for, large enough for every *)
(* output showing it; what it is leaving is only held.                     *)
Wanted == {want[o] : o \in states} \ {NoPic}
Needed(p) == UNION {need[o] : o \in {q \in states : want[q] = p}}
InUse == {want[o] : o \in states} \cup {leaving[o] : o \in states}

(* Mutant: one that is resident is never asked for again.                  *)
ToRequestMissing ==
  {p \in Wanted : texture[p] = None /\ p \notin failed /\ inflight[p] = None}

(* Missing, or resident but too small, and neither given up on nor being   *)
(* decoded at that size already.                                           *)
ToRequest ==
  {p \in Wanted : /\ ~Covers(texture[p], Needed(p))
                  /\ p \notin failed
                  /\ ~Covers(inflight[p], Needed(p))}

(* `TextureCache::ensure` and `Loader::request`, in no particular order.   *)
Request(p) ==
  /\ phase = "ensure" /\ p \in ToRequest
  /\ inflight' = [inflight EXCEPT ![p] = Needed(p)]
  /\ jobs' = Append(jobs, [pic |-> p, size |-> Needed(p)])
  /\ UNCHANGED <<askVars, outputVars, texture, failed, lost,
                 done, stage, job, signal, loopVars, changes>>

(* Both caches forget what no output shows any more.                       *)
Retain ==
  /\ phase = "ensure" /\ ToRequest = {}
  /\ texture' = [p \in Pics |-> IF p \in InUse THEN texture[p] ELSE None]
  /\ failed' = failed \cap InUse
  /\ phase' = "consume"
  /\ UNCHANGED <<askVars, outputVars, inflight, lost, threadVars, again, changes>>

(* `on_wallpaper_failed`: reported, forgotten wherever it was asked for,   *)
(* and every output resolved again without it.                             *)
WallpaperFailed ==
  /\ phase = "consume" /\ lost # <<>>
  /\ lost' = Tail(lost)
  /\ signals' = Forget(signals, Head(lost))
  /\ ResolveWallpapers(signals', fallback, Head(lost))
  /\ UNCHANGED <<recorded, fallback, used, states, need, texture, inflight, failed,
                 threadVars, loopVars, changes>>

Consumed ==
  /\ phase = "consume" /\ lost = <<>>
  /\ phase' = "drain"
  /\ UNCHANGED <<askVars, outputVars, cacheVars, threadVars, again, changes>>

(* Mutant: the signal is emptied once more before sleeping.                *)
DrainedClearing ==
  /\ phase = "drain"
  /\ phase' = IF again THEN "take" ELSE "poll"
  /\ signal' = FALSE
  /\ again' = FALSE
  /\ UNCHANGED <<askVars, outputVars, cacheVars, jobs, done, stage, job, changes>>

(* Round again if this pass took a result in or consumed an event.         *)
Drained ==
  /\ phase = "drain"
  /\ IF again THEN phase' = "take" /\ signal' = FALSE
              ELSE phase' = "poll" /\ UNCHANGED signal
  /\ again' = FALSE
  /\ UNCHANGED <<askVars, outputVars, cacheVars, jobs, done, stage, job, changes>>

-----------------------------------------------------------------------------
Thread == TakeJob \/ FinishJob \/ WriteByte

Settle ==
  \/ NoticedDecode \/ StartSettle \/ TakeResult \/ TakenAll
  \/ \E p \in Pics : Request(p)
  \/ Retain \/ WallpaperFailed \/ Consumed \/ Drained

World ==
  \/ \E o \in Outputs :
       AddOutput(o) \/ ResizeOutput(o) \/ OutputGone(o) \/ LandTransition(o)
  \/ \E at \in Addresses :
       SetWallpaper(at) \/ UnsetWallpaper(at) \/ RestoreWallpaper(at)
  \/ Reload

Next == Thread \/ Settle \/ World

Spec == Init /\ [][Next]_vars

(* Both threads run while they have work.  Requests, outputs and callbacks *)
(* owe nothing: an output nobody can see may never land its transition.    *)
Fairness == WF_vars(Thread) /\ WF_vars(Settle)
FairSpec == Spec /\ Fairness

-----------------------------------------------------------------------------
(***************************************************************************)
(* Safety: what must hold whenever the loop sleeps.                        *)
(***************************************************************************)

(* A finished decode is never slept on: the descriptor is readable, or the *)
(* thread is about to make it so.                                          *)
ResultNoticed == Asleep /\ done # <<>> => signal \/ stage = "queued"

(* Some job or result will still answer for p.                             *)
Underway(p) ==
  \/ \E i \in 1..Len(jobs) : jobs[i].pic = p
  \/ stage = "decoding" /\ job.pic = p
  \/ \E i \in 1..Len(done) : done[i].pic = p

(* A wallpaper held to be in flight really is, or nothing would ever ask   *)
(* for it again.                                                           *)
InflightIsUnderway == \A p \in Pics : inflight[p] # None => Underway(p)

(* Asleep, whatever an output should show is resident and large enough,    *)
(* being decoded large enough, or was given up on.                         *)
Answered(o) ==
  \/ want[o] = NoPic
  \/ Covers(texture[want[o]], need[o])
  \/ Covers(inflight[want[o]], need[o])
  \/ want[o] \in failed
WantedIsComing == Asleep => \A o \in states : Answered(o)

(* Asleep, nothing is kept, on the GPU or among the failures, for an image *)
(* no output shows: fixing a file and setting it again always tries again. *)
Held == failed \cup {p \in Pics : texture[p] # None}
HeldIsUsed == Asleep => Held \subseteq InUse

(***************************************************************************)
(* The inductive invariant behind them.                                    *)
(***************************************************************************)

(* A pass is over with nothing left for another one. *)
Done == phase \in {"consume", "drain", "poll"} /\ ~again

(* An output without a state wants nothing. *)
AbsentInv == \A o \in Outputs \ states : want[o] = NoPic /\ leaving[o] = NoPic

(* The thread has a job while it decodes. *)
JobInv == stage = "decoding" => job \in Jobs

(* Failures are consumed in the pass that found them. *)
LostInv == lost # <<>> => again /\ phase \in {"take", "ensure", "consume"}

(* A result is being taken, or the loop has been or will be told of it. *)
NoticedInv ==
  done # <<>> => \/ phase = "take" \/ signal \/ stage = "queued"
                 \/ phase = "poll" /\ again

(* A pass that is over left nothing to ask for and nothing to forget. *)
SettledInv == Done => /\ \A o \in states : Answered(o)
                      /\ Held \subseteq InUse

(* All of them, with the types: inductive. *)
DecodingInv ==
  TypeOK /\ AbsentInv /\ JobInv /\ LostInv /\ NoticedInv /\ InflightIsUnderway /\ SettledInv

(***************************************************************************)
(* What the source says of failures and of repeated work.                  *)
(***************************************************************************)

(* "put it straight back onto the slot and find the loader has already     *)
(* given up on it": no output is left wanting an image given up on.        *)
GivenUpIsNotWanted == Asleep => \A o \in states : want[o] \notin failed

(* "reported once for the image": never while it is already known to fail. *)
ReportedOnce == [][\A p \in failed : lost' # Append(lost, p)]_vars

(* "unless the same work is already running": no job is there twice.       *)
DecodedOnce ==
  \A i \in 1..Len(jobs) :
    /\ job # jobs[i]
    /\ \A k \in 1..Len(jobs) : k # i => jobs[k] # jobs[i]

(* "the old copy keeps drawing": an image that is resident and wanted is   *)
(* not taken off an output because a larger decode of it failed.           *)
ShownUntilReplaced == [][WallpaperFailed => texture[Head(lost)] = None]_vars

(***************************************************************************)
(* Liveness.                                                               *)
(***************************************************************************)

(* Every output ends up with its wallpaper resident and large enough, or   *)
(* with one that was given up on.                                          *)
EveryOutputAnswered ==
  \A o \in Outputs :
    <>[](want[o] \in failed \cup {NoPic} \/ Covers(texture[want[o]], need[o]))

(* No image is decoded for ever: once nothing changes, both threads rest.  *)
DecodesRunDry == <>[](Asleep /\ stage = "idle" /\ jobs = <<>>)
=============================================================================
