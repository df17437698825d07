---------------------------- MODULE DecodingProofs ----------------------------
(***************************************************************************)
(* Proofs about Decoding, for any outputs, wallpapers, sizes and any       *)
(* number of changes.                                                      *)
(***************************************************************************)
EXTENDS Decoding, TLAPS

USE DEF askVars, outputVars, cacheVars, threadVars, loopVars

-----------------------------------------------------------------------------
(* What a queue holds has the type of its elements. *)
LEMMA ElementType ==
  ASSUME NEW S, NEW s \in Seq(S)
  PROVE \A i \in 1..Len(s) : s[i] \in S
OBVIOUS

(* What is left of a queue, and what was first in it. *)
LEMMA TailFacts ==
  ASSUME NEW S, NEW s \in Seq(S), s # <<>>
  PROVE /\ Tail(s) \in Seq(S) /\ Head(s) \in S
        /\ 1 \in 1..Len(s) /\ Head(s) = s[1]
        /\ Len(Tail(s)) = Len(s) - 1
        /\ \A i \in 1..Len(Tail(s)) : i + 1 \in 1..Len(s) /\ Tail(s)[i] = s[i + 1]
OBVIOUS

(* A queue with one more at its end. *)
LEMMA AppendFacts ==
  ASSUME NEW S, NEW s \in Seq(S), NEW e \in S
  PROVE /\ Append(s, e) \in Seq(S)
        /\ Append(s, e) # <<>>
        /\ \A i \in 1..Len(s) : i \in 1..Len(Append(s, e)) /\ Append(s, e)[i] = s[i]
        /\ \E i \in 1..Len(Append(s, e)) : Append(s, e)[i] = e
<1>1. Len(Append(s, e)) = Len(s) + 1 /\ Append(s, e)[Len(s) + 1] = e
  OBVIOUS
<1>2. Len(s) + 1 \in 1..Len(Append(s, e))
  BY <1>1
<1>3. \E i \in 1..Len(Append(s, e)) : Append(s, e)[i] = e
  BY <1>1, <1>2
<1>. QED BY <1>1, <1>3

(* The slots keep their types, whatever is put into or taken out of them.  *)
LEMMA SlotsTypes ==
  ASSUME NEW slots \in SlotsOf(Slot), NEW other \in SlotsOf(Slot),
         NEW at \in Addresses, NEW pic \in Slot
  PROVE /\ Put(slots, at, pic) \in SlotsOf(Slot)
        /\ Forget(slots, pic) \in SlotsOf(Slot)
        /\ Restored(slots, other, at) \in SlotsOf(Slot)
<1>1. NoPic \in Slot
  BY DEF Slot
<1>2. Put(slots, at, pic) \in SlotsOf(Slot)
  <2>1. CASE at = All
    BY <1>1, <2>1 DEF Put, SlotsOf
  <2>2. CASE at # All
    <3>1. at \in Outputs
      BY <2>2 DEF Addresses
    <3>2. Put(slots, at, pic) = [all |-> slots.all, own |-> [slots.own EXCEPT ![at] = pic]]
      BY <2>2 DEF Put, SlotsOf
    <3>. QED BY <3>1, <3>2 DEF SlotsOf
  <2>. QED BY <2>1, <2>2
<1>3. Forget(slots, pic) \in SlotsOf(Slot)
  BY <1>1 DEF Forget, SlotsOf
<1>4. Restored(slots, other, at) \in SlotsOf(Slot)
  <2>1. CASE at = All
    BY <2>1 DEF Restored
  <2>2. CASE at # All
    <3>1. at \in Outputs
      BY <2>2 DEF Addresses
    <3>2. Restored(slots, other, at) =
            [all |-> slots.all, own |-> [slots.own EXCEPT ![at] = other.own[at]]]
      BY <2>2 DEF Restored, SlotsOf
    <3>. QED BY <3>1, <3>2 DEF SlotsOf
  <2>. QED BY <2>1, <2>2
<1>. QED BY <1>2, <1>3, <1>4

(* What an output is answered is a wallpaper or none. *)
LEMMA WallpaperForType ==
  ASSUME NEW slots \in SlotsOf(Slot), NEW o \in Outputs, NEW pic \in Slot
  PROVE WallpaperFor(slots, o, pic) \in Slot
BY DEF WallpaperFor, Holds, SlotsOf

(* Resolving keeps the types, and touches only outputs that are there.     *)
LEMMA ResolveFacts ==
  ASSUME TypeOK, NEW slots \in SlotsOf(Slot),
         NEW configured \in [Outputs -> Fallbacks \cup {NoPic}],
         NEW pic \in Slot,
         ResolveWallpapers(slots, configured, pic)
  PROVE /\ want' \in [Outputs -> Slot] /\ leaving' \in [Outputs -> Slot]
        /\ \A o \in Outputs \ states : want'[o] = want[o] /\ leaving'[o] = leaving[o]
<1> DEFINE Answer(o) == LET p == WallpaperFor(slots, o, configured[o])
                        IN IF p = pic THEN NoPic ELSE p
           moved == {o \in states : Answer(o) # want[o]}
<1>1. \A o \in Outputs : configured[o] \in Slot
  BY DecodingAssumption DEF Slot
<1>2. \A o \in Outputs : Answer(o) \in Slot
  BY <1>1, WallpaperForType DEF Slot
<1>3. /\ want' = [o \in Outputs |-> IF o \in moved THEN Answer(o) ELSE want[o]]
      /\ leaving' \in [Outputs -> Slot]
      /\ \A o \in Outputs :
           leaving'[o] \in IF o \in moved THEN Kept(o, Answer(o)) ELSE {leaving[o]}
  BY DEF ResolveWallpapers
<1>4. want \in [Outputs -> Slot] /\ moved \subseteq states
  BY DEF TypeOK
<1> HIDE DEF Answer, moved
<1>. QED BY <1>2, <1>3, <1>4

(* The size asked for is one of the sizes. *)
LEMMA NeededType ==
  ASSUME TypeOK, NEW p
  PROVE Needed(p) \in Sizes
<1>1. {need[o] : o \in {q \in states : want[q] = p}} \in SUBSET Sizes
  BY DEF TypeOK
<1>. QED BY <1>1, DecodingAssumption DEF Needed

(* A new pass has no more to count than the bound allows. *)
LEMMA ChangeType ==
  ASSUME TypeOK, Change
  PROVE changes' \in 0..MaxChanges /\ again' = TRUE
BY DecodingAssumption DEF TypeOK, Change

-----------------------------------------------------------------------------
(* The initial states have their types. *)
LEMMA InitType ==
  ASSUME Init
  PROVE TypeOK
<1>1. lost \in Seq(Pics) /\ jobs \in Seq(Jobs) /\ done \in Seq(Results)
  <2>1. lost = <<>> /\ jobs = <<>> /\ done = <<>>
    BY DEF Init
  <2>. QED BY <2>1
<1>2. recorded \in SlotsOf(Slot) /\ signals \in SlotsOf(Slot)
  BY DEF Init, SlotsOf
<1>3. used \in SUBSET Pics
  <2>1. RecordedPics \subseteq Pics
    BY <1>2 DEF RecordedPics, SlotsOf, Slot
  <2>. QED BY <2>1, DecodingAssumption DEF Init
<1>4. need \in [Outputs -> Sizes]
  <2>1. {} \in Sizes
    <3>1. UNION {} = {}
      OBVIOUS
    <3>. QED BY <3>1, DecodingAssumption
  <2>. QED BY <2>1 DEF Init
<1>5. want \in [Outputs -> Slot] /\ leaving \in [Outputs -> Slot]
  BY DEF Init, Slot
<1>6. /\ texture \in [Pics -> Sizes \cup {None}] /\ inflight \in [Pics -> Sizes \cup {None}]
      /\ failed \in SUBSET Pics /\ states \in SUBSET Outputs
      /\ stage \in {"idle", "decoding", "queued"} /\ job \in Jobs \cup {None}
      /\ phase \in {"poll", "take", "ensure", "consume", "drain"}
      /\ signal \in BOOLEAN /\ again \in BOOLEAN
  BY DEF Init
<1>7. fallback \in [Outputs -> Fallbacks \cup {NoPic}]
  BY DEF Init
<1>8. changes \in 0..MaxChanges
  BY DecodingAssumption DEF Init
<1>. QED BY <1>1, <1>2, <1>3, <1>4, <1>5, <1>6, <1>7, <1>8 DEF TypeOK

(* The steps of the decode thread keep the types. *)
LEMMA ThreadType ==
  ASSUME TypeOK, JobInv, Thread
  PROVE TypeOK'
<1>1. jobs \in Seq(Jobs) /\ done \in Seq(Results)
  BY DEF TypeOK
<1>2. CASE TakeJob
  <2>1. jobs' \in Seq(Jobs) /\ job' \in Jobs
    BY <1>1, <1>2, TailFacts DEF TakeJob
  <2>. QED BY <1>2, <2>1 DEF TakeJob, TypeOK
<1>3. CASE FinishJob
  <2>1. PICK ok \in BOOLEAN, asked \in Sizes :
          done' = Append(done, [pic |-> job.pic, asked |-> asked, ok |-> ok])
    BY <1>3 DEF FinishJob
  <2>2. job.pic \in Pics
    BY <1>3 DEF FinishJob, JobInv, Jobs
  <2>3. [pic |-> job.pic, asked |-> asked, ok |-> ok] \in Results
    BY <2>2 DEF Results
  <2>4. done' \in Seq(Results)
    BY <1>1, <2>1, <2>3, AppendFacts
  <2>. QED BY <1>3, <2>4 DEF FinishJob, TypeOK
<1>4. CASE WriteByte
  BY <1>4 DEF WriteByte, TypeOK
<1>. QED BY <1>2, <1>3, <1>4 DEF Thread

(* The steps of a pass keep the types. *)
LEMMA SettleType ==
  ASSUME TypeOK, Settle
  PROVE TypeOK'
<1>1. jobs \in Seq(Jobs) /\ done \in Seq(Results) /\ lost \in Seq(Pics)
  BY DEF TypeOK
<1>2. CASE NoticedDecode \/ StartSettle
  BY <1>2 DEF NoticedDecode, StartSettle, TypeOK
<1>3. CASE TakeResult
  <2> DEFINE r == Head(done)
  <2>1. done' \in Seq(Results) /\ r \in Results
    BY <1>1, <1>3, TailFacts DEF TakeResult
  <2>2. r.pic \in Pics /\ r.asked \in Sizes
    BY <2>1 DEF Results
  <2> HIDE DEF r
  <2>3. /\ inflight' = [inflight EXCEPT ![r.pic] = None]
        /\ texture' = IF r.ok THEN [texture EXCEPT ![r.pic] = r.asked] ELSE texture
        /\ failed' = IF r.ok THEN failed ELSE failed \cup {r.pic}
        /\ lost' = IF r.ok THEN lost ELSE Append(lost, r.pic)
    BY <1>3 DEF TakeResult, r
  <2>4. lost' \in Seq(Pics)
    BY <1>1, <2>2, <2>3, AppendFacts
  <2>5. /\ inflight' \in [Pics -> Sizes \cup {None}]
        /\ texture' \in [Pics -> Sizes \cup {None}]
        /\ failed' \in SUBSET Pics
    BY <2>2, <2>3 DEF TypeOK
  <2>. QED BY <1>3, <2>1, <2>4, <2>5 DEF TakeResult, TypeOK
<1>4. CASE TakenAll \/ Consumed
  BY <1>4 DEF TakenAll, Consumed, TypeOK
<1>5. ASSUME NEW p \in Pics, Request(p)
      PROVE TypeOK'
  <2>1. Needed(p) \in Sizes
    BY NeededType
  <2>2. [pic |-> p, size |-> Needed(p)] \in Jobs
    BY <2>1 DEF Jobs
  <2>3. jobs' \in Seq(Jobs)
    BY <1>1, <1>5, <2>2, AppendFacts DEF Request
  <2>4. inflight' \in [Pics -> Sizes \cup {None}]
    BY <1>5, <2>1 DEF Request, TypeOK
  <2>. QED BY <1>5, <2>3, <2>4 DEF Request, TypeOK
<1>6. CASE Retain
  <2>1. texture' \in [Pics -> Sizes \cup {None}] /\ failed' \in SUBSET Pics
    BY <1>6 DEF Retain, TypeOK
  <2>. QED BY <1>6, <2>1 DEF Retain, TypeOK
<1>7. CASE WallpaperFailed
  <2>1. lost' \in Seq(Pics) /\ Head(lost) \in Slot
    BY <1>1, <1>7, TailFacts DEF WallpaperFailed, Slot
  <2>2. signals \in SlotsOf(Slot) /\ fallback \in [Outputs -> Fallbacks \cup {NoPic}]
    BY DEF TypeOK
  <2>3. signals' = Forget(signals, Head(lost)) /\ ResolveWallpapers(signals', fallback, Head(lost))
    BY <1>7 DEF WallpaperFailed
  <2>4. Forget(signals, Head(lost)) \in SlotsOf(Slot)
    BY <2>1, <2>2, SlotsTypes DEF Addresses
  <2>5. want' \in [Outputs -> Slot] /\ leaving' \in [Outputs -> Slot]
    BY <2>1, <2>2, <2>3, <2>4, ResolveFacts
  <2>. QED BY <1>7, <2>1, <2>3, <2>4, <2>5 DEF WallpaperFailed, TypeOK
<1>8. CASE Drained
  BY <1>8 DEF Drained, TypeOK
<1>. QED BY <1>2, <1>3, <1>4, <1>5, <1>6, <1>7, <1>8 DEF Settle

(* What the outside world does keeps the types. *)
LEMMA WorldType ==
  ASSUME TypeOK, World
  PROVE TypeOK'
<1>1. /\ signals \in SlotsOf(Slot) /\ recorded \in SlotsOf(Slot)
      /\ fallback \in [Outputs -> Fallbacks \cup {NoPic}]
      /\ NoPic \in Slot
  BY DEF TypeOK, Slot
<1>2. \A o \in Outputs : fallback[o] \in Slot
  BY <1>1, DecodingAssumption DEF Slot
<1>3. ASSUME NEW o \in Outputs, AddOutput(o)
      PROVE TypeOK'
  <2>1. WallpaperFor(signals, o, fallback[o]) \in Slot
    BY <1>1, <1>2, WallpaperForType
  <2>2. Change
    BY <1>3 DEF AddOutput
  <2>. QED BY <1>3, <2>1, <2>2, ChangeType DEF AddOutput, TypeOK
<1>4. ASSUME NEW o \in Outputs, ResizeOutput(o)
      PROVE TypeOK'
  <2>1. Change
    BY <1>4 DEF ResizeOutput
  <2>. QED BY <1>4, <2>1, ChangeType DEF ResizeOutput, TypeOK
<1>5. ASSUME NEW o \in Outputs, OutputGone(o)
      PROVE TypeOK'
  <2>1. Change
    BY <1>5 DEF OutputGone
  <2>2. {} \in Sizes
    <3>1. UNION {} = {}
      OBVIOUS
    <3>. QED BY <3>1, DecodingAssumption
  <2>. QED BY <1>1, <1>5, <2>1, <2>2, ChangeType DEF OutputGone, TypeOK
<1>6. ASSUME NEW o \in Outputs, LandTransition(o)
      PROVE TypeOK'
  BY <1>1, <1>6 DEF LandTransition, TypeOK
<1>7. ASSUME NEW at \in Addresses, SetWallpaper(at)
      PROVE TypeOK'
  <2>1. Change
    BY <1>7 DEF SetWallpaper
  <2>2. PICK p \in Pics \ used :
          /\ used' = used \cup {p}
          /\ signals' = Put(signals, at, p)
          /\ recorded' \in {recorded, Put(recorded, at, p)}
    BY <1>7 DEF SetWallpaper
  <2>3. signals' \in SlotsOf(Slot) /\ recorded' \in SlotsOf(Slot)
    BY <1>1, <2>2, SlotsTypes DEF Slot
  <2>4. want' \in [Outputs -> Slot] /\ leaving' \in [Outputs -> Slot]
    BY <1>1, <1>7, <2>3, ResolveFacts DEF SetWallpaper
  <2>. QED BY <1>7, <2>1, <2>2, <2>3, <2>4, ChangeType DEF SetWallpaper, TypeOK
<1>8. ASSUME NEW at \in Addresses, UnsetWallpaper(at)
      PROVE TypeOK'
  <2>1. Change
    BY <1>8 DEF UnsetWallpaper
  <2>2. signals' \in SlotsOf(Slot) /\ recorded' \in SlotsOf(Slot)
    BY <1>1, <1>8, SlotsTypes DEF UnsetWallpaper
  <2>3. want' \in [Outputs -> Slot] /\ leaving' \in [Outputs -> Slot]
    BY <1>1, <1>8, <2>2, ResolveFacts DEF UnsetWallpaper
  <2>. QED BY <1>8, <2>1, <2>2, <2>3, ChangeType DEF UnsetWallpaper, TypeOK
<1>9. ASSUME NEW at \in Addresses, RestoreWallpaper(at)
      PROVE TypeOK'
  <2>1. Change
    BY <1>9 DEF RestoreWallpaper
  <2>2. signals' \in SlotsOf(Slot)
    BY <1>1, <1>9, SlotsTypes DEF RestoreWallpaper
  <2>3. want' \in [Outputs -> Slot] /\ leaving' \in [Outputs -> Slot]
    BY <1>1, <1>9, <2>2, ResolveFacts DEF RestoreWallpaper
  <2>. QED BY <1>9, <2>1, <2>2, <2>3, ChangeType DEF RestoreWallpaper, TypeOK
<1>10. CASE Reload
  <2>1. Change
    BY <1>10 DEF Reload
  <2>2. /\ fallback' \in [Outputs -> Fallbacks \cup {NoPic}]
        /\ need' \in [Outputs -> Sizes]
    BY <1>10 DEF Reload
  <2>3. want' \in [Outputs -> Slot] /\ leaving' \in [Outputs -> Slot]
    BY <1>1, <1>10, <2>2, ResolveFacts DEF Reload
  <2>. QED BY <1>10, <2>1, <2>2, <2>3, ChangeType DEF Reload, TypeOK
<1>. QED BY <1>3, <1>4, <1>5, <1>6, <1>7, <1>8, <1>9, <1>10 DEF World

(* Every step keeps the types. *)
LEMMA TypeStep ==
  ASSUME TypeOK, JobInv, [Next]_vars
  PROVE TypeOK'
<1>1. CASE UNCHANGED vars
  BY <1>1 DEF vars, TypeOK
<1>. QED BY <1>1, ThreadType, SettleType, WorldType DEF Next

-----------------------------------------------------------------------------
(* Every change of the world has the loop go round once more, between two  *)
(* settles, and is none of the renderer's or the thread's business.        *)
LEMMA WorldFrame ==
  ASSUME World
  PROVE /\ phase \in {"poll", "drain"} /\ phase' = phase /\ again' = TRUE
        /\ UNCHANGED <<cacheVars, threadVars>>
<1>1. ASSUME NEW o \in Outputs,
             AddOutput(o) \/ ResizeOutput(o) \/ OutputGone(o) \/ LandTransition(o)
      PROVE /\ phase \in {"poll", "drain"} /\ phase' = phase /\ again' = TRUE
            /\ UNCHANGED <<cacheVars, threadVars>>
  BY <1>1 DEF AddOutput, ResizeOutput, OutputGone, LandTransition, Serving, Change
<1>2. ASSUME NEW at \in Addresses,
             SetWallpaper(at) \/ UnsetWallpaper(at) \/ RestoreWallpaper(at)
      PROVE /\ phase \in {"poll", "drain"} /\ phase' = phase /\ again' = TRUE
            /\ UNCHANGED <<cacheVars, threadVars>>
  BY <1>2 DEF SetWallpaper, UnsetWallpaper, RestoreWallpaper, Change
<1>3. CASE Reload
  BY <1>3 DEF Reload, Change
<1>. QED BY <1>1, <1>2, <1>3 DEF World

(* Resolving an output that is not there does nothing to it. *)
LEMMA AbsentStep ==
  ASSUME TypeOK, AbsentInv, [Next]_vars
  PROVE AbsentInv'
<1>1. /\ signals \in SlotsOf(Slot) /\ recorded \in SlotsOf(Slot)
      /\ fallback \in [Outputs -> Fallbacks \cup {NoPic}]
      /\ NoPic \in Slot /\ states \subseteq Outputs
      /\ want \in [Outputs -> Slot] /\ leaving \in [Outputs -> Slot]
  BY DEF TypeOK, Slot
<1>2. CASE UNCHANGED outputVars
  BY <1>2 DEF AbsentInv
<1>3. CASE /\ states' = states
           /\ \A o \in Outputs \ states : want'[o] = want[o] /\ leaving'[o] = leaving[o]
  BY <1>3 DEF AbsentInv
<1>4. ASSUME NEW o \in Outputs,
             AddOutput(o) \/ ResizeOutput(o) \/ OutputGone(o) \/ LandTransition(o)
      PROVE AbsentInv'
  BY <1>1, <1>4 DEF AddOutput, ResizeOutput, OutputGone, LandTransition, AbsentInv
<1>5. ASSUME NEW at \in Addresses, SetWallpaper(at)
      PROVE AbsentInv'
  <2>1. signals' \in SlotsOf(Slot)
    <3>1. PICK p \in Pics : signals' = Put(signals, at, p)
      BY <1>5 DEF SetWallpaper
    <3>. QED BY <1>1, <3>1, SlotsTypes DEF Slot
  <2>2. states' = states /\ ResolveWallpapers(signals', fallback, NoPic)
    BY <1>5 DEF SetWallpaper
  <2>. QED BY <1>1, <1>3, <2>1, <2>2, ResolveFacts
<1>6. ASSUME NEW at \in Addresses, UnsetWallpaper(at)
      PROVE AbsentInv'
  <2>1. signals' \in SlotsOf(Slot)
    BY <1>1, <1>6, SlotsTypes DEF UnsetWallpaper
  <2>2. states' = states /\ ResolveWallpapers(signals', fallback, NoPic)
    BY <1>6 DEF UnsetWallpaper
  <2>. QED BY <1>1, <1>3, <2>1, <2>2, ResolveFacts
<1>7. ASSUME NEW at \in Addresses, RestoreWallpaper(at)
      PROVE AbsentInv'
  <2>1. signals' \in SlotsOf(Slot)
    BY <1>1, <1>7, SlotsTypes DEF RestoreWallpaper
  <2>2. states' = states /\ ResolveWallpapers(signals', fallback, NoPic)
    BY <1>7 DEF RestoreWallpaper
  <2>. QED BY <1>1, <1>3, <2>1, <2>2, ResolveFacts
<1>8. CASE Reload
  <2>1. fallback' \in [Outputs -> Fallbacks \cup {NoPic}]
    BY <1>8 DEF Reload
  <2>2. states' = states /\ ResolveWallpapers(signals, fallback', NoPic)
    BY <1>8 DEF Reload
  <2>. QED BY <1>1, <1>3, <2>1, <2>2, ResolveFacts
<1>9. CASE WallpaperFailed
  <2>1. lost \in Seq(Pics) /\ lost # <<>>
    BY <1>9 DEF WallpaperFailed, TypeOK
  <2>2. Head(lost) \in Slot
    BY <2>1, TailFacts DEF Slot
  <2>3. signals' = Forget(signals, Head(lost)) /\ All \in Addresses
    BY <1>9 DEF WallpaperFailed, Addresses
  <2>4. signals' \in SlotsOf(Slot)
    BY <1>1, <2>2, <2>3, SlotsTypes
  <2>5. states' = states /\ ResolveWallpapers(signals', fallback, Head(lost))
    BY <1>9 DEF WallpaperFailed
  <2>. QED BY <1>1, <1>3, <2>2, <2>4, <2>5, ResolveFacts
<1>. QED
  BY <1>2, <1>4, <1>5, <1>6, <1>7, <1>8, <1>9
     DEF Next, Thread, Settle, World, TakeJob, FinishJob, WriteByte, NoticedDecode,
         StartSettle, TakeResult, TakenAll, Request, Retain, Consumed, Drained, vars

(* The thread has a job while it decodes. *)
LEMMA JobStep ==
  ASSUME TypeOK, JobInv, [Next]_vars
  PROVE JobInv'
<1>1. CASE Thread
  <2>1. CASE TakeJob
    <3>1. jobs \in Seq(Jobs)
      BY DEF TypeOK
    <3>. QED BY <2>1, <3>1, TailFacts DEF TakeJob, JobInv
  <2>. QED BY <1>1, <2>1 DEF Thread, FinishJob, WriteByte, JobInv
<1>2. CASE Settle
  BY <1>2 DEF Settle, NoticedDecode, StartSettle, TakeResult, TakenAll, Request,
              Retain, WallpaperFailed, Consumed, Drained, JobInv
<1>3. CASE World
  BY <1>3, WorldFrame DEF JobInv
<1>4. CASE UNCHANGED vars
  BY <1>4 DEF vars, JobInv
<1>. QED BY <1>1, <1>2, <1>3, <1>4 DEF Next

(* Failures are consumed in the pass that found them, which is not the     *)
(* last one.                                                               *)
LEMMA LostStep ==
  ASSUME TypeOK, LostInv, [Next]_vars
  PROVE LostInv'
<1>1. CASE Thread
  BY <1>1 DEF Thread, TakeJob, FinishJob, WriteByte, LostInv
<1>2. CASE NoticedDecode \/ StartSettle
  BY <1>2 DEF NoticedDecode, StartSettle, LostInv
<1>3. CASE TakeResult
  BY <1>3 DEF TakeResult, LostInv
<1>4. CASE TakenAll \/ Retain \/ Consumed \/ Drained
  BY <1>4 DEF TakenAll, Retain, Consumed, Drained, LostInv
<1>5. ASSUME NEW p \in Pics, Request(p)
      PROVE LostInv'
  BY <1>5 DEF Request, LostInv
<1>6. CASE WallpaperFailed
  BY <1>6 DEF WallpaperFailed, LostInv
<1>7. CASE World
  BY <1>7, WorldFrame DEF LostInv
<1>8. CASE UNCHANGED vars
  BY <1>8 DEF vars, LostInv
<1>. QED BY <1>1, <1>2, <1>3, <1>4, <1>5, <1>6, <1>7, <1>8 DEF Next, Settle

(* The descriptor is written after the result is queued and emptied before *)
(* results are taken, so that none is overlooked.                          *)
LEMMA NoticedStep ==
  ASSUME TypeOK, NoticedInv, [Next]_vars
  PROVE NoticedInv'
<1>1. CASE Thread
  BY <1>1 DEF Thread, TakeJob, FinishJob, WriteByte, NoticedInv
<1>2. CASE NoticedDecode \/ StartSettle
  BY <1>2 DEF NoticedDecode, StartSettle, NoticedInv
<1>3. CASE TakeResult \/ TakenAll
  BY <1>3 DEF TakeResult, TakenAll, NoticedInv
<1>4. CASE Retain \/ Consumed \/ Drained
  BY <1>4 DEF Retain, Consumed, Drained, NoticedInv
<1>5. ASSUME NEW p \in Pics, Request(p)
      PROVE NoticedInv'
  BY <1>5 DEF Request, NoticedInv
<1>6. CASE WallpaperFailed
  BY <1>6 DEF WallpaperFailed, NoticedInv
<1>7. CASE World
  BY <1>7, WorldFrame DEF NoticedInv
<1>8. CASE UNCHANGED vars
  BY <1>8 DEF vars, NoticedInv
<1>. QED BY <1>1, <1>2, <1>3, <1>4, <1>5, <1>6, <1>7, <1>8 DEF Next, Settle

-----------------------------------------------------------------------------
(* Work that will answer for a wallpaper goes on until it has answered. *)
LEMMA UnderwayStep ==
  ASSUME TypeOK, [Next]_vars, NEW p \in Pics, Underway(p)
  PROVE Underway(p)' \/ (TakeResult /\ p = Head(done).pic)
<1>1. jobs \in Seq(Jobs) /\ done \in Seq(Results)
  BY DEF TypeOK
<1>2. CASE UNCHANGED <<jobs, stage, job, done>>
  BY <1>2 DEF Underway
<1>3. CASE TakeJob
  <2>1. /\ jobs # <<>> /\ jobs' = Tail(jobs) /\ job' = Head(jobs)
        /\ stage = "idle" /\ stage' = "decoding" /\ done' = done
    BY <1>3 DEF TakeJob
  <2>2. CASE \E i \in 1..Len(done) : done[i].pic = p
    BY <2>1, <2>2 DEF Underway
  <2>3. ASSUME NEW i \in 1..Len(jobs), jobs[i].pic = p
        PROVE Underway(p)'
    <3>1. CASE i = 1
      <4>1. job'.pic = p
        BY <1>1, <2>1, <2>3, <3>1, TailFacts
      <4>. QED BY <2>1, <4>1 DEF Underway
    <3>2. CASE i # 1
      <4>1. i - 1 \in 1..Len(jobs') /\ jobs'[i - 1] = jobs[i]
        BY <1>1, <2>1, <2>3, <3>2
      <4>. QED BY <2>3, <4>1 DEF Underway
    <3>. QED BY <3>1, <3>2
  <2>. QED BY <2>1, <2>2, <2>3 DEF Underway
<1>4. CASE FinishJob
  <2>1. PICK ok \in BOOLEAN, asked \in Sizes :
          done' = Append(done, [pic |-> job.pic, asked |-> asked, ok |-> ok])
    BY <1>4 DEF FinishJob
  <2> DEFINE r == [pic |-> job.pic, asked |-> asked, ok |-> ok]
  <2>2. r.pic = job.pic /\ jobs' = jobs /\ done' = Append(done, r)
    BY <1>4, <2>1 DEF FinishJob
  <2> HIDE DEF r
  <2>3. /\ Len(done') = Len(done) + 1 /\ done'[Len(done) + 1] = r
        /\ \A i \in 1..Len(done) : done'[i] = done[i]
    BY <1>1, <2>2
  <2>4. \A i \in 1..Len(done) : i \in 1..Len(done')
    BY <1>1, <2>3
  <2>5. Len(done) + 1 \in 1..Len(done')
    BY <1>1, <2>3
  <2>. QED BY <2>2, <2>3, <2>4, <2>5 DEF Underway
<1>5. CASE WriteByte
  BY <1>5 DEF WriteByte, Underway
<1>6. CASE TakeResult
  <2>1. /\ done # <<>> /\ done' = Tail(done)
        /\ UNCHANGED <<jobs, stage, job>>
    BY <1>6 DEF TakeResult
  <2>2. ASSUME NEW i \in 1..Len(done), done[i].pic = p, i # 1
        PROVE Underway(p)'
    <3>1. i - 1 \in 1..Len(done') /\ done'[i - 1] = done[i]
      BY <1>1, <2>1, <2>2
    <3>. QED BY <2>2, <3>1 DEF Underway
  <2>3. Head(done) = done[1]
    BY <1>1, <2>1, TailFacts
  <2>. QED BY <1>6, <2>1, <2>2, <2>3 DEF Underway
<1>7. ASSUME NEW q \in Pics, Request(q)
      PROVE Underway(p)'
  <2>1. /\ jobs' = Append(jobs, [pic |-> q, size |-> Needed(q)])
        /\ UNCHANGED <<stage, job, done>>
    BY <1>7 DEF Request
  <2>2. [pic |-> q, size |-> Needed(q)] \in Jobs
    BY NeededType DEF Jobs
  <2>3. \A i \in 1..Len(jobs) : i \in 1..Len(jobs') /\ jobs'[i] = jobs[i]
    BY <1>1, <2>1, <2>2, AppendFacts
  <2>. QED BY <2>1, <2>3 DEF Underway
<1>8. CASE World
  BY <1>2, <1>8, WorldFrame
<1>. QED
  BY <1>2, <1>3, <1>4, <1>5, <1>6, <1>7, <1>8
     DEF Next, Thread, Settle, NoticedDecode, StartSettle, TakenAll, Retain,
         WallpaperFailed, Consumed, Drained, vars

(* A request is held to be in flight from when its job is queued until a   *)
(* result for the wallpaper is taken.                                      *)
LEMMA InflightStep ==
  ASSUME TypeOK, InflightIsUnderway, [Next]_vars
  PROVE InflightIsUnderway'
<1> SUFFICES ASSUME NEW p \in Pics, inflight'[p] # None
             PROVE Underway(p)'
  BY DEF InflightIsUnderway
<1>1. /\ jobs \in Seq(Jobs) /\ done \in Seq(Results)
      /\ inflight \in [Pics -> Sizes \cup {None}]
  BY DEF TypeOK
<1>2. CASE TakeResult
  <2>1. done # <<>> /\ inflight' = [inflight EXCEPT ![Head(done).pic] = None]
    BY <1>2 DEF TakeResult
  <2>2. p # Head(done).pic /\ inflight[p] # None
    BY <1>1, <2>1
  <2>. QED BY <2>2, UnderwayStep DEF InflightIsUnderway
<1>3. ASSUME NEW q \in Pics, Request(q)
      PROVE Underway(p)'
  <2>1. CASE p = q
    <3> DEFINE j == [pic |-> q, size |-> Needed(q)]
    <3>1. j \in Jobs /\ j.pic = q
      BY NeededType DEF Jobs
    <3>2. jobs' = Append(jobs, j)
      BY <1>3 DEF Request
    <3> HIDE DEF j
    <3>3. \E i \in 1..Len(jobs') : jobs'[i] = j
      BY <1>1, <3>1, <3>2, AppendFacts
    <3>. QED BY <2>1, <3>1, <3>3 DEF Underway
  <2>2. CASE p # q
    <3>1. inflight[p] # None /\ ~TakeResult
      BY <1>1, <1>3, <2>2 DEF Request, TakeResult
    <3>. QED BY <3>1, UnderwayStep DEF InflightIsUnderway
  <2>. QED BY <2>1, <2>2
<1>4. CASE inflight' = inflight /\ ~TakeResult
  BY <1>4, UnderwayStep DEF InflightIsUnderway
<1>5. CASE World
  BY <1>2, <1>4, <1>5, WorldFrame
<1>. QED
  BY <1>2, <1>3, <1>4, <1>5
     DEF Next, Thread, Settle, TakeJob, FinishJob, WriteByte, NoticedDecode, StartSettle,
         TakenAll, Retain, WallpaperFailed, Consumed, Drained, vars

-----------------------------------------------------------------------------
(* When nothing is left to ask for, every output is answered, and it still *)
(* is once the caches have forgotten what no output shows.                 *)
LEMMA RetainSettles ==
  ASSUME TypeOK, Retain
  PROVE (\A o \in states : Answered(o))' /\ (Held \subseteq InUse)'
<1>1. /\ ToRequest = {}
      /\ texture' = [p \in Pics |-> IF p \in InUse THEN texture[p] ELSE None]
      /\ failed' = failed \cap InUse
      /\ UNCHANGED <<states, want, leaving, need, inflight>>
  BY DEF Retain
<1>2. InUse' = InUse
  BY <1>1 DEF InUse
<1>3. want \in [Outputs -> Slot] /\ need \in [Outputs -> Sizes] /\ states \subseteq Outputs
  BY DEF TypeOK
<1>4. ASSUME NEW o \in states
      PROVE Answered(o)'
  <2>1. CASE want[o] = NoPic
    BY <1>1, <2>1 DEF Answered
  <2>2. CASE want[o] # NoPic
    <3> DEFINE p == want[o]
    <3>1. p \in Wanted /\ p \in InUse /\ p \in Pics
      BY <1>3, <2>2 DEF Wanted, InUse, Slot
    <3>2. need[o] \subseteq Needed(p)
      BY DEF Needed
    <3>3. Covers(texture[p], Needed(p)) \/ p \in failed \/ Covers(inflight[p], Needed(p))
      BY <1>1, <3>1 DEF ToRequest
    <3>4. texture'[p] = texture[p] /\ (p \in failed => p \in failed')
      BY <1>1, <3>1
    <3>5. Covers(texture[p], need[o]) \/ p \in failed \/ Covers(inflight[p], need[o])
      BY <3>2, <3>3 DEF Covers
    <3>. QED BY <1>1, <3>4, <3>5 DEF Answered, Covers
  <2>. QED BY <2>1, <2>2
<1>5. Held' \subseteq InUse'
  BY <1>1, <1>2 DEF Held
<1>. QED BY <1>1, <1>4, <1>5

(* A pass that ends without another to follow leaves every output answered *)
(* and nothing held that no output shows.                                  *)
LEMMA SettledStep ==
  ASSUME TypeOK, LostInv, SettledInv, [Next]_vars
  PROVE SettledInv'
<1>1. CASE Done /\ UNCHANGED <<states, want, leaving, need, texture, inflight, failed>>
  <2>1. (\A o \in states : Answered(o))' /\ (Held \subseteq InUse)'
    BY <1>1 DEF SettledInv, Answered, Covers, Held, InUse
  <2>. QED BY <2>1 DEF SettledInv
<1>2. CASE ~Done'
  BY <1>2 DEF SettledInv
<1>3. CASE Retain
  BY <1>3, RetainSettles DEF SettledInv
<1>4. CASE Thread
  <2>1. UNCHANGED <<states, want, leaving, need, texture, inflight, failed, phase, again>>
    BY <1>4 DEF Thread, TakeJob, FinishJob, WriteByte
  <2>. QED BY <1>1, <1>2, <2>1 DEF Done
<1>5. CASE NoticedDecode \/ StartSettle \/ TakeResult \/ TakenAll
  BY <1>2, <1>5 DEF NoticedDecode, StartSettle, TakeResult, TakenAll, Done
<1>6. ASSUME NEW p \in Pics, Request(p)
      PROVE SettledInv'
  BY <1>2, <1>6 DEF Request, Done
<1>7. CASE WallpaperFailed
  BY <1>2, <1>7 DEF WallpaperFailed, LostInv, Done
<1>8. CASE Consumed \/ Drained
  BY <1>1, <1>2, <1>8 DEF Consumed, Drained, Done
<1>9. CASE World
  BY <1>2, <1>9, WorldFrame DEF Done
<1>10. CASE UNCHANGED vars
  <2>1. UNCHANGED <<states, want, leaving, need, texture, inflight, failed, phase, again>>
    BY <1>10 DEF vars
  <2>. QED BY <1>1, <1>2, <2>1 DEF Done
<1>. QED
  BY <1>3, <1>4, <1>5, <1>6, <1>7, <1>8, <1>9, <1>10 DEF Next, Settle

-----------------------------------------------------------------------------
(* The inductive invariant holds in every reachable state. *)
THEOREM DecodingCorrect == Spec => []DecodingInv
<1>1. ASSUME Init
      PROVE DecodingInv
  <2>1. /\ TypeOK
        /\ states = {} /\ failed = {} /\ phase = "poll" /\ stage = "idle"
        /\ lost = <<>> /\ done = <<>>
        /\ \A o \in Outputs : want[o] = NoPic /\ leaving[o] = NoPic
        /\ \A p \in Pics : texture[p] = None /\ inflight[p] = None
    BY <1>1, InitType DEF Init
  <2>2. Held = {}
    BY <2>1 DEF Held
  <2>. QED
    BY <2>1, <2>2 DEF DecodingInv, AbsentInv, JobInv, LostInv, NoticedInv,
                      InflightIsUnderway, SettledInv
<1>2. DecodingInv /\ [Next]_vars => DecodingInv'
  BY TypeStep, AbsentStep, JobStep, LostStep, NoticedStep, InflightStep, SettledStep
     DEF DecodingInv
<1>. QED BY <1>1, <1>2, PTL DEF Spec

(* The loop never sleeps on a finished decode: the descriptor it polls is  *)
(* readable, or about to be.                                               *)
THEOREM NeverSleepsOnAResult == Spec => []ResultNoticed
<1>1. DecodingInv => ResultNoticed
  BY DEF DecodingInv, NoticedInv, ResultNoticed, Asleep
<1>. QED BY <1>1, DecodingCorrect, PTL

(* A wallpaper believed to be in flight is answered for: no request is     *)
(* withheld for work that has already ended.                               *)
THEOREM InflightEnds == Spec => []InflightIsUnderway
<1>1. DecodingInv => InflightIsUnderway
  BY DEF DecodingInv
<1>. QED BY <1>1, DecodingCorrect, PTL

(* Asleep, every output has its wallpaper, or has it coming, or the        *)
(* wallpaper was given up on.                                              *)
THEOREM EveryOutputSettled == Spec => []WantedIsComing
<1>1. DecodingInv => WantedIsComing
  BY DEF DecodingInv, SettledInv, WantedIsComing, Asleep, Done
<1>. QED BY <1>1, DecodingCorrect, PTL

(* Asleep, neither an image nor the memory of a failure outlives the last  *)
(* output that shows it.                                                   *)
THEOREM NothingHeldUnused == Spec => []HeldIsUsed
<1>1. DecodingInv => HeldIsUsed
  BY DEF DecodingInv, SettledInv, HeldIsUsed, Asleep, Done
<1>. QED BY <1>1, DecodingCorrect, PTL
=============================================================================
