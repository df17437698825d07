--------------------------- MODULE FrameLoopProofs ---------------------------
(***************************************************************************)
(* Proofs about FrameLoop, for any outputs, wallpapers, targets, looks,    *)
(* animation lengths and any number of changes.                            *)
(***************************************************************************)
EXTENDS FrameLoop, TLAPS

USE DEF surfaceVars, stateVars, loopVars, wireVars

-----------------------------------------------------------------------------
(* What each operation of Pacing does to the flags. *)
LEMMA NewFlagsFacts ==
  /\ NewFlags \in Flags
  /\ NewFlags.dirty
  /\ ~NewFlags.awaiting
  /\ ~NewFlags.running
BY DEF Flags, NewFlags

(* Invalidating a surface sets its mark and nothing else.                  *)
LEMMA DirtiedFacts ==
  ASSUME NEW f \in Flags
  PROVE /\ Dirtied(f) \in Flags
        /\ Dirtied(f).dirty
        /\ Dirtied(f).awaiting <=> f.awaiting
        /\ Dirtied(f).running <=> f.running
BY DEF Flags, Dirtied

(* A callback ends the wait and nothing else.                              *)
LEMMA AnsweredFacts ==
  ASSUME NEW f \in Flags
  PROVE /\ Answered(f) \in Flags
        /\ ~Answered(f).awaiting
        /\ Answered(f).dirty <=> f.dirty
        /\ Answered(f).running <=> f.running
BY DEF Flags, Answered

(* Presenting settles the debt, starts the wait and remembers whether the  *)
(* frame was mid-animation.                                                *)
LEMMA SubmittedFacts ==
  ASSUME NEW f \in Flags, NEW settled \in BOOLEAN
  PROVE /\ Submitted(f, settled) \in Flags
        /\ Submitted(f, settled).awaiting
        /\ ~Submitted(f, settled).dirty
        /\ Submitted(f, settled).running <=> ~settled
BY DEF Flags, Submitted

-----------------------------------------------------------------------------
(* What the actions do to the flags, field by field. *)
LEMMA FrameDueFlags ==
  ASSUME TypeOK, NEW o \in Outputs, FrameDue(o)
  PROVE /\ flags'[o].dirty <=> flags[o].dirty
        /\ flags'[o].awaiting <=> FALSE
        /\ flags'[o].running <=> flags[o].running
        /\ \A q \in Outputs \ {o} : flags'[q] = flags[q]
<1>1. flags \in [Outputs -> Flags] /\ flags[o] \in Flags
  BY DEF TypeOK
<1>2. flags' = [flags EXCEPT ![o] = Answered(flags[o])]
  BY DEF FrameDue
<1>. QED BY <1>1, <1>2, AnsweredFacts

(* A stale callback touches only the surface that took the name, if one    *)
(* did.                                                                    *)
LEMMA GhostDueFlags ==
  ASSUME TypeOK, NEW o \in Outputs, GhostDue(o)
  PROVE /\ flags'[o].dirty <=> flags[o].dirty
        /\ flags'[o].awaiting <=> surf[o] = "absent" /\ flags[o].awaiting
        /\ flags'[o].running <=> flags[o].running
        /\ \A q \in Outputs \ {o} : flags'[q] = flags[q]
<1>1. flags \in [Outputs -> Flags] /\ flags[o] \in Flags
  BY DEF TypeOK
<1>2. flags' = IF surf[o] = "absent" THEN flags
            ELSE [flags EXCEPT ![o] = Answered(flags[o])]
  BY DEF GhostDue
<1>. QED BY <1>1, <1>2, AnsweredFacts

(* A configure leaves the surface with a debt; on a new surface the flags  *)
(* are the fresh ones.                                                     *)
LEMMA ConfiguredFlags ==
  ASSUME TypeOK, NEW o \in Outputs, Configured(o)
  PROVE /\ flags'[o].dirty <=>
             (flags[o].dirty \/ surf[o] = "created" \/ look'[o] # look[o])
        /\ flags'[o].awaiting <=> flags[o].awaiting
        /\ flags'[o].running <=> flags[o].running
        /\ \A q \in Outputs \ {o} : flags'[q] = flags[q]
<1>1. /\ flags \in [Outputs -> Flags] /\ flags[o] \in Flags
      /\ look \in [Outputs -> Looks]
        BY DEF TypeOK
<1>2. /\ look'[o] \in Looks
      /\ flags' = IF surf[o] = "created" \/ look'[o] # look[o]
                  THEN [flags EXCEPT ![o] = Dirtied(flags[o])] ELSE flags
  BY <1>1 DEF Configured
<1>3. CASE surf[o] = "created" \/ look'[o] # look[o]
  BY <1>1, <1>2, <1>3, DirtiedFacts
<1>4. CASE ~(surf[o] = "created" \/ look'[o] # look[o])
  BY <1>1, <1>2, <1>4
<1>. QED BY <1>3, <1>4

(* Presenting changes the flags of the output drawn and of no other.       *)
LEMMA DrawOutputFlags ==
  ASSUME TypeOK, NEW o \in Outputs, DrawOutput(o)
  PROVE /\ flags'[o].dirty <=> FALSE
        /\ flags'[o].awaiting <=> TRUE
        /\ flags'[o].running <=> ~Settled(o)
        /\ \A q \in Outputs \ {o} : flags'[q] = flags[q]
<1>1. /\ flags \in [Outputs -> Flags] /\ flags[o] \in Flags
      /\ Settled(o) \in BOOLEAN
  BY DEF TypeOK, Settled
<1>2. flags' = [flags EXCEPT ![o] = Submitted(flags[o], Settled(o))]
  BY DEF DrawOutput
<1>3. flags'[o] = Submitted(flags[o], Settled(o))
  BY <1>1, <1>2
<1>. QED BY <1>1, <1>2, <1>3, SubmittedFacts

(* A reload marks every output with a state, and lets go of no wait.       *)
LEMMA OnReloadFlags ==
  ASSUME TypeOK, OnReload, NEW q \in Outputs
  PROVE /\ flags'[q].dirty <=> (flags[q].dirty \/ q \in states)
        /\ flags'[q].awaiting <=> flags[q].awaiting
        /\ flags'[q].running <=> flags[q].running
<1>1. flags[q] \in Flags
  BY DEF TypeOK
<1>2. flags'[q] = IF q \in states THEN Dirtied(flags[q]) ELSE flags[q]
  BY DEF OnReload
<1>. QED BY <1>1, <1>2, DirtiedFacts

(* Resolving marks the outputs whose target moved, and lets go of no wait. *)
LEMMA SyncFlags ==
  ASSUME TypeOK, Sync, NEW q \in Outputs
  PROVE /\ flags'[q].dirty <=> (flags[q].dirty \/ value'[q] # value[q])
        /\ flags'[q].awaiting <=> flags[q].awaiting
        /\ flags'[q].running <=> flags[q].running
<1> DEFINE landed == {o \in Outputs : decode[o] = "landed"}
           moved == IF stale \/ landed # {}
                    THEN {o \in states : value[o] # told[o]} ELSE {}
<1>1. flags[q] \in Flags
  BY DEF TypeOK
<1>2. /\ flags'[q] = IF q \in moved THEN Dirtied(flags[q]) ELSE flags[q]
      /\ value'[q] = IF q \in moved THEN told[q] ELSE value[q]
  BY DEF Sync
<1>3. q \in moved <=> value'[q] # value[q]
  BY <1>2
<1> HIDE DEF moved
<1>4. CASE q \in moved
  BY <1>1, <1>2, <1>3, <1>4, DirtiedFacts
<1>5. CASE q \notin moved
  BY <1>1, <1>2, <1>3, <1>5
<1>. QED BY <1>4, <1>5

(* Comparing the slot with what was presented can only add a mark.         *)
LEMMA CheckedFacts ==
  ASSUME TypeOK, NEW q \in Outputs
  PROVE /\ Checked(q) \in Flags
        /\ Checked(q).dirty <=> (flags[q].dirty \/ Presented(q) # pic[q])
        /\ Checked(q).awaiting <=> flags[q].awaiting
        /\ Checked(q).running <=> flags[q].running
<1>1. flags[q] \in Flags
  BY DEF TypeOK
<1>. QED BY <1>1, DirtiedFacts DEF Checked

(* Planning a pass only adds marks.                                        *)
LEMMA PlanDrawFlags ==
  ASSUME TypeOK, PlanDraw, NEW q \in Outputs
  PROVE /\ flags'[q].dirty <=>
             \/ flags[q].dirty
             \/ q \in states /\ (Presented(q) # pic[q] \/ Pass(q) = "Defer")
        /\ flags'[q].awaiting <=> flags[q].awaiting
        /\ flags'[q].running <=> flags[q].running
<1>1. flags[q] \in Flags
  BY DEF TypeOK
<1>2. flags'[q] = IF q \notin states THEN flags[q]
                  ELSE IF Pass(q) = "Defer" THEN Dirtied(flags[q])
                  ELSE Checked(q)
  BY DEF PlanDraw
<1>3. CASE q \notin states
  BY <1>1, <1>2, <1>3
<1>4. CASE q \in states /\ Pass(q) = "Defer"
  BY <1>1, <1>2, <1>4, DirtiedFacts
<1>5. CASE q \in states /\ Pass(q) # "Defer"
  BY <1>1, <1>2, <1>5, CheckedFacts
<1>. QED BY <1>3, <1>4, <1>5

(* What `plan` decides, in terms of what the output owes.                  *)
LEMMA PassFacts ==
  ASSUME TypeOK, NEW q \in Outputs
  PROVE /\ Pass(q) = "Draw" <=> Drawable(q) /\ Owing(q) /\ ~flags[q].awaiting
        /\ Pass(q) = "Defer" <=> Drawable(q) /\ Owing(q) /\ flags[q].awaiting
        /\ Owed(Checked(q), Settled(q)) <=> Owing(q)
<1>1. Owed(Checked(q), Settled(q)) <=> Owing(q)
  BY CheckedFacts DEF Owed, Owing
<1>2. Checked(q).awaiting <=> flags[q].awaiting
  BY CheckedFacts
<1>. QED BY <1>1, <1>2 DEF Pass, Plan

-----------------------------------------------------------------------------
(* Every action keeps every variable in its type.                          *)
LEMMA TypeOKStep ==
  ASSUME TypeOK, [Next]_vars
  PROVE TypeOK'
<1> USE FrameLoopAssumption DEF TypeOK, Callback, Mail, Phases, Slots
<1>1. ASSUME NEW o \in Outputs, Present(o) PROVE TypeOK'
  BY <1>1 DEF Present
<1>2. ASSUME NEW o \in Outputs, AnswerGhost(o) PROVE TypeOK'
  BY <1>2 DEF AnswerGhost
<1>3. ASSUME NEW o \in Outputs, Announce(o) PROVE TypeOK'
  BY <1>3 DEF Announce
<1>4. ASSUME NEW o \in Outputs, Configure(o) PROVE TypeOK'
  BY <1>4 DEF Configure
<1>5. ASSUME NEW o \in Outputs, Reconfigure(o) PROVE TypeOK'
  BY <1>5 DEF Reconfigure
<1>6. ASSUME NEW o \in Outputs, Close(o) PROVE TypeOK'
  BY <1>6 DEF Close
<1>7. ASSUME NEW o \in Outputs, DecodeLands(o) PROVE TypeOK'
  BY <1>7 DEF DecodeLands
<1>8. ASSUME NEW o \in Outputs, OnCompositor(o) PROVE TypeOK'
  BY <1>8 DEF OnCompositor
<1>9. ASSUME NEW o \in Outputs, OnSetWallpaper(o) PROVE TypeOK'
  BY <1>9 DEF OnSetWallpaper, Choose
<1>10. ASSUME NEW o \in Outputs, FrameDue(o) PROVE TypeOK'
  BY <1>10, AnsweredFacts DEF FrameDue, Tick
<1>11. ASSUME NEW o \in Outputs, GhostDue(o) PROVE TypeOK'
  <2>1. CASE surf[o] = "absent"
    BY <1>11, <2>1 DEF GhostDue
  <2>2. CASE surf[o] # "absent"
    <3>1. flags' \in [Outputs -> Flags]
      BY <1>11, <2>2, AnsweredFacts DEF GhostDue
    <3>2. left' \in [Outputs -> 0..Steps]
      BY <1>11, <2>2 DEF GhostDue, Tick
    <3>. QED BY <1>11, <2>2, <3>1, <3>2 DEF GhostDue
  <2>. QED BY <2>1, <2>2
<1>12. ASSUME NEW o \in Outputs, Configured(o) PROVE TypeOK'
  <2>1. flags' \in [Outputs -> Flags]
    BY <1>12, DirtiedFacts DEF Configured
  <2>2. /\ states' \in SUBSET Outputs
        /\ pic' \in [Outputs -> Slots]
        /\ value' \in [Outputs -> Values]
        /\ left' \in [Outputs -> 0..Steps]
        /\ decode' \in [Outputs -> {"idle", "wanted", "running", "landed"}]
    BY <1>12 DEF Configured, Choose
  <2>3. look' \in [Outputs -> Looks] /\ again' \in BOOLEAN /\ stale' \in BOOLEAN
    <3>1. PICK l \in Looks :
            LET changed == surf[o] = "created" \/ l # look[o]
            IN /\ look' = [look EXCEPT ![o] = l]
               /\ again' = (again \/ changed \/ flags[o].dirty)
               /\ stale' = (stale \/ changed) \/ UNCHANGED stale
      BY <1>12 DEF Configured
    <3>2. (again \/ surf[o] = "created" \/ l # look[o] \/ flags[o].dirty) \in BOOLEAN
      OBVIOUS
    <3>. QED BY <3>1, <3>2
  <2>. QED BY <1>12, <2>1, <2>2, <2>3 DEF Configured
<1>13. ASSUME NEW o \in Outputs, Closed(o) PROVE TypeOK'
  BY <1>13, NewFlagsFacts DEF Closed
<1>14. ASSUME NEW o \in Outputs, EnsureSurface(o) PROVE TypeOK'
  BY <1>14 DEF EnsureSurface
<1>15. ASSUME NEW o \in Outputs, KeepFrame(o) PROVE TypeOK'
  BY <1>15 DEF KeepFrame
<1>16. ASSUME NEW o \in Outputs, DrawOutput(o) PROVE TypeOK'
  <2>1. Scene(o) \in Scenes /\ Settled(o) \in BOOLEAN
    BY DEF Scene, Scenes, Settled
  <2>. QED BY <1>16, <2>1, SubmittedFacts DEF DrawOutput
<1>17. CASE OnReload
  BY <1>17, DirtiedFacts DEF OnReload
<1>18. CASE OnDisplay
  BY <1>18 DEF OnDisplay, Read
<1>19. CASE NoticedDecode
  BY <1>19 DEF NoticedDecode
<1>20. CASE Displayed
  BY <1>20 DEF Displayed
<1>21. CASE StartSettle
  BY <1>21 DEF StartSettle
<1>22. CASE Sync
  <2>1. flags' \in [Outputs -> Flags]
    BY <1>22, DirtiedFacts DEF Sync
  <2>2. left' \in [Outputs -> 0..Steps]
    BY <1>22 DEF Sync
  <2>3. decode' \in [Outputs -> {"idle", "wanted", "running", "landed"}]
    BY <1>22 DEF Sync
  <2>4. value' \in [Outputs -> Values] /\ again' \in BOOLEAN
    BY <1>22 DEF Sync
  <2>. QED BY <1>22, <2>1, <2>2, <2>3, <2>4 DEF Sync
<1>23. CASE PlanDraw
  BY <1>23, DirtiedFacts DEF PlanDraw, Checked
<1>24. CASE SwapReads
  BY <1>24 DEF SwapReads, Read
<1>25. CASE SwapDone
  BY <1>25 DEF SwapDone
<1>26. CASE Drawn
  BY <1>26 DEF Drawn
<1>27. CASE Drained
  BY <1>27 DEF Drained
<1>28. CASE UNCHANGED vars
  BY <1>28 DEF vars
<1>. QED
  BY <1>1, <1>2, <1>3, <1>4, <1>5, <1>6, <1>7, <1>8, <1>9, <1>10, <1>11,
  <1>12, <1>13, <1>14, <1>15, <1>16, <1>17, <1>18, <1>19, <1>20, <1>21,
  <1>22, <1>23, <1>24, <1>25, <1>26, <1>27, <1>28
     DEF Next, Environment, Request, Loop, Dispatch, Settle

-----------------------------------------------------------------------------
(* A callback is asked for only by a frame, consumed only by its answer,   *)
(* and moved aside only with its surface; the answer of a destroyed        *)
(* surface finds nothing to answer.                                        *)
LEMMA CallbackAccountingStep ==
  ASSUME TypeOK, CallbackAccounting, SurfaceInv, PendingInv, [Next]_vars
  PROVE CallbackAccounting'
<1>t. /\ flags \in [Outputs -> Flags]
      /\ cb \in [Outputs -> Callback] /\ ghost \in [Outputs -> Callback]
      /\ surf \in [Outputs -> {"absent", "created", "drawable"}]
      /\ cfg \in [Outputs -> Mail]
  BY DEF TypeOK
<1> USE <1>t
    DEF Callback, Mail, CallbackAccounting, SurfaceInv, PendingInv, Drawable
<1>1. ASSUME NEW o \in Outputs, Present(o) PROVE CallbackAccounting'
  BY <1>1 DEF Present
<1>2. ASSUME NEW o \in Outputs, AnswerGhost(o) PROVE CallbackAccounting'
  BY <1>2 DEF AnswerGhost
<1>3. ASSUME NEW o \in Outputs, Announce(o) PROVE CallbackAccounting'
  BY <1>3 DEF Announce
<1>4. ASSUME NEW o \in Outputs, Configure(o) PROVE CallbackAccounting'
  BY <1>4 DEF Configure
<1>5. ASSUME NEW o \in Outputs, Reconfigure(o) PROVE CallbackAccounting'
  BY <1>5 DEF Reconfigure
<1>6. ASSUME NEW o \in Outputs, Close(o) PROVE CallbackAccounting'
  BY <1>6 DEF Close
<1>7. ASSUME NEW o \in Outputs, DecodeLands(o) PROVE CallbackAccounting'
  BY <1>7 DEF DecodeLands
<1>8. ASSUME NEW o \in Outputs, OnCompositor(o) PROVE CallbackAccounting'
  BY <1>8 DEF OnCompositor
<1>9. ASSUME NEW o \in Outputs, OnSetWallpaper(o) PROVE CallbackAccounting'
  BY <1>9 DEF OnSetWallpaper
<1>10. ASSUME NEW o \in Outputs, FrameDue(o) PROVE CallbackAccounting'
  <2>1. /\ ~flags'[o].awaiting
        /\ \A q \in Outputs \ {o} : flags'[q] = flags[q]
    BY <1>10, FrameDueFlags
  <2>. QED BY <1>10, <2>1 DEF FrameDue
<1>11. ASSUME NEW o \in Outputs, GhostDue(o) PROVE CallbackAccounting'
  <2>1. /\ flags'[o].awaiting <=> surf[o] = "absent" /\ flags[o].awaiting
        /\ \A q \in Outputs \ {o} : flags'[q] = flags[q]
    BY <1>11, GhostDueFlags
  <2>. QED BY <1>11, <2>1 DEF GhostDue
<1>12. ASSUME NEW o \in Outputs, Configured(o) PROVE CallbackAccounting'
  <2>1. ghost[o] = "none"
    BY <1>12 DEF Configured
  <2>2. \A q \in Outputs : flags'[q].awaiting <=> flags[q].awaiting
    BY <1>12, ConfiguredFlags
  <2>. QED BY <1>12, <2>1, <2>2 DEF Configured
<1>13. ASSUME NEW o \in Outputs, Closed(o) PROVE CallbackAccounting'
  BY <1>13, NewFlagsFacts DEF Closed, Dispatching
<1>14. ASSUME NEW o \in Outputs, EnsureSurface(o) PROVE CallbackAccounting'
  BY <1>14 DEF EnsureSurface
<1>15. ASSUME NEW o \in Outputs, KeepFrame(o) PROVE CallbackAccounting'
  BY <1>15 DEF KeepFrame
<1>16. ASSUME NEW o \in Outputs, DrawOutput(o) PROVE CallbackAccounting'
  <2>1. /\ flags'[o].awaiting
        /\ \A q \in Outputs \ {o} : flags'[q] = flags[q]
    BY <1>16, DrawOutputFlags
  <2>. QED BY <1>16, <2>1 DEF DrawOutput
<1>17. CASE OnReload
  <2>1. \A q \in Outputs : flags'[q].awaiting <=> flags[q].awaiting
    BY <1>17, OnReloadFlags
  <2>. QED BY <1>17, <2>1 DEF OnReload
<1>18. CASE OnDisplay
  BY <1>18 DEF OnDisplay, Read
<1>19. CASE NoticedDecode
  BY <1>19 DEF NoticedDecode
<1>20. CASE Displayed
  BY <1>20 DEF Displayed
<1>21. CASE StartSettle
  BY <1>21 DEF StartSettle
<1>22. CASE Sync
  <2>1. \A q \in Outputs : flags'[q].awaiting <=> flags[q].awaiting
    BY <1>22, SyncFlags
  <2>. QED BY <1>22, <2>1 DEF Sync
<1>23. CASE PlanDraw
  <2>1. \A q \in Outputs : flags'[q].awaiting <=> flags[q].awaiting
    BY <1>23, PlanDrawFlags
  <2>. QED BY <1>23, <2>1 DEF PlanDraw
<1>24. CASE SwapReads
  BY <1>24 DEF SwapReads, Read
<1>25. CASE SwapDone
  BY <1>25 DEF SwapDone
<1>26. CASE Drawn
  BY <1>26 DEF Drawn
<1>27. CASE Drained
  BY <1>27 DEF Drained
<1>28. CASE UNCHANGED vars
  BY <1>28 DEF vars
<1>. QED
  BY <1>1, <1>2, <1>3, <1>4, <1>5, <1>6, <1>7, <1>8, <1>9, <1>10, <1>11,
  <1>12, <1>13, <1>14, <1>15, <1>16, <1>17, <1>18, <1>19, <1>20, <1>21,
  <1>22, <1>23, <1>24, <1>25, <1>26, <1>27, <1>28
     DEF Next, Environment, Request, Loop, Dispatch, Settle

-----------------------------------------------------------------------------
(* Only presenting and `on_display` read the connection, and both are      *)
(* followed by a drain.                                                    *)
LEMMA QueueInvStep ==
  ASSUME TypeOK, QueueInv, [Next]_vars
  PROVE QueueInv'
<1> USE DEF TypeOK, Mail, Callback, QueueInv, Queued, InMail
<1>1. ASSUME NEW o \in Outputs, Present(o) PROVE QueueInv'
  BY <1>1 DEF Present
<1>2. ASSUME NEW o \in Outputs, AnswerGhost(o) PROVE QueueInv'
  BY <1>2 DEF AnswerGhost
<1>3. ASSUME NEW o \in Outputs, Announce(o) PROVE QueueInv'
  BY <1>3 DEF Announce
<1>4. ASSUME NEW o \in Outputs, Configure(o) PROVE QueueInv'
  BY <1>4 DEF Configure
<1>5. ASSUME NEW o \in Outputs, Reconfigure(o) PROVE QueueInv'
  BY <1>5 DEF Reconfigure
<1>6. ASSUME NEW o \in Outputs, Close(o) PROVE QueueInv'
  BY <1>6 DEF Close
<1>7. ASSUME NEW o \in Outputs, DecodeLands(o) PROVE QueueInv'
  BY <1>7 DEF DecodeLands
<1>8. ASSUME NEW o \in Outputs, OnCompositor(o) PROVE QueueInv'
  BY <1>8 DEF OnCompositor
<1>9. ASSUME NEW o \in Outputs, OnSetWallpaper(o) PROVE QueueInv'
  BY <1>9 DEF OnSetWallpaper
<1>10. ASSUME NEW o \in Outputs, FrameDue(o) PROVE QueueInv'
  BY <1>10 DEF FrameDue, Dispatching
<1>11. ASSUME NEW o \in Outputs, GhostDue(o) PROVE QueueInv'
  BY <1>11 DEF GhostDue, Dispatching
<1>12. ASSUME NEW o \in Outputs, Configured(o) PROVE QueueInv'
  BY <1>12 DEF Configured, Dispatching
<1>13. ASSUME NEW o \in Outputs, Closed(o) PROVE QueueInv'
  BY <1>13 DEF Closed, Dispatching
<1>14. ASSUME NEW o \in Outputs, EnsureSurface(o) PROVE QueueInv'
  BY <1>14 DEF EnsureSurface, Dispatching
<1>15. ASSUME NEW o \in Outputs, KeepFrame(o) PROVE QueueInv'
  BY <1>15 DEF KeepFrame
<1>16. ASSUME NEW o \in Outputs, DrawOutput(o) PROVE QueueInv'
  BY <1>16 DEF DrawOutput
<1>17. CASE OnReload
  BY <1>17 DEF OnReload
<1>18. CASE OnDisplay
  BY <1>18 DEF OnDisplay, Read
<1>19. CASE NoticedDecode
  BY <1>19 DEF NoticedDecode
<1>20. CASE Displayed
  BY <1>20 DEF Displayed
<1>21. CASE StartSettle
  BY <1>21 DEF StartSettle
<1>22. CASE Sync
  BY <1>22 DEF Sync
<1>23. CASE PlanDraw
  BY <1>23 DEF PlanDraw
<1>24. CASE SwapReads
  BY <1>24 DEF SwapReads, Read
<1>25. CASE SwapDone
  BY <1>25 DEF SwapDone
<1>26. CASE Drawn
  BY <1>26 DEF Drawn
<1>27. CASE Drained
  BY <1>27 DEF Drained
<1>28. CASE UNCHANGED vars
  BY <1>28 DEF vars
<1>. QED
  BY <1>1, <1>2, <1>3, <1>4, <1>5, <1>6, <1>7, <1>8, <1>9, <1>10, <1>11,
  <1>12, <1>13, <1>14, <1>15, <1>16, <1>17, <1>18, <1>19, <1>20, <1>21,
  <1>22, <1>23, <1>24, <1>25, <1>26, <1>27, <1>28
     DEF Next, Environment, Request, Loop, Dispatch, Settle

-----------------------------------------------------------------------------
(* States and drawable surfaces come and go together, and no configure     *)
(* overtakes the callback of the surface before.                           *)
LEMMA SurfaceInvStep ==
  ASSUME TypeOK, CallbackAccounting, SurfaceInv, [Next]_vars
  PROVE SurfaceInv'
<1> USE DEF TypeOK, Mail, Callback, CallbackAccounting, SurfaceInv, Drawable
<1>1. ASSUME NEW o \in Outputs, Present(o) PROVE SurfaceInv'
  BY <1>1 DEF Present
<1>2. ASSUME NEW o \in Outputs, AnswerGhost(o) PROVE SurfaceInv'
  BY <1>2 DEF AnswerGhost
<1>3. ASSUME NEW o \in Outputs, Announce(o) PROVE SurfaceInv'
  BY <1>3 DEF Announce
<1>4. ASSUME NEW o \in Outputs, Configure(o) PROVE SurfaceInv'
  BY <1>4 DEF Configure
<1>5. ASSUME NEW o \in Outputs, Reconfigure(o) PROVE SurfaceInv'
  BY <1>5 DEF Reconfigure
<1>6. ASSUME NEW o \in Outputs, Close(o) PROVE SurfaceInv'
  BY <1>6 DEF Close
<1>7. ASSUME NEW o \in Outputs, DecodeLands(o) PROVE SurfaceInv'
  BY <1>7 DEF DecodeLands
<1>8. ASSUME NEW o \in Outputs, OnCompositor(o) PROVE SurfaceInv'
  BY <1>8 DEF OnCompositor
<1>9. ASSUME NEW o \in Outputs, OnSetWallpaper(o) PROVE SurfaceInv'
  BY <1>9 DEF OnSetWallpaper
<1>10. ASSUME NEW o \in Outputs, FrameDue(o) PROVE SurfaceInv'
  BY <1>10 DEF FrameDue
<1>11. ASSUME NEW o \in Outputs, GhostDue(o) PROVE SurfaceInv'
  BY <1>11 DEF GhostDue
<1>12. ASSUME NEW o \in Outputs, Configured(o) PROVE SurfaceInv'
  BY <1>12 DEF Configured
<1>13. ASSUME NEW o \in Outputs, Closed(o) PROVE SurfaceInv'
  BY <1>13 DEF Closed
<1>14. ASSUME NEW o \in Outputs, EnsureSurface(o) PROVE SurfaceInv'
  BY <1>14 DEF EnsureSurface
<1>15. ASSUME NEW o \in Outputs, KeepFrame(o) PROVE SurfaceInv'
  BY <1>15 DEF KeepFrame
<1>16. ASSUME NEW o \in Outputs, DrawOutput(o) PROVE SurfaceInv'
  BY <1>16 DEF DrawOutput
<1>17. CASE OnReload
  BY <1>17 DEF OnReload
<1>18. CASE OnDisplay
  BY <1>18 DEF OnDisplay, Read
<1>19. CASE NoticedDecode
  BY <1>19 DEF NoticedDecode
<1>20. CASE Displayed
  BY <1>20 DEF Displayed
<1>21. CASE StartSettle
  BY <1>21 DEF StartSettle
<1>22. CASE Sync
  BY <1>22 DEF Sync
<1>23. CASE PlanDraw
  BY <1>23 DEF PlanDraw
<1>24. CASE SwapReads
  BY <1>24 DEF SwapReads, Read
<1>25. CASE SwapDone
  BY <1>25 DEF SwapDone
<1>26. CASE Drawn
  BY <1>26 DEF Drawn
<1>27. CASE Drained
  BY <1>27 DEF Drained
<1>28. CASE UNCHANGED vars
  BY <1>28 DEF vars
<1>. QED
  BY <1>1, <1>2, <1>3, <1>4, <1>5, <1>6, <1>7, <1>8, <1>9, <1>10, <1>11,
  <1>12, <1>13, <1>14, <1>15, <1>16, <1>17, <1>18, <1>19, <1>20, <1>21,
  <1>22, <1>23, <1>24, <1>25, <1>26, <1>27, <1>28
     DEF Next, Environment, Request, Loop, Dispatch, Settle

-----------------------------------------------------------------------------
(* Nothing is dispatched between the plan and the last output drawn.       *)
LEMMA PendingInvStep ==
  ASSUME TypeOK, CallbackAccounting, SurfaceInv, PendingInv, [Next]_vars
  PROVE PendingInv'
<1> USE DEF TypeOK, PendingInv, SurfaceInv, CallbackAccounting, Drawable
<1>1. ASSUME NEW o \in Outputs, Present(o) PROVE PendingInv'
  BY <1>1 DEF Present
<1>2. ASSUME NEW o \in Outputs, AnswerGhost(o) PROVE PendingInv'
  BY <1>2 DEF AnswerGhost
<1>3. ASSUME NEW o \in Outputs, Announce(o) PROVE PendingInv'
  BY <1>3 DEF Announce
<1>4. ASSUME NEW o \in Outputs, Configure(o) PROVE PendingInv'
  BY <1>4 DEF Configure
<1>5. ASSUME NEW o \in Outputs, Reconfigure(o) PROVE PendingInv'
  BY <1>5 DEF Reconfigure
<1>6. ASSUME NEW o \in Outputs, Close(o) PROVE PendingInv'
  BY <1>6 DEF Close
<1>7. ASSUME NEW o \in Outputs, DecodeLands(o) PROVE PendingInv'
  BY <1>7 DEF DecodeLands
<1>8. ASSUME NEW o \in Outputs, OnCompositor(o) PROVE PendingInv'
  BY <1>8 DEF OnCompositor
<1>9. ASSUME NEW o \in Outputs, OnSetWallpaper(o) PROVE PendingInv'
  BY <1>9 DEF OnSetWallpaper
<1>10. ASSUME NEW o \in Outputs, FrameDue(o) PROVE PendingInv'
  BY <1>10 DEF FrameDue, Dispatching
<1>11. ASSUME NEW o \in Outputs, GhostDue(o) PROVE PendingInv'
  BY <1>11 DEF GhostDue, Dispatching
<1>12. ASSUME NEW o \in Outputs, Configured(o) PROVE PendingInv'
  BY <1>12 DEF Configured, Dispatching
<1>13. ASSUME NEW o \in Outputs, Closed(o) PROVE PendingInv'
  BY <1>13 DEF Closed, Dispatching
<1>14. ASSUME NEW o \in Outputs, EnsureSurface(o) PROVE PendingInv'
  BY <1>14 DEF EnsureSurface, Dispatching
<1>15. ASSUME NEW o \in Outputs, KeepFrame(o) PROVE PendingInv'
  BY <1>15 DEF KeepFrame
<1>16. ASSUME NEW o \in Outputs, DrawOutput(o) PROVE PendingInv'
  BY <1>16 DEF DrawOutput
<1>17. CASE OnReload
  BY <1>17 DEF OnReload
<1>18. CASE OnDisplay
  BY <1>18 DEF OnDisplay, Read
<1>19. CASE NoticedDecode
  BY <1>19 DEF NoticedDecode
<1>20. CASE Displayed
  BY <1>20 DEF Displayed
<1>21. CASE StartSettle
  BY <1>21 DEF StartSettle
<1>22. CASE Sync
  BY <1>22 DEF Sync
<1>23. CASE PlanDraw
  BY <1>23 DEF PlanDraw, Pass, Plan, Checked, Dirtied
<1>24. CASE SwapReads
  BY <1>24 DEF SwapReads, Read
<1>25. CASE SwapDone
  BY <1>25 DEF SwapDone
<1>26. CASE Drawn
  BY <1>26 DEF Drawn
<1>27. CASE Drained
  BY <1>27 DEF Drained
<1>28. CASE UNCHANGED vars
  BY <1>28 DEF vars
<1>. QED
  BY <1>1, <1>2, <1>3, <1>4, <1>5, <1>6, <1>7, <1>8, <1>9, <1>10, <1>11,
  <1>12, <1>13, <1>14, <1>15, <1>16, <1>17, <1>18, <1>19, <1>20, <1>21,
  <1>22, <1>23, <1>24, <1>25, <1>26, <1>27, <1>28
     DEF Next, Environment, Request, Loop, Dispatch, Settle

-----------------------------------------------------------------------------
(* Whatever changes without an animation invalidates, and only a frame     *)
(* clears the mark.                                                        *)
LEMMA ShownInvStep ==
  ASSUME TypeOK, SurfaceInv, PendingInv, ShownInv, [Next]_vars
  PROVE ShownInv'
<1>t. /\ flags \in [Outputs -> Flags]
      /\ shown \in [Outputs -> Scenes \cup {Nothing}]
      /\ surf \in [Outputs -> {"absent", "created", "drawable"}]
      /\ look \in [Outputs -> Looks] /\ value \in [Outputs -> Values]
      /\ left \in [Outputs -> 0..Steps] /\ states \subseteq Outputs
  BY DEF TypeOK
<1> USE <1>t DEF ShownInv, Drawable, SurfaceInv
<1>1. ASSUME NEW o \in Outputs, Present(o) PROVE ShownInv'
  BY <1>1 DEF Present
<1>2. ASSUME NEW o \in Outputs, AnswerGhost(o) PROVE ShownInv'
  BY <1>2 DEF AnswerGhost
<1>3. ASSUME NEW o \in Outputs, Announce(o) PROVE ShownInv'
  BY <1>3 DEF Announce
<1>4. ASSUME NEW o \in Outputs, Configure(o) PROVE ShownInv'
  BY <1>4 DEF Configure
<1>5. ASSUME NEW o \in Outputs, Reconfigure(o) PROVE ShownInv'
  BY <1>5 DEF Reconfigure
<1>6. ASSUME NEW o \in Outputs, Close(o) PROVE ShownInv'
  BY <1>6 DEF Close
<1>7. ASSUME NEW o \in Outputs, DecodeLands(o) PROVE ShownInv'
  BY <1>7 DEF DecodeLands
<1>8. ASSUME NEW o \in Outputs, OnCompositor(o) PROVE ShownInv'
  BY <1>8 DEF OnCompositor
<1>9. ASSUME NEW o \in Outputs, OnSetWallpaper(o) PROVE ShownInv'
  BY <1>9 DEF OnSetWallpaper
<1>10. ASSUME NEW o \in Outputs, FrameDue(o) PROVE ShownInv'
  <2>1. /\ flags'[o].dirty <=> flags[o].dirty
        /\ flags'[o].running <=> flags[o].running
        /\ \A q \in Outputs \ {o} : flags'[q] = flags[q]
    BY <1>10, FrameDueFlags
  <2>. QED BY <1>10, <2>1 DEF FrameDue
<1>11. ASSUME NEW o \in Outputs, GhostDue(o) PROVE ShownInv'
  <2>1. /\ flags'[o].dirty <=> flags[o].dirty
        /\ flags'[o].running <=> flags[o].running
        /\ \A q \in Outputs \ {o} : flags'[q] = flags[q]
    BY <1>11, GhostDueFlags
  <2>. QED BY <1>11, <2>1 DEF GhostDue
<1>12. ASSUME NEW o \in Outputs, Configured(o) PROVE ShownInv'
  <2>1. /\ flags'[o].dirty <=>
             (flags[o].dirty \/ surf[o] = "created" \/ look'[o] # look[o])
        /\ flags'[o].running <=> flags[o].running
        /\ \A q \in Outputs \ {o} : flags'[q] = flags[q]
    BY <1>12, ConfiguredFlags
  <2>2. surf[o] # "absent" /\ (o \notin states => surf[o] = "created")
    BY <1>12 DEF Configured
  <2>3. \A q \in Outputs :
          /\ q # o => look'[q] = look[q] /\ value'[q] = value[q]
          /\ o \in states => value'[q] = value[q]
    BY <1>12 DEF Configured
  <2>4. shown' = shown /\ surf' = [surf EXCEPT ![o] = "drawable"]
    BY <1>12 DEF Configured
  <2>. QED BY <2>1, <2>2, <2>3, <2>4
<1>13. ASSUME NEW o \in Outputs, Closed(o) PROVE ShownInv'
  <2>1. /\ surf' = [surf EXCEPT ![o] = "absent"]
        /\ shown' = [shown EXCEPT ![o] = Nothing]
        /\ look' = look /\ value' = value
        /\ \A q \in Outputs \ {o} : flags'[q] = flags[q]
    BY <1>13 DEF Closed
  <2>. QED BY <2>1
<1>14. ASSUME NEW o \in Outputs, EnsureSurface(o) PROVE ShownInv'
  BY <1>14 DEF EnsureSurface
<1>15. ASSUME NEW o \in Outputs, KeepFrame(o) PROVE ShownInv'
  BY <1>15 DEF KeepFrame
<1>16. ASSUME NEW o \in Outputs, DrawOutput(o) PROVE ShownInv'
  <2>1. /\ ~flags'[o].dirty
        /\ flags'[o].running <=> ~Settled(o)
        /\ \A q \in Outputs \ {o} : flags'[q] = flags[q]
    BY <1>16, DrawOutputFlags
  <2>2. Scene(o) \in Scenes /\ Scene(o) # Nothing
    BY NothingAssumption DEF TypeOK, Scene, Scenes
  <2>3. /\ Scene(o).left = left[o]
        /\ Scene(o).look = look[o] /\ Scene(o).value = value[o]
    BY DEF Scene
  <2>4. Settled(o) <=> ~(left[o] > 0)
    BY DEF Settled
  <2>5. Drawable(o)
    BY <1>16 DEF DrawOutput, PendingInv
  <2>. QED BY <1>16, <2>1, <2>2, <2>3, <2>4, <2>5 DEF DrawOutput
<1>17. CASE OnReload
  <2>1. \A q \in Outputs :
          /\ flags'[q].dirty <=> (flags[q].dirty \/ q \in states)
          /\ flags'[q].running <=> flags[q].running
    BY <1>17, OnReloadFlags
  <2>. QED BY <1>17, <2>1 DEF OnReload
<1>18. CASE OnDisplay
  BY <1>18 DEF OnDisplay
<1>19. CASE NoticedDecode
  BY <1>19 DEF NoticedDecode
<1>20. CASE Displayed
  BY <1>20 DEF Displayed
<1>21. CASE StartSettle
  BY <1>21 DEF StartSettle
<1>22. CASE Sync
  <2>1. \A q \in Outputs :
          /\ flags'[q].dirty <=> (flags[q].dirty \/ value'[q] # value[q])
          /\ flags'[q].running <=> flags[q].running
    BY <1>22, SyncFlags
  <2>2. shown' = shown /\ surf' = surf /\ look' = look
    BY <1>22 DEF Sync
  <2>. QED BY <2>1, <2>2
<1>23. CASE PlanDraw
  <2>1. \A q \in Outputs :
          /\ flags[q].dirty => flags'[q].dirty
          /\ flags'[q].running <=> flags[q].running
    BY <1>23, PlanDrawFlags
  <2>. QED BY <1>23, <2>1 DEF PlanDraw
<1>24. CASE SwapReads
  BY <1>24 DEF SwapReads
<1>25. CASE SwapDone
  BY <1>25 DEF SwapDone
<1>26. CASE Drawn
  BY <1>26 DEF Drawn
<1>27. CASE Drained
  BY <1>27 DEF Drained
<1>28. CASE UNCHANGED vars
  BY <1>28 DEF vars
<1>. QED
  BY <1>1, <1>2, <1>3, <1>4, <1>5, <1>6, <1>7, <1>8, <1>9, <1>10, <1>11,
  <1>12, <1>13, <1>14, <1>15, <1>16, <1>17, <1>18, <1>19, <1>20, <1>21,
  <1>22, <1>23, <1>24, <1>25, <1>26, <1>27, <1>28
     DEF Next, Environment, Request, Loop, Dispatch, Settle

-----------------------------------------------------------------------------
(* A target that has moved is stale until `resolve`; consuming anything    *)
(* makes the settle go round again.                                        *)
LEMMA SyncedInvStep ==
  ASSUME TypeOK, SurfaceInv, SyncedInv, [Next]_vars
  PROVE SyncedInv'
<1>t. /\ states \subseteq Outputs /\ phase \in Phases
      /\ told \in [Outputs -> Values] /\ value \in [Outputs -> Values]
      /\ decode \in [Outputs -> {"idle", "wanted", "running", "landed"}]
      /\ surf \in [Outputs -> {"absent", "created", "drawable"}]
      /\ stale \in BOOLEAN /\ woken \in BOOLEAN /\ again \in BOOLEAN
  BY DEF TypeOK
<1> USE <1>t DEF SyncedInv, Synced, Asleep, SurfaceInv, Drawable
<1>1. ASSUME NEW o \in Outputs, Present(o) PROVE SyncedInv'
  BY <1>1 DEF Present
<1>2. ASSUME NEW o \in Outputs, AnswerGhost(o) PROVE SyncedInv'
  BY <1>2 DEF AnswerGhost
<1>3. ASSUME NEW o \in Outputs, Announce(o) PROVE SyncedInv'
  BY <1>3 DEF Announce
<1>4. ASSUME NEW o \in Outputs, Configure(o) PROVE SyncedInv'
  BY <1>4 DEF Configure
<1>5. ASSUME NEW o \in Outputs, Reconfigure(o) PROVE SyncedInv'
  BY <1>5 DEF Reconfigure
<1>6. ASSUME NEW o \in Outputs, Close(o) PROVE SyncedInv'
  BY <1>6 DEF Close
<1>7. ASSUME NEW o \in Outputs, DecodeLands(o) PROVE SyncedInv'
  BY <1>7 DEF DecodeLands
<1>8. ASSUME NEW o \in Outputs, OnCompositor(o) PROVE SyncedInv'
  BY <1>8 DEF OnCompositor
<1>9. ASSUME NEW o \in Outputs, OnSetWallpaper(o) PROVE SyncedInv'
  BY <1>9 DEF OnSetWallpaper, Choose
<1>10. ASSUME NEW o \in Outputs, FrameDue(o) PROVE SyncedInv'
  BY <1>10 DEF FrameDue, Dispatching
<1>11. ASSUME NEW o \in Outputs, GhostDue(o) PROVE SyncedInv'
  BY <1>11 DEF GhostDue, Dispatching
<1>12. ASSUME NEW o \in Outputs, Configured(o) PROVE SyncedInv'
  <2>1. /\ \/ /\ o \in states
              /\ UNCHANGED <<states, value, decode>>
           \/ /\ o \notin states /\ states' = states \cup {o}
              /\ value' = [value EXCEPT ![o] = told[o]]
        /\ told' = told /\ phase' = phase /\ woken' = woken /\ (stale => stale')
    BY <1>12 DEF Configured
  <2>2. phase \in {"display", "drain"} /\ (phase' = "drain" /\ ~again' =>
          ~again /\ stale' = stale /\ surf[o] # "created" /\ o \in states)
    BY <1>12 DEF Configured, Dispatching
  <2>. QED BY <2>1, <2>2
<1>13. ASSUME NEW o \in Outputs, Closed(o) PROVE SyncedInv'
  BY <1>13 DEF Closed, Dispatching
<1>14. ASSUME NEW o \in Outputs, EnsureSurface(o) PROVE SyncedInv'
  BY <1>14 DEF EnsureSurface, Dispatching
<1>15. ASSUME NEW o \in Outputs, KeepFrame(o) PROVE SyncedInv'
  BY <1>15 DEF KeepFrame
<1>16. ASSUME NEW o \in Outputs, DrawOutput(o) PROVE SyncedInv'
  BY <1>16 DEF DrawOutput
<1>17. CASE OnReload
  BY <1>17 DEF OnReload
<1>18. CASE OnDisplay
  BY <1>18 DEF OnDisplay
<1>19. CASE NoticedDecode
  BY <1>19 DEF NoticedDecode
<1>20. CASE Displayed
  BY <1>20 DEF Displayed
<1>21. CASE StartSettle
  BY <1>21 DEF StartSettle
<1>22. CASE Sync
  <2>1. \A q \in states : value'[q] = told[q]
    BY <1>22 DEF Sync
  <2>2. /\ \A q \in Outputs : decode'[q] # "wanted"
        /\ states' = states /\ told' = told /\ stale' = FALSE
        /\ phase' = "plan"
    BY <1>22 DEF Sync
  <2>. QED BY <2>1, <2>2
<1>23. CASE PlanDraw
  BY <1>23 DEF PlanDraw
<1>24. CASE SwapReads
  BY <1>24 DEF SwapReads
<1>25. CASE SwapDone
  BY <1>25 DEF SwapDone
<1>26. CASE Drawn
  BY <1>26 DEF Drawn
<1>27. CASE Drained
  BY <1>27 DEF Drained
<1>28. CASE UNCHANGED vars
  BY <1>28 DEF vars
<1>. QED
  BY <1>1, <1>2, <1>3, <1>4, <1>5, <1>6, <1>7, <1>8, <1>9, <1>10, <1>11,
  <1>12, <1>13, <1>14, <1>15, <1>16, <1>17, <1>18, <1>19, <1>20, <1>21,
  <1>22, <1>23, <1>24, <1>25, <1>26, <1>27, <1>28
     DEF Next, Environment, Request, Loop, Dispatch, Settle

-----------------------------------------------------------------------------
(* What the pass left undrawn it could not draw, and whatever changes that *)
(* makes the settle go round again or wakes the loop.                      *)
LEMMA PlannedInvStep ==
  ASSUME TypeOK, SurfaceInv, SyncedInv, PlannedInv, [Next]_vars
  PROVE PlannedInv'
<1>t. /\ flags \in [Outputs -> Flags] /\ states \subseteq Outputs
      /\ phase \in Phases
      /\ shown \in [Outputs -> Scenes \cup {Nothing}]
      /\ pic \in [Outputs -> Slots] /\ left \in [Outputs -> 0..Steps]
      /\ decode \in [Outputs -> {"idle", "wanted", "running", "landed"}]
  BY DEF TypeOK
<1> USE <1>t
    DEF PlannedInv, Planned, Synced, Asleep, Owing, Settled, Presented, Resident
<1>1. ASSUME NEW o \in Outputs, Present(o) PROVE PlannedInv'
  BY <1>1 DEF Present
<1>2. ASSUME NEW o \in Outputs, AnswerGhost(o) PROVE PlannedInv'
  BY <1>2 DEF AnswerGhost
<1>3. ASSUME NEW o \in Outputs, Announce(o) PROVE PlannedInv'
  BY <1>3 DEF Announce
<1>4. ASSUME NEW o \in Outputs, Configure(o) PROVE PlannedInv'
  BY <1>4 DEF Configure
<1>5. ASSUME NEW o \in Outputs, Reconfigure(o) PROVE PlannedInv'
  BY <1>5 DEF Reconfigure
<1>6. ASSUME NEW o \in Outputs, Close(o) PROVE PlannedInv'
  BY <1>6 DEF Close
<1>7. ASSUME NEW o \in Outputs, DecodeLands(o) PROVE PlannedInv'
  <2>1. \A q \in Outputs : Resident(q)' <=> Resident(q)
    BY <1>7 DEF DecodeLands
  <2>. QED BY <1>7, <2>1 DEF DecodeLands
<1>8. ASSUME NEW o \in Outputs, OnCompositor(o) PROVE PlannedInv'
  BY <1>8 DEF OnCompositor
<1>9. ASSUME NEW o \in Outputs, OnSetWallpaper(o) PROVE PlannedInv'
  BY <1>9 DEF OnSetWallpaper
<1>10. ASSUME NEW o \in Outputs, FrameDue(o) PROVE PlannedInv'
  <2>1. phase \in {"display", "drain"} /\ phase' = phase /\ again'
    BY <1>10 DEF FrameDue, Dispatching
  <2>. QED BY <2>1
<1>11. ASSUME NEW o \in Outputs, GhostDue(o) PROVE PlannedInv'
  <2>1. phase \in {"display", "drain"} /\ phase' = phase
    BY <1>11 DEF GhostDue, Dispatching
  <2>2. again' \/ UNCHANGED <<states, pending, flags, left, shown, pic, decode, again>>
    BY <1>11 DEF GhostDue
  <2>. QED BY <2>1, <2>2
<1>12. ASSUME NEW o \in Outputs, Configured(o) PROVE PlannedInv'
  <2>1. phase \in {"display", "drain"} /\ phase' = phase
    BY <1>12 DEF Configured, Dispatching
  <2>2. surf[o] # "absent"
    BY <1>12 DEF Configured, SurfaceInv
  <2>3. CASE ~again'
    <3>1. ~again /\ surf[o] # "created" /\ flags' = flags
      BY <1>12, <2>3 DEF Configured
    <3>2. o \in states
      BY <2>2, <3>1 DEF SurfaceInv, Drawable, TypeOK
    <3>3. UNCHANGED <<states, pending, flags, left, shown, pic, decode>>
      BY <1>12, <3>1, <3>2 DEF Configured
    <3>. QED BY <2>1, <3>1, <3>3
  <2>. QED BY <2>1, <2>3
<1>13. ASSUME NEW o \in Outputs, Closed(o) PROVE PlannedInv'
  <2>1. phase \in {"display", "drain"} /\ phase' = phase /\ again'
    BY <1>13 DEF Closed, Dispatching
  <2>. QED BY <2>1
<1>14. ASSUME NEW o \in Outputs, EnsureSurface(o) PROVE PlannedInv'
  <2>. QED BY <1>14 DEF EnsureSurface
<1>15. ASSUME NEW o \in Outputs, KeepFrame(o) PROVE PlannedInv'
  BY <1>15 DEF KeepFrame
<1>16. ASSUME NEW o \in Outputs, DrawOutput(o) PROVE PlannedInv'
  <2>1. /\ flags'[o].awaiting
        /\ \A q \in Outputs \ {o} : flags'[q] = flags[q]
    BY <1>16, DrawOutputFlags
  <2>2. /\ phase = "draw" /\ UNCHANGED <<left, pic, states, decode>>
        /\ pending' = pending \ {o}
        /\ \A q \in Outputs \ {o} : shown'[q] = shown[q]
    BY <1>16 DEF DrawOutput
  <2>. QED BY <2>1, <2>2
<1>17. CASE OnReload
  BY <1>17 DEF OnReload
<1>18. CASE OnDisplay
  BY <1>18 DEF OnDisplay
<1>19. CASE NoticedDecode
  BY <1>19 DEF NoticedDecode
<1>20. CASE Displayed
  BY <1>20 DEF Displayed, SyncedInv
<1>21. CASE StartSettle
  BY <1>21 DEF StartSettle
<1>22. CASE Sync
  BY <1>22 DEF Sync
<1>23. CASE PlanDraw
  <2>1. ASSUME NEW q \in states', q \notin pending', Owing(q)'
        PROVE flags'[q].awaiting
    <3>1. /\ q \in Outputs /\ q \in states
          /\ UNCHANGED <<shown, left, pic, states>>
          /\ Pass(q) # "Draw"
      BY <1>23, <2>1 DEF PlanDraw
    <3>2. /\ flags'[q].dirty <=>
               \/ flags[q].dirty
               \/ q \in states /\ (Presented(q) # pic[q] \/ Pass(q) = "Defer")
          /\ flags'[q].awaiting <=> flags[q].awaiting
          /\ flags'[q].running <=> flags[q].running
      BY <1>23, <3>1, PlanDrawFlags
    <3>3. Pass(q) = "Defer" => Owing(q) /\ flags[q].awaiting
      BY <3>1, PassFacts
    <3>4. Owing(q)
      BY <2>1, <3>1, <3>2, <3>3
    <3>5. Drawable(q)
      BY <3>1 DEF SurfaceInv
    <3>. QED BY <3>1, <3>2, <3>4, <3>5, PassFacts
  <2>. QED BY <2>1
<1>24. CASE SwapReads
  BY <1>24 DEF SwapReads
<1>25. CASE SwapDone
  BY <1>25 DEF SwapDone
<1>26. CASE Drawn
  BY <1>26 DEF Drawn
<1>27. CASE Drained
  BY <1>27 DEF Drained
<1>28. CASE UNCHANGED vars
  BY <1>28 DEF vars
<1>. QED
  BY <1>1, <1>2, <1>3, <1>4, <1>5, <1>6, <1>7, <1>8, <1>9, <1>10, <1>11,
  <1>12, <1>13, <1>14, <1>15, <1>16, <1>17, <1>18, <1>19, <1>20, <1>21,
  <1>22, <1>23, <1>24, <1>25, <1>26, <1>27, <1>28
     DEF Next, Environment, Request, Loop, Dispatch, Settle

-----------------------------------------------------------------------------
(***************************************************************************)
(* The invariant holds, and with it the safety properties.                 *)
(***************************************************************************)
(* The inductive invariant, at the start and after any step, hence always. *)
LEMMA InitInv == Init => LoopInv
<1> SUFFICES ASSUME Init PROVE LoopInv
  OBVIOUS
<1> USE FrameLoopAssumption
<1>1. TypeOK
  <2>1. PICK l \in Looks, v \in Values :
          /\ look = [o \in Outputs |-> l]
          /\ value = [o \in Outputs |-> v]
          /\ told = [o \in Outputs |-> v]
    BY DEF Init
  <2>2. flags = [o \in Outputs |-> NewFlags] /\ flags \in [Outputs -> Flags]
    BY NewFlagsFacts DEF Init
  <2>3. /\ left \in [Outputs -> 0..Steps] /\ changes \in 0..MaxChanges
        /\ pic \in [Outputs -> Slots]
        /\ shown \in [Outputs -> Scenes \cup {Nothing}]
    BY DEF Init, Slots
  <2>4. /\ surf \in [Outputs -> {"absent", "created", "drawable"}]
        /\ decode \in [Outputs -> {"idle", "wanted", "running", "landed"}]
        /\ cb \in [Outputs -> Callback] /\ ghost \in [Outputs -> Callback]
        /\ cfg \in [Outputs -> Mail] /\ closing \in [Outputs -> Mail]
        /\ hello \in [Outputs -> Mail]
    BY DEF Init, Callback, Mail
  <2>5. /\ states \in SUBSET Outputs /\ pending \in SUBSET Outputs
        /\ stale \in BOOLEAN /\ woken \in BOOLEAN /\ again \in BOOLEAN
        /\ phase \in Phases
    BY DEF Init, Phases
  <2>6. /\ look \in [Outputs -> Looks] /\ value \in [Outputs -> Values]
        /\ told \in [Outputs -> Values]
    BY <2>1
  <2>. QED BY <2>2, <2>3, <2>4, <2>5, <2>6 DEF TypeOK
<1>2. CallbackAccounting
  BY NewFlagsFacts DEF Init, CallbackAccounting, Drawable
<1>3. QueueInv
  BY DEF Init, QueueInv, Queued, InMail
<1>4. SurfaceInv /\ PendingInv
  BY DEF Init, SurfaceInv, PendingInv, Drawable
<1>5. ShownInv
  BY DEF Init, ShownInv, Drawable
<1>6. SyncedInv /\ PlannedInv
  BY DEF Init, SyncedInv, Synced, PlannedInv
<1>. QED BY <1>1, <1>2, <1>3, <1>4, <1>5, <1>6 DEF LoopInv

(* Every step of the loop, the compositor or a request preserves the       *)
(* inductive invariant.                                                    *)
LEMMA NextInv == LoopInv /\ [Next]_vars => LoopInv'
<1> SUFFICES ASSUME LoopInv, [Next]_vars PROVE LoopInv'
  OBVIOUS
<1>1. /\ TypeOK /\ CallbackAccounting /\ QueueInv /\ SurfaceInv
      /\ PendingInv /\ ShownInv /\ SyncedInv /\ PlannedInv
  BY DEF LoopInv
<1>2. TypeOK' /\ QueueInv'
  BY <1>1, TypeOKStep, QueueInvStep
<1>3. CallbackAccounting' /\ SurfaceInv' /\ PendingInv'
  BY <1>1, CallbackAccountingStep, SurfaceInvStep, PendingInvStep
<1>4. ShownInv' /\ SyncedInv' /\ PlannedInv'
  BY <1>1, ShownInvStep, SyncedInvStep, PlannedInvStep
<1>. QED BY <1>2, <1>3, <1>4 DEF LoopInv

(* The inductive invariant holds in every reachable state of the loop.     *)
THEOREM LoopInvariance == Spec => []LoopInv
BY InitInv, NextInv, PTL DEF Spec

(* Every variable keeps its type.                                          *)
THEOREM TypeCorrect == Spec => []TypeOK
<1>1. LoopInv => TypeOK
  BY DEF LoopInv
<1>. QED BY <1>1, LoopInvariance, PTL

(* A surface waits exactly when one answer is owed to it (`submitted`, the *)
(* WlCallback handler), and a destroyed surface's answer never reaches the *)
(* surface that takes its place.                                           *)
THEOREM CallbacksAccounted == Spec => []CallbackAccounting
<1>1. LoopInv => CallbackAccounting
  BY DEF LoopInv
<1>. QED BY <1>1, LoopInvariance, PTL

(* `settle` never lets the thread sleep on an event already read.          *)
THEOREM Drains == Spec => []DrainedBeforeSleep
<1>1. LoopInv => DrainedBeforeSleep
  BY DEF LoopInv, QueueInv, DrainedBeforeSleep, Asleep
<1>. QED BY <1>1, LoopInvariance, PTL

(* `settle` never lets the thread sleep on a target it has not resolved.   *)
THEOREM Resolves == Spec => []ResolvedBeforeSleep
<1>1. LoopInv => ResolvedBeforeSleep
  BY DEF LoopInv, SyncedInv, Synced, ResolvedBeforeSleep
<1>. QED BY <1>1, LoopInvariance, PTL

(* A surface that owes nothing shows the scene its state describes.        *)
LEMMA ShowsItsScene ==
  ASSUME LoopInv, NEW o \in states, ~Owing(o)
  PROVE shown[o] = Scene(o) /\ Settled(o)
<1>1. /\ o \in Outputs /\ Drawable(o)
      /\ shown[o] \in Scenes \cup {Nothing} /\ left[o] \in 0..Steps
  BY DEF LoopInv, TypeOK, SurfaceInv
<1>2. /\ ~flags[o].dirty /\ ~flags[o].running
      /\ Settled(o) /\ Presented(o) = pic[o]
  BY DEF Owing
<1>3. /\ shown[o] # Nothing
      /\ shown[o].look = look[o] /\ shown[o].value = value[o]
      /\ ~(shown[o].left > 0)
  BY <1>1, <1>2 DEF LoopInv, ShownInv
<1>4. shown[o].pic = pic[o]
  BY <1>2, <1>3 DEF Presented
<1>5. shown[o].left = 0 /\ left[o] = 0
  BY <1>1, <1>2, <1>3 DEF Settled, Scenes
<1>. QED BY <1>1, <1>2, <1>3, <1>4, <1>5 DEF Scene, Scenes

(* What the screen does not show yet is recorded as a debt at every        *)
(* moment: by the flags, by an unfinished animation, or by the wallpaper   *)
(* presented not being the slot's.                                         *)
THEOREM DebtIsRecorded == Spec => []DebtRecorded
<1>1. ASSUME LoopInv, NEW o \in states, shown[o] # Scene(o)
      PROVE Owed(Checked(o), Settled(o))
  <2>1. TypeOK /\ o \in Outputs
    BY <1>1 DEF LoopInv, TypeOK
  <2>2. Owing(o)
    BY <1>1, ShowsItsScene
  <2>. QED BY <2>1, <2>2, PassFacts
<1>2. LoopInv => DebtRecorded
  BY <1>1 DEF DebtRecorded
<1>. QED BY <1>2, LoopInvariance, PTL

(* Asleep, every drawable output shows its settled state or something is   *)
(* on its way that wakes the loop: no animation, edit or wallpaper is ever *)
(* stranded between `draw` and the poll.                                   *)
THEOREM NeverStranded == Spec => []NothingStranded
<1>1. ASSUME LoopInv, Asleep, NEW o \in Outputs, Drawable(o)
      PROVE \/ shown[o] = Scene(o) /\ Settled(o)
            \/ cb[o] \in {"held", "wire"}
            \/ decode[o] \in {"running", "landed"}
  <2>1. o \in states /\ pending = {}
    BY <1>1 DEF LoopInv, SurfaceInv, PendingInv, Asleep
  <2>2. CASE ~Owing(o)
    BY <1>1, <2>1, <2>2, ShowsItsScene
  <2>3. CASE flags[o].awaiting
    <3>1. cb[o] \in Callback /\ cb[o] # "none"
      BY <1>1, <2>3 DEF LoopInv, TypeOK, CallbackAccounting
    <3>2. cb[o] # "queue"
      BY <1>1 DEF LoopInv, QueueInv, Queued, InMail, Asleep
    <3>. QED BY <3>1, <3>2 DEF Callback, Mail
  <2>4. CASE Owing(o) /\ ~flags[o].awaiting
    <3>1. ~Resident(o)
      BY <1>1, <2>1, <2>4
      DEF LoopInv, PlannedInv, Planned, Synced, Asleep
    <3>2. /\ decode[o] \in {"idle", "wanted", "running", "landed"}
          /\ decode[o] # "wanted"
      BY <1>1 DEF LoopInv, TypeOK, SyncedInv, Synced
    <3>. QED BY <3>1, <3>2 DEF Resident
  <2>. QED BY <2>2, <2>3, <2>4
<1>2. LoopInv => NothingStranded
  BY <1>1 DEF NothingStranded
<1>. QED BY <1>2, LoopInvariance, PTL

-----------------------------------------------------------------------------
(***************************************************************************)
(* The loop implements Display.                                            *)
(***************************************************************************)
USE DEF D!vars

(* What the refinement mapping yields. *)
WishOK ==
  /\ Wish \in [Outputs -> Scenes \cup {Nothing}]
  /\ Usable \in [Outputs -> BOOLEAN]
  /\ \A o \in states : Scene(o) \in Scenes
  /\ \A o \in Outputs : Wish[o] = Nothing <=> o \notin states

(* What the outputs ought to show is a frame, or nothing.                  *)
LEMMA WishType == TypeOK => WishOK
<1> SUFFICES ASSUME TypeOK PROVE WishOK
  OBVIOUS
<1>1. \A o \in states : Scene(o) \in Scenes
  BY DEF TypeOK, Scene, Scenes
<1>2. Usable \in [Outputs -> BOOLEAN]
  BY DEF Usable, Resident
<1>. QED BY <1>1, <1>2, NothingAssumption DEF WishOK, Wish

(* A step that leaves the surfaces and the callbacks alone is, to whoever  *)
(* looks, a change of what ought to be shown.                              *)
LEMMA ChangeStep ==
  ASSUME TypeOK, TypeOK', UNCHANGED <<states, shown>>,
         \A o \in Outputs : cb'[o] = "none" <=> cb[o] = "none"
  PROVE D!Change
<1>1. /\ Wish' \in [Outputs -> Scenes \cup {Nothing}]
      /\ Usable' \in [Outputs -> BOOLEAN]
      /\ \A o \in Outputs : Wish'[o] = Nothing <=> o \notin states'
  <2>1. WishOK'
    BY WishType, PTL
  <2>. QED BY <2>1 DEF WishOK
<1>2. \A o \in Outputs : Wish[o] = Nothing <=> Wish'[o] = Nothing
  BY <1>1, WishType DEF WishOK
<1>3. Ready' = Ready
  BY DEF Ready
<1>. QED BY <1>1, <1>2, <1>3 DEF D!Change

(* A daemon with no output shows nothing, as Display starts.               *)
LEMMA RefineInit == Init => D!Init
<1> SUFFICES ASSUME Init PROVE D!Init
  OBVIOUS
<1>1. Wish = [o \in Outputs |-> Nothing]
  BY DEF Init, Wish
<1>2. Usable \in [Outputs -> BOOLEAN]
  BY DEF Usable, Resident
<1>3. Ready = [o \in Outputs |-> TRUE]
  BY DEF Init, Ready
<1>. QED BY <1>1, <1>2, <1>3 DEF Init, D!Init

(* Every step of the loop is a step of Display or invisible to it.         *)
LEMMA RefineNext == LoopInv /\ LoopInv' /\ [Next]_vars => [D!Next]_D!vars
<1> SUFFICES ASSUME LoopInv, LoopInv', [Next]_vars
             PROVE  D!Next \/ UNCHANGED D!vars
  OBVIOUS
<1>t. /\ TypeOK /\ TypeOK' /\ CallbackAccounting /\ SurfaceInv /\ PendingInv
      /\ WishOK /\ WishOK'
  <2>1. TypeOK /\ TypeOK'
    BY DEF LoopInv
  <2>2. WishOK /\ WishOK'
    BY <2>1, WishType, PTL
  <2>. QED BY <2>1, <2>2 DEF LoopInv
<1>c. ASSUME UNCHANGED <<states, shown>>,
             \A o \in Outputs : cb'[o] = "none" <=> cb[o] = "none"
      PROVE D!Next
  BY <1>c, <1>t, ChangeStep DEF D!Next
<1>r. ASSUME Read
      PROVE \A o \in Outputs : cb'[o] = "none" <=> cb[o] = "none"
  BY <1>r DEF Read
<1>1. ASSUME NEW o \in Outputs,
             Present(o) \/ AnswerGhost(o) \/ Announce(o) \/ Configure(o)
             \/ Reconfigure(o) \/ Close(o) \/ DecodeLands(o)
      PROVE D!Next
  <2>1. /\ UNCHANGED <<states, shown>>
        /\ \A q \in Outputs : cb'[q] = "none" <=> cb[q] = "none"
    BY <1>1, <1>t
    DEF Present, AnswerGhost, Announce, Configure, Reconfigure, Close,
        DecodeLands, TypeOK
  <2>. QED BY <2>1, <1>c
<1>2. CASE Request
  <2>1. UNCHANGED <<states, shown, cb>>
    BY <1>2 DEF Request, OnCompositor, OnSetWallpaper, OnReload
  <2>. QED BY <2>1, <1>c
<1>3. CASE OnDisplay \/ SwapReads
  <2>1. UNCHANGED <<states, shown>> /\ Read
    BY <1>3 DEF OnDisplay, SwapReads
  <2>. QED BY <2>1, <1>r, <1>c
<1>4. CASE NoticedDecode \/ Displayed \/ StartSettle \/ Sync \/ PlanDraw
           \/ SwapDone \/ Drawn \/ Drained
  <2>1. UNCHANGED <<states, shown, cb>>
    BY <1>4
    DEF NoticedDecode, Displayed, StartSettle, Sync, PlanDraw, SwapDone, Drawn,
        Drained
  <2>. QED BY <2>1, <1>c
<1>5. ASSUME NEW o \in Outputs, KeepFrame(o) \/ EnsureSurface(o) \/ GhostDue(o)
      PROVE D!Next
  <2>1. UNCHANGED <<states, shown, cb>>
    BY <1>5 DEF KeepFrame, EnsureSurface, GhostDue
  <2>. QED BY <2>1, <1>c
<1>6. ASSUME NEW o \in Outputs, FrameDue(o) PROVE D!Next
  <2>1. /\ cb[o] # "none" /\ cb' = [cb EXCEPT ![o] = "none"]
        /\ UNCHANGED <<states, shown, pic, look, value, decode>>
        /\ \A q \in Outputs \ {o} : left'[q] = left[q]
    BY <1>6, <1>t DEF FrameDue, Tick, TypeOK
  <2>2. o \in states
    BY <2>1, <1>t DEF CallbackAccounting, SurfaceInv
  <2>3. Wish' = [Wish EXCEPT ![o] = Scene(o)'] /\ Scene(o)' \in Scenes
    BY <2>1, <2>2, <1>t DEF Wish, WishOK, Scene
  <2>4. ~Ready[o] /\ Ready' = [Ready EXCEPT ![o] = TRUE]
    BY <2>1, <1>t DEF Ready, TypeOK
  <2>5. UNCHANGED <<Usable, shown>>
    BY <2>1 DEF Usable, Resident
  <2>6. D!Answer(o)
    BY <2>3, <2>4, <2>5 DEF D!Answer
  <2>. QED BY <2>6 DEF D!Next
<1>7. ASSUME NEW o \in Outputs, Configured(o) PROVE D!Next
  <2>1. UNCHANGED <<shown, cb>>
    BY <1>7 DEF Configured
  <2>2. CASE o \in states
    BY <1>7, <2>1, <2>2, <1>c DEF Configured
  <2>3. CASE o \notin states
    <3>1. /\ states' = states \cup {o}
          /\ \A q \in Outputs \ {o} :
               UNCHANGED <<pic[q], look[q], value[q], left[q], decode[q]>>
      BY <1>7, <2>3, <1>t DEF Configured, Choose, TypeOK
    <3>2. Wish[o] = Nothing /\ Scene(o)' \in Scenes
      BY <2>3, <3>1, <1>t DEF WishOK
    <3>3. Wish' = [Wish EXCEPT ![o] = Scene(o)']
      BY <3>1 DEF Wish, Scene
    <3>4. Usable' = [Usable EXCEPT ![o] = Resident(o)'] /\ Resident(o)' \in BOOLEAN
      BY <3>1 DEF Usable, Resident
    <3>5. UNCHANGED <<shown, Ready>>
      BY <2>1 DEF Ready
    <3>6. D!Appear(o)
      BY <3>2, <3>3, <3>4, <3>5 DEF D!Appear
    <3>. QED BY <3>6 DEF D!Next
  <2>. QED BY <2>2, <2>3
<1>8. ASSUME NEW o \in Outputs, Closed(o) PROVE D!Next
  <2>1. /\ states' = states \ {o} /\ shown' = [shown EXCEPT ![o] = Nothing]
        /\ cb' = [cb EXCEPT ![o] = "none"]
        /\ \A q \in Outputs \ {o} :
             UNCHANGED <<pic[q], look[q], value[q], left[q], decode[q]>>
    BY <1>8, <1>t DEF Closed, TypeOK
  <2>2. Wish' = [Wish EXCEPT ![o] = Nothing]
    BY <2>1 DEF Wish, Scene
  <2>3. Usable' = [Usable EXCEPT ![o] = Resident(o)'] /\ Resident(o)' \in BOOLEAN
    BY <2>1 DEF Usable, Resident
  <2>4. Ready' = [Ready EXCEPT ![o] = TRUE]
    BY <2>1, <1>t DEF Ready, TypeOK
  <2>5. D!Vanish(o)
    BY <2>1, <2>2, <2>3, <2>4 DEF D!Vanish
  <2>. QED BY <2>5 DEF D!Next
<1>9. ASSUME NEW o \in Outputs, DrawOutput(o) PROVE D!Next
  <2>1. /\ o \in pending /\ Resident(o)
        /\ shown' = [shown EXCEPT ![o] = Scene(o)]
        /\ cb' = [cb EXCEPT ![o] = "held"]
        /\ UNCHANGED <<states, pic, look, value, left, decode>>
    BY <1>9 DEF DrawOutput
  <2>2. o \in states /\ cb[o] = "none"
    BY <2>1, <1>t DEF PendingInv, SurfaceInv
  <2>3. UNCHANGED <<Wish, Usable>>
    BY <2>1 DEF Wish, Scene, Usable, Resident
  <2>4. Ready[o] /\ Ready' = [Ready EXCEPT ![o] = FALSE]
    BY <2>1, <2>2, <1>t DEF Ready, TypeOK
  <2>5. Usable[o] /\ Wish[o] = Scene(o) /\ Wish[o] # Nothing
    BY <2>1, <2>2, <1>t DEF Usable, Wish, WishOK
  <2>6. D!Show(o)
    BY <2>1, <2>3, <2>4, <2>5 DEF D!Show
  <2>. QED BY <2>6 DEF D!Next
<1>10. CASE UNCHANGED vars
  <2>1. UNCHANGED <<states, pic, look, value, left, decode, shown, cb>>
    BY <1>10 DEF vars
  <2>2. Wish' = Wish /\ Usable' = Usable /\ Ready' = Ready
    BY <2>1 DEF Wish, Scene, Usable, Resident, Ready
  <2>. QED BY <2>1, <2>2
<1>. QED
  BY <1>1, <1>2, <1>3, <1>4, <1>5, <1>6, <1>7, <1>8, <1>9, <1>10
     DEF Next, Environment, Loop, Dispatch, Settle

(* Whatever the interleaving of requests, decodes, callbacks, swaps and    *)
(* outputs coming and going, the loop does only what Display allows.       *)
THEOREM LoopImplementsDisplay == Spec => ImplementsDisplay
BY RefineInit, RefineNext, LoopInvariance, PTL
DEF Spec, ImplementsDisplay, D!Spec

=============================================================================
