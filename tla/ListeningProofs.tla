-------------------------- MODULE ListeningProofs --------------------------
(***************************************************************************)
(* Proofs about what the daemon listens to: ConfigWatch, for any places a  *)
(* link may lead to, any of them in a directory that cannot be watched,    *)
(* and any number of steps of whoever edits the files; Sessions, for       *)
(* either compositor, any wait and any number of changes and outages; and  *)
(* EventLines, for any text.                                               *)
(***************************************************************************)
EXTENDS Sessions, EventLines, ConfigWatch, SequenceTheorems, FiniteSetTheorems, TLAPS

(* The configured path and where a link leads.                             *)
LEMMA PlaceFacts ==
  /\ ConfigPath \in Places /\ ConfigPath.dir = "home" /\ ConfigPath.dir \notin Unwatchable
  /\ \A p \in Elsewhere : p \in Places /\ p # ConfigPath
  /\ \A p \in Places : p.dir \in Dirs /\ p.name \in Names /\ p = [dir |-> p.dir, name |-> p.name]
<1>1. ConfigPath.dir = "home" /\ ConfigPath = [dir |-> ConfigPath.dir, name |-> ConfigPath.name]
  BY DEF ConfigPath
<1>. QED BY <1>1, WatchAssumption DEF Places, Dirs, Names

(* What the type says of the values.                                       *)
LEMMA WatchTypes ==
  ASSUME WatchTypeOK
  PROVE /\ lastWatch \in Nat /\ watches \in [Dirs -> 0..lastWatch]
        /\ queue \in Seq([watch: 1..lastWatch, name: Names \union {"neighbour"}])
        /\ targets \in Seq([watch: 1..lastWatch, dir: Dirs, name: Names])
        /\ loaded \in 0..MaxSteps /\ steps \in 0..MaxSteps /\ MaxSteps \in Nat
        /\ resolving \in BOOLEAN /\ watching \in BOOLEAN
        /\ recent \in BOOLEAN /\ armed \in BOOLEAN /\ pushed \in BOOLEAN
BY WatchAssumption DEF WatchTypeOK

(* A link leads to one of the other places, and only a link leads away.    *)
LEMMA RealFacts ==
  ASSUME WatchTypeOK
  PROVE Real \in Places /\ LookUp \in Found
<1>1. files[ConfigPath] \in {Absent} \union Texts \union {Link(p) : p \in Elsewhere}
  BY PlaceFacts DEF WatchTypeOK
<1>2. IsLink(files[ConfigPath]) => files[ConfigPath].to \in Elsewhere
  BY <1>1 DEF IsLink, Absent, Texts, Link
<1>3. Real \in {ConfigPath} \union Elsewhere
  BY <1>2 DEF Real
<1>. QED BY <1>3 DEF Places, LookUp, Found

(* A reload leaves the text of an edit.                                    *)
LEMMA ReloadedFacts ==
  ASSUME WatchTypeOK
  PROVE Reloaded \in 0..MaxSteps
<1>1. Reads \in {Absent} \union Texts \union {Link(p) : p \in Elsewhere}
  BY RealFacts DEF WatchTypeOK, Reads
<1>2. CASE Reads = Absent
  BY <1>2, WatchTypes DEF Reloaded, Absent, Defaults
<1>3. CASE Reads \in Texts
  <2>1. Reads.is = "text" /\ Reads.edit \in 0..MaxSteps
    BY <1>3 DEF Texts
  <2>. QED BY <2>1, WatchTypes DEF Reloaded
<1>4. CASE Reads \in {Link(p) : p \in Elsewhere}
  <2>1. Reads.is = "link"
    BY <1>4 DEF Link
  <2>. QED BY <2>1, WatchTypes DEF Reloaded
<1>. QED BY <1>1, <1>2, <1>3, <1>4

(* The place the file is named in is kept whatever becomes of the other.   *)
LEMMA KeptFacts ==
  ASSUME found \in Found
  PROVE /\ Kept \in Found /\ DOMAIN Kept \in {{1}, {1, 2}} /\ Kept[1] = ConfigPath
        /\ \A k \in DOMAIN Kept : Kept[k] \in Places
        /\ KeptDirs \subseteq Dirs
        /\ \E d \in Dirs : KeptDirs = {ConfigPath.dir, d}
<1>1. Kept \in Found
  BY DEF Found, Kept
<1>2. PICK p \in Places : Kept = <<ConfigPath>> \/ Kept = <<ConfigPath, p>>
  BY <1>1, PlaceFacts DEF Found
<1>3. CASE Kept = <<ConfigPath>>
  <2>1. DOMAIN Kept = {1} /\ Kept[1] = ConfigPath
    BY <1>3
  <2>2. KeptDirs = {ConfigPath.dir, ConfigPath.dir}
    BY <2>1 DEF KeptDirs
  <2>. QED BY <1>1, <2>1, <2>2, PlaceFacts
<1>4. CASE Kept = <<ConfigPath, p>>
  <2>1. DOMAIN Kept = {1, 2} /\ Kept[1] = ConfigPath /\ Kept[2] = p
    BY <1>4
  <2>2. KeptDirs = {ConfigPath.dir, p.dir}
    BY <2>1 DEF KeptDirs
  <2>. QED BY <1>1, <2>1, <2>2, PlaceFacts
<1>. QED BY <1>2, <1>3, <1>4

(* Two directories at most are new, and each gets a watch of its own.      *)
LEMMA NewFacts ==
  ASSUME WatchTypeOK, found \in Found
  PROVE /\ Cardinality(KeptDirs \ HeldDirs) \in Nat
        /\ \A d \in KeptDirs \ HeldDirs :
             /\ Added(d) \in Nat /\ lastWatch < Added(d)
             /\ Added(d) <= lastWatch + Cardinality(KeptDirs \ HeldDirs)
        /\ \A d, e \in KeptDirs \ HeldDirs : Added(d) = Added(e) => d = e
<1> DEFINE new == KeptDirs \ HeldDirs
           home == ConfigPath.dir
           n == Cardinality(new)
<1>0. lastWatch \in Nat
  BY WatchTypes
<1>1. PICK x \in Dirs : KeptDirs = {home, x}
  BY KeptFacts
<1>2. \A d : d \in new => Added(d) = lastWatch + (IF d = home THEN 1 ELSE n)
  BY DEF Added
<1>3. new \subseteq {home, x}
  BY <1>1
<1> HIDE DEF new, home, n
<1>4. CASE new = {}
  <2>1. n = 0
    BY <1>4, FS_EmptySet DEF n
  <2>. QED BY <1>4, <2>1 DEF n, new
<1>5. ASSUME NEW y, new = {y} PROVE n = 1
  BY <1>5, FS_Singleton DEF n
<1>6. CASE \E y : new = {y}
  <2>1. PICK y : new = {y}
    BY <1>6
  <2>2. n = 1
    BY <2>1, <1>5
  <2>3. Added(y) = lastWatch + 1
    BY <1>2, <2>1, <2>2
  <2>. QED BY <1>0, <2>1, <2>2, <2>3 DEF n, new
<1>7. CASE new = {home, x} /\ home # x
  <2>1. n = 2
    <3>1. IsFiniteSet({home}) /\ Cardinality({home}) = 1
      BY FS_Singleton
    <3>2. Cardinality({home} \union {x}) = 1 + 1
      BY <1>7, <3>1, FS_AddElement
    <3>3. {home} \union {x} = new
      BY <1>7
    <3>. QED BY <3>2, <3>3 DEF n
  <2>2. Added(home) = lastWatch + 1 /\ Added(x) = lastWatch + 2
    BY <1>2, <1>7, <2>1
  <2>. QED BY <1>0, <1>7, <2>1, <2>2 DEF n, new
<1>. QED BY <1>3, <1>4, <1>6, <1>7

-----------------------------------------------------------------------------
(* Wherever a look leads, the watches are those of the places kept: one    *)
(* that a directory had stays, what is new is unlike what was, and what is *)
(* no longer needed goes.                                                  *)
LEMMA RetargetedFacts ==
  ASSUME WatchTypeOK, TargetsHeld, found \in Found, Retargeted
  PROVE /\ lastWatch' \in Nat /\ lastWatch <= lastWatch'
        /\ watches' \in [Dirs -> 0..lastWatch']
        /\ targets' \in Seq([watch: 1..lastWatch', dir: Dirs, name: Names])
        /\ Len(targets') \in 1..2
        /\ \A k \in DOMAIN targets' :
             targets'[k].watch # 0 /\ watches'[targets'[k].dir] = targets'[k].watch
        /\ \A d \in Dirs : watches'[d] # 0 => d \in HeldDirs'
        /\ \A d, e \in Dirs : watches'[d] = watches'[e] /\ watches'[d] # 0 => d = e
        /\ targets'[1].dir = ConfigPath.dir /\ targets'[1].name = ConfigPath.name
<1> DEFINE n == Cardinality(KeptDirs \ HeldDirs)
           w == watches'
<1>1. /\ lastWatch' = lastWatch + n
      /\ w = [d \in Dirs |-> IF d \notin KeptDirs THEN 0
                             ELSE IF d \in HeldDirs THEN watches[d] ELSE Added(d)]
      /\ targets' = [k \in DOMAIN Kept |-> TargetOf(w[Kept[k].dir], Kept[k])]
  BY DEF Retargeted
<1>2. /\ n \in Nat
      /\ \A d \in KeptDirs \ HeldDirs :
           Added(d) \in Nat /\ lastWatch < Added(d) /\ Added(d) <= lastWatch + n
      /\ \A d, e \in KeptDirs \ HeldDirs : Added(d) = Added(e) => d = e
  BY NewFacts
<1>3. lastWatch \in Nat /\ watches \in [Dirs -> 0..lastWatch]
  BY WatchTypes
<1>4. /\ DOMAIN Kept \in {{1}, {1, 2}} /\ Kept[1] = ConfigPath
      /\ \A k \in DOMAIN Kept : Kept[k] \in Places
      /\ KeptDirs \subseteq Dirs /\ KeptDirs = {Kept[k].dir : k \in DOMAIN Kept}
  BY KeptFacts DEF KeptDirs
<1>5. \A d \in HeldDirs : watches[d] # 0
  BY DEF HeldDirs, TargetsHeld
<1>6. \A d, e \in Dirs : watches[d] = watches[e] /\ watches[d] # 0 => d = e
  BY DEF TargetsHeld
<1> HIDE DEF n, w
<1>7. lastWatch' \in Nat /\ lastWatch <= lastWatch'
  BY <1>1, <1>2, <1>3
<1>8. \A d \in Dirs : /\ d \notin KeptDirs => w[d] = 0
                      /\ d \in KeptDirs /\ d \in HeldDirs => w[d] = watches[d]
                      /\ d \in KeptDirs \ HeldDirs => w[d] = Added(d)
  BY <1>1
<1>9. \A d \in Dirs : w[d] \in 0..lastWatch' /\ (d \in KeptDirs => w[d] \in 1..lastWatch')
  <2> SUFFICES ASSUME NEW d \in Dirs
               PROVE w[d] \in 0..lastWatch' /\ (d \in KeptDirs => w[d] \in 1..lastWatch')
    OBVIOUS
  <2>1. CASE d \notin KeptDirs
    BY <1>7, <1>8, <2>1
  <2>2. CASE d \in KeptDirs /\ d \in HeldDirs
    <3>1. watches[d] \in 0..lastWatch /\ watches[d] # 0
      BY <1>3, <1>5, <2>2
    <3>. QED BY <1>3, <1>7, <1>8, <2>2, <3>1
  <2>3. CASE d \in KeptDirs \ HeldDirs
    <3>1. Added(d) \in Nat /\ lastWatch < Added(d) /\ Added(d) <= lastWatch'
      BY <1>1, <1>2, <2>3
    <3>. QED BY <1>3, <1>7, <1>8, <2>3, <3>1
  <2>. QED BY <2>1, <2>2, <2>3
<1>10. w \in [Dirs -> 0..lastWatch']
  BY <1>1, <1>9
<1>11. \A d, e \in Dirs : w[d] = w[e] /\ w[d] # 0 => d = e
  <2> SUFFICES ASSUME NEW d \in Dirs, NEW e \in Dirs, w[d] = w[e], w[d] # 0 PROVE d = e
    OBVIOUS
  <2>1. d \in KeptDirs /\ e \in KeptDirs
    BY <1>8
  <2>2. watches[d] \in 0..lastWatch /\ watches[e] \in 0..lastWatch
    BY <1>3
  <2>3. CASE d \in HeldDirs /\ e \in HeldDirs
    BY <1>6, <1>8, <2>1, <2>3
  <2>4. CASE d \in HeldDirs /\ e \notin HeldDirs
    BY <1>2, <1>3, <1>8, <2>1, <2>2, <2>4
  <2>5. CASE d \notin HeldDirs /\ e \in HeldDirs
    BY <1>2, <1>3, <1>8, <2>1, <2>2, <2>5
  <2>6. CASE d \notin HeldDirs /\ e \notin HeldDirs
    BY <1>2, <1>8, <2>1, <2>6
  <2>. QED BY <2>3, <2>4, <2>5, <2>6
<1>12. \A k \in DOMAIN Kept :
         /\ Kept[k].dir \in KeptDirs /\ Kept[k].dir \in Dirs /\ Kept[k].name \in Names
         /\ targets'[k] = [watch |-> w[Kept[k].dir], dir |-> Kept[k].dir, name |-> Kept[k].name]
  BY <1>1, <1>4, PlaceFacts DEF TargetOf
<1> DEFINE Typed == [watch: 1..lastWatch', dir: Dirs, name: Names]
<1>13. \A k \in DOMAIN Kept : targets'[k] \in Typed
  <2> SUFFICES ASSUME NEW k \in DOMAIN Kept PROVE targets'[k] \in Typed
    OBVIOUS
  <2> DEFINE d == Kept[k].dir
             at == w[d]
             name == Kept[k].name
  <2>1. d \in KeptDirs /\ d \in Dirs /\ name \in Names
        /\ targets'[k] = [watch |-> at, dir |-> d, name |-> name]
    BY <1>12
  <2>2. at \in 1..lastWatch'
    BY <1>9, <2>1
  <2> HIDE DEF d, at, name
  <2>. QED BY <2>1, <2>2
<1>14. DOMAIN targets' = DOMAIN Kept
  BY <1>1
<1> HIDE DEF Typed
<1>15. targets' \in Seq(Typed) /\ Len(targets') \in 1..2
  <2>1. targets' \in [DOMAIN Kept -> Typed]
    BY <1>1, <1>13, <1>14
  <2>2. DOMAIN Kept = 1..1 \/ DOMAIN Kept = 1..2
    BY <1>4
  <2>3. CASE DOMAIN Kept = 1..1
    <3>1. targets' \in Seq(Typed)
      BY <2>1, <2>3, SeqDef
    <3>2. Len(targets') \in Nat /\ DOMAIN targets' = 1..Len(targets')
      BY <3>1, LenProperties
    <3>. QED BY <1>14, <2>3, <3>1, <3>2
  <2>4. CASE DOMAIN Kept = 1..2
    <3>1. targets' \in Seq(Typed)
      BY <2>1, <2>4, SeqDef
    <3>2. Len(targets') \in Nat /\ DOMAIN targets' = 1..Len(targets')
      BY <3>1, LenProperties
    <3>. QED BY <1>14, <2>4, <3>1, <3>2
  <2>. QED BY <2>2, <2>3, <2>4
<1>16. \A k \in DOMAIN targets' : targets'[k].watch # 0 /\ w[targets'[k].dir] = targets'[k].watch
  <2> SUFFICES ASSUME NEW k \in DOMAIN targets'
               PROVE targets'[k].watch # 0 /\ w[targets'[k].dir] = targets'[k].watch
    OBVIOUS
  <2>1. w[Kept[k].dir] \in 1..lastWatch'
    BY <1>9, <1>12, <1>14
  <2>. QED BY <1>12, <1>14, <2>1
<1>17. HeldDirs' = KeptDirs
  <2>1. HeldDirs' = {targets'[k].dir : k \in DOMAIN targets'}
    BY DEF HeldDirs
  <2>. QED BY <1>4, <1>12, <1>14, <2>1
<1>18. \A d \in Dirs : w[d] # 0 => d \in HeldDirs'
  BY <1>8, <1>17
<1>19. targets'[1].dir = ConfigPath.dir /\ targets'[1].name = ConfigPath.name
  <2>1. 1 \in DOMAIN Kept
    BY <1>4
  <2>2. targets'[1] = [watch |-> w[Kept[1].dir], dir |-> Kept[1].dir, name |-> Kept[1].name]
    BY <1>12, <2>1
  <2>3. targets'[1].dir = Kept[1].dir /\ targets'[1].name = Kept[1].name
    BY <2>2
  <2>. QED BY <1>4, <2>3
<1>. QED BY <1>7, <1>10, <1>11, <1>15, <1>16, <1>18, <1>19 DEF w, Typed

-----------------------------------------------------------------------------
(* Nothing is watched twice, and events are of watches that were added.    *)
WatchInv == WatchTypeOK /\ WatchesHeld

(* It holds at the start.                                                  *)
LEMMA WatchStarts == WatchInit => WatchInv
<1> SUFFICES ASSUME WatchInit PROVE WatchInv
  OBVIOUS
<1>1. MaxSteps \in Nat
  BY WatchAssumption
<1>2. files \in [Places -> {Absent} \union Texts \union {Link(p) : p \in Elsewhere}]
  <2>1. Empty \in Texts
    BY <1>1 DEF Empty, Contents, Texts
  <2>. QED BY <2>1 DEF WatchInit
<1>3. /\ steps = 0 /\ queue = << >> /\ watches = [d \in Dirs |-> 0] /\ lastWatch = 0
      /\ targets = << >> /\ found = << >> /\ resolving = FALSE /\ watching = FALSE
      /\ recent = FALSE /\ armed = FALSE /\ pushed = FALSE /\ loaded = 0
  BY DEF WatchInit, Defaults
<1>4. steps \in 0..MaxSteps /\ loaded \in 0..MaxSteps /\ lastWatch \in Nat
  BY <1>1, <1>3
<1>5. watches \in [Dirs -> 0..lastWatch]
  BY <1>3
<1>6. /\ queue \in Seq([watch: 1..lastWatch, name: Names \union {"neighbour"}])
      /\ targets \in Seq([watch: 1..lastWatch, dir: Dirs, name: Names])
      /\ Len(targets) = 0
  BY <1>3
<1>7. WatchTypeOK
  <2>1. {resolving, watching, recent, armed, pushed} \subseteq BOOLEAN
    BY <1>3
  <2>2. /\ Len(targets) \in (IF watching THEN 1..2 ELSE {0})
        /\ found \in (IF resolving THEN Found ELSE {<< >>})
    BY <1>3, <1>6
  <2>. QED BY <1>2, <1>4, <1>5, <1>6, <2>1, <2>2 DEF WatchTypeOK
<1>8. TargetsHeld
  BY <1>3 DEF TargetsHeld
<1>. QED BY <1>3, <1>7, <1>8 DEF WatchInv, WatchesHeld, DeadlineKept

(* What an edit tells is of the watch its directory has.                   *)
LEMMA NotifyFacts ==
  ASSUME WatchTypeOK, NEW p \in Places, Notify(p)
  PROVE queue' \in Seq([watch: 1..lastWatch, name: Names \union {"neighbour"}])
<1> DEFINE Event == [watch: 1..lastWatch, name: Names \union {"neighbour"}]
           event == [watch |-> watches[p.dir], name |-> p.name]
<1>1. queue \in Seq(Event)
  BY WatchTypes
<1>2. CASE watches[p.dir] = 0
  BY <1>1, <1>2 DEF Notify
<1>3. CASE watches[p.dir] # 0
  <2>1. watches[p.dir] \in 1..lastWatch
    BY <1>3, WatchTypes, PlaceFacts
  <2>2. event \in Event
    BY <2>1, PlaceFacts
  <2>3. queue' = Append(queue, event)
    BY <1>3 DEF Notify
  <2> HIDE DEF event, Event
  <2>4. queue' \in Seq(Event)
    BY <1>1, <2>2, <2>3, AppendProperties
  <2>. QED BY <2>4 DEF Event
<1>. QED BY <1>2, <1>3

(* Whoever edits the files moves no watch.                                 *)
LEMMA EditorsStep == ASSUME WatchInv, Editors PROVE WatchInv'
<1> DEFINE Files == {Absent} \union Texts \union {Link(p) : p \in Elsewhere}
           Event == [watch: 1..lastWatch, name: Names \union {"neighbour"}]
<1>0. WatchTypeOK /\ WatchesHeld
  BY DEF WatchInv
<1>1. Editing
  BY DEF Editors, Truncate, Fill, Replace, Delete, Repoint, Unlink, Neighbour
<1>2. steps' \in 0..MaxSteps /\ steps' = steps + 1
      /\ UNCHANGED <<watches, lastWatch, targets, found, resolving, watching,
                     recent, armed, pushed, loaded>>
  BY <1>0, <1>1, WatchTypes DEF Editing, deadline
<1>3. files \in [Places -> Files] /\ queue \in Seq(Event)
  BY <1>0, WatchTypes DEF WatchTypeOK
<1>4. /\ Absent \in Files /\ Empty \in Files /\ \A p \in Elsewhere : Link(p) \in Files
      /\ \A good \in BOOLEAN : Contents(steps', good) \in Files
  <2>1. 0 \in 0..MaxSteps
    BY <1>0, WatchTypes
  <2>2. \A e \in 0..MaxSteps, good \in BOOLEAN : Contents(e, good) \in Texts
    BY DEF Contents, Texts
  <2>. QED BY <1>2, <2>1, <2>2 DEF Empty
<1> HIDE DEF Files, Event
<1>5. ASSUME NEW p \in Places, NEW x \in Files, Put(p, x)
      PROVE files' \in [Places -> Files]
  BY <1>3, <1>5 DEF Put
<1>6. \A p \in Places : Notify(p) => queue' \in Seq(Event)
  BY <1>0, NotifyFacts DEF Event
<1>7. files' \in [Places -> Files] /\ queue' \in Seq(Event)
  <2>1. ASSUME NEW p \in Places, Truncate(p)
        PROVE files' \in [Places -> Files] /\ queue' \in Seq(Event)
    <3>1. Put(p, Empty) /\ (Notify(p) \/ queue' = queue)
      BY <2>1 DEF Truncate
    <3>. QED BY <1>3, <1>4, <1>5, <1>6, <3>1
  <2>2. ASSUME NEW p \in Places, Fill(p)
        PROVE files' \in [Places -> Files] /\ queue' \in Seq(Event)
    <3>1. Notify(p) /\ \E good \in BOOLEAN : Put(p, Contents(steps', good))
      BY <2>2 DEF Fill
    <3>. QED BY <1>4, <1>5, <1>6, <3>1
  <2>3. ASSUME NEW p \in Places, Replace(p) \/ Delete(p)
        PROVE files' \in [Places -> Files] /\ queue' \in Seq(Event)
    <3>1. Notify(p) /\ (Put(p, Contents(steps', TRUE)) \/ Put(p, Absent))
      BY <2>3 DEF Replace, Delete
    <3>. QED BY <1>4, <1>5, <1>6, <3>1
  <2>4. ASSUME NEW p \in Elsewhere, Repoint(p)
        PROVE files' \in [Places -> Files] /\ queue' \in Seq(Event)
    <3>1. Notify(ConfigPath) /\ Put(ConfigPath, Link(p))
      BY <2>4 DEF Repoint
    <3>. QED BY <1>4, <1>5, <1>6, <3>1, PlaceFacts
  <2>5. CASE Unlink
    <3>1. Notify(ConfigPath) /\ Put(ConfigPath, Absent)
      BY <2>5 DEF Unlink
    <3>. QED BY <1>4, <1>5, <1>6, <3>1, PlaceFacts
  <2>6. ASSUME NEW d \in Dirs, Neighbour(d)
        PROVE files' \in [Places -> Files] /\ queue' \in Seq(Event)
    <3> DEFINE event == [watch |-> watches[d], name |-> "neighbour"]
    <3>1. files' = files /\ queue' = Append(queue, event) /\ watches[d] # 0
      BY <2>6 DEF Neighbour
    <3>2. watches[d] \in 1..lastWatch
      BY <1>0, <3>1, WatchTypes
    <3>3. event \in Event
      BY <3>2 DEF Event
    <3> HIDE DEF event
    <3>. QED BY <1>3, <3>1, <3>3, AppendProperties
  <2>. QED BY <2>1, <2>2, <2>3, <2>4, <2>5, <2>6 DEF Editors
<1>8. WatchTypeOK'
  BY <1>0, <1>2, <1>7 DEF WatchTypeOK, Files, Event
<1>9. WatchesHeld'
  BY <1>0, <1>2 DEF WatchesHeld, TargetsHeld, DeadlineKept, HeldDirs
<1>. QED BY <1>8, <1>9 DEF WatchInv

(* Neither does what the daemon does about events and time.                *)
LEMMA LoopStep ==
  ASSUME WatchInv, LookAround \/ Changed \/ Quiet \/ Settled \/ Asked
  PROVE WatchInv'
<1>0. WatchTypeOK /\ TargetsHeld /\ DeadlineKept
  BY DEF WatchInv, WatchesHeld
<1>1. /\ lastWatch \in Nat /\ Reloaded \in 0..MaxSteps /\ LookUp \in Found
      /\ queue \in Seq([watch: 1..lastWatch, name: Names \union {"neighbour"}])
  BY <1>0, WatchTypes, ReloadedFacts, RealFacts
<1>2. UNCHANGED <<files, steps, watches, lastWatch, targets, watching>>
  BY DEF LookAround, Changed, Quiet, Settled, Asked, kernel
<1>3. TargetsHeld'
  BY <1>0, <1>2 DEF TargetsHeld, HeldDirs
<1>4. CASE LookAround
  <2>1. found' \in Found /\ resolving' = TRUE /\ UNCHANGED <<queue, recent, armed, pushed, loaded>>
    BY <1>1, <1>4 DEF LookAround, kernel, deadline
  <2>. QED BY <1>0, <1>2, <1>3, <2>1 DEF WatchInv, WatchTypeOK, WatchesHeld, DeadlineKept
<1>5. CASE Changed
  <2>1. PICK n \in 1..Len(queue) :
          /\ queue' = SubSeq(queue, n + 1, Len(queue))
          /\ \/ resolving' = TRUE /\ found' = LookUp
             \/ UNCHANGED <<resolving, found>>
    BY <1>5 DEF Changed
  <2>2. UNCHANGED <<recent, armed, pushed, loaded>>
    BY <1>5 DEF Changed, deadline
  <2>3. queue' \in Seq([watch: 1..lastWatch, name: Names \union {"neighbour"}])
    <3> DEFINE Event == [watch: 1..lastWatch, name: Names \union {"neighbour"}]
    <3> HIDE DEF Event
    <3>1. queue \in Seq(Event)
      BY <1>1 DEF Event
    <3>2. Len(queue) \in Nat /\ \A i \in 1..Len(queue) : queue[i] \in Event
      BY <3>1, LenProperties, ElementOfSeq
    <3>3. n + 1 \in Int /\ Len(queue) \in Int /\ \A i \in (n + 1)..Len(queue) : queue[i] \in Event
      BY <3>2
    <3>4. SubSeq(queue, n + 1, Len(queue)) \in Seq(Event)
      BY <3>3, SubSeqProperties
    <3>. QED BY <2>1, <3>4 DEF Event
  <2>4. resolving' \in BOOLEAN /\ found' \in (IF resolving' THEN Found ELSE {<< >>})
    <3>1. CASE resolving' = TRUE /\ found' = LookUp
      BY <1>1, <3>1
    <3>2. CASE UNCHANGED <<resolving, found>>
      BY <1>0, <3>2, WatchTypes DEF WatchTypeOK
    <3>. QED BY <2>1, <3>1, <3>2
  <2>5. WatchTypeOK'
    BY <1>0, <1>2, <2>2, <2>3, <2>4 DEF WatchTypeOK
  <2>. QED BY <1>0, <1>3, <2>2, <2>5 DEF WatchInv, WatchesHeld, DeadlineKept
<1>6. CASE Quiet \/ Settled \/ Asked
  <2>1. UNCHANGED <<queue, found, resolving>>
    BY <1>6 DEF Quiet, Settled, Asked, kernel
  <2>2. loaded' \in 0..MaxSteps
    BY <1>0, <1>1, <1>6, WatchTypes DEF Quiet, Settled, Asked
  <2>3. recent' \in BOOLEAN /\ armed' \in BOOLEAN /\ pushed' \in BOOLEAN /\ (recent' => armed')
    <3>1. CASE Quiet
      BY <1>0, <3>1, WatchTypes DEF Quiet
    <3>2. CASE Settled
      BY <1>0, <3>2, WatchTypes DEF Settled, DeadlineKept
    <3>3. CASE Asked
      BY <1>0, <3>3, WatchTypes DEF Asked, deadline, DeadlineKept
    <3>. QED BY <1>6, <3>1, <3>2, <3>3
  <2>4. WatchTypeOK'
    BY <1>0, <1>2, <2>1, <2>2, <2>3 DEF WatchTypeOK
  <2>. QED BY <1>3, <2>3, <2>4 DEF WatchInv, WatchesHeld, DeadlineKept
<1>. QED BY <1>4, <1>5, <1>6

(* A look at the places moves the watches to them.                         *)
LEMMA ResolvedStep ==
  ASSUME WatchInv, Resolved \/ StartWatching
  PROVE WatchInv'
<1>0. WatchTypeOK /\ TargetsHeld /\ DeadlineKept
  BY DEF WatchInv, WatchesHeld
<1>1. /\ resolving /\ resolving' = FALSE /\ found' = << >> /\ watching' = TRUE
      /\ UNCHANGED <<files, steps, queue>>
  BY <1>0, WatchTypes DEF Resolved, StartWatching
<1>2. found \in Found
  BY <1>0, <1>1 DEF WatchTypeOK
<1>3. /\ lastWatch' \in Nat /\ lastWatch <= lastWatch'
      /\ watches' \in [Dirs -> 0..lastWatch']
      /\ targets' \in Seq([watch: 1..lastWatch', dir: Dirs, name: Names])
      /\ Len(targets') \in 1..2
      /\ TargetsHeld'
  <2>1. CASE Retargeted
    BY <1>0, <1>2, <2>1, RetargetedFacts DEF TargetsHeld
  <2>2. CASE UNCHANGED <<watches, lastWatch, targets>> /\ watching
    BY <1>0, <2>2 DEF WatchTypeOK, TargetsHeld, HeldDirs
  <2>. QED BY <2>1, <2>2 DEF Resolved, StartWatching
<1>4. queue' \in Seq([watch: 1..lastWatch', name: Names \union {"neighbour"}])
  <2> DEFINE Old == [watch: 1..lastWatch, name: Names \union {"neighbour"}]
             New == [watch: 1..lastWatch', name: Names \union {"neighbour"}]
  <2>1. lastWatch \in Nat /\ queue \in Seq(Old)
    BY <1>0, WatchTypes
  <2>2. Old \subseteq New
    BY <1>3, <2>1
  <2> HIDE DEF Old, New
  <2>3. queue \in Seq(New)
    BY <2>1, <2>2, SeqMonotonic
  <2>. QED BY <1>1, <2>3 DEF New
<1>5. /\ recent' \in BOOLEAN /\ armed' \in BOOLEAN /\ pushed' \in BOOLEAN
      /\ loaded' \in 0..MaxSteps /\ (recent' => armed')
  <2>1. Reloaded \in 0..MaxSteps
    BY <1>0, ReloadedFacts
  <2>2. CASE Resolved
    <3>1. Pushed
      BY <2>2 DEF Resolved
    <3>2. CASE armed /\ recent' = TRUE /\ pushed' = TRUE /\ UNCHANGED <<armed, loaded>>
      BY <1>0, <3>2, WatchTypes
    <3>3. CASE recent' = TRUE /\ armed' = TRUE /\ pushed' = FALSE /\ UNCHANGED loaded
      BY <1>0, <3>3, WatchTypes
    <3>4. CASE loaded' = Reloaded /\ recent' = FALSE /\ UNCHANGED <<armed, pushed>>
      BY <1>0, <2>1, <3>4, WatchTypes
    <3>. QED BY <3>1, <3>2, <3>3, <3>4 DEF Pushed
  <2>3. CASE StartWatching
    BY <1>0, <2>3, WatchTypes DEF StartWatching, deadline, DeadlineKept
  <2>. QED BY <2>2, <2>3
<1>6. WatchTypeOK'
  BY <1>0, <1>1, <1>3, <1>4, <1>5 DEF WatchTypeOK
<1>. QED BY <1>3, <1>5, <1>6 DEF WatchInv, WatchesHeld, DeadlineKept

-----------------------------------------------------------------------------
(* In every reachable state everything has its type and is watched as it   *)
(* should be.                                                              *)
THEOREM WatchInvariance == WatchSpec => []WatchInv
<1>1. WatchInv /\ [WatchNext]_watchVars => WatchInv'
  <2> SUFFICES ASSUME WatchInv, [WatchNext]_watchVars PROVE WatchInv'
    OBVIOUS
  <2>1. CASE UNCHANGED watchVars
    BY <2>1 DEF watchVars, WatchInv, WatchTypeOK, WatchesHeld, TargetsHeld, DeadlineKept, HeldDirs
  <2>. QED BY <2>1, EditorsStep, LoopStep, ResolvedStep DEF WatchNext
<1>. QED BY <1>1, WatchStarts, PTL DEF WatchSpec

(* However the file is saved, removed, linked and linked elsewhere while   *)
(* the loop looks, what the watcher listens to are the live watches of     *)
(* the places it knows, each directory's its own and none left behind, and *)
(* an event of ours that was read is not forgotten (watch.rs:98-134,       *)
(* mod.rs:192-222).                                                        *)
THEOREM WatchesKept == WatchSpec => []WatchesHeld
<1>1. WatchInv => WatchesHeld
  BY DEF WatchInv
<1>. QED BY <1>1, WatchInvariance, PTL

-----------------------------------------------------------------------------
USE DEF compositor, First, Unknown

-----------------------------------------------------------------------------
(* What a sequence is when one more is put at its end.                     *)
LEMMA AppendFacts ==
  ASSUME NEW S, NEW s \in Seq(S), NEW e \in S
  PROVE /\ Append(s, e) \in Seq(S) /\ Len(s) \in Nat
        /\ Len(Append(s, e)) = Len(s) + 1 /\ Append(s, e)[Len(s) + 1] = e
        /\ \A i \in 1..Len(s) : Append(s, e)[i] = s[i]
OBVIOUS

(* What is left when its first is taken.                                   *)
LEMMA TailFacts ==
  ASSUME NEW S, NEW s \in Seq(S), s # << >>
  PROVE /\ Len(s) \in Nat \ {0} /\ Head(s) = s[1] /\ s[1] \in S
        /\ Tail(s) \in Seq(S) /\ Len(Tail(s)) = Len(s) - 1
        /\ \A i \in 1..Len(Tail(s)) : i + 1 \in 1..Len(s) /\ Tail(s)[i] = s[i + 1]
<1>1. /\ Len(s) \in Nat \ {0} /\ Head(s) = s[1] /\ s[1] \in S
      /\ Tail(s) \in Seq(S) /\ Len(Tail(s)) = Len(s) - 1
      /\ \A i \in 1..Len(Tail(s)) : Tail(s)[i] = s[i + 1]
  OBVIOUS
<1>2. \A i \in 1..Len(Tail(s)) : i + 1 \in 1..Len(s)
  BY <1>1
<1>. QED BY <1>1, <1>2

-----------------------------------------------------------------------------
(***************************************************************************)
(* Sessions.                                                               *)
(***************************************************************************)
(* What a compositor says is what it says of itself, or nothing.           *)
LEMMA SaidFacts ==
  /\ Ignored \in Said /\ Ignored.kind = "ignored"
  /\ \A l \in Said : l # Ignored =>
       l.world \in 0..MaxChanges /\ l.kind \in {"change", "partial", "malformed"}
  /\ \A v \in 0..MaxChanges :
       /\ {Told(v), Partial(v), Malformed(v)} \subseteq Said \ {Ignored}
       /\ Told(v).world = v /\ Partial(v).world = v /\ Malformed(v).world = v
<1>1. Ignored \in Said /\ Ignored.kind = "ignored"
  BY DEF Said, Ignored
<1>2. \A l \in Said : l # Ignored =>
        l.world \in 0..MaxChanges /\ l.kind \in {"change", "partial", "malformed"}
  BY DEF Said
<1>3. ASSUME NEW v \in 0..MaxChanges, NEW k \in {"change", "partial", "malformed"}
      PROVE [kind |-> k, world |-> v] \in Said \ {Ignored}
  <2>1. [kind |-> k, world |-> v] \in [kind : {"change", "partial", "malformed"}, world : 0..MaxChanges]
    OBVIOUS
  <2>2. [kind |-> k, world |-> v].kind # Ignored.kind
    BY <1>1
  <2>. QED BY <2>1, <2>2 DEF Said
<1>. QED BY <1>1, <1>2, <1>3 DEF Told, Partial, Malformed

(* A line that is written at the end says what is true now.                *)
LEMMA AppendSays ==
  ASSUME stream \in Seq(Said), NEW l \in Said, l # Ignored, l.world = world',
         stream' = Append(stream, l)
  PROVE stream' \in Seq(Said) /\ SaysNow' /\ ~SaysNothing'
<1>1. /\ stream' \in Seq(Said) /\ Len(stream) \in Nat /\ Len(stream') = Len(stream) + 1
      /\ stream'[Len(stream) + 1] = l /\ DOMAIN stream' = 1..Len(stream')
  BY AppendFacts
<1>2. Len(stream) + 1 \in DOMAIN stream'
  BY <1>1
<1>3. \A j \in DOMAIN stream' : ~(j > Len(stream) + 1)
  BY <1>1
<1>. QED BY <1>1, <1>2, <1>3 DEF SaysNow, SaysNothing

(* When a line is read, what is left still ends with what is true now, or  *)
(* it was the line that said so.                                           *)
LEMMA TailSays ==
  ASSUME stream \in Seq(Said), stream # << >>, SaysNow \/ SaysNothing,
         stream' = Tail(stream), world' = world
  PROVE /\ stream' \in Seq(Said) /\ Head(stream) \in Said
        /\ \/ SaysNow' /\ ~SaysNothing'
           \/ /\ SaysNothing'
              /\ SaysNothing \/ (Head(stream) # Ignored /\ Head(stream).world = world)
<1>1. /\ Len(stream) \in Nat \ {0} /\ Head(stream) = stream[1] /\ stream[1] \in Said
      /\ stream' \in Seq(Said) /\ Len(stream') = Len(stream) - 1
      /\ DOMAIN stream = 1..Len(stream) /\ DOMAIN stream' = 1..Len(stream')
      /\ \A i \in 1..Len(stream') : i + 1 \in 1..Len(stream) /\ stream'[i] = stream[i + 1]
  BY TailFacts
<1>2. CASE SaysNothing
  BY <1>1, <1>2 DEF SaysNothing
<1>3. CASE SaysNow
  <2>1. PICK i \in DOMAIN stream : /\ stream[i] # Ignored /\ stream[i].world = world
                                   /\ \A j \in DOMAIN stream : j > i => stream[j] = Ignored
    BY <1>3 DEF SaysNow
  <2>2. CASE i = 1
    <3>1. \A j \in 1..Len(stream') : j + 1 > i
      BY <2>2
    <3>. QED BY <1>1, <2>1, <2>2, <3>1 DEF SaysNothing
  <2>3. CASE i # 1
    <3>1. i - 1 \in 1..Len(stream') /\ (i - 1) + 1 = i
      BY <1>1, <2>1, <2>3
    <3>2. stream'[i - 1] = stream[i]
      BY <1>1, <3>1
    <3>3. \A j \in 1..Len(stream') : j > i - 1 => stream'[j] = Ignored
      <4> SUFFICES ASSUME NEW j \in 1..Len(stream'), j > i - 1 PROVE stream'[j] = Ignored
        OBVIOUS
      <4>1. j + 1 \in 1..Len(stream) /\ j + 1 > i /\ stream'[j] = stream[j + 1]
        BY <1>1, <2>1
      <4>. QED BY <1>1, <2>1, <4>1
    <3>. QED BY <1>1, <2>1, <3>1, <3>2, <3>3 DEF SaysNow, SaysNothing
  <2>. QED BY <2>2, <2>3
<1>. QED BY <1>2, <1>3

(* A stream that was opened says nothing, or what it starts with.          *)
LEMMA OpenSays ==
  /\ stream' = << >> => stream' \in Seq(Said) /\ SaysNothing'
  /\ \A l \in Said : stream' = << l >> =>
       /\ stream' \in Seq(Said)
       /\ l = Ignored => SaysNothing'
       /\ l # Ignored /\ l.world = world' => SaysNow' /\ ~SaysNothing'
<1>1. stream' = << >> => stream' \in Seq(Said) /\ SaysNothing'
  BY DEF SaysNothing
<1>2. ASSUME NEW l \in Said, stream' = << l >>
      PROVE /\ stream' \in Seq(Said)
            /\ l = Ignored => SaysNothing'
            /\ l # Ignored /\ l.world = world' => SaysNow' /\ ~SaysNothing'
  <2>1. stream' \in Seq(Said) /\ DOMAIN stream' = 1..1 /\ stream'[1] = l
    BY <1>2
  <2>2. \A i \in 1..1 : i = 1
    OBVIOUS
  <2>3. 1 \in 1..1 /\ ~(1 > 1)
    OBVIOUS
  <2>. QED BY <2>1, <2>2, <2>3 DEF SaysNow, SaysNothing
<1>. QED BY <1>1, <1>2

-----------------------------------------------------------------------------
(* Every wait is one of the range.                                         *)
LEMMA WaitFacts ==
  ASSUME TypeOK
  PROVE /\ Doubled \in First..Longest /\ Reset \in First..Longest
        /\ Counted \in 0..Longest + 1 /\ 1 \in 0..Longest + 1
<1>1. /\ retry \in 1..Longest /\ short \in 0..Longest + 1 /\ long \in BOOLEAN
      /\ Longest \in Nat \ {0}
  BY SessionsAssumption DEF TypeOK
<1>. QED BY <1>1 DEF Doubled, Reset, Counted

(* What the compositor, the clock and the daemon do.                       *)
LEMMA WorldInv ==
  ASSUME SessionsInv, Change \/ Chatter \/ GoAway \/ ComeBack \/ Last10s \/ Stop
  PROVE SessionsInv'
<1>1. TypeOK /\ stream \in Seq(Said)
  BY DEF SessionsInv, TypeOK
<1>2. CASE Change
  <2>1. /\ world' = world + 1 /\ world' \in 0..MaxChanges
        /\ UNCHANGED <<asks, up, refusals, running, phase, retry, long, known, shown, missed, short>>
    <3>1. world \in 0..MaxChanges /\ world < MaxChanges /\ world' = world + 1
      BY <1>1, <1>2 DEF Change, TypeOK
    <3>2. world' \in 0..MaxChanges
      BY <3>1, SessionsAssumption
    <3>. QED BY <1>2, <3>1, <3>2 DEF Change
  <2>2. \/ ~Connected /\ stream' = stream
        \/ \E l \in Said : l # Ignored /\ l.world = world' /\ stream' = Append(stream, l)
    BY <1>2, <2>1, SaidFacts DEF Change
  <2>3. stream' \in Seq(Said) /\ (Connected => SaysNow' /\ ~SaysNothing')
    BY <1>1, <2>2, AppendSays
  <2>4. TypeOK'
    BY <1>1, <2>1, <2>3 DEF TypeOK
  <2>. QED BY <2>1, <2>3, <2>4 DEF SessionsInv, Connected
<1>3. CASE Chatter
  <2>1. /\ stream = << >> /\ stream' = << Ignored >>
        /\ UNCHANGED <<compositor, running, phase, retry, long, known, shown, missed, short>>
    BY <1>3 DEF Chatter
  <2>2. stream' \in Seq(Said) /\ SaysNothing'
    BY <2>1, OpenSays, SaidFacts
  <2>3. SaysNothing
    BY <2>1 DEF SaysNothing
  <2>4. TypeOK'
    BY <1>1, <2>1, <2>2 DEF TypeOK
  <2>. QED BY <2>1, <2>2, <2>3, <2>4 DEF SessionsInv, Connected
<1>4. CASE GoAway \/ ComeBack \/ Last10s \/ Stop
  <2>1. /\ UNCHANGED <<asks, world, stream, phase, retry, known, shown, missed, short>>
        /\ up' \in BOOLEAN /\ refusals' \in 0..MaxOutages /\ long' \in BOOLEAN /\ running' \in BOOLEAN
    <3>1. up \in BOOLEAN /\ refusals \in 0..MaxOutages /\ long \in BOOLEAN /\ running \in BOOLEAN
      BY <1>1 DEF TypeOK
    <3>2. refusals' = refusals \/ (refusals < MaxOutages /\ refusals' = refusals + 1)
      BY <1>4 DEF GoAway, ComeBack, Last10s, Stop
    <3>3. refusals' \in 0..MaxOutages
      BY <3>1, <3>2, SessionsAssumption
    <3>. QED BY <1>4, <3>1, <3>3 DEF GoAway, ComeBack, Last10s, Stop
  <2>2. TypeOK'
    BY <1>1, <2>1 DEF TypeOK
  <2>. QED BY <2>1, <2>2 DEF SessionsInv, Connected, SaysNow, SaysNothing
<1>. QED BY <1>2, <1>3, <1>4

(* The thread between sessions.                                            *)
LEMMA BetweenInv ==
  ASSUME SessionsInv, Spawn \/ Top \/ SessionOver \/ Fail \/ Waited
  PROVE SessionsInv' /\ ~Connected'
<1>1. TypeOK
  BY DEF SessionsInv
<1>2. phase' \in {"never", "top", "dialling", "waiting", "done"}
  BY DEF Spawn, Top, SessionOver, Fail, Waited
<1>3. UNCHANGED <<asks, world, up, running, known, shown, missed>>
  BY DEF Spawn, Top, SessionOver, Fail, Waited
<1>4. stream' = stream \/ stream' = << >>
  BY DEF Spawn, Top, SessionOver, Fail, Waited
<1>5. stream' \in Seq(Said)
  BY <1>1, <1>4, OpenSays DEF TypeOK
<1>6. /\ retry' = retry \/ retry' = Doubled \/ retry' = Reset
      /\ short' = short \/ short' = 1 \/ short' = Counted
      /\ long' = long \/ long' = FALSE
  <2>1. CASE Spawn \/ Top \/ SessionOver \/ Waited
    BY <2>1 DEF Spawn, Top, SessionOver, Waited
  <2>2. CASE Fail
    BY <2>2 DEF Fail
  <2>. QED BY <2>1, <2>2
<1>7. refusals' \in 0..MaxOutages
  <2>1. refusals \in 0..MaxOutages /\ MaxOutages \in Nat /\ up \in BOOLEAN
    BY <1>1, SessionsAssumption DEF TypeOK
  <2>2. refusals' = refusals \/ (refusals < MaxOutages /\ refusals' = refusals + 1)
    BY <2>1 DEF Spawn, Top, SessionOver, Fail, Waited
  <2>. QED BY <2>1, <2>2
<1>8. TypeOK'
  <2>1. retry' \in First..Longest /\ short' \in 0..Longest + 1 /\ long' \in BOOLEAN
    BY <1>1, <1>6, WaitFacts DEF TypeOK
  <2>. QED BY <1>1, <1>2, <1>3, <1>5, <1>7, <2>1 DEF TypeOK
<1>. QED BY <1>2, <1>8 DEF SessionsInv, Connected

(* A session that starts.                                                  *)
LEMMA StartInv ==
  ASSUME SessionsInv, Dial \/ Ask \/ Seed
  PROVE SessionsInv'
<1>1. TypeOK /\ world \in 0..MaxChanges
  BY DEF SessionsInv, TypeOK
<1>2. UNCHANGED <<compositor, running, retry, long, short>>
  BY DEF Dial, Ask, Seed
<1>3. CASE Dial
  <2>1. /\ known' = Unknown /\ missed' = FALSE /\ shown' = shown /\ world' = world
        /\ \/ phase' = "asking" /\ stream' = << >>
           \/ phase' = "following" /\ stream' = << Told(world) >>
    BY <1>3 DEF Dial, Fresh
  <2>2. Told(world) \in Said /\ Told(world) # Ignored /\ Told(world).world = world
    BY <1>1, SaidFacts
  <2>3. /\ stream' \in Seq(Said) /\ (SaysNow' \/ SaysNothing')
        /\ phase' = "following" => ~SaysNothing'
    BY <2>1, <2>2, OpenSays
  <2>4. TypeOK'
    BY <1>1, <1>2, <2>1, <2>3 DEF TypeOK
  <2>. QED BY <2>1, <2>3, <2>4 DEF SessionsInv, Connected
<1>4. CASE Ask
  <2>1. /\ phase = "asking" /\ phase' = "answered" /\ known' = world /\ UNCHANGED <<stream, shown, missed>>
        /\ world' = world
    BY <1>4 DEF Ask
  <2>2. world # Unknown
    BY <1>1
  <2>3. TypeOK'
    BY <1>1, <1>2, <2>1 DEF TypeOK
  <2>. QED BY <2>1, <2>2, <2>3 DEF SessionsInv, Connected, SaysNow, SaysNothing
<1>5. CASE Seed
  <2>1. /\ phase = "answered" /\ phase' = "following" /\ shown' = known
        /\ UNCHANGED <<stream, known, missed>> /\ world' = world
    BY <1>5 DEF Seed
  <2>3. TypeOK'
    BY <1>1, <1>2, <2>1 DEF TypeOK
  <2>. QED BY <2>1, <2>3 DEF SessionsInv, Connected, SaysNow, SaysNothing
<1>. QED BY <1>3, <1>4, <1>5

(* A line that is read, and an answer to what one left open.               *)
LEMMA FollowInv ==
  ASSUME SessionsInv, ReadLine \/ Resync
  PROVE SessionsInv'
<1>1. TypeOK /\ world \in 0..MaxChanges /\ stream \in Seq(Said)
  BY DEF SessionsInv, TypeOK
<1>2. UNCHANGED <<compositor, running, retry, long, short>>
  BY DEF ReadLine, Resync
<1>3. CASE ReadLine
  <2> DEFINE l == Head(stream)
  <2>1. phase = "following" /\ stream # << >> /\ stream' = Tail(stream) /\ Follow(l) /\ world' = world
    BY <1>3 DEF ReadLine
  <2>2. SaysNow \/ SaysNothing
    BY <2>1 DEF SessionsInv, Connected
  <2>3. /\ stream' \in Seq(Said) /\ l \in Said
        /\ \/ SaysNow' /\ ~SaysNothing'
           \/ SaysNothing' /\ (SaysNothing \/ (l # Ignored /\ l.world = world))
    BY <1>1, <2>1, <2>2, TailSays
  <2>4. /\ l = Ignored => l.kind = "ignored"
        /\ l # Ignored => l.world \in 0..MaxChanges /\ l.kind \in {"change", "partial", "malformed"}
    BY <2>3, SaidFacts
  <2> HIDE DEF l
  <2>5. CASE l = Ignored
    <3>1. UNCHANGED <<known, shown, missed, phase>>
      BY <2>1, <2>4, <2>5 DEF Follow
    <3>2. TypeOK'
      BY <1>1, <1>2, <2>3, <3>1 DEF TypeOK
    <3>. QED BY <2>1, <2>3, <2>5, <3>1, <3>2 DEF SessionsInv, Connected
  <2>6. CASE l # Ignored
    <3>1. SaysNothing' => l.world = world
      BY <2>1, <2>3, <2>6, TailFacts, <1>1 DEF SaysNothing, l
    <3>2. CASE l.kind = "change"
      <4>1. known' = l.world /\ shown' = l.world /\ UNCHANGED <<missed, phase>>
        BY <2>1, <3>2 DEF Follow, Emit
      <4>2. TypeOK'
        BY <1>1, <1>2, <2>3, <2>4, <2>6, <4>1 DEF TypeOK
      <4>. QED BY <2>1, <2>3, <3>1, <4>1, <4>2 DEF SessionsInv, Connected
    <3>3. CASE l.kind = "partial"
      <4>1. known' = l.world /\ phase' = "resyncing" /\ UNCHANGED <<shown, missed>>
        BY <2>1, <3>3 DEF Follow
      <4>2. TypeOK'
        BY <1>1, <1>2, <2>3, <2>4, <2>6, <4>1 DEF TypeOK
      <4>. QED BY <2>3, <4>1, <4>2 DEF SessionsInv, Connected
    <3>4. CASE l.kind = "malformed"
      <4>1. missed' = TRUE /\ UNCHANGED <<known, shown, phase>>
        BY <2>1, <3>4 DEF Follow
      <4>2. TypeOK'
        BY <1>1, <1>2, <2>3, <4>1 DEF TypeOK
      <4>. QED BY <2>1, <2>3, <4>1, <4>2 DEF SessionsInv, Connected
    <3>. QED BY <2>4, <2>6, <3>2, <3>3, <3>4
  <2>. QED BY <2>5, <2>6
<1>4. CASE Resync
  <2>1. /\ phase = "resyncing" /\ phase' = "following" /\ known' = world /\ shown' = world
        /\ UNCHANGED <<missed, stream, world>>
    BY <1>4 DEF Resync, Emit
  <2>2. TypeOK'
    BY <1>1, <1>2, <2>1 DEF TypeOK
  <2>. QED BY <2>1, <2>2 DEF SessionsInv, Connected, SaysNow, SaysNothing
<1>. QED BY <1>3, <1>4

(* The inductive invariant holds in every reachable state: what is still   *)
(* to be read of a connection ends with what is true now, or the daemon    *)
(* was told (niri/mod.rs, hyprland/mod.rs `session`).                      *)
THEOREM SessionsInvariance == Spec => []SessionsInv
<1>1. Init => SessionsInv
  <2> SUFFICES ASSUME Init PROVE SessionsInv
    OBVIOUS
  <2>1. stream \in Seq(Said) /\ ~Connected
    BY DEF Init, Connected
  <2>2. 0 \in 0..MaxChanges /\ 0 \in 0..MaxOutages /\ 1 \in 1..Longest /\ 0 \in 0..Longest + 1
    BY SessionsAssumption
  <2>. QED BY <2>1, <2>2 DEF Init, SessionsInv, TypeOK, Connected
<1>2. SessionsInv /\ UNCHANGED vars => SessionsInv'
  BY DEF vars, SessionsInv, TypeOK, Connected, SaysNow, SaysNothing
<1>3. SessionsInv /\ Next => SessionsInv'
  BY WorldInv, BetweenInv, StartInv, FollowInv DEF Next
<1>. QED BY <1>1, <1>2, <1>3, PTL DEF Spec

(* With every line read, the daemon has been told what is true, unless a   *)
(* line of this session did not parse: nothing that happens while a        *)
(* session starts is lost (hyprland/mod.rs:252-255).                       *)
THEOREM QuietIsCurrent == Spec => []QuietMeansCurrent
<1>1. SessionsInv => QuietMeansCurrent
  BY DEF SessionsInv, QuietMeansCurrent, SaysNothing
<1>. QED BY <1>1, SessionsInvariance, PTL

(* An outage leaves on screen what was there: nothing is told to the       *)
(* daemon but what a session has learned (niri/mod.rs:214-215).            *)
THEOREM LastKnown == Spec => LastKnownStays
<1>1. ASSUME SessionsInv, [Next]_vars, shown' # shown PROVE shown' # Unknown /\ Connected
  <2>1. TypeOK /\ world # Unknown
    BY <1>1 DEF SessionsInv, TypeOK
  <2>2. Seed \/ ReadLine \/ Resync
    BY <1>1
    DEF Next, vars, Change, Chatter, GoAway, ComeBack, Last10s, Stop, Spawn, Top, Dial, Fresh, Ask,
        SessionOver, Fail, Waited
  <2>3. CASE Seed
    BY <1>1, <2>3 DEF Seed, Connected, SessionsInv
  <2>4. CASE Resync
    BY <2>1, <2>4 DEF Resync, Emit, Connected
  <2>5. CASE ReadLine
    <3>1. phase = "following" /\ stream # << >> /\ Follow(Head(stream))
      BY <2>5 DEF ReadLine
    <3>2. Head(stream) \in Said
      BY <2>1, <3>1, TailFacts DEF TypeOK
    <3>3. Head(stream).kind = "change" /\ shown' = Head(stream).world
      <4>1. Head(stream).kind \in {"change", "partial", "ignored", "malformed"}
        BY <3>2, SaidFacts
      <4>. QED BY <1>1, <3>1, <4>1 DEF Follow, Emit
    <3>4. Head(stream).world \in 0..MaxChanges
      BY <3>2, <3>3, SaidFacts
    <3>. QED BY <3>1, <3>3, <3>4 DEF Connected
  <2>. QED BY <2>2, <2>3, <2>4, <2>5
<1>. QED BY <1>1, SessionsInvariance, PTL DEF LastKnownStays, Spec

-----------------------------------------------------------------------------
(***************************************************************************)
(* EventLines.                                                             *)
(***************************************************************************)
(* One sequence after another.                                             *)
LEMMA ConcatFacts ==
  ASSUME NEW S, NEW s \in Seq(S), NEW t \in Seq(S)
  PROVE /\ s \o t \in Seq(S) /\ Len(s) \in Nat /\ Len(t) \in Nat
        /\ Len(s \o t) = Len(s) + Len(t)
        /\ \A i \in 1..Len(s) : (s \o t)[i] = s[i]
        /\ \A i \in 1..Len(t) : (s \o t)[Len(s) + i] = t[i]
        /\ \A i \in 1..Len(s \o t) : i \in 1..Len(s) \/ i - Len(s) \in 1..Len(t)
<1>1. /\ s \o t \in Seq(S) /\ Len(s) \in Nat /\ Len(t) \in Nat /\ Len(s \o t) = Len(s) + Len(t)
      /\ \A i \in 1..Len(s) : (s \o t)[i] = s[i]
  OBVIOUS
<1>2. ASSUME NEW i \in 1..Len(t) PROVE (s \o t)[Len(s) + i] = t[i]
  <2>1. Len(s) + i \in 1..Len(s \o t) /\ ~(Len(s) + i <= Len(s)) /\ (Len(s) + i) - Len(s) = i
    BY <1>1
  <2>. QED BY <2>1
<1>3. \A i \in 1..Len(s \o t) : i \in 1..Len(s) \/ i - Len(s) \in 1..Len(t)
  BY <1>1
<1>. QED BY <1>1, <1>2, <1>3

(* Two sequences of one length and with the same members are the same.     *)
LEMMA SameSequence ==
  ASSUME NEW S, NEW s \in Seq(S), NEW t \in Seq(S), Len(s) = Len(t),
         \A i \in 1..Len(s) : s[i] = t[i]
  PROVE s = t
OBVIOUS

(* A line that was written, and its bytes.                                 *)
LEMMA LineFacts ==
  ASSUME NEW i \in 1..Len(Text)
  PROVE /\ Lines[i] \in Seq(Wire) /\ Len(Lines[i]) = Len(Text[i]) + 1 /\ Len(Text[i]) \in Nat
        /\ DOMAIN Lines[i] = 1..Len(Text[i]) + 1
        /\ \A k \in 1..Len(Text[i]) + 1 :
             /\ Lines[i][k] \in Wire /\ Lines[i][k].of = i
             /\ Lines[i][k].part = "end" <=> k = Len(Text[i]) + 1
<1> DEFINE n == Len(Text[i])
<1>1. n \in Nat /\ \A k \in 1..n : Text[i][k] \in Bytes
  BY TextAssumption
<1>2. Lines[i] = [k \in 1..n + 1 |-> [of |-> i, part |-> IF k <= n THEN Text[i][k] ELSE "end"]]
  BY DEF Lines
<1>3. ASSUME NEW k \in 1..n + 1
      PROVE /\ Lines[i][k] \in Wire /\ Lines[i][k].of = i
            /\ Lines[i][k].part = "end" <=> k = n + 1
  <2>1. CASE k \in 1..n
    <3>1. Text[i][k] \in Bytes /\ k <= n /\ k # n + 1
      BY <1>1, <2>1
    <3>2. Lines[i][k] = [of |-> i, part |-> Text[i][k]]
      BY <1>2, <3>1
    <3>3. Text[i][k] # "end"
      BY <3>1 DEF Bytes
    <3>. QED BY <3>1, <3>2, <3>3 DEF Wire
  <2>2. CASE k = n + 1
    <3>1. ~(k <= n)
      BY <1>1, <2>2
    <3>2. Lines[i][k] = [of |-> i, part |-> "end"]
      BY <1>2, <3>1
    <3>. QED BY <2>2, <3>2 DEF Wire
  <2>. QED BY <1>1, <2>1, <2>2
<1> HIDE DEF n
<1>4. Lines[i] \in [1..n + 1 -> Wire] /\ n + 1 \in Nat
  BY <1>1, <1>2, <1>3
<1>5. Lines[i] \in Seq(Wire) /\ Len(Lines[i]) = n + 1 /\ DOMAIN Lines[i] = 1..n + 1
  BY <1>4
<1>. QED BY <1>1, <1>3, <1>5 DEF n

(* A place with something after it.                                        *)
LEMMA PointFacts ==
  ASSUME NEW p \in Points, p # End
  PROVE /\ p.line + 1 \in 1..Len(Text) /\ p.line \in Nat /\ p.line < Len(Text)
        /\ p.byte \in Nat /\ p.byte <= Len(Text[p.line + 1])
        /\ p.byte + 1 \in 1..Len(Lines[p.line + 1])
        /\ Byte(p) \in Wire /\ Byte(p).of = p.line + 1 /\ Byte(p) = Lines[p.line + 1][p.byte + 1]
        /\ Byte(p).part = "end" <=> p.byte = Len(Text[p.line + 1])
        /\ After(p) \in Points
        /\ Byte(p).part = "end" => After(p).line = p.line + 1 /\ After(p).byte = 0
        /\ Byte(p).part # "end" => After(p).line = p.line /\ After(p).byte = p.byte + 1
<1> DEFINE l == p.line
           b == p.byte
<1>0. Len(Text) \in Nat
  BY TextAssumption
<1>1. /\ p \in [line : 0..Len(Text), byte : Nat] /\ p = [line |-> l, byte |-> b]
      /\ l \in 0..Len(Text) /\ b \in Nat
      /\ IF l = Len(Text) THEN b = 0 ELSE b <= Len(Text[l + 1])
  BY DEF Points
<1>2. l # Len(Text)
  BY <1>1 DEF End
<1>3. l + 1 \in 1..Len(Text) /\ l \in Nat /\ l < Len(Text) /\ b <= Len(Text[l + 1])
  BY <1>0, <1>1, <1>2
<1>4. /\ Len(Text[l + 1]) \in Nat /\ Len(Lines[l + 1]) = Len(Text[l + 1]) + 1
      /\ \A k \in 1..Len(Text[l + 1]) + 1 :
           /\ Lines[l + 1][k] \in Wire /\ Lines[l + 1][k].of = l + 1
           /\ Lines[l + 1][k].part = "end" <=> k = Len(Text[l + 1]) + 1
  BY <1>3, LineFacts
<1>5. b + 1 \in 1..Len(Text[l + 1]) + 1 /\ (b + 1 = Len(Text[l + 1]) + 1 <=> b = Len(Text[l + 1]))
  BY <1>1, <1>3, <1>4
<1>6. Byte(p) = Lines[l + 1][b + 1]
  BY DEF Byte
<1>7. /\ Byte(p) \in Wire /\ Byte(p).of = l + 1
      /\ Byte(p).part = "end" <=> b = Len(Text[l + 1])
  BY <1>4, <1>5, <1>6
<1>8. CASE Byte(p).part = "end"
  <2>1. After(p) = [line |-> l + 1, byte |-> 0]
    BY <1>8 DEF After
  <2>2. l + 1 \in 0..Len(Text) /\ (l + 1 # Len(Text) => (l + 1) + 1 \in 1..Len(Text))
    BY <1>0, <1>3
  <2>3. l + 1 # Len(Text) => 0 <= Len(Text[(l + 1) + 1])
    <3>1. \A i \in 1..Len(Text) : 0 <= Len(Text[i])
      BY LineFacts
    <3>. QED BY <2>2, <3>1
  <2>4. After(p) \in Points
    BY <2>1, <2>2, <2>3 DEF Points
  <2>. QED BY <1>1, <1>3, <1>4, <1>5, <1>6, <1>7, <1>8, <2>1, <2>4
<1>9. CASE Byte(p).part # "end"
  <2>1. After(p) = [line |-> l, byte |-> b + 1]
    BY <1>1, <1>9 DEF After
  <2>2. b + 1 <= Len(Text[l + 1]) /\ b + 1 \in Nat
    BY <1>1, <1>3, <1>4, <1>7, <1>9
  <2>3. After(p) \in Points
    BY <1>1, <1>2, <2>1, <2>2 DEF Points
  <2>. QED BY <1>1, <1>3, <1>4, <1>5, <1>6, <1>7, <1>9, <2>1, <2>3
<1>. QED BY <1>8, <1>9

(* The reader stays behind what has arrived, whichever goes on.            *)
LEMMA BehindFacts ==
  ASSUME NEW p \in Points, NEW q \in Points, Behind(p, q)
  PROVE /\ p # q => p # End /\ Behind(After(p), q)
        /\ q # End => Behind(p, After(q))
<1>1. /\ p.line \in Nat /\ p.byte \in Nat /\ q.line \in Nat /\ q.byte \in Nat
      /\ p = [line |-> p.line, byte |-> p.byte] /\ q = [line |-> q.line, byte |-> q.byte]
      /\ p.line <= Len(Text) /\ q.line <= Len(Text) /\ Len(Text) \in Nat
      /\ q.line = Len(Text) => q.byte = 0
      /\ q.line # Len(Text) => q.byte <= Len(Text[q.line + 1])
  BY TextAssumption DEF Points
<1>2. ASSUME p # q PROVE p # End /\ Behind(After(p), q)
  <2>1. p # End
    <3> SUFFICES ASSUME p = End PROVE FALSE
      OBVIOUS
    <3>1. p.line = Len(Text) /\ p.byte = 0
      BY DEF End
    <3>2. q.line = Len(Text)
      BY <1>1, <3>1 DEF Behind
    <3>. QED BY <1>1, <1>2, <3>1, <3>2
  <2>. SUFFICES Behind(After(p), q)
    BY <2>1
  <2>2. /\ Byte(p).part = "end" <=> p.byte = Len(Text[p.line + 1])
        /\ Byte(p).part = "end" => After(p).line = p.line + 1 /\ After(p).byte = 0
        /\ Byte(p).part # "end" => After(p).line = p.line /\ After(p).byte = p.byte + 1
        /\ p.line < Len(Text) /\ Len(Text[p.line + 1]) \in Nat
    BY <2>1, PointFacts, LineFacts
  <2>3. CASE p.line < q.line
    <3>1. p.line + 1 < q.line \/ (p.line + 1 = q.line /\ 0 <= q.byte)
      BY <1>1, <2>3
    <3>2. CASE Byte(p).part = "end"
      <4>1. After(p).line = p.line + 1 /\ After(p).byte = 0
        BY <2>2, <3>2
      <4>. QED BY <3>1, <4>1 DEF Behind
    <3>3. CASE Byte(p).part # "end"
      <4>1. After(p).line = p.line
        BY <2>2, <3>3
      <4>. QED BY <2>3, <4>1 DEF Behind
    <3>. QED BY <3>2, <3>3
  <2>4. CASE p.line = q.line /\ p.byte <= q.byte
    <3>1. p.byte # q.byte
      BY <1>1, <1>2, <2>4
    <3>2. p.byte + 1 <= q.byte
      BY <1>1, <2>4, <3>1
    <3>3. q.byte <= Len(Text[p.line + 1])
      BY <1>1, <2>2, <2>4
    <3>4. p.byte # Len(Text[p.line + 1])
      BY <1>1, <2>2, <3>2, <3>3
    <3>5. After(p).line = p.line /\ After(p).byte = p.byte + 1
      BY <2>2, <3>4
    <3>. QED BY <2>4, <3>2, <3>5 DEF Behind
  <2>. QED BY <2>1, <2>3, <2>4 DEF Behind
<1>3. ASSUME q # End PROVE Behind(p, After(q))
  <2>1. \/ After(q).line = q.line + 1
        \/ After(q).line = q.line /\ After(q).byte = q.byte + 1
    BY <1>3, PointFacts
  <2>. QED BY <1>1, <2>1 DEF Behind
<1>. QED BY <1>2, <1>3

-----------------------------------------------------------------------------
(* What is known while a call is under way and something is left.          *)
LEMMA CallingFacts ==
  ASSUME ReadInv, calling, taken # arrived \/ fresh # << >>
  PROVE /\ ReadTypeOK /\ status = "open" /\ Len(got) = taken.line /\ Reading
        /\ taken \in Points /\ taken # End
        /\ taken.line + 1 \in 1..Len(Text) /\ taken.line \in Nat /\ taken.byte \in Nat
        /\ taken.byte <= Len(Text[taken.line + 1])
        /\ fresh \in Seq(Wire) /\ partial \in Seq(Wire) /\ got \in Seq(Seq(Wire))
<1>1. /\ ReadTypeOK /\ status = "open" /\ Len(got) = taken.line /\ Reading
  BY DEF ReadInv
<1>2. /\ taken \in Points /\ arrived \in Points /\ Behind(taken, arrived)
      /\ fresh \in Seq(Wire) /\ partial \in Seq(Wire) /\ got \in Seq(Seq(Wire))
  BY <1>1 DEF ReadTypeOK
<1>3. taken # End
  <2>1. CASE taken # arrived
    BY <1>2, <2>1, BehindFacts
  <2>2. CASE fresh # << >>
    <3>1. Len(fresh) \in Nat \ {0} /\ Len(partial) \in Nat
      BY <1>2, <2>2
    <3>2. Len(partial) + Len(fresh) <= taken.byte
      BY <1>1 DEF Reading
    <3>3. taken.byte # 0
      BY <1>2, <3>1, <3>2 DEF Points
    <3>. QED BY <3>3 DEF End
  <2>. QED BY <2>1, <2>2
<1>. QED BY <1>1, <1>2, <1>3, PointFacts

(* A line that is handed on is the one after those before it.              *)
LEMMA Delivered ==
  ASSUME ReadInv, Len(got) = taken.line, Reading, taken.line + 1 \in 1..Len(Text),
         taken.line \in Nat, NEW s \in Seq(Wire), s # << >>,
         \A b \in 1..Len(s) : s[b].of = taken.line + 1,
         ~split => /\ Len(partial) + Len(s) <= Len(Lines[taken.line + 1])
                   /\ \A b \in 1..Len(s) : s[b] = Lines[taken.line + 1][Len(partial) + b],
         hung \/ split \/ Len(partial) + Len(s) = Len(Lines[taken.line + 1]),
         got' = Append(got, partial \o s), UNCHANGED <<hung, split>>
  PROVE /\ got' \in Seq(Seq(Wire)) /\ Len(got') = taken.line + 1 /\ Len(got') <= Len(Text)
        /\ ~split' => Whole'
        /\ ~split /\ Len(partial) + Len(s) = Len(Lines[taken.line + 1]) =>
             \A k \in DOMAIN got' : got'[k] = Lines[k]
        /\ \A k \in DOMAIN got' : got'[k] # << >> /\ \A b \in DOMAIN got'[k] : got'[k][b].of = k
<1> DEFINE n == taken.line + 1
           w == partial \o s
<1>1. partial \in Seq(Wire) /\ got \in Seq(Seq(Wire)) /\ Len(Text) \in Nat
  BY TextAssumption DEF ReadInv, ReadTypeOK
<1>2. /\ w \in Seq(Wire) /\ Len(partial) \in Nat /\ Len(s) \in Nat \ {0}
      /\ Len(w) = Len(partial) + Len(s)
      /\ \A i \in 1..Len(partial) : w[i] = partial[i]
      /\ \A i \in 1..Len(s) : w[Len(partial) + i] = s[i]
      /\ \A i \in 1..Len(w) : i \in 1..Len(partial) \/ i - Len(partial) \in 1..Len(s)
  <2>1. Len(s) \in Nat \ {0}
    OBVIOUS
  <2>. QED BY <1>1, <2>1, ConcatFacts
<1>3. /\ got' \in Seq(Seq(Wire)) /\ Len(got') = n /\ n \in Nat /\ n <= Len(Text)
      /\ got'[n] = w /\ \A k \in 1..Len(got) : got'[k] = got[k]
      /\ DOMAIN got' = 1..n /\ DOMAIN got = 1..Len(got)
      /\ \A k \in 1..n : k = n \/ k \in 1..Len(got)
  <2>1. /\ got' \in Seq(Seq(Wire)) /\ Len(got') = Len(got) + 1 /\ got'[Len(got) + 1] = w
        /\ \A k \in 1..Len(got) : got'[k] = got[k]
    BY <1>1, <1>2, AppendFacts
  <2>2. DOMAIN got' = 1..Len(got') /\ DOMAIN got = 1..Len(got)
    BY <1>1, <2>1
  <2>3. n \in Nat /\ n <= Len(Text) /\ \A k \in 1..n : k = n \/ k \in 1..Len(got)
    OBVIOUS
  <2>. QED BY <2>1, <2>2, <2>3
<1>4. ASSUME NEW b \in 1..Len(w) PROVE w[b].of = n /\ (~split => w[b] = Lines[n][b])
  <2>1. DOMAIN partial = 1..Len(partial)
    BY <1>1
  <2>2. CASE b \in 1..Len(partial)
    <3>1. partial[b].of = n /\ (~split => partial[b] = Lines[n][b])
      BY <2>1, <2>2 DEF Reading
    <3>2. w[b] = partial[b]
      BY <1>2, <2>2
    <3>. QED BY <3>1, <3>2
  <2>3. CASE b - Len(partial) \in 1..Len(s)
    <3>1. Len(partial) + (b - Len(partial)) = b
      BY <1>2
    <3>2. w[b] = s[b - Len(partial)]
      BY <1>2, <2>3, <3>1
    <3>3. s[b - Len(partial)].of = n
      BY <2>3
    <3>4. ~split => s[b - Len(partial)] = Lines[n][b]
      BY <2>3, <3>1
    <3>. QED BY <3>2, <3>3, <3>4
  <2>. QED BY <1>2, <2>2, <2>3
<1>5. w # << >> /\ DOMAIN w = 1..Len(w)
  <2>1. Len(w) # 0
    BY <1>2
  <2>. QED BY <1>2, <2>1
<1> HIDE DEF n, w
<1>6. ASSUME NEW k \in DOMAIN got'
      PROVE got'[k] # << >> /\ \A b \in DOMAIN got'[k] : got'[k][b].of = k
  <2>1. CASE k = n
    BY <1>3, <1>4, <1>5, <2>1
  <2>2. CASE k \in 1..Len(got)
    BY <1>3, <2>2 DEF ReadInv
  <2>. QED BY <1>3, <1>6, <2>1, <2>2
<1>7. ASSUME ~split, Len(w) = Len(Lines[n]) PROVE w = Lines[n]
  <2>1. n \in 1..Len(Text)
    BY DEF n
  <2>2. Lines[n] \in Seq(Wire) /\ w \in Seq(Wire)
    BY <1>2, <2>1, LineFacts
  <2>3. \A b \in 1..Len(w) : w[b] = Lines[n][b]
    BY <1>4, <1>7
  <2>. QED BY <1>7, <2>2, <2>3, SameSequence
<1>8. ASSUME ~split PROVE \A k \in 1..Len(got) : got[k] = Lines[k]
  BY <1>3, <1>8 DEF Reading
<1>9. ASSUME ~split, Len(w) = Len(Lines[n]) PROVE \A k \in DOMAIN got' : got'[k] = Lines[k]
  BY <1>3, <1>7, <1>8, <1>9
<1>10. ASSUME ~split PROVE Whole'
  <2> SUFFICES ASSUME NEW k \in DOMAIN got'
               PROVE /\ k \in DOMAIN Lines
                     /\ \/ got'[k] = Lines[k]
                        \/ hung' /\ k = Len(got') /\ Len(got'[k]) <= Len(Lines[k])
                     /\ \A b \in DOMAIN got'[k] : got'[k][b] = Lines[k][b]
    BY DEF Whole
  <2>1. CASE k = n
    <3>1. k \in DOMAIN Lines /\ k \in 1..Len(Text)
      BY <1>3, <2>1 DEF Lines, n
    <3>2. Len(w) <= Len(Lines[n]) /\ (hung \/ Len(w) = Len(Lines[n]))
      BY <1>2, <1>10 DEF n
    <3>. QED BY <1>3, <1>4, <1>5, <1>7, <1>10, <2>1, <3>1, <3>2
  <2>2. CASE k \in 1..Len(got) /\ k # n
    <3>1. /\ k \in DOMAIN Lines /\ got[k] = Lines[k]
          /\ \A b \in DOMAIN got[k] : got[k][b] = Lines[k][b]
      BY <1>3, <1>8, <1>10, <2>2 DEF ReadInv, Whole
    <3>. QED BY <1>3, <2>2, <3>1
  <2>. QED BY <1>3, <2>1, <2>2
<1>. QED BY <1>2, <1>3, <1>6, <1>9, <1>10 DEF n

(* What a call has taken once it takes one more byte.                      *)
LEMMA OneMore ==
  ASSUME ReadInv, calling, taken # arrived, NEW s, s = Append(fresh, Byte(taken))
  PROVE /\ s \in Seq(Wire) /\ s # << >> /\ DOMAIN s = 1..Len(s) /\ Len(s) \in Nat
        /\ \A b \in 1..Len(s) : s[b].of = taken.line + 1
        /\ Len(partial) + Len(s) <= taken.byte + 1
        /\ ~split => /\ Len(partial) + Len(s) = taken.byte + 1
                     /\ \A b \in 1..Len(s) : s[b] = Lines[taken.line + 1][Len(partial) + b]
<1> DEFINE n == taken.line + 1
<1>1. /\ taken \in Points /\ taken # End /\ Reading /\ taken.byte \in Nat
      /\ fresh \in Seq(Wire) /\ partial \in Seq(Wire)
  BY CallingFacts
<1>2. Byte(taken) \in Wire /\ Byte(taken).of = n /\ Byte(taken) = Lines[n][taken.byte + 1]
  BY <1>1, PointFacts
<1>3. /\ Len(partial) + Len(fresh) <= taken.byte
      /\ \A b \in DOMAIN fresh : fresh[b].of = n
      /\ ~split => /\ Len(partial) + Len(fresh) = taken.byte
                   /\ \A b \in DOMAIN fresh : fresh[b] = Lines[n][Len(partial) + b]
  BY <1>1 DEF Reading
<1>4. /\ s \in Seq(Wire) /\ Len(s) = Len(fresh) + 1 /\ s[Len(fresh) + 1] = Byte(taken)
      /\ \A b \in 1..Len(fresh) : s[b] = fresh[b]
  BY <1>1, <1>2, AppendFacts
<1>5. /\ Len(fresh) \in Nat /\ Len(partial) \in Nat /\ DOMAIN fresh = 1..Len(fresh)
      /\ DOMAIN s = 1..Len(s) /\ s # << >>
  BY <1>1, <1>4
<1> HIDE DEF n
<1>6. ASSUME NEW b \in 1..Len(s) PROVE b \in 1..Len(fresh) \/ b = Len(fresh) + 1
  BY <1>4, <1>5
<1>7. ASSUME NEW b \in 1..Len(s) PROVE s[b].of = n
  BY <1>2, <1>3, <1>4, <1>5, <1>6
<1>8. ASSUME ~split, NEW b \in 1..Len(s) PROVE s[b] = Lines[n][Len(partial) + b]
  <2>1. CASE b \in 1..Len(fresh)
    BY <1>3, <1>4, <1>5, <1>8, <2>1
  <2>2. CASE b = Len(fresh) + 1
    <3>1. Len(partial) + b = taken.byte + 1
      BY <1>1, <1>3, <1>5, <1>8, <2>2
    <3>. QED BY <1>2, <1>4, <2>2, <3>1
  <2>. QED BY <1>6, <2>1, <2>2
<1>9. /\ Len(partial) + Len(s) <= taken.byte + 1
      /\ ~split => Len(partial) + Len(s) = taken.byte + 1
  BY <1>1, <1>3, <1>4, <1>5
<1>. QED BY <1>4, <1>5, <1>7, <1>8, <1>9 DEF n

(* Lines already handed on stay as good as they were.                      *)
LEMMA HandedOn ==
  ASSUME ReadInv, got' = got, hung => hung', split => split'
  PROVE /\ ~split' => Whole'
        /\ \A k \in DOMAIN got' : got'[k] # << >> /\ \A b \in DOMAIN got'[k] : got'[k][b].of = k
BY DEF ReadInv, Whole

-----------------------------------------------------------------------------
(* Before anything has arrived.                                            *)
LEMMA ReadStarts == ReadInit => ReadInv
<1> SUFFICES ASSUME ReadInit PROVE ReadInv
  OBVIOUS
<1>0. Len(Text) \in Nat /\ \A i \in 1..Len(Text) : 0 <= Len(Text[i])
  BY TextAssumption, LineFacts
<1>1. Start \in Points
  BY <1>0 DEF Start, Points
<1>2. /\ << >> \in Seq(Wire) /\ << >> \in Seq(Seq(Wire)) /\ Len(<< >>) = 0
      /\ DOMAIN << >> = {}
  OBVIOUS
<1>3. ReadTypeOK
  <2>1. /\ arrived = Start /\ taken = Start /\ hung = FALSE /\ calling = FALSE /\ split = FALSE
        /\ fresh = << >> /\ partial = << >> /\ got = << >> /\ status = "open"
    BY DEF ReadInit
  <2>2. Behind(Start, Start)
    BY DEF Behind, Start
  <2>3. Len(got) <= Len(Text)
    BY <1>0, <1>2, <2>1
  <2>4. fresh \in Seq(Wire) /\ partial \in Seq(Wire) /\ got \in Seq(Seq(Wire))
    BY <1>2, <2>1
  <2>5. arrived \in Points /\ taken \in Points /\ Behind(taken, arrived)
    BY <1>1, <2>1, <2>2
  <2>. QED BY <2>1, <2>3, <2>4, <2>5 DEF ReadTypeOK
<1>4. Whole /\ Reading /\ Len(got) = taken.line
  BY <1>2 DEF ReadInit, Whole, Reading, Start
<1>. QED BY <1>2, <1>3, <1>4 DEF ReadInit, ReadInv

(* Bytes arrive: nothing that was read changes.                            *)
LEMMA ArriveKeeps == ASSUME ReadInv, Arrive PROVE ReadInv'
<1>1. /\ ~hung /\ arrived # End /\ arrived' = After(arrived)
      /\ UNCHANGED <<hung, taken, calling, fresh, partial, got, status, split>>
  BY DEF Arrive
<1>2. /\ arrived \in Points /\ taken \in Points /\ Behind(taken, arrived)
  BY DEF ReadInv, ReadTypeOK
<1>3. arrived' \in Points /\ Behind(taken, arrived)' /\ taken' \in Points
  <2>1. After(arrived) \in Points /\ Behind(taken, After(arrived))
    BY <1>1, <1>2, PointFacts, BehindFacts
  <2>. QED BY <1>1, <1>2, <2>1 DEF Behind
<1>4. ReadTypeOK'
  BY <1>1, <1>3 DEF ReadInv, ReadTypeOK
<1>5. Reading => Reading'
  BY <1>1 DEF Reading
<1>6. status' = "open" => Len(got') = taken'.line /\ Reading'
  BY <1>1, <1>5 DEF ReadInv
<1>. QED BY <1>1, <1>4, <1>6, HandedOn DEF ReadInv

(* The other end closes: a line may now be handed on without its end.      *)
LEMMA HangUpKeeps == ASSUME ReadInv, HangUp PROVE ReadInv'
<1>1. /\ ~hung /\ hung'
      /\ UNCHANGED <<arrived, taken, calling, fresh, partial, got, status, split>>
  BY DEF HangUp
<1>2. ReadTypeOK'
  BY <1>1 DEF HangUp, ReadInv, ReadTypeOK, Behind
<1>3. Reading => Reading'
  BY <1>1 DEF Reading
<1>4. status' = "open" => Len(got') = taken'.line /\ Reading'
  BY <1>1, <1>3 DEF ReadInv
<1>. QED BY <1>1, <1>2, <1>4, HandedOn DEF ReadInv

(* The next call has taken nothing yet.                                    *)
LEMMA CallKeeps == ASSUME ReadInv, Call PROVE ReadInv'
<1>1. /\ status = "open" /\ ~calling /\ calling' = TRUE /\ fresh' = << >> /\ fresh = << >>
      /\ UNCHANGED <<arrived, hung, taken, partial, got, status, split>>
  BY DEF Call, ReadInv
<1>2. ReadTypeOK'
  BY <1>1 DEF ReadInv, ReadTypeOK, Behind
<1>3. Reading => Reading'
  BY <1>1 DEF Reading
<1>. QED BY <1>1, <1>2, <1>3, HandedOn DEF ReadInv

(* A byte is taken: the line's end hands the line on, and any other joins  *)
(* what the call has taken.                                                *)
LEMMA TakeKeeps == ASSUME ReadInv, Take PROVE ReadInv'
<1> DEFINE s == Append(fresh, Byte(taken))
           n == taken.line + 1
<1>1. /\ calling /\ taken # arrived /\ taken' = After(taken)
      /\ UNCHANGED <<arrived, hung, split>>
  BY DEF Take
<1>2. /\ ReadTypeOK /\ status = "open" /\ Len(got) = taken.line /\ Reading
      /\ taken \in Points /\ taken # End /\ n \in 1..Len(Text)
      /\ taken.line \in Nat /\ taken.byte \in Nat
      /\ fresh \in Seq(Wire) /\ partial \in Seq(Wire) /\ got \in Seq(Seq(Wire))
  BY <1>1, CallingFacts
<1>3. /\ s \in Seq(Wire) /\ s # << >> /\ DOMAIN s = 1..Len(s) /\ Len(s) \in Nat
      /\ \A b \in 1..Len(s) : s[b].of = n
      /\ Len(partial) + Len(s) <= taken.byte + 1
      /\ ~split => /\ Len(partial) + Len(s) = taken.byte + 1
                   /\ \A b \in 1..Len(s) : s[b] = Lines[n][Len(partial) + b]
  BY <1>1, OneMore
<1>4. /\ Byte(taken).part = "end" <=> taken.byte = Len(Text[n])
      /\ After(taken) \in Points
      /\ Byte(taken).part = "end" => After(taken).line = n /\ After(taken).byte = 0
      /\ Byte(taken).part # "end" => After(taken).line = taken.line /\ After(taken).byte = taken.byte + 1
      /\ Len(Lines[n]) = Len(Text[n]) + 1
  BY <1>2, PointFacts, LineFacts
<1>5. arrived' \in Points /\ taken' \in Points /\ Behind(taken, arrived)'
  <2>1. arrived \in Points /\ Behind(After(taken), arrived)
    BY <1>1, <1>2, BehindFacts DEF ReadTypeOK
  <2>. QED BY <1>1, <1>4, <2>1 DEF Behind
<1>6. /\ hung' \in BOOLEAN /\ split' \in BOOLEAN /\ status \in {"open", "ended", "invalid"}
      /\ Len(got) <= Len(Text)
  BY <1>1, <1>2 DEF ReadTypeOK
<1>7. << >> \in Seq(Wire) /\ Len(<< >>) = 0 /\ DOMAIN << >> = {}
  OBVIOUS
<1>8. CASE Byte(taken).part # "end"
  <2>1. fresh' = s /\ UNCHANGED <<calling, partial, got, status>>
    BY <1>8 DEF Take
  <2>2. taken'.line = taken.line /\ taken'.byte = taken.byte + 1
    BY <1>1, <1>4, <1>8
  <2>3. ReadTypeOK'
    BY <1>2, <1>3, <1>5, <1>6, <2>1 DEF ReadTypeOK
  <2> HIDE DEF s
  <2>4. Reading'
    BY <1>1, <1>2, <1>3, <2>1, <2>2 DEF Reading
  <2>. QED BY <1>1, <1>2, <2>1, <2>2, <2>3, <2>4, HandedOn DEF ReadInv
<1>9. CASE Byte(taken).part = "end" /\ Valid(s)
  <2>1. /\ got' = Append(got, partial \o s) /\ partial' = << >> /\ UNCHANGED status
        /\ calling' = FALSE /\ fresh' = << >>
    BY <1>9 DEF Take, Deliver, Returned
  <2>2. taken'.line = n /\ taken'.byte = 0 /\ taken.byte + 1 = Len(Lines[n])
    BY <1>1, <1>4, <1>9
  <2> HIDE DEF s
  <2>3. ~split => Len(partial) + Len(s) = Len(Lines[n])
    BY <1>3, <2>2
  <2>4. ~split => Len(partial) + Len(s) <= Len(Lines[n])
    BY <1>3, <2>2
  <2>5. /\ got' \in Seq(Seq(Wire)) /\ Len(got') = n /\ Len(got') <= Len(Text)
        /\ ~split' => Whole'
        /\ ~split => \A k \in DOMAIN got' : got'[k] = Lines[k]
        /\ \A k \in DOMAIN got' : got'[k] # << >> /\ \A b \in DOMAIN got'[k] : got'[k][b].of = k
    BY <1>1, <1>2, <1>3, <2>1, <2>3, <2>4, Delivered
  <2>6. ReadTypeOK'
    BY <1>2, <1>5, <1>6, <1>7, <2>1, <2>5 DEF ReadTypeOK
  <2>7. Reading'
    BY <1>1, <1>7, <2>1, <2>2, <2>5 DEF Reading
  <2>. QED BY <1>2, <2>1, <2>2, <2>5, <2>6, <2>7 DEF ReadInv
<1>10. CASE Byte(taken).part = "end" /\ ~Valid(s)
  <2>1. /\ status' = "invalid" /\ UNCHANGED <<got, partial>>
        /\ calling' = FALSE /\ fresh' = << >>
    BY <1>10 DEF Take, Deliver, Returned
  <2>2. ReadTypeOK'
    BY <1>2, <1>5, <1>6, <1>7, <2>1 DEF ReadTypeOK
  <2>. QED BY <1>1, <2>1, <2>2, HandedOn DEF ReadInv
<1>. QED BY <1>8, <1>9, <1>10

(* The call gives up: what it took is held, or lost and marked as such.    *)
LEMMA TimeOutKeeps == ASSUME ReadInv, TimeOut PROVE ReadInv'
<1>1. /\ calling /\ taken = arrived /\ ~hung
      /\ partial' = Held(fresh) /\ split' = (split \/ ~Valid(fresh))
      /\ calling' = FALSE /\ fresh' = << >>
      /\ UNCHANGED <<arrived, hung, taken, got, status>>
  BY DEF TimeOut, Returned
<1>2. ReadTypeOK /\ status = "open" /\ Len(got) = taken.line /\ Reading
  BY <1>1 DEF ReadInv
<1>3. /\ fresh \in Seq(Wire) /\ partial \in Seq(Wire) /\ taken \in Points /\ taken.byte \in Nat
  BY <1>2 DEF ReadTypeOK, Points
<1>4. /\ << >> \in Seq(Wire) /\ Len(<< >>) = 0 /\ DOMAIN << >> = {}
      /\ DOMAIN fresh = 1..Len(fresh) /\ DOMAIN partial = 1..Len(partial)
      /\ Len(fresh) \in Nat /\ Len(partial) \in Nat
  BY <1>3
<1>5. ASSUME partial' \in Seq(Wire), Reading' PROVE ReadInv'
  <2>1. ReadTypeOK'
    BY <1>1, <1>2, <1>4, <1>5 DEF ReadTypeOK, Behind
  <2>. QED BY <1>1, <1>2, <1>5, <2>1, HandedOn DEF ReadInv
<1>6. CASE Valid(fresh)
  <2> DEFINE w == partial \o fresh
             n == taken.line + 1
  <2>1. partial' = w /\ split' = split /\ split \in BOOLEAN
    BY <1>1, <1>2, <1>6 DEF Held, ReadTypeOK
  <2>2. /\ w \in Seq(Wire) /\ Len(w) = Len(partial) + Len(fresh) /\ DOMAIN w = 1..Len(w)
        /\ \A i \in 1..Len(partial) : w[i] = partial[i]
        /\ \A i \in 1..Len(fresh) : w[Len(partial) + i] = fresh[i]
        /\ \A i \in 1..Len(w) : i \in 1..Len(partial) \/ i - Len(partial) \in 1..Len(fresh)
    <3>1. w \in Seq(Wire) => DOMAIN w = 1..Len(w)
      OBVIOUS
    <3>. QED BY <1>3, <3>1, ConcatFacts
  <2> HIDE DEF w
  <2>3. /\ \A b \in 1..Len(partial) : partial[b].of = n
        /\ \A b \in 1..Len(fresh) : fresh[b].of = n
        /\ Len(partial) + Len(fresh) <= taken.byte
        /\ ~split =>
             /\ \A k \in DOMAIN got : got[k] = Lines[k]
             /\ Len(partial) + Len(fresh) = taken.byte
             /\ \A b \in 1..Len(partial) : partial[b] = Lines[n][b]
             /\ \A b \in 1..Len(fresh) : fresh[b] = Lines[n][Len(partial) + b]
    BY <1>2, <1>4 DEF Reading
  <2> HIDE DEF n
  <2>4. ASSUME NEW b \in 1..Len(w) PROVE w[b].of = n /\ (~split => w[b] = Lines[n][b])
    <3>1. CASE b \in 1..Len(partial)
      BY <2>2, <2>3, <3>1
    <3>2. CASE b - Len(partial) \in 1..Len(fresh)
      <4>1. Len(partial) + (b - Len(partial)) = b
        BY <1>4, <2>2
      <4>2. w[b] = fresh[b - Len(partial)]
        BY <2>2, <3>2, <4>1
      <4>3. /\ fresh[b - Len(partial)].of = n
            /\ ~split => fresh[b - Len(partial)] = Lines[n][b]
        BY <2>3, <3>2, <4>1
      <4>. QED BY <4>2, <4>3
    <3>. QED BY <2>2, <3>1, <3>2
  <2>5. Len(w) + Len(<< >>) = Len(partial) + Len(fresh)
    BY <1>4, <2>2
  <2>6. n' = n
    BY <1>1 DEF n
  <2>7. Reading'
    BY <1>1, <1>4, <2>1, <2>2, <2>3, <2>4, <2>5 DEF Reading, n
  <2>. QED BY <1>5, <2>1, <2>2, <2>7
<1>7. CASE ~Valid(fresh)
  <2>1. partial' = partial /\ split'
    BY <1>1, <1>7 DEF Held
  <2>2. Len(partial) + Len(<< >>) <= taken.byte
    <3>1. Len(partial) + Len(fresh) <= taken.byte
      BY <1>2 DEF Reading
    <3>. QED BY <1>3, <1>4, <3>1
  <2>3. Reading'
    BY <1>1, <1>2, <1>4, <2>1, <2>2 DEF Reading
  <2>. QED BY <1>3, <1>5, <2>1, <2>3
<1>. QED BY <1>6, <1>7

(* Nothing more will come: what there is of a line is handed on.           *)
LEMMA EndOfStreamKeeps == ASSUME ReadInv, EndOfStream PROVE ReadInv'
<1>1. /\ calling /\ taken = arrived /\ hung
      /\ calling' = FALSE /\ fresh' = << >>
      /\ UNCHANGED <<arrived, hung, taken, split>>
  BY DEF EndOfStream, Returned
<1>2. ReadTypeOK /\ << >> \in Seq(Wire)
  BY DEF ReadInv
<1>3. CASE fresh = << >> \/ ~Valid(fresh)
  <2>1. status' \in {"ended", "invalid"} /\ UNCHANGED <<got, partial>>
    BY <1>3 DEF EndOfStream, Deliver
  <2>2. ReadTypeOK'
    BY <1>1, <1>2, <2>1 DEF ReadTypeOK, Behind
  <2>. QED BY <1>1, <2>1, <2>2, HandedOn DEF ReadInv
<1>4. CASE fresh # << >> /\ Valid(fresh)
  <2> DEFINE n == taken.line + 1
  <2>1. got' = Append(got, partial \o fresh) /\ partial' = << >> /\ UNCHANGED status
    BY <1>4 DEF EndOfStream, Deliver
  <2>2. /\ status = "open" /\ Len(got) = taken.line /\ Reading
        /\ n \in 1..Len(Text) /\ taken.line \in Nat /\ taken.byte \in Nat
        /\ taken.byte <= Len(Text[n])
        /\ fresh \in Seq(Wire) /\ partial \in Seq(Wire)
    BY <1>1, <1>4, CallingFacts
  <2>3. /\ DOMAIN fresh = 1..Len(fresh) /\ Len(Lines[n]) = Len(Text[n]) + 1 /\ Len(Text[n]) \in Nat
        /\ Len(fresh) \in Nat /\ Len(partial) \in Nat
    <3>1. Len(Lines[n]) = Len(Text[n]) + 1 /\ Len(Text[n]) \in Nat
      BY <2>2, LineFacts
    <3> HIDE DEF n
    <3>. QED BY <2>2, <3>1
  <2>4. /\ \A b \in 1..Len(fresh) : fresh[b].of = n
        /\ ~split => /\ Len(partial) + Len(fresh) <= Len(Lines[n])
                     /\ \A b \in 1..Len(fresh) : fresh[b] = Lines[n][Len(partial) + b]
    <3>1. /\ \A b \in 1..Len(fresh) : fresh[b].of = n
          /\ ~split => \A b \in 1..Len(fresh) : fresh[b] = Lines[n][Len(partial) + b]
          /\ Len(partial) + Len(fresh) <= taken.byte
      BY <2>2, <2>3 DEF Reading
    <3>2. taken.byte <= Len(Text[n]) /\ taken.byte \in Nat
      BY <2>2
    <3> HIDE DEF n
    <3>3. Len(partial) + Len(fresh) <= Len(Lines[n])
      BY <2>3, <3>1, <3>2
    <3>. QED BY <3>1, <3>3
  <2>5. /\ got' \in Seq(Seq(Wire)) /\ Len(got') = n /\ Len(got') <= Len(Text)
        /\ ~split' => Whole'
        /\ \A k \in DOMAIN got' : got'[k] # << >> /\ \A b \in DOMAIN got'[k] : got'[k][b].of = k
    BY <1>1, <1>4, <2>1, <2>2, <2>4, Delivered
  <2>6. ReadTypeOK'
    <3>1. /\ arrived' \in Points /\ taken' \in Points /\ Behind(taken, arrived)'
          /\ hung' \in BOOLEAN /\ calling' \in BOOLEAN /\ split' \in BOOLEAN
          /\ status' \in {"open", "ended", "invalid"}
      BY <1>1, <1>2, <2>1 DEF ReadTypeOK, Behind
    <3>2. fresh' \in Seq(Wire) /\ partial' \in Seq(Wire)
      BY <1>1, <1>2, <2>1
    <3>. QED BY <2>5, <3>1, <3>2 DEF ReadTypeOK
  <2>. QED BY <1>1, <2>1, <2>5, <2>6 DEF ReadInv
<1>. QED BY <1>3, <1>4

-----------------------------------------------------------------------------
(* Of every stream of lines, cut and closed anywhere, the reader holds of  *)
(* the line being read what it took and has not lost, and has handed on    *)
(* the lines before it (lines.rs:35-63).                                   *)
THEOREM ReadInvariance == ReadSpec => []ReadInv
<1>1. ReadInv /\ [ReadNext]_readVars => ReadInv'
  <2> SUFFICES ASSUME ReadInv, [ReadNext]_readVars PROVE ReadInv'
    OBVIOUS
  <2>1. CASE UNCHANGED readVars
    BY <2>1 DEF readVars, ReadInv, ReadTypeOK, Behind, Whole, Reading
  <2>. QED BY <2>1, ArriveKeeps, HangUpKeeps, CallKeeps, TakeKeeps, TimeOutKeeps,
              EndOfStreamKeeps DEF ReadNext
<1>. QED BY <1>1, ReadStarts, PTL DEF ReadSpec

(* However reads time out and wherever the connection closes, every line   *)
(* comes back whole and in order unless a read gave up inside a character, *)
(* and then too no two lines are joined (lines.rs:19-22, 45-52).           *)
THEOREM WholeLines == ReadSpec => []WholeUnlessSplit
<1>1. ReadInv => WholeUnlessSplit
  <2> SUFFICES ASSUME ReadInv PROVE NeverJoined
    BY DEF ReadInv, WholeUnlessSplit
  <2>1. got \in Seq(Seq(Wire)) /\ DOMAIN got = 1..Len(got) /\ Len(got) \in Nat
    BY DEF ReadInv, ReadTypeOK
  <2>2. \A k \in DOMAIN got : 1 \in DOMAIN got[k] /\ \A b \in DOMAIN got[k] : got[k][b].of = k
    <3> SUFFICES ASSUME NEW k \in DOMAIN got PROVE 1 \in DOMAIN got[k]
      BY DEF ReadInv
    <3>1. got[k] \in Seq(Wire) /\ got[k] # << >>
      BY <2>1 DEF ReadInv
    <3>. QED BY <3>1
  <2>. QED BY <2>1, <2>2 DEF NeverJoined
<1>. QED BY <1>1, ReadInvariance, PTL
=============================================================================
