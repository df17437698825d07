----------------------------- MODULE ConfigWatch -----------------------------
(***************************************************************************)
(* Noticing an edited configuration file: the inotify watches of           *)
(* config/watch.rs, the deadline of daemon/mod.rs that waits for a save to *)
(* settle, and the reload that follows.                                    *)
(*                                                                         *)
(* The file is named in one directory and may be a link to a file of       *)
(* another.  A watch belongs to a directory; an event carries the watch    *)
(* and a name.  Whatever the daemon does about an event, the file system   *)
(* goes on changing, and an event may be read long after it happened.      *)
(***************************************************************************)
EXTENDS Integers, Sequences, FiniteSets

CONSTANTS
    Elsewhere,    \* the places a link may lead to, each a directory and a name
    Unwatchable,  \* directories inotify refuses to watch
    TargetStays,  \* a link leads to a file that is there, and stays there
    EarlyEdits,   \* the file may be edited while the daemon starts
    MaxSteps      \* bound: steps of whoever steps the files

ConfigPath == [dir |-> "home", name |-> "config"]     \* the path as configured

ASSUME WatchAssumption ==
    /\ Elsewhere # {} /\ ConfigPath \notin Elsewhere
    /\ \A p \in Elsewhere : p = [dir |-> p.dir, name |-> p.name]
    /\ TargetStays \in BOOLEAN /\ EarlyEdits \in BOOLEAN
    /\ "home" \notin Unwatchable
    /\ MaxSteps \in Nat

Places == {ConfigPath} \union Elsewhere
Dirs == {p.dir : p \in Places}

VARIABLES
    files,        \* what is at each place: nothing, a text, or a link
    steps,        \* how many steps the editors have taken
    watches,      \* the kernel: the watch on each directory, 0 for none
    lastWatch,    \* the kernel: watches are numbered as they are added
    queue,        \* the kernel: events not yet read
    targets,      \* Watcher::targets
    found,        \* the places `resolve` has just looked up
    resolving,    \* the thread is inside `resolve`
    watching,     \* the watcher is on the loop
    recent,       \* less than SETTLED ago an event was ours
    armed,        \* reload_timer is on the loop
    pushed,       \* reload_at has moved since the timer was set
    loaded        \* the text the running configuration is from

kernel == <<watches, lastWatch, queue>>
deadline == <<recent, armed, pushed>>
watchVars == <<files, steps, watches, lastWatch, queue, targets, found, resolving,
          watching, recent, armed, pushed, loaded>>

-----------------------------------------------------------------------------
(* What a place holds.  A text is known by the edit that wrote it; `good`  *)
(* says whether it parses.                                                 *)

Absent   == [is |-> "absent", edit |-> 0, good |-> TRUE]
Contents(n, good) == [is |-> "text", edit |-> n, good |-> good]
Empty    == Contents(0, TRUE)
Link(p)  == [is |-> "link", to |-> p]

IsLink(x) == x.is = "link"

(* Where the configured path leads, and whether there is a file there.     *)
Real == IF IsLink(files[ConfigPath]) THEN files[ConfigPath].to ELSE ConfigPath
Reads == files[Real]
Exists == Reads.is = "text"

(* `places`: where the file is named, and where it really is when that is  *)
(* somewhere else.  A path that leads nowhere has no second place.         *)
LookUp == IF Exists /\ Real # ConfigPath THEN <<ConfigPath, Real>> ELSE <<ConfigPath>>

(* Defaults: a missing file and one with no keys in it mean the same.      *)
Defaults == 0

(* `reload`: a file that no longer parses leaves what is loaded.           *)
Reloaded ==
    CASE Reads.is = "absent" -> Defaults
      [] Reads.is = "text" /\ Reads.good -> Reads.edit
      [] OTHER -> loaded

-----------------------------------------------------------------------------
(* The editors.  An event goes to the watch its directory has then.        *)

Notify(p) ==
    queue' = IF watches[p.dir] = 0 THEN queue
             ELSE Append(queue, [watch |-> watches[p.dir], name |-> p.name])

Editing ==
    /\ steps < MaxSteps
    /\ steps' = steps + 1
    /\ watching \/ EarlyEdits
    /\ UNCHANGED <<watches, lastWatch, targets, found, resolving, watching, deadline,
                   loaded>>

Put(p, x) == files' = [files EXCEPT ![p] = x]

(* Saving in place: the file is truncated, which is no event of the mask   *)
(* unless it had to be created, and closed once it is written.             *)
Truncate(p) ==
    /\ Editing
    /\ ~IsLink(files[p]) /\ files[p] # Empty
    /\ Put(p, Empty)
    /\ IF files[p] = Absent THEN Notify(p) ELSE UNCHANGED queue

Fill(p) ==
    /\ Editing
    /\ files[p] = Empty
    /\ \E good \in BOOLEAN : Put(p, Contents(steps', good))
    /\ Notify(p)

(* A new text renamed over the old one, over a link, or over nothing.      *)
Replace(p) ==
    /\ Editing
    /\ Put(p, Contents(steps', TRUE))
    /\ Notify(p)

(* The file is moved away or deleted.                                      *)
Delete(p) ==
    /\ Editing
    /\ files[p].is = "text"
    /\ TargetStays => Real = ConfigPath \/ Real # p
    /\ Put(p, Absent)
    /\ Notify(p)

(* The configured name becomes a link, or the link leads elsewhere: at one *)
(* stroke, by a rename over whatever is there, or removed first.           *)
Repoint(p) ==
    /\ Editing
    /\ files[ConfigPath] # Link(p)
    /\ TargetStays => files[p].is = "text"
    /\ Put(ConfigPath, Link(p))
    /\ Notify(ConfigPath)

Unlink ==
    /\ Editing
    /\ IsLink(files[ConfigPath])
    /\ Put(ConfigPath, Absent)
    /\ Notify(ConfigPath)

(* Something else in a directory that is watched.                          *)
Neighbour(d) ==
    /\ Editing
    /\ watches[d] # 0
    /\ queue' = Append(queue, [watch |-> watches[d], name |-> "neighbour"])
    /\ UNCHANGED files

Editors ==
    \/ \E p \in Places : Truncate(p) \/ Fill(p) \/ Replace(p) \/ Delete(p)
    \/ \E p \in Elsewhere : Repoint(p)
    \/ Unlink
    \/ \E d \in Dirs : Neighbour(d)

-----------------------------------------------------------------------------
(* The watcher.                                                            *)

TargetOf(wd, p) == [watch |-> wd, dir |-> p.dir, name |-> p.name]

OursByName(event) == event.name = ConfigPath.name

Ours(event) ==
    \E k \in DOMAIN targets : targets[k].watch = event.watch /\ targets[k].name = event.name

Idle == ~resolving

(* `changed`: reads what fits of the queue, and looks the places up again  *)
(* if an event was ours.                                                   *)
Changed ==
    /\ Idle /\ queue # << >>
    /\ \E n \in 1..Len(queue) :
        /\ queue' = SubSeq(queue, n + 1, Len(queue))
        /\ IF \E k \in 1..n : Ours(queue[k])
           THEN resolving' = TRUE /\ found' = LookUp
           ELSE UNCHANGED <<resolving, found>>
    /\ UNCHANGED <<files, steps, watches, lastWatch, targets, watching, deadline, loaded>>

(* `resolve`: nothing to do when the places are those already watched.     *)
Unchanged == [k \in DOMAIN targets |-> [dir |-> targets[k].dir, name |-> targets[k].name]]
                 = found

(* The places kept: the directory the file is named in, and the other one  *)
(* unless it cannot be watched.                                            *)
Kept == IF Len(found) = 2 /\ found[2].dir \in Unwatchable THEN <<found[1]>> ELSE found

HeldDirs == {targets[k].dir : k \in DOMAIN targets}
KeptDirs == {Kept[k].dir : k \in DOMAIN Kept}

(* What inotify answers for a directory that had no watch: the places are  *)
(* gone through in order, and two are new at most.                         *)
Added(d) == lastWatch + (IF d = ConfigPath.dir THEN 1 ELSE Cardinality(KeptDirs \ HeldDirs))

(* Each place adds and removes a watch of its own: two names in one        *)
(* directory go with one of them.                                          *)
RetargetedByName ==
    /\ watches' = [d \in Dirs |-> IF \E k \in DOMAIN targets : targets[k].dir = d
                                        /\ ~\E j \in DOMAIN Kept : Kept[j] = [dir |-> d,
                                                 name |-> targets[k].name]
                                  THEN 0
                                  ELSE IF d \notin KeptDirs THEN 0
                                  ELSE IF d \in HeldDirs THEN watches[d]
                                  ELSE Added(d)]
    /\ lastWatch' = lastWatch + Cardinality(KeptDirs \ HeldDirs)
    /\ targets' = [k \in DOMAIN Kept |-> TargetOf(watches'[Kept[k].dir], Kept[k])]

(* A directory already watched keeps its watch; one no longer needed loses *)
(* it.                                                                     *)
Retargeted ==
    /\ watches' = [d \in Dirs |-> IF d \notin KeptDirs THEN 0
                                  ELSE IF d \in HeldDirs THEN watches[d]
                                  ELSE Added(d)]
    /\ lastWatch' = lastWatch + Cardinality(KeptDirs \ HeldDirs)
    /\ targets' = [k \in DOMAIN Kept |-> TargetOf(watches'[Kept[k].dir], Kept[k])]

(* on_config_event goes on: the deadline is pushed, and the timer set if   *)
(* it is not; without one the file is read at once.                        *)
Pushed ==
    \/ /\ armed
       /\ recent' = TRUE /\ pushed' = TRUE
       /\ UNCHANGED <<armed, loaded>>
    \/ /\ ~armed
       /\ recent' = TRUE /\ armed' = TRUE /\ pushed' = FALSE
       /\ UNCHANGED loaded
    \/ /\ ~armed
       /\ loaded' = Reloaded
       /\ recent' = FALSE
       /\ UNCHANGED <<armed, pushed>>

Resolved ==
    /\ watching /\ resolving
    /\ resolving' = FALSE /\ found' = << >>
    /\ IF Unchanged THEN UNCHANGED <<watches, lastWatch, targets>> ELSE Retargeted
    /\ Pushed
    /\ UNCHANGED <<files, steps, queue, watching>>

-----------------------------------------------------------------------------
(* SETTLED goes by since the last event that was ours.                     *)
Quiet ==
    /\ Idle /\ recent
    /\ recent' = FALSE
    /\ UNCHANGED <<files, steps, kernel, targets, found, resolving, watching, armed,
                   pushed, loaded>>

(* The timer: it waits for the deadline if that has moved on, and reloads  *)
(* otherwise.                                                              *)
Settled ==
    /\ Idle /\ armed /\ (pushed \/ ~recent)
    /\ pushed' = FALSE
    /\ IF recent
       THEN UNCHANGED <<armed, loaded>>
       ELSE armed' = FALSE /\ loaded' = Reloaded
    /\ UNCHANGED <<files, steps, kernel, targets, found, resolving, watching, recent>>

(* A client asks for a reload.                                             *)
Asked ==
    /\ watching /\ Idle /\ loaded # Reloaded
    /\ loaded' = Reloaded
    /\ UNCHANGED <<files, steps, kernel, targets, found, resolving, watching, deadline>>

-----------------------------------------------------------------------------
(* The daemon starts: it loads the file, brings up everything else, and    *)
(* only then watches it (watch_config, Watcher::new).                      *)
WatchInit ==
    /\ files \in {[p \in Places |-> IF p = ConfigPath THEN x ELSE Empty] :
                     x \in {Absent, Empty} \union {Link(p) : p \in Elsewhere}}
    /\ steps = 0 /\ queue = << >>
    /\ watches = [d \in Dirs |-> 0] /\ lastWatch = 0 /\ targets = << >>
    /\ found = << >> /\ resolving = FALSE /\ watching = FALSE
    /\ recent = FALSE /\ armed = FALSE /\ pushed = FALSE
    /\ loaded = Defaults

LookAround ==
    /\ ~watching /\ Idle
    /\ found' = LookUp /\ resolving' = TRUE
    /\ UNCHANGED <<files, steps, kernel, targets, watching, deadline, loaded>>

StartWatching ==
    /\ ~watching /\ resolving
    /\ Retargeted
    /\ watching' = TRUE /\ resolving' = FALSE /\ found' = << >>
    /\ UNCHANGED <<files, steps, queue, deadline, loaded>>

WatchNext == Editors \/ LookAround \/ StartWatching \/ Changed \/ Resolved \/ Quiet \/ Settled \/ Asked

WatchSpec == WatchInit /\ [][WatchNext]_watchVars

(* The loop runs, and time goes by.  Nobody has to ask for a reload.       *)
FairWatchSpec ==
    /\ WatchSpec
    /\ WF_watchVars(LookAround) /\ WF_watchVars(StartWatching)
    /\ WF_watchVars(Changed) /\ WF_watchVars(Resolved) /\ WF_watchVars(Quiet) /\ WF_watchVars(Settled)

-----------------------------------------------------------------------------
(* Every variable has its type.                                           *)
Texts == [is: {"text"}, edit: 0..MaxSteps, good: BOOLEAN]
Names == {p.name : p \in Places}
Found == {<<ConfigPath>>} \union {<<ConfigPath, p>> : p \in Elsewhere}

WatchTypeOK ==
    /\ files \in [Places -> {Absent} \union Texts \union {Link(p) : p \in Elsewhere}]
    /\ steps \in 0..MaxSteps
    /\ lastWatch \in Nat /\ watches \in [Dirs -> 0..lastWatch]
    /\ queue \in Seq([watch: 1..lastWatch, name: Names \union {"neighbour"}])
    /\ targets \in Seq([watch: 1..lastWatch, dir: Dirs, name: Names])
    /\ Len(targets) \in (IF watching THEN 1..2 ELSE {0})
    /\ found \in (IF resolving THEN Found ELSE {<< >>})
    /\ {resolving, watching, recent, armed, pushed} \subseteq BOOLEAN
    /\ loaded \in 0..MaxSteps

(* Every target's watch is the live one of its directory, the configured   *)
(* name is always among them, and no watch is left behind or two alike.    *)
TargetsHeld ==
    /\ \A k \in DOMAIN targets :
          targets[k].watch # 0 /\ watches[targets[k].dir] = targets[k].watch
    /\ \A d \in Dirs : watches[d] # 0 => d \in HeldDirs
    /\ \A d, e \in Dirs : watches[d] = watches[e] /\ watches[d] # 0 => d = e
    /\ watching => targets[1].dir = ConfigPath.dir /\ targets[1].name = ConfigPath.name

(* A deadline is never left behind without a timer that will look at it.   *)
DeadlineKept == recent => armed

(* What the daemon listens to is what the kernel delivers, wherever a link *)
(* has led and been led, and an event of ours that was read leads to a     *)
(* reload (watch.rs:98-134, mod.rs:192-222).                               *)
WatchesHeld == TargetsHeld /\ DeadlineKept

Current == \/ Real.dir \in Unwatchable
           \/ Reads = Empty
           \/ loaded = Reloaded

(* Once nobody steps the file any more, what runs is what it says, unless  *)
(* it does not parse, lies where nothing can be watched, or was truncated  *)
(* and never written (config.md:353-357).                                  *)
SeenInTheEnd == <>[]Current
=============================================================================
