------------------------------- MODULE Sessions -------------------------------
(***************************************************************************)
(* A backend's thread: connecting to the compositor, following it, and     *)
(* starting over when the connection fails (niri/mod.rs, hyprland/mod.rs,  *)
(* spawned by daemon/loops.rs).                                            *)
(*                                                                         *)
(* The two backends run the same outer loop and differ in how a session    *)
(* starts.  niri is asked for its event stream and answers with everything *)
(* that is true before anything that changes.  Hyprland's stream carries   *)
(* only changes, so what is true is asked for over another socket, and is  *)
(* asked again after an event that does not say enough.                    *)
(*                                                                         *)
(* What the trackers make of an event is in NiriTracker and HyprTracker;   *)
(* here all a compositor says is how often it has changed.  What is lost   *)
(* of that stays lost for the session: a later line, or Hyprland's answer  *)
(* to what it is asked again (its monitors and workspaces, not all that    *)
(* it was asked at first), need not say it.                                *)
(***************************************************************************)
EXTENDS Integers, Sequences

CONSTANTS
    Longest,      \* LONGEST_RETRY, in units of FIRST_RETRY
    MaxChanges,   \* bound: how often the compositor changes
    MaxOutages    \* bound: how often a session fails before the world calms down

ASSUME SessionsAssumption ==
    /\ Longest \in Nat \ {0}
    /\ MaxChanges \in Nat /\ MaxOutages \in Nat

First == 1        \* FIRST_RETRY

Unknown == -1

VARIABLES
    asks,         \* it is Hyprland, which has to be asked, and not niri
    world,        \* the compositor: how often it has changed
    up,           \* it answers on its sockets
    refusals,     \* how often it went away or refused (bounds the faults)
    stream,       \* the lines written to this connection and not yet read
    running,      \* the flag Sink::is_open reads
    phase,        \* where the backend's thread is
    retry,        \* how long the next wait would be
    long,         \* this session has lasted LONGEST_RETRY
    known,        \* the tracker of this session: what it last heard
    shown,        \* what the daemon was last told
    missed,       \* history: a line of this session did not parse
    short         \* history: sessions in a row that failed before `long`

compositor == <<asks, world, up, refusals>>
vars == <<asks, world, up, refusals, stream, running, phase, retry, long, known, shown,
          missed, short>>

Told(v)     == [kind |-> "change", world |-> v]      \* says what is true now
Partial(v)  == [kind |-> "partial", world |-> v]     \* Hyprland: has to be asked about
Ignored     == [kind |-> "ignored", world |-> Unknown]
Malformed(v) == [kind |-> "malformed", world |-> v]

Connected == phase \in {"asking", "answered", "following", "resyncing"}

-----------------------------------------------------------------------------
Init ==
    /\ asks \in BOOLEAN
    /\ world = 0 /\ up = TRUE /\ refusals = 0 /\ stream = << >>
    /\ running = TRUE /\ phase = "unspawned"
    /\ retry = First /\ long = FALSE
    /\ known = Unknown /\ shown = Unknown
    /\ missed = FALSE /\ short = 0

(* The compositor changes, and writes a line to whoever is connected.  A   *)
(* newer one may write it in a form this daemon does not read.             *)
Change ==
    /\ world < MaxChanges
    /\ world' = world + 1
    /\ \E line \in {Told(world'), Malformed(world')}
                       \union (IF asks THEN {Partial(world')} ELSE {}) :
           stream' = IF Connected THEN Append(stream, line) ELSE stream
    /\ UNCHANGED <<asks, up, refusals, running, phase, retry, long, known, shown, missed, short>>

(* It writes about something this daemon does not follow.                  *)
Chatter ==
    /\ Connected /\ stream = << >>
    /\ stream' = << Ignored >>
    /\ UNCHANGED <<compositor, running, phase, retry, long, known, shown, missed, short>>

(* It goes away, or hangs, and comes back.                                 *)
GoAway ==
    /\ up /\ refusals < MaxOutages
    /\ up' = FALSE /\ refusals' = refusals + 1
    /\ UNCHANGED <<asks, world, stream, running, phase, retry, long, known, shown, missed, short>>

ComeBack ==
    /\ ~up
    /\ up' = TRUE
    /\ UNCHANGED <<asks, world, refusals, stream, running, phase, retry, long, known, shown,
                   missed, short>>

(* The session reaches LONGEST_RETRY.                                      *)
Last10s ==
    /\ Connected /\ ~long
    /\ long' = TRUE
    /\ UNCHANGED <<compositor, stream, running, phase, retry, known, shown, missed, short>>

(* The daemon stops.                                                       *)
Stop ==
    /\ running
    /\ running' = FALSE
    /\ UNCHANGED <<compositor, stream, phase, retry, long, known, shown, missed, short>>

-----------------------------------------------------------------------------
(* spawn_backend: no settings, or a backend that is not the one running    *)
(* here, and there is no thread at all.                                    *)
Spawn ==
    /\ phase = "unspawned"
    /\ phase' \in {"never", "top"}
    /\ UNCHANGED <<compositor, stream, running, retry, long, known, shown, missed, short>>

(* The head of the loop in `run`.                                          *)
Top ==
    /\ phase = "top"
    /\ phase' = IF running THEN "dialling" ELSE "done"
    /\ long' = FALSE
    /\ UNCHANGED <<compositor, stream, running, retry, known, shown, missed, short>>

(* A session starts with a tracker that knows nothing.                     *)
Fresh == known' = Unknown /\ missed' = FALSE /\ UNCHANGED shown

(* Connecting.  niri accepts, and writes what is true before what changes; *)
(* Hyprland's stream is listened to before anything is asked.              *)
Dial ==
    /\ phase = "dialling" /\ up
    /\ Fresh
    /\ IF asks
       THEN phase' = "asking" /\ stream' = << >>
       ELSE phase' = "following" /\ stream' = << Told(world) >>
    /\ UNCHANGED <<compositor, running, retry, long, short>>

Emit == shown' = known'

(* The answer to what Hyprland was asked is on its way back while the      *)
(* compositor goes on changing; then what it drives is told.               *)
Ask ==
    /\ phase = "asking" /\ up
    /\ known' = world
    /\ phase' = "answered"
    /\ UNCHANGED <<compositor, stream, running, retry, long, shown, missed, short>>

SeedDeaf ==
    /\ phase = "answered"
    /\ shown' = known
    /\ phase' = "following" /\ stream' = << >>
    /\ UNCHANGED <<compositor, running, retry, long, known, missed, short>>

Seed ==
    /\ phase = "answered"
    /\ shown' = known
    /\ phase' = "following"
    /\ UNCHANGED <<compositor, stream, running, retry, long, known, missed, short>>

(* The session loop: one line, read while the daemon runs.                 *)
Follow(line) ==
    CASE line.kind = "change"    -> /\ known' = line.world /\ Emit
                                    /\ UNCHANGED <<missed, phase>>
      [] line.kind = "partial"   -> /\ known' = line.world
                                    /\ phase' = "resyncing"
                                    /\ UNCHANGED <<shown, missed>>
      [] line.kind = "ignored"   -> UNCHANGED <<known, shown, missed, phase>>
      [] line.kind = "malformed" -> /\ missed' = TRUE
                                    /\ UNCHANGED <<known, shown, phase>>

ReadLine ==
    /\ phase = "following" /\ running /\ stream # << >>
    /\ stream' = Tail(stream)
    /\ Follow(Head(stream))
    /\ UNCHANGED <<compositor, running, retry, long, short>>

(* Hyprland is asked again, and what it answers is newer than the event.   *)
ResyncSilent ==
    /\ phase = "resyncing" /\ up
    /\ known' = world
    /\ phase' = "following"
    /\ UNCHANGED <<compositor, stream, running, retry, long, shown, missed, short>>

Resync ==
    /\ phase = "resyncing" /\ up
    /\ known' = world /\ Emit
    /\ phase' = "following"
    /\ UNCHANGED <<compositor, stream, running, retry, long, missed, short>>

SessionOverOnLine ==
    /\ phase = "following" /\ ~running /\ stream # << >>
    /\ phase' = "done"
    /\ UNCHANGED <<compositor, stream, running, retry, long, known, shown, missed, short>>

(* The session returns Ok, and with it `run`: the daemon is stopping.      *)
SessionOver ==
    /\ phase = "following" /\ ~running
    /\ phase' = "done"
    /\ UNCHANGED <<compositor, stream, running, retry, long, known, shown, missed, short>>

(* Something failed: connecting, subscribing, an answer that never came or *)
(* does not read, the end of the stream.                                   *)
Reset == IF long THEN First ELSE retry

(* The count stops where one more failure no longer makes a wait longer.   *)
Counted == IF short > Longest THEN short ELSE short + 1

Fail ==
    /\ phase \in {"dialling", "asking", "answered", "following", "resyncing"}
    /\ ~up \/ refusals < MaxOutages
    /\ refusals' = IF up THEN refusals + 1 ELSE refusals
    /\ short' = IF long THEN 1 ELSE Counted
    /\ stream' = << >>
    /\ IF running THEN phase' = "waiting" /\ retry' = Reset
                  ELSE phase' = "done" /\ UNCHANGED retry
    /\ UNCHANGED <<asks, world, up, running, long, known, shown, missed>>

(* The sleep, which nothing interrupts, and the next one twice as long.    *)
Doubled == IF 2 * retry > Longest THEN Longest ELSE 2 * retry

Waited ==
    /\ phase = "waiting"
    /\ retry' = Doubled
    /\ phase' = "top"
    /\ UNCHANGED <<compositor, stream, running, long, known, shown, missed, short>>

Backend ==
    \/ Spawn \/ Top \/ Dial \/ Ask \/ Seed \/ ReadLine \/ Resync \/ SessionOver
    \/ (Fail /\ ~up) \/ Waited

Next ==
    \/ Change \/ Chatter \/ GoAway \/ ComeBack \/ Last10s \/ Stop
    \/ Spawn \/ Top \/ Dial \/ Ask \/ Seed \/ ReadLine \/ Resync \/ SessionOver \/ Fail \/ Waited

Spec == Init /\ [][Next]_vars

(* The thread runs, and every wait of its own ends by itself: a read after *)
(* a second, an answer after two, a sleep after ten.  The compositor owes  *)
(* nothing.                                                                *)
FairSpec == Spec /\ WF_vars(Backend)

-----------------------------------------------------------------------------
Said == [kind : {"change", "partial", "malformed"}, world : 0..MaxChanges] \union {Ignored}

(* Every variable has its type.                                           *)
TypeOK ==
    /\ asks \in BOOLEAN /\ world \in 0..MaxChanges /\ refusals \in 0..MaxOutages /\ up \in BOOLEAN
    /\ stream \in Seq(Said)
    /\ running \in BOOLEAN /\ long \in BOOLEAN /\ missed \in BOOLEAN
    /\ phase \in {"unspawned", "never", "top", "dialling", "asking", "answered", "following",
                  "resyncing", "waiting", "done"}
    /\ retry \in First..Longest
    /\ {known, shown} \subseteq {Unknown} \union (0..MaxChanges)
    /\ short \in 0..Longest + 1

Backoff[n \in Nat] ==
    IF n <= 1 THEN First
    ELSE IF 2 * Backoff[n - 1] > Longest THEN Longest ELSE 2 * Backoff[n - 1]

(* Every wait is as long as the failures since the last session that held: *)
(* the n-th in a row waits 2^(n-1) of the shortest, up to the longest      *)
(* (niri/mod.rs:216-238, hyprland/mod.rs:226-247).                         *)
BacksOff == phase = "waiting" => retry = Backoff[short]

(* With every line read, the daemon has been told what is true, unless a   *)
(* line of this session did not parse: nothing that happens while a        *)
(* session starts is lost (hyprland/mod.rs:252-255).                       *)
QuietMeansCurrent ==
    phase = "following" /\ stream = << >> /\ ~missed => shown = world

(* As a step of the code keeps it.  What is still unread ends with what is *)
(* true now, or says nothing of it:                                        *)
SaysNow ==
    \E i \in DOMAIN stream :
        /\ stream[i] # Ignored /\ stream[i].world = world
        /\ \A j \in DOMAIN stream : j > i => stream[j] = Ignored
SaysNothing == \A i \in DOMAIN stream : stream[i] = Ignored

(* and then the daemon was told already, or an answer that says it is      *)
(* there, or is still to be asked for:                                     *)
SessionsInv ==
    /\ TypeOK
    /\ Connected => SaysNow \/ SaysNothing
    /\ phase = "following" /\ SaysNothing => missed \/ shown = world
    /\ phase = "answered" => known # Unknown /\ (SaysNothing => known = world)

(* An outage leaves on screen what was there: nothing is told to the       *)
(* daemon but what a session has learned (niri/mod.rs:214-215).            *)
LastKnownStays ==
    [][shown' # shown => shown' # Unknown /\ Connected]_vars

(* A compositor that stays up is being followed again sooner or later,     *)
(* however often it went away, unless the daemon stops.                    *)
FollowsAgain ==
    <>[](up /\ running) /\ <>(phase = "top") => <>[](phase = "following")

(* And the daemon then hears what is true, unless it cannot read it.       *)
HearsAgain ==
    <>[](up /\ running) /\ <>(phase = "top") => <>[](shown = world \/ missed)

(* A daemon that stops gets its thread back, wherever the thread is.       *)
ThreadEnds == ~running ~> phase \in {"never", "done"}
=============================================================================
