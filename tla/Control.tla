------------------------------- MODULE Control -------------------------------
(***************************************************************************)
(* The control socket: `Server` and its connection threads                 *)
(* (crates/control/src/server.rs), the `Bridge` over which they call the   *)
(* event loop (src/daemon/bridge.rs), the loop's end of both               *)
(* (src/daemon/loops.rs, `Daemon::on_subscribe`), and clients that ask one *)
(* thing at a time, stop reading or go away (crates/control/src/client.rs).*)
(*                                                                         *)
(* A connection is answered on a thread of its own; a request crosses to   *)
(* the loop in a channel and its answer crosses back.  A connection that   *)
(* subscribes becomes a stream: the loop puts events in a bounded queue,   *)
(* the thread writes them.  The daemon may start to end at any moment.     *)
(*                                                                         *)
(* Abstracted: what a request asks and an event says.  An event is its     *)
(* number, and the description of an output the number of the last event   *)
(* before it was made.  The socket's buffer is a number of lines.          *)
(***************************************************************************)
EXTENDS Naturals, Sequences

CONSTANTS
  Clients,
  Backlog,    (* BACKLOG: events queued for a listener before it is dropped*)
  Buffer,     (* lines the socket takes before a write blocks              *)
  None,       (* no request, no reply                                      *)
  Off,        (* a client that is not listening                            *)
  MaxOutputs, (* bound: outputs to describe                                *)
  MaxEvents,  (* bound: events emitted                                     *)
  MaxAsks     (* bound: requests of one client                             *)

Line(is, n) == [is |-> is, n |-> n]
Kinds == {"reply", "refused", "stopping", "done", "ready", "event"}
Lines == [is: Kinds, n: Nat]
Requests == {"ask", "subscribe", "junk", "blank"}

ASSUME ControlAssumption ==
  /\ Backlog \in Nat \ {0} /\ Buffer \in Nat \ {0}
  /\ MaxOutputs \in Nat /\ MaxEvents \in Nat /\ MaxAsks \in Nat
  /\ Off \notin Nat /\ None \notin Lines \cup Requests

VARIABLES
  daemon,     (* "starting", "running", "ending", "dropped", "unqueued",   *)
              (* "gone": the loop, then what is dropped when it returns    *)
  accepting,  (* the accept thread is running                              *)
  outputs,    (* outputs the daemon holds state for                        *)
  emitted,    (* events emitted                                            *)
  calls,      (* the channel into the loop: clients in the order they asked*)
  listening,  (* Subscribers::listeners                                    *)
  pc,         (* what each connection's thread is doing                    *)
  line,       (* the request a client sent last and its thread did not take*)
  job,        (* the request a thread took                                 *)
  reply,      (* the answer on its way to a thread, or being written       *)
  queue,      (* the events queued for a listener                          *)
  out,        (* lines written to the socket and not read                  *)
  client,     (* "away", "idle", "asking", "listening", "ended", "left"    *)
  view,       (* history: the moment a listener has read up to             *)
  asked,      (* history: the moment a client asked last                   *)
  asks        (* history: requests each client has sent                    *)

loopVars   == <<daemon, accepting, outputs, emitted, calls, listening>>
threadVars == <<pc, job, reply, queue>>
socketVars == <<line, out>>
clientVars == <<client, view, asked, asks>>
vars == <<loopVars, threadVars, socketVars, clientVars>>

Init ==
  /\ daemon = "starting" /\ accepting = TRUE
  /\ outputs = 0 /\ emitted = 0
  /\ calls = <<>> /\ listening = {}
  /\ pc = [c \in Clients |-> "off"]
  /\ job = [c \in Clients |-> None]
  /\ reply = [c \in Clients |-> None]
  /\ queue = [c \in Clients |-> <<>>]
  /\ line = [c \in Clients |-> None]
  /\ out = [c \in Clients |-> <<>>]
  /\ client = [c \in Clients |-> "away"]
  /\ view = [c \in Clients |-> Off]
  /\ asked = [c \in Clients |-> 0]
  /\ asks = [c \in Clients |-> 0]

-----------------------------------------------------------------------------
(* The process is there. *)
Alive == daemon # "gone"

(***************************************************************************)
(* Clients.                                                                *)
(***************************************************************************)

(* `Client::connect`, while the socket is there, then `Client::send`.      *)
Ask(c, request) ==
  /\ \/ client[c] = "idle" /\ pc[c] # "closed"
     \/ client[c] = "away" /\ Alive
  /\ asks[c] < MaxAsks
  /\ line[c] = None
  /\ line' = [line EXCEPT ![c] = request]
  /\ client' = [client EXCEPT ![c] = IF request = "blank" THEN "idle" ELSE "asking"]
  /\ asked' = [asked EXCEPT ![c] = emitted]
  /\ asks' = [asks EXCEPT ![c] = @ + 1]
  /\ UNCHANGED <<loopVars, threadVars, out, view>>

(* A line of a reply or, once subscribed, of the stream.                   *)
ReadLine(c) ==
  /\ client[c] \in {"asking", "listening"}
  /\ out[c] # <<>>
  /\ out' = [out EXCEPT ![c] = Tail(@)]
  /\ LET read == Head(out[c]) IN
       /\ client' = [client EXCEPT ![c] = IF read.is \in {"done", "ready", "event"}
                                          THEN "listening" ELSE "idle"]
       /\ view' = [view EXCEPT ![c] = IF read.is \in {"done", "ready", "event"}
                                      THEN read.n ELSE @]
  /\ UNCHANGED <<loopVars, threadVars, line, asked, asks>>

(* The daemon's end is closed and everything it wrote has been read.       *)
ReadEnd(c) ==
  /\ client[c] \in {"idle", "asking", "listening"}
  /\ pc[c] = "closed" /\ out[c] = <<>>
  /\ client' = [client EXCEPT ![c] = "ended"]
  /\ view' = [view EXCEPT ![c] = Off]
  /\ UNCHANGED <<loopVars, threadVars, socketVars, asked, asks>>

(* Killed, or out of patience: TIMEOUT.                                    *)
GoAway(c) ==
  /\ client[c] \in {"idle", "asking", "listening"}
  /\ client' = [client EXCEPT ![c] = "left"]
  /\ out' = [out EXCEPT ![c] = <<>>]
  /\ view' = [view EXCEPT ![c] = Off]
  /\ UNCHANGED <<loopVars, threadVars, line, asked, asks>>

-----------------------------------------------------------------------------
(***************************************************************************)
(* The accept thread and the connection threads.                           *)
(***************************************************************************)
Accept(c) ==
  /\ Alive /\ accepting
  /\ pc[c] = "off" /\ client[c] # "away"
  /\ pc' = [pc EXCEPT ![c] = "reading"]
  /\ UNCHANGED <<loopVars, job, reply, queue, socketVars, clientVars>>

(* An error of accept(2) ends the thread. *)
AcceptFails ==
  /\ Alive /\ accepting
  /\ accepting' = FALSE
  /\ UNCHANGED <<daemon, outputs, emitted, calls, listening, threadVars, socketVars, clientVars>>

(* Mutant: a blank line is answered like any other that is no request.     *)
TakeLineAnsweringBlank(c) ==
  /\ Alive /\ pc[c] = "reading" /\ line[c] # None
  /\ line' = [line EXCEPT ![c] = None]
  /\ IF line[c] \in {"blank", "junk"}
     THEN /\ pc' = [pc EXCEPT ![c] = "replying"]
          /\ reply' = [reply EXCEPT ![c] = Line("refused", 0)]
          /\ UNCHANGED job
     ELSE /\ pc' = [pc EXCEPT ![c] = "calling"]
          /\ job' = [job EXCEPT ![c] = line[c]]
          /\ UNCHANGED reply
  /\ UNCHANGED <<loopVars, queue, out, clientVars>>

(* `answer` and `respond`: a blank line is skipped, one that is not a      *)
(* request refused, and the others cross to the loop.                      *)
TakeLine(c) ==
  /\ Alive /\ pc[c] = "reading" /\ line[c] # None
  /\ line' = [line EXCEPT ![c] = None]
  /\ CASE line[c] = "blank" -> UNCHANGED <<pc, job, reply>>
       [] line[c] = "junk" ->
            /\ pc' = [pc EXCEPT ![c] = "replying"]
            /\ reply' = [reply EXCEPT ![c] = Line("refused", 0)]
            /\ UNCHANGED job
       [] OTHER ->
            /\ pc' = [pc EXCEPT ![c] = "calling"]
            /\ job' = [job EXCEPT ![c] = line[c]]
            /\ UNCHANGED reply
  /\ UNCHANGED <<loopVars, queue, out, clientVars>>

(* The connection ends: the queue's receiver goes with the thread.         *)
Closing(c) ==
  /\ pc' = [pc EXCEPT ![c] = "closed"]
  /\ queue' = [queue EXCEPT ![c] = <<>>]
  /\ reply' = [reply EXCEPT ![c] = None]

(* The client has gone and there is nothing more to read. *)
ReadFails(c) ==
  /\ Alive /\ pc[c] = "reading" /\ client[c] = "left" /\ line[c] = None
  /\ Closing(c)
  /\ UNCHANGED <<loopVars, job, socketVars, clientVars>>

Receiving == daemon \in {"starting", "running", "ending", "dropped"}

(* `Bridge::call`: sent to the loop if anything there can still receive.   *)
Call(c) ==
  /\ Alive /\ pc[c] = "calling"
  /\ IF Receiving
     THEN /\ calls' = Append(calls, c)
          /\ pc' = [pc EXCEPT ![c] = "waiting"]
          /\ UNCHANGED reply
     ELSE /\ reply' = [reply EXCEPT ![c] = Line("stopping", 0)]
          /\ pc' = [pc EXCEPT ![c] = "replying"]
          /\ UNCHANGED calls
  /\ UNCHANGED <<daemon, accepting, outputs, emitted, listening, job, queue, socketVars,
                 clientVars>>

InChannel(c) == \E i \in 1..Len(calls) : calls[i] = c

(* `answer.recv()`: the answer, or the channel it was to come on dropped.  *)
Await(c) ==
  /\ Alive /\ pc[c] = "waiting" /\ ~InChannel(c)
  /\ reply' = [reply EXCEPT ![c] = IF @ = None THEN Line("stopping", 0) ELSE @]
  /\ pc' = [pc EXCEPT ![c] = "replying"]
  /\ UNCHANGED <<loopVars, job, queue, socketVars, clientVars>>

Room(c) == Len(out[c]) < Buffer

(* The reply is written; one that accepted a listener ends the answering.  *)
WriteReply(c) ==
  /\ Alive /\ pc[c] = "replying" /\ client[c] # "left" /\ Room(c)
  /\ out' = [out EXCEPT ![c] = Append(@, reply[c])]
  /\ pc' = [pc EXCEPT ![c] = IF reply[c].is = "done" THEN "pushing" ELSE "reading"]
  /\ reply' = [reply EXCEPT ![c] = None]
  /\ UNCHANGED <<loopVars, job, queue, line, clientVars>>

(* Nobody is there to read what is being written. *)
WriteFails(c) ==
  /\ Alive /\ client[c] = "left"
  /\ \/ pc[c] = "replying"
     \/ pc[c] = "pushing" /\ queue[c] # <<>>
  /\ Closing(c)
  /\ UNCHANGED <<loopVars, job, socketVars, clientVars>>

(* `push`: the next event queued. *)
Push(c) ==
  /\ Alive /\ pc[c] = "pushing" /\ client[c] # "left"
  /\ queue[c] # <<>> /\ Room(c)
  /\ out' = [out EXCEPT ![c] = Append(@, Head(queue[c]))]
  /\ queue' = [queue EXCEPT ![c] = Tail(@)]
  /\ UNCHANGED <<loopVars, pc, job, reply, line, clientVars>>

(* Mutant: an event that cannot be put on the wire is passed over.         *)
PushSkipping(c) ==
  /\ Alive /\ pc[c] = "pushing" /\ queue[c] # <<>>
  /\ queue' = [queue EXCEPT ![c] = Tail(@)]
  /\ UNCHANGED <<loopVars, pc, job, reply, socketVars, clientVars>>

(* A write that took longer than STALL, or an event that cannot be put on  *)
(* the wire, which may be any.                                             *)
PushEnds(c) ==
  /\ Alive /\ pc[c] = "pushing" /\ queue[c] # <<>>
  /\ Closing(c)
  /\ UNCHANGED <<loopVars, job, socketVars, clientVars>>

(* Mutant: the thread does not notice that its queue ended.                *)
PushedOutLeft(c) ==
  /\ Alive /\ pc[c] = "pushing" /\ queue[c] = <<>> /\ client[c] = "left"
  /\ Closing(c)
  /\ UNCHANGED <<loopVars, job, socketVars, clientVars>>

(* The daemon dropped its end of the queue, and what was in it is written. *)
PushedOut(c) ==
  /\ Alive /\ pc[c] = "pushing" /\ queue[c] = <<>> /\ c \notin listening
  /\ Closing(c)
  /\ UNCHANGED <<loopVars, job, socketVars, clientVars>>

-----------------------------------------------------------------------------
(***************************************************************************)
(* The event loop.                                                         *)
(***************************************************************************)

(* The queue's receiver is held by the thread that created it. *)
Held(c) == pc[c] \in {"waiting", "replying", "pushing"}
Takes(c) == Held(c) /\ Len(queue[c]) < Backlog

(* `Subscribers::emit`: whoever cannot be told is dropped. *)
Emitting ==
  /\ emitted' = emitted + 1
  /\ listening' = {c \in listening : Takes(c)}
  /\ queue' = [c \in Clients |-> IF c \in listening /\ Takes(c)
                                 THEN Append(queue[c], Line("event", emitted + 1))
                                 ELSE queue[c]]

(* Anything the loop does that a listener is told of. *)
Emit ==
  /\ daemon = "running" /\ emitted < MaxEvents
  /\ Emitting
  /\ outputs' \in {n \in 0..MaxOutputs : n <= outputs + 1 /\ outputs <= n + 1}
  /\ UNCHANGED <<daemon, accepting, calls, pc, job, reply, socketVars, clientVars>>

(* `Daemon::on_request`, which may change something as `Emit` does, before *)
(* the client has its answer.                                              *)
Answer ==
  /\ daemon = "running" /\ calls # <<>> /\ job[Head(calls)] = "ask"
  /\ calls' = Tail(calls)
  /\ reply' = [reply EXCEPT ![Head(calls)] = Line("reply", 0)]
  /\ \/ emitted < MaxEvents /\ Emitting
     \/ UNCHANGED <<emitted, listening, queue>>
  /\ UNCHANGED <<daemon, accepting, outputs, pc, job, socketVars, clientVars>>

Description == [i \in 1..outputs |-> Line("ready", emitted)]

(* `Daemon::on_subscribe`: every output described, then added; refused if  *)
(* the queue does not even take the description.                           *)
Listen ==
  /\ daemon = "running" /\ calls # <<>> /\ job[Head(calls)] = "subscribe"
  /\ calls' = Tail(calls)
  /\ LET c == Head(calls) IN
       IF outputs <= Backlog
       THEN /\ queue' = [queue EXCEPT ![c] = Description]
            /\ listening' = listening \cup {c}
            /\ reply' = [reply EXCEPT ![c] = Line("done", emitted)]
       ELSE /\ reply' = [reply EXCEPT ![c] = Line("refused", 0)]
            /\ UNCHANGED <<queue, listening>>
  /\ UNCHANGED <<daemon, accepting, outputs, emitted, pc, job, socketVars, clientVars>>

(* The store opened and the first frame drawn, or not. *)
Start ==
  /\ daemon = "starting"
  /\ daemon' \in {"running", "ending"}
  /\ UNCHANGED <<accepting, outputs, emitted, calls, listening, threadVars, socketVars, clientVars>>

(* A signal, or an error of the display. *)
Stop ==
  /\ daemon = "running"
  /\ daemon' = "ending"
  /\ UNCHANGED <<accepting, outputs, emitted, calls, listening, threadVars, socketVars, clientVars>>

(* `run` returns: the daemon is dropped, and the listeners' queues with it.*)
DropDaemon ==
  /\ daemon = "ending"
  /\ daemon' = "dropped"
  /\ listening' = {}
  /\ UNCHANGED <<accepting, outputs, emitted, calls, threadVars, socketVars, clientVars>>

(* The loop's sources follow: what is in the channel will not be answered. *)
DropCalls ==
  /\ daemon = "dropped"
  /\ daemon' = "unqueued"
  /\ calls' = <<>>
  /\ UNCHANGED <<accepting, outputs, emitted, listening, threadVars, socketVars, clientVars>>

(* The process exits, whatever its threads were doing.                     *)
Exit ==
  /\ daemon = "unqueued"
  /\ daemon' = "gone"
  /\ pc' = [c \in Clients |-> IF client[c] = "away" THEN "off" ELSE "closed"]
  /\ queue' = [c \in Clients |-> <<>>]
  /\ reply' = [c \in Clients |-> None]
  /\ UNCHANGED <<accepting, outputs, emitted, calls, listening, job, socketVars, clientVars>>

-----------------------------------------------------------------------------
Client(c) ==
  (\E r \in Requests : Ask(c, r)) \/ ReadLine(c) \/ ReadEnd(c) \/ GoAway(c)

Thread(c) ==
  \/ TakeLine(c) \/ ReadFails(c) \/ Call(c) \/ Await(c)
  \/ WriteReply(c) \/ WriteFails(c) \/ Push(c) \/ PushEnds(c) \/ PushedOut(c)

Loop == Start \/ Emit \/ Answer \/ Listen \/ Stop \/ DropDaemon \/ DropCalls \/ Exit

Next == \/ \E c \in Clients : Client(c) \/ Accept(c) \/ Thread(c)
        \/ AcceptFails \/ Loop

Spec == Init /\ [][Next]_vars

(* The loop gets round to what is in its channel and the threads run; a    *)
(* write that blocks is given up after STALL.  Clients owe nothing.        *)
Fairness ==
  /\ WF_vars(Start) /\ WF_vars(Answer \/ Listen)
  /\ WF_vars(DropDaemon \/ DropCalls \/ Exit)
  /\ \A c \in Clients : WF_vars(Accept(c)) /\ WF_vars(Thread(c))

FairSpec == Spec /\ Fairness

-----------------------------------------------------------------------------
Answers == {"reply", "refused", "stopping", "done"}
Told == {"done", "ready", "event"}

(* Every variable has its type. *)
TypeOK ==
  /\ daemon \in {"starting", "running", "ending", "dropped", "unqueued", "gone"}
  /\ accepting \in BOOLEAN
  /\ outputs \in 0..MaxOutputs /\ emitted \in 0..MaxEvents
  /\ calls \in Seq(Clients) /\ listening \subseteq Clients
  /\ pc \in [Clients -> {"off", "reading", "calling", "waiting", "replying", "pushing", "closed"}]
  /\ job \in [Clients -> Requests \cup {None}]
  /\ reply \in [Clients -> Lines \cup {None}]
  /\ queue \in [Clients -> Seq(Lines)] /\ out \in [Clients -> Seq(Lines)]
  /\ \A c \in Clients : Len(queue[c]) <= Backlog /\ Len(out[c]) <= Buffer
  /\ line \in [Clients -> Requests \cup {None}]
  /\ client \in [Clients -> {"away", "idle", "asking", "listening", "ended", "left"}]
  /\ view \in [Clients -> Nat \cup {Off}]
  /\ asked \in [Clients -> Nat] /\ asks \in [Clients -> 0..MaxAsks]

(* What a listener has read up to and everything on its way to it.         *)
Coming(c) ==
  (IF view[c] = Off THEN <<>> ELSE <<Line("done", view[c])>>)
    \o out[c] \o (IF reply[c] = None THEN <<>> ELSE <<reply[c]>>) \o queue[c]

(* No event is missing from a stream, none comes twice and none out of     *)
(* order: "a silently missing line would leave it believing something      *)
(* stale" (server.rs:61-62).  Of two lines that tell something and have    *)
(* nothing told between them, the second says where the first left off.    *)
Gapless ==
  \A c \in Clients : client[c] # "left" =>
    \A i, j \in DOMAIN Coming(c) :
      /\ i < j /\ Coming(c)[i].is \in Told /\ Coming(c)[j].is \in Told
      /\ \A k \in (i + 1)..(j - 1) : Coming(c)[k].is \notin Told
      => Coming(c)[j].n = Coming(c)[i].n + (IF Coming(c)[j].is = "event" THEN 1 ELSE 0)

(* Whoever is still on the list has everything emitted so far, or has it   *)
(* coming: a listener that fell behind is off it.                          *)
ListedIsComplete ==
  \A c \in listening : Held(c) /\ client[c] # "left" =>
    /\ Coming(c) # <<>>
    /\ Coming(c)[Len(Coming(c))].is \in Told /\ Coming(c)[Len(Coming(c))].n = emitted

(* The two as a step of the code keeps them.  Whose turn it is between a   *)
(* client and its thread:                                                  *)
Turn(c) ==
  /\ client[c] = "away" => pc[c] = "off" /\ line[c] = None /\ out[c] = <<>>
  /\ client[c] = "idle" =>
       pc[c] \in {"off", "reading", "closed"} /\ line[c] \in {None, "blank"} /\ out[c] = <<>>
  /\ client[c] = "listening" => pc[c] \in {"pushing", "closed"} /\ line[c] \in {None, "blank"}
  /\ client[c] = "ended" => pc[c] = "closed"
  /\ client[c] = "listening" <=> view[c] # Off
  /\ pc[c] \in {"calling", "waiting", "replying"} =>
       client[c] = "asking" /\ line[c] = None /\ out[c] = <<>>
  /\ line[c] \notin {None, "blank"} =>
       /\ client[c] \in {"asking", "ended"} /\ pc[c] \in {"off", "reading", "closed"}
       /\ out[c] = <<>>
  /\ pc[c] = "pushing" => client[c] \in {"asking", "listening"}

(* The line that follows what leads up to n, and lines that do.            *)
Follows(n, l) == l.is \in Told /\ l.n = n + (IF l.is = "event" THEN 1 ELSE 0)
InOrder(s) == \A i \in 1..Len(s) : i > 1 => Follows(s[i - 1].n, s[i])

(* What a listener has once all but its queue is read, or all of it.       *)
UpTo(c) ==
  IF reply[c] # None THEN reply[c].n
  ELSE IF out[c] # <<>> THEN out[c][Len(out[c])].n
  ELSE view[c]
Latest(c) == IF queue[c] # <<>> THEN queue[c][Len(queue[c])].n ELSE UpTo(c)

Accepted(c) == reply[c] # None /\ reply[c].is = "done"

(* What was written is in order, and begins where the client is:           *)
Written(c) ==
  /\ InOrder(out[c])
  /\ out[c] # <<>> => IF out[c][1].is \in Told THEN pc[c] \in {"pushing", "closed"}
                                              ELSE Len(out[c]) = 1
  /\ out[c] # <<>> /\ view[c] # Off => Follows(view[c], out[c][1])
  /\ pc[c] = "pushing" /\ view[c] = Off => out[c] # <<>> /\ out[c][1].is \in Told

(* What is queued is in order, and begins where the rest ends, for a       *)
(* client that listens or is about to:                                     *)
Queued(c) ==
  /\ InOrder(queue[c])
  /\ queue[c] # <<>> => (pc[c] = "pushing" \/ Accepted(c)) /\ Follows(UpTo(c), queue[c][1])
  /\ c \in listening =>
       \/ pc[c] = "closed"
       \/ (pc[c] = "pushing" \/ Accepted(c)) /\ Latest(c) = emitted

(* Nothing is told before it happened.                                     *)
Past(c) ==
  /\ \A i \in 1..Len(out[c]) : out[c][i].n <= emitted
  /\ \A i \in 1..Len(queue[c]) : queue[c][i].n <= emitted
  /\ reply[c] # None => reply[c].n <= emitted
  /\ view[c] # Off => view[c] <= emitted

(* A request is in the channel once, and has no answer then:               *)
ChannelInv ==
  /\ \A i, j \in 1..Len(calls) : calls[i] = calls[j] => i = j
  /\ \A i \in 1..Len(calls) : pc[calls[i]] = "waiting" /\ reply[calls[i]] = None
  /\ \A c \in Clients :
       reply[c] # None => pc[c] \in {"waiting", "replying"} /\ reply[c].is \in Answers
  /\ \A c \in Clients : pc[c] = "replying" => reply[c] # None
  /\ daemon \in {"unqueued", "gone"} => calls = <<>>

StreamInv ==
  /\ TypeOK /\ ChannelInv
  /\ \A c \in Clients : client[c] # "left" => Turn(c) /\ Written(c) /\ Queued(c) /\ Past(c)

(* Where the answer to a client is.                                        *)
Places(c) ==
  {p \in {"sent", "taken", "asked", "dropped", "answered"} \X {0} :
     CASE p[1] = "sent" -> line[c] \notin {None, "blank"}
       [] p[1] = "taken" -> pc[c] = "calling"
       [] p[1] = "asked" -> InChannel(c)
       [] p[1] = "dropped" -> pc[c] = "waiting" /\ ~InChannel(c) /\ reply[c] = None
       [] p[1] = "answered" -> reply[c] # None}
  \cup {p \in {"written"} \X DOMAIN out[c] : out[c][p[2]].is \in Answers}

(* One place for a client that waits for one, none for a client that does  *)
(* not, so that a reply is never taken for the reply to something else;    *)
(* and a description is no older than the request for it.                  *)
OneAnswerEach ==
  \A c \in Clients :
    /\ Alive /\ client[c] = "asking" => \E p \in Places(c) : Places(c) = {p}
    /\ Alive /\ client[c] \in {"idle", "listening"} => Places(c) = {}
    /\ client[c] = "listening" => asked[c] <= view[c]

(* Nothing is lost or repeated between the loop and a listener.            *)
Stream == INSTANCE Broadcast WITH at <- view
ImplementsBroadcast == [](Gapless /\ ListedIsComplete) /\ Stream!Spec

(* Whoever asks is answered, or finds the connection closed: also when the *)
(* daemon ends in between, and unless nothing accepts connections.         *)
Answered ==
  \A c \in Clients :
    client[c] = "asking" ~>
      (client[c] # "asking" \/ out[c] # <<>> \/ pc[c] = "closed" \/ ~accepting)

(* A listener that was dropped is not left connected, whether it reads or  *)
(* not.                                                                    *)
DroppedIsClosed ==
  \A c \in Clients :
    (pc[c] = "pushing" /\ c \notin listening) ~> (pc[c] = "closed")
=============================================================================
