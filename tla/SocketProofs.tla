---------------------------- MODULE SocketProofs ----------------------------
(***************************************************************************)
(* Proofs about Binding, for any number of daemons, starts and kills; and  *)
(* about Control, for any clients, backlog, socket buffer and bounds: what *)
(* a listener reads is what Broadcast promises, and what a client asks has *)
(* one answer.                                                             *)
(***************************************************************************)
EXTENDS Binding, Control, TLAPS

USE ControlAssumption
USE DEF bindingVars, loopVars, threadVars, socketVars, clientVars

(***************************************************************************)
(* Binding.                                                                *)
(***************************************************************************)
(* A machine on which no daemon has been started yet satisfies it.         *)
LEMMA BindingInitInv == BindingInit => BindingInv
<1> SUFFICES ASSUME BindingInit PROVE BindingInv
  OBVIOUS
<1>1. \A d \in Daemons : process[d] = "down"
  BY DEF BindingInit
<1>2. {d \in Daemons : process[d] \in {"up", "ending", "removed"}} = {} /\ Up = {}
  BY <1>1 DEF Up
<1>3. starts \in 0..MaxStarts /\ raced = FALSE
  BY BindingAssumption DEF BindingAssumption, BindingInit
<1>4. BindingTypeOK
  BY <1>1, <1>2, <1>3 DEF BindingInit, BindingTypeOK
<1> QED
  BY <1>1, <1>2, <1>4 DEF BindingInv, BindingNow, Up

(* Every step of every daemon keeps the invariant. *)
LEMMA BindingNextInv == BindingInv /\ [BindingNext]_bindingVars => BindingInv'
<1> SUFFICES ASSUME BindingInv, [BindingNext]_bindingVars PROVE BindingInv'
  OBVIOUS
<1> USE DEF BindingInv, BindingTypeOK, BindingNow, Up
<1>1. CASE UNCHANGED bindingVars
  BY <1>1
<1>2. ASSUME NEW d \in Daemons, Launch(d) PROVE BindingInv'
  <2>1. starts' \in 0..MaxStarts /\ raced' \in BOOLEAN
    BY <1>2, BindingAssumption DEF Launch, BindingAssumption
  <2>2. ~raced' => ~raced /\ \A e \in Daemons \ {d} : ~BindingNow(e)
    BY <1>2 DEF Launch
  <2> QED
    BY <1>2, <2>1, <2>2 DEF Launch
<1>3. ASSUME NEW d \in Daemons, Look(d) PROVE BindingInv'
  BY <1>3 DEF Look
<1>4. ASSUME NEW d \in Daemons, AskPath(d) PROVE BindingInv'
  <2>1. ~raced /\ path \notin listens => Up = {}
    OBVIOUS
  <2> QED
    BY <1>4, <2>1 DEF AskPath
<1>5. ASSUME NEW d \in Daemons, Clear(d) PROVE BindingInv'
  BY <1>5 DEF Clear
<1>6. ASSUME NEW d \in Daemons, Bind(d) PROVE BindingInv'
  BY <1>6, BindingAssumption DEF Bind, BindingAssumption
<1>7. ASSUME NEW d \in Daemons, End(d) PROVE BindingInv'
  BY <1>7 DEF End
<1>8. ASSUME NEW d \in Daemons, Remove(d) PROVE BindingInv'
  BY <1>8 DEF Remove
<1>9. ASSUME NEW d \in Daemons, Quit(d) PROVE BindingInv'
  BY <1>9 DEF Quit
<1>10. ASSUME NEW d \in Daemons, Kill(d) PROVE BindingInv'
  BY <1>10 DEF Kill
<1> QED
  BY <1>1, <1>2, <1>3, <1>4, <1>5, <1>6, <1>7, <1>8, <1>9, <1>10 DEF BindingNext, Steps

(* The inductive invariant holds in every reachable state. *)
THEOREM BindingInvariance == BindingSpec => []BindingInv
<1>1. BindingInv /\ UNCHANGED bindingVars => BindingInv'
  BY BindingNextInv
<1> QED
  BY BindingInitInv, BindingNextInv, PTL DEF BindingSpec

(* Daemons that do not bind at the same moment never run side by side, and *)
(* the path leads to the one that runs, whatever was killed or ended.      *)
THEOREM SoleDaemonProved == BindingSpec => []SoleUnlessRaced
<1>1. BindingInv => SoleUnlessRaced
  BY DEF BindingInv, SoleUnlessRaced, SoleDaemon
<1> QED
  BY <1>1, BindingInvariance, PTL

(***************************************************************************)
(* Control.                                                                *)
(***************************************************************************)
(* What StreamInv says of one client.                                      *)
ClientInv(c) == client[c] # "left" => Turn(c) /\ Written(c) /\ Queued(c) /\ Past(c)

-----------------------------------------------------------------------------
(* A line is not the absence of one.                                       *)
LEMMA LineFacts ==
  /\ \A k \in Kinds, n \in Nat :
       /\ Line(k, n) \in Lines /\ Line(k, n) # None
       /\ Line(k, n).is = k /\ Line(k, n).n = n
  /\ \A l \in Lines : l.is \in Kinds /\ l.n \in Nat /\ l # None
BY DEF ControlAssumption, Line, Lines

(* What a sequence of lines is when it is not empty.                       *)
LEMMA SomeFacts ==
  ASSUME NEW s \in Seq(Lines), s # <<>>
  PROVE /\ Len(s) \in Nat \ {0}
        /\ Head(s) = s[1] /\ s[1] \in Lines /\ s[Len(s)] \in Lines
        /\ \A i \in 1..Len(s) : s[i] \in Lines /\ s[i].n \in Nat
<1>1. Len(s) \in Nat \ {0}
  OBVIOUS
<1>2. \A i \in 1..Len(s) : s[i] \in Lines
  OBVIOUS
<1>. QED BY <1>1, <1>2 DEF Lines

(* How long it is then.                                                    *)
LEMMA LenFacts ==
  ASSUME NEW s \in Seq(Lines)
  PROVE /\ Len(s) \in Nat /\ (s # <<>> <=> Len(s) >= 1)
        /\ s # <<>> => Len(s) \in 1..Len(s) /\ 1 \in 1..Len(s) /\ (Len(s) = 1 \/ Len(s) > 1)
<1>1. Len(s) \in Nat
  OBVIOUS
<1>2. s # <<>> <=> Len(s) # 0
  OBVIOUS
<1> DEFINE n == Len(s)
           some == s # <<>>
<1>4. n \in Nat /\ (some <=> n # 0)
  BY <1>1, <1>2
<1> HIDE DEF n, some
<1>5. (some <=> n >= 1) /\ (some => n \in 1..n /\ 1 \in 1..n /\ (n = 1 \/ n > 1))
  BY <1>4
<1>. QED BY <1>4, <1>5 DEF n, some

(* No lines are in order.                                                  *)
LEMMA EmptyFacts == <<>> \in Seq(Lines) /\ Len(<<>>) = 0 /\ InOrder(<<>>)
BY DEF InOrder

(* A line put at the end of what is in order, if it follows the last.      *)
LEMMA AppendFacts ==
  ASSUME NEW s \in Seq(Lines), NEW l \in Lines
  PROVE /\ Append(s, l) \in Seq(Lines) /\ Append(s, l) # <<>>
        /\ Len(Append(s, l)) = Len(s) + 1 /\ Len(s) \in Nat
        /\ \A i \in 1..Len(s) : Append(s, l)[i] = s[i]
        /\ Append(s, l)[Len(s) + 1] = l
        /\ Append(s, l)[1] = IF s = <<>> THEN l ELSE s[1]
        /\ InOrder(s) /\ (s # <<>> => Follows(s[Len(s)].n, l)) => InOrder(Append(s, l))
<1> DEFINE t == Append(s, l)
<1>1. /\ t \in Seq(Lines) /\ Len(t) = Len(s) + 1 /\ Len(s) \in Nat
      /\ \A i \in 1..Len(s) : t[i] = s[i]
      /\ t[Len(s) + 1] = l
  OBVIOUS
<1>2. t # <<>> /\ (s # <<>> => Len(s) >= 1) /\ (s = <<>> => Len(s) = 0)
  <2>1. Len(t) >= 1
    BY <1>1
  <2>. QED BY <1>1, <2>1, LenFacts
<1>3. t[1] = IF s = <<>> THEN l ELSE s[1]
  BY <1>1, <1>2
<1>4. ASSUME InOrder(s), s # <<>> => Follows(s[Len(s)].n, l) PROVE InOrder(t)
  <2> SUFFICES ASSUME NEW i \in 1..Len(t), i > 1 PROVE Follows(t[i - 1].n, t[i])
    BY DEF InOrder
  <2>1. CASE i = Len(s) + 1
    BY <1>1, <1>2, <1>4, <2>1
  <2>2. CASE i \in 1..Len(s)
    BY <1>1, <1>4, <2>2 DEF InOrder
  <2>. QED BY <1>1, <2>1, <2>2
<1>. QED BY <1>1, <1>2, <1>3, <1>4

(* What is left when the first line of what is in order is taken.          *)
LEMMA TailFacts ==
  ASSUME NEW s \in Seq(Lines), s # <<>>
  PROVE /\ Tail(s) \in Seq(Lines) /\ Len(Tail(s)) = Len(s) - 1
        /\ \A i \in 1..Len(Tail(s)) : i + 1 \in 1..Len(s) /\ Tail(s)[i] = s[i + 1]
        /\ Tail(s) # <<>> => Tail(s)[Len(Tail(s))] = s[Len(s)]
        /\ Tail(s) = <<>> => Head(s) = s[Len(s)]
        /\ InOrder(s) => InOrder(Tail(s))
        /\ InOrder(s) /\ Tail(s) # <<>> => Follows(Head(s).n, Tail(s)[1])
<1> DEFINE t == Tail(s)
<1>1. /\ t \in Seq(Lines) /\ Len(t) = Len(s) - 1 /\ Len(s) \in Nat \ {0} /\ Head(s) = s[1]
      /\ \A i \in 1..Len(t) : t[i] = s[i + 1]
  BY SomeFacts
<1>2. \A i \in 1..Len(t) : i + 1 \in 1..Len(s)
  BY <1>1
<1>3. t # <<>> => Len(t) \in 1..Len(t) /\ 1 \in 1..Len(t) /\ t[Len(t)] = s[Len(s)] /\ t[1] = s[2]
  <2> SUFFICES ASSUME t # <<>>
               PROVE Len(t) \in 1..Len(t) /\ 1 \in 1..Len(t) /\ t[Len(t)] = s[Len(s)] /\ t[1] = s[2]
    OBVIOUS
  <2>1. Len(t) \in Nat \ {0}
    BY <1>1, LenFacts
  <2>2. Len(t) \in 1..Len(t) /\ 1 \in 1..Len(t) /\ Len(t) + 1 = Len(s) /\ 1 + 1 = 2
    BY <1>1, <2>1
  <2>. QED BY <1>1, <2>2
<1>4. t = <<>> => Len(s) = 1
  <2> DEFINE n == Len(s)
             m == Len(t)
  <2>1. m = n - 1 /\ n \in Nat /\ n >= 1
    BY <1>1
  <2>2. t = <<>> => ~(m >= 1)
    BY <1>1, LenFacts
  <2> HIDE DEF n, m
  <2>3. t = <<>> => n = 1
    BY <2>1, <2>2
  <2>. QED BY <2>3 DEF n
<1>5. InOrder(s) => InOrder(t)
  <2> SUFFICES ASSUME InOrder(s), NEW i \in 1..Len(t), i > 1
               PROVE Follows(t[i - 1].n, t[i])
    BY DEF InOrder
  <2>1. i + 1 \in 1..Len(s) /\ i + 1 > 1 /\ (i + 1) - 1 = i /\ i - 1 \in 1..Len(t)
    BY <1>1
  <2>2. t[i] = s[i + 1] /\ t[i - 1] = s[i]
    BY <1>1, <2>1
  <2>. QED BY <2>1, <2>2 DEF InOrder
<1>6. InOrder(s) /\ t # <<>> => Follows(s[1].n, s[2])
  BY <1>1, <1>2, <1>3 DEF InOrder
<1>. QED BY <1>1, <1>2, <1>3, <1>4, <1>5, <1>6

-----------------------------------------------------------------------------
(* A client whom a step does not concern.                                  *)
LEMMA Elsewhere ==
  ASSUME NEW c \in Clients, ClientInv(c), emitted' = emitted,
         c \in listening' => c \in listening,
         pc'[c] = pc[c], reply'[c] = reply[c], queue'[c] = queue[c], out'[c] = out[c],
         line'[c] = line[c], client'[c] = client[c], view'[c] = view[c]
  PROVE ClientInv(c)'
BY DEF ClientInv, Turn, Written, Queued, Past, Accepted, Latest, UpTo

(* A client that has gone.                                                 *)
LEMMA Gone ==
  ASSUME NEW c \in Clients, client'[c] = "left"
  PROVE ClientInv(c)'
BY DEF ClientInv

-----------------------------------------------------------------------------
(* Nobody is connected at first. *)
LEMMA InitInv ==
  ASSUME Init
  PROVE StreamInv
<1>1. TypeOK
  BY DEF Init, TypeOK, ControlAssumption
<1>2. ChannelInv
  BY DEF Init, ChannelInv
<1>3. ASSUME NEW c \in Clients PROVE Turn(c) /\ Written(c) /\ Queued(c) /\ Past(c)
  <2>1. /\ client[c] = "away" /\ pc[c] = "off" /\ line[c] = None /\ reply[c] = None
        /\ out[c] = <<>> /\ queue[c] = <<>> /\ view[c] = Off /\ listening = {}
    BY <1>3 DEF Init
  <2>2. Turn(c)
    BY <2>1 DEF Turn
  <2>3. Written(c)
    BY <2>1, EmptyFacts DEF Written
  <2>4. Queued(c)
    BY <2>1, EmptyFacts DEF Queued
  <2>5. Past(c)
    BY <2>1, EmptyFacts, ControlAssumption DEF Past, ControlAssumption
  <2>. QED BY <2>2, <2>3, <2>4, <2>5
<1>. QED BY <1>1, <1>2, <1>3 DEF StreamInv

(* A function changed at one place, to another of its values.              *)
LEMMA Update ==
  ASSUME NEW S, NEW T, NEW f \in [S -> T], NEW c \in S, NEW v \in T
  PROVE [f EXCEPT ![c] = v] \in [S -> T]
OBVIOUS

(* A step of a client keeps the types.                                     *)
LEMMA ClientTypes ==
  ASSUME TypeOK, NEW c \in Clients, Client(c)
  PROVE TypeOK'
<1>1. ASSUME NEW r \in Requests, Ask(c, r) PROVE TypeOK'
  <2>1. /\ line \in [Clients -> Requests \cup {None}] /\ asked \in [Clients -> Nat]
        /\ asks \in [Clients -> 0..MaxAsks] /\ emitted \in Nat /\ MaxAsks \in Nat
        /\ client \in [Clients -> {"away", "idle", "asking", "listening", "ended", "left"}]
    BY DEF TypeOK, ControlAssumption
  <2>2. /\ line' = [line EXCEPT ![c] = r] /\ asked' = [asked EXCEPT ![c] = emitted]
        /\ asks[c] < MaxAsks /\ asks' = [asks EXCEPT ![c] = asks[c] + 1]
        /\ \E s \in {"idle", "asking"} : client' = [client EXCEPT ![c] = s]
        /\ UNCHANGED <<loopVars, threadVars, out, view>>
    BY <1>1 DEF Ask
  <2>3. line' \in [Clients -> Requests \cup {None}] /\ asked' \in [Clients -> Nat]
    BY <2>1, <2>2
  <2>4. asks' \in [Clients -> 0..MaxAsks]
    BY <2>1, <2>2
  <2>5. client' \in [Clients -> {"away", "idle", "asking", "listening", "ended", "left"}]
    BY <2>1, <2>2
  <2>. QED BY <2>2, <2>3, <2>4, <2>5 DEF TypeOK
<1>2. CASE ReadLine(c)
  <2>1. /\ Tail(out[c]) \in Seq(Lines) /\ Len(Tail(out[c])) <= Buffer
        /\ Head(out[c]) \in Lines /\ Head(out[c]).n \in Nat
    BY <1>2, SomeFacts, TailFacts, LineFacts DEF ReadLine, TypeOK, ControlAssumption
  <2>2. /\ out' \in [Clients -> Seq(Lines)] /\ \A d \in Clients : Len(out'[d]) <= Buffer
        /\ client' \in [Clients -> {"away", "idle", "asking", "listening", "ended", "left"}]
        /\ view' \in [Clients -> Nat \cup {Off}]
    BY <1>2, <2>1 DEF ReadLine, TypeOK
  <2>. QED BY <1>2, <2>2 DEF ReadLine, TypeOK
<1>3. CASE ReadEnd(c)
  BY <1>3 DEF ReadEnd, TypeOK
<1>4. CASE GoAway(c)
  <2>1. out' \in [Clients -> Seq(Lines)] /\ \A d \in Clients : Len(out'[d]) <= Buffer
    BY <1>4 DEF GoAway, TypeOK, ControlAssumption
  <2>. QED BY <1>4, <2>1 DEF GoAway, TypeOK
<1>. QED BY <1>1, <1>2, <1>3, <1>4 DEF Client

(* What taking a line does, whichever it is.                               *)
LEMMA TakeLineFacts ==
  ASSUME TypeOK, NEW c \in Clients, TakeLine(c)
  PROVE /\ pc[c] = "reading" /\ line[c] # None /\ line' = [line EXCEPT ![c] = None]
        /\ UNCHANGED <<loopVars, queue, out, clientVars>>
        /\ \/ line[c] = "blank" /\ pc' = pc /\ job' = job /\ reply' = reply
           \/ /\ line[c] # "blank" /\ job' = job
              /\ pc' = [pc EXCEPT ![c] = "replying"]
              /\ reply' = [reply EXCEPT ![c] = Line("refused", 0)]
           \/ /\ line[c] # "blank" /\ reply' = reply
              /\ pc' = [pc EXCEPT ![c] = "calling"]
              /\ job' = [job EXCEPT ![c] = line[c]]
<1>1. CASE line[c] = "blank"
  BY <1>1 DEF TakeLine
<1>2. CASE line[c] = "junk"
  BY <1>2 DEF TakeLine
<1>3. CASE line[c] \notin {"blank", "junk"}
  BY <1>3 DEF TakeLine
<1>. QED BY <1>1, <1>2, <1>3

(* A step of a connection's thread does.                                   *)
LEMMA ThreadTypes ==
  ASSUME TypeOK, ChannelInv, NEW c \in Clients, Thread(c)
  PROVE TypeOK'
<1> USE DEF TypeOK, Kinds
<1>1. CASE TakeLine(c)
  <2>1. Line("refused", 0) \in Lines
    BY LineFacts
  <2>2. /\ line[c] \in Requests \cup {None}
        /\ pc[c] = "reading" /\ line' = [line EXCEPT ![c] = None]
        /\ UNCHANGED <<loopVars, queue, out, clientVars>>
    BY <1>1, TakeLineFacts
  <2>6. /\ reply \in [Clients -> Lines \cup {None}] /\ job \in [Clients -> Requests \cup {None}]
        /\ pc \in [Clients -> {"off", "reading", "calling", "waiting", "replying", "pushing",
                              "closed"}]
    OBVIOUS
  <2> HIDE DEF TypeOK, Kinds
  <2>7. /\ reply' = reply \/ reply' = [reply EXCEPT ![c] = Line("refused", 0)]
        /\ job' = job \/ job' = [job EXCEPT ![c] = line[c]]
        /\ pc' = pc \/ pc' = [pc EXCEPT ![c] = "replying"] \/ pc' = [pc EXCEPT ![c] = "calling"]
    BY <1>1, TakeLineFacts
  <2>3. reply' \in [Clients -> Lines \cup {None}]
    BY <2>1, <2>6, <2>7, Update
  <2>4. job' \in [Clients -> Requests \cup {None}]
    BY <2>2, <2>6, <2>7, Update
  <2>5. pc' \in [Clients -> {"off", "reading", "calling", "waiting", "replying", "pushing",
                             "closed"}]
    BY <2>6, <2>7
  <2> USE DEF TypeOK, Kinds
  <2>. QED BY <2>2, <2>3, <2>4, <2>5
<1>2. ASSUME Closing(c), UNCHANGED <<loopVars, job, socketVars, clientVars>> PROVE TypeOK'
  <2>1. queue' \in [Clients -> Seq(Lines)] /\ \A d \in Clients : Len(queue'[d]) <= Backlog
    BY <1>2 DEF Closing, ControlAssumption
  <2>. QED BY <1>2, <2>1 DEF Closing
<1>3. CASE Call(c)
  <2>1. Line("stopping", 0) \in Lines
    BY LineFacts
  <2>3. Append(calls, c) \in Seq(Clients)
    OBVIOUS
  <2>4. /\ calls \in Seq(Clients) /\ reply \in [Clients -> Lines \cup {None}]
        /\ pc \in [Clients -> {"off", "reading", "calling", "waiting", "replying", "pushing",
                              "closed"}]
    OBVIOUS
  <2> HIDE DEF TypeOK, Kinds
  <2>5. /\ calls' = calls \/ calls' = Append(calls, c)
        /\ reply' = reply \/ reply' = [reply EXCEPT ![c] = Line("stopping", 0)]
        /\ pc' = [pc EXCEPT ![c] = "waiting"] \/ pc' = [pc EXCEPT ![c] = "replying"]
        /\ UNCHANGED <<daemon, accepting, outputs, emitted, listening, job, queue, socketVars,
                       clientVars>>
    BY <1>3 DEF Call
  <2>2. calls' \in Seq(Clients) /\ reply' \in [Clients -> Lines \cup {None}]
    <3>1. Line("stopping", 0) \in Lines \cup {None}
      BY <2>1
    <3>2. [reply EXCEPT ![c] = Line("stopping", 0)] \in [Clients -> Lines \cup {None}]
      BY <2>4, <3>1, Update
    <3>. QED BY <2>3, <2>4, <2>5, <3>2
  <2>6. pc' \in [Clients -> {"off", "reading", "calling", "waiting", "replying", "pushing",
                             "closed"}]
    BY <2>4, <2>5
  <2>. QED BY <2>2, <2>5, <2>6 DEF TypeOK, Kinds
<1>4. CASE Await(c)
  <2>1. Line("stopping", 0) \in Lines
    BY LineFacts
  <2>2. reply' \in [Clients -> Lines \cup {None}]
    BY <1>4, <2>1 DEF Await
  <2>3. pc' \in [Clients -> {"off", "reading", "calling", "waiting", "replying", "pushing",
                             "closed"}]
    BY <1>4 DEF Await
  <2>. QED BY <1>4, <2>2, <2>3 DEF Await
<1>5. CASE WriteReply(c)
  <2>1. reply[c] \in Lines
    BY <1>5 DEF WriteReply, ChannelInv
  <2>2. out' \in [Clients -> Seq(Lines)] /\ \A d \in Clients : Len(out'[d]) <= Buffer
    <3>1. Append(out[c], reply[c]) \in Seq(Lines) /\ Len(Append(out[c], reply[c])) <= Buffer
      BY <1>5, <2>1, AppendFacts DEF WriteReply, Room, ControlAssumption
    <3>. QED BY <1>5, <3>1 DEF WriteReply
  <2>. QED BY <1>5, <2>2 DEF WriteReply
<1>6. CASE Push(c)
  <2>1. /\ queue[c] \in Seq(Lines) /\ queue[c] # <<>> /\ out[c] \in Seq(Lines)
        /\ Head(queue[c]) \in Lines
    BY <1>6, SomeFacts DEF Push
  <2>2. /\ Append(out[c], Head(queue[c])) \in Seq(Lines)
        /\ Len(Append(out[c], Head(queue[c]))) <= Buffer
    BY <1>6, <2>1, AppendFacts DEF Push, Room, ControlAssumption
  <2>3. Tail(queue[c]) \in Seq(Lines) /\ Len(Tail(queue[c])) <= Backlog
    BY <2>1, TailFacts, SomeFacts DEF ControlAssumption
  <2>. QED BY <1>6, <2>2, <2>3 DEF Push
<1>. QED
  BY <1>1, <1>2, <1>3, <1>4, <1>5, <1>6
  DEF Thread, ReadFails, WriteFails, PushEnds, PushedOut

(* Emitting one event does.                                                *)
LEMMA EmittingTypes ==
  ASSUME TypeOK, Emitting, emitted < MaxEvents
  PROVE /\ emitted' \in 0..MaxEvents /\ listening' \subseteq Clients
        /\ queue' \in [Clients -> Seq(Lines)] /\ \A c \in Clients : Len(queue'[c]) <= Backlog
<1>1. emitted' \in 0..MaxEvents /\ listening' \subseteq Clients
  BY DEF Emitting, TypeOK, ControlAssumption
<1>2. Line("event", emitted + 1) \in Lines
  BY LineFacts DEF TypeOK, Kinds
<1>3. \A c \in listening : Takes(c) =>
        /\ Append(queue[c], Line("event", emitted + 1)) \in Seq(Lines)
        /\ Len(Append(queue[c], Line("event", emitted + 1))) <= Backlog
  BY <1>2, AppendFacts DEF Takes, TypeOK, ControlAssumption
<1>4. /\ queue' \in [Clients -> Seq(Lines)]
      /\ \A c \in Clients : Len(queue'[c]) <= Backlog
  BY <1>3 DEF Emitting, TypeOK
<1>. QED BY <1>1, <1>4

(* A step of the loop does.                                                *)
LEMMA LoopTypes ==
  ASSUME TypeOK, Loop
  PROVE TypeOK'
<1> USE DEF TypeOK, Kinds
<1>1. CASE Emit
  BY <1>1, EmittingTypes DEF Emit
<1>2. CASE Answer
  <2>1. Head(calls) \in Clients /\ Tail(calls) \in Seq(Clients)
    BY <1>2 DEF Answer
  <2>2. reply' \in [Clients -> Lines \cup {None}]
    BY <1>2, <2>1, LineFacts DEF Answer
  <2>3. /\ emitted' \in 0..MaxEvents /\ listening' \subseteq Clients
        /\ queue' \in [Clients -> Seq(Lines)] /\ \A c \in Clients : Len(queue'[c]) <= Backlog
    BY <1>2, EmittingTypes DEF Answer
  <2>. QED BY <1>2, <2>1, <2>2, <2>3 DEF Answer
<1>3. CASE Listen
  <2>1. Head(calls) \in Clients /\ Tail(calls) \in Seq(Clients)
    BY <1>3 DEF Listen
  <2>5. Line("done", emitted) \in Lines /\ Line("refused", 0) \in Lines
    BY LineFacts
  <2>2. /\ outputs <= Backlog => /\ reply' = [reply EXCEPT ![Head(calls)] = Line("done", emitted)]
                                /\ listening' = listening \cup {Head(calls)}
        /\ ~(outputs <= Backlog) =>
             /\ reply' = [reply EXCEPT ![Head(calls)] = Line("refused", 0)]
             /\ listening' = listening
    BY <1>3 DEF Listen
  <2>7. /\ reply \in [Clients -> Lines \cup {None}] /\ listening \subseteq Clients
        /\ queue \in [Clients -> Seq(Lines)] /\ \A c \in Clients : Len(queue[c]) <= Backlog
        /\ Backlog \in Nat /\ outputs \in Nat /\ emitted \in Nat
    BY ControlAssumption DEF ControlAssumption
  <2>8. \/ queue' = queue
        \/ outputs <= Backlog /\ queue' = [queue EXCEPT ![Head(calls)] = Description]
    BY <1>3 DEF Listen
  <2>9. calls' = Tail(calls) /\ UNCHANGED <<daemon, accepting, outputs, emitted, pc, job,
                                            socketVars, clientVars>>
    BY <1>3 DEF Listen
  <2>3. Description \in Seq(Lines) /\ Len(Description) = outputs
    <3>1. \A i \in 1..outputs : Line("ready", emitted) \in Lines
      BY <2>7, LineFacts
    <3> HIDE DEF TypeOK, Kinds
    <3>. QED BY <2>7, <3>1 DEF Description
  <2> HIDE DEF TypeOK, Kinds
  <2>6. reply' \in [Clients -> Lines \cup {None}] /\ listening' \subseteq Clients
    <3>1. /\ \/ reply' = [reply EXCEPT ![Head(calls)] = Line("done", emitted)]
             \/ reply' = [reply EXCEPT ![Head(calls)] = Line("refused", 0)]
          /\ listening' = listening \cup {Head(calls)} \/ listening' = listening
      BY <2>2
    <3>2. reply' \in [Clients -> Lines \cup {None}]
      <4>1. Line("done", emitted) \in Lines \cup {None} /\ Line("refused", 0) \in Lines \cup {None}
        BY <2>5
      <4>2. \A l \in Lines \cup {None} :
              [reply EXCEPT ![Head(calls)] = l] \in [Clients -> Lines \cup {None}]
        BY <2>1, <2>7, Update
      <4>. QED BY <3>1, <4>1, <4>2
    <3>. QED BY <2>1, <2>7, <3>1, <3>2
  <2>4. queue' \in [Clients -> Seq(Lines)] /\ \A c \in Clients : Len(queue'[c]) <= Backlog
    <3>1. CASE queue' = queue
      BY <2>7, <3>1
    <3>2. CASE outputs <= Backlog /\ queue' = [queue EXCEPT ![Head(calls)] = Description]
      <4>1. queue' \in [Clients -> Seq(Lines)]
        BY <2>1, <2>3, <2>7, <3>2, Update
      <4>2. \A c \in Clients : queue'[c] = IF c = Head(calls) THEN Description ELSE queue[c]
        BY <2>7, <3>2
      <4>. QED BY <2>3, <2>7, <3>2, <4>1, <4>2
    <3>. QED BY <2>8, <3>1, <3>2
  <2>. QED BY <2>1, <2>4, <2>6, <2>9 DEF TypeOK, Kinds
<1>4. CASE Start \/ Stop
  BY <1>4 DEF Start, Stop
<1>6. CASE DropDaemon
  BY <1>6 DEF DropDaemon
<1>7. CASE DropCalls
  <2>1. <<>> \in Seq(Clients)
    OBVIOUS
  <2>. QED BY <1>7, <2>1 DEF DropCalls
<1>5. CASE Exit
  <2>1. queue' \in [Clients -> Seq(Lines)] /\ \A c \in Clients : Len(queue'[c]) <= Backlog
    BY <1>5 DEF Exit, ControlAssumption
  <2>. QED BY <1>5, <2>1 DEF Exit
<1>. QED BY <1>1, <1>2, <1>3, <1>4, <1>5, <1>6, <1>7 DEF Loop

(* Every step does. *)
LEMMA TypesStep ==
  ASSUME TypeOK, ChannelInv, Next
  PROVE TypeOK'
<1>1. ASSUME NEW c \in Clients, Accept(c) PROVE TypeOK'
  BY <1>1 DEF Accept, TypeOK
<1>2. CASE AcceptFails
  BY <1>2 DEF AcceptFails, TypeOK
<1>. QED BY <1>1, <1>2, ClientTypes, ThreadTypes, LoopTypes DEF Next

-----------------------------------------------------------------------------
(* What is left in a channel that holds nothing twice.                     *)
LEMMA TailOnce ==
  ASSUME NEW S, NEW s \in Seq(S), s # <<>>,
         \A i, j \in 1..Len(s) : s[i] = s[j] => i = j
  PROVE /\ Len(s) \in Nat \ {0} /\ Len(Tail(s)) = Len(s) - 1
        /\ Head(s) = s[1] /\ s[1] \in S
        /\ \A k \in 1..Len(Tail(s)) :
             /\ Tail(s)[k] = s[k + 1] /\ k + 1 \in 1..Len(s)
             /\ Tail(s)[k] # s[1] /\ Tail(s)[k] \in S
<1>1. /\ Len(s) \in Nat \ {0} /\ Len(Tail(s)) = Len(s) - 1 /\ Head(s) = s[1]
      /\ \A k \in 1..Len(Tail(s)) : Tail(s)[k] = s[k + 1]
      /\ \A k \in 1..Len(s) : s[k] \in S
  OBVIOUS
<1>2. ASSUME NEW k \in 1..Len(Tail(s))
      PROVE k + 1 \in 1..Len(s) /\ Tail(s)[k] # s[1] /\ Tail(s)[k] \in S
  <2>1. k + 1 \in 1..Len(s) /\ 1 \in 1..Len(s) /\ k + 1 # 1 /\ Tail(s)[k] = s[k + 1]
    BY <1>1
  <2>. QED BY <1>1, <2>1
<1>. QED BY <1>1, <1>2

(* A request stays in the channel once, and unanswered.                    *)
LEMMA ChannelStep ==
  ASSUME TypeOK, ChannelInv, Next
  PROVE ChannelInv'
<1> USE DEF ChannelInv
<1>0. /\ Len(calls) \in Nat /\ \A i \in 1..Len(calls) : calls[i] \in Clients
      /\ DOMAIN pc = Clients /\ DOMAIN reply = Clients
  BY DEF TypeOK
<1>1. ASSUME UNCHANGED <<calls, pc, reply>>,
             daemon' = daemon \/ daemon' \in {"running", "ending", "dropped"}
      PROVE ChannelInv'
  BY <1>1
<1>2. ASSUME NEW c \in Clients, Client(c) PROVE ChannelInv'
  BY <1>1, <1>2 DEF Client, Ask, ReadLine, ReadEnd, GoAway
<1>3. ASSUME NEW c \in Clients, Accept(c) PROVE ChannelInv'
  BY <1>0, <1>3 DEF Accept
<1>4. ASSUME NEW c \in Clients, TakeLine(c) PROVE ChannelInv'
  <2>1. reply[c] = None
    BY <1>4, TakeLineFacts
  <2>2. \A i \in 1..Len(calls) : calls[i] \in Clients /\ calls[i] # c
    BY <1>0, <1>4, TakeLineFacts
  <2>. QED BY <1>0, <1>4, <2>1, <2>2, TakeLineFacts, LineFacts DEF Kinds, Answers
<1>5. ASSUME NEW c \in Clients, Closing(c), UNCHANGED <<calls, daemon>>,
             pc[c] \in {"reading", "replying", "pushing"}
      PROVE ChannelInv'
  BY <1>0, <1>5 DEF Closing
<1>6. ASSUME NEW c \in Clients, Call(c) PROVE ChannelInv'
  <2>1. CASE Receiving
    <3>1. reply[c] = None /\ \A i \in 1..Len(calls) : calls[i] # c
      BY <1>0, <1>6 DEF Call
    <3>2. /\ calls' = Append(calls, c) /\ reply' = reply
          /\ pc' = [pc EXCEPT ![c] = "waiting"]
      BY <1>6, <2>1 DEF Call
    <3>3. /\ Len(calls') = Len(calls) + 1 /\ Len(calls) \in Nat
          /\ calls'[Len(calls) + 1] = c
          /\ \A i \in 1..Len(calls) : calls'[i] = calls[i] /\ calls[i] \in Clients
      BY <1>0, <3>2 DEF TypeOK
    <3>. QED BY <1>0, <1>6, <2>1, <3>1, <3>2, <3>3 DEF Call, Receiving
  <2>. QED BY <1>0, <1>6, <2>1, LineFacts DEF Call, Kinds, Answers
<1>7. ASSUME NEW c \in Clients, Await(c) PROVE ChannelInv'
  BY <1>0, <1>7, LineFacts DEF Await, InChannel, Kinds, Answers
<1>8. ASSUME NEW c \in Clients, WriteReply(c) PROVE ChannelInv'
  BY <1>0, <1>8 DEF WriteReply
<1>9. ASSUME NEW c \in Clients, Push(c) PROVE ChannelInv'
  BY <1>1, <1>9 DEF Push
<1>10. ASSUME NEW c \in Clients, Thread(c) PROVE ChannelInv'
  BY <1>4, <1>5, <1>6, <1>7, <1>8, <1>9, <1>10
  DEF Thread, ReadFails, WriteFails, PushEnds, PushedOut
<1>11. ASSUME calls # <<>>, calls' = Tail(calls), UNCHANGED <<pc, daemon>>,
              NEW l \in Lines, l.is \in Answers,
              reply' = [reply EXCEPT ![Head(calls)] = l]
       PROVE ChannelInv'
  <2>1. /\ Len(calls) \in Nat \ {0} /\ Len(calls') = Len(calls) - 1
        /\ Head(calls) = calls[1] /\ calls[1] \in Clients
        /\ \A k \in 1..Len(calls') :
             /\ calls'[k] = calls[k + 1] /\ k + 1 \in 1..Len(calls)
             /\ calls'[k] # calls[1] /\ calls'[k] \in Clients
    <3>1. calls \in Seq(Clients) /\ \A i, j \in 1..Len(calls) : calls[i] = calls[j] => i = j
      BY DEF TypeOK
    <3> HIDE DEF ChannelInv
    <3>. QED BY <1>11, <3>1, TailOnce
  <2>. QED BY <1>0, <1>11, <2>1, LineFacts
<1>12. CASE Answer
  <2>1. Line("reply", 0) \in Lines /\ Line("reply", 0).is \in Answers
    BY LineFacts DEF Kinds, Answers
  <2> HIDE DEF ChannelInv
  <2>. QED BY <1>11, <1>12, <2>1 DEF Answer
<1>16. CASE Listen
  <2>0. emitted \in Nat
    BY ControlAssumption DEF TypeOK
  <2>1. /\ Line("done", emitted) \in Lines /\ Line("done", emitted).is \in Answers
        /\ Line("refused", 0) \in Lines /\ Line("refused", 0).is \in Answers
    BY <2>0, LineFacts DEF Kinds, Answers
  <2>2. \/ reply' = [reply EXCEPT ![Head(calls)] = Line("done", emitted)]
        \/ reply' = [reply EXCEPT ![Head(calls)] = Line("refused", 0)]
    BY <1>16 DEF Listen
  <2> HIDE DEF ChannelInv
  <2>. QED BY <1>11, <1>16, <2>1, <2>2 DEF Listen
<1>13. CASE Emit \/ Start \/ Stop \/ DropDaemon \/ AcceptFails
  BY <1>1, <1>13 DEF Emit, Start, Stop, DropDaemon, AcceptFails
<1>14. CASE DropCalls
  BY <1>0, <1>14 DEF DropCalls
<1>15. CASE Exit
  BY <1>0, <1>15 DEF Exit
<1>. QED BY <1>2, <1>3, <1>10, <1>12, <1>13, <1>14, <1>15, <1>16 DEF Next, Loop

-----------------------------------------------------------------------------
(* What is known of the client a step concerns.                            *)
LEMMA Known ==
  ASSUME StreamInv, NEW c \in Clients
  PROVE /\ out[c] \in Seq(Lines) /\ queue[c] \in Seq(Lines)
        /\ view[c] \in Nat \cup {Off} /\ Off \notin Nat /\ emitted \in Nat
        /\ reply[c] # None => reply[c] \in Lines /\ pc[c] \in {"waiting", "replying"}
                              /\ reply[c].is \in Answers
        /\ pc[c] = "replying" => reply[c] # None
        /\ DOMAIN pc = Clients /\ DOMAIN reply = Clients /\ DOMAIN queue = Clients
        /\ DOMAIN out = Clients /\ DOMAIN line = Clients /\ DOMAIN client = Clients
        /\ DOMAIN view = Clients
        /\ ClientInv(c)
<1>1. /\ out[c] \in Seq(Lines) /\ queue[c] \in Seq(Lines)
      /\ view[c] \in Nat \cup {Off} /\ Off \notin Nat /\ emitted \in Nat
      /\ reply[c] \in Lines \cup {None}
  BY DEF StreamInv, TypeOK, ControlAssumption
<1>2. /\ DOMAIN pc = Clients /\ DOMAIN reply = Clients /\ DOMAIN queue = Clients
      /\ DOMAIN out = Clients /\ DOMAIN line = Clients /\ DOMAIN client = Clients
      /\ DOMAIN view = Clients
  BY DEF StreamInv, TypeOK
<1>3. /\ reply[c] # None => pc[c] \in {"waiting", "replying"} /\ reply[c].is \in Answers
      /\ pc[c] = "replying" => reply[c] # None
  BY DEF StreamInv, ChannelInv
<1>. QED BY <1>1, <1>2, <1>3 DEF StreamInv, ClientInv

(* A client that sends a request. *)
LEMMA AskInv ==
  ASSUME StreamInv, NEW c \in Clients, NEW r \in Requests, Ask(c, r)
  PROVE ClientInv(c)'
<1>1. /\ client[c] \in {"idle", "away"} /\ line[c] = None /\ client'[c] \in {"idle", "asking"}
      /\ r # "blank" => client'[c] = "asking"
      /\ line'[c] = r
      /\ UNCHANGED <<loopVars, threadVars, out, view>>
  BY Known DEF Ask
<1>2. Turn(c) /\ Written(c) /\ Queued(c) /\ Past(c)
  BY <1>1, Known DEF ClientInv
<1>3. Turn(c)'
  BY <1>1, <1>2, Known DEF Turn, ControlAssumption
<1>4. Written(c)' /\ Queued(c)' /\ Past(c)'
  BY <1>1, <1>2 DEF Written, Queued, Past, Accepted, Latest, UpTo
<1>. QED BY <1>3, <1>4 DEF ClientInv

(* A client that reads a line, of which Broadcast is told.                 *)
LEMMA ReadInv ==
  ASSUME StreamInv, NEW c \in Clients, ReadLine(c)
  PROVE /\ ClientInv(c)'
        /\ view' = [view EXCEPT ![c] = view'[c]]
        /\ \/ view'[c] = view[c]
           \/ view[c] = Off /\ view'[c] \in 0..emitted
           \/ view[c] # Off /\ view'[c] = view[c] + 1 /\ view'[c] <= emitted
<1> DEFINE h == Head(out[c])
<1>1. /\ client[c] \in {"asking", "listening"} /\ out[c] # <<>>
      /\ UNCHANGED <<loopVars, threadVars, line>>
      /\ out'[c] = Tail(out[c])
      /\ client'[c] = IF h.is \in Told THEN "listening" ELSE "idle"
      /\ view' = [view EXCEPT ![c] = IF h.is \in Told THEN h.n ELSE view[c]]
  BY Known DEF ReadLine, Told
<1>2. Turn(c) /\ Written(c) /\ Queued(c) /\ Past(c)
  BY <1>1, Known DEF ClientInv
<1>3. /\ h = out[c][1] /\ h \in Lines /\ h.n \in Nat /\ 1 \in 1..Len(out[c])
      /\ Len(out[c]) \in Nat \ {0} /\ h.n <= emitted
      /\ view'[c] = IF h.is \in Told THEN h.n ELSE view[c]
  BY <1>1, <1>2, Known, SomeFacts DEF Past
<1>4. /\ reply[c] = None /\ line[c] \in {None, "blank"}
      /\ pc[c] \notin {"calling", "waiting", "replying"}
  BY <1>1, <1>2, Known DEF Turn
<1>5. /\ Tail(out[c]) \in Seq(Lines) /\ InOrder(Tail(out[c]))
      /\ Tail(out[c]) # <<>> => /\ Tail(out[c])[Len(Tail(out[c]))] = out[c][Len(out[c])]
                                /\ Follows(h.n, Tail(out[c])[1])
      /\ Tail(out[c]) = <<>> => h = out[c][Len(out[c])]
      /\ \A i \in 1..Len(Tail(out[c])) : Tail(out[c])[i].n <= emitted
  <2>1. \A i \in 1..Len(out[c]) : out[c][i].n <= emitted
    BY <1>2 DEF Past
  <2>2. InOrder(out[c])
    BY <1>2 DEF Written
  <2>3. out[c] \in Seq(Lines) /\ out[c] # <<>> /\ h = Head(out[c])
    BY <1>1, Known
  <2>. QED BY <2>1, <2>2, <2>3, TailFacts
<1>8. view' = [view EXCEPT ![c] = view'[c]]
  BY <1>1, <1>3
<1> HIDE DEF h
<1>6. CASE h.is \in Told
  <2>1. pc[c] \in {"pushing", "closed"} /\ client'[c] = "listening" /\ view'[c] = h.n
        /\ view'[c] \in Nat /\ view'[c] # Off
    BY <1>1, <1>2, <1>3, <1>6, Known DEF Written
  <2>2. Turn(c)'
    BY <1>1, <1>4, <2>1, Known DEF Turn
  <2>3. Written(c)'
    BY <1>1, <1>5, <2>1, Known DEF Written, Follows
  <2>4. UpTo(c)' = UpTo(c) /\ Latest(c)' = Latest(c) /\ Accepted(c)' = Accepted(c)
    BY <1>1, <1>4, <1>5, <2>1 DEF UpTo, Latest, Accepted
  <2>5. Queued(c)'
    BY <1>1, <1>2, <2>4 DEF Queued
  <2>6. Past(c)'
    BY <1>1, <1>2, <1>3, <1>5, <2>1 DEF Past
  <2>7. view[c] # Off => h.n \in {view[c], view[c] + 1}
    BY <1>1, <1>2, <1>3, Known DEF Written, Follows
  <2>8. \/ view[c] = Off /\ view'[c] \in 0..emitted
        \/ view[c] # Off /\ view'[c] \in {view[c], view[c] + 1} /\ view'[c] <= emitted
    BY <1>3, <2>1, <2>7, Known
  <2>. QED BY <1>8, <2>2, <2>3, <2>5, <2>6, <2>8 DEF ClientInv
<1>7. CASE h.is \notin Told
  <2>1. view[c] = Off
    BY <1>1, <1>2, <1>3, <1>7 DEF Written, Follows
  <2>2. client'[c] = "idle" /\ view'[c] = Off
    BY <1>1, <1>3, <1>7, <2>1, Known
  <2>3. pc[c] # "pushing" /\ Len(out[c]) = 1
    BY <1>1, <1>2, <1>3, <1>7, <2>1 DEF Written
  <2>4. out'[c] = <<>> /\ pc[c] \in {"off", "reading", "closed"}
    <3>1. Tail(out[c]) \in Seq(Lines) /\ Len(Tail(out[c])) = 0
      BY <1>1, <2>3, Known, TailFacts
    <3>3. Tail(out[c]) = <<>>
      BY <3>1, SomeFacts
    <3>2. pc[c] \in {"off", "reading", "calling", "waiting", "replying", "pushing", "closed"}
      BY DEF StreamInv, TypeOK
    <3>. QED BY <1>1, <1>4, <2>3, <3>2, <3>3
  <2>5. queue[c] = <<>> /\ (c \in listening => pc[c] = "closed")
    BY <1>2, <1>4, <2>3 DEF Queued, Accepted
  <2>6. Turn(c)'
    BY <1>1, <1>4, <2>2, <2>4 DEF Turn
  <2>8. Written(c)'
    <3>1. InOrder(out[c])'
      BY <2>4, EmptyFacts DEF InOrder
    <3>. QED BY <1>1, <2>2, <2>3, <2>4, <3>1 DEF Written
  <2>7. Queued(c)' /\ Past(c)'
    BY <1>1, <1>2, <2>2, <2>4, <2>5 DEF Queued, Past
  <2>. QED BY <1>8, <2>1, <2>2, <2>6, <2>7, <2>8 DEF ClientInv
<1>. QED BY <1>6, <1>7

(* A client at the end of its stream, or one that goes.                    *)
LEMMA EndInv ==
  ASSUME StreamInv, NEW c \in Clients, ReadEnd(c) \/ GoAway(c)
  PROVE ClientInv(c)' /\ view' = [view EXCEPT ![c] = Off]
<1>1. CASE ReadEnd(c)
  <2>1. /\ client[c] \in {"idle", "asking", "listening"} /\ pc[c] = "closed" /\ out[c] = <<>>
        /\ client'[c] = "ended" /\ view'[c] = Off
        /\ view' = [view EXCEPT ![c] = Off]
        /\ UNCHANGED <<loopVars, threadVars, socketVars>>
    BY <1>1, Known DEF ReadEnd
  <2>2. Turn(c) /\ Written(c) /\ Queued(c) /\ Past(c)
    BY <2>1, Known DEF ClientInv
  <2>3. reply[c] = None /\ queue[c] = <<>>
    BY <2>1, <2>2, Known DEF Queued, Accepted
  <2>4. Turn(c)' /\ Written(c)'
    BY <2>1, <2>2 DEF Turn, Written
  <2>5. Queued(c)' /\ Past(c)'
    BY <2>1, <2>2, <2>3 DEF Queued, Past
  <2>. QED BY <2>1, <2>4, <2>5 DEF ClientInv
<1>2. CASE GoAway(c)
  BY <1>2, Gone, Known DEF GoAway
<1>. QED BY <1>1, <1>2

(* A connection that is taken, and a line that is.                         *)
LEMMA TakeInv ==
  ASSUME StreamInv, NEW c \in Clients, Accept(c) \/ TakeLine(c)
  PROVE ClientInv(c)'
<1> SUFFICES ASSUME client[c] # "left" PROVE Turn(c)' /\ Written(c)' /\ Queued(c)' /\ Past(c)'
  BY DEF ClientInv, Accept, TakeLine
<1>1. Turn(c) /\ Written(c) /\ Queued(c) /\ Past(c)
  BY Known DEF ClientInv
<1>2. /\ pc[c] \in {"off", "reading"} /\ reply[c] = None
      /\ UNCHANGED <<queue, out, clientVars, loopVars>>
  BY Known, TakeLineFacts DEF Accept, StreamInv
<1>3. queue[c] = <<>> /\ c \notin listening
  BY <1>1, <1>2 DEF Queued, Accepted
<1>4. CASE Accept(c)
  <2>1. pc[c] = "off" /\ pc'[c] = "reading" /\ client[c] # "away" /\ reply'[c] = None
        /\ UNCHANGED socketVars
    BY <1>2, <1>4, Known DEF Accept
  <2>2. Turn(c)'
    BY <1>1, <1>2, <2>1 DEF Turn
  <2>3. Written(c)'
    BY <1>1, <1>2, <2>1 DEF Written
  <2>. QED BY <1>1, <1>2, <1>3, <2>1, <2>2, <2>3 DEF Queued, Past
<1>5. CASE TakeLine(c)
  <2>1. /\ pc[c] = "reading" /\ line[c] # None /\ line'[c] = None
        /\ \/ line[c] = "blank" /\ pc'[c] = "reading" /\ reply'[c] = None
           \/ line[c] # "blank" /\ pc'[c] = "calling" /\ reply'[c] = None
           \/ /\ line[c] # "blank" /\ pc'[c] = "replying" /\ reply'[c] = Line("refused", 0)
    BY <1>2, <1>5, Known, TakeLineFacts DEF StreamInv
  <2>2. Line("refused", 0).is = "refused" /\ Line("refused", 0).n = 0 /\ Line("refused", 0) # None
    BY LineFacts DEF Kinds
  <2>3. Turn(c)'
    BY <1>1, <1>2, <2>1 DEF Turn
  <2>4. Written(c)'
    <3>1. pc[c] = "reading" /\ pc'[c] # "pushing" /\ out'[c] = out[c] /\ view'[c] = view[c]
      BY <1>2, <2>1
    <3>2. Written(c)
      BY <1>1
    <3>3. out[c] # <<>> => ~(out[c][1].is \in Told)
      BY <3>1, <3>2 DEF Written
    <3>. QED BY <3>1, <3>2, <3>3 DEF Written
  <2>5. Queued(c)'
    BY <1>1, <1>2, <1>3 DEF Queued
  <2>6. Past(c)'
    <3>1. /\ emitted' = emitted /\ out'[c] = out[c] /\ queue'[c] = queue[c] /\ view'[c] = view[c]
          /\ reply'[c] # None => reply'[c].n = 0
      BY <1>2, <2>1, <2>2
    <3>2. reply'[c] # None => reply'[c].n <= emitted
      BY <3>1, Known
    <3>. QED BY <1>1, <3>1, <3>2 DEF Past
  <2>. QED BY <2>3, <2>4, <2>5, <2>6
<1>. QED BY <1>4, <1>5

(* A connection that ends, whatever was queued or being answered.          *)
LEMMA ClosingInv ==
  ASSUME StreamInv, NEW c \in Clients, Closing(c),
         pc[c] \in {"reading", "replying", "pushing"},
         UNCHANGED <<loopVars, socketVars, clientVars>>
  PROVE ClientInv(c)'
<1> SUFFICES ASSUME client[c] # "left" PROVE Turn(c)' /\ Written(c)' /\ Queued(c)' /\ Past(c)'
  BY DEF ClientInv
<1>1. Turn(c) /\ Written(c) /\ Queued(c) /\ Past(c)
  BY Known DEF ClientInv
<1>2. pc'[c] = "closed" /\ queue'[c] = <<>> /\ reply'[c] = None
  BY Known DEF Closing
<1>3. Turn(c)' /\ Written(c)'
  BY <1>1, <1>2 DEF Turn, Written
<1>4. Queued(c)' /\ Past(c)'
  BY <1>1, <1>2, EmptyFacts DEF Queued, Past
<1>. QED BY <1>3, <1>4

(* A request that crosses to the loop, and what comes back.                *)
LEMMA CallInv ==
  ASSUME StreamInv, NEW c \in Clients, Call(c) \/ Await(c)
  PROVE ClientInv(c)'
<1> SUFFICES ASSUME client[c] # "left" PROVE Turn(c)' /\ Written(c)' /\ Queued(c)' /\ Past(c)'
  BY DEF ClientInv, Call, Await
<1>1. Turn(c) /\ Written(c) /\ Queued(c) /\ Past(c)
  BY Known DEF ClientInv
<1>2. Line("stopping", 0).is = "stopping" /\ Line("stopping", 0).n = 0 /\ Line("stopping", 0) # None
  BY LineFacts DEF Kinds
<1>3. /\ pc[c] \in {"calling", "waiting"} /\ pc'[c] \in {"waiting", "replying"}
      /\ reply'[c] = reply[c] \/ (reply[c] = None /\ reply'[c] = Line("stopping", 0))
      /\ listening' = listening /\ emitted' = emitted
      /\ UNCHANGED <<queue, socketVars, clientVars>>
  BY Known DEF Call, Await
<1>4. out[c] = <<>> /\ view[c] = Off
  BY <1>1, <1>3 DEF Turn
<1>5. Turn(c)' /\ Written(c)'
  BY <1>1, <1>3, <1>4 DEF Turn, Written
<1>6. Queued(c)'
  <2>1. CASE reply'[c] = reply[c]
    BY <1>1, <1>3, <2>1 DEF Queued, Accepted, UpTo, Latest
  <2>2. CASE reply[c] = None
    BY <1>1, <1>3, <2>2 DEF Queued, Accepted
  <2>. QED BY <1>3, <2>1, <2>2
<1>7. Past(c)'
  BY <1>1, <1>2, <1>3, Known DEF Past
<1>. QED BY <1>5, <1>6, <1>7

(* A reply that is written: what accepts a listener begins its stream.     *)
LEMMA ReplyInv ==
  ASSUME StreamInv, NEW c \in Clients, WriteReply(c)
  PROVE ClientInv(c)'
<1>1. /\ pc[c] = "replying" /\ client[c] # "left"
      /\ out'[c] = Append(out[c], reply[c]) /\ reply'[c] = None
      /\ pc'[c] = IF reply[c].is = "done" THEN "pushing" ELSE "reading"
      /\ UNCHANGED <<loopVars, queue, line, clientVars>>
  BY Known DEF WriteReply
<1>2. Turn(c) /\ Written(c) /\ Queued(c) /\ Past(c)
  BY <1>1, Known DEF ClientInv
<1>3. reply[c] \in Lines /\ reply[c] # None /\ reply[c].n \in Nat /\ reply[c].is \in Answers
  BY <1>1, Known, LineFacts
<1>4. /\ client[c] = "asking" /\ out[c] = <<>> /\ view[c] = Off /\ line[c] = None
  BY <1>1, <1>2 DEF Turn
<1>5. /\ out'[c] # <<>> /\ Len(out'[c]) = 1 /\ out'[c][1] = reply[c] /\ InOrder(out'[c])
  <2>1. /\ out'[c] # <<>> /\ Len(out'[c]) = Len(out[c]) + 1 /\ out'[c][1] = reply[c]
        /\ InOrder(out[c]) => InOrder(out'[c])
    <3>1. out[c] \in Seq(Lines)
      BY Known
    <3>2. /\ Append(out[c], reply[c]) # <<>>
          /\ Len(Append(out[c], reply[c])) = Len(out[c]) + 1
          /\ Append(out[c], reply[c])[1] = IF out[c] = <<>> THEN reply[c] ELSE out[c][1]
          /\ InOrder(out[c]) /\ (out[c] # <<>> => Follows(out[c][Len(out[c])].n, reply[c]))
               => InOrder(Append(out[c], reply[c]))
      BY <1>3, <3>1, AppendFacts
    <3>. QED BY <1>1, <1>4, <3>2
  <2>. QED BY <1>4, <2>1, EmptyFacts
<1>6. Turn(c)'
  BY <1>1, <1>2, <1>4 DEF Turn
<1>7. Written(c)'
  BY <1>1, <1>3, <1>4, <1>5 DEF Written, Answers, Told
<1>8. UpTo(c)' = UpTo(c) /\ Latest(c)' = Latest(c)
  BY <1>1, <1>3, <1>5 DEF UpTo, Latest
<1>9. Queued(c)'
  BY <1>1, <1>2, <1>3, <1>8 DEF Queued, Accepted
<1>10. Past(c)'
  BY <1>1, <1>2, <1>3, <1>5 DEF Past
<1>. QED BY <1>6, <1>7, <1>9, <1>10 DEF ClientInv

(* An event that is written.                                               *)
LEMMA PushInv ==
  ASSUME StreamInv, NEW c \in Clients, Push(c)
  PROVE ClientInv(c)'
<1> DEFINE h == Head(queue[c])
<1>1. /\ pc[c] = "pushing" /\ client[c] # "left" /\ queue[c] # <<>>
      /\ out'[c] = Append(out[c], h) /\ queue'[c] = Tail(queue[c])
      /\ UNCHANGED <<loopVars, pc, job, reply, line, clientVars>>
  BY Known DEF Push
<1>2. Turn(c) /\ Written(c) /\ Queued(c) /\ Past(c)
  BY <1>1, Known DEF ClientInv
<1>3. /\ out[c] \in Seq(Lines) /\ queue[c] \in Seq(Lines) /\ reply[c] = None
      /\ out[c] # <<>> => Len(out[c]) \in Nat \ {0}
  BY <1>1, Known, SomeFacts
<1>4. /\ h = queue[c][1] /\ h \in Lines /\ 1 \in 1..Len(queue[c]) /\ h.n <= emitted
      /\ Follows(UpTo(c), h)
  BY <1>1, <1>2, <1>3, SomeFacts DEF Queued, Past
<1>5. /\ Tail(queue[c]) \in Seq(Lines) /\ InOrder(Tail(queue[c]))
      /\ Tail(queue[c]) # <<>> => /\ Tail(queue[c])[Len(Tail(queue[c]))] = queue[c][Len(queue[c])]
                                  /\ Follows(h.n, Tail(queue[c])[1])
      /\ Tail(queue[c]) = <<>> => h = queue[c][Len(queue[c])]
      /\ \A i \in 1..Len(Tail(queue[c])) : Tail(queue[c])[i].n <= emitted
  <2>1. (\A i \in 1..Len(queue[c]) : queue[c][i].n <= emitted) /\ InOrder(queue[c])
    BY <1>2 DEF Past, Queued
  <2>. QED BY <1>1, <1>3, <2>1, TailFacts
<1> HIDE DEF h
<1>6. /\ out'[c] # <<>> /\ Len(out'[c]) = Len(out[c]) + 1 /\ Len(out[c]) \in Nat
      /\ \A i \in 1..Len(out[c]) : out'[c][i] = out[c][i]
      /\ out'[c][Len(out'[c])] = h
      /\ out'[c][1] = IF out[c] = <<>> THEN h ELSE out[c][1]
      /\ InOrder(out[c]) /\ (out[c] # <<>> => Follows(out[c][Len(out[c])].n, h))
           => InOrder(out'[c])
  BY <1>1, <1>3, <1>4, AppendFacts
<1>7. out[c] # <<>> => out[c][1].is \in Told /\ Follows(out[c][Len(out[c])].n, h)
  <2> SUFFICES ASSUME out[c] # <<>>
               PROVE out[c][1].is \in Told /\ Follows(out[c][Len(out[c])].n, h)
    OBVIOUS
  <2>1. out[c][1].is \in Told
    <3>1. view[c] # Off => Follows(view[c], out[c][1])
      BY <1>2 DEF Written
    <3>. QED BY <1>1, <1>2, <3>1 DEF Written, Follows
  <2>. QED BY <1>3, <1>4, <2>1 DEF UpTo
<1>8. out[c] = <<>> => view[c] # Off /\ Follows(view[c], h)
  BY <1>1, <1>2, <1>3, <1>4 DEF Written, UpTo
<1>9. Turn(c)'
  BY <1>1, <1>2 DEF Turn
<1>10. Written(c)'
  <2>1. InOrder(out'[c])
    BY <1>2, <1>6, <1>7 DEF Written
  <2>2. out'[c][1].is \in Told
    BY <1>6, <1>7, <1>8 DEF Follows
  <2>3. view[c] # Off => Follows(view[c], out'[c][1])
    BY <1>2, <1>6, <1>7, <1>8 DEF Written
  <2>. QED BY <1>1, <1>6, <2>1, <2>2, <2>3 DEF Written
<1>11. UpTo(c)' = h.n /\ Latest(c)' = Latest(c)
  BY <1>1, <1>3, <1>5, <1>6 DEF UpTo, Latest
<1>12. Queued(c)'
  BY <1>1, <1>2, <1>3, <1>5, <1>11 DEF Queued
<1>13. Past(c)'
  BY <1>1, <1>2, <1>3, <1>4, <1>5, <1>6 DEF Past
<1>. QED BY <1>9, <1>10, <1>12, <1>13 DEF ClientInv

-----------------------------------------------------------------------------
(* An event that is emitted: whoever is told has it queued, in order.      *)
LEMMA EmitInv ==
  ASSUME StreamInv, Emitting, NEW c \in Clients,
         UNCHANGED <<pc, out, line, client, view>>, reply'[c] = reply[c]
  PROVE ClientInv(c)'
<1> SUFFICES ASSUME client[c] # "left" PROVE Turn(c)' /\ Written(c)' /\ Queued(c)' /\ Past(c)'
  BY DEF ClientInv
<1> DEFINE l == Line("event", emitted + 1)
<1>1. Turn(c) /\ Written(c) /\ Queued(c) /\ Past(c)
  BY Known DEF ClientInv
<1>2. l \in Lines /\ l.is = "event" /\ l.n = emitted + 1 /\ emitted \in Nat
  BY Known, LineFacts DEF Kinds
<1>3. Turn(c)' /\ Written(c)'
  BY <1>1 DEF Turn, Written
<1>4. /\ out[c] \in Seq(Lines) /\ queue[c] \in Seq(Lines)
      /\ \A i \in 1..Len(out[c]) : out[c][i] \in Lines /\ out[c][i].n \in Nat
      /\ \A i \in 1..Len(queue[c]) : queue[c][i] \in Lines /\ queue[c][i].n \in Nat
      /\ reply[c] # None => reply[c].n \in Nat
      /\ view[c] # Off => view[c] \in Nat
  <2>1. /\ out[c] \in Seq(Lines) /\ queue[c] \in Seq(Lines)
        /\ reply[c] # None => reply[c] \in Lines
        /\ view[c] # Off => view[c] \in Nat
    BY Known
  <2>2. /\ \A i \in 1..Len(out[c]) : out[c][i] \in Lines
        /\ \A i \in 1..Len(queue[c]) : queue[c][i] \in Lines
    BY <2>1
  <2>. QED BY <2>1, <2>2, LineFacts
<1>5. CASE c \notin listening \/ ~Takes(c)
  <2>1. queue'[c] = queue[c] /\ c \notin listening' /\ emitted' = emitted + 1
    BY <1>5 DEF Emitting
  <2>2. Queued(c)'
    BY <1>1, <2>1 DEF Queued, UpTo, Accepted
  <2>3. Past(c)'
    BY <1>1, <1>2, <1>4, <2>1 DEF Past
  <2>. QED BY <1>3, <2>2, <2>3
<1>6. CASE c \in listening /\ Takes(c)
  <2>1. queue'[c] = Append(queue[c], l) /\ emitted' = emitted + 1
    BY <1>6 DEF Emitting
  <2>2. (pc[c] = "pushing" \/ Accepted(c)) /\ Latest(c) = emitted
    BY <1>1, <1>6 DEF Queued, Takes, Held
  <2>3. Follows(emitted, l)
    BY <1>2 DEF Follows, Told
  <2> HIDE DEF l
  <2>4. /\ queue'[c] # <<>> /\ Len(queue'[c]) = Len(queue[c]) + 1 /\ Len(queue[c]) \in Nat
        /\ \A i \in 1..Len(queue[c]) : queue'[c][i] = queue[c][i]
        /\ queue'[c][Len(queue'[c])] = l
        /\ queue'[c][1] = IF queue[c] = <<>> THEN l ELSE queue[c][1]
        /\ InOrder(queue[c]) /\ (queue[c] # <<>> => Follows(queue[c][Len(queue[c])].n, l))
             => InOrder(queue'[c])
    BY <1>2, <1>4, <2>1, AppendFacts
  <2>5. InOrder(queue'[c])
    BY <1>1, <2>2, <2>3, <2>4 DEF Queued, Latest
  <2>6. UpTo(c)' = UpTo(c) /\ Accepted(c)' = Accepted(c) /\ Latest(c)' = emitted'
    BY <1>2, <2>1, <2>4 DEF UpTo, Accepted, Latest
  <2>7. Follows(UpTo(c), queue'[c][1])
    BY <1>1, <2>2, <2>3, <2>4 DEF Queued, Latest
  <2>8. Queued(c)'
    BY <2>2, <2>5, <2>6, <2>7 DEF Queued
  <2>9. Past(c)'
    BY <1>1, <1>2, <1>4, <2>1, <2>4 DEF Past
  <2>. QED BY <1>3, <2>8, <2>9
<1>. QED BY <1>5, <1>6

(* Whoever is first in the channel waits, and is told nothing yet.         *)
LEMMA FirstFacts ==
  ASSUME StreamInv, calls # <<>>
  PROVE /\ Head(calls) \in Clients /\ pc[Head(calls)] = "waiting" /\ reply[Head(calls)] = None
        /\ client[Head(calls)] # "left" =>
             /\ client[Head(calls)] = "asking" /\ out[Head(calls)] = <<>>
             /\ view[Head(calls)] = Off /\ queue[Head(calls)] = <<>>
             /\ Head(calls) \notin listening
<1> DEFINE c == Head(calls)
<1>1. c \in Clients /\ pc[c] = "waiting" /\ reply[c] = None
  <2>1. calls \in Seq(Clients)
    BY DEF StreamInv, TypeOK
  <2>2. c = calls[1] /\ 1 \in 1..Len(calls) /\ c \in Clients
    BY <2>1
  <2>. QED BY <2>2 DEF StreamInv, ChannelInv
<1> HIDE DEF c
<1>2. client[c] # "left" => Turn(c) /\ Queued(c)
  BY <1>1, Known DEF ClientInv
<1>3. client[c] # "left" =>
        /\ client[c] = "asking" /\ out[c] = <<>> /\ view[c] = Off
        /\ queue[c] = <<>> /\ c \notin listening
  BY <1>1, <1>2 DEF Turn, Queued, Accepted
<1>. QED BY <1>1, <1>3 DEF c

(* A request that is answered.                                             *)
LEMMA AnswerInv ==
  ASSUME StreamInv, Answer, NEW c \in Clients
  PROVE ClientInv(c)'
<1> SUFFICES ASSUME client[c] # "left" PROVE ClientInv(c)'
  BY DEF ClientInv, Answer
<1>1. /\ calls # <<>> /\ UNCHANGED <<pc, socketVars, clientVars>>
      /\ reply' = [reply EXCEPT ![Head(calls)] = Line("reply", 0)]
      /\ Emitting \/ UNCHANGED <<emitted, listening, queue>>
  BY DEF Answer
<1>2. CASE c # Head(calls)
  <2>1. reply'[c] = reply[c]
    BY <1>1, <1>2, Known
  <2>2. CASE UNCHANGED <<emitted, listening, queue>>
    BY <1>1, <2>1, <2>2, Known, Elsewhere
  <2>3. CASE Emitting
    BY <1>1, <2>1, <2>3, EmitInv
  <2>. QED BY <1>1, <2>2, <2>3
<1>3. CASE c = Head(calls)
  <2>1. /\ pc[c] = "waiting" /\ client[c] = "asking" /\ out[c] = <<>>
        /\ view[c] = Off /\ queue[c] = <<>> /\ c \notin listening /\ emitted \in Nat
    BY <1>1, <1>3, FirstFacts, Known
  <2>2. queue'[c] = <<>> /\ c \notin listening' /\ emitted' \in Nat
    BY <1>1, <2>1 DEF Emitting
  <2>3. reply'[c] = Line("reply", 0)
    BY <1>1, <1>3, Known
  <2>4. Line("reply", 0).n = 0
    BY LineFacts DEF Kinds
  <2>5. Turn(c) /\ Written(c)
    BY <2>1, Known DEF ClientInv
  <2>6. Turn(c)' /\ Written(c)'
    BY <1>1, <2>5 DEF Turn, Written
  <2>7. Queued(c)' /\ Past(c)'
    BY <1>1, <2>1, <2>2, <2>3, <2>4, EmptyFacts DEF Queued, Past, InOrder
  <2>. QED BY <2>6, <2>7 DEF ClientInv
<1>. QED BY <1>2, <1>3

(* A listener that is described the daemon and added, or refused.          *)
LEMMA ListenInv ==
  ASSUME StreamInv, Listen, NEW c \in Clients
  PROVE ClientInv(c)'
<1> SUFFICES ASSUME client[c] # "left" PROVE ClientInv(c)'
  BY DEF ClientInv, Listen
<1>1. /\ calls # <<>> /\ Head(calls) \in Clients
      /\ UNCHANGED <<pc, emitted, outputs, socketVars, clientVars>>
  BY FirstFacts DEF Listen
<1>2. \/ /\ queue' = [queue EXCEPT ![Head(calls)] = Description]
         /\ listening' = listening \cup {Head(calls)}
         /\ reply' = [reply EXCEPT ![Head(calls)] = Line("done", emitted)]
      \/ /\ queue' = queue /\ listening' = listening
         /\ reply' = [reply EXCEPT ![Head(calls)] = Line("refused", 0)]
  BY DEF Listen
<1>3. CASE c # Head(calls)
  <2>1. reply'[c] = reply[c] /\ queue'[c] = queue[c] /\ (c \in listening' => c \in listening)
    BY <1>1, <1>2, <1>3, Known
  <2>. QED BY <1>1, <2>1, Known, Elsewhere
<1>4. CASE c = Head(calls)
  <2>1. /\ pc[c] = "waiting" /\ client[c] = "asking" /\ out[c] = <<>>
        /\ view[c] = Off /\ queue[c] = <<>> /\ c \notin listening /\ emitted \in Nat
    BY <1>1, <1>4, FirstFacts, Known
  <2>2. Turn(c) /\ Written(c)
    BY <2>1, Known DEF ClientInv
  <2>3. Turn(c)' /\ Written(c)'
    BY <1>1, <2>2 DEF Turn, Written
  <2>4. CASE queue'[c] = <<>> /\ c \notin listening' /\ reply'[c] = Line("refused", 0)
    <3>1. Line("refused", 0).n = 0
      BY LineFacts DEF Kinds
    <3>. QED BY <1>1, <2>1, <2>3, <2>4, <3>1, EmptyFacts DEF Queued, Past, InOrder, ClientInv
  <2>5. CASE queue'[c] = Description /\ reply'[c] = Line("done", emitted)
    <3>1. /\ Line("done", emitted).n = emitted /\ Line("done", emitted).is = "done"
          /\ Line("done", emitted) # None
          /\ Line("ready", emitted).n = emitted /\ Line("ready", emitted).is = "ready"
          /\ Line("ready", emitted) \in Lines
      BY <2>1, LineFacts DEF Kinds
    <3>2. outputs \in Nat
      BY DEF StreamInv, TypeOK, ControlAssumption
    <3>3. /\ queue'[c] \in Seq(Lines) /\ Len(queue'[c]) = outputs
          /\ \A i \in 1..outputs : queue'[c][i] = Line("ready", emitted)
      BY <2>5, <3>1, <3>2 DEF Description
    <3>4. Follows(emitted, Line("ready", emitted))
      BY <2>1, <3>1 DEF Follows, Told
    <3>5. InOrder(queue'[c])
      BY <3>1, <3>2, <3>3, <3>4 DEF InOrder
    <3>6. UpTo(c)' = emitted /\ Accepted(c)'
      BY <2>5, <3>1 DEF UpTo, Accepted
    <3>7. queue'[c] # <<>> => Len(queue'[c]) \in 1..outputs /\ 1 \in 1..outputs
      BY <3>3, SomeFacts
    <3>8. Latest(c)' = emitted
      BY <3>1, <3>3, <3>6, <3>7 DEF Latest
    <3>9. Queued(c)'
      BY <1>1, <3>3, <3>4, <3>5, <3>6, <3>7, <3>8 DEF Queued
    <3>10. Past(c)'
      BY <1>1, <2>1, <2>5, <3>1, <3>3, EmptyFacts DEF Past
    <3>. QED BY <2>3, <3>9, <3>10 DEF ClientInv
  <2>. QED BY <1>1, <1>2, <1>4, <2>1, <2>4, <2>5, Known
<1>. QED BY <1>3, <1>4

(* The process exits: what was queued is lost, and every stream has ended. *)
LEMMA ExitInv ==
  ASSUME StreamInv, Exit, NEW c \in Clients
  PROVE ClientInv(c)'
<1> SUFFICES ASSUME client[c] # "left" PROVE Turn(c)' /\ Written(c)' /\ Queued(c)' /\ Past(c)'
  BY DEF ClientInv, Exit
<1>1. Turn(c) /\ Written(c) /\ Queued(c) /\ Past(c)
  BY Known DEF ClientInv
<1>2. /\ pc'[c] = IF client[c] = "away" THEN "off" ELSE "closed"
      /\ queue'[c] = <<>> /\ reply'[c] = None
      /\ UNCHANGED <<listening, emitted, socketVars, clientVars>>
  BY DEF Exit
<1>3. client[c] = "away" => out[c] = <<>> /\ line[c] = None /\ view[c] = Off /\ c \notin listening
  BY <1>1, Known DEF Turn, Queued, Accepted
<1>4. Turn(c)' /\ Written(c)'
  BY <1>1, <1>2, <1>3 DEF Turn, Written
<1>5. Queued(c)' /\ Past(c)'
  BY <1>1, <1>2, <1>3, EmptyFacts DEF Queued, Past, InOrder
<1>. QED BY <1>4, <1>5

-----------------------------------------------------------------------------
(* Every step keeps the invariant, whomever it concerns.                   *)
LEMMA NextInv ==
  ASSUME StreamInv, Next
  PROVE StreamInv'
<1>1. TypeOK' /\ ChannelInv'
  BY TypesStep, ChannelStep DEF StreamInv
<1> SUFFICES ASSUME NEW e \in Clients PROVE ClientInv(e)'
  BY <1>1 DEF StreamInv, ClientInv
<1>2. ClientInv(e)
  BY Known
<1>3. ASSUME NEW c \in Clients, Client(c) PROVE ClientInv(e)'
  <2>1. CASE e # c
    <3>1. /\ UNCHANGED <<loopVars, threadVars>>
          /\ line'[e] = line[e] /\ out'[e] = out[e] /\ client'[e] = client[e] /\ view'[e] = view[e]
      BY <1>3, <2>1, Known DEF Client, Ask, ReadLine, ReadEnd, GoAway
    <3>. QED BY <1>2, <3>1, Elsewhere
  <2>. QED BY <1>3, <2>1, AskInv, ReadInv, EndInv DEF Client
<1>4. ASSUME NEW c \in Clients, Accept(c) \/ TakeLine(c) PROVE ClientInv(e)'
  <2>1. CASE e # c
    <3>1. /\ UNCHANGED <<loopVars, queue, out, clientVars>>
          /\ pc'[e] = pc[e] /\ reply'[e] = reply[e] /\ line'[e] = line[e]
      BY <1>4, <2>1, Known, TakeLineFacts DEF Accept, StreamInv
    <3>. QED BY <1>2, <3>1, Elsewhere
  <2>. QED BY <1>4, <2>1, TakeInv
<1>5. ASSUME NEW c \in Clients, Closing(c), pc[c] \in {"reading", "replying", "pushing"},
             UNCHANGED <<loopVars, socketVars, clientVars>>
      PROVE ClientInv(e)'
  <2>1. CASE e # c
    <3>1. pc'[e] = pc[e] /\ reply'[e] = reply[e] /\ queue'[e] = queue[e]
      BY <1>5, <2>1, Known DEF Closing
    <3>. QED BY <1>2, <1>5, <3>1, Elsewhere
  <2>. QED BY <1>5, <2>1, ClosingInv
<1>6. ASSUME NEW c \in Clients, Call(c) \/ Await(c) PROVE ClientInv(e)'
  <2>1. CASE e # c
    <3>1. /\ UNCHANGED <<emitted, listening, queue, socketVars, clientVars>>
          /\ pc'[e] = pc[e] /\ reply'[e] = reply[e]
      BY <1>6, <2>1, Known DEF Call, Await
    <3>. QED BY <1>2, <3>1, Elsewhere
  <2>. QED BY <1>6, <2>1, CallInv
<1>7. ASSUME NEW c \in Clients, WriteReply(c) \/ Push(c) PROVE ClientInv(e)'
  <2>1. CASE e # c
    <3>1. /\ UNCHANGED <<loopVars, line, clientVars>>
          /\ pc'[e] = pc[e] /\ reply'[e] = reply[e] /\ queue'[e] = queue[e] /\ out'[e] = out[e]
      BY <1>7, <2>1, Known DEF WriteReply, Push
    <3>. QED BY <1>2, <3>1, Elsewhere
  <2>. QED BY <1>7, <2>1, ReplyInv, PushInv
<1>8. ASSUME NEW c \in Clients, Thread(c) PROVE ClientInv(e)'
  BY <1>4, <1>5, <1>6, <1>7, <1>8
  DEF Thread, ReadFails, WriteFails, PushEnds, PushedOut
<1>9. CASE Emit
  BY <1>9, EmitInv DEF Emit
<1>10. CASE Answer \/ Listen \/ Exit
  BY <1>10, AnswerInv, ListenInv, ExitInv
<1>11. CASE AcceptFails \/ Start \/ Stop \/ DropDaemon \/ DropCalls
  <2>1. /\ UNCHANGED <<emitted, threadVars, socketVars, clientVars>>
        /\ e \in listening' => e \in listening
    BY <1>11 DEF AcceptFails, Start, Stop, DropDaemon, DropCalls
  <2>. QED BY <1>2, <2>1, Elsewhere
<1>. QED BY <1>3, <1>4, <1>8, <1>9, <1>10, <1>11 DEF Next, Loop

(* The inductive invariant holds in every reachable state: every variable  *)
(* has its type, a request is in the channel into the loop once, and what  *)
(* was written to a listener, is queued for it and was emitted continue    *)
(* each other without a gap.                                               *)
THEOREM StreamInvariance == Spec => []StreamInv
<1>1. StreamInv /\ UNCHANGED vars => StreamInv'
  <2> SUFFICES ASSUME StreamInv, UNCHANGED vars PROVE StreamInv'
    OBVIOUS
  <2>1. TypeOK'
    BY DEF vars, StreamInv, TypeOK
  <2>2. ChannelInv'
    BY DEF vars, StreamInv, ChannelInv
  <2>3. ASSUME NEW c \in Clients PROVE ClientInv(c)'
    BY Known, Elsewhere DEF vars
  <2>. QED BY <2>1, <2>2, <2>3 DEF StreamInv, ClientInv
<1>2. StreamInv /\ [Next]_vars => StreamInv'
  BY <1>1, NextInv
<1>3. Init => StreamInv
  BY InitInv
<1>. QED BY <1>2, <1>3, PTL DEF Spec

-----------------------------------------------------------------------------
(* Every step is one of Broadcast's, or none: an event emitted, a listener *)
(* that joins, hears the next event or leaves.                             *)
LEMMA StepIsBroadcast ==
  ASSUME StreamInv, [Next]_vars
  PROVE [Stream!Next]_(Stream!vars)
<1> USE DEF Stream!vars
<1>1. CASE UNCHANGED <<emitted, view>>
  BY <1>1
<1>2. ASSUME Emitting, UNCHANGED view PROVE Stream!Next
  BY <1>2 DEF Emitting, Stream!Next, Stream!Emit
<1>3. ASSUME NEW c \in Clients, ReadLine(c) PROVE [Stream!Next]_(Stream!vars)
  <2>1. /\ view' = [view EXCEPT ![c] = view'[c]] /\ emitted' = emitted
        /\ view[c] \in Nat \cup {Off} /\ emitted \in Nat /\ DOMAIN view = Clients
    BY <1>3, ReadInv, Known DEF ReadLine
  <2>2. CASE view'[c] = view[c]
    <3>1. view \in [Clients -> Nat \cup {Off}]
      BY DEF StreamInv, TypeOK
    <3>2. view' = view
      BY <2>1, <2>2, <3>1
    <3>. QED BY <2>1, <3>2
  <2>3. CASE view[c] = Off /\ view'[c] \in 0..emitted
    BY <2>1, <2>3 DEF Stream!Next, Stream!Join
  <2>4. CASE view[c] # Off /\ view'[c] = view[c] + 1 /\ view'[c] <= emitted
    <3>1. view[c] < emitted /\ view' = [view EXCEPT ![c] = view[c] + 1]
      BY <2>1, <2>4
    <3>. QED BY <2>1, <2>4, <3>1 DEF Stream!Next, Stream!Hear
  <2>. QED BY <1>3, <2>2, <2>3, <2>4, ReadInv
<1>4. ASSUME NEW c \in Clients, ReadEnd(c) \/ GoAway(c) PROVE [Stream!Next]_(Stream!vars)
  <2>1. view' = [view EXCEPT ![c] = Off] /\ emitted' = emitted
    BY <1>4 DEF ReadEnd, GoAway
  <2>2. CASE view[c] = Off
    <3>1. view \in [Clients -> Nat \cup {Off}]
      BY DEF StreamInv, TypeOK
    <3>2. view' = view
      BY <2>1, <2>2, <3>1
    <3>. QED BY <2>1, <3>2
  <2>. QED BY <2>1, <2>2 DEF Stream!Next, Stream!Leave
<1>5. ASSUME NEW c \in Clients, Client(c) PROVE [Stream!Next]_(Stream!vars)
  BY <1>1, <1>3, <1>4, <1>5 DEF Client, Ask
<1>6. ASSUME NEW c \in Clients, Accept(c) \/ Thread(c) PROVE UNCHANGED <<emitted, view>>
  BY <1>6
  DEF Accept, Thread, TakeLine, ReadFails, Call, Await, WriteReply, WriteFails, Push, PushEnds,
      PushedOut
<1>7. CASE Emit \/ Answer
  BY <1>1, <1>2, <1>7 DEF Emit, Answer
<1>8. CASE AcceptFails \/ Start \/ Listen \/ Stop \/ DropDaemon \/ DropCalls \/ Exit
  BY <1>1, <1>8 DEF AcceptFails, Start, Listen, Stop, DropDaemon, DropCalls, Exit
<1>9. CASE UNCHANGED vars
  BY <1>1, <1>9 DEF vars
<1>. QED BY <1>1, <1>5, <1>6, <1>7, <1>8, <1>9 DEF Next, Loop

(* What leads up to a listener, in one sequence, is in order wherever its  *)
(* parts meet in order.                                                    *)
LEMMA JoinFacts ==
  ASSUME NEW s \in Seq(Lines), NEW t \in Seq(Lines), InOrder(s), InOrder(t),
         s # <<>> /\ t # <<>> => Follows(s[Len(s)].n, t[1])
  PROVE /\ s \o t \in Seq(Lines) /\ InOrder(s \o t)
        /\ t # <<>> => s \o t # <<>> /\ (s \o t)[Len(s \o t)] = t[Len(t)]
        /\ t = <<>> => s \o t = s
        /\ s # <<>> => (s \o t)[1] = s[1]
        /\ s = <<>> => s \o t = t
<1> DEFINE u == s \o t
<1>1. /\ u \in Seq(Lines) /\ Len(u) = Len(s) + Len(t) /\ Len(s) \in Nat /\ Len(t) \in Nat
      /\ \A i \in 1..Len(s) : u[i] = s[i]
      /\ \A i \in 1..Len(t) : u[Len(s) + i] = t[i]
  OBVIOUS
<1>2. (s # <<>> => Len(s) >= 1) /\ (t # <<>> => Len(t) >= 1)
  OBVIOUS
<1>3. InOrder(u)
  <2> SUFFICES ASSUME NEW i \in 1..Len(u), i > 1 PROVE Follows(u[i - 1].n, u[i])
    BY DEF InOrder
  <2>1. CASE i <= Len(s)
    <3>1. i \in 1..Len(s) /\ i - 1 \in 1..Len(s)
      BY <1>1, <2>1
    <3>2. u[i] = s[i] /\ u[i - 1] = s[i - 1]
      BY <1>1, <3>1
    <3>. QED BY <3>1, <3>2 DEF InOrder
  <2>2. CASE i = Len(s) + 1
    <3>1. Len(s) \in 1..Len(s) /\ 1 \in 1..Len(t) /\ s # <<>> /\ t # <<>> /\ i - 1 = Len(s)
      BY <1>1, <2>2
    <3>2. u[i] = t[1] /\ u[i - 1] = s[Len(s)]
      BY <1>1, <2>2, <3>1
    <3>. QED BY <3>1, <3>2
  <2>3. CASE i > Len(s) + 1
    <3> DEFINE j == i - Len(s)
    <3>1. j \in 1..Len(t) /\ j - 1 \in 1..Len(t) /\ j > 1 /\ i = Len(s) + j
          /\ i - 1 = Len(s) + (j - 1)
      BY <1>1, <2>3
    <3>2. u[i] = t[j] /\ u[i - 1] = t[j - 1]
      BY <1>1, <3>1
    <3>. QED BY <3>1, <3>2 DEF InOrder
  <2>. QED BY <1>1, <2>1, <2>2, <2>3
<1>4. t # <<>> => u # <<>> /\ u[Len(u)] = t[Len(t)]
  <2>1. t # <<>> => Len(t) \in 1..Len(t) /\ Len(u) = Len(s) + Len(t) /\ Len(u) # 0
    BY <1>1, <1>2
  <2>. QED BY <1>1, <2>1
<1>5. (t = <<>> => u = s) /\ (s = <<>> => u = t)
  OBVIOUS
<1>6. s # <<>> => u[1] = s[1]
  BY <1>1, <1>2
<1>. QED BY <1>1, <1>3, <1>4, <1>5, <1>6

(* One line is in order.                                                   *)
LEMMA OneFacts ==
  ASSUME NEW l \in Lines
  PROVE /\ <<l>> \in Seq(Lines) /\ Len(<<l>>) = 1 /\ <<l>>[1] = l /\ <<l>> # <<>>
        /\ InOrder(<<l>>)
BY DEF InOrder

(* What is coming to a client is in order, and when something is queued or *)
(* the client is on the list it ends with what it will be up to date with. *)
LEMMA ComingFacts ==
  ASSUME StreamInv, NEW c \in Clients, client[c] # "left"
  PROVE /\ Coming(c) \in Seq(Lines) /\ InOrder(Coming(c))
        /\ pc[c] = "pushing" \/ Accepted(c) =>
             /\ Coming(c) # <<>>
             /\ Coming(c)[Len(Coming(c))].is \in Told
             /\ Coming(c)[Len(Coming(c))].n = Latest(c)
<1> DEFINE v == IF view[c] = Off THEN <<>> ELSE <<Line("done", view[c])>>
           r == IF reply[c] = None THEN <<>> ELSE <<reply[c]>>
           o == out[c]
           q == queue[c]
<1>1. Turn(c) /\ Written(c) /\ Queued(c) /\ o \in Seq(Lines) /\ q \in Seq(Lines)
  BY Known DEF ClientInv
<1>2. InOrder(o) /\ InOrder(q)
  BY <1>1 DEF Written, Queued
<1>3. /\ v \in Seq(Lines) /\ InOrder(v) /\ (v # <<>> <=> view[c] # Off)
      /\ v # <<>> => v[Len(v)] = Line("done", view[c]) /\ v[Len(v)].n = view[c]
                     /\ v[Len(v)].is = "done"
  <2>1. CASE view[c] = Off
    BY <2>1, EmptyFacts
  <2>2. CASE view[c] # Off
    <3>1. view[c] \in Nat
      BY <2>2, Known
    <3>2. Line("done", view[c]) \in Lines /\ Line("done", view[c]).n = view[c]
          /\ Line("done", view[c]).is = "done"
      BY <3>1, LineFacts DEF Kinds
    <3>. QED BY <2>2, <3>2, OneFacts
  <2>. QED BY <2>1, <2>2
<1>4. /\ r \in Seq(Lines) /\ InOrder(r) /\ (r # <<>> <=> reply[c] # None)
      /\ r # <<>> => r[1] = reply[c] /\ Len(r) = 1
  <2>1. CASE reply[c] = None
    BY <2>1, EmptyFacts
  <2>2. CASE reply[c] # None
    BY <2>2, Known, OneFacts
  <2>. QED BY <2>1, <2>2
<1>5. Coming(c) = v \o o \o r \o q
  BY DEF Coming
<1> HIDE DEF v, r, o, q
<1>6. CASE reply[c] # None
  <2>1. o = <<>> /\ view[c] = Off
    BY <1>1, <1>6, Known DEF Turn, o
  <2>2. v \o o \o r \o q = r \o q
    BY <1>1, <1>3, <1>4, <2>1
  <2>3. q # <<>> => Follows(reply[c].n, q[1]) /\ Accepted(c)
    <3>1. pc[c] # "pushing"
      BY <1>6, Known
    <3>. QED BY <1>1, <1>6, <3>1 DEF Queued, UpTo, q
  <2>4. /\ r \o q \in Seq(Lines) /\ InOrder(r \o q)
        /\ q # <<>> => r \o q # <<>> /\ (r \o q)[Len(r \o q)] = q[Len(q)]
        /\ q = <<>> => r \o q = r
    BY <1>1, <1>2, <1>4, <1>6, <2>3, JoinFacts
  <2>5. q # <<>> => q[Len(q)].is \in Told /\ Latest(c) = q[Len(q)].n
    <3>1. q # <<>> => Len(q) \in 1..Len(q) /\ (Len(q) = 1 \/ Len(q) > 1)
      BY <1>1, LenFacts
    <3>2. q # <<>> => q[Len(q)].is \in Told
      BY <1>2, <2>3, <3>1 DEF InOrder, Follows
    <3>. QED BY <3>2 DEF Latest, q
  <2>6. q = <<>> => Latest(c) = reply[c].n
    BY <1>6 DEF Latest, UpTo, q
  <2>7. Accepted(c) => reply[c].is \in Told
    BY DEF Accepted, Told
  <2>8. pc[c] # "pushing"
    BY <1>6, Known
  <2>. QED BY <1>4, <1>5, <1>6, <2>2, <2>4, <2>5, <2>6, <2>7, <2>8
<1>7. CASE reply[c] = None
  <2>1. v \o o \o r \o q = (v \o o) \o q
    BY <1>1, <1>3, <1>4, <1>7
  <2>2. /\ v \o o \in Seq(Lines) /\ InOrder(v \o o)
        /\ o # <<>> => v \o o # <<>> /\ (v \o o)[Len(v \o o)] = o[Len(o)]
        /\ o = <<>> => v \o o = v
        /\ v = <<>> => v \o o = o
    <3>1. v # <<>> /\ o # <<>> => Follows(v[Len(v)].n, o[1])
      BY <1>1, <1>3 DEF Written, o
    <3>. QED BY <1>1, <1>2, <1>3, <3>1, JoinFacts
  <2>3. ~Accepted(c) /\ UpTo(c) = (IF o # <<>> THEN o[Len(o)].n ELSE view[c])
    BY <1>7 DEF Accepted, UpTo, o
  <2>4. pc[c] = "pushing" => v \o o # <<>> /\ (v \o o)[Len(v \o o)].n = UpTo(c)
                             /\ (v \o o)[Len(v \o o)].is \in Told
    <3>1. pc[c] = "pushing" /\ o # <<>> => o[Len(o)].is \in Told
      <4>1. o # <<>> => Len(o) \in 1..Len(o) /\ (Len(o) = 1 \/ Len(o) > 1)
        BY <1>1, LenFacts
      <4>2. pc[c] = "pushing" /\ o # <<>> => o[1].is \in Told
        <5>1. view[c] # Off /\ o # <<>> => Follows(view[c], o[1])
          BY <1>1 DEF Written, o
        <5>. QED BY <1>1, <5>1 DEF Written, Follows, o
      <4>. QED BY <1>2, <4>1, <4>2 DEF InOrder, Follows
    <3>2. pc[c] = "pushing" /\ o = <<>> => v # <<>>
      BY <1>1, <1>3 DEF Written, o
    <3>. QED BY <1>3, <2>2, <2>3, <3>1, <3>2 DEF Told
  <2>5. q # <<>> => pc[c] = "pushing" /\ Follows(UpTo(c), q[1])
    BY <1>1, <2>3 DEF Queued, q
  <2> DEFINE w == v \o o
  <2> HIDE DEF w
  <2>6. /\ w \in Seq(Lines) /\ InOrder(w) /\ v \o o \o r \o q = w \o q
        /\ pc[c] = "pushing" => w # <<>> /\ w[Len(w)].n = UpTo(c) /\ w[Len(w)].is \in Told
    BY <2>1, <2>2, <2>4 DEF w
  <2>7. /\ w \o q \in Seq(Lines) /\ InOrder(w \o q)
        /\ q # <<>> => w \o q # <<>> /\ (w \o q)[Len(w \o q)] = q[Len(q)]
        /\ q = <<>> => w \o q = w
    BY <1>1, <1>2, <2>5, <2>6, JoinFacts
  <2>8. q # <<>> => q[Len(q)].is \in Told /\ Latest(c) = q[Len(q)].n
    <3>1. q # <<>> => Len(q) \in 1..Len(q) /\ (Len(q) = 1 \/ Len(q) > 1)
      BY <1>1, LenFacts
    <3>2. q # <<>> => q[Len(q)].is \in Told
      BY <1>2, <2>5, <3>1 DEF InOrder, Follows
    <3>. QED BY <3>2 DEF Latest, q
  <2>9. q = <<>> => Latest(c) = UpTo(c)
    BY DEF Latest, q
  <2>. QED BY <1>5, <2>3, <2>6, <2>7, <2>8, <2>9
<1>. QED BY <1>6, <1>7

(* The invariant makes the stream complete.                                *)
LEMMA InvComplete ==
  ASSUME StreamInv
  PROVE Gapless /\ ListedIsComplete
<1>1. Gapless
  <2> SUFFICES ASSUME NEW c \in Clients, client[c] # "left",
                      NEW i \in DOMAIN Coming(c), NEW j \in DOMAIN Coming(c), i < j,
                      \A k \in (i + 1)..(j - 1) : Coming(c)[k].is \notin Told
               PROVE Coming(c)[j].n
                       = Coming(c)[i].n + (IF Coming(c)[j].is = "event" THEN 1 ELSE 0)
    BY DEF Gapless
  <2>1. Coming(c) \in Seq(Lines) /\ InOrder(Coming(c))
    BY ComingFacts
  <2>2. i \in 1..Len(Coming(c)) /\ j \in 1..Len(Coming(c)) /\ Len(Coming(c)) \in Nat
    BY <2>1
  <2>3. i + 1 \in 1..Len(Coming(c)) /\ i + 1 > 1 /\ (i + 1) - 1 = i
    BY <2>2
  <2>4. Follows(Coming(c)[i].n, Coming(c)[i + 1])
    BY <2>1, <2>3 DEF InOrder
  <2>5. i + 1 = j
    <3>1. Coming(c)[i + 1].is \in Told
      BY <2>4 DEF Follows
    <3>. QED BY <2>2, <3>1
  <2>. QED BY <2>4, <2>5 DEF Follows
<1>2. ListedIsComplete
  <2> SUFFICES ASSUME NEW c \in listening, Held(c), client[c] # "left"
               PROVE /\ Coming(c) # <<>>
                     /\ Coming(c)[Len(Coming(c))].is \in Told
                     /\ Coming(c)[Len(Coming(c))].n = emitted
    BY DEF ListedIsComplete
  <2>1. c \in Clients /\ Queued(c)
    BY DEF StreamInv, TypeOK
  <2>2. (pc[c] = "pushing" \/ Accepted(c)) /\ Latest(c) = emitted
    BY <2>1 DEF Queued, Held
  <2>. QED BY <2>1, <2>2, ComingFacts
<1>. QED BY <1>1, <1>2

(* Between the loop and a listener nothing is lost, repeated or out of     *)
(* order: what its client reads is a stream of Broadcast, however slow it  *)
(* is, whoever else listens and whatever ends it (server.rs:61-62).        *)
THEOREM ControlImplementsBroadcast == Spec => ImplementsBroadcast
<1>1. Init => Stream!Init
  BY DEF Init, Stream!Init
<1>2. StreamInv /\ [Next]_vars => [Stream!Next]_(Stream!vars)
  BY StepIsBroadcast
<1>3. StreamInv => Gapless /\ ListedIsComplete
  BY InvComplete
<1>. QED BY <1>1, <1>2, <1>3, StreamInvariance, PTL DEF Spec, ImplementsBroadcast, Stream!Spec

-----------------------------------------------------------------------------
(* What is due to a client that asked, and to no other: it is on its way   *)
(* as long as the process is there, the answer is the first line written,  *)
(* and what is described is no older than the request.                     *)
Due(c) ==
  /\ Alive /\ client[c] = "asking" =>
       \/ pc[c] \in {"calling", "waiting", "replying"}
       \/ line[c] \notin {None, "blank"}
       \/ out[c] # <<>>
  /\ client[c] = "asking" /\ out[c] # <<>> =>
       out[c][1].is \in Answers /\ (out[c][1].is = "done" => asked[c] <= out[c][1].n)
  /\ \A i \in 1..Len(out[c]) : out[c][i].is \in Answers => client[c] = "asking" /\ i = 1
  /\ \A i \in 1..Len(queue[c]) : queue[c][i].is \in {"ready", "event"}
  /\ asked[c] <= emitted
  /\ Accepted(c) => asked[c] <= reply[c].n
  /\ view[c] # Off => asked[c] <= view[c]

DueInv == \A c \in Clients : client[c] # "left" => Due(c)

(* A client whom a step does not concern.                                  *)
LEMMA DueElsewhere ==
  ASSUME NEW c \in Clients, Due(c), asked[c] \in Nat, emitted \in Nat, emitted' \in Nat,
         Alive' => Alive, emitted <= emitted',
         pc'[c] = pc[c], reply'[c] = reply[c], queue'[c] = queue[c], out'[c] = out[c],
         line'[c] = line[c], client'[c] = client[c], view'[c] = view[c], asked'[c] = asked[c]
  PROVE Due(c)'
<1>1. asked'[c] <= emitted'
  BY DEF Due
<1>. QED BY <1>1 DEF Due, Accepted

(* What is known of a client that has not gone.                            *)
LEMMA DueKnown ==
  ASSUME StreamInv, DueInv, NEW c \in Clients, client[c] # "left"
  PROVE /\ Due(c) /\ Turn(c) /\ Written(c) /\ Queued(c)
        /\ out[c] \in Seq(Lines) /\ queue[c] \in Seq(Lines)
        /\ asked \in [Clients -> Nat] /\ emitted \in Nat
        /\ reply[c] # None => reply[c] \in Lines /\ pc[c] \in {"waiting", "replying"}
                              /\ reply[c].is \in Answers
        /\ client[c] = "asking" => view[c] = Off
<1>1. Turn(c) /\ Written(c) /\ Queued(c)
  BY Known DEF ClientInv
<1>2. asked \in [Clients -> Nat]
  BY DEF StreamInv, TypeOK
<1>. QED BY <1>1, <1>2, Known DEF DueInv, Turn

(* The process does not come back.                                         *)
LEMMA AliveBefore ==
  ASSUME Next, Alive'
  PROVE Alive
<1>1. ASSUME NEW c \in Clients, Client(c) \/ Accept(c) PROVE Alive
  BY <1>1 DEF Client, Ask, ReadLine, ReadEnd, GoAway, Accept, Alive
<1>2. ASSUME NEW c \in Clients, Thread(c) PROVE Alive
  BY <1>2
  DEF Thread, TakeLine, ReadFails, Call, Await, WriteReply, WriteFails, Push, PushEnds, PushedOut
<1>3. CASE AcceptFails \/ Loop
  BY <1>3
  DEF AcceptFails, Loop, Start, Emit, Answer, Listen, Stop, DropDaemon, DropCalls, Exit, Alive
<1>. QED BY <1>1, <1>2, <1>3 DEF Next

(* A client that sends a request, reads a line or the end.                 *)
LEMMA ClientDue ==
  ASSUME StreamInv, DueInv, NEW c \in Clients, Client(c), client'[c] # "left"
  PROVE Due(c)'
<1>1. client[c] # "left"
  BY DEF Client, Ask, ReadLine, ReadEnd, GoAway
<1>2. /\ Due(c) /\ Turn(c) /\ Written(c) /\ Queued(c)
      /\ out[c] \in Seq(Lines) /\ queue[c] \in Seq(Lines)
      /\ asked \in [Clients -> Nat] /\ emitted \in Nat
      /\ reply[c] # None => pc[c] \in {"waiting", "replying"}
      /\ client[c] = "asking" => view[c] = Off
  BY <1>1, DueKnown
<1>3. UNCHANGED <<loopVars, threadVars>> /\ (Alive' <=> Alive)
  BY DEF Client, Ask, ReadLine, ReadEnd, GoAway, Alive
<1>4. ASSUME NEW r \in Requests, Ask(c, r) PROVE Due(c)'
  <2>1. /\ client[c] \in {"idle", "away"} /\ client'[c] \in {"idle", "asking"}
        /\ line'[c] = r /\ r # None
        /\ client'[c] = "asking" => r # "blank"
        /\ asked'[c] = emitted /\ UNCHANGED <<out, view>>
    BY <1>2, <1>4, Known DEF Ask, ControlAssumption
  <2>2. out[c] = <<>> /\ view[c] = Off /\ pc[c] \in {"off", "reading", "closed"}
    BY <1>2, <2>1 DEF Turn
  <2>3. ~Accepted(c)'
    BY <1>2, <1>3, <2>2 DEF Accepted
  <2>4. \A i \in 1..Len(queue[c]) : queue[c][i].is \in {"ready", "event"}
    BY <1>2 DEF Due
  <2>. QED BY <1>2, <1>3, <2>1, <2>2, <2>3, <2>4, EmptyFacts DEF Due
<1>5. CASE ReadLine(c)
  <2> DEFINE l == out[c][1]
             told == l.is \in {"done", "ready", "event"}
  <2>1. /\ client[c] \in {"asking", "listening"} /\ out[c] # <<>>
        /\ out'[c] = Tail(out[c]) /\ Head(out[c]) = l /\ UNCHANGED <<line, asked>>
        /\ client'[c] = IF told THEN "listening" ELSE "idle"
        /\ view'[c] = IF told THEN l.n ELSE view[c]
    BY <1>2, <1>5, Known, SomeFacts DEF ReadLine
  <2>2. l \in Lines /\ l.n \in Nat /\ Len(out[c]) \in Nat \ {0}
    BY <1>2, <2>1, SomeFacts
  <2>3. \A i \in 1..Len(Tail(out[c])) : Tail(out[c])[i].is \notin Answers
    <3> SUFFICES ASSUME NEW i \in 1..Len(Tail(out[c])) PROVE Tail(out[c])[i].is \notin Answers
      OBVIOUS
    <3>1. i + 1 \in 1..Len(out[c]) /\ Tail(out[c])[i] = out[c][i + 1] /\ i + 1 # 1
      BY <1>2, <2>1, TailFacts
    <3>. QED BY <1>2, <3>1 DEF Due
  <2>4. asked[c] \in Nat /\ (told => asked[c] <= l.n)
    <3>1. CASE client[c] = "asking"
      BY <1>2, <2>1, <3>1 DEF Due, Answers
    <3>2. CASE client[c] = "listening"
      <4>1. view[c] # Off /\ view[c] \in Nat
        BY <1>2, <3>2, Known DEF Turn
      <4>2. l.n = view[c] + (IF l.is = "event" THEN 1 ELSE 0)
        BY <1>2, <2>1, <4>1 DEF Written, Follows
      <4>3. asked[c] <= view[c] /\ asked[c] \in Nat
        BY <1>2, <4>1 DEF Due
      <4>. QED BY <2>2, <4>1, <4>2, <4>3
    <3>. QED BY <2>1, <3>1, <3>2
  <2>5. view'[c] # Off => asked[c] <= view'[c]
    BY <1>2, <2>1, <2>4 DEF Due
  <2>6. \A i \in 1..Len(queue[c]) : queue[c][i].is \in {"ready", "event"}
    BY <1>2 DEF Due
  <2>7. asked'[c] <= emitted' /\ (Accepted(c)' => asked'[c] <= reply'[c].n)
    BY <1>2, <1>3, <2>1 DEF Due, Accepted
  <2>8. client'[c] # "asking"
    BY <2>1
  <2>. QED BY <1>3, <2>1, <2>3, <2>5, <2>6, <2>7, <2>8 DEF Due
<1>6. CASE ReadEnd(c)
  <2>1. out[c] = <<>> /\ client'[c] = "ended" /\ view'[c] = Off /\ UNCHANGED <<line, out, asked>>
    BY <1>6, Known DEF ReadEnd
  <2>. QED BY <1>2, <1>3, <2>1, EmptyFacts DEF Due, Accepted
<1>7. CASE GoAway(c)
  BY <1>7, Known DEF GoAway
<1>. QED BY <1>4, <1>5, <1>6, <1>7 DEF Client

(* A connection that is taken, a line that is, a request that crosses to   *)
(* the loop and what comes back.                                           *)
LEMMA TakeDue ==
  ASSUME StreamInv, DueInv, NEW c \in Clients, client[c] # "left",
         Accept(c) \/ TakeLine(c) \/ Call(c) \/ Await(c)
  PROVE Due(c)'
<1>1. /\ Due(c) /\ Turn(c) /\ asked \in [Clients -> Nat] /\ emitted \in Nat
      /\ reply[c] # None => pc[c] \in {"waiting", "replying"}
  BY DueKnown
<1>2. /\ UNCHANGED <<queue, out, clientVars, daemon, emitted>>
      /\ reply'[c] = reply[c] \/ reply'[c] = Line("refused", 0) \/ reply'[c] = Line("stopping", 0)
      /\ \/ pc'[c] \in {"calling", "waiting", "replying"}
         \/ /\ pc[c] \in {"off", "reading"}
            /\ line'[c] = line[c] \/ (line[c] = "blank" /\ line'[c] = None)
  <2>1. CASE Accept(c)
    BY <2>1, Known DEF Accept
  <2>2. CASE TakeLine(c)
    BY <2>2, Known, TakeLineFacts DEF StreamInv
  <2>3. CASE Call(c) \/ Await(c)
    BY <2>3, Known DEF Call, Await
  <2>. QED BY <2>1, <2>2, <2>3
<1>3. Accepted(c)' => Accepted(c) /\ reply'[c] = reply[c]
  <2>1. Line("refused", 0).is # "done" /\ Line("stopping", 0).is # "done"
    BY LineFacts DEF Kinds
  <2>. QED BY <1>2, <2>1 DEF Accepted
<1>4. Alive' <=> Alive
  BY <1>2 DEF Alive
<1>. QED BY <1>1, <1>2, <1>3, <1>4 DEF Due

(* A connection that ends: its client has gone, or has a line to read.     *)
LEMMA ClosingDue ==
  ASSUME StreamInv, DueInv, NEW c \in Clients, client[c] # "left", Closing(c), pc[c] = "pushing",
         UNCHANGED <<loopVars, socketVars, clientVars>>
  PROVE Due(c)'
<1>1. Due(c) /\ Turn(c) /\ Written(c) /\ (client[c] = "asking" => view[c] = Off)
  BY DueKnown
<1>2. queue'[c] = <<>> /\ reply'[c] = None
  BY Known DEF Closing
<1>3. client[c] = "asking" => out[c] # <<>>
  BY <1>1 DEF Written
<1>. QED BY <1>1, <1>2, <1>3, EmptyFacts DEF Due, Accepted

(* A reply that is written, and an event.                                  *)
LEMMA WriteDue ==
  ASSUME StreamInv, DueInv, NEW c \in Clients, client[c] # "left", WriteReply(c) \/ Push(c)
  PROVE Due(c)'
<1>1. /\ Due(c) /\ Turn(c) /\ Written(c) /\ out[c] \in Seq(Lines) /\ queue[c] \in Seq(Lines)
      /\ reply[c] # None => reply[c] \in Lines /\ reply[c].is \in Answers
      /\ client[c] = "asking" => view[c] = Off
  BY DueKnown
<1>2. UNCHANGED <<loopVars, line, clientVars>> /\ (Alive' <=> Alive)
  BY DEF WriteReply, Push, Alive
<1>3. CASE WriteReply(c)
  <2>1. /\ pc[c] = "replying" /\ reply[c] # None /\ out'[c] = Append(out[c], reply[c])
        /\ reply'[c] = None /\ UNCHANGED queue
    BY <1>3, Known DEF WriteReply
  <2>2. out[c] = <<>> /\ client[c] = "asking"
    BY <1>1, <2>1 DEF Turn
  <2>3. out'[c] # <<>> /\ out'[c][1] = reply[c] /\ Len(out'[c]) = 1
    BY <1>1, <2>1, <2>2, AppendFacts, EmptyFacts
  <2>4. reply[c].is = "done" => asked[c] <= reply[c].n
    BY <1>1, <2>1 DEF Due, Accepted
  <2>5. \A i \in 1..Len(out'[c]) : i = 1
    BY <2>3
  <2>. QED BY <1>1, <1>2, <2>1, <2>2, <2>3, <2>4, <2>5 DEF Due, Accepted
<1>4. CASE Push(c)
  <2> DEFINE l == Head(queue[c])
  <2>1. /\ pc[c] = "pushing" /\ queue[c] # <<>> /\ out'[c] = Append(out[c], l)
        /\ queue'[c] = Tail(queue[c]) /\ UNCHANGED <<pc, reply>>
    BY <1>4, Known DEF Push
  <2>2. l \in Lines /\ l.is \in {"ready", "event"} /\ l.is \notin Answers
    <3>1. l = queue[c][1] /\ queue[c][1] \in Lines /\ 1 \in 1..Len(queue[c])
      BY <1>1, <2>1, SomeFacts, LenFacts
    <3>. QED BY <1>1, <3>1 DEF Due, Answers
  <2>3. /\ out'[c] # <<>> /\ Len(out'[c]) = Len(out[c]) + 1 /\ Len(out[c]) \in Nat
        /\ \A i \in 1..Len(out[c]) : out'[c][i] = out[c][i]
        /\ out'[c][Len(out[c]) + 1] = l
        /\ out[c] # <<>> => out'[c][1] = out[c][1]
    BY <1>1, <2>1, <2>2, AppendFacts
  <2>4. client[c] = "asking" => out[c] # <<>>
    BY <1>1, <2>1 DEF Written
  <2>5. \A i \in 1..Len(out'[c]) : out'[c][i].is \in Answers => client[c] = "asking" /\ i = 1
    <3> SUFFICES ASSUME NEW i \in 1..Len(out'[c]), out'[c][i].is \in Answers
                 PROVE client[c] = "asking" /\ i = 1
      OBVIOUS
    <3>1. i # Len(out[c]) + 1
      BY <2>2, <2>3
    <3>2. i \in 1..Len(out[c])
      BY <2>3, <3>1
    <3>. QED BY <1>1, <2>3, <3>2 DEF Due
  <2>6. \A i \in 1..Len(queue'[c]) : queue'[c][i].is \in {"ready", "event"}
    <3> SUFFICES ASSUME NEW i \in 1..Len(Tail(queue[c]))
                 PROVE Tail(queue[c])[i].is \in {"ready", "event"}
      BY <2>1
    <3>1. i + 1 \in 1..Len(queue[c]) /\ Tail(queue[c])[i] = queue[c][i + 1]
      BY <1>1, <2>1, TailFacts
    <3>. QED BY <1>1, <3>1 DEF Due
  <2>7. client[c] = "asking" =>
          out'[c][1].is \in Answers /\ (out'[c][1].is = "done" => asked[c] <= out'[c][1].n)
    BY <1>1, <2>3, <2>4 DEF Due
  <2>8. /\ asked[c] <= emitted /\ (Accepted(c) => asked[c] <= reply[c].n)
        /\ view[c] # Off => asked[c] <= view[c]
    BY <1>1 DEF Due
  <2>. QED BY <1>2, <2>1, <2>3, <2>5, <2>6, <2>7, <2>8 DEF Due, Accepted
<1>. QED BY <1>3, <1>4

(* Whatever the loop does to a queue, it queues events and descriptions.   *)
LEMMA LoopDue ==
  ASSUME StreamInv, DueInv, NEW c \in Clients, client[c] # "left", Alive' => Alive,
         UNCHANGED <<pc, out, line, client, view, asked>>, emitted' \in {emitted, emitted + 1},
         \A i \in 1..Len(queue'[c]) : queue'[c][i].is \in {"ready", "event"},
         Accepted(c)' => asked[c] <= reply'[c].n
  PROVE Due(c)'
<1>1. Due(c) /\ asked \in [Clients -> Nat] /\ emitted \in Nat
  BY DueKnown
<1>2. asked[c] \in Nat /\ asked[c] <= emitted /\ asked'[c] = asked[c]
  BY <1>1 DEF Due
<1>3. asked'[c] <= emitted'
  BY <1>1, <1>2
<1>. QED BY <1>1, <1>2, <1>3 DEF Due

(* An event that is emitted goes to the end of a queue.                    *)
LEMMA EmittingDue ==
  ASSUME StreamInv, DueInv, NEW c \in Clients, client[c] # "left",
         Emitting \/ UNCHANGED <<emitted, listening, queue>>
  PROVE /\ emitted' \in {emitted, emitted + 1}
        /\ \A i \in 1..Len(queue'[c]) : queue'[c][i].is \in {"ready", "event"}
<1> DEFINE l == Line("event", emitted + 1)
<1>1. /\ queue[c] \in Seq(Lines) /\ emitted \in Nat
      /\ \A i \in 1..Len(queue[c]) : queue[c][i].is \in {"ready", "event"}
  BY DueKnown DEF Due
<1>2. l \in Lines /\ l.is = "event"
  BY <1>1, LineFacts DEF Kinds
<1>3. CASE UNCHANGED <<emitted, listening, queue>>
  BY <1>1, <1>3
<1>4. CASE Emitting
  <2>1. /\ emitted' = emitted + 1
        /\ queue'[c] = queue[c] \/ queue'[c] = Append(queue[c], l)
    BY <1>4 DEF Emitting
  <2>2. CASE queue'[c] = queue[c]
    BY <1>1, <2>1, <2>2
  <2>3. CASE queue'[c] = Append(queue[c], l)
    <3>1. /\ Len(queue'[c]) = Len(queue[c]) + 1 /\ Len(queue[c]) \in Nat
          /\ \A i \in 1..Len(queue[c]) : queue'[c][i] = queue[c][i]
          /\ queue'[c][Len(queue[c]) + 1] = l
      BY <1>1, <1>2, <2>3, AppendFacts
    <3>2. \A i \in 1..Len(queue'[c]) : i \in 1..Len(queue[c]) \/ i = Len(queue[c]) + 1
      BY <3>1
    <3>. QED BY <1>1, <1>2, <2>1, <3>1, <3>2
  <2>. QED BY <2>1, <2>2, <2>3
<1>. QED BY <1>3, <1>4

(* An answer is no older than the request.                                 *)
LEMMA AnswerDue ==
  ASSUME StreamInv, DueInv, NEW c \in Clients, client[c] # "left", Alive' => Alive,
         Emit \/ Answer \/ Listen
  PROVE Due(c)'
<1>1. /\ Due(c) /\ asked \in [Clients -> Nat] /\ emitted \in Nat
      /\ Accepted(c) => asked[c] <= reply[c].n
      /\ \A i \in 1..Len(queue[c]) : queue[c][i].is \in {"ready", "event"}
      /\ asked[c] <= emitted
  BY DueKnown DEF Due
<1>2. UNCHANGED <<pc, out, line, client, view, asked>>
  BY DEF Emit, Answer, Listen
<1>3. CASE Emit
  <2>1. Emitting /\ reply' = reply
    BY <1>3 DEF Emit
  <2>. QED BY <1>1, <1>2, <2>1, EmittingDue, LoopDue DEF Accepted
<1>4. CASE Answer
  <2>1. /\ Emitting \/ UNCHANGED <<emitted, listening, queue>>
        /\ reply'[c] = reply[c] \/ reply'[c] = Line("reply", 0)
    BY <1>4, Known DEF Answer
  <2>2. Line("reply", 0).is # "done"
    BY LineFacts DEF Kinds
  <2>3. Accepted(c)' => asked[c] <= reply'[c].n
    BY <1>1, <2>1, <2>2 DEF Accepted
  <2>. QED BY <1>2, <2>1, <2>3, EmittingDue, LoopDue
<1>5. CASE Listen
  <2>1. /\ emitted' = emitted
        /\ queue'[c] = queue[c] \/ queue'[c] = Description
        /\ \/ reply'[c] = reply[c] \/ reply'[c] = Line("refused", 0)
           \/ reply'[c] = Line("done", emitted)
    BY <1>5, Known DEF Listen
  <2>2. \A i \in 1..Len(Description) : Description[i].is \in {"ready", "event"}
    <3>1. \A i \in 1..outputs : Line("ready", emitted).is = "ready"
      BY <1>1, LineFacts DEF Kinds
    <3>2. outputs \in Nat
      BY DEF StreamInv, TypeOK, ControlAssumption
    <3>3. Len(Description) = outputs /\ \A i \in 1..outputs : Description[i] = Line("ready", emitted)
      BY <3>2 DEF Description
    <3>. QED BY <3>1, <3>3
  <2>3. Line("refused", 0).is # "done" /\ Line("done", emitted).n = emitted
    BY <1>1, LineFacts DEF Kinds
  <2>4. Accepted(c)' => asked[c] <= reply'[c].n
    BY <1>1, <2>1, <2>3 DEF Accepted
  <2>5. \A i \in 1..Len(queue'[c]) : queue'[c][i].is \in {"ready", "event"}
    BY <1>1, <2>1, <2>2
  <2>. QED BY <1>2, <2>1, <2>4, <2>5, LoopDue
<1>. QED BY <1>3, <1>4, <1>5

(* The end of the process answers nobody.                                  *)
LEMMA ExitDue ==
  ASSUME StreamInv, DueInv, NEW c \in Clients, client[c] # "left", Exit
  PROVE Due(c)'
<1>1. Due(c)
  BY DueKnown
<1>2. /\ ~Alive' /\ queue'[c] = <<>> /\ reply'[c] = None
      /\ UNCHANGED <<emitted, out, line, client, view, asked>>
  BY DEF Exit, Alive
<1>. QED BY <1>1, <1>2, EmptyFacts DEF Due, Accepted

(* Every step keeps what is due.                                           *)
LEMMA NextDue ==
  ASSUME StreamInv, DueInv, Next
  PROVE DueInv'
<1> SUFFICES ASSUME NEW e \in Clients, client'[e] # "left" PROVE Due(e)'
  BY DEF DueInv
<1>1. Alive' => Alive
  BY AliveBefore
<1>2. emitted \in Nat /\ asked \in [Clients -> Nat]
  BY DEF StreamInv, TypeOK
<1>3. client[e] # "left" => Due(e)
  BY DEF DueInv
<1>4. ASSUME NEW c \in Clients, Client(c) PROVE Due(e)'
  <2>1. CASE e # c
    <3>1. /\ UNCHANGED <<loopVars, threadVars>>
          /\ line'[e] = line[e] /\ out'[e] = out[e] /\ client'[e] = client[e]
          /\ view'[e] = view[e] /\ asked'[e] = asked[e]
      BY <1>2, <1>4, <2>1, Known DEF Client, Ask, ReadLine, ReadEnd, GoAway
    <3>2. asked[e] \in Nat /\ emitted' = emitted
      BY <1>2, <3>1
    <3>. QED BY <1>1, <1>2, <1>3, <3>1, <3>2, DueElsewhere
  <2>. QED BY <1>4, <2>1, ClientDue
<1>5. ASSUME NEW c \in Clients, Accept(c) \/ Thread(c) PROVE Due(e)'
  <2>1. client[e] # "left" /\ Due(e) /\ UNCHANGED <<clientVars, emitted>>
    BY <1>3, <1>5
    DEF Accept, Thread, TakeLine, ReadFails, Call, Await, WriteReply, WriteFails, Push, PushEnds,
        PushedOut
  <2>2. CASE e # c
    <3>1. CASE Accept(c) \/ TakeLine(c)
      <4>1. /\ UNCHANGED <<queue, out>> /\ pc'[e] = pc[e] /\ reply'[e] = reply[e]
            /\ line'[e] = line[e]
        BY <2>2, <3>1, Known, TakeLineFacts DEF Accept, StreamInv
      <4>. QED BY <1>1, <1>2, <2>1, <4>1, DueElsewhere
    <3>2. CASE Call(c) \/ Await(c)
      <4>1. UNCHANGED <<queue, out, line>> /\ pc'[e] = pc[e] /\ reply'[e] = reply[e]
        BY <2>2, <3>2, Known DEF Call, Await
      <4>. QED BY <1>1, <1>2, <2>1, <4>1, DueElsewhere
    <3>3. CASE WriteReply(c) \/ Push(c)
      <4>1. /\ UNCHANGED line /\ pc'[e] = pc[e] /\ reply'[e] = reply[e]
            /\ queue'[e] = queue[e] /\ out'[e] = out[e]
        BY <2>2, <3>3, Known DEF WriteReply, Push
      <4>. QED BY <1>1, <1>2, <2>1, <4>1, DueElsewhere
    <3>4. CASE Closing(c) /\ UNCHANGED socketVars
      <4>1. /\ UNCHANGED <<line, out>> /\ pc'[e] = pc[e] /\ reply'[e] = reply[e]
            /\ queue'[e] = queue[e]
        BY <2>2, <3>4, Known DEF Closing
      <4>. QED BY <1>1, <1>2, <2>1, <4>1, DueElsewhere
    <3>. QED BY <1>5, <3>1, <3>2, <3>3, <3>4
         DEF Thread, ReadFails, WriteFails, PushEnds, PushedOut
  <2>3. CASE e = c
    <3>1. CASE Accept(c) \/ TakeLine(c) \/ Call(c) \/ Await(c)
      BY <2>1, <2>3, <3>1, TakeDue
    <3>2. CASE WriteReply(c) \/ Push(c)
      BY <2>1, <2>3, <3>2, WriteDue
    <3>3. CASE PushEnds(c) \/ PushedOut(c)
      BY <2>1, <2>3, <3>3, ClosingDue DEF PushEnds, PushedOut
    <3>4. CASE ReadFails(c) \/ WriteFails(c)
      BY <2>1, <2>3, <3>4 DEF ReadFails, WriteFails
    <3>. QED BY <1>5, <3>1, <3>2, <3>3, <3>4 DEF Thread
  <2>. QED BY <2>2, <2>3
<1>6. ASSUME Emit \/ Answer \/ Listen \/ Exit PROVE Due(e)'
  <2>1. client' = client
    BY <1>6 DEF Emit, Answer, Listen, Exit
  <2>. QED BY <1>1, <1>6, <2>1, AnswerDue, ExitDue
<1>7. ASSUME AcceptFails \/ Start \/ Stop \/ DropDaemon \/ DropCalls PROVE Due(e)'
  <2>1. UNCHANGED <<emitted, threadVars, socketVars, clientVars>>
    BY <1>7 DEF AcceptFails, Start, Stop, DropDaemon, DropCalls
  <2>. QED BY <1>1, <1>2, <1>3, <2>1, DueElsewhere
<1>. QED BY <1>4, <1>5, <1>6, <1>7 DEF Next, Loop

(* The places of an answer, one by one.                                    *)
LEMMA PlaceFacts ==
  ASSUME NEW c \in Clients, NEW p, out[c] \in Seq(Lines)
  PROVE p \in Places(c) <=>
          \/ p = <<"sent", 0>> /\ line[c] \notin {None, "blank"}
          \/ p = <<"taken", 0>> /\ pc[c] = "calling"
          \/ p = <<"asked", 0>> /\ InChannel(c)
          \/ p = <<"dropped", 0>> /\ pc[c] = "waiting" /\ ~InChannel(c) /\ reply[c] = None
          \/ p = <<"answered", 0>> /\ reply[c] # None
          \/ \E i \in 1..Len(out[c]) : p = <<"written", i>> /\ out[c][i].is \in Answers
<1> DEFINE early == {"sent", "taken", "asked", "dropped", "answered"}
           At(q) == CASE q[1] = "sent" -> line[c] \notin {None, "blank"}
                      [] q[1] = "taken" -> pc[c] = "calling"
                      [] q[1] = "asked" -> InChannel(c)
                      [] q[1] = "dropped" -> pc[c] = "waiting" /\ ~InChannel(c) /\ reply[c] = None
                      [] q[1] = "answered" -> reply[c] # None
<1>1. DOMAIN out[c] = 1..Len(out[c])
  OBVIOUS
<1>2. p \in Places(c) <=>
        \/ p \in early \X {0} /\ At(p)
        \/ p \in {"written"} \X DOMAIN out[c] /\ out[c][p[2]].is \in Answers
  BY DEF Places
<1>3. p \in early \X {0} <=> \E w \in early : p = <<w, 0>>
  OBVIOUS
<1>4. p \in {"written"} \X DOMAIN out[c] <=> \E i \in 1..Len(out[c]) : p = <<"written", i>>
  BY <1>1
<1>5. /\ At(<<"sent", 0>>) <=> line[c] \notin {None, "blank"}
      /\ At(<<"taken", 0>>) <=> pc[c] = "calling"
      /\ At(<<"asked", 0>>) <=> InChannel(c)
      /\ At(<<"dropped", 0>>) <=> pc[c] = "waiting" /\ ~InChannel(c) /\ reply[c] = None
      /\ At(<<"answered", 0>>) <=> reply[c] # None
  OBVIOUS
<1> HIDE DEF At
<1>6. p \in early \X {0} /\ At(p) <=>
          \/ p = <<"sent", 0>> /\ line[c] \notin {None, "blank"}
          \/ p = <<"taken", 0>> /\ pc[c] = "calling"
          \/ p = <<"asked", 0>> /\ InChannel(c)
          \/ p = <<"dropped", 0>> /\ pc[c] = "waiting" /\ ~InChannel(c) /\ reply[c] = None
          \/ p = <<"answered", 0>> /\ reply[c] # None
  BY <1>3, <1>5
<1>7. p \in {"written"} \X DOMAIN out[c] /\ out[c][p[2]].is \in Answers <=>
          \E i \in 1..Len(out[c]) : p = <<"written", i>> /\ out[c][i].is \in Answers
  BY <1>4
<1>. QED BY <1>2, <1>6, <1>7

(* The places of an answer exclude each other, and what is due is in one.  *)
LEMMA OnePlace ==
  ASSUME StreamInv, DueInv
  PROVE OneAnswerEach
<1> SUFFICES ASSUME NEW c \in Clients, client[c] # "left"
             PROVE /\ Alive /\ client[c] = "asking" => \E p \in Places(c) : Places(c) = {p}
                   /\ Alive /\ client[c] \in {"idle", "listening"} => Places(c) = {}
                   /\ client[c] = "listening" => asked[c] <= view[c]
  BY DEF OneAnswerEach
<1>1. /\ Due(c) /\ Turn(c) /\ out[c] \in Seq(Lines)
      /\ reply[c] # None => pc[c] \in {"waiting", "replying"}
      /\ pc[c] = "replying" => reply[c] # None
      /\ InChannel(c) => pc[c] = "waiting" /\ reply[c] = None
  BY DueKnown DEF StreamInv, ChannelInv, InChannel
<1>2. client[c] = "listening" => asked[c] <= view[c]
  BY <1>1 DEF Due, Turn
<1>3. /\ pc[c] \in {"calling", "waiting", "replying"} => client[c] = "asking" /\ out[c] = <<>>
      /\ pc[c] \in {"calling", "waiting", "replying"} => line[c] = None
      /\ line[c] \notin {None, "blank"} =>
           pc[c] \in {"off", "reading", "closed"} /\ out[c] = <<>>
  BY <1>1 DEF Turn
<1>4. /\ out[c] = <<>> => \A i \in 1..Len(out[c]) : FALSE
      /\ \A i \in 1..Len(out[c]) : out[c][i].is \in Answers => client[c] = "asking" /\ i = 1
  BY <1>1, EmptyFacts DEF Due
<1>5. ASSUME NEW q, q \in Places(c)
      PROVE \/ q = <<"sent", 0>> /\ line[c] \notin {None, "blank"}
            \/ q = <<"taken", 0>> /\ pc[c] = "calling"
            \/ q = <<"asked", 0>> /\ InChannel(c)
            \/ q = <<"dropped", 0>> /\ pc[c] = "waiting" /\ ~InChannel(c) /\ reply[c] = None
            \/ q = <<"answered", 0>> /\ reply[c] # None
            \/ q = <<"written", 1>> /\ out[c] # <<>> /\ client[c] = "asking"
  <2>1. ASSUME NEW i \in 1..Len(out[c]), q = <<"written", i>>, out[c][i].is \in Answers
        PROVE q = <<"written", 1>> /\ out[c] # <<>> /\ client[c] = "asking"
    BY <1>4, <2>1
  <2>2. CASE \E i \in 1..Len(out[c]) : q = <<"written", i>> /\ out[c][i].is \in Answers
    BY <2>1, <2>2
  <2>3. CASE ~\E i \in 1..Len(out[c]) : q = <<"written", i>> /\ out[c][i].is \in Answers
    BY <1>1, <1>5, <2>3, PlaceFacts
  <2>. QED BY <2>2, <2>3
<1>6. CASE client[c] \in {"idle", "listening"}
  <2>1. line[c] \in {None, "blank"}
    BY <1>1, <1>6 DEF Turn
  <2>2. pc[c] \notin {"calling", "waiting", "replying"} /\ reply[c] = None /\ ~InChannel(c)
    BY <1>1, <1>3, <1>6
  <2>3. ASSUME NEW p PROVE p \notin Places(c)
    BY <1>5, <1>6, <2>1, <2>2
  <2>4. Places(c) = {}
    BY <2>3
  <2>. QED BY <1>2, <1>6, <2>4
<1>7. ASSUME Alive, client[c] = "asking" PROVE \E q \in Places(c) : Places(c) = {q}
  <2>1. ASSUME NEW p, p \in Places(c), \A q : q \in Places(c) => q = p
        PROVE \E q \in Places(c) : Places(c) = {q}
    BY <2>1
  <2>2. CASE line[c] \notin {None, "blank"}
    <3>1. pc[c] \notin {"calling", "waiting", "replying"} /\ reply[c] = None /\ ~InChannel(c)
      BY <1>1, <1>3, <2>2
    <3>2. <<"sent", 0>> \in Places(c)
      BY <1>1, <2>2, PlaceFacts
    <3>3. ASSUME NEW q, q \in Places(c) PROVE q = <<"sent", 0>>
      BY <1>3, <1>5, <2>2, <3>1, <3>3
    <3>. QED BY <2>1, <3>2, <3>3
  <2>3. CASE pc[c] = "calling"
    <3>1. reply[c] = None /\ ~InChannel(c) /\ line[c] = None /\ out[c] = <<>>
      BY <1>1, <1>3, <2>3
    <3>2. <<"taken", 0>> \in Places(c)
      BY <1>1, <2>3, PlaceFacts
    <3>3. ASSUME NEW q, q \in Places(c) PROVE q = <<"taken", 0>>
      BY <1>5, <2>3, <3>1, <3>3
    <3>. QED BY <2>1, <3>2, <3>3
  <2>4. CASE pc[c] \in {"waiting", "replying"}
    <3>1. line[c] = None /\ out[c] = <<>> /\ pc[c] # "calling"
      BY <1>3, <2>4
    <3>2. CASE InChannel(c)
      <4>1. <<"asked", 0>> \in Places(c)
        BY <1>1, <3>2, PlaceFacts
      <4>2. ASSUME NEW q, q \in Places(c) PROVE q = <<"asked", 0>>
        BY <1>1, <1>5, <3>1, <3>2, <4>2
      <4>. QED BY <2>1, <4>1, <4>2
    <3>3. CASE ~InChannel(c) /\ reply[c] = None
      <4>1. <<"dropped", 0>> \in Places(c)
        BY <1>1, <2>4, <3>3, PlaceFacts
      <4>2. ASSUME NEW q, q \in Places(c) PROVE q = <<"dropped", 0>>
        BY <1>5, <3>1, <3>3, <4>2
      <4>. QED BY <2>1, <4>1, <4>2
    <3>4. CASE reply[c] # None
      <4>1. <<"answered", 0>> \in Places(c)
        BY <1>1, <3>4, PlaceFacts
      <4>2. ASSUME NEW q, q \in Places(c) PROVE q = <<"answered", 0>>
        BY <1>1, <1>5, <3>1, <3>4, <4>2
      <4>. QED BY <2>1, <4>1, <4>2
    <3>. QED BY <3>2, <3>3, <3>4
  <2>5. CASE line[c] \in {None, "blank"} /\ pc[c] \notin {"calling", "waiting", "replying"}
    <3>1. reply[c] = None /\ ~InChannel(c)
      BY <1>1, <2>5
    <3>2. out[c] # <<>> /\ out[c][1].is \in Answers
      BY <1>1, <1>7, <2>5 DEF Due
    <3>3. 1 \in 1..Len(out[c])
      BY <1>1, <3>2, LenFacts
    <3>4. <<"written", 1>> \in Places(c)
      BY <1>1, <3>2, <3>3, PlaceFacts
    <3>5. ASSUME NEW q, q \in Places(c) PROVE q = <<"written", 1>>
      BY <1>5, <2>5, <3>1, <3>5
    <3>. QED BY <2>1, <3>4, <3>5
  <2>. QED BY <2>2, <2>3, <2>4, <2>5
<1>. QED BY <1>2, <1>6, <1>7

(* What is due stays so in every reachable state.                          *)
THEOREM DueInvariance == Spec => []DueInv
<1>1. Init => DueInv
  <2> SUFFICES ASSUME Init, NEW c \in Clients PROVE Due(c)
    BY DEF DueInv
  <2>1. /\ client[c] = "away" /\ out[c] = <<>> /\ queue[c] = <<>> /\ reply[c] = None
        /\ view[c] = Off /\ asked[c] = 0 /\ emitted = 0
    BY DEF Init
  <2>. QED BY <2>1, EmptyFacts DEF Due, Accepted
<1>2. DueInv /\ UNCHANGED vars => DueInv'
  BY DEF vars, DueInv, Due, Accepted, Alive
<1>3. StreamInv /\ DueInv /\ [Next]_vars => DueInv'
  BY <1>2, NextDue
<1>. QED BY <1>1, <1>3, StreamInvariance, PTL DEF Spec

(* A request that is not blank has one answer: it is in one place from the *)
(* socket to the loop and back, whatever ends, fails or is refused in      *)
(* between, and nobody who did not ask finds one (server.rs `answer`,      *)
(* bridge.rs `call`); and a description is no older than its request.      *)
THEOREM OneAnswer == Spec => []OneAnswerEach
<1>1. StreamInv /\ DueInv => OneAnswerEach
  BY OnePlace
<1>. QED BY <1>1, StreamInvariance, DueInvariance, PTL
=============================================================================
