------------------------------ MODULE EventLines ------------------------------
(***************************************************************************)
(* Reading a compositor's events one line at a time (backends/lines.rs).   *)
(*                                                                         *)
(* A read waits at most POLL (one second) for more bytes and then comes    *)
(* back empty-handed, so that the thread can look whether the daemon is    *)
(* still running.  What a read had taken by then is kept in `partial` and  *)
(* the next one goes on from there.                                        *)
(*                                                                         *)
(* `read_line` is the standard library's: it takes bytes up to and         *)
(* including the next line end, and appends them to the String only when   *)
(* what this one call took is valid UTF-8.  Otherwise it takes its own     *)
(* bytes back off the String, and says that the text is invalid unless the *)
(* read had failed already, in which case it repeats that failure.         *)
(***************************************************************************)
EXTENDS Naturals, Sequences

CONSTANTS
    Text        \* what the compositor writes: the bytes of each line but its end

(* A byte is a character, or the first or the second of a wide one.  Every *)
(* first has its second, and every second its first.                       *)
Bytes == {"one", "lead", "rest"}

Valid(s) ==
    \A k \in DOMAIN s :
        /\ s[k].part = "lead" => k < Len(s) /\ s[k + 1].part = "rest"
        /\ s[k].part = "rest" => k > 1 /\ s[k - 1].part = "lead"

(* The lines written.  A byte knows which line it is of, so that a line    *)
(* handed on can be compared with those.                                   *)
Lines == [i \in 1..Len(Text) |->
              [k \in 1..Len(Text[i]) + 1 |->
                   [of |-> i, part |-> IF k <= Len(Text[i]) THEN Text[i][k] ELSE "end"]]]

ASSUME TextAssumption == Text \in Seq(Seq(Bytes)) /\ \A i \in DOMAIN Lines : Valid(Lines[i])

VARIABLES
    arrived,    \* how much of the text has reached this end
    hung,       \* the compositor has closed its end
    taken,      \* how much of that the reader has taken off the socket
    calling,    \* a call of next_line is under way
    fresh,      \* what this call has taken
    partial,    \* the line so far, from calls that gave up inside it
    got,        \* the lines handed on
    status,     \* "open" until a call fails: "ended" or "invalid"
    split       \* history: a call gave up inside a character

readVars == <<arrived, hung, taken, calling, fresh, partial, got, status, split>>

-----------------------------------------------------------------------------
(* A place in the text: so many lines before it, so many bytes of the next.*)
Start == [line |-> 0, byte |-> 0]
End   == [line |-> Len(Text), byte |-> 0]

Byte(p) == Lines[p.line + 1][p.byte + 1]
After(p) == IF Byte(p).part = "end" THEN [line |-> p.line + 1, byte |-> 0]
                                    ELSE [p EXCEPT !.byte = @ + 1]

-----------------------------------------------------------------------------
ReadInit ==
    /\ arrived = Start /\ hung = FALSE /\ taken = Start
    /\ calling = FALSE /\ fresh = << >> /\ partial = << >>
    /\ got = << >> /\ status = "open" /\ split = FALSE

(* The compositor's side: bytes arrive as they happen to, and the          *)
(* connection may close anywhere.                                          *)
Arrive ==
    /\ ~hung /\ arrived # End
    /\ arrived' = After(arrived)
    /\ UNCHANGED <<hung, taken, calling, fresh, partial, got, status, split>>

HangUp ==
    /\ ~hung
    /\ hung' = TRUE
    /\ UNCHANGED <<arrived, taken, calling, fresh, partial, got, status, split>>

-----------------------------------------------------------------------------
Call ==
    /\ status = "open" /\ ~calling
    /\ calling' = TRUE /\ fresh' = << >>
    /\ UNCHANGED <<arrived, hung, taken, partial, got, status, split>>

(* The call comes back with a line: what it took, after what earlier ones  *)
(* held, unless what it took is not text.                                  *)
Deliver(bytes) ==
    IF Valid(bytes)
    THEN /\ got' = Append(got, partial \o bytes)
         /\ partial' = << >>
         /\ UNCHANGED status
    ELSE /\ status' = "invalid"
         /\ UNCHANGED <<got, partial>>

Returned == calling' = FALSE /\ fresh' = << >>

(* One more byte off the socket: the line's end ends the call.             *)
Take ==
    /\ calling /\ taken # arrived
    /\ taken' = After(taken)
    /\ LET bytes == Append(fresh, Byte(taken)) IN
       IF Byte(taken).part = "end"
       THEN Deliver(bytes) /\ Returned
       ELSE fresh' = bytes /\ UNCHANGED <<calling, partial, got, status>>
    /\ UNCHANGED <<arrived, hung, split>>

HeldNever(bytes) == partial

(* The wait elapsed: what this call took joins the partial line if it is   *)
(* text, and is gone otherwise.                                            *)
Held(bytes) == IF Valid(bytes) THEN partial \o bytes ELSE partial

TimeOut ==
    /\ calling /\ taken = arrived /\ ~hung
    /\ partial' = Held(fresh)
    /\ split' = (split \/ ~Valid(fresh))
    /\ Returned
    /\ UNCHANGED <<arrived, hung, taken, got, status>>

(* The other end has closed: nothing at all is the end of the stream, and  *)
(* anything else is a line without its end.                                *)
EndOfStream ==
    /\ calling /\ taken = arrived /\ hung
    /\ IF fresh = << >>
       THEN status' = "ended" /\ UNCHANGED <<got, partial>>
       ELSE Deliver(fresh)
    /\ Returned
    /\ UNCHANGED <<arrived, hung, taken, split>>

ReadNext == Arrive \/ HangUp \/ Call \/ Take \/ TimeOut \/ EndOfStream

ReadSpec == ReadInit /\ [][ReadNext]_readVars

(* The thread keeps calling, and a read that has something to take or to   *)
(* report comes back.  Nothing is assumed of when bytes arrive.            *)
ReadFairness == WF_readVars(Call) /\ WF_readVars(Take) /\ WF_readVars(EndOfStream)

FairReadSpec == ReadSpec /\ ReadFairness

-----------------------------------------------------------------------------
Wire == [of : 1..Len(Text), part : Bytes \union {"end"}]
Points == {p \in [line : 0..Len(Text), byte : Nat] :
              IF p.line = Len(Text) THEN p.byte = 0 ELSE p.byte <= Len(Text[p.line + 1])}
Behind(p, q) == p.line < q.line \/ (p.line = q.line /\ p.byte <= q.byte)

(* Every variable has its type.                                           *)
ReadTypeOK ==
    /\ arrived \in Points /\ taken \in Points /\ Behind(taken, arrived)
    /\ hung \in BOOLEAN /\ calling \in BOOLEAN /\ split \in BOOLEAN
    /\ status \in {"open", "ended", "invalid"}
    /\ fresh \in Seq(Wire) /\ partial \in Seq(Wire) /\ got \in Seq(Seq(Wire))
    /\ Len(got) <= Len(Text)

(* What was handed on is what was written, line by line and in order; only *)
(* a connection that closed inside a line may end in part of one.          *)
Whole ==
    \A k \in DOMAIN got :
        /\ k \in DOMAIN Lines
        /\ got[k] = Lines[k] \/ (hung /\ k = Len(got) /\ Len(got[k]) <= Len(Lines[k]))
        /\ \A b \in DOMAIN got[k] : got[k][b] = Lines[k][b]

(* Damage never spreads: whatever was lost, the bytes handed on as one     *)
(* line are bytes of one line, and lines keep their order (lines.rs:19-22).*)
NeverJoined ==
    /\ \A k \in DOMAIN got : \A a, b \in DOMAIN got[k] : got[k][a].of = got[k][b].of
    /\ \A j, k \in DOMAIN got : j < k => got[j][1].of < got[k][1].of

(* However the reads were cut, a line comes back whole, unless a read gave *)
(* up inside a character (lines.rs:45-52); and then too no two are joined. *)
WholeUnlessSplit == (~split => Whole) /\ NeverJoined

(* As a step of the code keeps them.  What is held is of the line that is  *)
(* being read, and if no read gave up inside a character then it is all of *)
(* it, and the lines before it are whole:                                  *)
Reading ==
    /\ \A b \in DOMAIN partial : partial[b].of = taken.line + 1
    /\ \A b \in DOMAIN fresh : fresh[b].of = taken.line + 1
    /\ Len(partial) + Len(fresh) <= taken.byte
    /\ ~split =>
         /\ \A k \in DOMAIN got : got[k] = Lines[k]
         /\ Len(partial) + Len(fresh) = taken.byte
         /\ \A b \in DOMAIN partial : partial[b] = Lines[taken.line + 1][b]
         /\ \A b \in DOMAIN fresh : fresh[b] = Lines[taken.line + 1][Len(partial) + b]

(* a line is handed on when its end was taken, or what there was of it     *)
(* when the other end closed, and after that only the end is left.         *)
ReadInv ==
    /\ ReadTypeOK /\ (~split => Whole)
    /\ calling => status = "open"
    /\ fresh # << >> => calling
    /\ \A k \in DOMAIN got : got[k] # << >> /\ \A b \in DOMAIN got[k] : got[k][b].of = k
    /\ status = "open" =>
         \/ Len(got) = taken.line /\ Reading
         \/ /\ hung /\ taken = arrived /\ fresh = << >> /\ partial = << >>
            /\ Len(got) = taken.line + 1

(* Once everything has arrived, every line is handed on: a read that gave  *)
(* up costs neither the line nor the connection, unless it gave up inside  *)
(* a character.                                                            *)
AllHandedOn ==
    [](arrived = End => <>(Len(got) = Len(Text) \/ hung \/ split))

(* A connection the other end closed is reported and not waited on.        *)
EndReported == hung ~> status # "open"
=============================================================================
