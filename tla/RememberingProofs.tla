-------------------------- MODULE RememberingProofs --------------------------
(***************************************************************************)
(* Proofs about Remembering, for any outputs, sizes, number of wallpapers  *)
(* set and length of the decode queue.  Nothing is assumed about NoPic: an *)
(* entry that equals it is an empty slot.                                  *)
(***************************************************************************)
EXTENDS Remembering, TLAPS

USE DEF recordVars, fileVars, threadVars, historyVars

Slot == Entries \cup {NoPic}

-----------------------------------------------------------------------------
(* An address finds what the record has there. *)
LEMMA AtType ==
  ASSUME NEW slots \in SlotsOf(Slot), NEW at \in Addresses
  PROVE At(slots, at) \in Slot
BY DEF SlotsOf, At, Addresses

(* Two records that agree at every address are the same one. *)
LEMMA SameSlots ==
  ASSUME NEW x \in SlotsOf(Slot), NEW y \in SlotsOf(Slot),
         \A at \in Addresses : At(x, at) = At(y, at)
  PROVE x = y
<1>1. x.all = y.all
  BY DEF Addresses, At
<1>2. \A o \in Outputs : x.own[o] = y.own[o]
  BY AllAssumption DEF Addresses, At
<1>3. x.own = y.own
  BY <1>2 DEF SlotsOf
<1>. QED BY <1>1, <1>3 DEF SlotsOf

(* The empty record has nothing anywhere. *)
LEMMA EmptyFacts ==
  /\ Empty \in SlotsOf(Slot)
  /\ Slots(Empty) = {}
  /\ IdentsIn(Empty) = {}
BY DEF Empty, SlotsOf, Slots, At, Addresses, IdentsIn, Slot

(* Putting a wallpaper in a slot changes that slot, or empties the others  *)
(* when it is put in the broadcast one.                                    *)
LEMMA PutFacts ==
  ASSUME NEW slots \in SlotsOf(Slot), NEW at \in Addresses, NEW pic \in Slot
  PROVE /\ Put(slots, at, pic) \in SlotsOf(Slot)
        /\ At(Put(slots, at, pic), at) = pic
        /\ \A b \in Addresses \ {at} :
             At(Put(slots, at, pic), b) \in {NoPic, At(slots, b)}
<1>1. NoPic \in Slot
  BY DEF Slot
<1>2. CASE at = All
  BY <1>1, <1>2, AllAssumption DEF Put, At, SlotsOf, Addresses
<1>3. CASE at # All
  <2>1. at \in Outputs
    BY <1>3 DEF Addresses
  <2>2. Put(slots, at, pic) = [all |-> slots.all, own |-> [slots.own EXCEPT ![at] = pic]]
    BY <1>3 DEF Put, SlotsOf
  <2>. QED BY <1>3, <2>1, <2>2, AllAssumption DEF At, SlotsOf, Addresses
<1>. QED BY <1>2, <1>3

(* Noting the size of a copy leaves every request where it was. *)
LEMMA WithAskedFacts ==
  ASSUME NEW slots \in SlotsOf(Slot), NEW epoch \in Nat, NEW asked \in Sizes
  PROVE /\ WithAsked(slots, epoch, asked) \in SlotsOf(Slot)
        /\ \A at \in Addresses :
             LET old == At(slots, at)
                 new == At(WithAsked(slots, epoch, asked), at)
             IN IF old # NoPic /\ old.epoch = epoch
                THEN /\ old \in Entries
                     /\ new = [old EXCEPT !.asked = asked]
                     /\ new \in Entries
                     /\ new.epoch = old.epoch /\ new.uid = old.uid
                ELSE new = old
<1> DEFINE Noted(entry) == IF entry # NoPic /\ entry.epoch = epoch
                           THEN [entry EXCEPT !.asked = asked] ELSE entry
<1>1. \A e \in Slot : /\ Noted(e) \in Slot
                      /\ e # NoPic /\ e.epoch = epoch =>
                           /\ e \in Entries /\ Noted(e) \in Entries
                           /\ Noted(e).epoch = e.epoch /\ Noted(e).uid = e.uid
  BY DEF Slot, Entries
<1>2. WithAsked(slots, epoch, asked) =
        [all |-> Noted(slots.all), own |-> [o \in Outputs |-> Noted(slots.own[o])]]
  BY DEF WithAsked
<1>3. slots.all \in Slot /\ \A o \in Outputs : slots.own[o] \in Slot
  BY DEF SlotsOf
<1>4. WithAsked(slots, epoch, asked) \in SlotsOf(Slot)
  <2> HIDE DEF Noted
  <2>. QED BY <1>1, <1>2, <1>3 DEF SlotsOf
<1>5. ASSUME NEW at \in Addresses
      PROVE At(WithAsked(slots, epoch, asked), at) = Noted(At(slots, at))
  <2> HIDE DEF Noted
  <2>. QED BY <1>2, AllAssumption DEF At, Addresses
<1>6. \A at \in Addresses : At(slots, at) \in Slot
  BY AtType
<1>. QED BY <1>1, <1>4, <1>5, <1>6

(* What is recorded in a slot is an entry. *)
LEMMA EntryType ==
  ASSUME NEW slots \in SlotsOf(Slot), NEW at \in Slots(slots)
  PROVE /\ at \in Addresses
        /\ At(slots, at) \in Entries
        /\ At(slots, at).epoch \in Nat /\ At(slots, at).uid \in Nat
        /\ At(slots, at).asked \in Sizes \cup {None}
<1>1. at \in Addresses /\ At(slots, at) # NoPic
  BY DEF Slots
<1>2. At(slots, at) \in Entries
  BY <1>1, AtType DEF Slot
<1>. QED BY <1>1, <1>2 DEF Entries

(* What a queue holds has the type of its elements. *)
LEMMA ElementType ==
  ASSUME NEW S, NEW s \in Seq(S)
  PROVE \A i \in 1..Len(s) : s[i] \in S
OBVIOUS

(* What is left of a queue, and what was first in it. *)
LEMMA TailFacts ==
  ASSUME NEW S, NEW s \in Seq(S), s # <<>>
  PROVE /\ Tail(s) \in Seq(S) /\ Head(s) \in S
        /\ 1 \in 1..Len(s) /\ Head(s) = s[1]
        /\ \A i \in 1..Len(Tail(s)) : i + 1 \in 1..Len(s) /\ Tail(s)[i] = s[i + 1]
OBVIOUS

(* A queue with one more at its end. *)
LEMMA AppendFacts ==
  ASSUME NEW S, NEW s \in Seq(S), NEW e \in S
  PROVE /\ Append(s, e) \in Seq(S)
        /\ \A i \in 1..Len(Append(s, e)) :
             \/ i \in 1..Len(s) /\ Append(s, e)[i] = s[i]
             \/ Append(s, e)[i] = e
OBVIOUS

-----------------------------------------------------------------------------
(* The first job, once the thread has one. *)
LEMMA JobFacts ==
  ASSUME TypeOK, jobs # <<>>
  PROVE /\ Job \in Jobs /\ 1 \in 1..Len(jobs) /\ Job = jobs[1]
        /\ Job.slot \in Addresses /\ Job.epoch \in Nat /\ Job.uid \in Nat
        /\ Job.size \in Sizes
        /\ NameIn(Job) \in Names
        /\ Ident(Job.slot, Job.epoch, Job.uid) \in Idents
<1>1. jobs \in Seq(Jobs)
  BY DEF TypeOK
<1>2. Job \in Jobs /\ 1 \in 1..Len(jobs) /\ Job = jobs[1]
  BY <1>1, TailFacts DEF Job
<1>3. Ident(Job.slot, Job.epoch, Job.uid) \in Idents
  BY <1>2 DEF Idents, JobIdents
<1>. QED BY <1>2, <1>3 DEF Jobs, Names, NameIn, NameOf

(* Every step keeps the types. *)
LEMMA TypeStep ==
  ASSUME TypeOK, [Next]_vars
  PROVE TypeOK'
<1>1. /\ mem \in SlotsOf(Slot) /\ disk \in SlotsOf(Slot)
      /\ NoPic \in Slot
      /\ jobs \in Seq(Jobs)
      /\ done \in Seq([epoch: Nat, size: Sizes])
  BY DEF TypeOK, Slot
<1>2. CASE Open
  <2>1. \A e \in Epochs(disk) : e \in Nat
    BY <1>1, EntryType DEF Epochs
  <2>2. next' \in {1} \cup {e + 1 : e \in Epochs(disk)}
    BY <1>2 DEF Open
  <2>3. next' \in Nat
    BY <2>1, <2>2
  <2>. QED BY <1>2, <2>3 DEF Open, TypeOK
<1>3. CASE Kill
  <2>1. Empty \in SlotsOf(Entries \cup {NoPic})
    BY EmptyFacts DEF Slot
  <2>2. mem' = Empty /\ jobs' = <<>> /\ done' = <<>>
    BY <1>3 DEF Kill
  <2>3. jobs' \in Seq(Jobs) /\ done' \in Seq([epoch: Nat, size: Sizes])
    BY <2>2
  <2>. QED BY <1>3, <2>1, <2>2, <2>3 DEF Kill, TypeOK
<1>4. CASE SetTransient
  BY <1>4 DEF SetTransient, TypeOK
<1>5. ASSUME NEW at \in Addresses, Set(at)
      PROVE TypeOK'
  <2>1. [epoch |-> next, uid |-> born + 1, asked |-> None] \in Slot
    BY DEF TypeOK, Slot, Entries
  <2>2. mem' \in SlotsOf(Slot)
    BY <1>1, <1>5, <2>1, PutFacts DEF Set
  <2>. QED BY <1>5, <2>2 DEF Set, TypeOK, Slot
<1>6. ASSUME NEW at \in Addresses, Clear(at)
      PROVE TypeOK'
  <2>1. mem' \in SlotsOf(Slot)
    BY <1>1, <1>6, PutFacts DEF Clear
  <2>. QED BY <1>6, <2>1 DEF Clear, TypeOK, Slot
<1>7. ASSUME NEW at \in Addresses, NEW s \in Sizes, Request(at, s)
      PROVE TypeOK'
  <2>1. at \in Slots(mem)
    BY <1>7 DEF Request, Slots
  <2>2. [slot |-> at, epoch |-> At(mem, at).epoch, uid |-> At(mem, at).uid,
         size |-> s, asked |-> At(mem, at).asked] \in Jobs
    BY <1>1, <2>1, EntryType DEF Jobs
  <2>3. jobs' \in Seq(Jobs)
    BY <1>1, <1>7, <2>2, AppendFacts DEF Request
  <2>. QED BY <1>7, <2>3 DEF Request, TypeOK
<1>8. CASE Stored
  <2>1. Head(done) \in [epoch: Nat, size: Sizes] /\ done' \in Seq([epoch: Nat, size: Sizes])
    BY <1>1, <1>8, TailFacts DEF Stored
  <2>2. mem' \in SlotsOf(Slot)
    BY <1>1, <1>8, <2>1, WithAskedFacts DEF Stored
  <2>. QED BY <1>8, <2>1, <2>2 DEF Stored, TypeOK, Slot
<1>9. CASE SaveState
  BY <1>9 DEF SaveState, TypeOK
<1>10. CASE SaveFails
  BY <1>10 DEF SaveFails, TypeOK
<1>11. CASE Sweep
  BY <1>11 DEF Sweep, TypeOK
<1>12. CASE ServeCopy
  <2>1. jobs' \in Seq(Jobs)
    BY <1>1, <1>12, TailFacts DEF ServeCopy, Working
  <2>. QED BY <1>12, <2>1 DEF ServeCopy, TypeOK
<1>13. CASE DecodeSource
  <2>1. NameIn(Job) \in Names
    BY <1>13, JobFacts DEF DecodeSource, Working
  <2>. QED BY <1>13, <2>1 DEF DecodeSource, TypeOK
<1>14. CASE DecodeOrWriteFails
  <2>1. jobs' \in Seq(Jobs)
    BY <1>1, <1>14, TailFacts DEF DecodeOrWriteFails, Working
  <2>. QED BY <1>14, <2>1 DEF DecodeOrWriteFails, TypeOK
<1>15. CASE FinishCopy
  <2>1. jobs' \in Seq(Jobs)
    BY <1>1, <1>15, TailFacts DEF FinishCopy, Working
  <2>2. /\ Job.slot \in Addresses /\ Job.epoch \in Nat
        /\ Job.uid \in Nat /\ Job.size \in Sizes
    BY <1>15, JobFacts DEF FinishCopy, Working
  <2>3. done' \in Seq([epoch: Nat, size: Sizes])
    BY <1>1, <1>15, <2>2, AppendFacts DEF FinishCopy
  <2>4. copies' \in SUBSET Copies
    BY <1>15, <2>2 DEF FinishCopy, TypeOK, Copies
  <2>. QED BY <1>15, <2>1, <2>3, <2>4 DEF FinishCopy, TypeOK
<1>16. CASE UNCHANGED vars
  BY <1>16 DEF vars, TypeOK
<1>. QED
  BY <1>2, <1>3, <1>4, <1>5, <1>6, <1>7, <1>8, <1>9, <1>10, <1>11, <1>12, <1>13,
     <1>14, <1>15, <1>16 DEF Next, Main, Thread

(* The initial states have their types. *)
LEMMA InitType ==
  ASSUME Init
  PROVE TypeOK
<1>1. mem \in SlotsOf(Slot) /\ disk \in SlotsOf(Slot)
  BY EmptyFacts DEF Init
<1>2. jobs \in Seq(Jobs) /\ done \in Seq([epoch: Nat, size: Sizes])
  <2>1. jobs = <<>> /\ done = <<>>
    BY DEF Init
  <2>. QED BY <2>1
<1>3. /\ copies \in SUBSET Copies /\ pending \in SUBSET Names
      /\ writing \in BOOLEAN /\ unsaved \in BOOLEAN
      /\ next \in Nat /\ born \in Nat
      /\ main \in {"down", "idle", "saving", "sweeping"}
  BY DEF Init
<1>. QED BY <1>1, <1>2, <1>3 DEF TypeOK, Slot

(* Every variable has its type, in every reachable state. *)
THEOREM TypeCorrect == Spec => []TypeOK
BY InitType, TypeStep, PTL DEF Spec

-----------------------------------------------------------------------------
(* The requests a record names after one slot of it was set or cleared. *)
LEMMA PutIdents ==
  ASSUME NEW slots \in SlotsOf(Slot), NEW at \in Addresses, NEW pic \in Slot
  PROVE \A x \in IdentsIn(Put(slots, at, pic)) :
          \/ x \in IdentsIn(slots)
          \/ pic # NoPic /\ x = Ident(at, pic.epoch, pic.uid)
<1> DEFINE put == Put(slots, at, pic)
<1> SUFFICES ASSUME NEW b \in Slots(put)
             PROVE \/ Ident(b, At(put, b).epoch, At(put, b).uid) \in IdentsIn(slots)
                   \/ /\ pic # NoPic
                      /\ Ident(b, At(put, b).epoch, At(put, b).uid) =
                           Ident(at, pic.epoch, pic.uid)
  BY DEF IdentsIn
<1>1. b \in Addresses /\ At(put, b) # NoPic
  BY DEF Slots
<1>2. At(put, at) = pic /\ \A c \in Addresses \ {at} : At(put, c) \in {NoPic, At(slots, c)}
  BY PutFacts
<1> HIDE DEF put
<1>3. CASE b = at
  BY <1>1, <1>2, <1>3
<1>4. CASE b # at
  <2>1. At(put, b) = At(slots, b) /\ b \in Slots(slots)
    BY <1>1, <1>2, <1>4 DEF Slots
  <2>. QED BY <2>1 DEF IdentsIn
<1>. QED BY <1>3, <1>4

(* Noting the size of a copy adds no request. *)
LEMMA WithAskedIdents ==
  ASSUME NEW slots \in SlotsOf(Slot), NEW epoch \in Nat, NEW asked \in Sizes
  PROVE IdentsIn(WithAsked(slots, epoch, asked)) \subseteq IdentsIn(slots)
<1> DEFINE noted == WithAsked(slots, epoch, asked)
<1> SUFFICES ASSUME NEW b \in Slots(noted)
             PROVE Ident(b, At(noted, b).epoch, At(noted, b).uid) \in IdentsIn(slots)
  BY DEF IdentsIn
<1>1. b \in Addresses /\ At(noted, b) # NoPic
  BY DEF Slots
<1>2. /\ At(slots, b) # NoPic
      /\ At(noted, b).epoch = At(slots, b).epoch /\ At(noted, b).uid = At(slots, b).uid
  <2>1. IF At(slots, b) # NoPic /\ At(slots, b).epoch = epoch
        THEN At(noted, b).epoch = At(slots, b).epoch /\ At(noted, b).uid = At(slots, b).uid
        ELSE At(noted, b) = At(slots, b)
    BY <1>1, WithAskedFacts
  <2> HIDE DEF noted
  <2>. QED BY <1>1, <2>1
<1> HIDE DEF noted
<1>3. b \in Slots(slots)
  BY <1>1, <1>2 DEF Slots
<1>. QED BY <1>2, <1>3 DEF IdentsIn

(* An epoch on record, or with a job, is a number. *)
LEMMA IdentType ==
  ASSUME TypeOK, NEW x \in Idents
  PROVE x.epoch \in Nat
<1>1. /\ mem \in SlotsOf(Slot) /\ disk \in SlotsOf(Slot)
      /\ jobs \in Seq(Jobs)
  BY DEF TypeOK, Slot
<1>2. ASSUME NEW slots \in SlotsOf(Slot), x \in IdentsIn(slots)
      PROVE x.epoch \in Nat
  BY <1>2, EntryType DEF IdentsIn, Ident
<1>3. ASSUME x \in JobIdents
      PROVE x.epoch \in Nat
  <2>1. \A i \in 1..Len(jobs) : jobs[i] \in Jobs
    BY <1>1
  <2>2. \A j \in Jobs : j.epoch \in Nat
    BY DEF Jobs
  <2>. QED BY <1>3, <2>1, <2>2 DEF JobIdents, Ident
<1>. QED BY <1>1, <1>2, <1>3 DEF Idents

(* A job taken off the queue takes no other with it. *)
LEMMA JobsTaken ==
  ASSUME TypeOK, jobs # <<>>, jobs' = Tail(jobs)
  PROVE JobIdents' \subseteq JobIdents
<1>1. jobs \in Seq(Jobs)
  BY DEF TypeOK
<1>2. \A i \in 1..Len(jobs') : i + 1 \in 1..Len(jobs) /\ jobs'[i] = jobs[i + 1]
  BY <1>1, TailFacts
<1>. QED BY <1>2 DEF JobIdents

(* Only setting a wallpaper makes a request there was not before, and it   *)
(* makes one.                                                              *)
LEMMA IdentsStep ==
  ASSUME TypeOK, [Next]_vars
  PROVE \/ Idents' \subseteq Idents
        \/ \E at \in Addresses :
             Set(at) /\ Idents' \subseteq Idents \cup {Ident(at, next, born + 1)}
<1>1. /\ mem \in SlotsOf(Slot) /\ disk \in SlotsOf(Slot)
      /\ NoPic \in Slot
      /\ jobs \in Seq(Jobs)
      /\ done \in Seq([epoch: Nat, size: Sizes])
  BY DEF TypeOK, Slot
<1>2. CASE UNCHANGED <<mem, disk, jobs>>
  BY <1>2 DEF Idents, JobIdents, IdentsIn, Slots
<1>3. CASE Open
  BY <1>3 DEF Open, Idents, JobIdents
<1>4. CASE Kill
  <2>1. JobIdents' = {}
    BY <1>4 DEF Kill, JobIdents
  <2>2. IdentsIn(mem') = {}
    BY <1>4, EmptyFacts DEF Kill
  <2>. QED BY <1>4, <2>1, <2>2 DEF Kill, Idents
<1>5. ASSUME NEW at \in Addresses, Set(at)
      PROVE Idents' \subseteq Idents \cup {Ident(at, next, born + 1)}
  <2> DEFINE pic == [epoch |-> next, uid |-> born + 1, asked |-> None]
  <2>1. pic \in Slot /\ pic.epoch = next /\ pic.uid = born + 1
    BY DEF TypeOK, Slot, Entries
  <2>2. mem' = Put(mem, at, pic)
    BY <1>5 DEF Set
  <2>3. \A x \in IdentsIn(mem') : x \in IdentsIn(mem) \/ x = Ident(at, next, born + 1)
    <3> HIDE DEF pic
    <3>. QED BY <1>1, <2>1, <2>2, PutIdents
  <2>. QED BY <1>5, <2>3 DEF Set, Idents, JobIdents
<1>6. ASSUME NEW at \in Addresses, Clear(at)
      PROVE Idents' \subseteq Idents
  <2>1. IdentsIn(mem') \subseteq IdentsIn(mem)
    BY <1>1, <1>6, PutIdents DEF Clear
  <2>. QED BY <1>6, <2>1 DEF Clear, Idents, JobIdents
<1>7. ASSUME NEW at \in Addresses, NEW s \in Sizes, Request(at, s)
      PROVE Idents' \subseteq Idents
  <2> DEFINE job == [slot |-> at, epoch |-> At(mem, at).epoch, uid |-> At(mem, at).uid,
                     size |-> s, asked |-> At(mem, at).asked]
  <2>1. at \in Slots(mem)
    BY <1>7 DEF Request, Slots
  <2>2. job \in Jobs
    BY <1>1, <2>1, EntryType DEF Jobs
  <2>3. jobs' = Append(jobs, job)
    BY <1>7 DEF Request
  <2>4. Ident(job.slot, job.epoch, job.uid) \in IdentsIn(mem)
    BY <2>1 DEF IdentsIn
  <2> HIDE DEF job
  <2>5. \A i \in 1..Len(jobs') : \/ i \in 1..Len(jobs) /\ jobs'[i] = jobs[i]
                                 \/ jobs'[i] = job
    BY <1>1, <2>2, <2>3, AppendFacts
  <2>6. \A x \in JobIdents' : x \in JobIdents \/ x \in IdentsIn(mem)
    BY <2>4, <2>5 DEF JobIdents
  <2>. QED BY <1>7, <2>6 DEF Request, Idents
<1>8. CASE Stored
  <2>1. Head(done) \in [epoch: Nat, size: Sizes]
    BY <1>1, <1>8, TailFacts DEF Stored
  <2>2. IdentsIn(mem') \subseteq IdentsIn(mem)
    BY <1>1, <1>8, <2>1, WithAskedIdents DEF Stored
  <2>. QED BY <1>8, <2>2 DEF Stored, Idents, JobIdents
<1>9. CASE SaveState
  BY <1>9 DEF SaveState, Idents, JobIdents
<1>10. CASE Thread /\ ~UNCHANGED jobs
  <2>1. jobs # <<>> /\ jobs' = Tail(jobs) /\ UNCHANGED <<mem, disk>>
    BY <1>10 DEF Thread, Working, ServeCopy, DecodeSource, DecodeOrWriteFails, FinishCopy
  <2>2. JobIdents' \subseteq JobIdents
    BY <2>1, JobsTaken
  <2>. QED BY <2>1, <2>2 DEF Idents
<1>11. CASE Thread /\ UNCHANGED jobs
  <2>1. UNCHANGED <<mem, disk, jobs>>
    BY <1>11 DEF Thread, ServeCopy, DecodeSource, DecodeOrWriteFails, FinishCopy
  <2>. QED BY <1>2, <2>1
<1>12. CASE SetTransient \/ SaveFails \/ Sweep \/ UNCHANGED vars
  <2>1. UNCHANGED <<mem, disk, jobs>>
    BY <1>12 DEF SetTransient, SaveFails, Sweep, vars
  <2>. QED BY <1>2, <2>1
<1>. QED
  BY <1>3, <1>4, <1>5, <1>6, <1>7, <1>8, <1>9, <1>10, <1>11, <1>12 DEF Next, Main

(* An epoch stands for one request, since a new one is above all others. *)
LEMMA EpochsApartStep ==
  ASSUME TypeOK, EpochsApart, EpochsBelow, [Next]_vars
  PROVE EpochsApart'
<1>1. CASE Idents' \subseteq Idents
  BY <1>1 DEF EpochsApart
<1>2. ASSUME NEW at \in Addresses, Set(at),
             Idents' \subseteq Idents \cup {Ident(at, next, born + 1)}
      PROVE EpochsApart'
  <2> DEFINE new == Ident(at, next, born + 1)
  <2>1. new.epoch = next
    BY DEF Ident
  <2>2. \A x \in Idents : x.epoch \in Nat /\ x.epoch < next
    BY <1>2, IdentType DEF Set, EpochsBelow
  <2>3. next \in Nat
    BY DEF TypeOK
  <2>4. \A x \in Idents : x.epoch # new.epoch
    BY <2>1, <2>2, <2>3
  <2> HIDE DEF new
  <2>5. \A x \in Idents' : x \in Idents \/ x = new
    BY <1>2 DEF new
  <2>. QED BY <2>4, <2>5 DEF EpochsApart
<1>. QED BY <1>1, <1>2, IdentsStep

(* The requests of a run that has just begun are those on disk. *)
LEMMA OpenIdents ==
  ASSUME MainInv, Open
  PROVE \A x \in Idents' : x.epoch \in Epochs(disk)
<1>1. jobs' = <<>> /\ mem' = disk /\ disk' = disk
  BY DEF Open, MainInv
<1>2. JobIdents' = {}
  BY <1>1 DEF JobIdents
<1>. QED BY <1>1, <1>2 DEF Idents, IdentsIn, Ident, Epochs

(* The next epoch is above those given out. *)
LEMMA EpochsBelowStep ==
  ASSUME TypeOK, MainInv, EpochsBelow, [Next]_vars
  PROVE EpochsBelow'
<1>1. /\ next \in Nat
      /\ jobs \in Seq(Jobs)
      /\ done \in Seq([epoch: Nat, size: Sizes])
  BY DEF TypeOK
<1>2. \A x \in Idents : x.epoch \in Nat
  BY IdentType
<1>3. \A i \in 1..Len(done) : done[i] \in [epoch: Nat, size: Sizes]
  BY <1>1, ElementType
<1>4. \A i \in 1..Len(done) : done[i].epoch \in Nat
  BY <1>3
<1>5. ASSUME NEW at \in Addresses, Set(at),
             Idents' \subseteq Idents \cup {Ident(at, next, born + 1)}
      PROVE EpochsBelow'
  <2>1. done' = done /\ next' = next + 1 /\ main # "down"
    BY <1>5 DEF Set
  <2>2. \A x \in Idents' : x \in Idents \/ x.epoch = next
    BY <1>5 DEF Ident
  <2>3. \A x \in Idents' : x.epoch < next'
    BY <1>1, <1>2, <2>1, <2>2 DEF EpochsBelow
  <2>4. \A i \in 1..Len(done') : done'[i].epoch < next'
    BY <1>1, <1>4, <2>1 DEF EpochsBelow
  <2>. QED BY <2>3, <2>4 DEF EpochsBelow
<1>6. CASE Open
  <2>1. done' = <<>>
    BY <1>6 DEF Open, MainInv
  <2>2. \A e \in Epochs(disk) : e < next'
    BY <1>6 DEF Open
  <2>3. \A x \in Idents' : x.epoch < next'
    BY <1>6, <2>2, OpenIdents
  <2>. QED BY <2>1, <2>3 DEF EpochsBelow
<1>7. CASE Kill
  BY <1>7 DEF Kill, EpochsBelow
<1>8. CASE FinishCopy /\ Idents' \subseteq Idents
  <2>1. next' = next /\ main # "down" /\ jobs # <<>>
    BY <1>8 DEF FinishCopy, Working
  <2>2. /\ Ident(Job.slot, Job.epoch, Job.uid) \in Idents
        /\ Job.epoch \in Nat /\ Job.size \in Sizes
    BY <2>1, JobFacts
  <2>3. Job.epoch < next
    BY <2>1, <2>2 DEF EpochsBelow, Ident
  <2> DEFINE copy == [epoch |-> Job.epoch, size |-> Job.size]
  <2>4. copy \in [epoch: Nat, size: Sizes] /\ copy.epoch < next
    BY <2>2, <2>3
  <2>5. done' = Append(done, copy)
    BY <1>8 DEF FinishCopy
  <2> HIDE DEF copy
  <2>6. \A i \in 1..Len(done') : \/ i \in 1..Len(done) /\ done'[i] = done[i]
                                 \/ done'[i] = copy
    BY <1>1, <2>4, <2>5, AppendFacts
  <2>. QED BY <1>8, <2>1, <2>4, <2>6 DEF EpochsBelow
<1>9. CASE Stored /\ Idents' \subseteq Idents
  <2>1. next' = next /\ main # "down" /\ done # <<>> /\ done' = Tail(done)
    BY <1>9 DEF Stored
  <2>2. \A i \in 1..Len(done') : i + 1 \in 1..Len(done) /\ done'[i] = done[i + 1]
    BY <1>1, <2>1, TailFacts
  <2>. QED BY <1>9, <2>1, <2>2 DEF EpochsBelow
<1>10. CASE /\ Idents' \subseteq Idents
            /\ done' = done /\ next' \in {next, next + 1}
            /\ main' # "down" => main # "down"
  BY <1>1, <1>2, <1>4, <1>10 DEF EpochsBelow
<1>11. ASSUME Idents' \subseteq Idents,
              NEW at \in Addresses, Set(at) \/ Clear(at) \/ \E s \in Sizes : Request(at, s)
       PROVE EpochsBelow'
  BY <1>10, <1>11 DEF Set, Clear, Request
<1>12. CASE /\ Idents' \subseteq Idents
            /\ SetTransient \/ SaveState \/ SaveFails \/ Sweep
  BY <1>10, <1>12 DEF SetTransient, SaveState, SaveFails, Sweep
<1>13. CASE /\ Idents' \subseteq Idents
            /\ ServeCopy \/ DecodeSource \/ DecodeOrWriteFails \/ UNCHANGED vars
  BY <1>10, <1>13 DEF ServeCopy, DecodeSource, DecodeOrWriteFails, vars
<1>14. CASE Idents' \subseteq Idents
  BY <1>6, <1>7, <1>8, <1>9, <1>11, <1>12, <1>13, <1>14 DEF Next, Main, Thread
<1>. QED BY <1>5, <1>14, IdentsStep

-----------------------------------------------------------------------------
(* Without a process there is no work, a sweep finds both records equal,   *)
(* and a file being written belongs to a job.                              *)
LEMMA MainStep ==
  ASSUME TypeOK, MainInv, [Next]_vars
  PROVE MainInv'
<1>1. CASE Open \/ Kill
  BY <1>1 DEF Open, Kill, MainInv
<1>2. CASE SetTransient \/ SaveState \/ SaveFails \/ Sweep
  BY <1>2 DEF SetTransient, SaveState, SaveFails, Sweep, MainInv
<1>3. CASE Stored
  BY <1>3 DEF Stored, MainInv
<1>4. ASSUME NEW at \in Addresses, Set(at) \/ Clear(at)
      PROVE MainInv'
  BY <1>4 DEF Set, Clear, MainInv
<1>5. ASSUME NEW at \in Addresses, NEW s \in Sizes, Request(at, s)
      PROVE MainInv'
  <2>1. jobs \in Seq(Jobs) /\ jobs' # <<>>
    BY <1>5 DEF Request, TypeOK
  <2>. QED BY <1>5, <2>1 DEF Request, MainInv
<1>6. CASE ServeCopy \/ DecodeSource \/ DecodeOrWriteFails \/ FinishCopy
  BY <1>6 DEF ServeCopy, DecodeSource, DecodeOrWriteFails, FinishCopy, Working, MainInv
<1>7. CASE UNCHANGED vars
  BY <1>7 DEF vars, MainInv
<1>. QED BY <1>1, <1>2, <1>3, <1>4, <1>5, <1>6, <1>7 DEF Next, Main, Thread

(* A copy recorded as written changes the record only if it names it. *)
LEMMA StoredNothing ==
  ASSUME TypeOK, Stored, main' = "idle"
  PROVE mem' = mem
<1>1. mem \in SlotsOf(Slot) /\ done \in Seq([epoch: Nat, size: Sizes])
  BY DEF TypeOK, Slot
<1>2. Head(done) \in [epoch: Nat, size: Sizes]
  BY <1>1, TailFacts DEF Stored
<1>3. /\ mem' = WithAsked(mem, Head(done).epoch, Head(done).size)
      /\ \A at \in Slots(mem) : At(mem, at).epoch # Head(done).epoch
  BY DEF Stored
<1>4. mem' \in SlotsOf(Slot) /\ \A at \in Addresses : At(mem', at) = At(mem, at)
  BY <1>1, <1>2, <1>3, WithAskedFacts DEF Slots
<1>. QED BY <1>1, <1>4, SameSlots

(* The record in memory is ahead of the file only on the way to a save. *)
LEMMA AgreesStep ==
  ASSUME TypeOK, MainInv, RecordAgrees, [Next]_vars
  PROVE RecordAgrees'
<1>1. CASE Open \/ Kill
  BY <1>1 DEF Open, Kill, RecordAgrees
<1>2. CASE SetTransient \/ SaveState \/ SaveFails \/ Sweep
  BY <1>2 DEF SetTransient, SaveState, SaveFails, Sweep, RecordAgrees
<1>3. CASE Stored
  <2>1. CASE main' = "idle"
    BY <1>3, <2>1, StoredNothing DEF Stored, RecordAgrees
  <2>2. CASE main' # "idle"
    BY <1>3, <2>2 DEF Stored, RecordAgrees
  <2>. QED BY <2>1, <2>2
<1>4. ASSUME NEW at \in Addresses, Set(at) \/ Clear(at) \/ \E s \in Sizes : Request(at, s)
      PROVE RecordAgrees'
  BY <1>4 DEF Set, Clear, Request, RecordAgrees
<1>5. CASE ServeCopy \/ DecodeSource \/ DecodeOrWriteFails \/ FinishCopy
  BY <1>5 DEF ServeCopy, DecodeSource, DecodeOrWriteFails, FinishCopy, RecordAgrees
<1>6. CASE UNCHANGED vars
  BY <1>6 DEF vars, RecordAgrees
<1>. QED BY <1>1, <1>2, <1>3, <1>4, <1>5, <1>6 DEF Next, Main, Thread

-----------------------------------------------------------------------------
(* A request is known by one name, its own. *)
LEMMA SameName ==
  ASSUME TypeOK, EpochsApart, NEW x \in Idents, jobs # <<>>, NameIn(x) = NameIn(Job)
  PROVE x.uid = Job.uid
<1>1. Ident(Job.slot, Job.epoch, Job.uid) \in Idents
  BY JobFacts
<1>2. x.epoch = Job.epoch
  BY DEF NameIn, NameOf
<1>3. x = Ident(Job.slot, Job.epoch, Job.uid)
  BY <1>1, <1>2 DEF EpochsApart, Ident
<1>. QED BY <1>3 DEF Ident

(* The copy just written is there, and is the job's own. *)
LEMMA FinishedCopy ==
  ASSUME TypeOK, FinishCopy, NEW x, NameIn(x) = NameIn(Job), x.uid = Job.uid
  PROVE There(x)' /\ Own(x)'
<1> DEFINE c0 == [slot |-> Job.slot, epoch |-> Job.epoch, uid |-> Job.uid, size |-> Job.size]
<1>1. copies' = {c \in copies : NameIn(c) # NameIn(Job)} \cup {c0}
  BY DEF FinishCopy
<1>2. NameIn(c0) = NameIn(Job) /\ c0.uid = Job.uid
  BY DEF NameIn, NameOf
<1> HIDE DEF c0
<1>. QED BY <1>1, <1>2 DEF There, Own, NameIn

(* No step takes a request's copy for another one's, nor the copy of a     *)
(* recorded request away.                                                  *)
LEMMA KeptCopies ==
  ASSUME TypeOK, EpochsApart, MainInv, [Next]_vars, NEW x \in Idents
  PROVE /\ Own(x) => Own(x)'
        /\ There(x) /\ x \in IdentsIn(mem) \cup IdentsIn(disk) => There(x)'
<1>1. CASE UNCHANGED copies
  BY <1>1 DEF Own, There
<1>2. CASE Sweep
  <2>1. copies' \subseteq copies /\ mem = disk
    BY <1>2 DEF Sweep, MainInv
  <2>2. ASSUME x \in IdentsIn(mem)
        PROVE NameIn(x) \in Named(mem)
    BY <2>2 DEF IdentsIn, Named, NameIn, Ident
  <2>3. \A c \in copies : NameIn(c) \in Named(mem) => c \in copies'
    BY <1>2 DEF Sweep
  <2>. QED BY <2>1, <2>2, <2>3 DEF Own, There
<1>3. CASE FinishCopy
  <2>1. jobs # <<>>
    BY <1>3 DEF FinishCopy, Working
  <2>2. CASE NameIn(x) = NameIn(Job)
    BY <1>3, <2>1, <2>2, SameName, FinishedCopy
  <2>3. CASE NameIn(x) # NameIn(Job)
    <3> DEFINE c0 == [slot |-> Job.slot, epoch |-> Job.epoch,
                      uid |-> Job.uid, size |-> Job.size]
    <3>1. copies' = {c \in copies : NameIn(c) # NameIn(Job)} \cup {c0}
      BY <1>3 DEF FinishCopy
    <3>2. NameIn(c0) = NameIn(Job)
      BY DEF NameIn, NameOf
    <3> HIDE DEF c0
    <3>. QED BY <2>3, <3>1, <3>2 DEF There, Own, NameIn
  <2>. QED BY <2>2, <2>3
<1>. QED
  BY <1>1, <1>2, <1>3
     DEF Next, Main, Thread, Open, Kill, SetTransient, Stored, SaveState, SaveFails,
         Set, Clear, Request, ServeCopy, DecodeSource, DecodeOrWriteFails, vars

-----------------------------------------------------------------------------
(* Setting or clearing a slot gives no request a copy. *)
LEMMA PutCopied ==
  ASSUME NEW slots \in SlotsOf(Slot), NEW at \in Addresses, NEW pic \in Slot,
         pic # NoPic => pic.asked = None
  PROVE CopiedIn(Put(slots, at, pic)) \subseteq CopiedIn(slots)
<1> DEFINE put == Put(slots, at, pic)
<1>1. At(put, at) = pic /\ \A c \in Addresses \ {at} : At(put, c) \in {NoPic, At(slots, c)}
  BY PutFacts
<1> HIDE DEF put
<1>2. ASSUME NEW b \in Slots(put), At(put, b).asked # None
      PROVE At(put, b) = At(slots, b) /\ b \in Slots(slots)
  BY <1>1, <1>2 DEF Slots
<1>3. CopiedIn(put) \subseteq CopiedIn(slots)
  BY <1>2 DEF CopiedIn
<1>. QED BY <1>3 DEF put

(* Noting the size of a copy gives one to the request it is noted for. *)
LEMMA WithAskedCopied ==
  ASSUME NEW slots \in SlotsOf(Slot), NEW epoch \in Nat, NEW asked \in Sizes,
         NEW x \in CopiedIn(WithAsked(slots, epoch, asked))
  PROVE \/ x \in CopiedIn(slots)
        \/ x \in IdentsIn(slots) /\ x.epoch = epoch
<1> DEFINE noted == WithAsked(slots, epoch, asked)
<1>1. \A b \in Addresses :
        IF At(slots, b) # NoPic /\ At(slots, b).epoch = epoch
        THEN At(noted, b).epoch = At(slots, b).epoch /\ At(noted, b).uid = At(slots, b).uid
        ELSE At(noted, b) = At(slots, b)
  BY WithAskedFacts
<1> HIDE DEF noted
<1>2. x \in CopiedIn(noted)
  BY DEF noted
<1>3. PICK b \in Slots(noted) :
        /\ At(noted, b).asked # None
        /\ x = Ident(b, At(noted, b).epoch, At(noted, b).uid)
  BY <1>2 DEF CopiedIn
<1>4. b \in Addresses /\ At(noted, b) # NoPic
  BY DEF Slots
<1>5. CASE At(slots, b) # NoPic /\ At(slots, b).epoch = epoch
  <2>1. x = Ident(b, At(slots, b).epoch, At(slots, b).uid) /\ b \in Slots(slots)
    BY <1>1, <1>3, <1>4, <1>5 DEF Slots
  <2>2. x \in IdentsIn(slots)
    BY <2>1 DEF IdentsIn
  <2>. QED BY <1>5, <2>1, <2>2 DEF Ident
<1>6. CASE ~(At(slots, b) # NoPic /\ At(slots, b).epoch = epoch)
  <2>1. At(noted, b) = At(slots, b) /\ b \in Slots(slots)
    BY <1>1, <1>4, <1>6 DEF Slots
  <2>. QED BY <1>3, <2>1 DEF CopiedIn
<1>. QED BY <1>5, <1>6

(* A request with a copy is a request. *)
LEMMA CopiedIdents ==
  /\ CopiedIn(mem) \subseteq IdentsIn(mem) /\ CopiedIn(disk) \subseteq IdentsIn(disk)
  /\ IdentsIn(mem) \subseteq Idents /\ IdentsIn(disk) \subseteq Idents
  /\ JobsCopied \subseteq Idents
BY DEF CopiedIn, IdentsIn, JobsCopied, JobIdents, Idents

(* A request is recorded to have a copy once one was reported for it. *)
LEMMA CopiedStep ==
  ASSUME TypeOK, [Next]_vars, NEW x \in CopiedIn(mem)' \cup CopiedIn(disk)'
  PROVE \/ x \in CopiedIn(mem) \cup CopiedIn(disk)
        \/ Stored /\ x \in IdentsIn(mem) /\ x.epoch = Head(done).epoch
<1>1. /\ mem \in SlotsOf(Slot) /\ disk \in SlotsOf(Slot)
      /\ NoPic \in Slot
      /\ done \in Seq([epoch: Nat, size: Sizes])
  BY DEF TypeOK, Slot
<1>2. CASE UNCHANGED <<mem, disk>>
  BY <1>2 DEF CopiedIn, Slots
<1>3. CASE Open \/ SaveState
  BY <1>3 DEF Open, SaveState
<1>4. CASE Kill
  <2>1. CopiedIn(mem') = {}
    BY <1>4, EmptyFacts DEF Kill, CopiedIn
  <2>. QED BY <1>4, <2>1 DEF Kill
<1>5. ASSUME NEW at \in Addresses, Set(at)
      PROVE x \in CopiedIn(mem) \cup CopiedIn(disk)
  <2> DEFINE pic == [epoch |-> next, uid |-> born + 1, asked |-> None]
  <2>1. pic \in Slot /\ pic.asked = None
    BY DEF TypeOK, Slot, Entries
  <2>2. mem' = Put(mem, at, pic) /\ disk' = disk
    BY <1>5 DEF Set
  <2> HIDE DEF pic
  <2>3. CopiedIn(mem') \subseteq CopiedIn(mem)
    BY <1>1, <2>1, <2>2, PutCopied
  <2>. QED BY <2>2, <2>3
<1>6. ASSUME NEW at \in Addresses, Clear(at)
      PROVE x \in CopiedIn(mem) \cup CopiedIn(disk)
  <2>1. CopiedIn(mem') \subseteq CopiedIn(mem)
    BY <1>1, <1>6, PutCopied DEF Clear
  <2>. QED BY <1>6, <2>1 DEF Clear
<1>7. CASE Stored
  <2>1. Head(done) \in [epoch: Nat, size: Sizes]
    BY <1>1, <1>7, TailFacts DEF Stored
  <2>2. mem' = WithAsked(mem, Head(done).epoch, Head(done).size) /\ disk' = disk
    BY <1>7 DEF Stored
  <2>3. \A y \in CopiedIn(mem') : \/ y \in CopiedIn(mem)
                                  \/ y \in IdentsIn(mem) /\ y.epoch = Head(done).epoch
    BY <1>1, <2>1, <2>2, WithAskedCopied
  <2>. QED BY <1>7, <2>2, <2>3
<1>. QED
  BY <1>2, <1>3, <1>4, <1>5, <1>6, <1>7
     DEF Next, Main, Thread, SetTransient, SaveFails, Sweep, Request,
         ServeCopy, DecodeSource, DecodeOrWriteFails, FinishCopy, vars

(* A job knows of a copy if the record did when it was asked for. *)
LEMMA JobsCopiedStep ==
  ASSUME TypeOK, [Next]_vars, NEW x \in JobsCopied'
  PROVE x \in JobsCopied \cup CopiedIn(mem)
<1>1. mem \in SlotsOf(Slot) /\ jobs \in Seq(Jobs)
  BY DEF TypeOK, Slot
<1>2. CASE UNCHANGED jobs
  BY <1>2 DEF JobsCopied
<1>3. CASE Kill
  BY <1>3 DEF Kill, JobsCopied
<1>4. ASSUME NEW at \in Addresses, NEW s \in Sizes, Request(at, s)
      PROVE x \in JobsCopied \cup CopiedIn(mem)
  <2> DEFINE job == [slot |-> at, epoch |-> At(mem, at).epoch, uid |-> At(mem, at).uid,
                     size |-> s, asked |-> At(mem, at).asked]
  <2>1. at \in Slots(mem)
    BY <1>4 DEF Request, Slots
  <2>2. job \in Jobs
    BY <1>1, <2>1, EntryType DEF Jobs
  <2>3. jobs' = Append(jobs, job)
    BY <1>4 DEF Request
  <2>4. job.asked # None => Ident(job.slot, job.epoch, job.uid) \in CopiedIn(mem)
    BY <2>1 DEF CopiedIn
  <2> HIDE DEF job
  <2>5. \A i \in 1..Len(jobs') : \/ i \in 1..Len(jobs) /\ jobs'[i] = jobs[i]
                                 \/ jobs'[i] = job
    BY <1>1, <2>2, <2>3, AppendFacts
  <2>. QED BY <2>4, <2>5 DEF JobsCopied
<1>5. CASE Thread /\ ~UNCHANGED jobs
  <2>1. jobs # <<>> /\ jobs' = Tail(jobs)
    BY <1>5 DEF Thread, Working, ServeCopy, DecodeSource, DecodeOrWriteFails, FinishCopy
  <2>2. \A i \in 1..Len(jobs') : i + 1 \in 1..Len(jobs) /\ jobs'[i] = jobs[i + 1]
    BY <1>1, <2>1, TailFacts
  <2>. QED BY <2>2 DEF JobsCopied
<1>6. CASE Open \/ SetTransient \/ Stored \/ SaveState \/ SaveFails \/ Sweep
  BY <1>2, <1>6 DEF Open, SetTransient, Stored, SaveState, SaveFails, Sweep
<1>7. ASSUME NEW at \in Addresses, Set(at) \/ Clear(at)
      PROVE x \in JobsCopied \cup CopiedIn(mem)
  BY <1>2, <1>7 DEF Set, Clear
<1>8. CASE UNCHANGED vars
  BY <1>2, <1>8 DEF vars
<1>. QED BY <1>2, <1>3, <1>4, <1>5, <1>6, <1>7, <1>8 DEF Next, Main

(* What waits to be recorded was reported before, or is the copy just      *)
(* written.                                                                *)
LEMMA DoneStep ==
  ASSUME TypeOK, MainInv, [Next]_vars, NEW i \in 1..Len(done')
  PROVE \/ \E k \in 1..Len(done) : done'[i] = done[k]
        \/ FinishCopy /\ done'[i].epoch = Job.epoch
<1>1. done \in Seq([epoch: Nat, size: Sizes])
  BY DEF TypeOK
<1>2. CASE UNCHANGED done
  BY <1>2
<1>3. CASE Open \/ Kill
  <2>1. done' = <<>>
    BY <1>3 DEF Open, Kill, MainInv
  <2>. QED BY <2>1
<1>4. CASE Stored
  <2>1. done # <<>> /\ done' = Tail(done)
    BY <1>4 DEF Stored
  <2>2. i + 1 \in 1..Len(done) /\ done'[i] = done[i + 1]
    BY <1>1, <2>1, TailFacts
  <2>. QED BY <2>2
<1>5. CASE FinishCopy
  <2> DEFINE copy == [epoch |-> Job.epoch, size |-> Job.size]
  <2>1. copy \in [epoch: Nat, size: Sizes] /\ copy.epoch = Job.epoch
    BY <1>5, JobFacts DEF FinishCopy, Working
  <2>2. done' = Append(done, copy)
    BY <1>5 DEF FinishCopy
  <2> HIDE DEF copy
  <2>3. (i \in 1..Len(done) /\ done'[i] = done[i]) \/ done'[i] = copy
    BY <1>1, <2>1, <2>2, AppendFacts
  <2>. QED BY <1>5, <2>1, <2>3
<1>. QED
  BY <1>2, <1>3, <1>4, <1>5
     DEF Next, Main, Thread, SetTransient, SaveState, SaveFails, Sweep, Set, Clear,
         Request, ServeCopy, DecodeSource, DecodeOrWriteFails, vars

(* The record in memory names what it named, what the file names after a   *)
(* start, or the wallpaper just set.                                       *)
LEMMA MemIdentsStep ==
  ASSUME TypeOK, [Next]_vars, NEW x \in IdentsIn(mem)'
  PROVE \/ x \in IdentsIn(mem)
        \/ Open
        \/ done' = done /\ main # "down" /\ x.epoch = next
<1>1. /\ mem \in SlotsOf(Slot) /\ NoPic \in Slot
      /\ done \in Seq([epoch: Nat, size: Sizes])
  BY DEF TypeOK, Slot
<1>2. CASE UNCHANGED mem
  BY <1>2 DEF IdentsIn, Slots
<1>3. CASE Kill
  <2>1. IdentsIn(mem') = {}
    BY <1>3, EmptyFacts DEF Kill
  <2>. QED BY <2>1
<1>4. ASSUME NEW at \in Addresses, Set(at)
      PROVE \/ x \in IdentsIn(mem)
            \/ done' = done /\ main # "down" /\ x.epoch = next
  <2> DEFINE pic == [epoch |-> next, uid |-> born + 1, asked |-> None]
  <2>1. pic \in Slot /\ pic.epoch = next
    BY DEF TypeOK, Slot, Entries
  <2>2. mem' = Put(mem, at, pic) /\ done' = done /\ main # "down"
    BY <1>4 DEF Set
  <2> HIDE DEF pic
  <2>3. x \in IdentsIn(mem) \/ x = Ident(at, pic.epoch, pic.uid)
    BY <1>1, <2>1, <2>2, PutIdents
  <2>. QED BY <2>1, <2>2, <2>3 DEF Ident
<1>5. ASSUME NEW at \in Addresses, Clear(at)
      PROVE x \in IdentsIn(mem)
  BY <1>1, <1>5, PutIdents DEF Clear
<1>6. CASE Stored
  <2>1. Head(done) \in [epoch: Nat, size: Sizes]
    BY <1>1, <1>6, TailFacts DEF Stored
  <2>. QED BY <1>1, <1>6, <2>1, WithAskedIdents DEF Stored
<1>. QED
  BY <1>2, <1>3, <1>4, <1>5, <1>6
     DEF Next, Main, Thread, SetTransient, SaveState, SaveFails, Sweep, Request,
         ServeCopy, DecodeSource, DecodeOrWriteFails, FinishCopy, vars

(* A copy that was reported is there for the request that has its epoch.   *)
LEMMA DoneCopiesStep ==
  ASSUME TypeOK, EpochsApart, EpochsBelow, MainInv, DoneCopies, [Next]_vars
  PROVE DoneCopies'
<1> SUFFICES ASSUME NEW i \in 1..Len(done'), NEW x \in IdentsIn(mem)',
                    x.epoch = done'[i].epoch
             PROVE There(x)' /\ Own(x)'
  BY DEF DoneCopies
<1>1. next \in Nat /\ done \in Seq([epoch: Nat, size: Sizes])
  BY DEF TypeOK
<1>2. CASE Open
  <2>1. done' = <<>>
    BY <1>2 DEF Open, MainInv
  <2>. QED BY <2>1
<1>3. CASE done' = done /\ main # "down" /\ x.epoch = next
  <2>1. done[i] \in [epoch: Nat, size: Sizes]
    BY <1>1, <1>3, ElementType
  <2>2. done[i].epoch \in Nat /\ done[i].epoch < next
    BY <1>3, <2>1 DEF EpochsBelow
  <2>. QED BY <1>1, <1>3, <2>2
<1>4. ASSUME x \in IdentsIn(mem), NEW k \in 1..Len(done), done'[i] = done[k]
      PROVE There(x)' /\ Own(x)'
  <2>1. There(x) /\ Own(x) /\ x \in Idents
    BY <1>4, CopiedIdents DEF DoneCopies
  <2>. QED BY <1>4, <2>1, KeptCopies
<1>5. CASE x \in IdentsIn(mem) /\ FinishCopy /\ done'[i].epoch = Job.epoch
  <2>1. jobs # <<>> /\ x \in Idents
    BY <1>5, CopiedIdents DEF FinishCopy, Working
  <2>2. x = Ident(Job.slot, Job.epoch, Job.uid)
    BY <1>5, <2>1, JobFacts DEF EpochsApart, Ident
  <2>3. NameIn(x) = NameIn(Job) /\ x.uid = Job.uid
    BY <2>2 DEF Ident, NameIn, NameOf
  <2>. QED BY <1>5, <2>3, FinishedCopy
<1>. QED BY <1>2, <1>3, <1>4, <1>5, DoneStep, MemIdentsStep

(* Every copy the record or a job knows of stays its own, and every copy   *)
(* on record stays.                                                        *)
LEMMA ReportedStep ==
  ASSUME TypeOK, EpochsApart, EpochsBelow, MainInv, ReportedInv, [Next]_vars
  PROVE ReportedInv'
<1>1. DoneCopies'
  BY DoneCopiesStep DEF ReportedInv
<1>2. ASSUME NEW x \in CopiedIn(mem)' \cup CopiedIn(disk)'
      PROVE There(x)' /\ Own(x)'
  <2>1. CASE x \in CopiedIn(mem) \cup CopiedIn(disk)
    <3>1. There(x) /\ Own(x)
      BY <2>1 DEF ReportedInv, RecordCopies
    <3>. QED BY <2>1, <3>1, KeptCopies, CopiedIdents
  <2>2. CASE Stored /\ x \in IdentsIn(mem) /\ x.epoch = Head(done).epoch
    <3>1. done # <<>> /\ done \in Seq([epoch: Nat, size: Sizes])
      BY <2>2 DEF Stored, TypeOK
    <3>2. 1 \in 1..Len(done) /\ Head(done) = done[1]
      BY <3>1, TailFacts
    <3>3. There(x) /\ Own(x)
      BY <2>2, <3>2 DEF ReportedInv, DoneCopies
    <3>. QED BY <2>2, <3>3, KeptCopies, CopiedIdents
  <2>. QED BY <2>1, <2>2, CopiedStep
<1>3. RecordCopies(mem)' /\ RecordCopies(disk)'
  BY <1>2 DEF RecordCopies
<1>4. ASSUME NEW x \in JobsCopied'
      PROVE Own(x)'
  <2>1. x \in JobsCopied \cup CopiedIn(mem)
    BY <1>4, JobsCopiedStep
  <2>2. Own(x) /\ x \in Idents
    BY <2>1, CopiedIdents DEF ReportedInv, JobCopies, RecordCopies
  <2>. QED BY <2>2, KeptCopies
<1>. QED BY <1>1, <1>3, <1>4 DEF ReportedInv, JobCopies

-----------------------------------------------------------------------------
(* The inductive invariant holds in every reachable state: what is on      *)
(* record, being decoded and waiting to be recorded agrees with the files. *)
THEOREM RememberCorrect == Spec => []RememberInv
<1>1. ASSUME Init
      PROVE RememberInv
  <2>1. TypeOK /\ MainInv /\ RecordAgrees
    <3>1. TypeOK
      BY <1>1, InitType
    <3>. QED BY <1>1, <3>1 DEF Init, MainInv, RecordAgrees
  <2>2. JobIdents = {} /\ JobsCopied = {} /\ done = <<>>
    BY <1>1 DEF Init, JobIdents, JobsCopied
  <2>3. IdentsIn(mem) = {} /\ IdentsIn(disk) = {}
    BY <1>1, EmptyFacts DEF Init
  <2>4. Idents = {} /\ CopiedIn(mem) = {} /\ CopiedIn(disk) = {}
    BY <2>2, <2>3, CopiedIdents DEF Idents
  <2>. QED
    BY <1>1, <2>1, <2>2, <2>4
       DEF Init, RememberInv, EpochsApart, EpochsBelow, ReportedInv, DoneCopies, RecordCopies, JobCopies
<1>2. RememberInv /\ [Next]_vars => RememberInv'
  BY TypeStep, EpochsApartStep, EpochsBelowStep, MainStep, AgreesStep, ReportedStep
     DEF RememberInv
<1>. QED BY <1>1, <1>2, PTL DEF Spec

(* A recorded wallpaper is never shown the copy of another one: neither    *)
(* from memory nor after a restart.                                        *)
THEOREM CopyIsOwn == Spec => []OwnCopy
<1>1. RememberInv => OwnCopy
  <2> SUFFICES ASSUME RememberInv,
                      NEW slots \in {mem, disk}, NEW at \in Slots(slots), NEW c \in copies,
                      At(slots, at).asked # None,
                      NameIn(c) = NameOf(at, At(slots, at).epoch)
               PROVE c.uid = At(slots, at).uid
    BY DEF OwnCopy
  <2>1. Ident(at, At(slots, at).epoch, At(slots, at).uid) \in CopiedIn(slots)
    BY DEF CopiedIn
  <2>2. Own(Ident(at, At(slots, at).epoch, At(slots, at).uid))
    BY <2>1 DEF RememberInv, ReportedInv, RecordCopies
  <2>. QED BY <2>2 DEF Own, Ident, NameIn
<1>. QED BY <1>1, RememberCorrect, PTL

(* A decode that was told of a copy is never served another wallpaper's,   *)
(* however the copies and the record have moved since it was asked for.    *)
THEOREM ServesItsOwn == Spec => []ServesOwnCopy
<1>1. RememberInv => ServesOwnCopy
  <2> SUFFICES ASSUME RememberInv,
                      NEW i \in 1..Len(jobs), NEW c \in copies,
                      jobs[i].asked # None, NameIn(c) = NameIn(jobs[i])
               PROVE c.uid = jobs[i].uid
    BY DEF ServesOwnCopy
  <2>1. Ident(jobs[i].slot, jobs[i].epoch, jobs[i].uid) \in JobsCopied
    BY DEF JobsCopied
  <2>2. Own(Ident(jobs[i].slot, jobs[i].epoch, jobs[i].uid))
    BY <2>1 DEF RememberInv, ReportedInv, JobCopies
  <2>. QED BY <2>2 DEF Own, Ident, NameIn
<1>. QED BY <1>1, RememberCorrect, PTL

(* A copy the state file records is in the cache directory, wherever the   *)
(* process is killed.                                                      *)
THEOREM RecordedExists == Spec => []RecordedCopyExists
<1>1. RememberInv => RecordedCopyExists
  <2> SUFFICES ASSUME RememberInv, NEW at \in Slots(disk), At(disk, at).asked # None
               PROVE \E c \in copies : NameIn(c) = NameOf(at, At(disk, at).epoch)
    BY DEF RecordedCopyExists
  <2>1. Ident(at, At(disk, at).epoch, At(disk, at).uid) \in CopiedIn(disk)
    BY DEF CopiedIn
  <2>2. There(Ident(at, At(disk, at).epoch, At(disk, at).uid))
    BY <2>1 DEF RememberInv, ReportedInv, RecordCopies
  <2>. QED BY <2>2 DEF There, Ident, NameIn
<1>. QED BY <1>1, RememberCorrect, PTL

(* Between requests the record in memory is the one on disk, unless the    *)
(* last save failed.                                                       *)
THEOREM RecordsAgree == Spec => []RecordAgrees
<1>1. RememberInv => RecordAgrees
  BY DEF RememberInv
<1>. QED BY <1>1, RememberCorrect, PTL

=============================================================================
