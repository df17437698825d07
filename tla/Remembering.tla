----------------------------- MODULE Remembering -----------------------------
(***************************************************************************)
(* What the daemon remembers between runs: `Store` and `State` (crates/    *)
(* store/src), the copies `cache::write` keeps of decoded wallpapers, and  *)
(* a process that may be killed between any two of its steps.              *)
(*                                                                         *)
(* The record is kept in memory and in a file that is replaced whole; the  *)
(* copies are files named by slot and epoch, written by the decode thread  *)
(* beside whatever the main thread does.  A recorded wallpaper is told     *)
(* apart by its epoch; `uid` is a history variable numbering the requests  *)
(* themselves, so that an epoch given out twice shows.                     *)
(*                                                                         *)
(* Abstracted: the source path, paths and formats; a state file that does  *)
(* not parse; a user deleting copies.  A size is the set of dimensions in  *)
(* which it is the larger, as in Decoding.                                 *)
(***************************************************************************)
EXTENDS Naturals, Sequences, Addressing

CONSTANTS
  Sizes,      (* sizes a wallpaper can be asked for                        *)
  None,       (* no copy has been recorded                                 *)
  MaxSets,    (* bound: wallpapers set                                     *)
  MaxJobs     (* bound: decodes waiting for the thread, or to be recorded  *)

ASSUME RememberingAssumption ==
  /\ None \notin Sizes
  /\ MaxSets \in Nat /\ MaxJobs \in Nat

VARIABLES
  mem,        (* Store::state, by slot                                     *)
  disk,       (* the state file                                            *)
  next,       (* Store::next_epoch                                         *)
  copies,     (* resized copies in the cache directory                     *)
  pending,    (* files a copy is written to before it is renamed           *)
  jobs,       (* decodes asked for, the first one being worked on          *)
  writing,    (* the thread has created the file it is going to rename     *)
  done,       (* copies written and not yet recorded                       *)
  main,       (* "down", "idle", "saving" or "sweeping"                    *)
  born,       (* history: wallpapers ever set                              *)
  unsaved     (* history: the last save failed                             *)

recordVars == <<mem, disk, next>>
fileVars   == <<copies, pending>>
threadVars == <<jobs, writing, done>>
historyVars == <<born, unsaved>>
vars == <<recordVars, fileVars, threadVars, main, historyVars>>

Entries == [epoch: Nat, uid: Nat, asked: Sizes \cup {None}]
Names == [slot: Addresses, epoch: Nat]
Copies == [slot: Addresses, epoch: Nat, uid: Nat, size: Sizes]
Jobs == [slot: Addresses, epoch: Nat, uid: Nat, size: Sizes, asked: Sizes \cup {None}]

(* The entry of one slot, NoPic for none.                                  *)
At(slots, at) == IF at = All THEN slots.all ELSE slots.own[at]

(* `State::entries`. *)
Slots(slots) == {at \in Addresses : At(slots, at) # NoPic}

Epochs(slots) == {At(slots, at).epoch : at \in Slots(slots)}

(* `naming::cache_file`, of an entry and of a job or a copy alike. *)
NameOf(at, epoch) == [slot |-> at, epoch |-> epoch]
NameIn(file) == NameOf(file.slot, file.epoch)
Named(slots) == {NameOf(at, At(slots, at).epoch) : at \in Slots(slots)}

Covers(size, needed) == size # None /\ needed \subseteq size

Init ==
  /\ mem = Empty /\ disk = Empty
  /\ next = 0
  /\ copies = {} /\ pending = {}
  /\ jobs = <<>> /\ writing = FALSE /\ done = <<>>
  /\ main = "down"
  /\ born = 0 /\ unsaved = FALSE

-----------------------------------------------------------------------------
(***************************************************************************)
(* Starting and being killed.                                              *)
(***************************************************************************)

(* Mutant: epochs are counted from the start of every run.                 *)
OpenFromOne ==
  /\ main = "down"
  /\ mem' = disk
  /\ next' = 1
  /\ main' = "sweeping"
  /\ UNCHANGED <<disk, fileVars, threadVars, historyVars>>

(* `Store::open`: the first epoch is one no entry on record has.           *)
Open ==
  /\ main = "down"
  /\ mem' = disk
  /\ next' \in {n \in {1} \cup {e + 1 : e \in Epochs(disk)} :
                  \A e \in Epochs(disk) : e < n}
  /\ main' = "sweeping"
  /\ UNCHANGED <<disk, fileVars, threadVars, historyVars>>

(* Killed, or told to stop: only the files are left. *)
Kill ==
  /\ main # "down"
  /\ mem' = Empty /\ next' = 0
  /\ jobs' = <<>> /\ writing' = FALSE /\ done' = <<>>
  /\ main' = "down"
  /\ unsaved' = FALSE
  /\ UNCHANGED <<disk, fileVars, born>>

-----------------------------------------------------------------------------
(***************************************************************************)
(* The main thread.                                                        *)
(***************************************************************************)

(* `Store::transient`: an epoch of its own, and nothing recorded.          *)
SetTransient ==
  /\ main = "idle" /\ born < MaxSets
  /\ next' = next + 1
  /\ born' = born + 1
  /\ UNCHANGED <<mem, disk, fileVars, threadVars, main, unsaved>>

(* `Store::set`, then `save`.                                              *)
Set(at) ==
  /\ main = "idle" /\ born < MaxSets
  /\ mem' = Put(mem, at, [epoch |-> next, uid |-> born + 1, asked |-> None])
  /\ next' = next + 1
  /\ born' = born + 1
  /\ main' = "saving"
  /\ UNCHANGED <<disk, fileVars, threadVars, unsaved>>

(* `Store::clear`, then `save`.                                            *)
Clear(at) ==
  /\ main = "idle"
  /\ mem' = Put(mem, at, NoPic)
  /\ main' = "saving"
  /\ UNCHANGED <<disk, next, fileVars, threadVars, historyVars>>

(* A recorded wallpaper is asked for, with the copy it has so far.         *)
Request(at, size) ==
  /\ main = "idle" /\ Len(jobs) + Len(done) < MaxJobs
  /\ At(mem, at) # NoPic
  /\ jobs' = Append(jobs, [slot |-> at, epoch |-> At(mem, at).epoch, uid |-> At(mem, at).uid,
                           size |-> size, asked |-> At(mem, at).asked])
  /\ UNCHANGED <<recordVars, fileVars, writing, done, main, historyVars>>

(* The entry with this epoch, given the size its copy was asked for.       *)
WithAsked(slots, epoch, asked) ==
  LET Noted(entry) == IF entry # NoPic /\ entry.epoch = epoch
                      THEN [entry EXCEPT !.asked = asked] ELSE entry
  IN [all |-> Noted(slots.all), own |-> [o \in Outputs |-> Noted(slots.own[o])]]

(* Mutant: the new size reaches the file with the next request only.       *)
StoredUnsaved ==
  /\ main = "idle" /\ done # <<>>
  /\ done' = Tail(done)
  /\ mem' = WithAsked(mem, Head(done).epoch, Head(done).size)
  /\ UNCHANGED <<disk, next, fileVars, jobs, writing, main, historyVars>>

(* `on_wallpaper_stored`: recorded and saved, unless nothing remembers the *)
(* wallpaper any more.                                                     *)
Stored ==
  /\ main = "idle" /\ done # <<>>
  /\ done' = Tail(done)
  /\ mem' = WithAsked(mem, Head(done).epoch, Head(done).size)
  /\ main' = IF \E at \in Slots(mem) : At(mem, at).epoch = Head(done).epoch
             THEN "saving" ELSE "idle"
  /\ UNCHANGED <<disk, next, fileVars, jobs, writing, historyVars>>

(* `Store::save`: the file is replaced, which may fail, and only then is   *)
(* what it no longer names deleted.                                        *)
SaveState ==
  /\ main = "saving"
  /\ disk' = mem
  /\ main' = "sweeping"
  /\ unsaved' = FALSE
  /\ UNCHANGED <<mem, next, fileVars, threadVars, born>>

(* Mutant: the directory is swept whether or not the file was replaced.    *)
SaveFailsSweeping ==
  /\ main = "saving"
  /\ main' = "sweeping"
  /\ unsaved' = TRUE
  /\ UNCHANGED <<recordVars, fileVars, threadVars, born>>

SaveFails ==
  /\ main = "saving"
  /\ main' = "idle"
  /\ unsaved' = TRUE
  /\ UNCHANGED <<recordVars, fileVars, threadVars, born>>

(* `atomic::sweep`: a file that will not go is left where it is.           *)
Sweep ==
  /\ main = "sweeping"
  /\ copies' \in {kept \in SUBSET copies :
                    \A c \in copies : NameIn(c) \in Named(mem) => c \in kept}
  /\ pending' \in SUBSET pending
  /\ main' = "idle"
  /\ UNCHANGED <<recordVars, threadVars, historyVars>>

-----------------------------------------------------------------------------
(***************************************************************************)
(* The decode thread, on the first job: `loader::read`.                    *)
(***************************************************************************)
Job == Head(jobs)
Working == main # "down" /\ jobs # <<>>

(* Served from the copy, if it was recorded as large enough. *)
CopyServes(j) == /\ Covers(j.asked, j.size)
                 /\ \E c \in copies : NameIn(c) = NameIn(j)
ServeCopy ==
  /\ Working /\ ~writing
  /\ CopyServes(Job)
  /\ jobs' = Tail(jobs)
  /\ UNCHANGED <<recordVars, fileVars, writing, done, main, historyVars>>

(* Otherwise from the source, of which a copy is begun.  A copy that will  *)
(* not read is no copy.                                                    *)
DecodeSource ==
  /\ Working /\ ~writing
  /\ pending' = pending \cup {NameIn(Job)}
  /\ writing' = TRUE
  /\ UNCHANGED <<recordVars, copies, jobs, done, main, historyVars>>

(* Neither would load, or the copy could not be written or renamed, which  *)
(* may leave the file behind.                                              *)
DecodeOrWriteFails ==
  /\ Working
  /\ pending' \in {pending, IF writing THEN pending \ {NameIn(Job)} ELSE pending}
  /\ writing' = FALSE
  /\ jobs' = Tail(jobs)
  /\ UNCHANGED <<recordVars, copies, done, main, historyVars>>

(* Renamed into place, over whatever copy had the name; the result goes to *)
(* the main thread.  A sweep may have taken the file away first.           *)
FinishCopy ==
  /\ Working /\ writing
  /\ NameIn(Job) \in pending
  /\ copies' = {c \in copies : NameIn(c) # NameIn(Job)} \cup
                 {[slot |-> Job.slot, epoch |-> Job.epoch, uid |-> Job.uid, size |-> Job.size]}
  /\ pending' = pending \ {NameIn(Job)}
  /\ done' = Append(done, [epoch |-> Job.epoch, size |-> Job.size])
  /\ writing' = FALSE
  /\ jobs' = Tail(jobs)
  /\ UNCHANGED <<recordVars, main, historyVars>>

-----------------------------------------------------------------------------
Main ==
  \/ SetTransient \/ Stored \/ SaveState \/ SaveFails \/ Sweep
  \/ \E at \in Addresses : Set(at) \/ Clear(at) \/ \E s \in Sizes : Request(at, s)

Thread == ServeCopy \/ DecodeSource \/ DecodeOrWriteFails \/ FinishCopy

Next == Open \/ Kill \/ Main \/ Thread

Spec == Init /\ [][Next]_vars

-----------------------------------------------------------------------------
(* Every variable has its type. *)
TypeOK ==
  /\ mem \in SlotsOf(Entries \cup {NoPic})
  /\ disk \in SlotsOf(Entries \cup {NoPic})
  /\ next \in Nat
  /\ copies \in SUBSET Copies
  /\ pending \in SUBSET Names
  /\ jobs \in Seq(Jobs)
  /\ writing \in BOOLEAN
  /\ done \in Seq([epoch: Nat, size: Sizes])
  /\ main \in {"down", "idle", "saving", "sweeping"}
  /\ born \in Nat /\ unsaved \in BOOLEAN

(* A copy recorded for a wallpaper, in memory or on disk, is a copy of     *)
(* that wallpaper and never of an earlier one that had its name.           *)
OwnCopy ==
  \A slots \in {mem, disk} : \A at \in Slots(slots) : \A c \in copies :
    At(slots, at).asked # None /\ NameIn(c) = NameOf(at, At(slots, at).epoch)
      => c.uid = At(slots, at).uid

(* The same for what the decode thread is about to serve.                  *)
ServesOwnCopy ==
  \A i \in 1..Len(jobs) : \A c \in copies :
    jobs[i].asked # None /\ NameIn(c) = NameIn(jobs[i]) => c.uid = jobs[i].uid

(* A copy the state file records is there, whenever the process is killed  *)
(* and whatever save failed before.                                        *)
RecordedCopyExists ==
  \A at \in Slots(disk) : At(disk, at).asked # None =>
    \E c \in copies : NameIn(c) = NameOf(at, At(disk, at).epoch)

(* Between two requests the record in memory and the one on disk are the   *)
(* same thing, unless the last save failed.                                *)
RecordAgrees == main \in {"idle", "sweeping"} /\ ~unsaved => mem = disk

-----------------------------------------------------------------------------
(***************************************************************************)
(* The inductive invariant behind them.                                    *)
(***************************************************************************)

(* A request as the record or a job knows it. *)
Ident(at, epoch, uid) == [slot |-> at, epoch |-> epoch, uid |-> uid]
IdentsIn(slots) ==
  {Ident(at, At(slots, at).epoch, At(slots, at).uid) : at \in Slots(slots)}
JobIdents ==
  {Ident(jobs[i].slot, jobs[i].epoch, jobs[i].uid) : i \in 1..Len(jobs)}
Idents == IdentsIn(mem) \cup IdentsIn(disk) \cup JobIdents

(* Within a run an epoch stands for one request, *)
EpochsApart == \A x, y \in Idents : x.epoch = y.epoch => x = y

(* and the next one has not been given out. *)
EpochsBelow ==
  main # "down" => /\ \A x \in Idents : x.epoch < next
                   /\ \A i \in 1..Len(done) : done[i].epoch < next

(* What the process had is gone with it; a sweep follows a save. *)
MainInv ==
  /\ main = "down" => mem = Empty /\ jobs = <<>> /\ done = <<>> /\ ~writing
  /\ main = "sweeping" => mem = disk
  /\ writing => jobs # <<>>

(* A copy reported or recorded is there, and whatever copy has the name of *)
(* a request that knows of one is its own.                                 *)
There(x) == \E c \in copies : NameIn(c) = NameIn(x)
Own(x) == \A c \in copies : NameIn(c) = NameIn(x) => c.uid = x.uid

DoneCopies ==
  \A i \in 1..Len(done) : \A x \in IdentsIn(mem) :
    x.epoch = done[i].epoch => There(x) /\ Own(x)

CopiedIn(slots) ==
  {Ident(at, At(slots, at).epoch, At(slots, at).uid) :
     at \in {b \in Slots(slots) : At(slots, b).asked # None}}
RecordCopies(slots) == \A x \in CopiedIn(slots) : There(x) /\ Own(x)

JobsCopied ==
  {Ident(jobs[i].slot, jobs[i].epoch, jobs[i].uid) :
     i \in {k \in 1..Len(jobs) : jobs[k].asked # None}}
JobCopies == \A x \in JobsCopied : Own(x)

ReportedInv == DoneCopies /\ RecordCopies(mem) /\ RecordCopies(disk) /\ JobCopies

(* All of them, with the types: inductive. *)
RememberInv ==
  TypeOK /\ EpochsApart /\ EpochsBelow /\ MainInv /\ ReportedInv /\ RecordAgrees

(* "decoded for a request at least this large, and is therefore usable     *)
(* without touching the source": a copy served is as large as the job.     *)
ServedLargeEnough ==
  [][ServeCopy => \E c \in copies : NameIn(c) = NameIn(Job) /\ Job.size \subseteq c.size]_vars
=============================================================================
