------------------------------- MODULE Binding -------------------------------
(***************************************************************************)
(* Who has the control socket: `Server::bind` and `Drop` of `Server`       *)
(* (crates/control/src/server.rs), by several daemons started on the same  *)
(* path, each step of which is a system call of its own.  A daemon may be  *)
(* killed, which leaves its file behind, and started again.                *)
(*                                                                         *)
(* Abstracted: what a daemon does between binding and ending (Control),    *)
(* permissions, a path that is something else than a socket.               *)
(***************************************************************************)
EXTENDS Naturals

CONSTANTS
  Daemons,
  Nobody,     (* no file at the path                                       *)
  MaxStarts   (* bound: starts                                             *)

ASSUME BindingAssumption == Nobody \notin Daemons /\ MaxStarts \in Nat

VARIABLES
  process,         (* "down", "looking", "asking", "clearing", "binding", "up", *)
              (* "ending", "removed", "refused"                            *)
  path,       (* whose socket is at the path                               *)
  listens,    (* daemons whose socket is open                              *)
  starts,     (* history: starts so far                                    *)
  raced       (* history: two daemons were binding at once                 *)

bindingVars == <<process, path, listens, starts, raced>>

BindingInit ==
  /\ process = [d \in Daemons |-> "down"]
  /\ path = Nobody /\ listens = {}
  /\ starts = 0 /\ raced = FALSE

BindingNow(d) == process[d] \in {"looking", "asking", "clearing", "binding"}

Launch(d) ==
  /\ process[d] \in {"down", "refused"} /\ starts < MaxStarts
  /\ process' = [process EXCEPT ![d] = "looking"]
  /\ starts' = starts + 1
  /\ raced' = (raced \/ \E e \in Daemons \ {d} : BindingNow(e))
  /\ UNCHANGED <<path, listens>>

(* `path.exists()` *)
Look(d) ==
  /\ process[d] = "looking"
  /\ process' = [process EXCEPT ![d] = IF path = Nobody THEN "binding" ELSE "asking"]
  /\ UNCHANGED <<path, listens, starts, raced>>

(* Mutant: a file at the path is taken over without asking.                *)
AskNobody(d) ==
  /\ process[d] = "asking"
  /\ process' = [process EXCEPT ![d] = "clearing"]
  /\ UNCHANGED <<path, listens, starts, raced>>

(* `UnixStream::connect`: somebody answers, or nobody does. *)
AskPath(d) ==
  /\ process[d] = "asking"
  /\ process' = [process EXCEPT ![d] = IF path \in listens THEN "refused" ELSE "clearing"]
  /\ UNCHANGED <<path, listens, starts, raced>>

(* Mutant: the file left behind is left there.                             *)
ClearNothing(d) ==
  /\ process[d] = "clearing"
  /\ process' = [process EXCEPT ![d] = "binding"]
  /\ UNCHANGED <<path, listens, starts, raced>>

(* `fs::remove_file`, of whatever is at the path by now. *)
Clear(d) ==
  /\ process[d] = "clearing"
  /\ path' = Nobody
  /\ process' = [process EXCEPT ![d] = "binding"]
  /\ UNCHANGED <<listens, starts, raced>>

(* `UnixListener::bind`, which does not replace a file. *)
Bind(d) ==
  /\ process[d] = "binding"
  /\ IF path = Nobody
     THEN /\ process' = [process EXCEPT ![d] = "up"]
          /\ path' = d /\ listens' = listens \cup {d}
     ELSE /\ process' = [process EXCEPT ![d] = "refused"]
          /\ UNCHANGED <<path, listens>>
  /\ UNCHANGED <<starts, raced>>

(* Told to stop. *)
End(d) ==
  /\ process[d] = "up"
  /\ process' = [process EXCEPT ![d] = "ending"]
  /\ UNCHANGED <<path, listens, starts, raced>>

(* `drop`: whatever is at the path is removed, *)
Remove(d) ==
  /\ process[d] = "ending"
  /\ path' = Nobody
  /\ process' = [process EXCEPT ![d] = "removed"]
  /\ UNCHANGED <<listens, starts, raced>>

(* and the process, whose accept thread has the socket open, exits. *)
Quit(d) ==
  /\ process[d] = "removed"
  /\ listens' = listens \ {d}
  /\ process' = [process EXCEPT ![d] = "down"]
  /\ UNCHANGED <<path, starts, raced>>

(* Killed at any moment: the kernel closes the socket, and the file stays. *)
Kill(d) ==
  /\ process[d] \notin {"down", "refused"}
  /\ listens' = listens \ {d}
  /\ process' = [process EXCEPT ![d] = "down"]
  /\ UNCHANGED <<path, starts, raced>>

Steps(d) ==
  Look(d) \/ AskPath(d) \/ Clear(d) \/ Bind(d) \/ Remove(d) \/ Quit(d)

BindingNext == \E d \in Daemons : Launch(d) \/ Steps(d) \/ End(d) \/ Kill(d)

BindingSpec == BindingInit /\ [][BindingNext]_bindingVars

(* Every process runs. *)
FairBindingSpec == BindingSpec /\ \A d \in Daemons : WF_bindingVars(Steps(d))

-----------------------------------------------------------------------------
(* Every variable has its type, and a socket is open from bind to exit.    *)
BindingTypeOK ==
  /\ process \in [Daemons -> {"down", "looking", "asking", "clearing", "binding", "up",
                         "ending", "removed", "refused"}]
  /\ path \in Daemons \cup {Nobody}
  /\ listens = {d \in Daemons : process[d] \in {"up", "ending", "removed"}}
  /\ starts \in 0..MaxStarts /\ raced \in BOOLEAN

Up == {d \in Daemons : process[d] \in {"up", "ending"}}

(* "so that a second daemon refuses before it has drawn anything": of two  *)
(* daemons at most one runs.                                               *)
SoleDaemon == \A d, e \in Up : d = e

(* The same where no two daemons were binding at the same time, with the   *)
(* path leading to the one that runs: whatever was killed or ended before, *)
(* and while another one was starting.                                     *)
SoleUnlessRaced ==
  ~raced => /\ SoleDaemon
            /\ \A d \in Up : path = d

(* Behind it: one daemon binds at a time, what it found out about the path *)
(* stays true until it has bound, and the path leads to the one that runs. *)
BindingInv ==
  /\ BindingTypeOK
  /\ ~raced =>
       /\ \A d, e \in Daemons : BindingNow(d) /\ BindingNow(e) => d = e
       /\ \A d \in Daemons : process[d] = "clearing" => Up = {}
       /\ \A d \in Daemons : process[d] = "binding" => path = Nobody
       /\ \A d \in Up : path = d

(* A file nobody answers on does not keep a daemon from starting.          *)
TakesOver ==
  \A d \in Daemons :
    (BindingNow(d) /\ listens = {} /\ ~raced)
      ~> (process[d] \in {"up", "down"} \/ listens # {} \/ raced)
=============================================================================
