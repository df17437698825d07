---------------------------- MODULE NiriTracker ----------------------------
(***************************************************************************)
(* niri's event stream and the `Tracker` that turns it into positions      *)
(* (crates/compositor/src/backends/niri/translate.rs, wire.rs).            *)
(*                                                                         *)
(* niri itself is `world`.  Each change of it is described by a batch of   *)
(* lines, one per thing that differs, whose order nothing promises: the    *)
(* tracker reads them one by one and restates what it believes after each. *)
(* A line of an event the daemon does not know, or cannot read, changes    *)
(* nothing.                                                                *)
(***************************************************************************)
EXTENDS Channels, Sequences, SequencesExt

CONSTANTS
  Workspaces,
  Columns,    (* one-based columns of a scrolling layout                   *)
  Layouts,    (* the windows there may be before the daemon connects       *)
  MaxChanges  (* bound: changes of the world and reconnections             *)

ASSUME NiriAssumption ==
  /\ IsFiniteSet(Workspaces) /\ None \notin Workspaces
  /\ Columns \subseteq Nat \ {0} /\ MaxChanges \in Nat
  /\ Layouts \subseteq [Windows -> [on: Workspaces \cup {None}, col: Columns \cup {0}]]
  /\ \A at \in Layouts : \A x \in Windows : at[x].on = None => at[x].col = 0

VARIABLES
  world,      (* what is true of niri                                      *)
  stream,     (* batches of lines not read yet                             *)
  tracker,    (* Tracker                                                   *)
  driven,     (* Driven, as the daemon has it                              *)
  place,      (* history: where each workspace's scroll stood last         *)
  held,       (* history: columns of the windows each workspace had        *)
  changes

niriVars == <<world, stream, tracker, driven, place, held, changes, settings>>

Apart == 0                  (* no column: floating or fullscreen           *)

-----------------------------------------------------------------------------
(***************************************************************************)
(* niri.                                                                   *)
(***************************************************************************)
Placed(w) == UNION {ToSet(w.rows[o]) : o \in Outputs}
OutputOf(w, s) ==
  IF s \in Placed(w) THEN CHOOSE o \in Outputs : s \in ToSet(w.rows[o]) ELSE None

IdxOf(w, s) ==
  IF s \in Placed(w)
  THEN CHOOSE i \in DOMAIN w.rows[OutputOf(w, s)] : w.rows[OutputOf(w, s)][i] = s ELSE 1

SpaceOf(w, s) ==
  [id |-> s, output |-> OutputOf(w, s), idx |-> IdxOf(w, s),
   active |-> \E o \in Outputs : w.shown[o] = s, top |-> w.top[s]]

Spaces(w) == {SpaceOf(w, s) : s \in w.exist}
Arrangement(w) == {<<s.id, s.output, s.idx>> : s \in Spaces(w)}
Opened(w) == {x \in Windows : w.at[x].on # None}
WindowOf(w, x) ==
  [id |-> x, on |-> w.at[x].on, col |-> w.at[x].col, focused |-> w.focus = x]

(* What is said of one change.                                             *)
Lines(was, is) ==
  (IF Arrangement(was) # Arrangement(is)
   THEN {[says |-> "workspaces", all |-> Spaces(is)]}
   ELSE {[says |-> "activated", id |-> is.shown[o]] :
           o \in {p \in Outputs : is.shown[p] # was.shown[p]}}
        \cup {[says |-> "active-window", id |-> s, top |-> is.top[s]] :
                s \in {r \in is.exist : is.top[r] # was.top[r]}})
  \cup {[says |-> "window", window |-> WindowOf(is, x)] :
          x \in {y \in Opened(is) : was.at[y].on # is.at[y].on}}
  \cup {[says |-> "closed", id |-> x] : x \in Opened(was) \ Opened(is)}
  \cup (LET moved == {x \in Opened(is) : was.at[x].on = is.at[x].on /\ was.at[x].col # is.at[x].col}
        IN IF moved = {} THEN {}
           ELSE {[says |-> "layouts", cols |-> [x \in moved |-> is.at[x].col]]})
  \cup (IF was.focus = is.focus THEN {} ELSE {[says |-> "focus", id |-> is.focus]})
  \cup (IF was.overview = is.overview THEN {} ELSE {[says |-> "overview", open |-> is.overview]})

(* Where a workspace's scroll stands: at its active window's column, and   *)
(* where it stood before if that one has none.                             *)
Standing(w, before) ==
  [s \in Workspaces |->
     IF s \notin w.exist THEN Apart
     ELSE IF w.top[s] # None /\ w.at[w.top[s]].col # Apart THEN w.at[w.top[s]].col
     ELSE before[s]]

ColumnsHeld(w, before) ==
  [s \in Workspaces |-> before[s] \cup {w.at[x].col : x \in {y \in Windows : w.at[y].on = s}}]

Becomes(w) ==
  /\ changes < MaxChanges /\ changes' = changes + 1
  /\ w # world
  /\ world' = w
  /\ stream' = Append(stream, Lines(world, w))
  /\ place' = Standing(w, place)
  /\ held' = ColumnsHeld(w, held)
  /\ UNCHANGED <<tracker, driven>>

(* The window a workspace is left with when one goes.                      *)
Heirs(at, s) ==
  IF \E x \in Windows : at[x].on = s THEN {x \in Windows : at[x].on = s} ELSE {None}

(* A window arrives on a workspace, from outside or from another one, and  *)
(* may take its place and the focus.                                       *)
PlaceWindow(x, s, col) ==
  /\ s \in world.exist /\ world.at[x].on # s
  /\ LET at == [world.at EXCEPT ![x] = [on |-> s, col |-> col]]
         left == world.at[x].on
     IN \E heir \in (IF left # None /\ world.top[left] = x THEN Heirs(at, left) ELSE {None}),
           takes \in BOOLEAN :
          LET emptied == IF left # None /\ world.top[left] = x
                         THEN [world.top EXCEPT ![left] = heir] ELSE world.top
          IN Becomes([world EXCEPT
               !.at = at,
               !.top = IF takes \/ @[s] = None THEN [emptied EXCEPT ![s] = x] ELSE emptied,
               !.focus = IF takes THEN x ELSE @])

CloseWindow(x) ==
  /\ x \in Opened(world)
  /\ LET at == [world.at EXCEPT ![x] = [on |-> None, col |-> Apart]]
         left == world.at[x].on
     IN \E heir \in (IF world.top[left] = x THEN Heirs(at, left) ELSE {world.top[left]}) :
          Becomes([world EXCEPT !.at = at, !.top[left] = heir,
                                !.focus = IF @ = x THEN heir ELSE @])

(* A window is moved along the scroll, or out of it and back.              *)
MoveColumn(x, col) ==
  /\ x \in Opened(world)
  /\ Becomes([world EXCEPT !.at[x].col = col])

FocusWindow(x) ==
  /\ x \in Opened(world)
  /\ Becomes([world EXCEPT !.focus = x, !.top[world.at[x].on] = x])

Activate(s) ==
  /\ s \in Placed(world)
  /\ Becomes([world EXCEPT !.shown[OutputOf(world, s)] = s, !.focus = world.top[s]])

ToggleOverview == Becomes([world EXCEPT !.overview = ~@])

(* An empty workspace that is not shown goes.                              *)
RemoveWorkspace(s) ==
  /\ s \in Placed(world) /\ \A o \in Outputs : world.shown[o] # s
  /\ \A x \in Windows : world.at[x].on # s
  /\ Becomes([world EXCEPT !.exist = @ \ {s},
                           !.rows[OutputOf(world, s)] = RemoveAt(@, IdxOf(world, s))])

AddWorkspace(s, o) ==
  /\ s \notin world.exist /\ world.rows[o] # <<>>
  /\ Becomes([world EXCEPT !.exist = @ \cup {s}, !.rows[o] = Append(@, s)])

(* A workspace goes to another output, which shows it.                     *)
MoveWorkspace(s, o) ==
  /\ s \in Placed(world) /\ OutputOf(world, s) # o /\ world.rows[o] # <<>>
  /\ LET from == OutputOf(world, s)
     IN /\ Len(world.rows[from]) > 1
        /\ \E next \in ToSet(world.rows[from]) \ {s} :
             Becomes([world EXCEPT
               !.rows = [world.rows EXCEPT ![from] = RemoveAt(@, IdxOf(world, s)), ![o] = Append(@, s)],
               !.shown = [world.shown EXCEPT ![from] = IF @ = s THEN next ELSE @, ![o] = s]])

(* An output goes: its workspaces go to another one, or wait for one.      *)
Unplug(o) ==
  /\ world.rows[o] # <<>>
  /\ \E p \in Outputs \ {o} :
       Becomes([world EXCEPT
         !.rows = [world.rows EXCEPT ![o] = <<>>, ![p] = IF @ = <<>> THEN <<>> ELSE @ \o world.rows[o]],
         !.shown = [world.shown EXCEPT ![o] = None]])

(* An output comes: it has the workspaces that waited, or a new one.       *)
Plug(o, s) ==
  /\ world.rows[o] = <<>> /\ s \notin Placed(world)
  /\ LET waiting == world.exist \ Placed(world)
     IN \E row \in SetToSeqs(IF waiting = {} THEN {s} ELSE waiting) :
          /\ row[1] = s
          /\ Becomes([world EXCEPT
               !.exist = @ \cup {s}, !.rows[o] = row, !.shown[o] = s])

-----------------------------------------------------------------------------
(***************************************************************************)
(* The tracker.                                                            *)
(***************************************************************************)
NoSlot == [output |-> None, idx |-> 0, active |-> FALSE]

SlotOf(space) == [output |-> space.output, idx |-> space.idx, active |-> space.active]

NewTracker ==
  [slots |-> [s \in Workspaces |-> NoSlot],
   known |-> {},
   on |-> [x \in Windows |-> None], col |-> [x \in Windows |-> Apart],
   top |-> [s \in Workspaces |-> None], stands |-> [s \in Workspaces |-> Apart],
   focus |-> None, overview |-> FALSE]

(* `replace_workspaces` *)
ReplaceWorkspaces(t, all) ==
  LET Of(s) == CHOOSE space \in all : space.id = s
      ids == {space.id : space \in all}
  IN [t EXCEPT
        !.known = ids,
        !.slots = [s \in Workspaces |-> IF s \in ids THEN SlotOf(Of(s)) ELSE NoSlot],
        !.top = [s \in Workspaces |-> IF s \in ids THEN Of(s).top ELSE None],
        !.stands = [s \in Workspaces |-> IF s \in ids THEN @[s] ELSE Apart]]

(* `activate` *)
ActivateSlot(t, id) ==
  LET o == t.slots[id].output
  IN IF o = None THEN t ELSE
     [t EXCEPT !.slots = [s \in Workspaces |->
             IF @[s].output = o THEN [@[s] EXCEPT !.active = (s = id)] ELSE @[s]]]

(* `add_window` *)
AddWindow(t, window) ==
  [t EXCEPT !.on[window.id] = window.on, !.col[window.id] = window.col]

(* `replace_windows`: each is added to none.                               *)
ReplaceWindows(t, all) ==
  LET Of(x) == CHOOSE window \in all : window.id = x
      ids == {window.id : window \in all}
  IN [t EXCEPT
        !.on = [x \in Windows |-> IF x \in ids THEN Of(x).on ELSE None],
        !.col = [x \in Windows |-> IF x \in ids THEN Of(x).col ELSE Apart],
        !.focus = IF \E window \in all : window.focused
                  THEN (CHOOSE window \in all : window.focused).id ELSE None]

(* Mutant: the active window is believed, wherever it is.                  *)
RememberAnyway(t) ==
  [t EXCEPT !.stands = [s \in Workspaces |->
     IF t.top[s] # None /\ t.col[t.top[s]] # Apart THEN t.col[t.top[s]] ELSE @[s]]]

(* `remember_active_columns`: of the windows that are where the workspace  *)
(* claiming them is.                                                       *)
Remember(t) ==
  [t EXCEPT !.stands = [s \in Workspaces |->
     IF t.top[s] # None /\ t.on[t.top[s]] = s /\ t.col[t.top[s]] # Apart
     THEN t.col[t.top[s]] ELSE @[s]]]

(* `WindowClosed`: it is no workspace's active window any more.            *)
ForgetClosed(t, x) ==
  [t EXCEPT !.on[x] = None, !.col[x] = Apart, !.focus = IF @ = x THEN None ELSE @,
            !.top = [s \in Workspaces |-> IF @[s] = x THEN None ELSE @[s]]]

(* `Tracker::apply` *)
Apply(t, line) ==
  Remember(
    CASE line.says = "workspaces" -> ReplaceWorkspaces(t, line.all)
      [] line.says = "windows" -> ReplaceWindows(t, line.all)
      [] line.says = "activated" -> ActivateSlot(t, line.id)
      [] line.says = "active-window" -> [t EXCEPT !.top[line.id] = line.top]
      [] line.says = "window" ->
           [AddWindow(t, line.window) EXCEPT
              !.focus = IF line.window.focused THEN line.window.id ELSE @]
      [] line.says = "closed" -> ForgetClosed(t, line.id)
      [] line.says = "focus" -> [t EXCEPT !.focus = line.id]
      [] line.says = "layouts" ->
           [t EXCEPT !.col = [x \in Windows |->
              IF x \in DOMAIN line.cols THEN line.cols[x] ELSE @[x]]]
      [] line.says = "overview" -> [t EXCEPT !.overview = line.open])

Shown(t) == {t.slots[s].output : s \in t.known} \ {None}
Row(t, o) == {s \in t.known : t.slots[s].output = o}
ActiveOn(t, o) == {s \in Row(t, o) : t.slots[s].active}

(* `workspaces_by_output`, and the place of the active one in its row.     *)
WorkspaceStop(t, o) ==
  Progress(IF ActiveOn(t, o) = {} THEN 0 ELSE t.slots[CHOOSE s \in ActiveOn(t, o) : TRUE].idx,
           Cardinality(Row(t, o)))

(* `columns_on`: the rank of the remembered column among those there are.  *)
ColumnStop(t, o) ==
  IF ActiveOn(t, o) = {} THEN Centred ELSE
  LET s == CHOOSE r \in ActiveOn(t, o) : TRUE
      columns == {t.col[x] : x \in {y \in Windows : t.on[y] = s}} \ {Apart}
      before == Cardinality({c \in columns : c < t.stands[s]})
      rank == IF before < Cardinality(columns) THEN before + 1 ELSE Cardinality(columns)
  IN Progress(IF t.stands[s] = Apart THEN 0 ELSE rank, Cardinality(columns))

AxisStop(t, o, axis) ==
  CASE axis = "workspace" -> WorkspaceStop(t, o)
    [] axis = "column" -> ColumnStop(t, o)
    [] axis = "none" -> Centred

(* `focused_output` and `occupied`, as what `when` asks.                   *)
Reaches(t, o) ==
  IF settings[o].when = "focused"
  THEN /\ t.focus # None /\ t.on[t.focus] # None
       /\ t.slots[t.on[t.focus]].output = o
  ELSE /\ ActiveOn(t, o) # {}
       /\ \E x \in Windows : t.on[x] = CHOOSE s \in ActiveOn(t, o) : TRUE

(* `Tracker::drives`, for one output.                                      *)
Tells(t, o) ==
  LET reached == {p \in Shown(t) : Reaches(t, p)}
  IN [x |-> AxisStop(t, o, settings[o].horizontal), y |-> AxisStop(t, o, settings[o].vertical),
      blur |-> IF t.overview /\ settings[o].overview # "follow" THEN settings[o].overview = "blur"
               ELSE Blurred(o, Shown(t), reached),
      zoom_out |-> t.overview]

Restate(t) == Folded(driven, Shown(t), [o \in Shown(t) |-> Tells(t, o)])

ReadLine ==
  /\ stream # <<>> /\ Head(stream) # {}
  /\ \E line \in Head(stream) :
       /\ stream' = [stream EXCEPT ![1] = @ \ {line}]
       /\ tracker' = Apply(tracker, line)
  /\ driven' = Restate(tracker')
  /\ UNCHANGED <<world, place, held, changes>>

(* The end of a batch.                                                     *)
NextBatch ==
  /\ stream # <<>> /\ Head(stream) = {}
  /\ stream' = Tail(stream)
  /\ UNCHANGED <<world, tracker, driven, place, held, changes>>

(* What a connection starts with.                                          *)
Described(w) ==
  <<{[says |-> "workspaces", all |-> Spaces(w)]},
    {[says |-> "windows", all |-> {WindowOf(w, x) : x \in Opened(w)}]},
    {[says |-> "overview", open |-> w.overview]}>>

(* A connection that is lost, and the next: nothing is remembered but what *)
(* was driven last.                                                        *)
Reconnect ==
  /\ changes < MaxChanges /\ changes' = changes + 1
  /\ tracker' = NewTracker
  /\ stream' = Described(world)
  /\ place' = Standing(world, [s \in Workspaces |-> Apart])
  /\ held' = ColumnsHeld(world, [s \in Workspaces |-> {}])
  /\ UNCHANGED <<world, driven>>

(* Every workspace is somewhere in the row of one output, which shows its  *)
(* first; one window of each workspace that has any is its active one.     *)
Rows(exist) ==
  {rows \in [Outputs -> UNION {SetToSeqs(S) : S \in SUBSET exist}] :
     /\ \A s \in exist : \E o \in Outputs : s \in ToSet(rows[o])
     /\ \A o, p \in Outputs : o # p => ToSet(rows[o]) \cap ToSet(rows[p]) = {}}

Tops(at) ==
  {top \in [Workspaces -> Windows \cup {None}] : \A s \in Workspaces : top[s] \in Heirs(at, s)}

NiriInit ==
  /\ settings \in Configurations
  /\ \E exist \in SUBSET Workspaces, at \in Layouts : \E rows \in Rows(exist), top \in Tops(at) :
       /\ \A x \in Windows : at[x].on \in exist \cup {None}
       /\ world = [rows |-> rows, exist |-> exist, at |-> at, top |-> top, focus |-> None,
                   shown |-> [o \in Outputs |-> IF rows[o] = <<>> THEN None ELSE rows[o][1]],
                   overview |-> FALSE]
  /\ stream = Described(world)
  /\ tracker = NewTracker
  /\ driven = [o \in {} |-> Neutral]
  /\ place = Standing(world, [s \in Workspaces |-> Apart])
  /\ held = ColumnsHeld(world, [s \in Workspaces |-> {}])
  /\ changes = 0

NiriChanges ==
  \/ \E x \in Windows, s \in Workspaces, c \in Columns \cup {Apart} : PlaceWindow(x, s, c)
  \/ \E x \in Windows : CloseWindow(x) \/ FocusWindow(x)
  \/ \E x \in Windows, c \in Columns \cup {Apart} : MoveColumn(x, c)
  \/ \E s \in Workspaces : Activate(s) \/ RemoveWorkspace(s)
  \/ \E s \in Workspaces, o \in Outputs : AddWorkspace(s, o) \/ MoveWorkspace(s, o) \/ Plug(o, s)
  \/ \E o \in Outputs : Unplug(o)
  \/ ToggleOverview

NiriNext ==
  /\ NiriChanges \/ ReadLine \/ NextBatch \/ Reconnect
  /\ UNCHANGED settings

NiriSpec == NiriInit /\ [][NiriNext]_niriVars

-----------------------------------------------------------------------------
(* Every variable has its type, and every stop is within its row. *)
NiriTypeOK ==
  /\ tracker.known \subseteq Workspaces
  /\ tracker.slots \in [Workspaces -> [output: Outputs \cup {None}, idx: Nat, active: BOOLEAN]]
  /\ tracker.on \in [Windows -> Workspaces \cup {None}]
  /\ tracker.col \in [Windows -> Columns \cup {Apart}]
  /\ tracker.top \in [Workspaces -> Windows \cup {None}]
  /\ tracker.stands \in [Workspaces -> Columns \cup {Apart}]
  /\ tracker.focus \in Windows \cup {None} /\ tracker.overview \in BOOLEAN
  /\ DOMAIN driven \subseteq Outputs
  /\ \A o \in DOMAIN driven :
       /\ IsStop(driven[o].x) /\ IsStop(driven[o].y)
       /\ driven[o].blur \in BOOLEAN /\ driven[o].zoom_out \in BOOLEAN
  /\ changes \in 0..MaxChanges

Drained == \A i \in DOMAIN stream : stream[i] = {}

(* niri as a tracker that missed nothing and read nothing out of order.    *)
AsTracked(w) ==
  [slots |-> [s \in Workspaces |-> IF s \in w.exist THEN SlotOf(SpaceOf(w, s)) ELSE NoSlot],
   known |-> w.exist,
   on |-> [x \in Windows |-> w.at[x].on], col |-> [x \in Windows |-> w.at[x].col],
   top |-> w.top, stands |-> place, focus |-> w.focus, overview |-> w.overview]

(* However the lines of each change were ordered, what is driven once they *)
(* were read is what niri is: on every output, every axis and the blur.    *)
Converges ==
  Drained => driven = [o \in Shown(AsTracked(world)) |-> Tells(AsTracked(world), o)]

(* The column a workspace is credited with is one a window had there,      *)
(* never that of a window that went to another one.                        *)
NoForeignColumn == \A s \in Workspaces : tracker.stands[s] \in held[s] \cup {Apart}

(* What niri is, is driven once it was said, and no column comes from      *)
(* elsewhere.                                                              *)
PositionsConverge == NiriTypeOK /\ Converges /\ NoForeignColumn

(* A monitor whose focused window has no column is centred on the axis that*)
(* follows the columns.                                                    *)
FloatingCentred ==
  Drained => \A o \in DOMAIN driven, x \in Windows :
    /\ settings[o].horizontal = "column"
    /\ world.focus = x /\ world.at[x].col = Apart /\ world.shown[o] = world.at[x].on
    => driven[o].x = Centred
=============================================================================
