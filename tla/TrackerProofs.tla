---------------------------- MODULE TrackerProofs ----------------------------
(***************************************************************************)
(* What is proved of the two trackers, for any outputs, windows, settings, *)
(* workspaces, columns and layouts of niri and numbers of Hyprland: that   *)
(* positions converge, of niri's, then that snapshots do, of Hyprland's.   *)
(***************************************************************************)
EXTENDS NiriTracker, HyprTracker, FiniteSetTheorems, SequenceTheorems, TLAPS

-----------------------------------------------------------------------------
Trackers ==
  [slots: [Workspaces -> [output: Outputs \cup {None}, idx: Nat, active: BOOLEAN]],
   known: SUBSET Workspaces,
   on: [Windows -> Workspaces \cup {None}], col: [Windows -> Columns \cup {Apart}],
   top: [Workspaces -> Windows \cup {None}], stands: [Workspaces -> Columns \cup {Apart}],
   focus: Windows \cup {None}, overview: BOOLEAN]

(* The active window of a workspace is on it and has a column.             *)
Follows(t, s) == t.top[s] # None /\ t.on[t.top[s]] = s /\ t.col[t.top[s]] # Apart

Remembered(t) == \A s \in Workspaces : Follows(t, s) => t.stands[s] = t.col[t.top[s]]

(* What a line says is so.                                                 *)
IsSo(line, e) ==
  \/ /\ line.says = "workspaces"
     /\ e.known = ReplaceWorkspaces(e, line.all).known
     /\ e.slots = ReplaceWorkspaces(e, line.all).slots
     /\ e.top = ReplaceWorkspaces(e, line.all).top
     /\ e.stands = ReplaceWorkspaces(e, line.all).stands
  \/ /\ line.says = "windows"
     /\ e.on = ReplaceWindows(e, line.all).on
     /\ e.col = ReplaceWindows(e, line.all).col
     /\ e.focus = ReplaceWindows(e, line.all).focus
  \/ /\ line.says = "activated" /\ line.id \in Workspaces
     /\ e.slots[line.id].output # None
     /\ \A s \in Workspaces : e.slots[s].output = e.slots[line.id].output
                                => e.slots[s].active = (s = line.id)
  \/ /\ line.says = "active-window" /\ line.id \in Workspaces
     /\ e.top[line.id] = line.top
  \/ /\ line.says = "window" /\ line.window.id \in Windows
     /\ e.on[line.window.id] = line.window.on /\ e.col[line.window.id] = line.window.col
     /\ line.window.focused \in BOOLEAN
     /\ line.window.focused => e.focus = line.window.id
  \/ /\ line.says = "closed" /\ line.id \in Windows
     /\ e.on[line.id] = None /\ e.col[line.id] = Apart /\ e.focus # line.id
     /\ \A s \in Workspaces : e.top[s] # line.id
  \/ line.says = "focus" /\ e.focus = line.id
  \/ /\ line.says = "layouts"
     /\ \A x \in DOMAIN line.cols : x \in Windows /\ e.col[x] = line.cols[x]
  \/ line.says = "overview" /\ e.overview = line.open

(* What is to change is said.                                              *)
SlotSaid(t, lines, e, s) ==
  \/ t.slots[s] = e.slots[s]
  \/ \E line \in lines : line.says = "workspaces"
  \/ /\ t.slots[s].output = e.slots[s].output /\ t.slots[s].idx = e.slots[s].idx
     /\ \E line \in lines : line.says = "activated"
                            /\ e.slots[line.id].output = e.slots[s].output
TopSaid(t, lines, e, s) ==
  \/ t.top[s] = e.top[s]
  \/ \E line \in lines : line.says = "workspaces" \/ (line.says = "active-window" /\ line.id = s)
WindowSaid(t, lines, e, x) ==
  \/ t.on[x] = e.on[x] /\ t.col[x] = e.col[x]
  \/ \E line \in lines :
       \/ line.says = "windows"
       \/ line.says = "window" /\ line.window.id = x
       \/ line.says = "closed" /\ line.id = x
       \/ line.says = "layouts" /\ x \in DOMAIN line.cols /\ t.on[x] = e.on[x]
Stays(t, line, e) ==
  line.says = "layouts" => \A x \in Windows : x \in DOMAIN line.cols => t.on[x] = e.on[x]
Said(t, lines, e) ==
  /\ t.known = e.known \/ \E line \in lines : line.says = "workspaces"
  /\ t.focus = e.focus \/ \E line \in lines : line.says \in {"focus", "windows"}
  /\ t.overview = e.overview \/ \E line \in lines : line.says = "overview"
  /\ \A s \in Workspaces : SlotSaid(t, lines, e, s) /\ TopSaid(t, lines, e, s)
  /\ \A x \in Windows : WindowSaid(t, lines, e, x)
  /\ \A line \in lines : Stays(t, line, e)

(* A workspace that is to follow no window is left where it is: what may   *)
(* be taken for its active window on the way stands there.                 *)
StandsThere(u, x, s, e) ==
  x \in Windows /\ u.on[x] = s /\ u.col[x] # Apart => u.col[x] = e.stands[s]
Left(t, lines, e, s) ==
  \/ /\ s \notin e.known /\ e.stands[s] = Apart
     /\ \E line \in lines : line.says = "workspaces"
  \/ /\ t.stands[s] = e.stands[s]
     /\ \A x \in {t.top[s], e.top[s]} : StandsThere(t, x, s, e) /\ StandsThere(e, x, s, e)

(* Whatever the order they are read in, the lines take the tracker there.  *)
Leads(t, lines, e) ==
  /\ Remembered(t) /\ Remembered(e)
  /\ \A line \in lines : IsSo(line, e)
  /\ Said(t, lines, e)
  /\ \A s \in Workspaces : Follows(e, s) \/ Left(t, lines, e, s)

(* niri *)
RowsOK(exist, rows, shown) ==
  /\ rows \in [Outputs -> Seq(Workspaces)]
  /\ \A o \in Outputs : ToSet(rows[o]) \subseteq exist
  /\ \A o \in Outputs : \A i, j \in DOMAIN rows[o] : rows[o][i] = rows[o][j] => i = j
  /\ \A o, p \in Outputs : o # p => ToSet(rows[o]) \cap ToSet(rows[p]) = {}
  /\ shown \in [Outputs -> Workspaces \cup {None}]
  /\ \A o \in Outputs : IF rows[o] = <<>> THEN shown[o] = None ELSE shown[o] \in ToSet(rows[o])
WindowsOK(exist, at, top, focus) ==
  /\ at \in [Windows -> [on: Workspaces \cup {None}, col: Columns \cup {Apart}]]
  /\ \A x \in Windows : at[x].on \in exist \cup {None} /\ (at[x].on = None => at[x].col = Apart)
  /\ top \in [Workspaces -> Windows \cup {None}]
  /\ \A s \in Workspaces : top[s] # None => at[top[s]].on = s
  /\ focus \in Windows \cup {None}
  /\ focus # None => at[focus].on # None
Worlds ==
  [rows: [Outputs -> Seq(Workspaces)], exist: SUBSET Workspaces,
   at: [Windows -> [on: Workspaces \cup {None}, col: Columns \cup {Apart}]],
   top: [Workspaces -> Windows \cup {None}], focus: Windows \cup {None},
   shown: [Outputs -> Workspaces \cup {None}], overview: BOOLEAN]
WorldOK(w) ==
  /\ w \in Worlds
  /\ w.exist \subseteq Workspaces /\ w.overview \in BOOLEAN
  /\ RowsOK(w.exist, w.rows, w.shown) /\ WindowsOK(w.exist, w.at, w.top, w.focus)

(* Each column is one a window had there.                                  *)
Had(e, columns) ==
  /\ \A s \in Workspaces : e.stands[s] \in columns[s] \cup {Apart}
  /\ \A x \in Windows, s \in Workspaces : e.on[x] = s => e.col[x] \in columns[s] \cup {Apart}

(* From batch to batch.                                                    *)
Linked(e, batches, from, to, columns) ==
  /\ batches \in Seq(ToSet(batches))
  /\ e \in [0..Len(batches) -> Trackers]
  /\ e[0] = from /\ e[Len(batches)] = to
  /\ \A i \in 1..Len(batches) : Leads(e[i - 1], batches[i], e[i])
  /\ \A i, k \in 0..Len(batches) :
       i <= k /\ (\A j \in (i + 1)..k : batches[j] = {}) => e[i] = e[k]
  /\ \A i \in 0..Len(batches) : Had(e[i], columns)

(* The tracker after a line, before it remembers: `u`. *)
Effect(t, u, lines, line, e) ==
  /\ u \in Trackers
  /\ Said(u, lines \ {line}, e)
  /\ \A x \in Windows : \/ u.on[x] = t.on[x] /\ u.col[x] = t.col[x]
                        \/ u.on[x] = e.on[x] /\ u.col[x] = e.col[x]
  /\ \A s \in Workspaces : u.top[s] \in {t.top[s], e.top[s], None}
  /\ \A s \in Workspaces :
       \/ u.stands[s] = t.stands[s] /\ line.says # "workspaces"
       \/ u.stands[s] = t.stands[s] /\ s \in e.known
       \/ s \notin e.known /\ u.stands[s] = Apart /\ u.top[s] = None
          /\ e.top[s] = None /\ e.stands[s] = Apart

(* After a line the tracker remembers what the active windows say, and is  *)
(* no further off.                                                         *)
LEMMA Remembering ==
  ASSUME NEW t \in Trackers, NEW e \in Trackers, NEW u \in Trackers, NEW lines, NEW line \in lines,
         Leads(t, lines, e), Effect(t, u, lines, line, e)
  PROVE  /\ Remember(u) \in Trackers
         /\ Leads(Remember(u), lines \ {line}, e)
         /\ \A x \in Windows : \/ Remember(u).on[x] = t.on[x] /\ Remember(u).col[x] = t.col[x]
                               \/ Remember(u).on[x] = e.on[x] /\ Remember(u).col[x] = e.col[x]
         /\ \A s \in Workspaces :
              \/ Remember(u).stands[s] \in {t.stands[s], Apart}
              \/ \E x \in Windows : u.on[x] = s /\ u.col[x] = Remember(u).stands[s]
<1> DEFINE v == Remember(u)
<1> USE ChannelsAssumption, NiriAssumption
<1>1. /\ v \in Trackers /\ v = [u EXCEPT !.stands = v.stands]
      /\ v.stands = [s \in Workspaces |-> IF Follows(u, s) THEN u.col[u.top[s]] ELSE u.stands[s]]
  BY DEF Trackers, Remember, Follows
<1>2. v.slots = u.slots /\ v.known = u.known /\ v.on = u.on /\ v.col = u.col /\ v.top = u.top
      /\ v.focus = u.focus /\ v.overview = u.overview
  BY <1>1 DEF Trackers
<1>3. Remembered(v)
  BY <1>1, <1>2 DEF Remembered, Follows
<1>4. Said(v, lines \ {line}, e)
  BY <1>2 DEF Effect, Said, SlotSaid, TopSaid, WindowSaid, Stays
<1>5. Remembered(e) /\ \A l \in lines \ {line} : IsSo(l, e)
  BY DEF Leads
<1>6. ASSUME NEW s \in Workspaces, ~Follows(e, s) PROVE Left(v, lines \ {line}, e, s)
  <2>1. CASE s \notin e.known /\ u.stands[s] = Apart /\ u.top[s] = None
             /\ e.top[s] = None /\ e.stands[s] = Apart
    BY <2>1, <1>1, <1>2 DEF Left, StandsThere, Follows
  <2>2. CASE u.stands[s] = t.stands[s] /\ (line.says # "workspaces" \/ s \in e.known)
    <3>1. Left(t, lines, e, s)
      BY <1>6 DEF Leads
    <3>2. CASE s \notin e.known /\ e.stands[s] = Apart /\ \E l \in lines : l.says = "workspaces"
      BY <3>2, <2>2 DEF Left
    <3>3. CASE /\ t.stands[s] = e.stands[s]
               /\ \A x \in {t.top[s], e.top[s]} : StandsThere(t, x, s, e) /\ StandsThere(e, x, s, e)
      <4>1. ASSUME NEW x \in {u.top[s], e.top[s]} PROVE StandsThere(u, x, s, e)
        BY <4>1, <3>3 DEF Effect, StandsThere
      <4>2. v.stands[s] = e.stands[s]
        BY <4>1, <1>1, <2>2, <3>3 DEF Follows, StandsThere, Trackers
      <4>3. ASSUME NEW x \in {u.top[s], e.top[s]} PROVE StandsThere(e, x, s, e)
        BY <4>3, <3>3 DEF Effect, StandsThere
      <4> QED BY <4>1, <4>2, <4>3, <1>2 DEF Left, StandsThere
    <3> QED BY <3>1, <3>2, <3>3 DEF Left
  <2> QED BY <2>1, <2>2 DEF Effect
<1>7. ASSUME NEW s \in Workspaces
      PROVE  \/ v.stands[s] \in {t.stands[s], Apart}
             \/ \E x \in Windows : u.on[x] = s /\ u.col[x] = v.stands[s]
  <2>1. u.stands[s] \in {t.stands[s], Apart}
    BY DEF Effect
  <2>2. CASE Follows(u, s)
    <3>1. u.top[s] \in Windows
      BY <2>2 DEF Follows, Trackers
    <3> QED BY <2>2, <3>1, <1>1 DEF Follows
  <2> QED BY <1>1, <2>1, <2>2
<1>8. Leads(v, lines \ {line}, e)
  BY <1>3, <1>4, <1>5, <1>6 DEF Leads
<1>9. ASSUME NEW x \in Windows
      PROVE  \/ v.on[x] = t.on[x] /\ v.col[x] = t.col[x]
             \/ v.on[x] = e.on[x] /\ v.col[x] = e.col[x]
  <2>1. \/ u.on[x] = t.on[x] /\ u.col[x] = t.col[x]
        \/ u.on[x] = e.on[x] /\ u.col[x] = e.col[x]
    BY DEF Effect
  <2> QED BY <2>1, <1>2
<1>10. v \in Trackers
  BY <1>1
<1> QED BY <1>7, <1>8, <1>9, <1>10, Zenon

(* One lemma for each kind of line.                                        *)
LEMMA AfterWorkspaces ==
  ASSUME NEW t \in Trackers, NEW e \in Trackers, NEW lines, NEW line \in lines,
         Leads(t, lines, e), line.says = "workspaces",
         NEW u, u = ReplaceWorkspaces(t, line.all)
  PROVE  Effect(t, u, lines, line, e)
<1>1. IsSo(line, e)
  BY DEF Leads
<1>2. /\ e.known = {space.id : space \in line.all}
      /\ e.slots = u.slots /\ e.top = u.top /\ u.known = e.known
      /\ \A s \in Workspaces : s \notin e.known => e.top[s] = None /\ e.stands[s] = Apart
  BY <1>1 DEF IsSo, ReplaceWorkspaces, Trackers
<1>3. /\ u.on = t.on /\ u.col = t.col /\ u.focus = t.focus /\ u.overview = t.overview
      /\ u.stands = [s \in Workspaces |-> IF s \in e.known THEN t.stands[s] ELSE Apart]
  BY <1>2 DEF ReplaceWorkspaces, Trackers
<1>4. u \in Trackers
  <2>1. u = [t EXCEPT !.known = u.known, !.slots = u.slots, !.top = u.top, !.stands = u.stands]
    BY DEF ReplaceWorkspaces, Trackers
  <2>2. u.stands \in [Workspaces -> Columns \cup {Apart}]
    BY <1>3 DEF Trackers
  <2> QED BY <1>2, <2>1, <2>2 DEF Trackers
<1>5. Said(u, lines \ {line}, e)
  BY <1>2, <1>3 DEF Leads, Said, SlotSaid, TopSaid, WindowSaid, Stays
<1>6. ASSUME NEW s \in Workspaces
      PROVE  \/ u.stands[s] = t.stands[s] /\ s \in e.known
             \/ s \notin e.known /\ u.stands[s] = Apart /\ u.top[s] = None
                /\ e.top[s] = None /\ e.stands[s] = Apart
  BY <1>2, <1>3
<1>7. \A x \in Windows : u.on[x] = t.on[x] /\ u.col[x] = t.col[x]
  BY <1>3
<1>8. \A s \in Workspaces : u.top[s] \in {t.top[s], e.top[s], None}
  BY <1>2
<1> QED BY <1>4, <1>5, <1>6, <1>7, <1>8 DEF Effect

(* All windows at once, as a connection begins.                            *)
LEMMA AfterWindows ==
  ASSUME NEW t \in Trackers, NEW e \in Trackers, NEW lines, NEW line \in lines,
         Leads(t, lines, e), line.says = "windows",
         NEW u, u = ReplaceWindows(t, line.all)
  PROVE  Effect(t, u, lines, line, e)
<1>1. IsSo(line, e)
  BY DEF Leads
<1>2. e.on = u.on /\ e.col = u.col /\ e.focus = u.focus
  BY <1>1 DEF IsSo, ReplaceWindows, Trackers
<1>3. /\ u.slots = t.slots /\ u.known = t.known /\ u.top = t.top /\ u.stands = t.stands
      /\ u.overview = t.overview
  BY DEF ReplaceWindows, Trackers
<1>4. u \in Trackers
  <2>1. u = [t EXCEPT !.on = u.on, !.col = u.col, !.focus = u.focus]
    BY DEF ReplaceWindows, Trackers
  <2> QED BY <1>2, <2>1 DEF Trackers
<1>5. Said(u, lines \ {line}, e)
  BY <1>2, <1>3 DEF Leads, Said, SlotSaid, TopSaid, WindowSaid, Stays
<1> QED BY <1>2, <1>3, <1>4, <1>5 DEF Effect

(* One workspace of an output becomes the active one.                      *)
LEMMA AfterActivated ==
  ASSUME NEW t \in Trackers, NEW e \in Trackers, NEW lines, NEW line \in lines,
         Leads(t, lines, e), line.says = "activated",
         NEW u, u = ActivateSlot(t, line.id)
  PROVE  Effect(t, u, lines, line, e)
<1>1. IsSo(line, e)
  BY DEF Leads
<1>2. /\ line.id \in Workspaces /\ e.slots[line.id].output # None
      /\ \A s \in Workspaces : e.slots[s].output = e.slots[line.id].output
                                => e.slots[s].active = (s = line.id)
  BY <1>1 DEF IsSo
<1>3. /\ u.known = t.known /\ u.top = t.top /\ u.stands = t.stands /\ u.on = t.on /\ u.col = t.col
      /\ u.focus = t.focus /\ u.overview = t.overview
  BY DEF ActivateSlot, Trackers
<1>4. ASSUME NEW s \in Workspaces
      PROVE  u.slots[s] = IF /\ t.slots[line.id].output # None
                             /\ t.slots[s].output = t.slots[line.id].output
                          THEN [output |-> t.slots[s].output, idx |-> t.slots[s].idx,
                                active |-> (s = line.id)]
                          ELSE t.slots[s]
  <2>1. t.slots[s] = [output |-> t.slots[s].output, idx |-> t.slots[s].idx,
                      active |-> t.slots[s].active]
    BY DEF Trackers
  <2>2. [t.slots[s] EXCEPT !.active = (s = line.id)]
          = [output |-> t.slots[s].output, idx |-> t.slots[s].idx, active |-> (s = line.id)]
    BY <2>1
  <2> QED BY <1>2, <2>2 DEF ActivateSlot, Trackers
<1>5. u \in Trackers
  <2>1. /\ u = [t EXCEPT !.slots = u.slots]
        /\ u.slots = [s \in Workspaces |-> u.slots[s]]
    BY DEF ActivateSlot, Trackers
  <2>2. ASSUME NEW s \in Workspaces
        PROVE  u.slots[s] \in [output: Outputs \cup {None}, idx: Nat, active: BOOLEAN]
    <3>1. t.slots[s] \in [output: Outputs \cup {None}, idx: Nat, active: BOOLEAN]
      BY DEF Trackers
    <3>2. (s = line.id) \in BOOLEAN
      OBVIOUS
    <3>3. [output |-> t.slots[s].output, idx |-> t.slots[s].idx, active |-> (s = line.id)]
            \in [output: Outputs \cup {None}, idx: Nat, active: BOOLEAN]
      BY <3>1, <3>2
    <3> QED BY <1>4, <3>1, <3>3
  <2>3. u.slots \in [Workspaces -> [output: Outputs \cup {None}, idx: Nat, active: BOOLEAN]]
    BY <2>1, <2>2
  <2> QED BY <2>1, <2>3 DEF Trackers
<1>6. ASSUME NEW s \in Workspaces PROVE SlotSaid(u, lines \ {line}, e, s)
  <2>1. CASE \E l \in lines : l.says = "workspaces"
    BY <2>1 DEF SlotSaid
  <2>2. CASE ~\E l \in lines : l.says = "workspaces"
    <3>1. \A r \in Workspaces : /\ t.slots[r].output = e.slots[r].output
                               /\ t.slots[r].idx = e.slots[r].idx
      BY <2>2 DEF Leads, Said, SlotSaid
    <3>2. CASE e.slots[s].output = e.slots[line.id].output
      <4>1. u.slots[s] = [output |-> e.slots[s].output, idx |-> e.slots[s].idx,
                          active |-> (s = line.id)]
        BY <3>1, <3>2, <1>2, <1>4
      <4>2. /\ e.slots[s] = [output |-> e.slots[s].output, idx |-> e.slots[s].idx,
                             active |-> e.slots[s].active]
            /\ e.slots[s].active = (s = line.id)
        BY <3>2, <1>2 DEF Trackers
      <4> QED BY <4>1, <4>2, Zenon DEF SlotSaid
    <3>3. CASE e.slots[s].output # e.slots[line.id].output
      <4>1. u.slots[s] = t.slots[s]
        BY <3>1, <3>3, <1>2, <1>4
      <4> QED BY <4>1, <3>1, <3>3, <2>2 DEF Leads, Said, SlotSaid
    <3> QED BY <3>2, <3>3
  <2> QED BY <2>1, <2>2
<1>7. Said(u, lines \ {line}, e)
  <2>1. \A l \in lines \ {line} : Stays(u, l, e)
    BY <1>3 DEF Leads, Said, Stays
  <2>2. \A x \in Windows : WindowSaid(u, lines \ {line}, e, x)
    BY <1>3 DEF Leads, Said, WindowSaid
  <2>3. \A s \in Workspaces : TopSaid(u, lines \ {line}, e, s)
    BY <1>3 DEF Leads, Said, TopSaid
  <2> QED BY <1>3, <1>6, <2>1, <2>2, <2>3 DEF Leads, Said
<1> QED BY <1>3, <1>5, <1>7 DEF Effect

(* A workspace has another active window.                                  *)
LEMMA AfterActiveWindow ==
  ASSUME NEW t \in Trackers, NEW e \in Trackers, NEW lines, NEW line \in lines,
         Leads(t, lines, e), line.says = "active-window",
         NEW u, u = [t EXCEPT !.top[line.id] = line.top]
  PROVE  Effect(t, u, lines, line, e)
<1>1. line.id \in Workspaces /\ e.top[line.id] = line.top
  BY DEF Leads, IsSo
<1>2. /\ u.known = t.known /\ u.slots = t.slots /\ u.stands = t.stands /\ u.on = t.on
      /\ u.col = t.col /\ u.focus = t.focus /\ u.overview = t.overview
  BY DEF Trackers
<1>3. \A s \in Workspaces : u.top[s] = IF s = line.id THEN e.top[s] ELSE t.top[s]
  BY <1>1 DEF Trackers
<1>4. u \in Trackers
  BY <1>1 DEF Trackers
<1>5. Said(u, lines \ {line}, e)
  BY <1>2, <1>3 DEF Leads, Said, SlotSaid, TopSaid, WindowSaid, Stays
<1> QED BY <1>2, <1>3, <1>4, <1>5 DEF Effect

(* A window opens, or is elsewhere.                                        *)
LEMMA AfterWindow ==
  ASSUME NEW t \in Trackers, NEW e \in Trackers, NEW lines, NEW line \in lines,
         Leads(t, lines, e), line.says = "window",
         NEW u, u = [AddWindow(t, line.window) EXCEPT
                      !.focus = IF line.window.focused THEN line.window.id ELSE @]
  PROVE  Effect(t, u, lines, line, e)
<1> USE ChannelsAssumption
<1>1. /\ line.window.id \in Windows
      /\ e.on[line.window.id] = line.window.on /\ e.col[line.window.id] = line.window.col
      /\ line.window.focused => e.focus = line.window.id
  BY DEF Leads, IsSo
<1>2. /\ u.known = t.known /\ u.slots = t.slots /\ u.top = t.top /\ u.stands = t.stands
      /\ u.overview = t.overview
      /\ u.focus = t.focus \/ u.focus = e.focus
  BY <1>1 DEF AddWindow, Trackers
<1>3. \A x \in Windows : /\ u.on[x] = IF x = line.window.id THEN e.on[x] ELSE t.on[x]
                        /\ u.col[x] = IF x = line.window.id THEN e.col[x] ELSE t.col[x]
  BY <1>1 DEF AddWindow, Trackers
<1>4. u \in Trackers
  <2>1. /\ u = [t EXCEPT !.on = u.on, !.col = u.col, !.focus = u.focus]
    BY DEF AddWindow, Trackers
  <2>2. u.on \in [Windows -> Workspaces \cup {None}]
    BY <1>1 DEF AddWindow, Trackers
  <2>3. u.col \in [Windows -> Columns \cup {Apart}]
    BY <1>1 DEF AddWindow, Trackers
  <2> QED BY <1>2, <2>1, <2>2, <2>3 DEF Trackers
<1>5. Said(u, lines \ {line}, e)
  <2>1. ASSUME NEW x \in Windows PROVE WindowSaid(u, lines \ {line}, e, x)
    BY <1>3 DEF Leads, Said, WindowSaid
  <2>2. \A s \in Workspaces : SlotSaid(u, lines \ {line}, e, s) /\ TopSaid(u, lines \ {line}, e, s)
    BY <1>2 DEF Leads, Said, SlotSaid, TopSaid
  <2>3. \A l \in lines \ {line} : Stays(u, l, e)
    BY <1>3 DEF Leads, Said, Stays
  <2> QED BY <2>1, <2>2, <2>3, <1>1, <1>2 DEF Leads, Said
<1>6. ASSUME NEW x \in Windows
      PROVE  \/ u.on[x] = t.on[x] /\ u.col[x] = t.col[x]
             \/ u.on[x] = e.on[x] /\ u.col[x] = e.col[x]
  BY <1>3
<1> QED BY <1>2, <1>4, <1>5, <1>6 DEF Effect

(* A window is gone, from every workspace.                                 *)
LEMMA AfterClosed ==
  ASSUME NEW t \in Trackers, NEW e \in Trackers, NEW lines, NEW line \in lines,
         Leads(t, lines, e), line.says = "closed",
         NEW u, u = ForgetClosed(t, line.id)
  PROVE  Effect(t, u, lines, line, e)
<1> USE ChannelsAssumption
<1>1. /\ line.id \in Windows /\ e.on[line.id] = None /\ e.col[line.id] = Apart
      /\ e.focus # line.id /\ \A s \in Workspaces : e.top[s] # line.id
  BY DEF Leads, IsSo
<1>2. /\ u.known = t.known /\ u.slots = t.slots /\ u.stands = t.stands
      /\ u.overview = t.overview
      /\ u.focus = IF t.focus = line.id THEN None ELSE t.focus
      /\ u.top = [s \in Workspaces |-> IF t.top[s] = line.id THEN None ELSE t.top[s]]
  BY DEF ForgetClosed, Trackers
<1>3. \A x \in Windows : /\ u.on[x] = IF x = line.id THEN e.on[x] ELSE t.on[x]
                        /\ u.col[x] = IF x = line.id THEN e.col[x] ELSE t.col[x]
  BY <1>1 DEF ForgetClosed, Trackers
<1>4. u \in Trackers
  BY <1>1 DEF ForgetClosed, Trackers
<1>5. Said(u, lines \ {line}, e)
  <2>1. ASSUME NEW x \in Windows PROVE WindowSaid(u, lines \ {line}, e, x)
    BY <1>3 DEF Leads, Said, WindowSaid
  <2>2. ASSUME NEW s \in Workspaces
        PROVE  SlotSaid(u, lines \ {line}, e, s) /\ TopSaid(u, lines \ {line}, e, s)
    BY <1>1, <1>2 DEF Leads, Said, SlotSaid, TopSaid
  <2>3. \A l \in lines \ {line} : Stays(u, l, e)
    BY <1>3 DEF Leads, Said, Stays
  <2> QED BY <2>1, <2>2, <2>3, <1>1, <1>2 DEF Leads, Said
<1>6. ASSUME NEW x \in Windows
      PROVE  \/ u.on[x] = t.on[x] /\ u.col[x] = t.col[x]
             \/ u.on[x] = e.on[x] /\ u.col[x] = e.col[x]
  BY <1>3
<1> QED BY <1>2, <1>4, <1>5, <1>6 DEF Effect

(* The focus is elsewhere.                                                 *)
LEMMA AfterFocus ==
  ASSUME NEW t \in Trackers, NEW e \in Trackers, NEW lines, NEW line \in lines,
         Leads(t, lines, e), line.says = "focus",
         NEW u, u = [t EXCEPT !.focus = line.id]
  PROVE  Effect(t, u, lines, line, e)
<1>1. e.focus = line.id
  BY DEF Leads, IsSo
<1>2. /\ u.known = t.known /\ u.slots = t.slots /\ u.top = t.top /\ u.stands = t.stands
      /\ u.on = t.on /\ u.col = t.col /\ u.overview = t.overview /\ u.focus = e.focus
  BY <1>1 DEF Trackers
<1>3. u \in Trackers
  BY <1>1 DEF Trackers
<1>4. Said(u, lines \ {line}, e)
  BY <1>2 DEF Leads, Said, SlotSaid, TopSaid, WindowSaid, Stays
<1> QED BY <1>2, <1>3, <1>4 DEF Effect

(* Windows stand in other columns.                                         *)
LEMMA AfterLayouts ==
  ASSUME NEW t \in Trackers, NEW e \in Trackers, NEW lines, NEW line \in lines,
         Leads(t, lines, e), line.says = "layouts",
         NEW u, u = [t EXCEPT !.col = [x \in Windows |->
                      IF x \in DOMAIN line.cols THEN line.cols[x] ELSE t.col[x]]]
  PROVE  Effect(t, u, lines, line, e)
<1>1. \A x \in DOMAIN line.cols : x \in Windows /\ e.col[x] = line.cols[x]
  BY DEF Leads, IsSo
<1>2. /\ u.known = t.known /\ u.slots = t.slots /\ u.top = t.top /\ u.stands = t.stands
      /\ u.on = t.on /\ u.focus = t.focus /\ u.overview = t.overview
  BY DEF Trackers
<1>3. \A x \in Windows : u.col[x] = IF x \in DOMAIN line.cols THEN e.col[x] ELSE t.col[x]
  BY <1>1 DEF Trackers
<1>4. u \in Trackers
  BY <1>1 DEF Trackers
<1>5. ASSUME NEW x \in Windows
      PROVE  \/ u.on[x] = t.on[x] /\ u.col[x] = t.col[x]
             \/ u.on[x] = e.on[x] /\ u.col[x] = e.col[x]
  BY <1>2, <1>3 DEF Leads, Said, Stays
<1>6. Said(u, lines \ {line}, e)
  <2>1. ASSUME NEW x \in Windows PROVE WindowSaid(u, lines \ {line}, e, x)
    BY <1>2, <1>3 DEF Leads, Said, WindowSaid
  <2>2. \A s \in Workspaces : SlotSaid(u, lines \ {line}, e, s) /\ TopSaid(u, lines \ {line}, e, s)
    BY <1>2 DEF Leads, Said, SlotSaid, TopSaid
  <2>3. \A l \in lines \ {line} : Stays(u, l, e)
    BY <1>2 DEF Leads, Said, Stays
  <2> QED BY <2>1, <2>2, <2>3, <1>2 DEF Leads, Said
<1> QED BY <1>2, <1>4, <1>5, <1>6 DEF Effect

(* The overview opens or closes.                                           *)
LEMMA AfterOverview ==
  ASSUME NEW t \in Trackers, NEW e \in Trackers, NEW lines, NEW line \in lines,
         Leads(t, lines, e), line.says = "overview",
         NEW u, u = [t EXCEPT !.overview = line.open]
  PROVE  Effect(t, u, lines, line, e)
<1>1. e.overview = line.open
  BY DEF Leads, IsSo
<1>2. /\ u.known = t.known /\ u.slots = t.slots /\ u.top = t.top /\ u.stands = t.stands
      /\ u.on = t.on /\ u.col = t.col /\ u.focus = t.focus /\ u.overview = e.overview
  BY <1>1 DEF Trackers
<1>3. u \in Trackers
  BY <1>1 DEF Trackers
<1>4. Said(u, lines \ {line}, e)
  BY <1>2 DEF Leads, Said, SlotSaid, TopSaid, WindowSaid, Stays
<1> QED BY <1>2, <1>3, <1>4 DEF Effect

(* A tracker that read a line is as far, and believes nothing new of where *)
(* a workspace stands but what it believes of a window of it.              *)
Onward(t, v, lines, e) ==
  /\ v \in Trackers /\ Leads(v, lines, e)
  /\ \A x \in Windows : \/ v.on[x] = t.on[x] /\ v.col[x] = t.col[x]
                        \/ v.on[x] = e.on[x] /\ v.col[x] = e.col[x]
  /\ \A s \in Workspaces :
       \/ v.stands[s] \in {t.stands[s], Apart}
       \/ \E x \in Windows : v.on[x] = s /\ v.col[x] = v.stands[s]

(* Whichever line is read, the rest leads on.                              *)
LEMMA ReadLeads ==
  ASSUME NEW t \in Trackers, NEW e \in Trackers, NEW lines, NEW line \in lines,
         Leads(t, lines, e), NEW v, v = Apply(t, line)
  PROVE  Onward(t, v, lines \ {line}, e)
<1> DEFINE Done(u) == u \in Trackers /\ v = Remember(u) /\ Effect(t, u, lines, line, e)
<1> HIDE DEF Done
<1>1. ASSUME NEW u, Done(u)
      PROVE  Onward(t, v, lines \ {line}, e)
  <2>1. v.on = u.on /\ v.col = u.col
    BY <1>1 DEF Done, Remember, Trackers
  <2>2. u \in Trackers /\ Effect(t, u, lines, line, e) /\ v = Remember(u)
    BY <1>1 DEF Done
  <2>3. /\ v \in Trackers /\ Leads(v, lines \ {line}, e)
        /\ \A x \in Windows : \/ v.on[x] = t.on[x] /\ v.col[x] = t.col[x]
                              \/ v.on[x] = e.on[x] /\ v.col[x] = e.col[x]
        /\ \A s \in Workspaces :
             \/ v.stands[s] \in {t.stands[s], Apart}
             \/ \E x \in Windows : u.on[x] = s /\ u.col[x] = v.stands[s]
    BY <2>2, Remembering
  <2> QED BY <2>1, <2>3 DEF Onward
<1>2. ASSUME NEW u, Effect(t, u, lines, line, e), v = Remember(u) PROVE Done(u)
  BY <1>2 DEF Done, Effect
<1>3. \E u : Done(u)
  <2>1. IsSo(line, e)
    BY DEF Leads
  <2>2. CASE line.says = "workspaces"
    <3> DEFINE u == ReplaceWorkspaces(t, line.all)
    <3>1. Effect(t, u, lines, line, e)
      BY <2>2, AfterWorkspaces
    <3>2. v = Remember(u)
      BY <2>2 DEF Apply
    <3> HIDE DEF u
    <3> QED BY <3>1, <3>2, <1>2
  <2>3. CASE line.says = "windows"
    <3> DEFINE u == ReplaceWindows(t, line.all)
    <3>1. Effect(t, u, lines, line, e)
      BY <2>3, AfterWindows
    <3>2. v = Remember(u)
      BY <2>3 DEF Apply
    <3> HIDE DEF u
    <3> QED BY <3>1, <3>2, <1>2
  <2>4. CASE line.says = "activated"
    <3> DEFINE u == ActivateSlot(t, line.id)
    <3>1. Effect(t, u, lines, line, e)
      BY <2>4, AfterActivated
    <3>2. v = Remember(u)
      BY <2>4 DEF Apply
    <3> HIDE DEF u
    <3> QED BY <3>1, <3>2, <1>2
  <2>5. CASE line.says = "active-window"
    <3> DEFINE u == [t EXCEPT !.top[line.id] = line.top]
    <3>1. Effect(t, u, lines, line, e)
      BY <2>5, AfterActiveWindow
    <3>2. v = Remember(u)
      BY <2>5 DEF Apply
    <3> HIDE DEF u
    <3> QED BY <3>1, <3>2, <1>2
  <2>6. CASE line.says = "window"
    <3> DEFINE u == [AddWindow(t, line.window) EXCEPT
                      !.focus = IF line.window.focused THEN line.window.id ELSE @]
    <3>1. Effect(t, u, lines, line, e)
      BY <2>6, AfterWindow
    <3>2. v = Remember(u)
      BY <2>6 DEF Apply
    <3> HIDE DEF u
    <3> QED BY <3>1, <3>2, <1>2
  <2>7. CASE line.says = "closed"
    <3> DEFINE u == ForgetClosed(t, line.id)
    <3>1. Effect(t, u, lines, line, e)
      BY <2>7, AfterClosed
    <3>2. v = Remember(u)
      BY <2>7 DEF Apply
    <3> HIDE DEF u
    <3> QED BY <3>1, <3>2, <1>2
  <2>8. CASE line.says = "focus"
    <3> DEFINE u == [t EXCEPT !.focus = line.id]
    <3>1. Effect(t, u, lines, line, e)
      BY <2>8, AfterFocus
    <3>2. v = Remember(u)
      BY <2>8 DEF Apply
    <3> HIDE DEF u
    <3> QED BY <3>1, <3>2, <1>2
  <2>9. CASE line.says = "layouts"
    <3> DEFINE u == [t EXCEPT !.col = [x \in Windows |->
                      IF x \in DOMAIN line.cols THEN line.cols[x] ELSE t.col[x]]]
    <3>1. Effect(t, u, lines, line, e)
      BY <2>9, AfterLayouts
    <3>2. v = Remember(u)
      BY <2>9 DEF Apply
    <3> HIDE DEF u
    <3> QED BY <3>1, <3>2, <1>2
  <2>10. CASE line.says = "overview"
    <3> DEFINE u == [t EXCEPT !.overview = line.open]
    <3>1. Effect(t, u, lines, line, e)
      BY <2>10, AfterOverview
    <3>2. v = Remember(u)
      BY <2>10 DEF Apply
    <3> HIDE DEF u
    <3> QED BY <3>1, <3>2, <1>2
  <2> QED BY <2>1, <2>2, <2>3, <2>4, <2>5, <2>6, <2>7, <2>8, <2>9, <2>10 DEF IsSo
<1> QED BY <1>1, <1>3, Zenon

-----------------------------------------------------------------------------
(* A row of workspaces, none of them twice.                                *)
IsRow(row) ==
  /\ row \in Seq(Workspaces)
  /\ \A i, j \in DOMAIN row : row[i] = row[j] => i = j

(* A row one workspace leaves.                                             *)
LEMMA RowWithout ==
  ASSUME NEW row, IsRow(row), NEW i \in DOMAIN row
  PROVE  IsRow(RemoveAt(row, i)) /\ ToSet(RemoveAt(row, i)) = ToSet(row) \ {row[i]}
<1> DEFINE less == RemoveAt(row, i)
<1>1. i \in 1..Len(row) /\ Len(row) \in Nat /\ row \in Seq(Workspaces)
  BY DEF IsRow
<1>2. /\ SubSeq(row, 1, i - 1) \in Seq(Workspaces) /\ Len(SubSeq(row, 1, i - 1)) = i - 1
      /\ \A j \in 1..(i - 1) : SubSeq(row, 1, i - 1)[j] = row[j]
  BY <1>1
<1>3. /\ SubSeq(row, i + 1, Len(row)) \in Seq(Workspaces)
      /\ Len(SubSeq(row, i + 1, Len(row))) = Len(row) - i
      /\ \A j \in 1..(Len(row) - i) : SubSeq(row, i + 1, Len(row))[j] = row[i + j]
  BY <1>1
<1>4. /\ less \in Seq(Workspaces) /\ Len(less) = Len(row) - 1
      /\ \A j \in 1..(Len(row) - 1) : less[j] = IF j < i THEN row[j] ELSE row[j + 1]
  <2> DEFINE A == SubSeq(row, 1, i - 1)
             B == SubSeq(row, i + 1, Len(row))
  <2>1. less = A \o B
    BY DEF RemoveAt
  <2> HIDE DEF A, B, less
  <2>2. A \in Seq(Workspaces) /\ B \in Seq(Workspaces) /\ Len(A) = i - 1 /\ Len(B) = Len(row) - i
    BY <1>2, <1>3 DEF A, B
  <2>3. less \in Seq(Workspaces) /\ Len(less) = Len(row) - 1
    BY <1>1, <2>1, <2>2
  <2>4. ASSUME NEW j \in 1..(Len(row) - 1)
        PROVE  less[j] = IF j < i THEN row[j] ELSE row[j + 1]
    <3>1. CASE j < i
      <4>1. j \in 1..(i - 1) /\ less[j] = A[j]
        BY <1>1, <2>1, <2>2, <3>1
      <4> QED BY <4>1, <3>1, <1>2 DEF A
    <3>2. CASE j >= i
      <4>1. j - (i - 1) \in 1..(Len(row) - i) /\ less[j] = B[j - (i - 1)]
        <5>1. j \in 1..(Len(A) + Len(B)) /\ ~(j <= Len(A)) /\ j - (i - 1) \in 1..(Len(row) - i)
          BY <1>1, <2>2, <3>2
        <5>2. (A \o B)[j] = B[j - Len(A)]
          BY <5>1, <2>2, ConcatProperties
        <5>3. j - Len(A) = j - (i - 1)
          BY <2>2
        <5> QED BY <5>1, <5>2, <5>3, <2>1
      <4>2. i + (j - (i - 1)) = j + 1
        BY <1>1
      <4>3. B[j - (i - 1)] = row[j + 1]
        BY <4>1, <4>2, <1>3 DEF B
      <4> QED BY <4>1, <4>3, <3>2, <1>1
    <3> QED BY <1>1, <3>1, <3>2
  <2> QED BY <2>3, <2>4
<1> HIDE DEF less
<1>5. IsRow(less)
  <2>1. DOMAIN less = 1..(Len(row) - 1) /\ DOMAIN row = 1..Len(row)
    BY <1>1, <1>4
  <2>2. ASSUME NEW j \in 1..(Len(row) - 1), NEW k \in 1..(Len(row) - 1), less[j] = less[k]
        PROVE  j = k
    <3>1. \A m, n \in 1..Len(row) : row[m] = row[n] => m = n
      BY <2>1 DEF IsRow
    <3>2. /\ j \in 1..Len(row) /\ j + 1 \in 1..Len(row)
          /\ k \in 1..Len(row) /\ k + 1 \in 1..Len(row)
      BY <1>1
    <3> QED BY <1>1, <1>4, <2>2, <3>1, <3>2
  <2> QED BY <1>4, <2>1, <2>2 DEF IsRow
<1>6. ASSUME NEW s PROVE s \in ToSet(less) <=> s \in ToSet(row) /\ s # row[i]
  <2>1. ASSUME s \in ToSet(less) PROVE s \in ToSet(row) /\ s # row[i]
    BY <2>1, <1>1, <1>4 DEF ToSet, IsRow
  <2>2. ASSUME NEW j \in DOMAIN row, s = row[j], s # row[i] PROVE s \in ToSet(less)
    <3>1. CASE j < i
      <4>1. j \in DOMAIN less /\ less[j] = s
        BY <1>1, <1>4, <2>2, <3>1
      <4> QED BY <4>1 DEF ToSet
    <3>2. CASE j > i
      <4>1. j - 1 \in DOMAIN less /\ less[j - 1] = s
        BY <1>1, <1>4, <2>2, <3>2
      <4> QED BY <4>1 DEF ToSet
    <3> QED BY <1>1, <2>2, <3>1, <3>2
  <2> QED BY <2>1, <2>2 DEF ToSet
<1> QED BY <1>5, <1>6 DEF less

(* A row one workspace joins.                                              *)
LEMMA RowWith ==
  ASSUME NEW row, IsRow(row), NEW s \in Workspaces, s \notin ToSet(row)
  PROVE  /\ IsRow(Append(row, s)) /\ ToSet(Append(row, s)) = ToSet(row) \cup {s}
         /\ Append(row, s) # <<>>
<1>1. /\ Append(row, s) \in Seq(Workspaces) /\ Len(Append(row, s)) = Len(row) + 1
      /\ \A i \in 1..Len(row) : Append(row, s)[i] = row[i]
      /\ Append(row, s)[Len(row) + 1] = s /\ Len(row) \in Nat
  BY DEF IsRow
<1>2. IsRow(Append(row, s))
  BY <1>1 DEF IsRow, ToSet
<1>3. ASSUME NEW r PROVE r \in ToSet(Append(row, s)) <=> r \in ToSet(row) \/ r = s
  BY <1>1 DEF IsRow, ToSet
<1> QED BY <1>1, <1>2, <1>3

(* Two rows put together.                                                  *)
LEMMA RowsTogether ==
  ASSUME NEW row, IsRow(row), NEW more, IsRow(more), ToSet(row) \cap ToSet(more) = {}
  PROVE  /\ IsRow(row \o more) /\ ToSet(row \o more) = ToSet(row) \cup ToSet(more)
         /\ row # <<>> => row \o more # <<>>
<1>1. /\ row \o more \in Seq(Workspaces) /\ Len(row \o more) = Len(row) + Len(more)
      /\ \A i \in 1..Len(row) : (row \o more)[i] = row[i]
      /\ \A i \in 1..Len(more) : (row \o more)[Len(row) + i] = more[i]
      /\ Len(row) \in Nat /\ Len(more) \in Nat
  BY DEF IsRow
<1>2. ASSUME NEW i \in 1..(Len(row) + Len(more))
      PROVE  \/ i \in 1..Len(row) /\ (row \o more)[i] = row[i]
             \/ /\ i - Len(row) \in 1..Len(more) /\ i = Len(row) + (i - Len(row))
                /\ (row \o more)[i] = more[i - Len(row)]
  BY <1>1
<1>3. \A i \in 1..Len(row), j \in 1..Len(more) : row[i] # more[j]
  BY DEF IsRow, ToSet
<1>4. IsRow(row \o more)
  <2>1. ASSUME NEW i \in 1..(Len(row) + Len(more)), NEW j \in 1..(Len(row) + Len(more)),
               (row \o more)[i] = (row \o more)[j]
        PROVE  i = j
    BY <1>1, <1>2, <1>3, <2>1 DEF IsRow
  <2> QED BY <1>1, <2>1 DEF IsRow
<1>5. ASSUME NEW r PROVE r \in ToSet(row \o more) <=> r \in ToSet(row) \/ r \in ToSet(more)
  <2>1. ASSUME r \in ToSet(row \o more) PROVE r \in ToSet(row) \/ r \in ToSet(more)
    BY <1>1, <1>2, <2>1 DEF ToSet, IsRow
  <2>2. ASSUME NEW i \in 1..Len(row), r = row[i] PROVE r \in ToSet(row \o more)
    <3>1. i \in DOMAIN (row \o more)
      BY <1>1
    <3> QED BY <1>1, <2>2, <3>1 DEF ToSet
  <2>3. ASSUME NEW i \in 1..Len(more), r = more[i] PROVE r \in ToSet(row \o more)
    <3>1. Len(row) + i \in DOMAIN (row \o more)
      BY <1>1
    <3> QED BY <1>1, <2>3, <3>1 DEF ToSet
  <2> QED BY <2>1, <2>2, <2>3 DEF ToSet, IsRow
<1>6. row # <<>> => row \o more # <<>>
  BY <1>1 DEF IsRow
<1> QED BY <1>4, <1>5, <1>6

(* A row of all there are.                                                 *)
LEMMA RowOfAll ==
  ASSUME NEW S, S \subseteq Workspaces, NEW row \in SetToSeqs(S)
  PROVE  IsRow(row) /\ ToSet(row) \subseteq S
<1>1. IsFiniteSet(S) /\ Cardinality(S) \in Nat
  BY NiriAssumption, FS_Subset, FS_CardinalityType
<1>2. row \in [1..Cardinality(S) -> S] /\ \A i, j \in 1..Cardinality(S) : i # j => row[i] # row[j]
  BY DEF SetToSeqs
<1>3. row \in Seq(Workspaces)
  <2>1. row \in Seq(S)
    BY <1>1, <1>2, SeqDef
  <2> QED BY <2>1, SeqMonotonic
<1> QED BY <1>2, <1>3 DEF IsRow, ToSet

-----------------------------------------------------------------------------
(* niri, as a tracker, whose workspaces stand where `p` says.              *)
Tracked(w, p) ==
  [slots |-> [s \in Workspaces |-> IF s \in w.exist THEN SlotOf(SpaceOf(w, s)) ELSE NoSlot],
   known |-> w.exist,
   on |-> [x \in Windows |-> w.at[x].on], col |-> [x \in Windows |-> w.at[x].col],
   top |-> w.top, stands |-> p, focus |-> w.focus, overview |-> w.overview]

Scrolls == [Workspaces -> Columns \cup {Apart}]

(* Where each workspace stands is what it is remembered for.               *)
StandsOK(w, p) ==
  /\ p \in Scrolls
  /\ \A s \in Workspaces : s \notin w.exist => p[s] = Apart
  /\ \A s \in Workspaces : w.top[s] # None /\ w.at[w.top[s]].col # Apart => p[s] = w.at[w.top[s]].col

(* No change gives a workspace another active window and moves a window    *)
(* that stays on it at once.                                               *)
Gentle(was, is) ==
  \A s \in Workspaces :
    \/ was.top[s] = is.top[s]
    \/ \A x \in Windows : was.at[x].on = s /\ is.at[x].on = s => was.at[x].col = is.at[x].col

(* Where each workspace stands after a change is what it is remembered     *)
(* for.                                                                    *)
LEMMA Standings ==
  ASSUME NEW w, WorldOK(w), NEW p \in Scrolls
  PROVE  StandsOK(w, Standing(w, p))
<1> USE ChannelsAssumption
<1> QED BY DEF StandsOK, Standing, WorldOK, RowsOK, WindowsOK, Scrolls

(* Each workspace that has a place has one.                                *)
LEMMA Places ==
  ASSUME NEW w, WorldOK(w), NEW s \in Workspaces
  PROVE  /\ s \in Placed(w) <=> \E o \in Outputs : s \in ToSet(w.rows[o])
         /\ s \in Placed(w) =>
              /\ OutputOf(w, s) \in Outputs /\ s \in ToSet(w.rows[OutputOf(w, s)])
              /\ IdxOf(w, s) \in DOMAIN w.rows[OutputOf(w, s)]
              /\ w.rows[OutputOf(w, s)][IdxOf(w, s)] = s
         /\ s \notin Placed(w) => OutputOf(w, s) = None /\ IdxOf(w, s) = 1
         /\ IdxOf(w, s) \in Nat
         /\ \A o \in Outputs : s \in ToSet(w.rows[o]) => OutputOf(w, s) = o
         /\ \A o \in Outputs : w.shown[o] = s => OutputOf(w, s) = o
<1> USE ChannelsAssumption, NiriAssumption
<1>1. s \in Placed(w) <=> \E o \in Outputs : s \in ToSet(w.rows[o])
  BY DEF Placed
<1>2. ASSUME s \in Placed(w)
      PROVE  OutputOf(w, s) \in Outputs /\ s \in ToSet(w.rows[OutputOf(w, s)])
  BY <1>1, <1>2 DEF OutputOf
<1>3. ASSUME s \in Placed(w)
      PROVE  /\ IdxOf(w, s) \in DOMAIN w.rows[OutputOf(w, s)]
             /\ w.rows[OutputOf(w, s)][IdxOf(w, s)] = s
  <2>1. \E i \in DOMAIN w.rows[OutputOf(w, s)] : w.rows[OutputOf(w, s)][i] = s
    BY <1>2, <1>3 DEF ToSet
  <2> QED BY <2>1, <1>3 DEF IdxOf
<1>4. s \notin Placed(w) => OutputOf(w, s) = None /\ IdxOf(w, s) = 1
  BY DEF OutputOf, IdxOf
<1>5. IdxOf(w, s) \in Nat
  <2>1. CASE s \in Placed(w)
    <3>1. w.rows[OutputOf(w, s)] \in Seq(Workspaces)
      BY <1>2, <2>1 DEF WorldOK, RowsOK, WindowsOK
    <3> QED BY <3>1, <2>1, <1>3
  <2> QED BY <2>1, <1>4
<1>6. ASSUME NEW o \in Outputs, s \in ToSet(w.rows[o]) PROVE OutputOf(w, s) = o
  <2>1. s \in Placed(w)
    BY <1>1, <1>6
  <2> QED BY <2>1, <1>2, <1>6 DEF WorldOK, RowsOK, WindowsOK
<1>7. ASSUME NEW o \in Outputs, w.shown[o] = s PROVE OutputOf(w, s) = o
  <2>1. s \in ToSet(w.rows[o])
    BY <1>7 DEF WorldOK, RowsOK, WindowsOK
  <2> QED BY <2>1, <1>6
<1> QED BY <1>1, <1>2, <1>3, <1>4, <1>5, <1>6, <1>7

(* niri, as a tracker, is one.                                             *)
LEMMA TrackedType ==
  ASSUME NEW w, WorldOK(w), NEW p \in Scrolls
  PROVE  Tracked(w, p) \in Trackers
<1>1. ASSUME NEW s \in Workspaces
      PROVE  (IF s \in w.exist THEN SlotOf(SpaceOf(w, s)) ELSE NoSlot)
               \in [output: Outputs \cup {None}, idx: Nat, active: BOOLEAN]
  <2>1. OutputOf(w, s) \in Outputs \cup {None} /\ IdxOf(w, s) \in Nat
    BY Places
  <2>2. SpaceOf(w, s).output = OutputOf(w, s) /\ SpaceOf(w, s).idx = IdxOf(w, s)
        /\ SpaceOf(w, s).active \in BOOLEAN
    BY DEF SpaceOf
  <2> QED BY <2>1, <2>2 DEF SlotOf, NoSlot
<1>2. [s \in Workspaces |-> IF s \in w.exist THEN SlotOf(SpaceOf(w, s)) ELSE NoSlot]
        \in [Workspaces -> [output: Outputs \cup {None}, idx: Nat, active: BOOLEAN]]
  BY <1>1
<1>3. /\ [x \in Windows |-> w.at[x].on] \in [Windows -> Workspaces \cup {None}]
      /\ [x \in Windows |-> w.at[x].col] \in [Windows -> Columns \cup {Apart}]
      /\ w.exist \in SUBSET Workspaces /\ w.top \in [Workspaces -> Windows \cup {None}]
      /\ w.focus \in Windows \cup {None} /\ w.overview \in BOOLEAN
  BY DEF WorldOK, RowsOK, WindowsOK
<1> QED BY <1>2, <1>3 DEF Tracked, Trackers, Scrolls

-----------------------------------------------------------------------------
(* Workspaces arranged alike are where they were.                          *)
LEMMA SameArrangement ==
  ASSUME NEW was, WorldOK(was), NEW is, WorldOK(is), Arrangement(was) = Arrangement(is)
  PROVE  /\ was.exist = is.exist
         /\ \A s \in was.exist : OutputOf(was, s) = OutputOf(is, s) /\ IdxOf(was, s) = IdxOf(is, s)
<1>1. ASSUME NEW w
      PROVE  /\ \A s \in w.exist : <<s, OutputOf(w, s), IdxOf(w, s)>> \in Arrangement(w)
             /\ \A v \in Arrangement(w) : \E s \in w.exist : v = <<s, OutputOf(w, s), IdxOf(w, s)>>
  <2>1. \A s : SpaceOf(w, s).id = s /\ SpaceOf(w, s).output = OutputOf(w, s)
               /\ SpaceOf(w, s).idx = IdxOf(w, s)
    BY DEF SpaceOf
  <2>2. \A s \in w.exist : SpaceOf(w, s) \in Spaces(w)
    BY DEF Spaces
  <2>3. \A v \in Spaces(w) : \E s \in w.exist : v = SpaceOf(w, s)
    BY DEF Spaces
  <2>4. ASSUME NEW s \in w.exist PROVE <<s, OutputOf(w, s), IdxOf(w, s)>> \in Arrangement(w)
    BY <2>1, <2>2 DEF Arrangement
  <2>5. ASSUME NEW v \in Arrangement(w)
        PROVE  \E s \in w.exist : v = <<s, OutputOf(w, s), IdxOf(w, s)>>
    BY <2>1, <2>3 DEF Arrangement
  <2> QED BY <2>4, <2>5
<1>2. ASSUME NEW s \in was.exist
      PROVE s \in is.exist /\ OutputOf(was, s) = OutputOf(is, s) /\ IdxOf(was, s) = IdxOf(is, s)
  <2>1. <<s, OutputOf(was, s), IdxOf(was, s)>> \in Arrangement(is)
    BY <1>1
  <2> QED BY <2>1, <1>1
<1>3. ASSUME NEW s \in is.exist PROVE s \in was.exist
  <2>1. <<s, OutputOf(is, s), IdxOf(is, s)>> \in Arrangement(was)
    BY <1>1
  <2> QED BY <2>1, <1>1
<1> QED BY <1>2, <1>3

(* A snapshot of the workspaces says what they are.                        *)
LEMMA SpacesSo ==
  ASSUME NEW w, WorldOK(w), NEW t \in Trackers, NEW r, r = ReplaceWorkspaces(t, Spaces(w))
  PROVE  /\ r.known = w.exist /\ r.top = w.top
         /\ r.slots = [s \in Workspaces |-> IF s \in w.exist THEN SlotOf(SpaceOf(w, s)) ELSE NoSlot]
         /\ r.stands = [s \in Workspaces |-> IF s \in w.exist THEN t.stands[s] ELSE Apart]
         /\ r.on = t.on /\ r.col = t.col /\ r.focus = t.focus /\ r.overview = t.overview
<1> USE ChannelsAssumption, NiriAssumption
<1> DEFINE all == Spaces(w)
           Its(s) == CHOOSE space \in all : space.id = s
           ids == {space.id : space \in all}
<1>1. ids = w.exist
  <2>1. \A s : SpaceOf(w, s).id = s
    BY DEF SpaceOf
  <2> QED BY <2>1 DEF Spaces
<1>2. ASSUME NEW s \in w.exist PROVE Its(s) = SpaceOf(w, s)
  <2>1. SpaceOf(w, s) \in all /\ SpaceOf(w, s).id = s
    BY DEF Spaces, SpaceOf
  <2>2. \A space \in all : space.id = s => space = SpaceOf(w, s)
    BY DEF Spaces, SpaceOf
  <2> QED BY <2>1, <2>2
<1>3. \A s \in w.exist : SpaceOf(w, s).top = w.top[s]
  BY DEF SpaceOf
<1>4. ASSUME NEW s \in Workspaces, s \notin w.exist PROVE w.top[s] = None
  BY <1>4 DEF WorldOK, RowsOK, WindowsOK
<1>5. r = [t EXCEPT
        !.known = ids,
        !.slots = [s \in Workspaces |-> IF s \in ids THEN SlotOf(Its(s)) ELSE NoSlot],
        !.top = [s \in Workspaces |-> IF s \in ids THEN Its(s).top ELSE None],
        !.stands = [s \in Workspaces |-> IF s \in ids THEN t.stands[s] ELSE Apart]]
  BY Zenon DEF ReplaceWorkspaces
<1> HIDE DEF all, Its, ids
<1>6. [s \in Workspaces |-> IF s \in w.exist THEN SlotOf(Its(s)) ELSE NoSlot]
        = [s \in Workspaces |-> IF s \in w.exist THEN SlotOf(SpaceOf(w, s)) ELSE NoSlot]
  BY <1>2
<1>7. [s \in Workspaces |-> IF s \in w.exist THEN Its(s).top ELSE None] = w.top
  <2>1. \A s \in Workspaces : (IF s \in w.exist THEN Its(s).top ELSE None) = w.top[s]
    BY <1>2, <1>3, <1>4
  <2> QED BY <2>1 DEF WorldOK, RowsOK, WindowsOK
<1>8. /\ r = [t EXCEPT !.known = r.known, !.slots = r.slots, !.top = r.top, !.stands = r.stands]
      /\ r.known = w.exist
      /\ r.slots = [s \in Workspaces |-> IF s \in w.exist THEN SlotOf(Its(s)) ELSE NoSlot]
      /\ r.top = [s \in Workspaces |-> IF s \in w.exist THEN Its(s).top ELSE None]
      /\ r.stands = [s \in Workspaces |-> IF s \in w.exist THEN t.stands[s] ELSE Apart]
  BY <1>1, <1>5 DEF Trackers
<1> QED BY <1>8, <1>6, <1>7 DEF Trackers

(* What replacing all windows makes of a tracker is niri's windows.        *)
LEMMA WindowsSo ==
  ASSUME NEW w, WorldOK(w), NEW t \in Trackers,
         NEW r, r = ReplaceWindows(t, {WindowOf(w, x) : x \in Opened(w)})
  PROVE  /\ r.on = [x \in Windows |-> w.at[x].on] /\ r.col = [x \in Windows |-> w.at[x].col]
         /\ r.focus = w.focus
         /\ r.known = t.known /\ r.top = t.top /\ r.slots = t.slots /\ r.stands = t.stands
         /\ r.overview = t.overview
<1> USE ChannelsAssumption, NiriAssumption
<1> DEFINE all == {WindowOf(w, x) : x \in Opened(w)}
           Its(x) == CHOOSE window \in all : window.id = x
           ids == {window.id : window \in all}
           ons == [x \in Windows |-> IF x \in ids THEN Its(x).on ELSE None]
           cols == [x \in Windows |-> IF x \in ids THEN Its(x).col ELSE Apart]
           who == IF \E window \in all : window.focused
                  THEN (CHOOSE window \in all : window.focused).id ELSE None
<1>1. ids = Opened(w)
  <2>1. \A x : WindowOf(w, x).id = x
    BY DEF WindowOf
  <2>2. ASSUME NEW x \in Opened(w) PROVE x \in ids
    <3>1. WindowOf(w, x) \in all
      BY <2>2
    <3> QED BY <2>1, <3>1
  <2>3. ASSUME NEW window \in all PROVE window.id \in Opened(w)
    BY <2>1
  <2> QED BY <2>2, <2>3
<1>2. ASSUME NEW x \in Opened(w) PROVE Its(x) = WindowOf(w, x)
  <2>1. WindowOf(w, x) \in all /\ WindowOf(w, x).id = x
    BY DEF WindowOf
  <2>2. \A window \in all : window.id = x => window = WindowOf(w, x)
    BY DEF WindowOf
  <2> QED BY <2>1, <2>2
<1>3. \A x \in Windows : WindowOf(w, x).on = w.at[x].on /\ WindowOf(w, x).col = w.at[x].col
                         /\ WindowOf(w, x).id = x /\ (WindowOf(w, x).focused <=> w.focus = x)
  BY DEF WindowOf
<1>4. \A x \in Windows : x \notin Opened(w) => w.at[x].on = None /\ w.at[x].col = Apart
  BY DEF WorldOK, RowsOK, WindowsOK, Opened
<1>5. Opened(w) \subseteq Windows
  BY DEF Opened
<1>6. who = w.focus
  <2>1. CASE w.focus = None
    <3>1. ~\E window \in all : window.focused
      BY <2>1, <1>3, <1>5
    <3> QED BY <3>1, <2>1
  <2>2. CASE w.focus # None
    <3>1. w.focus \in Opened(w)
      BY <2>2 DEF WorldOK, RowsOK, WindowsOK, Opened
    <3>2. WindowOf(w, w.focus) \in all /\ WindowOf(w, w.focus).focused
      BY <3>1, <1>3, <1>5
    <3>3. \A window \in all : window.focused => window.id = w.focus
      BY <1>3, <1>5
    <3>4. (CHOOSE window \in all : window.focused) \in all
          /\ (CHOOSE window \in all : window.focused).focused
      BY <3>2
    <3> QED BY <3>2, <3>3, <3>4
  <2> QED BY <2>1, <2>2
<1>7. r = [t EXCEPT !.on = ons, !.col = cols, !.focus = who]
  BY Zenon DEF ReplaceWindows
<1> HIDE DEF all, Its, ids, who
<1>8. ons = [x \in Windows |-> w.at[x].on]
  BY <1>1, <1>2, <1>3, <1>4
<1>9. cols = [x \in Windows |-> w.at[x].col]
  BY <1>1, <1>2, <1>3, <1>4
<1> HIDE DEF ons, cols
<1> QED BY <1>6, <1>7, <1>8, <1>9 DEF Trackers

-----------------------------------------------------------------------------
(* What the lines of a change are, one by one.                             *)
Moved(was, is) ==
  {x \in Opened(is) : was.at[x].on = is.at[x].on /\ was.at[x].col # is.at[x].col}

(* What the lines of a change can be.                                      *)
LEMMA LineKinds ==
  ASSUME NEW was, NEW is, NEW line \in Lines(was, is)
  PROVE  \/ Arrangement(was) # Arrangement(is) /\ line = [says |-> "workspaces", all |-> Spaces(is)]
         \/ /\ Arrangement(was) = Arrangement(is)
            /\ \E o \in Outputs : is.shown[o] # was.shown[o]
                                  /\ line = [says |-> "activated", id |-> is.shown[o]]
         \/ /\ Arrangement(was) = Arrangement(is)
            /\ \E s \in is.exist : line = [says |-> "active-window", id |-> s, top |-> is.top[s]]
         \/ \E x \in Opened(is) : line = [says |-> "window", window |-> WindowOf(is, x)]
         \/ \E x \in Opened(was) \ Opened(is) : line = [says |-> "closed", id |-> x]
         \/ line = [says |-> "layouts", cols |-> [x \in Moved(was, is) |-> is.at[x].col]]
         \/ line = [says |-> "focus", id |-> is.focus]
         \/ line = [says |-> "overview", open |-> is.overview]
BY DEF Lines, Moved

(* When each of them is said.                                              *)
LEMMA LinesThere ==
  ASSUME NEW was, NEW is
  PROVE  /\ Arrangement(was) # Arrangement(is) =>
              [says |-> "workspaces", all |-> Spaces(is)] \in Lines(was, is)
         /\ Arrangement(was) = Arrangement(is) =>
              /\ \A o \in Outputs : is.shown[o] # was.shown[o] =>
                   [says |-> "activated", id |-> is.shown[o]] \in Lines(was, is)
              /\ \A s \in is.exist : is.top[s] # was.top[s] =>
                   [says |-> "active-window", id |-> s, top |-> is.top[s]] \in Lines(was, is)
         /\ \A x \in Opened(is) : was.at[x].on # is.at[x].on =>
              [says |-> "window", window |-> WindowOf(is, x)] \in Lines(was, is)
         /\ \A x \in Opened(was) \ Opened(is) : [says |-> "closed", id |-> x] \in Lines(was, is)
         /\ Moved(was, is) # {} =>
              [says |-> "layouts", cols |-> [x \in Moved(was, is) |-> is.at[x].col]] \in Lines(was, is)
         /\ was.focus # is.focus => [says |-> "focus", id |-> is.focus] \in Lines(was, is)
         /\ was.overview # is.overview => [says |-> "overview", open |-> is.overview] \in Lines(was, is)
BY DEF Lines, Moved

(* The workspace an output shows is the one of its row that is active.     *)
LEMMA ActiveOne ==
  ASSUME NEW w, WorldOK(w), NEW p \in Scrolls, NEW o \in Outputs, NEW s \in Workspaces,
         Tracked(w, p).slots[s].output = o
  PROVE  /\ s \in w.exist /\ OutputOf(w, s) = o /\ s \in ToSet(w.rows[o])
         /\ w.shown[o] \in Workspaces /\ w.shown[o] \in w.exist /\ OutputOf(w, w.shown[o]) = o
         /\ Tracked(w, p).slots[w.shown[o]].output = o
         /\ Tracked(w, p).slots[s].active <=> w.shown[o] = s
<1> USE ChannelsAssumption, NiriAssumption
<1>1. s \in w.exist /\ OutputOf(w, s) = o
  BY DEF Tracked, SlotOf, SpaceOf, NoSlot
<1>2. s \in ToSet(w.rows[o])
  BY <1>1, Places
<1>3. w.rows[o] # <<>> /\ w.rows[o] \in Seq(Workspaces)
  BY <1>2 DEF ToSet, WorldOK, RowsOK, WindowsOK
<1>4. w.shown[o] \in ToSet(w.rows[o])
  BY <1>3 DEF WorldOK, RowsOK, WindowsOK
<1>5. w.shown[o] \in w.exist /\ w.shown[o] \in Workspaces
  BY <1>4 DEF WorldOK, RowsOK, WindowsOK
<1>6. OutputOf(w, w.shown[o]) = o
  BY <1>4, <1>5, Places
<1>7. Tracked(w, p).slots[w.shown[o]].output = o
  BY <1>5, <1>6 DEF Tracked, SlotOf, SpaceOf
<1>8. Tracked(w, p).slots[s].active <=> \E q \in Outputs : w.shown[q] = s
  BY <1>1 DEF Tracked, SlotOf, SpaceOf
<1>9. \A q \in Outputs : w.shown[q] = s => q = o
  BY <1>1, Places
<1> QED BY <1>1, <1>2, <1>5, <1>6, <1>7, <1>8, <1>9

(* Each line says what is so after the change.                             *)
LEMMA LinesSo ==
  ASSUME NEW was, WorldOK(was), NEW is, WorldOK(is), NEW p, StandsOK(is, p),
         NEW line \in Lines(was, is)
  PROVE  IsSo(line, Tracked(is, p))
<1> USE ChannelsAssumption, NiriAssumption
<1> DEFINE e == Tracked(is, p)
<1>0. p \in Scrolls /\ e \in Trackers
  BY TrackedType DEF StandsOK
<1>1. ASSUME line = [says |-> "workspaces", all |-> Spaces(is)] PROVE IsSo(line, e)
  <2>1. line.says = "workspaces" /\ line.all = Spaces(is)
    BY <1>1
  <2> DEFINE r == ReplaceWorkspaces(e, Spaces(is))
  <2>2. /\ r.known = is.exist /\ r.top = is.top
        /\ r.slots = [s \in Workspaces |-> IF s \in is.exist THEN SlotOf(SpaceOf(is, s)) ELSE NoSlot]
        /\ r.stands = [s \in Workspaces |-> IF s \in is.exist THEN e.stands[s] ELSE Apart]
    BY <1>0, SpacesSo
  <2>3. /\ e.known = is.exist /\ e.top = is.top /\ e.stands = p
        /\ e.slots = [s \in Workspaces |-> IF s \in is.exist THEN SlotOf(SpaceOf(is, s)) ELSE NoSlot]
    BY DEF Tracked
  <2>4. p = [s \in Workspaces |-> IF s \in is.exist THEN p[s] ELSE Apart]
    BY DEF StandsOK, Scrolls
  <2> HIDE DEF e, r
  <2>5. r.stands = e.stands
    BY <2>2, <2>3, <2>4
  <2> QED BY <2>1, <2>2, <2>3, <2>5 DEF IsSo, r
<1>2. ASSUME Arrangement(was) = Arrangement(is), NEW o \in Outputs, is.shown[o] # was.shown[o],
             line = [says |-> "activated", id |-> is.shown[o]]
      PROVE  IsSo(line, e)
  <2>1. \E s \in Workspaces : e.slots[s].output = o
    <3>1. CASE is.rows[o] = <<>>
      <4>1. was.shown[o] # None
        BY <1>2, <3>1 DEF WorldOK, RowsOK, WindowsOK
      <4>2. PICK s \in Workspaces : s \in ToSet(was.rows[o])
        BY <4>1 DEF WorldOK, RowsOK, WindowsOK
      <4>3. OutputOf(was, s) = o /\ s \in was.exist
        BY <4>2, Places DEF WorldOK, RowsOK, WindowsOK
      <4>4. OutputOf(is, s) = o /\ s \in is.exist
        BY <4>3, <1>2, SameArrangement
      <4> QED BY <4>4 DEF Tracked, SlotOf, SpaceOf
    <3>2. CASE is.rows[o] # <<>>
      <4>1. is.shown[o] \in is.exist /\ is.shown[o] \in Workspaces
        BY <3>2 DEF WorldOK, RowsOK, WindowsOK
      <4>2. OutputOf(is, is.shown[o]) = o
        BY <4>1, Places
      <4> QED BY <4>1, <4>2 DEF Tracked, SlotOf, SpaceOf
    <3> QED BY <3>1, <3>2
  <2>2. is.shown[o] \in Workspaces /\ e.slots[is.shown[o]].output = o
    BY <2>1, <1>0, ActiveOne
  <2>3. ASSUME NEW s \in Workspaces, e.slots[s].output = o
        PROVE  e.slots[s].active = (s = is.shown[o])
    <3>1. e.slots[s].active <=> is.shown[o] = s
      BY <2>3, <1>0, ActiveOne
    <3>2. e.slots[s].active \in BOOLEAN
      BY <1>0 DEF Trackers
    <3> HIDE DEF e
    <3> QED BY <3>1, <3>2
  <2>4. o # None
    OBVIOUS
  <2>5. line.says = "activated" /\ line.id = is.shown[o]
    BY <1>2
  <2> HIDE DEF e
  <2>6. ASSUME NEW s \in Workspaces, e.slots[s].output = e.slots[line.id].output
        PROVE  e.slots[s].active = (s = line.id)
    <3>1. e.slots[s].output = o
      BY <2>2, <2>5, <2>6
    <3> QED BY <2>3, <2>5, <3>1, Zenon
  <2>7. line.id \in Workspaces /\ e.slots[line.id].output # None
    BY <2>2, <2>4, <2>5
  <2> QED BY <2>5, <2>6, <2>7, Zenon DEF IsSo
<1>3. ASSUME NEW s \in is.exist, line = [says |-> "active-window", id |-> s, top |-> is.top[s]]
      PROVE  IsSo(line, e)
  BY <1>3 DEF IsSo, Tracked, WorldOK, RowsOK, WindowsOK
<1>4. ASSUME NEW x \in Opened(is), line = [says |-> "window", window |-> WindowOf(is, x)]
      PROVE  IsSo(line, e)
  BY <1>4 DEF IsSo, Tracked, WindowOf, Opened
<1>5. ASSUME NEW x \in Opened(was) \ Opened(is), line = [says |-> "closed", id |-> x]
      PROVE  IsSo(line, e)
  <2>1. x \in Windows /\ is.at[x].on = None
    BY DEF Opened
  <2>2. is.at[x].col = Apart
    BY <2>1 DEF WorldOK, RowsOK, WindowsOK
  <2>3. is.focus # x
    BY <2>1 DEF WorldOK, RowsOK, WindowsOK
  <2>4. ASSUME NEW s \in Workspaces PROVE is.top[s] # x
    <3>1. is.top[s] # None => is.at[is.top[s]].on = s
      BY DEF WorldOK, RowsOK, WindowsOK
    <3> QED BY <2>1, <3>1
  <2> QED BY <1>5, <2>1, <2>2, <2>3, <2>4 DEF IsSo, Tracked
<1>6. ASSUME line = [says |-> "layouts", cols |-> [x \in Moved(was, is) |-> is.at[x].col]]
      PROVE  IsSo(line, e)
  BY <1>6 DEF IsSo, Tracked, Moved, Opened
<1>7. ASSUME line = [says |-> "focus", id |-> is.focus] PROVE IsSo(line, e)
  BY <1>7 DEF IsSo, Tracked
<1>8. ASSUME line = [says |-> "overview", open |-> is.overview] PROVE IsSo(line, e)
  BY <1>8 DEF IsSo, Tracked
<1>9. \/ Arrangement(was) # Arrangement(is) /\ line = [says |-> "workspaces", all |-> Spaces(is)]
      \/ /\ Arrangement(was) = Arrangement(is)
         /\ \E o \in Outputs : is.shown[o] # was.shown[o]
                               /\ line = [says |-> "activated", id |-> is.shown[o]]
      \/ /\ Arrangement(was) = Arrangement(is)
         /\ \E s \in is.exist : line = [says |-> "active-window", id |-> s, top |-> is.top[s]]
      \/ \E x \in Opened(is) : line = [says |-> "window", window |-> WindowOf(is, x)]
      \/ \E x \in Opened(was) \ Opened(is) : line = [says |-> "closed", id |-> x]
      \/ line = [says |-> "layouts", cols |-> [x \in Moved(was, is) |-> is.at[x].col]]
      \/ line = [says |-> "focus", id |-> is.focus]
      \/ line = [says |-> "overview", open |-> is.overview]
  BY LineKinds
<1>10. CASE \/ Arrangement(was) # Arrangement(is) /\ line = [says |-> "workspaces", all |-> Spaces(is)]
           \/ line = [says |-> "layouts", cols |-> [x \in Moved(was, is) |-> is.at[x].col]]
           \/ line = [says |-> "focus", id |-> is.focus]
           \/ line = [says |-> "overview", open |-> is.overview]
  BY <1>10, <1>1, <1>6, <1>7, <1>8
<1>11. CASE \E x \in Opened(is) : line = [says |-> "window", window |-> WindowOf(is, x)]
  BY <1>11, <1>4
<1>12. CASE \E x \in Opened(was) \ Opened(is) : line = [says |-> "closed", id |-> x]
  BY <1>12, <1>5
<1>13. CASE /\ Arrangement(was) = Arrangement(is)
            /\ \E o \in Outputs : is.shown[o] # was.shown[o]
                                  /\ line = [says |-> "activated", id |-> is.shown[o]]
  BY <1>13, <1>2
<1>14. CASE \E s \in is.exist : line = [says |-> "active-window", id |-> s, top |-> is.top[s]]
  BY <1>14, <1>3
<1> QED BY <1>9, <1>10, <1>11, <1>12, <1>13, <1>14

-----------------------------------------------------------------------------
(* Whatever a change changes, a line says.                                 *)
LEMMA LinesSaid ==
  ASSUME NEW was, WorldOK(was), NEW is, WorldOK(is), NEW p, StandsOK(was, p), NEW q, StandsOK(is, q)
  PROVE  Said(Tracked(was, p), Lines(was, is), Tracked(is, q))
<1> USE ChannelsAssumption, NiriAssumption
<1> DEFINE t == Tracked(was, p)
           e == Tracked(is, q)
           lines == Lines(was, is)
<1>0. /\ p \in Scrolls /\ q \in Scrolls /\ t \in Trackers /\ e \in Trackers
      /\ t.known = was.exist /\ e.known = is.exist /\ t.top = was.top /\ e.top = is.top
      /\ t.focus = was.focus /\ e.focus = is.focus
      /\ t.overview = was.overview /\ e.overview = is.overview
      /\ \A x \in Windows : t.on[x] = was.at[x].on /\ e.on[x] = is.at[x].on
                            /\ t.col[x] = was.at[x].col /\ e.col[x] = is.at[x].col
  BY TrackedType DEF StandsOK, Tracked
<1>1. ASSUME Arrangement(was) # Arrangement(is) PROVE \E line \in lines : line.says = "workspaces"
  <2>1. [says |-> "workspaces", all |-> Spaces(is)] \in lines
    BY <1>1, LinesThere
  <2> QED BY <2>1
<1>2. ASSUME NEW s \in Workspaces PROVE SlotSaid(t, lines, e, s)
  <2>1. CASE Arrangement(was) # Arrangement(is)
    BY <2>1, <1>1 DEF SlotSaid
  <2>2. CASE Arrangement(was) = Arrangement(is)
    <3>1. /\ was.exist = is.exist
          /\ s \in was.exist => OutputOf(was, s) = OutputOf(is, s) /\ IdxOf(was, s) = IdxOf(is, s)
      BY <2>2, SameArrangement
    <3>2. t.slots[s].output = e.slots[s].output /\ t.slots[s].idx = e.slots[s].idx
      BY <3>1 DEF Tracked, SlotOf, SpaceOf
    <3>3. CASE t.slots[s].output = None
      <4>1. ASSUME NEW w, WorldOK(w), NEW r \in Scrolls, Tracked(w, r).slots[s].output = None
            PROVE  Tracked(w, r).slots[s].active = FALSE
        <5>1. CASE s \notin w.exist
          BY <5>1 DEF Tracked, NoSlot
        <5>2. CASE s \in w.exist
          <6>1. OutputOf(w, s) = None
            BY <4>1, <5>2 DEF Tracked, SlotOf, SpaceOf
          <6>2. \A o \in Outputs : w.shown[o] # s
            BY <6>1, <4>1, Places
          <6> QED BY <5>2, <6>2 DEF Tracked, SlotOf, SpaceOf
        <5> QED BY <5>1, <5>2
      <4>2. t.slots[s].active = FALSE /\ e.slots[s].active = FALSE
        <5>1. e.slots[s].output = None
          BY <3>2, <3>3
        <5>2. t.slots[s].active = FALSE
          <6>1. p \in Scrolls
            BY <1>0
          <6> QED BY <4>1, <3>3, <6>1, Zenon
        <5>3. e.slots[s].active = FALSE
          <6>1. q \in Scrolls
            BY <1>0
          <6> QED BY <4>1, <5>1, <6>1, Zenon
        <5> QED BY <5>2, <5>3
      <4>3. \A k \in {t, e} : k.slots[s] = [output |-> k.slots[s].output, idx |-> k.slots[s].idx,
                                           active |-> k.slots[s].active]
        BY <1>0 DEF Trackers
      <4> HIDE DEF t, e
      <4>4. t.slots[s] = e.slots[s]
        BY <4>2, <4>3, <3>2
      <4> QED BY <4>4 DEF SlotSaid
    <3>4. CASE t.slots[s].output # None
      <4> DEFINE o == t.slots[s].output
      <4>1. o \in Outputs
        BY <3>4, <1>0 DEF Trackers
      <4>2. /\ t.slots[s].active <=> was.shown[o] = s
            /\ e.slots[s].active <=> is.shown[o] = s
            /\ e.slots[is.shown[o]].output = o
        BY <4>1, <3>2, <1>0, ActiveOne
      <4>3. CASE was.shown[o] = is.shown[o]
        <5>1. \A k \in {t, e} : k.slots[s] = [output |-> k.slots[s].output, idx |-> k.slots[s].idx,
                                             active |-> k.slots[s].active]
                                /\ k.slots[s].active \in BOOLEAN
          BY <1>0 DEF Trackers
        <5> HIDE DEF t, e
        <5>2. t.slots[s].active = e.slots[s].active
          BY <4>2, <4>3, <5>1
        <5>3. t.slots[s] = e.slots[s]
          BY <5>1, <5>2, <3>2
        <5> QED BY <5>3 DEF SlotSaid
      <4>4. CASE was.shown[o] # is.shown[o]
        <5>1. [says |-> "activated", id |-> is.shown[o]] \in lines
          BY <4>1, <4>4, <2>2, LinesThere
        <5> HIDE DEF t, e, lines
        <5>2. e.slots[[says |-> "activated", id |-> is.shown[o]].id].output = e.slots[s].output
          BY <4>2, <3>2
        <5> QED BY <5>1, <5>2, <3>2 DEF SlotSaid
      <4> QED BY <4>3, <4>4
    <3> QED BY <3>3, <3>4
  <2> QED BY <2>1, <2>2
<1>3. ASSUME NEW s \in Workspaces PROVE TopSaid(t, lines, e, s)
  <2>1. CASE Arrangement(was) # Arrangement(is)
    BY <2>1, <1>1 DEF TopSaid
  <2>2. CASE Arrangement(was) = Arrangement(is)
    <3>1. was.exist = is.exist
      BY <2>2, SameArrangement
    <3>2. CASE s \notin is.exist
      <4>1. ASSUME NEW w, WorldOK(w), s \notin w.exist PROVE w.top[s] = None
        BY <4>1 DEF WorldOK, WindowsOK
      <4>2. was.top[s] = None /\ is.top[s] = None
        BY <4>1, <3>1, <3>2
      <4> QED BY <4>2, <1>0 DEF TopSaid
    <3>3. CASE s \in is.exist /\ is.top[s] # was.top[s]
      <4>1. [says |-> "active-window", id |-> s, top |-> is.top[s]] \in lines
        BY <2>2, <3>3, LinesThere
      <4> QED BY <4>1 DEF TopSaid
    <3> QED BY <3>2, <3>3, <1>0 DEF TopSaid
  <2> QED BY <2>1, <2>2
<1>4. ASSUME NEW x \in Windows PROVE WindowSaid(t, lines, e, x)
  <2>1. CASE was.at[x].on # is.at[x].on /\ is.at[x].on # None
    <3>1. [says |-> "window", window |-> WindowOf(is, x)] \in lines
      BY <2>1, LinesThere DEF Opened
    <3>2. WindowOf(is, x).id = x
      BY DEF WindowOf
    <3> QED BY <3>1, <3>2 DEF WindowSaid
  <2>2. CASE was.at[x].on # is.at[x].on /\ is.at[x].on = None
    <3>1. [says |-> "closed", id |-> x] \in lines
      BY <2>2, LinesThere DEF Opened
    <3> QED BY <3>1 DEF WindowSaid
  <2>3. CASE was.at[x].on = is.at[x].on /\ was.at[x].col # is.at[x].col
    <3>1. x \in Moved(was, is)
      BY <2>3 DEF Moved, Opened, WorldOK, RowsOK, WindowsOK
    <3>2. [says |-> "layouts", cols |-> [y \in Moved(was, is) |-> is.at[y].col]] \in lines
      BY <3>1, LinesThere
    <3> QED BY <3>1, <3>2, <2>3, <1>0 DEF WindowSaid
  <2>4. CASE was.at[x].on = is.at[x].on /\ was.at[x].col = is.at[x].col
    BY <2>4, <1>0 DEF WindowSaid
  <2> QED BY <2>1, <2>2, <2>3, <2>4
<1>5. t.focus = e.focus \/ \E line \in lines : line.says \in {"focus", "windows"}
  <2>1. CASE was.focus # is.focus
    <3>1. [says |-> "focus", id |-> is.focus] \in lines
      BY <2>1, LinesThere
    <3> QED BY <3>1
  <2> QED BY <2>1, <1>0
<1>6. t.overview = e.overview \/ \E line \in lines : line.says = "overview"
  <2>1. CASE was.overview # is.overview
    <3>1. [says |-> "overview", open |-> is.overview] \in lines
      BY <2>1, LinesThere
    <3> QED BY <3>1
  <2> QED BY <2>1, <1>0
<1>7. t.known = e.known \/ \E line \in lines : line.says = "workspaces"
  BY <1>0, <1>1, SameArrangement
<1>8. ASSUME NEW line \in lines PROVE Stays(t, line, e)
  <2>1. ASSUME line.says = "layouts"
        PROVE  line = [says |-> "layouts", cols |-> [x \in Moved(was, is) |-> is.at[x].col]]
    BY <2>1, LineKinds
  <2>2. \A x \in Moved(was, is) : t.on[x] = e.on[x]
    BY <1>0 DEF Moved, Opened
  <2> QED BY <2>1, <2>2 DEF Stays
<1>9. Said(t, lines, e)
  <2> HIDE DEF t, e, lines
  <2> QED BY <1>2, <1>3, <1>4, <1>5, <1>6, <1>7, <1>8 DEF Said
<1> QED BY <1>9

-----------------------------------------------------------------------------
(* niri, as a tracker, has remembered its active windows.                  *)
LEMMA TrackedFollows ==
  ASSUME NEW w, WorldOK(w), NEW p, StandsOK(w, p)
  PROVE  /\ Remembered(Tracked(w, p))
         /\ \A s \in Workspaces : Follows(Tracked(w, p), s) <=> w.top[s] # None /\ w.at[w.top[s]].col # Apart
<1> USE ChannelsAssumption
<1>1. ASSUME NEW s \in Workspaces, w.top[s] # None
      PROVE  /\ w.top[s] \in Windows /\ w.at[w.top[s]].on = s
             /\ Tracked(w, p).on[w.top[s]] = s
             /\ Tracked(w, p).col[w.top[s]] = w.at[w.top[s]].col
  BY <1>1 DEF WorldOK, RowsOK, WindowsOK, Tracked
<1>2. Tracked(w, p).top = w.top /\ Tracked(w, p).stands = p
  BY DEF Tracked
<1> QED BY <1>1, <1>2 DEF Remembered, Follows, StandsOK

(* The lines of a change lead from what niri was to what it is.            *)
LEMMA LinesLead ==
  ASSUME NEW was, WorldOK(was), NEW is, WorldOK(is), Gentle(was, is), NEW p, StandsOK(was, p)
  PROVE  Leads(Tracked(was, p), Lines(was, is), Tracked(is, Standing(is, p)))
<1> USE ChannelsAssumption, NiriAssumption
<1> DEFINE q == Standing(is, p)
           t == Tracked(was, p)
           e == Tracked(is, q)
           lines == Lines(was, is)
<1>0. StandsOK(is, q)
  BY Standings DEF StandsOK
<1> HIDE DEF q
<1>1. Remembered(t) /\ Remembered(e)
  BY <1>0, TrackedFollows
<1>2. \A line \in lines : IsSo(line, e)
  BY <1>0, LinesSo
<1>3. Said(t, lines, e)
  BY <1>0, LinesSaid
<1>4. ASSUME NEW s \in Workspaces, ~Follows(e, s) PROVE Left(t, lines, e, s)
  <2>0. /\ t.stands = p /\ e.stands = q /\ e.known = is.exist
        /\ t.top = was.top /\ e.top = is.top
        /\ \A x \in Windows : t.on[x] = was.at[x].on /\ e.on[x] = is.at[x].on
                              /\ t.col[x] = was.at[x].col /\ e.col[x] = is.at[x].col
    BY DEF Tracked
  <2>1. CASE s \notin is.exist /\ s \in was.exist
    <3>1. Arrangement(was) # Arrangement(is)
      BY <2>1, SameArrangement
    <3>2. [says |-> "workspaces", all |-> Spaces(is)] \in lines
      BY <3>1, LinesThere
    <3>3. q[s] = Apart
      BY <2>1, <1>0 DEF StandsOK
    <3> HIDE DEF t, e, lines
    <3> QED BY <2>0, <2>1, <3>2, <3>3 DEF Left
  <2>2. CASE s \notin is.exist /\ s \notin was.exist
    <3>1. p[s] = Apart /\ q[s] = Apart
      BY <2>2, <1>0 DEF StandsOK
    <3>2. \A x \in Windows : was.at[x].on # s /\ is.at[x].on # s
      BY <2>2 DEF WorldOK, RowsOK, WindowsOK
    <3> HIDE DEF t, e, lines
    <3> QED BY <2>0, <3>1, <3>2 DEF Left, StandsThere
  <2>3. CASE s \in is.exist
    <3>1. \/ is.top[s] = None
          \/ is.top[s] \in Windows /\ is.at[is.top[s]].on = s /\ is.at[is.top[s]].col = Apart
      <4>1. is.top[s] = None \/ is.at[is.top[s]].col = Apart
        BY <1>0, <1>4, TrackedFollows
      <4> QED BY <4>1 DEF WorldOK, RowsOK, WindowsOK
    <3>2. q[s] = p[s]
      BY <2>3, <3>1 DEF q, Standing
    <3>3. \/ was.top[s] = None
          \/ was.top[s] \in Windows /\ was.at[was.top[s]].on = s
             /\ (was.at[was.top[s]].col # Apart => was.at[was.top[s]].col = p[s])
      BY DEF WorldOK, RowsOK, WindowsOK, StandsOK
    <3>4. ASSUME NEW x \in {was.top[s], is.top[s]}, x \in Windows,
                 was.at[x].on = s, was.at[x].col # Apart
          PROVE  was.at[x].col = p[s]
      BY <3>1, <3>3, <3>4 DEF Gentle
    <3>5. ASSUME NEW x \in {was.top[s], is.top[s]}, x \in Windows,
                 is.at[x].on = s, is.at[x].col # Apart
          PROVE  is.at[x].col = p[s]
      BY <3>1, <3>3, <3>5 DEF Gentle
    <3> HIDE DEF t, e, lines
    <3>6. ASSUME NEW x \in {t.top[s], e.top[s]} PROVE StandsThere(t, x, s, e) /\ StandsThere(e, x, s, e)
      BY <2>0, <3>2, <3>4, <3>5 DEF StandsThere
    <3>7. t.stands[s] = e.stands[s]
      BY <2>0, <3>2
    <3> QED BY <3>6, <3>7 DEF Left
  <2> QED BY <2>1, <2>2, <2>3
<1>5. Leads(t, lines, e)
  <2> HIDE DEF t, e, lines
  <2> QED BY <1>1, <1>2, <1>3, <1>4 DEF Leads
<1> QED BY <1>5 DEF q

(* A tracker that nothing is left to be said to is there.                  *)
LEMMA NothingLeft ==
  ASSUME NEW t \in Trackers, NEW e \in Trackers, Leads(t, {}, e)
  PROVE  t = e
<1>1. /\ t.known = e.known /\ t.focus = e.focus /\ t.overview = e.overview
      /\ \A s \in Workspaces : t.slots[s] = e.slots[s] /\ t.top[s] = e.top[s]
      /\ \A x \in Windows : t.on[x] = e.on[x] /\ t.col[x] = e.col[x]
  BY DEF Leads, Said, SlotSaid, TopSaid, WindowSaid
<1>2. t.slots = e.slots /\ t.top = e.top /\ t.on = e.on /\ t.col = e.col
  BY <1>1 DEF Trackers
<1>3. ASSUME NEW s \in Workspaces PROVE t.stands[s] = e.stands[s]
  <2>1. CASE Follows(e, s)
    <3>1. Follows(t, s)
      BY <2>1, <1>2 DEF Follows
    <3> QED BY <2>1, <3>1, <1>2 DEF Leads, Remembered
  <2>2. CASE ~Follows(e, s)
    BY <2>2 DEF Leads, Left
  <2> QED BY <2>1, <2>2
<1>4. t.stands = e.stands
  BY <1>3 DEF Trackers
<1> QED BY <1>1, <1>2, <1>4 DEF Trackers

-----------------------------------------------------------------------------
(* Every change of niri leaves it well formed, and is gentle.              *)
Changed(w) == WorldOK(w) /\ Gentle(world, w) /\ Becomes(w)

(* A change of windows only.                                               *)
LEMMA WindowsChange ==
  ASSUME NEW was, WorldOK(was), NEW at, NEW top, NEW focus, WindowsOK(was.exist, at, top, focus)
  PROVE  WorldOK([was EXCEPT !.at = at, !.top = top, !.focus = focus])
<1> DEFINE w == [was EXCEPT !.at = at, !.top = top, !.focus = focus]
<1>1. was \in Worlds
  BY DEF WorldOK
<1>2. /\ w \in Worlds /\ w.rows = was.rows /\ w.exist = was.exist /\ w.at = at
      /\ w.top = top /\ w.focus = focus /\ w.shown = was.shown /\ w.overview = was.overview
  BY <1>1 DEF Worlds, WindowsOK
<1> HIDE DEF w
<1>3. WorldOK(w)
  BY <1>2 DEF WorldOK
<1> QED BY <1>3 DEF w

(* A change of rows only.                                                  *)
LEMMA RowsChange ==
  ASSUME NEW was, WorldOK(was), NEW exist, exist \subseteq Workspaces, NEW rows, NEW shown,
         RowsOK(exist, rows, shown), WindowsOK(exist, was.at, was.top, was.focus)
  PROVE  WorldOK([was EXCEPT !.exist = exist, !.rows = rows, !.shown = shown])
<1> DEFINE w == [was EXCEPT !.exist = exist, !.rows = rows, !.shown = shown]
<1>1. was \in Worlds
  BY DEF WorldOK
<1>2. /\ w \in Worlds /\ w.rows = rows /\ w.exist = exist /\ w.at = was.at
      /\ w.top = was.top /\ w.focus = was.focus /\ w.shown = shown
      /\ w.overview = was.overview
  BY <1>1 DEF Worlds, RowsOK
<1> HIDE DEF w
<1>3. WorldOK(w)
  BY <1>2 DEF WorldOK
<1> QED BY <1>3 DEF w

(* Most changes leave the active windows alone, or the windows that stay.  *)
LEMMA StillGentle ==
  ASSUME NEW w, \/ w.top = world.top
                \/ \A x \in Windows : w.at[x] = world.at[x] \/ w.at[x].on # world.at[x].on,
         WorldOK(world)
  PROVE  Gentle(world, w)
BY DEF Gentle

(* A workspace whose active window leaves it has an heir.                  *)
LEMMA Inherits ==
  ASSUME NEW at, NEW s, NEW heir \in Heirs(at, s)
  PROVE  heir = None \/ (heir \in Windows /\ at[heir].on = s)
<1>1. CASE \E x \in Windows : at[x].on = s
  BY <1>1 DEF Heirs
<1>2. CASE ~\E x \in Windows : at[x].on = s
  BY <1>2 DEF Heirs
<1> QED BY <1>1, <1>2

(* A window arrives.                                                       *)
LEMMA PlaceWindowOK ==
  ASSUME WorldOK(world), NEW x \in Windows, NEW s \in Workspaces, NEW col \in Columns \cup {Apart},
         PlaceWindow(x, s, col)
  PROVE  \E w : Changed(w)
<1> USE ChannelsAssumption, NiriAssumption
<1> DEFINE at == [world.at EXCEPT ![x] = [on |-> s, col |-> col]]
           left == world.at[x].on
           emptied(heir) == IF left # None /\ world.top[left] = x
                            THEN [world.top EXCEPT ![left] = heir] ELSE world.top
           top(heir, takes) == IF takes \/ world.top[s] = None THEN [emptied(heir) EXCEPT ![s] = x]
                               ELSE emptied(heir)
           focus(takes) == IF takes THEN x ELSE world.focus
<1>1. PICK heir \in (IF left # None /\ world.top[left] = x THEN Heirs(at, left) ELSE {None}),
           takes \in BOOLEAN :
        Becomes([world EXCEPT !.at = at, !.top = top(heir, takes), !.focus = focus(takes)])
  BY DEF PlaceWindow
<1>2. s \in world.exist /\ left # s
  BY DEF PlaceWindow
<1>3. heir = None \/ (heir \in Windows /\ at[heir].on = left)
  <2> HIDE DEF at
  <2>1. heir \in Heirs(at, left) \/ heir = None
    BY <1>1
  <2> QED BY <2>1, Inherits
<1> DEFINE tops == top(heir, takes)
           w == [world EXCEPT !.at = at, !.top = tops, !.focus = focus(takes)]
<1>4. /\ at \in [Windows -> [on: Workspaces \cup {None}, col: Columns \cup {Apart}]]
      /\ \A y \in Windows : at[y] = IF y = x THEN [on |-> s, col |-> col] ELSE world.at[y]
  BY DEF WorldOK, WindowsOK
<1>5. ASSUME NEW r \in Workspaces
      PROVE  \/ tops[r] = None
             \/ tops[r] = x /\ r = s
             \/ tops[r] = heir /\ r = left
             \/ tops[r] = world.top[r] /\ tops[r] # x
  <2>1. world.top[r] = x => r = left
    BY DEF WorldOK, WindowsOK
  <2>2. emptied(heir)[r] = IF r = left /\ world.top[r] = x THEN heir ELSE world.top[r]
    BY DEF WorldOK, WindowsOK
  <2>3. tops[r] = IF r = s /\ (takes \/ world.top[s] = None) THEN x ELSE emptied(heir)[r]
    BY DEF WorldOK, WindowsOK
  <2> QED BY <2>1, <2>2, <2>3
<1>6. tops \in [Workspaces -> Windows \cup {None}]
  BY <1>3 DEF WorldOK, WindowsOK
<1> HIDE DEF tops
<1>7. WindowsOK(world.exist, at, tops, focus(takes))
  <2>1. \A y \in Windows : at[y].on \in world.exist \cup {None} /\ (at[y].on = None => at[y].col = Apart)
    BY <1>2, <1>4 DEF WorldOK, WindowsOK
  <2>2. ASSUME NEW r \in Workspaces, tops[r] # None PROVE at[tops[r]].on = r
    <3>1. CASE tops[r] = x /\ r = s
      BY <3>1, <1>4
    <3>2. CASE tops[r] = heir /\ r = left
      BY <3>2, <2>2, <1>3
    <3>3. CASE tops[r] = world.top[r] /\ tops[r] # x
      BY <3>3, <2>2, <1>4 DEF WorldOK, WindowsOK
    <3> QED BY <1>5, <2>2, <3>1, <3>2, <3>3
  <2>3. focus(takes) \in Windows \cup {None} /\ (focus(takes) # None => at[focus(takes)].on # None)
    BY <1>4 DEF WorldOK, WindowsOK
  <2> HIDE DEF at, focus
  <2> QED BY <1>4, <1>6, <2>1, <2>2, <2>3 DEF WindowsOK
<1>8. WorldOK(w) /\ w.at = at
  <2> HIDE DEF at, focus
  <2>1. WorldOK(w)
    BY <1>7, WindowsChange
  <2>2. world \in Worlds
    BY DEF WorldOK
  <2>3. w.at = at
    BY <2>2 DEF Worlds
  <2> QED BY <2>1, <2>3
<1>9. Gentle(world, w)
  <2>1. \A y \in Windows : w.at[y] = world.at[y] \/ w.at[y].on # world.at[y].on
    BY <1>2, <1>4, <1>8
  <2> HIDE DEF w
  <2> QED BY <2>1, StillGentle
<1>10. Becomes(w)
  BY <1>1 DEF tops
<1> QED BY <1>8, <1>9, <1>10 DEF Changed

(* A window goes.                                                          *)
LEMMA CloseWindowOK ==
  ASSUME WorldOK(world), NEW x \in Windows, CloseWindow(x)
  PROVE  \E w : Changed(w)
<1> USE ChannelsAssumption, NiriAssumption
<1> DEFINE at == [world.at EXCEPT ![x] = [on |-> None, col |-> Apart]]
           left == world.at[x].on
           top(heir) == [world.top EXCEPT ![left] = heir]
           focus(heir) == IF world.focus = x THEN heir ELSE world.focus
<1>1. PICK heir \in (IF world.top[left] = x THEN Heirs(at, left) ELSE {world.top[left]}) :
        Becomes([world EXCEPT !.at = at, !.top[left] = heir,
                              !.focus = IF @ = x THEN heir ELSE @])
  BY DEF CloseWindow
<1>2. left \in Workspaces
  BY DEF CloseWindow, Opened, WorldOK, WindowsOK
<1> DEFINE w == [world EXCEPT !.at = at, !.top = top(heir), !.focus = focus(heir)]
<1>3. Becomes(w)
  <2>1. w = [world EXCEPT !.at = at, !.top[left] = heir, !.focus = IF @ = x THEN heir ELSE @]
    BY DEF WorldOK
  <2> QED BY <1>1, <2>1
<1>4. /\ at \in [Windows -> [on: Workspaces \cup {None}, col: Columns \cup {Apart}]]
      /\ \A y \in Windows : at[y] = IF y = x THEN [on |-> None, col |-> Apart] ELSE world.at[y]
  BY DEF WorldOK, WindowsOK
<1>5. heir # x /\ (heir = None \/ (heir \in Windows /\ at[heir].on = left))
  <2>1. CASE world.top[left] = x
    <3>1. heir = None \/ (heir \in Windows /\ at[heir].on = left)
      <4> HIDE DEF at
      <4>1. heir \in Heirs(at, left)
        BY <2>1, <1>1
      <4> QED BY <4>1, Inherits
    <3> QED BY <3>1, <1>2, <1>4
  <2>2. CASE world.top[left] # x
    BY <2>2, <1>1, <1>2, <1>4 DEF WorldOK, WindowsOK
  <2> QED BY <2>1, <2>2
<1>6. /\ top(heir) \in [Workspaces -> Windows \cup {None}]
      /\ \A r \in Workspaces : top(heir)[r] = IF r = left THEN heir ELSE world.top[r]
  BY <1>2, <1>5 DEF WorldOK, WindowsOK
<1> HIDE DEF at, top
<1>7. WindowsOK(world.exist, at, top(heir), focus(heir))
  <2>1. \A y \in Windows : at[y].on \in world.exist \cup {None} /\ (at[y].on = None => at[y].col = Apart)
    BY <1>4 DEF WorldOK, WindowsOK
  <2>2. ASSUME NEW r \in Workspaces, top(heir)[r] # None PROVE at[top(heir)[r]].on = r
    <3>1. CASE r = left
      BY <3>1, <2>2, <1>5, <1>6
    <3>2. CASE r # left
      <4>1. top(heir)[r] = world.top[r] /\ world.at[world.top[r]].on = r /\ world.top[r] \in Windows
        BY <3>2, <2>2, <1>6 DEF WorldOK, WindowsOK
      <4> QED BY <4>1, <3>2, <1>4
    <3> QED BY <3>1, <3>2
  <2>3. focus(heir) \in Windows \cup {None} /\ (focus(heir) # None => at[focus(heir)].on # None)
    BY <1>2, <1>4, <1>5 DEF WorldOK, WindowsOK
  <2> QED BY <1>4, <1>6, <2>1, <2>2, <2>3 DEF WindowsOK
<1>8. WorldOK(w) /\ w.at = at
  <2> HIDE DEF at, top, focus
  <2>1. WorldOK(w)
    BY <1>7, WindowsChange
  <2>2. world \in Worlds
    BY DEF WorldOK
  <2>3. w.at = at
    BY <2>2 DEF Worlds
  <2> QED BY <2>1, <2>3
<1>9. Gentle(world, w)
  <2>1. \A y \in Windows : w.at[y] = world.at[y] \/ w.at[y].on # world.at[y].on
    BY <1>2, <1>4, <1>8
  <2> HIDE DEF w
  <2> QED BY <2>1, StillGentle
<1> QED BY <1>3, <1>8, <1>9 DEF Changed

(* A window is moved along the scroll.                                     *)
LEMMA MoveColumnOK ==
  ASSUME WorldOK(world), NEW x \in Windows, NEW col \in Columns \cup {Apart}, MoveColumn(x, col)
  PROVE  \E w : Changed(w)
<1> USE ChannelsAssumption, NiriAssumption
<1> DEFINE at == [world.at EXCEPT ![x].col = col]
           w == [world EXCEPT !.at = at, !.top = world.top, !.focus = world.focus]
<1>1. Becomes(w)
  <2>1. w = [world EXCEPT !.at[x].col = col]
    BY DEF WorldOK
  <2> QED BY <2>1 DEF MoveColumn
<1>2. world.at[x].on # None
  BY DEF MoveColumn, Opened
<1>3. /\ at \in [Windows -> [on: Workspaces \cup {None}, col: Columns \cup {Apart}]]
      /\ \A y \in Windows : at[y].on = world.at[y].on /\ (y # x => at[y].col = world.at[y].col)
  BY DEF WorldOK, WindowsOK
<1> HIDE DEF at
<1>4. WindowsOK(world.exist, at, world.top, world.focus)
  BY <1>2, <1>3 DEF WorldOK, WindowsOK
<1>5. WorldOK(w) /\ w.top = world.top
  <2>1. WorldOK(w)
    BY <1>4, WindowsChange
  <2>2. world \in Worlds
    BY DEF WorldOK
  <2>3. w.top = world.top
    BY <2>2 DEF Worlds
  <2> QED BY <2>1, <2>3
<1>6. Gentle(world, w)
  BY <1>5, StillGentle
<1> QED BY <1>1, <1>5, <1>6 DEF Changed

(* A window takes the focus and its workspace.                             *)
LEMMA FocusWindowOK ==
  ASSUME WorldOK(world), NEW x \in Windows, FocusWindow(x)
  PROVE  \E w : Changed(w)
<1> USE ChannelsAssumption, NiriAssumption
<1> DEFINE on == world.at[x].on
           top == [world.top EXCEPT ![on] = x]
           w == [world EXCEPT !.at = world.at, !.top = top, !.focus = x]
<1>1. Becomes(w)
  <2>1. w = [world EXCEPT !.focus = x, !.top[on] = x]
    BY DEF WorldOK
  <2> QED BY <2>1 DEF FocusWindow
<1>2. on \in Workspaces
  BY DEF FocusWindow, Opened, WorldOK, WindowsOK
<1>3. /\ top \in [Workspaces -> Windows \cup {None}]
      /\ \A r \in Workspaces : top[r] = IF r = on THEN x ELSE world.top[r]
  BY <1>2 DEF WorldOK, WindowsOK
<1> HIDE DEF top
<1>4. WindowsOK(world.exist, world.at, top, x)
  BY <1>2, <1>3 DEF WorldOK, WindowsOK
<1>5. WorldOK(w) /\ w.at = world.at
  <2>1. WorldOK(w)
    BY <1>4, WindowsChange
  <2>2. world \in Worlds
    BY DEF WorldOK
  <2>3. w.at = world.at
    BY <2>2 DEF Worlds
  <2> QED BY <2>1, <2>3
<1>6. Gentle(world, w)
  BY <1>5, StillGentle
<1> QED BY <1>1, <1>5, <1>6 DEF Changed

-----------------------------------------------------------------------------
(* The rows of a world.                                                    *)
LEMMA RowsOf ==
  ASSUME WorldOK(world)
  PROVE  /\ world.rows \in [Outputs -> Seq(Workspaces)]
         /\ \A o \in Outputs : IsRow(world.rows[o]) /\ ToSet(world.rows[o]) \subseteq world.exist
         /\ \A o, p \in Outputs : o # p => ToSet(world.rows[o]) \cap ToSet(world.rows[p]) = {}
         /\ world.exist \subseteq Workspaces
         /\ world.shown \in [Outputs -> Workspaces \cup {None}]
         /\ \A o \in Outputs : IF world.rows[o] = <<>> THEN world.shown[o] = None
                               ELSE world.shown[o] \in ToSet(world.rows[o])
BY DEF WorldOK, RowsOK, IsRow

(* What makes rows of a world.                                             *)
LEMMA AreRows ==
  ASSUME NEW exist, exist \subseteq Workspaces, NEW rows, NEW shown,
         rows = [o \in Outputs |-> rows[o]], shown = [o \in Outputs |-> shown[o]],
         \A o \in Outputs : IsRow(rows[o]) /\ ToSet(rows[o]) \subseteq exist,
         \A o, p \in Outputs : o # p => ToSet(rows[o]) \cap ToSet(rows[p]) = {},
         \A o \in Outputs : \/ rows[o] = <<>> /\ shown[o] = None
                            \/ rows[o] # <<>> /\ shown[o] \in ToSet(rows[o])
  PROVE  RowsOK(exist, rows, shown)
<1>1. rows \in [Outputs -> Seq(Workspaces)]
  BY DEF IsRow
<1>2. \A o \in Outputs : shown[o] \in Workspaces \cup {None}
  OBVIOUS
<1>3. shown \in [Outputs -> Workspaces \cup {None}]
  BY <1>2
<1> QED BY <1>1, <1>3 DEF RowsOK, IsRow

(* A row is empty when no workspace is in it.                              *)
LEMMA NoneEmpty ==
  /\ \A row : IsRow(row) => (row = <<>> <=> ToSet(row) = {})
  /\ IsRow(<<>>) /\ ToSet(<<>>) = {}
<1>1. ASSUME NEW row, IsRow(row), row # <<>> PROVE row[1] \in ToSet(row)
  <2>1. row \in Seq(Workspaces)
    BY <1>1 DEF IsRow
  <2>2. 1 \in DOMAIN row
    BY <2>1, <1>1
  <2> QED BY <2>2 DEF ToSet
<1>2. IsRow(<<>>) /\ ToSet(<<>>) = {}
  BY DEF IsRow, ToSet
<1> QED BY <1>1, <1>2

(* A workspace is shown.                                                   *)
LEMMA ActivateOK ==
  ASSUME WorldOK(world), NEW s \in Workspaces, Activate(s)
  PROVE  \E w : Changed(w)
<1> USE ChannelsAssumption, NiriAssumption
<1> DEFINE out == OutputOf(world, s)
           shown == [world.shown EXCEPT ![out] = s]
           w == [world EXCEPT !.shown[out] = s, !.focus = world.top[s]]
<1>1. Becomes(w) /\ out \in Outputs /\ s \in ToSet(world.rows[out])
  BY Places DEF Activate
<1>2. world \in Worlds
  BY DEF WorldOK
<1>3. /\ w \in Worlds /\ w.rows = world.rows /\ w.exist = world.exist /\ w.at = world.at
      /\ w.top = world.top /\ w.focus = world.top[s] /\ w.shown = shown
  BY <1>1, <1>2 DEF Worlds
<1> HIDE DEF w
<1>4. RowsOK(world.exist, world.rows, shown)
  <2>1. \A o \in Outputs : shown[o] = IF o = out THEN s ELSE world.shown[o]
    BY RowsOf
  <2>2. world.rows[out] # <<>>
    BY <1>1, NoneEmpty
  <2>3. shown = [o \in Outputs |-> shown[o]] /\ world.rows = [o \in Outputs |-> world.rows[o]]
    BY RowsOf
  <2> HIDE DEF shown, out
  <2>4. ASSUME NEW o \in Outputs
        PROVE  \/ world.rows[o] = <<>> /\ shown[o] = None
               \/ world.rows[o] # <<>> /\ shown[o] \in ToSet(world.rows[o])
    BY <1>1, <2>1, <2>2, RowsOf
  <2>5. /\ \A o \in Outputs : IsRow(world.rows[o]) /\ ToSet(world.rows[o]) \subseteq world.exist
        /\ \A o, p \in Outputs : o # p => ToSet(world.rows[o]) \cap ToSet(world.rows[p]) = {}
        /\ world.exist \subseteq Workspaces
    BY RowsOf
  <2> QED BY <2>3, <2>4, <2>5, AreRows
<1>5. WindowsOK(world.exist, world.at, world.top, world.top[s])
  BY DEF WorldOK, WindowsOK
<1>6. WorldOK(w)
  BY <1>3, <1>4, <1>5 DEF WorldOK, Worlds
<1> QED BY <1>1, <1>3, <1>6, StillGentle DEF Changed

(* The overview is opened or closed.                                       *)
LEMMA ToggleOverviewOK ==
  ASSUME WorldOK(world), ToggleOverview
  PROVE  \E w : Changed(w)
<1> DEFINE w == [world EXCEPT !.overview = ~@]
<1>1. Becomes(w)
  BY DEF ToggleOverview
<1>2. world \in Worlds
  BY DEF WorldOK
<1>3. /\ w \in Worlds /\ w.rows = world.rows /\ w.exist = world.exist /\ w.at = world.at
      /\ w.top = world.top /\ w.focus = world.focus /\ w.shown = world.shown
  BY <1>2 DEF Worlds
<1> HIDE DEF w
<1>4. WorldOK(w)
  BY <1>3 DEF WorldOK, Worlds
<1> QED BY <1>1, <1>3, <1>4, StillGentle DEF Changed

(* Workspaces may come, and those go that have no window.                  *)
LEMMA WindowsStay ==
  ASSUME WorldOK(world), NEW exist,
         \A s \in world.exist : s \in exist \/ \A x \in Windows : world.at[x].on # s
  PROVE  WindowsOK(exist, world.at, world.top, world.focus)
BY DEF WorldOK, WindowsOK

(* A change of rows is one of niri's changes.                              *)
LEMMA RowsMoved ==
  ASSUME WorldOK(world), NEW exist, exist \subseteq Workspaces, NEW rows, NEW shown,
         RowsOK(exist, rows, shown),
         \A s \in world.exist : s \in exist \/ \A x \in Windows : world.at[x].on # s,
         Becomes([world EXCEPT !.exist = exist, !.rows = rows, !.shown = shown])
  PROVE  \E w : Changed(w)
<1> DEFINE w == [world EXCEPT !.exist = exist, !.rows = rows, !.shown = shown]
<1>1. WindowsOK(exist, world.at, world.top, world.focus)
  BY WindowsStay
<1>2. WorldOK(w)
  BY <1>1, RowsChange
<1>3. world \in Worlds
  BY DEF WorldOK
<1>4. w.top = world.top
  BY <1>3 DEF Worlds
<1> HIDE DEF w
<1>5. Becomes(w)
  BY DEF w
<1> QED BY <1>2, <1>4, <1>5, StillGentle DEF Changed

(* A workspace goes.                                                       *)
LEMMA RemoveWorkspaceOK ==
  ASSUME WorldOK(world), NEW s \in Workspaces, RemoveWorkspace(s)
  PROVE  \E w : Changed(w)
<1> DEFINE out == OutputOf(world, s)
           i == IdxOf(world, s)
           rows == [world.rows EXCEPT ![out] = RemoveAt(@, i)]
           exist == world.exist \ {s}
<1>1. /\ s \in Placed(world) /\ \A o \in Outputs : world.shown[o] # s
      /\ \A x \in Windows : world.at[x].on # s
      /\ Becomes([world EXCEPT !.exist = @ \ {s}, !.rows[out] = RemoveAt(@, i)])
  BY DEF RemoveWorkspace
<1>2. /\ out \in Outputs /\ i \in DOMAIN world.rows[out] /\ world.rows[out][i] = s
      /\ \A o \in Outputs : s \in ToSet(world.rows[o]) => o = out
  BY <1>1, Places
<1>3. world \in Worlds
  BY DEF WorldOK
<1>4. Becomes([world EXCEPT !.exist = exist, !.rows = rows, !.shown = world.shown])
  <2>1. [world EXCEPT !.exist = @ \ {s}, !.rows[out] = RemoveAt(@, i)]
          = [world EXCEPT !.exist = exist, !.rows = rows, !.shown = world.shown]
    BY <1>3 DEF Worlds
  <2> QED BY <1>1, <2>1
<1>5. /\ IsRow(RemoveAt(world.rows[out], i))
      /\ ToSet(RemoveAt(world.rows[out], i)) = ToSet(world.rows[out]) \ {s}
  BY <1>2, RowWithout, RowsOf
<1>6. /\ rows = [o \in Outputs |-> rows[o]]
      /\ \A o \in Outputs : rows[o] = IF o = out THEN RemoveAt(world.rows[out], i) ELSE world.rows[o]
  BY <1>2, RowsOf
<1>7. world.shown = [o \in Outputs |-> world.shown[o]]
  BY RowsOf
<1> HIDE DEF rows, out, i
<1>8. \A o \in Outputs : IsRow(rows[o]) /\ ToSet(rows[o]) = ToSet(world.rows[o]) \ {s}
  BY <1>2, <1>5, <1>6, RowsOf
<1>9. ASSUME NEW o \in Outputs
      PROVE  \/ rows[o] = <<>> /\ world.shown[o] = None
             \/ rows[o] # <<>> /\ world.shown[o] \in ToSet(rows[o])
  <2>1. CASE world.rows[o] = <<>>
    BY <2>1, <1>8, NoneEmpty, RowsOf
  <2>2. CASE world.rows[o] # <<>>
    <3>1. world.shown[o] \in ToSet(rows[o])
      BY <2>2, <1>1, <1>8, RowsOf
    <3> QED BY <3>1, <1>8, NoneEmpty
  <2> QED BY <2>1, <2>2
<1>10. RowsOK(exist, rows, world.shown)
  <2>1. /\ \A o \in Outputs : IsRow(rows[o]) /\ ToSet(rows[o]) \subseteq exist
        /\ \A o, p \in Outputs : o # p => ToSet(rows[o]) \cap ToSet(rows[p]) = {}
        /\ exist \subseteq Workspaces
    BY <1>8, RowsOf
  <2> HIDE DEF exist
  <2> QED BY <1>6, <1>7, <1>9, <2>1, AreRows
<1>11. /\ exist \subseteq Workspaces
       /\ \A r \in world.exist : r \in exist \/ \A x \in Windows : world.at[x].on # r
  BY <1>1, RowsOf
<1> HIDE DEF exist
<1> QED BY <1>4, <1>10, <1>11, RowsMoved

(* A workspace comes.                                                      *)
LEMMA AddWorkspaceOK ==
  ASSUME WorldOK(world), NEW s \in Workspaces, NEW o \in Outputs, AddWorkspace(s, o)
  PROVE  \E w : Changed(w)
<1> DEFINE rows == [world.rows EXCEPT ![o] = Append(@, s)]
           exist == world.exist \cup {s}
<1>1. s \notin world.exist /\ world.rows[o] # <<>>
      /\ Becomes([world EXCEPT !.exist = @ \cup {s}, !.rows[o] = Append(@, s)])
  BY DEF AddWorkspace
<1>2. world \in Worlds
  BY DEF WorldOK
<1>3. Becomes([world EXCEPT !.exist = exist, !.rows = rows, !.shown = world.shown])
  <2>1. [world EXCEPT !.exist = @ \cup {s}, !.rows[o] = Append(@, s)]
          = [world EXCEPT !.exist = exist, !.rows = rows, !.shown = world.shown]
    BY <1>2 DEF Worlds
  <2> QED BY <1>1, <2>1
<1>4. /\ IsRow(Append(world.rows[o], s))
      /\ ToSet(Append(world.rows[o], s)) = ToSet(world.rows[o]) \cup {s}
  BY <1>1, RowWith, RowsOf
<1>5. /\ rows = [p \in Outputs |-> rows[p]]
      /\ \A p \in Outputs : rows[p] = IF p = o THEN Append(world.rows[o], s) ELSE world.rows[p]
      /\ world.shown = [p \in Outputs |-> world.shown[p]]
  BY RowsOf
<1> HIDE DEF rows
<1>6. \A p \in Outputs : IsRow(rows[p]) /\ ToSet(rows[p])
                           = IF p = o THEN ToSet(world.rows[p]) \cup {s} ELSE ToSet(world.rows[p])
  BY <1>4, <1>5, RowsOf
<1>7. ASSUME NEW p \in Outputs
      PROVE  \/ rows[p] = <<>> /\ world.shown[p] = None
             \/ rows[p] # <<>> /\ world.shown[p] \in ToSet(rows[p])
  BY <1>1, <1>5, <1>6, RowsOf, NoneEmpty
<1>8. RowsOK(exist, rows, world.shown)
  <2>1. /\ \A p \in Outputs : IsRow(rows[p]) /\ ToSet(rows[p]) \subseteq exist
        /\ exist \subseteq Workspaces
    BY <1>6, RowsOf
  <2>2. ASSUME NEW p \in Outputs, NEW q \in Outputs, p # q
        PROVE  ToSet(rows[p]) \cap ToSet(rows[q]) = {}
    <3>1. ToSet(world.rows[p]) \cap ToSet(world.rows[q]) = {}
      BY <2>2, RowsOf
    <3>2. s \notin ToSet(world.rows[p]) /\ s \notin ToSet(world.rows[q])
      BY <1>1, RowsOf
    <3> QED BY <1>6, <2>2, <3>1, <3>2
  <2> HIDE DEF exist
  <2> QED BY <1>5, <1>7, <2>1, <2>2, AreRows
<1>9. /\ exist \subseteq Workspaces
      /\ \A r \in world.exist : r \in exist \/ \A x \in Windows : world.at[x].on # r
  BY RowsOf
<1> HIDE DEF exist
<1> QED BY <1>3, <1>8, <1>9, RowsMoved

-----------------------------------------------------------------------------
(* A workspace goes to another output.                                     *)
LEMMA MoveWorkspaceOK ==
  ASSUME WorldOK(world), NEW s \in Workspaces, NEW o \in Outputs, MoveWorkspace(s, o)
  PROVE  \E w : Changed(w)
<1> USE ChannelsAssumption, NiriAssumption
<1> DEFINE from == OutputOf(world, s)
           i == IdxOf(world, s)
           rows == [world.rows EXCEPT ![from] = RemoveAt(@, i), ![o] = Append(@, s)]
           shown(next) == [world.shown EXCEPT ![from] = IF @ = s THEN next ELSE @, ![o] = s]
<1>1. s \in Placed(world) /\ from # o /\ world.rows[o] # <<>>
  BY DEF MoveWorkspace
<1>2. PICK next \in ToSet(world.rows[from]) \ {s} :
        Becomes([world EXCEPT !.rows = rows, !.shown = shown(next)])
  BY DEF MoveWorkspace
<1>3. /\ from \in Outputs /\ i \in DOMAIN world.rows[from] /\ world.rows[from][i] = s
      /\ s \in ToSet(world.rows[from])
      /\ \A p \in Outputs : s \in ToSet(world.rows[p]) => p = from
  BY <1>1, Places
<1>4. Becomes([world EXCEPT !.exist = world.exist, !.rows = rows, !.shown = shown(next)])
  <2>1. world \in Worlds
    BY DEF WorldOK
  <2>2. [world EXCEPT !.rows = rows, !.shown = shown(next)]
          = [world EXCEPT !.exist = world.exist, !.rows = rows, !.shown = shown(next)]
    BY <2>1 DEF Worlds
  <2> QED BY <1>2, <2>2
<1>5. /\ IsRow(RemoveAt(world.rows[from], i))
      /\ ToSet(RemoveAt(world.rows[from], i)) = ToSet(world.rows[from]) \ {s}
  BY <1>3, RowWithout, RowsOf
<1>6. /\ IsRow(Append(world.rows[o], s))
      /\ ToSet(Append(world.rows[o], s)) = ToSet(world.rows[o]) \cup {s}
  BY <1>1, <1>3, RowWith, RowsOf
<1>7. /\ rows = [p \in Outputs |-> rows[p]] /\ shown(next) = [p \in Outputs |-> shown(next)[p]]
      /\ \A p \in Outputs : rows[p] = IF p = o THEN Append(world.rows[o], s)
                                      ELSE IF p = from THEN RemoveAt(world.rows[from], i) ELSE world.rows[p]
      /\ \A p \in Outputs : shown(next)[p] = IF p = o THEN s
                                             ELSE IF p = from /\ world.shown[from] = s THEN next
                                             ELSE world.shown[p]
  BY <1>1, <1>3, RowsOf
<1> DEFINE now == shown(next)
<1> HIDE DEF rows, now, shown, from, i
<1>8. \A p \in Outputs : IsRow(rows[p]) /\ ToSet(rows[p])
                           = IF p = o THEN ToSet(world.rows[p]) \cup {s} ELSE ToSet(world.rows[p]) \ {s}
  <2>1. ASSUME NEW p \in Outputs, p # from PROVE s \notin ToSet(world.rows[p])
    BY <1>3, <2>1
  <2>2. ASSUME NEW p \in Outputs
        PROVE  IsRow(rows[p]) /\ ToSet(rows[p])
                 = IF p = o THEN ToSet(world.rows[p]) \cup {s} ELSE ToSet(world.rows[p]) \ {s}
    <3>1. CASE p = o
      BY <3>1, <1>6, <1>7
    <3>2. CASE p # o /\ p = from
      BY <3>2, <1>5, <1>7
    <3>3. CASE p # o /\ p # from
      <4>1. rows[p] = world.rows[p] /\ ToSet(world.rows[p]) = ToSet(world.rows[p]) \ {s}
        BY <3>3, <2>1, <1>7
      <4> QED BY <3>3, <4>1, RowsOf
    <3> QED BY <3>1, <3>2, <3>3
  <2> QED BY <2>2
<1>9. ASSUME NEW p \in Outputs
      PROVE  \/ rows[p] = <<>> /\ now[p] = None
             \/ rows[p] # <<>> /\ now[p] \in ToSet(rows[p])
  <2>1. CASE p = o
    <3>1. now[p] \in ToSet(rows[p])
      BY <2>1, <1>7, <1>8 DEF now
    <3> QED BY <3>1, <1>8, NoneEmpty
  <2>2. CASE p # o /\ world.rows[p] = <<>>
    <3>1. now[p] = None /\ ToSet(rows[p]) = {}
      <4>1. p # from
        BY <2>2, <1>3, NoneEmpty
      <4> QED BY <4>1, <2>2, <1>7, <1>8, NoneEmpty, RowsOf DEF now
    <3> QED BY <3>1, <1>8, NoneEmpty
  <2>3. CASE p # o /\ world.rows[p] # <<>>
    <3>1. now[p] \in ToSet(rows[p])
      <4>1. CASE p = from
        <5>1. next \in ToSet(rows[p])
          BY <4>1, <2>3, <1>2, <1>8
        <5>2. world.shown[p] \in ToSet(world.rows[p])
          BY <2>3, RowsOf
        <5>3. now[p] = IF world.shown[p] = s THEN next ELSE world.shown[p]
          BY <4>1, <2>3, <1>7 DEF now
        <5>4. ToSet(rows[p]) = ToSet(world.rows[p]) \ {s}
          BY <2>3, <1>8
        <5> QED BY <5>1, <5>2, <5>3, <5>4
      <4>2. CASE p # from
        BY <4>2, <2>3, <1>3, <1>7, <1>8, RowsOf DEF now
      <4> QED BY <4>1, <4>2
    <3> QED BY <3>1, <1>8, NoneEmpty
  <2> QED BY <2>1, <2>2, <2>3
<1>10. RowsOK(world.exist, rows, now)
  <2>0. s \in world.exist /\ world.exist \subseteq Workspaces
    BY <1>3, RowsOf
  <2>1. ASSUME NEW p \in Outputs PROVE IsRow(rows[p]) /\ ToSet(rows[p]) \subseteq world.exist
    <3>1. ToSet(world.rows[p]) \subseteq world.exist
      BY RowsOf
    <3> QED BY <2>0, <3>1, <1>8
  <2>2. \A p, q \in Outputs : p # q => ToSet(rows[p]) \cap ToSet(rows[q]) = {}
    BY <1>8, RowsOf
  <2>3. now = [p \in Outputs |-> now[p]]
    BY <1>7 DEF now
  <2> QED BY <1>7, <1>9, <2>0, <2>1, <2>2, <2>3, AreRows
<1>11. Becomes([world EXCEPT !.exist = world.exist, !.rows = rows, !.shown = now])
  BY <1>4 DEF now
<1> QED BY <1>10, <1>11, RowsOf, RowsMoved

(* An output goes.                                                         *)
LEMMA UnplugOK ==
  ASSUME WorldOK(world), NEW o \in Outputs, Unplug(o)
  PROVE  \E w : Changed(w)
<1> USE ChannelsAssumption, NiriAssumption
<1> DEFINE rows(p) == [world.rows EXCEPT ![o] = <<>>,
                                         ![p] = IF @ = <<>> THEN <<>> ELSE @ \o world.rows[o]]
           shown == [world.shown EXCEPT ![o] = None]
<1>1. PICK p \in Outputs \ {o} : Becomes([world EXCEPT !.rows = rows(p), !.shown = shown])
  BY DEF Unplug
<1>2. Becomes([world EXCEPT !.exist = world.exist, !.rows = rows(p), !.shown = shown])
  <2>1. world \in Worlds
    BY DEF WorldOK
  <2>2. [world EXCEPT !.rows = rows(p), !.shown = shown]
          = [world EXCEPT !.exist = world.exist, !.rows = rows(p), !.shown = shown]
    BY <2>1 DEF Worlds
  <2> QED BY <1>1, <2>2
<1>3. world.rows[p] # <<>> =>
        /\ IsRow(world.rows[p] \o world.rows[o])
        /\ ToSet(world.rows[p] \o world.rows[o]) = ToSet(world.rows[p]) \cup ToSet(world.rows[o])
  BY <1>1, RowsTogether, RowsOf
<1>4. /\ rows(p) = [q \in Outputs |-> rows(p)[q]] /\ shown = [q \in Outputs |-> shown[q]]
      /\ \A q \in Outputs : rows(p)[q] = IF q = o THEN <<>>
                                         ELSE IF q = p /\ world.rows[p] # <<>> THEN world.rows[p] \o world.rows[o]
                                         ELSE world.rows[q]
      /\ \A q \in Outputs : shown[q] = IF q = o THEN None ELSE world.shown[q]
  BY <1>1, RowsOf
<1> DEFINE new == rows(p)
<1> HIDE DEF new, rows, shown
<1>5. ASSUME NEW q \in Outputs
      PROVE  IsRow(new[q]) /\ ToSet(new[q]) =
               IF q = o THEN {}
               ELSE IF q = p /\ world.rows[p] # <<>> THEN ToSet(world.rows[p]) \cup ToSet(world.rows[o])
               ELSE ToSet(world.rows[q])
  BY <1>3, <1>4, RowsOf, NoneEmpty DEF new
<1>6. ASSUME NEW q \in Outputs
      PROVE  \/ new[q] = <<>> /\ shown[q] = None
             \/ new[q] # <<>> /\ shown[q] \in ToSet(new[q])
  <2>1. CASE q = o \/ world.rows[q] = <<>>
    <3>1. new[q] = <<>> /\ shown[q] = None
      BY <2>1, <1>4, RowsOf DEF new
    <3> QED BY <3>1
  <2>2. CASE q # o /\ world.rows[q] # <<>>
    <3>1. shown[q] \in ToSet(new[q])
      <4>1. world.shown[q] \in ToSet(world.rows[q]) /\ shown[q] = world.shown[q]
        BY <2>2, <1>4, RowsOf
      <4>2. ToSet(world.rows[q]) \subseteq ToSet(new[q])
        BY <2>2, <1>5
      <4> QED BY <4>1, <4>2
    <3> QED BY <3>1, <1>5, NoneEmpty
  <2> QED BY <2>1, <2>2
<1>7. RowsOK(world.exist, new, shown)
  <2>1. /\ \A q \in Outputs : IsRow(new[q]) /\ ToSet(new[q]) \subseteq world.exist
        /\ world.exist \subseteq Workspaces
    BY <1>5, RowsOf
  <2>2. ASSUME NEW q \in Outputs, NEW r \in Outputs, q # r PROVE ToSet(new[q]) \cap ToSet(new[r]) = {}
    <3>1. /\ ToSet(new[q]) = IF q = o THEN {}
               ELSE IF q = p /\ world.rows[p] # <<>> THEN ToSet(world.rows[p]) \cup ToSet(world.rows[o])
               ELSE ToSet(world.rows[q])
          /\ ToSet(new[r]) = IF r = o THEN {}
               ELSE IF r = p /\ world.rows[p] # <<>> THEN ToSet(world.rows[p]) \cup ToSet(world.rows[o])
               ELSE ToSet(world.rows[r])
      BY <1>5
    <3>2. \A a, b \in Outputs : a # b => ToSet(world.rows[a]) \cap ToSet(world.rows[b]) = {}
      BY RowsOf
    <3>3. /\ ToSet(world.rows[q]) \cap ToSet(world.rows[r]) = {}
          /\ q # o => ToSet(world.rows[q]) \cap ToSet(world.rows[o]) = {}
          /\ r # o => ToSet(world.rows[r]) \cap ToSet(world.rows[o]) = {}
      BY <3>2, <2>2
    <3> QED BY <2>2, <3>1, <3>3
  <2>3. new = [q \in Outputs |-> new[q]]
    BY <1>4 DEF new
  <2> QED BY <1>4, <1>6, <2>1, <2>2, <2>3, AreRows
<1>8. Becomes([world EXCEPT !.exist = world.exist, !.rows = new, !.shown = shown])
  BY <1>2 DEF new
<1> QED BY <1>7, <1>8, RowsOf, RowsMoved

(* An output comes.                                                        *)
LEMMA PlugOK ==
  ASSUME WorldOK(world), NEW o \in Outputs, NEW s \in Workspaces, Plug(o, s)
  PROVE  \E w : Changed(w)
<1> USE ChannelsAssumption, NiriAssumption
<1> DEFINE waiting == world.exist \ Placed(world)
           them == IF waiting = {} THEN {s} ELSE waiting
           exist == world.exist \cup {s}
           rows(row) == [world.rows EXCEPT ![o] = row]
           shown == [world.shown EXCEPT ![o] = s]
<1>1. /\ world.rows[o] = <<>> /\ s \notin Placed(world)
      /\ \E row \in SetToSeqs(them) :
           /\ row[1] = s
           /\ Becomes([world EXCEPT !.exist = exist, !.rows[o] = row, !.shown[o] = s])
  BY DEF Plug
<1>2. PICK row \in SetToSeqs(them) :
        row[1] = s /\ Becomes([world EXCEPT !.exist = exist, !.rows[o] = row, !.shown[o] = s])
  BY <1>1
<1>3. Becomes([world EXCEPT !.exist = exist, !.rows = rows(row), !.shown = shown])
  <2>1. world \in Worlds
    BY DEF WorldOK
  <2>2. [world EXCEPT !.exist = exist, !.rows[o] = row, !.shown[o] = s]
          = [world EXCEPT !.exist = exist, !.rows = rows(row), !.shown = shown]
    BY <2>1 DEF Worlds
  <2> QED BY <1>2, <2>2
<1>4. /\ them \subseteq Workspaces /\ them \subseteq exist /\ them \cap Placed(world) = {}
      /\ them # {}
  BY <1>1, RowsOf
<1> HIDE DEF them
<1>5. IsRow(row) /\ ToSet(row) \subseteq them
  BY <1>4, RowOfAll
<1>6. s \in ToSet(row)
  <2>1. IsFiniteSet(them) /\ Cardinality(them) \in Nat /\ Cardinality(them) # 0
    <3>1. IsFiniteSet(them)
      BY <1>4, FS_Subset
    <3> QED BY <3>1, <1>4, FS_CardinalityType, FS_EmptySet
  <2>2. DOMAIN row = 1..Cardinality(them)
    BY DEF SetToSeqs
  <2>3. 1 \in DOMAIN row
    BY <2>1, <2>2
  <2> QED BY <2>3, <1>2 DEF ToSet
<1>7. /\ rows(row) = [q \in Outputs |-> rows(row)[q]] /\ shown = [q \in Outputs |-> shown[q]]
      /\ \A q \in Outputs : rows(row)[q] = IF q = o THEN row ELSE world.rows[q]
      /\ \A q \in Outputs : shown[q] = IF q = o THEN s ELSE world.shown[q]
  BY RowsOf
<1> DEFINE new == rows(row)
<1> HIDE DEF new, rows, shown
<1>8. \A q \in Outputs : q # o => ToSet(world.rows[q]) \subseteq Placed(world)
  BY DEF Placed
<1>9. ASSUME NEW q \in Outputs
      PROVE  \/ new[q] = <<>> /\ shown[q] = None
             \/ new[q] # <<>> /\ shown[q] \in ToSet(new[q])
  <2>1. CASE q = o
    <3>1. shown[q] \in ToSet(new[q])
      BY <2>1, <1>6, <1>7 DEF new
    <3>2. IsRow(new[q])
      BY <2>1, <1>5, <1>7 DEF new
    <3> QED BY <3>1, <3>2, NoneEmpty
  <2>2. CASE q # o
    BY <2>2, <1>7, RowsOf DEF new
  <2> QED BY <2>1, <2>2
<1>10. RowsOK(exist, new, shown)
  <2>1. /\ \A q \in Outputs : IsRow(new[q]) /\ ToSet(new[q]) \subseteq exist
        /\ exist \subseteq Workspaces
    BY <1>4, <1>5, <1>7, RowsOf DEF new
  <2>2. ASSUME NEW q \in Outputs, NEW r \in Outputs, q # r PROVE ToSet(new[q]) \cap ToSet(new[r]) = {}
    <3>1. \A a \in Outputs : new[a] = IF a = o THEN row ELSE world.rows[a]
      BY <1>7 DEF new
    <3>2. \A a \in Outputs : a # o => ToSet(row) \cap ToSet(world.rows[a]) = {}
      BY <1>4, <1>5, <1>8
    <3>3. ToSet(world.rows[q]) \cap ToSet(world.rows[r]) = {}
      BY <2>2, RowsOf
    <3> QED BY <2>2, <3>1, <3>2, <3>3
  <2>3. new = [q \in Outputs |-> new[q]]
    BY <1>7 DEF new
  <2> HIDE DEF exist
  <2> QED BY <1>7, <1>9, <2>1, <2>2, <2>3, AreRows
<1>11. exist \subseteq Workspaces /\ world.exist \subseteq exist
  BY RowsOf
<1>12. Becomes([world EXCEPT !.exist = exist, !.rows = new, !.shown = shown])
  BY <1>3 DEF new
<1> HIDE DEF exist
<1> QED BY <1>10, <1>11, <1>12, RowsMoved

(* Every change.                                                           *)
LEMMA ChangesOK ==
  ASSUME WorldOK(world), NiriChanges
  PROVE  \E w : Changed(w)
<1>1. CASE \E x \in Windows, s \in Workspaces, c \in Columns \cup {Apart} : PlaceWindow(x, s, c)
  BY <1>1, PlaceWindowOK
<1>2. CASE \E x \in Windows : CloseWindow(x) \/ FocusWindow(x)
  BY <1>2, CloseWindowOK, FocusWindowOK
<1>3. CASE \E x \in Windows, c \in Columns \cup {Apart} : MoveColumn(x, c)
  BY <1>3, MoveColumnOK
<1>4. CASE \E s \in Workspaces : Activate(s) \/ RemoveWorkspace(s)
  BY <1>4, ActivateOK, RemoveWorkspaceOK
<1>5. CASE \E s \in Workspaces, o \in Outputs : AddWorkspace(s, o) \/ MoveWorkspace(s, o) \/ Plug(o, s)
  BY <1>5, AddWorkspaceOK, MoveWorkspaceOK, PlugOK
<1>6. CASE \E o \in Outputs : Unplug(o)
  BY <1>6, UnplugOK
<1>7. CASE ToggleOverview
  BY <1>7, ToggleOverviewOK
<1> QED BY <1>1, <1>2, <1>3, <1>4, <1>5, <1>6, <1>7 DEF NiriChanges

-----------------------------------------------------------------------------
(* One more batch at the end of the row.                                   *)
LEMMA LinkMore ==
  ASSUME NEW e, NEW batches, NEW from, NEW to, NEW columns, Linked(e, batches, from, to, columns),
         NEW lines, NEW next \in Trackers, Leads(to, lines, next), NEW more,
         \A s \in Workspaces : columns[s] \subseteq more[s], Had(next, more)
  PROVE  \E f : Linked(f, Append(batches, lines), from, next, more)
<1> DEFINE n == Len(batches)
           now == Append(batches, lines)
           f == [i \in 0..(n + 1) |-> IF i <= n THEN e[i] ELSE next]
<1>1. n \in Nat /\ batches \in Seq(ToSet(batches)) /\ e \in [0..n -> Trackers]
  BY DEF Linked
<1>2. now \in Seq(ToSet(batches) \cup {lines}) /\ Len(now) = n + 1
      /\ (\A i \in 1..n : now[i] = batches[i]) /\ now[n + 1] = lines
  BY <1>1, SeqMonotonic
<1>3. now \in Seq(ToSet(now))
  BY <1>2, SeqDef DEF ToSet
<1> HIDE DEF now
<1>4. /\ f \in [0..(n + 1) -> Trackers] /\ f[n + 1] = next
      /\ \A i \in 0..n : f[i] = e[i]
  BY <1>1
<1> HIDE DEF f
<1>5. f[0] = from /\ e[n] = to
  BY <1>1, <1>4 DEF Linked
<1>6. ASSUME NEW i \in 1..(n + 1) PROVE Leads(f[i - 1], now[i], f[i])
  <2>1. CASE i = n + 1
    BY <2>1, <1>1, <1>2, <1>4, <1>5
  <2>2. CASE i \in 1..n
    <3>1. Leads(e[i - 1], batches[i], e[i])
      BY <2>2 DEF Linked
    <3>2. i - 1 \in 0..n /\ i \in 0..n
      BY <2>2, <1>1
    <3>3. f[i - 1] = e[i - 1] /\ f[i] = e[i] /\ now[i] = batches[i]
      BY <2>2, <3>2, <1>2, <1>4
    <3> QED BY <3>1, <3>3
  <2> QED BY <1>1, <2>1, <2>2
<1>7. ASSUME NEW i \in 0..(n + 1), NEW k \in 0..(n + 1), i <= k,
             \A j \in (i + 1)..k : now[j] = {}
      PROVE  f[i] = f[k]
  <2>1. ASSUME NEW m \in 0..n, i <= m, m <= k PROVE f[i] = f[m]
    <3>1. i \in 0..n /\ \A j \in (i + 1)..m : batches[j] = {}
      BY <1>1, <1>2, <1>7, <2>1
    <3> QED BY <3>1, <2>1, <1>4 DEF Linked
  <2>2. CASE k \in 0..n
    BY <2>1, <2>2, <1>7
  <2>3. CASE k = n + 1 /\ i \in 0..n
    <3>1. lines = {}
      BY <2>3, <1>1, <1>2, <1>7
    <3>2. to = next
      BY <3>1, <1>1, <1>5, NothingLeft
    <3>3. f[i] = f[n]
      BY <2>1, <2>3, <1>1
    <3> QED BY <2>3, <3>2, <3>3, <1>1, <1>4, <1>5
  <2>4. CASE i = n + 1
    BY <2>4, <1>1, <1>7
  <2> QED BY <1>1, <2>2, <2>3, <2>4
<1>8. ASSUME NEW i \in 0..(n + 1) PROVE Had(f[i], more)
  <2>1. CASE i = n + 1
    BY <2>1, <1>4
  <2>2. CASE i \in 0..n
    <3>1. Had(e[i], columns)
      BY <2>2 DEF Linked
    <3> QED BY <2>2, <3>1, <1>4 DEF Had
  <2> QED BY <1>1, <2>1, <2>2
<1>9. Linked(f, now, from, next, more)
  BY <1>2, <1>3, <1>4, <1>5, <1>6, <1>7, <1>8 DEF Linked
<1> QED BY <1>9 DEF now

(* A line of the first batch is read.                                      *)
LEMMA LinkRead ==
  ASSUME NEW e, NEW batches, NEW from, NEW to, NEW columns, Linked(e, batches, from, to, columns),
         batches # <<>>, NEW line \in batches[1], NEW v, v = Apply(from, line)
  PROVE  \E f : Linked(f, [batches EXCEPT ![1] = @ \ {line}], v, to, columns)
<1> DEFINE n == Len(batches)
           now == [batches EXCEPT ![1] = @ \ {line}]
           f == [e EXCEPT ![0] = v]
<1>1. n \in Nat /\ batches \in Seq(ToSet(batches)) /\ e \in [0..n -> Trackers] /\ n >= 1
  BY DEF Linked
<1>2. /\ Len(now) = n /\ now[1] = batches[1] \ {line} /\ DOMAIN now = 1..n
      /\ \A i \in 2..n : now[i] = batches[i]
  BY <1>1
<1>3. now \in Seq(ToSet(now))
  <2>1. now = [i \in 1..n |-> now[i]]
    BY <1>1
  <2> HIDE DEF now
  <2> QED BY <1>1, <1>2, <2>1, SeqDef DEF ToSet
<1>4. /\ e[0] = from /\ e[0] \in Trackers /\ e[1] \in Trackers /\ Leads(e[0], batches[1], e[1])
      /\ Had(e[0], columns) /\ Had(e[1], columns) /\ e[n] = to
  BY <1>1 DEF Linked
<1>5. /\ v \in Trackers /\ Leads(v, now[1], e[1])
      /\ \A x \in Windows : \/ v.on[x] = e[0].on[x] /\ v.col[x] = e[0].col[x]
                            \/ v.on[x] = e[1].on[x] /\ v.col[x] = e[1].col[x]
      /\ \A s \in Workspaces :
           \/ v.stands[s] \in {e[0].stands[s], Apart}
           \/ \E x \in Windows : v.on[x] = s /\ v.col[x] = v.stands[s]
  <2> HIDE DEF now
  <2>1. now[1] = batches[1] \ {line}
    BY <1>2
  <2>2. v = Apply(e[0], line)
    BY <1>4
  <2>3. Onward(e[0], v, batches[1] \ {line}, e[1])
    BY <1>4, <2>2, ReadLeads
  <2> QED BY <2>1, <2>3 DEF Onward
<1> HIDE DEF now
<1>6. f \in [0..n -> Trackers] /\ f[0] = v /\ \A i \in 1..n : f[i] = e[i]
  BY <1>1, <1>5
<1> HIDE DEF f
<1>7. ASSUME NEW i \in 1..n PROVE Leads(f[i - 1], now[i], f[i])
  <2>1. CASE i = 1
    BY <2>1, <1>1, <1>5, <1>6
  <2>2. CASE i \in 2..n
    <3>1. i - 1 \in 1..n /\ i \in 1..n
      BY <2>2, <1>1
    <3>2. Leads(e[i - 1], batches[i], e[i])
      BY <3>1, <1>1 DEF Linked
    <3> QED BY <2>2, <3>1, <3>2, <1>2, <1>6
  <2> QED BY <1>1, <2>1, <2>2
<1>8. ASSUME NEW i \in 0..n, NEW k \in 0..n, i <= k, \A j \in (i + 1)..k : now[j] = {}
      PROVE  f[i] = f[k]
  <2>1. ASSUME NEW m \in 1..n, m <= k, i <= m PROVE f[m] = f[k]
    <3>1. k \in 1..n /\ \A j \in (m + 1)..k : batches[j] = {}
      BY <1>1, <1>2, <1>8, <2>1
    <3>2. e[m] = e[k]
      BY <3>1, <2>1, <1>1 DEF Linked
    <3> QED BY <3>1, <3>2, <1>6
  <2>2. CASE i >= 1
    BY <2>1, <2>2, <1>1, <1>8
  <2>3. CASE i = 0 /\ k = 0
    BY <2>3
  <2>4. CASE i = 0 /\ k >= 1
    <3>1. now[1] = {}
      BY <2>4, <1>1, <1>8
    <3>2. v = e[1]
      BY <3>1, <1>4, <1>5, NothingLeft
    <3>3. f[1] = f[k]
      BY <2>1, <2>4, <1>1
    <3> QED BY <2>4, <3>2, <3>3, <1>1, <1>6
  <2> QED BY <1>1, <2>2, <2>3, <2>4
<1>9. Had(v, columns)
  <2>1. ASSUME NEW x \in Windows, NEW s \in Workspaces, v.on[x] = s
        PROVE  v.col[x] \in columns[s] \cup {Apart}
    BY <1>4, <1>5, <2>1 DEF Had
  <2>2. ASSUME NEW s \in Workspaces PROVE v.stands[s] \in columns[s] \cup {Apart}
    <3>1. CASE v.stands[s] \in {e[0].stands[s], Apart}
      BY <3>1, <1>4 DEF Had
    <3>2. CASE \E x \in Windows : v.on[x] = s /\ v.col[x] = v.stands[s]
      BY <3>2, <2>1
    <3> QED BY <3>1, <3>2, <1>5
  <2> QED BY <2>1, <2>2 DEF Had
<1>10. ASSUME NEW i \in 0..n PROVE Had(f[i], columns)
  <2>1. CASE i = 0
    BY <2>1, <1>6, <1>9
  <2>2. CASE i \in 1..n
    BY <2>2, <1>6 DEF Linked
  <2> QED BY <1>1, <2>1, <2>2
<1>11. f[0] = v /\ f[n] = to
  BY <1>1, <1>4, <1>6
<1>12. Linked(f, now, v, to, columns)
  BY <1>2, <1>3, <1>6, <1>7, <1>8, <1>10, <1>11 DEF Linked
<1> QED BY <1>12 DEF now

(* The first batch has been read.                                          *)
LEMMA LinkNext ==
  ASSUME NEW e, NEW batches, NEW from, NEW to, NEW columns, Linked(e, batches, from, to, columns),
         batches # <<>>, batches[1] = {}
  PROVE  \E f : Linked(f, Tail(batches), from, to, columns)
<1> DEFINE n == Len(batches)
           now == Tail(batches)
           f == [i \in 0..(n - 1) |-> e[i + 1]]
<1>1. n \in Nat /\ batches \in Seq(ToSet(batches)) /\ e \in [0..n -> Trackers] /\ n >= 1
  BY DEF Linked
<1>2. /\ now \in Seq(ToSet(batches)) /\ Len(now) = n - 1
      /\ \A i \in 1..(n - 1) : now[i] = batches[i + 1]
  BY <1>1
<1>3. now \in Seq(ToSet(now))
  <2> HIDE DEF now
  <2> QED BY <1>1, <1>2, SeqDef DEF ToSet
<1> HIDE DEF now
<1>4. f \in [0..(n - 1) -> Trackers] /\ \A i \in 0..(n - 1) : f[i] = e[i + 1]
  BY <1>1
<1> HIDE DEF f
<1>5. f[0] = from /\ f[n - 1] = to
  <2>1. e[0] = e[1]
    <3>1. 0 \in 0..n /\ 1 \in 0..n /\ \A j \in (0 + 1)..1 : batches[j] = {}
      BY <1>1
    <3> QED BY <3>1 DEF Linked
  <2>2. e[0] = from /\ e[n] = to
    BY DEF Linked
  <2>3. 0 \in 0..(n - 1) /\ n - 1 \in 0..(n - 1) /\ (n - 1) + 1 = n /\ 0 + 1 = 1
    BY <1>1
  <2>4. f[0] = e[0 + 1] /\ f[n - 1] = e[(n - 1) + 1]
    BY <2>3, <1>4
  <2> QED BY <2>1, <2>2, <2>3, <2>4
<1>6. ASSUME NEW i \in 1..(n - 1) PROVE Leads(f[i - 1], now[i], f[i])
  <2>1. i + 1 \in 1..n /\ (i + 1) - 1 = i /\ i - 1 \in 0..(n - 1) /\ (i - 1) + 1 = i
    BY <1>1
  <2>2. Leads(e[(i + 1) - 1], batches[i + 1], e[i + 1])
    BY <2>1 DEF Linked
  <2>3. f[i - 1] = e[i] /\ f[i] = e[i + 1] /\ now[i] = batches[i + 1]
    BY <2>1, <1>1, <1>2, <1>4
  <2> QED BY <2>1, <2>2, <2>3
<1>7. ASSUME NEW i \in 0..(n - 1), NEW k \in 0..(n - 1), i <= k, \A j \in (i + 1)..k : now[j] = {}
      PROVE  f[i] = f[k]
  <2>1. i + 1 \in 0..n /\ k + 1 \in 0..n /\ i + 1 <= k + 1
    BY <1>1, <1>7
  <2>2. ASSUME NEW j \in ((i + 1) + 1)..(k + 1) PROVE batches[j] = {}
    <3>1. j - 1 \in (i + 1)..k /\ j - 1 \in 1..(n - 1) /\ (j - 1) + 1 = j
      BY <1>1
    <3>2. now[j - 1] = batches[(j - 1) + 1]
      BY <3>1, <1>2
    <3> QED BY <3>1, <3>2, <1>7
  <2>3. e[i + 1] = e[k + 1]
    BY <2>1, <2>2 DEF Linked
  <2> QED BY <2>3, <1>4
<1>8. ASSUME NEW i \in 0..(n - 1) PROVE Had(f[i], columns)
  <2>1. i + 1 \in 0..n /\ f[i] = e[i + 1]
    BY <1>1, <1>4
  <2> QED BY <2>1 DEF Linked
<1>9. Linked(f, now, from, to, columns)
  BY <1>2, <1>3, <1>4, <1>5, <1>6, <1>7, <1>8 DEF Linked
<1> QED BY <1>9 DEF now

-----------------------------------------------------------------------------
Nowhere == [s \in Workspaces |-> Apart]

(* What a connection starts with takes a tracker that knows nothing to     *)
(* what niri is.                                                           *)
LEMMA LinkDescribed ==
  ASSUME NEW w, WorldOK(w), NEW columns,
         \A x \in Windows, s \in Workspaces : w.at[x].on = s => w.at[x].col \in columns[s]
  PROVE  \E f : Linked(f, Described(w), NewTracker, Tracked(w, Standing(w, Nowhere)), columns)
<1> USE ChannelsAssumption, NiriAssumption
<1> DEFINE q == Standing(w, Nowhere)
           a == NewTracker
           d == Tracked(w, q)
           c == [d EXCEPT !.overview = FALSE]
           b == [c EXCEPT !.on = a.on, !.col = a.col, !.focus = None, !.stands = Nowhere]
           la == [says |-> "workspaces", all |-> Spaces(w)]
           lb == [says |-> "windows", all |-> {WindowOf(w, x) : x \in Opened(w)}]
           lc == [says |-> "overview", open |-> w.overview]
<1>1. Nowhere \in Scrolls /\ StandsOK(w, q) /\ q \in Scrolls
  <2>1. Nowhere \in Scrolls
    BY DEF Nowhere, Scrolls
  <2> QED BY <2>1, Standings DEF StandsOK
<1>2. d \in Trackers
  BY <1>1, TrackedType
<1>3. a \in Trackers
  BY DEF NewTracker, NoSlot, Trackers
<1>4. /\ c \in Trackers /\ c.slots = d.slots /\ c.known = d.known /\ c.on = d.on /\ c.col = d.col
      /\ c.top = d.top /\ c.stands = d.stands /\ c.focus = d.focus /\ c.overview = FALSE
  <2> HIDE DEF d
  <2> QED BY <1>2 DEF Trackers
<1>5. /\ b \in Trackers /\ b.slots = d.slots /\ b.known = d.known /\ b.on = a.on /\ b.col = a.col
      /\ b.top = d.top /\ b.stands = Nowhere /\ b.focus = None /\ b.overview = FALSE
  <2> HIDE DEF c, a, d
  <2> QED BY <1>1, <1>3, <1>4 DEF Trackers, Scrolls
<1>6. /\ d.known = w.exist /\ d.top = w.top /\ d.stands = q /\ d.focus = w.focus
      /\ d.overview = w.overview
      /\ d.slots = [s \in Workspaces |-> IF s \in w.exist THEN SlotOf(SpaceOf(w, s)) ELSE NoSlot]
      /\ d.on = [x \in Windows |-> w.at[x].on] /\ d.col = [x \in Windows |-> w.at[x].col]
  BY DEF Tracked
<1>7. /\ a.known = {} /\ a.focus = None /\ a.overview = FALSE /\ a.stands = Nowhere
      /\ \A x \in Windows : a.on[x] = None /\ a.col[x] = Apart
      /\ \A s \in Workspaces : a.top[s] = None /\ a.slots[s] = NoSlot
  BY DEF NewTracker, Nowhere
<1>8. Remembered(d) /\ \A s \in Workspaces : Follows(d, s) <=> w.top[s] # None /\ w.at[w.top[s]].col # Apart
  BY <1>1, TrackedFollows
<1>9. \A s \in Workspaces : Nowhere[s] = Apart /\ (~Follows(d, s) => q[s] = Apart)
  BY <1>8 DEF Standing, Nowhere
<1>10. \A s \in Workspaces : d.top[s] = None \/ (d.top[s] \in Windows /\ d.on[d.top[s]] = s)
  BY <1>6 DEF WorldOK, WindowsOK
<1>11. \A x \in Windows, s \in Workspaces : a.on[x] # s
  BY <1>7
<1>12. IsSo(la, b)
  <2>1. la.says = "workspaces" /\ la.all = Spaces(w)
    OBVIOUS
  <2> DEFINE r == ReplaceWorkspaces(b, Spaces(w))
  <2> HIDE DEF b, d, q
  <2>2. /\ r.known = w.exist /\ r.top = w.top
        /\ r.slots = [s \in Workspaces |-> IF s \in w.exist THEN SlotOf(SpaceOf(w, s)) ELSE NoSlot]
        /\ r.stands = [s \in Workspaces |-> IF s \in w.exist THEN b.stands[s] ELSE Apart]
    BY <1>5, SpacesSo
  <2>3. r.stands = b.stands
    BY <2>2, <1>5, <1>9 DEF Nowhere
  <2> HIDE DEF la, r
  <2> QED BY <2>1, <2>2, <2>3, <1>5, <1>6 DEF IsSo, r
<1>13. IsSo(lb, c)
  <2>1. lb.says = "windows" /\ lb.all = {WindowOf(w, x) : x \in Opened(w)}
    OBVIOUS
  <2> DEFINE all == {WindowOf(w, x) : x \in Opened(w)}
             r == ReplaceWindows(c, all)
  <2> HIDE DEF c, d, q
  <2>2. /\ r.on = [x \in Windows |-> w.at[x].on] /\ r.col = [x \in Windows |-> w.at[x].col]
        /\ r.focus = w.focus
    BY <1>4, WindowsSo
  <2> HIDE DEF lb, r, all
  <2>3. lb.all = all
    BY <2>1 DEF all
  <2> QED BY <2>1, <2>2, <2>3, <1>4, <1>6 DEF IsSo, r
<1>14. IsSo(lc, d)
  BY <1>6 DEF IsSo
<1> HIDE DEF a, b, c, d, q
<1>15. Remembered(a) /\ Remembered(b) /\ Remembered(c)
  <2>1. Remembered(a)
    BY <1>7 DEF Remembered, Follows
  <2>2. Remembered(b)
    BY <1>5, <1>10, <1>11, <1>2 DEF Remembered, Follows, Trackers
  <2>3. Remembered(c)
    BY <1>4, <1>8 DEF Remembered, Follows
  <2> QED BY <2>1, <2>2, <2>3
<1>16. Leads(a, {la}, b)
  <2>1. Said(a, {la}, b)
    BY <1>5, <1>7 DEF Said, SlotSaid, TopSaid, WindowSaid, Stays
  <2>2. \A s \in Workspaces : Left(a, {la}, b, s)
    BY <1>5, <1>7, <1>11 DEF Left, StandsThere
  <2> QED BY <2>1, <2>2, <1>12, <1>15 DEF Leads
<1>17. Leads(b, {lb}, c)
  <2>1. Said(b, {lb}, c)
    <3>1. \E line \in {lb} : line.says = "windows"
      OBVIOUS
    <3>2. \A line \in {lb} : line.says # "layouts"
      OBVIOUS
    <3> HIDE DEF lb
    <3> QED BY <1>4, <1>5, <3>1, <3>2 DEF Said, SlotSaid, TopSaid, WindowSaid, Stays
  <2>2. ASSUME NEW s \in Workspaces, ~Follows(c, s) PROVE Left(b, {lb}, c, s)
    <3>1. ~Follows(d, s)
      BY <2>2, <1>4 DEF Follows
    <3>2. b.stands[s] = c.stands[s]
      BY <3>1, <1>4, <1>5, <1>6, <1>9
    <3>3. ASSUME NEW x \in {b.top[s], c.top[s]} PROVE StandsThere(b, x, s, c) /\ StandsThere(c, x, s, c)
      BY <2>2, <1>4, <1>5, <1>11, <3>3, <1>10 DEF StandsThere, Follows
    <3> QED BY <3>2, <3>3 DEF Left
  <2> QED BY <2>1, <2>2, <1>13, <1>15 DEF Leads
<1>18. Leads(c, {lc}, d)
  <2>1. Said(c, {lc}, d)
    BY <1>4 DEF Said, SlotSaid, TopSaid, WindowSaid, Stays
  <2>2. ASSUME NEW s \in Workspaces, ~Follows(d, s) PROVE Left(c, {lc}, d, s)
    <3>1. ASSUME NEW x \in {c.top[s], d.top[s]} PROVE StandsThere(c, x, s, d) /\ StandsThere(d, x, s, d)
      BY <2>2, <1>4, <3>1, <1>10 DEF StandsThere, Follows
    <3> QED BY <3>1, <1>4 DEF Left
  <2> QED BY <2>1, <2>2, <1>14, <1>8, <1>15 DEF Leads
<1>19. Had(a, columns) /\ Had(b, columns) /\ Had(c, columns) /\ Had(d, columns)
  <2>1. ASSUME NEW s \in Workspaces PROVE q[s] \in columns[s] \cup {Apart}
    <3>1. CASE Follows(d, s)
      BY <3>1, <1>8, <1>6, <1>1 DEF StandsOK, WorldOK, WindowsOK
    <3>2. CASE ~Follows(d, s)
      BY <3>2, <1>9
    <3> QED BY <3>1, <3>2
  <2>2. Had(d, columns)
    BY <2>1, <1>6 DEF Had
  <2> QED BY <2>2, <1>4, <1>5, <1>7, <1>9, <1>11 DEF Had
<1> DEFINE f == [i \in 0..3 |-> IF i = 0 THEN a ELSE IF i = 1 THEN b ELSE IF i = 2 THEN c ELSE d]
           batches == <<{la}, {lb}, {lc}>>
<1>20. /\ f \in [0..3 -> Trackers] /\ f[0] = a /\ f[1] = b /\ f[2] = c /\ f[3] = d
  BY <1>2, <1>3, <1>4, <1>5
<1>21. /\ Len(batches) = 3 /\ batches[1] = {la} /\ batches[2] = {lb} /\ batches[3] = {lc}
       /\ batches \in Seq(ToSet(batches))
  <2> HIDE DEF la, lb, lc
  <2>1. Len(batches) = 3 /\ batches[1] = {la} /\ batches[2] = {lb} /\ batches[3] = {lc}
    OBVIOUS
  <2>2. batches \in Seq({{la}, {lb}, {lc}})
    OBVIOUS
  <2>3. batches = [i \in 1..3 |-> batches[i]]
    BY <2>2, <2>1
  <2> HIDE DEF batches
  <2> QED BY <2>1, <2>3, SeqDef DEF ToSet
<1> HIDE DEF f, batches, la, lb, lc
<1>22. Linked(f, batches, a, d, columns)
  <2>1. \A i \in 1..3 : i = 1 \/ i = 2 \/ i = 3
    OBVIOUS
  <2>2. \A i \in 0..3 : i = 0 \/ i = 1 \/ i = 2 \/ i = 3
    OBVIOUS
  <2>3. ASSUME NEW i \in 1..3 PROVE Leads(f[i - 1], batches[i], f[i])
    <3>1. CASE i = 1
      BY <3>1, <1>16, <1>20, <1>21
    <3>2. CASE i = 2
      BY <3>2, <1>17, <1>20, <1>21
    <3>3. CASE i = 3
      BY <3>3, <1>18, <1>20, <1>21
    <3> QED BY <2>1, <3>1, <3>2, <3>3
  <2>4. ASSUME NEW i \in 0..3, NEW k \in 0..3, i <= k, \A j \in (i + 1)..k : batches[j] = {}
        PROVE  f[i] = f[k]
    <3>1. \A j \in 1..3 : batches[j] # {}
      BY <2>1, <1>21
    <3>2. i = k
      BY <2>4, <3>1
    <3> QED BY <3>2
  <2>5. ASSUME NEW i \in 0..3 PROVE Had(f[i], columns)
    BY <2>2, <1>19, <1>20
  <2> QED BY <2>3, <2>4, <2>5, <1>20, <1>21 DEF Linked
<1>23. batches = Described(w)
  BY DEF batches, la, lb, lc, Described
<1> QED BY <1>22, <1>23 DEF a, d, q

-----------------------------------------------------------------------------
(* What an output is told.                                                 *)
IsDrive(drive) ==
  /\ IsStop(drive.x) /\ IsStop(drive.y)
  /\ drive.blur \in BOOLEAN /\ drive.zoom_out \in BOOLEAN

(* A place in a row is within it.                                          *)
LEMMA ProgressStops ==
  ASSUME NEW idx \in Nat, NEW count \in Nat
  PROVE  IsStop(Progress(idx, count))
<1>1. CASE count <= 1 \/ idx = 0
  BY <1>1 DEF Progress, Centred, IsStop
<1>2. CASE ~(count <= 1 \/ idx = 0)
  <2>1. Progress(idx, count) = [rank |-> (IF idx < count THEN idx ELSE count) - 1, span |-> count - 1]
    BY <1>2 DEF Progress
  <2> QED BY <2>1, <1>2 DEF IsStop
<1> QED BY <1>1, <1>2

(* As many values as arguments at most.                                    *)
LEMMA ImageFinite ==
  ASSUME NEW S, IsFiniteSet(S), NEW f
  PROVE  IsFiniteSet({f[x] : x \in S})
<1> DEFINE g == [x \in S |-> f[x]]
           T == {f[x] : x \in S}
<1>1. g \in [S -> T] /\ \A y \in T : \E x \in S : g[x] = y
  OBVIOUS
<1>2. g \in Surjection(S, T)
  BY <1>1 DEF Surjection
<1> QED BY <1>2, FS_Surjection

(* Every stop is within its row.                                           *)
LEMMA StopsStop ==
  ASSUME NEW t \in Trackers, NEW o \in Outputs, NEW axis \in Axes
  PROVE  IsStop(AxisStop(t, o, axis))
<1> USE ChannelsAssumption, NiriAssumption
<1>1. IsStop(WorkspaceStop(t, o))
  <2>1. Cardinality(Row(t, o)) \in Nat
    <3>1. Row(t, o) \subseteq Workspaces
      BY DEF Row, Trackers
    <3> QED BY <3>1, FS_Subset, FS_CardinalityType
  <2>2. (IF ActiveOn(t, o) = {} THEN 0 ELSE t.slots[CHOOSE s \in ActiveOn(t, o) : TRUE].idx) \in Nat
    <3>1. CASE ActiveOn(t, o) # {}
      <4>1. (CHOOSE s \in ActiveOn(t, o) : TRUE) \in ActiveOn(t, o)
        BY <3>1
      <4>2. (CHOOSE s \in ActiveOn(t, o) : TRUE) \in Workspaces
        BY <4>1 DEF ActiveOn, Row, Trackers
      <4> QED BY <4>2, <3>1 DEF Trackers
    <3> QED BY <3>1
  <2> QED BY <2>1, <2>2, ProgressStops DEF WorkspaceStop
<1>2. IsStop(ColumnStop(t, o))
  <2>1. CASE ActiveOn(t, o) = {}
    BY <2>1 DEF ColumnStop, Centred, IsStop
  <2>2. CASE ActiveOn(t, o) # {}
    <3> DEFINE s == CHOOSE r \in ActiveOn(t, o) : TRUE
               columns == {t.col[x] : x \in {y \in Windows : t.on[y] = s}} \ {Apart}
               before == Cardinality({c \in columns : c < t.stands[s]})
               rank == IF before < Cardinality(columns) THEN before + 1 ELSE Cardinality(columns)
    <3>1. IsFiniteSet(columns)
      <4>1. IsFiniteSet({y \in Windows : t.on[y] = s})
        BY FS_Subset
      <4>2. IsFiniteSet({t.col[x] : x \in {y \in Windows : t.on[y] = s}})
        BY <4>1, ImageFinite
      <4> QED BY <4>2, FS_Subset
    <3>2. Cardinality(columns) \in Nat /\ before \in Nat
      BY <3>1, FS_Subset, FS_CardinalityType
    <3>3. ColumnStop(t, o) = Progress(IF t.stands[s] = Apart THEN 0 ELSE rank, Cardinality(columns))
      BY <2>2 DEF ColumnStop
    <3> HIDE DEF columns, before, s
    <3>4. (IF t.stands[s] = Apart THEN 0 ELSE rank) \in Nat
      BY <3>2
    <3> QED BY <3>2, <3>3, <3>4, ProgressStops
  <2> QED BY <2>1, <2>2
<1>3. IsStop(Centred)
  BY DEF Centred, IsStop
<1> QED BY <1>1, <1>2, <1>3 DEF AxisStop, Axes

(* What an output is told is of its type.                                  *)
LEMMA TellsDrive ==
  ASSUME settings \in Configurations, NEW t \in Trackers, NEW o \in Outputs
  PROVE  IsDrive(Tells(t, o))
<1>1. /\ settings[o].horizontal \in Axes /\ settings[o].vertical \in Axes
  BY ChannelsAssumption DEF Settings
<1> DEFINE blur == IF t.overview /\ settings[o].overview # "follow" THEN settings[o].overview = "blur"
                   ELSE Blurred(o, Shown(t), {p \in Shown(t) : Reaches(t, p)})
<1>2. blur \in BOOLEAN
  <2>1. (settings[o].overview = "blur") \in BOOLEAN
    OBVIOUS
  <2>2. Blurred(o, Shown(t), {p \in Shown(t) : Reaches(t, p)}) \in BOOLEAN
    <3>2. CASE settings[o].scope = "global"
      <4>1. Blurred(o, Shown(t), {p \in Shown(t) : Reaches(t, p)})
              = ({p \in Shown(t) : Reaches(t, p)} \cap Shown(t) # {})
        BY <3>2, Zenon DEF Blurred
      <4> QED BY <4>1
    <3>3. CASE settings[o].scope # "global"
      <4>1. Blurred(o, Shown(t), {p \in Shown(t) : Reaches(t, p)})
              = (o \in {p \in Shown(t) : Reaches(t, p)})
        BY <3>3, Zenon DEF Blurred
      <4> QED BY <4>1
    <3> QED BY <3>2, <3>3
  <2> QED BY <2>1, <2>2, Zenon
<1> HIDE DEF blur
<1>3. Tells(t, o) = [x |-> AxisStop(t, o, settings[o].horizontal),
                     y |-> AxisStop(t, o, settings[o].vertical), blur |-> blur, zoom_out |-> t.overview]
  BY DEF Tells, blur
<1>4. t.overview \in BOOLEAN
  BY DEF Trackers
<1>5. /\ IsStop(AxisStop(t, o, settings[o].horizontal))
      /\ IsStop(AxisStop(t, o, settings[o].vertical))
  BY <1>1, StopsStop
<1> QED BY <1>2, <1>3, <1>4, <1>5 DEF IsDrive

(* Only outputs are shown on.                                              *)
LEMMA ShownOutputs ==
  ASSUME NEW t \in Trackers
  PROVE  Shown(t) \subseteq Outputs
BY DEF Shown, Trackers

(* A change adds the columns its windows have to those there were.         *)
LEMMA HeldMore ==
  ASSUME NEW was, NEW p, NEW before, Had(Tracked(was, p), before), NEW w, WorldOK(w),
         NEW more, more = ColumnsHeld(w, before)
  PROVE  /\ Had(Tracked(w, Standing(w, p)), more)
         /\ \A s \in Workspaces : before[s] \subseteq more[s]
<1>1. \A s \in Workspaces : more[s] = before[s] \cup {w.at[x].col : x \in {y \in Windows : w.at[y].on = s}}
  BY DEF ColumnsHeld
<1>2. \A s \in Workspaces : p[s] \in before[s] \cup {Apart}
  BY DEF Had, Tracked
<1>3. ASSUME NEW s \in Workspaces PROVE Standing(w, p)[s] \in more[s] \cup {Apart}
  <2>1. CASE s \in w.exist /\ w.top[s] # None /\ w.at[w.top[s]].col # Apart
    <3>1. w.top[s] \in {y \in Windows : w.at[y].on = s}
      BY <2>1 DEF WorldOK, WindowsOK
    <3>2. Standing(w, p)[s] = w.at[w.top[s]].col
      BY <2>1 DEF Standing
    <3> QED BY <3>1, <3>2, <1>1
  <2>2. CASE ~(s \in w.exist /\ w.top[s] # None /\ w.at[w.top[s]].col # Apart)
    BY <2>2, <1>1, <1>2 DEF Standing
  <2> QED BY <2>1, <2>2
<1>4. ASSUME NEW x \in Windows, NEW s \in Workspaces, w.at[x].on = s PROVE w.at[x].col \in more[s]
  BY <1>1, <1>4
<1>5. Tracked(w, Standing(w, p)).stands = Standing(w, p)
      /\ \A x \in Windows : /\ Tracked(w, Standing(w, p)).on[x] = w.at[x].on
                            /\ Tracked(w, Standing(w, p)).col[x] = w.at[x].col
  BY DEF Tracked
<1> QED BY <1>1, <1>3, <1>4, <1>5 DEF Had

-----------------------------------------------------------------------------
(* The daemon has what the tracker would restate, or nothing was read yet  *)
(* of the present connection.                                              *)
DrivenOK ==
  \/ driven = [o \in Shown(tracker) |-> Tells(tracker, o)]
  \/ tracker = NewTracker /\ stream # <<>> /\ stream[1] # {}

NiriInv ==
  /\ settings \in Configurations /\ changes \in 0..MaxChanges
  /\ WorldOK(world) /\ StandsOK(world, place)
  /\ \E e : Linked(e, stream, tracker, Tracked(world, place), held)
  /\ DrivenOK
  /\ DOMAIN driven \subseteq Outputs /\ \A o \in DOMAIN driven : IsDrive(driven[o])

(* What is restated of every output there is replaces what was.            *)
LEMMA Restated ==
  ASSUME NEW t
  PROVE  Restate(t) = [o \in Shown(t) |-> Tells(t, o)]
BY DEF Restate, Folded

(* A workspace's first window is its active one, and it shows the first.   *)
LEMMA BeginsOK ==
  ASSUME NiriInit
  PROVE  WorldOK(world)
<1> USE ChannelsAssumption, NiriAssumption
<1>1. PICK exist \in SUBSET Workspaces, at \in Layouts : \E rows \in Rows(exist), top \in Tops(at) :
        /\ \A x \in Windows : at[x].on \in exist \cup {None}
        /\ world = [rows |-> rows, exist |-> exist, at |-> at, top |-> top, focus |-> None,
                    shown |-> [o \in Outputs |-> IF rows[o] = <<>> THEN None ELSE rows[o][1]],
                    overview |-> FALSE]
  BY DEF NiriInit
<1>2. PICK rows \in Rows(exist), top \in Tops(at) :
        /\ \A x \in Windows : at[x].on \in exist \cup {None}
        /\ world = [rows |-> rows, exist |-> exist, at |-> at, top |-> top, focus |-> None,
                    shown |-> [o \in Outputs |-> IF rows[o] = <<>> THEN None ELSE rows[o][1]],
                    overview |-> FALSE]
  BY <1>1
<1> DEFINE shown == [o \in Outputs |-> IF rows[o] = <<>> THEN None ELSE rows[o][1]]
<1>3. WindowsOK(exist, at, top, None)
  <2>1. at \in [Windows -> [on: Workspaces \cup {None}, col: Columns \cup {Apart}]]
        /\ \A x \in Windows : at[x].on = None => at[x].col = Apart
    BY DEF Apart
  <2>2. top \in [Workspaces -> Windows \cup {None}] /\ \A s \in Workspaces : top[s] \in Heirs(at, s)
    BY DEF Tops
  <2>3. ASSUME NEW s \in Workspaces, top[s] # None PROVE at[top[s]].on = s
    BY <2>2, <2>3, Inherits
  <2> QED BY <2>1, <2>2, <2>3, <1>2 DEF WindowsOK
<1>4. ASSUME NEW o \in Outputs
      PROVE  /\ rows[o] \in Seq(Workspaces) /\ ToSet(rows[o]) \subseteq exist
             /\ \A i, j \in DOMAIN rows[o] : rows[o][i] = rows[o][j] => i = j
             /\ rows[o] # <<>> => rows[o][1] \in ToSet(rows[o])
  <2>1. PICK S \in SUBSET exist : rows[o] \in SetToSeqs(S)
    BY DEF Rows
  <2>3. IsRow(rows[o]) /\ ToSet(rows[o]) \subseteq S
    BY <2>1, RowOfAll
  <2>4. rows[o] # <<>> => rows[o][1] \in ToSet(rows[o])
    BY <2>3 DEF IsRow, ToSet
  <2> QED BY <2>3, <2>4 DEF IsRow
<1>5. RowsOK(exist, rows, shown)
  <2>1. rows \in [Outputs -> Seq(Workspaces)]
    BY <1>4 DEF Rows
  <2> QED BY <2>1, <1>4 DEF RowsOK, Rows
<1> HIDE DEF shown
<1>6. shown \in [Outputs -> Workspaces \cup {None}] /\ rows \in [Outputs -> Seq(Workspaces)]
  BY <1>5 DEF RowsOK
<1> QED BY <1>2, <1>3, <1>5, <1>6 DEF WorldOK, Worlds, shown, WindowsOK

(* A batch not read yet.                                                   *)
LEMMA UnreadStays ==
  ASSUME NEW e, NEW batches, NEW from, NEW to, NEW columns, Linked(e, batches, from, to, columns),
         batches # <<>>
  PROVE  /\ \A more : Append(batches, more) # <<>> /\ Append(batches, more)[1] = batches[1]
         /\ from = e[0] /\ from \in Trackers
<1>1. batches \in Seq(ToSet(batches)) /\ Len(batches) \in Nat /\ Len(batches) >= 1
  BY DEF Linked
<1>2. from = e[0] /\ e \in [0..Len(batches) -> Trackers]
  BY DEF Linked
<1>3. from \in Trackers
  BY <1>1, <1>2
<1>4. ASSUME NEW more PROVE Append(batches, more) # <<>> /\ Append(batches, more)[1] = batches[1]
  BY <1>1
<1> QED BY <1>2, <1>3, <1>4

(* The tracker there is.                                                   *)
LEMMA FirstTracker ==
  ASSUME NEW e, NEW batches, NEW from, NEW to, NEW columns, Linked(e, batches, from, to, columns)
  PROVE  from \in Trackers /\ Had(from, columns)
<1>1. batches \in Seq(ToSet(batches)) /\ Len(batches) \in Nat
  BY DEF Linked
<1>2. from = e[0] /\ e \in [0..Len(batches) -> Trackers] /\ \A i \in 0..Len(batches) : Had(e[i], columns)
  BY DEF Linked
<1> QED BY <1>1, <1>2

(* The tracker that is niri.                                               *)
LEMMA LastHad ==
  ASSUME NEW e, NEW batches, NEW from, NEW to, NEW columns, Linked(e, batches, from, to, columns)
  PROVE  Had(to, columns)
<1>1. batches \in Seq(ToSet(batches)) /\ Len(batches) \in Nat
  BY DEF Linked
<1>2. to = e[Len(batches)] /\ \A i \in 0..Len(batches) : Had(e[i], columns)
  BY DEF Linked
<1> QED BY <1>1, <1>2

(* The invariant holds when the daemon connects.                           *)
LEMMA BeginsInv ==
  ASSUME NiriInit
  PROVE  NiriInv
<1> USE ChannelsAssumption, NiriAssumption
<1>1. WorldOK(world)
  BY BeginsOK
<1>2. Nowhere \in Scrolls /\ place = Standing(world, Nowhere)
  BY DEF Nowhere, Scrolls, NiriInit
<1>3. StandsOK(world, place)
  BY <1>1, <1>2, Standings
<1>4. \A x \in Windows, s \in Workspaces : world.at[x].on = s => world.at[x].col \in held[s]
  BY DEF NiriInit, ColumnsHeld
<1>5. \E e : Linked(e, Described(world), NewTracker, Tracked(world, Standing(world, Nowhere)), held)
  BY <1>1, <1>4, LinkDescribed
<1>6. stream = Described(world) /\ tracker = NewTracker
  BY DEF NiriInit
<1>7. \E e : Linked(e, stream, tracker, Tracked(world, place), held)
  BY <1>2, <1>5, <1>6
<1>8. DrivenOK
  BY <1>6 DEF DrivenOK, Described
<1>9. /\ settings \in Configurations /\ changes \in 0..MaxChanges
      /\ DOMAIN driven \subseteq Outputs /\ \A o \in DOMAIN driven : IsDrive(driven[o])
  BY DEF NiriInit
<1> QED BY <1>1, <1>3, <1>7, <1>8, <1>9 DEF NiriInv

(* A change of niri.                                                       *)
LEMMA ChangeKeeps ==
  ASSUME NiriInv, NiriChanges, settings' = settings
  PROVE  NiriInv'
<1> USE ChannelsAssumption, NiriAssumption
<1>1. PICK w : Changed(w)
  BY ChangesOK DEF NiriInv
<1>2. PICK e : Linked(e, stream, tracker, Tracked(world, place), held)
  BY DEF NiriInv
<1>3. /\ changes < MaxChanges /\ changes' = changes + 1 /\ world' = w
      /\ stream' = Append(stream, Lines(world, w))
      /\ place' = Standing(w, place) /\ held' = ColumnsHeld(w, held)
      /\ tracker' = tracker /\ driven' = driven
  BY <1>1 DEF Changed, Becomes
<1>4. WorldOK(world) /\ WorldOK(w) /\ Gentle(world, w) /\ StandsOK(world, place)
  BY <1>1 DEF Changed, NiriInv
<1>5. place \in Scrolls
  BY <1>4 DEF StandsOK
<1>6. StandsOK(w, Standing(w, place))
  BY <1>4, <1>5, Standings
<1>7. Leads(Tracked(world, place), Lines(world, w), Tracked(w, Standing(w, place)))
  BY <1>4, LinesLead
<1>8. Tracked(w, Standing(w, place)) \in Trackers
  BY <1>4, <1>6, TrackedType DEF StandsOK
<1>9. Had(Tracked(world, place), held)
  BY <1>2, LastHad
<1>10. /\ Had(Tracked(w, Standing(w, place)), ColumnsHeld(w, held))
       /\ \A s \in Workspaces : held[s] \subseteq ColumnsHeld(w, held)[s]
  BY <1>4, <1>9, HeldMore
<1>11. \E f : Linked(f, Append(stream, Lines(world, w)), tracker,
                     Tracked(w, Standing(w, place)), ColumnsHeld(w, held))
  BY <1>2, <1>7, <1>8, <1>10, LinkMore
<1>12. \E f : Linked(f, stream', tracker', Tracked(world', place'), held')
  BY <1>3, <1>11, Zenon
<1>13. DrivenOK'
  <2>1. CASE driven = [o \in Shown(tracker) |-> Tells(tracker, o)]
    BY <2>1, <1>3 DEF DrivenOK, Tells, Reaches, Blurred
  <2>2. CASE tracker = NewTracker /\ stream # <<>> /\ stream[1] # {}
    BY <2>2, <1>2, <1>3, UnreadStays DEF DrivenOK
  <2> QED BY <2>1, <2>2 DEF NiriInv, DrivenOK
<1>14. WorldOK(world') /\ StandsOK(world', place')
  BY <1>3, <1>4, <1>6
<1>15. /\ settings' \in Configurations /\ changes' \in 0..MaxChanges
       /\ DOMAIN driven' \subseteq Outputs /\ \A o \in DOMAIN driven' : IsDrive(driven'[o])
  BY <1>3 DEF NiriInv
<1> QED BY <1>12, <1>13, <1>14, <1>15 DEF NiriInv

(* A line is read, and everything restated.                                *)
LEMMA ReadKeeps ==
  ASSUME NiriInv, ReadLine, settings' = settings
  PROVE  NiriInv'
<1>1. PICK line \in Head(stream) :
        /\ stream' = [stream EXCEPT ![1] = @ \ {line}]
        /\ tracker' = Apply(tracker, line)
  BY DEF ReadLine
<1>2. PICK e : Linked(e, stream, tracker, Tracked(world, place), held)
  BY DEF NiriInv
<1>3. stream # <<>> /\ line \in stream[1]
  BY <1>1 DEF ReadLine
<1>4. \E f : Linked(f, [stream EXCEPT ![1] = @ \ {line}], tracker', Tracked(world, place), held)
  BY <1>1, <1>2, <1>3, LinkRead
<1>5. \E f : Linked(f, stream', tracker', Tracked(world, place), held)
  BY <1>1, <1>4, Zenon
<1>6. tracker' \in Trackers
  BY <1>5, FirstTracker
<1>7. driven' = [o \in Shown(tracker') |-> Tells(tracker', o)]
  <2>1. driven' = Restate(tracker')
    BY DEF ReadLine
  <2> DEFINE t == tracker'
  <2>2. Restate(t) = [o \in Shown(t) |-> Tells(t, o)]
    BY Restated
  <2> QED BY <2>1, <2>2
<1>8. DrivenOK'
  BY <1>7 DEF DrivenOK, Tells, Reaches, Blurred
<1>9. Shown(tracker') \subseteq Outputs
  BY <1>6, ShownOutputs
<1>10. \A o \in Outputs : IsDrive(Tells(tracker', o))
  BY <1>6, TellsDrive DEF NiriInv
<1>11. DOMAIN driven' \subseteq Outputs /\ \A o \in DOMAIN driven' : IsDrive(driven'[o])
  BY <1>7, <1>9, <1>10
<1>12. world' = world /\ place' = place /\ held' = held /\ changes' = changes
  BY DEF ReadLine
<1>13. \E f : Linked(f, stream', tracker', Tracked(world', place'), held')
  BY <1>5, <1>12, Zenon
<1> QED BY <1>8, <1>11, <1>12, <1>13 DEF NiriInv

(* A batch has been read.                                                  *)
LEMMA NextBatchKeeps ==
  ASSUME NiriInv, NextBatch, settings' = settings
  PROVE  NiriInv'
<1>1. PICK e : Linked(e, stream, tracker, Tracked(world, place), held)
  BY DEF NiriInv
<1>2. stream # <<>> /\ stream[1] = {} /\ stream' = Tail(stream)
  BY DEF NextBatch
<1>3. \E f : Linked(f, Tail(stream), tracker, Tracked(world, place), held)
  BY <1>1, <1>2, LinkNext
<1>4. /\ world' = world /\ place' = place /\ held' = held /\ changes' = changes
      /\ tracker' = tracker /\ driven' = driven
  BY DEF NextBatch
<1>5. \E f : Linked(f, stream', tracker', Tracked(world', place'), held')
  BY <1>2, <1>3, <1>4, Zenon
<1>6. driven = [o \in Shown(tracker) |-> Tells(tracker, o)]
  BY <1>2 DEF NiriInv, DrivenOK
<1>7. DrivenOK'
  BY <1>4, <1>6 DEF DrivenOK, Tells, Reaches, Blurred
<1> QED BY <1>4, <1>5, <1>7 DEF NiriInv

(* A connection is lost, and the next one begins.                          *)
LEMMA ReconnectKeeps ==
  ASSUME NiriInv, Reconnect, settings' = settings
  PROVE  NiriInv'
<1> USE ChannelsAssumption, NiriAssumption
<1>1. WorldOK(world)
  BY DEF NiriInv
<1>2. /\ changes < MaxChanges /\ changes' = changes + 1 /\ tracker' = NewTracker
      /\ stream' = Described(world) /\ place' = Standing(world, Nowhere) /\ Nowhere \in Scrolls
      /\ held' = ColumnsHeld(world, [s \in Workspaces |-> {}])
      /\ world' = world /\ driven' = driven
  BY DEF Reconnect, Nowhere, Scrolls
<1>3. \A x \in Windows, s \in Workspaces : world.at[x].on = s => world.at[x].col \in held'[s]
  BY <1>2 DEF ColumnsHeld
<1>4. \E f : Linked(f, Described(world), NewTracker, Tracked(world, Standing(world, Nowhere)), held')
  BY <1>1, <1>3, LinkDescribed
<1>5. \E f : Linked(f, stream', tracker', Tracked(world', place'), held')
  BY <1>2, <1>4, Zenon
<1>6. StandsOK(world, Standing(world, Nowhere))
  BY <1>1, <1>2, Standings
<1>7. WorldOK(world') /\ StandsOK(world', place')
  BY <1>1, <1>2, <1>6, Zenon
<1>8. DrivenOK'
  BY <1>2 DEF DrivenOK, Described, NewTracker
<1>9. /\ settings' \in Configurations /\ changes' \in 0..MaxChanges
      /\ DOMAIN driven' \subseteq Outputs /\ \A o \in DOMAIN driven' : IsDrive(driven'[o])
  BY <1>2 DEF NiriInv
<1> QED BY <1>5, <1>7, <1>8, <1>9 DEF NiriInv

-----------------------------------------------------------------------------
(* Every step keeps the invariant.                                         *)
LEMMA NiriInvKept ==
  ASSUME NiriInv, [NiriNext]_niriVars
  PROVE  NiriInv'
<1>1. CASE NiriChanges /\ UNCHANGED settings
  BY <1>1, ChangeKeeps
<1>2. CASE ReadLine /\ UNCHANGED settings
  BY <1>2, ReadKeeps
<1>3. CASE NextBatch /\ UNCHANGED settings
  BY <1>3, NextBatchKeeps
<1>4. CASE Reconnect /\ UNCHANGED settings
  BY <1>4, ReconnectKeeps
<1>5. CASE UNCHANGED niriVars
  <2>1. /\ world' = world /\ stream' = stream /\ tracker' = tracker /\ driven' = driven
        /\ place' = place /\ held' = held /\ changes' = changes /\ settings' = settings
    BY <1>5 DEF niriVars
  <2>2. DrivenOK'
    <3>1. CASE driven = [o \in Shown(tracker) |-> Tells(tracker, o)]
      BY <2>1, <3>1 DEF DrivenOK, Tells, Reaches, Blurred
    <3>2. CASE tracker = NewTracker /\ stream # <<>> /\ stream[1] # {}
      BY <2>1, <3>2 DEF DrivenOK
    <3> QED BY <3>1, <3>2 DEF NiriInv, DrivenOK
  <2>3. \E e : Linked(e, stream', tracker', Tracked(world', place'), held')
    BY <2>1 DEF NiriInv
  <2> QED BY <2>1, <2>2, <2>3 DEF NiriInv
<1> QED BY <1>1, <1>2, <1>3, <1>4, <1>5 DEF NiriNext

(* Once every line was read the tracker is niri.                           *)
LEMMA DrainedThere ==
  ASSUME NEW e, NEW batches, NEW from, NEW to, NEW columns, Linked(e, batches, from, to, columns),
         \A i \in DOMAIN batches : batches[i] = {}
  PROVE  from = to
<1>1. batches \in Seq(ToSet(batches)) /\ Len(batches) \in Nat
  BY DEF Linked
<1>2. /\ 0 \in 0..Len(batches) /\ Len(batches) \in 0..Len(batches) /\ 0 <= Len(batches)
      /\ \A j \in (0 + 1)..Len(batches) : batches[j] = {}
  BY <1>1
<1>3. e[0] = e[Len(batches)]
  BY <1>2 DEF Linked
<1> QED BY <1>3 DEF Linked

(* What the invariant says once every line was read.                       *)
LEMMA NiriInvShows ==
  ASSUME NiriInv
  PROVE  PositionsConverge
<1> USE ChannelsAssumption, NiriAssumption
<1>1. PICK e : Linked(e, stream, tracker, Tracked(world, place), held)
  BY DEF NiriInv
<1>2. tracker \in Trackers /\ Had(tracker, held)
  BY <1>1, FirstTracker
<1>3. NiriTypeOK
  BY <1>2 DEF NiriInv, NiriTypeOK, Trackers, IsDrive
<1>4. NoForeignColumn
  BY <1>2 DEF NoForeignColumn, Had
<1>5. Converges
  <2>1. SUFFICES ASSUME Drained PROVE driven = [o \in Shown(AsTracked(world)) |-> Tells(AsTracked(world), o)]
    BY DEF Converges
  <2>2. tracker = Tracked(world, place)
    BY <1>1, <2>1, DrainedThere DEF Drained
  <2>3. AsTracked(world) = Tracked(world, place)
    BY DEF AsTracked, Tracked
  <2>4. ~(stream # <<>> /\ stream[1] # {})
    <3>1. stream \in Seq(ToSet(stream))
      BY <1>1 DEF Linked
    <3>2. stream # <<>> => 1 \in DOMAIN stream
      BY <3>1
    <3> QED BY <3>2, <2>1 DEF Drained
  <2>5. driven = [o \in Shown(tracker) |-> Tells(tracker, o)]
    BY <2>4 DEF NiriInv, DrivenOK
  <2> QED BY <2>2, <2>3, <2>5
<1> QED BY <1>3, <1>4, <1>5 DEF PositionsConverge

(* Whatever order the lines of niri's changes are read in, once they were  *)
(* all read every output is driven to where niri is; and no workspace is   *)
(* credited with a column no window had there.                             *)
THEOREM PositionsProved == NiriSpec => []PositionsConverge
<1>1. NiriInit => NiriInv
  BY BeginsInv
<1>2. NiriInv /\ [NiriNext]_niriVars => NiriInv'
  BY NiriInvKept
<1>3. NiriInv => PositionsConverge
  BY NiriInvShows
<1> QED BY <1>1, <1>2, <1>3, PTL DEF NiriSpec

-----------------------------------------------------------------------------
(***************************************************************************)
(* The Hyprland tracker.                                                   *)
(*                                                                         *)
(* Every change of the desktop announces itself: what it made otherwise is *)
(* named by its events, in an order the tracker can follow (Announced).    *)
(* The invariant says of the tracker as the open questions will leave it   *)
(* (Ahead) that whatever it has wrong is still to be read.                 *)
(***************************************************************************)

(* What the socket may say.                                                *)
Events ==
  [says : {"createworkspace", "workspace", "destroyworkspace"}, workspace : Addresses]
  \cup [says : {"focusedmon", "moveworkspace"}, monitor : Outputs, workspace : Addresses]
  \cup [says : {"monitoradded", "monitorremoved"}, monitor : Outputs]
  \cup [says : {"openwindow", "movewindow"}, window : Windows, workspace : Addresses]
  \cup [says : {"closewindow"}, window : Windows]
  \cup [says : {"changeworkspaceid"}, from : Addresses, to : Addresses]
  \cup [says : {"activewindow"}, focused : BOOLEAN]

(* One of B is in the queue; each of A is followed by one of B.            *)
Some(q, B) == \E i \in DOMAIN q : q[i] \in B
Led(q, A, B) == \A i \in DOMAIN q : q[i] \in A => \E j \in DOMAIN q : j > i /\ q[j] \in B

(* The events that leave something unsaid, those that name what the        *)
(* focused monitor shows, the focus, another monitor or another number,    *)
(* and those about one workspace or one window.                            *)
Unans == {e \in Events : Unanswered(e)}
Actives == {e \in Events : e.says = "workspace"}
Focuses == {e \in Events : e.says = "activewindow"}
Crossings == {e \in Events : e.says = "focusedmon"}
Numberings == {e \in Events : e.says = "changeworkspaceid"}
Going(s) == {Of("destroyworkspace", s)}
Coming(s) == {Of("workspace", s)}
About(x) == {e \in Events : e.says \in {"openwindow", "movewindow", "closewindow"} /\ e.window = x}

(* The first of a queue and what is left of it.                            *)
LEMMA QueueRead ==
  ASSUME NEW S, NEW q \in Seq(S), q # <<>>
  PROVE  /\ DOMAIN q = 1..Len(q) /\ Len(q) \in Nat \ {0}
         /\ Head(q) = q[1] /\ Head(q) \in S
         /\ Tail(q) \in Seq(S) /\ DOMAIN Tail(q) = 1..(Len(q) - 1)
         /\ \A i \in 1..(Len(q) - 1) : Tail(q)[i] = q[i + 1]
  OBVIOUS

(* What is in a queue is its first or in what is left of it.               *)
LEMMA SomeRead ==
  ASSUME NEW S, NEW q \in Seq(S), q # <<>>, NEW B
  PROVE  /\ Some(q, B) => Head(q) \in B \/ Some(Tail(q), B)
         /\ Some(Tail(q), B) => Some(q, B)
         /\ Head(q) \in B => Some(q, B)
<1>1. /\ DOMAIN q = 1..Len(q) /\ Len(q) \in Nat \ {0}
      /\ Head(q) = q[1]
      /\ DOMAIN Tail(q) = 1..(Len(q) - 1)
      /\ \A i \in 1..(Len(q) - 1) : Tail(q)[i] = q[i + 1]
  BY QueueRead
<1>2. ASSUME Some(q, B), Head(q) \notin B PROVE Some(Tail(q), B)
  <2>1. PICK i \in DOMAIN q : q[i] \in B
    BY <1>2 DEF Some
  <2>2. i - 1 \in DOMAIN Tail(q) /\ Tail(q)[i - 1] = q[i]
    BY <1>1, <1>2, <2>1
  <2>. QED
    BY <2>1, <2>2 DEF Some
<1>3. ASSUME Some(Tail(q), B) PROVE Some(q, B)
  <2>1. PICK i \in DOMAIN Tail(q) : Tail(q)[i] \in B
    BY <1>3 DEF Some
  <2>2. i + 1 \in DOMAIN q /\ Tail(q)[i] = q[i + 1]
    BY <1>1, <2>1
  <2>. QED
    BY <2>1, <2>2 DEF Some
<1>4. ASSUME Head(q) \in B PROVE Some(q, B)
  BY <1>1, <1>4 DEF Some
<1>. QED
  BY <1>2, <1>3, <1>4

(* What is followed stays so as the queue is read, and the first, if it    *)
(* was to be followed, is by something left.                               *)
LEMMA LedRead ==
  ASSUME NEW S, NEW q \in Seq(S), q # <<>>, NEW A, NEW B, Led(q, A, B)
  PROVE  /\ Led(Tail(q), A, B)
         /\ Head(q) \in A => Some(Tail(q), B)
<1>1. /\ DOMAIN q = 1..Len(q) /\ Len(q) \in Nat \ {0}
      /\ Head(q) = q[1]
      /\ DOMAIN Tail(q) = 1..(Len(q) - 1)
      /\ \A i \in 1..(Len(q) - 1) : Tail(q)[i] = q[i + 1]
  BY QueueRead
<1>2. ASSUME NEW i \in DOMAIN Tail(q), Tail(q)[i] \in A
      PROVE  \E j \in DOMAIN Tail(q) : j > i /\ Tail(q)[j] \in B
  <2>1. i + 1 \in DOMAIN q /\ q[i + 1] \in A
    BY <1>1, <1>2
  <2>2. PICK j \in DOMAIN q : j > i + 1 /\ q[j] \in B
    BY <2>1 DEF Led
  <2>3. j - 1 \in DOMAIN Tail(q) /\ Tail(q)[j - 1] = q[j] /\ j - 1 > i
    BY <1>1, <2>2, i \in Nat
  <2>. QED
    BY <2>2, <2>3
<1>3. ASSUME Head(q) \in A PROVE Some(Tail(q), B)
  <2>1. 1 \in DOMAIN q /\ q[1] \in A
    BY <1>1, <1>3
  <2>2. PICK j \in DOMAIN q : j > 1 /\ q[j] \in B
    BY <2>1 DEF Led
  <2>3. j - 1 \in DOMAIN Tail(q) /\ Tail(q)[j - 1] = q[j]
    BY <1>1, <2>2
  <2>. QED
    BY <2>2, <2>3 DEF Some
<1>. QED
  BY <1>2, <1>3 DEF Led

(* Where the members of two queues are once they are one.                  *)
LEMMA Joined ==
  ASSUME NEW S, NEW q \in Seq(S), NEW r \in Seq(S)
  PROVE  /\ q \o r \in Seq(S)
         /\ DOMAIN q = 1..Len(q) /\ DOMAIN r = 1..Len(r) /\ DOMAIN (q \o r) = 1..(Len(q) + Len(r))
         /\ Len(q) \in Nat /\ Len(r) \in Nat
         /\ \A i \in DOMAIN q : (q \o r)[i] = q[i]
         /\ \A i \in DOMAIN r : (q \o r)[Len(q) + i] = r[i]
         /\ \A i \in DOMAIN (q \o r) : i \in DOMAIN q \/ (i - Len(q) \in DOMAIN r /\ i > Len(q))
  OBVIOUS

(* The empty queue and the queue of one.                                   *)
LEMMA ShortSeqs ==
  /\ \A S : <<>> \in Seq(S) /\ DOMAIN <<>> = {}
  /\ \A S : \A a \in S : <<a>> \in Seq(S) /\ DOMAIN <<a>> = {1} /\ <<a>>[1] = a
  OBVIOUS

(* What is in two queues joined is in one of them.                         *)
LEMMA SomeJoined ==
  ASSUME NEW S, NEW q \in Seq(S), NEW r \in Seq(S), NEW B
  PROVE  Some(q \o r, B) <=> Some(q, B) \/ Some(r, B)
<1>0. USE Joined
<1>1. ASSUME Some(q \o r, B) PROVE Some(q, B) \/ Some(r, B)
  <2>1. PICK i \in DOMAIN (q \o r) : (q \o r)[i] \in B
    BY <1>1 DEF Some
  <2>2. CASE i \in DOMAIN q
    BY <2>1, <2>2 DEF Some
  <2>3. CASE i - Len(q) \in DOMAIN r /\ i > Len(q)
    <3>1. Len(q) + (i - Len(q)) = i
      BY <2>3
    <3>2. r[i - Len(q)] \in B
      BY <2>1, <2>3, <3>1
    <3>. QED
      BY <2>3, <3>2 DEF Some
  <2>. QED
    BY <2>2, <2>3
<1>2. ASSUME Some(q, B) PROVE Some(q \o r, B)
  <2>1. PICK i \in DOMAIN q : q[i] \in B
    BY <1>2 DEF Some
  <2>2. i \in DOMAIN (q \o r)
    BY <2>1
  <2>. QED
    BY <2>1, <2>2 DEF Some
<1>3. ASSUME Some(r, B) PROVE Some(q \o r, B)
  <2>1. PICK i \in DOMAIN r : r[i] \in B
    BY <1>3 DEF Some
  <2>2. Len(q) + i \in DOMAIN (q \o r)
    BY <2>1
  <2>. QED
    BY <2>1, <2>2 DEF Some
<1>. QED
  BY <1>1, <1>2, <1>3

(* What is followed in each of two queues, or in the first is by something *)
(* of the second, is followed in the two joined.                           *)
LEMMA LedJoined ==
  ASSUME NEW S, NEW q \in Seq(S), NEW r \in Seq(S), NEW A, NEW B,
         Led(q, A, B) \/ Some(r, B), Led(r, A, B)
  PROVE  Led(q \o r, A, B)
<1>0. USE Joined
<1>1. SUFFICES ASSUME NEW i \in DOMAIN (q \o r), (q \o r)[i] \in A
               PROVE  \E j \in DOMAIN (q \o r) : j > i /\ (q \o r)[j] \in B
  BY DEF Led
<1>2. CASE i \in DOMAIN q
  <2>1. CASE Some(r, B)
    <3>1. PICK j \in DOMAIN r : r[j] \in B
      BY <2>1 DEF Some
    <3>2. Len(q) + j \in DOMAIN (q \o r) /\ Len(q) + j > i
      BY <1>2, <3>1
    <3>. QED
      BY <3>1, <3>2
  <2>2. CASE Led(q, A, B)
    <3>1. PICK j \in DOMAIN q : j > i /\ q[j] \in B
      BY <1>1, <1>2, <2>2 DEF Led
    <3>2. j \in DOMAIN (q \o r)
      BY <3>1
    <3>. QED
      BY <3>1, <3>2
  <2>. QED
    BY <2>1, <2>2
<1>3. CASE i - Len(q) \in DOMAIN r /\ i > Len(q)
  <2>1. Len(q) + (i - Len(q)) = i
    BY <1>3
  <2>2. r[i - Len(q)] \in A
    BY <1>1, <1>3, <2>1
  <2>3. PICK j \in DOMAIN r : j > i - Len(q) /\ r[j] \in B
    BY <1>3, <2>2 DEF Led
  <2>4. Len(q) + j \in DOMAIN (q \o r) /\ Len(q) + j > i
    BY <1>3, <2>3
  <2>. QED
    BY <2>3, <2>4
<1>. QED
  BY <1>2, <1>3

(* Fewer events are followed by one of more.                               *)
LEMMA LedWeaker ==
  ASSUME NEW q, NEW A, NEW B, NEW C, NEW D, Led(q, A, B), C \subseteq A, B \subseteq D
  PROVE  Led(q, C, D)
  BY DEF Led

(* Events that are not there are followed by anything.                     *)
LEMMA LedNone ==
  ASSUME NEW q, NEW A, NEW B, ~Some(q, A)
  PROVE  Led(q, A, B)
  BY DEF Led, Some

(* What a desktop is made of.                                              *)
DesktopsThere ==
  [ports : SUBSET Outputs, monitors : SUBSET Outputs, shown : [Outputs -> Addresses \cup {None}],
   owner : [Addresses -> Outputs \cup {None}], focus : Outputs,
   win : Windows \cup {None}, on : [Windows -> Addresses \cup {None}]]

(* A desktop before what follows of a change.                              *)
Ground(d) ==
  /\ d \in DesktopsThere
  /\ d.monitors \subseteq d.ports /\ d.focus \in d.monitors
  /\ \A o \in Outputs : d.shown[o] # None <=> o \in d.monitors
  /\ \A o \in d.monitors : d.owner[d.shown[o]] = o
  /\ \A s \in Addresses : d.owner[s] \in d.monitors \cup {None}
  /\ \A x \in Windows : d.on[x] # None => d.owner[d.on[x]] # None
  /\ d.win # None => d.on[d.win] # None

(* A desktop as Hyprland keeps it: no focus on what is not shown, and no   *)
(* empty workspace that is not shown.                                      *)
DesktopOK(d) ==
  /\ Ground(d)
  /\ d.win # None => \E o \in d.monitors : d.shown[o] = d.on[d.win]
  /\ \A s \in Addresses : d.owner[s] # None =>
       (\E o \in d.monitors : d.shown[o] = s) \/ (\E x \in Windows : d.on[x] = s)

(* A list of a finite set holds its members and no other.                  *)
LEMMA Listed ==
  ASSUME NEW T, IsFiniteSet(T), NEW r, r = SetToSeq(T)
  PROVE  /\ r \in Seq(T)
         /\ \A e \in T : \E i \in DOMAIN r : r[i] = e
         /\ \A i \in DOMAIN r : r[i] \in T
<1>1. PICK n \in Nat : n = Cardinality(T)
  BY FS_CardinalityType
<1>2. IsFiniteSet(1..n) /\ Cardinality(1..n) = n
  BY <1>1, FS_Interval
<1>3. PICK g : g \in Bijection(1..n, T)
  BY <1>1, <1>2, FS_SameCardinalityBij DEF ExistsBijection
<1>4. g \in [1..n -> T] /\ IsInjective(g)
  BY <1>3 DEF Bijection, Injection
<1>5. r \in [1..n -> T] /\ IsInjective(r)
  BY <1>1, <1>4 DEF SetToSeq
<1>6. r \in Injection(1..n, T)
  BY <1>5 DEF Injection
<1>7. r \in Surjection(1..n, T)
  BY <1>1, <1>2, <1>6, FS_Injection
<1>8. \A e \in T : \E i \in 1..n : r[i] = e
  BY <1>7 DEF Surjection
<1>. QED
  BY <1>5, <1>8

(* What the events are that Hyprland's constructors make.                  *)
LEMMA EventKinds ==
  /\ \A s \in Addresses : /\ Of("destroyworkspace", s) \in Events /\ Of("destroyworkspace", s).says = "destroyworkspace"
                          /\ Of("createworkspace", s) \in Events /\ Of("createworkspace", s).says = "createworkspace"
                          /\ Of("workspace", s) \in Events /\ Of("workspace", s).says = "workspace"
                          /\ Of("workspace", s).workspace = s
                          /\ Of("destroyworkspace", s).workspace = s
  /\ \A o \in Outputs, s \in Addresses : Monitor(o, s) \in Events /\ Monitor(o, s).says = "focusedmon"
                                        /\ Monitor(o, s).monitor = o /\ Monitor(o, s).workspace = s
  /\ \A b \in BOOLEAN : Focus(b) \in Events /\ Focus(b).says = "activewindow" /\ Focus(b).focused = b
  BY DEF Of, Monitor, Focus, Events

(* What follows of a change: at most a focus that is lost, then what goes. *)
Settles(w, e, r) ==
  /\ r \in Seq(Events)
  /\ e \in DesktopsThere
  /\ e.ports = w.ports /\ e.monitors = w.monitors /\ e.shown = w.shown /\ e.focus = w.focus
  /\ e.on = w.on
  /\ \/ e.win = w.win /\ ~Some(r, Focuses)
     \/ e.win = None /\ Some(r, {Focus(FALSE)})
  /\ \A i \in DOMAIN r : \/ r[i] = Focus(FALSE) /\ e.win = None
                         \/ \E s \in Addresses : r[i] = Of("destroyworkspace", s) /\ e.owner[s] = None
  /\ \A s \in Addresses : e.owner[s] = w.owner[s] \/ (e.owner[s] = None /\ Some(r, Going(s)))
  /\ \A s \in Addresses : e.owner[s] # w.owner[s] => \A o \in e.monitors : e.shown[o] # s
  /\ \A s \in Addresses : e.owner[s] # w.owner[s] => \A x \in Windows : e.on[x] # s
  /\ e.win # None => \E o \in e.monitors : e.shown[o] = e.on[e.win]
  /\ \A s \in Addresses : e.owner[s] # None =>
       (\E o \in e.monitors : e.shown[o] = s) \/ (\E x \in Windows : e.on[x] = s)

(* The focus that is said to be lost, the workspaces that are said to be   *)
(* gone, and the two together.                                             *)
FirstSaid(lost, first) ==
  /\ first \in Seq(Events)
  /\ \A i \in DOMAIN first : first[i] = Focus(FALSE) /\ lost
  /\ lost => Some(first, {Focus(FALSE)})

GoneSaid(gone, rest) ==
  /\ rest \in Seq(Events)
  /\ \A s \in gone : Some(rest, Going(s))
  /\ \A i \in DOMAIN rest : \E s \in gone : rest[i] = Of("destroyworkspace", s)

AftermathSaid(lost, gone, r) ==
  /\ r \in Seq(Events)
  /\ \A i \in DOMAIN r : (r[i] = Focus(FALSE) /\ lost)
                          \/ \E s \in gone : r[i] = Of("destroyworkspace", s)
  /\ \A s \in gone : Some(r, Going(s))
  /\ lost => Some(r, {Focus(FALSE)})
  /\ ~lost => ~Some(r, Focuses)

(* Every workspace that is gone is said to be.                             *)
LEMMA GoneListed ==
  ASSUME NEW gone \in SUBSET Addresses, NEW them,
         \A f : f \in them <=> \E s \in gone : f = Of("destroyworkspace", s),
         NEW rest, rest = SetToSeq(them)
  PROVE  GoneSaid(gone, rest)
<1>1. IsFiniteSet(them)
  <2>1. IsFiniteSet(gone)
    BY HyprAssumption, FS_Subset
  <2>2. [s \in gone |-> Of("destroyworkspace", s)] \in Surjection(gone, them)
    BY DEF Surjection
  <2>. QED
    BY <2>1, <2>2, FS_Surjection
<1>2. /\ rest \in Seq(them)
      /\ \A f \in them : \E i \in DOMAIN rest : rest[i] = f
      /\ \A i \in DOMAIN rest : rest[i] \in them
  BY <1>1, Listed, Zenon
<1>3. them \subseteq Events
  BY EventKinds
<1>4. rest \in Seq(Events)
  BY <1>2, <1>3, SeqMonotonic
<1>5. ASSUME NEW s \in gone PROVE Some(rest, Going(s))
  <2>1. Of("destroyworkspace", s) \in them
    OBVIOUS
  <2>2. PICK i \in DOMAIN rest : rest[i] = Of("destroyworkspace", s)
    BY <1>2, <2>1, Zenon
  <2>. QED
    BY <2>2 DEF Some, Going
<1>6. ASSUME NEW i \in DOMAIN rest PROVE \E s \in gone : rest[i] = Of("destroyworkspace", s)
  BY <1>2, Zenon
<1>. QED
  BY <1>4, <1>5, <1>6 DEF GoneSaid

(* A focus is said to be lost exactly when it is.                          *)
LEMMA FocusLost ==
  ASSUME NEW lost \in BOOLEAN, NEW first, first = IF lost THEN <<Focus(FALSE)>> ELSE <<>>
  PROVE  FirstSaid(lost, first)
<1>. USE DEF FirstSaid
<1>1. PICK f \in Events : f = Focus(FALSE)
  BY EventKinds
<1>2. first = IF lost THEN <<f>> ELSE <<>>
  BY <1>1
<1>3. CASE lost
  <2>1. first = <<f>>
    BY <1>2, <1>3
  <2>2. first \in Seq(Events) /\ DOMAIN first = {1} /\ first[1] = f
    BY <2>1, ShortSeqs
  <2>. QED
    BY <1>1, <1>3, <2>2 DEF Some
<1>4. CASE ~lost
  <2>1. first = <<>>
    BY <1>2, <1>4
  <2>2. first \in Seq(Events) /\ DOMAIN first = {}
    BY <2>1, ShortSeqs
  <2>. QED
    BY <1>4, <2>2
<1>. QED
  BY <1>3, <1>4

(* Both are said of the aftermath, one after the other.                    *)
LEMMA AftermathSays ==
  ASSUME NEW lost \in BOOLEAN, NEW gone \in SUBSET Addresses,
         NEW first, NEW rest, NEW r, r = first \o rest,
         FirstSaid(lost, first), GoneSaid(gone, rest)
  PROVE  AftermathSaid(lost, gone, r)
<1>. USE DEF GoneSaid, FirstSaid
<1>5. r \in Seq(Events)
  BY Joined
<1>6. ASSUME NEW i \in DOMAIN r
      PROVE (r[i] = Focus(FALSE) /\ lost) \/ \E s \in gone : r[i] = Of("destroyworkspace", s)
  <2>1. i \in DOMAIN first \/ (i - Len(first) \in DOMAIN rest /\ i > Len(first))
    BY <1>6, Joined
  <2>2. CASE i \in DOMAIN first
    <3>1. r[i] = first[i]
      BY <2>2, Joined
    <3>. QED
      BY <2>2, <3>1
  <2>3. CASE i - Len(first) \in DOMAIN rest /\ i > Len(first)
    <3>0. Len(first) \in Nat /\ i \in Nat
      BY <1>6, Joined
    <3>1. Len(first) + (i - Len(first)) = i
      BY <3>0
    <3>2. r[Len(first) + (i - Len(first))] = rest[i - Len(first)]
      BY <2>3, Joined
    <3>. QED
      BY <2>3, <3>1, <3>2
  <2>. QED
    BY <2>1, <2>2, <2>3
<1>7. \A s \in gone : Some(r, Going(s))
  <2>1. SUFFICES ASSUME NEW s \in gone PROVE Some(r, Going(s))
    OBVIOUS
  <2>2. Some(rest, Going(s))
    OBVIOUS
  <2>. QED
    BY <2>2, SomeJoined
<1>8. ASSUME lost PROVE Some(r, {Focus(FALSE)})
  BY <1>8, SomeJoined
<1>9. ASSUME ~lost PROVE ~Some(r, Focuses)
  <2>1. ASSUME NEW i \in DOMAIN r PROVE r[i].says = "destroyworkspace"
    <3>1. PICK s \in gone : r[i] = Of("destroyworkspace", s)
      BY <1>6, <1>9
    <3>. QED
      BY <3>1, EventKinds
  <2>. QED
    BY <2>1 DEF Some, Focuses
<1>. QED
  BY <1>5, <1>6, <1>7, <1>8, <1>9 DEF AftermathSaid

(* The aftermath of a change settles it.                                   *)
LEMMA AftermathIs ==
  ASSUME NEW w, Ground(w), NEW e, e = Aftermath(w).desktop, NEW r, r = Aftermath(w).events
  PROVE  Settles(w, e, r)
<1>1. PICK lost \in BOOLEAN : lost <=> w.win # None /\ ShownOn(w, w.on[w.win]) = {}
  OBVIOUS
<1>2. PICK gone : gone = {s \in Addresses : Exists(w, s) /\ ShownOn(w, s) = {} /\ On(w, s) = {}}
  OBVIOUS
<1>3. PICK them : them = {Of("destroyworkspace", s) : s \in gone}
  OBVIOUS
<1>4. /\ e = [w EXCEPT !.win = IF lost THEN None ELSE @,
                       !.owner = [s \in Addresses |-> IF s \in gone THEN None ELSE w.owner[s]]]
      /\ r = (IF lost THEN <<Focus(FALSE)>> ELSE <<>>) \o SetToSeq(them)
  BY <1>1, <1>2, <1>3 DEF Aftermath
<1>5. gone \in SUBSET Addresses
  BY <1>2
<1>6. AftermathSaid(lost, gone, r)
  <2>1. PICK first : first = IF lost THEN <<Focus(FALSE)>> ELSE <<>>
    OBVIOUS
  <2>2. PICK rest : rest = SetToSeq(them)
    OBVIOUS
  <2>3. r = first \o rest
    BY <1>4, <2>1, <2>2
  <2>4. FirstSaid(lost, first)
    BY <2>1, FocusLost
  <2>5. GoneSaid(gone, rest)
    <3>1. \A f : f \in them <=> \E s \in gone : f = Of("destroyworkspace", s)
      BY <1>3, Zenon
    <3>. QED
      BY <1>5, <2>2, <3>1, GoneListed
  <2>. QED
    BY <1>5, <2>3, <2>4, <2>5, AftermathSays
<1>7. w \in DesktopsThere
  BY DEF Ground
<1>8. /\ e \in DesktopsThere
      /\ e.ports = w.ports /\ e.monitors = w.monitors /\ e.shown = w.shown /\ e.focus = w.focus
      /\ e.on = w.on
      /\ e.win = IF lost THEN None ELSE w.win
      /\ \A s \in Addresses : e.owner[s] = IF s \in gone THEN None ELSE w.owner[s]
  <2>1. PICK own : own = [s \in Addresses |-> IF s \in gone THEN None ELSE w.owner[s]]
    OBVIOUS
  <2>2. own \in [Addresses -> Outputs \cup {None}]
    BY <1>7, <2>1 DEF DesktopsThere
  <2>3. e = [w EXCEPT !.win = IF lost THEN None ELSE w.win, !.owner = own]
    BY <1>4, <2>1
  <2>4. /\ e.ports = w.ports /\ e.monitors = w.monitors /\ e.shown = w.shown
        /\ e.focus = w.focus /\ e.on = w.on
        /\ e.win = (IF lost THEN None ELSE w.win) /\ e.owner = own
    BY <1>7, <2>3 DEF DesktopsThere
  <2>5. e \in DesktopsThere
    BY <1>7, <2>2, <2>3 DEF DesktopsThere
  <2>. QED
    BY <2>1, <2>4, <2>5
<1>9. \A s \in Addresses : s \in gone <=> w.owner[s] # None /\ (\A o \in w.monitors : w.shown[o] # s)
                                          /\ (\A x \in Windows : w.on[x] # s)
  BY <1>2 DEF Exists, ShownOn, On
<1>10. lost <=> w.win # None /\ (\A o \in w.monitors : w.shown[o] # w.on[w.win])
  BY <1>1 DEF ShownOn
<1>16. \/ e.win = w.win /\ ~Some(r, Focuses)
       \/ e.win = None /\ Some(r, {Focus(FALSE)})
  BY <1>6, <1>8 DEF AftermathSaid
<1>17. \A i \in DOMAIN r : \/ r[i] = Focus(FALSE) /\ e.win = None
                           \/ \E s \in Addresses : r[i] = Of("destroyworkspace", s) /\ e.owner[s] = None
  BY <1>5, <1>6, <1>8 DEF AftermathSaid
<1>18. \A s \in Addresses : e.owner[s] = w.owner[s] \/ (e.owner[s] = None /\ Some(r, Going(s)))
  BY <1>6, <1>8 DEF AftermathSaid
<1>19. \A s \in Addresses : e.owner[s] # w.owner[s] =>
         (\A o \in e.monitors : e.shown[o] # s) /\ (\A x \in Windows : e.on[x] # s)
  BY <1>8, <1>9
<1>20. e.win # None => \E o \in e.monitors : e.shown[o] = e.on[e.win]
  BY <1>8, <1>10
<1>21. \A s \in Addresses : e.owner[s] # None =>
       (\E o \in e.monitors : e.shown[o] = s) \/ (\E x \in Windows : e.on[x] = s)
  BY <1>8, <1>9
<1>. QED
  BY <1>6, <1>8, <1>16, <1>17, <1>18, <1>19, <1>20, <1>21 DEF Settles, AftermathSaid

(* A focus that is taken, and one that is said otherwise than it is.       *)
Takes == {Focus(TRUE)}
Mistaken(d) == {Focus(d.win = None)}

(* There is one output; the focused window is on what the focused monitor  *)
(* shows.                                                                  *)
Lone(d) == Cardinality(d.ports) = 1
Seated(d) == d.win # None /\ d.on[d.win] = d.shown[d.focus]

(* What a list may say that is not so.                                     *)
Stale(d) == {e \in Actives : e.workspace # d.shown[d.focus]}
Strange(d) == {e \in Crossings : e # Monitor(d.focus, d.shown[d.focus])}
Wrong(x, d) ==
  {e \in About(x) : (IF e.says = "closewindow" THEN None ELSE e.workspace) # d.on[x]}

(* A workspace that is switched to with a focus comes right after it.      *)
Switched(q, quiet) ==
  \A i \in DOMAIN q : q[i] \in Actives =>
    \/ \E j \in DOMAIN q : j > i /\ q[j] \in Focuses
    \/ i = 1 /\ quiet
    \/ i > 1 /\ q[i - 1] \in Focuses

(* A focus that is the last comes after what says where.                   *)
Heralded(q) ==
  \A i \in DOMAIN q : q[i] \in Takes =>
    \/ \E j \in DOMAIN q : j > i /\ q[j] \in Focuses
    \/ \E j \in DOMAIN q : j < i /\ q[j] \in Crossings \cup Unans

(* The focused monitor is the same and shows the same, or is said to show  *)
(* another.                                                                *)
Kept(d, e, E) == e.focus = d.focus /\ (e.shown[e.focus] = d.shown[e.focus] \/ Some(E, Actives))

(* What is said of a change of the outputs and their workspaces ...        *)
Arranged(d, e, E) ==
  /\ e.ports = d.ports
  /\ \A s \in Addresses : e.owner[s] = d.owner[s] \/ Some(E, Unans) \/ (e.owner[s] = None /\ Some(E, Going(s)))
  /\ \A o \in Outputs : e.shown[o] = d.shown[o] \/ Some(E, Unans)
                        \/ (o = e.focus /\ e.focus = d.focus /\ Some(E, Actives))
  /\ e.focus = d.focus \/ (Some(E, Crossings) /\ ~Some(E, Actives))
  /\ \A s \in Addresses : Some(E, Going(s)) => e.owner[s] = None
  /\ ~Some(E, Stale(e)) /\ ~Some(E, Strange(e))
  /\ Lone(d) => ~Some(E, Crossings)

(* ... of the windows ...                                                  *)
Peopled(d, e, E) ==
  /\ \A x \in Windows : ~Some(E, Wrong(x, e))
  /\ \A i \in DOMAIN E : E[i] \in Numberings => i = 1
  /\ \/ /\ ~Some(E, Numberings)
        /\ \A x \in Windows : e.on[x] = d.on[x] \/ Some(E, About(x))
     \/ /\ 1 \in DOMAIN E /\ E[1] \in Numberings
        /\ \A x \in Windows : e.on[x] = IF d.on[x] = E[1].from THEN E[1].to ELSE d.on[x]

(* ... and of the focus.                                                   *)
Attended(d, e, E) ==
  /\ Led(E, Mistaken(e), Focuses)
  /\ ~Some(E, Focuses) => e.win = d.win /\ (e.win # None => e.on[e.win] = d.on[e.win])
  /\ e.win # None => Switched(E, FALSE)
  /\ Some(E, Actives) /\ e.win # None => Seated(e) /\ e.focus = d.focus
  /\ Led(E, Takes, Focuses) \/ Seated(e)
  /\ Heralded(E) \/ Kept(d, e, E)
  /\ Lone(d) => Kept(d, e, E)

(* All that a change says of itself.                                       *)
Announced(d, e, E) ==
  /\ E \in Seq(Events)
  /\ Arranged(d, e, E) /\ Peopled(d, e, E)
  /\ ~Some(E, Numberings) => Attended(d, e, E)

(* Two queues joined say switches as each does.                            *)
LEMMA SwitchedJoined ==
  ASSUME NEW S, NEW q \in Seq(S), NEW r \in Seq(S), NEW quiet,
         Switched(q, quiet) \/ Some(r, Focuses), Switched(r, FALSE)
  PROVE  Switched(q \o r, quiet)
<1>0. USE Joined
<1>1. SUFFICES ASSUME NEW i \in DOMAIN (q \o r), (q \o r)[i] \in Actives
               PROVE  \/ \E j \in DOMAIN (q \o r) : j > i /\ (q \o r)[j] \in Focuses
                      \/ i = 1 /\ quiet
                      \/ i > 1 /\ (q \o r)[i - 1] \in Focuses
  BY DEF Switched
<1>2. CASE i \in DOMAIN q
  <2>1. q[i] \in Actives
    BY <1>1, <1>2
  <2>4. CASE Some(r, Focuses)
    <3>1. PICK j \in DOMAIN r : r[j] \in Focuses
      BY <2>4 DEF Some
    <3>2. Len(q) + j \in DOMAIN (q \o r) /\ Len(q) + j > i
      BY <1>2, <3>1
    <3>. QED
      BY <3>1, <3>2
  <2>2. CASE \E j \in DOMAIN q : j > i /\ q[j] \in Focuses
    <3>1. PICK j \in DOMAIN q : j > i /\ q[j] \in Focuses
      BY <2>2
    <3>2. j \in DOMAIN (q \o r)
      BY <3>1
    <3>. QED
      BY <3>1, <3>2
  <2>3. CASE i > 1 /\ q[i - 1] \in Focuses
    <3>1. i - 1 \in DOMAIN q
      BY <1>2, <2>3
    <3>. QED
      BY <2>3, <3>1
  <2>. QED
    BY <2>1, <2>2, <2>3, <2>4, <1>2 DEF Switched
<1>3. CASE i - Len(q) \in DOMAIN r /\ i > Len(q)
  <2>0. Len(q) + (i - Len(q)) = i
    BY <1>3
  <2>1. r[i - Len(q)] \in Actives
    BY <1>1, <1>3, <2>0
  <2>2. CASE \E j \in DOMAIN r : j > i - Len(q) /\ r[j] \in Focuses
    <3>1. PICK j \in DOMAIN r : j > i - Len(q) /\ r[j] \in Focuses
      BY <2>2
    <3>2. Len(q) + j \in DOMAIN (q \o r) /\ Len(q) + j > i
      BY <1>3, <3>1
    <3>. QED
      BY <3>1, <3>2
  <2>3. CASE i - Len(q) > 1 /\ r[i - Len(q) - 1] \in Focuses
    <3>0. i \in Nat /\ Len(q) \in Nat /\ Len(r) \in Nat /\ DOMAIN r = 1..Len(r)
      BY <1>1
    <3>1. i - Len(q) - 1 \in DOMAIN r /\ Len(q) + (i - Len(q) - 1) = i - 1 /\ i > 1
      <4>. HIDE Joined
      <4>. QED
        BY <1>3, <2>3, <3>0
    <3>2. (q \o r)[Len(q) + (i - Len(q) - 1)] = r[i - Len(q) - 1]
      BY <3>1
    <3>. QED
      BY <2>3, <3>1, <3>2
  <2>. QED
    BY <2>1, <2>2, <2>3, <1>3 DEF Switched
<1>. QED
  BY <1>2, <1>3

(* Two queues joined herald a focus as each does.                          *)
LEMMA HeraldedJoined ==
  ASSUME NEW S, NEW q \in Seq(S), NEW r \in Seq(S), Heralded(q) \/ Some(r, Focuses), Heralded(r)
  PROVE  Heralded(q \o r)
<1>0. USE Joined
<1>1. SUFFICES ASSUME NEW i \in DOMAIN (q \o r), (q \o r)[i] \in Takes
               PROVE  \/ \E j \in DOMAIN (q \o r) : j > i /\ (q \o r)[j] \in Focuses
                      \/ \E j \in DOMAIN (q \o r) : j < i /\ (q \o r)[j] \in Crossings \cup Unans
  BY DEF Heralded
<1>2. CASE i \in DOMAIN q
  <2>1. q[i] \in Takes
    BY <1>1, <1>2
  <2>2. CASE Some(r, Focuses)
    <3>1. PICK j \in DOMAIN r : r[j] \in Focuses
      BY <2>2 DEF Some
    <3>2. Len(q) + j \in DOMAIN (q \o r) /\ Len(q) + j > i
      BY <1>2, <3>1
    <3>. QED
      BY <3>1, <3>2
  <2>3. CASE Heralded(q)
    <3>1. PICK j \in DOMAIN q : (j > i /\ q[j] \in Focuses) \/ (j < i /\ q[j] \in Crossings \cup Unans)
      BY <1>2, <2>1, <2>3 DEF Heralded
    <3>2. j \in DOMAIN (q \o r)
      BY <3>1
    <3>. QED
      BY <3>1, <3>2
  <2>. QED
    BY <2>2, <2>3
<1>3. CASE i - Len(q) \in DOMAIN r /\ i > Len(q)
  <2>0. Len(q) + (i - Len(q)) = i
    BY <1>3
  <2>1. r[i - Len(q)] \in Takes
    BY <1>1, <1>3, <2>0
  <2>2. PICK j \in DOMAIN r : \/ j > i - Len(q) /\ r[j] \in Focuses
                              \/ j < i - Len(q) /\ r[j] \in Crossings \cup Unans
    BY <2>1, <1>3 DEF Heralded
  <2>3. Len(q) + j \in DOMAIN (q \o r) /\ (Len(q) + j > i <=> j > i - Len(q))
                                      /\ (Len(q) + j < i <=> j < i - Len(q))
    BY <1>3, <2>2
  <2>. QED
    BY <2>2, <2>3
<1>. QED
  BY <1>2, <1>3

(* Where nothing is switched to there is nothing to order.                 *)
LEMMA SwitchedNone ==
  ASSUME NEW q, ~Some(q, Actives), NEW quiet
  PROVE  Switched(q, quiet)
  BY DEF Switched, Some

(* Where no focus is taken there is nothing to herald.                     *)
LEMMA HeraldedNone ==
  ASSUME NEW q, ~Some(q, Takes)
  PROVE  Heralded(q)
  BY DEF Heralded, Some

(* Switches stay ordered as the queue is read; a focus that was read       *)
(* stands before the first.                                                *)
LEMMA SwitchedRead ==
  ASSUME NEW S, NEW q \in Seq(S), q # <<>>, NEW quiet, Switched(q, quiet)
  PROVE  /\ Switched(Tail(q), TRUE)
         /\ Head(q) \notin Focuses => Switched(Tail(q), FALSE)
<1>1. /\ DOMAIN q = 1..Len(q) /\ Len(q) \in Nat \ {0}
      /\ Head(q) = q[1]
      /\ DOMAIN Tail(q) = 1..(Len(q) - 1)
      /\ \A i \in 1..(Len(q) - 1) : Tail(q)[i] = q[i + 1]
  BY QueueRead
<1>2. ASSUME NEW i \in DOMAIN Tail(q), Tail(q)[i] \in Actives
      PROVE  \/ \E j \in DOMAIN Tail(q) : j > i /\ Tail(q)[j] \in Focuses
             \/ i = 1 /\ Head(q) \in Focuses
             \/ i > 1 /\ Tail(q)[i - 1] \in Focuses
  <2>1. i + 1 \in DOMAIN q /\ q[i + 1] \in Actives /\ i \in Nat /\ i >= 1
    BY <1>1, <1>2
  <2>2. \/ \E j \in DOMAIN q : j > i + 1 /\ q[j] \in Focuses
        \/ q[i] \in Focuses
    <3>1. ~(i + 1 = 1) /\ (i + 1) - 1 = i
      BY <2>1
    <3>. QED
      BY <2>1, <3>1 DEF Switched
  <2>3. CASE \E j \in DOMAIN q : j > i + 1 /\ q[j] \in Focuses
    <3>1. PICK j \in DOMAIN q : j > i + 1 /\ q[j] \in Focuses
      BY <2>3
    <3>2. j - 1 \in DOMAIN Tail(q) /\ Tail(q)[j - 1] = q[j] /\ j - 1 > i
      BY <1>1, <2>1, <3>1
    <3>. QED
      BY <3>1, <3>2
  <2>4. CASE q[i] \in Focuses
    <3>1. CASE i = 1
      BY <1>1, <2>4, <3>1
    <3>2. CASE i # 1
      <4>1. i > 1 /\ i - 1 \in DOMAIN Tail(q) /\ Tail(q)[i - 1] = q[i]
        BY <1>1, <1>2, <2>1, <3>2
      <4>. QED
        BY <2>4, <4>1
    <3>. QED
      BY <3>1, <3>2
  <2>. QED
    BY <2>2, <2>3, <2>4
<1>. QED
  BY <1>2 DEF Switched

(* A focus stays heralded as the queue is read, until what heralds it was  *)
(* read.                                                                   *)
LEMMA HeraldedRead ==
  ASSUME NEW S, NEW q \in Seq(S), q # <<>>, Heralded(q)
  PROVE  /\ Heralded(Tail(q)) \/ Head(q) \in Crossings \cup Unans
         /\ Head(q) \in Takes => Some(Tail(q), Focuses)
<1>1. /\ DOMAIN q = 1..Len(q) /\ Len(q) \in Nat \ {0}
      /\ Head(q) = q[1]
      /\ DOMAIN Tail(q) = 1..(Len(q) - 1)
      /\ \A i \in 1..(Len(q) - 1) : Tail(q)[i] = q[i + 1]
  BY QueueRead
<1>2. ASSUME NEW i \in DOMAIN Tail(q), Tail(q)[i] \in Takes, Head(q) \notin Crossings \cup Unans
      PROVE  \/ \E j \in DOMAIN Tail(q) : j > i /\ Tail(q)[j] \in Focuses
             \/ \E j \in DOMAIN Tail(q) : j < i /\ Tail(q)[j] \in Crossings \cup Unans
  <2>1. i + 1 \in DOMAIN q /\ q[i + 1] \in Takes /\ i \in Nat
    BY <1>1, <1>2
  <2>2. PICK j \in DOMAIN q : \/ j > i + 1 /\ q[j] \in Focuses
                              \/ j < i + 1 /\ q[j] \in Crossings \cup Unans
    BY <2>1 DEF Heralded
  <2>3. j # 1
    BY <1>1, <1>2, <2>1, <2>2
  <2>4. j - 1 \in DOMAIN Tail(q) /\ Tail(q)[j - 1] = q[j]
        /\ (j > i + 1 => j - 1 > i) /\ (j < i + 1 => j - 1 < i)
    BY <1>1, <2>1, <2>2, <2>3
  <2>. QED
    BY <2>2, <2>4
<1>3. ASSUME Head(q) \in Takes PROVE Some(Tail(q), Focuses)
  <2>1. 1 \in DOMAIN q /\ q[1] \in Takes
    BY <1>1, <1>3
  <2>2. PICK j \in DOMAIN q : j > 1 /\ q[j] \in Focuses
    BY <1>1, <2>1 DEF Heralded
  <2>3. j - 1 \in DOMAIN Tail(q) /\ Tail(q)[j - 1] = q[j]
    BY <1>1, <2>2
  <2>. QED
    BY <2>2, <2>3 DEF Some
<1>. QED
  BY <1>2, <1>3 DEF Heralded

(* How the kinds of events overlap.                                        *)
LEMMA KindSets ==
  /\ Takes \subseteq Focuses
  /\ \A d : Mistaken(d) \subseteq Focuses
  /\ Numberings \subseteq Unans
  /\ Focuses \cap (Unans \cup Actives \cup Crossings) = {}
  /\ Actives \cap (Unans \cup Crossings) = {}
  /\ Crossings \cap Unans = {}
  /\ \A s \in Addresses : /\ Going(s) \cap (Unans \cup Actives \cup Crossings \cup Focuses) = {}
                          /\ Coming(s) \subseteq Actives
  /\ \A x : About(x) \cap (Unans \cup Actives \cup Crossings \cup Focuses) = {}
  /\ \A d : Stale(d) \subseteq Actives /\ Strange(d) \subseteq Crossings
  /\ \A x, d : Wrong(x, d) \subseteq About(x)
<1>1. Takes \subseteq Focuses
  BY EventKinds DEF Takes, Focuses
<1>2. ASSUME NEW d PROVE Mistaken(d) \subseteq Focuses
  BY EventKinds DEF Mistaken, Focuses
<1>3. ASSUME NEW s \in Addresses
      PROVE  /\ Going(s) \cap (Unans \cup Actives \cup Crossings \cup Focuses) = {}
             /\ Coming(s) \subseteq Actives
  BY EventKinds DEF Going, Coming, Unans, Actives, Crossings, Focuses, Unanswered
<1>. QED
  BY <1>1, <1>2, <1>3 DEF Numberings, Unans, Unanswered, Focuses, Actives, Crossings, About, Stale, Strange, Wrong

(* What settling says names no monitor, no window and no number.           *)
LEMMA RestIs ==
  ASSUME NEW w, NEW e, NEW r, Settles(w, e, r)
  PROVE  /\ r \in Seq(Events)
         /\ ~Some(r, Unans) /\ ~Some(r, Actives) /\ ~Some(r, Crossings) /\ ~Some(r, Numberings)
         /\ ~Some(r, Takes) /\ ~Some(r, Mistaken(e)) /\ \A x : ~Some(r, About(x))
         /\ \A s \in Addresses : Some(r, Going(s)) => e.owner[s] = None
<1>1. /\ r \in Seq(Events)
      /\ \A i \in DOMAIN r : \/ r[i] = Focus(FALSE) /\ e.win = None
                           \/ \E s \in Addresses : r[i] = Of("destroyworkspace", s) /\ e.owner[s] = None
  BY DEF Settles
<1>2. \A i \in DOMAIN r : r[i].says \in {"activewindow", "destroyworkspace"}
  <2>1. SUFFICES ASSUME NEW i \in DOMAIN r PROVE r[i].says \in {"activewindow", "destroyworkspace"}
    OBVIOUS
  <2>2. CASE r[i] = Focus(FALSE)
    BY <2>2 DEF Focus
  <2>3. CASE \E s \in Addresses : r[i] = Of("destroyworkspace", s)
    BY <2>3 DEF Of
  <2>. QED
    BY <1>1, <2>2, <2>3
<1>3. ASSUME NEW s \in Addresses, Some(r, Going(s)) PROVE e.owner[s] = None
  <2>1. PICK i \in DOMAIN r : r[i] = Of("destroyworkspace", s)
    BY <1>3 DEF Some, Going
  <2>2. PICK t \in Addresses : r[i] = Of("destroyworkspace", t) /\ e.owner[t] = None
    <3>1. r[i] # Focus(FALSE)
      BY <2>1 DEF Of, Focus
    <3>. QED
      BY <1>1, <3>1
  <2>. QED
    BY <2>1, <2>2 DEF Of
<1>4. ASSUME NEW i \in DOMAIN r PROVE r[i] \notin Takes
  <2>1. CASE r[i] = Focus(FALSE)
    <3>1. Focus(FALSE).focused = FALSE /\ Focus(TRUE).focused = TRUE
      BY EventKinds
    <3>. QED
      BY <2>1, <3>1 DEF Takes
  <2>2. CASE \E s \in Addresses : r[i] = Of("destroyworkspace", s)
    BY <2>2 DEF Takes, Of, Focus
  <2>. QED
    BY <1>1, <2>1, <2>2
<1>5. ASSUME NEW i \in DOMAIN r PROVE r[i] \notin Mistaken(e)
  <2>1. CASE r[i] = Focus(FALSE) /\ e.win = None
    BY <2>1, EventKinds DEF Mistaken
  <2>2. CASE \E s \in Addresses : r[i] = Of("destroyworkspace", s)
    BY <2>2 DEF Mistaken, Of, Focus
  <2>. QED
    BY <1>1, <2>1, <2>2
<1>6. /\ ~Some(r, Unans) /\ ~Some(r, Actives) /\ ~Some(r, Crossings) /\ ~Some(r, Numberings)
      /\ \A x : ~Some(r, About(x))
  BY <1>2 DEF Some, Unans, Unanswered, Actives, Crossings, Numberings, About
<1>. QED
  BY <1>1, <1>3, <1>4, <1>5, <1>6 DEF Some

(* A desktop that settled is as Hyprland keeps it.                         *)
LEMMA SettledOK ==
  ASSUME NEW w, Ground(w), NEW e, NEW r, Settles(w, e, r)
  PROVE  DesktopOK(e)
<1>. USE DEF Settles, Ground
<1>1. \A o \in e.monitors : e.shown[o] \in Addresses /\ e.owner[e.shown[o]] = o
  <2>1. SUFFICES ASSUME NEW o \in e.monitors PROVE e.shown[o] \in Addresses /\ e.owner[e.shown[o]] = o
    OBVIOUS
  <2>2. o \in w.monitors /\ o \in Outputs /\ e.shown[o] = w.shown[o]
    BY DEF DesktopsThere
  <2>3. w.shown[o] \in Addresses
    BY <2>2 DEF DesktopsThere
  <2>. QED
    BY <2>2, <2>3
<1>2. \A s \in Addresses : e.owner[s] \in e.monitors \cup {None}
  OBVIOUS
<1>3. \A x \in Windows : e.on[x] # None => e.owner[e.on[x]] # None
  <2>1. SUFFICES ASSUME NEW x \in Windows, e.on[x] # None PROVE e.owner[e.on[x]] # None
    OBVIOUS
  <2>2. e.on[x] \in Addresses /\ w.owner[e.on[x]] # None
    BY <2>1 DEF DesktopsThere
  <2>. QED
    BY <2>1, <2>2
<1>4. e.win # None => e.on[e.win] # None
  BY DEF DesktopsThere
<1>5. Ground(e)
  BY <1>1, <1>2, <1>3, <1>4
<1>6. /\ e.win # None => \E o \in e.monitors : e.shown[o] = e.on[e.win]
      /\ \A s \in Addresses : e.owner[s] # None =>
           (\E o \in e.monitors : e.shown[o] = s) \/ (\E x \in Windows : e.on[x] = s)
  OBVIOUS
<1>. QED
  BY <1>5, <1>6 DEF DesktopOK

(* What settling says adds nothing wrong about outputs and workspaces.     *)
LEMMA SettledArranged ==
  ASSUME NEW d, NEW w, NEW E \in Seq(Events), Arranged(d, w, E), NEW e, NEW r, Settles(w, e, r)
  PROVE  Arranged(d, e, E \o r)
<1>1. /\ r \in Seq(Events)
      /\ ~Some(r, Unans) /\ ~Some(r, Actives) /\ ~Some(r, Crossings)
      /\ \A s \in Addresses : Some(r, Going(s)) => e.owner[s] = None
  BY RestIs
<1>2. \A B : Some(E \o r, B) <=> Some(E, B) \/ Some(r, B)
  BY <1>1, SomeJoined
<1>3. Stale(e) = Stale(w) /\ Strange(e) = Strange(w)
  BY DEF Stale, Strange, Settles
<1>4. ~Some(r, Stale(e)) /\ ~Some(r, Strange(e))
  BY <1>1, KindSets DEF Some
<1>5. ASSUME NEW s \in Addresses
      PROVE e.owner[s] = d.owner[s] \/ Some(E \o r, Unans) \/ (e.owner[s] = None /\ Some(E \o r, Going(s)))
  BY <1>2 DEF Arranged, Settles
<1>6. ASSUME NEW s \in Addresses, Some(E \o r, Going(s)) PROVE e.owner[s] = None
  BY <1>1, <1>2, <1>6 DEF Arranged, Settles
<1>7. ASSUME NEW o \in Outputs
      PROVE e.shown[o] = d.shown[o] \/ Some(E \o r, Unans)
                        \/ (o = e.focus /\ e.focus = d.focus /\ Some(E \o r, Actives))
  BY <1>2 DEF Arranged, Settles
<1>8. e.focus = d.focus \/ (Some(E \o r, Crossings) /\ ~Some(E \o r, Actives))
  BY <1>1, <1>2 DEF Arranged, Settles
<1>9. e.ports = d.ports /\ (Lone(d) => ~Some(E \o r, Crossings))
  BY <1>1, <1>2 DEF Arranged, Settles
<1>10. ~Some(E \o r, Stale(e)) /\ ~Some(E \o r, Strange(e))
  BY <1>2, <1>3, <1>4 DEF Arranged
<1>. QED
  BY <1>5, <1>6, <1>7, <1>8, <1>9, <1>10 DEF Arranged

(* Nor about windows.                                                      *)
LEMMA SettledPeopled ==
  ASSUME NEW d, NEW w, NEW E \in Seq(Events), Peopled(d, w, E), NEW e, NEW r, Settles(w, e, r)
  PROVE  Peopled(d, e, E \o r)
<1>1. /\ r \in Seq(Events) /\ ~Some(r, Numberings) /\ \A x : ~Some(r, About(x))
  BY RestIs
<1>2. \A B : Some(E \o r, B) <=> Some(E, B) \/ Some(r, B)
  BY <1>1, SomeJoined
<1>3. e.on = w.on
  BY DEF Settles
<1>4. ASSUME NEW x \in Windows PROVE ~Some(E \o r, Wrong(x, e))
  <2>1. Wrong(x, e) = Wrong(x, w)
    BY <1>3 DEF Wrong
  <2>2. ~Some(r, Wrong(x, e))
    BY <1>1, KindSets DEF Some
  <2>. QED
    BY <1>2, <2>1, <2>2 DEF Peopled
<1>5. ASSUME NEW i \in DOMAIN (E \o r), (E \o r)[i] \in Numberings PROVE i = 1
  <2>1. i \in DOMAIN E \/ (i - Len(E) \in DOMAIN r /\ i > Len(E))
    BY <1>1, Joined
  <2>2. CASE i \in DOMAIN E
    <3>1. E[i] \in Numberings
      BY <1>1, <1>5, <2>2, Joined
    <3>. QED
      BY <2>2, <3>1 DEF Peopled
  <2>3. CASE i - Len(E) \in DOMAIN r /\ i > Len(E)
    <3>0. Len(E) \in Nat /\ i \in Nat
      BY <1>1, <1>5, Joined
    <3>1. Len(E) + (i - Len(E)) = i
      BY <3>0
    <3>2. (E \o r)[Len(E) + (i - Len(E))] = r[i - Len(E)]
      BY <1>1, <2>3, Joined
    <3>. QED
      BY <1>1, <1>5, <2>3, <3>1, <3>2 DEF Some
  <2>. QED
    BY <2>1, <2>2, <2>3
<1>6. 1 \in DOMAIN E => 1 \in DOMAIN (E \o r) /\ (E \o r)[1] = E[1]
  BY <1>1, Joined
<1>. QED
  BY <1>1, <1>2, <1>3, <1>4, <1>5, <1>6 DEF Peopled

(* Nor about the focus.                                                    *)
LEMMA SettledAttended ==
  ASSUME NEW d, NEW w, Ground(w), NEW E \in Seq(Events), Attended(d, w, E), NEW e, NEW r, Settles(w, e, r)
  PROVE  Attended(d, e, E \o r)
<1>1. /\ r \in Seq(Events) /\ ~Some(r, Numberings) /\ ~Some(r, Actives) /\ ~Some(r, Takes)
      /\ ~Some(r, Mistaken(e))
  BY RestIs
<1>2. \A B : Some(E \o r, B) <=> Some(E, B) \/ Some(r, B)
  BY <1>1, SomeJoined
<1>3. Switched(r, FALSE) /\ Heralded(r)
  BY <1>1, SwitchedNone, HeraldedNone
<1>4. Led(r, Takes, Focuses) /\ Led(r, Mistaken(e), Focuses)
  BY <1>1, LedNone
<1>5. /\ e.shown = w.shown /\ e.focus = w.focus /\ e.on = w.on
      /\ \/ e.win = w.win /\ ~Some(r, Focuses)
         \/ e.win = None /\ Some(r, Focuses)
  <2>1. Focus(FALSE) \in Focuses
    BY EventKinds DEF Focuses
  <2>2. Some(r, {Focus(FALSE)}) => Some(r, Focuses)
    BY <2>1 DEF Some
  <2>. QED
    BY <2>2 DEF Settles
<1>6. Kept(d, w, E) => Kept(d, e, E \o r)
  BY <1>2, <1>5 DEF Kept
<1>7. Led(E \o r, Mistaken(e), Focuses)
  <2>1. Led(E, Mistaken(e), Focuses) \/ Some(r, Focuses)
    BY <1>5 DEF Attended, Mistaken
  <2>. QED
    BY <1>1, <1>4, <2>1, LedJoined
<1>8. ~Some(E \o r, Focuses) => e.win = d.win /\ (e.win # None => e.on[e.win] = d.on[e.win])
  BY <1>2, <1>5 DEF Attended
<1>9. e.win # None => Switched(E \o r, FALSE)
  BY <1>1, <1>3, <1>5, SwitchedJoined DEF Attended
<1>10. Some(E \o r, Actives) /\ e.win # None => Seated(e) /\ e.focus = d.focus
  BY <1>1, <1>2, <1>5 DEF Attended, Seated
<1>11. Led(E \o r, Takes, Focuses) \/ Seated(e)
  <2>1. CASE e.win = w.win /\ Seated(w)
    BY <1>5, <2>1 DEF Seated
  <2>2. CASE Led(E, Takes, Focuses) \/ Some(r, Focuses)
    BY <1>1, <1>4, <2>2, LedJoined
  <2>. QED
    BY <1>5, <2>1, <2>2 DEF Attended
<1>12. Heralded(E \o r) \/ Kept(d, e, E \o r)
  BY <1>1, <1>3, <1>6, HeraldedJoined DEF Attended
<1>13. Lone(d) => Kept(d, e, E \o r)
  BY <1>6 DEF Attended
<1>. QED
  BY <1>7, <1>8, <1>9, <1>10, <1>11, <1>12, <1>13 DEF Attended

(* A change and what follows of it are announced together.                 *)
LEMMA SettledAnnounced ==
  ASSUME NEW d, NEW w, Ground(w), NEW E, Announced(d, w, E),
         NEW e, e = Aftermath(w).desktop, NEW r, r = Aftermath(w).events
  PROVE  DesktopOK(e) /\ Announced(d, e, E \o r)
<1>1. Settles(w, e, r)
  BY AftermathIs
<1>2. E \in Seq(Events) /\ r \in Seq(Events) /\ ~Some(r, Numberings)
  BY <1>1, RestIs DEF Announced
<1>3. E \o r \in Seq(Events)
  BY <1>2, Joined
<1>4. Some(E \o r, Numberings) <=> Some(E, Numberings)
  BY <1>2, SomeJoined
<1>5. DesktopOK(e)
  BY <1>1, SettledOK
<1>6. Arranged(d, e, E \o r)
  BY <1>1, <1>2, SettledArranged DEF Announced
<1>7. Peopled(d, e, E \o r)
  BY <1>1, <1>2, SettledPeopled DEF Announced
<1>8. ~Some(E \o r, Numberings) => Attended(d, e, E \o r)
  BY <1>1, <1>2, <1>4, SettledAttended DEF Announced
<1>. QED
  BY <1>3, <1>5, <1>6, <1>7, <1>8 DEF Announced

(* A queue of one or none.                                                 *)
LEMMA Optional ==
  ASSUME NEW S, NEW a \in S, NEW c \in BOOLEAN, NEW q, q = IF c THEN <<a>> ELSE <<>>
  PROVE  q \in Seq(S) /\ \A B : Some(q, B) <=> c /\ a \in B
<1>1. CASE c
  <2>1. q = <<a>>
    BY <1>1
  <2>2. q \in Seq(S) /\ DOMAIN q = {1} /\ q[1] = a
    BY <2>1, ShortSeqs
  <2>. QED
    BY <1>1, <2>2 DEF Some
<1>2. CASE ~c
  <2>1. q = <<>>
    BY <1>2
  <2>2. q \in Seq(S) /\ DOMAIN q = {}
    BY <2>1, ShortSeqs
  <2>. QED
    BY <1>2, <2>2 DEF Some
<1>. QED
  BY <1>1, <1>2

(* A queue of one.                                                         *)
LEMMA Single ==
  ASSUME NEW S, NEW a \in S, NEW q, q = <<a>>
  PROVE  q \in Seq(S) /\ \A B : Some(q, B) <=> a \in B
<1>1. q \in Seq(S) /\ DOMAIN q = {1} /\ q[1] = a
  BY ShortSeqs
<1>. QED
  BY <1>1 DEF Some

InThree(E, q, r, v) ==
  E \in Seq(Events) /\ \A B : Some(E, B) <=> Some(q, B) \/ Some(r, B) \/ Some(v, B)

(* Three queues joined hold what each holds.                               *)
LEMMA ThreeJoined ==
  ASSUME NEW q \in Seq(Events), NEW r \in Seq(Events), NEW v \in Seq(Events), NEW E, E = q \o r \o v
  PROVE  InThree(E, q, r, v)
<1>1. PICK u : u = q \o r
  OBVIOUS
<1>2. u \in Seq(Events) /\ \A B : Some(u, B) <=> Some(q, B) \/ Some(r, B)
  BY <1>1, Joined, SomeJoined
<1>3. E = u \o v
  BY <1>1
<1>4. E \in Seq(Events) /\ \A B : Some(E, B) <=> Some(u, B) \/ Some(v, B)
  BY <1>2, <1>3, Joined, SomeJoined
<1>. QED
  BY <1>2, <1>4 DEF InThree

(* A switch that comes right after a focus is in order.                    *)
LEMMA PairSwitched ==
  ASSUME NEW S, NEW f \in S, NEW v \in S, f \in Focuses, f \notin Actives, NEW E, E = <<f>> \o <<>> \o <<v>>
  PROVE  Switched(E, FALSE)
<1>1. <<f>> \o <<>> = <<f>>
  OBVIOUS
<1>2. E = <<f>> \o <<v>>
  BY <1>1
<1>3. <<f>> \in Seq(S) /\ <<v>> \in Seq(S) /\ Len(<<f>>) = 1 /\ Len(<<v>>) = 1
      /\ <<f>>[1] = f /\ <<v>>[1] = v
  OBVIOUS
<1>4. DOMAIN E = 1..2 /\ E[1] = f
  BY <1>2, <1>3, Joined
<1>5. ASSUME NEW i \in DOMAIN E, E[i] \in Actives PROVE i > 1 /\ E[i - 1] \in Focuses
  <2>1. i = 2
    BY <1>4, <1>5
  <2>. QED
    BY <1>4, <2>1
<1>. QED
  BY <1>5 DEF Switched

(* Which kind an event is of, by what it says.                             *)
LEMMA Kind ==
  ASSUME NEW e \in Events
  PROVE  /\ e \in Unans <=> e.says \in {"createworkspace", "moveworkspace", "changeworkspaceid",
                                        "monitoradded", "monitorremoved"}
         /\ e \in Actives <=> e.says = "workspace"
         /\ e \in Focuses <=> e.says = "activewindow"
         /\ e \in Crossings <=> e.says = "focusedmon"
         /\ e \in Numberings <=> e.says = "changeworkspaceid"
         /\ \A x : e \in About(x) <=> e.says \in {"openwindow", "movewindow", "closewindow"} /\ e.window = x
         /\ \A s : e \in Going(s) => e.says = "destroyworkspace"
         /\ \A d : e \in Stale(d) <=> e.says = "workspace" /\ e.workspace # d.shown[d.focus]
         /\ \A d : e \in Strange(d) <=> e.says = "focusedmon" /\ e # Monitor(d.focus, d.shown[d.focus])
         /\ \A x, d : e \in Wrong(x, d) <=> e \in About(x)
                        /\ (IF e.says = "closewindow" THEN None ELSE e.workspace) # d.on[x]
<1>1. \A s : e \in Going(s) => e.says = "destroyworkspace"
  BY DEF Going, Of
<1>. QED
  BY <1>1 DEF Unans, Unanswered, Actives, Focuses, Crossings, Numberings, About, Stale, Strange, Wrong

(* Which kind a focus is of, by whether there is one.                      *)
LEMMA FocusKind ==
  ASSUME NEW b \in BOOLEAN
  PROVE  /\ Focus(b) \in Events /\ Focus(b).says = "activewindow"
         /\ Focus(b) \in Takes <=> b
         /\ \A d : Focus(b) \in Mistaken(d) <=> (b <=> d.win = None)
<1>1. Focus(b) \in Events /\ Focus(b).says = "activewindow"
  BY EventKinds
<1>2. \A c \in BOOLEAN : Focus(b) = Focus(c) <=> b = c
  BY DEF Focus
<1>. QED
  BY <1>1, <1>2 DEF Takes, Mistaken

(* What is no focus.                                                       *)
LEMMA OtherKind ==
  ASSUME NEW e \in Events, e.says # "activewindow"
  PROVE  e \notin Takes /\ e \notin Focuses /\ \A d : e \notin Mistaken(d)
<1>1. \A b \in BOOLEAN : e # Focus(b)
  BY EventKinds
<1>2. \A d : (d.win = None) \in BOOLEAN
  OBVIOUS
<1>. QED
  BY <1>1, <1>2 DEF Takes, Mistaken, Focuses

(* The one output there is has the focus.                                  *)
LEMMA LoneOne ==
  ASSUME NEW d, Ground(d), Lone(d)
  PROVE  d.ports = {d.focus} /\ d.monitors = {d.focus}
<1>1. d.focus \in d.ports /\ d.monitors \subseteq d.ports /\ d.ports \subseteq Outputs
  BY DEF Ground, DesktopsThere
<1>2. IsFiniteSet(d.ports)
  BY <1>1, ChannelsAssumption, FS_Subset
<1>3. IsFiniteSet({d.focus}) /\ Cardinality({d.focus}) = 1
  BY FS_Singleton
<1>4. d.ports = {d.focus}
  BY <1>1, <1>2, <1>3, FS_Subset DEF Lone
<1>. QED
  BY <1>1, <1>4 DEF Ground

(* Switch: what it makes of the desktop and says.                          *)
Switches(d, w, E, s, win) ==
  /\ d.shown[d.focus] # s /\ d.owner[s] \in {d.focus, None}
  /\ win \in Windows \cup {None} /\ (win # None => d.on[win] = s)
  /\ w = [d EXCEPT !.shown[d.focus] = s, !.owner[s] = d.focus, !.win = win]
  /\ E = (IF win = None /\ d.win = None THEN <<>> ELSE <<Focus(win # None)>>)
         \o (IF ~Exists(d, s) THEN <<Of("createworkspace", s)>> ELSE <<>>)
         \o <<Of("workspace", s)>>

(* A switch of workspaces announces itself.                                *)
LEMMA SwitchAnnounced ==
  ASSUME NEW d, DesktopOK(d), NEW s \in Addresses, NEW win, NEW w, NEW E, Switches(d, w, E, s, win)
  PROVE  Ground(w) /\ Announced(d, w, E)
<1>. SUFFICES ASSUME d.shown[d.focus] # s, d.owner[s] \in {d.focus, None},
         win \in Windows \cup {None},
         win # None => d.on[win] = s,
         w = [d EXCEPT !.shown[d.focus] = s, !.owner[s] = d.focus, !.win = win],
         NEW F, F = IF win = None /\ d.win = None THEN <<>> ELSE <<Focus(win # None)>>,
         NEW C, C = IF ~Exists(d, s) THEN <<Of("createworkspace", s)>> ELSE <<>>,
         E = F \o C \o <<Of("workspace", s)>>
    PROVE  Ground(w) /\ Announced(d, w, E)
  BY DEF Switches
<1>1. d \in DesktopsThere /\ Ground(d)
  BY DEF DesktopOK, Ground
<1>2. d.focus \in Outputs /\ d.focus \in d.monitors
  BY <1>1 DEF Ground, DesktopsThere
<1>3. /\ w \in DesktopsThere
      /\ w.ports = d.ports /\ w.monitors = d.monitors /\ w.focus = d.focus /\ w.on = d.on /\ w.win = win
      /\ w.shown = [d.shown EXCEPT ![d.focus] = s]
      /\ w.owner = [d.owner EXCEPT ![s] = d.focus]
  BY <1>1, <1>2 DEF DesktopsThere
<1>4. /\ \A o \in Outputs : w.shown[o] = IF o = d.focus THEN s ELSE d.shown[o]
      /\ \A r \in Addresses : w.owner[r] = IF r = s THEN d.focus ELSE d.owner[r]
  BY <1>1, <1>2, <1>3 DEF DesktopsThere
<1>5. None \notin Addresses /\ None \notin Outputs /\ None \notin Windows
  BY HyprAssumption, ChannelsAssumption
<1>6. Ground(w)
  <2>1. \A o \in Outputs : w.shown[o] # None <=> o \in w.monitors
    BY <1>1, <1>2, <1>3, <1>4, <1>5 DEF Ground
  <2>2. \A o \in w.monitors : w.owner[w.shown[o]] = o
    <3>1. SUFFICES ASSUME NEW o \in w.monitors PROVE w.owner[w.shown[o]] = o
      OBVIOUS
    <3>2. o \in Outputs /\ o \in d.monitors /\ d.shown[o] \in Addresses /\ d.owner[d.shown[o]] = o
      BY <1>1, <1>3 DEF Ground, DesktopsThere
    <3>. QED
      BY <1>2, <1>4, <1>5, <3>2
  <2>3. \A r \in Addresses : w.owner[r] \in w.monitors \cup {None}
    BY <1>1, <1>2, <1>3, <1>4 DEF Ground
  <2>4. \A x \in Windows : w.on[x] # None => w.owner[w.on[x]] # None
    <3>1. SUFFICES ASSUME NEW x \in Windows, d.on[x] # None PROVE w.owner[d.on[x]] # None
      BY <1>3
    <3>2. d.on[x] \in Addresses /\ d.owner[d.on[x]] # None
      BY <1>1, <3>1 DEF Ground, DesktopsThere
    <3>. QED
      BY <1>2, <1>4, <1>5, <3>2
  <2>5. w.win # None => w.on[w.win] # None
    BY <1>3, <1>5
  <2>. QED
    BY <1>1, <1>2, <1>3, <2>1, <2>2, <2>3, <2>4, <2>5 DEF Ground
<1>7. PICK f \in Events : f = Focus(win # None) /\ f.says = "activewindow" /\ (f \in Takes <=> win # None)
                          /\ f \notin Mistaken(w)
  BY <1>3, FocusKind
<1>8. PICK c \in Events : c = Of("createworkspace", s) /\ c.says = "createworkspace"
  BY EventKinds
<1>9. PICK v \in Events : v = Of("workspace", s) /\ v.says = "workspace" /\ v.workspace = s
  BY EventKinds
<1>10. PICK said \in BOOLEAN : said <=> ~(win = None /\ d.win = None)
  OBVIOUS
<1>11. PICK made \in BOOLEAN : made <=> d.owner[s] = None
  OBVIOUS
<1>12. F \in Seq(Events) /\ \A B : Some(F, B) <=> said /\ f \in B
  <2>1. F = IF said THEN <<f>> ELSE <<>>
    BY <1>7, <1>10
  <2>. QED
    BY <2>1, Optional
<1>13. C \in Seq(Events) /\ \A B : Some(C, B) <=> made /\ c \in B
  <2>1. C = IF made THEN <<c>> ELSE <<>>
    BY <1>8, <1>11 DEF Exists
  <2>. QED
    BY <2>1, Optional
<1>14. PICK V : V = <<v>>
  OBVIOUS
<1>15. E \in Seq(Events) /\ \A B : Some(E, B) <=> (said /\ f \in B) \/ (made /\ c \in B) \/ v \in B
  <2>1. V \in Seq(Events) /\ \A B : Some(V, B) <=> v \in B
    BY <1>14, Single
  <2>2. E = F \o C \o V
    BY <1>9, <1>14
  <2>3. InThree(E, F, C, V)
    BY <1>12, <1>13, <2>1, <2>2, ThreeJoined
  <2>. QED
    BY <1>12, <1>13, <2>1, <2>3 DEF InThree
<1>16. made => win = None
  BY <1>1, <1>5, <1>11 DEF Ground
<1>17. /\ v \notin Takes /\ v \notin Focuses /\ v \notin Mistaken(w)
       /\ c \notin Takes /\ c \notin Focuses /\ c \notin Mistaken(w)
  BY <1>8, <1>9, OtherKind
<1>18. w.shown[w.focus] = s
  BY <1>2, <1>3, <1>4
<1>19. Arranged(d, w, E)
  <2>1. \A r \in Addresses : w.owner[r] = d.owner[r] \/ Some(E, Unans)
    <3>1. made => c \in Unans
      BY <1>8, Kind
    <3>. QED
      BY <1>4, <1>11, <1>15, <3>1
  <2>2. \A o \in Outputs : w.shown[o] = d.shown[o] \/ (o = w.focus /\ w.focus = d.focus /\ Some(E, Actives))
    BY <1>3, <1>4, <1>9, <1>15, Kind
  <2>3. \A r \in Addresses : ~Some(E, Going(r))
    BY <1>7, <1>8, <1>9, <1>15, Kind
  <2>4. ~Some(E, Stale(w))
    <3>1. v \notin Stale(w)
      BY <1>9, <1>18 DEF Stale
    <3>2. f \notin Stale(w) /\ c \notin Stale(w)
      BY <1>7, <1>8, Kind
    <3>. QED
      BY <1>15, <3>1, <3>2
  <2>5. ~Some(E, Crossings) /\ ~Some(E, Strange(w))
    BY <1>7, <1>8, <1>9, <1>15, Kind
  <2>. QED
    BY <1>3, <2>1, <2>2, <2>3, <2>4, <2>5 DEF Arranged
<1>20. ~Some(E, Numberings) /\ \A x : ~Some(E, About(x)) /\ ~Some(E, Wrong(x, w))
  <2>1. ASSUME NEW a \in Events, a.says \in {"activewindow", "createworkspace", "workspace"}
        PROVE  a \notin Numberings /\ \A x : a \notin About(x) /\ a \notin Wrong(x, w)
    BY <2>1, Kind
  <2>. QED
    BY <1>7, <1>8, <1>9, <1>15, <2>1
<1>21. Peopled(d, w, E)
  BY <1>3, <1>20 DEF Peopled, Some
<1>22. Attended(d, w, E)
  <2>1. Led(E, Mistaken(w), Focuses)
    BY <1>7, <1>15, <1>17, LedNone
  <2>2. Some(E, Focuses) \/ (w.win = None /\ d.win = None)
    BY <1>3, <1>7, <1>10, <1>15, Kind
  <2>3. ASSUME w.win # None PROVE Switched(E, FALSE)
    <3>1. said /\ ~made
      BY <1>3, <1>10, <1>16, <2>3
    <3>2. F = <<f>> /\ C = <<>>
      BY <1>7, <1>10, <1>11, <3>1 DEF Exists
    <3>3. E = <<f>> \o <<>> \o <<v>>
      BY <1>9, <3>2
    <3>4. f \in Focuses /\ f \notin Actives
      BY <1>7, Kind
    <3>. QED
      BY <3>3, <3>4, PairSwitched
  <2>4. Seated(w) \/ w.win = None
    BY <1>3, <1>18 DEF Seated
  <2>5. Led(E, Takes, Focuses) \/ w.win # None
    BY <1>3, <1>7, <1>15, <1>17, LedNone
  <2>6. Kept(d, w, E)
    BY <1>3, <1>9, <1>15, Kind DEF Kept
  <2>. QED
    BY <1>3, <2>1, <2>2, <2>3, <2>4, <2>5, <2>6 DEF Attended
<1>. QED
  BY <1>6, <1>15, <1>19, <1>21, <1>22 DEF Announced

InTwo(E, q, r) ==
  E \in Seq(Events) /\ \A B : Some(E, B) <=> Some(q, B) \/ Some(r, B)

(* Two queues joined hold what each holds.                                 *)
LEMMA TwoJoined ==
  ASSUME NEW q \in Seq(Events), NEW r \in Seq(Events), NEW E, E = q \o r
  PROVE  InTwo(E, q, r)
  BY Joined, SomeJoined DEF InTwo

(* A focus that follows a crossing is heralded.                            *)
LEMMA PairHeralded ==
  ASSUME NEW m \in Crossings, NEW f, m \notin Takes, NEW E, E = <<m>> \o <<f>>
  PROVE  Heralded(E)
<1>1. PICK S : S = {m, f}
  OBVIOUS
<1>2. <<m>> \in Seq(S) /\ <<f>> \in Seq(S) /\ Len(<<m>>) = 1 /\ Len(<<f>>) = 1
      /\ <<m>>[1] = m
  BY <1>1
<1>3. DOMAIN E = 1..2 /\ E[1] = m
  BY <1>2, Joined
<1>4. ASSUME NEW i \in DOMAIN E, E[i] \in Takes PROVE 1 \in DOMAIN E /\ 1 < i /\ E[1] \in Crossings \cup Unans
  BY <1>3, <1>4
<1>. QED
  BY <1>4 DEF Heralded

(* A change that says nothing of a workspace that is switched to.          *)
LEMMA Unordered ==
  ASSUME NEW d, NEW w, NEW E \in Seq(Events),
         ~Some(E, Actives), ~Some(E, Mistaken(w)),
         ~Some(E, Focuses) => w.win = d.win /\ (w.win # None => w.on[w.win] = d.on[w.win]),
         Some(E, Takes) => Seated(w),
         Heralded(E) \/ ~Some(E, Takes) \/ (w.focus = d.focus /\ w.shown[w.focus] = d.shown[w.focus]),
         Lone(d) => w.focus = d.focus /\ w.shown[w.focus] = d.shown[w.focus]
  PROVE  Attended(d, w, E)
<1>1. Switched(E, FALSE) /\ Led(E, Mistaken(w), Focuses) /\ (Led(E, Takes, Focuses) \/ Seated(w))
  BY SwitchedNone, LedNone
<1>2. Heralded(E) \/ Kept(d, w, E)
  BY HeraldedNone DEF Kept
<1>. QED
  BY <1>1, <1>2 DEF Attended, Kept

(* A crossing to another monitor announces itself.                         *)
LEMMA FocusMonitorAnnounced ==
  ASSUME NEW d, DesktopOK(d), NEW o \in d.monitors \ {d.focus},
         NEW win \in Windows \cup {None},
         win = d.win \/ win = None \/ d.on[win] = d.shown[o],
         NEW w, w = [d EXCEPT !.focus = o, !.win = win],
         NEW E, E = (IF win = d.win THEN <<Monitor(o, d.shown[o])>>
                     ELSE IF win = None THEN <<Focus(FALSE)>> \o <<Monitor(o, d.shown[o])>>
                     ELSE Append(<<Monitor(o, d.shown[o])>>, Focus(TRUE)))
  PROVE  Ground(w) /\ Announced(d, w, E)
<1>1. d \in DesktopsThere /\ Ground(d)
  BY DEF DesktopOK, Ground
<1>2. o \in Outputs /\ d.shown[o] \in Addresses /\ d.owner[d.shown[o]] = o
  BY <1>1 DEF Ground, DesktopsThere
<1>3. /\ w \in DesktopsThere
      /\ w.ports = d.ports /\ w.monitors = d.monitors /\ w.focus = o /\ w.on = d.on /\ w.win = win
      /\ w.shown = d.shown /\ w.owner = d.owner
  BY <1>1, <1>2 DEF DesktopsThere
<1>4. None \notin Addresses
  BY HyprAssumption
<1>5. Ground(w)
  BY <1>1, <1>2, <1>3, <1>4 DEF Ground
<1>6. PICK m \in Events : m = Monitor(o, d.shown[o]) /\ m.says = "focusedmon"
  BY <1>2, EventKinds
<1>7. PICK f \in Events : f = Focus(win # None) /\ f.says = "activewindow" /\ (f \in Takes <=> win # None)
                          /\ f \notin Mistaken(w)
  BY <1>3, FocusKind
<1>8. \/ win = d.win /\ E = <<m>>
      \/ win # d.win /\ win = None /\ E = <<f>> \o <<m>>
      \/ win # d.win /\ win # None /\ E = <<m>> \o <<f>>
  <2>1. CASE win = d.win
    BY <1>6, <2>1
  <2>2. CASE win # d.win /\ win = None
    <3>1. E = <<Focus(FALSE)>> \o <<Monitor(o, d.shown[o])>>
      BY <2>2
    <3>2. f = Focus(FALSE)
      BY <1>7, <2>2
    <3>. QED
      BY <1>6, <2>2, <3>1, <3>2
  <2>3. CASE win # d.win /\ win # None
    <3>1. E = Append(<<Monitor(o, d.shown[o])>>, Focus(TRUE))
      BY <2>3
    <3>2. f = Focus(TRUE)
      BY <1>7, <2>3
    <3>3. E = Append(<<m>>, f)
      BY <1>6, <3>1, <3>2
    <3>4. Append(<<m>>, f) = <<m>> \o <<f>>
      OBVIOUS
    <3>. QED
      BY <2>3, <3>3, <3>4
  <2>. QED
    BY <2>1, <2>2, <2>3
<1>9. E \in Seq(Events) /\ \A B : Some(E, B) <=> m \in B \/ (win # d.win /\ f \in B)
  <2>1. PICK M : M = <<m>>
    OBVIOUS
  <2>2. PICK F : F = <<f>>
    OBVIOUS
  <2>3. M \in Seq(Events) /\ \A B : Some(M, B) <=> m \in B
    BY <2>1, Single
  <2>4. F \in Seq(Events) /\ \A B : Some(F, B) <=> f \in B
    BY <2>2, Single
  <2>5. CASE win = d.win
    BY <1>8, <2>1, <2>3, <2>5
  <2>6. CASE win # d.win /\ E = F \o M
    <3>1. InTwo(E, F, M)
      BY <2>3, <2>4, <2>6, TwoJoined
    <3>. QED
      BY <2>3, <2>4, <2>6, <3>1 DEF InTwo
  <2>7. CASE win # d.win /\ E = M \o F
    <3>1. InTwo(E, M, F)
      BY <2>3, <2>4, <2>7, TwoJoined
    <3>. QED
      BY <2>3, <2>4, <2>7, <3>1 DEF InTwo
  <2>. QED
    BY <1>8, <2>1, <2>2, <2>5, <2>6, <2>7
<1>10. m \notin Takes /\ m \notin Focuses /\ m \notin Mistaken(w)
  BY <1>6, OtherKind
<1>11. ~Lone(d)
  BY <1>1, LoneOne
<1>12. Arranged(d, w, E)
  <2>1. \A r \in Addresses : ~Some(E, Going(r))
    BY <1>6, <1>7, <1>9, Kind
  <2>2. ~Some(E, Stale(w)) /\ ~Some(E, Actives) /\ Some(E, Crossings)
    BY <1>6, <1>7, <1>9, Kind
  <2>3. ~Some(E, Strange(w))
    <3>1. m \notin Strange(w)
      BY <1>3, <1>6 DEF Strange
    <3>2. f \notin Strange(w)
      BY <1>7, Kind
    <3>. QED
      BY <1>9, <3>1, <3>2
  <2>. QED
    BY <1>3, <1>11, <2>1, <2>2, <2>3 DEF Arranged
<1>13. ~Some(E, Numberings) /\ ~Some(E, Actives) /\ \A x : ~Some(E, About(x)) /\ ~Some(E, Wrong(x, w))
  BY <1>6, <1>7, <1>9, Kind, Zenon
<1>14. Peopled(d, w, E)
  BY <1>3, <1>13 DEF Peopled, Some
<1>15. Attended(d, w, E)
  <2>1. ~Some(E, Mistaken(w))
    BY <1>7, <1>9, <1>10
  <2>2. ~Some(E, Focuses) => w.win = d.win /\ w.on = d.on
    BY <1>3, <1>7, <1>9, Kind
  <2>3. Some(E, Takes) => Seated(w)
    BY <1>3, <1>7, <1>9, <1>10 DEF Seated
  <2>4. Heralded(E) \/ ~Some(E, Takes)
    <3>1. m \in Crossings
      BY <1>6, Kind
    <3>2. CASE win # d.win /\ win # None
      BY <1>8, <1>10, <3>1, <3>2, PairHeralded
    <3>. QED
      BY <1>7, <1>9, <1>10, <3>2
  <2>. QED
    BY <1>9, <1>11, <1>13, <2>1, <2>2, <2>3, <2>4, Unordered
<1>. QED
  BY <1>5, <1>9, <1>12, <1>14, <1>15 DEF Announced

(* PutWindow: what it makes of the desktop and says.                       *)
Puts(d, w, E, x, s, o, win) ==
  /\ d.on[x] # s
  /\ o \in d.monitors /\ (d.owner[s] # None => o = d.owner[s])
  /\ win \in Windows \cup {None}
  /\ win = x => s = d.shown[d.focus]
  /\ win # x /\ win # None /\ win # d.win => d.on[win] = d.shown[d.focus]
  /\ w = [d EXCEPT !.on[x] = s, !.owner[s] = o, !.win = win]
  /\ \E says \in {"openwindow", "movewindow"} :
       E = (IF d.owner[s] # None THEN <<>> ELSE <<Of("createworkspace", s)>>)
           \o <<[says |-> says, window |-> x, workspace |-> s]>>
           \o (IF win = x \/ win # d.win THEN <<Focus(win # None)>> ELSE <<>>)

(* A window that opens or moves announces itself.                          *)
LEMMA PutWindowAnnounced ==
  ASSUME NEW d, DesktopOK(d), NEW x \in Windows, NEW s \in Addresses, NEW o, NEW win, NEW w, NEW E,
         Puts(d, w, E, x, s, o, win)
  PROVE  Ground(w) /\ Announced(d, w, E)
<1>. SUFFICES ASSUME d.on[x] # s,
         o \in d.monitors, d.owner[s] # None => o = d.owner[s],
         win \in Windows \cup {None},
         win = x => s = d.shown[d.focus],
         win # x /\ win # None /\ win # d.win => d.on[win] = d.shown[d.focus],
         NEW says \in {"openwindow", "movewindow"},
         w = [d EXCEPT !.on[x] = s, !.owner[s] = o, !.win = win],
         NEW C, C = IF d.owner[s] # None THEN <<>> ELSE <<Of("createworkspace", s)>>,
         NEW P, P = <<[says |-> says, window |-> x, workspace |-> s]>>,
         NEW F, F = IF win = x \/ win # d.win THEN <<Focus(win # None)>> ELSE <<>>,
         E = C \o P \o F
    PROVE  Ground(w) /\ Announced(d, w, E)
  BY DEF Puts
<1>1. d \in DesktopsThere /\ Ground(d)
  BY DEF DesktopOK, Ground
<1>2. o \in Outputs /\ d.focus \in Outputs /\ d.shown[d.focus] \in Addresses
      /\ \A r \in Outputs : d.shown[r] \in Addresses \cup {None}
  BY <1>1 DEF Ground, DesktopsThere
<1>3. /\ w \in DesktopsThere
      /\ w.ports = d.ports /\ w.monitors = d.monitors /\ w.focus = d.focus /\ w.shown = d.shown /\ w.win = win
      /\ w.on = [d.on EXCEPT ![x] = s]
      /\ w.owner = [d.owner EXCEPT ![s] = o]
  BY <1>1, <1>2 DEF DesktopsThere
<1>4. /\ \A y \in Windows : w.on[y] = IF y = x THEN s ELSE d.on[y]
      /\ \A r \in Addresses : w.owner[r] = IF r = s THEN o ELSE d.owner[r]
  BY <1>1, <1>2, <1>3 DEF DesktopsThere
<1>5. None \notin Addresses /\ None \notin Outputs /\ None \notin Windows
  BY HyprAssumption, ChannelsAssumption
<1>6. Ground(w)
  <2>1. \A r \in w.monitors : w.owner[w.shown[r]] = r
    <3>1. SUFFICES ASSUME NEW r \in w.monitors PROVE w.owner[w.shown[r]] = r
      OBVIOUS
    <3>2. r \in Outputs /\ r \in d.monitors /\ d.shown[r] \in Addresses /\ d.owner[d.shown[r]] = r
      BY <1>1, <1>3 DEF Ground, DesktopsThere
    <3>. QED
      BY <1>3, <1>4, <1>5, <3>2
  <2>2. \A r \in Addresses : w.owner[r] \in w.monitors \cup {None}
    BY <1>1, <1>3, <1>4 DEF Ground
  <2>3. \A y \in Windows : w.on[y] # None => w.owner[w.on[y]] # None
    <3>1. SUFFICES ASSUME NEW y \in Windows, w.on[y] # None PROVE w.owner[w.on[y]] # None
      OBVIOUS
    <3>2. CASE y = x
      BY <1>2, <1>4, <1>5, <3>2
    <3>3. CASE y # x
      <4>1. d.on[y] \in Addresses /\ w.on[y] = d.on[y] /\ d.owner[d.on[y]] # None
        BY <1>1, <1>4, <3>1, <3>3 DEF Ground, DesktopsThere
      <4>. QED
        BY <1>2, <1>4, <1>5, <4>1
    <3>. QED
      BY <3>2, <3>3
  <2>4. w.win # None => w.on[w.win] # None
    BY <1>1, <1>2, <1>3, <1>4, <1>5 DEF Ground
  <2>. QED
    BY <1>1, <1>3, <2>1, <2>2, <2>3, <2>4 DEF Ground
<1>7. PICK f \in Events : f = Focus(win # None) /\ f.says = "activewindow" /\ (f \in Takes <=> win # None)
                          /\ f \notin Mistaken(w)
  BY <1>3, FocusKind
<1>8. PICK c \in Events : c = Of("createworkspace", s) /\ c.says = "createworkspace"
  BY EventKinds
<1>9. PICK p \in Events : p = [says |-> says, window |-> x, workspace |-> s]
  BY DEF Events
<1>10. p.says \in {"openwindow", "movewindow"} /\ p.says # "closewindow" /\ p.window = x /\ p.workspace = s
  BY <1>9
<1>11. PICK said \in BOOLEAN : said <=> win = x \/ win # d.win
  OBVIOUS
<1>12. PICK made \in BOOLEAN : made <=> d.owner[s] = None
  OBVIOUS
<1>13. F \in Seq(Events) /\ \A B : Some(F, B) <=> said /\ f \in B
  <2>1. F = IF said THEN <<f>> ELSE <<>>
    BY <1>7, <1>11
  <2>. QED
    BY <2>1, Optional
<1>14. C \in Seq(Events) /\ \A B : Some(C, B) <=> made /\ c \in B
  <2>1. C = IF made THEN <<c>> ELSE <<>>
    BY <1>8, <1>12
  <2>. QED
    BY <2>1, Optional
<1>15. P \in Seq(Events) /\ \A B : Some(P, B) <=> p \in B
  <2>1. P = <<p>>
    BY <1>9
  <2>. QED
    BY <2>1, Single
<1>16. E \in Seq(Events) /\ \A B : Some(E, B) <=> (made /\ c \in B) \/ p \in B \/ (said /\ f \in B)
  <2>1. InThree(E, C, P, F)
    BY <1>13, <1>14, <1>15, ThreeJoined
  <2>. QED
    BY <1>13, <1>14, <1>15, <2>1 DEF InThree
<1>17. /\ p \notin Takes /\ p \notin Focuses /\ p \notin Mistaken(w)
       /\ c \notin Takes /\ c \notin Focuses /\ c \notin Mistaken(w)
  BY <1>8, <1>10, OtherKind
<1>18. Arranged(d, w, E)
  <2>1. \A r \in Addresses : w.owner[r] = d.owner[r] \/ Some(E, Unans)
    <3>1. made => c \in Unans
      BY <1>8, Kind
    <3>. QED
      BY <1>4, <1>12, <1>16, <3>1
  <2>2. \A r \in Addresses : ~Some(E, Going(r))
    BY <1>7, <1>8, <1>10, <1>16, Kind
  <2>3. ~Some(E, Stale(w)) /\ ~Some(E, Crossings) /\ ~Some(E, Strange(w))
    BY <1>7, <1>8, <1>10, <1>16, Kind
  <2>. QED
    BY <1>3, <2>1, <2>2, <2>3 DEF Arranged
<1>19. ~Some(E, Numberings) /\ ~Some(E, Actives)
  BY <1>7, <1>8, <1>10, <1>16, Kind
<1>20. Peopled(d, w, E)
  <2>1. Some(E, About(x))
    BY <1>10, <1>16, Kind
  <2>2. ASSUME NEW y \in Windows PROVE ~Some(E, Wrong(y, w))
    <3>1. p \notin Wrong(y, w)
      BY <1>4, <1>10 DEF Wrong, About
    <3>2. f \notin Wrong(y, w) /\ c \notin Wrong(y, w)
      BY <1>7, <1>8, Kind
    <3>. QED
      BY <1>16, <3>1, <3>2
  <2>. QED
    <3>1. \A y \in Windows : w.on[y] = d.on[y] \/ Some(E, About(y))
      BY <1>4, <2>1
    <3>2. \A i \in DOMAIN E : E[i] \in Numberings => i = 1
      BY <1>19 DEF Some
    <3>. QED
      BY <1>19, <2>2, <3>1, <3>2 DEF Peopled
<1>21. Attended(d, w, E)
  <2>1. ~Some(E, Mistaken(w))
    BY <1>7, <1>16, <1>17
  <2>2. ~Some(E, Focuses) => w.win = d.win /\ (w.win # None => w.on[w.win] = d.on[w.win])
    <3>1. ~Some(E, Focuses) => ~said
      BY <1>7, <1>16, Kind
    <3>. QED
      BY <1>3, <1>4, <1>11, <3>1
  <2>3. Some(E, Takes) => Seated(w)
    <3>1. Some(E, Takes) => said /\ win # None
      BY <1>7, <1>16, <1>17
    <3>. QED
      BY <1>3, <1>4, <1>11, <3>1 DEF Seated
  <2>. QED
    <3>1. w.focus = d.focus /\ w.shown[w.focus] = d.shown[w.focus]
      BY <1>3
    <3>. QED
      BY <1>16, <1>19, <2>1, <2>2, <2>3, <3>1, Unordered
<1>. QED
  BY <1>6, <1>16, <1>18, <1>20, <1>21 DEF Announced

(* A window that takes the focus announces itself.                         *)
LEMMA PickWindowAnnounced ==
  ASSUME NEW d, DesktopOK(d), NEW x \in Windows, d.on[x] = d.shown[d.focus],
         NEW w, w = [d EXCEPT !.win = x], NEW E, E = <<Focus(TRUE)>>
  PROVE  Ground(w) /\ Announced(d, w, E)
<1>1. d \in DesktopsThere /\ Ground(d)
  BY DEF DesktopOK, Ground
<1>2. /\ w \in DesktopsThere
      /\ w.ports = d.ports /\ w.monitors = d.monitors /\ w.focus = d.focus /\ w.shown = d.shown /\ w.win = x
      /\ w.on = d.on /\ w.owner = d.owner
  BY <1>1 DEF DesktopsThere
<1>3. x # None
  BY ChannelsAssumption
<1>4. d.shown[d.focus] # None
  BY <1>1 DEF Ground, DesktopsThere
<1>5. Ground(w)
  BY <1>1, <1>2, <1>4 DEF Ground
<1>6. PICK f \in Events : f = Focus(TRUE) /\ f.says = "activewindow" /\ f \notin Mistaken(w)
  BY <1>2, <1>3, FocusKind
<1>7. E \in Seq(Events) /\ \A B : Some(E, B) <=> f \in B
  <2>1. E = <<f>>
    BY <1>6
  <2>. QED
    BY <2>1, Single
<1>8. /\ ~Some(E, Numberings) /\ ~Some(E, Actives) /\ ~Some(E, Crossings) /\ ~Some(E, Stale(w))
      /\ ~Some(E, Strange(w)) /\ Some(E, Focuses)
      /\ \A x_1 : ~Some(E, About(x_1)) /\ ~Some(E, Wrong(x_1, w))
      /\ \A r : ~Some(E, Going(r))
  BY <1>6, <1>7, Kind
<1>9. Arranged(d, w, E)
  BY <1>2, <1>8 DEF Arranged
<1>10. Peopled(d, w, E)
  BY <1>2, <1>8 DEF Peopled, Some
<1>11. Attended(d, w, E)
  <2>1. ~Some(E, Mistaken(w))
    BY <1>6, <1>7
  <2>2. Seated(w)
    BY <1>2, <1>3 DEF Seated
  <2>3. w.focus = d.focus /\ w.shown[w.focus] = d.shown[w.focus]
    BY <1>2
  <2>. QED
    BY <1>7, <1>8, <2>1, <2>2, <2>3, Unordered
<1>. QED
  BY <1>5, <1>7, <1>8, <1>9, <1>10, <1>11 DEF Announced

(* A window that closes announces itself.                                  *)
LEMMA KillWindowAnnounced ==
  ASSUME NEW d, DesktopOK(d), NEW x \in Windows,
         NEW win \in (Windows \cup {None}) \ {x},
         win # None /\ win # d.win => d.on[win] = d.shown[d.focus],
         NEW w, w = [d EXCEPT !.on[x] = None, !.win = win],
         NEW P, P = <<[says |-> "closewindow", window |-> x]>>,
         NEW F, F = IF win # d.win THEN <<Focus(win # None)>> ELSE <<>>,
         NEW E, E = P \o F
  PROVE  Ground(w) /\ Announced(d, w, E)
<1>1. d \in DesktopsThere /\ Ground(d)
  BY DEF DesktopOK, Ground
<1>2. d.shown[d.focus] # None
  BY <1>1 DEF Ground, DesktopsThere
<1>3. /\ w \in DesktopsThere
      /\ w.ports = d.ports /\ w.monitors = d.monitors /\ w.focus = d.focus /\ w.shown = d.shown /\ w.win = win
      /\ w.on = [d.on EXCEPT ![x] = None]
      /\ w.owner = d.owner
  BY <1>1 DEF DesktopsThere
<1>4. \A y \in Windows : w.on[y] = IF y = x THEN None ELSE d.on[y]
  BY <1>1, <1>3 DEF DesktopsThere
<1>5. Ground(w)
  <2>1. \A y \in Windows : w.on[y] # None => w.owner[w.on[y]] # None
    BY <1>1, <1>3, <1>4 DEF Ground
  <2>2. w.win # None => w.on[w.win] # None
    BY <1>1, <1>2, <1>3, <1>4 DEF Ground
  <2>. QED
    BY <1>1, <1>3, <2>1, <2>2 DEF Ground
<1>7. PICK f \in Events : f = Focus(win # None) /\ f.says = "activewindow" /\ (f \in Takes <=> win # None)
                          /\ f \notin Mistaken(w)
  BY <1>3, FocusKind
<1>8. PICK p \in Events : p = [says |-> "closewindow", window |-> x]
  BY DEF Events
<1>9. p.says = "closewindow" /\ p.window = x
  BY <1>8
<1>10. PICK said \in BOOLEAN : said <=> win # d.win
  OBVIOUS
<1>11. F \in Seq(Events) /\ \A B : Some(F, B) <=> said /\ f \in B
  <2>1. F = IF said THEN <<f>> ELSE <<>>
    BY <1>7, <1>10
  <2>. QED
    BY <2>1, Optional
<1>12. P \in Seq(Events) /\ \A B : Some(P, B) <=> p \in B
  <2>1. P = <<p>>
    BY <1>8
  <2>. QED
    BY <2>1, Single
<1>13. E \in Seq(Events) /\ \A B : Some(E, B) <=> p \in B \/ (said /\ f \in B)
  <2>1. InTwo(E, P, F)
    BY <1>11, <1>12, TwoJoined
  <2>. QED
    BY <1>11, <1>12, <2>1 DEF InTwo
<1>14. p \notin Takes /\ p \notin Focuses /\ p \notin Mistaken(w)
  BY <1>9, OtherKind
<1>15. /\ ~Some(E, Numberings) /\ ~Some(E, Actives) /\ ~Some(E, Crossings) /\ ~Some(E, Stale(w))
       /\ ~Some(E, Strange(w)) /\ \A r : ~Some(E, Going(r))
  BY <1>7, <1>9, <1>13, Kind
<1>16. Arranged(d, w, E)
  BY <1>3, <1>15 DEF Arranged
<1>17. Peopled(d, w, E)
  <2>1. Some(E, About(x))
    BY <1>9, <1>13, Kind
  <2>2. ASSUME NEW y \in Windows PROVE ~Some(E, Wrong(y, w))
    <3>1. p \notin Wrong(y, w)
      BY <1>4, <1>9 DEF Wrong, About
    <3>2. f \notin Wrong(y, w)
      BY <1>7, Kind
    <3>. QED
      BY <1>13, <3>1, <3>2
  <2>3. \A y \in Windows : w.on[y] = d.on[y] \/ Some(E, About(y))
    BY <1>4, <2>1
  <2>4. \A i \in DOMAIN E : E[i] \in Numberings => i = 1
    BY <1>15 DEF Some
  <2>. QED
    BY <1>15, <2>2, <2>3, <2>4 DEF Peopled
<1>18. Attended(d, w, E)
  <2>1. ~Some(E, Mistaken(w))
    BY <1>7, <1>13, <1>14
  <2>2. ~Some(E, Focuses) => w.win = d.win /\ (w.win # None => w.on[w.win] = d.on[w.win])
    <3>1. ~Some(E, Focuses) => ~said
      BY <1>7, <1>13, Kind
    <3>. QED
      BY <1>3, <1>4, <1>10, <3>1
  <2>3. Some(E, Takes) => Seated(w)
    <3>1. Some(E, Takes) => said /\ win # None
      BY <1>7, <1>13, <1>14
    <3>. QED
      BY <1>3, <1>4, <1>10, <3>1 DEF Seated
  <2>4. w.focus = d.focus /\ w.shown[w.focus] = d.shown[w.focus]
    BY <1>3
  <2>. QED
    BY <1>13, <1>15, <2>1, <2>2, <2>3, <2>4, Unordered
<1>. QED
  BY <1>5, <1>13, <1>16, <1>17, <1>18 DEF Announced

(* A change of outputs and workspaces that leaves the windows alone.       *)
LEMMA Unfocused ==
  ASSUME NEW d, NEW w, NEW E \in Seq(Events), ~Lone(d), w.win = d.win, w.on = d.on,
         ~Some(E, Focuses), ~Some(E, Actives), ~Some(E, Numberings), \A x : ~Some(E, About(x))
  PROVE  Attended(d, w, E) /\ Peopled(d, w, E)
<1>1. ~Some(E, Mistaken(w)) /\ ~Some(E, Takes) /\ \A x : ~Some(E, Wrong(x, w))
  BY KindSets DEF Some
<1>2. Attended(d, w, E)
  BY <1>1, Unordered
<1>3. \A i \in DOMAIN E : E[i] \in Numberings => i = 1
  BY DEF Some
<1>. QED
  BY <1>1, <1>2, <1>3 DEF Peopled

(* A workspace handed to another monitor announces itself.                 *)
LEMMA HandWorkspaceAnnounced ==
  ASSUME NEW d, DesktopOK(d), NEW s \in Addresses, d.owner[s] # None,
         NEW from, from = d.owner[s], NEW o \in d.monitors \ {from},
         NEW follows \in BOOLEAN, follows <=> from = d.focus /\ d.shown[from] = s,
         NEW next \in Addresses, next # s, d.owner[next] = from,
         NEW w, w = [d EXCEPT !.owner[s] = o,
                              !.shown = [d.shown EXCEPT ![from] = next, ![o] = IF follows THEN s ELSE @],
                              !.focus = IF follows THEN o ELSE @],
         NEW P, P = <<[says |-> "moveworkspace", workspace |-> s, monitor |-> o]>>,
         NEW F, F = IF follows THEN <<Monitor(o, s)>> ELSE <<>>,
         NEW E, E = P \o F
  PROVE  Ground(w) /\ Announced(d, w, E)
<1>1. d \in DesktopsThere /\ Ground(d)
  BY DEF DesktopOK, Ground
<1>2. from \in d.monitors /\ from \in Outputs /\ o \in Outputs /\ o # from
  BY <1>1 DEF Ground, DesktopsThere
<1>3. PICK shown : shown = [d.shown EXCEPT ![from] = next, ![o] = IF follows THEN s ELSE @]
  OBVIOUS
<1>4. /\ shown \in [Outputs -> Addresses \cup {None}]
      /\ \A r \in Outputs : shown[r] = IF r = from THEN next ELSE IF r = o /\ follows THEN s ELSE d.shown[r]
  BY <1>1, <1>2, <1>3 DEF DesktopsThere
<1>5. PICK foc \in d.monitors : foc = IF follows THEN o ELSE d.focus
  BY <1>1 DEF Ground
<1>6. /\ w \in DesktopsThere
      /\ w.ports = d.ports /\ w.monitors = d.monitors /\ w.shown = shown /\ w.win = d.win /\ w.on = d.on
      /\ w.focus = (IF follows THEN o ELSE d.focus)
      /\ w.owner = [d.owner EXCEPT ![s] = o]
  <2>1. PICK own : own = [d.owner EXCEPT ![s] = o]
    OBVIOUS
  <2>2. own \in [Addresses -> Outputs \cup {None}]
    BY <1>1, <1>2, <2>1 DEF DesktopsThere
  <2>3. w = [d EXCEPT !.owner = own, !.shown = shown, !.focus = foc]
    BY <1>1, <1>3, <1>5, <2>1 DEF DesktopsThere
  <2>4. /\ w.ports = d.ports /\ w.monitors = d.monitors /\ w.shown = shown /\ w.win = d.win /\ w.on = d.on
        /\ w.focus = foc /\ w.owner = own
    BY <1>1, <2>3 DEF DesktopsThere
  <2>5. foc \in Outputs
    BY <1>1, <1>5 DEF DesktopsThere
  <2>6. w \in DesktopsThere
    BY <1>1, <1>4, <2>2, <2>3, <2>5 DEF DesktopsThere
  <2>. QED
    BY <1>5, <2>1, <2>4, <2>6
<1>7. \A r \in Addresses : w.owner[r] = IF r = s THEN o ELSE d.owner[r]
  BY <1>1, <1>2, <1>6 DEF DesktopsThere
<1>8. None \notin Addresses /\ None \notin Outputs
  BY HyprAssumption, ChannelsAssumption
<1>9. Ground(w)
  <2>1. ASSUME NEW r \in w.monitors PROVE r \in Outputs /\ w.shown[r] \in Addresses /\ w.owner[w.shown[r]] = r
    <3>1. r \in Outputs /\ r \in d.monitors /\ d.shown[r] \in Addresses /\ d.owner[d.shown[r]] = r
      BY <1>1, <1>6, <2>1 DEF Ground, DesktopsThere
    <3>2. CASE r = from
      BY <1>4, <1>6, <1>7, <3>1, <3>2
    <3>3. CASE r = o /\ follows
      BY <1>2, <1>4, <1>6, <1>7, <3>1, <3>3
    <3>4. CASE r # from /\ ~(r = o /\ follows)
      <4>1. w.shown[r] = d.shown[r] /\ d.shown[r] # s
        BY <1>4, <1>6, <3>1, <3>4
      <4>. QED
        BY <1>7, <3>1, <4>1
    <3>. QED
      BY <3>2, <3>3, <3>4
  <2>2. \A r \in Outputs : w.shown[r] # None <=> r \in w.monitors
    BY <1>1, <1>2, <1>4, <1>6, <1>8, <2>1 DEF Ground
  <2>3. \A r \in Addresses : w.owner[r] \in w.monitors \cup {None}
    BY <1>1, <1>6, <1>7 DEF Ground
  <2>4. \A y \in Windows : w.on[y] # None => w.owner[w.on[y]] # None
    <3>1. SUFFICES ASSUME NEW y \in Windows, d.on[y] # None PROVE w.owner[d.on[y]] # None
      BY <1>6
    <3>2. d.on[y] \in Addresses /\ d.owner[d.on[y]] # None
      BY <1>1, <3>1 DEF Ground, DesktopsThere
    <3>. QED
      BY <1>2, <1>7, <1>8, <3>2
  <2>. QED
    BY <1>1, <1>6, <2>1, <2>2, <2>3, <2>4 DEF Ground
<1>10. PICK p \in Events : p = [says |-> "moveworkspace", workspace |-> s, monitor |-> o]
                           /\ p.says = "moveworkspace"
  BY <1>2 DEF Events
<1>11. PICK m \in Events : m = Monitor(o, s) /\ m.says = "focusedmon"
  BY <1>2, EventKinds
<1>12. F \in Seq(Events) /\ \A B : Some(F, B) <=> follows /\ m \in B
  <2>1. F = IF follows THEN <<m>> ELSE <<>>
    BY <1>11
  <2>. QED
    BY <2>1, Optional
<1>13. P \in Seq(Events) /\ \A B : Some(P, B) <=> p \in B
  <2>1. P = <<p>>
    BY <1>10
  <2>. QED
    BY <2>1, Single
<1>14. E \in Seq(Events) /\ \A B : Some(E, B) <=> p \in B \/ (follows /\ m \in B)
  <2>1. InTwo(E, P, F)
    BY <1>12, <1>13, TwoJoined
  <2>. QED
    BY <1>12, <1>13, <2>1 DEF InTwo
<1>15. ~Lone(d)
  BY <1>1, <1>2, LoneOne
<1>16. /\ ~Some(E, Numberings) /\ ~Some(E, Actives) /\ ~Some(E, Stale(w)) /\ ~Some(E, Focuses)
       /\ \A r : ~Some(E, Going(r)) /\ \A x : ~Some(E, About(x))
       /\ Some(E, Unans) /\ (follows => Some(E, Crossings))
  BY <1>10, <1>11, <1>14, Kind
<1>17. ~Some(E, Strange(w))
  <2>1. p \notin Strange(w)
    BY <1>10, Kind
  <2>2. follows => m \notin Strange(w)
    BY <1>2, <1>4, <1>6, <1>11 DEF Strange
  <2>. QED
    BY <1>14, <2>1, <2>2
<1>18. Arranged(d, w, E)
  BY <1>6, <1>15, <1>16, <1>17 DEF Arranged
<1>19. Attended(d, w, E) /\ Peopled(d, w, E)
  BY <1>6, <1>14, <1>15, <1>16, Unfocused
<1>. QED
  BY <1>9, <1>14, <1>18, <1>19 DEF Announced

(* Renumber: what it makes of the desktop.                                 *)
Renumbering(d, w, s, t) ==
  /\ w \in DesktopsThere
  /\ w.ports = d.ports /\ w.monitors = d.monitors /\ w.focus = d.focus /\ w.win = d.win
  /\ \A r \in Addresses : w.owner[r] = IF r = s THEN None ELSE IF r = t THEN d.owner[s] ELSE d.owner[r]
  /\ \A o \in Outputs : w.shown[o] = IF d.shown[o] = s THEN t ELSE d.shown[o]
  /\ \A x \in Windows : w.on[x] = IF d.on[x] = s THEN t ELSE d.on[x]

(* The desktop with a number exchanged for another, field by field.        *)
LEMMA RenumberingIs ==
  ASSUME NEW d, d \in DesktopsThere, NEW s \in Addresses, NEW t \in Addresses,
         NEW w, w = [d EXCEPT !.owner = [d.owner EXCEPT ![t] = d.owner[s], ![s] = None],
                              !.shown = [o \in Outputs |-> IF d.shown[o] = s THEN t ELSE d.shown[o]],
                              !.on = [x \in Windows |-> IF d.on[x] = s THEN t ELSE d.on[x]]]
  PROVE  Renumbering(d, w, s, t)
<1>3. PICK own : own = [d.owner EXCEPT ![t] = d.owner[s], ![s] = None]
  OBVIOUS
<1>4. PICK shown : shown = [o \in Outputs |-> IF d.shown[o] = s THEN t ELSE d.shown[o]]
  OBVIOUS
<1>5. PICK on : on = [x \in Windows |-> IF d.on[x] = s THEN t ELSE d.on[x]]
  OBVIOUS
<1>6. /\ own \in [Addresses -> Outputs \cup {None}]
      /\ \A r \in Addresses : own[r] = IF r = s THEN None ELSE IF r = t THEN d.owner[s] ELSE d.owner[r]
  BY <1>3 DEF DesktopsThere
<1>7. shown \in [Outputs -> Addresses \cup {None}] /\ on \in [Windows -> Addresses \cup {None}]
  BY <1>4, <1>5 DEF DesktopsThere
<1>8. w = [d EXCEPT !.owner = own, !.shown = shown, !.on = on]
  BY <1>3, <1>4, <1>5
<1>9. /\ w \in DesktopsThere
      /\ w.ports = d.ports /\ w.monitors = d.monitors /\ w.focus = d.focus /\ w.win = d.win
      /\ w.shown = shown /\ w.on = on /\ w.owner = own
  BY <1>6, <1>7, <1>8 DEF DesktopsThere
<1>10. /\ \A o \in Outputs : w.shown[o] = IF d.shown[o] = s THEN t ELSE d.shown[o]
       /\ \A x \in Windows : w.on[x] = IF d.on[x] = s THEN t ELSE d.on[x]
  BY <1>4, <1>5, <1>9
<1>. QED
  BY <1>6, <1>9, <1>10 DEF Renumbering

(* It is a desktop still.                                                  *)
LEMMA RenumberingGround ==
  ASSUME NEW d, Ground(d), NEW s \in Addresses, NEW t \in Addresses,
         d.owner[s] # None, d.owner[t] = None, NEW w, Renumbering(d, w, s, t)
  PROVE  Ground(w)
<1>. USE DEF Renumbering
<1>1. d \in DesktopsThere
  BY DEF Ground
<1>2. None \notin Addresses /\ None \notin Outputs /\ s # t
  BY HyprAssumption, ChannelsAssumption
<1>3. \A o \in Outputs : w.shown[o] # None <=> o \in w.monitors
  BY <1>1, <1>2 DEF Ground
<1>4. ASSUME NEW o \in w.monitors PROVE w.owner[w.shown[o]] = o
  <2>1. o \in Outputs /\ o \in d.monitors /\ d.shown[o] \in Addresses /\ d.owner[d.shown[o]] = o
    BY <1>1 DEF Ground, DesktopsThere
  <2>2. CASE d.shown[o] = s
    BY <1>2, <2>1, <2>2
  <2>3. CASE d.shown[o] # s
    <3>1. w.shown[o] = d.shown[o] /\ d.shown[o] # t
      BY <1>2, <2>1, <2>3
    <3>. QED
      BY <2>1, <2>3, <3>1
  <2>. QED
    BY <2>2, <2>3
<1>5. \A r \in Addresses : w.owner[r] \in w.monitors \cup {None}
  BY <1>1 DEF Ground
<1>6. ASSUME NEW y \in Windows, w.on[y] # None PROVE w.owner[w.on[y]] # None
  <2>1. CASE d.on[y] = s
    BY <1>2, <2>1
  <2>2. CASE d.on[y] # s
    <3>1. w.on[y] = d.on[y] /\ d.on[y] \in Addresses /\ d.owner[d.on[y]] # None
      BY <1>1, <1>6, <2>2 DEF Ground, DesktopsThere
    <3>. QED
      BY <2>2, <3>1
  <2>. QED
    BY <2>1, <2>2
<1>7. w.win # None => w.on[w.win] # None
  BY <1>1, <1>2 DEF Ground, DesktopsThere
<1>. QED
  BY <1>1, <1>3, <1>4, <1>5, <1>6, <1>7 DEF Ground

(* Renumber: what it makes of the desktop and says.                        *)
Renumbers(d, w, E, s, t) ==
  /\ w = [d EXCEPT !.owner = [d.owner EXCEPT ![t] = d.owner[s], ![s] = None],
                   !.shown = [o \in Outputs |-> IF d.shown[o] = s THEN t ELSE d.shown[o]],
                   !.on = [x \in Windows |-> IF d.on[x] = s THEN t ELSE d.on[x]]]
  /\ E = <<[says |-> "changeworkspaceid", from |-> s, to |-> t]>>

(* A workspace that takes another number announces itself.                 *)
LEMMA RenumberAnnounced ==
  ASSUME NEW d, DesktopOK(d), NEW s \in Addresses, NEW t \in Addresses,
         d.owner[s] # None, d.owner[t] = None, NEW w, NEW E, Renumbers(d, w, E, s, t)
  PROVE  Ground(w) /\ Announced(d, w, E)
<1>1. d \in DesktopsThere /\ Ground(d)
  BY DEF DesktopOK, Ground
<1>2. Renumbering(d, w, s, t)
  BY <1>1, RenumberingIs DEF Renumbers
<1>3. Ground(w)
  BY <1>1, <1>2, RenumberingGround
<1>13. PICK n \in Events : n = [says |-> "changeworkspaceid", from |-> s, to |-> t]
  BY DEF Events
<1>14. n.says = "changeworkspaceid" /\ n.from = s /\ n.to = t
  BY <1>13
<1>15. E \in Seq(Events) /\ \A B : Some(E, B) <=> n \in B
  <2>1. E = <<n>>
    BY <1>13 DEF Renumbers
  <2>. QED
    BY <2>1, Single
<1>16. DOMAIN E = {1} /\ E[1] = n
  BY <1>13, ShortSeqs DEF Renumbers
<1>17. /\ Some(E, Numberings) /\ Some(E, Unans) /\ ~Some(E, Actives) /\ ~Some(E, Crossings) /\ ~Some(E, Stale(w))
       /\ ~Some(E, Strange(w)) /\ \A r : ~Some(E, Going(r))
       /\ \A x : ~Some(E, Wrong(x, w))
       /\ n \in Numberings
  BY <1>14, <1>15, Kind
<1>18. Arranged(d, w, E)
  BY <1>2, <1>17 DEF Arranged, Renumbering
<1>19. Peopled(d, w, E)
  <2>1. \A x \in Windows : w.on[x] = IF d.on[x] = E[1].from THEN E[1].to ELSE d.on[x]
    BY <1>2, <1>14, <1>16 DEF Renumbering
  <2>2. 1 \in DOMAIN E /\ E[1] \in Numberings /\ \A i \in DOMAIN E : E[i] \in Numberings => i = 1
    BY <1>16, <1>17
  <2>. QED
    BY <1>17, <2>1, <2>2 DEF Peopled
<1>. QED
  BY <1>3, <1>15, <1>17, <1>18, <1>19 DEF Announced

(* A monitor that is plugged in announces itself.                          *)
LEMMA AttachAnnounced ==
  ASSUME NEW d, DesktopOK(d), NEW o \in d.ports \ d.monitors, NEW s \in Addresses, d.owner[s] = None,
         NEW w, w = [d EXCEPT !.monitors = @ \cup {o}, !.owner[s] = o, !.shown[o] = s],
         NEW E, E = <<Of("createworkspace", s), [says |-> "monitoradded", monitor |-> o]>>
  PROVE  Ground(w) /\ Announced(d, w, E)
<1>1. d \in DesktopsThere /\ Ground(d)
  BY DEF DesktopOK, Ground
<1>2. o \in Outputs /\ None \notin Addresses /\ None \notin Outputs
  BY <1>1, HyprAssumption, ChannelsAssumption DEF DesktopsThere
<1>3. PICK own : own = [d.owner EXCEPT ![s] = o]
  OBVIOUS
<1>4. PICK shown : shown = [d.shown EXCEPT ![o] = s]
  OBVIOUS
<1>5. PICK mons : mons = d.monitors \cup {o}
  OBVIOUS
<1>6. /\ own \in [Addresses -> Outputs \cup {None}]
      /\ \A r \in Addresses : own[r] = IF r = s THEN o ELSE d.owner[r]
  BY <1>1, <1>2, <1>3 DEF DesktopsThere
<1>7. /\ shown \in [Outputs -> Addresses \cup {None}] /\ mons \in SUBSET Outputs
      /\ \A r \in Outputs : shown[r] = IF r = o THEN s ELSE d.shown[r]
  BY <1>1, <1>2, <1>4, <1>5 DEF DesktopsThere
<1>8. w = [d EXCEPT !.monitors = mons, !.owner = own, !.shown = shown]
  BY <1>1, <1>3, <1>4, <1>5 DEF DesktopsThere
<1>9. /\ w \in DesktopsThere
      /\ w.ports = d.ports /\ w.monitors = mons /\ w.focus = d.focus /\ w.win = d.win
      /\ w.shown = shown /\ w.on = d.on /\ w.owner = own
  BY <1>1, <1>6, <1>7, <1>8 DEF DesktopsThere
<1>10. Ground(w)
  <2>1. \A r \in Outputs : w.shown[r] # None <=> r \in w.monitors
    BY <1>1, <1>2, <1>5, <1>7, <1>9 DEF Ground
  <2>2. ASSUME NEW r \in w.monitors PROVE w.owner[w.shown[r]] = r
    <3>1. r \in Outputs
      BY <1>7, <1>9, <2>2
    <3>2. CASE r = o
      BY <1>6, <1>7, <1>9, <3>1, <3>2
    <3>3. CASE r # o
      <4>1. r \in d.monitors /\ d.shown[r] \in Addresses /\ d.owner[d.shown[r]] = r /\ w.shown[r] = d.shown[r]
        BY <1>1, <1>5, <1>7, <1>9, <2>2, <3>1, <3>3 DEF Ground, DesktopsThere
      <4>. QED
        BY <1>2, <1>6, <1>9, <3>1, <4>1
    <3>. QED
      BY <3>2, <3>3
  <2>3. \A r \in Addresses : w.owner[r] \in w.monitors \cup {None}
    BY <1>1, <1>5, <1>6, <1>9 DEF Ground
  <2>4. ASSUME NEW y \in Windows, w.on[y] # None PROVE w.owner[w.on[y]] # None
    <3>1. w.on[y] = d.on[y] /\ d.on[y] \in Addresses /\ d.owner[d.on[y]] # None
      BY <1>1, <1>9, <2>4 DEF Ground, DesktopsThere
    <3>. QED
      BY <1>2, <1>6, <1>9, <3>1
  <2>5. w.win # None => w.on[w.win] # None
    BY <1>1, <1>9 DEF Ground
  <2>6. w.monitors \subseteq w.ports /\ w.focus \in w.monitors
    BY <1>1, <1>5, <1>9 DEF Ground
  <2>. QED
    BY <1>9, <2>1, <2>2, <2>3, <2>4, <2>5, <2>6 DEF Ground
<1>11. PICK c \in Events : c = Of("createworkspace", s) /\ c.says = "createworkspace"
  BY EventKinds
<1>12. PICK a \in Events : a = [says |-> "monitoradded", monitor |-> o] /\ a.says = "monitoradded"
  BY <1>2 DEF Events
<1>13. E \in Seq(Events) /\ \A B : Some(E, B) <=> c \in B \/ a \in B
  <2>1. PICK q : q = <<c>>
    OBVIOUS
  <2>2. PICK r : r = <<a>>
    OBVIOUS
  <2>3. q \in Seq(Events) /\ \A B : Some(q, B) <=> c \in B
    BY <2>1, Single
  <2>4. r \in Seq(Events) /\ \A B : Some(r, B) <=> a \in B
    BY <2>2, Single
  <2>5. E = <<c, a>>
    BY <1>11, <1>12
  <2>6. <<c, a>> = <<c>> \o <<a>>
    OBVIOUS
  <2>7. E = q \o r
    BY <2>1, <2>2, <2>5, <2>6
  <2>8. InTwo(E, q, r)
    BY <2>3, <2>4, <2>7, TwoJoined
  <2>. QED
    BY <2>3, <2>4, <2>8 DEF InTwo
<1>14. ~Lone(d)
  <2>1. d.focus \in d.monitors /\ d.focus \in d.ports /\ d.focus # o
    BY <1>1 DEF Ground
  <2>. QED
    BY <1>1, <2>1, LoneOne
<1>15. /\ ~Some(E, Numberings) /\ ~Some(E, Actives) /\ ~Some(E, Stale(w)) /\ ~Some(E, Focuses)
       /\ ~Some(E, Crossings) /\ ~Some(E, Strange(w))
       /\ \A r : ~Some(E, Going(r)) /\ \A x : ~Some(E, About(x))
       /\ Some(E, Unans)
  BY <1>11, <1>12, <1>13, Kind
<1>16. Arranged(d, w, E)
  BY <1>9, <1>15 DEF Arranged
<1>17. Attended(d, w, E) /\ Peopled(d, w, E)
  BY <1>9, <1>13, <1>14, <1>15, Unfocused
<1>. QED
  BY <1>10, <1>13, <1>16, <1>17 DEF Announced

(* Detach: what it makes of the desktop and says.                          *)
Detaches(d, w, E, o, p) ==
  LET moved == {s \in Addresses : d.owner[s] = o}
  IN /\ w = [d EXCEPT !.monitors = @ \ {o}, !.shown[o] = None,
                      !.owner = [s \in Addresses |-> IF s \in moved THEN p ELSE d.owner[s]],
                      !.focus = IF @ = o THEN p ELSE @]
     /\ E = SetToSeq({[says |-> "moveworkspace", workspace |-> s, monitor |-> p] : s \in moved})
            \o (IF d.focus = o THEN <<Monitor(p, d.shown[p])>> ELSE <<>>)
            \o <<[says |-> "monitorremoved", monitor |-> o]>>

(* A monitor that goes announces itself.                                   *)
LEMMA DetachAnnounced ==
  ASSUME NEW d, DesktopOK(d), NEW o \in d.monitors, NEW p \in d.monitors \ {o},
         NEW w, NEW E, Detaches(d, w, E, o, p)
  PROVE  Ground(w) /\ Announced(d, w, E)
<1>. SUFFICES ASSUME NEW moved, moved = {s \in Addresses : d.owner[s] = o},
         w = [d EXCEPT !.monitors = @ \ {o}, !.shown[o] = None,
                              !.owner = [s \in Addresses |-> IF s \in moved THEN p ELSE d.owner[s]],
                              !.focus = IF @ = o THEN p ELSE @],
         NEW M, M = SetToSeq({[says |-> "moveworkspace", workspace |-> s, monitor |-> p] : s \in moved}),
         NEW F, F = IF d.focus = o THEN <<Monitor(p, d.shown[p])>> ELSE <<>>,
         NEW R, R = <<[says |-> "monitorremoved", monitor |-> o]>>,
         E = M \o F \o R
    PROVE  Ground(w) /\ Announced(d, w, E)
  BY DEF Detaches
<1>1. d \in DesktopsThere /\ Ground(d)
  BY DEF DesktopOK, Ground
<1>2. o \in Outputs /\ p \in Outputs /\ None \notin Addresses /\ None \notin Outputs /\ o # p
  BY <1>1, HyprAssumption, ChannelsAssumption DEF DesktopsThere
<1>3. PICK own : own = [s \in Addresses |-> IF s \in moved THEN p ELSE d.owner[s]]
  OBVIOUS
<1>4. PICK shown : shown = [d.shown EXCEPT ![o] = None]
  OBVIOUS
<1>5. PICK mons : mons = d.monitors \ {o}
  OBVIOUS
<1>6. PICK foc \in d.monitors : foc = (IF d.focus = o THEN p ELSE d.focus) /\ foc # o
  BY <1>1, <1>2 DEF Ground
<1>7. /\ own \in [Addresses -> Outputs \cup {None}]
      /\ \A r \in Addresses : own[r] = IF d.owner[r] = o THEN p ELSE d.owner[r]
  BY <1>1, <1>2, <1>3 DEF DesktopsThere
<1>8. /\ shown \in [Outputs -> Addresses \cup {None}] /\ mons \in SUBSET Outputs
      /\ \A r \in Outputs : shown[r] = IF r = o THEN None ELSE d.shown[r]
  BY <1>1, <1>2, <1>4, <1>5 DEF DesktopsThere
<1>9. w = [d EXCEPT !.monitors = mons, !.owner = own, !.shown = shown, !.focus = foc]
  BY <1>1, <1>3, <1>4, <1>5, <1>6 DEF DesktopsThere
<1>10. /\ w.ports = d.ports /\ w.monitors = mons /\ w.focus = foc /\ w.win = d.win
       /\ w.shown = shown /\ w.on = d.on /\ w.owner = own
  BY <1>1, <1>9 DEF DesktopsThere
<1>11. w \in DesktopsThere
  <2>1. foc \in Outputs
    BY <1>1, <1>6 DEF DesktopsThere
  <2>. QED
    BY <1>1, <1>7, <1>8, <1>9, <2>1 DEF DesktopsThere
<1>12. Ground(w)
  <2>1. \A r \in Outputs : w.shown[r] # None <=> r \in w.monitors
    BY <1>1, <1>2, <1>5, <1>8, <1>10 DEF Ground
  <2>2. ASSUME NEW r \in w.monitors PROVE w.owner[w.shown[r]] = r
    <3>1. r \in d.monitors /\ r # o
      BY <1>5, <1>10, <2>2
    <3>2. r \in Outputs /\ d.shown[r] \in Addresses /\ d.owner[d.shown[r]] = r
      BY <1>1, <3>1 DEF Ground, DesktopsThere
    <3>. QED
      BY <1>7, <1>8, <1>10, <3>1, <3>2
  <2>3. \A r \in Addresses : w.owner[r] \in w.monitors \cup {None}
    BY <1>1, <1>5, <1>7, <1>10 DEF Ground
  <2>4. ASSUME NEW y \in Windows, w.on[y] # None PROVE w.owner[w.on[y]] # None
    <3>1. w.on[y] = d.on[y] /\ d.on[y] \in Addresses /\ d.owner[d.on[y]] # None
      BY <1>1, <1>10, <2>4 DEF Ground, DesktopsThere
    <3>. QED
      BY <1>2, <1>7, <1>10, <3>1
  <2>5. w.win # None => w.on[w.win] # None
    BY <1>1, <1>10 DEF Ground
  <2>6. w.monitors \subseteq w.ports /\ w.focus \in w.monitors
    BY <1>1, <1>5, <1>6, <1>10 DEF Ground
  <2>. QED
    BY <1>11, <2>1, <2>2, <2>3, <2>4, <2>5, <2>6 DEF Ground
<1>13. PICK m \in Events : m = Monitor(p, d.shown[p]) /\ m.says = "focusedmon"
  BY <1>1, <1>2, EventKinds DEF Ground, DesktopsThere
<1>14. PICK a \in Events : a = [says |-> "monitorremoved", monitor |-> o] /\ a.says = "monitorremoved"
  BY <1>2 DEF Events
<1>15. M \in Seq(Events) /\ \A B : Some(M, B) => \E e \in B : e \in Events /\ e.says = "moveworkspace"
  <2>1. PICK T : T = {[says |-> "moveworkspace", workspace |-> s, monitor |-> p] : s \in moved}
    OBVIOUS
  <2>2. \A e \in T : e \in Events /\ e.says = "moveworkspace"
    BY <1>2, <2>1 DEF Events
  <2>3. IsFiniteSet(T)
    <3>1. moved \subseteq Addresses
      OBVIOUS
    <3>2. IsFiniteSet(moved)
      BY <3>1, HyprAssumption, FS_Subset
    <3>3. \A e \in T : \E s \in moved : e = [says |-> "moveworkspace", workspace |-> s, monitor |-> p]
      BY <2>1
    <3>4. [s \in moved |-> [says |-> "moveworkspace", workspace |-> s, monitor |-> p]] \in Surjection(moved, T)
      BY <2>1, <3>3 DEF Surjection
    <3>. QED
      BY <3>2, <3>4, FS_Surjection
  <2>4. M \in Seq(T) /\ \A i \in DOMAIN M : M[i] \in T
    BY <2>1, <2>3, Listed
  <2>5. T \subseteq Events
    BY <2>2
  <2>6. M \in Seq(Events)
    BY <2>4, <2>5
  <2>. QED
    BY <2>2, <2>4, <2>6 DEF Some
<1>16. PICK crosses \in BOOLEAN : crosses <=> d.focus = o
  OBVIOUS
<1>17. F \in Seq(Events) /\ \A B : Some(F, B) <=> crosses /\ m \in B
  <2>1. F = IF crosses THEN <<m>> ELSE <<>>
    BY <1>13, <1>16
  <2>. QED
    BY <2>1, Optional
<1>18. R \in Seq(Events) /\ \A B : Some(R, B) <=> a \in B
  <2>1. R = <<a>>
    BY <1>14
  <2>. QED
    BY <2>1, Single
<1>19. E \in Seq(Events) /\ \A B : Some(E, B) <=> Some(M, B) \/ (crosses /\ m \in B) \/ a \in B
  <2>1. InThree(E, M, F, R)
    BY <1>15, <1>17, <1>18, ThreeJoined
  <2>. QED
    BY <1>17, <1>18, <2>1 DEF InThree
<1>20. ~Lone(d)
  BY <1>1, <1>2, LoneOne
<1>21. \A B : Some(E, B) => m \in B \/ \E e \in B : e \in Events /\ e.says \in {"moveworkspace", "monitorremoved"}
  BY <1>14, <1>15, <1>19, Zenon
<1>22. /\ ~Some(E, Numberings) /\ ~Some(E, Actives) /\ ~Some(E, Stale(w)) /\ ~Some(E, Focuses)
       /\ \A r : ~Some(E, Going(r)) /\ \A x : ~Some(E, About(x))
  <2>1. ASSUME NEW i \in DOMAIN E
        PROVE  E[i] \in Events /\ E[i].says \in {"moveworkspace", "monitorremoved", "focusedmon"}
    <3>1. PICK e : e = E[i]
      OBVIOUS
    <3>2. Some(E, {e})
      BY <3>1 DEF Some
    <3>3. m = e \/ (e \in Events /\ e.says \in {"moveworkspace", "monitorremoved"})
      BY <1>21, <3>2
    <3>. QED
      BY <1>13, <3>1, <3>3, Zenon
  <2>2. ASSUME NEW e \in Events, e.says \in {"moveworkspace", "monitorremoved", "focusedmon"}
        PROVE  /\ e \notin Numberings /\ e \notin Actives /\ e \notin Stale(w) /\ e \notin Focuses
               /\ \A r : e \notin Going(r) /\ \A x : e \notin About(x)
    BY <2>2, Kind
  <2>. QED
    BY <2>1, <2>2, Zenon DEF Some
<1>23. Some(E, Unans) /\ (crosses => Some(E, Crossings))
  BY <1>13, <1>14, <1>19, Kind
<1>24. ~Some(E, Strange(w))
  <2>1. ~Some(M, Strange(w)) /\ a \notin Strange(w)
    <3>1. \A e \in Events : e.says = "moveworkspace" => e \notin Strange(w)
      BY Kind
    <3>. QED
      BY <1>14, <1>15, <3>1, Kind
  <2>2. crosses => m \notin Strange(w)
    <3>1. crosses => w.focus = p /\ w.shown[p] = d.shown[p]
      BY <1>2, <1>6, <1>8, <1>10, <1>16
    <3>. QED
      BY <1>13, <3>1 DEF Strange
  <2>. QED
    BY <1>19, <2>1, <2>2
<1>25. Arranged(d, w, E)
  BY <1>6, <1>10, <1>16, <1>20, <1>22, <1>23, <1>24 DEF Arranged
<1>26. Attended(d, w, E) /\ Peopled(d, w, E)
  BY <1>10, <1>19, <1>20, <1>22, Unfocused
<1>. QED
  BY <1>12, <1>19, <1>25, <1>26 DEF Announced

(* A change of Hyprland, and all that is said of it.                       *)
Says(w, E) == Ground(w) /\ Announced(desktop, w, E) /\ Happens(w, E)

(* The same with what follows of it.                                       *)
SaidSo(F) ==
  /\ Announced(desktop, desktop', F) /\ DesktopOK(desktop')
  /\ queue' = queue \o F
  /\ ~renumbered' => ~renumbered /\ ~Some(F, Numberings)
  /\ ~raced' => ~raced /\ Idle
  /\ turns < MaxTurns /\ turns' = turns + 1
  /\ UNCHANGED session

(* A change that announces itself does so in the queue, aftermath and all. *)
LEMMA HappensSays ==
  ASSUME DesktopOK(desktop), queue \in Seq(Events), NEW w, NEW E, Says(w, E)
  PROVE  \E F : SaidSo(F)
<1>1. PICK e : e = Aftermath(w).desktop
  OBVIOUS
<1>2. PICK r : r = Aftermath(w).events
  OBVIOUS
<1>3. /\ desktop' = e /\ queue' = queue \o E \o r
      /\ turns < MaxTurns /\ turns' = turns + 1 /\ UNCHANGED session
      /\ renumbered' = (renumbered \/ \E i \in DOMAIN E : E[i].says = "changeworkspaceid")
      /\ raced' = (raced \/ ~Idle)
  BY <1>1, <1>2 DEF Happens, Says
<1>4. PICK F : F = E \o r
  OBVIOUS
<1>5. DesktopOK(e) /\ Announced(desktop, e, F)
  BY <1>1, <1>2, <1>4, SettledAnnounced DEF Says
<1>6. Settles(w, e, r)
  BY <1>1, <1>2, AftermathIs DEF Says
<1>7. E \in Seq(Events) /\ r \in Seq(Events) /\ ~Some(r, Numberings)
  BY <1>6, RestIs DEF Says, Announced
<1>8. Some(F, Numberings) <=> Some(E, Numberings)
  BY <1>4, <1>7, SomeJoined
<1>9. Some(E, Numberings) => \E i \in DOMAIN E : E[i].says = "changeworkspaceid"
  BY DEF Some, Numberings
<1>10. ~renumbered' => ~renumbered /\ ~Some(F, Numberings)
  BY <1>3, <1>8, <1>9, Zenon
<1>11. ~raced' => ~raced /\ Idle
  BY <1>3, Zenon
<1>12. queue' = queue \o F
  <2>1. (queue \o E) \o r = queue \o (E \o r)
    BY <1>7, ConcatAssociative
  <2>. QED
    BY <1>3, <1>4, <2>1
<1>. QED
  BY <1>3, <1>5, <1>10, <1>11, <1>12 DEF SaidSo

(* FocusMonitor is such a change.                                          *)
LEMMA FocusMonitorSays ==
  ASSUME DesktopOK(desktop), NEW o \in Outputs, FocusMonitor(o)
  PROVE  \E w, E : Says(w, E)
<1>1. o \in desktop.monitors \ {desktop.focus}
  BY DEF FocusMonitor
<1>2. PICK win \in (IF On(desktop, desktop.shown[o]) = {} THEN {desktop.win, None}
                    ELSE On(desktop, desktop.shown[o])) :
        Happens([desktop EXCEPT !.focus = o, !.win = win],
            IF win = desktop.win THEN <<Monitor(o, desktop.shown[o])>>
            ELSE IF win = None THEN <<Focus(FALSE)>> \o <<Monitor(o, desktop.shown[o])>>
            ELSE Append(<<Monitor(o, desktop.shown[o])>>, Focus(TRUE)))
  BY DEF FocusMonitor
<1>3. desktop.win \in Windows \cup {None}
  BY DEF DesktopOK, Ground, DesktopsThere
<1>4. win \in Windows \cup {None} /\ (win = desktop.win \/ win = None \/ desktop.on[win] = desktop.shown[o])
  BY <1>3 DEF On
<1>5. PICK w : w = [desktop EXCEPT !.focus = o, !.win = win]
  OBVIOUS
<1>6. PICK E : E = (IF win = desktop.win THEN <<Monitor(o, desktop.shown[o])>>
                    ELSE IF win = None THEN <<Focus(FALSE)>> \o <<Monitor(o, desktop.shown[o])>>
                    ELSE Append(<<Monitor(o, desktop.shown[o])>>, Focus(TRUE)))
  OBVIOUS
<1>7. Happens(w, E)
  BY <1>2, <1>5, <1>6
<1>8. Ground(w) /\ Announced(desktop, w, E)
  BY <1>1, <1>4, <1>5, <1>6, FocusMonitorAnnounced
<1>. QED
  BY <1>7, <1>8 DEF Says

(* Switch is such a change.                                                *)
LEMMA SwitchSays ==
  ASSUME DesktopOK(desktop), NEW s \in Addresses, Switch(s)
  PROVE  \E w, E : Says(w, E)
<1>1. desktop.shown[desktop.focus] # s /\ desktop.owner[s] \in {desktop.focus, None}
  BY DEF Switch
<1>2. PICK win \in (IF On(desktop, s) = {} THEN {None} ELSE On(desktop, s)) :
        Happens([desktop EXCEPT !.shown[desktop.focus] = s, !.owner[s] = desktop.focus, !.win = win],
                (IF win = None /\ desktop.win = None THEN <<>> ELSE <<Focus(win # None)>>)
                \o (IF ~Exists(desktop, s) THEN <<Of("createworkspace", s)>> ELSE <<>>)
                \o <<Of("workspace", s)>>)
  BY DEF Switch
<1>3. win \in Windows \cup {None} /\ (win # None => desktop.on[win] = s)
  BY DEF On
<1>4. PICK w : w = [desktop EXCEPT !.shown[desktop.focus] = s, !.owner[s] = desktop.focus, !.win = win]
  OBVIOUS
<1>5. PICK E : E = (IF win = None /\ desktop.win = None THEN <<>> ELSE <<Focus(win # None)>>)
                    \o (IF ~Exists(desktop, s) THEN <<Of("createworkspace", s)>> ELSE <<>>)
                    \o <<Of("workspace", s)>>
  OBVIOUS
<1>6. Happens(w, E)
  BY <1>2, <1>4, <1>5
<1>7. Switches(desktop, w, E, s, win)
  BY <1>1, <1>3, <1>4, <1>5 DEF Switches
<1>8. Ground(w) /\ Announced(desktop, w, E)
  BY <1>7, SwitchAnnounced
<1>. QED
  BY <1>6, <1>8 DEF Says

(* PickWindow is such a change.                                            *)
LEMMA PickWindowSays ==
  ASSUME DesktopOK(desktop), NEW x \in Windows, PickWindow(x)
  PROVE  \E w, E : Says(w, E)
<1>1. PICK w : w = [desktop EXCEPT !.win = x]
  OBVIOUS
<1>2. PICK E : E = <<Focus(TRUE)>>
  OBVIOUS
<1>3. Happens(w, E) /\ desktop.on[x] = desktop.shown[desktop.focus]
  BY <1>1, <1>2 DEF PickWindow
<1>4. Ground(w) /\ Announced(desktop, w, E)
  BY <1>1, <1>2, <1>3, PickWindowAnnounced
<1>. QED
  BY <1>3, <1>4 DEF Says

(* The window that has the focus next is another, on what the focused      *)
(* monitor shows.                                                          *)
LEMMA Succeeds ==
  ASSUME DesktopOK(desktop), NEW x \in Windows, NEW win \in Successors(x)
  PROVE  /\ win \in (Windows \cup {None}) \ {x}
         /\ win # None /\ win # desktop.win => desktop.on[win] = desktop.shown[desktop.focus]
<1>1. desktop.win \in Windows \cup {None}
  BY DEF DesktopOK, Ground, DesktopsThere
<1>2. x # None
  BY ChannelsAssumption
<1>. QED
  BY <1>1, <1>2 DEF Successors, On

(* KillWindow is such a change.                                            *)
LEMMA KillWindowSays ==
  ASSUME DesktopOK(desktop), NEW x \in Windows, KillWindow(x)
  PROVE  \E w, E : Says(w, E)
<1>1. PICK win \in Successors(x) :
        Happens([desktop EXCEPT !.on[x] = None, !.win = win],
                <<[says |-> "closewindow", window |-> x]>> \o Refocused(win))
  BY DEF KillWindow
<1>2. PICK w : w = [desktop EXCEPT !.on[x] = None, !.win = win]
  OBVIOUS
<1>3. PICK P : P = <<[says |-> "closewindow", window |-> x]>>
  OBVIOUS
<1>4. PICK F : F = IF win # desktop.win THEN <<Focus(win # None)>> ELSE <<>>
  OBVIOUS
<1>5. PICK E : E = P \o F
  OBVIOUS
<1>6. Refocused(win) = F
  BY <1>4 DEF Refocused
<1>7. Happens(w, E)
  BY <1>1, <1>2, <1>3, <1>5, <1>6
<1>8. /\ win \in (Windows \cup {None}) \ {x}
      /\ win # None /\ win # desktop.win => desktop.on[win] = desktop.shown[desktop.focus]
  BY Succeeds
<1>9. Ground(w) /\ Announced(desktop, w, E)
  BY <1>2, <1>3, <1>4, <1>5, <1>8, KillWindowAnnounced
<1>. QED
  BY <1>7, <1>9 DEF Says

(* PutWindow is such a change.                                             *)
LEMMA PutWindowSays ==
  ASSUME DesktopOK(desktop), NEW x \in Windows, NEW s \in Addresses, PutWindow(x, s)
  PROVE  \E w, E : Says(w, E)
<1>1. desktop.on[x] # s
  BY DEF PutWindow
<1>2. PICK o \in (IF Exists(desktop, s) THEN {desktop.owner[s]} ELSE desktop.monitors),
           win \in (IF s = desktop.shown[desktop.focus] THEN {x} ELSE Successors(x)) :
        Happens([desktop EXCEPT !.on[x] = s, !.owner[s] = o, !.win = win],
                  (IF Exists(desktop, s) THEN <<>> ELSE <<Of("createworkspace", s)>>)
                  \o <<[says |-> IF desktop.on[x] = None THEN "openwindow" ELSE "movewindow",
                        window |-> x, workspace |-> s]>>
                  \o (IF win = x THEN <<Focus(TRUE)>> ELSE Refocused(win)))
  BY DEF PutWindow
<1>3. o \in desktop.monitors /\ (desktop.owner[s] # None => o = desktop.owner[s])
  BY DEF Exists, DesktopOK, Ground
<1>4. PICK says \in {"openwindow", "movewindow"} :
        says = IF desktop.on[x] = None THEN "openwindow" ELSE "movewindow"
  OBVIOUS
<1>5. PICK w : w = [desktop EXCEPT !.on[x] = s, !.owner[s] = o, !.win = win]
  OBVIOUS
<1>6. PICK E : E = (IF desktop.owner[s] # None THEN <<>> ELSE <<Of("createworkspace", s)>>)
                    \o <<[says |-> says, window |-> x, workspace |-> s]>>
                    \o (IF win = x \/ win # desktop.win THEN <<Focus(win # None)>> ELSE <<>>)
  OBVIOUS
<1>10. x # None
  BY ChannelsAssumption
<1>11. (IF win = x THEN <<Focus(TRUE)>> ELSE Refocused(win))
        = (IF win = x \/ win # desktop.win THEN <<Focus(win # None)>> ELSE <<>>)
  <2>1. CASE win = x
    <3>1. (win # None) = TRUE
      BY <1>10, <2>1
    <3>. QED
      BY <2>1, <3>1
  <2>2. CASE win # x
    BY <2>2 DEF Refocused
  <2>. QED
    BY <2>1, <2>2
<1>12. (IF Exists(desktop, s) THEN <<>> ELSE <<Of("createworkspace", s)>>)
       = (IF desktop.owner[s] # None THEN <<>> ELSE <<Of("createworkspace", s)>>)
  BY DEF Exists
<1>13. Happens(w, E)
  BY <1>2, <1>4, <1>5, <1>6, <1>11, <1>12
<1>14. /\ win \in Windows \cup {None}
       /\ win = x => s = desktop.shown[desktop.focus]
       /\ win # x /\ win # None /\ win # desktop.win => desktop.on[win] = desktop.shown[desktop.focus]
  <2>1. CASE s = desktop.shown[desktop.focus]
    BY <2>1
  <2>2. CASE s # desktop.shown[desktop.focus]
    <3>1. win \in Successors(x)
      BY <2>2
    <3>. QED
      BY <3>1, Succeeds
  <2>. QED
    BY <2>1, <2>2
<1>15. Ground(w) /\ Announced(desktop, w, E)
  <2>1. Puts(desktop, w, E, x, s, o, win)
    BY <1>1, <1>3, <1>4, <1>5, <1>6, <1>14 DEF Puts
  <2>. QED
    BY <2>1, PutWindowAnnounced
<1>. QED
  BY <1>13, <1>15 DEF Says

(* HandWorkspace is such a change.                                         *)
LEMMA HandWorkspaceSays ==
  ASSUME DesktopOK(desktop), NEW s \in Addresses, NEW o \in Outputs, HandWorkspace(s, o)
  PROVE  \E w, E : Says(w, E)
<1>1. PICK from : from = desktop.owner[s]
  OBVIOUS
<1>2. PICK follows \in BOOLEAN : follows <=> from = desktop.focus /\ desktop.shown[from] = s
  OBVIOUS
<1>3. desktop.owner[s] # None /\ o \in desktop.monitors \ {from}
  BY <1>1 DEF HandWorkspace, Exists
<1>4. PICK next \in (IF desktop.shown[from] = s
                     THEN {r \in Addresses \ {s} : desktop.owner[r] = from}
                     ELSE {desktop.shown[from]}) :
          Happens([desktop EXCEPT !.owner[s] = o,
                                !.shown = [desktop.shown EXCEPT ![from] = next,
                                                    ![o] = IF follows THEN s ELSE @],
                                !.focus = IF follows THEN o ELSE @],
                  <<[says |-> "moveworkspace", workspace |-> s, monitor |-> o]>>
                  \o (IF follows THEN <<Monitor(o, s)>> ELSE <<>>))
  BY <1>1, <1>2 DEF HandWorkspace
<1>5. next \in Addresses /\ next # s /\ desktop.owner[next] = from
  <2>1. from \in desktop.monitors /\ from \in Outputs
    BY <1>1, <1>3 DEF DesktopOK, Ground, DesktopsThere
  <2>2. desktop.shown[from] \in Addresses /\ desktop.owner[desktop.shown[from]] = from
    BY <2>1 DEF DesktopOK, Ground, DesktopsThere
  <2>. QED
    BY <2>2
<1>6. PICK w : w = [desktop EXCEPT !.owner[s] = o,
                              !.shown = [desktop.shown EXCEPT ![from] = next, ![o] = IF follows THEN s ELSE @],
                              !.focus = IF follows THEN o ELSE @]
  OBVIOUS
<1>7. PICK P : P = <<[says |-> "moveworkspace", workspace |-> s, monitor |-> o]>>
  OBVIOUS
<1>8. PICK F : F = IF follows THEN <<Monitor(o, s)>> ELSE <<>>
  OBVIOUS
<1>9. PICK E : E = P \o F
  OBVIOUS
<1>10. Happens(w, E)
  BY <1>4, <1>6, <1>7, <1>8, <1>9
<1>11. Ground(w) /\ Announced(desktop, w, E)
  BY <1>1, <1>2, <1>3, <1>5, <1>6, <1>7, <1>8, <1>9, HandWorkspaceAnnounced
<1>. QED
  BY <1>10, <1>11 DEF Says

(* Renumber is such a change.                                              *)
LEMMA RenumberSays ==
  ASSUME DesktopOK(desktop), NEW s \in Addresses, NEW t \in Addresses, Renumber(s, t)
  PROVE  \E w, E : Says(w, E)
<1>1. PICK w : w = [desktop EXCEPT
       !.owner = [desktop.owner EXCEPT ![t] = desktop.owner[s], ![s] = None],
       !.shown = [o \in Outputs |-> IF desktop.shown[o] = s THEN t ELSE desktop.shown[o]],
       !.on = [x \in Windows |-> IF desktop.on[x] = s THEN t ELSE desktop.on[x]]]
  OBVIOUS
<1>2. PICK E : E = <<[says |-> "changeworkspaceid", from |-> s, to |-> t]>>
  OBVIOUS
<1>3. Happens(w, E) /\ desktop.owner[s] # None /\ desktop.owner[t] = None
  BY <1>1, <1>2 DEF Renumber, Exists
<1>4. Ground(w) /\ Announced(desktop, w, E)
  <2>1. Renumbers(desktop, w, E, s, t)
    BY <1>1, <1>2 DEF Renumbers
  <2>. QED
    BY <1>3, <2>1, RenumberAnnounced
<1>. QED
  BY <1>3, <1>4 DEF Says

(* Attach is such a change.                                                *)
LEMMA AttachSays ==
  ASSUME DesktopOK(desktop), NEW s \in Addresses, NEW o \in Outputs, Attach(o, s)
  PROVE  \E w, E : Says(w, E)
<1>1. PICK w : w = [desktop EXCEPT !.monitors = @ \cup {o}, !.owner[s] = o, !.shown[o] = s]
  OBVIOUS
<1>2. PICK E : E = <<Of("createworkspace", s), [says |-> "monitoradded", monitor |-> o]>>
  OBVIOUS
<1>3. Happens(w, E) /\ o \in desktop.ports \ desktop.monitors /\ desktop.owner[s] = None
  BY <1>1, <1>2 DEF Attach, Exists
<1>4. Ground(w) /\ Announced(desktop, w, E)
  BY <1>1, <1>2, <1>3, AttachAnnounced
<1>. QED
  BY <1>3, <1>4 DEF Says

(* Detach is such a change.                                                *)
LEMMA DetachSays ==
  ASSUME DesktopOK(desktop), NEW o \in Outputs, NEW p \in Outputs, Detach(o, p)
  PROVE  \E w, E : Says(w, E)
<1>1. \E w, E : Happens(w, E) /\ Detaches(desktop, w, E, o, p)
  BY DEF Detach, Detaches
<1>2. PICK w, E : Happens(w, E) /\ Detaches(desktop, w, E, o, p)
  BY <1>1
<1>3. o \in desktop.monitors /\ p \in desktop.monitors \ {o}
  BY DEF Detach
<1>4. Ground(w) /\ Announced(desktop, w, E)
  BY <1>2, <1>3, DetachAnnounced
<1>. QED
  BY <1>2, <1>4 DEF Says

(* Whatever happens to the desktop is announced in the queue.              *)
LEMMA ChangeSays ==
  ASSUME DesktopOK(desktop), queue \in Seq(Events), HyprChanges
  PROVE  \E F : SaidSo(F)
<1>1. \E w, E : Says(w, E)
  <2>1. CASE \E o \in Outputs : FocusMonitor(o)
    BY <2>1, FocusMonitorSays
  <2>2. CASE \E s \in Addresses : Switch(s)
    BY <2>2, SwitchSays
  <2>3. CASE \E x \in Windows : PickWindow(x) \/ KillWindow(x)
    BY <2>3, PickWindowSays, KillWindowSays
  <2>4. CASE \E x \in Windows, s \in Addresses : PutWindow(x, s)
    BY <2>4, PutWindowSays
  <2>5. CASE \E s \in Addresses, o \in Outputs : HandWorkspace(s, o) \/ Attach(o, s)
    BY <2>5, HandWorkspaceSays, AttachSays
  <2>6. CASE \E s, t \in Addresses : Renumber(s, t)
    BY <2>6, RenumberSays
  <2>7. CASE \E o, p \in Outputs : Detach(o, p)
    BY <2>7, DetachSays
  <2>. QED
    BY <2>1, <2>2, <2>3, <2>4, <2>5, <2>6, <2>7 DEF HyprChanges
<1>. QED
  BY <1>1, HappensSays

(* What a tracker and the answers it waits for are made of.                *)
ViewsThere ==
  [shows : [Outputs -> Addresses \cup {Unset, Absent}], owner : [Addresses -> Outputs \cup {None, Absent}],
   focused : Outputs \cup {None}, focused_workspace : Addresses \cup {None},
   windows : [Windows -> Addresses \cup {None}]]

AnswersThere ==
  [of : {"seed", "resync", "nothing"}, shown : [Outputs -> Addresses \cup {None}],
   focus : Outputs \cup {None}, owner : [Addresses -> Outputs \cup {None}], active : Addresses \cup {None}]

(* What a view has right.                                                  *)
ShowsSo(V, d, o) == V.shows[o] = IF d.shown[o] = None THEN Absent ELSE d.shown[o]
OwnerSo(V, d, s) == V.owner[s] = IF d.owner[s] = None THEN Absent ELSE d.owner[s]

(* A view that has everything right.                                       *)
Truly(V, d) ==
  /\ \A o \in Outputs : ShowsSo(V, d, o)
  /\ \A s \in Addresses : OwnerSo(V, d, s)
  /\ V.focused = d.focus

(* Of the outputs and their workspaces, and of what of it is still to be   *)
(* read.                                                                   *)
Topology(q, V, d) ==
  /\ \A s \in Addresses : d.owner[s] # None => Led(q, Going(s), Unans)
  /\ Led(q, Stale(d), Unans \cup Actives)
  /\ \A s \in Addresses : d.owner[s] # d.focus => Led(q, Coming(s), Unans \cup Going(s))
  /\ ~Some(q, Strange(d))
  /\ Lone(d) => ~Some(q, Crossings)
  /\ \A o \in Outputs : ShowsSo(V, d, o) \/ Some(q, Unans) \/ (o = d.focus /\ Some(q, Actives))
  /\ \A s \in Addresses : OwnerSo(V, d, s) \/ Some(q, Unans) \/ (d.owner[s] = None /\ Some(q, Going(s)))
  /\ V.focused = d.focus \/ Some(q, Unans) \/ (Some(q, Crossings) /\ ~Some(q, Actives))

(* Where W puts the windows, and what of it is still to be read.           *)
WindowsKnown(q, W, d) ==
  /\ \A x \in Windows : Led(q, Wrong(x, d), About(x))
  /\ \A x \in Windows : d.on[x] # None => Led(q, Going(d.on[x]), About(x))
  /\ \A x \in Windows : W[x] = d.on[x] \/ Some(q, About(x))
  /\ \A i \in DOMAIN q : q[i] \in Numberings => i = 1

(* The focused monitor is right, and what it shows is or will be read.     *)
Near(q, V, d) ==
  V.focused = d.focus /\ (V.shows[d.focus] = d.shown[d.focus] \/ Some(q, Actives))

(* The workspace F of the focus, and what of it is still to be read: the   *)
(* last focus read is the true one, and is read where the view tells what  *)
(* it means.                                                               *)
FocusKnown(q, quiet, V, F, d) ==
  /\ ~Some(q, Numberings)
  /\ Led(q, Mistaken(d), Focuses)
  /\ Led(q, Stale(d), Actives)
  /\ Led(q, Takes, Focuses) \/ Seated(d)
  /\ Near(q, V, d) \/ Heralded(q)
  /\ Lone(d) => Near(q, V, d)
  /\ Some(q, Actives) /\ d.win # None => Seated(d) /\ V.focused = d.focus
  /\ d.win # None => Switched(q, quiet)
  /\ \/ Some(q, Focuses)
     \/ d.win = None /\ F = None
     \/ d.win # None /\ F = d.on[d.win]
     \/ d.win # None /\ F = V.shows[d.focus] /\ V.focused = d.focus /\ Some(q, Actives)

(* What a view is to become where the desktop it is asked of changes.      *)
Overtaken(V, d, W, e) ==
  /\ \A o \in Outputs : W.shows[o] = V.shows[o] \/ (ShowsSo(V, d, o) /\ ShowsSo(W, e, o))
  /\ \A s \in Addresses : W.owner[s] = V.owner[s] \/ OwnerSo(W, e, s)
  /\ W.focused = V.focused \/ (V.focused = d.focus /\ W.focused = e.focus)

(* Nothing is in the empty queue.                                          *)
LEMMA LedEmpty ==
  ASSUME NEW A, NEW B, NEW q, q = <<>>
  PROVE  Led(q, A, B) /\ ~Some(q, A)
  BY ShortSeqs DEF Led, Some

(* With one output the focus is on what it shows.                          *)
LEMMA LoneSeated ==
  ASSUME NEW e, DesktopOK(e), Lone(e)
  PROVE  /\ e.win # None => Seated(e)
         /\ e.shown[e.focus] # None /\ e.shown[e.focus] \in Addresses /\ e.focus \in Outputs
<1>1. e.ports = {e.focus} /\ e.monitors = {e.focus}
  BY LoneOne DEF DesktopOK
<1>2. e.shown[e.focus] # None /\ e.shown[e.focus] \in Addresses /\ e.focus \in Outputs
  BY DEF DesktopOK, Ground, DesktopsThere
<1>. QED
  BY <1>1, <1>2 DEF DesktopOK, Seated

(* A change keeps what is known of outputs and workspaces: it happens with *)
(* nothing unread, or there is one output.                                 *)
LEMMA TopologySaid ==
  ASSUME NEW q \in Seq(Events), NEW V, NEW d, Ground(d), NEW W, NEW e, Ground(e), NEW E,
         Topology(q, V, d), E \in Seq(Events), Arranged(d, e, E), Overtaken(V, d, W, e), q = <<>> \/ Lone(d)
  PROVE  Topology(q \o E, W, e)
<1>0. /\ \A B : Some(q \o E, B) <=> Some(q, B) \/ Some(E, B)
      /\ \A A, B : (Led(q, A, B) \/ Some(E, B)) /\ Led(E, A, B) => Led(q \o E, A, B)
  BY SomeJoined, LedJoined
<1>1. \A A, B : q = <<>> => Led(q, A, B) /\ ~Some(q, A)
  BY LedEmpty
<1>2. \A A, B : ~Some(E, A) => Led(E, A, B)
  BY LedNone
<1>3. Lone(e) <=> Lone(d)
  BY DEF Arranged, Lone
<1>4. Lone(d) => e.focus = d.focus
  BY DEF Arranged
<1>5. e.shown[e.focus] \in Addresses /\ e.owner[e.shown[e.focus]] = e.focus /\ e.focus \in Outputs
      /\ None \notin Outputs
  BY ChannelsAssumption DEF Ground, DesktopsThere
<1>6. \A s \in Addresses : e.owner[s] # None => Led(q \o E, Going(s), Unans)
  <2>1. SUFFICES ASSUME NEW s \in Addresses, e.owner[s] # None PROVE Led(q \o E, Going(s), Unans)
    OBVIOUS
  <2>2. ~Some(E, Going(s))
    BY <2>1 DEF Arranged
  <2>3. d.owner[s] # None => Led(q, Going(s), Unans)
    BY DEF Topology
  <2>4. d.owner[s] = None => Some(E, Unans)
    BY <2>1, <2>2 DEF Arranged
  <2>. QED
    BY <1>0, <1>2, <2>2, <2>3, <2>4
<1>7. Led(q \o E, Stale(e), Unans \cup Actives)
  <2>1. ~Some(E, Stale(e))
    BY DEF Arranged
  <2>2. Led(q, Stale(e), Unans \cup Actives) \/ Some(E, Unans \cup Actives)
    <3>1. CASE q = <<>>
      BY <1>1, <3>1
    <3>2. CASE Lone(d)
      <4>1. CASE e.shown[e.focus] = d.shown[d.focus]
        <5>1. Stale(e) = Stale(d)
          BY <4>1 DEF Stale
        <5>. QED
          BY <5>1 DEF Topology
      <4>2. CASE e.shown[e.focus] # d.shown[d.focus]
        <5>1. Some(E, Unans) \/ Some(E, Actives)
          BY <1>4, <1>5, <3>2, <4>2 DEF Arranged
        <5>. QED
          BY <5>1 DEF Some
      <4>. QED
        BY <4>1, <4>2
    <3>. QED
      BY <3>1, <3>2
  <2>. QED
    BY <1>0, <1>2, <2>1, <2>2
<1>8. \A s \in Addresses : e.owner[s] # e.focus => Led(q \o E, Coming(s), Unans \cup Going(s))
  <2>1. SUFFICES ASSUME NEW s \in Addresses, e.owner[s] # e.focus
                 PROVE  Led(q \o E, Coming(s), Unans \cup Going(s))
    OBVIOUS
  <2>2. ~Some(E, Coming(s))
    <3>1. Of("workspace", s) \in Stale(e)
      BY <1>5, <2>1, EventKinds DEF Stale, Actives
    <3>. QED
      BY <3>1 DEF Arranged, Some, Coming
  <2>3. Led(q, Coming(s), Unans \cup Going(s)) \/ Some(E, Unans \cup Going(s))
    <3>1. CASE q = <<>>
      BY <1>1, <3>1
    <3>2. CASE Lone(d)
      <4>1. CASE d.owner[s] # d.focus
        BY <4>1 DEF Topology
      <4>2. CASE d.owner[s] = d.focus
        <5>1. Some(E, Unans) \/ Some(E, Going(s))
          BY <1>4, <2>1, <3>2, <4>2 DEF Arranged
        <5>. QED
          BY <5>1 DEF Some
      <4>. QED
        BY <4>1, <4>2
    <3>. QED
      BY <3>1, <3>2
  <2>. QED
    BY <1>0, <1>2, <2>2, <2>3
<1>9. Lone(d) => ~Some(q, Crossings) /\ ~Some(E, Crossings)
  BY DEF Topology, Arranged
<1>10. ~Some(q \o E, Strange(e))
  <2>1. ~Some(q, Strange(e))
    BY <1>1, <1>9, KindSets DEF Some
  <2>. QED
    BY <1>0, <2>1 DEF Arranged
<1>11. Lone(e) => ~Some(q \o E, Crossings)
  BY <1>0, <1>3, <1>9
<1>12. \A o \in Outputs : ShowsSo(W, e, o) \/ Some(q \o E, Unans) \/ (o = e.focus /\ Some(q \o E, Actives))
  <2>1. SUFFICES ASSUME NEW o \in Outputs, ~ShowsSo(W, e, o), ~Some(q, Unans), ~Some(E, Unans)
                 PROVE  o = e.focus /\ (Some(q, Actives) \/ Some(E, Actives))
    BY <1>0
  <2>2. W.shows[o] = V.shows[o]
    BY <2>1 DEF Overtaken
  <2>3. CASE ShowsSo(V, d, o)
    <3>1. e.shown[o] # d.shown[o]
      BY <2>1, <2>2, <2>3 DEF ShowsSo
    <3>. QED
      BY <2>1, <3>1 DEF Arranged
  <2>4. CASE o = d.focus /\ Some(q, Actives)
    BY <1>1, <1>4, <2>4
  <2>. QED
    BY <2>1, <2>3, <2>4 DEF Topology
<1>13. \A s \in Addresses : OwnerSo(W, e, s) \/ Some(q \o E, Unans) \/ (e.owner[s] = None /\ Some(q \o E, Going(s)))
  <2>1. SUFFICES ASSUME NEW s \in Addresses, ~OwnerSo(W, e, s), ~Some(q, Unans), ~Some(E, Unans)
                 PROVE  e.owner[s] = None /\ (Some(q, Going(s)) \/ Some(E, Going(s)))
    BY <1>0
  <2>2. W.owner[s] = V.owner[s]
    BY <2>1 DEF Overtaken
  <2>3. CASE OwnerSo(V, d, s)
    <3>1. e.owner[s] # d.owner[s]
      BY <2>1, <2>2, <2>3 DEF OwnerSo
    <3>. QED
      BY <2>1, <3>1 DEF Arranged
  <2>4. CASE d.owner[s] = None /\ Some(q, Going(s))
    BY <2>1, <2>4 DEF Arranged
  <2>. QED
    BY <2>1, <2>3, <2>4 DEF Topology
<1>14. W.focused = e.focus \/ Some(q \o E, Unans) \/ (Some(q \o E, Crossings) /\ ~Some(q \o E, Actives))
  <2>1. SUFFICES ASSUME W.focused # e.focus, ~Some(q, Unans), ~Some(E, Unans)
                 PROVE  Some(E, Crossings) /\ ~Some(E, Actives) /\ ~Some(q, Actives)
    BY <1>0
  <2>2. W.focused = V.focused
    BY <2>1 DEF Overtaken
  <2>3. CASE V.focused = d.focus
    <3>1. e.focus # d.focus
      BY <2>1, <2>2, <2>3
    <3>2. Some(E, Crossings) /\ ~Some(E, Actives)
      BY <3>1 DEF Arranged
    <3>. QED
      BY <1>1, <1>9, <3>2
  <2>4. CASE Some(q, Crossings)
    BY <1>1, <1>9, <2>4
  <2>. QED
    BY <2>1, <2>3, <2>4 DEF Topology
<1>. QED
  BY <1>6, <1>7, <1>8, <1>10, <1>11, <1>12, <1>13, <1>14 DEF Topology

(* A change keeps what is known of the windows: it happens with nothing    *)
(* unread, or changes no number.                                           *)
LEMMA WindowsSaid ==
  ASSUME NEW q \in Seq(Events), NEW W, NEW d, Ground(d), NEW w, NEW e, Ground(e), NEW E,
         WindowsKnown(q, W, d), E \in Seq(Events), Arranged(d, e, E), Peopled(d, e, E),
         q = <<>> \/ ~Some(E, Numberings),
         \/ \A x \in Windows : w[x] = e.on[x]
         \/ /\ ~Some(E, Numberings) /\ \A x \in Windows : w[x] = W[x]
         \/ /\ q = <<>> /\ 1 \in DOMAIN E /\ E[1] \in Numberings
            /\ \A x \in Windows : w[x] = IF W[x] = E[1].from THEN E[1].to ELSE W[x]
  PROVE  WindowsKnown(q \o E, w, e)
<1>0. /\ \A B : Some(q \o E, B) <=> Some(q, B) \/ Some(E, B)
      /\ \A A, B : (Led(q, A, B) \/ Some(E, B)) /\ Led(E, A, B) => Led(q \o E, A, B)
  BY SomeJoined, LedJoined
<1>1. \A A, B : q = <<>> => Led(q, A, B) /\ ~Some(q, A)
  BY LedEmpty
<1>2. \A A, B : ~Some(E, A) => Led(E, A, B)
  BY LedNone
<1>3. ~Some(E, Numberings) => \A x \in Windows : e.on[x] = d.on[x] \/ Some(E, About(x))
  BY DEF Peopled, Some
<1>4. \A x \in Windows : q = <<>> \/ Some(E, About(x)) \/ e.on[x] = d.on[x]
  BY <1>3
<1>5. \A x \in Windows : Led(q \o E, Wrong(x, e), About(x))
  <2>1. SUFFICES ASSUME NEW x \in Windows PROVE Led(q \o E, Wrong(x, e), About(x))
    OBVIOUS
  <2>2. ~Some(E, Wrong(x, e))
    BY DEF Peopled
  <2>3. e.on[x] = d.on[x] => Wrong(x, e) = Wrong(x, d)
    BY DEF Wrong
  <2>4. Led(q, Wrong(x, d), About(x))
    BY DEF WindowsKnown
  <2>5. Led(q, Wrong(x, e), About(x)) \/ Some(E, About(x))
    BY <1>1, <1>4, <2>3, <2>4
  <2>. QED
    BY <1>0, <1>2, <2>2, <2>5
<1>6. \A x \in Windows : e.on[x] # None => Led(q \o E, Going(e.on[x]), About(x))
  <2>1. SUFFICES ASSUME NEW x \in Windows, e.on[x] # None PROVE Led(q \o E, Going(e.on[x]), About(x))
    OBVIOUS
  <2>2. e.on[x] \in Addresses /\ e.owner[e.on[x]] # None
    BY <2>1 DEF Ground, DesktopsThere
  <2>3. ~Some(E, Going(e.on[x]))
    BY <2>2 DEF Arranged
  <2>4. e.on[x] = d.on[x] => Led(q, Going(e.on[x]), About(x))
    BY <2>1 DEF WindowsKnown
  <2>5. Led(q, Going(e.on[x]), About(x)) \/ Some(E, About(x))
    BY <1>1, <1>4, <2>4
  <2>. QED
    BY <1>0, <1>2, <2>3, <2>5
<1>7. \A x \in Windows : w[x] = e.on[x] \/ Some(q \o E, About(x))
  <2>1. SUFFICES ASSUME NEW x \in Windows, ~Some(q, About(x)), ~Some(E, About(x)) PROVE w[x] = e.on[x]
    BY <1>0
  <2>2. W[x] = d.on[x]
    BY <2>1 DEF WindowsKnown
  <2>3. CASE ~Some(E, Numberings) /\ w[x] = W[x]
    BY <1>3, <2>1, <2>2, <2>3
  <2>4. CASE /\ 1 \in DOMAIN E /\ E[1] \in Numberings
             /\ w[x] = IF W[x] = E[1].from THEN E[1].to ELSE W[x]
    <3>1. Some(E, Numberings)
      BY <2>4 DEF Some
    <3>2. \A y \in Windows : e.on[y] = IF d.on[y] = E[1].from THEN E[1].to ELSE d.on[y]
      BY <3>1 DEF Peopled
    <3>. QED
      BY <2>2, <2>4, <3>2
  <2>. QED
    BY <2>3, <2>4
<1>8. \A i \in DOMAIN (q \o E) : (q \o E)[i] \in Numberings => i = 1
  <2>1. CASE q = <<>>
    <3>1. q \o E = E
      BY <2>1, ConcatEmptySeq
    <3>. QED
      BY <3>1 DEF Peopled
  <2>2. CASE ~Some(E, Numberings)
    <3>1. SUFFICES ASSUME NEW i \in DOMAIN (q \o E), (q \o E)[i] \in Numberings PROVE i = 1
      OBVIOUS
    <3>2. CASE i \in DOMAIN q
      BY <3>1, <3>2, Joined DEF WindowsKnown
    <3>3. CASE i - Len(q) \in DOMAIN E /\ i > Len(q)
      <4>1. Len(q) + (i - Len(q)) = i
        BY <3>1, Joined
      <4>2. E[i - Len(q)] = (q \o E)[i]
        BY <3>3, <4>1, Joined
      <4>. QED
        BY <2>2, <3>1, <3>3, <4>2 DEF Some
    <3>. QED
      BY <3>1, <3>2, <3>3, Joined
  <2>. QED
    BY <2>1, <2>2
<1>. QED
  BY <1>5, <1>6, <1>7, <1>8 DEF WindowsKnown

(* A change that changes no number keeps what is known of the focus.       *)
LEMMA FocusSaid ==
  ASSUME NEW q \in Seq(Events), NEW quiet, NEW V, NEW F, NEW d, DesktopOK(d),
         NEW W, NEW G, NEW e, DesktopOK(e), NEW E,
         FocusKnown(q, quiet, V, F, d), Topology(q, V, d), Topology(q \o E, W, e),
         E \in Seq(Events), Arranged(d, e, E), Attended(d, e, E), ~Some(E, Numberings),
         Overtaken(V, d, W, e), (q = <<>> /\ W = V) \/ Lone(d),
         \/ G = F
         \/ Lone(d) /\ G = Holding(W, IF e.win = None THEN None ELSE e.on[e.win]),
         W.focused \in Outputs, W.shows[W.focused] \in Addresses
  PROVE  FocusKnown(q \o E, quiet, W, G, e)
<1>0. /\ \A B : Some(q \o E, B) <=> Some(q, B) \/ Some(E, B)
      /\ \A A, B : (Led(q, A, B) \/ Some(E, B)) /\ Led(E, A, B) => Led(q \o E, A, B)
  BY SomeJoined, LedJoined
<1>1. \A A, B : q = <<>> => Led(q, A, B) /\ ~Some(q, A)
  BY LedEmpty
<1>2. \A A, B : ~Some(E, A) => Led(E, A, B)
  BY LedNone
<1>3. Lone(e) <=> Lone(d)
  BY DEF Arranged, Lone
<1>4. Lone(d) => Kept(d, e, E) /\ e.focus = d.focus
  BY DEF Attended, Kept
<1>5. Lone(d) => /\ e.win # None => Seated(e)
                 /\ e.shown[e.focus] # None /\ e.shown[e.focus] \in Addresses /\ e.focus \in Outputs
                 /\ d.win # None => Seated(d)
                 /\ d.shown[d.focus] # None
  BY <1>3, LoneSeated
<1>6. q = <<>> => V.focused = d.focus /\ V.shows[d.focus] = d.shown[d.focus]
  <2>1. d.focus \in Outputs /\ d.shown[d.focus] # None
    BY DEF DesktopOK, Ground, DesktopsThere
  <2>. QED
    BY <1>1, <2>1 DEF Topology, ShowsSo
<1>7. ~Some(q \o E, Numberings)
  BY <1>0 DEF FocusKnown
<1>8. Led(q \o E, Mistaken(e), Focuses)
  <2>1. Led(E, Mistaken(e), Focuses)
    BY DEF Attended
  <2>2. ~Some(E, Focuses) => Mistaken(e) = Mistaken(d)
    BY DEF Attended, Mistaken
  <2>3. Led(q, Mistaken(d), Focuses)
    BY DEF FocusKnown
  <2>4. Led(q, Mistaken(e), Focuses) \/ Some(E, Focuses)
    BY <2>2, <2>3
  <2>. QED
    BY <1>0, <2>1, <2>4
<1>9. Led(q \o E, Stale(e), Actives)
  <2>1. ~Some(E, Stale(e))
    BY DEF Arranged
  <2>2. Led(q, Stale(d), Actives)
    BY DEF FocusKnown
  <2>3. e.shown[e.focus] = d.shown[d.focus] => Stale(e) = Stale(d)
    BY DEF Stale
  <2>4. Lone(d) => e.shown[e.focus] = d.shown[d.focus] \/ Some(E, Actives)
    BY <1>4 DEF Kept
  <2>5. Led(q, Stale(e), Actives) \/ Some(E, Actives)
    BY <1>1, <2>2, <2>3, <2>4
  <2>. QED
    BY <1>0, <1>2, <2>1, <2>5
<1>10. Led(q \o E, Takes, Focuses) \/ Seated(e)
  <2>1. SUFFICES ASSUME ~Seated(e) PROVE Led(q \o E, Takes, Focuses)
    OBVIOUS
  <2>2. Led(E, Takes, Focuses)
    BY <2>1 DEF Attended
  <2>3. ASSUME ~Some(E, Focuses), q # <<>> PROVE Led(q, Takes, Focuses)
    <3>1. Lone(d) /\ e.win = d.win
      BY <2>3 DEF Attended
    <3>2. ~Seated(d)
      BY <1>5, <2>1, <3>1 DEF Seated
    <3>. QED
      BY <3>2 DEF FocusKnown
  <2>4. Led(q, Takes, Focuses) \/ Some(E, Focuses)
    BY <1>1, <2>3
  <2>. QED
    BY <1>0, <2>2, <2>4
<1>11. Lone(e) => Near(q \o E, W, e)
  <2>1. SUFFICES ASSUME Lone(d) PROVE Near(q \o E, W, e)
    BY <1>3
  <2>2. Near(q, V, d) /\ Kept(d, e, E)
    BY <1>4, <2>1 DEF FocusKnown
  <2>3. W.focused = e.focus
    BY <2>2 DEF Near, Kept, Overtaken
  <2>4. W.shows[e.focus] = e.shown[e.focus] \/ Some(q \o E, Actives)
    <3>1. CASE W.shows[e.focus] = V.shows[e.focus]
      BY <1>0, <2>2, <3>1 DEF Near, Kept
    <3>2. CASE ShowsSo(W, e, e.focus)
      BY <1>5, <2>1, <3>2 DEF ShowsSo
    <3>. QED
      BY <1>5, <2>1, <3>1, <3>2 DEF Overtaken
  <2>. QED
    BY <2>3, <2>4 DEF Near
<1>12. Near(q \o E, W, e) \/ Heralded(q \o E)
  <2>1. CASE Lone(d)
    BY <1>3, <1>11, <2>1
  <2>2. CASE q = <<>> /\ W = V
    <3>1. q \o E = E
      BY <2>2, ConcatEmptySeq
    <3>2. CASE Heralded(E)
      BY <3>1, <3>2
    <3>3. CASE Kept(d, e, E)
      BY <1>6, <2>2, <3>1, <3>3 DEF Kept, Near
    <3>. QED
      BY <3>2, <3>3 DEF Attended
  <2>. QED
    BY <2>1, <2>2
<1>13. Some(q \o E, Actives) /\ e.win # None => Seated(e) /\ W.focused = e.focus
  <2>1. SUFFICES ASSUME Some(q \o E, Actives), e.win # None PROVE Seated(e) /\ W.focused = e.focus
    OBVIOUS
  <2>2. CASE Lone(d)
    BY <1>3, <1>5, <1>11, <2>1, <2>2 DEF Near
  <2>3. CASE q = <<>> /\ W = V
    <3>1. Some(E, Actives)
      BY <1>0, <1>1, <2>1, <2>3
    <3>. QED
      BY <1>6, <2>1, <2>3, <3>1 DEF Attended
  <2>. QED
    BY <2>2, <2>3
<1>14. e.win # None => Switched(q \o E, quiet)
  <2>1. SUFFICES ASSUME e.win # None PROVE Switched(q \o E, quiet)
    OBVIOUS
  <2>2. Switched(E, FALSE)
    BY <2>1 DEF Attended
  <2>3. Switched(q, quiet) \/ Some(E, Focuses)
    BY <2>1 DEF Attended, FocusKnown
  <2>. QED
    BY <2>2, <2>3, SwitchedJoined
<1>15. \/ Some(q \o E, Focuses)
       \/ e.win = None /\ G = None
       \/ e.win # None /\ G = e.on[e.win]
       \/ e.win # None /\ G = W.shows[e.focus] /\ W.focused = e.focus /\ Some(q \o E, Actives)
  <2>1. SUFFICES ASSUME ~Some(q, Focuses), ~Some(E, Focuses)
                 PROVE  \/ e.win = None /\ G = None
                        \/ e.win # None /\ G = e.on[e.win]
                        \/ e.win # None /\ G = W.shows[e.focus] /\ W.focused = e.focus /\ Some(q \o E, Actives)
    BY <1>0
  <2>2. e.win = d.win /\ (e.win # None => e.on[e.win] = d.on[d.win])
    BY <2>1 DEF Attended
  <2>3. CASE G = F
    <3>1. CASE (d.win = None /\ F = None) \/ (d.win # None /\ F = d.on[d.win])
      BY <2>2, <2>3, <3>1
    <3>2. CASE d.win # None /\ F = V.shows[d.focus] /\ V.focused = d.focus /\ Some(q, Actives)
      <4>1. Lone(d) /\ e.focus = d.focus /\ e.focus \in Outputs /\ W.focused = e.focus /\ Some(q \o E, Actives)
        BY <1>0, <1>1, <1>3, <1>4, <1>5, <1>11, <3>2 DEF Near
      <4>2. CASE W.shows[e.focus] = V.shows[e.focus]
        BY <2>2, <2>3, <3>2, <4>1, <4>2
      <4>3. CASE ShowsSo(V, d, e.focus)
        <5>1. F = d.shown[d.focus]
          BY <1>5, <3>2, <4>1, <4>3 DEF ShowsSo
        <5>2. d.on[d.win] = d.shown[d.focus]
          BY <1>5, <3>2, <4>1 DEF Seated
        <5>. QED
          BY <2>2, <2>3, <3>2, <5>1, <5>2
      <4>. QED
        BY <4>1, <4>2, <4>3 DEF Overtaken
    <3>. QED
      BY <2>1, <3>1, <3>2 DEF FocusKnown
  <2>4. CASE Lone(d) /\ G = Holding(W, IF e.win = None THEN None ELSE e.on[e.win])
    <3>1. CASE e.win = None
      BY <2>4, <3>1 DEF Holding
    <3>2. CASE e.win # None
      <4>1. e.on[e.win] = e.shown[e.focus] /\ e.on[e.win] # None /\ e.focus \in Outputs
        BY <1>5, <2>4, <3>2 DEF Seated
      <4>2. W.focused = e.focus /\ (W.shows[e.focus] = e.shown[e.focus] \/ Some(q \o E, Actives))
        BY <1>3, <1>11, <2>4 DEF Near
      <4>3. G = IF \E o \in Outputs : W.shows[o] = e.on[e.win] THEN e.on[e.win] ELSE Showing(W)
        BY <2>4, <3>2, <4>1 DEF Holding
      <4>4. Showing(W) = W.shows[e.focus]
        <5>1. W.focused # None /\ W.shows[W.focused] \notin {Unset, Absent}
          BY HyprAssumption, ChannelsAssumption
        <5>. QED
          BY <4>2, <5>1 DEF Showing
      <4>5. CASE \E o \in Outputs : W.shows[o] = e.on[e.win]
        BY <3>2, <4>3, <4>5
      <4>6. CASE ~ \E o \in Outputs : W.shows[o] = e.on[e.win]
        BY <3>2, <4>1, <4>2, <4>3, <4>4, <4>6
      <4>. QED
        BY <4>5, <4>6
    <3>. QED
      BY <3>1, <3>2
  <2>. QED
    BY <2>3, <2>4
<1>. QED
  BY <1>7, <1>8, <1>9, <1>10, <1>11, <1>12, <1>13, <1>14, <1>15 DEF FocusKnown

(* What an event of each kind carries.                                     *)
LEMMA EventFields ==
  ASSUME NEW e \in Events
  PROVE  /\ e.says \in {"createworkspace", "workspace", "destroyworkspace"} => e.workspace \in Addresses
         /\ e.says \in {"focusedmon", "moveworkspace"} => e.monitor \in Outputs /\ e.workspace \in Addresses
         /\ e.says \in {"monitoradded", "monitorremoved"} => e.monitor \in Outputs
         /\ e.says \in {"openwindow", "movewindow"} => e.window \in Windows /\ e.workspace \in Addresses
         /\ e.says = "closewindow" => e.window \in Windows
         /\ e.says = "changeworkspaceid" => e.from \in Addresses /\ e.to \in Addresses
         /\ e.says = "activewindow" => e.focused \in BOOLEAN /\ e = Focus(e.focused)
         /\ e.says = "focusedmon" => e = Monitor(e.monitor, e.workspace)
         /\ e.says = "workspace" => e = Of("workspace", e.workspace)
         /\ e.says = "destroyworkspace" => e = Of("destroyworkspace", e.workspace)
         /\ e.says \in {"createworkspace", "workspace", "destroyworkspace", "focusedmon", "moveworkspace",
                        "monitoradded", "monitorremoved", "openwindow", "movewindow", "closewindow",
                        "changeworkspaceid", "activewindow"}
<1>1. CASE e \in [says : {"createworkspace", "workspace", "destroyworkspace"}, workspace : Addresses]
  BY <1>1 DEF Of
<1>2. CASE e \in [says : {"focusedmon", "moveworkspace"}, monitor : Outputs, workspace : Addresses]
  BY <1>2 DEF Monitor
<1>3. CASE e \in [says : {"monitoradded", "monitorremoved"}, monitor : Outputs]
  BY <1>3
<1>4. CASE e \in [says : {"openwindow", "movewindow"}, window : Windows, workspace : Addresses]
  BY <1>4
<1>5. CASE e \in [says : {"closewindow"}, window : Windows]
  BY <1>5
<1>6. CASE e \in [says : {"changeworkspaceid"}, from : Addresses, to : Addresses]
  BY <1>6
<1>7. CASE e \in [says : {"activewindow"}, focused : BOOLEAN]
  BY <1>7 DEF Focus
<1>. QED
  BY <1>1, <1>2, <1>3, <1>4, <1>5, <1>6, <1>7 DEF Events

(* Each branch of `apply`, by what it leaves of the view.                  *)
HeardCrossing(t, e, V) ==
  /\ V \in ViewsThere
  /\ V.shows = [t.shows EXCEPT ![e.monitor] = e.workspace]
  /\ V.owner = [t.owner EXCEPT ![e.workspace] = IF t.owner[e.workspace] = Absent THEN Absent ELSE e.monitor]
  /\ V.focused = e.monitor /\ V.focused_workspace = t.focused_workspace /\ V.windows = t.windows

(* `FocusedMonitor` is heard so.                                           *)
LEMMA HearCrossing ==
  ASSUME NEW t \in ViewsThere, NEW e \in Events, e.says = "focusedmon", NEW V, V = Hear(t, e)
  PROVE  HeardCrossing(t, e, V)
<1>1. PICK o \in Outputs, s \in Addresses : o = e.monitor /\ s = e.workspace
  BY EventFields
<1>2. V = [Show(t, o, s) EXCEPT !.focused = o]
  BY <1>1 DEF Hear
<1>3. PICK shows : shows = [t.shows EXCEPT ![o] = s]
  OBVIOUS
<1>4. PICK own : own = [t.owner EXCEPT ![s] = IF t.owner[s] = Absent THEN Absent ELSE o]
  OBVIOUS
<1>5. shows \in [Outputs -> Addresses \cup {Unset, Absent}] /\ own \in [Addresses -> Outputs \cup {None, Absent}]
  BY <1>3, <1>4 DEF ViewsThere
<1>6. V = [t EXCEPT !.shows = shows, !.owner = own, !.focused = o]
  BY <1>2, <1>3, <1>4 DEF Show, ViewsThere
<1>7. V.shows = shows /\ V.owner = own /\ V.focused = o /\ V.focused_workspace = t.focused_workspace
      /\ V.windows = t.windows /\ V \in ViewsThere
  BY <1>5, <1>6 DEF ViewsThere
<1>. QED
  BY <1>1, <1>3, <1>4, <1>7 DEF HeardCrossing

HeardActive(t, s, V) ==
  /\ V \in ViewsThere
  /\ V.shows = [t.shows EXCEPT ![t.focused] = s]
  /\ V.owner = [t.owner EXCEPT ![s] = t.focused]
  /\ V.focused = t.focused /\ V.windows = t.windows
  /\ V.focused_workspace = IF t.focused_workspace # None /\ t.focused_workspace = t.shows[t.focused]
                           THEN s ELSE t.focused_workspace

(* `WorkspaceActive` is heard so, once a monitor has the focus.            *)
LEMMA HearActive ==
  ASSUME NEW t \in ViewsThere, t.focused \in Outputs, NEW e \in Events, e.says = "workspace", NEW V, V = Hear(t, e)
  PROVE  HeardActive(t, e.workspace, V)
<1>1. PICK s \in Addresses : s = e.workspace
  BY EventFields
<1>2. PICK o \in Outputs : o = t.focused
  OBVIOUS
<1>3. o # None /\ o # Absent
  BY HyprAssumption, ChannelsAssumption
<1>4. V = Activated(t, s)
  BY <1>1 DEF Hear
<1>5. PICK r : r = Record(t, s)
  OBVIOUS
<1>6. PICK moves \in BOOLEAN : moves <=> t.focused_workspace # None /\ t.focused_workspace = t.shows[o]
  OBVIOUS
<1>7. V = [Show(r, o, s) EXCEPT !.focused_workspace = IF moves THEN s ELSE @]
  BY <1>2, <1>3, <1>4, <1>5, <1>6 DEF Activated
<1>8. PICK first : first = [t.owner EXCEPT ![s] = IF t.owner[s] # Absent THEN t.owner[s] ELSE o]
  OBVIOUS
<1>9. r = [t EXCEPT !.owner = first]
  <2>1. CASE t.owner[s] # Absent
    <3>1. first = t.owner
      BY <1>8, <2>1 DEF ViewsThere
    <3>2. r = t
      BY <1>5, <2>1 DEF Record
    <3>. QED
      BY <3>1, <3>2 DEF ViewsThere
  <2>2. CASE t.owner[s] = Absent
    BY <1>2, <1>5, <1>8, <2>2 DEF Record, ViewsThere
  <2>. QED
    BY <2>1, <2>2
<1>10. PICK shows : shows = [t.shows EXCEPT ![o] = s]
  OBVIOUS
<1>11. PICK own : own = [t.owner EXCEPT ![s] = o]
  OBVIOUS
<1>12. first[s] # Absent /\ first \in [Addresses -> Outputs \cup {None, Absent}]
  BY <1>3, <1>8 DEF ViewsThere
<1>13. [first EXCEPT ![s] = IF first[s] = Absent THEN Absent ELSE o] = own
  <2>1. [first EXCEPT ![s] = o] = own
    BY <1>8, <1>11 DEF ViewsThere
  <2>. QED
    BY <1>12, <2>1
<1>14. Show(r, o, s) = [t EXCEPT !.shows = shows, !.owner = own]
  <2>1. r.shows = t.shows /\ r.owner = first
    BY <1>9 DEF ViewsThere
  <2>2. Show(r, o, s) = [r EXCEPT !.shows = [t.shows EXCEPT ![o] = s],
                                  !.owner = [first EXCEPT ![s] = IF first[s] = Absent THEN Absent ELSE o]]
    BY <1>9, <2>1 DEF Show, ViewsThere
  <2>3. Show(r, o, s) = [r EXCEPT !.shows = shows, !.owner = own]
    BY <1>10, <1>13, <2>2
  <2>. QED
    BY <1>9, <2>3 DEF ViewsThere
<1>15. shows \in [Outputs -> Addresses \cup {Unset, Absent}] /\ own \in [Addresses -> Outputs \cup {None, Absent}]
  BY <1>10, <1>11 DEF ViewsThere
<1>16. PICK fw \in Addresses \cup {None} : fw = IF moves THEN s ELSE t.focused_workspace
  BY DEF ViewsThere
<1>17. V = [t EXCEPT !.shows = shows, !.owner = own, !.focused_workspace = fw]
  BY <1>7, <1>14, <1>16 DEF ViewsThere
<1>18. V.shows = shows /\ V.owner = own /\ V.focused = t.focused /\ V.focused_workspace = fw
      /\ V.windows = t.windows /\ V \in ViewsThere
  BY <1>15, <1>17 DEF ViewsThere
<1>. QED
  BY <1>1, <1>2, <1>6, <1>10, <1>11, <1>16, <1>18 DEF HeardActive

(* The others: the windows are followed or they are not.                   *)
LEMMA FollowIs ==
  ASSUME NEW t \in ViewsThere, NEW on \in [Windows -> Addresses \cup {None}], NEW V, V = Follow(t, on)
  PROVE  /\ V \in ViewsThere
         /\ V.shows = t.shows /\ V.owner = t.owner /\ V.focused = t.focused
         /\ V.focused_workspace = t.focused_workspace
         /\ TracksWindows => V.windows = on
  BY DEF Follow, ViewsThere

HeardFocus(t, e, V) ==
  /\ V \in ViewsThere
  /\ V.shows = t.shows /\ V.owner = t.owner /\ V.focused = t.focused /\ V.windows = t.windows
  /\ V.focused_workspace = IF e.focused THEN Showing(t) ELSE None

(* `ActiveWindow` is heard so.                                             *)
LEMMA HearFocus ==
  ASSUME NEW t \in ViewsThere, NEW e \in Events, e.says = "activewindow", NEW V, V = Hear(t, e)
  PROVE  HeardFocus(t, e, V)
<1>1. V = [t EXCEPT !.focused_workspace = IF e.focused THEN Showing(t) ELSE None]
  BY DEF Hear
<1>2. Showing(t) \in Addresses \cup {None}
  BY DEF Showing, ViewsThere
<1>3. PICK fw \in Addresses \cup {None} : fw = IF e.focused THEN Showing(t) ELSE None
  BY <1>2
<1>4. V = [t EXCEPT !.focused_workspace = fw]
  BY <1>1, <1>3
<1>5. V.shows = t.shows /\ V.owner = t.owner /\ V.focused = t.focused /\ V.windows = t.windows
      /\ V.focused_workspace = fw /\ V \in ViewsThere
  BY <1>4 DEF ViewsThere
<1>. QED
  BY <1>3, <1>5 DEF HeardFocus

HeardWindow(t, e, V) ==
  /\ V \in ViewsThere
  /\ V.shows = t.shows /\ V.owner = t.owner /\ V.focused = t.focused
  /\ V.focused_workspace = t.focused_workspace
  /\ TracksWindows =>
       V.windows = [t.windows EXCEPT ![e.window] = IF e.says = "closewindow" THEN None ELSE e.workspace]

(* A window that opens, moves or closes is heard so.                       *)
LEMMA HearWindow ==
  ASSUME NEW t \in ViewsThere, NEW e \in Events, e.says \in {"openwindow", "movewindow", "closewindow"},
         NEW V, V = Hear(t, e)
  PROVE  HeardWindow(t, e, V)
<1>1. PICK on : on = [t.windows EXCEPT ![e.window] = IF e.says = "closewindow" THEN None ELSE e.workspace]
  OBVIOUS
<1>2. V = Follow(t, on)
  BY <1>1 DEF Hear
<1>3. on \in [Windows -> Addresses \cup {None}]
  BY <1>1, EventFields DEF ViewsThere
<1>. QED
  BY <1>1, <1>2, <1>3, FollowIs DEF HeardWindow

HeardGone(t, s, V) ==
  /\ V \in ViewsThere
  /\ V.shows = t.shows /\ V.focused = t.focused /\ V.focused_workspace = t.focused_workspace
  /\ V.owner = [t.owner EXCEPT ![s] = Absent]
  /\ TracksWindows => V.windows = [x \in Windows |-> IF t.windows[x] = s THEN None ELSE t.windows[x]]

(* `WorkspaceDestroyed` is heard so.                                       *)
LEMMA HearGone ==
  ASSUME NEW t \in ViewsThere, NEW e \in Events, e.says = "destroyworkspace", NEW V, V = Hear(t, e)
  PROVE  HeardGone(t, e.workspace, V)
<1>1. PICK s \in Addresses : s = e.workspace
  BY EventFields
<1>2. PICK on : on = [x \in Windows |-> IF t.windows[x] = s THEN None ELSE t.windows[x]]
  OBVIOUS
<1>3. PICK u : u = [t EXCEPT !.owner[s] = Absent]
  OBVIOUS
<1>4. V = Follow(u, on)
  BY <1>1, <1>2, <1>3 DEF Hear, Destroyed
<1>5. on \in [Windows -> Addresses \cup {None}]
  BY <1>2 DEF ViewsThere
<1>6. u \in ViewsThere /\ u.shows = t.shows /\ u.focused = t.focused /\ u.focused_workspace = t.focused_workspace
      /\ u.owner = [t.owner EXCEPT ![s] = Absent]
  BY <1>3 DEF ViewsThere
<1>. QED
  BY <1>1, <1>2, <1>4, <1>5, <1>6, FollowIs DEF HeardGone

(* What is asked for afterwards: only the focus and the windows matter.    *)
HeardUnsure(t, e, V) ==
  /\ V \in ViewsThere
  /\ V.focused_workspace = t.focused_workspace
  /\ e.says # "changeworkspaceid" => V.windows = t.windows
  /\ e.says = "changeworkspaceid" /\ TracksWindows =>
       V.windows = [x \in Windows |-> IF t.windows[x] = e.from THEN e.to ELSE t.windows[x]]

(* Of an event that leaves something unsaid only this is kept.             *)
LEMMA HearUnsure ==
  ASSUME NEW t \in ViewsThere, NEW e \in Events, Unanswered(e), NEW V, V = Hear(t, e)
  PROVE  HeardUnsure(t, e, V)
<1>1. CASE e.says = "monitoradded"
  <2>1. PICK o \in Outputs : o = e.monitor
    BY <1>1, EventFields
  <2>2. PICK shows : shows = [t.shows EXCEPT ![o] = IF @ = Absent THEN Unset ELSE @]
    OBVIOUS
  <2>3. shows \in [Outputs -> Addresses \cup {Unset, Absent}]
    BY <2>2 DEF ViewsThere
  <2>4. V = [t EXCEPT !.shows = shows]
    BY <1>1, <2>1, <2>2 DEF Hear, ViewsThere
  <2>. QED
    BY <1>1, <2>3, <2>4 DEF HeardUnsure, ViewsThere
<1>2. CASE e.says = "monitorremoved"
  <2>1. PICK o \in Outputs : o = e.monitor
    BY <1>2, EventFields
  <2>2. PICK shows : shows = [t.shows EXCEPT ![o] = Absent]
    OBVIOUS
  <2>3. shows \in [Outputs -> Addresses \cup {Unset, Absent}]
    BY <2>2 DEF ViewsThere
  <2>4. PICK foc \in Outputs \cup {None} : foc = IF t.focused = o THEN None ELSE t.focused
    BY DEF ViewsThere
  <2>5. V = [t EXCEPT !.shows = shows, !.focused = foc]
    BY <1>2, <2>1, <2>2, <2>4 DEF Hear, ViewsThere
  <2>. QED
    BY <1>2, <2>3, <2>5 DEF HeardUnsure, ViewsThere
<1>3. CASE e.says = "createworkspace"
  <2>1. PICK s \in Addresses : s = e.workspace
    BY <1>3, EventFields
  <2>2. V = Record(t, s)
    BY <1>3, <2>1 DEF Hear
  <2>3. PICK own : own = [t.owner EXCEPT ![s] = t.focused]
    OBVIOUS
  <2>4. own \in [Addresses -> Outputs \cup {None, Absent}]
    BY <2>3 DEF ViewsThere
  <2>5. V = t \/ V = [t EXCEPT !.owner = own]
    BY <2>2, <2>3 DEF Record, ViewsThere
  <2>. QED
    BY <1>3, <2>4, <2>5 DEF HeardUnsure, ViewsThere
<1>4. CASE e.says = "moveworkspace"
  <2>1. PICK s \in Addresses, o \in Outputs : s = e.workspace /\ o = e.monitor
    BY <1>4, EventFields
  <2>2. V = [t EXCEPT !.owner[s] = o]
    BY <1>4, <2>1 DEF Hear
  <2>. QED
    BY <1>4, <2>2 DEF HeardUnsure, ViewsThere
<1>5. CASE e.says = "changeworkspaceid"
  <2>1. PICK s \in Addresses, r \in Addresses : s = e.from /\ r = e.to
    BY <1>5, EventFields
  <2>2. PICK on : on = [x \in Windows |-> IF t.windows[x] = s THEN r ELSE t.windows[x]]
    OBVIOUS
  <2>3. PICK u : u = [t EXCEPT !.owner[s] = Absent]
    OBVIOUS
  <2>4. V = Follow(u, on)
    BY <1>5, <2>1, <2>2, <2>3 DEF Hear, Renumbered
  <2>5. on \in [Windows -> Addresses \cup {None}]
    BY <2>2 DEF ViewsThere
  <2>6. u \in ViewsThere /\ u.focused_workspace = t.focused_workspace
    BY <2>3 DEF ViewsThere
  <2>. QED
    BY <1>5, <2>1, <2>2, <2>4, <2>5, <2>6, FollowIs DEF HeardUnsure
<1>. QED
  BY <1>1, <1>2, <1>3, <1>4, <1>5 DEF Unanswered

(* What of a topology does not depend on the view.                         *)
Steady(q, d) ==
  /\ \A s \in Addresses : d.owner[s] # None => Led(q, Going(s), Unans)
  /\ Led(q, Stale(d), Unans \cup Actives)
  /\ \A s \in Addresses : d.owner[s] # d.focus => Led(q, Coming(s), Unans \cup Going(s))
  /\ ~Some(q, Strange(d))
  /\ Lone(d) => ~Some(q, Crossings)

(* What does not depend on the view stays as the queue is read.            *)
LEMMA SteadyRead ==
  ASSUME NEW q \in Seq(Events), q # <<>>, NEW d, Steady(q, d)
  PROVE  Steady(Tail(q), d)
<1>1. \A B : Some(Tail(q), B) => Some(q, B)
  BY SomeRead
<1>2. \A A, B : Led(q, A, B) => Led(Tail(q), A, B)
  BY LedRead
<1>. QED
  BY <1>1, <1>2 DEF Steady

(* The two parts of what is known of the outputs and workspaces.           *)
LEMMA TopologyIs ==
  ASSUME NEW q, NEW V, NEW d
  PROVE  Topology(q, V, d) <=>
           /\ Steady(q, d)
           /\ \A o \in Outputs : ShowsSo(V, d, o) \/ Some(q, Unans) \/ (o = d.focus /\ Some(q, Actives))
           /\ \A s \in Addresses : OwnerSo(V, d, s) \/ Some(q, Unans) \/ (d.owner[s] = None /\ Some(q, Going(s)))
           /\ V.focused = d.focus \/ Some(q, Unans) \/ (Some(q, Crossings) /\ ~Some(q, Actives))
  BY DEF Topology, Steady

(* A view with everything right is known to be.                            *)
LEMMA TopologyTruly ==
  ASSUME NEW q, NEW V, NEW d, Steady(q, d), Truly(V, d)
  PROVE  Topology(q, V, d)
  BY TopologyIs DEF Truly

(* An event read keeps what is known of outputs and workspaces.            *)
LEMMA TopologyRead ==
  ASSUME NEW q \in Seq(Events), q # <<>>, NEW e, e = Head(q), NEW r, r = Tail(q), ~Unanswered(e),
         NEW d, Ground(d), NEW V \in ViewsThere, V.focused \in Outputs, NEW W, W = Hear(V, e), Topology(q, V, d)
  PROVE  Topology(r, W, d)
<1>1. e \in Events
  BY QueueRead
<1>2. \A B : (Some(q, B) => e \in B \/ Some(r, B)) /\ (Some(r, B) => Some(q, B)) /\ (e \in B => Some(q, B))
  BY SomeRead
<1>3. \A A, B : Led(q, A, B) /\ e \in A => Some(r, B)
  BY LedRead
<1>4. Steady(q, d)
  BY TopologyIs
<1>5. Steady(r, d)
  BY <1>4, SteadyRead
<1>6. e \notin Unans
  BY DEF Unans
<1>7. SUFFICES ASSUME ~Some(r, Unans)
               PROVE  /\ \A o \in Outputs : ShowsSo(W, d, o) \/ (o = d.focus /\ Some(r, Actives))
                      /\ \A s \in Addresses : OwnerSo(W, d, s) \/ (d.owner[s] = None /\ Some(r, Going(s)))
                      /\ W.focused = d.focus \/ (Some(r, Crossings) /\ ~Some(r, Actives))
  BY <1>5, TopologyIs
<1>8. /\ \A o \in Outputs : ShowsSo(V, d, o) \/ (o = d.focus /\ Some(q, Actives))
      /\ \A s \in Addresses : OwnerSo(V, d, s) \/ (d.owner[s] = None /\ Some(q, Going(s)))
      /\ V.focused = d.focus \/ (Some(q, Crossings) /\ ~Some(q, Actives))
  BY <1>2, <1>6, <1>7, TopologyIs
<1>9. d.focus \in Outputs /\ d.shown[d.focus] \in Addresses /\ d.owner[d.shown[d.focus]] = d.focus
      /\ \A o \in Outputs : d.shown[o] \in Addresses \cup {None}
  BY DEF Ground, DesktopsThere
<1>10. None \notin Addresses /\ None \notin Outputs /\ Absent \notin Outputs /\ Absent \notin Addresses
       /\ None # Absent
  BY HyprAssumption, ChannelsAssumption
<1>11. V.shows \in [Outputs -> Addresses \cup {Unset, Absent}] /\ V.owner \in [Addresses -> Outputs \cup {None, Absent}]
  BY DEF ViewsThere
<1>12. CASE e.says = "focusedmon"
  <2>1. e = Monitor(d.focus, d.shown[d.focus])
    <3>1. e \notin Strange(d)
      BY <1>2, <1>4 DEF Steady
    <3>. QED
      BY <1>1, <1>12, <3>1, Kind
  <2>2. e.monitor = d.focus /\ e.workspace = d.shown[d.focus]
    BY <2>1 DEF Monitor
  <2>3. HeardCrossing(V, e, W)
    BY <1>1, <1>12, HearCrossing
  <2>4. e \notin Actives /\ \A s : e \notin Going(s)
    BY <1>1, <1>12, Kind
  <2>5. ASSUME NEW o \in Outputs PROVE ShowsSo(W, d, o) \/ (o = d.focus /\ Some(r, Actives))
    <3>1. CASE o = d.focus
      BY <1>9, <1>10, <1>11, <2>2, <2>3, <3>1 DEF HeardCrossing, ShowsSo
    <3>2. CASE o # d.focus
      <4>1. W.shows[o] = V.shows[o]
        BY <1>11, <2>2, <2>3, <3>2 DEF HeardCrossing
      <4>. QED
        BY <1>8, <3>2, <4>1 DEF ShowsSo
    <3>. QED
      BY <3>1, <3>2
  <2>6. ASSUME NEW s \in Addresses PROVE OwnerSo(W, d, s) \/ (d.owner[s] = None /\ Some(r, Going(s)))
    <3>1. CASE s = d.shown[d.focus]
      <4>1. V.owner[s] = d.focus
        BY <1>8, <1>9, <1>10, <3>1 DEF OwnerSo
      <4>2. W.owner[s] = d.focus
        BY <1>9, <1>10, <1>11, <2>2, <2>3, <3>1, <4>1 DEF HeardCrossing
      <4>. QED
        BY <1>9, <1>10, <3>1, <4>2 DEF OwnerSo
    <3>2. CASE s # d.shown[d.focus]
      <4>1. W.owner[s] = V.owner[s]
        BY <1>11, <2>2, <2>3, <3>2 DEF HeardCrossing
      <4>. QED
        BY <1>2, <1>8, <2>4, <4>1 DEF OwnerSo
    <3>. QED
      BY <3>1, <3>2
  <2>7. W.focused = d.focus
    BY <2>2, <2>3 DEF HeardCrossing
  <2>. QED
    BY <2>5, <2>6, <2>7
<1>13. CASE e.says = "workspace"
  <2>1. PICK s \in Addresses : s = e.workspace
    BY <1>1, <1>13, EventFields
  <2>2. e \in Actives /\ e \notin Crossings /\ (\A x : e \notin Going(x)) /\ e \in Coming(s)
    BY <1>1, <1>13, <2>1, Kind, EventFields DEF Coming
  <2>3. V.focused = d.focus
    BY <1>2, <1>8, <2>2
  <2>4. HeardActive(V, s, W)
    BY <1>1, <1>13, <2>1, HearActive
  <2>5. s # d.shown[d.focus] => Some(r, Actives)
    <3>1. s # d.shown[d.focus] => e \in Stale(d)
      BY <1>1, <1>13, <2>1, Kind
    <3>2. s # d.shown[d.focus] => Some(r, Unans \cup Actives)
      BY <1>3, <1>4, <3>1 DEF Steady
    <3>. QED
      BY <1>7, <3>2 DEF Some
  <2>6. d.owner[s] # d.focus => d.owner[s] = None /\ Some(r, Going(s))
    <3>1. d.owner[s] # d.focus => Some(r, Unans \cup Going(s))
      BY <1>3, <1>4, <2>2 DEF Steady
    <3>2. d.owner[s] # d.focus => Some(r, Going(s))
      BY <1>7, <3>1 DEF Some
    <3>3. d.owner[s] # None /\ Some(r, Going(s)) => Some(r, Unans)
      <4>1. d.owner[s] # None => Led(r, Going(s), Unans)
        BY <1>5 DEF Steady
      <4>. QED
        BY <4>1 DEF Led, Some
    <3>. QED
      BY <1>7, <3>2, <3>3
  <2>7. ASSUME NEW o \in Outputs PROVE ShowsSo(W, d, o) \/ (o = d.focus /\ Some(r, Actives))
    <3>1. CASE o = d.focus
      <4>1. W.shows[o] = s
        BY <1>9, <1>11, <2>3, <2>4, <3>1 DEF HeardActive
      <4>. QED
        BY <1>9, <1>10, <2>5, <3>1, <4>1 DEF ShowsSo
    <3>2. CASE o # d.focus
      <4>1. W.shows[o] = V.shows[o]
        BY <1>11, <2>3, <2>4, <3>2 DEF HeardActive
      <4>. QED
        BY <1>8, <3>2, <4>1 DEF ShowsSo
    <3>. QED
      BY <3>1, <3>2
  <2>8. ASSUME NEW x \in Addresses PROVE OwnerSo(W, d, x) \/ (d.owner[x] = None /\ Some(r, Going(x)))
    <3>1. CASE x = s
      <4>1. W.owner[x] = d.focus
        BY <1>11, <2>3, <2>4, <3>1 DEF HeardActive
      <4>. QED
        BY <1>9, <1>10, <2>6, <3>1, <4>1 DEF OwnerSo
    <3>2. CASE x # s
      <4>1. W.owner[x] = V.owner[x]
        BY <1>11, <2>4, <3>2 DEF HeardActive
      <4>. QED
        BY <1>2, <1>8, <2>2, <4>1 DEF OwnerSo
    <3>. QED
      BY <3>1, <3>2
  <2>9. W.focused = d.focus
    BY <2>3, <2>4 DEF HeardActive
  <2>. QED
    BY <2>7, <2>8, <2>9
<1>14. CASE e.says = "destroyworkspace"
  <2>1. PICK s \in Addresses : s = e.workspace
    BY <1>1, <1>14, EventFields
  <2>2. e \notin Actives /\ e \notin Crossings /\ e \in Going(s) /\ (\A x : x # s => e \notin Going(x))
    <3>1. e = Of("destroyworkspace", s)
      BY <1>1, <1>14, <2>1, EventFields
    <3>. QED
      BY <1>1, <1>14, <2>1, <3>1, Kind DEF Going, Of
  <2>3. HeardGone(V, s, W)
    BY <1>1, <1>14, <2>1, HearGone
  <2>4. d.owner[s] = None
    <3>1. d.owner[s] # None => Some(r, Unans)
      BY <1>3, <1>4, <2>2 DEF Steady
    <3>. QED
      BY <1>7, <3>1
  <2>5. ASSUME NEW x \in Addresses PROVE OwnerSo(W, d, x) \/ (d.owner[x] = None /\ Some(r, Going(x)))
    <3>1. CASE x = s
      BY <1>11, <2>3, <2>4, <3>1 DEF OwnerSo, HeardGone
    <3>2. CASE x # s
      <4>1. W.owner[x] = V.owner[x]
        BY <1>11, <2>3, <3>2 DEF HeardGone
      <4>. QED
        BY <1>2, <1>8, <2>2, <3>2, <4>1 DEF OwnerSo
    <3>. QED
      BY <3>1, <3>2
  <2>6. W.shows = V.shows /\ W.focused = V.focused
    BY <2>3 DEF HeardGone
  <2>. QED
    BY <1>2, <1>8, <2>2, <2>5, <2>6 DEF ShowsSo
<1>15. CASE e.says \in {"activewindow", "openwindow", "movewindow", "closewindow"}
  <2>1. W.shows = V.shows /\ W.owner = V.owner /\ W.focused = V.focused
    <3>1. CASE e.says = "activewindow"
      BY <1>1, <3>1, HearFocus DEF HeardFocus
    <3>2. CASE e.says \in {"openwindow", "movewindow", "closewindow"}
      <4>1. HeardWindow(V, e, W)
        BY <1>1, <3>2, HearWindow
      <4>. QED
        BY <4>1 DEF HeardWindow
    <3>. QED
      BY <1>15, <3>1, <3>2
  <2>2. e \notin Actives /\ e \notin Crossings /\ (\A x : e \notin Going(x))
    BY <1>1, <1>15, Kind
  <2>. QED
    BY <1>2, <1>8, <2>1, <2>2 DEF ShowsSo, OwnerSo
<1>. QED
  BY <1>1, <1>12, <1>13, <1>14, <1>15, EventFields DEF Unanswered

(* Where the windows are once the event that comes next has been heard, if *)
(* all it says is that a number is another.                                *)
Rewritten(V, e, w) ==
  \A x \in Windows : w[x] = IF e \in Numberings
                            THEN IF V.windows[x] = e.from THEN e.to ELSE V.windows[x]
                            ELSE V.windows[x]

(* An event read keeps what is known of the windows.                       *)
LEMMA WindowsRead ==
  ASSUME NEW q \in Seq(Events), q # <<>>, NEW e, e = Head(q), NEW r, r = Tail(q),
         NEW d, NEW V \in ViewsThere, V.focused \in Outputs, NEW W, W = Hear(V, e), TracksWindows,
         NEW w, Rewritten(V, e, w),
         WindowsKnown(q, w, d)
  PROVE  WindowsKnown(r, W.windows, d) /\ ~Some(r, Numberings)
<1>1. e \in Events
  BY QueueRead
<1>2. \A B : (Some(q, B) => e \in B \/ Some(r, B)) /\ (Some(r, B) => Some(q, B)) /\ (e \in B => Some(q, B))
  BY SomeRead
<1>3. \A A, B : Led(q, A, B) => Led(r, A, B) /\ (e \in A => Some(r, B))
  BY LedRead
<1>4. ~Some(r, Numberings)
  <2>1. SUFFICES ASSUME NEW i \in DOMAIN r, r[i] \in Numberings PROVE FALSE
    BY DEF Some
  <2>2. i + 1 \in DOMAIN q /\ q[i + 1] = r[i] /\ i + 1 # 1
    BY QueueRead
  <2>. QED
    BY <2>1, <2>2 DEF WindowsKnown
<1>5. V.windows \in [Windows -> Addresses \cup {None}]
  BY DEF ViewsThere
<1>6. ASSUME NEW x \in Windows PROVE W.windows[x] = d.on[x] \/ Some(r, About(x))
  <2>1. SUFFICES ASSUME ~Some(r, About(x)) PROVE W.windows[x] = d.on[x]
    OBVIOUS
  <2>2. Led(q, Wrong(x, d), About(x)) /\ (d.on[x] # None => Led(q, Going(d.on[x]), About(x)))
        /\ (w[x] = d.on[x] \/ e \in About(x))
    BY <1>2, <2>1 DEF WindowsKnown
  <2>3. CASE e \in About(x)
    <3>1. e.says \in {"openwindow", "movewindow", "closewindow"} /\ e.window = x
      BY <1>1, <2>3, Kind
    <3>2. (IF e.says = "closewindow" THEN None ELSE e.workspace) = d.on[x]
      <4>1. e \notin Wrong(x, d)
        BY <1>3, <2>1, <2>2
      <4>. QED
        BY <1>1, <2>3, <4>1, Kind
    <3>3. HeardWindow(V, e, W)
      BY <1>1, <3>1, HearWindow
    <3>. QED
      BY <1>5, <3>1, <3>2, <3>3 DEF HeardWindow
  <2>4. CASE e \notin About(x)
    <3>1. w[x] = d.on[x]
      BY <2>2, <2>4
    <3>2. CASE e.says \in {"openwindow", "movewindow", "closewindow"}
      <4>1. e.window # x /\ e \notin Numberings
        BY <1>1, <2>4, <3>2, Kind
      <4>2. HeardWindow(V, e, W)
        BY <1>1, <3>2, HearWindow
      <4>. QED
        BY <1>5, <3>1, <4>1, <4>2 DEF HeardWindow, Rewritten
    <3>3. CASE e.says = "destroyworkspace"
      <4>1. PICK s \in Addresses : s = e.workspace
        BY <1>1, <3>3, EventFields
      <4>2. HeardGone(V, s, W) /\ e \in Going(s) /\ e \notin Numberings
        BY <1>1, <3>3, <4>1, HearGone, EventFields, Kind DEF Going
      <4>3. V.windows[x] = d.on[x]
        BY <3>1, <4>2 DEF Rewritten
      <4>4. d.on[x] = s => d.on[x] = None
        BY <1>3, <2>1, <2>2, <4>2
      <4>. QED
        BY <4>2, <4>3, <4>4 DEF HeardGone
    <3>4. CASE Unanswered(e)
      <4>1. HeardUnsure(V, e, W)
        BY <1>1, <3>4, HearUnsure
      <4>. QED
        BY <1>1, <3>1, <4>1, Kind DEF HeardUnsure, Rewritten
    <3>5. CASE e.says \in {"focusedmon", "activewindow"}
      <4>1. W.windows = V.windows
        <5>1. CASE e.says = "focusedmon"
          <6>1. HeardCrossing(V, e, W)
            BY <1>1, <5>1, HearCrossing
          <6>. QED
            BY <6>1 DEF HeardCrossing
        <5>2. CASE e.says = "activewindow"
          <6>1. HeardFocus(V, e, W)
            BY <1>1, <5>2, HearFocus
          <6>. QED
            BY <6>1 DEF HeardFocus
        <5>. QED
          BY <3>5, <5>1, <5>2
      <4>. QED
        BY <1>1, <3>1, <3>5, <4>1, Kind DEF Rewritten
    <3>6. CASE e.says = "workspace"
      <4>1. W.windows = V.windows
        <5>1. HeardActive(V, e.workspace, W)
          BY <1>1, <3>6, HearActive
        <5>. QED
          BY <5>1 DEF HeardActive
      <4>. QED
        BY <1>1, <3>1, <3>6, <4>1, Kind DEF Rewritten
    <3>. QED
      BY <1>1, <3>2, <3>3, <3>4, <3>5, <3>6, EventFields DEF Unanswered
  <2>. QED
    BY <2>3, <2>4
<1>7. \A i \in DOMAIN r : r[i] \in Numberings => i = 1
  BY <1>4 DEF Some
<1>. QED
  BY <1>3, <1>4, <1>6, <1>7 DEF WindowsKnown

(* A switch that nothing precedes is followed by a focus.                  *)
LEMMA SwitchedStill ==
  ASSUME NEW S, NEW r \in Seq(S), Switched(r, FALSE), ~Some(r, Focuses)
  PROVE  ~Some(r, Actives)
<1>1. SUFFICES ASSUME NEW i \in DOMAIN r, r[i] \in Actives PROVE FALSE
  BY DEF Some
<1>2. i > 1 /\ r[i - 1] \in Focuses
  BY <1>1 DEF Some, Switched
<1>3. i - 1 \in DOMAIN r
  <2>1. DOMAIN r = 1..Len(r) /\ Len(r) \in Nat
    OBVIOUS
  <2>. QED
    BY <1>1, <1>2, <2>1
<1>. QED
  BY <1>2, <1>3 DEF Some

(* How an event that leaves nothing unsaid changes what it does not name.  *)
Carried(t, e, V, d) ==
  /\ V \in ViewsThere
  /\ V.focused = IF e.says = "focusedmon" THEN e.monitor ELSE t.focused
  /\ e.says # "activewindow" =>
       V.focused_workspace = IF /\ e.says = "workspace" /\ t.focused_workspace # None
                                /\ t.focused_workspace = t.shows[t.focused]
                             THEN e.workspace ELSE t.focused_workspace
  /\ e.says \notin {"workspace", "focusedmon"} => V.shows = t.shows
  /\ e.says = "workspace" => V.shows[t.focused] = e.workspace
  /\ e.says = "focusedmon" => V.shows[e.monitor] = e.workspace

(* An event is heard so.                                                   *)
LEMMA HearCarries ==
  ASSUME NEW t \in ViewsThere, t.focused \in Outputs, NEW e \in Events, ~Unanswered(e), NEW V, V = Hear(t, e), NEW d
  PROVE  Carried(t, e, V, d)
<1>1. t.shows \in [Outputs -> Addresses \cup {Unset, Absent}]
  BY DEF ViewsThere
<1>2. CASE e.says = "focusedmon"
  <2>1. HeardCrossing(t, e, V) /\ e.monitor \in Outputs
    BY <1>2, HearCrossing, EventFields
  <2>. QED
    BY <1>1, <1>2, <2>1 DEF HeardCrossing, Carried
<1>3. CASE e.says = "workspace"
  <2>1. HeardActive(t, e.workspace, V)
    BY <1>3, HearActive
  <2>. QED
    BY <1>1, <1>3, <2>1 DEF HeardActive, Carried
<1>4. CASE e.says = "activewindow"
  <2>1. HeardFocus(t, e, V)
    BY <1>4, HearFocus
  <2>. QED
    BY <1>4, <2>1 DEF HeardFocus, Carried
<1>5. CASE e.says \in {"openwindow", "movewindow", "closewindow"}
  <2>1. HeardWindow(t, e, V)
    BY <1>5, HearWindow
  <2>. QED
    BY <1>5, <2>1 DEF HeardWindow, Carried
<1>6. CASE e.says = "destroyworkspace"
  <2>1. HeardGone(t, e.workspace, V)
    BY <1>6, HearGone
  <2>. QED
    BY <1>6, <2>1 DEF HeardGone, Carried
<1>. QED
  BY <1>2, <1>3, <1>4, <1>5, <1>6, EventFields DEF Unanswered

(* The focused monitor stays right as the queue is read.                   *)
LEMMA NearRead ==
  ASSUME NEW q \in Seq(Events), q # <<>>, NEW e, e = Head(q), NEW r, r = Tail(q),
         NEW d, Led(q, Stale(d), Actives), NEW V, NEW W, Carried(V, e, W, d), Near(q, V, d),
         e.says = "focusedmon" => e.monitor = d.focus /\ e.workspace = d.shown[d.focus]
  PROVE  Near(r, W, d)
<1>1. e \in Events
  BY QueueRead
<1>2. Some(q, Actives) => e \in Actives \/ Some(r, Actives)
  BY SomeRead
<1>3. e \in Stale(d) => Some(r, Actives)
  BY LedRead
<1>4. V.focused = d.focus /\ (V.shows[d.focus] = d.shown[d.focus] \/ Some(q, Actives))
  BY DEF Near
<1>5. CASE e.says = "workspace"
  BY <1>1, <1>3, <1>4, <1>5, Kind DEF Near, Carried
<1>6. CASE e.says = "focusedmon"
  BY <1>6 DEF Near, Carried
<1>7. CASE e.says \notin {"workspace", "focusedmon"}
  <2>1. e \notin Actives
    BY <1>1, <1>7, Kind
  <2>. QED
    BY <1>2, <1>4, <1>7, <2>1 DEF Near, Carried
<1>. QED
  BY <1>5, <1>6, <1>7

(* An event read keeps what is known of the focus.                         *)
LEMMA FocusRead ==
  ASSUME NEW q \in Seq(Events), q # <<>>, NEW e, e = Head(q), NEW r, r = Tail(q), ~Unanswered(e),
         NEW d, DesktopOK(d), NEW V \in ViewsThere, V.focused \in Outputs, V.shows[V.focused] \in Addresses,
         NEW W, W = Hear(V, e), ~Some(q, Strange(d)), FocusKnown(q, TRUE, V, V.focused_workspace, d)
  PROVE  FocusKnown(r, TRUE, W, W.focused_workspace, d)
<1>1. e \in Events /\ r \in Seq(Events)
  BY QueueRead
<1>2. \A B : (Some(q, B) => e \in B \/ Some(r, B)) /\ (Some(r, B) => Some(q, B)) /\ (e \in B => Some(q, B))
  BY SomeRead
<1>3. \A A, B : Led(q, A, B) => Led(r, A, B) /\ (e \in A => Some(r, B))
  BY LedRead
<1>4. Carried(V, e, W, d)
  BY <1>1, HearCarries
<1>5. e.says = "focusedmon" => e.monitor = d.focus /\ e.workspace = d.shown[d.focus]
  <2>1. SUFFICES ASSUME e.says = "focusedmon" PROVE e.monitor = d.focus /\ e.workspace = d.shown[d.focus]
    OBVIOUS
  <2>2. e \notin Strange(d)
    BY <1>2
  <2>3. e = Monitor(d.focus, d.shown[d.focus])
    BY <1>1, <2>1, <2>2, Kind
  <2>. QED
    BY <2>3 DEF Monitor
<1>6. Near(q, V, d) => Near(r, W, d)
  BY <1>4, <1>5, NearRead DEF FocusKnown
<1>7. ~Some(r, Numberings) /\ Led(r, Mistaken(d), Focuses) /\ Led(r, Stale(d), Actives)
      /\ (Led(r, Takes, Focuses) \/ Seated(d))
  BY <1>2, <1>3 DEF FocusKnown
<1>8. Near(r, W, d) \/ Heralded(r)
  <2>1. CASE Near(q, V, d)
    BY <1>6, <2>1
  <2>2. CASE Heralded(q)
    <3>1. Heralded(r) \/ e \in Crossings \cup Unans
      BY <2>2, HeraldedRead
    <3>2. e \notin Unans
      BY DEF Unans
    <3>3. e \in Crossings => Near(r, W, d)
      BY <1>1, <1>4, <1>5, Kind DEF Carried, Near
    <3>. QED
      BY <3>1, <3>2, <3>3
  <2>. QED
    BY <2>1, <2>2 DEF FocusKnown
<1>9. Lone(d) => Near(r, W, d)
  BY <1>6 DEF FocusKnown
<1>10. Some(r, Actives) /\ d.win # None => Seated(d) /\ W.focused = d.focus
  BY <1>2, <1>4, <1>5 DEF FocusKnown, Carried
<1>11. d.win # None => Switched(r, TRUE) /\ (e \notin Focuses => Switched(r, FALSE))
  BY SwitchedRead DEF FocusKnown
<1>12. \/ Some(r, Focuses)
       \/ d.win = None /\ W.focused_workspace = None
       \/ d.win # None /\ W.focused_workspace = d.on[d.win]
       \/ d.win # None /\ W.focused_workspace = W.shows[d.focus] /\ W.focused = d.focus /\ Some(r, Actives)
  <2>1. SUFFICES ASSUME ~Some(r, Focuses)
                 PROVE  \/ d.win = None /\ W.focused_workspace = None
                        \/ d.win # None /\ W.focused_workspace = d.on[d.win]
                        \/ d.win # None /\ W.focused_workspace = W.shows[d.focus] /\ W.focused = d.focus /\ Some(r, Actives)
    OBVIOUS
  <2>2. CASE e \in Focuses
    <3>1. e.says = "activewindow"
      BY <1>1, <2>2, Kind
    <3>2. PICK b \in BOOLEAN : e = Focus(b) /\ e.focused = b
      BY <1>1, <3>1, EventFields
    <3>3. HeardFocus(V, e, W)
      BY <1>1, <3>1, HearFocus
    <3>4. e \notin Mistaken(d)
      BY <1>3, <2>1 DEF FocusKnown
    <3>5. b <=> d.win # None
      BY <3>2, <3>4, FocusKind
    <3>6. CASE ~b
      BY <3>2, <3>3, <3>5, <3>6 DEF HeardFocus
    <3>7. CASE b
      <4>1. e \in Takes
        BY <3>2, <3>7, FocusKind
      <4>2. Seated(d)
        BY <1>3, <2>1, <4>1 DEF FocusKnown
      <4>3. ~Heralded(q)
        BY <2>1, <4>1, HeraldedRead
      <4>4. V.focused = d.focus /\ (V.shows[d.focus] = d.shown[d.focus] \/ Some(q, Actives))
        BY <4>3 DEF FocusKnown, Near
      <4>5. Showing(V) = V.shows[d.focus]
        <5>1. V.focused # None /\ V.shows[V.focused] \notin {Unset, Absent}
          BY HyprAssumption, ChannelsAssumption
        <5>. QED
          BY <4>4, <5>1 DEF Showing
      <4>6. W.focused_workspace = V.shows[d.focus] /\ W.shows = V.shows /\ W.focused = d.focus
        BY <3>2, <3>3, <3>7, <4>4, <4>5 DEF HeardFocus
      <4>7. e \notin Actives
        BY <1>1, <3>1, Kind
      <4>. QED
        BY <1>2, <3>5, <3>7, <4>2, <4>4, <4>6, <4>7 DEF Seated
    <3>. QED
      BY <3>6, <3>7
  <2>3. CASE e \notin Focuses
    <3>1. ~Some(q, Focuses) /\ e.says # "activewindow"
      BY <1>1, <1>2, <2>1, <2>3, Kind
    <3>2. d.win # None => ~Some(r, Actives)
      BY <1>1, <1>11, <2>1, <2>3, SwitchedStill
    <3>3. CASE d.win = None /\ V.focused_workspace = None
      BY <1>4, <3>1, <3>3 DEF Carried
    <3>4. CASE d.win # None /\ e.says = "workspace"
      <4>1. e \in Actives /\ Some(q, Actives)
        BY <1>1, <1>2, <3>4, Kind
      <4>2. Seated(d) /\ V.focused = d.focus
        BY <3>4, <4>1 DEF FocusKnown
      <4>3. e \notin Stale(d)
        BY <1>3, <3>2, <3>4 DEF FocusKnown
      <4>4. e.workspace = d.on[d.win]
        BY <1>1, <3>4, <4>2, <4>3, Kind DEF Seated
      <4>5. V.focused_workspace = d.on[d.win] \/ V.focused_workspace = V.shows[V.focused]
        BY <3>1, <3>4, <4>2 DEF FocusKnown
      <4>6. V.shows[V.focused] # None
        BY HyprAssumption, ChannelsAssumption
      <4>. QED
        BY <1>4, <3>1, <3>4, <4>4, <4>5, <4>6 DEF Carried
    <3>5. CASE d.win # None /\ e.says # "workspace"
      <4>1. e \notin Actives
        BY <1>1, <3>5, Kind
      <4>2. ~Some(q, Actives)
        BY <1>2, <3>2, <3>5, <4>1
      <4>3. V.focused_workspace = d.on[d.win]
        BY <3>1, <3>5, <4>2 DEF FocusKnown
      <4>. QED
        BY <1>4, <3>1, <3>5, <4>3 DEF Carried
    <3>. QED
      BY <3>1, <3>3, <3>4, <3>5 DEF FocusKnown
  <2>. QED
    BY <2>2, <2>3
<1>. QED
  BY <1>7, <1>8, <1>9, <1>10, <1>11, <1>12 DEF FocusKnown

(* So does one that leaves something unsaid, of the view that the answers  *)
(* will make.                                                              *)
LEMMA FocusUnsure ==
  ASSUME NEW q \in Seq(Events), q # <<>>, NEW e, e = Head(q), NEW r, r = Tail(q), Unanswered(e),
         NEW d, DesktopOK(d), NEW V, NEW F, NEW U, Truly(U, d), FocusKnown(q, TRUE, V, F, d)
  PROVE  FocusKnown(r, FALSE, U, F, d)
<1>1. e \in Events /\ r \in Seq(Events)
  BY QueueRead
<1>2. \A B : (Some(q, B) => e \in B \/ Some(r, B)) /\ (Some(r, B) => Some(q, B))
  BY SomeRead
<1>3. \A A, B : Led(q, A, B) => Led(r, A, B)
  BY LedRead
<1>4. e \notin Focuses /\ e \notin Actives
  BY <1>1, Kind DEF Unanswered
<1>5. Near(r, U, d)
  <2>1. d.focus \in Outputs /\ d.shown[d.focus] # None
    BY DEF DesktopOK, Ground, DesktopsThere
  <2>. QED
    BY <2>1 DEF Truly, ShowsSo, Near
<1>6. d.win # None => Switched(r, FALSE)
  BY <1>4, SwitchedRead DEF FocusKnown
<1>7. \/ Some(r, Focuses)
      \/ d.win = None /\ F = None
      \/ d.win # None /\ F = d.on[d.win]
  <2>1. SUFFICES ASSUME ~Some(r, Focuses) PROVE (d.win = None /\ F = None) \/ (d.win # None /\ F = d.on[d.win])
    OBVIOUS
  <2>2. ~Some(q, Focuses)
    BY <1>2, <1>4, <2>1
  <2>3. d.win # None => ~Some(q, Actives)
    BY <1>1, <1>2, <1>4, <1>6, <2>1, SwitchedStill
  <2>. QED
    BY <2>2, <2>3 DEF FocusKnown
<1>8. ~Some(r, Numberings) /\ Led(r, Mistaken(d), Focuses) /\ Led(r, Stale(d), Actives)
      /\ (Led(r, Takes, Focuses) \/ Seated(d))
  BY <1>2, <1>3 DEF FocusKnown
<1>9. Some(r, Actives) /\ d.win # None => Seated(d) /\ U.focused = d.focus
  BY <1>2 DEF FocusKnown, Truly
<1>. QED
  BY <1>5, <1>6, <1>7, <1>8, <1>9 DEF FocusKnown

(* The one of Outputs that shows s.                                        *)
Shower(shown, s) == CHOOSE o \in Outputs : shown[o] = s

(* `replace_topology`, by what it makes of the view.                       *)
PlacedSo(t, shown, focus, owner, V) ==
  /\ V \in ViewsThere
  /\ V.focused = focus /\ V.focused_workspace = t.focused_workspace /\ V.windows = t.windows
  /\ \A o \in Outputs : V.shows[o] = IF shown[o] = None THEN Absent ELSE shown[o]
  /\ \A s \in Addresses :
       V.owner[s] = IF \E o \in Outputs : shown[o] = s THEN Shower(shown, s)
                    ELSE IF owner[s] = None THEN Absent ELSE owner[s]

(* It makes that of it.                                                    *)
LEMMA PlacedThere ==
  ASSUME NEW t \in ViewsThere, NEW shown \in [Outputs -> Addresses \cup {None}],
         NEW focus \in Outputs \cup {None}, NEW owner \in [Addresses -> Outputs \cup {None}],
         NEW V, V = ReplaceTopology(t, shown, focus, owner)
  PROVE  PlacedSo(t, shown, focus, owner, V)
<1>1. PICK shows : shows = [o \in Outputs |-> IF shown[o] = None THEN Absent ELSE shown[o]]
  OBVIOUS
<1>2. PICK own : own = [s \in Addresses |->
        IF \E o \in Outputs : shown[o] = s THEN Shower(shown, s)
        ELSE IF owner[s] = None THEN Absent ELSE owner[s]]
  OBVIOUS
<1>3. V = [t EXCEPT !.focused = focus, !.shows = shows, !.owner = own]
  BY <1>1, <1>2 DEF ReplaceTopology, Shower
<1>4. shows \in [Outputs -> Addresses \cup {Unset, Absent}]
  BY <1>1
<1>5. own \in [Addresses -> Outputs \cup {None, Absent}]
  <2>1. ASSUME NEW s \in Addresses, \E o \in Outputs : shown[o] = s PROVE Shower(shown, s) \in Outputs
    BY <2>1 DEF Shower
  <2>2. ASSUME NEW s \in Addresses
        PROVE  (IF \E o \in Outputs : shown[o] = s THEN Shower(shown, s)
                ELSE IF owner[s] = None THEN Absent ELSE owner[s]) \in Outputs \cup {None, Absent}
    BY <2>1
  <2>. QED
    BY <1>2, <2>2
<1>6. V \in ViewsThere /\ V.shows = shows /\ V.owner = own /\ V.focused = focus
      /\ V.focused_workspace = t.focused_workspace /\ V.windows = t.windows
  BY <1>3, <1>4, <1>5 DEF ViewsThere
<1>7. \A o \in Outputs : V.shows[o] = IF shown[o] = None THEN Absent ELSE shown[o]
  BY <1>1, <1>6
<1>8. \A s \in Addresses :
       V.owner[s] = IF \E o \in Outputs : shown[o] = s THEN Shower(shown, s)
                    ELSE IF owner[s] = None THEN Absent ELSE owner[s]
  BY <1>2, <1>6
<1>. QED
  BY <1>6, <1>7, <1>8 DEF PlacedSo

(* With what is true of the desktop, it makes everything right.            *)
LEMMA PlacedTruly ==
  ASSUME NEW t, NEW d, Ground(d), NEW V, PlacedSo(t, d.shown, d.focus, d.owner, V)
  PROVE  Truly(V, d) /\ V.focused \in Outputs /\ V.shows[V.focused] \in Addresses
<1>1. ASSUME NEW s \in Addresses PROVE OwnerSo(V, d, s)
  <2>1. CASE \E o \in Outputs : d.shown[o] = s
    <3>1. Shower(d.shown, s) \in Outputs /\ d.shown[Shower(d.shown, s)] = s
      BY <2>1 DEF Shower
    <3>2. s # None
      BY HyprAssumption
    <3>3. d.owner[s] = Shower(d.shown, s)
      BY <3>1, <3>2 DEF Ground
    <3>4. d.owner[s] # None
      BY <3>1, <3>3, ChannelsAssumption
    <3>. QED
      BY <2>1, <3>3, <3>4 DEF PlacedSo, OwnerSo
  <2>2. CASE ~ \E o \in Outputs : d.shown[o] = s
    BY <2>2 DEF PlacedSo, OwnerSo
  <2>. QED
    BY <2>1, <2>2
<1>2. \A o \in Outputs : ShowsSo(V, d, o)
  BY DEF PlacedSo, ShowsSo
<1>3. V.focused = d.focus /\ d.focus \in Outputs /\ d.shown[d.focus] # None /\ d.shown[d.focus] \in Addresses
  BY DEF PlacedSo, Ground, DesktopsThere
<1>. QED
  BY <1>1, <1>2, <1>3 DEF Truly, ShowsSo

(* What the open questions would be told now.                              *)
AskedShown == IF asking = "monitors" THEN desktop.shown ELSE answers.shown
AskedFocus == IF asking = "monitors" THEN desktop.focus ELSE answers.focus
AskedOwner == IF asking \in {"monitors", "workspaces"} THEN desktop.owner ELSE answers.owner

(* The tracker as it is once the questions that are open were answered.    *)
Ahead == IF asking = "nothing" THEN view ELSE ReplaceTopology(view, AskedShown, AskedFocus, AskedOwner)

(* Where the windows will be, with the event that comes next if it changes *)
(* a number.                                                               *)
AheadWindows ==
  IF asking # "nothing" /\ answers.of = "seed" THEN desktop.on
  ELSE IF queue # <<>> /\ Head(queue) \in Numberings
  THEN [x \in Windows |-> IF view.windows[x] = Head(queue).from THEN Head(queue).to ELSE view.windows[x]]
  ELSE view.windows

(* The workspace of the focus that will be.                                *)
AheadFocus ==
  IF asking # "nothing" /\ answers.of = "seed"
  THEN Holding(Ahead, IF asking = "clients" THEN answers.active ELSE Active)
  ELSE view.focused_workspace

(* The tracker ahead is one with the topology replaced.                    *)
LEMMA AheadThere ==
  ASSUME Ground(desktop), view \in ViewsThere, answers \in AnswersThere, asking # "nothing"
  PROVE  PlacedSo(view, AskedShown, AskedFocus, AskedOwner, Ahead)
<1>1. AskedShown \in [Outputs -> Addresses \cup {None}] /\ AskedFocus \in Outputs \cup {None}
      /\ AskedOwner \in [Addresses -> Outputs \cup {None}]
  BY DEF AskedShown, AskedFocus, AskedOwner, Ground, DesktopsThere, AnswersThere
<1>2. Ahead = ReplaceTopology(view, AskedShown, AskedFocus, AskedOwner)
  BY DEF Ahead
<1>. QED
  BY <1>1, <1>2, PlacedThere

(* What is ahead, where the desktop changes before all was asked.          *)
LEMMA AheadOvertaken ==
  ASSUME Ground(desktop), Ground(desktop'), view \in ViewsThere, answers \in AnswersThere,
         asking' = asking, answers' = answers, view' = view,
         Ahead.focused \in Outputs, Ahead.shows[Ahead.focused] \in Addresses
  PROVE  /\ Overtaken(Ahead, desktop, Ahead', desktop')
         /\ asking \notin {"monitors", "workspaces"} => Ahead' = Ahead
         /\ Ahead.focused' \in Outputs /\ Ahead.shows'[Ahead.focused'] \in Addresses
<1>1. CASE asking \notin {"monitors", "workspaces"}
  <2>1. Ahead' = Ahead
    BY <1>1 DEF Ahead, AskedShown, AskedFocus, AskedOwner
  <2>. QED
    BY <1>1, <2>1 DEF Overtaken
<1>2. CASE asking \in {"monitors", "workspaces"}
  <2>1. PlacedSo(view, AskedShown, AskedFocus, AskedOwner, Ahead)
    BY <1>2, AheadThere
  <2>2. PICK V, W : V = Ahead /\ W = Ahead'
    OBVIOUS
  <2>3. PlacedSo(view', AskedShown', AskedFocus', AskedOwner', W)
    <3>1. AskedShown' \in [Outputs -> Addresses \cup {None}] /\ AskedFocus' \in Outputs \cup {None}
          /\ AskedOwner' \in [Addresses -> Outputs \cup {None}]
      BY DEF AskedShown, AskedFocus, AskedOwner, Ground, DesktopsThere, AnswersThere
    <3>2. W = ReplaceTopology(view', AskedShown', AskedFocus', AskedOwner')
      BY <1>2, <2>2 DEF Ahead
    <3>. QED
      BY <3>1, <3>2, PlacedThere
  <2>4. CASE asking = "monitors"
    <3>1. PlacedSo(view, desktop.shown, desktop.focus, desktop.owner, V)
      BY <2>1, <2>2, <2>4 DEF AskedShown, AskedFocus, AskedOwner
    <3>2. PlacedSo(view', desktop'.shown, desktop'.focus, desktop'.owner, W)
      BY <2>3, <2>4 DEF AskedShown, AskedFocus, AskedOwner
    <3>3. Truly(V, desktop)
      BY <3>1, PlacedTruly
    <3>4. Truly(W, desktop') /\ W.focused \in Outputs /\ W.shows[W.focused] \in Addresses
      BY <3>2, PlacedTruly
    <3>. QED
      BY <2>2, <2>4, <3>3, <3>4 DEF Overtaken, Truly
  <2>5. CASE asking = "workspaces"
    <3>1. PlacedSo(view, answers.shown, answers.focus, desktop.owner, V)
      BY <2>1, <2>2, <2>5 DEF AskedShown, AskedFocus, AskedOwner
    <3>2. PlacedSo(view, answers.shown, answers.focus, desktop'.owner, W)
      BY <2>3, <2>5 DEF AskedShown, AskedFocus, AskedOwner
    <3>3. W.focused = V.focused /\ \A o \in Outputs : W.shows[o] = V.shows[o]
      BY <3>1, <3>2 DEF PlacedSo
    <3>4. \A s \in Addresses : W.owner[s] = V.owner[s] \/ OwnerSo(W, desktop', s)
      BY <3>1, <3>2 DEF PlacedSo, OwnerSo
    <3>. QED
      BY <2>2, <2>5, <3>3, <3>4 DEF Overtaken
  <2>. QED
    BY <1>2, <2>4, <2>5
<1>. QED
  BY <1>1, <1>2

(* The inductive invariant: types, the order of the questions, the view    *)
(* that has a focused monitor, what is known, and what was told of it.     *)
Typed ==
  /\ DesktopOK(desktop) /\ queue \in Seq(Events) /\ asking \in Questions
  /\ answers \in AnswersThere /\ view \in ViewsThere /\ turns \in 0..MaxTurns

Asked ==
  /\ asking = "nothing" <=> answers.of = "nothing"
  /\ asking = "clients" => TracksWindows
  /\ asking \in {"activewindow", "clients"} => answers.of = "seed"
  /\ answers.of = "seed" /\ queue # <<>> => raced
  /\ Some(queue, Numberings) => renumbered

Aimed == Ahead.focused \in Outputs /\ Ahead.shows[Ahead.focused] \in Addresses

RowsAhead == ~raced \/ OneOutput => Topology(queue, Ahead, desktop)
WindowsAhead == (~raced \/ ~renumbered) /\ TracksWindows => WindowsKnown(queue, AheadWindows, desktop)
FocusAhead ==
  ~renumbered /\ (~raced \/ OneOutput) => FocusKnown(queue, asking = "nothing", Ahead, AheadFocus, desktop)

DrivesOf(t) ==
  Drives({o \in Outputs : t.shows[o] # Absent}, t.shows, t.owner, t.focused_workspace, t.windows)

ToldSo ==
  /\ asking = "nothing" => told = DrivesOf(view)
  /\ \A o \in DOMAIN told : IsStop(told[o].x) /\ IsStop(told[o].y)

HyprInv == Typed /\ Asked /\ Aimed /\ RowsAhead /\ WindowsAhead /\ FocusAhead /\ ToldSo

(* One output, of the desktop as it is.                                    *)
LEMMA OneOutputIs == OneOutput <=> Lone(desktop)
  BY DEF OneOutput, Lone

(* A list that may begin with a change of numbers has one only there.      *)
LEMMA NumberingFirst ==
  ASSUME NEW E \in Seq(Events), \A i \in DOMAIN E : E[i] \in Numberings => i = 1
  PROVE  Some(E, Numberings) <=> E # <<>> /\ Head(E) \in Numberings
<1>1. E # <<>> => 1 \in DOMAIN E /\ Head(E) = E[1]
  BY QueueRead
<1>2. Some(E, Numberings) => E # <<>>
  BY LedEmpty
<1>. QED
  BY <1>1, <1>2 DEF Some

(* What is read next does not change with what is said after.              *)
LEMMA HeadJoined ==
  ASSUME NEW S, NEW q \in Seq(S), NEW r \in Seq(S)
  PROVE  /\ q # <<>> => q \o r # <<>> /\ Head(q \o r) = Head(q)
         /\ q = <<>> => q \o r = r
<1>1. q = <<>> => q \o r = r
  BY ConcatEmptySeq
<1>2. ASSUME q # <<>> PROVE q \o r # <<>> /\ Head(q \o r) = Head(q)
  <2>1. 1 \in DOMAIN q /\ Head(q) = q[1]
    BY <1>2, QueueRead
  <2>2. q \o r \in Seq(S) /\ 1 \in DOMAIN (q \o r) /\ (q \o r)[1] = q[1]
    BY <2>1, Joined
  <2>3. q \o r # <<>>
    BY <2>2, ShortSeqs
  <2>. QED
    BY <2>1, <2>2, <2>3, QueueRead
<1>. QED
  BY <1>1, <1>2

(* Where the windows will be, after a change.                              *)
LEMMA WindowsOvertaken ==
  ASSUME NEW F \in Seq(Events), queue \in Seq(Events), queue' = queue \o F,
         Peopled(desktop, desktop', F), UNCHANGED <<asking, answers, view>>,
         queue = <<>> \/ ~Some(F, Numberings), Some(F, Numberings) => asking = "nothing"
  PROVE  \/ \A x \in Windows : AheadWindows'[x] = desktop'.on[x]
         \/ /\ ~Some(F, Numberings) /\ \A x \in Windows : AheadWindows'[x] = AheadWindows[x]
         \/ /\ queue = <<>> /\ 1 \in DOMAIN F /\ F[1] \in Numberings
            /\ \A x \in Windows : AheadWindows'[x] = IF AheadWindows[x] = F[1].from THEN F[1].to ELSE AheadWindows[x]
<1>1. CASE asking # "nothing" /\ answers.of = "seed"
  BY <1>1 DEF AheadWindows
<1>2. CASE ~(asking # "nothing" /\ answers.of = "seed")
  <2>1. \A i \in DOMAIN F : F[i] \in Numberings => i = 1
    BY DEF Peopled
  <2>2. Some(F, Numberings) <=> F # <<>> /\ Head(F) \in Numberings
    BY <2>1, NumberingFirst
  <2>3. CASE ~Some(F, Numberings)
    <3>1. (queue' # <<>> /\ Head(queue') \in Numberings) <=> (queue # <<>> /\ Head(queue) \in Numberings)
      BY <2>2, <2>3, HeadJoined
    <3>2. queue # <<>> => Head(queue') = Head(queue)
      BY HeadJoined
    <3>3. AheadWindows' = AheadWindows
      BY <1>2, <3>1, <3>2 DEF AheadWindows
    <3>. QED
      BY <2>3, <3>3
  <2>4. CASE Some(F, Numberings)
    <3>1. queue = <<>> /\ queue' = F /\ F # <<>> /\ Head(F) \in Numberings
      BY <2>2, <2>4, HeadJoined
    <3>2. 1 \in DOMAIN F /\ Head(F) = F[1]
      BY <3>1, QueueRead
    <3>3. AheadWindows = view.windows
      BY <1>2, <3>1 DEF AheadWindows
    <3>4. AheadWindows' = [x \in Windows |-> IF view.windows[x] = F[1].from THEN F[1].to ELSE view.windows[x]]
      BY <1>2, <3>1, <3>2 DEF AheadWindows
    <3>. QED
      BY <3>1, <3>2, <3>3, <3>4
  <2>. QED
    BY <2>3, <2>4
<1>. QED
  BY <1>1, <1>2

(* A change of the desktop keeps the invariant.                            *)
LEMMA HyprChangeKeeps ==
  ASSUME HyprInv, HyprChanges, UNCHANGED settings
  PROVE  HyprInv'
<1>1. DesktopOK(desktop) /\ Ground(desktop) /\ queue \in Seq(Events) /\ answers \in AnswersThere /\ view \in ViewsThere
  BY DEF HyprInv, Typed, DesktopOK
<1>2. PICK F : SaidSo(F)
  BY <1>1, ChangeSays
<1>3. /\ Announced(desktop, desktop', F) /\ DesktopOK(desktop') /\ queue' = queue \o F
      /\ turns < MaxTurns /\ turns' = turns + 1 /\ asking' = asking /\ answers' = answers /\ view' = view /\ told' = told
  BY <1>2 DEF SaidSo, session
<1>4. /\ ~renumbered' => ~renumbered /\ ~Some(F, Numberings)
      /\ ~raced' => ~raced /\ asking = "nothing" /\ queue = <<>>
  BY <1>2 DEF SaidSo, Idle
<1>5. F \in Seq(Events) /\ Arranged(desktop, desktop', F) /\ Peopled(desktop, desktop', F)
      /\ (~Some(F, Numberings) => Attended(desktop, desktop', F))
  BY <1>3 DEF Announced
<1>6. Ground(desktop') /\ queue' \in Seq(Events) /\ (TracksWindows' <=> TracksWindows)
  BY <1>1, <1>3, <1>5, Joined DEF DesktopOK, TracksWindows
<1>7. OneOutput' <=> OneOutput
  BY <1>5 DEF OneOutput, Arranged
<1>8. /\ Overtaken(Ahead, desktop, Ahead', desktop')
      /\ asking \notin {"monitors", "workspaces"} => Ahead' = Ahead
      /\ Aimed'
  BY <1>1, <1>3, <1>6, AheadOvertaken DEF HyprInv, Aimed
<1>9. Typed'
  <2>1. turns' \in 0..MaxTurns
    BY <1>3, HyprAssumption DEF HyprInv, Typed
  <2>. QED
    BY <1>3, <1>6, <2>1 DEF HyprInv, Typed
<1>10. Asked'
  <2>1. Some(queue', Numberings) => renumbered'
    <3>1. Some(queue', Numberings) <=> Some(queue, Numberings) \/ Some(F, Numberings)
      BY <1>1, <1>3, <1>5, SomeJoined
    <3>. QED
      BY <1>4, <3>1 DEF HyprInv, Asked
  <2>2. answers'.of = "seed" /\ queue' # <<>> => raced'
    BY <1>3, <1>4 DEF HyprInv, Asked
  <2>. QED
    BY <1>3, <1>6, <2>1, <2>2 DEF HyprInv, Asked
<1>11. RowsAhead'
  <2>1. SUFFICES ASSUME ~raced' \/ OneOutput' PROVE Topology(queue', Ahead', desktop')
    BY DEF RowsAhead
  <2>2. Topology(queue, Ahead, desktop)
    BY <1>4, <1>7, <2>1 DEF HyprInv, RowsAhead
  <2>3. queue = <<>> \/ Lone(desktop)
    BY <1>4, <1>7, <2>1, OneOutputIs
  <2>4. Topology(queue \o F, Ahead', desktop')
    BY <1>1, <1>5, <1>6, <1>8, <2>2, <2>3, TopologySaid
  <2>. QED
    BY <1>3, <2>4
<1>12. WindowsAhead'
  <2>1. SUFFICES ASSUME ~raced' \/ ~renumbered', TracksWindows PROVE WindowsKnown(queue', AheadWindows', desktop')
    BY <1>6 DEF WindowsAhead
  <2>2. WindowsKnown(queue, AheadWindows, desktop)
    BY <1>4, <2>1 DEF HyprInv, WindowsAhead
  <2>3. queue = <<>> \/ ~Some(F, Numberings)
    BY <1>4, <2>1
  <2>4. Some(F, Numberings) => asking = "nothing"
    BY <1>4, <2>1
  <2>5. \/ \A x \in Windows : AheadWindows'[x] = desktop'.on[x]
        \/ /\ ~Some(F, Numberings) /\ \A x \in Windows : AheadWindows'[x] = AheadWindows[x]
        \/ /\ queue = <<>> /\ 1 \in DOMAIN F /\ F[1] \in Numberings
           /\ \A x \in Windows : AheadWindows'[x] = IF AheadWindows[x] = F[1].from THEN F[1].to ELSE AheadWindows[x]
    BY <1>1, <1>3, <1>5, <2>3, <2>4, WindowsOvertaken
  <2>6. WindowsKnown(queue \o F, AheadWindows', desktop')
    BY <1>1, <1>5, <1>6, <2>2, <2>3, <2>5, WindowsSaid
  <2>. QED
    BY <1>3, <2>6
<1>13. FocusAhead'
  <2>1. SUFFICES ASSUME ~renumbered', ~raced' \/ OneOutput'
                 PROVE  FocusKnown(queue', asking' = "nothing", Ahead', AheadFocus', desktop')
    BY DEF FocusAhead
  <2>2. FocusKnown(queue, asking = "nothing", Ahead, AheadFocus, desktop)
    BY <1>4, <1>7, <2>1 DEF HyprInv, FocusAhead
  <2>3. Topology(queue, Ahead, desktop)
    BY <1>4, <1>7, <2>1 DEF HyprInv, RowsAhead
  <2>4. Topology(queue \o F, Ahead', desktop')
    BY <1>3, <1>11, <2>1 DEF RowsAhead
  <2>5. ~Some(F, Numberings) /\ Attended(desktop, desktop', F)
    BY <1>4, <1>5, <2>1
  <2>6. (queue = <<>> /\ Ahead' = Ahead) \/ Lone(desktop)
    BY <1>4, <1>7, <1>8, <2>1, OneOutputIs
  <2>7. \/ AheadFocus' = AheadFocus
        \/ Lone(desktop) /\ AheadFocus' = Holding(Ahead', IF desktop'.win = None THEN None ELSE desktop'.on[desktop'.win])
    <3>1. CASE asking = "nothing" \/ answers.of # "seed"
      BY <1>3, <3>1 DEF AheadFocus
    <3>2. CASE asking = "clients"
      <4>1. Ahead' = Ahead
        BY <1>8, <3>2
      <4>. QED
        BY <1>3, <3>2, <4>1 DEF AheadFocus, Holding, Showing
    <3>3. CASE asking \notin {"nothing", "clients"} /\ answers.of = "seed"
      <4>1. Lone(desktop)
        BY <1>4, <1>7, <2>1, <3>3, OneOutputIs
      <4>2. AheadFocus' = Holding(Ahead', Active')
        BY <1>3, <3>3 DEF AheadFocus
      <4>. QED
        BY <4>1, <4>2 DEF Active
    <3>. QED
      BY <3>1, <3>2, <3>3
  <2>8. Ahead'.focused \in Outputs /\ Ahead'.shows[Ahead'.focused] \in Addresses
    BY <1>8 DEF Aimed
  <2>9. PICK quiet, G : quiet = (asking = "nothing") /\ G = AheadFocus'
    OBVIOUS
  <2>10. FocusKnown(queue \o F, quiet, Ahead', G, desktop')
    BY <1>1, <1>3, <1>5, <1>8, <2>2, <2>3, <2>4, <2>5, <2>6, <2>7, <2>8, <2>9, FocusSaid
  <2>. QED
    BY <1>3, <2>9, <2>10
<1>14. ToldSo'
  <2>1. settings' = settings
    OBVIOUS
  <2>2. DrivesOf(view)' = DrivesOf(view)
    BY <1>3, <2>1 DEF DrivesOf, Drives, TracksWindows, Blurred
  <2>. QED
    BY <1>3, <2>2 DEF HyprInv, ToldSo
<1>. QED
  BY <1>8, <1>9, <1>10, <1>11, <1>12, <1>13, <1>14 DEF HyprInv

(* A stop of a row is within the row.                                      *)
LEMMA RowStops ==
  ASSUME NEW owner, NEW o, NEW active
  PROVE  IsStop(RowStop(owner, o, active))
<1>1. PICK row : row = {s \in Addresses \ Named : owner[s] = o}
  OBVIOUS
<1>2. row \subseteq Addresses /\ IsFiniteSet(row) /\ Cardinality(row) \in Nat
  <2>1. row \subseteq Addresses /\ IsFiniteSet(Addresses)
    BY <1>1, HyprAssumption
  <2>. QED
    BY <2>1, FS_Subset, FS_CardinalityType
<1>3. RowStop(owner, o, active) =
        IF active \notin row \/ Cardinality(row) < 2 THEN Centred
        ELSE [rank |-> Cardinality({s \in row : s < active}), span |-> Cardinality(row) - 1]
  BY <1>1 DEF RowStop
<1>4. IsStop(Centred)
  BY DEF IsStop, Centred
<1>5. CASE active \in row /\ ~(Cardinality(row) < 2)
  <2>1. PICK before : before = {s \in row : s < active}
    OBVIOUS
  <2>2. before \subseteq row \ {active}
    BY <1>2, <2>1, <1>5, HyprAssumption
  <2>3. IsFiniteSet(row \ {active}) /\ Cardinality(row \ {active}) = Cardinality(row) - 1
    BY <1>2, <1>5, FS_RemoveElement
  <2>4. IsFiniteSet(before) /\ Cardinality(before) <= Cardinality(row \ {active}) /\ Cardinality(before) \in Nat
    BY <2>2, <2>3, FS_Subset, FS_CardinalityType
  <2>5. RowStop(owner, o, active) = [rank |-> Cardinality(before), span |-> Cardinality(row) - 1]
    BY <1>3, <1>5, <2>1
  <2>. QED
    BY <1>2, <1>5, <2>3, <2>4, <2>5 DEF IsStop
<1>. QED
  BY <1>3, <1>4, <1>5

(* What is driven is within its rows.                                      *)
LEMMA DrivesStop ==
  ASSUME NEW outputs, NEW shows, NEW owner, NEW fw, NEW windows, NEW D, D = Drives(outputs, shows, owner, fw, windows)
  PROVE  DOMAIN D = outputs /\ \A o \in outputs : IsStop(D[o].x) /\ IsStop(D[o].y)
<1>1. PICK reached : reached = {o \in outputs :
        IF settings[o].when = "focused"
        THEN fw # None /\ shows[o] = fw
        ELSE TracksWindows /\ \E x \in Windows : windows[x] = shows[o]}
  OBVIOUS
<1>2. D = [o \in outputs |->
        [x |-> ParamsAxis(settings[o].horizontal, RowStop(owner, o, shows[o])),
         y |-> ParamsAxis(settings[o].vertical, RowStop(owner, o, shows[o])),
         blur |-> Blurred(o, outputs, reached), zoom_out |-> FALSE]]
  BY <1>1 DEF Drives
<1>3. \A axis, stop : IsStop(stop) => IsStop(ParamsAxis(axis, stop))
  BY DEF ParamsAxis, IsStop, Centred
<1>4. ASSUME NEW o \in outputs PROVE IsStop(D[o].x) /\ IsStop(D[o].y)
  <2>1. /\ D[o].x = ParamsAxis(settings[o].horizontal, RowStop(owner, o, shows[o]))
        /\ D[o].y = ParamsAxis(settings[o].vertical, RowStop(owner, o, shows[o]))
    BY <1>2
  <2>2. IsStop(RowStop(owner, o, shows[o]))
    BY RowStops
  <2>. QED
    BY <1>3, <2>1, <2>2
<1>. QED
  BY <1>2, <1>4

(* What a view is driven to does not depend on what was told before.       *)
LEMMA RedriveIs ==
  ASSUME NEW t
  PROVE  Redrive(t) = DrivesOf(t)
<1>1. PICK outputs : outputs = {o \in Outputs : t.shows[o] # Absent}
  OBVIOUS
<1>2. PICK D : D = Drives(outputs, t.shows, t.owner, t.focused_workspace, t.windows)
  OBVIOUS
<1>3. DOMAIN D = outputs
  BY <1>2, DrivesStop
<1>4. Redrive(t) = [o \in outputs |-> IF o \in DOMAIN D THEN D[o]
                                      ELSE IF o \in DOMAIN told THEN told[o] ELSE Neutral]
  BY <1>1, <1>2 DEF Redrive, Folded
<1>5. D = [o \in outputs |-> D[o]]
  BY <1>2 DEF Drives
<1>6. Redrive(t) = D
  BY <1>3, <1>4, <1>5
<1>. QED
  BY <1>1, <1>2, <1>6 DEF DrivesOf

(* What is told is of the view.                                            *)
LEMMA RedriveSo ==
  ASSUME told' = Redrive(view'), UNCHANGED settings
  PROVE  ToldSo'
<1>1. told' = DrivesOf(view')
  BY RedriveIs
<1>2. DrivesOf(view)' = DrivesOf(view')
  BY DEF DrivesOf, Drives, TracksWindows, Blurred
<1>3. PICK D : D = DrivesOf(view')
  OBVIOUS
<1>4. \A o \in DOMAIN D : IsStop(D[o].x) /\ IsStop(D[o].y)
  BY <1>3, DrivesStop DEF DrivesOf
<1>. QED
  BY <1>1, <1>2, <1>3, <1>4 DEF ToldSo

(* Where the questions begin, and where there are none.                    *)
LEMMA NoAnswersThere ==
  /\ NoAnswers \in AnswersThere /\ NoAnswers.of = "nothing"
  /\ [NoAnswers EXCEPT !.of = "seed"] \in AnswersThere /\ [NoAnswers EXCEPT !.of = "seed"].of = "seed"
  /\ [NoAnswers EXCEPT !.of = "resync"] \in AnswersThere /\ [NoAnswers EXCEPT !.of = "resync"].of = "resync"
  BY DEF NoAnswers, AnswersThere

(* An event read keeps the invariant.                                      *)
LEMMA HeardKeeps ==
  ASSUME HyprInv, ReadEvent, UNCHANGED settings
  PROVE  HyprInv'
<1>1. DesktopOK(desktop) /\ Ground(desktop) /\ queue \in Seq(Events) /\ answers \in AnswersThere /\ view \in ViewsThere
  BY DEF HyprInv, Typed, DesktopOK
<1>2. /\ asking = "nothing" /\ queue # <<>> /\ queue' = Tail(queue) /\ view' = Hear(view, Head(queue))
      /\ desktop' = desktop /\ raced' = raced /\ renumbered' = renumbered /\ turns' = turns
  BY DEF ReadEvent
<1>3. PICK e \in Events : e = Head(queue)
  BY <1>1, <1>2, QueueRead
<1>4. queue' \in Seq(Events) /\ (TracksWindows' <=> TracksWindows) /\ (OneOutput' <=> OneOutput)
  BY <1>1, <1>2, QueueRead DEF TracksWindows, OneOutput
<1>5. Ahead = view /\ AheadFocus = view.focused_workspace
  BY <1>2 DEF Ahead, AheadFocus
<1>6. view.focused \in Outputs /\ view.shows[view.focused] \in Addresses
  BY <1>5 DEF HyprInv, Aimed
<1>7. AheadWindows = IF e \in Numberings
                     THEN [x \in Windows |-> IF view.windows[x] = e.from THEN e.to ELSE view.windows[x]]
                     ELSE view.windows
  BY <1>2, <1>3 DEF AheadWindows
<1>8. Some(queue', Numberings) => renumbered'
  BY <1>1, <1>2, SomeRead DEF HyprInv, Asked
<1>9. ASSUME (~raced \/ ~renumbered) /\ TracksWindows
      PROVE  WindowsKnown(queue', view'.windows, desktop) /\ ~Some(queue', Numberings)
  <2>1. WindowsKnown(queue, AheadWindows, desktop)
    BY <1>9 DEF HyprInv, WindowsAhead
  <2>2. \A x \in Windows : AheadWindows[x] = IF e \in Numberings
                                             THEN IF view.windows[x] = e.from THEN e.to ELSE view.windows[x]
                                             ELSE view.windows[x]
    BY <1>7
  <2>3. PICK w : w = AheadWindows
    OBVIOUS
  <2>4. /\ WindowsKnown(queue, w, desktop)
        /\ Rewritten(view, e, w)
    BY <2>1, <2>2, <2>3 DEF Rewritten
  <2>5. WindowsKnown(queue', view'.windows, desktop) /\ ~Some(queue', Numberings)
    <3>1. PICK r, W : r = Tail(queue) /\ W = Hear(view, e)
      OBVIOUS
    <3>2. TracksWindows
      BY <1>9
    <3>3. WindowsKnown(r, W.windows, desktop) /\ ~Some(r, Numberings)
      BY <1>1, <1>2, <1>3, <1>6, <2>4, <3>1, <3>2, WindowsRead
    <3>. QED
      BY <1>2, <1>3, <3>1, <3>3
  <2>. QED
    BY <2>5
<1>10. ASSUME (~raced \/ ~renumbered) /\ TracksWindows, answers'.of # "seed"
       PROVE  WindowsKnown(queue', AheadWindows', desktop')
  <2>1. queue' # <<>> => Head(queue') \notin Numberings
    BY <1>4, <1>9, <1>10, SomeRead
  <2>2. AheadWindows' = view'.windows
    BY <1>10, <2>1 DEF AheadWindows
  <2>. QED
    BY <1>2, <1>9, <1>10, <2>2
<1>11. CASE ~Unanswered(e)
  <2>1. asking' = "nothing" /\ answers' = answers /\ told' = Redrive(view')
    BY <1>2, <1>3, <1>11 DEF ReadEvent
  <2>2. Carried(view, e, view', desktop)
    BY <1>1, <1>2, <1>3, <1>6, <1>11, HearCarries
  <2>3. Ahead' = view' /\ AheadFocus' = view'.focused_workspace
    BY <2>1 DEF Ahead, AheadFocus
  <2>4. Typed'
    BY <1>1, <1>2, <1>4, <2>1, <2>2 DEF HyprInv, Typed, Carried
  <2>5. answers'.of = "nothing"
    BY <1>2, <2>1 DEF HyprInv, Asked
  <2>6. Asked'
    BY <1>8, <2>1, <2>5 DEF Asked
  <2>7. Aimed'
    <3>1. view'.focused \in Outputs /\ view'.shows[view'.focused] \in Addresses
      BY <1>6, <2>2, EventFields DEF Carried
    <3>. QED
      BY <2>3, <3>1 DEF Aimed
  <2>8. RowsAhead'
    <3>1. SUFFICES ASSUME ~raced \/ OneOutput PROVE Topology(queue', view', desktop)
      BY <1>2, <1>4, <2>3 DEF RowsAhead
    <3>2. Topology(queue, view, desktop)
      BY <1>5, <3>1 DEF HyprInv, RowsAhead
    <3>. QED
      BY <1>1, <1>2, <1>3, <1>6, <1>11, <3>2, TopologyRead
  <2>9. WindowsAhead'
    BY <1>2, <1>4, <1>10, <2>5 DEF WindowsAhead
  <2>10. FocusAhead'
    <3>1. SUFFICES ASSUME ~renumbered, ~raced \/ OneOutput
                   PROVE  FocusKnown(queue', TRUE, view', view'.focused_workspace, desktop)
      BY <1>2, <1>4, <2>1, <2>3 DEF FocusAhead
    <3>2. FocusKnown(queue, TRUE, view, view.focused_workspace, desktop)
      BY <1>2, <1>5, <3>1 DEF HyprInv, FocusAhead
    <3>3. ~Some(queue, Strange(desktop))
      BY <3>1 DEF HyprInv, RowsAhead, Topology
    <3>. QED
      BY <1>1, <1>2, <1>3, <1>6, <1>11, <3>2, <3>3, FocusRead
  <2>11. ToldSo'
    BY <2>1, RedriveSo
  <2>. QED
    BY <2>4, <2>6, <2>7, <2>8, <2>9, <2>10, <2>11 DEF HyprInv
<1>12. CASE Unanswered(e)
  <2>1. asking' = "monitors" /\ answers' = [NoAnswers EXCEPT !.of = "resync"] /\ told' = told
    BY <1>2, <1>3, <1>12 DEF ReadEvent
  <2>2. HeardUnsure(view, e, view')
    BY <1>1, <1>2, <1>3, <1>12, HearUnsure
  <2>3. view' \in ViewsThere /\ view'.focused_workspace = view.focused_workspace
    BY <2>2 DEF HeardUnsure
  <2>4. answers' \in AnswersThere /\ answers'.of = "resync"
    BY <2>1, NoAnswersThere
  <2>5. AheadFocus' = view.focused_workspace
    BY <2>3, <2>4 DEF AheadFocus
  <2>6. PICK U : U = Ahead'
    OBVIOUS
  <2>7. U = ReplaceTopology(view', desktop.shown, desktop.focus, desktop.owner)
    BY <1>2, <2>1, <2>6 DEF Ahead, AskedShown, AskedFocus, AskedOwner
  <2>8. PlacedSo(view', desktop.shown, desktop.focus, desktop.owner, U)
    BY <1>1, <2>3, <2>7, PlacedThere DEF Ground, DesktopsThere
  <2>9. Truly(U, desktop) /\ U.focused \in Outputs /\ U.shows[U.focused] \in Addresses
    BY <1>1, <2>8, PlacedTruly
  <2>10. Typed'
    BY <1>1, <1>2, <1>4, <2>1, <2>3, <2>4 DEF HyprInv, Typed, Questions
  <2>11. Asked'
    BY <1>8, <2>1, <2>4 DEF Asked
  <2>12. Aimed'
    BY <2>6, <2>9 DEF Aimed
  <2>13. RowsAhead'
    <3>1. SUFFICES ASSUME ~raced \/ OneOutput PROVE Topology(queue', U, desktop)
      BY <1>2, <1>4, <2>6 DEF RowsAhead
    <3>2. Steady(queue, desktop)
      BY <3>1, TopologyIs DEF HyprInv, RowsAhead
    <3>3. Steady(queue', desktop)
      BY <1>1, <1>2, <3>2, SteadyRead
    <3>. QED
      BY <2>9, <3>3, TopologyTruly
  <2>14. WindowsAhead'
    BY <1>2, <1>4, <1>10, <2>4 DEF WindowsAhead
  <2>15. FocusAhead'
    <3>1. SUFFICES ASSUME ~renumbered, ~raced \/ OneOutput
                   PROVE  FocusKnown(queue', FALSE, U, view.focused_workspace, desktop)
      BY <1>2, <1>4, <2>1, <2>5, <2>6 DEF FocusAhead
    <3>2. FocusKnown(queue, TRUE, view, view.focused_workspace, desktop)
      BY <1>2, <1>5, <3>1 DEF HyprInv, FocusAhead
    <3>. QED
      BY <1>1, <1>2, <1>3, <1>12, <2>9, <3>2, FocusUnsure
  <2>16. ToldSo'
    BY <2>1 DEF HyprInv, ToldSo
  <2>. QED
    BY <2>10, <2>11, <2>12, <2>13, <2>14, <2>15, <2>16 DEF HyprInv
<1>. QED
  BY <1>11, <1>12

(* Two views that place outputs and workspaces alike.                      *)
Alike(V, W) == W.shows = V.shows /\ W.owner = V.owner /\ W.focused = V.focused

(* What is known does not depend on windows or focus of the view.          *)
LEMMA AlikeKnown ==
  ASSUME NEW q, NEW V, NEW W, NEW d, NEW F, Alike(V, W)
  PROVE  /\ Topology(q, V, d) => Topology(q, W, d)
         /\ FocusKnown(q, FALSE, V, F, d) => FocusKnown(q, TRUE, W, F, d) /\ FocusKnown(q, FALSE, W, F, d)
<1>1. Topology(q, V, d) => Topology(q, W, d)
  BY TopologyIs DEF Alike, ShowsSo, OwnerSo
<1>2. Switched(q, FALSE) => Switched(q, TRUE)
  BY DEF Switched
<1>3. FocusKnown(q, FALSE, V, F, d) => FocusKnown(q, TRUE, W, F, d) /\ FocusKnown(q, FALSE, W, F, d)
  BY <1>2 DEF Alike, FocusKnown, Near
<1>. QED
  BY <1>1, <1>3

(* An answer changes nothing of what is ahead.                             *)
LEMMA StillAhead ==
  ASSUME HyprInv, asking # "nothing", UNCHANGED <<desktop, queue, raced, renumbered, turns, settings>>,
         Alike(Ahead, Ahead'), AheadFocus' = AheadFocus
  PROVE  Aimed' /\ RowsAhead' /\ FocusAhead'
<1>1. PICK V, W, F : V = Ahead /\ W = Ahead' /\ F = AheadFocus
  OBVIOUS
<1>2. Alike(V, W)
  BY <1>1
<1>3. OneOutput' <=> OneOutput
  BY DEF OneOutput
<1>4. Aimed'
  BY <1>1, <1>2 DEF HyprInv, Aimed, Alike
<1>5. RowsAhead'
  <2>1. SUFFICES ASSUME ~raced \/ OneOutput PROVE Topology(queue, W, desktop)
    BY <1>1, <1>3 DEF RowsAhead
  <2>2. Topology(queue, V, desktop)
    BY <1>1, <2>1 DEF HyprInv, RowsAhead
  <2>. QED
    BY <1>2, <2>2, AlikeKnown
<1>6. FocusAhead'
  <2>1. SUFFICES ASSUME ~renumbered, ~raced \/ OneOutput
                 PROVE  FocusKnown(queue, TRUE, W, F, desktop) /\ FocusKnown(queue, FALSE, W, F, desktop)
    BY <1>1, <1>3 DEF FocusAhead
  <2>2. FocusKnown(queue, FALSE, V, F, desktop)
    BY <1>1, <2>1 DEF HyprInv, FocusAhead
  <2>. QED
    BY <1>2, <2>2, AlikeKnown
<1>. QED
  BY <1>4, <1>5, <1>6

(* What is known of the windows stays where they do.                       *)
LEMMA SameWindows ==
  ASSUME HyprInv, AheadWindows' = AheadWindows, UNCHANGED <<desktop, queue, raced, renumbered, settings>>
  PROVE  WindowsAhead'
<1>1. TracksWindows' <=> TracksWindows
  BY DEF TracksWindows
<1>. QED
  BY <1>1 DEF HyprInv, WindowsAhead

(* The questions stay in order.                                            *)
LEMMA AskedStill ==
  ASSUME HyprInv, UNCHANGED <<queue, raced, renumbered, settings>>, answers'.of = answers.of,
         asking # "nothing", asking' # "nothing",
         asking' = "clients" => TracksWindows, asking' \in {"activewindow", "clients"} => answers.of = "seed"
  PROVE  Asked'
<1>1. TracksWindows' <=> TracksWindows
  BY DEF TracksWindows
<1>. QED
  BY <1>1 DEF HyprInv, Asked

(* A question answered that is not the last one.                           *)
LEMMA QuestionKeeps ==
  ASSUME HyprInv, UNCHANGED <<desktop, queue, view, told, raced, renumbered, turns, settings>>,
         asking # "nothing", asking' \in Questions \ {"nothing"}, answers' \in AnswersThere, answers'.of = answers.of,
         asking' = "clients" => TracksWindows, asking' \in {"activewindow", "clients"} => answers.of = "seed",
         Ahead' = Ahead, AheadFocus' = AheadFocus
  PROVE  HyprInv'
<1>1. Typed'
  BY DEF HyprInv, Typed
<1>2. Asked'
  BY AskedStill
<1>3. Aimed' /\ RowsAhead' /\ FocusAhead'
  BY StillAhead DEF Alike
<1>4. AheadWindows' = AheadWindows
  BY DEF AheadWindows
<1>5. WindowsAhead'
  BY <1>4, SameWindows
<1>6. ToldSo'
  BY DEF HyprInv, ToldSo
<1>. QED
  BY <1>1, <1>2, <1>3, <1>5, <1>6 DEF HyprInv

(* The last one is.                                                        *)
LEMMA AnsweredKeeps ==
  ASSUME HyprInv, UNCHANGED <<desktop, queue, raced, renumbered, turns, settings>>, asking # "nothing",
         NEW t, Answered(t), t \in ViewsThere, Alike(Ahead, t), t.focused_workspace = AheadFocus,
         (~raced \/ ~renumbered) /\ TracksWindows =>
            /\ answers.of = "seed" => t.windows = desktop.on
            /\ answers.of # "seed" => t.windows = view.windows
  PROVE  HyprInv'
<1>1. view' = t /\ told' = Redrive(t) /\ asking' = "nothing" /\ answers' = NoAnswers
  BY DEF Answered
<1>2. answers' \in AnswersThere /\ answers'.of = "nothing"
  BY <1>1, NoAnswersThere
<1>3. Ahead' = t /\ AheadFocus' = AheadFocus
  BY <1>1 DEF Ahead, AheadFocus
<1>4. Typed'
  BY <1>1, <1>2 DEF HyprInv, Typed, Questions
<1>5. Asked'
  BY <1>1, <1>2 DEF HyprInv, Asked
<1>6. Aimed' /\ RowsAhead' /\ FocusAhead'
  BY <1>3, StillAhead
<1>7. WindowsAhead'
  <2>1. TracksWindows' <=> TracksWindows
    BY DEF TracksWindows
  <2>2. SUFFICES ASSUME ~raced \/ ~renumbered, TracksWindows PROVE WindowsKnown(queue, AheadWindows', desktop)
    BY <2>1 DEF WindowsAhead
  <2>3. WindowsKnown(queue, AheadWindows, desktop)
    BY <2>2 DEF HyprInv, WindowsAhead
  <2>4. CASE answers.of = "seed"
    <3>1. ~(queue # <<>> /\ Head(queue) \in Numberings)
      <4>1. SUFFICES ASSUME queue # <<>>, Head(queue) \in Numberings PROVE FALSE
        OBVIOUS
      <4>2. queue \in Seq(Events)
        BY DEF HyprInv, Typed
      <4>3. Some(queue, Numberings)
        BY <4>1, <4>2, SomeRead
      <4>. QED
        BY <2>2, <2>4, <4>1, <4>3 DEF HyprInv, Asked
    <3>2. AheadWindows' = desktop.on
      BY <1>1, <2>2, <2>4, <3>1 DEF AheadWindows
    <3>3. AheadWindows = desktop.on
      BY <2>4 DEF AheadWindows
    <3>. QED
      BY <2>3, <3>2, <3>3
  <2>5. CASE answers.of # "seed"
    <3>1. view'.windows = view.windows
      BY <1>1, <2>2, <2>5
    <3>2. AheadWindows' = AheadWindows
      BY <1>1, <2>5, <3>1 DEF AheadWindows
    <3>. QED
      BY <2>3, <3>2
  <2>. QED
    BY <2>4, <2>5
<1>8. ToldSo'
  BY <1>1, RedriveSo
<1>. QED
  BY <1>4, <1>5, <1>6, <1>7, <1>8 DEF HyprInv

(* The monitors answered keep the invariant.                               *)
LEMMA AnswerMonitorsKeeps ==
  ASSUME HyprInv, AnswerMonitors, UNCHANGED settings
  PROVE  HyprInv'
<1>1. /\ asking = "monitors" /\ asking' = "workspaces"
      /\ answers' = [answers EXCEPT !.shown = desktop.shown, !.focus = desktop.focus]
      /\ UNCHANGED <<desktop, queue, view, told, raced, renumbered, turns>>
  BY DEF AnswerMonitors
<1>2. /\ answers' \in AnswersThere /\ answers'.of = answers.of
      /\ answers'.shown = desktop.shown /\ answers'.focus = desktop.focus
  BY <1>1 DEF HyprInv, Typed, DesktopOK, Ground, DesktopsThere, AnswersThere
<1>3. AskedShown' = AskedShown /\ AskedFocus' = AskedFocus /\ AskedOwner' = AskedOwner
  BY <1>1, <1>2 DEF AskedShown, AskedFocus, AskedOwner
<1>4. Ahead' = Ahead
  BY <1>1, <1>3 DEF Ahead
<1>5. AheadFocus' = AheadFocus
  BY <1>1, <1>2, <1>4 DEF AheadFocus, Active
<1>. QED
  BY <1>1, <1>2, <1>4, <1>5, QuestionKeeps DEF Questions

(* The workspaces answered keep the invariant: they end a resync, and go   *)
(* on with a snapshot.                                                     *)
LEMMA AnswerWorkspacesKeeps ==
  ASSUME HyprInv, AnswerWorkspaces, UNCHANGED settings
  PROVE  HyprInv'
<1>1. asking = "workspaces" /\ UNCHANGED <<desktop, queue, raced, renumbered, turns>>
  BY DEF AnswerWorkspaces
<1>2. CASE answers.of = "seed"
  <2>1. /\ asking' = "activewindow" /\ answers' = [answers EXCEPT !.owner = desktop.owner]
        /\ view' = view /\ told' = told
    BY <1>2 DEF AnswerWorkspaces
  <2>2. /\ answers' \in AnswersThere /\ answers'.of = answers.of
        /\ answers'.shown = answers.shown /\ answers'.focus = answers.focus /\ answers'.owner = desktop.owner
    BY <2>1 DEF HyprInv, Typed, DesktopOK, Ground, DesktopsThere, AnswersThere
  <2>3. AskedShown' = AskedShown /\ AskedFocus' = AskedFocus /\ AskedOwner' = AskedOwner
    BY <1>1, <2>1, <2>2 DEF AskedShown, AskedFocus, AskedOwner
  <2>4. Ahead' = Ahead
    BY <1>1, <2>1, <2>3 DEF Ahead
  <2>5. AheadFocus' = AheadFocus
    BY <1>1, <2>1, <2>2, <2>4 DEF AheadFocus, Active
  <2>. QED
    BY <1>1, <1>2, <2>1, <2>2, <2>4, <2>5, QuestionKeeps DEF Questions
<1>3. CASE answers.of # "seed"
  <2>1. PICK t : t = ReplaceTopology(view, answers.shown, answers.focus, desktop.owner)
    OBVIOUS
  <2>2. Answered(t)
    BY <1>3, <2>1 DEF AnswerWorkspaces
  <2>3. t = Ahead
    BY <1>1, <2>1 DEF Ahead, AskedShown, AskedFocus, AskedOwner
  <2>4. PlacedSo(view, AskedShown, AskedFocus, AskedOwner, t)
    BY <1>1, <2>3, AheadThere DEF HyprInv, Typed, DesktopOK
  <2>5. t \in ViewsThere /\ t.focused_workspace = view.focused_workspace /\ t.windows = view.windows
    BY <2>4 DEF PlacedSo
  <2>6. AheadFocus = view.focused_workspace
    BY <1>3 DEF AheadFocus
  <2>7. Alike(Ahead, t)
    BY <2>3 DEF Alike
  <2>. QED
    BY <1>1, <1>3, <2>2, <2>5, <2>6, <2>7, AnsweredKeeps
<1>. QED
  BY <1>2, <1>3

(* What a snapshot seeds is what is ahead.                                 *)
LEMMA SeedIs ==
  ASSUME HyprInv, asking \in {"activewindow", "clients"}, NEW a, a.shown = answers.shown, a.focus = answers.focus,
         a.owner = answers.owner, a.active = IF asking = "clients" THEN answers.active ELSE Active,
         TracksWindows => a.windows = desktop.on, NEW t, t = Seed(view, a)
  PROVE  /\ t \in ViewsThere /\ Alike(Ahead, t) /\ t.focused_workspace = AheadFocus
         /\ TracksWindows => t.windows = desktop.on
<1>1. PICK p : p = Ahead
  OBVIOUS
<1>2. p = ReplaceTopology(view, a.shown, a.focus, a.owner)
  BY <1>1 DEF Ahead, AskedShown, AskedFocus, AskedOwner
<1>3. answers.of = "seed"
  BY DEF HyprInv, Asked
<1>4. AheadFocus = Holding(p, a.active)
  BY <1>1, <1>3 DEF AheadFocus
<1>5. p \in ViewsThere
  <2>1. PlacedSo(view, AskedShown, AskedFocus, AskedOwner, Ahead)
    BY AheadThere DEF HyprInv, Typed, DesktopOK
  <2>. QED
    BY <1>1, <2>1 DEF PlacedSo
<1>6. a.active \in Addresses \cup {None}
  BY DEF Active, HyprInv, Typed, DesktopOK, Ground, DesktopsThere, AnswersThere
<1>7. Holding(p, a.active) \in Addresses \cup {None}
  BY <1>5, <1>6 DEF Holding, Showing, ViewsThere
<1>8. PICK fw \in Addresses \cup {None} : fw = Holding(p, a.active)
  BY <1>7
<1>9. PICK on : on = IF TracksWindows THEN a.windows ELSE p.windows
  OBVIOUS
<1>10. on \in [Windows -> Addresses \cup {None}]
  BY <1>5, <1>9 DEF HyprInv, Typed, DesktopOK, Ground, DesktopsThere, ViewsThere
<1>11. t = [p EXCEPT !.windows = on, !.focused_workspace = fw]
  BY <1>2, <1>8, <1>9 DEF Seed
<1>12. t \in ViewsThere /\ t.windows = on /\ t.focused_workspace = fw
       /\ t.shows = p.shows /\ t.owner = p.owner /\ t.focused = p.focused
  BY <1>5, <1>8, <1>10, <1>11 DEF ViewsThere
<1>. QED
  BY <1>1, <1>4, <1>8, <1>9, <1>12 DEF Alike

(* The focus answered keeps the invariant: it ends a snapshot unless the   *)
(* windows are wanted.                                                     *)
LEMMA AnswerActiveWindowKeeps ==
  ASSUME HyprInv, AnswerActiveWindow, UNCHANGED settings
  PROVE  HyprInv'
<1>1. asking = "activewindow" /\ answers.of = "seed" /\ UNCHANGED <<desktop, queue, raced, renumbered, turns>>
  BY DEF AnswerActiveWindow, HyprInv, Asked
<1>2. CASE TracksWindows
  <2>1. /\ asking' = "clients" /\ answers' = [answers EXCEPT !.active = Active]
        /\ view' = view /\ told' = told
    BY <1>2 DEF AnswerActiveWindow
  <2>2. Active \in Addresses \cup {None}
    BY DEF Active, HyprInv, Typed, DesktopOK, Ground, DesktopsThere
  <2>3. /\ answers' \in AnswersThere /\ answers'.of = answers.of /\ answers'.active = Active
        /\ answers'.shown = answers.shown /\ answers'.focus = answers.focus /\ answers'.owner = answers.owner
    BY <2>1, <2>2 DEF HyprInv, Typed, AnswersThere
  <2>4. AskedShown' = AskedShown /\ AskedFocus' = AskedFocus /\ AskedOwner' = AskedOwner
    BY <1>1, <2>1, <2>3 DEF AskedShown, AskedFocus, AskedOwner
  <2>5. Ahead' = Ahead
    BY <1>1, <2>1, <2>4 DEF Ahead
  <2>6. AheadFocus' = AheadFocus
    BY <1>1, <2>1, <2>3, <2>5 DEF AheadFocus
  <2>. QED
    BY <1>1, <1>2, <2>1, <2>3, <2>5, <2>6, QuestionKeeps DEF Questions
<1>3. CASE ~TracksWindows
  <2>1. PICK a : a = [shown |-> answers.shown, focus |-> answers.focus, owner |-> answers.owner, active |-> Active]
    OBVIOUS
  <2>2. PICK t : t = Seed(view, a)
    OBVIOUS
  <2>3. Answered(t)
    BY <1>3, <2>1, <2>2 DEF AnswerActiveWindow
  <2>4. t \in ViewsThere /\ Alike(Ahead, t) /\ t.focused_workspace = AheadFocus
    BY <1>1, <1>3, <2>1, <2>2, SeedIs
  <2>. QED
    BY <1>1, <1>3, <2>3, <2>4, AnsweredKeeps
<1>. QED
  BY <1>2, <1>3

(* The windows answered keep the invariant.                                *)
LEMMA AnswerClientsKeeps ==
  ASSUME HyprInv, AnswerClients, UNCHANGED settings
  PROVE  HyprInv'
<1>1. asking = "clients" /\ answers.of = "seed" /\ TracksWindows
      /\ UNCHANGED <<desktop, queue, raced, renumbered, turns>>
  BY DEF AnswerClients, Seeded, HyprInv, Asked
<1>2. PICK t : t = Seed(view, SeedAnswer)
  OBVIOUS
<1>3. Answered(t)
  BY <1>2 DEF AnswerClients, Seeded
<1>4. /\ t \in ViewsThere /\ Alike(Ahead, t) /\ t.focused_workspace = AheadFocus
      /\ t.windows = desktop.on
  BY <1>1, <1>2, SeedIs DEF SeedAnswer
<1>. QED
  BY <1>1, <1>3, <1>4, AnsweredKeeps

(* A snapshot with nothing unread is what is true.                         *)
LEMMA FreshKnown ==
  ASSUME NEW d, DesktopOK(d), NEW V, Truly(V, d), NEW on, on = IF d.win = None THEN None ELSE d.on[d.win]
  PROVE  Topology(<<>>, V, d) /\ WindowsKnown(<<>>, d.on, d) /\ FocusKnown(<<>>, FALSE, V, Holding(V, on), d)
<1>1. \A A, B : Led(<<>>, A, B) /\ ~Some(<<>>, A)
  BY LedEmpty
<1>2. Topology(<<>>, V, d)
  BY <1>1, TopologyTruly DEF Steady
<1>3. WindowsKnown(<<>>, d.on, d)
  BY <1>1, ShortSeqs DEF WindowsKnown
<1>4. Near(<<>>, V, d)
  <2>1. d.focus \in Outputs /\ d.shown[d.focus] # None
    BY DEF DesktopOK, Ground, DesktopsThere
  <2>. QED
    BY <2>1 DEF Truly, ShowsSo, Near
<1>5. Holding(V, on) = on
  <2>1. CASE d.win = None
    BY <2>1 DEF Holding
  <2>2. CASE d.win # None
    <3>1. on = d.on[d.win] /\ on # None
      BY <2>2 DEF DesktopOK, Ground
    <3>2. PICK o \in Outputs : d.shown[o] = on
      BY <2>2, <3>1 DEF DesktopOK, Ground, DesktopsThere
    <3>3. V.shows[o] = on
      BY <3>1, <3>2 DEF Truly, ShowsSo
    <3>. QED
      BY <3>1, <3>3 DEF Holding
  <2>. QED
    BY <2>1, <2>2
<1>6. Switched(<<>>, FALSE)
  BY <1>1, SwitchedNone
<1>7. FocusKnown(<<>>, FALSE, V, Holding(V, on), d)
  BY <1>1, <1>4, <1>5, <1>6 DEF FocusKnown
<1>. QED
  BY <1>2, <1>3, <1>7

(* A session begins.                                                       *)
SessionBegins ==
  /\ DesktopOK(desktop) /\ queue = <<>> /\ view = NewView
  /\ asking = "monitors" /\ answers = [NoAnswers EXCEPT !.of = "seed"]
  /\ turns \in 0..MaxTurns
  /\ \A o \in DOMAIN told : IsStop(told[o].x) /\ IsStop(told[o].y)

(* A session begins with the invariant.                                    *)
LEMMA SessionInv == SessionBegins => HyprInv
<1>1. SUFFICES ASSUME SessionBegins PROVE HyprInv
  OBVIOUS
<1>2. answers \in AnswersThere /\ answers.of = "seed"
  BY <1>1, NoAnswersThere DEF SessionBegins
<1>3. view \in ViewsThere
  BY <1>1 DEF SessionBegins, NewView, ViewsThere
<1>4. queue \in Seq(Events) /\ \A A : ~Some(queue, A)
  BY <1>1, LedEmpty, ShortSeqs DEF SessionBegins
<1>5. Typed
  BY <1>1, <1>2, <1>3, <1>4 DEF SessionBegins, Typed, Questions
<1>6. Asked
  BY <1>1, <1>2, <1>4 DEF SessionBegins, Asked
<1>7. PICK V : V = Ahead
  OBVIOUS
<1>8. PlacedSo(view, desktop.shown, desktop.focus, desktop.owner, V)
  <2>1. PlacedSo(view, AskedShown, AskedFocus, AskedOwner, Ahead)
    BY <1>1, <1>2, <1>3, AheadThere DEF SessionBegins, DesktopOK
  <2>. QED
    BY <1>1, <1>7, <2>1 DEF SessionBegins, AskedShown, AskedFocus, AskedOwner
<1>9. Truly(V, desktop) /\ V.focused \in Outputs /\ V.shows[V.focused] \in Addresses
  BY <1>1, <1>8, PlacedTruly DEF SessionBegins, DesktopOK
<1>10. Topology(<<>>, V, desktop) /\ WindowsKnown(<<>>, desktop.on, desktop)
       /\ FocusKnown(<<>>, FALSE, V, Holding(V, Active), desktop)
  BY <1>1, <1>9, FreshKnown DEF SessionBegins, Active
<1>11. AheadWindows = desktop.on /\ AheadFocus = Holding(V, Active)
  BY <1>1, <1>2, <1>7 DEF SessionBegins, AheadWindows, AheadFocus
<1>12. Aimed /\ RowsAhead /\ WindowsAhead /\ FocusAhead
  BY <1>1, <1>7, <1>9, <1>10, <1>11 DEF SessionBegins, Aimed, RowsAhead, WindowsAhead, FocusAhead
<1>13. ToldSo
  BY <1>1 DEF SessionBegins, ToldSo
<1>. QED
  BY <1>5, <1>6, <1>12, <1>13 DEF HyprInv

(* So does the program.                                                    *)
LEMMA HyprInitOK == HyprInit => HyprInv
<1>1. SUFFICES ASSUME HyprInit PROVE SessionBegins
  BY SessionInv
<1>2. /\ desktop \in [ports: SUBSET Outputs, monitors: (SUBSET Outputs) \ {{}}, shown: [Outputs -> Addresses \cup {None}],
                      owner: [Addresses -> Outputs \cup {None}], focus: Outputs,
                      win: {None}, on: {[x \in Windows |-> None]}]
      /\ desktop.focus \in desktop.monitors /\ desktop.monitors \subseteq desktop.ports
      /\ \A o \in Outputs : desktop.shown[o] # None <=> o \in desktop.monitors
      /\ \A o \in desktop.monitors : desktop.owner[desktop.shown[o]] = o
      /\ \A s \in Addresses : desktop.owner[s] # None => ShownOn(desktop, s) # {}
  BY <1>1 DEF HyprInit, Desktops
<1>3. desktop.win = None /\ \A x \in Windows : desktop.on[x] = None
  BY <1>2
<1>4. desktop \in DesktopsThere
  BY <1>2 DEF DesktopsThere
<1>5. \A s \in Addresses : desktop.owner[s] # None => \E o \in desktop.monitors : desktop.shown[o] = s
  BY <1>2 DEF ShownOn
<1>6. \A s \in Addresses : desktop.owner[s] \in desktop.monitors \cup {None}
  BY <1>2, <1>5
<1>7. Ground(desktop)
  BY <1>2, <1>3, <1>4, <1>6 DEF Ground
<1>8. DesktopOK(desktop)
  BY <1>3, <1>5, <1>7 DEF DesktopOK
<1>. QED
  BY <1>1, <1>8, HyprAssumption DEF HyprInit, SessionBegins

(* A connection begins a session.                                          *)
LEMMA ConnectKeeps ==
  ASSUME HyprInv, Connect
  PROVE  SessionBegins'
<1>1. turns' \in 0..MaxTurns
  BY HyprAssumption DEF Connect, HyprInv, Typed
<1>. QED
  BY <1>1 DEF Connect, HyprInv, Typed, ToldSo, SessionBegins, NewView, NoAnswers

(* A step of nothing keeps the invariant.                                  *)
LEMMA UnchangedKeeps ==
  ASSUME HyprInv, UNCHANGED hyprVars
  PROVE  HyprInv'
  BY DEF HyprInv, Typed, Asked, Aimed, RowsAhead, WindowsAhead, FocusAhead, ToldSo, hyprVars,
         Ahead, AskedShown, AskedFocus, AskedOwner, AheadWindows, AheadFocus, Active, OneOutput,
         TracksWindows, DrivesOf, Drives, Blurred

(* Once all was read, told is what is true.                                *)
LEMMA RowSame ==
  ASSUME NEW own, NEW owner, NEW o, NEW active, \A s \in Addresses : own[s] = o <=> owner[s] = o
  PROVE  RowStop(own, o, active) = RowStop(owner, o, active)
<1>1. {s \in Addresses \ Named : own[s] = o} = {s \in Addresses \ Named : owner[s] = o}
  OBVIOUS
<1>. QED
  BY <1>1 DEF RowStop

(* The outputs that the focus or the windows reach.                        *)
Reached(outputs, shows, fw, windows) ==
  {o \in outputs :
        IF settings[o].when = "focused"
        THEN fw # None /\ shows[o] = fw
        ELSE TracksWindows /\ \E x \in Windows : windows[x] = shows[o]}

(* What an output is driven to, channel by channel.                        *)
LEMMA DrivesIs ==
  ASSUME NEW outputs, NEW shows, NEW owner, NEW fw, NEW windows, NEW o \in outputs
  PROVE  LET D == Drives(outputs, shows, owner, fw, windows)
         IN /\ D[o].x = ParamsAxis(settings[o].horizontal, RowStop(owner, o, shows[o]))
            /\ D[o].y = ParamsAxis(settings[o].vertical, RowStop(owner, o, shows[o]))
            /\ D[o].blur = Blurred(o, outputs, Reached(outputs, shows, fw, windows))
  BY DEF Drives, Reached

(* The invariant shows that snapshots converge.                            *)
LEMMA HyprInvShows == HyprInv => SnapshotsConverge
<1>1. SUFFICES ASSUME HyprInv PROVE SnapshotsConverge
  OBVIOUS
<1>2. HyprTypeOK
  BY <1>1 DEF HyprInv, Typed, ToldSo, HyprTypeOK, ViewsThere, AnswersThere
<1>3. \A A : ~Some(<<>>, A)
  BY LedEmpty
<1>4. DesktopOK(desktop) /\ desktop \in DesktopsThere /\ view \in ViewsThere
  BY <1>1 DEF HyprInv, Typed, DesktopOK, Ground
<1>5. ASSUME Idle, ~raced \/ OneOutput
      PROVE  /\ Truly(view, desktop)
             /\ {o \in Outputs : view.shows[o] # Absent} = desktop.monitors
             /\ \A o \in desktop.monitors : view.shows[o] = desktop.shown[o]
  <2>1. Ahead = view /\ queue = <<>>
    BY <1>5 DEF Idle, Ahead
  <2>2. Topology(<<>>, view, desktop)
    BY <1>1, <1>5, <2>1 DEF HyprInv, RowsAhead
  <2>3. Truly(view, desktop)
    BY <1>3, <2>2 DEF Topology, Truly
  <2>4. \A o \in Outputs : view.shows[o] = IF desktop.shown[o] = None THEN Absent ELSE desktop.shown[o]
    BY <2>3 DEF Truly, ShowsSo
  <2>5. \A o \in Outputs : (desktop.shown[o] # None <=> o \in desktop.monitors) /\ desktop.shown[o] # Absent
    BY <1>4, HyprAssumption DEF DesktopOK, Ground, DesktopsThere
  <2>6. desktop.monitors \subseteq Outputs
    BY <1>4 DEF DesktopsThere
  <2>. QED
    BY <2>3, <2>4, <2>5, <2>6
<1>6. Idle => told = DrivesOf(view)
  BY <1>1 DEF HyprInv, ToldSo, Idle
<1>7. ~raced \/ OneOutput => RowsConverge
  <2>1. SUFFICES ASSUME ~raced \/ OneOutput, Idle
                 PROVE  /\ DOMAIN told = desktop.monitors
                        /\ \A o \in desktop.monitors : told[o].x = Truth[o].x /\ told[o].y = Truth[o].y
    BY DEF RowsConverge
  <2>2. told = Drives(desktop.monitors, view.shows, view.owner, view.focused_workspace, view.windows)
    BY <1>5, <1>6, <2>1 DEF DrivesOf
  <2>3. DOMAIN told = desktop.monitors
    BY <2>2, DrivesStop
  <2>4. ASSUME NEW o \in desktop.monitors PROVE told[o].x = Truth[o].x /\ told[o].y = Truth[o].y
    <3>1. o \in Outputs /\ o # None /\ o # Absent
      BY <1>4, HyprAssumption, ChannelsAssumption DEF DesktopsThere
    <3>2. \A s \in Addresses : view.owner[s] = o <=> desktop.owner[s] = o
      BY <1>5, <2>1, <3>1 DEF Truly, OwnerSo
    <3>3. view.shows[o] = desktop.shown[o]
      BY <1>5, <2>1
    <3>4. RowStop(view.owner, o, view.shows[o]) = RowStop(desktop.owner, o, desktop.shown[o])
      BY <3>2, <3>3, RowSame
    <3>5. /\ told[o].x = ParamsAxis(settings[o].horizontal, RowStop(view.owner, o, view.shows[o]))
          /\ told[o].y = ParamsAxis(settings[o].vertical, RowStop(view.owner, o, view.shows[o]))
      BY <2>2, DrivesIs
    <3>6. /\ Truth[o].x = ParamsAxis(settings[o].horizontal, RowStop(desktop.owner, o, desktop.shown[o]))
          /\ Truth[o].y = ParamsAxis(settings[o].vertical, RowStop(desktop.owner, o, desktop.shown[o]))
      BY DrivesIs DEF Truth
    <3>. QED
      BY <3>4, <3>5, <3>6
  <2>. QED
    BY <2>3, <2>4
<1>8. ~raced \/ ~renumbered => WindowsConverge
  <2>1. SUFFICES ASSUME ~raced \/ ~renumbered, Idle, TracksWindows PROVE view.windows = desktop.on
    BY DEF WindowsConverge
  <2>2. queue = <<>> /\ AheadWindows = view.windows
    BY <2>1 DEF Idle, AheadWindows
  <2>3. WindowsKnown(<<>>, view.windows, desktop)
    BY <1>1, <2>1, <2>2 DEF HyprInv, WindowsAhead
  <2>4. \A x \in Windows : view.windows[x] = desktop.on[x]
    BY <1>3, <2>3 DEF WindowsKnown
  <2>5. view.windows \in [Windows -> Addresses \cup {None}] /\ desktop.on \in [Windows -> Addresses \cup {None}]
    BY <1>4 DEF ViewsThere, DesktopsThere
  <2>. QED
    BY <2>4, <2>5
<1>9. ASSUME ~renumbered, ~raced \/ OneOutput, Idle PROVE view.focused_workspace = Active
  <2>1. Ahead = view /\ queue = <<>> /\ AheadFocus = view.focused_workspace /\ asking = "nothing"
    BY <1>9 DEF Idle, Ahead, AheadFocus
  <2>2. FocusKnown(<<>>, TRUE, view, view.focused_workspace, desktop)
    BY <1>1, <1>9, <2>1 DEF HyprInv, FocusAhead
  <2>. QED
    BY <1>3, <2>2 DEF FocusKnown, Active
<1>10. (~raced /\ ~FollowsFocus) \/ (~renumbered /\ (~raced \/ OneOutput)) => BlurConverges
  <2>1. SUFFICES ASSUME (~raced /\ ~FollowsFocus) \/ (~renumbered /\ (~raced \/ OneOutput)), Idle,
                        NEW o \in desktop.monitors
                 PROVE  told[o].blur = Truth[o].blur
    BY DEF BlurConverges
  <2>2. told = Drives(desktop.monitors, view.shows, view.owner, view.focused_workspace, view.windows)
    BY <1>5, <1>6, <2>1 DEF DrivesOf
  <2>3. \A p \in desktop.monitors : p \in Outputs /\ view.shows[p] = desktop.shown[p]
    BY <1>4, <1>5, <2>1 DEF DesktopsThere
  <2>4. TracksWindows => view.windows = desktop.on
    BY <1>8, <2>1 DEF WindowsConverge
  <2>5. \A p \in Outputs : settings[p].when = "focused" => view.focused_workspace = Active
    BY <1>9, <2>1 DEF FollowsFocus
  <2>6. Reached(desktop.monitors, view.shows, view.focused_workspace, view.windows)
        = Reached(desktop.monitors, desktop.shown, Active, desktop.on)
    BY <2>3, <2>4, <2>5 DEF Reached
  <2>7. told[o].blur = Blurred(o, desktop.monitors,
                               Reached(desktop.monitors, view.shows, view.focused_workspace, view.windows))
    BY <2>2, DrivesIs
  <2>8. Truth[o].blur = Blurred(o, desktop.monitors,
                                Reached(desktop.monitors, desktop.shown, Active, desktop.on))
    BY DrivesIs DEF Truth
  <2>. QED
    BY <2>6, <2>7, <2>8
<1>. QED
  BY <1>2, <1>7, <1>8, <1>10 DEF SnapshotsConverge

(* Snapshots converge (SnapshotsConverge): whatever Hyprland does, and     *)
(* whichever questions a snapshot or a resync has open while it does, once *)
(* all was read the Hyprland tracker drives every output as it truly is,   *)
(* as far as no change overtook the questions.                             *)
THEOREM SnapshotsProved == HyprSpec => []SnapshotsConverge
<1>1. HyprInv /\ [HyprNext]_hyprVars => HyprInv'
  <2>1. HyprInv /\ Connect => SessionBegins'
    BY ConnectKeeps
  <2>2. SessionBegins' => HyprInv'
    BY SessionInv, PTL
  <2>3. SUFFICES ASSUME HyprInv, [HyprNext]_hyprVars PROVE HyprInv'
    OBVIOUS
  <2>4. CASE UNCHANGED hyprVars
    BY <2>3, <2>4, UnchangedKeeps
  <2>5. CASE HyprNext
    <3>1. UNCHANGED settings
      BY <2>5 DEF HyprNext
    <3>2. CASE HyprChanges
      BY <2>3, <3>1, <3>2, HyprChangeKeeps
    <3>3. CASE Connect
      BY <2>1, <2>2, <2>3, <3>3
    <3>4. CASE ReadEvent
      BY <2>3, <3>1, <3>4, HeardKeeps
    <3>5. CASE AnswerMonitors
      BY <2>3, <3>1, <3>5, AnswerMonitorsKeeps
    <3>6. CASE AnswerWorkspaces
      BY <2>3, <3>1, <3>6, AnswerWorkspacesKeeps
    <3>7. CASE AnswerActiveWindow
      BY <2>3, <3>1, <3>7, AnswerActiveWindowKeeps
    <3>8. CASE AnswerClients
      BY <2>3, <3>1, <3>8, AnswerClientsKeeps
    <3>. QED
      BY <2>5, <3>2, <3>3, <3>4, <3>5, <3>6, <3>7, <3>8 DEF HyprNext
  <2>. QED
    BY <2>3, <2>4, <2>5
<1>2. HyprInit => HyprInv
  BY HyprInitOK
<1>3. HyprInv => SnapshotsConverge
  BY HyprInvShows
<1>. QED
  BY <1>1, <1>2, <1>3, PTL DEF HyprSpec
=============================================================================
