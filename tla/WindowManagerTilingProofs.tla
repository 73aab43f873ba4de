---------------------- MODULE WindowManagerTilingProofs ----------------------
(***************************************************************************)
(* The handlers on linked structs implement Tiling, for any number of      *)
(* windows, structs, workspaces and rows and any screen.  A desk mirrors   *)
(* a mawim record when it says of each listed window what its struct says; *)
(* each function of src/window.c takes records that a desk mirrors to      *)
(* records that the desk of Tiling's function mirrors.                     *)
(***************************************************************************)
EXTENDS WindowManagerTiling, WindowManagerProofs

-----------------------------------------------------------------------------
\* Desks and records.

Desks ==
  [workspace  : [Windows -> Workspaces \cup {0}],
   row        : [Windows -> Int],
   col        : [Windows -> Int],
   geometry   : [Windows -> Rect],
   row_count  : [Workspaces -> Int],
   active_row : [Workspaces -> Int]]

Name(m, s) == m.heap[s].x11_window

\* The desk d says of every window what the structs of m say.
Mirrors(m, d) ==
  /\ d \in Desks
  /\ d.row_count = m.row_count /\ d.active_row = m.active_row
  /\ \A s \in Allocated(m.heap) :
       /\ d.workspace[Name(m, s)] = m.heap[s].workspace
       /\ d.row[Name(m, s)] = m.heap[s].row
       /\ d.col[Name(m, s)] = m.heap[s].col
       /\ d.geometry[Name(m, s)] = m.heap[s].geometry
  /\ \A w \in Windows \ WindowsOf(m.heap) :
       d.workspace[w] = 0 /\ d.row[w] = -1 /\ d.col[w] = -1 /\ d.geometry[w] = NoTile

\* The lists are the homes of the structs.
Settled(m) ==
  /\ m \in Mawim
  /\ Alone(m.heap)
  /\ \A i \in Workspaces : OnList(m, i) = Home(m.heap, i)

LEMMA TidySettled ==
  ASSUME NEW m, Tidy(m)
  PROVE  Settled(m)
  BY TidyLists DEF Tidy, Settled

LEMMA SettledSame ==
  ASSUME NEW m, Settled(m), NEW a \in Mawim, SameLists(a, m)
  PROVE  Settled(a) /\ Allocated(a.heap) = Allocated(m.heap)
         /\ \A s \in Allocated(m.heap) : Name(a, s) = Name(m, s)
<1>1. /\ \A i \in Workspaces : OnList(a, i) = OnList(m, i)
      /\ Allocated(a.heap) = Allocated(m.heap)
  BY SameListsSame DEF Settled
<1>2. \A s \in Allocated(m.heap) : /\ a.heap[s].workspace = m.heap[s].workspace
                                   /\ Name(a, s) = Name(m, s)
  BY DEF SameLists, SameLinks, Allocated, Name
<1>3. \A i \in Workspaces : Home(a.heap, i) = Home(m.heap, i)
  BY <1>1, <1>2 DEF Home
<1>4. Alone(a.heap)
  BY <1>1, <1>2 DEF Settled, Alone, Name
<1> QED BY <1>1, <1>2, <1>3, <1>4 DEF Settled

\* What a struct of m is.
LEMMA StructType ==
  ASSUME NEW m \in Mawim, NEW s \in Allocated(m.heap)
  PROVE  /\ s \in Structs /\ m.heap[s] \in Window
         /\ Name(m, s) \in Windows /\ Name(m, s) \in WindowsOf(m.heap)
         /\ m.heap[s].workspace \in Workspaces
         /\ m.heap[s].row \in Int /\ m.heap[s].col \in Int /\ m.heap[s].geometry \in Rect
<1>1. s \in Structs /\ m.heap[s] \in Window
  BY DEF Mawim, Heap, Allocated
<1> QED BY <1>1 DEF Window, Rect, Name, WindowsOf

\* At most one desk mirrors a record.
LEMMA MirrorsOne ==
  ASSUME NEW m, NEW d, NEW e, Mirrors(m, d), Mirrors(m, e)
  PROVE  d = e
<1>1. \A w \in Windows : /\ d.workspace[w] = e.workspace[w] /\ d.row[w] = e.row[w]
                         /\ d.col[w] = e.col[w] /\ d.geometry[w] = e.geometry[w]
  <2> TAKE w \in Windows
  <2>1. CASE w \in WindowsOf(m.heap)
    <3>1. PICK s \in Allocated(m.heap) : Name(m, s) = w
      BY <2>1 DEF WindowsOf, Name
    <3> QED BY <3>1 DEF Mirrors
  <2>2. CASE w \notin WindowsOf(m.heap)
    BY <2>2 DEF Mirrors
  <2> QED BY <2>1, <2>2
<1>2. d \in Desks /\ e \in Desks /\ d.row_count = e.row_count /\ d.active_row = e.active_row
  BY DEF Mirrors
<1>3. d.workspace \in [Windows -> Workspaces \cup {0}] /\ e.workspace \in [Windows -> Workspaces \cup {0}]
      /\ d.row \in [Windows -> Int] /\ e.row \in [Windows -> Int]
      /\ d.col \in [Windows -> Int] /\ e.col \in [Windows -> Int]
      /\ d.geometry \in [Windows -> Rect] /\ e.geometry \in [Windows -> Rect]
  BY <1>2 DEF Desks
<1>4. d.workspace = e.workspace
  BY <1>1, <1>3
<1>5. d.row = e.row
  BY <1>1, <1>3
<1>6. d.col = e.col
  BY <1>1, <1>3
<1>7. d.geometry = e.geometry
  BY <1>1, <1>3
<1> QED BY <1>2, <1>4, <1>5, <1>6, <1>7 DEF Desks

\* The refinement mapping is a desk that mirrors the record.
LEMMA DeskMirrors ==
  ASSUME NEW m, Tidy(m)
  PROVE  Mirrors(m, Desk(m))
<1>1. m \in Mawim
  BY DEF Tidy, Sound
<1>2. ASSUME NEW s \in Allocated(m.heap)
      PROVE  SlotOf(m, Name(m, s)) = m.heap[s]
  <2>1. Name(m, s) \in Windows /\ m.heap[s].workspace \in Workspaces
    BY <1>1, StructType
  <2>2. /\ FindInWorkspaces(m, Name(m, s)) = m.heap[s].workspace
        /\ FindWindow(m, m.heap[s].workspace, Name(m, s)) = s
    BY <2>1, TidyFinds DEF Name
  <2>3. m.heap[s].workspace # 0
    BY <2>1, WorkspacesNumbers
  <2> QED BY <2>2, <2>3 DEF SlotOf
<1>3. ASSUME NEW w \in Windows \ WindowsOf(m.heap)
      PROVE  SlotOf(m, w) = [workspace |-> 0, row |-> -1, col |-> -1, geometry |-> NoTile]
  <2>1. FindInWorkspaces(m, w) = 0
    BY TidyFinds
  <2> QED BY <2>1 DEF SlotOf
<1>4. ASSUME NEW w \in Windows
      PROVE  /\ SlotOf(m, w).workspace \in Workspaces \cup {0} /\ SlotOf(m, w).geometry \in Rect
             /\ SlotOf(m, w).row \in Int /\ SlotOf(m, w).col \in Int
  <2>1. CASE w \in WindowsOf(m.heap)
    <3>1. PICK s \in Allocated(m.heap) : Name(m, s) = w
      BY <2>1 DEF WindowsOf, Name
    <3> QED BY <1>1, <1>2, <3>1, StructType
  <2>2. CASE w \notin WindowsOf(m.heap)
    BY <1>3, <2>2 DEF NoTile, Rect
  <2> QED BY <2>1, <2>2
<1>5. m.row_count \in [Workspaces -> Int] /\ m.active_row \in [Workspaces -> Int]
  BY <1>1 DEF Mawim
<1>6. Desk(m) \in Desks
  BY <1>4, <1>5 DEF Desk, Desks
<1>7. \A s \in Allocated(m.heap) : Name(m, s) \in Windows
  BY <1>1, StructType
<1> QED BY <1>2, <1>3, <1>6, <1>7 DEF Mirrors, Desk

\* A desk that mirrors a tidy record is the one it is mapped to.
LEMMA MirrorsDesk ==
  ASSUME NEW m, Tidy(m), NEW d, Mirrors(m, d)
  PROVE  d = Desk(m)
  BY DeskMirrors, MirrorsOne

\* What a desk shows is in the places of the structs and the rows.
LEMMA MirrorsPlaces ==
  ASSUME NEW m, NEW a, NEW d, Mirrors(m, d), Allocated(a.heap) = Allocated(m.heap),
         SamePlaces(a.heap, m.heap, Allocated(m.heap)),
         a.row_count = m.row_count, a.active_row = m.active_row
  PROVE  Mirrors(a, d)
<1>1. \A s \in Allocated(m.heap) :
        /\ a.heap[s].x11_window = m.heap[s].x11_window /\ a.heap[s].workspace = m.heap[s].workspace
        /\ a.heap[s].row = m.heap[s].row /\ a.heap[s].col = m.heap[s].col
        /\ a.heap[s].geometry = m.heap[s].geometry
  BY DEF SamePlaces, Allocated
<1>2. WindowsOf(a.heap) = WindowsOf(m.heap)
  BY <1>1 DEF WindowsOf
<1> QED BY <1>1, <1>2 DEF Mirrors, Name
-----------------------------------------------------------------------------
\* Counting the windows of a row.

\* As many windows as structs.
LEMMA NamesCounted ==
  ASSUME NEW m \in Mawim, Alone(m.heap), NEW S \in SUBSET Allocated(m.heap)
  PROVE  Cardinality({Name(m, s) : s \in S}) = Cardinality(S)
<1> DEFINE T == {Name(m, s) : s \in S}
           f == [s \in S |-> Name(m, s)]
<1>1. S \subseteq Structs
  BY DEF Allocated
<1>2. IsFiniteSet(S)
  BY <1>1, FS_Subset, WindowManagerAssumption
<1>3. f \in [S -> T] /\ \A w \in T : \E s \in S : f[s] = w
  OBVIOUS
<1>4. \A s, t \in S : f[s] = f[t] => s = t
  BY DEF Alone, Name
<1>5. f \in Bijection(S, T)
  BY <1>3, <1>4 DEF Bijection, Injection, Surjection, IsInjective
<1>6. ExistsBijection(S, T)
  BY <1>5 DEF ExistsBijection
<1> QED BY <1>2, <1>6, FS_Bijection

\* The instance of Tiling counts as this module does.
LEMMA SameCardinality ==
  ASSUME NEW S
  PROVE  Layout!Cardinality(S) = Cardinality(S)
  BY DEF Cardinality, Layout!Cardinality

\* The windows that a desk has on a row are those of mawim_get_wins_on_row.
LEMMA RowMirrored ==
  ASSUME NEW m, Settled(m), NEW d, Mirrors(m, d), NEW i \in Workspaces, NEW r
  PROVE  /\ WinsOnRow(m, i, r) = {s \in Home(m.heap, i) : m.heap[s].row = r}
         /\ Layout!WinsOnRow(d, i, r) = {Name(m, s) : s \in WinsOnRow(m, i, r)}
         /\ Cardinality(Layout!WinsOnRow(d, i, r)) = Cardinality(WinsOnRow(m, i, r))
         /\ \A s \in Allocated(m.heap) :
              Name(m, s) \in Layout!WinsOnRow(d, i, r) <=> s \in WinsOnRow(m, i, r)
<1>1. m \in Mawim /\ Alone(m.heap) /\ OnList(m, i) = Home(m.heap, i) /\ i # 0
  BY WorkspacesNumbers DEF Settled
<1>2. WinsOnRow(m, i, r) = {s \in Home(m.heap, i) : m.heap[s].row = r}
  BY <1>1 DEF WinsOnRow, Home
<1>3. ASSUME NEW s \in Allocated(m.heap)
      PROVE  Name(m, s) \in Layout!WinsOnRow(d, i, r) <=> s \in WinsOnRow(m, i, r)
  <2>1. Name(m, s) \in Windows
    BY <1>1, StructType
  <2> QED BY <1>2, <2>1 DEF Layout!WinsOnRow, Layout!OnWorkspace, Mirrors, Home
<1>4. ASSUME NEW w \in Layout!WinsOnRow(d, i, r)
      PROVE  \E s \in Allocated(m.heap) : Name(m, s) = w
  <2>1. w \in Windows /\ d.workspace[w] = i
    BY DEF Layout!WinsOnRow, Layout!OnWorkspace
  <2>2. w \in WindowsOf(m.heap)
    BY <1>1, <2>1 DEF Mirrors
  <2> QED BY <2>2 DEF WindowsOf, Name
<1>5. WinsOnRow(m, i, r) \in SUBSET Allocated(m.heap)
  BY <1>2 DEF Home
<1>6. Layout!WinsOnRow(d, i, r) = {Name(m, s) : s \in WinsOnRow(m, i, r)}
  BY <1>3, <1>4, <1>5
<1>7. Cardinality(Layout!WinsOnRow(d, i, r)) = Cardinality(WinsOnRow(m, i, r))
  BY <1>1, <1>5, <1>6, NamesCounted
<1> QED BY <1>2, <1>3, <1>6, <1>7
-----------------------------------------------------------------------------
\* mawim_update_window.

LEMMA TileMirrored ==
  ASSUME NEW m, Settled(m), NEW d, Mirrors(m, d), NEW s \in Allocated(m.heap)
  PROVE  TileOf(m, s) = Layout!TileOf(d, Name(m, s))
<1> DEFINE i == m.heap[s].workspace
           r == m.heap[s].row
<1>1. i \in Workspaces
  BY StructType DEF Settled
<1>2. /\ d.workspace[Name(m, s)] = i /\ d.row[Name(m, s)] = r
      /\ d.col[Name(m, s)] = m.heap[s].col /\ d.row_count = m.row_count
  BY DEF Mirrors
<1>3. Cardinality(Layout!WinsOnRow(d, i, r)) = Cardinality(WinsOnRow(m, i, r))
  BY <1>1, RowMirrored
<1>4. /\ d.workspace[Name(m, s)] = m.heap[s].workspace
      /\ d.row[Name(m, s)] = m.heap[s].row
  BY <1>2
<1>5. Cardinality(Layout!WinsOnRow(d, d.workspace[Name(m, s)], d.row[Name(m, s)]))
        = Cardinality(WinsOnRow(m, m.heap[s].workspace, m.heap[s].row))
  BY <1>2, <1>3
<1> QED BY <1>2, <1>4, <1>5, SameCardinality DEF TileOf, Layout!TileOf, AtLeastOne, Layout!AtLeastOne

\* The same windows get their new rectangles; what Tiling says of windows that
\* are not listed has no effect.
LEMMA UpdateMirrored ==
  ASSUME NEW m, Settled(m), NEW d, Mirrors(m, d), NEW S \in SUBSET Allocated(m.heap), NEW T,
         \A s \in Allocated(m.heap) : Name(m, s) \in T <=> s \in S,
         NEW u \in Mawim, u = UpdateWindows(m, S), SameLists(u, m)
  PROVE  Mirrors(u, Layout!UpdateWindows(d, T))
<1> DEFINE e == Layout!UpdateWindows(d, T)
           G == [w \in Windows |-> IF w \in T /\ d.row[w] >= 0 /\ d.col[w] >= 0
                                   THEN Layout!TileOf(d, w) ELSE d.geometry[w]]
<1>1. d \in Desks
  BY DEF Mirrors
<1>2. e = [d EXCEPT !.geometry = G]
  BY DEF Layout!UpdateWindows
<1>3. /\ e.workspace = d.workspace /\ e.row = d.row /\ e.col = d.col
      /\ e.row_count = d.row_count /\ e.active_row = d.active_row /\ e.geometry = G
  BY <1>1, <1>2 DEF Desks
<1>4. m \in Mawim /\ Allocated(u.heap) = Allocated(m.heap)
      /\ \A s \in Allocated(m.heap) : Name(u, s) = Name(m, s) /\ Name(m, s) \in Windows
  BY SettledSame, StructType DEF Settled
<1>5. u.row_count = m.row_count /\ u.active_row = m.active_row
      /\ \A s \in Allocated(m.heap) :
           u.heap[s] = IF s \in S /\ m.heap[s].row >= 0 /\ m.heap[s].col >= 0
                       THEN [m.heap[s] EXCEPT !.geometry = TileOf(m, s)] ELSE m.heap[s]
  BY <1>4 DEF UpdateWindows, Mawim, Allocated
<1>6. ASSUME NEW s \in Allocated(m.heap)
      PROVE  /\ u.heap[s].workspace = m.heap[s].workspace
             /\ u.heap[s].row = m.heap[s].row /\ u.heap[s].col = m.heap[s].col
             /\ u.heap[s].geometry = G[Name(m, s)] /\ G[Name(m, s)] \in Rect
  <2>1. m.heap[s] \in Window
    BY <1>4, StructType
  <2>2. /\ u.heap[s].workspace = m.heap[s].workspace
        /\ u.heap[s].row = m.heap[s].row /\ u.heap[s].col = m.heap[s].col
        /\ u.heap[s].geometry = IF s \in S /\ m.heap[s].row >= 0 /\ m.heap[s].col >= 0
                                THEN TileOf(m, s) ELSE m.heap[s].geometry
    BY <1>5, <2>1 DEF Window
  <2>3. TileOf(m, s) = Layout!TileOf(d, Name(m, s))
    BY TileMirrored
  <2>4. /\ d.row[Name(m, s)] = m.heap[s].row /\ d.col[Name(m, s)] = m.heap[s].col
        /\ d.geometry[Name(m, s)] = m.heap[s].geometry
    BY DEF Mirrors
  <2>5. u.heap[s].geometry = G[Name(m, s)]
    BY <1>4, <2>2, <2>3, <2>4
  <2>6. u.heap[s].geometry \in Rect
    BY <1>4, StructType
  <2> QED BY <2>2, <2>5, <2>6
<1>7. \A w \in Windows \ WindowsOf(m.heap) :
        d.workspace[w] = 0 /\ d.row[w] = -1 /\ d.col[w] = -1 /\ d.geometry[w] = NoTile
        /\ G[w] = NoTile
  BY DEF Mirrors
<1>8. WindowsOf(u.heap) = WindowsOf(m.heap)
  BY <1>4 DEF WindowsOf, Name
<1> HIDE DEF e
<1>9. G \in [Windows -> Rect]
  <2> SUFFICES ASSUME NEW w \in Windows
               PROVE  G[w] \in Rect
    OBVIOUS
  <2> HIDE DEF G
  <2>1. CASE w \in WindowsOf(m.heap)
    <3>1. PICK s \in Allocated(m.heap) : Name(m, s) = w
      BY <2>1 DEF WindowsOf, Name
    <3> QED BY <1>6, <3>1
  <2>2. CASE w \notin WindowsOf(m.heap)
    BY <1>7, <2>2 DEF NoTile, Rect
  <2> QED BY <2>1, <2>2
<1> HIDE DEF G
<1>10. e \in Desks
  BY <1>1, <1>2, <1>9 DEF Desks
<1>11. \A s \in Allocated(u.heap) :
         /\ e.workspace[Name(u, s)] = u.heap[s].workspace
         /\ e.row[Name(u, s)] = u.heap[s].row
         /\ e.col[Name(u, s)] = u.heap[s].col
         /\ e.geometry[Name(u, s)] = u.heap[s].geometry
  BY <1>3, <1>4, <1>6 DEF Mirrors
<1> QED BY <1>3, <1>5, <1>7, <1>8, <1>10, <1>11 DEF Mirrors, e
-----------------------------------------------------------------------------
\* mawim_manage_window.

LEMMA SameListsBetween ==
  ASSUME NEW a, NEW b, NEW m, SameLists(a, m), SameLists(b, m)
  PROVE  SameLists(a, b)
  BY DEF SameLists, SameLinks

\* m with the struct s in row r and column c.
Slot(m, s, r, c) == [m EXCEPT !.heap[s] = [@ EXCEPT !.row = r, !.col = c]]

LEMMA SlotSet ==
  ASSUME NEW m, Settled(m), NEW s \in Allocated(m.heap), NEW r \in Int, NEW c \in Int
  PROVE  LET a == Slot(m, s, r, c)
         IN  /\ a \in Mawim /\ Settled(a) /\ SameLists(a, m)
             /\ \A t \in Structs \ {s} : a.heap[t] = m.heap[t]
             /\ a.heap[s].row = r /\ a.heap[s].col = c /\ a.heap[s].geometry = m.heap[s].geometry
             /\ a.row_count = m.row_count /\ a.active_row = m.active_row
<1> DEFINE a == Slot(m, s, r, c)
           g == [m.heap[s] EXCEPT !.row = r, !.col = c]
<1>1. m \in Mawim /\ s \in Structs /\ m.heap[s] \in Window /\ m.heap \in Heap
  BY StructType DEF Settled, Mawim
<1>2. /\ g \in Window /\ g.row = r /\ g.col = c /\ g.geometry = m.heap[s].geometry
      /\ g.next = m.heap[s].next /\ g.x11_window = m.heap[s].x11_window
      /\ g.workspace = m.heap[s].workspace
  BY <1>1 DEF Window
<1>3. a = [m EXCEPT !.heap = [m.heap EXCEPT ![s] = g]]
  BY <1>1 DEF Slot, Mawim
<1> HIDE DEF g, a
<1>4. /\ a.heap = [m.heap EXCEPT ![s] = g] /\ a.heap \in Heap
      /\ a.heap[s] = g /\ \A t \in Structs \ {s} : a.heap[t] = m.heap[t]
  BY <1>1, <1>2, <1>3 DEF Mawim, Heap
<1>5. /\ a \in Mawim /\ a.first = m.first /\ a.last = m.last
      /\ a.focused_window = m.focused_window /\ a.active_workspace = m.active_workspace
      /\ a.row_count = m.row_count /\ a.active_row = m.active_row
  BY <1>1, <1>3, <1>4 DEF Mawim
<1>6. SameLists(a, m)
  BY <1>1, <1>2, <1>4, <1>5, FreeAssumption DEF SameLists, SameLinks
<1>7. Settled(a)
  BY <1>5, <1>6, SettledSame
<1> QED BY <1>2, <1>4, <1>5, <1>6, <1>7 DEF a

RowPut(m, s, r) == [m EXCEPT !.heap[s].row = r]
ColPut(m, s, c) == [m EXCEPT !.heap[s].col = c]

\* The row, or the column, is set once more.
LEMMA SlotAgain ==
  ASSUME NEW m, Settled(m), NEW s \in Allocated(m.heap), NEW r \in Int, NEW c \in Int, NEW q \in Int
  PROVE  /\ RowPut(Slot(m, s, r, c), s, q) = Slot(m, s, q, c)
         /\ ColPut(Slot(m, s, r, c), s, q) = Slot(m, s, r, q)
<1> DEFINE g(x, y) == [m.heap[s] EXCEPT !.row = x, !.col = y]
<1>1. m \in Mawim /\ s \in Structs /\ m.heap[s] \in Window /\ m.heap \in Heap
  BY StructType DEF Settled, Mawim
<1>2. /\ [g(r, c) EXCEPT !.row = q] = g(q, c)
      /\ [g(r, c) EXCEPT !.col = q] = g(r, q)
  BY <1>1 DEF Window
<1>3. \A x, y : Slot(m, s, x, y) = [m EXCEPT !.heap = [m.heap EXCEPT ![s] = g(x, y)]]
  BY <1>1 DEF Slot, Mawim
<1> HIDE DEF g
<1>4. \A x, y : /\ Slot(m, s, x, y).heap = [m.heap EXCEPT ![s] = g(x, y)]
                /\ Slot(m, s, x, y).heap[s] = g(x, y)
                /\ DOMAIN Slot(m, s, x, y) = DOMAIN m
  BY <1>1, <1>3 DEF Mawim, Heap
<1>5. [Slot(m, s, r, c) EXCEPT !.heap[s].row = q] = [m EXCEPT !.heap = [m.heap EXCEPT ![s] = g(q, c)]]
  BY <1>1, <1>2, <1>3, <1>4 DEF Mawim, Heap
<1>6. [Slot(m, s, r, c) EXCEPT !.heap[s].col = q] = [m EXCEPT !.heap = [m.heap EXCEPT ![s] = g(r, q)]]
  BY <1>1, <1>2, <1>3, <1>4 DEF Mawim, Heap
<1> QED BY <1>3, <1>5, <1>6 DEF RowPut, ColPut

LEMMA RowIs ==
  ASSUME NEW m, Settled(m), NEW i \in Workspaces, NEW r
  PROVE  WinsOnRow(m, i, r) = {s \in Home(m.heap, i) : m.heap[s].row = r}
<1>1. OnList(m, i) = Home(m.heap, i)
  BY DEF Settled
<1> QED BY <1>1 DEF WinsOnRow, Home

\* Putting a struct on a row adds its window to those of the row.
LEMMA RowJoined ==
  ASSUME NEW m, Settled(m), NEW d, Mirrors(m, d), NEW s \in Allocated(m.heap),
         NEW p, Settled(p), SameLists(p, m),
         \A t \in Structs \ {s} : p.heap[t] = m.heap[t]
  PROVE  LET i == m.heap[s].workspace
             r == p.heap[s].row
         IN  /\ WinsOnRow(p, i, r) = WinsOnRow(m, i, r) \cup {s}
             /\ Cardinality(Layout!WinsOnRow(d, i, r) \cup {Name(m, s)})
                  = Cardinality(WinsOnRow(p, i, r))
<1> DEFINE i == m.heap[s].workspace
           r == p.heap[s].row
<1>1. m \in Mawim /\ i \in Workspaces /\ p \in Mawim
  BY StructType DEF Settled
<1>2. /\ Allocated(p.heap) = Allocated(m.heap)
      /\ \A t \in Allocated(m.heap) : Name(p, t) = Name(m, t)
                                      /\ p.heap[t].workspace = m.heap[t].workspace
  BY <1>1, SettledSame DEF SameLists, SameLinks, Allocated
<1>3. WinsOnRow(p, i, r) = {t \in Home(p.heap, i) : p.heap[t].row = r}
  BY <1>1, RowIs
<1>4. WinsOnRow(m, i, r) = {t \in Home(m.heap, i) : m.heap[t].row = r}
  BY <1>1, RowIs
<1>5. WinsOnRow(p, i, r) = WinsOnRow(m, i, r) \cup {s}
  <2>1. Home(p.heap, i) = Home(m.heap, i) /\ s \in Home(m.heap, i)
    BY <1>2 DEF Home
  <2>2. \A t \in Home(m.heap, i) \ {s} : p.heap[t].row = m.heap[t].row
    BY DEF Home, Allocated
  <2> QED BY <1>3, <1>4, <2>1, <2>2
<1>6. Layout!WinsOnRow(d, i, r) = {Name(m, t) : t \in WinsOnRow(m, i, r)}
  BY <1>1, RowMirrored
<1> DEFINE W == WinsOnRow(p, i, r)
<1>7. W \in SUBSET Allocated(m.heap)
  BY <1>2, <1>3 DEF Home
<1>8. Layout!WinsOnRow(d, i, r) \cup {Name(m, s)} = {Name(m, t) : t \in W}
  BY <1>5, <1>6
<1> HIDE DEF W
<1>9. Cardinality({Name(m, t) : t \in W}) = Cardinality(W)
  BY <1>1, <1>7, NamesCounted DEF Settled
<1> QED BY <1>5, <1>8, <1>9 DEF W

\* A window gets a slot, and a row perhaps.
LEMMA PlaceMirrored ==
  ASSUME NEW m, Settled(m), NEW d, Mirrors(m, d), NEW s \in Allocated(m.heap),
         NEW r \in Int, NEW c \in Int, NEW new \in BOOLEAN,
         NEW p \in Mawim, SameLists(p, m), \A t \in Structs \ {s} : p.heap[t] = m.heap[t],
         p.heap[s].row = r, p.heap[s].col = c, p.heap[s].geometry = m.heap[s].geometry,
         p.row_count = [m.row_count EXCEPT ![m.heap[s].workspace] = IF new THEN @ + 1 ELSE @],
         p.active_row = [m.active_row EXCEPT ![m.heap[s].workspace] = IF new THEN r ELSE @]
  PROVE  Mirrors(p, Layout!PlaceWindow(d, Name(m, s), r, c, new))
<1> DEFINE i == m.heap[s].workspace
           w == Name(m, s)
           e == Layout!PlaceWindow(d, w, r, c, new)
<1>1. m \in Mawim /\ i \in Workspaces /\ w \in Windows /\ d \in Desks
  BY StructType DEF Settled, Mirrors
<1>2. d.workspace[w] = i /\ d.row_count = m.row_count /\ d.active_row = m.active_row
  BY DEF Mirrors
<1>3. /\ e.workspace = d.workspace /\ e.geometry = d.geometry
      /\ e.row = [d.row EXCEPT ![w] = r] /\ e.col = [d.col EXCEPT ![w] = c]
      /\ e.row_count = p.row_count /\ e.active_row = p.active_row
      /\ e \in Desks
  <2> HIDE DEF w, i
  <2>1. e = [d EXCEPT !.row[w] = r, !.col[w] = c,
                      !.row_count[i] = IF new THEN @ + 1 ELSE @,
                      !.active_row[i] = IF new THEN r ELSE @]
    BY <1>2 DEF Layout!PlaceWindow
  <2> HIDE DEF e
  <2>2. /\ e.workspace = d.workspace /\ e.geometry = d.geometry
        /\ e.row = [d.row EXCEPT ![w] = r] /\ e.col = [d.col EXCEPT ![w] = c]
        /\ e.row_count = [d.row_count EXCEPT ![i] = IF new THEN @ + 1 ELSE @]
        /\ e.active_row = [d.active_row EXCEPT ![i] = IF new THEN r ELSE @]
        /\ e = [workspace |-> e.workspace, row |-> e.row, col |-> e.col,
                geometry |-> e.geometry, row_count |-> e.row_count,
                active_row |-> e.active_row]
    BY <1>1, <2>1 DEF Desks
  <2>3. e.row_count = p.row_count /\ e.active_row = p.active_row
    BY <1>2, <2>2 DEF i
  <2>4. p.row_count \in [Workspaces -> Int] /\ p.active_row \in [Workspaces -> Int]
    BY DEF Mawim
  <2>5. e.row \in [Windows -> Int] /\ e.col \in [Windows -> Int]
        /\ d.workspace \in [Windows -> Workspaces \cup {0}] /\ d.geometry \in [Windows -> Rect]
    BY <1>1, <2>2 DEF Desks
  <2>6. e \in Desks
    BY <2>2, <2>3, <2>4, <2>5 DEF Desks
  <2> QED BY <2>2, <2>3, <2>6
<1> HIDE DEF e, w, i
<1>4. d.row \in [Windows -> Int] /\ d.col \in [Windows -> Int]
  BY <1>1 DEF Desks
<1>5. /\ Allocated(p.heap) = Allocated(m.heap)
      /\ \A t \in Allocated(m.heap) : Name(p, t) = Name(m, t)
                                      /\ p.heap[t].workspace = m.heap[t].workspace
  BY <1>1, SettledSame DEF SameLists, SameLinks, Allocated
<1>6. ASSUME NEW t \in Allocated(p.heap)
      PROVE  /\ e.workspace[Name(p, t)] = p.heap[t].workspace
             /\ e.row[Name(p, t)] = p.heap[t].row
             /\ e.col[Name(p, t)] = p.heap[t].col
             /\ e.geometry[Name(p, t)] = p.heap[t].geometry
  <2>1. t \in Allocated(m.heap) /\ t \in Structs /\ Name(m, t) \in Windows
    BY <1>1, <1>5, StructType
  <2>2. CASE t = s
    BY <1>1, <1>3, <1>4, <1>5, <2>2 DEF Mirrors, w
  <2>3. CASE t # s
    <3>1. Name(m, t) # w
      BY <2>1, <2>3 DEF Settled, Alone, Name, w
    <3>2. p.heap[t] = m.heap[t]
      BY <2>1, <2>3
    <3> QED BY <1>1, <1>3, <1>4, <1>5, <2>1, <3>1, <3>2 DEF Mirrors
  <2> QED BY <2>2, <2>3
<1>7. WindowsOf(p.heap) = WindowsOf(m.heap) /\ w \in WindowsOf(m.heap)
  BY <1>1, <1>5, StructType DEF WindowsOf, Name, w
<1>8. \A v \in Windows \ WindowsOf(p.heap) :
        e.workspace[v] = 0 /\ e.row[v] = -1 /\ e.col[v] = -1 /\ e.geometry[v] = NoTile
  BY <1>1, <1>3, <1>4, <1>7 DEF Mirrors
<1> QED BY <1>3, <1>6, <1>8 DEF Mirrors, e, w

\* mawim_manage_window does what Tiling's ManageWindow says.
LEMMA ManageMirrored ==
  ASSUME NEW m, Settled(m), RowsOK(m), Whole(m), NEW d, Mirrors(m, d), NEW s \in Allocated(m.heap)
  PROVE  Mirrors(ManageWindow(m, s), Layout!ManageWindow(d, Name(m, s)))
<1> DEFINE i == m.heap[s].workspace
           w == Name(m, s)
           a == m.active_row[i]
           row == m.heap[s].row
           col == m.heap[s].col
           joined == [m EXCEPT !.heap[s].row = IF @ < 0 THEN a ELSE @]
           full == row < 0 /\ Cardinality(WinsOnRow(joined, i, a)) = MaxRows
           below == IF a + 1 < MaxRows - 1 THEN a + 1 ELSE MaxRows - 1
           new_row == full /\ below # a
           rowed == [joined EXCEPT !.heap[s].row = IF full THEN below ELSE @,
                                   !.row_count[i] = IF new_row THEN @ + 1 ELSE @]
           row_wins == WinsOnRow(rowed, i, rowed.heap[s].row)
           placed == [rowed EXCEPT !.heap[s].col = IF @ < 0 THEN Cardinality(row_wins) - 1 ELSE @,
                                   !.active_row[i] = IF new_row THEN rowed.heap[s].row ELSE @]
           S == {s} \cup (IF new_row THEN OnList(placed, i) ELSE row_wins)
           u == ManageWindow(m, s)
           r1 == IF row < 0 THEN a ELSE row
           r == IF full THEN below ELSE r1
           c == IF col < 0 THEN Cardinality(row_wins) - 1 ELSE col
           slot == Slot(m, s, r, col)
           n2 == IF new_row THEN m.row_count[i] + 1 ELSE m.row_count[i]
           a2 == IF new_row THEN r ELSE a
<1>1. u = IF FindWindow(m, i, m.heap[s].x11_window) = NULL THEN m ELSE UpdateWindows(placed, S)
  BY DEF ManageWindow
<1> HIDE DEF joined, rowed, placed, row_wins, S, slot, u
<1>2. /\ m \in Mawim /\ s \in Structs /\ m.heap[s] \in Window /\ i \in Workspaces
      /\ row \in Int /\ col \in Int /\ w \in Windows
  BY StructType DEF Settled
<1>3. m.row_count \in [Workspaces -> Int] /\ m.active_row \in [Workspaces -> Int]
      /\ a \in Int /\ m.row_count[i] \in Int /\ MaxRows \in Int
  BY <1>2, WindowManagerAssumption DEF Mawim
<1>4. r1 \in Int /\ below \in Int /\ r \in Int
  BY <1>2, <1>3
<1>5. joined = Slot(m, s, r1, col)
  BY <1>2 DEF joined, Slot, Mawim, Heap, Window
<1> HIDE DEF r1, r
<1>6. /\ joined \in Mawim /\ Settled(joined) /\ SameLists(joined, m)
      /\ \A t \in Structs \ {s} : joined.heap[t] = m.heap[t]
      /\ joined.heap[s].row = r1
  BY <1>2, <1>4, <1>5, SlotSet
<1>7. /\ slot \in Mawim /\ Settled(slot) /\ SameLists(slot, m)
      /\ \A t \in Structs \ {s} : slot.heap[t] = m.heap[t]
      /\ slot.heap[s].row = r /\ slot.heap[s].col = col
      /\ slot.heap[s].geometry = m.heap[s].geometry
      /\ slot.row_count = m.row_count /\ slot.active_row = m.active_row
  BY <1>2, <1>4, SlotSet DEF slot
<1>8. rowed = [slot EXCEPT !.row_count[i] = n2]
  <2> HIDE DEF full, new_row, below
  <2>1. joined.heap[s].row = r1 /\ joined.row_count = m.row_count
    BY <1>2, <1>4, <1>5, SlotSet
  <2>2. rowed = [[joined EXCEPT !.heap[s].row = r] EXCEPT !.row_count[i] = n2]
    BY <2>1 DEF rowed, r, n2
  <2> HIDE DEF i, w, a, row, col
  <2>3. RowPut(Slot(m, s, r1, col), s, r) = Slot(m, s, r, col)
    BY <1>2, <1>4, SlotAgain
  <2>4. [joined EXCEPT !.heap[s].row = r] = slot
    BY <1>5, <2>3 DEF slot, RowPut
  <2> QED BY <2>2, <2>4
<1> HIDE DEF n2, a2, new_row
<1>9. n2 \in Int /\ a2 \in Int
  BY <1>3, <1>4 DEF n2, a2
<1>10. /\ rowed \in Mawim /\ SameLists(rowed, m) /\ Settled(rowed)
       /\ rowed.heap = slot.heap /\ rowed.active_row = m.active_row
       /\ rowed.row_count = [m.row_count EXCEPT ![i] = n2]
  <2>1. /\ rowed \in Mawim /\ SameLists(rowed, slot) /\ rowed.heap = slot.heap
        /\ rowed.active_row = m.active_row /\ rowed.row_count = [m.row_count EXCEPT ![i] = n2]
    BY <1>2, <1>7, <1>8, <1>9, RowCountSet
  <2>2. SameLists(rowed, m)
    BY <1>7, <2>1, SameListsTransitive
  <2> QED BY <2>1, <2>2, SettledSame
<1>11. /\ row_wins = WinsOnRow(rowed, i, r) /\ row_wins = WinsOnRow(m, i, r) \cup {s}
       /\ Cardinality(Layout!WinsOnRow(d, i, r) \cup {w}) = Cardinality(row_wins)
       /\ Cardinality(row_wins) \in Nat
  <2>1. /\ \A t \in Structs \ {s} : rowed.heap[t] = m.heap[t]
        /\ rowed.heap[s].row = r
    BY <1>7, <1>10
  <2>2. LET j == m.heap[s].workspace
            q == rowed.heap[s].row
        IN  /\ WinsOnRow(rowed, j, q) = WinsOnRow(m, j, q) \cup {s}
            /\ Cardinality(Layout!WinsOnRow(d, j, q) \cup {Name(m, s)})
                 = Cardinality(WinsOnRow(rowed, j, q))
    <3>1. Settled(rowed) /\ SameLists(rowed, m)
      BY <1>10
    <3> QED BY <2>1, <3>1, RowJoined
  <2>3. Cardinality(WinsOnRow(rowed, i, r)) \in Nat
    BY <1>2, <1>10, WinsOnRowType
  <2>4. row_wins = WinsOnRow(rowed, i, r)
    BY <2>1 DEF row_wins
  <2> QED BY <2>1, <2>2, <2>3, <2>4
<1>12. row < 0 => Cardinality(Layout!WinsOnRow(d, i, a) \cup {w}) = Cardinality(WinsOnRow(joined, i, a))
  <2> SUFFICES ASSUME row < 0
               PROVE  Cardinality(Layout!WinsOnRow(d, i, a) \cup {w}) = Cardinality(WinsOnRow(joined, i, a))
    OBVIOUS
  <2>1. joined.heap[s].row = a
    BY <1>6 DEF r1
  <2> QED BY <1>6, <2>1, RowJoined
<1>13. c \in Int
  BY <1>2, <1>11
<1> HIDE DEF c
<1> DEFINE columned == Slot(m, s, r, c)
           counted == [columned EXCEPT !.row_count[i] = n2]
<1>14. /\ columned \in Mawim /\ SameLists(columned, m)
       /\ \A t \in Structs \ {s} : columned.heap[t] = m.heap[t]
       /\ columned.heap[s].row = r /\ columned.heap[s].col = c
       /\ columned.heap[s].geometry = m.heap[s].geometry
       /\ columned.row_count = m.row_count /\ columned.active_row = m.active_row
  BY <1>4, <1>13, SlotSet
<1> HIDE DEF columned
<1>15. /\ counted \in Mawim /\ SameLists(counted, columned) /\ counted.heap = columned.heap
       /\ counted.active_row = m.active_row /\ counted.row_count = [m.row_count EXCEPT ![i] = n2]
  BY <1>2, <1>9, <1>14, RowCountSet
<1>16. placed = [counted EXCEPT !.active_row[i] = a2]
  <2>1. rowed.heap[s].row = r /\ rowed.heap[s].col = col
    BY <1>7, <1>10
  <2>2. placed = [[rowed EXCEPT !.heap[s].col = c] EXCEPT !.active_row[i] = a2]
    BY <1>10, <2>1 DEF placed, c, a2
  <2> HIDE DEF i, w, a, row, col
  <2>3. ColPut(Slot(m, s, r, col), s, c) = Slot(m, s, r, c)
    BY <1>2, <1>4, <1>13, SlotAgain
  <2>4. [rowed EXCEPT !.heap[s].col = c] = [[slot EXCEPT !.heap[s].col = c] EXCEPT !.row_count[i] = n2]
    BY <1>8
  <2>5. [rowed EXCEPT !.heap[s].col = c] = counted
    BY <2>3, <2>4 DEF slot, columned, counted, ColPut
  <2> QED BY <2>2, <2>5
<1> HIDE DEF counted
<1>17. /\ placed \in Mawim /\ SameLists(placed, counted) /\ placed.heap = columned.heap
       /\ placed.active_row = [m.active_row EXCEPT ![i] = a2]
       /\ placed.row_count = [m.row_count EXCEPT ![i] = n2]
  BY <1>2, <1>9, <1>15, <1>16, ActiveRowSet
<1>18. SameLists(placed, m)
  BY <1>14, <1>15, <1>17, SameListsTransitive
<1>19. Settled(placed)
  BY <1>17, <1>18, SettledSame
<1> DEFINE e == Layout!PlaceWindow(d, w, r, c, new_row)
           T == IF new_row THEN Layout!OnWorkspace(e, i) ELSE Layout!WinsOnRow(e, i, r)
<1>20. Mirrors(placed, e)
  <2>1. new_row \in BOOLEAN
    BY DEF new_row
  <2>2. /\ placed.row_count = [m.row_count EXCEPT ![i] = IF new_row THEN @ + 1 ELSE @]
        /\ placed.active_row = [m.active_row EXCEPT ![i] = IF new_row THEN r ELSE @]
    BY <1>17 DEF n2, a2
  <2> QED BY <1>4, <1>13, <1>14, <1>17, <1>18, <2>1, <2>2, PlaceMirrored
<1> HIDE DEF e
<1>21. Layout!ManageWindow(d, w) = Layout!UpdateWindows(e, T)
  <2> DEFINE lfull == Cardinality(Layout!WinsOnRow(d, i, a) \cup {w}) = MaxRows
             lr == IF row >= 0 THEN row
                   ELSE IF lfull /\ a + 1 <= MaxRows - 1 THEN a + 1
                   ELSE IF lfull THEN MaxRows - 1
                   ELSE a
             lnew == row < 0 /\ lr # a
             lc == IF col >= 0 THEN col
                   ELSE Cardinality(Layout!WinsOnRow(d, i, lr) \cup {w}) - 1
             le == Layout!PlaceWindow(d, w, lr, lc, lnew)
  <2>1. /\ d.workspace[w] = i /\ d.active_row[i] = a
        /\ d.row[w] = row /\ d.col[w] = col
    BY DEF Mirrors
  <2> HIDE DEF i, w, a, row, col
  <2>2. Layout!ManageWindow(d, w)
          = Layout!UpdateWindows(le, IF lnew THEN Layout!OnWorkspace(le, i)
                                     ELSE Layout!WinsOnRow(le, i, lr))
    BY <2>1, SameCardinality DEF Layout!ManageWindow
  <2>3. row < 0 => (lfull <=> full)
    BY <1>12
  <2> HIDE DEF lfull, full
  <2>4. lr = r
    <3>1. full => row < 0
      BY DEF full
    <3> QED BY <1>2, <1>3, <2>3, <3>1 DEF r, r1
  <2>5. lnew <=> new_row
    <3>1. full => row < 0
      BY DEF full
    <3> QED BY <1>2, <1>3, <2>3, <3>1 DEF r, r1, new_row
  <2> HIDE DEF lr, lnew
  <2>6. lc = c
    BY <1>2, <1>11, <2>4 DEF c
  <2> HIDE DEF lc
  <2>7. lnew \in BOOLEAN /\ new_row \in BOOLEAN
    BY DEF lnew, new_row
  <2>8. le = e
    BY <2>4, <2>5, <2>6, <2>7 DEF e
  <2> QED BY <2>2, <2>4, <2>5, <2>7, <2>8 DEF T
<1>22. /\ Allocated(placed.heap) = Allocated(m.heap)
       /\ \A t \in Allocated(m.heap) : Name(placed, t) = Name(m, t) /\ Name(m, t) \in Windows
  BY <1>2, <1>17, <1>18, SettledSame, StructType
<1>23. ASSUME NEW t \in Allocated(placed.heap)
       PROVE  Name(placed, t) \in T <=> t \in S
  <2>1. Name(placed, t) \in Windows /\ e.workspace[Name(placed, t)] = placed.heap[t].workspace
    BY <1>20, <1>22 DEF Mirrors
  <2>2. s \in Home(placed.heap, i)
    BY <1>2, <1>18, <1>22 DEF Home, SameLists, SameLinks, Allocated
  <2>3. CASE new_row
    <3>1. Name(placed, t) \in T <=> t \in Home(placed.heap, i)
      BY <2>1, <2>3 DEF Layout!OnWorkspace, Home
    <3>2. OnList(placed, i) = Home(placed.heap, i)
      BY <1>2, <1>19 DEF Settled
    <3> QED BY <2>2, <2>3, <3>1, <3>2 DEF S
  <2>4. CASE ~ new_row
    <3>1. Name(placed, t) \in T <=> t \in WinsOnRow(placed, i, r)
      BY <1>2, <1>19, <1>20, <2>4, RowMirrored
    <3>2. /\ placed.heap[s].row = r
          /\ \A q \in Structs \ {s} : placed.heap[q] = m.heap[q]
      BY <1>14, <1>17
    <3>3. LET q == placed.heap[s].row
          IN  WinsOnRow(placed, i, q) = WinsOnRow(m, i, q) \cup {s}
      BY <1>18, <1>19, <3>2, RowJoined
    <3> QED BY <1>11, <2>4, <3>1, <3>2, <3>3 DEF S
  <2> QED BY <2>3, <2>4
<1>24. S \in SUBSET Allocated(placed.heap)
  <2>1. OnList(placed, i) = Home(placed.heap, i)
    BY <1>2, <1>19 DEF Settled
  <2>2. row_wins \subseteq Allocated(m.heap)
    <3>1. WinsOnRow(m, i, r) = {t \in Home(m.heap, i) : m.heap[t].row = r}
      BY <1>2, RowIs
    <3> QED BY <1>11, <3>1 DEF Home
  <2> QED BY <1>22, <2>1, <2>2 DEF S, Home
<1>25. u = UpdateWindows(placed, S)
  <2>1. s \in Showing(m, i, m.heap[s].x11_window)
    BY <1>2 DEF Showing, Settled, Home
  <2>2. NULL \notin Showing(m, i, m.heap[s].x11_window)
    BY <1>2, OnListType, StructsFinite, ShowingType
  <2>3. FindWindow(m, i, m.heap[s].x11_window) # NULL
    BY <2>1, <2>2, FindWindowFinds
  <2> QED BY <1>1, <2>3
<1>26. u \in Mawim /\ SameLists(u, placed)
  <2>1. u \in Mawim /\ SameLists(u, m)
    BY <1>2, ManageKeeps DEF u
  <2> QED BY <1>18, <2>1, SameListsBetween
<1> HIDE DEF T
<1>27. Mirrors(u, Layout!UpdateWindows(e, T))
  BY <1>19, <1>20, <1>23, <1>24, <1>25, <1>26, UpdateMirrored
<1> QED BY <1>21, <1>27 DEF u, w
-----------------------------------------------------------------------------
\* mawim_unmanage_window.

\* A step that moves slots, on a desk that moves them too.
LEMMA SlotsMirrored ==
  ASSUME NEW m, Settled(m), NEW d, Mirrors(m, d), NEW a \in Mawim, SameLists(a, m),
         NEW e \in Desks, e.workspace = d.workspace, e.geometry = d.geometry,
         e.row_count = a.row_count, e.active_row = a.active_row,
         \A t \in Allocated(m.heap) : /\ e.row[Name(m, t)] = a.heap[t].row
                                      /\ e.col[Name(m, t)] = a.heap[t].col
                                      /\ a.heap[t].geometry = m.heap[t].geometry,
         \A v \in Windows \ WindowsOf(m.heap) : e.row[v] = -1 /\ e.col[v] = -1
  PROVE  Mirrors(a, e)
<1>1. /\ Allocated(a.heap) = Allocated(m.heap)
      /\ \A t \in Allocated(m.heap) : Name(a, t) = Name(m, t)
                                      /\ a.heap[t].workspace = m.heap[t].workspace
  BY SettledSame DEF SameLists, SameLinks, Allocated
<1>2. WindowsOf(a.heap) = WindowsOf(m.heap)
  BY <1>1 DEF WindowsOf, Name
<1> QED BY <1>1, <1>2 DEF Mirrors

\* A struct without a slot: its row, and the rows below, as Tiling has them.
LeavesRow(off, m, s, d) ==
  LET i == m.heap[s].workspace
      row == m.heap[s].row
      rest == Layout!WinsOnRow(d, i, row) \ {Name(m, s)}
  IN  /\ \A t \in Allocated(m.heap) : Name(m, t) \in rest <=> t \in WinsOnRow(off, i, row)
      /\ rest = {} <=> WinsOnRow(off, i, row) = {}
      /\ \A r : WinsOnRow(off, i, r) \subseteq Allocated(m.heap)
      /\ \A r \in Nat, t \in Allocated(m.heap) :
           t \in WinsOnRow(off, i, r) <=>
             t # s /\ m.heap[t].workspace = i /\ m.heap[t].row = r

LEMMA RowLeft ==
  ASSUME NEW m, Settled(m), NEW d, Mirrors(m, d), NEW s \in Allocated(m.heap),
         m.heap[s].row >= 0,
         NEW off, SlotOnly(off, m, s), off.heap[s].row = -1
  PROVE  LeavesRow(off, m, s, d)
<1> DEFINE i == m.heap[s].workspace
           row == m.heap[s].row
           w == Name(m, s)
           rest == Layout!WinsOnRow(d, i, row) \ {w}
<1>1. m \in Mawim /\ i \in Workspaces /\ row \in Int /\ s \in Structs
  BY StructType DEF Settled
<1>2. off \in Mawim /\ Settled(off) /\ Allocated(off.heap) = Allocated(m.heap)
      /\ \A t \in Allocated(m.heap) \ {s} : off.heap[t] = m.heap[t]
  <2>1. off \in Mawim /\ SameLists(off, m) /\ \A t \in Structs \ {s} : off.heap[t] = m.heap[t]
    BY DEF SlotOnly
  <2>2. Settled(off) /\ Allocated(off.heap) = Allocated(m.heap)
    BY <2>1, SettledSame
  <2> QED BY <2>1, <2>2 DEF Allocated
<1> HIDE DEF i, row
<1>3. \A r : WinsOnRow(off, i, r) = {t \in Home(off.heap, i) : off.heap[t].row = r}
  BY <1>1, <1>2, RowIs
<1>4. \A r : WinsOnRow(off, i, r) \subseteq Allocated(m.heap)
  BY <1>2, <1>3 DEF Home
<1>5. \A r \in Nat, t \in Allocated(m.heap) :
        t \in WinsOnRow(off, i, r) <=>
          t # s /\ m.heap[t].workspace = i /\ m.heap[t].row = r
  <2> SUFFICES ASSUME NEW r \in Nat, NEW t \in Allocated(m.heap)
               PROVE  t \in WinsOnRow(off, i, r) <=>
                        t # s /\ m.heap[t].workspace = i /\ m.heap[t].row = r
    OBVIOUS
  <2>1. off.heap[s].row # r
    OBVIOUS
  <2> QED BY <1>2, <1>3, <2>1 DEF Home
<1>6. ASSUME NEW t \in Allocated(m.heap)
      PROVE  Name(m, t) \in rest <=> t \in WinsOnRow(off, i, row)
  <2>1. Name(m, t) \in Layout!WinsOnRow(d, i, row) <=> t \in WinsOnRow(m, i, row)
    BY <1>1, RowMirrored
  <2>2. t \in WinsOnRow(m, i, row) <=> m.heap[t].workspace = i /\ m.heap[t].row = row
    BY <1>1, RowIs DEF Home
  <2>3. Name(m, t) = w <=> t = s
    BY DEF Settled, Alone, Name
  <2>4. row \in Nat
    BY <1>1 DEF row
  <2> QED BY <1>5, <2>1, <2>2, <2>3, <2>4
<1>7. rest = {} <=> WinsOnRow(off, i, row) = {}
  <2>1. \A v \in rest : \E t \in Allocated(m.heap) : Name(m, t) = v
    <3>1. Layout!WinsOnRow(d, i, row) = {Name(m, t) : t \in WinsOnRow(m, i, row)}
      BY <1>1, RowMirrored
    <3>2. WinsOnRow(m, i, row) \subseteq Allocated(m.heap)
      BY <1>1, RowIs DEF Home
    <3> QED BY <3>1, <3>2
  <2> HIDE DEF rest
  <2> QED BY <1>4, <1>6, <2>1
<1> QED BY <1>4, <1>5, <1>6, <1>7 DEF LeavesRow, i, row

\* The other windows of the row close the gap.
LEMMA ColumnMirrored ==
  ASSUME NEW m, Settled(m), NEW d, Mirrors(m, d), NEW s \in Allocated(m.heap),
         NEW a \in Mawim, SameLists(a, m),
         a.row_count = m.row_count, a.active_row = m.active_row,
         \A t \in Allocated(m.heap) :
           LET rest == Layout!WinsOnRow(d, m.heap[s].workspace, m.heap[s].row) \ {Name(m, s)}
           IN  /\ a.heap[t].row = IF t = s THEN -1 ELSE m.heap[t].row
               /\ a.heap[t].col = IF t = s THEN -1
                                  ELSE IF Name(m, t) \in rest /\ m.heap[t].col > m.heap[s].col
                                       THEN m.heap[t].col - 1
                                  ELSE m.heap[t].col
               /\ a.heap[t].geometry = m.heap[t].geometry
  PROVE  Mirrors(a, Layout!CloseColumn(d, Name(m, s)))
<1> DEFINE i == m.heap[s].workspace
           row == m.heap[s].row
           col == m.heap[s].col
           w == Name(m, s)
           rest == Layout!WinsOnRow(d, i, row) \ {w}
           C == [v \in Windows |-> IF v = w THEN -1
                                   ELSE IF v \in rest /\ d.col[v] > col THEN d.col[v] - 1
                                   ELSE d.col[v]]
           e == [d EXCEPT !.row = [d.row EXCEPT ![w] = -1], !.col = C]
<1>1. /\ m \in Mawim /\ d \in Desks /\ w \in Windows /\ w \in WindowsOf(m.heap) /\ col \in Int
      /\ d.workspace[w] = i /\ d.row[w] = row /\ d.col[w] = col
      /\ d.row_count = m.row_count /\ d.active_row = m.active_row
  BY StructType DEF Settled, Mirrors
<1>2. Layout!CloseColumn(d, w) = e
  <2> HIDE DEF i, row, col, w
  <2> QED BY <1>1 DEF Layout!CloseColumn
<1>3. d.row \in [Windows -> Int] /\ d.col \in [Windows -> Int]
  BY <1>1 DEF Desks
<1>4. \A t \in Allocated(m.heap) :
        /\ Name(m, t) \in Windows /\ (Name(m, t) = w <=> t = s)
        /\ d.row[Name(m, t)] = m.heap[t].row /\ d.col[Name(m, t)] = m.heap[t].col
  BY <1>1, StructType DEF Settled, Alone, Name, Mirrors
<1>5. \A v \in Windows \ WindowsOf(m.heap) : v # w /\ v \notin rest /\ d.row[v] = -1 /\ d.col[v] = -1
  <2>1. \A v \in Windows \ WindowsOf(m.heap) : d.workspace[v] = 0 /\ d.row[v] = -1 /\ d.col[v] = -1
    BY DEF Mirrors
  <2>2. i # 0
    BY <1>1, StructType, WorkspacesNumbers
  <2> QED BY <1>1, <2>1, <2>2 DEF Layout!WinsOnRow, Layout!OnWorkspace
<1>6. \A t \in Allocated(m.heap) :
        /\ a.heap[t].row = IF t = s THEN -1 ELSE m.heap[t].row
        /\ a.heap[t].col = IF t = s THEN -1
                           ELSE IF Name(m, t) \in rest /\ m.heap[t].col > col
                                THEN m.heap[t].col - 1
                           ELSE m.heap[t].col
        /\ a.heap[t].geometry = m.heap[t].geometry
  OBVIOUS
<1> HIDE DEF w, i, row, col, rest
<1>7. C \in [Windows -> Int]
  BY <1>3
<1>8. \A v \in Windows : C[v] = IF v = w THEN -1
                                ELSE IF v \in rest /\ d.col[v] > col THEN d.col[v] - 1
                                ELSE d.col[v]
  OBVIOUS
<1> HIDE DEF C
<1> DEFINE P == [d.row EXCEPT ![w] = -1]
<1>13. P \in [Windows -> Int] /\ e = [d EXCEPT !.row = P, !.col = C]
  <2>1. P \in [Windows -> Int]
    BY <1>1, <1>3
  <2>2. e = [d EXCEPT !.row = P, !.col = C]
    OBVIOUS
  <2> QED BY <2>1, <2>2
<1> HIDE DEF P, e
<1>9. /\ e \in Desks /\ e.workspace = d.workspace /\ e.geometry = d.geometry
      /\ e.row_count = d.row_count /\ e.active_row = d.active_row
      /\ e.row = [d.row EXCEPT ![w] = -1] /\ e.col = C
  <2>1. /\ e \in Desks /\ e.workspace = d.workspace /\ e.geometry = d.geometry
        /\ e.row_count = d.row_count /\ e.active_row = d.active_row
        /\ e.row = P /\ e.col = C
    BY <1>1, <1>7, <1>13 DEF Desks
  <2> QED BY <2>1 DEF P
<1> HIDE DEF e
<1>10. \A t \in Allocated(m.heap) : /\ e.row[Name(m, t)] = a.heap[t].row
                                    /\ e.col[Name(m, t)] = a.heap[t].col
                                    /\ a.heap[t].geometry = m.heap[t].geometry
  BY <1>1, <1>3, <1>4, <1>6, <1>8, <1>9
<1>11. \A v \in Windows \ WindowsOf(m.heap) : e.row[v] = -1 /\ e.col[v] = -1
  BY <1>1, <1>3, <1>5, <1>8, <1>9
<1>12. Mirrors(a, e)
  <2>1. /\ e \in Desks /\ e.workspace = d.workspace /\ e.geometry = d.geometry
        /\ e.row_count = a.row_count /\ e.active_row = a.active_row
    BY <1>1, <1>9
  <2> QED BY <1>10, <1>11, <2>1, SlotsMirrored
<1> QED BY <1>2, <1>12 DEF w

\* The rows below move up.
RowGone(a, m, s, count, k) ==
  /\ a.row_count = [m.row_count EXCEPT ![m.heap[s].workspace] = count]
  /\ a.active_row = [m.active_row EXCEPT ![m.heap[s].workspace] = k]
  /\ \A t \in Allocated(m.heap) :
       /\ a.heap[t].row = IF t = s THEN -1
                          ELSE IF /\ m.heap[t].workspace = m.heap[s].workspace
                                  /\ m.heap[t].row \in m.heap[s].row + 1 .. count
                               THEN m.heap[t].row - 1
                          ELSE m.heap[t].row
       /\ a.heap[t].col = IF t = s THEN -1 ELSE m.heap[t].col
       /\ a.heap[t].geometry = m.heap[t].geometry

LEMMA CloseRowMirrored ==
  ASSUME NEW m, Settled(m), NEW d, Mirrors(m, d), NEW s \in Allocated(m.heap),
         NEW a \in Mawim, SameLists(a, m), NEW count, count = m.row_count[m.heap[s].workspace] - 1,
         NEW k, k = IF m.active_row[m.heap[s].workspace] + 1 > count THEN count - 1
                    ELSE m.active_row[m.heap[s].workspace],
         RowGone(a, m, s, count, k)
  PROVE  Mirrors(a, Layout!CloseRow(d, Name(m, s)))
<1> DEFINE i == m.heap[s].workspace
           row == m.heap[s].row
           w == Name(m, s)
           R == [v \in Windows |-> IF v = w THEN -1
                                   ELSE IF d.workspace[v] = i /\ d.row[v] \in (row + 1) .. count
                                        THEN d.row[v] - 1
                                   ELSE d.row[v]]
           e == Layout!CloseRow(d, w)
<1>1. /\ m \in Mawim /\ d \in Desks /\ w \in Windows /\ w \in WindowsOf(m.heap)
      /\ i \in Workspaces /\ row \in Int
      /\ d.workspace[w] = i /\ d.row[w] = row
      /\ d.row_count = m.row_count /\ d.active_row = m.active_row
  BY StructType DEF Settled, Mirrors
<1>2. /\ count = d.row_count[i] - 1
      /\ k = IF d.active_row[i] + 1 > count THEN count - 1 ELSE d.active_row[i]
  BY <1>1
<1>3. d.row \in [Windows -> Int] /\ d.col \in [Windows -> Int]
  BY <1>1 DEF Desks
<1>4. \A t \in Allocated(m.heap) :
        /\ Name(m, t) \in Windows /\ (Name(m, t) = w <=> t = s)
        /\ d.row[Name(m, t)] = m.heap[t].row /\ d.col[Name(m, t)] = m.heap[t].col
        /\ d.workspace[Name(m, t)] = m.heap[t].workspace
  BY <1>1, StructType DEF Settled, Alone, Name, Mirrors
<1>5. \A v \in Windows \ WindowsOf(m.heap) :
        v # w /\ d.workspace[v] # i /\ d.row[v] = -1 /\ d.col[v] = -1
  <2>1. i # 0
    BY <1>1, WorkspacesNumbers
  <2> QED BY <1>1, <2>1 DEF Mirrors
<1>6. /\ a.row_count = [d.row_count EXCEPT ![i] = count]
      /\ a.active_row = [d.active_row EXCEPT ![i] = k]
      /\ \A t \in Allocated(m.heap) :
           /\ a.heap[t].row = IF t = s THEN -1
                              ELSE IF m.heap[t].workspace = i /\ m.heap[t].row \in row + 1 .. count
                                   THEN m.heap[t].row - 1
                              ELSE m.heap[t].row
           /\ a.heap[t].col = IF t = s THEN -1 ELSE m.heap[t].col
           /\ a.heap[t].geometry = m.heap[t].geometry
  BY <1>1 DEF RowGone
<1> HIDE DEF w, i, row
<1>7. e = [d EXCEPT !.row = R, !.col = [d.col EXCEPT ![w] = -1],
                    !.row_count[i] = count,
                    !.active_row[i] = IF d.active_row[i] + 1 > count THEN count - 1 ELSE d.active_row[i]]
  <2> HIDE DEF R
  <2>1. R = [v \in Windows |-> IF v = w THEN -1
                               ELSE IF /\ d.workspace[v] = i
                                       /\ d.row[v] \in (d.row[w] + 1) .. d.row_count[i] - 1
                                    THEN d.row[v] - 1
                               ELSE d.row[v]]
    BY <1>1, <1>2 DEF R
  <2> QED BY <1>1, <1>2, <2>1 DEF Layout!CloseRow
<1>8. R \in [Windows -> Int]
  BY <1>3
<1>9. \A v \in Windows : R[v] = IF v = w THEN -1
                                ELSE IF d.workspace[v] = i /\ d.row[v] \in (row + 1) .. count
                                     THEN d.row[v] - 1
                                ELSE d.row[v]
  OBVIOUS
<1> HIDE DEF R, e
<1>10. /\ e.workspace = d.workspace /\ e.geometry = d.geometry
       /\ e.row = R /\ e.col = [d.col EXCEPT ![w] = -1]
       /\ e.row_count = a.row_count /\ e.active_row = a.active_row
       /\ e = [workspace |-> e.workspace, row |-> e.row, col |-> e.col,
               geometry |-> e.geometry, row_count |-> e.row_count,
               active_row |-> e.active_row]
  BY <1>1, <1>2, <1>6, <1>7 DEF Desks
<1>11. e \in Desks
  <2>1. a.row_count \in [Workspaces -> Int] /\ a.active_row \in [Workspaces -> Int]
    BY DEF Mawim
  <2>2. /\ e.workspace \in [Windows -> Workspaces \cup {0}] /\ e.geometry \in [Windows -> Rect]
    BY <1>1, <1>10 DEF Desks
  <2>3. e.row \in [Windows -> Int] /\ e.col \in [Windows -> Int]
    <3>1. [d.col EXCEPT ![w] = -1] \in [Windows -> Int]
      BY <1>1, <1>3
    <3> QED BY <1>8, <1>10, <3>1
  <2> QED BY <1>10, <2>1, <2>2, <2>3 DEF Desks
<1>12. \A t \in Allocated(m.heap) : /\ e.row[Name(m, t)] = a.heap[t].row
                                    /\ e.col[Name(m, t)] = a.heap[t].col
                                    /\ a.heap[t].geometry = m.heap[t].geometry
  <2>1. \A v \in Windows : e.col[v] = IF v = w THEN -1 ELSE d.col[v]
    BY <1>1, <1>3, <1>10
  <2> SUFFICES ASSUME NEW t \in Allocated(m.heap)
               PROVE  /\ e.row[Name(m, t)] = a.heap[t].row
                      /\ e.col[Name(m, t)] = a.heap[t].col
    BY <1>6
  <2>2. e.col[Name(m, t)] = a.heap[t].col
    BY <1>4, <1>6, <2>1
  <2>3. CASE t = s
    BY <1>4, <1>6, <1>9, <1>10, <2>2, <2>3
  <2>4. CASE t # s
    <3> DEFINE v == Name(m, t)
    <3>1. v \in Windows /\ v # w /\ d.workspace[v] = m.heap[t].workspace /\ d.row[v] = m.heap[t].row
      BY <1>4, <2>4
    <3> HIDE DEF v
    <3>2. e.row[v] = IF m.heap[t].workspace = i /\ m.heap[t].row \in (row + 1) .. count
                     THEN m.heap[t].row - 1
                     ELSE m.heap[t].row
      BY <1>9, <1>10, <3>1
    <3> QED BY <1>6, <2>2, <2>4, <3>2 DEF v
  <2> QED BY <2>3, <2>4
<1>13. \A v \in Windows \ WindowsOf(m.heap) : e.row[v] = -1 /\ e.col[v] = -1
  BY <1>1, <1>3, <1>5, <1>9, <1>10
<1>14. Mirrors(a, e)
  <2>1. /\ e.workspace = d.workspace /\ e.geometry = d.geometry
        /\ e.row_count = a.row_count /\ e.active_row = a.active_row
    BY <1>10
  <2> QED BY <1>11, <1>12, <1>13, <2>1, SlotsMirrored
<1> QED BY <1>14 DEF e, w

\* mawim_unmanage_window does what Tiling's UnmanageWindow says.
LEMMA UnmanageMirrored ==
  ASSUME NEW m, Settled(m), RowsOK(m), NEW d, Mirrors(m, d), NEW s \in Allocated(m.heap),
         m.heap[s].row >= 0
  PROVE  Mirrors(UnmanageWindow(m, s), Layout!UnmanageWindow(d, Name(m, s)))
<1> DEFINE i == m.heap[s].workspace
           oldrow == m.heap[s].row
           oldcol == m.heap[s].col
           w == Name(m, s)
           off == [m EXCEPT !.heap[s].row = -1, !.heap[s].col = -1]
           row_windows == WinsOnRow(off, i, oldrow)
           closed == [off EXCEPT !.heap = [t \in Structs |->
                        IF t \in row_windows /\ off.heap[t].col > oldcol
                        THEN [off.heap[t] EXCEPT !.col = @ - 1] ELSE off.heap[t]]]
           beneath == UNION {WinsOnRow(off, i, r) : r \in oldrow + 1 .. m.row_count[i] - 1}
           count == m.row_count[i] - 1
           k == IF m.active_row[i] + 1 > count THEN count - 1 ELSE m.active_row[i]
           raised == [off EXCEPT !.heap = [t \in Structs |->
                                             IF t \in beneath THEN [off.heap[t] EXCEPT !.row = @ - 1]
                                             ELSE off.heap[t]],
                                 !.row_count[i] = count,
                                 !.active_row[i] = IF @ + 1 > count THEN count - 1 ELSE @]
           others == {t \in row_windows : m.heap[t].x11_window # m.heap[s].x11_window}
           u == UnmanageWindow(m, s)
           rest == Layout!WinsOnRow(d, i, oldrow) \ {w}
<1>1. u = IF row_windows # {} THEN UpdateWindows(closed, others)
          ELSE IF LastRow(m, i) THEN off
          ELSE IF m.first[i] = NULL THEN [off EXCEPT !.fault = "uninitialized free"]
          ELSE UpdateWindows(raised, Listed(raised))
  BY DEF UnmanageWindow
<1> HIDE DEF off, row_windows, closed, beneath, raised, others, u
<1>2. /\ m \in Mawim /\ s \in Structs /\ i \in Workspaces /\ w \in Windows
      /\ oldrow \in Int /\ oldcol \in Int /\ oldrow \in Nat
      /\ \A t \in Allocated(m.heap) :
           /\ t \in Structs /\ m.heap[t].row \in Int /\ m.heap[t].col \in Int
           /\ m.heap[t].workspace \in Workspaces /\ Name(m, t) \in Windows
  BY StructType DEF Settled
<1>3. /\ m.row_count \in [Workspaces -> Int] /\ m.active_row \in [Workspaces -> Int]
      /\ count \in Int /\ k \in Int
  BY <1>2 DEF Mawim
<1>4. /\ SlotOnly(off, m, s) /\ off.heap[s].row = -1 /\ off.heap[s].col = -1
      /\ off.heap[s].geometry = m.heap[s].geometry
  BY <1>2, SlotCleared DEF off
<1>5. /\ off \in Mawim /\ SameLists(off, m) /\ Allocated(off.heap) = Allocated(m.heap)
      /\ Settled(off)
      /\ off.row_count = m.row_count /\ off.active_row = m.active_row
      /\ \A t \in Allocated(m.heap) \ {s} : off.heap[t] = m.heap[t]
  <2>1. off \in Mawim /\ SameLists(off, m)
    BY <1>4 DEF SlotOnly
  <2>2. Settled(off) /\ Allocated(off.heap) = Allocated(m.heap)
    BY <2>1, SettledSame
  <2> QED BY <1>4, <2>1, <2>2 DEF SlotOnly, Allocated
<1>6. /\ \A t \in Allocated(m.heap) : Name(m, t) \in rest <=> t \in row_windows
      /\ rest = {} <=> row_windows = {}
      /\ \A r : WinsOnRow(off, i, r) \subseteq Allocated(m.heap)
      /\ \A r \in Nat, t \in Allocated(m.heap) :
           t \in WinsOnRow(off, i, r) <=>
             t # s /\ m.heap[t].workspace = i /\ m.heap[t].row = r
  <2>1. LeavesRow(off, m, s, d)
    BY <1>4, RowLeft
  <2> QED BY <2>1 DEF LeavesRow, row_windows
<1>7. u \in Mawim /\ SameLists(u, m)
  <2>1. Whole(m)
    BY DEF Whole, Settled, Home
  <2> QED BY <1>2, <2>1, UnmanageKeeps DEF u
<1>8. Layout!UnmanageWindow(d, w) =
        IF rest # {} THEN Layout!UpdateWindows(Layout!CloseColumn(d, w), rest)
        ELSE IF m.row_count[i] > 1 THEN Layout!UpdateWindows(Layout!CloseRow(d, w), Windows)
        ELSE Layout!CloseColumn(d, w)
  <2>1. d.workspace[w] = i /\ d.row[w] = oldrow /\ d.row_count = m.row_count
    BY DEF Mirrors
  <2> HIDE DEF i, oldrow, w
  <2> QED BY <2>1 DEF Layout!UnmanageWindow
<1> HIDE DEF rest
<1>9. ASSUME row_windows # {}
      PROVE  Mirrors(u, Layout!UnmanageWindow(d, w))
  <2> DEFINE S == {t \in row_windows : off.heap[t].col > oldcol}
             e == Layout!CloseColumn(d, w)
  <2>1. S \in SUBSET Allocated(off.heap)
    BY <1>5, <1>6 DEF row_windows
  <2>2. closed = MovedLeft(off, S)
    BY DEF closed, MovedLeft
  <2>3. \A t : t \in S <=> t \in row_windows /\ off.heap[t].col > oldcol
    OBVIOUS
  <2> HIDE DEF S, e
  <2>4. /\ closed \in Mawim /\ SameLists(closed, off)
        /\ closed.row_count = off.row_count /\ closed.active_row = off.active_row
        /\ \A t \in Allocated(off.heap) :
             /\ closed.heap[t].row = off.heap[t].row
             /\ closed.heap[t].col = IF t \in S THEN off.heap[t].col - 1 ELSE off.heap[t].col
             /\ closed.heap[t].geometry = off.heap[t].geometry
    <3>1. MovedLeftFrom(closed, off, S)
      BY <1>5, <2>1, <2>2, SlotsMoved
    <3> QED BY <3>1 DEF MovedLeftFrom
  <2>5. SameLists(closed, m) /\ Settled(closed) /\ Allocated(closed.heap) = Allocated(m.heap)
        /\ \A t \in Allocated(m.heap) : Name(closed, t) = Name(m, t)
    <3>1. SameLists(closed, m)
      BY <1>5, <2>4, SameListsTransitive
    <3> QED BY <2>4, <3>1, SettledSame
  <2>6. s \notin row_windows
    BY <1>2, <1>6 DEF row_windows
  <2>7. \A t \in Allocated(m.heap) :
          /\ closed.heap[t].row = IF t = s THEN -1 ELSE m.heap[t].row
          /\ closed.heap[t].col = IF t = s THEN -1
                                  ELSE IF Name(m, t) \in rest /\ m.heap[t].col > oldcol
                                       THEN m.heap[t].col - 1
                                  ELSE m.heap[t].col
          /\ closed.heap[t].geometry = m.heap[t].geometry
    BY <1>4, <1>5, <1>6, <2>3, <2>4, <2>6
  <2>8. Mirrors(closed, e)
    <3>1. closed.row_count = m.row_count /\ closed.active_row = m.active_row
      BY <1>5, <2>4
    <3> QED BY <2>4, <2>5, <2>7, <3>1, ColumnMirrored DEF rest, e
  <2>9. others \in SUBSET Allocated(closed.heap)
    BY <1>6, <2>5 DEF others, row_windows
  <2>10. \A t \in Allocated(closed.heap) : Name(closed, t) \in rest <=> t \in others
    <3>1. \A t \in row_windows : m.heap[t].x11_window # m.heap[s].x11_window
      BY <1>6, <2>6 DEF Settled, Alone, row_windows
    <3> QED BY <1>6, <2>5, <3>1 DEF others
  <2>11. SameLists(u, closed)
    BY <1>7, <2>5, SameListsBetween
  <2>12. u = UpdateWindows(closed, others)
    BY <1>1, <1>9
  <2>13. Mirrors(u, Layout!UpdateWindows(e, rest))
    BY <1>7, <2>5, <2>8, <2>9, <2>10, <2>11, <2>12, UpdateMirrored
  <2>14. Layout!UnmanageWindow(d, w) = Layout!UpdateWindows(e, rest)
    BY <1>6, <1>8, <1>9 DEF e
  <2> QED BY <2>13, <2>14
<1>10. ASSUME row_windows = {}, LastRow(m, i)
       PROVE  Mirrors(u, Layout!UnmanageWindow(d, w))
  <2>1. u = off
    BY <1>1, <1>10
  <2>2. Layout!UnmanageWindow(d, w) = Layout!CloseColumn(d, w)
    <3> HIDE DEF i
    <3>1. ~ (m.row_count[i] > 1)
      BY <1>2, <1>3, <1>10 DEF LastRow
    <3> QED BY <1>6, <1>8, <1>10, <3>1
  <2>3. \A t \in Allocated(m.heap) :
          /\ off.heap[t].row = IF t = s THEN -1 ELSE m.heap[t].row
          /\ off.heap[t].col = IF t = s THEN -1
                               ELSE IF Name(m, t) \in rest /\ m.heap[t].col > oldcol
                                    THEN m.heap[t].col - 1
                               ELSE m.heap[t].col
          /\ off.heap[t].geometry = m.heap[t].geometry
    BY <1>4, <1>5, <1>6, <1>10
  <2>4. Mirrors(off, Layout!CloseColumn(d, w))
    BY <1>5, <2>3, ColumnMirrored DEF rest
  <2> QED BY <2>1, <2>2, <2>4
<1>11. ASSUME row_windows = {}, ~ LastRow(m, i)
       PROVE  Mirrors(u, Layout!UnmanageWindow(d, w))
  <2> DEFINE e == Layout!CloseRow(d, w)
  <2> HIDE DEF e
  <2>1. beneath \in SUBSET Allocated(off.heap)
    BY <1>5, <1>6 DEF beneath
  <2>2. \A t \in Allocated(m.heap) :
          t \in beneath <=> /\ t # s /\ m.heap[t].workspace = i
                            /\ m.heap[t].row \in oldrow + 1 .. count
    <3> SUFFICES ASSUME NEW t \in Allocated(m.heap)
                 PROVE  t \in beneath <=> /\ t # s /\ m.heap[t].workspace = i
                                          /\ m.heap[t].row \in oldrow + 1 .. count
      OBVIOUS
    <3> HIDE DEF i, oldrow, oldcol
    <3>1. \A r \in oldrow + 1 .. count : r \in Nat
      BY <1>2, <1>3
    <3>2. t \in beneath <=> \E r \in oldrow + 1 .. count : t \in WinsOnRow(off, i, r)
      BY DEF beneath
    <3> QED BY <1>6, <3>1, <3>2
  <2>3. m.first[i] # NULL
    <3>1. s \in OnList(m, i)
      BY <1>2 DEF Settled, Home
    <3>2. m.heap \in Heap
      BY <1>2 DEF Mawim
    <3> QED BY <3>1, <3>2, OnListIsReach, ReachNull
  <2>4. u = UpdateWindows(raised, Listed(raised))
    BY <1>1, <1>11, <2>3
  <2>5. raised = Raised(off, beneath, i, count, k)
    BY <1>5 DEF raised, Raised
  <2>6. RaisedFrom(raised, off, beneath, i, count, k)
    <3> HIDE DEF i, oldrow, oldcol, count, k
    <3> QED BY <1>2, <1>3, <1>5, <2>1, <2>5, RowClosed
  <2> HIDE DEF count, k
  <2>7. /\ raised \in Mawim /\ SameLists(raised, off)
        /\ raised.row_count = [m.row_count EXCEPT ![i] = count]
        /\ raised.active_row = [m.active_row EXCEPT ![i] = k]
        /\ \A t \in Allocated(m.heap) :
             /\ raised.heap[t].col = off.heap[t].col
             /\ raised.heap[t].row = IF t \in beneath THEN off.heap[t].row - 1 ELSE off.heap[t].row
             /\ raised.heap[t].geometry = off.heap[t].geometry
    BY <1>5, <2>6 DEF RaisedFrom
  <2>8. SameLists(raised, m) /\ Settled(raised) /\ Allocated(raised.heap) = Allocated(m.heap)
        /\ \A t \in Allocated(m.heap) : Name(raised, t) = Name(m, t)
    <3>1. SameLists(raised, m)
      BY <1>5, <2>7, SameListsTransitive
    <3> QED BY <2>7, <3>1, SettledSame
  <2>9. \A t \in Allocated(m.heap) :
          /\ raised.heap[t].row = IF t = s THEN -1
                                  ELSE IF m.heap[t].workspace = i /\ m.heap[t].row \in oldrow + 1 .. count
                                       THEN m.heap[t].row - 1
                                  ELSE m.heap[t].row
          /\ raised.heap[t].col = IF t = s THEN -1 ELSE m.heap[t].col
          /\ raised.heap[t].geometry = m.heap[t].geometry
    BY <1>4, <1>5, <2>2, <2>7
  <2>10. Mirrors(raised, e)
    <3>1. count = m.row_count[i] - 1
          /\ k = IF m.active_row[i] + 1 > count THEN count - 1 ELSE m.active_row[i]
      BY DEF count, k
    <3>2. RowGone(raised, m, s, count, k)
      BY <2>7, <2>9 DEF RowGone
    <3> HIDE DEF i, oldrow, oldcol, w
    <3>3. count = m.row_count[m.heap[s].workspace] - 1
          /\ k = IF m.active_row[m.heap[s].workspace] + 1 > count THEN count - 1
                 ELSE m.active_row[m.heap[s].workspace]
      BY <3>1 DEF i
    <3> QED BY <2>7, <2>8, <3>2, <3>3, CloseRowMirrored DEF e, w
  <2>11. Listed(raised) \in SUBSET Allocated(raised.heap)
    BY <2>8 DEF Listed, Settled, Home
  <2>12. \A t \in Allocated(raised.heap) : Name(raised, t) \in Windows <=> t \in Listed(raised)
    <3>1. ASSUME NEW t \in Allocated(raised.heap)
          PROVE  t \in Listed(raised) /\ Name(raised, t) \in Windows
      <4>1. raised.heap[t].workspace \in Workspaces /\ Name(raised, t) \in Windows
        BY <2>7, StructType
      <4>2. t \in OnList(raised, raised.heap[t].workspace)
        BY <2>8, <4>1 DEF Settled, Home
      <4> QED BY <4>1, <4>2 DEF Listed
    <3> QED BY <3>1
  <2>13. SameLists(u, raised)
    BY <1>7, <2>8, SameListsBetween
  <2>14. Mirrors(u, Layout!UpdateWindows(e, Windows))
    BY <1>7, <2>4, <2>8, <2>10, <2>11, <2>12, <2>13, UpdateMirrored
  <2>15. Layout!UnmanageWindow(d, w) = Layout!UpdateWindows(e, Windows)
    <3> HIDE DEF i
    <3>1. m.row_count[i] > 1
      BY <1>2, <1>3, <1>11 DEF LastRow
    <3> QED BY <1>6, <1>8, <1>11, <3>1 DEF e
  <2> QED BY <2>14, <2>15
<1> QED BY <1>9, <1>10, <1>11 DEF u, w
-----------------------------------------------------------------------------
\* The other functions, and the lists.

\* mawim_update_all_windows
LEMMA UpdateAllMirrored ==
  ASSUME NEW m, Tidy(m), Slotted(m.heap, Allocated(m.heap)), NEW d, Mirrors(m, d)
  PROVE  Mirrors(UpdateAllWindows(m), Layout!UpdateWindows(d, Windows))
<1> DEFINE u == UpdateAllWindows(m)
<1>1. Settled(m) /\ m \in Mawim
  BY TidySettled DEF Settled
<1>2. u = UpdateWindows(m, Allocated(m.heap))
  BY TidyLists DEF UpdateAllWindows
<1>3. Tidy(u) /\ SameLists(u, m)
  BY TidyUpdate
<1> HIDE DEF u
<1>4. u \in Mawim
  BY <1>3 DEF Tidy, Sound
<1>5. \A s \in Allocated(m.heap) : Name(m, s) \in Windows <=> s \in Allocated(m.heap)
  BY <1>1, StructType
<1>6. Allocated(m.heap) \in SUBSET Allocated(m.heap)
  OBVIOUS
<1> QED BY <1>1, <1>2, <1>3, <1>4, <1>5, <1>6, UpdateMirrored DEF u

\* A new struct on a list is a window that joins the workspace.
LEMMA ListedNewMirrored ==
  ASSUME NEW m, Tidy(m), Slotted(m.heap, Allocated(m.heap)), NEW d, Mirrors(m, d),
         NEW w \in Windows, FindInWorkspaces(m, w) = 0,
         NEW s \in Structs, m.heap[s] = Free
  PROVE  LET i == m.active_workspace
             a == AppendWindow(Created(m, s, w, i), i, s)
         IN  /\ Mirrors(a, Layout!MoveToList(d, w, i))
             /\ Name(a, s) = w
<1> DEFINE i == m.active_workspace
           c == Created(m, s, w, i)
           a == AppendWindow(c, i, s)
           e == Layout!MoveToList(d, w, i)
<1>1. m \in Mawim /\ i \in Workspaces /\ d \in Desks /\ w \notin WindowsOf(m.heap)
      /\ m.heap \in Heap
  BY TidyFinds DEF Tidy, Sound, Mirrors, Mawim
<1>2. /\ SamePlaces(a.heap, c.heap, Structs) /\ SameWorkspaces(a, m)
      /\ Allocated(a.heap) = Allocated(m.heap) \cup {s}
  BY ListedNewTidy
<1>3. /\ c.heap[s] = [next |-> NULL, x11_window |-> w, workspace |-> i,
                      row |-> -1, col |-> -1, geometry |-> NoTile]
      /\ \A t \in Structs \ {s} : c.heap[t] = m.heap[t]
  <2> HIDE DEF i
  <2>1. c.heap = [m.heap EXCEPT ![s] = [next |-> NULL, x11_window |-> w, workspace |-> i,
                                        row |-> -1, col |-> -1, geometry |-> NoTile]]
    BY <1>1 DEF Created, Mawim
  <2> HIDE DEF c
  <2> QED BY <1>1, <2>1 DEF Heap
<1>4. c.heap[s] \in Window
  <2> HIDE DEF c, i
  <2> QED BY <1>1, <1>3 DEF Window, NoTile
<1> HIDE DEF i, c, a
<1>5. /\ Name(a, s) = w /\ a.heap[s].workspace = i
      /\ a.heap[s].row = -1 /\ a.heap[s].col = -1 /\ a.heap[s].geometry = NoTile
  BY <1>2, <1>3, <1>4, FreeAssumption DEF SamePlaces, Name
<1>6. \A t \in Allocated(m.heap) :
        /\ t \in Structs /\ t # s /\ Name(m, t) # w
        /\ Name(a, t) = Name(m, t) /\ a.heap[t].workspace = m.heap[t].workspace
        /\ a.heap[t].row = m.heap[t].row /\ a.heap[t].col = m.heap[t].col
        /\ a.heap[t].geometry = m.heap[t].geometry
  BY <1>1, <1>2, <1>3 DEF SamePlaces, Name, Allocated, WindowsOf
<1>7. e = [d EXCEPT !.workspace = [d.workspace EXCEPT ![w] = i]]
  BY DEF Layout!MoveToList
<1>8. /\ e.workspace = [d.workspace EXCEPT ![w] = i] /\ e.row = d.row /\ e.col = d.col
      /\ e.geometry = d.geometry /\ e.row_count = d.row_count /\ e.active_row = d.active_row
      /\ e \in Desks /\ d.workspace \in [Windows -> Workspaces \cup {0}]
  <2> HIDE DEF e
  <2>1. d.workspace \in [Windows -> Workspaces \cup {0}]
    BY <1>1 DEF Desks
  <2>2. [d.workspace EXCEPT ![w] = i] \in [Windows -> Workspaces \cup {0}]
    BY <1>1, <2>1
  <2> QED BY <1>1, <1>7, <2>1, <2>2 DEF Desks
<1> HIDE DEF e
<1>9. d.workspace[w] = 0 /\ d.row[w] = -1 /\ d.col[w] = -1 /\ d.geometry[w] = NoTile
  BY <1>1 DEF Mirrors
<1>10. e.row_count = a.row_count /\ e.active_row = a.active_row
  BY <1>2, <1>8 DEF Mirrors, SameWorkspaces
<1>11. \A t \in Allocated(a.heap) :
         /\ e.workspace[Name(a, t)] = a.heap[t].workspace
         /\ e.row[Name(a, t)] = a.heap[t].row
         /\ e.col[Name(a, t)] = a.heap[t].col
         /\ e.geometry[Name(a, t)] = a.heap[t].geometry
  BY <1>1, <1>2, <1>5, <1>6, <1>8, <1>9 DEF Mirrors
<1>12. \A v \in Windows \ WindowsOf(a.heap) :
         e.workspace[v] = 0 /\ e.row[v] = -1 /\ e.col[v] = -1 /\ e.geometry[v] = NoTile
  <2> SUFFICES ASSUME NEW v \in Windows \ WindowsOf(a.heap)
               PROVE  v \notin WindowsOf(m.heap) /\ v # w
    BY <1>8 DEF Mirrors
  <2>1. s \in Allocated(a.heap) /\ \A t \in Allocated(m.heap) : t \in Allocated(a.heap)
    BY <1>2
  <2> QED BY <1>5, <1>6, <2>1 DEF WindowsOf, Name
<1>13. Mirrors(a, e)
  BY <1>8, <1>10, <1>11, <1>12 DEF Mirrors
<1> QED BY <1>5, <1>13 DEF a, c, i, e

\* A struct that is freed is a window that is forgotten.
LEMMA RemovedMirrored ==
  ASSUME NEW u, Tidy(u), NEW s \in Allocated(u.heap), Slotted(u.heap, Allocated(u.heap) \ {s}),
         u.heap[s].row = -1, u.heap[s].col = -1, NEW d, Mirrors(u, d)
  PROVE  LET w == u.heap[s].x11_window
             r == RemoveWindow(u, u.heap[s].workspace, w, TRUE)
         IN  Mirrors(r, Layout!ForgetWindow(d, w))
<1> DEFINE w == u.heap[s].x11_window
           r == RemoveWindow(u, u.heap[s].workspace, w, TRUE)
           e == Layout!ForgetWindow(d, w)
<1>1. w \in Windows /\ d \in Desks /\ w = Name(u, s)
  BY TidyLists DEF Mirrors, Name
<1>2. /\ WindowsOf(r.heap) = WindowsOf(u.heap) \ {w}
      /\ SamePlaces(r.heap, u.heap, Allocated(r.heap)) /\ SameWorkspaces(r, u)
      /\ Allocated(r.heap) = Allocated(u.heap) \ {s}
  BY RemovedTidy
<1> HIDE DEF r
<1>3. d.row[w] = -1 /\ d.col[w] = -1
  BY <1>1 DEF Mirrors
<1>4. \A t \in Allocated(r.heap) :
        /\ t \in Allocated(u.heap) /\ Name(u, t) # w
        /\ Name(r, t) = Name(u, t) /\ r.heap[t].workspace = u.heap[t].workspace
        /\ r.heap[t].row = u.heap[t].row /\ r.heap[t].col = u.heap[t].col
        /\ r.heap[t].geometry = u.heap[t].geometry
  BY <1>2 DEF SamePlaces, Name, Allocated, Tidy, Alone
<1> HIDE DEF w
<1> DEFINE W == [d.workspace EXCEPT ![w] = 0]
           G == [d.geometry EXCEPT ![w] = NoTile]
<1>5. e = [d EXCEPT !.workspace = W, !.geometry = G]
  BY DEF Layout!ForgetWindow, Layout!Nowhere, Layout!NoTile, NoTile
<1>6. W \in [Windows -> Workspaces \cup {0}] /\ G \in [Windows -> Rect]
      /\ \A v \in Windows : /\ W[v] = IF v = w THEN 0 ELSE d.workspace[v]
                            /\ G[v] = IF v = w THEN NoTile ELSE d.geometry[v]
  <2>1. d.workspace \in [Windows -> Workspaces \cup {0}] /\ d.geometry \in [Windows -> Rect]
    BY <1>1 DEF Desks
  <2>2. NoTile \in Rect
    BY DEF NoTile, Rect
  <2> QED BY <1>1, <2>1, <2>2
<1> HIDE DEF W, G, e
<1>7. /\ e.workspace = W /\ e.row = d.row /\ e.col = d.col
      /\ e.geometry = G /\ e.row_count = d.row_count /\ e.active_row = d.active_row
      /\ e \in Desks
  BY <1>1, <1>5, <1>6 DEF Desks
<1>8. e.row_count = r.row_count /\ e.active_row = r.active_row
  BY <1>2, <1>7 DEF Mirrors, SameWorkspaces
<1>9. \A t \in Allocated(u.heap) : Name(u, t) \in Windows
  BY TidyLists DEF Name
<1>10. \A t \in Allocated(r.heap) :
         /\ e.workspace[Name(r, t)] = r.heap[t].workspace
         /\ e.row[Name(r, t)] = r.heap[t].row
         /\ e.col[Name(r, t)] = r.heap[t].col
         /\ e.geometry[Name(r, t)] = r.heap[t].geometry
  BY <1>4, <1>6, <1>7, <1>9 DEF Mirrors
<1>11. \A v \in Windows \ WindowsOf(r.heap) :
         e.workspace[v] = 0 /\ e.row[v] = -1 /\ e.col[v] = -1 /\ e.geometry[v] = NoTile
  BY <1>2, <1>3, <1>6, <1>7 DEF Mirrors
<1>12. Mirrors(r, e)
  BY <1>7, <1>8, <1>10, <1>11 DEF Mirrors
<1> QED BY <1>12 DEF r, e, w

\* A struct that names another workspace is a window that joins it.
LEMMA RenamedMirrored ==
  ASSUME NEW u, Tidy(u), NEW s \in Allocated(u.heap), NEW n \in Workspaces, NEW d, Mirrors(u, d),
         NEW v, SamePlaces(v.heap, Renamed(u, s, n).heap, Structs), SameWorkspaces(v, u),
         Allocated(v.heap) = Allocated(u.heap)
  PROVE  /\ Mirrors(v, Layout!MoveToList(d, Name(u, s), n))
         /\ Name(v, s) = Name(u, s)
<1> DEFINE w == Name(u, s)
           g == Renamed(u, s, n).heap
           W == [d.workspace EXCEPT ![w] = n]
           e == Layout!MoveToList(d, w, n)
<1>1. /\ u \in Mawim /\ u.heap \in Heap /\ s \in Structs /\ u.heap[s] \in Window /\ w \in Windows
      /\ d \in Desks /\ Alone(u.heap)
  BY StructType DEF Tidy, Sound, Mawim, Mirrors
<1>2. g = [u.heap EXCEPT ![s].workspace = n]
  BY <1>1 DEF Renamed, Mawim
<1> HIDE DEF g
<1>3. /\ g[s] = [u.heap[s] EXCEPT !.workspace = n]
      /\ \A t \in Structs \ {s} : g[t] = u.heap[t]
  BY <1>1, <1>2 DEF Heap
<1>4. /\ g[s] \in Window /\ g[s].x11_window = u.heap[s].x11_window /\ g[s].workspace = n
      /\ g[s].row = u.heap[s].row /\ g[s].col = u.heap[s].col
      /\ g[s].geometry = u.heap[s].geometry
  BY <1>1, <1>3 DEF Window
<1>5. SamePlaces(v.heap, g, Structs)
  BY DEF g
<1>6. \A t \in Allocated(u.heap) :
        /\ t \in Structs /\ Name(u, t) \in Windows /\ (Name(u, t) = w <=> t = s)
        /\ Name(v, t) = Name(u, t)
        /\ v.heap[t].workspace = IF t = s THEN n ELSE u.heap[t].workspace
        /\ v.heap[t].row = u.heap[t].row /\ v.heap[t].col = u.heap[t].col
        /\ v.heap[t].geometry = u.heap[t].geometry
  <2> SUFFICES ASSUME NEW t \in Allocated(u.heap)
               PROVE  /\ t \in Structs /\ Name(u, t) \in Windows /\ (Name(u, t) = w <=> t = s)
                      /\ Name(v, t) = Name(u, t)
                      /\ v.heap[t].workspace = IF t = s THEN n ELSE u.heap[t].workspace
                      /\ v.heap[t].row = u.heap[t].row /\ v.heap[t].col = u.heap[t].col
                      /\ v.heap[t].geometry = u.heap[t].geometry
    OBVIOUS
  <2>1. t \in Structs /\ Name(u, t) \in Windows /\ u.heap[t] # Free
    BY <1>1, StructType DEF Allocated
  <2>2. Name(u, t) = w <=> t = s
    BY <1>1 DEF Alone, Name
  <2>3. g[t] # Free
    BY <1>3, <1>4, <2>1, FreeAssumption
  <2>4. /\ v.heap[t].x11_window = g[t].x11_window /\ v.heap[t].workspace = g[t].workspace
        /\ v.heap[t].row = g[t].row /\ v.heap[t].col = g[t].col
        /\ v.heap[t].geometry = g[t].geometry
    BY <1>5, <2>1, <2>3 DEF SamePlaces
  <2>5. /\ g[t].x11_window = u.heap[t].x11_window
        /\ g[t].workspace = IF t = s THEN n ELSE u.heap[t].workspace
        /\ g[t].row = u.heap[t].row /\ g[t].col = u.heap[t].col
        /\ g[t].geometry = u.heap[t].geometry
    BY <1>3, <1>4, <2>1
  <2> HIDE DEF w
  <2> QED BY <2>1, <2>2, <2>4, <2>5 DEF Name
<1>7. WindowsOf(v.heap) = WindowsOf(u.heap) /\ w \in WindowsOf(u.heap)
  BY <1>6 DEF WindowsOf, Name
<1> HIDE DEF w
<1>8. W \in [Windows -> Workspaces \cup {0}]
      /\ \A x \in Windows : W[x] = IF x = w THEN n ELSE d.workspace[x]
  <2>1. d.workspace \in [Windows -> Workspaces \cup {0}]
    BY <1>1 DEF Desks
  <2> QED BY <1>1, <2>1
<1>9. e = [d EXCEPT !.workspace = W]
  BY DEF Layout!MoveToList
<1> HIDE DEF W, e
<1>10. /\ e.workspace = W /\ e.row = d.row /\ e.col = d.col
       /\ e.geometry = d.geometry /\ e.row_count = d.row_count /\ e.active_row = d.active_row
       /\ e \in Desks
  BY <1>1, <1>8, <1>9 DEF Desks
<1>11. e.row_count = v.row_count /\ e.active_row = v.active_row
  BY <1>10 DEF Mirrors, SameWorkspaces
<1>12. \A t \in Allocated(v.heap) :
         /\ e.workspace[Name(v, t)] = v.heap[t].workspace
         /\ e.row[Name(v, t)] = v.heap[t].row
         /\ e.col[Name(v, t)] = v.heap[t].col
         /\ e.geometry[Name(v, t)] = v.heap[t].geometry
  BY <1>6, <1>8, <1>10 DEF Mirrors
<1>13. \A x \in Windows \ WindowsOf(v.heap) :
         e.workspace[x] = 0 /\ e.row[x] = -1 /\ e.col[x] = -1 /\ e.geometry[x] = NoTile
  BY <1>7, <1>8, <1>10 DEF Mirrors
<1>14. Mirrors(v, e)
  BY <1>10, <1>11, <1>12, <1>13 DEF Mirrors
<1> QED BY <1>6, <1>14 DEF e, w

\* Tiling's UnmanageWindow leaves the window without a slot.
LEMMA UnmanagedSlot ==
  ASSUME NEW d \in Desks, NEW w \in Windows
  PROVE  /\ Layout!UnmanageWindow(d, w).row[w] = -1
         /\ Layout!UnmanageWindow(d, w).col[w] = -1
<1>1. d.row \in [Windows -> Int] /\ d.col \in [Windows -> Int]
  BY DEF Desks
<1>2. ASSUME NEW e, e \in {Layout!CloseColumn(d, w), Layout!CloseRow(d, w)}
      PROVE  /\ e.row[w] = -1 /\ e.col[w] = -1
             /\ \A S : Layout!UpdateWindows(e, S).row = e.row
                       /\ Layout!UpdateWindows(e, S).col = e.col
  <2>1. CASE e = Layout!CloseColumn(d, w)
    BY <1>1, <2>1 DEF Layout!CloseColumn, Layout!UpdateWindows, Desks
  <2>2. CASE e = Layout!CloseRow(d, w)
    BY <1>1, <2>2 DEF Layout!CloseRow, Layout!UpdateWindows, Desks
  <2> QED BY <1>2, <2>1, <2>2
<1> QED BY <1>2 DEF Layout!UnmanageWindow
-----------------------------------------------------------------------------
\* The handlers are actions of Tiling.

\* The invariant of the prudent program, and the refinement mapping.
LayoutInv == PrudentInv /\ desk = Desk(mawim)

\* The end of a handler leaves a layout that is mirrored already.
LEMMA FinishMirrored ==
  ASSUME NEW m, Tidy(m), Slotted(m.heap, Allocated(m.heap)), Finish(m), NEW d, Mirrors(m, d)
  PROVE  Desk(mawim') = d /\ mawim'.active_workspace = m.active_workspace
<1>1. Tidy(mawim') /\ mawim'.heap = m.heap
  BY FinishTidy
<1>2. m \in Mawim
  BY DEF Tidy, Sound
<1>3. /\ mawim'.row_count = m.row_count /\ mawim'.active_row = m.active_row
      /\ mawim'.active_workspace = m.active_workspace
  BY <1>2 DEF Finish, Mawim
<1>4. Mirrors(mawim', d)
  BY <1>1, <1>3 DEF Mirrors, Name
<1> QED BY <1>1, <1>3, <1>4, MirrorsDesk

LEMMA LayoutMirrored ==
  ASSUME LayoutInv
  PROVE  /\ Tidy(mawim) /\ Slotted(mawim.heap, Allocated(mawim.heap)) /\ Mirrors(mawim, desk)
         /\ mawim \in Mawim /\ Settled(mawim) /\ RowsOK(mawim) /\ Whole(mawim)
  BY DeskMirrors, TidySettled, TidyLists DEF LayoutInv, PrudentInv, Tidy, Sound

\* A window that is shown by some list has a struct there.
LEMMA ListedStruct ==
  ASSUME LayoutInv, NEW w \in Windows, FindInWorkspaces(mawim, w) # 0
  PROVE  \E s \in Allocated(mawim.heap) :
           /\ Name(mawim, s) = w
           /\ FindInWorkspaces(mawim, w) = mawim.heap[s].workspace
           /\ FindWindow(mawim, FindInWorkspaces(mawim, w), w) = s
           /\ desk.workspace[w] = mawim.heap[s].workspace
           /\ mawim.heap[s].workspace \in Workspaces
<1>1. PICK s \in Allocated(mawim.heap) : mawim.heap[s].x11_window = w
  BY LayoutMirrored, TidyFinds DEF WindowsOf
<1>2. /\ FindInWorkspaces(mawim, w) = mawim.heap[s].workspace
      /\ FindWindow(mawim, mawim.heap[s].workspace, w) = s
  BY <1>1, LayoutMirrored, TidyFinds
<1>3. mawim.heap[s].workspace \in Workspaces
  BY LayoutMirrored, StructType
<1> QED BY <1>1, <1>2, <1>3, LayoutMirrored DEF Name, Mirrors

LEMMA ConfigureKnownTiles ==
  ASSUME LayoutInv, desk' = Desk(mawim'), NEW w \in Windows, HandleConfigureKnown(w)
  PROVE  Layout!ConfigureTiledWindow(w)
<1>1. FindInWorkspaces(mawim, w) # 0
      /\ Finish(ManageWindow(mawim, FindWindow(mawim, FindInWorkspaces(mawim, w), w)))
  BY DEF HandleConfigureKnown
<1>2. PICK s \in Allocated(mawim.heap) :
        /\ Name(mawim, s) = w
        /\ FindWindow(mawim, FindInWorkspaces(mawim, w), w) = s
        /\ desk.workspace[w] = mawim.heap[s].workspace
        /\ mawim.heap[s].workspace \in Workspaces
  BY <1>1, ListedStruct
<1> DEFINE u == ManageWindow(mawim, s)
<1>3. Tidy(u) /\ Slotted(u.heap, Allocated(u.heap)) /\ SameLists(u, mawim)
  <2>1. Slotted(mawim.heap, Allocated(mawim.heap) \ {s})
    BY LayoutMirrored DEF Slotted
  <2> QED BY <2>1, LayoutMirrored, TidyManage
<1>4. Mirrors(u, Layout!ManageWindow(desk, w))
  BY <1>2, LayoutMirrored, ManageMirrored
<1>5. Finish(u)
  BY <1>1, <1>2
<1> HIDE DEF u
<1>6. desk' = Layout!ManageWindow(desk, w) /\ mawim'.active_workspace = u.active_workspace
  BY <1>3, <1>4, <1>5, FinishMirrored
<1>7. u.active_workspace = mawim.active_workspace
  BY <1>3 DEF SameLists
<1>8. desk.workspace[w] # 0
  BY <1>2, WorkspacesNumbers
<1> QED BY <1>6, <1>7, <1>8 DEF Layout!ConfigureTiledWindow, Layout!Nowhere

LEMMA ConfigureNewTiles ==
  ASSUME LayoutInv, desk' = Desk(mawim'), NEW w \in Windows, NEW s \in Structs,
         HandleConfigureNew(w, s)
  PROVE  Layout!ConfigureNewWindow(w)
<1> DEFINE i == mawim.active_workspace
           a == AppendWindow(Created(mawim, s, w, i), i, s)
           u == ManageWindow(a, s)
<1>1. ActiveExists
  BY LayoutMirrored DEF ActiveExists, Tidy
<1>2. FindInWorkspaces(mawim, w) = 0 /\ mawim.heap[s] = Free /\ Finish(u)
  BY <1>1 DEF HandleConfigureNew, Created
<1>3. /\ Tidy(a) /\ s \in Allocated(a.heap) /\ Slotted(a.heap, Allocated(a.heap) \ {s})
      /\ SameWorkspaces(a, mawim)
  BY <1>2, LayoutMirrored, ListedNewTidy
<1>4. Mirrors(a, Layout!MoveToList(desk, w, i)) /\ Name(a, s) = w
  BY <1>2, LayoutMirrored, ListedNewMirrored
<1> HIDE DEF a
<1>5. Tidy(u) /\ Slotted(u.heap, Allocated(u.heap)) /\ SameLists(u, a)
  BY <1>3, TidyManage
<1>6. Mirrors(u, Layout!ManageWindow(Layout!MoveToList(desk, w, i), w))
  BY <1>3, <1>4, TidySettled, TidyLists, ManageMirrored DEF Tidy, Sound
<1> HIDE DEF u
<1>7. /\ desk' = Layout!ManageWindow(Layout!MoveToList(desk, w, i), w)
      /\ mawim'.active_workspace = u.active_workspace
  BY <1>2, <1>5, <1>6, FinishMirrored
<1>8. u.active_workspace = mawim.active_workspace
  BY <1>3, <1>5 DEF SameLists, SameWorkspaces
<1>9. desk.workspace[w] = 0
  <2>1. w \notin WindowsOf(mawim.heap)
    BY <1>2, LayoutMirrored, TidyFinds
  <2> QED BY <2>1, LayoutMirrored DEF Mirrors
<1> QED BY <1>7, <1>8, <1>9 DEF Layout!ConfigureNewWindow, Layout!Nowhere, i

LEMMA DestroyTiles ==
  ASSUME LayoutInv, desk' = Desk(mawim'), NEW w \in Windows, HandleDestroyNotify(w),
         FindInWorkspaces(mawim, w) # 0
  PROVE  Layout!DestroyWindow(w)
<1> DEFINE i == FindInWorkspaces(mawim, w)
<1>1. Finish(RemoveWindow(UnmanageWindow(mawim, FindWindow(mawim, i, w)), i, w, TRUE))
  BY DEF HandleDestroyNotify
<1>2. PICK s \in Allocated(mawim.heap) :
        /\ Name(mawim, s) = w /\ i = mawim.heap[s].workspace
        /\ FindWindow(mawim, i, w) = s
        /\ desk.workspace[w] = mawim.heap[s].workspace
        /\ i \in Workspaces
  BY ListedStruct
<1> HIDE DEF i
<1> DEFINE u == UnmanageWindow(mawim, s)
           e == Layout!UnmanageWindow(desk, w)
           r == RemoveWindow(u, i, w, TRUE)
<1>3. /\ Tidy(u) /\ SameLists(u, mawim) /\ Allocated(u.heap) = Allocated(mawim.heap)
      /\ Slotted(u.heap, Allocated(mawim.heap) \ {s})
  BY LayoutMirrored, TidyUnmanage
<1>4. mawim.heap[s].row >= 0
  BY LayoutMirrored DEF Slotted
<1>5. Mirrors(u, e)
  BY <1>2, <1>4, LayoutMirrored, UnmanageMirrored
<1>6. e.row[w] = -1 /\ e.col[w] = -1
  BY LayoutMirrored, UnmanagedSlot DEF Mirrors
<1> HIDE DEF u, e
<1>7. /\ s \in Allocated(u.heap) /\ u.heap[s].x11_window = w /\ u.heap[s].workspace = i
      /\ Name(u, s) = w
  BY <1>2, <1>3 DEF SameLists, SameLinks, Allocated, Name
<1>8. u.heap[s].row = -1 /\ u.heap[s].col = -1
  BY <1>5, <1>6, <1>7 DEF Mirrors
<1>9. Tidy(r) /\ Slotted(r.heap, Allocated(r.heap)) /\ SameWorkspaces(r, u)
  <2>1. Tidy(u) /\ s \in Allocated(u.heap) /\ Slotted(u.heap, Allocated(u.heap) \ {s})
    BY <1>3, <1>7
  <2>2. r = RemoveWindow(u, u.heap[s].workspace, u.heap[s].x11_window, TRUE)
    BY <1>7
  <2> HIDE DEF r
  <2> QED BY <2>1, <2>2, RemovedTidy
<1>10. Mirrors(r, Layout!ForgetWindow(e, w))
  BY <1>3, <1>5, <1>7, <1>8, RemovedMirrored
<1>11. Finish(r)
  BY <1>1, <1>2 DEF u
<1> HIDE DEF r
<1>12. desk' = Layout!ForgetWindow(e, w) /\ mawim'.active_workspace = r.active_workspace
  BY <1>9, <1>10, <1>11, FinishMirrored
<1>13. r.active_workspace = mawim.active_workspace
  BY <1>3, <1>9 DEF SameLists, SameWorkspaces
<1>14. desk.workspace[w] # 0
  BY <1>2, WorkspacesNumbers
<1> QED BY <1>12, <1>13, <1>14 DEF Layout!DestroyWindow, Layout!Nowhere, e

LEMMA SetWorkspaceTiles ==
  ASSUME LayoutInv, desk' = Desk(mawim'), NEW n \in Workspaces, HandleSetWorkspace(n)
  PROVE  Layout!SetWorkspace(n)
<1> DEFINE a == [mawim EXCEPT !.active_workspace = n]
           u == UpdateAllWindows(a)
<1>1. Finish(u)
  BY DEF HandleSetWorkspace
<1>2. Tidy(a) /\ a.heap = mawim.heap /\ a.active_workspace = n
  BY LayoutMirrored, SwitchedTidy
<1>3. a.row_count = mawim.row_count /\ a.active_row = mawim.active_row
  BY LayoutMirrored DEF Mawim
<1> HIDE DEF a
<1>4. Mirrors(a, desk) /\ Slotted(a.heap, Allocated(a.heap))
  BY <1>2, <1>3, LayoutMirrored DEF Mirrors, Name
<1>5. Tidy(u) /\ Slotted(u.heap, Allocated(u.heap)) /\ SameLists(u, a)
  BY <1>2, <1>4, TidyUpdate
<1>6. Mirrors(u, Layout!UpdateWindows(desk, Windows))
  BY <1>2, <1>4, UpdateAllMirrored
<1> HIDE DEF u
<1>7. /\ desk' = Layout!UpdateWindows(desk, Windows)
      /\ mawim'.active_workspace = u.active_workspace
  BY <1>1, <1>5, <1>6, FinishMirrored
<1>8. u.active_workspace = n
  BY <1>2, <1>5 DEF SameLists
<1> QED BY <1>7, <1>8 DEF Layout!SetWorkspace

LEMMA MoveFocusedTiles ==
  ASSUME LayoutInv, desk' = Desk(mawim'), NEW n \in Workspaces,
         FocusFresh(mawim.active_workspace), HandleMoveFocused(n)
  PROVE  \/ \E w \in Windows : Layout!MoveWindow(w, n)
         \/ mawim' = mawim
<1> DEFINE i == mawim.active_workspace
           s == mawim.focused_window[i]
           w == Name(mawim, s)
           u == UnmanageWindow(mawim, s)
           v == Moved(mawim, s, n)
           z == ManageWindow(v, s)
           x == UpdateAllWindows(z)
<1>1. i \in Workspaces
  BY LayoutMirrored DEF Tidy
<1>2. s = NULL \/ s \in Home(mawim.heap, i)
  BY <1>1, LayoutMirrored, TidyLists DEF FocusFresh
<1>3. IF i \notin Workspaces THEN Fail("workspace index")
      ELSE IF s = NULL THEN UNCHANGED <<mawim, xwin>>
      ELSE IF mawim.heap[s] = Free THEN Fail("use after free")
      ELSE IF n \notin Workspaces THEN Fail("workspace index")
      ELSE Finish(x)
  BY DEF HandleMoveFocused, Moved, Renamed
<1> HIDE DEF s, u, v, z, x
<1>4. CASE s = NULL
  BY <1>1, <1>3, <1>4
<1>5. CASE s # NULL
  <2>1. s \in Home(mawim.heap, i) /\ s \in Allocated(mawim.heap) /\ mawim.heap[s] # Free
        /\ mawim.heap[s].workspace = i
    BY <1>2, <1>5 DEF Home, Allocated
  <2>2. Finish(x)
    BY <1>1, <1>3, <1>5, <2>1
  <2>3. w \in Windows /\ desk.workspace[w] = i
    BY <2>1, LayoutMirrored, StructType DEF Mirrors
  <2> DEFINE e == Layout!UnmanageWindow(desk, w)
             f == Layout!MoveToList(e, w, n)
             g == Layout!ManageWindow(f, w)
  <2>4. /\ Tidy(u) /\ SameLists(u, mawim) /\ Allocated(u.heap) = Allocated(mawim.heap)
    BY <2>1, LayoutMirrored, TidyUnmanage DEF u
  <2>5. Mirrors(u, e)
    <3>1. mawim.heap[s].row >= 0
      BY <2>1, LayoutMirrored DEF Slotted
    <3> QED BY <2>1, <3>1, LayoutMirrored, UnmanageMirrored DEF u
  <2>6. /\ Tidy(v) /\ s \in Allocated(v.heap) /\ Slotted(v.heap, Allocated(v.heap) \ {s})
        /\ SamePlaces(v.heap, Renamed(u, s, n).heap, Structs) /\ SameWorkspaces(v, u)
        /\ Allocated(v.heap) = Allocated(u.heap)
    BY <2>1, <2>4, LayoutMirrored, MovedTidy DEF u, v
  <2>7. Name(u, s) = w /\ s \in Allocated(u.heap)
    BY <2>1, <2>4, LayoutMirrored, SettledSame DEF Tidy, Sound
  <2> HIDE DEF w, e
  <2>8. Mirrors(v, f) /\ Name(v, s) = w
    BY <2>4, <2>5, <2>6, <2>7, RenamedMirrored
  <2> HIDE DEF f
  <2>9. Tidy(z) /\ Slotted(z.heap, Allocated(z.heap)) /\ SameLists(z, v)
    BY <2>6, TidyManage DEF z
  <2>10. Mirrors(z, g)
    BY <2>6, <2>8, TidySettled, TidyLists, ManageMirrored DEF z, Tidy, Sound
  <2> HIDE DEF g
  <2>11. Tidy(x) /\ Slotted(x.heap, Allocated(x.heap)) /\ SameLists(x, z)
    BY <2>9, TidyUpdate DEF x
  <2>12. Mirrors(x, Layout!UpdateWindows(g, Windows))
    BY <2>9, <2>10, UpdateAllMirrored DEF x
  <2>13. /\ desk' = Layout!UpdateWindows(g, Windows)
         /\ mawim'.active_workspace = x.active_workspace
    BY <2>2, <2>11, <2>12, FinishMirrored
  <2>14. x.active_workspace = i
    BY <2>4, <2>6, <2>9, <2>11 DEF SameLists, SameWorkspaces
  <2>15. Layout!MoveWindow(w, n)
    BY <2>3, <2>13, <2>14 DEF Layout!MoveWindow, e, f, g
  <2> QED BY <2>3, <2>15
<1> QED BY <1>4, <1>5

\* Every other step leaves the layout as it is.
LEMMA LayoutStep ==
  LayoutInv /\ [PrudentNext /\ desk' = Desk(mawim')]_layoutVars => [Layout!Next]_(Layout!vars)
<1> SUFFICES ASSUME LayoutInv, [PrudentNext /\ desk' = Desk(mawim')]_layoutVars
             PROVE  Layout!Next \/ UNCHANGED Layout!vars
  OBVIOUS
<1>1. CASE UNCHANGED layoutVars
  BY <1>1 DEF layoutVars, vars, Layout!vars
<1>2. ASSUME PrudentNext, desk' = Desk(mawim')
      PROVE  Layout!Next \/ UNCHANGED Layout!vars
  <2>1. ASSUME mawim' = mawim
        PROVE  UNCHANGED Layout!vars
    BY <1>2, <2>1 DEF LayoutInv, Layout!vars
  <2>2. CASE Environment \/ EventsDone \/ CommandsDone
    BY <2>1, <2>2 DEF Environment, CreateWindow, ConfigureWindow, MapWindow, UnmapWindow,
                      DestroyWindow, MovePointer, Send, EventsDone, CommandsDone
  <2>3. ASSUME NEW w \in Windows, HandleConfigureKnown(w)
        PROVE  Layout!Next
    BY <1>2, <2>3, ConfigureKnownTiles DEF Layout!Next
  <2>4. ASSUME NEW w \in Windows, NEW s \in Structs, HandleConfigureNew(w, s)
        PROVE  Layout!Next
    BY <1>2, <2>4, ConfigureNewTiles DEF Layout!Next
  <2>5. ASSUME NEW w \in Windows, HandleDestroyNotify(w)
        PROVE  Layout!Next \/ UNCHANGED Layout!vars
    <3>1. CASE FindInWorkspaces(mawim, w) = 0
      BY <2>1, <2>5, <3>1 DEF HandleDestroyNotify
    <3>2. CASE FindInWorkspaces(mawim, w) # 0
      BY <1>2, <2>5, <3>2, DestroyTiles DEF Layout!Next
    <3> QED BY <3>1, <3>2
  <2>6. ASSUME NEW w \in Windows, HandleMapRequest(w)
        PROVE  UNCHANGED Layout!vars
    BY <2>1, <2>6 DEF HandleMapRequest
  <2>7. ASSUME HandleLeaveNotify
        PROVE  UNCHANGED Layout!vars
    <3> DEFINE i == mawim.active_workspace
    <3>1. i \in Workspaces
      BY LayoutMirrored DEF Tidy
    <3>2. PICK s \in OnList(mawim, i) \cup {NULL} :
            Finish([mawim EXCEPT !.focused_window[i] = s])
      BY <2>7, <3>1 DEF HandleLeaveNotify, ActiveExists
    <3> DEFINE a == [mawim EXCEPT !.focused_window[i] = s]
    <3>3. s \in Structs \cup {NULL}
      BY <3>1, LayoutMirrored, OnListType
    <3>4. /\ a \in Mawim /\ a.heap = mawim.heap /\ a.first = mawim.first /\ a.last = mawim.last
          /\ a.row_count = mawim.row_count /\ a.active_row = mawim.active_row
          /\ a.active_workspace = mawim.active_workspace /\ a.fault = mawim.fault
      BY <3>1, <3>3, LayoutMirrored DEF Mawim
    <3> HIDE DEF a
    <3>5. Tidy(a) /\ Slotted(a.heap, Allocated(a.heap)) /\ Mirrors(a, desk)
      BY <3>4, LayoutMirrored DEF Tidy, Sound, RowsOK, Partition, HomeOf, Mirrors, Name
    <3>6. Finish(a)
      BY <3>2 DEF a
    <3>7. Desk(mawim') = desk /\ mawim'.active_workspace = a.active_workspace
      BY <3>5, <3>6, FinishMirrored
    <3> QED BY <1>2, <3>4, <3>7 DEF Layout!vars
  <2>8. ASSUME NEW n \in WorkspaceIds \ {0}, HandleSetWorkspace(n)
        PROVE  Layout!Next
    <3>1. n \in Workspaces
      BY <2>8, WindowManagerAssumption DEF WorkspaceIds, Workspaces, HandleSetWorkspace
    <3>2. n \in Layout!Workspaces
      BY <3>1 DEF Workspaces, Layout!Workspaces
    <3> QED BY <1>2, <2>8, <3>1, <3>2, SetWorkspaceTiles DEF Layout!Next
  <2>9. ASSUME NEW n \in WorkspaceIds \ {0}, FocusFresh(mawim.active_workspace),
               HandleMoveFocused(n)
        PROVE  Layout!Next \/ UNCHANGED Layout!vars
    <3>1. n \in Workspaces
      <4>1. n <= WorkspaceCount
        BY <2>9, Zenon DEF HandleMoveFocused
      <4> QED BY <2>9, <4>1, WindowManagerAssumption DEF WorkspaceIds, Workspaces
    <3>2. n \in Layout!Workspaces
      BY <3>1 DEF Workspaces, Layout!Workspaces
    <3>3. CASE mawim' = mawim
      BY <2>1, <3>3
    <3>4. CASE \E w \in Windows : Layout!MoveWindow(w, n)
      BY <3>2, <3>4 DEF Layout!Next
    <3> QED BY <1>2, <2>9, <3>1, <3>3, <3>4, MoveFocusedTiles
  <2>10. ASSUME /\ mawim.active_workspace < WorkspaceCount
                /\ FocusFresh(mawim.active_workspace + 1)
                /\ HandleCloseFocused
         PROVE  UNCHANGED Layout!vars
    <3> DEFINE i == mawim.active_workspace + 1
               s == mawim.focused_window[i]
    <3>1. i \in Workspaces
      BY <2>10, LayoutMirrored, WindowManagerAssumption DEF Tidy, Workspaces
    <3>2. s = NULL \/ mawim.heap[s] # Free
      BY <2>10, <3>1, LayoutMirrored, TidyLists DEF FocusFresh, Home, Allocated
    <3> QED BY <2>1, <2>10, <3>1, <3>2 DEF HandleCloseFocused
  <2>11. Environment \/ MainLoop
         \/ (\E n \in WorkspaceIds \ {0} :
               \/ HandleSetWorkspace(n)
               \/ FocusFresh(mawim.active_workspace) /\ HandleMoveFocused(n))
         \/ /\ mawim.active_workspace < WorkspaceCount
            /\ FocusFresh(mawim.active_workspace + 1)
            /\ HandleCloseFocused
    BY <1>2 DEF PrudentNext
  <2>12. CASE MainLoop
    BY <2>2, <2>3, <2>4, <2>5, <2>6, <2>7, <2>12 DEF MainLoop, HandleEvent
  <2> QED BY <2>2, <2>8, <2>9, <2>10, <2>11, <2>12
<1> QED BY <1>1, <1>2

LEMMA LayoutInit == Init /\ desk = Desk(mawim) => Layout!Init
<1> SUFFICES ASSUME Init, desk = Desk(mawim)
             PROVE  Layout!Init
  OBVIOUS
<1>1. PrudentInv
  BY PrudentInit
<1>2. Mirrors(mawim, desk)
  BY <1>1, DeskMirrors DEF PrudentInv
<1>3. /\ mawim.heap = [s \in Structs |-> Free] /\ mawim.active_workspace = 1
      /\ mawim.row_count = [i \in Workspaces |-> 1] /\ mawim.active_row = [i \in Workspaces |-> 0]
  BY DEF Init
<1>4. WindowsOf(mawim.heap) = {}
  BY <1>3 DEF WindowsOf, Allocated
<1>5. \A w \in Windows : /\ desk.workspace[w] = 0 /\ desk.row[w] = -1 /\ desk.col[w] = -1
                         /\ desk.geometry[w] = NoTile
  BY <1>2, <1>4 DEF Mirrors
<1>6. /\ desk = [workspace |-> desk.workspace, row |-> desk.row, col |-> desk.col,
                 geometry |-> desk.geometry, row_count |-> desk.row_count,
                 active_row |-> desk.active_row]
      /\ desk.workspace = [w \in Windows |-> desk.workspace[w]]
      /\ desk.row = [w \in Windows |-> desk.row[w]]
      /\ desk.col = [w \in Windows |-> desk.col[w]]
      /\ desk.geometry = [w \in Windows |-> desk.geometry[w]]
  BY <1>2 DEF Mirrors, Desks
<1>7. /\ desk.workspace = [w \in Windows |-> 0] /\ desk.row = [w \in Windows |-> -1]
      /\ desk.col = [w \in Windows |-> -1] /\ desk.geometry = [w \in Windows |-> NoTile]
  BY <1>5, <1>6
<1>8. desk.row_count = mawim.row_count /\ desk.active_row = mawim.active_row
  BY <1>2 DEF Mirrors
<1> QED BY <1>3, <1>6, <1>7, <1>8
        DEF Layout!Init, Layout!Nowhere, Layout!NoTile, NoTile, Workspaces, Layout!Workspaces

(***************************************************************************)
(* The handlers tile as Tiling says, for any number of windows, structs,   *)
(* workspaces and rows: what ManageWindow and UnmanageWindow do to linked  *)
(* structs is what they do to a layout, every configure request, destroy   *)
(* notification and command is one step of Tiling, and the rest leaves the *)
(* layout alone.  With TilingProofs, the tiles of the program are disjoint *)
(* and on the screen.                                                      *)
(***************************************************************************)
THEOREM ListsImplementTiling == LayoutSpec => ImplementsTiling
<1>1. Init /\ desk = Desk(mawim) => LayoutInv
  BY PrudentInit DEF LayoutInv
<1>2. LayoutInv /\ [PrudentNext /\ desk' = Desk(mawim')]_layoutVars => LayoutInv'
  <2> SUFFICES ASSUME LayoutInv, [PrudentNext /\ desk' = Desk(mawim')]_layoutVars
               PROVE  LayoutInv'
    OBVIOUS
  <2>1. [PrudentNext]_vars
    BY DEF layoutVars
  <2>2. PrudentInv'
    BY <2>1, PrudentStep DEF LayoutInv
  <2>3. CASE UNCHANGED layoutVars
    BY <2>2, <2>3 DEF LayoutInv, layoutVars, vars
  <2>4. CASE desk' = Desk(mawim')
    BY <2>2, <2>4 DEF LayoutInv
  <2> QED BY <2>3, <2>4
<1> QED BY <1>1, <1>2, LayoutInit, LayoutStep, PTL DEF LayoutSpec, ImplementsTiling, Layout!Spec
=============================================================================
