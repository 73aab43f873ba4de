---------------------------- MODULE TilingProofs ----------------------------
(***************************************************************************)
(* The invariants of module Tiling, proved for any finite set of windows,  *)
(* any number of workspaces, any max_rows and any screen.                  *)
(***************************************************************************)
EXTENDS Tiling, FiniteSetTheorems, TLAPS

Tile == [x : Int, y : Int, width : Int, height : Int]

DeskType ==
  [workspace  : [Windows -> {Nowhere} \cup Workspaces],
   row        : [Windows -> Int],
   col        : [Windows -> Int],
   geometry   : [Windows -> Tile],
   row_count  : [Workspaces -> Nat],
   active_row : [Workspaces -> Int]]

\* The rows of a workspace are opened and closed consistently.
RowsOK(d) ==
  \A i \in Workspaces :
    /\ d.row_count[i] \in 1 .. MaxRows
    /\ d.active_row[i] = d.row_count[i] - 1
    /\ d.row_count[i] > 1 =>
         \A r \in 0 .. d.row_count[i] - 1 : WinsOnRow(d, i, r) # {}
    /\ \A r \in 0 .. d.row_count[i] - 2 : Cardinality(WinsOnRow(d, i, r)) < MaxRows

\* A window has a slot, in a row in use and a column smaller than the number
\* of windows on the row, or has neither row nor column.
SlotsOK(d) ==
  \A w \in Windows :
    \/ d.row[w] = -1 /\ d.col[w] = -1
    \/ /\ d.workspace[w] \in Workspaces
       /\ d.row[w] \in 0 .. d.row_count[d.workspace[w]] - 1
       /\ d.col[w] \in 0 .. Cardinality(WinsOnRow(d, d.workspace[w], d.row[w])) - 1

\* No two windows have the same slot.
SlotsDistinct(d) ==
  \A v, w \in Windows :
    (/\ d.row[v] >= 0 /\ d.row[v] = d.row[w] /\ d.col[v] = d.col[w]
     /\ d.workspace[v] = d.workspace[w]) => v = w

\* What the functions of src/window.c keep between their calls, when a window
\* may be on a list and have no slot yet.
Layout(d) == d \in DeskType /\ RowsOK(d) /\ SlotsOK(d) /\ SlotsDistinct(d)

AllListedPlaced(d) == \A w \in Windows : d.row[w] >= 0 <=> d.workspace[w] # Nowhere

CurrentTile(d, w) == d.row[w] >= 0 => d.geometry[w] = TileOf(d, w)

\* The inductive invariant.
DeskOK(d) == Layout(d) /\ AllListedPlaced(d) /\ \A w \in Windows : CurrentTile(d, w)

IInv == DeskOK(desk) /\ active_workspace \in Workspaces

-----------------------------------------------------------------------------
\* Finite sets and arithmetic.

LEMMA WinsFinite ==
  ASSUME NEW d, NEW i, NEW r
  PROVE  /\ IsFiniteSet(WinsOnRow(d, i, r))
         /\ Cardinality(WinsOnRow(d, i, r)) \in Nat
         /\ Cardinality(WinsOnRow(d, i, r)) = 0 <=> WinsOnRow(d, i, r) = {}
<1>1. WinsOnRow(d, i, r) \in SUBSET Windows
  BY DEF WinsOnRow, OnWorkspace
<1>2. IsFiniteSet(WinsOnRow(d, i, r))
  BY <1>1, FS_Subset, TilingAssumption
<1> QED
  BY <1>2, FS_CardinalityType, FS_EmptySet

LEMMA DivBound ==
  ASSUME NEW D \in Nat, NEW n \in Nat \ {0}
  PROVE  D \div n \in Nat /\ (D \div n) * n <= D
  OBVIOUS

LEMMA SlotInside ==
  ASSUME NEW D \in Nat, NEW n \in Nat \ {0}, NEW c \in 0 .. n - 1
  PROVE  /\ (D \div n) * c \in Nat
         /\ (D \div n) * c + (D \div n) <= D
<1> DEFINE q == D \div n
<1>1. q \in Nat /\ q * n <= D
  BY DivBound
<1> HIDE DEF q
<1>2. q * (c + 1) <= q * n
  BY <1>1
<1>3. q * c + q = q * (c + 1) /\ q * c \in Nat
  BY <1>1
<1> QED
  BY <1>1, <1>2, <1>3 DEF q

\* Two columns that differ still differ after the gap at g is closed.
LEMMA ShiftInjective ==
  ASSUME NEW b \in Int, NEW c \in Int, NEW g \in Int, b # g, c # g,
         (IF b > g THEN b - 1 ELSE b) = (IF c > g THEN c - 1 ELSE c)
  PROVE  b = c
  OBVIOUS

LEMMA SlotsApart ==
  ASSUME NEW q \in Nat, NEW a \in Nat, NEW b \in Nat, a < b
  PROVE  q * a + q <= q * b
<1>1. q * (a + 1) <= q * b
  OBVIOUS
<1> QED
  BY <1>1
-----------------------------------------------------------------------------
\* mawim_update_window: only rectangles change, and they become current.

LEMMA WinsSame ==
  ASSUME NEW d, NEW e, e.workspace = d.workspace, e.row = d.row
  PROVE  \A i, r : WinsOnRow(e, i, r) = WinsOnRow(d, i, r)
  BY DEF WinsOnRow, OnWorkspace

LEMMA LayoutSame ==
  ASSUME NEW d, NEW e \in DeskType, Layout(d),
         e.workspace = d.workspace, e.row = d.row, e.col = d.col,
         e.row_count = d.row_count, e.active_row = d.active_row
  PROVE  Layout(e)
<1>1. \A i, r : WinsOnRow(e, i, r) = WinsOnRow(d, i, r)
  BY WinsSame
<1>2. RowsOK(e)
  BY <1>1 DEF Layout, RowsOK
<1>3. SlotsOK(e) /\ SlotsDistinct(e)
  BY <1>1 DEF Layout, SlotsOK, SlotsDistinct
<1> QED
  BY <1>2, <1>3 DEF Layout

LEMMA TileOfType ==
  ASSUME NEW d, Layout(d), NEW w \in Windows, d.row[w] >= 0
  PROVE  TileOf(d, w) \in Tile
<1> DEFINE i == d.workspace[w]
           n == Cardinality(WinsOnRow(d, i, d.row[w]))
<1>1. /\ i \in Workspaces
      /\ d.row[w] \in 0 .. d.row_count[i] - 1
      /\ d.col[w] \in 0 .. n - 1
  BY DEF Layout, SlotsOK
<1>2. d.row_count[i] \in Nat \ {0} /\ n \in Nat /\ n # 0
  BY <1>1, WinsFinite DEF Layout, RowsOK
<1>3. AtLeastOne(n) = n
  BY <1>2 DEF AtLeastOne
<1> HIDE DEF n, i
<1>4. DisplayWidth \div n \in Nat /\ DisplayHeight \div d.row_count[i] \in Nat
  BY <1>2, DivBound, TilingAssumption
<1> QED
  BY <1>1, <1>3, <1>4 DEF TileOf, Tile, i, n

LEMMA UpdateLayout ==
  ASSUME NEW d, Layout(d), NEW S
  PROVE  LET u == UpdateWindows(d, S)
         IN  /\ Layout(u)
             /\ u.workspace = d.workspace /\ u.row = d.row /\ u.col = d.col
             /\ u.row_count = d.row_count /\ u.active_row = d.active_row
             /\ \A w \in Windows :
                  d.row[w] >= 0 => TileOf(u, w) = TileOf(d, w)
             /\ \A w \in Windows :
                  d.row[w] >= 0 =>
                    u.geometry[w] = IF w \in S THEN TileOf(d, w) ELSE d.geometry[w]
<1> DEFINE u == UpdateWindows(d, S)
           g == [w \in Windows |-> IF w \in S /\ d.row[w] >= 0 /\ d.col[w] >= 0
                                   THEN TileOf(d, w) ELSE d.geometry[w]]
<1>1. u = [d EXCEPT !.geometry = g]
  BY DEF UpdateWindows
<1>2. d \in DeskType
  BY DEF Layout
<1>3. g \in [Windows -> Tile]
  BY <1>2, TileOfType DEF DeskType
<1>4. /\ u.workspace = d.workspace /\ u.row = d.row /\ u.col = d.col
      /\ u.row_count = d.row_count /\ u.active_row = d.active_row
      /\ u.geometry = g
  BY <1>1, <1>2 DEF DeskType
<1>5. u \in DeskType
  BY <1>1, <1>2, <1>3 DEF DeskType
<1>6. Layout(u)
  BY <1>4, <1>5, LayoutSame
<1>7. \A w \in Windows : TileOf(u, w) = TileOf(d, w)
  <2>1. \A i, r : WinsOnRow(u, i, r) = WinsOnRow(d, i, r)
    BY <1>4, WinsSame
  <2> QED
    BY <1>4, <2>1 DEF TileOf
<1>8. ASSUME NEW w \in Windows, d.row[w] >= 0
      PROVE  u.geometry[w] = IF w \in S THEN TileOf(d, w) ELSE d.geometry[w]
  <2>1. d.col[w] >= 0
    BY <1>2, <1>8, WinsFinite DEF Layout, SlotsOK, DeskType
  <2> QED
    BY <1>4, <1>8, <2>1
<1> QED
  BY <1>4, <1>6, <1>7, <1>8
-----------------------------------------------------------------------------
\* mawim_manage_window: the slot it picks is free, on a row in use.

\* The slots that mawim_manage_window may give to a window of workspace i.
OffersSlot(d, i, r, c, new_row) ==
  /\ c = Cardinality(WinsOnRow(d, i, r))
  /\ \/ new_row = FALSE /\ r = d.active_row[i]
     \/ /\ new_row = TRUE
        /\ r = d.active_row[i] + 1
        /\ r <= MaxRows - 1
        /\ Cardinality(WinsOnRow(d, i, d.active_row[i])) = MaxRows - 1

LEMMA PlaceLayout ==
  ASSUME NEW d, Layout(d), NEW w \in Windows, d.workspace[w] \in Workspaces,
         d.row[w] = -1, NEW r, NEW c, NEW new_row \in BOOLEAN,
         OffersSlot(d, d.workspace[w], r, c, new_row)
  PROVE  LET i == d.workspace[w]
             p == PlaceWindow(d, w, r, c, new_row)
         IN  /\ Layout(p)
             /\ p.workspace = d.workspace /\ p.geometry = d.geometry
             /\ p.row = [d.row EXCEPT ![w] = r]
             /\ r >= 0
             /\ ~ new_row => p.row_count = d.row_count
             /\ \A j \in Workspaces : j # i => p.row_count[j] = d.row_count[j]
             /\ \A j \in Workspaces, s \in Nat :
                  WinsOnRow(p, j, s) = IF j = i /\ s = r THEN WinsOnRow(d, i, r) \cup {w}
                                                         ELSE WinsOnRow(d, j, s)
<1> DEFINE i == d.workspace[w]
           p == PlaceWindow(d, w, r, c, new_row)
           a == d.active_row[i]
           k == IF new_row THEN d.row_count[i] + 1 ELSE d.row_count[i]
<1>1. d \in DeskType /\ i \in Workspaces
  BY DEF Layout
<1>2. a = d.row_count[i] - 1 /\ d.row_count[i] \in 1 .. MaxRows
  BY <1>1 DEF Layout, RowsOK
<1>3. /\ r \in 0 .. k - 1 /\ r = k - 1 /\ k \in 1 .. MaxRows
      /\ c \in Nat /\ c = Cardinality(WinsOnRow(d, i, r))
  BY <1>1, <1>2, WinsFinite, TilingAssumption DEF OffersSlot
<1>4. /\ p.workspace = d.workspace /\ p.geometry = d.geometry
      /\ p.row = [d.row EXCEPT ![w] = r]
      /\ p.col = [d.col EXCEPT ![w] = c]
      /\ p.row_count = [d.row_count EXCEPT ![i] = k]
      /\ p.active_row = [d.active_row EXCEPT ![i] = k - 1]
  <2>1. k - 1 = IF new_row THEN r ELSE d.active_row[i]
    BY <1>2, <1>3
  <2>2. d.active_row \in [Workspaces -> Int] /\ d.row_count \in [Workspaces -> Nat]
    BY <1>1 DEF DeskType
  <2> QED
    BY <1>1, <2>1, <2>2 DEF PlaceWindow, DeskType
<1>5. p \in DeskType
  <2>1. r \in Int /\ c \in Int /\ k \in Nat /\ k - 1 \in Int
    BY <1>3, TilingAssumption
  <2> HIDE DEF k, i
  <2>2. /\ [d.row EXCEPT ![w] = r] \in [Windows -> Int]
        /\ [d.col EXCEPT ![w] = c] \in [Windows -> Int]
        /\ [d.row_count EXCEPT ![i] = k] \in [Workspaces -> Nat]
        /\ [d.active_row EXCEPT ![i] = k - 1] \in [Workspaces -> Int]
    BY <1>1, <2>1 DEF DeskType
  <2>3. p = [d EXCEPT !.row = p.row, !.col = p.col, !.row_count = p.row_count,
                      !.active_row = p.active_row]
    BY <1>1 DEF PlaceWindow, DeskType
  <2> HIDE DEF p
  <2> QED
    BY <1>1, <1>4, <2>2, <2>3 DEF DeskType
<1>6. \A j \in Workspaces, s \in Nat :
        WinsOnRow(p, j, s) = IF j = i /\ s = r THEN WinsOnRow(d, i, r) \cup {w}
                                               ELSE WinsOnRow(d, j, s)
  <2> HIDE DEF p
  <2> QED
    BY <1>1, <1>4 DEF WinsOnRow, OnWorkspace, DeskType
<1>7. /\ w \notin WinsOnRow(d, i, r)
      /\ Cardinality(WinsOnRow(p, i, r)) = c + 1
  <2>1. w \notin WinsOnRow(d, i, r)
    BY <1>3 DEF WinsOnRow
  <2>2. r \in Nat
    BY <1>3
  <2>3. WinsOnRow(p, i, r) = WinsOnRow(d, i, r) \cup {w}
    BY <1>1, <1>6, <2>2
  <2>4. Cardinality(WinsOnRow(d, i, r) \cup {w}) = Cardinality(WinsOnRow(d, i, r)) + 1
    BY <2>1, WinsFinite, FS_AddElement
  <2> QED
    BY <1>3, <2>1, <2>3, <2>4
<1> HIDE DEF p
<1>8. RowsOK(p)
  <2> SUFFICES ASSUME NEW j \in Workspaces
               PROVE  /\ p.row_count[j] \in 1 .. MaxRows
                      /\ p.active_row[j] = p.row_count[j] - 1
                      /\ p.row_count[j] > 1 =>
                           \A s \in 0 .. p.row_count[j] - 1 : WinsOnRow(p, j, s) # {}
                      /\ \A s \in 0 .. p.row_count[j] - 2 :
                           Cardinality(WinsOnRow(p, j, s)) < MaxRows
    BY DEF RowsOK
  <2>1. CASE j # i
    <3>1. p.row_count[j] = d.row_count[j] /\ p.active_row[j] = d.active_row[j]
      BY <1>1, <1>4, <2>1 DEF DeskType
    <3>2. \A s \in Nat : WinsOnRow(p, j, s) = WinsOnRow(d, j, s)
      BY <1>6, <2>1
    <3>3. d.row_count[j] \in Nat
      BY <1>1 DEF DeskType
    <3> QED
      BY <3>1, <3>2, <3>3 DEF Layout, RowsOK
  <2>2. CASE j = i
    <3>1. p.row_count[j] = k /\ p.active_row[j] = k - 1
      BY <1>1, <1>4, <2>2 DEF DeskType
    <3>2. ASSUME k > 1, NEW s \in 0 .. k - 1
          PROVE  WinsOnRow(p, i, s) # {}
      <4>1. CASE s = r
        <5>1. WinsOnRow(p, i, s) = WinsOnRow(d, i, r) \cup {w}
          <6>1. s \in Nat
            BY <1>3, <4>1
          <6> QED
            BY <1>1, <1>6, <4>1, <6>1
        <5> QED
          BY <5>1
      <4>2. CASE s # r
        <5>1. s \in Nat /\ s \in 0 .. d.row_count[i] - 1
          BY <1>2, <1>3, <3>2, <4>2, TilingAssumption
        <5>2. WinsOnRow(d, i, s) # {}
          <6>1. CASE d.row_count[i] > 1
            BY <1>1, <5>1, <6>1 DEF Layout, RowsOK
          <6>2. CASE d.row_count[i] = 1
            <7>1. new_row = TRUE /\ s = a
              BY <1>2, <3>2, <5>1, <6>2
            <7>2. Cardinality(WinsOnRow(d, i, a)) # 0
              BY <1>2, <1>3, <7>1, TilingAssumption DEF OffersSlot
            <7> QED
              BY <7>1, <7>2, WinsFinite
          <6> QED
            BY <1>2, <6>1, <6>2, TilingAssumption
        <5> QED
          BY <1>1, <1>6, <4>2, <5>1, <5>2
      <4> QED
        BY <4>1, <4>2
    <3>3. ASSUME NEW s \in 0 .. k - 2
          PROVE  Cardinality(WinsOnRow(p, i, s)) < MaxRows
      <4>1. s \in Nat /\ s # r
        BY <1>3, <3>3, TilingAssumption
      <4>2. WinsOnRow(p, i, s) = WinsOnRow(d, i, s)
        BY <1>1, <1>6, <4>1
      <4>3. CASE s \in 0 .. d.row_count[i] - 2
        BY <1>1, <4>2, <4>3 DEF Layout, RowsOK
      <4>4. CASE s \notin 0 .. d.row_count[i] - 2
        <5>1. new_row = TRUE /\ s = a
          BY <1>2, <3>3, <4>1, <4>4
        <5> QED
          BY <1>2, <4>2, <5>1, TilingAssumption DEF OffersSlot
      <4> QED
        BY <4>3, <4>4
    <3> QED
      BY <1>3, <2>2, <3>1, <3>2, <3>3
  <2> QED
    BY <2>1, <2>2
<1>9. SlotsOK(p)
  <2> SUFFICES ASSUME NEW v \in Windows
               PROVE  \/ p.row[v] = -1 /\ p.col[v] = -1
                      \/ /\ p.workspace[v] \in Workspaces
                         /\ p.row[v] \in 0 .. p.row_count[p.workspace[v]] - 1
                         /\ p.col[v] \in 0 .. Cardinality(WinsOnRow(p, p.workspace[v], p.row[v])) - 1
    BY DEF SlotsOK
  <2>1. CASE v = w
    <3>1. p.row[v] = r /\ p.col[v] = c /\ p.workspace[v] = i /\ p.row_count[i] = k
      BY <1>1, <1>4, <2>1 DEF DeskType
    <3> QED
      BY <1>1, <1>3, <1>7, <3>1
  <2>2. CASE v # w
    <3>1. p.row[v] = d.row[v] /\ p.col[v] = d.col[v] /\ p.workspace[v] = d.workspace[v]
      BY <1>1, <1>4, <2>2 DEF DeskType
    <3>2. CASE d.row[v] = -1 /\ d.col[v] = -1
      BY <3>1, <3>2
    <3>3. CASE ~ (d.row[v] = -1 /\ d.col[v] = -1)
      <4> DEFINE j == d.workspace[v]
                 s == d.row[v]
      <4>1. /\ j \in Workspaces /\ s \in 0 .. d.row_count[j] - 1
            /\ d.col[v] \in 0 .. Cardinality(WinsOnRow(d, j, s)) - 1
        BY <3>3 DEF Layout, SlotsOK
      <4>2. p.row_count[j] \in Nat /\ p.row_count[j] >= d.row_count[j] /\ d.row_count[j] \in Nat
        BY <1>1, <1>4, <1>5, <4>1 DEF DeskType
      <4>3. s \in Nat /\ s \in 0 .. p.row_count[j] - 1
        BY <4>1, <4>2
      <4> HIDE DEF j, s
      <4>4. Cardinality(WinsOnRow(p, j, s)) >= Cardinality(WinsOnRow(d, j, s))
        BY <1>1, <1>3, <1>6, <1>7, <4>1, <4>3, WinsFinite
      <4>5. d.col[v] \in 0 .. Cardinality(WinsOnRow(p, j, s)) - 1
        BY <4>1, <4>4, WinsFinite
      <4> QED
        BY <3>1, <4>1, <4>3, <4>5 DEF j, s
    <3> QED
      BY <3>2, <3>3
  <2> QED
    BY <2>1, <2>2
<1>10. SlotsDistinct(p)
  \* On the row of w every other column is smaller than the number of windows.
  <2>1. ASSUME NEW v \in Windows, v # w, p.workspace[v] = i, p.row[v] = r
        PROVE  p.col[v] # c
    <3>1. d.workspace[v] = i /\ d.row[v] = r /\ p.col[v] = d.col[v]
      BY <1>1, <1>4, <2>1 DEF DeskType
    <3>2. d.row[v] # -1
      BY <1>3, <3>1
    <3>3. d.col[v] \in 0 .. Cardinality(WinsOnRow(d, i, r)) - 1
      BY <3>1, <3>2 DEF Layout, SlotsOK
    <3> QED
      BY <1>3, <3>1, <3>3
  <2>2. p.workspace[w] = i /\ p.row[w] = r /\ p.col[w] = c
    BY <1>1, <1>4 DEF DeskType
  <2>3. \A v \in Windows \ {w} : /\ p.workspace[v] = d.workspace[v]
                                 /\ p.row[v] = d.row[v] /\ p.col[v] = d.col[v]
    BY <1>1, <1>4 DEF DeskType
  <2> QED
    BY <2>1, <2>2, <2>3 DEF Layout, SlotsDistinct
<1>11. /\ ~ new_row => p.row_count = d.row_count
       /\ \A j \in Workspaces : j # i => p.row_count[j] = d.row_count[j]
  BY <1>1, <1>4 DEF DeskType
<1> QED
  <2>1. Layout(p)
    BY <1>5, <1>8, <1>9, <1>10 DEF Layout
  <2>2. r >= 0
    BY <1>3
  <2>3. p = PlaceWindow(d, w, r, c, new_row)
    BY DEF p
  <2> HIDE DEF k, a
  <2> QED
    BY <1>4, <1>6, <1>11, <2>1, <2>2, <2>3

LEMMA ManageNew ==
  ASSUME NEW d, Layout(d), NEW w \in Windows, d.workspace[w] \in Workspaces,
         d.row[w] = -1
  PROVE  LET m == ManageWindow(d, w)
         IN  /\ Layout(m)
             /\ m.workspace = d.workspace
             /\ \A v \in Windows : m.row[v] >= 0 <=> (v = w \/ d.row[v] >= 0)
             /\ CurrentTile(m, w)
             /\ \A v \in Windows : CurrentTile(d, v) => CurrentTile(m, v)
<1> DEFINE i == d.workspace[w]
           a == d.active_row[i]
           full == Cardinality(WinsOnRow(d, i, a) \cup {w}) = MaxRows
           r == IF full /\ a + 1 <= MaxRows - 1 THEN a + 1
                ELSE IF full THEN MaxRows - 1 ELSE a
           new_row == r # a
           c == Cardinality(WinsOnRow(d, i, r))
           p == PlaceWindow(d, w, r, c, new_row)
           S == IF new_row THEN OnWorkspace(p, i) ELSE WinsOnRow(p, i, r)
           m == UpdateWindows(p, S)
<1>1. d \in DeskType /\ d.col[w] = -1
  BY DEF Layout, SlotsOK
<1>2. a = d.row_count[i] - 1 /\ d.row_count[i] \in 1 .. MaxRows
  BY DEF Layout, RowsOK
<1>3. /\ a \in Nat /\ r \in Nat
      /\ Cardinality(WinsOnRow(d, i, a) \cup {w}) = Cardinality(WinsOnRow(d, i, a)) + 1
      /\ Cardinality(WinsOnRow(d, i, r) \cup {w}) = Cardinality(WinsOnRow(d, i, r)) + 1
  <2>1. a \in Nat /\ r \in Nat
    BY <1>2, TilingAssumption
  <2>2. w \notin WinsOnRow(d, i, a) /\ w \notin WinsOnRow(d, i, r)
    BY <2>1 DEF WinsOnRow
  <2> QED
    BY <2>1, <2>2, WinsFinite, FS_AddElement
<1>4. OffersSlot(d, i, r, c, new_row)
  <2> DEFINE n == Cardinality(WinsOnRow(d, i, a))
  <2>1. n \in Nat
    BY WinsFinite
  <2>2. full <=> n + 1 = MaxRows
    BY <1>3
  <2> HIDE DEF n, full
  <2>3. new_row => r = a + 1 /\ r <= MaxRows - 1 /\ n = MaxRows - 1
    BY <1>2, <1>3, <2>1, <2>2, TilingAssumption
  <2>4. new_row \in BOOLEAN /\ (~ new_row => r = a)
    OBVIOUS
  <2> HIDE DEF new_row, r
  <2> QED
    BY <2>3, <2>4 DEF OffersSlot, n
<1>5. ManageWindow(d, w) = m
  <2>1. Cardinality(WinsOnRow(d, i, r) \cup {w}) - 1 = c
    BY <1>3, WinsFinite
  <2>2. d.row[w] < 0 /\ ~ (d.row[w] >= 0) /\ ~ (d.col[w] >= 0)
    BY <1>1
  <2> QED
    BY <2>1, <2>2 DEF ManageWindow
<1> HIDE DEF c, r, full
<1>6. new_row \in BOOLEAN
  OBVIOUS
<1>7. /\ Layout(p)
      /\ p.workspace = d.workspace /\ p.geometry = d.geometry
      /\ p.row = [d.row EXCEPT ![w] = r]
      /\ r >= 0
      /\ ~ new_row => p.row_count = d.row_count
      /\ \A j \in Workspaces : j # i => p.row_count[j] = d.row_count[j]
      /\ \A j \in Workspaces, s \in Nat :
           WinsOnRow(p, j, s) = IF j = i /\ s = r THEN WinsOnRow(d, i, r) \cup {w}
                                                  ELSE WinsOnRow(d, j, s)
  <2> HIDE DEF new_row
  <2> QED
    BY <1>4, <1>6, PlaceLayout
<1>8. p.col = [d.col EXCEPT ![w] = c]
  BY <1>1 DEF PlaceWindow, DeskType
<1> HIDE DEF p
<1>9. /\ Layout(m)
      /\ m.workspace = p.workspace /\ m.row = p.row /\ m.col = p.col
      /\ \A v \in Windows : p.row[v] >= 0 => TileOf(m, v) = TileOf(p, v)
      /\ \A v \in Windows :
           p.row[v] >= 0 => m.geometry[v] = IF v \in S THEN TileOf(p, v) ELSE p.geometry[v]
  <2>1. Layout(p)
    BY <1>7
  <2> HIDE DEF S
  <2> QED
    BY <2>1, UpdateLayout
<1> HIDE DEF m
<1>10. p.row[w] = r /\ \A v \in Windows : v # w => p.row[v] = d.row[v]
  BY <1>1, <1>7 DEF DeskType
<1>11. CurrentTile(m, w)
  <2>1. w \in S
    BY <1>7, <1>10 DEF WinsOnRow, OnWorkspace
  <2> QED
    BY <1>7, <1>9, <1>10, <2>1 DEF CurrentTile
<1>12. ASSUME NEW v \in Windows, v # w, CurrentTile(d, v), d.row[v] >= 0
       PROVE  CurrentTile(m, v)
  <2>1. CASE v \in S
    BY <1>9, <1>10, <1>12, <2>1 DEF CurrentTile
  <2>2. CASE v \notin S
    <3> DEFINE j == d.workspace[v]
               s == d.row[v]
    <3>1. j \in Workspaces /\ s \in Nat
      BY <1>1, <1>12 DEF Layout, SlotsOK, DeskType
    <3>2. ~ (j = i /\ s = r)
      BY <1>7, <1>10, <1>12, <2>2 DEF WinsOnRow, OnWorkspace
    <3>3. WinsOnRow(p, j, s) = WinsOnRow(d, j, s)
      BY <1>7, <3>1, <3>2
    <3>4. p.row_count[j] = d.row_count[j]
      <4>1. j # i \/ ~ new_row
        BY <1>7, <2>2 DEF OnWorkspace
      <4> QED
        BY <1>7, <3>1, <4>1
    <3>5. p.workspace[v] = j /\ p.row[v] = s /\ p.col[v] = d.col[v]
      BY <1>1, <1>7, <1>8, <1>10, <1>12 DEF DeskType
    <3>6. TileOf(p, v) = TileOf(d, v)
      BY <3>3, <3>4, <3>5 DEF TileOf
    <3>7. m.geometry[v] = d.geometry[v] /\ TileOf(m, v) = TileOf(p, v)
      BY <1>7, <1>9, <1>12, <2>2, <3>5
    <3> QED
      BY <1>12, <3>6, <3>7 DEF CurrentTile
  <2> QED
    BY <2>1, <2>2
<1>13. ASSUME NEW v \in Windows, CurrentTile(d, v)
       PROVE  CurrentTile(m, v)
  <2>1. v # w /\ ~ (d.row[v] >= 0) => ~ (m.row[v] >= 0)
    BY <1>9, <1>10
  <2> QED
    BY <1>11, <1>12, <1>13, <2>1 DEF CurrentTile
<1>14. \A v \in Windows : m.row[v] >= 0 <=> (v = w \/ d.row[v] >= 0)
  BY <1>7, <1>9, <1>10
<1> HIDE DEF S
<1> QED
  BY <1>5, <1>7, <1>9, <1>11, <1>13, <1>14

LEMMA ManageTiled ==
  ASSUME NEW d, Layout(d), NEW w \in Windows, d.row[w] >= 0
  PROVE  ManageWindow(d, w) = UpdateWindows(d, WinsOnRow(d, d.workspace[w], d.row[w]))
<1> DEFINE p == PlaceWindow(d, w, d.row[w], d.col[w], FALSE)
<1>1. d \in DeskType /\ d.col[w] >= 0
  BY WinsFinite DEF Layout, SlotsOK, DeskType
<1>2. p = d
  <2>1. /\ [d.row EXCEPT ![w] = d.row[w]] = d.row
        /\ [d.col EXCEPT ![w] = d.col[w]] = d.col
    BY <1>1 DEF DeskType
  <2>2. /\ [d.row_count EXCEPT ![d.workspace[w]] = d.row_count[d.workspace[w]]] = d.row_count
        /\ [d.active_row EXCEPT ![d.workspace[w]] = d.active_row[d.workspace[w]]] = d.active_row
    BY <1>1 DEF DeskType
  <2> QED
    BY <1>1, <2>1, <2>2 DEF PlaceWindow, DeskType
<1>3. ~ (d.row[w] < 0)
  BY <1>1 DEF DeskType
<1> HIDE DEF p
<1>4. ManageWindow(d, w) = UpdateWindows(p, WinsOnRow(p, d.workspace[w], d.row[w]))
  BY <1>1, <1>3 DEF ManageWindow, p
<1> QED
  BY <1>2, <1>4
-----------------------------------------------------------------------------
\* mawim_unmanage_window: the gap that a window leaves is closed.

LEMMA CloseColumnLayout ==
  ASSUME NEW d, Layout(d), NEW w \in Windows, d.row[w] >= 0,
         \/ WinsOnRow(d, d.workspace[w], d.row[w]) \ {w} # {}
         \/ d.row_count[d.workspace[w]] = 1
  PROVE  LET e == CloseColumn(d, w)
             rest == WinsOnRow(d, d.workspace[w], d.row[w]) \ {w}
         IN  /\ Layout(e)
             /\ e.workspace = d.workspace /\ e.geometry = d.geometry
             /\ e.row_count = d.row_count /\ e.active_row = d.active_row
             /\ e.row = [d.row EXCEPT ![w] = -1]
             /\ \A v \in Windows : v # w /\ v \notin rest => e.col[v] = d.col[v]
             /\ \A j \in Workspaces, s \in Nat :
                  WinsOnRow(e, j, s) = WinsOnRow(d, j, s) \ {w}
<1> DEFINE i == d.workspace[w]
           o == d.row[w]
           e == CloseColumn(d, w)
           rest == WinsOnRow(d, i, o) \ {w}
           cols == [v \in Windows |->
                      IF v = w THEN -1
                      ELSE IF v \in rest /\ d.col[v] > d.col[w] THEN d.col[v] - 1
                      ELSE d.col[v]]
<1>1. /\ d \in DeskType
      /\ i \in Workspaces /\ o \in Nat /\ o \in 0 .. d.row_count[i] - 1
      /\ d.col[w] \in 0 .. Cardinality(WinsOnRow(d, i, o)) - 1
  BY DEF Layout, SlotsOK, DeskType
<1>2. e = [d EXCEPT !.row = [d.row EXCEPT ![w] = -1], !.col = cols]
  BY <1>1 DEF CloseColumn, DeskType
<1>3. /\ e.workspace = d.workspace /\ e.geometry = d.geometry
      /\ e.row_count = d.row_count /\ e.active_row = d.active_row
      /\ e.row = [d.row EXCEPT ![w] = -1]
      /\ e.col = cols
  BY <1>1, <1>2 DEF DeskType
<1>4. e \in DeskType
  <2>1. cols \in [Windows -> Int]
    BY <1>1 DEF DeskType
  <2>2. [d.row EXCEPT ![w] = -1] \in [Windows -> Int]
    BY <1>1 DEF DeskType
  <2> HIDE DEF cols, e
  <2> QED
    BY <1>1, <1>2, <2>1, <2>2 DEF DeskType
<1> HIDE DEF e
<1>5. \A j \in Workspaces, s \in Nat : WinsOnRow(e, j, s) = WinsOnRow(d, j, s) \ {w}
  BY <1>1, <1>3 DEF WinsOnRow, OnWorkspace, DeskType
<1>6. \A j \in Workspaces, s \in Nat :
        /\ j # i \/ s # o => WinsOnRow(e, j, s) = WinsOnRow(d, j, s)
        /\ Cardinality(WinsOnRow(e, j, s)) <= Cardinality(WinsOnRow(d, j, s))
  <2> SUFFICES ASSUME NEW j \in Workspaces, NEW s \in Nat
               PROVE  /\ j # i \/ s # o => WinsOnRow(e, j, s) = WinsOnRow(d, j, s)
                      /\ Cardinality(WinsOnRow(e, j, s)) <= Cardinality(WinsOnRow(d, j, s))
    OBVIOUS
  <2>1. j # i \/ s # o => w \notin WinsOnRow(d, j, s)
    BY DEF WinsOnRow, OnWorkspace
  <2>2. WinsOnRow(e, j, s) \in SUBSET WinsOnRow(d, j, s)
    BY <1>5
  <2> QED
    BY <1>5, <2>1, <2>2, WinsFinite, FS_Subset
<1>7. Cardinality(rest) = Cardinality(WinsOnRow(d, i, o)) - 1
  <2>1. w \in WinsOnRow(d, i, o)
    BY <1>1 DEF WinsOnRow, OnWorkspace
  <2> QED
    BY <2>1, WinsFinite, FS_RemoveElement
<1>8. RowsOK(e)
  <2> SUFFICES ASSUME NEW j \in Workspaces
               PROVE  /\ e.row_count[j] \in 1 .. MaxRows
                      /\ e.active_row[j] = e.row_count[j] - 1
                      /\ e.row_count[j] > 1 =>
                           \A s \in 0 .. e.row_count[j] - 1 : WinsOnRow(e, j, s) # {}
                      /\ \A s \in 0 .. e.row_count[j] - 2 :
                           Cardinality(WinsOnRow(e, j, s)) < MaxRows
    BY DEF RowsOK
  <2>1. /\ d.row_count[j] \in 1 .. MaxRows
        /\ d.active_row[j] = d.row_count[j] - 1
        /\ d.row_count[j] > 1 =>
             \A s \in 0 .. d.row_count[j] - 1 : WinsOnRow(d, j, s) # {}
        /\ \A s \in 0 .. d.row_count[j] - 2 : Cardinality(WinsOnRow(d, j, s)) < MaxRows
    BY DEF Layout, RowsOK
  <2>2. ASSUME d.row_count[j] > 1, NEW s \in 0 .. d.row_count[j] - 1
        PROVE  WinsOnRow(e, j, s) # {}
    <3>1. CASE j = i /\ s = o
      BY <1>5, <2>2, <3>1
    <3>2. CASE ~ (j = i /\ s = o)
      BY <1>6, <2>1, <2>2, <3>2
    <3> QED
      BY <3>1, <3>2
  <2>3. \A s \in 0 .. d.row_count[j] - 2 : Cardinality(WinsOnRow(e, j, s)) < MaxRows
    <3> SUFFICES ASSUME NEW s \in 0 .. d.row_count[j] - 2
                 PROVE  Cardinality(WinsOnRow(e, j, s)) < MaxRows
      OBVIOUS
    <3>1. Cardinality(WinsOnRow(d, j, s)) < MaxRows
      BY <2>1
    <3>2. Cardinality(WinsOnRow(e, j, s)) <= Cardinality(WinsOnRow(d, j, s))
      BY <1>6
    <3> QED
      BY <3>1, <3>2, WinsFinite, TilingAssumption
  <2> QED
    BY <1>3, <2>1, <2>2, <2>3
<1>9. ASSUME NEW v \in Windows, v \in rest
      PROVE  /\ d.workspace[v] = i /\ d.row[v] = o /\ v # w
             /\ d.col[v] \in 0 .. Cardinality(WinsOnRow(d, i, o)) - 1
             /\ d.col[v] # d.col[w]
  <2>1. d.workspace[v] = i /\ d.row[v] = o /\ v # w
    BY <1>9 DEF WinsOnRow, OnWorkspace
  <2>2. d.col[v] \in 0 .. Cardinality(WinsOnRow(d, i, o)) - 1
    BY <1>1, <2>1 DEF Layout, SlotsOK
  <2>3. d.col[v] # d.col[w]
    BY <2>1 DEF Layout, SlotsDistinct
  <2> QED
    BY <2>1, <2>2, <2>3
<1>10. SlotsOK(e)
  <2> SUFFICES ASSUME NEW v \in Windows
               PROVE  \/ e.row[v] = -1 /\ e.col[v] = -1
                      \/ /\ e.workspace[v] \in Workspaces
                         /\ e.row[v] \in 0 .. e.row_count[e.workspace[v]] - 1
                         /\ e.col[v] \in 0 .. Cardinality(WinsOnRow(e, e.workspace[v], e.row[v])) - 1
    BY DEF SlotsOK
  <2>1. CASE v = w
    BY <1>1, <1>3, <2>1 DEF DeskType
  <2>2. CASE v \in rest
    <3>1. e.workspace[v] = i /\ e.row[v] = o
      BY <1>1, <1>3, <1>9, <2>2 DEF DeskType
    <3>2. e.col[v] = IF d.col[v] > d.col[w] THEN d.col[v] - 1 ELSE d.col[v]
      BY <1>3, <1>9, <2>2
    <3>3. WinsOnRow(e, i, o) = rest
      BY <1>1, <1>5
    <3>4. e.col[v] \in 0 .. Cardinality(rest) - 1
      <4> HIDE DEF rest, cols
      <4> QED
        BY <1>1, <1>7, <1>9, <2>2, <3>2, WinsFinite
    <3> QED
      BY <1>1, <1>3, <3>1, <3>3, <3>4
  <2>3. CASE v # w /\ v \notin rest
    <3>1. e.workspace[v] = d.workspace[v] /\ e.row[v] = d.row[v] /\ e.col[v] = d.col[v]
      BY <1>1, <1>3, <2>3 DEF DeskType
    <3>2. CASE d.row[v] = -1 /\ d.col[v] = -1
      BY <3>1, <3>2
    <3>3. CASE ~ (d.row[v] = -1 /\ d.col[v] = -1)
      <4>1. /\ d.workspace[v] \in Workspaces
            /\ d.row[v] \in 0 .. d.row_count[d.workspace[v]] - 1
            /\ d.col[v] \in 0 .. Cardinality(WinsOnRow(d, d.workspace[v], d.row[v])) - 1
        BY <3>3 DEF Layout, SlotsOK
      <4>2. d.workspace[v] # i \/ d.row[v] # o
        BY <2>3 DEF WinsOnRow, OnWorkspace
      <4>3. WinsOnRow(e, d.workspace[v], d.row[v]) = WinsOnRow(d, d.workspace[v], d.row[v])
        BY <1>6, <4>1, <4>2
      <4> QED
        BY <1>3, <3>1, <4>1, <4>3
    <3> QED
      BY <3>2, <3>3
  <2> QED
    BY <2>1, <2>2, <2>3
<1>11. SlotsDistinct(e)
  <2> SUFFICES ASSUME NEW u \in Windows, NEW v \in Windows,
                      e.row[v] >= 0, e.row[v] = e.row[u], e.col[v] = e.col[u],
                      e.workspace[v] = e.workspace[u]
               PROVE  v = u
    BY DEF SlotsDistinct
  <2>1. u # w /\ v # w
    BY <1>1, <1>3 DEF DeskType
  <2>2. /\ d.row[v] >= 0 /\ d.row[v] = d.row[u] /\ d.workspace[v] = d.workspace[u]
        /\ e.row[v] = d.row[v]
    BY <1>1, <1>3, <2>1 DEF DeskType
  <2>3. CASE v \in rest
    <3>1. u \in rest
      BY <2>1, <2>2, <2>3 DEF WinsOnRow, OnWorkspace
    <3>2. /\ e.col[v] = IF d.col[v] > d.col[w] THEN d.col[v] - 1 ELSE d.col[v]
          /\ e.col[u] = IF d.col[u] > d.col[w] THEN d.col[u] - 1 ELSE d.col[u]
      BY <1>3, <2>1, <2>3, <3>1
    <3>3. /\ d.col[u] \in Int /\ d.col[v] \in Int /\ d.col[w] \in Int
          /\ d.col[u] # d.col[w] /\ d.col[v] # d.col[w]
      BY <1>1, <1>9, <2>3, <3>1 DEF DeskType
    <3>4. d.col[v] = d.col[u]
      <4>1. (IF d.col[v] > d.col[w] THEN d.col[v] - 1 ELSE d.col[v])
              = (IF d.col[u] > d.col[w] THEN d.col[u] - 1 ELSE d.col[u])
        BY <3>2
      <4> QED
        BY <3>3, <4>1, ShiftInjective
    <3> QED
      BY <2>2, <3>4 DEF Layout, SlotsDistinct
  <2>4. CASE v \notin rest
    <3>1. u \notin rest
      BY <2>1, <2>2, <2>4 DEF WinsOnRow, OnWorkspace
    <3>2. e.col[v] = d.col[v] /\ e.col[u] = d.col[u]
      BY <1>3, <2>1, <2>4, <3>1
    <3> QED
      BY <2>2, <3>2 DEF Layout, SlotsDistinct
  <2> QED
    BY <2>3, <2>4
<1>12. \A v \in Windows : v # w /\ v \notin rest => e.col[v] = d.col[v]
  BY <1>3
<1>13. Layout(e)
  BY <1>4, <1>8, <1>10, <1>11 DEF Layout
<1> HIDE DEF cols, rest
<1> QED
  BY <1>3, <1>5, <1>12, <1>13 DEF e, rest

LEMMA CloseRowLayout ==
  ASSUME NEW d, Layout(d), NEW w \in Windows, d.row[w] >= 0,
         WinsOnRow(d, d.workspace[w], d.row[w]) \ {w} = {},
         d.row_count[d.workspace[w]] > 1
  PROVE  LET e == CloseRow(d, w)
         IN  /\ Layout(e)
             /\ e.workspace = d.workspace
             /\ e.row[w] = -1
             /\ \A v \in Windows : v # w => (e.row[v] >= 0 <=> d.row[v] >= 0)
<1> DEFINE i == d.workspace[w]
           o == d.row[w]
           k == d.row_count[i] - 1
           e == CloseRow(d, w)
           rows == [v \in Windows |->
                      IF v = w THEN -1
                      ELSE IF d.workspace[v] = i /\ d.row[v] \in (o + 1) .. k
                           THEN d.row[v] - 1
                      ELSE d.row[v]]
           up(s) == IF s < o THEN s ELSE s + 1
<1>1. /\ d \in DeskType
      /\ i \in Workspaces /\ o \in Nat /\ o <= k
      /\ d.row_count[i] \in Nat /\ k \in Nat /\ k >= 1
      /\ d.row_count[i] <= MaxRows /\ d.active_row[i] = k
  BY TilingAssumption DEF Layout, SlotsOK, RowsOK, DeskType
<1>2. e = [d EXCEPT !.row = rows, !.col = [d.col EXCEPT ![w] = -1],
                    !.row_count = [d.row_count EXCEPT ![i] = k],
                    !.active_row = [d.active_row EXCEPT ![i] = k - 1]]
  <2>1. d.active_row[i] + 1 > k
    BY <1>1
  <2> QED
    BY <1>1, <2>1 DEF CloseRow, DeskType
<1>3. /\ e.workspace = d.workspace
      /\ e.row = rows
      /\ e.col = [d.col EXCEPT ![w] = -1]
      /\ e.row_count = [d.row_count EXCEPT ![i] = k]
      /\ e.active_row = [d.active_row EXCEPT ![i] = k - 1]
  BY <1>1, <1>2 DEF DeskType
<1>4. e \in DeskType
  <2> HIDE DEF i, o, k
  <2>1. rows \in [Windows -> Int]
    BY <1>1 DEF DeskType
  <2> HIDE DEF rows, e
  <2>2. /\ [d.col EXCEPT ![w] = -1] \in [Windows -> Int]
        /\ [d.row_count EXCEPT ![i] = k] \in [Workspaces -> Nat]
        /\ [d.active_row EXCEPT ![i] = k - 1] \in [Workspaces -> Int]
    BY <1>1 DEF DeskType
  <2> QED
    BY <1>1, <1>2, <2>1, <2>2 DEF DeskType
<1> HIDE DEF e
<1>5. \A v \in Windows : d.row[v] # -1 =>
        /\ d.workspace[v] \in Workspaces
        /\ d.row[v] \in 0 .. d.row_count[d.workspace[v]] - 1
        /\ d.col[v] \in 0 .. Cardinality(WinsOnRow(d, d.workspace[v], d.row[v])) - 1
  BY DEF Layout, SlotsOK
<1>6. \A v \in Windows : v # w /\ d.workspace[v] = i => d.row[v] # o
  BY DEF WinsOnRow, OnWorkspace
<1>7. ASSUME NEW v \in Windows, v # w, d.row[v] # -1
      PROVE  /\ d.workspace[v] # i => e.row[v] = d.row[v]
             /\ d.workspace[v] = i => e.row[v] \in 0 .. k - 1 /\ d.row[v] = up(e.row[v])
  <2>1. d.row[v] \in Nat /\ d.row[v] \in Int
    BY <1>1, <1>5, <1>7 DEF DeskType
  <2>2. CASE d.workspace[v] # i
    BY <1>3, <1>7, <2>1, <2>2
  <2>3. CASE d.workspace[v] = i
    <3>1. d.row[v] \in 0 .. k /\ d.row[v] # o
      BY <1>1, <1>5, <1>6, <1>7, <2>3
    <3>2. e.row[v] = IF d.row[v] > o THEN d.row[v] - 1 ELSE d.row[v]
      BY <1>1, <1>3, <1>7, <2>3, <3>1
    <3> HIDE DEF i, o, k
    <3> QED
      BY <1>1, <2>3, <3>1, <3>2
  <2> QED
    BY <2>2, <2>3
<1>8. \A v \in Windows : d.row[v] = -1 => e.row[v] = -1
  BY <1>1, <1>3
<1>9. e.row[w] = -1
  BY <1>3
<1>10. /\ \A j \in Workspaces, s \in Nat :
            j # i => WinsOnRow(e, j, s) = WinsOnRow(d, j, s)
       /\ \A s \in Nat : WinsOnRow(e, i, s) = WinsOnRow(d, i, up(s))
  <2>1. ASSUME NEW j \in Workspaces, NEW s \in Nat, NEW v \in Windows
        PROVE  /\ j # i => (v \in WinsOnRow(e, j, s) <=> v \in WinsOnRow(d, j, s))
               /\ v \in WinsOnRow(e, i, s) <=> v \in WinsOnRow(d, i, up(s))
    <3>1. CASE v = w
      <4>1. v \notin WinsOnRow(e, j, s) /\ v \notin WinsOnRow(e, i, s)
        BY <1>9, <3>1 DEF WinsOnRow
      <4>2. up(s) # o
        BY <1>1
      <4> QED
        BY <3>1, <4>1, <4>2 DEF WinsOnRow, OnWorkspace
    <3>2. CASE v # w /\ d.row[v] = -1
      <4>1. up(s) \in Nat
        BY <1>1
      <4> QED
        BY <1>8, <3>2, <4>1 DEF WinsOnRow
    <3>3. CASE v # w /\ d.row[v] # -1
      <4>1. CASE d.workspace[v] # i
        BY <1>3, <1>7, <3>3, <4>1 DEF WinsOnRow, OnWorkspace
      <4>2. CASE d.workspace[v] = i
        <5>1. e.row[v] \in Nat /\ d.row[v] = up(e.row[v])
          BY <1>1, <1>7, <3>3, <4>2
        <5>2. e.row[v] = s <=> d.row[v] = up(s)
          <6> HIDE DEF i, o, k
          <6> QED
            BY <1>1, <5>1
        <5> QED
          BY <1>3, <4>2, <5>2 DEF WinsOnRow, OnWorkspace
      <4> QED
        BY <4>1, <4>2
    <3> QED
      BY <3>1, <3>2, <3>3
  <2>2. \A j, s : WinsOnRow(e, j, s) \subseteq Windows /\ WinsOnRow(d, j, s) \subseteq Windows
    BY DEF WinsOnRow, OnWorkspace
  <2> HIDE DEF up, i
  <2>3. ASSUME NEW j \in Workspaces, NEW s \in Nat, j # i
        PROVE  WinsOnRow(e, j, s) = WinsOnRow(d, j, s)
    BY <2>1, <2>2, <2>3
  <2>4. ASSUME NEW s \in Nat
        PROVE  WinsOnRow(e, i, s) = WinsOnRow(d, i, up(s))
    <3>1. i \in Workspaces
      BY <1>1
    <3>2. \A v \in Windows : v \in WinsOnRow(e, i, s) <=> v \in WinsOnRow(d, i, up(s))
      BY <2>1, <3>1
    <3>3. WinsOnRow(e, i, s) \subseteq Windows /\ WinsOnRow(d, i, up(s)) \subseteq Windows
      BY <2>2
    <3> QED
      BY <3>2, <3>3
  <2> QED
    BY <2>3, <2>4
<1> HIDE DEF rows
<1>11. RowsOK(e)
  <2> SUFFICES ASSUME NEW j \in Workspaces
               PROVE  /\ e.row_count[j] \in 1 .. MaxRows
                      /\ e.active_row[j] = e.row_count[j] - 1
                      /\ e.row_count[j] > 1 =>
                           \A s \in 0 .. e.row_count[j] - 1 : WinsOnRow(e, j, s) # {}
                      /\ \A s \in 0 .. e.row_count[j] - 2 :
                           Cardinality(WinsOnRow(e, j, s)) < MaxRows
    BY DEF RowsOK
  <2>1. CASE j # i
    <3>1. e.row_count[j] = d.row_count[j] /\ e.active_row[j] = d.active_row[j]
      BY <1>1, <1>3, <2>1 DEF DeskType
    <3>2. \A s \in Nat : WinsOnRow(e, j, s) = WinsOnRow(d, j, s)
      BY <1>10, <2>1
    <3>3. d.row_count[j] \in Nat
      BY <1>1 DEF DeskType
    <3> QED
      BY <3>1, <3>2, <3>3 DEF Layout, RowsOK
  <2>2. CASE j = i
    <3>1. e.row_count[j] = k /\ e.active_row[j] = k - 1
      BY <1>1, <1>3, <2>2 DEF DeskType
    <3>2. ASSUME NEW s \in 0 .. k - 1
          PROVE  WinsOnRow(e, i, s) # {}
      <4>1. up(s) \in 0 .. d.row_count[i] - 1 /\ s \in Nat
        BY <1>1
      <4>2. WinsOnRow(d, i, up(s)) # {}
        <5> HIDE DEF up, i, k
        <5> QED
          BY <1>1, <4>1 DEF Layout, RowsOK, i
      <4> QED
        BY <1>10, <4>1, <4>2
    <3>3. ASSUME NEW s \in 0 .. k - 2
          PROVE  Cardinality(WinsOnRow(e, i, s)) < MaxRows
      <4>1. up(s) \in 0 .. d.row_count[i] - 2 /\ s \in Nat
        BY <1>1
      <4>2. Cardinality(WinsOnRow(d, i, up(s))) < MaxRows
        <5> HIDE DEF up, i, k
        <5> QED
          BY <1>1, <4>1 DEF Layout, RowsOK
      <4> QED
        BY <1>10, <4>1, <4>2
    <3>4. k \in 1 .. MaxRows
      BY <1>1, TilingAssumption
    <3> QED
      BY <2>2, <3>1, <3>2, <3>3, <3>4
  <2> QED
    BY <2>1, <2>2
<1>12. SlotsOK(e)
  <2> SUFFICES ASSUME NEW v \in Windows
               PROVE  \/ e.row[v] = -1 /\ e.col[v] = -1
                      \/ /\ e.workspace[v] \in Workspaces
                         /\ e.row[v] \in 0 .. e.row_count[e.workspace[v]] - 1
                         /\ e.col[v] \in 0 .. Cardinality(WinsOnRow(e, e.workspace[v], e.row[v])) - 1
    BY DEF SlotsOK
  <2>1. CASE v = w
    BY <1>1, <1>3, <1>9, <2>1 DEF DeskType
  <2>2. CASE v # w /\ d.row[v] = -1
    <3>1. d.col[v] = -1
      BY <2>2 DEF Layout, SlotsOK
    <3> QED
      BY <1>1, <1>3, <1>8, <2>2, <3>1 DEF DeskType
  <2>3. CASE v # w /\ d.row[v] # -1
    <3> DEFINE j == d.workspace[v]
    <3>1. /\ j \in Workspaces
          /\ d.row[v] \in 0 .. d.row_count[j] - 1
          /\ d.col[v] \in 0 .. Cardinality(WinsOnRow(d, j, d.row[v])) - 1
          /\ e.workspace[v] = j /\ e.col[v] = d.col[v]
      BY <1>1, <1>3, <1>5, <2>3 DEF DeskType
    <3>2. CASE j # i
      <4>1. e.row[v] = d.row[v] /\ e.row_count[j] = d.row_count[j] /\ d.row[v] \in Nat
        BY <1>1, <1>3, <1>7, <2>3, <3>1, <3>2 DEF DeskType
      <4>2. WinsOnRow(e, j, d.row[v]) = WinsOnRow(d, j, d.row[v])
        BY <1>10, <3>1, <3>2, <4>1
      <4> HIDE DEF j
      <4> QED
        BY <3>1, <4>1, <4>2
    <3>3. CASE j = i
      <4>1. e.row[v] \in 0 .. k - 1 /\ d.row[v] = up(e.row[v]) /\ e.row[v] \in Nat
        BY <1>1, <1>7, <2>3, <3>3
      <4>2. WinsOnRow(e, i, e.row[v]) = WinsOnRow(d, i, d.row[v])
        BY <1>10, <4>1
      <4>3. e.row_count[i] = k
        BY <1>1, <1>3 DEF DeskType
      <4> HIDE DEF j, up, i, k
      <4> QED
        BY <3>1, <3>3, <4>1, <4>2, <4>3
    <3> QED
      BY <3>2, <3>3
  <2> QED
    BY <2>1, <2>2, <2>3
<1>13. SlotsDistinct(e)
  <2> SUFFICES ASSUME NEW u \in Windows, NEW v \in Windows,
                      e.row[v] >= 0, e.row[v] = e.row[u], e.col[v] = e.col[u],
                      e.workspace[v] = e.workspace[u]
               PROVE  v = u
    BY DEF SlotsDistinct
  <2>1. u # w /\ v # w /\ d.row[u] # -1 /\ d.row[v] # -1
    BY <1>8, <1>9
  <2>2. d.workspace[v] = d.workspace[u] /\ d.col[v] = d.col[u]
    BY <1>1, <1>3, <2>1 DEF DeskType
  <2>3. d.row[v] = d.row[u]
    BY <1>7, <2>1, <2>2
  <2>4. d.row[v] >= 0
    BY <1>1, <1>5, <2>1 DEF DeskType
  <2> QED
    BY <2>2, <2>3, <2>4 DEF Layout, SlotsDistinct
<1>14. ASSUME NEW v \in Windows, v # w
       PROVE  e.row[v] >= 0 <=> d.row[v] >= 0
  <2>1. CASE d.row[v] = -1
    BY <1>8, <2>1
  <2>2. CASE d.row[v] # -1
    <3>1. d.row[v] \in Nat
      BY <1>1, <1>5, <2>2 DEF DeskType
    <3>2. e.row[v] \in Nat
      BY <1>1, <1>7, <1>14, <2>2, <3>1
    <3> QED
      BY <3>1, <3>2
  <2> QED
    BY <2>1, <2>2
<1>15. Layout(e)
  BY <1>4, <1>11, <1>12, <1>13 DEF Layout
<1> QED
  BY <1>3, <1>9, <1>14, <1>15 DEF e

LEMMA UnmanageOK ==
  ASSUME NEW d, Layout(d), \A v \in Windows : CurrentTile(d, v),
         NEW w \in Windows, d.row[w] >= 0
  PROVE  LET u == UnmanageWindow(d, w)
         IN  /\ Layout(u)
             /\ u.workspace = d.workspace
             /\ u.row[w] = -1
             /\ \A v \in Windows : v # w => (u.row[v] >= 0 <=> d.row[v] >= 0)
             /\ \A v \in Windows : CurrentTile(u, v)
<1> DEFINE i == d.workspace[w]
           o == d.row[w]
           rest == WinsOnRow(d, i, o) \ {w}
<1>1. d \in DeskType /\ i \in Workspaces /\ o \in Nat
  BY DEF Layout, SlotsOK, DeskType
<1>2. CASE rest = {} /\ d.row_count[i] > 1
  <2> DEFINE e == CloseRow(d, w)
             u == UpdateWindows(e, Windows)
  <2>1. UnmanageWindow(d, w) = u
    BY <1>2 DEF UnmanageWindow
  <2>2. /\ Layout(e)
        /\ e.workspace = d.workspace
        /\ e.row[w] = -1
        /\ \A v \in Windows : v # w => (e.row[v] >= 0 <=> d.row[v] >= 0)
    BY <1>2, CloseRowLayout
  <2> HIDE DEF e
  <2>3. /\ Layout(u)
        /\ u.workspace = e.workspace /\ u.row = e.row
        /\ \A v \in Windows : e.row[v] >= 0 => TileOf(u, v) = TileOf(e, v)
        /\ \A v \in Windows : e.row[v] >= 0 => u.geometry[v] = TileOf(e, v)
    BY <2>2, UpdateLayout
  <2> HIDE DEF u
  <2> QED
    BY <2>1, <2>2, <2>3 DEF CurrentTile
<1>3. CASE ~ (rest = {} /\ d.row_count[i] > 1)
  <2> DEFINE e == CloseColumn(d, w)
             u == IF rest # {} THEN UpdateWindows(e, rest) ELSE e
  <2>1. UnmanageWindow(d, w) = u
    BY <1>3 DEF UnmanageWindow
  <2>2. rest # {} \/ d.row_count[i] = 1
    BY <1>1, <1>3 DEF Layout, RowsOK
  <2>3. /\ Layout(e)
        /\ e.workspace = d.workspace /\ e.geometry = d.geometry
        /\ e.row_count = d.row_count
        /\ e.row = [d.row EXCEPT ![w] = -1]
        /\ \A v \in Windows : v # w /\ v \notin rest => e.col[v] = d.col[v]
        /\ \A j \in Workspaces, s \in Nat :
             WinsOnRow(e, j, s) = WinsOnRow(d, j, s) \ {w}
    BY <2>2, CloseColumnLayout
  <2> HIDE DEF e
  <2>4. /\ Layout(u)
        /\ u.workspace = e.workspace /\ u.row = e.row
        /\ \A v \in Windows : e.row[v] >= 0 => TileOf(u, v) = TileOf(e, v)
        /\ \A v \in Windows :
             e.row[v] >= 0 => u.geometry[v] = IF v \in rest THEN TileOf(e, v)
                                                            ELSE e.geometry[v]
    <3>1. CASE rest # {}
      <4>1. u = UpdateWindows(e, rest)
        BY <3>1
      <4>2. Layout(e)
        BY <2>3
      <4> HIDE DEF u, rest
      <4> QED
        BY <4>1, <4>2, UpdateLayout
    <3>2. CASE rest = {}
      BY <2>3, <3>2
    <3> QED
      BY <3>1, <3>2
  <2> HIDE DEF u
  <2>5. u.row[w] = -1 /\ \A v \in Windows : v # w => u.row[v] = d.row[v]
    BY <1>1, <2>3, <2>4 DEF DeskType
  <2>6. ASSUME NEW v \in Windows, v # w, v \notin rest, d.row[v] >= 0
        PROVE  TileOf(e, v) = TileOf(d, v)
    <3> DEFINE j == d.workspace[v]
               s == d.row[v]
    <3>1. j \in Workspaces /\ s \in Nat
      BY <1>1, <2>6 DEF Layout, SlotsOK, DeskType
    <3>2. w \notin WinsOnRow(d, j, s)
      BY <2>6, <3>1 DEF WinsOnRow, OnWorkspace
    <3>3. WinsOnRow(e, j, s) = WinsOnRow(d, j, s)
      BY <2>3, <3>1, <3>2
    <3>4. e.workspace[v] = j /\ e.row[v] = s /\ e.col[v] = d.col[v]
      BY <1>1, <2>3, <2>6 DEF DeskType
    <3> QED
      BY <2>3, <3>3, <3>4 DEF TileOf
  <2>7. ASSUME NEW v \in Windows
        PROVE  CurrentTile(u, v)
    <3>1. CASE v = w
      BY <2>5, <3>1 DEF CurrentTile
    <3>2. CASE v # w /\ d.row[v] >= 0
      <4>1. e.row[v] >= 0
        BY <2>4, <2>5, <3>2
      <4>2. d.geometry[v] = TileOf(d, v)
        BY <3>2 DEF CurrentTile
      <4> QED
        BY <2>3, <2>4, <2>6, <3>2, <4>1, <4>2 DEF CurrentTile
    <3>3. CASE v # w /\ ~ (d.row[v] >= 0)
      BY <2>5, <3>3 DEF CurrentTile
    <3> QED
      BY <3>1, <3>2, <3>3
  <2> QED
    BY <2>1, <2>3, <2>4, <2>5, <2>7
<1> QED
  BY <1>2, <1>3
-----------------------------------------------------------------------------
\* The window lists.

LEMMA MoveToListOK ==
  ASSUME NEW d, Layout(d), \A v \in Windows : CurrentTile(d, v),
         NEW w \in Windows, d.row[w] = -1, NEW i \in Workspaces
  PROVE  LET e == MoveToList(d, w, i)
         IN  /\ Layout(e)
             /\ e.row = d.row
             /\ e.workspace = [d.workspace EXCEPT ![w] = i]
             /\ \A v \in Windows : CurrentTile(e, v)
<1> DEFINE e == MoveToList(d, w, i)
<1>1. d \in DeskType
  BY DEF Layout
<1>2. /\ e.workspace = [d.workspace EXCEPT ![w] = i]
      /\ e.row = d.row /\ e.col = d.col /\ e.geometry = d.geometry
      /\ e.row_count = d.row_count /\ e.active_row = d.active_row
      /\ e \in DeskType
  BY <1>1 DEF MoveToList, DeskType
<1> HIDE DEF e
<1>3. \A j, s : s \in Nat => WinsOnRow(e, j, s) = WinsOnRow(d, j, s)
  BY <1>1, <1>2 DEF WinsOnRow, OnWorkspace, DeskType
<1>4. \A v \in Windows : d.row[v] >= 0 => d.row[v] \in Nat /\ e.workspace[v] = d.workspace[v]
  BY <1>1, <1>2 DEF DeskType
<1>5. RowsOK(e)
  BY <1>1, <1>2, <1>3 DEF Layout, RowsOK, DeskType
<1>6. SlotsOK(e)
  BY <1>1, <1>2, <1>3, <1>4 DEF Layout, SlotsOK, DeskType
<1>7. SlotsDistinct(e)
  BY <1>2, <1>4 DEF Layout, SlotsDistinct
<1>8. \A v \in Windows : CurrentTile(e, v)
  BY <1>2, <1>3, <1>4 DEF CurrentTile, TileOf
<1> QED
  BY <1>2, <1>5, <1>6, <1>7, <1>8 DEF Layout, e

LEMMA ForgetWindowOK ==
  ASSUME NEW d, Layout(d), \A v \in Windows : CurrentTile(d, v),
         NEW w \in Windows, d.row[w] = -1
  PROVE  LET e == ForgetWindow(d, w)
         IN  /\ Layout(e)
             /\ e.row = d.row
             /\ e.workspace = [d.workspace EXCEPT ![w] = Nowhere]
             /\ \A v \in Windows : CurrentTile(e, v)
<1> DEFINE e == ForgetWindow(d, w)
<1>1. d \in DeskType
  BY DEF Layout
<1>2. /\ e.workspace = [d.workspace EXCEPT ![w] = Nowhere]
      /\ e.geometry = [d.geometry EXCEPT ![w] = NoTile]
      /\ e.row = d.row /\ e.col = d.col
      /\ e.row_count = d.row_count /\ e.active_row = d.active_row
      /\ e \in DeskType
  <2>1. e = [d EXCEPT !.workspace = [d.workspace EXCEPT ![w] = Nowhere],
                      !.geometry = [d.geometry EXCEPT ![w] = NoTile]]
    BY <1>1 DEF ForgetWindow, DeskType
  <2>2. NoTile \in Tile
    BY DEF NoTile, Tile
  <2>3. /\ [d.workspace EXCEPT ![w] = Nowhere] \in [Windows -> {Nowhere} \cup Workspaces]
        /\ [d.geometry EXCEPT ![w] = NoTile] \in [Windows -> Tile]
    BY <1>1, <2>2 DEF DeskType
  <2> HIDE DEF e
  <2> QED
    BY <1>1, <2>1, <2>3 DEF DeskType
<1> HIDE DEF e
<1>3. \A j \in Workspaces, s \in Nat : WinsOnRow(e, j, s) = WinsOnRow(d, j, s)
  BY <1>1, <1>2 DEF WinsOnRow, OnWorkspace, DeskType, Workspaces, Nowhere
<1>4. \A v \in Windows : d.row[v] >= 0 =>
        /\ d.row[v] \in Nat /\ d.workspace[v] \in Workspaces
        /\ e.workspace[v] = d.workspace[v] /\ e.geometry[v] = d.geometry[v]
  BY <1>1, <1>2 DEF Layout, SlotsOK, DeskType
<1>5. RowsOK(e)
  BY <1>1, <1>2, <1>3 DEF Layout, RowsOK, DeskType
<1>6. SlotsOK(e)
  BY <1>1, <1>2, <1>3, <1>4 DEF Layout, SlotsOK, DeskType
<1>7. SlotsDistinct(e)
  BY <1>2, <1>4 DEF Layout, SlotsDistinct
<1>8. \A v \in Windows : CurrentTile(e, v)
  BY <1>2, <1>3, <1>4 DEF CurrentTile, TileOf
<1> QED
  BY <1>2, <1>5, <1>6, <1>7, <1>8 DEF Layout, e
-----------------------------------------------------------------------------
\* The inductive invariant.

LEMMA InitOK == Init => IInv
<1> SUFFICES ASSUME Init PROVE IInv
  OBVIOUS
<1>1. /\ desk.workspace = [w \in Windows |-> Nowhere]
      /\ desk.row = [w \in Windows |-> -1]
      /\ desk.col = [w \in Windows |-> -1]
      /\ desk.geometry = [w \in Windows |-> NoTile]
      /\ desk.row_count = [i \in Workspaces |-> 1]
      /\ desk.active_row = [i \in Workspaces |-> 0]
  BY DEF Init
<1>2. desk \in DeskType
  <2>1. NoTile \in Tile
    BY DEF NoTile, Tile
  <2> QED
    BY <2>1 DEF Init, DeskType
<1>3. RowsOK(desk)
  BY <1>1, TilingAssumption DEF RowsOK
<1>4. SlotsOK(desk) /\ SlotsDistinct(desk)
  BY <1>1 DEF SlotsOK, SlotsDistinct
<1>5. AllListedPlaced(desk) /\ \A w \in Windows : CurrentTile(desk, w)
  BY <1>1 DEF AllListedPlaced, CurrentTile
<1>6. active_workspace \in Workspaces
  BY TilingAssumption DEF Init, Workspaces
<1> QED
  BY <1>2, <1>3, <1>4, <1>5, <1>6 DEF IInv, DeskOK, Layout

LEMMA StepOK == IInv /\ [Next]_vars => IInv'
<1> SUFFICES ASSUME IInv, [Next]_vars PROVE IInv'
  OBVIOUS
<1> DEFINE d == desk
<1>1. /\ Layout(d) /\ d \in DeskType /\ active_workspace \in Workspaces
      /\ \A v \in Windows : CurrentTile(d, v)
      /\ \A v \in Windows : d.row[v] >= 0 <=> d.workspace[v] # Nowhere
  BY DEF IInv, DeskOK, Layout, AllListedPlaced
\* Every action establishes these of the layout that it computes.
<1>2. ASSUME NEW e, desk' = e, Layout(e), \A v \in Windows : CurrentTile(e, v),
             \A v \in Windows : e.row[v] >= 0 <=> e.workspace[v] # Nowhere,
             active_workspace' \in Workspaces
      PROVE  IInv'
  BY <1>2 DEF IInv, DeskOK, AllListedPlaced, CurrentTile, TileOf, Layout, RowsOK, SlotsOK,
              SlotsDistinct, WinsOnRow, OnWorkspace
<1>3. \A v \in Windows : ~ (d.row[v] >= 0) => d.row[v] = -1
  BY <1>1 DEF Layout, SlotsOK, DeskType
<1>4. ASSUME NEW w \in Windows, ConfigureNewWindow(w)
      PROVE  IInv'
  <2> DEFINE e == MoveToList(d, w, active_workspace)
             m == ManageWindow(e, w)
  <2>1. d.row[w] = -1 /\ desk' = m /\ active_workspace' = active_workspace
    BY <1>1, <1>3, <1>4 DEF ConfigureNewWindow
  <2>2. /\ Layout(e) /\ e.row = d.row
        /\ e.workspace = [d.workspace EXCEPT ![w] = active_workspace]
        /\ \A v \in Windows : CurrentTile(e, v)
    BY <1>1, <2>1, MoveToListOK
  <2> HIDE DEF e
  <2>3. e.workspace[w] = active_workspace /\ e.row[w] = -1
    BY <1>1, <2>1, <2>2 DEF DeskType
  <2>4. /\ Layout(m) /\ m.workspace = e.workspace
        /\ \A v \in Windows : m.row[v] >= 0 <=> (v = w \/ e.row[v] >= 0)
        /\ \A v \in Windows : CurrentTile(e, v) => CurrentTile(m, v)
    BY <1>1, <2>2, <2>3, ManageNew
  <2> HIDE DEF m
  <2>5. \A v \in Windows : m.row[v] >= 0 <=> m.workspace[v] # Nowhere
    BY <1>1, <2>2, <2>3, <2>4 DEF DeskType, Workspaces, Nowhere
  <2> QED
    BY <1>1, <1>2, <2>1, <2>2, <2>4, <2>5
<1>5. ASSUME NEW w \in Windows, ConfigureTiledWindow(w)
      PROVE  IInv'
  <2> DEFINE S == WinsOnRow(d, d.workspace[w], d.row[w])
             u == UpdateWindows(d, S)
  <2>1. d.row[w] >= 0 /\ desk' = ManageWindow(d, w) /\ active_workspace' = active_workspace
    BY <1>1, <1>5 DEF ConfigureTiledWindow
  <2>2. ManageWindow(d, w) = u
    BY <1>1, <2>1, ManageTiled
  <2> HIDE DEF S
  <2>3. /\ Layout(u) /\ u.workspace = d.workspace /\ u.row = d.row
        /\ \A v \in Windows : d.row[v] >= 0 => TileOf(u, v) = TileOf(d, v)
        /\ \A v \in Windows :
             d.row[v] >= 0 => u.geometry[v] = IF v \in S THEN TileOf(d, v) ELSE d.geometry[v]
    BY <1>1, UpdateLayout
  <2> HIDE DEF u
  <2>4. \A v \in Windows : CurrentTile(u, v)
    BY <1>1, <2>3 DEF CurrentTile
  <2> QED
    BY <1>1, <1>2, <2>1, <2>2, <2>3, <2>4
<1>6. ASSUME NEW w \in Windows, DestroyWindow(w)
      PROVE  IInv'
  <2> DEFINE u == UnmanageWindow(d, w)
             e == ForgetWindow(u, w)
  <2>1. d.row[w] >= 0 /\ desk' = e /\ active_workspace' = active_workspace
    BY <1>1, <1>6 DEF DestroyWindow
  <2>2. /\ Layout(u) /\ u.workspace = d.workspace /\ u.row[w] = -1
        /\ \A v \in Windows : v # w => (u.row[v] >= 0 <=> d.row[v] >= 0)
        /\ \A v \in Windows : CurrentTile(u, v)
    BY <1>1, <2>1, UnmanageOK
  <2> HIDE DEF u
  <2>3. /\ Layout(e) /\ e.row = u.row
        /\ e.workspace = [u.workspace EXCEPT ![w] = Nowhere]
        /\ \A v \in Windows : CurrentTile(e, v)
    BY <2>2, ForgetWindowOK
  <2> HIDE DEF e
  <2>4. \A v \in Windows : e.row[v] >= 0 <=> e.workspace[v] # Nowhere
    BY <1>1, <2>2, <2>3 DEF DeskType
  <2> QED
    BY <1>1, <1>2, <2>1, <2>3, <2>4
<1>7. ASSUME NEW w \in Windows, NEW n \in Workspaces, MoveWindow(w, n)
      PROVE  IInv'
  <2> DEFINE u == UnmanageWindow(d, w)
             e == MoveToList(u, w, n)
             m == ManageWindow(e, w)
             z == UpdateWindows(m, Windows)
  <2>1. d.row[w] >= 0 /\ desk' = z /\ active_workspace' = active_workspace
    BY <1>1, <1>7 DEF MoveWindow, Workspaces, Nowhere
  <2>2. /\ Layout(u) /\ u.workspace = d.workspace /\ u.row[w] = -1
        /\ \A v \in Windows : v # w => (u.row[v] >= 0 <=> d.row[v] >= 0)
        /\ \A v \in Windows : CurrentTile(u, v)
    BY <1>1, <2>1, UnmanageOK
  <2> HIDE DEF u
  <2>3. /\ Layout(e) /\ e.row = u.row
        /\ e.workspace = [d.workspace EXCEPT ![w] = n]
        /\ \A v \in Windows : CurrentTile(e, v)
    BY <2>2, MoveToListOK
  <2> HIDE DEF e
  <2>4. e.workspace[w] = n /\ e.row[w] = -1
    BY <1>1, <2>2, <2>3 DEF DeskType
  <2>5. /\ Layout(m) /\ m.workspace = e.workspace
        /\ \A v \in Windows : m.row[v] >= 0 <=> (v = w \/ e.row[v] >= 0)
    BY <2>3, <2>4, ManageNew
  <2> HIDE DEF m
  <2>6. /\ Layout(z) /\ z.workspace = m.workspace /\ z.row = m.row
        /\ \A v \in Windows : m.row[v] >= 0 => TileOf(z, v) = TileOf(m, v)
        /\ \A v \in Windows : m.row[v] >= 0 => z.geometry[v] = TileOf(m, v)
    BY <2>5, UpdateLayout
  <2> HIDE DEF z
  <2>7. \A v \in Windows : CurrentTile(z, v)
    BY <2>6 DEF CurrentTile
  <2>8. \A v \in Windows : z.row[v] >= 0 <=> z.workspace[v] # Nowhere
    BY <1>1, <2>2, <2>3, <2>5, <2>6 DEF DeskType, Workspaces, Nowhere
  <2> QED
    BY <1>1, <1>2, <2>1, <2>6, <2>7, <2>8
<1>8. ASSUME NEW n \in Workspaces, SetWorkspace(n)
      PROVE  IInv'
  <2> DEFINE u == UpdateWindows(d, Windows)
  <2>1. desk' = u /\ active_workspace' = n
    BY <1>8 DEF SetWorkspace
  <2>2. /\ Layout(u) /\ u.workspace = d.workspace /\ u.row = d.row
        /\ \A v \in Windows : d.row[v] >= 0 => TileOf(u, v) = TileOf(d, v)
        /\ \A v \in Windows : d.row[v] >= 0 => u.geometry[v] = TileOf(d, v)
    BY <1>1, UpdateLayout
  <2> HIDE DEF u
  <2>3. \A v \in Windows : CurrentTile(u, v)
    BY <2>2 DEF CurrentTile
  <2> QED
    BY <1>1, <1>2, <2>1, <2>2, <2>3
<1>9. CASE UNCHANGED vars
  BY <1>1, <1>2, <1>9 DEF vars
<1> QED
  BY <1>4, <1>5, <1>6, <1>7, <1>8, <1>9 DEF Next

(***************************************************************************)
(* Spec keeps the inductive invariant: between two events or commands      *)
(* every window on a list has a slot of its own on a row in use, and the   *)
(* rectangle of that slot.                                                 *)
(***************************************************************************)
THEOREM Invariance == Spec => []IInv
<1>1. Init => IInv
  BY InitOK
<1>2. IInv /\ [Next]_vars => IInv'
  BY StepOK
<1> QED
  BY <1>1, <1>2, PTL DEF Spec

(***************************************************************************)
(* The types of the layout: rows, columns and rectangles are numbers, and  *)
(* no division by zero (row_count, or the windows on a row) made them.     *)
(***************************************************************************)
THEOREM TypeCorrect == Spec => []TypeOK
<1>1. IInv => TypeOK
  BY DEF IInv, DeskOK, Layout, DeskType, Tile, TypeOK
<1> QED
  BY <1>1, Invariance, PTL

(***************************************************************************)
(* Rows are opened, closed and moved up consistently, in any sequence of   *)
(* windows coming, going and being moved.                                  *)
(***************************************************************************)
THEOREM RowsAlwaysInUse == Spec => []RowsInUse
<1>1. IInv => RowsInUse
  <2> SUFFICES ASSUME IInv, NEW i \in Workspaces
               PROVE  /\ desk.row_count[i] \in 1 .. MaxRows
                      /\ desk.active_row[i] = desk.row_count[i] - 1
                      /\ \A w \in OnWorkspace(desk, i) : desk.row[w] \in 0 .. desk.row_count[i] - 1
                      /\ desk.row_count[i] > 1 =>
                           \A r \in 0 .. desk.row_count[i] - 1 : WinsOnRow(desk, i, r) # {}
    BY DEF RowsInUse
  <2>1. ASSUME NEW w \in OnWorkspace(desk, i)
        PROVE  desk.row[w] \in 0 .. desk.row_count[i] - 1
    <3>1. w \in Windows /\ desk.workspace[w] = i /\ i # Nowhere
      BY DEF OnWorkspace, Workspaces, Nowhere
    <3> QED
      BY <3>1 DEF IInv, DeskOK, Layout, SlotsOK, AllListedPlaced
  <2> QED
    BY <2>1 DEF IInv, DeskOK, Layout, RowsOK
<1> QED
  BY <1>1, Invariance, PTL

(***************************************************************************)
(* No row but the last ever reaches max_rows windows, so that the test by  *)
(* == in mawim_manage_window is as good as one by >= on those rows.        *)
(***************************************************************************)
THEOREM ClosedRowsAlwaysBounded == Spec => []ClosedRowsBounded
<1>1. IInv => ClosedRowsBounded
  <2> SUFFICES ASSUME IInv, NEW i \in Workspaces, NEW r \in 0 .. desk.active_row[i] - 1
               PROVE  Cardinality(WinsOnRow(desk, i, r)) < MaxRows
    BY DEF ClosedRowsBounded
  <2>1. desk.active_row[i] = desk.row_count[i] - 1 /\ desk.row_count[i] \in Nat
    BY DEF IInv, DeskOK, Layout, RowsOK, DeskType
  <2>2. r \in 0 .. desk.row_count[i] - 2
    BY <2>1
  <2> QED
    BY <2>2 DEF IInv, DeskOK, Layout, RowsOK
<1> QED
  BY <1>1, Invariance, PTL

(***************************************************************************)
(* No handler leaves a window with a rectangle that the layout no longer   *)
(* asks for, although each updates only the windows it believes affected.  *)
(***************************************************************************)
THEOREM GeometryAlwaysCurrent == Spec => []GeometryCurrent
<1>1. IInv => GeometryCurrent
  BY DEF IInv, DeskOK, AllListedPlaced, CurrentTile, GeometryCurrent, Tiled
<1> QED
  BY <1>1, Invariance, PTL

\* What the geometry theorems need to know of a window with a slot.
RowLength(w) == Cardinality(WinsOnRow(desk, desk.workspace[w], desk.row[w]))
RowsBeside(w) == desk.row_count[desk.workspace[w]]
SlotWidth(w) == DisplayWidth \div RowLength(w)
SlotHeight(w) == DisplayHeight \div RowsBeside(w)

LEMMA TiledSlot ==
  ASSUME IInv, NEW w \in Tiled
  PROVE  /\ w \in Windows
         /\ RowsBeside(w) \in Nat \ {0} /\ desk.row[w] \in 0 .. RowsBeside(w) - 1
         /\ RowLength(w) \in Nat \ {0} /\ desk.col[w] \in 0 .. RowLength(w) - 1
         /\ SlotWidth(w) \in Nat /\ SlotHeight(w) \in Nat
         /\ desk.geometry[w].x = SlotWidth(w) * desk.col[w]
         /\ desk.geometry[w].y = SlotHeight(w) * desk.row[w]
         /\ desk.geometry[w].width = SlotWidth(w)
         /\ desk.geometry[w].height = SlotHeight(w)
<1> DEFINE i == desk.workspace[w]
<1>1. w \in Windows /\ desk.row[w] >= 0
  BY DEF Tiled, IInv, DeskOK, AllListedPlaced
<1>2. /\ i \in Workspaces
      /\ desk.row[w] \in 0 .. RowsBeside(w) - 1
      /\ desk.col[w] \in 0 .. RowLength(w) - 1
  BY <1>1 DEF IInv, DeskOK, Layout, SlotsOK, RowLength, RowsBeside
<1>3. RowsBeside(w) \in Nat \ {0} /\ RowLength(w) \in Nat \ {0}
  <2>1. RowsBeside(w) \in 1 .. MaxRows
    BY <1>2 DEF IInv, DeskOK, Layout, RowsOK, RowsBeside
  <2>2. RowLength(w) \in Nat
    BY WinsFinite DEF RowLength
  <2> QED
    BY <1>2, <2>1, <2>2
<1>4. SlotWidth(w) \in Nat /\ SlotHeight(w) \in Nat
  BY <1>3, DivBound, TilingAssumption DEF SlotWidth, SlotHeight
<1>5. AtLeastOne(RowLength(w)) = RowLength(w)
  BY <1>3 DEF AtLeastOne
<1>6. desk.geometry[w] = [x |-> SlotWidth(w) * desk.col[w],
                          y |-> SlotHeight(w) * desk.row[w],
                          width |-> SlotWidth(w),
                          height |-> SlotHeight(w)]
  <2>1. desk.geometry[w] = TileOf(desk, w)
    BY <1>1 DEF IInv, DeskOK, CurrentTile
  <2> QED
    BY <1>5, <2>1 DEF TileOf, SlotWidth, SlotHeight, RowLength, RowsBeside
<1> QED
  BY <1>1, <1>2, <1>3, <1>4, <1>6

(***************************************************************************)
(* The rectangles of two windows of one workspace never overlap: automatic *)
(* tiling tiles, on every screen and for every number of windows.          *)
(***************************************************************************)
THEOREM TilesAlwaysDisjoint == Spec => []TilesDisjoint
<1>1. IInv => TilesDisjoint
  <2> SUFFICES ASSUME IInv, NEW v \in Tiled, NEW w \in Tiled, v # w,
                      desk.workspace[v] = desk.workspace[w]
               PROVE  Disjoint(desk.geometry[v], desk.geometry[w])
    BY DEF TilesDisjoint
  <2> DEFINE p == SlotWidth(w)
             q == SlotHeight(w)
  <2>1. /\ desk.row[v] \in Nat /\ desk.row[w] \in Nat
        /\ desk.col[v] \in Nat /\ desk.col[w] \in Nat
        /\ p \in Nat /\ q \in Nat
        /\ desk.geometry[w].y = q * desk.row[w] /\ desk.geometry[w].height = q
        /\ desk.geometry[w].x = p * desk.col[w] /\ desk.geometry[w].width = p
    BY TiledSlot
  <2>2. /\ desk.geometry[v].y = q * desk.row[v] /\ desk.geometry[v].height = q
        /\ desk.row[v] = desk.row[w] =>
             desk.geometry[v].x = p * desk.col[v] /\ desk.geometry[v].width = p
    <3>1. SlotHeight(v) = q /\ (desk.row[v] = desk.row[w] => SlotWidth(v) = p)
      BY DEF SlotHeight, SlotWidth, RowLength, RowsBeside
    <3> QED
      BY <3>1, TiledSlot
  <2> HIDE DEF p, q
  <2>3. CASE desk.row[v] < desk.row[w]
    <3>1. q * desk.row[v] + q <= q * desk.row[w]
      BY <2>1, <2>2, <2>3, SlotsApart
    <3> QED
      BY <2>1, <2>2, <3>1 DEF Disjoint
  <2>4. CASE desk.row[w] < desk.row[v]
    <3>1. q * desk.row[w] + q <= q * desk.row[v]
      BY <2>1, <2>2, <2>4, SlotsApart
    <3> QED
      BY <2>1, <2>2, <3>1 DEF Disjoint
  <2>5. CASE desk.row[v] = desk.row[w]
    <3>1. desk.col[v] # desk.col[w]
      BY <2>1, <2>5 DEF IInv, DeskOK, Layout, SlotsDistinct, Tiled
    <3>2. CASE desk.col[v] < desk.col[w]
      <4>1. p * desk.col[v] + p <= p * desk.col[w]
        BY <2>1, <2>2, <3>2, SlotsApart
      <4> QED
        BY <2>1, <2>2, <2>5, <4>1 DEF Disjoint
    <3>3. CASE desk.col[w] < desk.col[v]
      <4>1. p * desk.col[w] + p <= p * desk.col[v]
        BY <2>1, <2>2, <3>3, SlotsApart
      <4> QED
        BY <2>1, <2>2, <2>5, <4>1 DEF Disjoint
    <3> QED
      BY <2>1, <3>1, <3>2, <3>3
  <2> QED
    BY <2>1, <2>3, <2>4, <2>5
<1> QED
  BY <1>1, Invariance, PTL

(***************************************************************************)
(* No rectangle reaches beyond the screen, whatever the divisions in       *)
(* mawim_update_window round away.                                         *)
(***************************************************************************)
THEOREM TilesAlwaysOnScreen == Spec => []TilesOnScreen
<1>1. IInv => TilesOnScreen
  <2> SUFFICES ASSUME IInv, NEW w \in Tiled
               PROVE  LET g == desk.geometry[w]
                      IN  /\ g.x >= 0 /\ g.x + g.width <= DisplayWidth
                          /\ g.y >= 0 /\ g.y + g.height <= DisplayHeight
    BY DEF TilesOnScreen
  <2> DEFINE g == desk.geometry[w]
  <2>1. g.x >= 0 /\ g.x + g.width <= DisplayWidth
    <3>1. SlotWidth(w) * desk.col[w] \in Nat /\ SlotWidth(w) * desk.col[w] + SlotWidth(w) <= DisplayWidth
      BY TiledSlot, SlotInside, TilingAssumption DEF SlotWidth
    <3> QED
      BY <3>1, TiledSlot
  <2>2. g.y >= 0 /\ g.y + g.height <= DisplayHeight
    <3>1. SlotHeight(w) * desk.row[w] \in Nat /\ SlotHeight(w) * desk.row[w] + SlotHeight(w) <= DisplayHeight
      BY TiledSlot, SlotInside, TilingAssumption DEF SlotHeight
    <3> QED
      BY <3>1, TiledSlot
  <2> QED
    BY <2>1, <2>2
<1> QED
  BY <1>1, Invariance, PTL

(***************************************************************************)
(* The columns of a row are 0 .. n - 1 without a gap.  The invariant only  *)
(* bounds them and keeps them apart; n different numbers below n are all   *)
(* of them.                                                                *)
(***************************************************************************)
THEOREM ColumnsAlwaysPacked == Spec => []ColumnsPacked
<1>1. IInv => ColumnsPacked
  <2> SUFFICES ASSUME IInv, NEW i \in Workspaces, NEW r \in 0 .. desk.row_count[i] - 1
               PROVE  {desk.col[w] : w \in WinsOnRow(desk, i, r)}
                        = 0 .. Cardinality(WinsOnRow(desk, i, r)) - 1
    BY DEF ColumnsPacked
  <2> DEFINE wins == WinsOnRow(desk, i, r)
             n == Cardinality(wins)
             f == [w \in wins |-> desk.col[w]]
  <2>1. IsFiniteSet(wins) /\ n \in Nat
    BY WinsFinite
  <2>2. \A w \in wins : desk.col[w] \in 0 .. n - 1
    <3> SUFFICES ASSUME NEW w \in wins PROVE desk.col[w] \in 0 .. n - 1
      OBVIOUS
    <3>1. w \in Windows /\ desk.workspace[w] = i /\ desk.row[w] = r
      BY DEF WinsOnRow, OnWorkspace
    <3>2. desk.row[w] # -1
      BY <3>1
    <3> QED
      BY <3>1, <3>2 DEF IInv, DeskOK, Layout, SlotsOK
  <2>3. \A v, w \in wins : desk.col[v] = desk.col[w] => v = w
    BY DEF IInv, DeskOK, Layout, SlotsDistinct, WinsOnRow, OnWorkspace
  <2> HIDE DEF wins
  <2>4. f \in Injection(wins, 0 .. n - 1)
    BY <2>2, <2>3 DEF Injection, IsInjective
  <2>5. IsFiniteSet(0 .. n - 1) /\ Cardinality(0 .. n - 1) = n
    <3>1. 0 \in Int /\ n - 1 \in Int /\ (IF 0 > n - 1 THEN 0 ELSE n - 1 - 0 + 1) = n
      BY <2>1
    <3> HIDE DEF n
    <3> QED
      BY <3>1, FS_Interval
  <2>6. f \in Surjection(wins, 0 .. n - 1)
    BY <2>4, <2>5, FS_Injection
  <2>7. {desk.col[w] : w \in wins} = 0 .. n - 1
    BY <2>2, <2>6 DEF Surjection
  <2> QED
    BY <2>7 DEF wins
<1> QED
  BY <1>1, Invariance, PTL
-----------------------------------------------------------------------------
\* The order of reading.

\* From d to e the windows but w keep their order, on each workspace.
KeepsOrder(d, e, w) ==
  \A u, v \in Windows \ {w} :
    (/\ d.workspace[u] \in Workspaces /\ d.workspace[u] = d.workspace[v]
     /\ d.row[u] >= 0 /\ d.row[v] >= 0
     /\ Before(d, u, v)) => Before(e, u, v)

\* From d to e only w may get another row and column.
KeepsSlots(d, e, w) ==
  \A v \in Windows \ {w} : e.row[v] = d.row[v] /\ e.col[v] = d.col[v]

\* mawim_update_window gives no slots.
LEMMA UpdateSlots ==
  ASSUME NEW d, d \in DeskType, NEW S
  PROVE  LET u == UpdateWindows(d, S)
         IN  u.workspace = d.workspace /\ u.row = d.row /\ u.col = d.col
  BY DEF UpdateWindows, DeskType

\* mawim_manage_window gives a slot to its window alone.
LEMMA ManageSlots ==
  ASSUME NEW d, d \in DeskType, NEW w \in Windows
  PROVE  KeepsSlots(d, ManageWindow(d, w), w)
<1> DEFINE P(r, c, b) == PlaceWindow(d, w, r, c, b)
<1>1. PICK r, c, b, S : ManageWindow(d, w) = UpdateWindows(P(r, c, b), S)
  BY DEF ManageWindow
<1> DEFINE p == P(r, c, b)
<1>2. p.row = [d.row EXCEPT ![w] = r] /\ p.col = [d.col EXCEPT ![w] = c]
  BY DEF PlaceWindow, DeskType
<1>3. UpdateWindows(p, S).row = p.row /\ UpdateWindows(p, S).col = p.col
  BY DEF UpdateWindows, PlaceWindow, DeskType
<1> HIDE DEF p, P
<1> QED BY <1>1, <1>2, <1>3 DEF KeepsSlots, DeskType, p

\* mawim_unmanage_window moves columns to the left and rows up without letting
\* one pass another.
LEMMA CloseColumnOrder ==
  ASSUME NEW d, Layout(d), NEW w \in Windows, d.row[w] >= 0
  PROVE  KeepsOrder(d, CloseColumn(d, w), w)
<1> DEFINE e == CloseColumn(d, w)
           i == d.workspace[w]
           rest == WinsOnRow(d, i, d.row[w]) \ {w}
           Shift(c) == IF c > d.col[w] THEN c - 1 ELSE c
<1>1. d \in DeskType
  BY DEF Layout
<1>2. \A v \in Windows \ {w} :
        /\ e.row[v] = d.row[v]
        /\ e.col[v] = IF v \in rest THEN Shift(d.col[v]) ELSE d.col[v]
        /\ v \in rest <=> d.workspace[v] = i /\ d.row[v] = d.row[w]
  BY <1>1 DEF CloseColumn, DeskType, WinsOnRow, OnWorkspace
<1>3. \A v \in rest : d.col[v] # d.col[w]
  BY DEF Layout, SlotsDistinct, WinsOnRow, OnWorkspace
<1> HIDE DEF e, rest
<1> SUFFICES ASSUME NEW u \in Windows \ {w}, NEW v \in Windows \ {w},
                    d.workspace[u] = d.workspace[v], Before(d, u, v)
             PROVE  Before(e, u, v)
  BY DEF KeepsOrder, e
<1>4. CASE d.row[u] < d.row[v]
  BY <1>2, <1>4 DEF Before
<1>5. CASE d.row[u] = d.row[v] /\ d.col[u] < d.col[v]
  <2>1. u \in rest <=> v \in rest
    BY <1>2, <1>5
  <2>2. d.col[u] \in Int /\ d.col[v] \in Int /\ d.col[w] \in Int
    BY <1>1 DEF DeskType
  <2>3. CASE u \in rest
    <3>1. Shift(d.col[u]) < Shift(d.col[v])
      BY <1>3, <1>5, <2>1, <2>2, <2>3
    <3> QED BY <1>2, <1>5, <2>1, <2>3, <3>1 DEF Before
  <2>4. CASE u \notin rest
    BY <1>2, <1>5, <2>1, <2>4 DEF Before
  <2> QED BY <2>3, <2>4
<1> QED BY <1>4, <1>5 DEF Before

LEMMA CloseRowOrder ==
  ASSUME NEW d, Layout(d), NEW w \in Windows, d.row[w] >= 0,
         WinsOnRow(d, d.workspace[w], d.row[w]) \ {w} = {}
  PROVE  KeepsOrder(d, CloseRow(d, w), w)
<1> DEFINE e == CloseRow(d, w)
           i == d.workspace[w]
           o == d.row[w]
           Shift(r) == IF r \in (o + 1) .. (d.row_count[i] - 1) THEN r - 1 ELSE r
<1>1. d \in DeskType /\ i \in Workspaces /\ o \in Int
  BY DEF Layout, SlotsOK, DeskType
<1>2. \A v \in Windows \ {w} :
        /\ e.row[v] = IF d.workspace[v] = i THEN Shift(d.row[v]) ELSE d.row[v]
        /\ e.col[v] = d.col[v]
  BY <1>1 DEF CloseRow, DeskType
<1>3. \A v \in Windows \ {w} : d.workspace[v] = i => d.row[v] # o
  BY DEF WinsOnRow, OnWorkspace
<1>4. \A v \in Windows : d.workspace[v] = i /\ d.row[v] >= 0 => d.row[v] <= d.row_count[i] - 1
  BY <1>1 DEF Layout, SlotsOK, DeskType
<1> HIDE DEF e
<1> SUFFICES ASSUME NEW u \in Windows \ {w}, NEW v \in Windows \ {w},
                    d.workspace[u] = d.workspace[v],
                    d.row[u] >= 0, d.row[v] >= 0, Before(d, u, v)
             PROVE  Before(e, u, v)
  BY DEF KeepsOrder, e
<1>5. d.row[u] \in Int /\ d.row[v] \in Int /\ d.row_count[i] \in Int
  BY <1>1 DEF DeskType
<1>6. CASE d.workspace[u] # i
  BY <1>2, <1>6 DEF Before
<1>7. CASE d.workspace[u] = i
  <2>1. /\ d.row[u] < d.row[v] => Shift(d.row[u]) < Shift(d.row[v])
        /\ d.row[u] = d.row[v] => Shift(d.row[u]) = Shift(d.row[v])
    BY <1>1, <1>3, <1>4, <1>5, <1>7
  <2>2. e.row[u] = Shift(d.row[u]) /\ e.row[v] = Shift(d.row[v])
    BY <1>2, <1>7
  <2> HIDE DEF Shift
  <2> QED BY <1>2, <2>1, <2>2 DEF Before
<1> QED BY <1>6, <1>7

LEMMA UnmanageOrder ==
  ASSUME NEW d, Layout(d), NEW w \in Windows, d.row[w] >= 0
  PROVE  KeepsOrder(d, UnmanageWindow(d, w), w)
<1> DEFINE i == d.workspace[w]
           rest == WinsOnRow(d, i, d.row[w]) \ {w}
           c == CloseColumn(d, w)
           r == CloseRow(d, w)
<1>1. d \in DeskType
  BY DEF Layout
<1>2. /\ UpdateWindows(c, rest).row = c.row /\ UpdateWindows(c, rest).col = c.col
      /\ UpdateWindows(r, Windows).row = r.row /\ UpdateWindows(r, Windows).col = r.col
  BY <1>1 DEF UpdateWindows, CloseColumn, CloseRow, DeskType
<1>3. KeepsOrder(d, c, w)
  BY CloseColumnOrder
<1>4. rest = {} => KeepsOrder(d, r, w)
  BY CloseRowOrder
<1>5. \/ UnmanageWindow(d, w) = UpdateWindows(c, rest)
      \/ rest = {} /\ UnmanageWindow(d, w) = UpdateWindows(r, Windows)
      \/ UnmanageWindow(d, w) = c
  BY DEF UnmanageWindow
<1> HIDE DEF c, r, rest
<1> QED BY <1>2, <1>3, <1>4, <1>5 DEF KeepsOrder, Before

(***************************************************************************)
(* Two windows that stay in a workspace keep their reading order, whatever *)
(* is opened, closed or moved around them: closing a gap in                *)
(* mawim_unmanage_window, with its two loops, never lets a window pass     *)
(* another.                                                                *)
(***************************************************************************)
THEOREM ReadingOrderAlwaysStable == Spec => ReadingOrderStable
<1> DEFINE A == \A v, w \in Windows :
                  (/\ StaysPut(v) /\ StaysPut(w)
                   /\ desk.workspace[v] = desk.workspace[w]
                   /\ Before(desk, v, w)) => Before(desk', v, w)
<1>1. IInv /\ [Next]_vars => A
  <2> SUFFICES ASSUME IInv, [Next]_vars, NEW v \in Windows, NEW w \in Windows,
                      StaysPut(v), StaysPut(w),
                      desk.workspace[v] = desk.workspace[w], Before(desk, v, w)
               PROVE  Before(desk', v, w)
    OBVIOUS
  <2>1. /\ Layout(desk) /\ desk \in DeskType /\ \A x \in Windows : CurrentTile(desk, x)
        /\ active_workspace \in Workspaces
    BY DEF IInv, DeskOK, Layout
  <2>2. /\ desk.workspace[v] \in Workspaces /\ desk.row[v] >= 0 /\ desk.row[w] >= 0
        /\ desk'.workspace[v] # Nowhere /\ desk'.workspace[w] # Nowhere
    BY <2>1 DEF StaysPut, Tiled, IInv, DeskOK, AllListedPlaced, DeskType
  <2>3. ASSUME desk'.row = desk.row, desk'.col = desk.col
        PROVE  Before(desk', v, w)
    BY <2>3 DEF Before
  <2>4. ASSUME NEW x \in Windows, ConfigureNewWindow(x)
        PROVE  Before(desk', v, w)
    <3> DEFINE e == MoveToList(desk, x, active_workspace)
    <3>1. v # x /\ w # x
      BY <2>2, <2>4 DEF ConfigureNewWindow, StaysPut, Tiled
    <3>2. e \in DeskType /\ e.row = desk.row /\ e.col = desk.col
      BY <2>1 DEF MoveToList, DeskType
    <3>3. desk' = ManageWindow(e, x)
      BY <2>4 DEF ConfigureNewWindow
    <3> HIDE DEF e
    <3>4. KeepsSlots(e, desk', x)
      BY <3>2, <3>3, ManageSlots
    <3> QED BY <3>1, <3>2, <3>4 DEF KeepsSlots, Before
  <2>5. ASSUME NEW x \in Windows, ConfigureTiledWindow(x)
        PROVE  Before(desk', v, w)
    <3>1. desk.row[x] >= 0
      BY <2>5 DEF ConfigureTiledWindow, IInv, DeskOK, AllListedPlaced
    <3>2. desk' = UpdateWindows(desk, WinsOnRow(desk, desk.workspace[x], desk.row[x]))
      BY <2>1, <2>5, <3>1, ManageTiled DEF ConfigureTiledWindow
    <3> QED BY <2>1, <2>3, <3>2, UpdateSlots
  <2>6. ASSUME NEW x \in Windows, DestroyWindow(x)
        PROVE  Before(desk', v, w)
    <3> DEFINE u == UnmanageWindow(desk, x)
    <3>1. desk.row[x] >= 0 /\ desk' = ForgetWindow(u, x)
      BY <2>6 DEF DestroyWindow, IInv, DeskOK, AllListedPlaced
    <3>2. Layout(u) /\ KeepsOrder(desk, u, x)
      BY <2>1, <3>1, UnmanageOK, UnmanageOrder
    <3> HIDE DEF u
    <3>3. desk'.workspace[x] = Nowhere /\ desk'.row = u.row /\ desk'.col = u.col
      BY <3>1, <3>2 DEF ForgetWindow, Layout, DeskType
    <3>4. v # x /\ w # x
      BY <2>2, <3>3
    <3> QED BY <2>2, <3>2, <3>3, <3>4 DEF KeepsOrder, Before
  <2>7. ASSUME NEW x \in Windows, NEW n \in Workspaces, MoveWindow(x, n)
        PROVE  Before(desk', v, w)
    <3> DEFINE u == UnmanageWindow(desk, x)
               e == MoveToList(u, x, n)
               m == ManageWindow(e, x)
    <3>1. desk.row[x] >= 0 /\ desk' = UpdateWindows(m, Windows)
      BY <2>1, <2>7 DEF MoveWindow, IInv, DeskOK, AllListedPlaced, Workspaces, Nowhere
    <3>2. /\ Layout(u) /\ u.row[x] = -1 /\ \A y \in Windows : CurrentTile(u, y)
          /\ KeepsOrder(desk, u, x)
      BY <2>1, <3>1, UnmanageOK, UnmanageOrder
    <3> HIDE DEF u
    <3>3. /\ Layout(e) /\ e.row = u.row /\ e.col = u.col
          /\ e.workspace[x] \in Workspaces /\ e.row[x] = -1
      <4>1. Layout(e) /\ e.row = u.row /\ e.workspace = [u.workspace EXCEPT ![x] = n]
        BY <3>2, MoveToListOK
      <4>2. e.col = u.col
        BY <3>2 DEF MoveToList, Layout, DeskType
      <4> QED BY <3>2, <4>1, <4>2 DEF Layout, DeskType
    <3> HIDE DEF e
    <3>4. Layout(m) /\ KeepsSlots(e, m, x)
      BY <3>3, ManageNew, ManageSlots DEF Layout
    <3> HIDE DEF m
    <3>5. desk'.row = m.row /\ desk'.col = m.col
      BY <3>1, <3>4, UpdateSlots DEF Layout
    <3>6. v # x /\ w # x
      BY <2>7 DEF StaysPut
    <3> QED BY <2>2, <3>2, <3>3, <3>4, <3>5, <3>6 DEF KeepsOrder, KeepsSlots, Before
  <2>8. ASSUME NEW n \in Workspaces, SetWorkspace(n)
        PROVE  Before(desk', v, w)
    BY <2>1, <2>3, <2>8, UpdateSlots DEF SetWorkspace
  <2>9. CASE UNCHANGED vars
    BY <2>3, <2>9 DEF vars
  <2> QED BY <2>4, <2>5, <2>6, <2>7, <2>8, <2>9 DEF Next
<1>2. []IInv /\ [][Next]_vars => [][A]_vars
  BY <1>1, PTL
<1> QED BY <1>2, Invariance, PTL DEF Spec, ReadingOrderStable
=============================================================================
