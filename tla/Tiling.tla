------------------------------- MODULE Tiling -------------------------------
(***************************************************************************)
(* The automatic tiling of src/window.c: which row and column of which     *)
(* workspace every window occupies, and the rectangle of the screen that   *)
(* MaWiM last asked the X server to give it.                               *)
(*                                                                         *)
(* This is the abstract specification of the window manager.  The linked   *)
(* window list of a workspace is the set of its windows: what the          *)
(* algorithm computes from a list (who is on a row, and how many) does not *)
(* depend on the list's order.  Module WindowManager has the lists, the    *)
(* structs and the X events, and implements this specification.            *)
(*                                                                         *)
(* The layout is one record, desk, handed from one function to the next    *)
(* as src/window.c hands on mawim_t*: a handler is the composition of the  *)
(* functions it calls, and the lemmas about a function are stated once     *)
(* (TilingProofs).                                                         *)
(***************************************************************************)
EXTENDS Integers, FiniteSets

CONSTANTS Windows,         \* the X11 windows
          WorkspaceCount,  \* mawim_t.workspace_count
          MaxRows,         \* mawim_t.max_rows
          DisplayWidth,    \* pixels, DisplayWidth(display, screen)
          DisplayHeight    \* pixels, DisplayHeight(display, screen)

ASSUME TilingAssumption ==
  /\ IsFiniteSet(Windows)
  /\ WorkspaceCount \in Nat \ {0}
  /\ MaxRows \in Nat \ {0}
  /\ DisplayWidth \in Nat
  /\ DisplayHeight \in Nat

VARIABLES desk,             \* the layout, see TypeOK
          active_workspace  \* mawim_t.active_workspace, 1-based

vars == <<desk, active_workspace>>

Workspaces == 1 .. WorkspaceCount

Nowhere == 0  \* the "workspace" of a window that is on no window list

NoTile == [x |-> 0, y |-> 0, width |-> 0, height |-> 0]

TypeOK ==
  /\ desk \in [workspace  : [Windows -> {Nowhere} \cup Workspaces],
               row        : [Windows -> Int],
               col        : [Windows -> Int],
               geometry   : [Windows -> [x : Int, y : Int, width : Int, height : Int]],
               row_count  : [Workspaces -> Nat],
               active_row : [Workspaces -> Int]]
  /\ active_workspace \in Workspaces
-----------------------------------------------------------------------------
\* The functions of src/window.c, from a desk to a desk.

OnWorkspace(d, i) == {w \in Windows : d.workspace[w] = i}

\* mawim_get_wins_on_row
WinsOnRow(d, i, r) == {w \in OnWorkspace(d, i) : d.row[w] = r}

AtLeastOne(n) == IF n < 1 THEN 1 ELSE n

\* The rectangle that mawim_update_window computes for a window.
TileOf(d, w) ==
  LET i == d.workspace[w]
      width  == DisplayWidth \div AtLeastOne(Cardinality(WinsOnRow(d, i, d.row[w])))
      height == DisplayHeight \div d.row_count[i]
  IN  [x |-> width * d.col[w], y |-> height * d.row[w],
       width |-> width, height |-> height]

\* mawim_update_window on every window of S; the order of the calls does not
\* matter, since none reads what another writes.
UpdateWindows(d, S) ==
  [d EXCEPT !.geometry =
     [w \in Windows |-> IF w \in S /\ d.row[w] >= 0 /\ d.col[w] >= 0
                        THEN TileOf(d, w) ELSE d.geometry[w]]]

\* Faulty: the new row is not counted.
PlaceUncounted(d, w, r, c, new_row) ==
  [d EXCEPT !.row[w] = r, !.col[w] = c,
            !.active_row[d.workspace[w]] = IF new_row THEN r ELSE @]

\* mawim_manage_window up to its calls of mawim_update_window: w, which is on
\* the list of its workspace, gets the slot (r, c); new_row says whether the
\* row r is opened for it.
PlaceWindow(d, w, r, c, new_row) ==
  LET i == d.workspace[w]
  IN  [d EXCEPT !.row[w] = r,
                !.col[w] = c,
                !.row_count[i] = IF new_row THEN @ + 1 ELSE @,
                !.active_row[i] = IF new_row THEN r ELSE @]

\* mawim_manage_window: a window without a row joins the active row, or, when
\* it is the MaxRows-th window there, the row below.
ManageWindow(d, w) ==
  LET i == d.workspace[w]
      a == d.active_row[i]
      full == Cardinality(WinsOnRow(d, i, a) \cup {w}) = MaxRows
      r == IF d.row[w] >= 0 THEN d.row[w]
           ELSE IF full /\ a + 1 <= MaxRows - 1 THEN a + 1
           ELSE IF full THEN MaxRows - 1
           ELSE a
      new_row == d.row[w] < 0 /\ r # a
      c == IF d.col[w] >= 0 THEN d.col[w]
           ELSE Cardinality(WinsOnRow(d, i, r) \cup {w}) - 1
      placed == PlaceWindow(d, w, r, c, new_row)
  IN  UpdateWindows(placed, IF new_row THEN OnWorkspace(placed, i)
                            ELSE WinsOnRow(placed, i, r))

\* Faulty: the windows to the right keep their columns.
LeaveGap(d, w) == [d EXCEPT !.row[w] = -1, !.col[w] = -1]

\* The windows that shared w's row close the gap that w leaves.
CloseColumn(d, w) ==
  LET rest == WinsOnRow(d, d.workspace[w], d.row[w]) \ {w}
  IN  [d EXCEPT !.row = [@ EXCEPT ![w] = -1],
                !.col = [v \in Windows |->
                           IF v = w THEN -1
                           ELSE IF v \in rest /\ d.col[v] > d.col[w] THEN d.col[v] - 1
                           ELSE d.col[v]]]

\* Faulty: the active row is not pulled back.
CloseRowBelowActive(d, w) ==
  LET i == d.workspace[w]
  IN  [d EXCEPT !.row = [v \in Windows |->
                           IF v = w THEN -1
                           ELSE IF d.workspace[v] = i /\ d.row[v] > d.row[w]
                                THEN d.row[v] - 1
                           ELSE d.row[v]],
                !.col = [@ EXCEPT ![w] = -1],
                !.row_count[i] = @ - 1]

\* The rows below w's row, which only w was on, move up one.
CloseRow(d, w) ==
  LET i == d.workspace[w]
      count == d.row_count[i] - 1
  IN  [d EXCEPT !.row = [v \in Windows |->
                           IF v = w THEN -1
                           ELSE IF d.workspace[v] = i /\ d.row[v] \in (d.row[w] + 1) .. count
                                THEN d.row[v] - 1
                           ELSE d.row[v]],
                !.col = [@ EXCEPT ![w] = -1],
                !.row_count[i] = count,
                !.active_row[i] = IF @ + 1 > count THEN count - 1 ELSE @]

\* Faulty: the other windows of the row are not told their new rectangles.
UnmanageQuietly(d, w) ==
  LET i == d.workspace[w]
  IN  IF WinsOnRow(d, i, d.row[w]) = {w} /\ d.row_count[i] > 1
      THEN UpdateWindows(CloseRow(d, w), Windows)
      ELSE CloseColumn(d, w)

\* mawim_unmanage_window
UnmanageWindow(d, w) ==
  LET i == d.workspace[w]
      rest == WinsOnRow(d, i, d.row[w]) \ {w}
  IN  IF rest # {} THEN UpdateWindows(CloseColumn(d, w), rest)
      ELSE IF d.row_count[i] > 1 THEN UpdateWindows(CloseRow(d, w), Windows)
      ELSE CloseColumn(d, w)

\* mawim_append_window and mawim_remove_window, on lists that are sets
MoveToList(d, w, i) == [d EXCEPT !.workspace[w] = i]

\* The struct of a window is freed; nothing of its layout remains.
ForgetWindow(d, w) ==
  [d EXCEPT !.workspace[w] = Nowhere, !.geometry[w] = NoTile]
-----------------------------------------------------------------------------
Init ==
  /\ desk = [workspace  |-> [w \in Windows |-> Nowhere],
             row        |-> [w \in Windows |-> -1],
             col        |-> [w \in Windows |-> -1],
             geometry   |-> [w \in Windows |-> NoTile],
             row_count  |-> [i \in Workspaces |-> 1],
             active_row |-> [i \in Workspaces |-> 0]]
  /\ active_workspace = 1

\* handle_configure_request of a window that is on no list: it joins the
\* active workspace and is tiled there.
ConfigureNewWindow(w) ==
  /\ desk.workspace[w] = Nowhere
  /\ desk' = ManageWindow(MoveToList(desk, w, active_workspace), w)
  /\ UNCHANGED active_workspace

\* Faulty: a window that asks again is tiled again.
ConfigureAgain(w) ==
  /\ desk.workspace[w] # Nowhere
  /\ desk' = ManageWindow(UnmanageWindow(desk, w), w)
  /\ UNCHANGED active_workspace

\* handle_configure_request of a window that has a tile already
ConfigureTiledWindow(w) ==
  /\ desk.workspace[w] # Nowhere
  /\ desk' = ManageWindow(desk, w)
  /\ UNCHANGED active_workspace

\* handle_destroy_notify
DestroyWindow(w) ==
  /\ desk.workspace[w] # Nowhere
  /\ desk' = ForgetWindow(UnmanageWindow(desk, w), w)
  /\ UNCHANGED active_workspace

\* Faulty: the number is taken for a 0-based index.
SetWorkspaceFromZero(n) ==
  /\ active_workspace' = n - 1
  /\ desk' = UpdateWindows(desk, Windows)

\* handle_set_workspace for an existing workspace
SetWorkspace(n) ==
  /\ active_workspace' = n
  /\ desk' = UpdateWindows(desk, Windows)

\* handle_move_focused_to_workspace, when w has the focus of the active workspace
MoveWindow(w, n) ==
  /\ desk.workspace[w] = active_workspace
  /\ desk' = UpdateWindows(ManageWindow(MoveToList(UnmanageWindow(desk, w), w, n), w),
                           Windows)
  /\ UNCHANGED active_workspace

Next ==
  \/ \E w \in Windows : \/ ConfigureNewWindow(w)
                        \/ ConfigureTiledWindow(w)
                        \/ DestroyWindow(w)
                        \/ \E n \in Workspaces : MoveWindow(w, n)
  \/ \E n \in Workspaces : SetWorkspace(n)

Spec == Init /\ [][Next]_vars
-----------------------------------------------------------------------------
\* The windows that have a slot.
Tiled == {w \in Windows : desk.workspace[w] # Nowhere}

(***************************************************************************)
(* The rows of a workspace are 0 .. row_count - 1, at most MaxRows of      *)
(* them, the last is the active row, and as soon as there are two none is  *)
(* empty.  Opening rows (mawim_manage_window), closing them, moving the    *)
(* rows below up and pulling the active row back (mawim_unmanage_window)   *)
(* have to agree on this: row_count is a divisor in mawim_update_window.   *)
(***************************************************************************)
RowsInUse ==
  \A i \in Workspaces :
    /\ desk.row_count[i] \in 1 .. MaxRows
    /\ desk.active_row[i] = desk.row_count[i] - 1
    /\ \A w \in OnWorkspace(desk, i) : desk.row[w] \in 0 .. desk.row_count[i] - 1
    /\ desk.row_count[i] > 1 =>
         \A r \in 0 .. desk.row_count[i] - 1 : WinsOnRow(desk, i, r) # {}

(***************************************************************************)
(* The columns of the n windows on a row are exactly 0 .. n - 1, whatever  *)
(* the order in which windows came, went and were moved: a new column is   *)
(* computed from a count alone (window->col = wins - 1).                   *)
(***************************************************************************)
ColumnsPacked ==
  \A i \in Workspaces : \A r \in 0 .. desk.row_count[i] - 1 :
    LET wins == WinsOnRow(desk, i, r)
    IN  {desk.col[w] : w \in wins} = 0 .. Cardinality(wins) - 1

(***************************************************************************)
(* A row that is no longer the active one holds fewer than MaxRows         *)
(* windows.  mawim_manage_window compares the number of windows on the     *)
(* active row with max_rows by ==, so that this depends on no other row    *)
(* ever growing and on the active row being the last.                      *)
(***************************************************************************)
ClosedRowsBounded ==
  \A i \in Workspaces : \A r \in 0 .. desk.active_row[i] - 1 :
    Cardinality(WinsOnRow(desk, i, r)) < MaxRows

(***************************************************************************)
(* The rectangle last sent to the X server is the one the layout asks for  *)
(* now, for every tiled window of every workspace.  Each handler updates   *)
(* only the windows it believes to be affected (a row, a workspace, all).  *)
(***************************************************************************)
GeometryCurrent ==
  \A w \in Tiled : desk.geometry[w] = TileOf(desk, w)

Disjoint(g, h) ==
  \/ g.x + g.width <= h.x  \/ h.x + h.width <= g.x
  \/ g.y + g.height <= h.y \/ h.y + h.height <= g.y

(***************************************************************************)
(* Automatic tiling, as the user sees it: the rectangles of two windows of *)
(* one workspace never overlap.                                            *)
(***************************************************************************)
TilesDisjoint ==
  \A v, w \in Tiled :
    (v # w /\ desk.workspace[v] = desk.workspace[w])
      => Disjoint(desk.geometry[v], desk.geometry[w])

(***************************************************************************)
(* No window reaches beyond the screen: its column is smaller than the     *)
(* count its width was divided by, its row smaller than row_count.         *)
(***************************************************************************)
TilesOnScreen ==
  \A w \in Tiled :
    LET g == desk.geometry[w]
    IN  /\ g.x >= 0 /\ g.x + g.width <= DisplayWidth
        /\ g.y >= 0 /\ g.y + g.height <= DisplayHeight

(***************************************************************************)
(* Reading order is stable: while two windows stay in a workspace, the one *)
(* above stays above or on the same row, and on one row the one to the     *)
(* left stays to the left, whatever happens to other windows.  Only the    *)
(* window that a command moves may change its place among the others.      *)
(***************************************************************************)
Before(d, v, w) ==
  \/ d.row[v] < d.row[w]
  \/ d.row[v] = d.row[w] /\ d.col[v] < d.col[w]

StaysPut(w) == w \in Tiled /\ w \in Tiled' /\ ~ \E n \in Workspaces : MoveWindow(w, n)

ReadingOrderStable ==
  [][\A v, w \in Windows :
       (/\ StaysPut(v) /\ StaysPut(w)
        /\ desk.workspace[v] = desk.workspace[w]
        /\ Before(desk, v, w)) => Before(desk', v, w)]_vars
=============================================================================
